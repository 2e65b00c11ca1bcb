# protection: models, checks and proofs

*protection* is a daemon for hosts that run containers. It captures the
processes and connections of the machine on a ticker, hands the capture to five
detectors, de-duplicates what they find, matches it against rules, alerts over
several channels and takes enforcement actions. The modules here model the parts
of it where order, time, failure and shared state matter. Each definition names
the code it stands for in `PROJECT.json` ("map").

## 1. Inventory

| Component (source) | State it keeps | Operations | Talks to |
|---|---|---|---|
| engine (`internal/engine/engine.go`) | `lastSeen` (key -> time), the ticker, alert goroutines | `Run`, `scan`, `handle`, `matchActions`, `dispatchAlerts`, `inCooldown`, `ScanOnce` | calls `Gather`, each detector in turn, the registry; starts a goroutine per alerter and finding |
| findings and rules (`internal/core/event.go`, `internal/config/config.go`) | none | `Key`, severities, `ruleMatches`, `ModeAllows`, default rules | read by the engine |
| actions (`internal/actions`) | the registry, fixed at start-up | kill, stop, neutralize, quarantine, delete, suspend | kernel, file systems, Docker, the panel |
| alert channels (`internal/alerts`) | none | `Send` | HTTP, SMTP |
| process and connection capture (`internal/system`) | a map, a channel and workers during one call | `Gather`, `GatherConnections`, `attachPIDs` | /proc |
| miner (`detectors/miner.go`) | one CPU sample per pid | `Run`, `trackCPU`, `gc` | capture |
| port scan (`detectors/portscan.go`) | per pid: name, container, times of ports and hosts | `Run`, `prunePortState` | capture |
| ddos (`detectors/ddos.go`) | one counter sample per container | `checkContainerRates`; two stateless checks | Docker, capture |
| zip bomb (`detectors/zipbomb.go`) | cleared modification times, the last walk, one sample per pid | `hotScan`, `fullSweep`, `inspect` | the volumes |
| exploit (`detectors/exploit.go`) | none | `Run` | capture, the watched directories |
| container resolver (`detectors/detector.go`) | names of containers, 30 s | `resolve`, `refresh` | Docker |
| command line (`cmd/protection/main.go`) | none after start-up | `cmdRun`, `build` | everything |
| configuration (`internal/config/config.go`, `cmd/protection/config_example.go`) | none after start-up | `Load`, `applyDefaults`, `validate`; the template of `config init` | read by everything |
| Docker client, logging, packaging | none | one request per call; print; install | |

What is hard: the engine is one goroutine, but a scan can outlast the ticker's
interval, alerts overtake it, the select between a tick and the end of the
context is random, and one failing step silently costs a finding a whole
cooldown. The capture is stale when it is acted on. The detectors' memory is
keyed by names the machine reuses (pids, paths, container counters). The socket
walk is a worker pool with a time budget over processes that go on living. The
quarantine can be interrupted between any two system calls.

What makes each component correct:

- engine: each key is let through exactly when its cooldown is over, whatever
  the garbage collection of the map does; every rule that matches contributes
  its actions; a lasting threat is found again and, if an action can end it,
  ended; a signal ends the daemon; alerts of one target stay in order, and none
  outlives its timeout.
- capture: a connection is blamed on a process that held its socket, no result
  gets lost in the pool, and the walk ends.
- miner, port scan, ddos: the incremental memory gives the same verdict as the
  full record of what was captured would, and a name or a container that is
  kept is that of the process it is kept for.
- zip bomb: what the walk no longer looks at is harmless, and what is not
  harmless is seen.
- quarantine: the payload is always whole somewhere.
- response: what is struck is what was found, although pids and containers
  change hands between capture and strike, and is of the half of the machine
  that the mode is about; the server that is suspended is the
  container's, although its name comes from a cache and the panel changes while
  its pages are read.
- configuration: what is accepted can be run, and what `config init` writes is
  accepted.

## 2. Modules

| Module | Models | Instance |
|---|---|---|
| `SecurityEvents` | findings: severity, key, scope, rule matching, default rules | used by the others |
| `Actions` | the registry, what each action is aimed at, which findings it ends | used by `Engine` |
| `Throttle` | abstract specification of the cooldown | instantiated by `Engine` |
| `Engine` | the scan loop, cooldown, rules, actions, alert goroutines, ticker, signal, crash, restart | `MCEngine` |
| `EngineProofs` | theorems about `Engine` and `Config` | |
| `SocketOwners` | `attachPIDs` and the fallback of `GatherConnections` | `MCSocketOwners` |
| `SocketOwnersProofs` | theorems about `SocketOwners` | |
| `Quarantine` | `quarantine_file`, one system call at a time | `MCQuarantine` |
| `QuarantineProofs` | theorems about `Quarantine` | |
| `Miner` | the miner detector | `MCMiner` |
| `MinerProofs` | theorems about `Miner` | |
| `PortScan` | the port-scan detector | `MCPortScan` |
| `PortScanProofs` | theorems about `PortScan` | |
| `Egress` | the ddos detector's container rates | `MCEgress` |
| `EgressProofs` | theorems about `Egress` | |
| `ZipSweep` | the zip-bomb detector's walk, inspection and memory | `MCZipSweep` |
| `ZipSweepProofs` | theorems about `ZipSweep` | |
| `Response` | one finding from capture through resolver to `neutralize` and `suspend_server` | `MCResponse` |
| `ResponseProofs` | theorems about `Response` | |
| `Signatures` | the checks without memory: exploit detector, tool signatures, connection floods | used by `MCEngine` |
| `Config` | defaults, validation, what is built from a configuration, `config init` | used by `MCEngine` |

Definitions that start with `Mut` are slips a maintainer could make in the
definition next to them. Nothing uses them; put in its place, each makes a
property of the runs fail.

### Engine

`phase` is where the goroutine of `Run` is: gathering, between detectors, in the
select, or gone. One scan is `Gather` (or `GatherFails`), for each detector
`RunDetector` (or `DetectorFails`), for each finding `SkipOutOfScope`,
`Suppress` or `Report`, for each of its actions `Enforce` or `ActionFails`, and
`EndScan`. The engine handles a finding, actions included, before the next one;
`Rank` is the order in which a detector appends findings. `Report` is one step,
because `inCooldown` stamps the key and collects garbage under one lock and
nothing else reads the map. `snap` is the stale capture and `threats` the machine
as it is; `Appear` and `Vanish` change the latter at any time, also between the
capture and the action. `TakeTick` is enabled although the context is done, as
Go's select allows. `Crash` and `Stop` lose all memory, `Start` begins with an
empty map (systemd's restart). An alert is an element of `sends` with an age; an
HTTP channel gives up at the timeout and SMTP does not, as `smtp.Send` never
looks at its context.

Time is kept as ages that saturate where the code can no longer tell them
apart: an entry older than twice the cooldown is removed by the next stamp, so
`MaxAge` is one more than that.

The instances of `MCEngine` are daemons that `main.go` could build: a starter
configuration from `RenderConfig`, edited, accepted by `Load`, and turned into
detectors, alerters and a registry by `BuildDetectors`, `BuildAlerters` and
`HasDocker`. Its findings about exploits and floods are those `Signatures` makes
of a capture.

`Throttle` says what the map promises, without a map: a key that was let
through is closed for exactly `Cooldown`, and open otherwise. `Engine`
implements it with `quiet` := time left of an entry's cooldown (0 if it has no
entry) and `verdict` := the last decision.

### SocketOwners

The producer (`List`, `ListFails`, `HandOut`, `Close`) is the loop at
`net.go:333-357`, the workers (`Take`, `ReadLink`, `Finish`) the goroutines at
299-326. `HandOut` blocks on the full channel. `Expire` spends the budget,
which the producer asks for between two processes. `Change` lets processes open,
close and hand over sockets between any two of these steps. `held` and `steady`
record who held which socket at some moment and all along.

### Quarantine

`step` is the next system call of `QuarantineFile.Execute` and `copyThenRemove`.
Every call may fail where the code looks at the error, a write error may show
only at close, where it does not, and the daemon may crash between two calls.

### Response

One finding (`finding`) about one pid goes through the stages `listed`
(`ListProcesses` has read the pid and its container), `captured`
(`GatherConnections` has attributed a connection to the pid, or blamed it on the
pid as the lowest of its network namespace), `reported` (a
detector has made a finding of it), `asking` (the resolver waits for Docker),
`acting` (the engine runs its actions) and `walking` (`suspend_server` is
between two pages). The three ways a finding comes by its container are the
actions `ReportProcess` (as listed), `ReportConnection` (as listed, or else read
again now) and `ReportScan` (remembered, or else as listed, or else read again);
`RateFinding` takes it from Docker. A connection whose process was listed
without a container gets that of any process of its network namespace
(`net.go:101-103`, `133-137`): `SeeConnection` therefore lets it have any running
container, which for a host process that has joined the namespace is a
neighbour's. `Mode` is `general.mode`; a finding with a container, borrowed or
not, counts as containerised (`InScope`). `LookUp`, `Ask`, `Answered` and `Refused` are
`resolve` and `refresh`; Docker makes its list at one moment (`answer`) and it
arrives at a later one. `KillContainer` and `KillProcess` are `neutralize`.
`StartWalk`, `FoundOnPage`, `NextPage`, `NoMatch` and `Suspend` are
`resolveServerID` and `suspend`, one request each; a page is what the panel
holds when it is fetched. The panel's servers come and go only during a walk:
before it they may be any, which `StartWalk` chooses.

Meanwhile `Fork`, `Join` and `Exit` hand the pid to other processes, in other
containers, `Start` and `Stop` change the containers, `Create` and `Delete` the
panel. `tenant.found` marks the process that was captured, `mixed` and
`inherited` record where the code has put a finding together from two processes:
two that had the pid one after the other, or one and its network neighbour.
`steady` and `shifted` are, during a walk through the panel, the servers that
were there all along and those of which a predecessor was deleted. Each detector has a resolver of its own; a finding meets one of them,
and the model has one.

### Config and Signatures

Both are operators, no state. `Load` is `ApplyDefaults` and `Valid`; of a text
only whether it is set is kept, of a list what is in it. `Template` is the
starter file and `RenderConfig` fills it in. A flag's text goes into the YAML as
it is; `plain` says of the flags that the result still parses, `parses` the same
of a file, and `Load` rejects one that does not. A process of `Signatures` bears the
marks its names and command line match; the order of the checks decides.
`ContainsWord` is the search loop of `util.go`, compared in `MCEngine` with what
it stands for on all short texts (`WordsAreFound`).

### Miner, PortScan, Egress, ZipSweep

Each keeps the detector's memory next to a history of what really happened, and
the properties compare the two:

- `Miner`: `samples` is the code's map; `trail` records every capture that has
  seen the present process of a pid. Captures come at any distance and are not
  of one moment: `ListProcesses` takes the list of pids, `ReadProcess` reads them
  one by one, and `Run` stamps the capture after the connections were gathered,
  up to `MaxDelay` later. A pool connection belongs to the pid it was resolved
  to, whose name and owner are then known, or is blamed on a pid of its namespace. `Fork` and `Exit` pass pids between processes between
  any two of these steps, so that a pid may be read as what it has become.
- `PortScan`: `state` is the code's map, with ages in place of times; `probes`
  records when each destination was last captured. `Becomes` is exec or the
  reuse of a pid. A connection that is only blamed on a pid has no process name
  (`net.go:130-132`), nor has one whose process was gone when its name was read:
  `nameless` are the pids that a run meets in this way, and `metAs` records what
  name the code has taken.
- `Egress`: `prev` is the code's map; `since` records what a container really
  sent since it was sampled. `Capture`, `List`, `Sample` and `Finish` are
  separate steps, since a request to Docker may be slow or fail, and containers
  stop, start (counting from zero) and send meanwhile. A sample carries the time
  of the capture, as in the code, so `late` records which samples are younger
  than they claim.
- `ZipSweep`: `Stat` takes the file info, `Inspect` reads the archive later.
  Between them owners write, move and delete. Every write has its own
  modification time and a move keeps it (Assumption: nobody sets times by
  hand, and the file system's clock tells two writes apart). An archive that
  cannot be opened counts as harmless and is noted, as in the code; `blind`
  records where that happened or where something else was read than was noted,
  and `Unread` are the paths where the present archive is the one so noted.

## 3. Runs

| Run | Question | Result |
|---|---|---|
| `engine_safety` | Is the cooldown map a throttle, do alerts of one target overlap? | holds |
| `engine_liveness` | Does a signal end the daemon, does a threat end that an action can end, is one that none can end let through again and again? | holds |
| `engine_shielded` | "Every matching rule contributes its actions" for a process with two findings | violated |
| `sockets` | Are owners holders, does nothing get lost, does the walk end? | holds |
| `quarantine` | Is a payload always whole somewhere? | holds |
| `quarantine_collision` | The same for files of one name, within a second | violated |
| `miner` | Is "sustained CPU" what the process's captures say, and what it really burnt? | holds |
| `portscan` | Is the memory the sliding window, and is a known scanner reported at once if it is met under its name? | holds |
| `egress` | Is a flood reported if and only if there was one? | holds |
| `egress_restart` | The "only if" for containers that were restarted | violated |
| `zipsweep` | Is what the walk passes over harmless, is a bomb that stays reported? | holds |
| `response` | Is what is struck what was found, unless the finding is of two processes, what is suspended its server, and a server found that is on the panel all along? | holds |

The bounds, and why they are enough:

- `engine_safety`: mode `server`, Discord and SMTP; a flood and a dropped program
  on the host and an escape from a container; two detectors; `Cooldown = 2`,
  `SendTimeout = 1`, so that entries live through all their stages (fresh, old,
  garbage) while another key is stamped, and a send can be in flight when its
  key opens if it is not stopped. The findings have three keys; a fourth would
  only repeat them. The flood is enforced, the dropped program only reported,
  the escape out of scope.
- `engine_liveness`: a miner, which an action ends, and a port scan, for which
  the default rules only alert, from two detectors. `Cooldown = 1`, `SendTimeout
  = 0` keep the graph small enough for the temporal check; a cooldown of one
  tick still lets a finding be suppressed and come back. A third finding would
  take the check from half a minute to more than five.
- `engine_shielded` needs two findings with one key.
- `sockets`: two processes, two fds each, two sockets, two workers, a channel
  of one job, one fd to a job, one change during the walk. Both processes may
  hold both sockets, so workers disagree about an owner; the channel is full and
  the budget ends in every position.
- `quarantine`: three payloads, two paths, three seconds: a path can be
  quarantined again after a new upload.
- `miner`: one pid, since the detector asks of a pid only its own sample; seven
  ticks, `Sustained = 2`, captures that take up to one tick
  (`MaxDelay`): a pid can be hot, left, taken over between two captures or within
  one, and hot again, and the stamps of two captures can be late by different
  amounts.
- `portscan`: two pids, two ports, two hosts, `Window = 1`: an entry is fresh,
  at the edge of the window and past it. Ages saturate, so time is not bounded.
- `egress`: two containers, two packets each between restarts, samples and
  checks of at most two ticks; loads that flood by packets only, by bytes only,
  and not at all. The containers are symmetric. `Word = 64` is above every real
  counter, as 2^64 is.
- `zipsweep`: a zip and a gzip path, three writes, four kinds of content, among
  them one that looks harmless by another's size and one whose gzip trailer has
  wrapped.
- `response`: two containers, one that belongs to a server and is named by its
  short identifier, one that belongs to none and whose name begins another
  server's uuid; two servers on pages of one each; the cache serves for one tick
  (`TTL`) and Docker takes up to one to answer (`Latency`); a container's age
  saturates at four ticks (`MaxUp`), one past the time after which it must be
  known. One pid and one finding, since the engine handles one at a time to its
  end and the remembered container is the pid's own.

Fairness. `Engine`: the loop's own steps are weakly fair, as one goroutine
takes them; the ticker and the clock go on. Reading /proc, a detector and an
action may fail any number of times, but not every time (strong fairness of the
successful step). Strong fairness of `Stop` is Go's uniform choice among ready
cases of a select. A send has fairness only on HTTP channels, whose requests
carry the context with the timeout; nothing ends an SMTP send, so `NoOverlappingSends`
is about the other channels. Crashes and signals
have none: the properties that need the daemon to stay up say so (`Up`).
`SocketOwners`: goroutines are scheduled and system calls return; the budget
need not expire and no process need change. `ZipSweep`: the engine goes on
calling the detector, which goes on with its walk, and the interval passes;
`BombsAreCaught` excludes a daemon that is restarted for ever.

Deadlock is checked in every run. Where a system rests, the model has a step
for it (`Wait`, `Returned`, `End`).

## 4. What the runs found

1. `engine_shielded`: a process with sustained CPU and a pool connection gives
   a medium and a high finding with one key (`Event.Key` leaves the severity
   out). The medium one is always listed first and closes the key, so the rule
   for high findings is never applied to it, although `README.md:183` and
   `config.go:178-179` say that every matching rule contributes its actions.
2. `quarantine_collision`: the destination is `<second>_<base name>` and rename
   replaces, so of two archives of one name quarantined within a second one is
   lost, although the action exists to preserve evidence (`file.go:15-16`).
3. `egress_restart`: only the packet counter is compared before both are
   subtracted (`ddos.go:87-91`). A restarted container that sent at least as
   many packets but fewer bytes than before wraps to an enormous byte rate and is
   reported as a flood.

Four more statements of the code's own words are false of it. They are defined
in the modules, and TLC refutes each at once when its name is put into the
configuration given here; they have no run of their own, and the passing
properties next to them carry the exception that each shows to be needed.

| Definition | Configuration | Words | What happens |
|---|---|---|---|
| `SendsHaveATimeout` (`Engine`) | `engine_safety` | "callers run it in a goroutine with a timeout" (`alerter.go:14-15`) | `SMTP.Send` ignores its context (`smtp.go:30`): a mail server that stops answering keeps a goroutine for ever, one more per cooldown |
| `ScannersAreFlagged` (`PortScan`) | `portscan` | "flags on thresholds or known scanner binaries" (`README.md:135-137`) | a first half-open connection that nobody was found for is blamed on a pid without its name (`net.go:130-132`), and the empty name is remembered for the window (`portscan.go:59`) |
| `NeutralizeEndsTheThreat` (`Response`) | `response` | "kills the container for containerised threats, else `SIGKILL`s the host process" (`README.md:174`) | a host process that has joined a container's network namespace is given that container (`net.go:133-137`); the container is killed, the process goes on |
| `ModeConfines` (`Response`) | `response` with `Mode = "docker"` | "`docker`: Containerised threats only" (`README.md:99-104`) | by the same loan the host process counts as containerised, and is killed when Docker was unreachable at start-up |

Seen while modelling besides:

- A list in the configuration replaces the built-in one (`config.go:227` and
  its like), while the starter file (`config_example.go:23`) and
  `config.go:396-397` say it extends it: `Lists` in `ApplyDefaults`.
- `nsenter` is one of the listed tools, and tools are asked first
  (`exploit.go:61`), so the escape by `nsenter --target 1` that `README.md:150`
  calls critical is reported as high, unless a wrapper's command line names it.
- A finding about a setuid file has no pid and no container, and its rule's
  `neutralize` always fails (`SetuidFilesHaveNobody` in `MCEngine`).
- `config init` validates what it has written (`main.go:304-307`); when that
  fails, by a flag that breaks the YAML, the file stays and the next attempt
  refuses to overwrite it (`main.go:294`).
- The processes' times are those at which they were read, the capture's stamp
  that of its end: a single CPU rate may be off by the ratio of the two. Over a
  run of hot captures the errors cancel but for one capture (`BurntForReal`).

The passing properties carry exceptions the models show to be needed:
`FlaggedOnlyIfSustained` excepts a process that took over a hot pid between two
captures (it inherits the time its predecessor became hot); `KnownScannerReported`
a pid that came with another name, or with none, when it was first met;
`ClearedIsHarmless` a path whose noted time is of an archive that could not be
opened, or that was exchanged between file info and reading; `BombsAreCaught`
a bomb that itself was noted so (it is never looked at again until it is
written), and no later one at its path;
`FlaggedIffFlooding` samples that were taken after their capture's time.
`EvidenceKept` excepts a write error that shows only at close.
`StrikeHitsTheFound` excepts a finding whose parts come from two processes (the
pid changed hands between the list and the connections, the connection borrowed
a neighbour's container, or the port-scan detector remembers a container from
before), and speaks of a found process that
is still there: when it is gone, whoever has its pid or its container is struck.
`OnlyTheOffendingServer` excepts a container of no server, which is looked up by
its bare name, so that a server whose uuid begins with it is suspended;
`SteadyServerIsFound` a server that moves up because one before it is deleted
during the walk; `SettledContainersAreKnown` a container younger than
the cache's 30 s and Docker's answer, and a refresh that Docker has just refused.

## 5. Proofs

The runs show these on small instances, the theorems for all values of the
constants that satisfy the modules' assumptions (`ActionsAssumption`,
`EngineAssumption`, `ConfigAssumption`, `SocketOwnersAssumption`,
`QuarantineAssumption`, `MinerAssumption`, `PortScanAssumption`,
`EgressAssumption`, `ZipAssumption`, `ResponseAssumption`): ranges of numbers,
types of tables, and what the words of a configuration contain. TLC evaluates
each in the run of its module.

Every safety invariant and every action property that a passing run checks is
proved, most for all constants, four under a hypothesis about the world that the
theorem names:

| Hypothesis | of theorem | says | holds in |
|---|---|---|---|
| `SendTimeout < Cooldown` | `SendsNeverOverlap` | 12 s against minutes | `engine_safety` |
| `OwnBases` | `EvidenceIsKept` | no two watched archives have one base name | `quarantine`; `quarantine_collision` shows what happens without it |
| `WingsNames`, `UuidsTellApart` | `OnlyOffenders` | containers are named and labelled as Wings does it; a short identifier begins its own server's uuid only | `MCResponse` (an `ASSUME`) |
| `NothingWraps(most)`, for some number | `RatesAreReal` | no 64-bit counter goes round within the age of a sample | `MCEgress` (an `ASSUME`) |

Each proof has the same form: an inductive invariant, a lemma that the initial
states satisfy it, one lemma or step for each action, and a last step that
combines them. What follows says why the property alone is not inductive and
what the invariant adds.

### Engine and Config

- `TypeCorrect`: `TypeOK` is inductive as it stands. Two facts carry it: the
  actions still to be run come from `MatchActions`, and an HTTP send is not
  aged beyond its timeout.
- `EngineIsThrottle`: `Spec => T!Spec`. Under `TypeOK` every step of the engine
  is a step of `Throttle` or leaves it alone. The heart is that `Stamped` only
  drops entries older than two cooldowns, for which `Quiet` is 0 already, and that
  saturating an age at `MaxAge` leaves `Quiet` at 0.
- `SendsNeverOverlap`. The strengthening says of every HTTP send that its key
  has an entry in `lastSeen` of exactly the send's age: then a key that is let
  through has no such send in flight, since its entry is at least `Cooldown`
  old and the send at most `SendTimeout`.
- `LoadedConfigRuns`, for any words, durations and numbers: a configuration that
  `Load` accepts keeps its shape, has positive durations (so that
  `time.NewTicker` does not panic, and `EngineAssumption` holds of the
  cooldown), a known mode, rules, something in every list, and a destination for
  every channel that is on.
- `InitWritesAConfig`: of flags that leave the YAML well-formed (`plain`),
  `config init` writes a file that is accepted, whichever of them are given, and
  that is armed only by `--dry-run false`. What other flags do is in section 4.

### SocketOwners

For any number of processes, fds, sockets and workers, any capacity and chunk
size and any number of changes:

- `TypeCorrect`: shapes, and the bound of the channel.
- `OwnersHeldTheirSockets`: the invariant `HeldInv` says that what is in a
  worker's own map or in the merged map was held at some moment; a link is read
  at such a moment, and laying one map over another keeps it.
- `NothingIsLost`: the invariant `LossInv` follows a socket that is held all
  along through the five places its listed fd can be in (not handed out, in the
  channel, in a worker's hands, recognised, merged); each step moves it to the
  next one, and at the end only the last is left.

### Quarantine

- `TypeCorrect`: `TypeOK` and `SourceInv`, that the action in hand is of a file
  that is there.
- `EvidenceIsKept`: while a call is in flight the payload's whereabouts hang on
  names. `NamesInv`: no entry of the archive is younger than its last quarantine;
  so (`NewName`) nothing has the name that the call is about to write,
  (`NothingWhole`) a copy under way overwrites nothing that was whole, and
  (`CopyInv`) the source is removed only when its copy is whole or was lost at
  close.

### Miner

For any pids, programs, threshold, duration and delay of captures. The
detector keeps one sample and one time per pid; the properties speak of the
whole history (`trail`) of the process that has the pid now. `PastInv` relates
them, for each pid:

- `History`: a process with a history runs; its captures but the one under way
  are stamped, each at most `MaxDelay` after it was read; the one under way is
  what `shot` holds.
- `Sampled`: the sample of a pid is of the last capture and, where the history
  is not empty, of the same process; only a process in `inherited` has a sample
  and no history of its own.
- `KeptFor`: `highSince` is the stamp of the first of a run of hot captures that
  lasts to the present (but for the inherited), and no such run began before it
  (for everyone). The threshold summed up over the run goes into the invariant
  (`UsedFrom`), as a sum over a sequence cannot be had by induction here; each
  capture adds its own term.

`OnlyTheBusyAreFlagged`, `TheFlaggedBurnt` and `TheBusyAreFlagged` follow for
the run in which something is found. In the second the stamps' errors cancel
but for those of the first and the last capture.

### PortScan

- `WindowCorrect`: `MirrorInv` says that a pid's two maps hold, for each port
  and host, the time since it was last captured, as the history (`probes`)
  has it, where that is within the window, and that a pid without entry has no
  history there; pruning late or early makes no difference to it. `RunInv`:
  after a run nothing older is left and the reports are what is left.
- `ScannersReported` adds `NameInv`: the remembered name is the one that the
  pid's first connection came with (`metAs`), empty or not.

### Egress

- `RatesAreReal`: `SentInv`: between two samples a counter grows by what was
  sent, unless it was reset, and a sample that was not late is as old as its
  capture. `BoundInv(most)` bounds what can have been sent, so that the
  difference modulo 2^w is the difference; `OnceInv`: a container is sampled
  once in a scan.

### ZipSweep

- `WhatIsClearedIsHarmless`: `TimesInv`: no two archives have one modification
  time; `JobInv`: whatever has the time that the inspection started from has
  its size, too; `ClearedInv`: what has the time that was remembered is judged
  harmless, wherever it is by now. An archive that owners move or rewrite is one that
  was there before or has a new time (`OldOrNew`), and neither disturbs them.

### Response

For any containers, servers, names, page size and delays:

- `StrikesHit`: `HeldInv`: unless `mixed` (which a borrowed container makes it),
  the finding's container, if it has one, is that of the found process while that
  runs; `MemoryInv` says the same
  of the container that the port-scan detector remembers; `WatchInv`: nobody is
  found before the capture.
- `SettledAreKnown`: `AnswerInv`: the list Docker is making misses at most what
  came up after it; `CacheInv`: the cache misses at most what came up since it
  was filled and the answer's delay before.
- `OnlyOffenders`: `NamedInv`: the finding's name and server are those of its
  container, however old the cache; `TargetInv`: what the walk found and what
  is suspended matches the finding's key. `KeysTellApart` then says that a key
  of one server is the key of no other: prefixes of one word are prefixes of
  each other, and a short identifier begins one uuid only.
- `SteadyAreFound`: `AheadInv`: until something is found, and unless a server
  before this very one was deleted (`shifted`), a server that is there all along and matches has a
  rank at or behind the page to be fetched. Servers that are added have higher
  numbers and do not change its rank (`RankGrows`).

### Only model-checked

- The liveness properties: fairness and `ENABLED` are beyond the prover. These are
  `ShutdownCompletes`, `PersistentThreatReported`, `EnforceableThreatsEnd`
  (`Engine`), `Terminates` (`SocketOwners`) and `BombsAreCaught` (`ZipSweep`).
- What `ContainsWord`, a recursive function over texts, returns (`WordsAreFound` in
  `MCEngine`): induction over data is beyond the prover. The other assertions of
  `MCEngine` are about the rule set and findings of its instances.

## 6. Not modelled

- Parsing of /proc, YAML, JSON and archives; message bodies; logging; the
  installer: no state, no order.
- `ScanOnce` and the other commands: they print and exit.
- Which processes seem to be extracting (`ZipBombDetector.rates`): any archive
  may be looked at by the hot scan. Nor the mount namespaces its paths are of.
- Docker's `Inspect` and `ContainerByID`, which nothing in the daemon's loop calls.

Hazards that are listed and covered by no property: the memory of cleared
archives, which only grows (`zipbomb.go:167`); the order of the exploit
detector's signs, which costs a severity (`exploit.go:61`); the paths of open
files, which are those of the process's own mount namespace although
`proc.go:118` says host paths (`proc.go:128`).

## 7. Plan

Done: the modules above, in this order, since the engine's loop decides what
every other part is worth, the socket walk is the one concurrent algorithm, the
quarantine the one operation with a crash to survive, and the detectors' memory
decides what the engine gets to see.

Then the way of a finding to its target (`Response`), the capture's own time in
`Miner`, and the parts that keep no state but decide what the rest is made of
(`Config`, `Signatures`).

Next, modelling: the hot scan's rates, and mount namespaces, if a property about
extractions is to be had.

Next, proofs: every safety and action property the runs check is proved. What
is left is to state more that is worth proving:

1. the safety half of the liveness properties: from every state of the socket
   walk that is not done somebody's guard holds (no deadlock of producer, channel and
   workers), and a measure that each step but the world's decreases;
2. `Signatures`: which findings one capture gives rise to, for any processes.
