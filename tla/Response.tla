------------------------------- MODULE Response -------------------------------
(***************************************************************************)
(* From a capture to the strike: the life of one finding about a process   *)
(* or a container.  Its container is read at the capture, remembered from  *)
(* an earlier one, or read when the finding is reported; the container's   *)
(* name and server come from a cache that is up to 30 s old; neutralize    *)
(* strikes the container or the pid; suspend_server looks for the server   *)
(* through the pages of the panel.  Meanwhile the pid passes from process  *)
(* to process, containers start and stop, and servers are created and      *)
(* deleted.                                                                *)
(*                                                                         *)
(* One pid and one finding at a time: the engine handles a finding to its  *)
(* end before the next, and asks one thing of one pid.  Names, labels and  *)
(* ids are sequences of letters, so that prefixes are what they are.       *)
(***************************************************************************)
EXTENDS Integers, Sequences, SequencesExt

CONSTANTS
  Mode,            \* general.mode
  Containers,      \* container ids; an id is never used again
  Name,            \* [Containers -> a name]
  Label,           \* [Containers -> the first of the server labels, or NoValue]
  Servers,         \* the panel's internal ids
  Uuid, Ident,     \* [Servers -> ...]
  ServerOf,        \* [Containers -> the server it is run for, or NoServer]
  PageSize,        \* 100
  TTL,             \* the cache's 30 s, in ticks
  Latency,         \* bound: ticks Docker takes to answer (its client's 15 s)
  MaxUp            \* bound: where a container's age saturates

Events == INSTANCE SecurityEvents

NoValue   == <<>>
NoBox     == "host"
NoServer  == 0
Fresh     == 0
Expired   == TTL + 1
Strings   == Seq(Nat)

ASSUME ResponseAssumption ==
  /\ NoBox \notin Containers
  /\ Name \in [Containers -> Strings \ {NoValue}] /\ Label \in [Containers -> Strings]
  /\ Servers \subseteq Nat \ {NoServer} /\ IsFiniteSet(Servers)
  /\ Uuid \in [Servers -> Strings] /\ Ident \in [Servers -> Strings]
  /\ ServerOf \in [Containers -> Servers \cup {NoServer}]
  /\ PageSize \in Nat \ {0} /\ TTL \in Nat /\ Latency \in Nat /\ MaxUp \in Nat
  /\ MaxUp > TTL + Latency

VARIABLES
  tenant,          \* who has the pid: [box, found, runs]
  up,              \* container -> 0 if stopped, else 1 + ticks since it started
  docker,          \* the daemon was given a Docker client at start-up
  cache, age,      \* the resolver: containers it knows, ticks since the refresh
  answer, waited,  \* Docker's list on its way, ticks since it was asked for
  memory,          \* the port-scan detector's container for the pid, or NoBox
  stage,           \* of the finding in hand
  finding,         \* the finding in hand: [kind, box, name, server]
  todo,            \* its actions still to be run
  panel,           \* the servers there are (while suspend_server looks)
  page, target,    \* the page it fetches next, the id it found
  suspended,       \* what this finding's suspension has hit
  mixed,           \* history: the finding is put together from two processes
  inherited,       \* history: the memory is an earlier process's, or mixed
  steady, shifted  \* history of the walk: servers there all along; servers
                   \* that one before them was deleted

machine == <<tenant, up, docker>>
cached  == <<cache, age, answer, waited>>
scans   == <<memory, inherited>>
walk    == <<panel, page, target, steady, shifted, suspended>>
hand    == <<stage, finding, todo, mixed>>
vars    == <<machine, cached, scans, walk, hand>>

Kinds     == {"process", "connection", "scan", "rate"}
Nobody    == [box |-> NoBox, found |-> FALSE, runs |-> FALSE]
NoFinding == [kind |-> "process", box |-> NoBox, name |-> NoValue, server |-> NoValue]
Running   == {c \in Containers : up[c] > 0}
OnceUp(n) == IF n < MaxUp THEN n + 1 ELSE n

-------------------------------------------------------------------------------
(* Names and keys.                                                         *)

PteroServerUUID(c) == IF Label[c] # NoValue THEN Label[c] ELSE Name[c]

SuspendKey == IF finding.server # NoValue THEN finding.server ELSE finding.name

(* Equal, a beginning of the uuid, or longer than the short identifier.    *)
Matches(key, s) ==
  \/ Uuid[s] = key \/ Ident[s] = key
  \/ IsPrefix(key, Uuid[s]) \/ IsPrefix(Ident[s], key)

(* The panel lists servers by id, PageSize to a page.  What it holds when  *)
(* nobody looks does not matter and is left open.                          *)
Rank(s)    == Cardinality({r \in panel : r < s})
OnPage(n)  == {s \in panel : Rank(s) \div PageSize = n - 1}
TotalPages == (Cardinality(panel) + PageSize - 1) \div PageSize

Init ==
  /\ tenant = Nobody
  /\ up = [c \in Containers |-> 0]
  /\ docker \in BOOLEAN
  /\ cache = {} /\ age = Expired /\ answer = {} /\ waited = 0
  /\ memory = NoBox
  /\ stage = "watch" /\ finding = NoFinding /\ todo = {}
  /\ panel = {} /\ page = 1 /\ target = NoServer /\ steady = {} /\ shifted = {}
  /\ suspended = {} /\ mixed = FALSE /\ inherited = FALSE

-------------------------------------------------------------------------------
(* Capture.                                                                *)

(* The cgroup may not be readable; on the host there is no container.      *)
Readings == {tenant.box, NoBox}

(* ListProcesses reads the container of the pid's process.                 *)
ListProcess ==
  /\ stage = "watch" /\ tenant.runs
  /\ \E kind \in Kinds \ {"rate"}, box \in Readings :
       finding' = [NoFinding EXCEPT !.kind = kind, !.box = box]
  /\ tenant' = [tenant EXCEPT !.found = TRUE]
  /\ stage' = "listed"
  /\ UNCHANGED <<up, docker, cached, scans, todo, mixed, walk>>

(* GatherConnections, later: the connection is of whoever has the pid now  *)
(* (or is blamed on it, as the lowest of its network namespace), its       *)
(* container the one that was listed, or, where none was, that of any      *)
(* process in the same namespace.  A host process that has joined the      *)
(* namespace of a container thus borrows the container of a neighbour.     *)
SeeConnection ==
  /\ stage = "listed" /\ finding.kind # "process"
  /\ tenant.runs
  /\ \E group \in Running \cup {NoBox} :
       /\ finding' = [finding EXCEPT !.box = IF @ # NoBox THEN @ ELSE group]
       /\ mixed' = (~tenant.found \/ (finding.box = NoBox /\ group \notin Readings))
  /\ tenant' = [tenant EXCEPT !.found = TRUE]
  /\ stage' = "captured"
  /\ UNCHANGED <<up, docker, cached, scans, todo, walk>>

(* Mutant: the rates are read without a Docker client.                     *)
MutRateFinding(c) ==
  /\ stage = "watch" /\ c \in Running
  /\ finding' = [kind |-> "rate", box |-> c, name |-> Name[c], server |-> NoValue]
  /\ stage' = "reported"
  /\ UNCHANGED <<machine, cached, scans, todo, mixed, walk>>

(* The ddos detector's list of containers is one of its own.               *)
RateFinding(c) ==
  /\ stage = "watch" /\ docker /\ c \in Running
  /\ finding' = [kind |-> "rate", box |-> c, name |-> Name[c], server |-> NoValue]
  /\ stage' = "reported"
  /\ UNCHANGED <<machine, cached, scans, todo, mixed, walk>>

-------------------------------------------------------------------------------
(* The detectors report it.                                                *)

(* ContainerIDForPID: the pid's container as it is at the moment.          *)
BoxNow == IF tenant.runs THEN Readings ELSE {NoBox}

Report(box) ==
  /\ \E read \in BoxNow : finding' = [finding EXCEPT !.box = IF box # NoBox THEN box ELSE read]
  /\ stage' = "reported"
  /\ UNCHANGED <<machine, cached, todo, walk>>

(* A process is reported with the container it was listed with.            *)
ReportProcess ==
  /\ stage = "listed" /\ finding.kind = "process"
  /\ stage' = "reported"
  /\ UNCHANGED <<machine, cached, scans, finding, todo, mixed, walk>>

(* The port-scan detector keeps the first container it saw under the pid.  *)
Remembered == IF memory # NoBox THEN memory ELSE finding.box

(* Mutant: every detector trusts that memory.                              *)
MutReportConnection ==
  /\ stage = "captured" /\ finding.kind = "connection"
  /\ Report(Remembered)
  /\ UNCHANGED <<scans, mixed>>

(* A connection without a container has its pid's container read again.    *)
ReportConnection ==
  /\ stage = "captured" /\ finding.kind = "connection"
  /\ Report(finding.box)
  /\ UNCHANGED <<scans, mixed>>

Remembers ==
  /\ memory' = Remembered
  /\ inherited' = IF memory # NoBox THEN inherited
                  ELSE finding.box # NoBox /\ (mixed \/ ~tenant.found)

ReportScan ==
  /\ stage = "captured" /\ finding.kind = "scan"
  /\ Report(Remembered)
  /\ Remembers
  /\ mixed' = IF memory # NoBox THEN inherited ELSE mixed

Finished ==
  /\ stage' = "watch"
  /\ finding' = NoFinding
  /\ todo' = {}
  /\ mixed' = FALSE
  /\ tenant' = [tenant EXCEPT !.found = FALSE]
  /\ panel' = {} /\ page' = 1 /\ target' = NoServer /\ steady' = {} /\ shifted' = {}
  /\ suspended' = {}

(* Too few ports and hosts so far: the connection is only remembered.      *)
Notice ==
  /\ stage = "captured" /\ finding.kind = "scan"
  /\ Remembers
  /\ Finished
  /\ UNCHANGED <<up, docker, cached>>

(* The window passes, and the entry with it.                               *)
Forget ==
  /\ stage = "watch" /\ memory # NoBox
  /\ memory' = NoBox /\ inherited' = FALSE
  /\ UNCHANGED <<machine, cached, walk, hand>>

-------------------------------------------------------------------------------
(* The resolver.                                                           *)

Resolvable == docker /\ finding.box # NoBox

(* The engine handles what the mode lets it; a server is only known with   *)
(* its container.                                                          *)
InScope == Events!ModeAllows(Mode, finding.box # NoBox)

(* The name and the server of the finding's container, if known is aware   *)
(* of it; then the engine has matched its rules.                           *)
Annotate(known) ==
  /\ finding' = IF finding.box \in known
                  THEN [finding EXCEPT !.name = Name[finding.box],
                                       !.server = PteroServerUUID(finding.box)]
                  ELSE finding
  /\ stage' = "acting"
  /\ todo' = IF InScope THEN {"neutralize", "suspend_server"} ELSE {}
  /\ UNCHANGED <<machine, scans, walk, mixed>>

Unresolvable ==
  /\ stage = "reported" /\ ~Resolvable
  /\ Annotate({})
  /\ UNCHANGED cached

LookUp ==
  /\ stage = "reported" /\ Resolvable
  /\ age <= TTL
  /\ Annotate(cache)
  /\ UNCHANGED cached

(* Docker makes its list at one moment and delivers it at a later one.     *)
Ask ==
  /\ stage = "reported" /\ Resolvable
  /\ age > TTL
  /\ stage' = "asking"
  /\ answer' = Running /\ waited' = 0
  /\ UNCHANGED <<machine, cache, age, scans, finding, todo, mixed, walk>>

Answered ==
  /\ stage = "asking"
  /\ cache' = answer /\ age' = Fresh
  /\ answer' = {} /\ waited' = 0
  /\ Annotate(answer)

(* Mutant: they pass for fresh.                                            *)
MutRefused ==
  /\ stage = "asking"
  /\ answer' = {} /\ waited' = 0
  /\ age' = Fresh /\ UNCHANGED cache
  /\ Annotate(cache)

(* The old names serve on, and the next finding asks again.                *)
Refused ==
  /\ stage = "asking"
  /\ answer' = {} /\ waited' = 0
  /\ UNCHANGED <<cache, age>>
  /\ Annotate(cache)

-------------------------------------------------------------------------------
(* The actions, in any order.                                              *)

Done(action) == todo' = todo \ {action}

StopContainer(c) ==
  /\ up' = [up EXCEPT ![c] = 0]
  /\ IF tenant.runs /\ tenant.box = c
       THEN tenant' = Nobody /\ inherited' = (inherited \/ memory # NoBox)
       ELSE UNCHANGED <<tenant, inherited>>

(* neutralize kills the finding's container, through Docker ...            *)
KillContainer ==
  /\ stage = "acting" /\ "neutralize" \in todo
  /\ Resolvable
  /\ finding.box \in Running
  /\ StopContainer(finding.box)
  /\ Done("neutralize")
  /\ UNCHANGED <<docker, cached, memory, walk, stage, finding, mixed>>

(* ... or, without one or without Docker, whoever has the pid.             *)
KillProcess ==
  /\ stage = "acting" /\ "neutralize" \in todo
  /\ ~Resolvable
  /\ finding.kind # "rate"
  /\ tenant.runs
  /\ tenant' = Nobody /\ inherited' = (inherited \/ memory # NoBox)
  /\ Done("neutralize")
  /\ UNCHANGED <<up, docker, cached, memory, walk, stage, finding, mixed>>

(* Nothing is there to be killed, or Docker or the kernel refuses.         *)
NeutralizeFails ==
  /\ stage = "acting" /\ "neutralize" \in todo
  /\ Done("neutralize")
  /\ UNCHANGED <<machine, cached, scans, walk, stage, finding, mixed>>

-------------------------------------------------------------------------------
(* suspend_server.                                                         *)

Quit ==
  /\ Done("suspend_server")
  /\ stage' = "acting"
  /\ panel' = {} /\ page' = 1 /\ target' = NoServer /\ steady' = {} /\ shifted' = {}

(* Nothing to suspend: the action succeeds quietly.                        *)
NoKey ==
  /\ stage = "acting" /\ "suspend_server" \in todo
  /\ SuspendKey = NoValue
  /\ Quit
  /\ UNCHANGED <<machine, cached, scans, finding, mixed, suspended>>

(* Mutant: without a key the first server matches.                         *)
MutStartWalk ==
  /\ stage = "acting" /\ "suspend_server" \in todo
  /\ stage' = "walking"
  /\ panel' \in SUBSET Servers /\ steady' = panel'
  /\ UNCHANGED <<machine, cached, scans, finding, todo, mixed, page, target, shifted, suspended>>

StartWalk ==
  /\ stage = "acting" /\ "suspend_server" \in todo
  /\ SuspendKey # NoValue
  /\ stage' = "walking"
  /\ panel' \in SUBSET Servers /\ steady' = panel'
  /\ UNCHANGED <<machine, cached, scans, finding, todo, mixed, page, target, shifted, suspended>>

Found == {s \in OnPage(page) : Matches(SuspendKey, s)}

(* The first match of the page ends the search.                            *)
FoundOnPage ==
  /\ stage = "walking" /\ target = NoServer
  /\ \E s \in Found : (\A r \in Found : s <= r) /\ target' = s
  /\ UNCHANGED <<machine, cached, scans, hand, panel, page, steady, shifted, suspended>>

NextPage ==
  /\ stage = "walking" /\ target = NoServer
  /\ Found = {}
  /\ page < TotalPages
  /\ page' = page + 1
  /\ UNCHANGED <<machine, cached, scans, hand, panel, target, steady, shifted, suspended>>

(* Mutant: the last page is never fetched.                                 *)
MutNoMatch ==
  /\ stage = "walking" /\ target = NoServer
  /\ Found = {}
  /\ page + 1 >= TotalPages
  /\ Quit
  /\ UNCHANGED <<machine, cached, scans, finding, mixed, suspended>>

NoMatch ==
  /\ stage = "walking" /\ target = NoServer
  /\ Found = {}
  /\ page >= TotalPages
  /\ Quit
  /\ UNCHANGED <<machine, cached, scans, finding, mixed, suspended>>

(* A page cannot be fetched, or the panel refuses the suspension.          *)
PanelFails ==
  /\ stage = "walking"
  /\ Quit
  /\ UNCHANGED <<machine, cached, scans, finding, mixed, suspended>>

Suspend ==
  /\ stage = "walking" /\ target \in panel
  /\ suspended' = suspended \cup {target}
  /\ Quit
  /\ UNCHANGED <<machine, cached, scans, finding, mixed>>

(* The engine goes on to the next finding.                                 *)
Finish ==
  /\ \/ stage = "acting" /\ todo = {}
     \/ stage = "listed" /\ ~tenant.runs          \* its connection is gone
  /\ Finished
  /\ UNCHANGED <<up, docker, cached, scans>>

-------------------------------------------------------------------------------
(* The machine, Docker, the panel and time.                                *)

Fork(box) ==
  /\ ~tenant.runs
  /\ box \in Running \cup {NoBox}
  /\ tenant' = [box |-> box, found |-> FALSE, runs |-> TRUE]
  /\ UNCHANGED <<up, docker, cached, scans, walk, hand>>

(* A container's first process starts on the host and joins it.            *)
Join(c) ==
  /\ tenant.runs /\ tenant.box = NoBox /\ c \in Running
  /\ tenant' = [tenant EXCEPT !.box = c]
  /\ UNCHANGED <<up, docker, cached, scans, walk, hand>>

Exit ==
  /\ tenant.runs
  /\ tenant' = Nobody /\ inherited' = (inherited \/ memory # NoBox)
  /\ UNCHANGED <<up, docker, cached, memory, walk, hand>>

Start(c) ==
  /\ c \notin Running
  /\ up' = [up EXCEPT ![c] = 1]
  /\ UNCHANGED <<tenant, docker, cached, scans, walk, hand>>

Stop(c) ==
  /\ c \in Running
  /\ StopContainer(c)
  /\ UNCHANGED <<docker, cached, memory, walk, hand>>

Create(s) ==
  /\ stage = "walking" /\ s \notin panel
  /\ panel' = panel \cup {s}
  /\ UNCHANGED <<machine, cached, scans, page, target, steady, shifted, suspended, hand>>

(* Servers that come after a deleted one move up, maybe to a page the walk *)
(* has behind it.                                                          *)
Delete(s) ==
  /\ stage = "walking" /\ s \in panel
  /\ panel' = panel \ {s}
  /\ steady' = steady \ {s}
  /\ shifted' = (shifted \cup {r \in panel : s < r})
  /\ UNCHANGED <<machine, cached, scans, page, target, suspended, hand>>

Tick ==
  /\ stage = "asking" => waited < Latency
  /\ waited' = IF stage = "asking" THEN waited + 1 ELSE waited
  /\ age' = IF age <= TTL THEN age + 1 ELSE age
  /\ up' = [c \in Containers |-> IF c \in Running THEN OnceUp(up[c]) ELSE 0]
  /\ UNCHANGED <<tenant, docker, cache, answer, scans, walk, hand>>

Next ==
  \/ ListProcess \/ SeeConnection \/ ReportProcess \/ ReportConnection \/ ReportScan
  \/ Notice \/ Forget
  \/ Unresolvable \/ LookUp \/ Ask \/ Answered \/ Refused
  \/ KillContainer \/ KillProcess \/ NeutralizeFails
  \/ NoKey \/ StartWalk \/ FoundOnPage \/ NextPage \/ NoMatch \/ PanelFails \/ Suspend
  \/ Finish \/ Exit \/ Tick
  \/ \E c \in Containers : RateFinding(c) \/ Join(c) \/ Start(c) \/ Stop(c)
  \/ \E box \in Containers \cup {NoBox} : Fork(box)
  \/ \E s \in Servers : Create(s) \/ Delete(s)

Spec == Init /\ [][Next]_vars

-------------------------------------------------------------------------------
Finding == [kind : Kinds, box : Containers \cup {NoBox}, name : Strings, server : Strings]

(* Shapes and ranges; a finding in hand that concerns no process is the    *)
(* ddos detector's, and never without Docker.                              *)
TypeOK ==
  /\ tenant \in [box : Containers \cup {NoBox}, found : BOOLEAN, runs : BOOLEAN]
  /\ tenant.box \in Running \cup {NoBox}
  /\ up \in [Containers -> 0..MaxUp]
  /\ panel \subseteq Servers
  /\ docker \in BOOLEAN
  /\ cache \subseteq Containers /\ answer \subseteq Containers
  /\ age \in Fresh..Expired /\ waited \in 0..Latency
  /\ memory \in Containers \cup {NoBox} /\ inherited \in BOOLEAN
  /\ stage \in {"watch", "listed", "captured", "reported", "asking", "acting", "walking"}
  /\ finding \in Finding
  /\ finding.kind = "rate" => docker /\ finding.box # NoBox
  /\ todo \subseteq {"neutralize", "suspend_server"}
  /\ mixed \in BOOLEAN
  /\ page \in Nat \ {0} /\ target \in Servers \cup {NoServer}
  /\ steady \subseteq panel /\ shifted \subseteq Servers
  /\ suspended \subseteq Servers

(* "stop this threat" (Neutralize): whatever is struck, a found process    *)
(* that is still there is among it, although its container may have been   *)
(* read before, at or after the capture, or not at all, and although       *)
(* Docker may have been missing at start-up.  Only a finding put together  *)
(* from two processes (the pid changed hands, or a connection was given    *)
(* the container of a network neighbour) may strike beside it.             *)
StrikeHitsTheFound ==
  [][(KillContainer \/ KillProcess) /\ tenant.found /\ ~mixed => ~tenant'.runs]_vars

(* "suspends the offending server" (SuspendServer): for a container that   *)
(* is run for a server no other server is suspended, whatever the panel    *)
(* does during the walk, and none at all for what has no container.  (A    *)
(* container of no server is looked up by its bare name.)                  *)
OnlyTheOffendingServer ==
  \A s \in suspended :
    /\ finding.box # NoBox
    /\ ServerOf[finding.box] \in {s, NoServer}

(* What it takes: Wings labels a server's containers with its uuid, if at   *)
(* all, and names them by it or by the short identifier;                   *)
WingsNames ==
  \A c \in Containers : ServerOf[c] # NoServer =>
    {Label[c], Name[c]} \ {NoValue} \subseteq {Uuid[ServerOf[c]], Ident[ServerOf[c]]}

(* that identifier is where the uuid begins, and no other uuid begins so.  *)
UuidsTellApart ==
  \A s, t \in Servers : IsPrefix(Ident[s], Uuid[t]) <=> s = t

(* "kills the container for containerised threats, else SIGKILLs the host  *)
(* process" (README): the same without an exception.  It fails where the   *)
(* connection of a host process borrows a container.                       *)
NeutralizeEndsTheThreat ==
  [][(KillContainer \/ KillProcess) /\ tenant.found => ~tenant'.runs]_vars

(* "scope what protection acts on ... docker: containerised threats only"  *)
(* (README): a found process that is killed is of the mode's half.  In     *)
(* mode docker it fails for the same connection, without Docker.           *)
ModeConfines ==
  [][KillProcess /\ tenant.found => Events!ModeAllows(Mode, tenant.box # NoBox)]_vars

(* A server that is on the panel all along is missed only if the panel     *)
(* fails, or if one before it is deleted during the walk.                  *)
SteadyServerIsFound ==
  [][NoMatch => \A s \in steady : Matches(SuspendKey, s) => s \in shifted]_vars

(* The names that serve for 30 s are never missed by a container that has  *)
(* been up for longer than they and Docker's answer take: when its finding *)
(* is looked up it gets a server to suspend, unless Docker refused just    *)
(* now.                                                                    *)
SettledContainersAreKnown ==
  [][(LookUp \/ Answered) /\ up[finding.box] > TTL + Latency + 1
       => finding'.server # NoValue]_vars
===============================================================================
