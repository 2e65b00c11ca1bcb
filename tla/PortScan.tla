------------------------------- MODULE PortScan -------------------------------
(***************************************************************************)
(* The port-scan detector: half-open connections of every capture are      *)
(* added to what is remembered of their pid (destination ports and hosts,  *)
(* each with the time it was last seen), entries older than the window are *)
(* pruned, and a pid with too many ports, too many hosts or a scanner's    *)
(* name is reported.  The name is that of the first connection, which may  *)
(* have come without one.  (Response follows the container of a pid.)      *)
(*                                                                         *)
(* Time is kept as ages, saturating where the window is over.              *)
(***************************************************************************)
EXTENDS SecurityEvents, FiniteSets

CONSTANTS
  Pids,
  Names,           \* what processes are called (comm)
  Scanners,        \* known_scanner_procs
  Dests,           \* destinations: <<port, host>>
  Window,          \* in ticks
  DistinctPorts, DistinctHosts

ASSUME PortScanAssumption ==
  /\ NoValue \notin Names \cup Scanners
  /\ {Window, DistinctPorts, DistinctHosts} \subseteq Nat

Gone   == NoValue              \* no process has the pid: it has no name either
MaxAge == Window + 1           \* older entries are garbage

VARIABLES
  procs,           \* pid -> name of its process, or Gone
  state,           \* pid -> [comm, ports, hosts]
  reports,         \* findings of a run, until the engine has taken them
  fresh,           \* the last step was a run
  probes,          \* history: <<pid, destination>> -> time since last captured
  metAs            \* history: pid -> the name it came with when first met

vars == <<procs, state, reports, fresh, probes, metAs>>

Ports(ds) == {d[1] : d \in ds}
Hosts(ds) == {d[2] : d \in ds}

Init ==
  /\ procs \in [Pids -> Names \cup {Gone}]
  /\ state = [p \in {} |-> 0]
  /\ reports = {} /\ fresh = FALSE
  /\ probes = [c \in {} |-> 0]
  /\ metAs = [p \in {} |-> NoValue]

-------------------------------------------------------------------------------
(* Run.                                                                    *)

(* The name a connection of the capture is given with its pid.  It is      *)
(* empty when the pid is only blamed (nobody holds the socket, and the pid *)
(* is the lowest of the network namespace) or was gone by the time its     *)
(* name was read.                                                          *)
Process(p, nameless) == IF p \in nameless THEN NoValue ELSE procs[p]

NothingYet(p, nameless) ==
  [comm |-> Process(p, nameless), ports |-> [x \in {} |-> 0], hosts |-> [x \in {} |-> 0]]

Remembered(p, nameless) == IF p \in DOMAIN state THEN state[p] ELSE NothingYet(p, nameless)

(* Mutant: an entry keeps the time it was first seen.                      *)
MutFreshened(entries, seen) ==
  [x \in DOMAIN entries \cup seen |-> IF x \in DOMAIN entries THEN entries[x] ELSE 0]

Freshened(entries, seen) ==
  [x \in DOMAIN entries \cup seen |-> IF x \in seen THEN 0 ELSE entries[x]]

(* Mutant: entries are dropped one tick late.                              *)
MutPruned(entries) ==
  [x \in {y \in DOMAIN entries : entries[y] <= Window + 1} |-> entries[x]]

Pruned(entries) ==
  [x \in {y \in DOMAIN entries : entries[y] <= Window} |-> entries[x]]

(* The half-open connections of the capture, added to what there was.      *)
Accumulated(conns, nameless) ==
  [p \in DOMAIN state \cup {c[1] : c \in conns} |->
     LET seen == {c[2] : c \in {x \in conns : x[1] = p}} IN
       [Remembered(p, nameless) EXCEPT !.ports = Pruned(Freshened(@, Ports(seen))),
                                       !.hosts = Pruned(Freshened(@, Hosts(seen)))]]

Empty(st) == DOMAIN st.ports = {} /\ DOMAIN st.hosts = {}

(* Mutant: a pid nothing is left of is remembered for ever.                *)
MutScanned(conns, nameless) == Accumulated(conns, nameless)

Scanned(conns, nameless) ==
  LET all == Accumulated(conns, nameless) IN [p \in {q \in DOMAIN all : ~Empty(all[q])} |-> all[p]]

Scans(st) ==
  \/ Cardinality(DOMAIN st.ports) >= DistinctPorts
  \/ Cardinality(DOMAIN st.hosts) >= DistinctHosts
  \/ st.comm \in Scanners

Report(p, st) ==
  [pid |-> p, comm |-> st.comm,
   severity |-> IF st.comm \in Scanners THEN SeverityHigh ELSE SeverityMedium]

(* The pids the detector has nothing about.                                *)
Met(conns) == {c[1] : c \in conns} \ DOMAIN state

(* Host connections nobody was found for have no pid and are passed over;  *)
(* nameless are the pids met by a connection that comes without a name.    *)
Run(conns, nameless) ==
  /\ state' = Scanned(conns, nameless)
  /\ fresh' = TRUE
  /\ reports' = {Report(p, state'[p]) : p \in {q \in DOMAIN state' : Scans(state'[q])}}
  /\ probes' = [c \in DOMAIN probes \cup conns |-> IF c \in conns THEN 0 ELSE probes[c]]
  /\ metAs' = [p \in DOMAIN state' |->
                 IF p \in DOMAIN metAs THEN metAs[p] ELSE Process(p, nameless)]
  /\ UNCHANGED procs

-------------------------------------------------------------------------------
(* The machine and the daemon's life.                                      *)

Older(entries) == [x \in DOMAIN entries |-> IF entries[x] < MaxAge THEN entries[x] + 1 ELSE MaxAge]

TakeReports == reports' = {} /\ fresh' = FALSE

Tick ==
  /\ state' = [p \in DOMAIN state |->
                 [state[p] EXCEPT !.ports = Older(@), !.hosts = Older(@)]]
  /\ probes' = [c \in {d \in DOMAIN probes : probes[d] < Window} |-> probes[c] + 1]
  /\ TakeReports
  /\ UNCHANGED <<procs, metAs>>

(* exec, or exit and reuse of the pid by another process.                  *)
Becomes(p, g) ==
  /\ procs[p] # g
  /\ procs' = [procs EXCEPT ![p] = g]
  /\ TakeReports
  /\ UNCHANGED <<state, probes, metAs>>

Restart ==
  /\ state' = [p \in {} |-> 0]
  /\ TakeReports
  /\ probes' = [c \in {} |-> 0]
  /\ metAs' = [p \in {} |-> NoValue]
  /\ UNCHANGED procs

Next ==
  \/ \E conns \in SUBSET (Pids \X Dests) :
       \E nameless \in SUBSET Met(conns) : Run(conns, nameless)
  \/ Tick \/ Restart
  \/ \E p \in Pids, g \in Names \cup {Gone} : Becomes(p, g)

Spec == Init /\ [][Next]_vars

-------------------------------------------------------------------------------
Ages == 0..MaxAge

(* Shapes and ranges; no pid is remembered that has no entry.              *)
TypeOK ==
  /\ procs \in [Pids -> Names \cup {Gone}]
  /\ DOMAIN state \subseteq Pids
  /\ \A p \in DOMAIN state :
       /\ state[p].comm \in Names \cup {NoValue}
       /\ DOMAIN state[p].ports \subseteq Ports(Dests) /\ DOMAIN state[p].hosts \subseteq Hosts(Dests)
       /\ \A x \in DOMAIN state[p].ports : state[p].ports[x] \in Ages
       /\ \A x \in DOMAIN state[p].hosts : state[p].hosts[x] \in Ages
       /\ ~Empty(state[p])
  /\ fresh \in BOOLEAN
  /\ \A r \in reports : r.pid \in DOMAIN state /\ r.severity \in Severity
  /\ DOMAIN probes \subseteq Pids \X Dests
  /\ DOMAIN metAs = DOMAIN state

(* The destinations p was captured probing within the window.              *)
Recent(p) == {c[2] : c \in {d \in DOMAIN probes : d[1] = p}}

(* A sliding window, exactly: after every run, whatever was freshened,     *)
(* pruned or forgotten in the runs before it and however far apart they    *)
(* were, a pid is reported if the destinations captured in the last Window *)
(* reach a threshold, and unless its name says otherwise only then.  (Per  *)
(* pid: two processes that had it within a window are taken together.)     *)
Reaches(ds) ==
  Cardinality(Ports(ds)) >= DistinctPorts \/ Cardinality(Hosts(ds)) >= DistinctHosts

WindowIsExact ==
  fresh =>
    /\ \A p \in Pids : Recent(p) # {} /\ Reaches(Recent(p)) => p \in {r.pid : r \in reports}
    /\ \A r \in reports : Reaches(Recent(r.pid)) \/ r.comm \in Scanners

FlaggedAsScanner(p) == \E r \in reports : r.pid = p /\ r.severity = SeverityHigh

(* A known scanner is reported for its first half-open connection, and so  *)
(* long as one is in the window, unless its pid came with another name, or *)
(* with none, when the detector first met it.                              *)
KnownScannerReported ==
  fresh =>
    \A p \in Pids :
      Recent(p) # {} /\ procs[p] \in Scanners
        => FlaggedAsScanner(p) \/ (p \in DOMAIN metAs /\ metAs[p] # procs[p])

(* "flags on thresholds or known scanner binaries" (README): the same      *)
(* without the exception.  It fails for a pid that was met without its     *)
(* name.                                                                   *)
ScannersAreFlagged ==
  fresh =>
    \A p \in Pids : Recent(p) # {} /\ procs[p] \in Scanners => FlaggedAsScanner(p)
===============================================================================
