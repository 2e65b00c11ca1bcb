-------------------------------- MODULE Miner --------------------------------
(***************************************************************************)
(* The miner detector: a name, CPU sustained over several captures, and a  *)
(* connection to a pool port.  The sustained signal is kept incrementally, *)
(* one sample per pid, while processes start, exit and leave their pid to  *)
(* others between two captures.                                            *)
(*                                                                         *)
(* Captures come at any distance from each other (a scan may be late or    *)
(* its capture may fail).  A capture is not of one moment: the processes   *)
(* are listed, then read one by one, then the connections are gathered,    *)
(* and only then is it stamped with the time.  Names and connections are   *)
(* abstracted to the marks a program bears.                                *)
(***************************************************************************)
EXTENDS SecurityEvents, Sequences

CONSTANTS
  Pids,
  Programs,        \* the programs that run: each a set of marks
  Burn,            \* jiffies a process may use in a tick of the clock
  Threshold,       \* cpu_threshold, in jiffies to a tick
  Sustained,       \* sustained_seconds, in ticks
  MaxDelay,        \* bound: ticks a capture takes (its socket walks 1.5 s each)
  MaxNow           \* bound: ticks the clock shows

Marks == {"name", "deleted", "pool"}

ASSUME MinerAssumption ==
  /\ Programs \subseteq SUBSET Marks
  /\ Burn \subseteq Nat
  /\ Threshold \in Nat \ {0} /\ Sustained \in Nat
  /\ MaxDelay \in Nat /\ MaxNow \in Nat

Gone  == [jiffies |-> 0, program |-> {}, runs |-> FALSE]
Never == 0                     \* the zero time of highSince
Unstamped == 0                 \* of a capture that is still being made

VARIABLES
  now,             \* the clock; the first capture comes after time 0
  scanned,         \* the stamp of the last capture
  procs,           \* pid -> process or Gone
  capturing,       \* ListProcesses or GatherConnections is under way
  started,         \* when it began
  unread,          \* the listed pids still to be read
  shot,            \* pid -> the process as it was read
  samples,         \* pid -> [jiffies, at, highSince]
  found,           \* what the run has just found, in no particular order
  trail,           \* history: pid -> the captures that saw its present process
  captured,        \* history: pids the last capture saw
  inherited        \* history: pids whose present process took over from
                   \* another one's sample, and has been hot ever since

capture == <<capturing, started, unread, shot>>
memory  == <<scanned, samples, captured>>
vars    == <<now, procs, capture, memory, found, trail, inherited>>

Running   == {p \in Pids : procs[p].runs}
Shot      == DOMAIN shot
NoneYet   == [p \in {} |-> 0]

Init ==
  /\ now = 0 /\ scanned = 0
  /\ procs = [p \in Pids |-> Gone]
  /\ capturing = FALSE /\ started = 0 /\ unread = {} /\ shot = NoneYet
  /\ samples = NoneYet
  /\ found = {}
  /\ trail = [p \in Pids |-> <<>>]
  /\ captured = {} /\ inherited = {}

-------------------------------------------------------------------------------
(* The capture of the processes.                                           *)

ListProcesses ==
  /\ ~capturing
  /\ capturing' = TRUE /\ started' = now
  /\ unread' = Running /\ shot' = NoneYet
  /\ found' = {}
  /\ UNCHANGED <<now, procs, memory, trail, inherited>>

(* A listed process that is gone by now is skipped; a pid that was taken   *)
(* over is read as what it has become.                                     *)
ReadProcess(p) ==
  /\ p \in unread
  /\ unread' = unread \ {p}
  /\ IF p \in Running
       THEN /\ shot' = [q \in Shot \cup {p} |-> IF q = p THEN procs[p] ELSE shot[q]]
            /\ trail' = [trail EXCEPT ![p] =
                 Append(@, [jiffies |-> procs[p].jiffies, read |-> now, at |-> Unstamped])]
       ELSE UNCHANGED <<shot, trail>>
  /\ UNCHANGED <<now, procs, capturing, started, memory, found, inherited>>

-------------------------------------------------------------------------------
(* trackCPU.                                                               *)

(* Mutant: the threshold is for a capture, however long since the last.    *)
MutHot(p) ==
  /\ p \in DOMAIN samples
  /\ shot[p].jiffies >= samples[p].jiffies
  /\ shot[p].jiffies - samples[p].jiffies >= Threshold

Hot(p) ==
  /\ p \in DOMAIN samples
  /\ shot[p].jiffies >= samples[p].jiffies
  /\ shot[p].jiffies - samples[p].jiffies >= Threshold * (now - samples[p].at)

(* Mutant: a cool capture does not end the run of hot ones.                *)
MutHighSince(p) ==
  IF p \in DOMAIN samples /\ samples[p].highSince # Never THEN samples[p].highSince
  ELSE IF Hot(p) THEN now ELSE Never

HighSince(p) ==
  IF ~Hot(p) THEN Never
  ELSE IF samples[p].highSince = Never THEN now ELSE samples[p].highSince

(* Mutant: the time since the last capture counts, not since the first.    *)
MutCpuHigh(p) == Hot(p) /\ now - samples[p].at >= Sustained

CpuHigh(p) == Hot(p) /\ now - HighSince(p) >= Sustained

(* Mutant: the sample of a pid outlives its process.                       *)
MutSamples ==
  [p \in Shot \cup DOMAIN samples |->
     IF p \in Shot THEN [jiffies |-> shot[p].jiffies, at |-> now, highSince |-> HighSince(p)]
                   ELSE samples[p]]

(* Every process of the capture is sampled; gc drops all other pids.       *)
Samples ==
  [p \in Shot |-> [jiffies |-> shot[p].jiffies, at |-> now, highSince |-> HighSince(p)]]

-------------------------------------------------------------------------------
(* Run: one finding for a process with a name or with sustained CPU, then  *)
(* one for a process with a connection to a pool.                          *)

Severe(p) ==
  CASE "name" \in shot[p].program /\ CpuHigh(p)    -> SeverityCritical
    [] "deleted" \in shot[p].program /\ CpuHigh(p) -> SeverityHigh
    [] "name" \in shot[p].program                  -> SeverityHigh
    [] OTHER                                       -> SeverityMedium

Signals(p) ==
  (shot[p].program \cap {"name"}) \cup (IF CpuHigh(p) THEN {"cpu"} ELSE {})

ProcessFindings ==
  {[pid |-> p, severity |-> Severe(p), signals |-> Signals(p)] :
     p \in {q \in Shot : Signals(q) # {}}}

(* One for every pid that has a connection to a pool.  A connection whose  *)
(* process was resolved is of whoever has the pid when it is gathered; one *)
(* of a container's namespace that nobody was found for is blamed on the   *)
(* namespace's lowest pid, which may have gone since.                      *)
PoolFindings(resolved, blamed) ==
  {[pid |-> p, severity |-> SeverityHigh, signals |-> {"pool"}] :
     p \in {q \in resolved : "pool" \in procs[q].program} \cup blamed}

(* Is what was read under p the process that has the pid now?              *)
Own(p) == trail[p] # <<>> /\ trail[p][Len(trail[p])].at = Unstamped

(* The capture is stamped when it is complete, and the detector runs.      *)
Run ==
  /\ capturing /\ unread = {}
  /\ now > scanned
  /\ \E resolved \in SUBSET (Shot \cap Running), blamed \in SUBSET Shot :
       found' = ProcessFindings \cup PoolFindings(resolved, blamed)
  /\ samples' = Samples
  /\ scanned' = now
  /\ trail' = [p \in Pids |-> IF Own(p) THEN [trail[p] EXCEPT ![Len(trail[p])].at = now]
                                        ELSE trail[p]]
  /\ captured' = Shot
  /\ inherited' = {p \in inherited \cap Shot : Own(p) => Hot(p)}
  /\ capturing' = FALSE /\ shot' = NoneYet /\ started' = 0
  /\ UNCHANGED <<now, procs, unread>>

-------------------------------------------------------------------------------
(* The machine.                                                            *)

Tick ==
  /\ now < MaxNow
  /\ capturing => now - started < MaxDelay
  /\ now' = now + 1
  /\ \E burnt \in [Running -> Burn] :
       procs' = [p \in Pids |-> IF p \in Running THEN [procs[p] EXCEPT !.jiffies = @ + burnt[p]]
                                                 ELSE Gone]
  /\ found' = {}
  /\ UNCHANGED <<capture, memory, trail, inherited>>

Fork(p, program) ==
  /\ p \notin Running
  /\ procs' = [procs EXCEPT ![p] = [jiffies |-> 0, program |-> program, runs |-> TRUE]]
  /\ inherited' = inherited \cup ({p} \cap (captured \cup Shot))
  /\ found' = {}
  /\ UNCHANGED <<now, capture, memory, trail>>

Exit(p) ==
  /\ p \in Running
  /\ procs' = [procs EXCEPT ![p] = Gone]
  /\ trail' = [trail EXCEPT ![p] = <<>>]
  /\ found' = {}
  /\ UNCHANGED <<now, capture, memory, inherited>>

(* The daemon is stopped or crashes, and starts again.                     *)
Restart ==
  /\ capturing' = FALSE /\ started' = 0 /\ unread' = {} /\ shot' = NoneYet
  /\ samples' = NoneYet
  /\ found' = {}
  /\ trail' = [p \in Pids |-> <<>>]
  /\ captured' = {} /\ inherited' = {}
  /\ UNCHANGED <<now, scanned, procs>>

(* Bounded run: the clock has come to its end.                             *)
End == now = MaxNow /\ UNCHANGED vars

Next ==
  \/ ListProcesses \/ Run \/ Tick \/ Restart \/ End
  \/ \E p \in Pids : \/ ReadProcess(p) \/ Exit(p)
                      \/ \E program \in Programs : Fork(p, program)

Spec == Init /\ [][Next]_vars

-------------------------------------------------------------------------------
Process == [jiffies : Nat, program : SUBSET Marks, runs : BOOLEAN]
Sample  == [jiffies : Nat, at : 1..MaxNow, highSince : 0..MaxNow]
Finding == [pid : Pids, severity : Severity, signals : SUBSET {"name", "cpu", "pool"}]

(* Shapes and ranges; no more is remembered than the last capture showed,  *)
(* and only what runs is captured.                                         *)
TypeOK ==
  /\ now \in 0..MaxNow /\ scanned \in 0..now
  /\ procs \in [Pids -> Process]
  /\ capturing \in BOOLEAN /\ started \in 0..now /\ unread \subseteq Pids
  /\ Shot \subseteq Pids \ unread /\ shot \in [Shot -> Process]
  /\ \A p \in Shot : shot[p].runs
  /\ ~capturing => unread = {} /\ Shot = {}
  /\ captured \subseteq Pids
  /\ DOMAIN samples = captured /\ samples \in [DOMAIN samples -> Sample]
  /\ found \subseteq Finding
  /\ trail \in [Pids -> Seq([jiffies : Nat, read : 0..MaxNow, at : 0..MaxNow])]
  /\ inherited \subseteq Pids

(* What "must stay above cpu_threshold for sustained_seconds" (README)     *)
(* means for a process that the captures t have seen: from some capture on *)
(* at least Sustained before the last one, every capture was hot.          *)
HotAt(t, i) == t[i].jiffies - t[i - 1].jiffies >= Threshold * (t[i].at - t[i - 1].at)

SustainedCPU(t) ==
  \E i \in 2..Len(t) :
    /\ t[Len(t)].at - t[i].at >= Sustained
    /\ \A j \in i..Len(t) : HotAt(t, j)

FlaggedBusy == {f.pid : f \in {g \in found : "cpu" \in g.signals}}

(* No process is called busy before its own captures say so, although the  *)
(* detector remembers one sample and one time per pid and pids pass from   *)
(* one process to the next: only a process that was forked under a pid     *)
(* that a capture had seen in other hands, and outdid it, is excepted.     *)
FlaggedOnlyIfSustained ==
  \A p \in FlaggedBusy \ inherited : trail[p] # <<>> => SustainedCPU(trail[p])

(* A process that stayed busy is flagged whatever its pid was before it,   *)
(* however irregular the captures.                                         *)
FlaggedIfSustained ==
  [][scanned' # scanned =>
       \A p \in Pids : Own(p) /\ SustainedCPU(trail'[p]) => p \in FlaggedBusy']_vars

(* The rate between two captures may be far off, as the stamps come after  *)
(* the readings by a time that varies.  But the errors do not add up: over *)
(* all the captures for which a process was hot it has really used the     *)
(* threshold, but for the time that one capture takes.                     *)
BurntForReal ==
  \A p \in FlaggedBusy \ inherited :
    LET t == trail[p]
        last == Len(t) IN
      t # <<>> =>
        \E i \in 2..last :
          /\ t[last].at - t[i].at >= Sustained
          /\ t[last].jiffies - t[i - 1].jiffies
               >= Threshold * (t[last].read - t[i - 1].read - MaxDelay)
===============================================================================
