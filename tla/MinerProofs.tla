----------------------------- MODULE MinerProofs ------------------------------
(***************************************************************************)
(* Proofs about Miner, for any pids, programs, threshold and bounds:       *)
(*   - the type invariant;                                                 *)
(*   - a process that is flagged for its CPU was busy in its own captures, *)
(*     and really used what it is accused of;                              *)
(*   - a process that its captures show busy is flagged.                   *)
(*                                                                         *)
(* The detector keeps one sample and one time per pid.  The invariant says *)
(* what they stand for: the whole run of captures the history remembers.   *)
(***************************************************************************)
EXTENDS Miner, Integers, TLAPS

Reading  == [jiffies : Nat, read : 0..MaxNow, at : 0..MaxNow]
Captures == Seq(Reading)

(* How many captures of the present process are complete.                  *)
Seen(p) == IF Own(p) THEN Len(trail[p]) - 1 ELSE Len(trail[p])

-------------------------------------------------------------------------------
(* The inductive invariant.                                                *)

(* A capture's stamp comes after the reading, but not long after it.       *)
StampedWell(c) == c.at \in 1..scanned /\ c.read <= c.at /\ c.at <= c.read + MaxDelay

(* The history of a process: it is running, all its captures but the one   *)
(* under way are stamped, and that one is what shot holds of it.           *)
History(p) ==
  /\ trail[p] # <<>> => p \in Running
  /\ \A i \in 1..Seen(p) : StampedWell(trail[p][i])
  /\ Own(p) => /\ p \in Shot
               /\ trail[p][Len(trail[p])].jiffies = shot[p].jiffies
               /\ trail[p][Len(trail[p])].read \in started..now
  /\ p \in Shot /\ trail[p] # <<>> => Own(p)

(* The sample of a pid is of the last capture, and of the present process  *)
(* unless that has taken over from another.                                *)
Sampled(p) ==
  /\ p \in captured => samples[p].at = scanned /\ samples[p].highSince <= scanned
  /\ Seen(p) # 0 => /\ p \in captured
                    /\ trail[p][Seen(p)].jiffies = samples[p].jiffies
                    /\ trail[p][Seen(p)].at = scanned
                    /\ capturing => p \in unread \cup Shot
  /\ p \in Running \ inherited => /\ p \in captured => Seen(p) # 0
                                  /\ p \in Shot => Own(p)

HotFrom(t, i, n) == \A j \in i..n : HotAt(t, j)

(* Over the captures from the one before i to n it used the threshold.     *)
UsedFrom(t, i, n) == t[n].jiffies - t[i - 1].jiffies >= Threshold * (t[n].at - t[i - 1].at)

(* The time kept for a pid is that of the first capture of a run of hot    *)
(* ones that lasts to the present; and no such run began before it.        *)
KeptFor(p) ==
  /\ samples[p].highSince # Never /\ p \notin inherited
       => \E i \in 2..Seen(p) : /\ trail[p][i].at = samples[p].highSince
                                /\ HotFrom(trail[p], i, Seen(p))
                                /\ UsedFrom(trail[p], i, Seen(p))
  /\ \A i \in 2..Seen(p) :
       HotFrom(trail[p], i, Seen(p))
         => samples[p].highSince # Never /\ samples[p].highSince <= trail[p][i].at

Past(p) == History(p) /\ Sampled(p) /\ (Seen(p) # 0 => KeptFor(p))

(* A capture is not delayed for long, and until it is complete nothing is  *)
(* found.                                                                  *)
CapturingInv == capturing => now - started <= MaxDelay /\ found = {}

PastInv == TypeOK /\ CapturingInv /\ \A p \in Pids : Past(p)

IInv == PastInv /\ FlaggedOnlyIfSustained /\ BurntForReal

-------------------------------------------------------------------------------
(* Sequences of captures.                                                  *)

LEMMA Appended ==
  ASSUME NEW t \in Captures, NEW c \in Reading
  PROVE  LET u == Append(t, c) IN
           /\ u \in Captures /\ Len(u) = Len(t) + 1 /\ u # <<>>
           /\ u[Len(u)] = c
           /\ \A i \in 1..Len(t) : u[i] = t[i]
BY DEF Captures

(* Stamping the last capture changes nothing else.                         *)
LEMMA Stamped ==
  ASSUME NEW t \in Captures, t # <<>>, NEW at \in 0..MaxNow
  PROVE  LET u == [t EXCEPT ![Len(t)].at = at] IN
           /\ u \in Captures /\ Len(u) = Len(t) /\ u # <<>>
           /\ u[Len(t)].at = at
           /\ u[Len(t)].jiffies = t[Len(t)].jiffies
           /\ u[Len(t)].read = t[Len(t)].read
           /\ \A i \in 1..(Len(t) - 1) : u[i] = t[i]
<1> DEFINE n == Len(t)
           c == [t[n] EXCEPT !.at = at]
           u == [t EXCEPT ![n] = c]
<1>1. n \in 1..n /\ n \in Nat /\ t[n] \in Reading
  BY DEF Captures
<1>2. c \in Reading /\ c.at = at /\ c.jiffies = t[n].jiffies /\ c.read = t[n].read
  BY <1>1 DEF Reading
<1>3. u \in Captures /\ Len(u) = n /\ u # <<>> /\ u[n] = c /\ \A i \in 1..(n - 1) : u[i] = t[i]
  BY <1>1, <1>2 DEF Captures
<1>4. [t EXCEPT ![Len(t)].at = at] = u
  OBVIOUS
<1> QED BY <1>2, <1>3, <1>4

-------------------------------------------------------------------------------
(* Type correctness.                                                       *)

LEMMA EmptyMap ==
  ASSUME NEW S PROVE DOMAIN NoneYet = {} /\ NoneYet \in [DOMAIN NoneYet -> S]
BY DEF NoneYet

LEMMA SeverityOf ==
  /\ SeverityMedium \in Severity /\ SeverityHigh \in Severity /\ SeverityCritical \in Severity
BY DEF Severity, SeverityInfo, SeverityMedium, SeverityHigh, SeverityCritical

LEMMA InitTypeOK == Init => TypeOK
<1> SUFFICES ASSUME Init PROVE TypeOK
  OBVIOUS
<1>1. Shot = {} /\ shot \in [Shot -> Process]
  BY EmptyMap DEF Init, Shot
<1>2. DOMAIN samples = {} /\ samples \in [DOMAIN samples -> Sample]
  BY EmptyMap DEF Init
<1>3. procs \in [Pids -> Process]
  BY DEF Init, Gone, Process
<1>4. now \in 0..MaxNow /\ scanned \in 0..now /\ started \in 0..now
  BY MinerAssumption DEF Init
<1>5. trail \in [Pids -> Captures]
  BY DEF Init, Captures
<1>6. capturing \in BOOLEAN
  BY DEF Init
<1> QED BY <1>1, <1>2, <1>3, <1>4, <1>5, <1>6 DEF Init, TypeOK, Captures, Reading

(* What a run finds are findings.                                          *)
LEMMA FindingsShape ==
  ASSUME TypeOK, NEW resolved \in SUBSET (Shot \cap Running), NEW blamed \in SUBSET Shot
  PROVE  ProcessFindings \cup PoolFindings(resolved, blamed) \subseteq Finding
<1>1. \A p \in Shot : p \in Pids
  BY DEF TypeOK
<1>2. ASSUME NEW p \in Shot PROVE Severe(p) \in Severity
  BY SeverityOf DEF Severe
<1>3. ASSUME NEW p \in Shot PROVE Signals(p) \subseteq {"name", "cpu", "pool"}
  BY DEF Signals
<1>4. ProcessFindings \subseteq Finding
  BY <1>1, <1>2, <1>3 DEF ProcessFindings, Finding
<1>5. PoolFindings(resolved, blamed) \subseteq Finding
  BY <1>1, SeverityOf DEF PoolFindings, Finding
<1> QED BY <1>4, <1>5

(* The captures have found something new: time has passed since the last.  *)
LEMMA SamplesShape ==
  ASSUME TypeOK, now > scanned
  PROVE  /\ now \in 1..MaxNow
         /\ DOMAIN Samples = Shot
         /\ Samples \in [Shot -> Sample]
         /\ \A p \in Shot : /\ Samples[p].jiffies = shot[p].jiffies
                            /\ Samples[p].at = now
                            /\ Samples[p].highSince = HighSince(p)
<1>1. now \in 1..MaxNow
  BY MinerAssumption DEF TypeOK
<1>2. ASSUME NEW p \in Shot PROVE HighSince(p) \in 0..MaxNow
  <2>1. CASE Hot(p)
    <3>1. p \in DOMAIN samples
      BY <2>1 DEF Hot
    <3>2. samples[p].highSince \in 0..MaxNow
      BY <3>1 DEF TypeOK, Sample
    <3> QED BY <1>1, <3>2, <2>1 DEF HighSince, Never
  <2>2. CASE ~Hot(p)
    BY <2>2, MinerAssumption DEF HighSince, Never
  <2> QED BY <2>1, <2>2
<1>3. ASSUME NEW p \in Shot PROVE shot[p].jiffies \in Nat
  BY DEF TypeOK, Process
<1> QED BY <1>1, <1>2, <1>3 DEF Samples, Sample

LEMMA TrailShape == TypeOK <=> TypeOK /\ trail \in [Pids -> Captures]
BY DEF TypeOK, Captures, Reading

LEMMA ReadTypeOK == ASSUME TypeOK, NEW p \in Pids, ReadProcess(p) PROVE TypeOK'
<1>1. /\ now' = now /\ scanned' = scanned /\ procs' = procs /\ capturing' = capturing
      /\ started' = started /\ samples' = samples /\ captured' = captured
      /\ found' = found /\ inherited' = inherited
      /\ p \in unread /\ unread' = unread \ {p}
  BY DEF ReadProcess, memory
<1>2. capturing
  BY <1>1 DEF TypeOK
<1>3. CASE p \in Running
  <2> DEFINE c == [jiffies |-> procs[p].jiffies, read |-> now, at |-> Unstamped]
  <2>1. /\ shot' = [q \in Shot \cup {p} |-> IF q = p THEN procs[p] ELSE shot[q]]
        /\ trail' = [trail EXCEPT ![p] = Append(trail[p], c)]
    BY <1>3 DEF ReadProcess
  <2>2. c \in Reading
    BY MinerAssumption DEF TypeOK, Process, Reading, Unstamped
  <2>3. trail' \in [Pids -> Captures]
    BY <2>1, <2>2, TrailShape, Appended
  <2>4. Shot' = Shot \cup {p} /\ Shot' \subseteq Pids \ unread'
    BY <1>1, <2>1 DEF Shot, TypeOK
  <2>5. shot' \in [Shot' -> Process] /\ \A q \in Shot' : shot'[q].runs
    BY <1>3, <2>1, <2>4 DEF TypeOK, Running
  <2> QED BY <1>1, <1>2, <2>3, <2>4, <2>5 DEF TypeOK, Captures, Reading
<1>4. CASE p \notin Running
  <2>1. shot' = shot /\ trail' = trail
    BY <1>4 DEF ReadProcess
  <2> QED BY <1>1, <1>2, <2>1 DEF TypeOK, Shot
<1> QED BY <1>3, <1>4

LEMMA RunTypeOK == ASSUME TypeOK, Run PROVE TypeOK'
<1>1. /\ now' = now /\ procs' = procs /\ unread' = unread /\ scanned' = now /\ now > scanned
      /\ captured' = Shot /\ samples' = Samples /\ unread = {} /\ started' = 0 /\ shot' = NoneYet
      /\ inherited' \subseteq inherited /\ capturing' = FALSE
  BY DEF Run
<1>2. DOMAIN samples' = captured' /\ samples' \in [DOMAIN samples' -> Sample]
  BY <1>1, SamplesShape
<1>3. Shot' = {} /\ shot' \in [Shot' -> Process]
  BY <1>1, EmptyMap DEF Shot
<1>4. found' \subseteq Finding
  BY FindingsShape DEF Run
<1>5. trail' \in [Pids -> Captures]
  <2>1. ASSUME NEW p \in Pids, Own(p) PROVE [trail[p] EXCEPT ![Len(trail[p])].at = now] \in Captures
    <3>1. trail[p] \in Captures /\ trail[p] # <<>> /\ now \in 0..MaxNow
      BY <2>1, TrailShape DEF Own, TypeOK
    <3> QED BY <3>1, Stamped
  <2> QED BY <2>1, TrailShape DEF Run
<1>6. now' \in 0..MaxNow /\ scanned' \in 0..now' /\ started' \in 0..now'
  BY <1>1, MinerAssumption DEF TypeOK
<1>7. capturing' \in BOOLEAN
  BY <1>1
<1> QED BY <1>1, <1>2, <1>3, <1>4, <1>5, <1>6, <1>7 DEF TypeOK, Captures, Reading

LEMMA TickTypeOK == ASSUME TypeOK, Tick PROVE TypeOK'
<1>1. procs' \in [Pids -> Process]
  <2>1. PICK burnt \in [Running -> Burn] :
          procs' = [p \in Pids |-> IF p \in Running THEN [procs[p] EXCEPT !.jiffies = @ + burnt[p]]
                                                   ELSE Gone]
    BY DEF Tick
  <2>2. ASSUME NEW p \in Running PROVE [procs[p] EXCEPT !.jiffies = @ + burnt[p]] \in Process
    <3>1. burnt[p] \in Nat /\ procs[p] \in Process
      BY MinerAssumption DEF TypeOK, Running
    <3> QED BY <3>1 DEF Process
  <2>3. Gone \in Process
    BY DEF Gone, Process
  <2> QED BY <2>1, <2>2, <2>3
<1>2. now' \in 0..MaxNow /\ scanned' \in 0..now' /\ started' \in 0..now'
  BY MinerAssumption DEF Tick, TypeOK, capture, memory
<1>3. Shot' = Shot
  BY DEF Tick, capture, Shot
<1> QED BY <1>1, <1>2, <1>3 DEF Tick, TypeOK, capture, memory

LEMMA NextTypeOK == TypeOK /\ [Next]_vars => TypeOK'
<1> SUFFICES ASSUME TypeOK, [Next]_vars PROVE TypeOK'
  OBVIOUS
<1>1. CASE ListProcesses
  <2>1. Shot' = {} /\ shot' \in [Shot' -> Process]
    BY <1>1, EmptyMap DEF ListProcesses, Shot
  <2>2. capturing' = TRUE
    BY <1>1 DEF ListProcesses
  <2>3. unread' \subseteq Pids /\ started' \in 0..now' /\ now' = now
    BY <1>1, MinerAssumption DEF ListProcesses, Running, TypeOK
  <2> QED BY <1>1, <2>1, <2>2, <2>3 DEF ListProcesses, TypeOK, memory
<1>2. CASE Run
  BY <1>2, RunTypeOK
<1>3. CASE Tick
  BY <1>3, TickTypeOK
<1>4. CASE Restart
  <2>1. Shot' = {} /\ shot' \in [Shot' -> Process]
    BY <1>4, EmptyMap DEF Restart, Shot
  <2>2. DOMAIN samples' = {} /\ samples' \in [DOMAIN samples' -> Sample]
    BY <1>4, EmptyMap DEF Restart
  <2>3. trail' \in [Pids -> Captures]
    BY <1>4 DEF Restart, Captures
  <2>4. started' \in 0..now'
    BY <1>4, MinerAssumption DEF Restart, TypeOK
  <2>5. capturing' \in BOOLEAN
    BY <1>4 DEF Restart
  <2> QED BY <1>4, <2>1, <2>2, <2>3, <2>4, <2>5 DEF Restart, TypeOK, Captures, Reading
<1>5. ASSUME NEW p \in Pids, ReadProcess(p) PROVE TypeOK'
  BY <1>5, ReadTypeOK
<1>6. ASSUME NEW p \in Pids, Exit(p) PROVE TypeOK'
  <2>1. procs' \in [Pids -> Process]
    BY <1>6 DEF Exit, TypeOK, Gone, Process
  <2>2. trail' \in [Pids -> Captures]
    BY <1>6, TrailShape DEF Exit, Captures
  <2>3. Shot' = Shot
    BY <1>6 DEF Exit, capture, Shot
  <2> QED BY <1>6, <2>1, <2>2, <2>3 DEF Exit, TypeOK, Captures, Reading, capture, memory
<1>7. ASSUME NEW p \in Pids, NEW program \in Programs, Fork(p, program) PROVE TypeOK'
  <2>1. [jiffies |-> 0, program |-> program, runs |-> TRUE] \in Process
    BY MinerAssumption DEF Process
  <2>2. procs' \in [Pids -> Process]
    BY <1>7, <2>1 DEF Fork, TypeOK
  <2>3. Shot' = Shot
    BY <1>7 DEF Fork, capture, Shot
  <2> QED BY <1>7, <2>2, <2>3 DEF Fork, TypeOK, capture, memory
<1>8. CASE UNCHANGED vars
  BY <1>8 DEF vars, capture, memory, TypeOK, Shot
<1> QED BY <1>1, <1>2, <1>3, <1>4, <1>5, <1>6, <1>7, <1>8 DEF Next, End

(* In every reachable state of the miner detector every variable has its   *)
(* shape, nothing is remembered but what the last capture showed, and only *)
(* what ran was captured.                                                  *)
THEOREM TypeCorrect == Spec => []TypeOK
<1>1. Init => TypeOK
  BY InitTypeOK
<1>2. TypeOK /\ [Next]_vars => TypeOK'
  BY NextTypeOK
<1> QED BY <1>1, <1>2, PTL DEF Spec

-------------------------------------------------------------------------------
(* Histories.                                                              *)

LEMMA SeenShape ==
  ASSUME TypeOK, NEW p \in Pids
  PROVE  /\ trail[p] \in Captures /\ Len(trail[p]) \in Nat /\ Seen(p) \in Nat
         /\ Own(p) => trail[p] # <<>> /\ Len(trail[p]) = Seen(p) + 1
         /\ ~Own(p) => Len(trail[p]) = Seen(p)
         /\ trail[p] = <<>> => Seen(p) = 0 /\ ~Own(p)
         /\ trail[p] # <<>> => Len(trail[p]) # 0
         /\ \A i \in 1..Len(trail[p]) : trail[p][i] \in Reading
<1>1. trail[p] \in Captures
  BY TrailShape
<1>2. Len(trail[p]) \in Nat /\ \A i \in 1..Len(trail[p]) : trail[p][i] \in Reading
  BY <1>1 DEF Captures
<1>3. trail[p] # <<>> => Len(trail[p]) # 0
  BY <1>1 DEF Captures
<1>4. Own(p) => trail[p] # <<>>
  BY DEF Own
<1> QED BY <1>1, <1>2, <1>3, <1>4 DEF Seen

LEMMA SameTrail ==
  ASSUME NEW p, trail'[p] = trail[p] PROVE (Own(p)' <=> Own(p)) /\ Seen(p)' = Seen(p)
<1>1. Own(p)' <=> Own(p)
  BY DEF Own
<1> QED BY <1>1 DEF Seen

(* What the detector has kept stands as long as the trail does.            *)
LEMMA SameKept ==
  ASSUME NEW p, trail'[p] = trail[p], samples' = samples,
         p \in inherited => p \in inherited',
         Seen(p) # 0 => KeptFor(p)
  PROVE  (Seen(p) # 0 => KeptFor(p))'
BY SameTrail DEF KeptFor, HotFrom, HotAt, UsedFrom

(* A step that touches neither the trail nor the sample of p, nor what is  *)
(* captured of it, keeps all that is said of p, if the process runs on.    *)
LEMMA Untouched ==
  ASSUME NEW p, Past(p),
         trail'[p] = trail[p], samples' = samples, captured' = captured, scanned' = scanned,
         p \in Shot' <=> p \in Shot, p \in Shot => shot'[p] = shot[p],
         p \in unread' <=> p \in unread, capturing' => capturing,
         started' = started, now' \in Nat, now \in Nat, started \in Nat, now <= now',
         p \in Running' <=> p \in Running,
         p \in inherited' <=> p \in inherited
  PROVE  Past(p)'
<1>1. (Own(p)' <=> Own(p)) /\ Seen(p)' = Seen(p)
  BY SameTrail
<1>2. History(p)'
  <2>1. (trail[p] # <<>> => p \in Running)'
    BY DEF Past, History
  <2>2. (\A i \in 1..Seen(p) : StampedWell(trail[p][i]))'
    BY <1>1 DEF Past, History, StampedWell
  <2>3. ASSUME Own(p)'
        PROVE  /\ p \in Shot'
               /\ trail'[p][Len(trail'[p])].jiffies = shot'[p].jiffies
               /\ trail'[p][Len(trail'[p])].read \in started'..now'
    BY <1>1, <2>3 DEF Past, History
  <2>4. (p \in Shot /\ trail[p] # <<>> => Own(p))'
    BY <1>1 DEF Past, History
  <2> QED BY <2>1, <2>2, <2>3, <2>4 DEF History
<1>3. Sampled(p)'
  BY <1>1 DEF Past, Sampled
<1>4. (Seen(p) # 0 => KeptFor(p))'
  BY SameKept DEF Past
<1> QED BY <1>2, <1>3, <1>4 DEF Past

(* Nothing is to be said of a pid without a history.                       *)
LEMMA WithoutHistory ==
  ASSUME NEW p, trail'[p] = <<>>,
         p \in captured' => samples'[p].at = scanned' /\ samples'[p].highSince <= scanned',
         p \in Running' \ inherited' => p \notin captured' /\ p \notin Shot'
  PROVE  Past(p)'
<1>1. ~Own(p)' /\ Seen(p)' = 0
  BY DEF Own, Seen
<1>2. History(p)'
  BY <1>1 DEF History
<1>3. Sampled(p)'
  BY <1>1 DEF Sampled
<1> QED BY <1>1, <1>2, <1>3 DEF Past

LEMMA InitPast == Init => PastInv
<1> SUFFICES ASSUME Init PROVE PastInv
  OBVIOUS
<1>1. TypeOK
  BY InitTypeOK
<1>2. CapturingInv
  BY DEF Init, CapturingInv
<1>3. ASSUME NEW p \in Pids PROVE Past(p)
  <2>1. p \notin Running /\ trail[p] = <<>> /\ captured = {}
    BY DEF Init, Running, Gone
  <2>2. ~Own(p) /\ Seen(p) = 0
    BY <2>1 DEF Own, Seen
  <2> QED BY <2>1, <2>2 DEF Past, History, Sampled
<1> QED BY <1>1, <1>2, <1>3 DEF PastInv

(* The clock's values are numbers.                                         *)
LEMMA Clocks ==
  ASSUME TypeOK
  PROVE  now \in Nat /\ scanned \in Nat /\ started \in Nat /\ scanned <= now /\ started <= now
BY MinerAssumption DEF TypeOK

LEMMA ListKeepsPast ==
  ASSUME PastInv, ListProcesses, NEW p \in Pids PROVE Past(p)'
<1>1. /\ trail' = trail /\ samples' = samples /\ captured' = captured /\ scanned' = scanned
      /\ now' = now /\ procs' = procs /\ inherited' = inherited
      /\ unread' = Running /\ started' = now /\ shot' = NoneYet
  BY DEF ListProcesses, memory
<1>2. Running' = Running /\ Shot' = {} /\ Shot = {}
  BY <1>1, EmptyMap DEF Running, Shot, PastInv, TypeOK, ListProcesses
<1>3. ~Own(p) /\ Past(p)
  BY <1>2 DEF PastInv, Past, History
<1>4. ~Own(p)' /\ Seen(p)' = Seen(p)
  BY <1>1, <1>3, SameTrail
<1>5. History(p)'
  BY <1>1, <1>2, <1>3, <1>4 DEF Past, History, StampedWell
<1>6. Seen(p) # 0 => p \in Running
  BY <1>3, SeenShape DEF PastInv, Past, History
<1>7. Sampled(p)'
  BY <1>1, <1>2, <1>3, <1>4, <1>6 DEF Past, Sampled
<1>8. (Seen(p) # 0 => KeptFor(p))'
  BY <1>1, <1>3, SameKept DEF Past
<1> QED BY <1>5, <1>7, <1>8 DEF Past

(* Reading a process that still runs adds a capture to its history that    *)
(* is not complete yet.                                                    *)
LEMMA ReadKeepsPast ==
  ASSUME PastInv, TypeOK', NEW p \in Pids, ReadProcess(p), NEW q \in Pids PROVE Past(q)'
<1>1. /\ now' = now /\ scanned' = scanned /\ procs' = procs /\ capturing' = capturing
      /\ started' = started /\ samples' = samples /\ captured' = captured
      /\ inherited' = inherited /\ p \in unread /\ unread' = unread \ {p}
  BY DEF ReadProcess, memory
<1>2. Running' = Running
  BY <1>1 DEF Running
<1>3. TypeOK /\ Past(p) /\ Past(q) /\ p \notin Shot
  BY <1>1 DEF PastInv, TypeOK
<1>4. CASE p \in Running
  <2> DEFINE c == [jiffies |-> procs[p].jiffies, read |-> now, at |-> Unstamped]
             n == Len(trail[p])
  <2>1. /\ shot' = [r \in Shot \cup {p} |-> IF r = p THEN procs[p] ELSE shot[r]]
        /\ trail' = [trail EXCEPT ![p] = Append(trail[p], c)]
    BY <1>4 DEF ReadProcess
  <2>2. Shot' = Shot \cup {p} /\ shot'[p] = procs[p]
    BY <2>1 DEF Shot
  <2>3. CASE q # p
    <3>1. trail'[q] = trail[q] /\ (q \in Shot' <=> q \in Shot) /\ (q \in Shot => shot'[q] = shot[q])
      BY <2>1, <2>2, <2>3, <1>3, TrailShape
    <3> QED BY <1>1, <1>2, <1>3, <2>3, <3>1, Untouched, Clocks
  <2>4. CASE q = p
    <3>1. ~Own(p) /\ Seen(p) = n /\ n \in Nat /\ trail[p] \in Captures
      BY <1>3, SeenShape DEF Past, History
    <3>2. c \in Reading
      BY <1>3, MinerAssumption DEF TypeOK, Process, Reading, Unstamped
    <3>3. trail'[p] = Append(trail[p], c)
      BY <1>3, <2>1, TrailShape
    <3>4. /\ Len(trail'[p]) = n + 1 /\ trail'[p] # <<>> /\ trail'[p][n + 1] = c
          /\ \A i \in 1..n : trail'[p][i] = trail[p][i]
      BY <3>1, <3>2, <3>3, Appended
    <3>5. Own(p)'
      BY <3>4 DEF Own
    <3>6. Seen(p)' = n
      BY <3>1, <3>4, <3>5 DEF Seen
    <3>7. (\A i \in 1..Seen(p) : StampedWell(trail[p][i]))'
      BY <1>1, <1>3, <3>1, <3>4, <3>6 DEF Past, History, StampedWell
    <3>8. History(p)'
      BY <1>1, <1>2, <1>3, <1>4, <2>2, <3>4, <3>5, <3>7, Clocks DEF History
    <3>9. Seen(p) # 0 => trail'[p][n] = trail[p][n]
      BY <3>1, <3>4
    <3>10. Sampled(p)'
      BY <1>1, <1>2, <1>3, <2>2, <3>1, <3>5, <3>6, <3>9 DEF Past, Sampled
    <3>11. ASSUME n # 0 PROVE KeptFor(p)'
      <4>1. KeptFor(p)
        BY <1>3, <3>1, <3>11 DEF Past
      <4>2. \A i \in 2..n : trail'[p][i] = trail[p][i] /\ trail'[p][i - 1] = trail[p][i - 1]
        BY <3>1, <3>4
      <4>3. ASSUME NEW i \in 2..n
            PROVE  /\ HotFrom(trail'[p], i, n) <=> HotFrom(trail[p], i, n)
                   /\ UsedFrom(trail'[p], i, n) <=> UsedFrom(trail[p], i, n)
        <5>1. \A j \in i..n : j \in 2..n
          BY <3>1
        <5>2. n \in 2..n
          BY <3>1
        <5>3. \A j \in i..n : HotAt(trail'[p], j) <=> HotAt(trail[p], j)
          BY <4>2, <5>1 DEF HotAt
        <5> QED BY <4>2, <5>2, <5>3 DEF HotFrom, UsedFrom
      <4> QED BY <1>1, <3>1, <3>6, <4>1, <4>2, <4>3 DEF KeptFor
    <3> QED BY <2>4, <3>6, <3>8, <3>10, <3>11 DEF Past
  <2> QED BY <2>3, <2>4
<1>5. CASE p \notin Running
  <2>1. shot' = shot /\ trail' = trail /\ Shot' = Shot
    BY <1>5 DEF ReadProcess, Shot
  <2>2. CASE q # p
    BY <1>1, <1>2, <1>3, <2>1, <2>2, Untouched, Clocks
  <2>3. CASE q = p
    <3>1. trail[p] = <<>>
      BY <1>3, <1>5 DEF Past, History
    <3>2. trail'[p] = <<>> /\ p \notin Running'
      BY <1>2, <1>5, <2>1, <3>1
    <3>3. p \in captured' => samples'[p].at = scanned' /\ samples'[p].highSince <= scanned'
      BY <1>1, <1>3 DEF Past, Sampled
    <3> QED BY <2>3, <3>2, <3>3, WithoutHistory
  <2> QED BY <2>2, <2>3
<1> QED BY <1>4, <1>5

(* The machine's own steps.                                                *)
LEMMA TickKeepsPast ==
  ASSUME PastInv, TypeOK', Tick, NEW p \in Pids PROVE Past(p)'
<1>1. /\ trail' = trail /\ samples' = samples /\ captured' = captured /\ scanned' = scanned
      /\ capturing' = capturing /\ started' = started /\ unread' = unread /\ shot' = shot
      /\ inherited' = inherited /\ now' = now + 1
  BY DEF Tick, capture, memory
<1>2. p \in Running' <=> p \in Running
  <2>1. PICK burnt \in [Running -> Burn] :
          procs' = [q \in Pids |-> IF q \in Running THEN [procs[q] EXCEPT !.jiffies = @ + burnt[q]]
                                                   ELSE Gone]
    BY DEF Tick
  <2>2. CASE p \in Running
    <3>1. procs'[p] = [procs[p] EXCEPT !.jiffies = @ + burnt[p]] /\ procs[p] \in Process
      BY <2>1, <2>2 DEF PastInv, TypeOK
    <3>2. procs'[p].runs = procs[p].runs
      BY <3>1 DEF Process
    <3> QED BY <2>2, <3>2 DEF Running
  <2>3. CASE p \notin Running
    <3>1. procs'[p] = Gone
      BY <2>1, <2>3
    <3>2. Gone.runs = FALSE
      BY DEF Gone
    <3> QED BY <2>3, <3>1, <3>2 DEF Running
  <2> QED BY <2>2, <2>3
<1>3. Shot' = Shot
  BY <1>1 DEF Shot
<1> QED BY <1>1, <1>2, <1>3, Untouched, Clocks DEF PastInv

LEMMA ForkKeepsPast ==
  ASSUME PastInv, NEW p \in Pids, NEW program, Fork(p, program), NEW q \in Pids PROVE Past(q)'
<1>1. /\ trail' = trail /\ samples' = samples /\ captured' = captured /\ scanned' = scanned
      /\ capturing' = capturing /\ started' = started /\ unread' = unread /\ shot' = shot
      /\ now' = now /\ Shot' = Shot /\ p \notin Running
      /\ inherited' = inherited \cup ({p} \cap (captured \cup Shot))
  BY DEF Fork, capture, memory, Shot
<1>2. Past(p) /\ Past(q) /\ TypeOK
  BY DEF PastInv
<1>3. CASE q = p
  <2>1. trail'[p] = <<>>
    BY <1>1, <1>2 DEF Past, History
  <2>2. p \in captured' => samples'[p].at = scanned' /\ samples'[p].highSince <= scanned'
    BY <1>1, <1>2 DEF Past, Sampled
  <2>3. p \notin inherited' => p \notin captured' /\ p \notin Shot'
    BY <1>1
  <2> QED BY <1>3, <2>1, <2>2, <2>3, WithoutHistory
<1>4. CASE q # p
  <2>1. procs'[q] = procs[q]
    BY <1>2, <1>4 DEF Fork, TypeOK
  <2>2. (q \in Running' <=> q \in Running) /\ (q \in inherited' <=> q \in inherited)
    BY <1>1, <1>4, <2>1 DEF Running
  <2> QED BY <1>1, <1>2, <2>2, Untouched, Clocks
<1> QED BY <1>3, <1>4

LEMMA ExitKeepsPast ==
  ASSUME PastInv, NEW p \in Pids, Exit(p), NEW q \in Pids PROVE Past(q)'
<1>1. /\ samples' = samples /\ captured' = captured /\ scanned' = scanned
      /\ capturing' = capturing /\ started' = started /\ unread' = unread /\ shot' = shot
      /\ now' = now /\ Shot' = Shot /\ inherited' = inherited
      /\ trail' = [trail EXCEPT ![p] = <<>>] /\ procs' = [procs EXCEPT ![p] = Gone]
  BY DEF Exit, capture, memory, Shot
<1>2. Past(p) /\ Past(q) /\ TypeOK
  BY DEF PastInv
<1>3. CASE q = p
  <2>1. trail'[p] = <<>> /\ p \notin Running'
    BY <1>1, <1>2 DEF TypeOK, Running, Gone
  <2>2. p \in captured' => samples'[p].at = scanned' /\ samples'[p].highSince <= scanned'
    BY <1>1, <1>2 DEF Past, Sampled
  <2> QED BY <1>3, <2>1, <2>2, WithoutHistory
<1>4. CASE q # p
  <2>1. procs'[q] = procs[q] /\ trail'[q] = trail[q]
    BY <1>1, <1>2, <1>4 DEF TypeOK
  <2>2. q \in Running' <=> q \in Running
    BY <2>1 DEF Running
  <2> QED BY <1>1, <1>2, <2>1, <2>2, Untouched, Clocks
<1> QED BY <1>3, <1>4

LEMMA RestartKeepsPast ==
  ASSUME Restart, NEW p \in Pids PROVE Past(p)'
<1>1. trail'[p] = <<>> /\ captured' = {} /\ shot' = NoneYet
  BY DEF Restart
<1>2. Shot' = {}
  BY <1>1, EmptyMap DEF Shot
<1> QED BY <1>1, <1>2, WithoutHistory

-------------------------------------------------------------------------------
(* A complete capture.                                                     *)

(* A process with a history was read in this capture.                      *)
LEMMA RunReadsAll ==
  ASSUME PastInv, Run, NEW p \in Pids, trail[p] # <<>> PROVE Own(p)
<1>1. Past(p) /\ TypeOK /\ capturing /\ unread = {}
  BY DEF PastInv, Run
<1>2. Seen(p) # 0 => p \in Shot
  BY <1>1 DEF Past, Sampled
<1>3. p \in Shot => Own(p)
  BY <1>1 DEF Past, History
<1>4. ~Own(p) => Seen(p) # 0
  BY <1>1, SeenShape DEF Captures
<1> QED BY <1>2, <1>3, <1>4

(* The stamp completes the last capture of the history.                    *)
LEMMA RunStamps ==
  ASSUME PastInv, Run, NEW p \in Pids, Own(p)
  PROVE  LET t == trail[p]
             u == trail'[p]
             n == Seen(p) IN
           /\ n \in Nat /\ Len(t) = n + 1
           /\ u \in Captures /\ Len(u) = n + 1 /\ u # <<>>
           /\ u[n + 1].at = now
           /\ u[n + 1].jiffies = shot[p].jiffies
           /\ u[n + 1].read = t[n + 1].read
           /\ \A i \in 1..n : u[i] = t[i]
           /\ ~Own(p)' /\ Seen(p)' = n + 1
<1>1. /\ TypeOK /\ Past(p) /\ now > scanned
      /\ trail'[p] = [trail[p] EXCEPT ![Len(trail[p])].at = now]
  BY DEF PastInv, Run
<1>2. /\ trail[p] \in Captures /\ trail[p] # <<>> /\ Seen(p) \in Nat /\ Len(trail[p]) = Seen(p) + 1
  BY <1>1, SeenShape
<1>3. now \in 0..MaxNow /\ now # Unstamped
  BY <1>1, Clocks DEF TypeOK, Unstamped
<1>4. /\ trail'[p] \in Captures /\ Len(trail'[p]) = Len(trail[p]) /\ trail'[p] # <<>>
      /\ trail'[p][Len(trail[p])].at = now
      /\ trail'[p][Len(trail[p])].jiffies = trail[p][Len(trail[p])].jiffies
      /\ trail'[p][Len(trail[p])].read = trail[p][Len(trail[p])].read
      /\ \A i \in 1..(Len(trail[p]) - 1) : trail'[p][i] = trail[p][i]
  BY <1>1, <1>2, <1>3, Stamped
<1>5. trail[p][Len(trail[p])].jiffies = shot[p].jiffies
  BY <1>1 DEF Past, History
<1>6. ~Own(p)'
  BY <1>3, <1>4 DEF Own
<1>7. Seen(p)' = Len(trail'[p])
  BY <1>6 DEF Seen
<1> QED BY <1>2, <1>4, <1>5, <1>6, <1>7

LEMMA Products ==
  /\ \A a \in Nat : Threshold * a \in Nat
  /\ \A a, b, c \in Int : Threshold * (a - b) + Threshold * (b - c) = Threshold * (a - c)
  /\ \A a, b \in Int : a <= b => Threshold * a <= Threshold * b
<1>1. Threshold \in Int /\ Threshold \in Nat
  BY MinerAssumption
<1>2. ASSUME NEW a \in Nat PROVE Threshold * a \in Nat
  BY <1>1
<1>3. ASSUME NEW a \in Int, NEW b \in Int, NEW c \in Int
      PROVE  Threshold * (a - b) + Threshold * (b - c) = Threshold * (a - c)
  BY <1>1
<1>4. ASSUME NEW a \in Int, NEW b \in Int, a <= b PROVE Threshold * a <= Threshold * b
  BY <1>1, <1>4
<1> QED BY <1>2, <1>3, <1>4

(* What the detector calls hot is what the history says was hot: for a     *)
(* process with a sample of its own, and every other one has inherited.    *)
LEMMA HotIsHot ==
  ASSUME PastInv, Run, NEW p \in Pids, Own(p)
  PROVE  /\ Seen(p) # 0 => (Hot(p) <=> HotAt(trail'[p], Seen(p) + 1))
         /\ Hot(p) /\ p \notin inherited => Seen(p) # 0
<1>1. TypeOK /\ Past(p) /\ now > scanned /\ now \in Nat /\ scanned \in Nat
  BY Clocks DEF PastInv, Run
<1>2. p \in Shot /\ p \in Running
  BY <1>1, SeenShape DEF Past, History
<1>3. ASSUME Seen(p) # 0 PROVE Hot(p) <=> HotAt(trail'[p], Seen(p) + 1)
  <2> DEFINE n == Seen(p)
             u == trail'[p]
  <2>1. /\ n \in Nat /\ u[n + 1].at = now /\ u[n + 1].jiffies = shot[p].jiffies
        /\ \A i \in 1..n : u[i] = trail[p][i]
    BY RunStamps
  <2>2. u[n] = trail[p][n] /\ (n + 1) - 1 = n
    BY <1>3, <2>1
  <2>3. p \in captured /\ trail[p][n].jiffies = samples[p].jiffies /\ trail[p][n].at = scanned
    BY <1>1, <1>3 DEF Past, Sampled
  <2>4. p \in DOMAIN samples /\ samples[p].at = scanned
    BY <1>1, <2>3 DEF Past, Sampled, TypeOK
  <2>5. shot[p].jiffies \in Nat /\ samples[p].jiffies \in Nat
    BY <1>1, <1>2, <2>4 DEF TypeOK, Process, Sample
  <2>6. Threshold * (now - scanned) \in Nat
    BY <1>1, Products
  <2>7. Hot(p) <=> shot[p].jiffies - samples[p].jiffies >= Threshold * (now - scanned)
    BY <2>4, <2>5, <2>6 DEF Hot
  <2>8. HotAt(u, n + 1)
          <=> shot[p].jiffies - samples[p].jiffies >= Threshold * (now - scanned)
    BY <2>1, <2>2, <2>3 DEF HotAt
  <2> QED BY <2>7, <2>8
<1>4. ASSUME Hot(p), p \notin inherited PROVE Seen(p) # 0
  <2>1. p \in captured
    BY <1>1, <1>4 DEF Hot, TypeOK
  <2> QED BY <1>1, <1>2, <1>4, <2>1 DEF Past, Sampled
<1> QED BY <1>3, <1>4

(* How a run of hot captures goes on with the one that was just completed. *)
LEMMA RunGoesOn ==
  ASSUME PastInv, Run, NEW p \in Pids, Own(p), Seen(p) # 0
  PROVE  LET t == trail[p]
             u == trail'[p]
             n == Seen(p) IN
           /\ \A i \in 2..n : HotFrom(u, i, n + 1) <=> HotFrom(t, i, n) /\ HotAt(u, n + 1)
           /\ \A i \in 2..n : UsedFrom(t, i, n) /\ HotAt(u, n + 1) => UsedFrom(u, i, n + 1)
           /\ HotFrom(u, n + 1, n + 1) <=> HotAt(u, n + 1)
           /\ HotAt(u, n + 1) => UsedFrom(u, n + 1, n + 1)
<1> DEFINE t == trail[p]
           u == trail'[p]
           n == Seen(p)
<1>1. /\ n \in Nat /\ n >= 1 /\ t \in Captures /\ u \in Captures
      /\ Len(t) = n + 1 /\ Len(u) = n + 1
      /\ \A i \in 1..n : u[i] = t[i]
  BY RunStamps, SeenShape DEF PastInv
<1>2. \A i \in 1..(n + 1) : u[i].jiffies \in Int /\ u[i].at \in Int
  <2> HIDE DEF u, n
  <2>1. ASSUME NEW i \in 1..(n + 1) PROVE u[i] \in Reading
    BY <1>1 DEF Captures
  <2>2. ASSUME NEW c \in Reading PROVE c.jiffies \in Int /\ c.at \in Int
    BY MinerAssumption DEF Reading
  <2> QED BY <2>1, <2>2
<1> HIDE DEF t, u, n
<1>3. ASSUME NEW i \in 2..n PROVE HotAt(u, i) <=> HotAt(t, i)
  BY <1>1 DEF HotAt
<1>4. ASSUME NEW i \in 2..n
      PROVE  HotFrom(u, i, n + 1) <=> HotFrom(t, i, n) /\ HotAt(u, n + 1)
  <2>1. HotFrom(u, i, n + 1) <=> (\A j \in i..n : HotAt(u, j)) /\ HotAt(u, n + 1)
    BY <1>1 DEF HotFrom
  <2>2. \A j \in i..n : j \in 2..n
    BY <1>1
  <2>3. (\A j \in i..n : HotAt(u, j)) <=> HotFrom(t, i, n)
    BY <1>3, <2>2 DEF HotFrom
  <2> QED BY <2>1, <2>3
<1>5. ASSUME NEW i \in 2..n, UsedFrom(t, i, n), HotAt(u, n + 1) PROVE UsedFrom(u, i, n + 1)
  <2>1. /\ u[n] = t[n] /\ u[i - 1] = t[i - 1] /\ (n + 1) - 1 = n
        /\ n \in 1..(n + 1) /\ i - 1 \in 1..(n + 1) /\ n + 1 \in 1..(n + 1)
    BY <1>1
  <2>2. u[n].jiffies - u[i - 1].jiffies >= Threshold * (u[n].at - u[i - 1].at)
    BY <1>5, <2>1 DEF UsedFrom
  <2>3. u[n + 1].jiffies - u[n].jiffies >= Threshold * (u[n + 1].at - u[n].at)
    BY <1>5, <2>1 DEF HotAt
  <2>4. Threshold * (u[n + 1].at - u[n].at) + Threshold * (u[n].at - u[i - 1].at)
          = Threshold * (u[n + 1].at - u[i - 1].at)
    BY <1>2, <2>1, Products
  <2>5. /\ Threshold * (u[n + 1].at - u[n].at) \in Int
        /\ Threshold * (u[n].at - u[i - 1].at) \in Int
    BY <1>2, <2>1, MinerAssumption
  <2>6. u[n + 1].jiffies - u[i - 1].jiffies
          >= Threshold * (u[n + 1].at - u[n].at) + Threshold * (u[n].at - u[i - 1].at)
    BY <1>2, <2>1, <2>2, <2>3, <2>5
  <2> QED BY <2>4, <2>6 DEF UsedFrom
<1>6. HotFrom(u, n + 1, n + 1) <=> HotAt(u, n + 1)
  BY <1>1 DEF HotFrom
<1>7. HotAt(u, n + 1) => UsedFrom(u, n + 1, n + 1)
  BY DEF HotAt, UsedFrom
<1> QED BY <1>4, <1>5, <1>6, <1>7 DEF t, u, n

(* A hot process of its own: the time it is credited with is that of the   *)
(* first capture of a run of hot ones that lasts to the one just made.     *)
LEMMA CreditedWithRun ==
  ASSUME PastInv, Run, NEW p \in Pids, Own(p), Hot(p), p \notin inherited
  PROVE  \E i \in 2..(Seen(p) + 1) : /\ trail'[p][i].at = HighSince(p)
                                     /\ HotFrom(trail'[p], i, Seen(p) + 1)
                                     /\ UsedFrom(trail'[p], i, Seen(p) + 1)
<1> DEFINE u == trail'[p]
           n == Seen(p)
<1>1. n # 0 /\ HotAt(u, n + 1)
  BY HotIsHot
<1>2. n \in Nat /\ u[n + 1].at = now /\ \A i \in 1..n : u[i] = trail[p][i]
  BY RunStamps
<1>3. CASE samples[p].highSince = Never
  <2>1. HighSince(p) = now
    BY <1>3 DEF HighSince
  <2>2. HotFrom(u, n + 1, n + 1) /\ UsedFrom(u, n + 1, n + 1)
    BY <1>1, RunGoesOn
  <2>3. n + 1 \in 2..(n + 1)
    BY <1>1, <1>2
  <2> QED BY <1>2, <2>1, <2>2, <2>3
<1>4. CASE samples[p].highSince # Never
  <2>1. HighSince(p) = samples[p].highSince
    BY <1>4 DEF HighSince
  <2>2. PICK i \in 2..n : /\ trail[p][i].at = samples[p].highSince
                          /\ HotFrom(trail[p], i, n)
                          /\ UsedFrom(trail[p], i, n)
    BY <1>1, <1>4 DEF PastInv, Past, KeptFor
  <2>3. HotFrom(u, i, n + 1) /\ UsedFrom(u, i, n + 1)
    BY <1>1, <2>2, RunGoesOn
  <2>4. u[i].at = HighSince(p) /\ i \in 2..(n + 1)
    BY <1>2, <2>1, <2>2
  <2> QED BY <2>3, <2>4
<1> QED BY <1>3, <1>4

(* And it is credited with the whole of every such run, whatever its pid   *)
(* was before.                                                             *)
LEMMA CreditedInFull ==
  ASSUME PastInv, Run, NEW p \in Pids, Own(p),
         NEW i \in 2..(Seen(p) + 1), HotFrom(trail'[p], i, Seen(p) + 1)
  PROVE  Hot(p) /\ HighSince(p) # Never /\ HighSince(p) <= trail'[p][i].at
<1> DEFINE u == trail'[p]
           n == Seen(p)
<1>1. n \in Nat /\ n # 0 /\ u[n + 1].at = now /\ \A j \in 1..n : u[j] = trail[p][j]
  <2>1. i <= n + 1 /\ i >= 2
    BY RunStamps
  <2> QED BY <2>1, RunStamps
<1>2. HotAt(u, n + 1)
  BY <1>1 DEF HotFrom
<1>3. Hot(p)
  BY <1>1, <1>2, HotIsHot
<1>4. now \in Nat /\ scanned \in Nat /\ now > scanned /\ now # Never
  BY Clocks DEF PastInv, Run, Never
<1>5. samples[p].highSince <= scanned /\ samples[p].highSince \in Nat
  BY <1>1, MinerAssumption DEF PastInv, TypeOK, Past, Sampled, Sample
<1>6. CASE i = n + 1
  BY <1>1, <1>3, <1>4, <1>5, <1>6 DEF HighSince
<1>7. CASE i # n + 1
  <2>1. i \in 2..n
    BY <1>1, <1>7
  <2>2. HotFrom(trail[p], i, n)
    BY <1>1, <2>1, RunGoesOn
  <2>3. samples[p].highSince # Never /\ samples[p].highSince <= trail[p][i].at
    BY <1>1, <2>1, <2>2 DEF PastInv, Past, KeptFor
  <2>4. u[i] = trail[p][i]
    BY <1>1, <2>1
  <2> QED BY <1>3, <2>3, <2>4 DEF HighSince
<1> QED BY <1>6, <1>7

LEMMA HighSinceBefore ==
  ASSUME PastInv, Run, NEW p \in Shot PROVE HighSince(p) <= now
<1>1. TypeOK /\ p \in Pids /\ Past(p) /\ now \in Nat /\ scanned \in Nat /\ now > scanned
  BY Clocks DEF PastInv, TypeOK, Run
<1>2. CASE Hot(p)
  <2>1. samples[p].highSince \in Nat /\ samples[p].highSince <= scanned
    BY <1>1, <1>2, MinerAssumption DEF Hot, TypeOK, Sample, Past, Sampled
  <2>2. HighSince(p) \in {now, samples[p].highSince}
    BY <1>2 DEF HighSince
  <2> QED BY <1>1, <2>1, <2>2
<1>3. CASE ~Hot(p)
  <2>1. HighSince(p) = 0
    BY <1>3 DEF HighSince, Never
  <2> QED BY <1>1, <2>1
<1> QED BY <1>2, <1>3

LEMMA RunKeepsPast ==
  ASSUME PastInv, Run, NEW p \in Pids PROVE Past(p)'
<1>1. /\ now' = now /\ procs' = procs /\ scanned' = now /\ now > scanned
      /\ captured' = Shot /\ samples' = Samples /\ shot' = NoneYet
      /\ inherited' = {q \in inherited \cap Shot : Own(q) => Hot(q)}
      /\ capturing /\ capturing' = FALSE
  BY DEF Run
<1>2. Shot' = {} /\ Running' = Running
  BY <1>1, EmptyMap DEF Shot, Running
<1>3. TypeOK /\ Past(p) /\ now \in Nat /\ started \in Nat /\ scanned \in Nat
  BY Clocks DEF PastInv
<1>4. p \in Shot => /\ samples'[p].jiffies = shot[p].jiffies
                    /\ samples'[p].at = now
                    /\ samples'[p].highSince = HighSince(p)
                    /\ HighSince(p) <= now
  BY <1>1, <1>3, SamplesShape, HighSinceBefore
<1>5. CASE trail[p] = <<>>
  <2>1. ~Own(p)
    BY <1>5 DEF Own
  <2>2. trail'[p] = <<>>
    BY <1>5, <2>1 DEF Run
  <2>3. p \in Running /\ p \in Shot => p \in inherited
    BY <1>3, <2>1 DEF Past, Sampled
  <2>4. p \in Running' \ inherited' => p \notin captured'
    BY <1>1, <1>2, <2>1, <2>3
  <2> QED BY <1>1, <1>2, <1>4, <2>2, <2>4, WithoutHistory
<1>6. CASE trail[p] # <<>>
  <2> DEFINE u == trail'[p]
             n == Seen(p)
  <2>1. Own(p)
    BY <1>6, RunReadsAll
  <2>2. p \in Shot /\ p \in Running
    BY <1>3, <1>6, <2>1 DEF Past, History
  <2>3. /\ n \in Nat /\ Len(u) = n + 1 /\ u # <<>> /\ u[n + 1].at = now
        /\ u[n + 1].jiffies = shot[p].jiffies /\ u[n + 1].read = trail[p][n + 1].read
        /\ \A i \in 1..n : u[i] = trail[p][i]
        /\ ~Own(p)' /\ Seen(p)' = n + 1 /\ Len(trail[p]) = n + 1
    BY <2>1, RunStamps
  <2>4. ASSUME NEW i \in 1..(n + 1)
        PROVE  u[i].at \in 1..now /\ u[i].read <= u[i].at /\ u[i].at <= u[i].read + MaxDelay
    <3>1. CASE i = n + 1
      <4>1. trail[p][n + 1].read \in started..now
        BY <1>3, <2>1, <2>3 DEF Past, History
      <4>2. now - started <= MaxDelay
        BY <1>1 DEF PastInv, CapturingInv
      <4> QED BY <1>1, <1>3, <2>3, <3>1, <4>1, <4>2, MinerAssumption
    <3>2. CASE i # n + 1
      <4>1. i \in 1..n
        BY <2>3, <3>2
      <4>2. StampedWell(trail[p][i])
        BY <1>3, <4>1 DEF Past, History
      <4> QED BY <1>1, <1>3, <2>3, <4>1, <4>2 DEF StampedWell
    <3> QED BY <3>1, <3>2
  <2>5. History(p)'
    <3>1. (\A i \in 1..Seen(p) : StampedWell(trail[p][i]))'
      BY <1>1, <2>3, <2>4 DEF StampedWell
    <3> QED BY <1>2, <2>2, <2>3, <3>1 DEF History
  <2>6. Sampled(p)'
    BY <1>1, <1>2, <1>4, <2>2, <2>3 DEF Sampled
  <2>7. KeptFor(p)'
    <3>1. samples'[p].highSince = HighSince(p)
      BY <1>4, <2>2
    <3>2. ASSUME HighSince(p) # Never, p \notin inherited'
          PROVE  \E i \in 2..(n + 1) :
                   /\ u[i].at = HighSince(p)
                   /\ HotFrom(u, i, n + 1)
                   /\ UsedFrom(u, i, n + 1)
      <4>1. Hot(p)
        BY <3>2 DEF HighSince
      <4>2. p \notin inherited
        BY <1>1, <2>2, <3>2, <4>1
      <4> QED BY <2>1, <4>1, <4>2, CreditedWithRun
    <3>3. ASSUME NEW i \in 2..(n + 1), HotFrom(u, i, n + 1)
          PROVE  HighSince(p) # Never /\ HighSince(p) <= u[i].at
      BY <2>1, <3>3, CreditedInFull
    <3> QED BY <2>3, <3>1, <3>2, <3>3 DEF KeptFor
  <2> QED BY <2>5, <2>6, <2>7 DEF Past
<1> QED BY <1>5, <1>6

LEMMA NextPast == PastInv /\ [Next]_vars => PastInv'
<1> SUFFICES ASSUME PastInv, [Next]_vars PROVE PastInv'
  OBVIOUS
<1>1. TypeOK /\ TypeOK'
  BY NextTypeOK DEF PastInv
<1>2. CapturingInv'
  <2>1. CASE ListProcesses
    <3>1. now' - started' = 0 /\ found' = {}
      BY <1>1, <2>1, Clocks DEF ListProcesses
    <3> QED BY <3>1, MinerAssumption DEF CapturingInv
  <2>2. CASE Run \/ Restart
    BY <2>2 DEF Run, Restart, CapturingInv
  <2>3. CASE Tick
    <3>1. /\ capturing' = capturing /\ started' = started /\ now' = now + 1 /\ found' = {}
          /\ capturing => now - started < MaxDelay
      BY <2>3 DEF Tick, capture
    <3> QED BY <1>1, <3>1, Clocks, MinerAssumption DEF CapturingInv
  <2>4. ASSUME NEW p \in Pids, ReadProcess(p) PROVE CapturingInv'
    BY <2>4 DEF ReadProcess, CapturingInv, PastInv
  <2>5. ASSUME NEW p \in Pids, NEW program,
               Exit(p) \/ Fork(p, program)
        PROVE  CapturingInv'
    BY <2>5 DEF Exit, Fork, CapturingInv, PastInv, capture
  <2>6. CASE UNCHANGED vars
    BY <2>6 DEF vars, capture, CapturingInv, PastInv
  <2> QED BY <2>1, <2>2, <2>3, <2>4, <2>5, <2>6 DEF Next, End
<1>3. ASSUME NEW q \in Pids PROVE Past(q)'
  <2>1. CASE UNCHANGED vars
    <3>1. Shot' = Shot /\ Running' = Running /\ Past(q)
      BY <2>1 DEF vars, capture, Shot, Running, PastInv
    <3> QED BY <1>1, <2>1, <3>1, Untouched, Clocks DEF vars, capture, memory
  <2>2. ASSUME NEW p \in Pids, ReadProcess(p) PROVE Past(q)'
    BY <1>1, <2>2, ReadKeepsPast
  <2>3. ASSUME NEW p \in Pids, Exit(p) PROVE Past(q)'
    BY <2>3, ExitKeepsPast
  <2>4. ASSUME NEW p \in Pids, NEW program \in Programs, Fork(p, program) PROVE Past(q)'
    BY <2>4, ForkKeepsPast
  <2>5. ListProcesses => Past(q)'
    BY ListKeepsPast
  <2>6. Run => Past(q)'
    BY RunKeepsPast
  <2>7. Tick => Past(q)'
    BY <1>1, TickKeepsPast
  <2>8. Restart => Past(q)'
    BY RestartKeepsPast
  <2> QED BY <2>1, <2>2, <2>3, <2>4, <2>5, <2>6, <2>7, <2>8 DEF Next, End
<1> QED BY <1>1, <1>2, <1>3 DEF PastInv

-------------------------------------------------------------------------------
(* What is flagged.                                                        *)

LEMMA FlaggedAre ==
  ASSUME Run PROVE \A p : p \in FlaggedBusy' <=> p \in Shot /\ CpuHigh(p)
<1>1. PICK resolved \in SUBSET (Shot \cap Running), blamed \in SUBSET Shot :
        found' = ProcessFindings \cup PoolFindings(resolved, blamed)
  BY DEF Run
<1>2. \A f \in PoolFindings(resolved, blamed) : "cpu" \notin f.signals
  BY DEF PoolFindings
<1>3. ASSUME NEW p PROVE "cpu" \in Signals(p) <=> CpuHigh(p)
  BY DEF Signals
<1>4. ASSUME NEW p, p \in FlaggedBusy' PROVE p \in Shot /\ CpuHigh(p)
  <2>1. PICK f \in found' : "cpu" \in f.signals /\ f.pid = p
    BY <1>4 DEF FlaggedBusy
  <2>2. f \in ProcessFindings
    BY <1>1, <1>2, <2>1
  <2>3. p \in Shot /\ f.signals = Signals(p)
    BY <2>1, <2>2 DEF ProcessFindings
  <2> QED BY <1>3, <2>1, <2>3
<1>5. ASSUME NEW p, p \in Shot, CpuHigh(p) PROVE p \in FlaggedBusy'
  <2> DEFINE f == [pid |-> p, severity |-> Severe(p), signals |-> Signals(p)]
  <2>1. "cpu" \in Signals(p)
    BY <1>3, <1>5
  <2>2. f \in ProcessFindings
    BY <1>5, <2>1 DEF ProcessFindings
  <2>3. f \in found' /\ "cpu" \in f.signals /\ f.pid = p
    BY <1>1, <2>1, <2>2
  <2> HIDE DEF f
  <2> QED BY <2>3 DEF FlaggedBusy
<1> QED BY <1>4, <1>5

(* The run of hot captures behind a finding.                               *)
LEMMA BehindTheFinding ==
  ASSUME PastInv, Run, NEW p \in FlaggedBusy' \ inherited', trail'[p] # <<>>
  PROVE  /\ p \in Pids /\ Own(p)
         /\ \E i \in 2..Len(trail'[p]) :
              /\ trail'[p][Len(trail'[p])].at - trail'[p][i].at >= Sustained
              /\ HotFrom(trail'[p], i, Len(trail'[p]))
              /\ UsedFrom(trail'[p], i, Len(trail'[p]))
<1>1. p \in Shot /\ CpuHigh(p)
  BY FlaggedAre
<1>2. p \in Pids
  BY <1>1 DEF PastInv, TypeOK
<1>3. Own(p)
  <2>1. trail[p] # <<>>
    BY <1>2 DEF Run, Own
  <2> QED BY <1>2, <2>1, RunReadsAll
<1>4. Hot(p) /\ now - HighSince(p) >= Sustained
  BY <1>1 DEF CpuHigh
<1>5. p \notin inherited
  BY <1>1, <1>3, <1>4 DEF Run
<1>6. PICK i \in 2..(Seen(p) + 1) : /\ trail'[p][i].at = HighSince(p)
                                   /\ HotFrom(trail'[p], i, Seen(p) + 1)
                                   /\ UsedFrom(trail'[p], i, Seen(p) + 1)
  BY <1>2, <1>3, <1>4, <1>5, CreditedWithRun
<1>7. Len(trail'[p]) = Seen(p) + 1 /\ trail'[p][Seen(p) + 1].at = now
  BY <1>2, <1>3, RunStamps
<1>8. trail'[p][Seen(p) + 1].at - trail'[p][i].at >= Sustained
  BY <1>4, <1>6, <1>7
<1> QED BY <1>2, <1>3, <1>6, <1>7, <1>8

LEMMA RunFlagsTheBusy == ASSUME PastInv, Run PROVE FlaggedOnlyIfSustained'
<1>1. ASSUME NEW p \in FlaggedBusy' \ inherited', trail'[p] # <<>>
      PROVE  SustainedCPU(trail'[p])
  BY <1>1, BehindTheFinding DEF SustainedCPU, HotFrom
<1> QED BY <1>1 DEF FlaggedOnlyIfSustained

(* The stamps of the first and the last capture of the run are off by no   *)
(* more than a capture takes, and those in between cancel out.             *)
LEMMA RunFlagsTheBurnt == ASSUME PastInv, PastInv', Run PROVE BurntForReal'
<1>1. ASSUME NEW p \in FlaggedBusy' \ inherited', trail'[p] # <<>>
      PROVE  \E i \in 2..Len(trail'[p]) :
               /\ trail'[p][Len(trail'[p])].at - trail'[p][i].at >= Sustained
               /\ trail'[p][Len(trail'[p])].jiffies - trail'[p][i - 1].jiffies
                    >= Threshold * (trail'[p][Len(trail'[p])].read - trail'[p][i - 1].read - MaxDelay)
  <2> DEFINE u == trail'[p]
             n == Len(trail'[p])
  <2>1. p \in Pids /\ Own(p)
    BY <1>1, BehindTheFinding
  <2>2. PICK i \in 2..n : /\ u[n].at - u[i].at >= Sustained
                          /\ UsedFrom(u, i, n)
    BY <1>1, BehindTheFinding
  <2>3. n = Seen(p)' /\ n \in Nat /\ u \in Captures
    BY <2>1, RunStamps
  <2>4. History(p)' /\ scanned' \in Nat
    BY <2>1, Clocks DEF PastInv, Past, Run
  <2>5. ASSUME NEW j \in 1..n
        PROVE  /\ u[j].read <= u[j].at /\ u[j].at <= u[j].read + MaxDelay
               /\ u[j].read \in Int /\ u[j].at \in Int /\ u[j].jiffies \in Int
    <3>1. StampedWell(trail[p][j])'
      BY <2>3, <2>4 DEF History
    <3>2. u[j].read <= u[j].at /\ u[j].at <= u[j].read + MaxDelay
      BY <3>1 DEF StampedWell
    <3>3. u[j] \in Reading
      BY <2>3 DEF Captures
    <3>4. \A c \in Reading : c.read \in Int /\ c.at \in Int /\ c.jiffies \in Int
      BY MinerAssumption DEF Reading
    <3> HIDE DEF u
    <3> QED BY <3>2, <3>3, <3>4
  <2>6. n \in 1..n /\ i - 1 \in 1..n
    BY <2>2, <2>3
  <2> HIDE DEF u, n
  <2>7. u[n].jiffies - u[i - 1].jiffies >= Threshold * (u[n].at - u[i - 1].at)
    BY <2>2 DEF UsedFrom
  <2>8. u[n].read - u[i - 1].read - MaxDelay <= u[n].at - u[i - 1].at
    BY <2>5, <2>6, MinerAssumption
  <2>9. /\ u[n].read - u[i - 1].read - MaxDelay \in Int
        /\ u[n].at - u[i - 1].at \in Int
        /\ u[n].jiffies - u[i - 1].jiffies \in Int
    BY <2>5, <2>6, MinerAssumption
  <2>10. Threshold * (u[n].read - u[i - 1].read - MaxDelay) <= Threshold * (u[n].at - u[i - 1].at)
    BY <2>8, <2>9, Products
  <2>11. /\ Threshold * (u[n].read - u[i - 1].read - MaxDelay) \in Int
         /\ Threshold * (u[n].at - u[i - 1].at) \in Int
    BY <2>9, MinerAssumption
  <2>12. u[n].jiffies - u[i - 1].jiffies >= Threshold * (u[n].read - u[i - 1].read - MaxDelay)
    BY <2>7, <2>9, <2>10, <2>11
  <2> QED BY <2>2, <2>12 DEF u, n
<1> QED BY <1>1 DEF BurntForReal

(* Every step but a run finds nothing, or leaves what was found alone.     *)
LEMMA NextIInv == IInv /\ [Next]_vars => IInv'
<1> SUFFICES ASSUME IInv, [Next]_vars PROVE IInv'
  OBVIOUS
<1>1. PastInv'
  BY NextPast DEF IInv
<1>2. CASE Run
  BY <1>1, <1>2, RunFlagsTheBusy, RunFlagsTheBurnt DEF IInv
<1>3. ASSUME found' = {} PROVE IInv'
  <2>1. FlaggedBusy' = {}
    BY <1>3 DEF FlaggedBusy
  <2> QED BY <1>1, <2>1 DEF IInv, FlaggedOnlyIfSustained, BurntForReal
<1>4. ASSUME NEW p \in Pids, ReadProcess(p) PROVE found' = {}
  <2>1. capturing
    BY <1>4 DEF IInv, PastInv, TypeOK, ReadProcess
  <2>2. found = {}
    BY <2>1 DEF IInv, PastInv, CapturingInv
  <2> QED BY <1>4, <2>2 DEF ReadProcess
<1>5. ListProcesses \/ Tick \/ Restart => found' = {}
  BY DEF ListProcesses, Tick, Restart
<1>6. ASSUME NEW p \in Pids, NEW program, Exit(p) \/ Fork(p, program) PROVE found' = {}
  BY <1>6 DEF Exit, Fork
<1>7. CASE UNCHANGED vars
  BY <1>1, <1>7 DEF vars, IInv, FlaggedOnlyIfSustained, BurntForReal, FlaggedBusy, memory
<1> QED BY <1>2, <1>3, <1>4, <1>5, <1>6, <1>7 DEF Next, End

LEMMA InitIInv == Init => IInv
<1> SUFFICES ASSUME Init PROVE IInv
  OBVIOUS
<1>1. FlaggedBusy = {}
  BY DEF Init, FlaggedBusy
<1> QED BY <1>1, InitPast DEF IInv, FlaggedOnlyIfSustained, BurntForReal

(* No process is called busy before its own captures say so, although one  *)
(* sample and one time per pid are all that is kept: whoever did not take  *)
(* over a pid from another process was hot in every capture since one that *)
(* is sustained_seconds back.                                              *)
THEOREM OnlyTheBusyAreFlagged == Spec => []FlaggedOnlyIfSustained
<1>1. IInv => FlaggedOnlyIfSustained
  BY DEF IInv
<1> QED BY <1>1, InitIInv, NextIInv, PTL DEF Spec

(* However irregular the captures and late their stamps, a process that is *)
(* flagged has really used the threshold since its first hot capture, but  *)
(* for the time that one capture takes.                                    *)
THEOREM TheFlaggedBurnt == Spec => []BurntForReal
<1>1. IInv => BurntForReal
  BY DEF IInv
<1> QED BY <1>1, InitIInv, NextIInv, PTL DEF Spec

(* And nobody who stayed busy is missed, whatever the pid was before.      *)
THEOREM TheBusyAreFlagged == Spec => FlaggedIfSustained
<1> DEFINE Flags == scanned' # scanned =>
             \A p \in Pids : Own(p) /\ SustainedCPU(trail'[p]) => p \in FlaggedBusy'
<1>1. PastInv /\ [Next]_vars => Flags
  <2> SUFFICES ASSUME PastInv, [Next]_vars, scanned' # scanned,
                      NEW p \in Pids, Own(p), SustainedCPU(trail'[p])
               PROVE  p \in FlaggedBusy'
    OBVIOUS
  <2>1. Run
    BY DEF Next, ListProcesses, Tick, Restart, End, ReadProcess, Exit, Fork, vars, memory
  <2>2. Len(trail'[p]) = Seen(p) + 1 /\ trail'[p][Seen(p) + 1].at = now /\ Seen(p) \in Nat
    BY <2>1, RunStamps
  <2>3. PICK i \in 2..(Seen(p) + 1) : /\ now - trail'[p][i].at >= Sustained
                                     /\ HotFrom(trail'[p], i, Seen(p) + 1)
    BY <2>2 DEF SustainedCPU, HotFrom
  <2>4. Hot(p) /\ HighSince(p) <= trail'[p][i].at
    BY <2>1, <2>3, CreditedInFull
  <2>5. p \in Shot
    BY DEF PastInv, Past, History
  <2>6. now - HighSince(p) >= Sustained
    <3>1. trail'[p][i] \in Reading
      BY <2>1, <2>2, RunStamps DEF Captures
    <3>2. HighSince(p) \in Nat
      BY <2>1, <2>5, SamplesShape, MinerAssumption DEF PastInv, Run, Sample
    <3>3. trail'[p][i].at \in Nat /\ now \in Nat
      BY <3>1, MinerAssumption, Clocks DEF Reading, PastInv
    <3> QED BY <2>3, <2>4, <3>2, <3>3, MinerAssumption
  <2> QED BY <2>1, <2>4, <2>5, <2>6, FlaggedAre DEF CpuHigh
<1>2. Flags => [Flags]_vars
  OBVIOUS
<1> QED BY <1>1, <1>2, InitPast, NextPast, PTL DEF Spec, FlaggedIfSustained
===============================================================================
