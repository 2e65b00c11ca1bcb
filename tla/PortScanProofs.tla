---------------------------- MODULE PortScanProofs ----------------------------
(***************************************************************************)
(* Proofs about PortScan, for any pids, names, destinations, window and    *)
(* thresholds.                                                             *)
(***************************************************************************)
EXTENDS PortScan, TLAPS

Comms   == Names \cup {NoValue}
Aged(S) == UNION {[T -> Ages] : T \in SUBSET S}
Entry   == [comm : Comms, ports : Aged(Ports(Dests)), hosts : Aged(Hosts(Dests))]

-------------------------------------------------------------------------------
(* What happens to the entries of one pid.                                 *)

LEMMA AgedShape ==
  ASSUME NEW S, NEW e
  PROVE  e \in Aged(S) => DOMAIN e \subseteq S /\ \A x \in DOMAIN e : e[x] \in Ages
BY DEF Aged

LEMMA IsAged ==
  ASSUME NEW S, NEW T \in SUBSET S, NEW e \in [T -> Ages]
  PROVE  e \in Aged(S)
BY DEF Aged

LEMMA WindowFacts == Window \in Nat /\ Ages = 0..(Window + 1) /\ MaxAge = Window + 1
BY PortScanAssumption DEF Ages, MaxAge

LEMMA OlderAged ==
  ASSUME NEW S, NEW e \in Aged(S)
  PROVE  Older(e) \in Aged(S) /\ DOMAIN Older(e) = DOMAIN e
<1>1. DOMAIN e \in SUBSET S /\ \A x \in DOMAIN e : e[x] \in Ages
  BY AgedShape
<1>2. Older(e) \in [DOMAIN e -> Ages]
  BY <1>1, WindowFacts DEF Older
<1> QED BY <1>1, <1>2, IsAged DEF Older

(* What a run leaves of the entries e.                                     *)
Kept(e, seen) == {x \in DOMAIN e \cup seen : x \in seen \/ e[x] <= Window}

LEMMA FreshenedEntries ==
  ASSUME NEW e, NEW seen
  PROVE  Pruned(Freshened(e, seen)) = [x \in Kept(e, seen) |-> IF x \in seen THEN 0 ELSE e[x]]
<1> DEFINE f == Freshened(e, seen)
<1>1. DOMAIN f = DOMAIN e \cup seen /\ \A x \in DOMAIN f : f[x] = IF x \in seen THEN 0 ELSE e[x]
  BY DEF Freshened
<1>2. \A x \in DOMAIN f : f[x] <= Window <=> x \in seen \/ e[x] <= Window
  BY <1>1, WindowFacts
<1>3. {x \in DOMAIN f : f[x] <= Window} = Kept(e, seen)
  BY <1>1, <1>2 DEF Kept
<1>4. Pruned(f) = [x \in Kept(e, seen) |-> f[x]]
  BY <1>3 DEF Pruned
<1>5. \A x \in Kept(e, seen) : f[x] = IF x \in seen THEN 0 ELSE e[x]
  BY <1>1 DEF Kept
<1> HIDE DEF f
<1>6. Pruned(f) = [x \in Kept(e, seen) |-> IF x \in seen THEN 0 ELSE e[x]]
  BY <1>4, <1>5
<1> QED BY <1>6 DEF f

LEMMA FreshenedAged ==
  ASSUME NEW S, NEW e \in Aged(S), NEW seen \in SUBSET S
  PROVE  Pruned(Freshened(e, seen)) \in Aged(S)
<1> DEFINE f == Pruned(Freshened(e, seen))
<1>1. DOMAIN e \in SUBSET S /\ \A x \in DOMAIN e : e[x] \in Ages
  BY AgedShape
<1>2. Kept(e, seen) \in SUBSET S
  BY <1>1 DEF Kept
<1>3. \A x \in Kept(e, seen) : (IF x \in seen THEN 0 ELSE e[x]) \in Ages
  BY <1>1, WindowFacts DEF Kept
<1>4. f \in [Kept(e, seen) -> Ages]
  BY <1>3, FreshenedEntries
<1> QED BY <1>2, <1>4, IsAged

-------------------------------------------------------------------------------
(* Type correctness.                                                       *)

TypeInv ==
  /\ procs \in [Pids -> Comms]
  /\ DOMAIN state \subseteq Pids
  /\ \A p \in DOMAIN state : state[p] \in Entry /\ ~Empty(state[p])
  /\ fresh \in BOOLEAN
  /\ \A r \in reports : r.pid \in DOMAIN state /\ r.severity \in Severity
  /\ DOMAIN probes \subseteq Pids \X Dests
  /\ \A c \in DOMAIN probes : probes[c] \in 0..Window
  /\ DOMAIN metAs = DOMAIN state

LEMMA CommsFacts == Comms = Names \cup {Gone} /\ NoValue \in Comms
BY DEF Comms, Gone

LEMMA TypeInvImplies == TypeInv => TypeOK
<1> SUFFICES ASSUME TypeInv PROVE TypeOK
  OBVIOUS
<1>1. ASSUME NEW p \in DOMAIN state
      PROVE  /\ state[p].comm \in Names \cup {NoValue}
             /\ DOMAIN state[p].ports \subseteq Ports(Dests)
             /\ DOMAIN state[p].hosts \subseteq Hosts(Dests)
             /\ \A x \in DOMAIN state[p].ports : state[p].ports[x] \in Ages
             /\ \A x \in DOMAIN state[p].hosts : state[p].hosts[x] \in Ages
             /\ ~Empty(state[p])
  <2>1. state[p].comm \in Names \cup {NoValue} /\ ~Empty(state[p])
    BY DEF TypeInv, Entry, Comms
  <2>2. state[p].ports \in Aged(Ports(Dests)) /\ state[p].hosts \in Aged(Hosts(Dests))
    BY DEF TypeInv, Entry
  <2> QED BY <2>1, <2>2, AgedShape
<1>2. procs \in [Pids -> Names \cup {Gone}]
  BY CommsFacts DEF TypeInv
<1> QED BY <1>1, <1>2 DEF TypeInv, TypeOK

LEMMA InitTypeInv == Init => TypeInv
BY CommsFacts DEF Init, TypeInv

(* The destinations of p's half-open connections in a capture.             *)
Seen(conns, p) == {c[2] : c \in {x \in conns : x[1] = p}}

(* The name a pid is first met with.                                       *)
LEMMA ProcessIsComm ==
  ASSUME TypeInv, NEW p \in Pids, NEW nameless
  PROVE  Process(p, nameless) \in Comms
BY CommsFacts DEF Process, TypeInv

(* What a run makes of one pid's entry.                                    *)
LEMMA AccumulatedShape ==
  ASSUME TypeInv, NEW conns \in SUBSET (Pids \X Dests), NEW nameless,
         NEW p \in DOMAIN state \cup {c[1] : c \in conns}
  PROVE  /\ Accumulated(conns, nameless)[p] \in Entry
         /\ Accumulated(conns, nameless)[p].comm = Remembered(p, nameless).comm
         /\ Accumulated(conns, nameless)[p].ports =
              Pruned(Freshened(Remembered(p, nameless).ports, Ports(Seen(conns, p))))
         /\ Accumulated(conns, nameless)[p].hosts =
              Pruned(Freshened(Remembered(p, nameless).hosts, Hosts(Seen(conns, p))))
<1> DEFINE seen == Seen(conns, p)
           old == Remembered(p, nameless)
<1>1. seen \in SUBSET Dests /\ p \in Pids
  BY DEF Seen, TypeInv
<1>2. old \in Entry
  <2>1. CASE p \in DOMAIN state
    BY <2>1 DEF Remembered, TypeInv
  <2>2. CASE p \notin DOMAIN state
    <3>1. Process(p, nameless) \in Comms
      BY <1>1, ProcessIsComm
    <3>2. {} \in SUBSET Ports(Dests) /\ {} \in SUBSET Hosts(Dests)
          /\ [x \in {} |-> 0] \in [{} -> Ages]
      OBVIOUS
    <3>3. [x \in {} |-> 0] \in Aged(Ports(Dests)) /\ [x \in {} |-> 0] \in Aged(Hosts(Dests))
      BY <3>2, IsAged
    <3> QED BY <2>2, <3>1, <3>3 DEF Remembered, NothingYet, Entry
  <2> QED BY <2>1, <2>2
<1>3. old.ports \in Aged(Ports(Dests)) /\ old.hosts \in Aged(Hosts(Dests)) /\ old.comm \in Comms
  BY <1>2 DEF Entry
<1>4. Ports(seen) \in SUBSET Ports(Dests) /\ Hosts(seen) \in SUBSET Hosts(Dests)
  BY <1>1 DEF Ports, Hosts
<1> DEFINE ports == Pruned(Freshened(old.ports, Ports(seen)))
           hosts == Pruned(Freshened(old.hosts, Hosts(seen)))
           entry == Accumulated(conns, nameless)[p]
<1>5. ports \in Aged(Ports(Dests))
  BY <1>3, <1>4, FreshenedAged
<1>6. hosts \in Aged(Hosts(Dests))
  BY <1>3, <1>4, FreshenedAged
<1>7. entry = [old EXCEPT !.ports = Pruned(Freshened(@, Ports(seen))),
                          !.hosts = Pruned(Freshened(@, Hosts(seen)))]
  BY DEF Accumulated, Seen
<1> HIDE DEF seen, old, entry
<1>8. entry = [comm |-> old.comm, ports |-> ports, hosts |-> hosts]
  BY <1>2, <1>7 DEF Entry
<1>9. entry \in Entry /\ entry.comm = old.comm /\ entry.ports = ports /\ entry.hosts = hosts
  BY <1>3, <1>5, <1>6, <1>8 DEF Entry
<1> QED BY <1>9 DEF seen, old, entry

LEMMA ScannedShape ==
  ASSUME NEW conns, NEW nameless
  PROVE  /\ DOMAIN Scanned(conns, nameless) =
              {p \in DOMAIN state \cup {c[1] : c \in conns} : ~Empty(Accumulated(conns, nameless)[p])}
         /\ \A p \in DOMAIN Scanned(conns, nameless) : Scanned(conns, nameless)[p] = Accumulated(conns, nameless)[p]
<1> DEFINE all == Accumulated(conns, nameless)
<1>1. DOMAIN all = DOMAIN state \cup {c[1] : c \in conns}
  BY DEF Accumulated
<1> HIDE DEF all
<1>2. Scanned(conns, nameless) = [p \in {q \in DOMAIN all : ~Empty(all[q])} |-> all[p]]
  BY DEF Scanned, all
<1>3. DOMAIN Scanned(conns, nameless) = {q \in DOMAIN all : ~Empty(all[q])}
      /\ \A p \in DOMAIN Scanned(conns, nameless) : Scanned(conns, nameless)[p] = all[p]
  BY <1>2
<1> QED BY <1>1, <1>3 DEF all

LEMMA NextTypeInv == TypeInv /\ [Next]_vars => TypeInv'
<1> SUFFICES ASSUME TypeInv, [Next]_vars PROVE TypeInv'
  OBVIOUS
<1>1. ASSUME NEW conns \in SUBSET (Pids \X Dests), NEW nameless, Run(conns, nameless)
      PROVE  TypeInv'
  <2>2. state' = Scanned(conns, nameless) /\ fresh' = TRUE /\ UNCHANGED procs
    BY <1>1 DEF Run
  <2>3. {c[1] : c \in conns} \subseteq Pids
    OBVIOUS
  <2>4. DOMAIN state' \subseteq DOMAIN state \cup {c[1] : c \in conns}
        /\ \A p \in DOMAIN state' : state'[p] = Accumulated(conns, nameless)[p] /\ ~Empty(Accumulated(conns, nameless)[p])
    BY <2>2, ScannedShape
  <2>5. \A p \in DOMAIN state' : state'[p] \in Entry /\ ~Empty(state'[p])
    BY <2>4, AccumulatedShape
  <2>6. DOMAIN state' \subseteq Pids
    BY <2>3, <2>4 DEF TypeInv
  <2>7. \A r \in reports' : r.pid \in DOMAIN state' /\ r.severity \in Severity
    <3>1. SeverityHigh \in Severity /\ SeverityMedium \in Severity
      BY DEF Severity, SeverityHigh, SeverityMedium, SeverityInfo, SeverityCritical
    <3>2. \A p : Report(p, state'[p]).pid = p /\ Report(p, state'[p]).severity \in Severity
      BY <3>1 DEF Report
    <3>3. reports' = {Report(p, state'[p]) : p \in {q \in DOMAIN state' : Scans(state'[q])}}
      BY <1>1 DEF Run
    <3> QED BY <3>2, <3>3
  <2>8. DOMAIN probes' \subseteq Pids \X Dests /\ \A c \in DOMAIN probes' : probes'[c] \in 0..Window
    BY <1>1, WindowFacts DEF Run, TypeInv
  <2>9. DOMAIN metAs' = DOMAIN state'
    BY <1>1 DEF Run
  <2> QED BY <2>2, <2>5, <2>6, <2>7, <2>8, <2>9 DEF TypeInv
<1>2. CASE Tick
  <2>1. DOMAIN state' = DOMAIN state
        /\ \A p \in DOMAIN state :
             state'[p] = [state[p] EXCEPT !.ports = Older(@), !.hosts = Older(@)]
    BY <1>2 DEF Tick
  <2>2. ASSUME NEW p \in DOMAIN state PROVE state'[p] \in Entry /\ ~Empty(state'[p])
    <3>1. state[p] \in Entry
      BY DEF TypeInv
    <3>2. state[p].ports \in Aged(Ports(Dests)) /\ state[p].hosts \in Aged(Hosts(Dests))
      BY <3>1 DEF Entry
    <3>3. Older(state[p].ports) \in Aged(Ports(Dests)) /\ DOMAIN Older(state[p].ports) = DOMAIN state[p].ports
      BY <3>2, OlderAged
    <3>4. Older(state[p].hosts) \in Aged(Hosts(Dests)) /\ DOMAIN Older(state[p].hosts) = DOMAIN state[p].hosts
      BY <3>2, OlderAged
    <3>5. state'[p] \in Entry /\ state'[p].ports = Older(state[p].ports)
          /\ state'[p].hosts = Older(state[p].hosts)
      BY <2>1, <3>1, <3>3, <3>4 DEF Entry
    <3>6. ~Empty(state[p])
      BY DEF TypeInv
    <3> QED BY <3>3, <3>4, <3>5, <3>6 DEF Empty
  <2>3. DOMAIN probes' \subseteq Pids \X Dests /\ \A c \in DOMAIN probes' : probes'[c] \in 0..Window
    <3>1. DOMAIN probes' = {d \in DOMAIN probes : probes[d] < Window}
          /\ \A c \in DOMAIN probes' : probes'[c] = probes[c] + 1
      BY <1>2 DEF Tick
    <3>2. \A c \in DOMAIN probes : c \in Pids \X Dests /\ probes[c] \in 0..Window
      BY DEF TypeInv
    <3> QED BY <3>1, <3>2, WindowFacts
  <2>4. fresh' \in BOOLEAN /\ reports' = {} /\ UNCHANGED <<procs, metAs>>
    BY <1>2 DEF Tick, TakeReports
  <2> QED BY <2>1, <2>2, <2>3, <2>4 DEF TypeInv
<1>3. CASE Restart
  BY <1>3 DEF Restart, TakeReports, TypeInv
<1>4. ASSUME NEW p \in Pids, NEW g \in Names \cup {Gone}, Becomes(p, g) PROVE TypeInv'
  <2>1. fresh' \in BOOLEAN /\ reports' = {} /\ UNCHANGED <<state, probes, metAs>>
    BY <1>4 DEF Becomes, TakeReports
  <2>2. procs' \in [Pids -> Comms]
    BY <1>4, CommsFacts DEF Becomes, TypeInv
  <2> QED BY <2>1, <2>2 DEF TypeInv
<1>5. CASE UNCHANGED vars
  BY <1>5 DEF vars, TypeInv, Empty
<1> QED BY <1>1, <1>2, <1>3, <1>4, <1>5 DEF Next

(* Every reachable state has the shape TypeOK describes.                   *)
THEOREM TypeCorrect == Spec => []TypeOK
BY InitTypeInv, NextTypeInv, TypeInvImplies, PTL DEF Spec

-------------------------------------------------------------------------------
(* The sliding window.                                                     *)

(* The entries e, of the parts i of p's destinations, say when each part   *)
(* was last captured: the history pr as far as it reaches, no more and no  *)
(* less.                                                                   *)
Mirrors(e, i, pr, p) ==
  /\ \A c \in DOMAIN pr : c[1] = p => c[2][i] \in DOMAIN e /\ e[c[2][i]] <= pr[c]
  /\ \A x \in DOMAIN e : e[x] <= Window =>
       \E c \in DOMAIN pr : c[1] = p /\ c[2][i] = x /\ pr[c] = e[x]

TickedProbes == [c \in {d \in DOMAIN probes : probes[d] < Window} |-> probes[c] + 1]

LEMMA TickMirrors ==
  ASSUME TypeInv, NEW S, NEW e \in Aged(S), NEW i, NEW p, Mirrors(e, i, probes, p)
  PROVE  Mirrors(Older(e), i, TickedProbes, p)
<1>1. \A x \in DOMAIN e : e[x] \in Ages
  BY AgedShape
<1>2. DOMAIN Older(e) = DOMAIN e
      /\ \A x \in DOMAIN e : Older(e)[x] = IF e[x] < MaxAge THEN e[x] + 1 ELSE MaxAge
  BY DEF Older
<1>3. DOMAIN TickedProbes = {d \in DOMAIN probes : probes[d] < Window}
      /\ \A c \in DOMAIN TickedProbes : TickedProbes[c] = probes[c] + 1
  BY DEF TickedProbes
<1>4. \A c \in DOMAIN probes : probes[c] \in 0..Window
  BY DEF TypeInv
<1>5. ASSUME NEW c \in DOMAIN TickedProbes, c[1] = p
      PROVE  c[2][i] \in DOMAIN Older(e) /\ Older(e)[c[2][i]] <= TickedProbes[c]
  <2>1. c \in DOMAIN probes /\ c[2][i] \in DOMAIN e /\ e[c[2][i]] <= probes[c]
    BY <1>3, <1>5 DEF Mirrors
  <2> QED BY <1>1, <1>2, <1>3, <1>4, <2>1, WindowFacts
<1>6. ASSUME NEW x \in DOMAIN Older(e), Older(e)[x] <= Window
      PROVE  \E c \in DOMAIN TickedProbes : c[1] = p /\ c[2][i] = x /\ TickedProbes[c] = Older(e)[x]
  <2>1. x \in DOMAIN e /\ e[x] < Window /\ Older(e)[x] = e[x] + 1
    BY <1>1, <1>2, <1>6, WindowFacts
  <2>2. e[x] <= Window
    BY <1>1, <2>1, WindowFacts
  <2>3. PICK c \in DOMAIN probes : c[1] = p /\ c[2][i] = x /\ probes[c] = e[x]
    BY <2>1, <2>2 DEF Mirrors
  <2>4. c \in DOMAIN TickedProbes /\ TickedProbes[c] = Older(e)[x]
    BY <1>3, <2>1, <2>3
  <2> QED BY <2>3, <2>4
<1> QED BY <1>5, <1>6 DEF Mirrors

Captured(conns) == [c \in DOMAIN probes \cup conns |-> IF c \in conns THEN 0 ELSE probes[c]]

(* Nothing of e is too old, and seen are the parts i of the destinations.  *)
InWindow(e) == \A x \in DOMAIN e : e[x] <= Window

Parts(i, ds, seen) == \A x : x \in seen <=> \E d \in ds : d[i] = x

LEMMA RunMirrors ==
  ASSUME TypeInv, NEW S, NEW e \in Aged(S), NEW i, NEW p, Mirrors(e, i, probes, p),
         NEW conns, NEW seen \in SUBSET S, Parts(i, Seen(conns, p), seen)
  PROVE  /\ Mirrors(Pruned(Freshened(e, seen)), i, Captured(conns), p)
         /\ InWindow(Pruned(Freshened(e, seen)))
<1> DEFINE f == Pruned(Freshened(e, seen))
<1>0. f = [x \in Kept(e, seen) |-> IF x \in seen THEN 0 ELSE e[x]]
  BY FreshenedEntries
<1> HIDE DEF f
<1>1. DOMAIN f = {x \in DOMAIN e \cup seen : x \in seen \/ e[x] <= Window}
      /\ \A x \in DOMAIN f : f[x] = IF x \in seen THEN 0 ELSE e[x]
  BY <1>0 DEF Kept
<1>2. DOMAIN Captured(conns) = DOMAIN probes \cup conns
      /\ \A c \in DOMAIN Captured(conns) : Captured(conns)[c] = IF c \in conns THEN 0 ELSE probes[c]
  BY DEF Captured
<1>3. \A c \in DOMAIN probes : probes[c] \in 0..Window
  BY DEF TypeInv
<1>4. \A x \in DOMAIN e : e[x] \in Ages
  BY AgedShape
<1>5. \A c \in conns : c[1] = p => c[2][i] \in seen
  BY DEF Seen, Parts
<1>6. \A x \in seen : \E c \in conns : c[1] = p /\ c[2][i] = x
  BY DEF Seen, Parts
<1>7. ASSUME NEW c \in DOMAIN Captured(conns), c[1] = p
      PROVE  c[2][i] \in DOMAIN f /\ f[c[2][i]] <= Captured(conns)[c]
  <2>1. CASE c \in conns
    BY <1>1, <1>2, <1>5, <1>7, <2>1
  <2>2. CASE c \notin conns
    <3>1. c \in DOMAIN probes /\ Captured(conns)[c] = probes[c]
      BY <1>2, <2>2
    <3>2. c[2][i] \in DOMAIN e /\ e[c[2][i]] <= probes[c]
      BY <1>7, <3>1 DEF Mirrors
    <3>3. e[c[2][i]] <= Window /\ probes[c] >= 0
      BY <1>3, <1>4, <3>1, <3>2, WindowFacts
    <3> QED BY <1>1, <3>1, <3>2, <3>3
  <2> QED BY <2>1, <2>2
<1>8. ASSUME NEW x \in DOMAIN f
      PROVE  \E c \in DOMAIN Captured(conns) : c[1] = p /\ c[2][i] = x /\ Captured(conns)[c] = f[x]
  <2>1. CASE x \in seen
    BY <1>1, <1>2, <1>6, <2>1
  <2>2. CASE x \notin seen
    <3>1. x \in DOMAIN e /\ e[x] <= Window /\ f[x] = e[x]
      BY <1>1, <2>2
    <3>2. PICK c \in DOMAIN probes : c[1] = p /\ c[2][i] = x /\ probes[c] = e[x]
      BY <3>1 DEF Mirrors
    <3>3. c \notin conns
      BY <1>5, <2>2, <3>2
    <3> QED BY <1>2, <3>1, <3>2, <3>3
  <2> QED BY <2>1, <2>2
<1>9. \A x \in DOMAIN f : f[x] <= Window
  BY <1>1, WindowFacts
<1> QED BY <1>7, <1>8, <1>9 DEF Mirrors, InWindow, f

(* A pid without an entry was not captured within the window; an entry     *)
(* says what was and when.                                                 *)
MirrorInv ==
  /\ \A c \in DOMAIN probes : c[1] \in DOMAIN state
  /\ \A p \in DOMAIN state :
       Mirrors(state[p].ports, 1, probes, p) /\ Mirrors(state[p].hosts, 2, probes, p)

(* After a run nothing older than the window is left, and what is left     *)
(* decides about the reports.                                              *)
RunInv ==
  fresh =>
    /\ \A p \in DOMAIN state : InWindow(state[p].ports) /\ InWindow(state[p].hosts)
    /\ reports = {Report(p, state[p]) : p \in {q \in DOMAIN state : Scans(state[q])}}

WindowInv == MirrorInv /\ RunInv

LEMMA InitWindowInv == Init => WindowInv
BY DEF Init, WindowInv, MirrorInv, RunInv

(* A pid without an entry has no history, as an empty entry would say.     *)
LEMMA RememberedMirrors ==
  ASSUME TypeInv, MirrorInv, NEW p, NEW nameless
  PROVE  /\ Mirrors(Remembered(p, nameless).ports, 1, probes, p)
         /\ Mirrors(Remembered(p, nameless).hosts, 2, probes, p)
<1>1. CASE p \in DOMAIN state
  BY <1>1 DEF Remembered, MirrorInv
<1>2. CASE p \notin DOMAIN state
  <2>1. \A c \in DOMAIN probes : c[1] # p
    BY <1>2 DEF MirrorInv
  <2>2. DOMAIN Remembered(p, nameless).ports = {} /\ DOMAIN Remembered(p, nameless).hosts = {}
    BY <1>2 DEF Remembered, NothingYet
  <2> QED BY <2>1, <2>2 DEF Mirrors
<1> QED BY <1>1, <1>2

LEMMA RememberedAged ==
  ASSUME TypeInv, NEW p, NEW nameless
  PROVE  Remembered(p, nameless).ports \in Aged(Ports(Dests)) /\ Remembered(p, nameless).hosts \in Aged(Hosts(Dests))
<1>1. CASE p \in DOMAIN state
  BY <1>1 DEF Remembered, TypeInv, Entry
<1>2. CASE p \notin DOMAIN state
  <2>1. {} \in SUBSET Ports(Dests) /\ {} \in SUBSET Hosts(Dests)
        /\ [x \in {} |-> 0] \in [{} -> Ages]
    OBVIOUS
  <2>2. [x \in {} |-> 0] \in Aged(Ports(Dests)) /\ [x \in {} |-> 0] \in Aged(Hosts(Dests))
    BY <2>1, IsAged
  <2> QED BY <1>2, <2>2 DEF Remembered, NothingYet
<1> QED BY <1>1, <1>2

LEMMA PartsSeen ==
  ASSUME NEW conns \in SUBSET (Pids \X Dests), NEW p
  PROVE  /\ Ports(Seen(conns, p)) \in SUBSET Ports(Dests)
         /\ Hosts(Seen(conns, p)) \in SUBSET Hosts(Dests)
         /\ Parts(1, Seen(conns, p), Ports(Seen(conns, p)))
         /\ Parts(2, Seen(conns, p), Hosts(Seen(conns, p)))
<1>1. Seen(conns, p) \subseteq Dests
  BY DEF Seen
<1> QED BY <1>1 DEF Ports, Hosts, Parts

(* What a run accumulates for a pid, before empty entries are forgotten.   *)
LEMMA AccumulatedMirrors ==
  ASSUME TypeInv, MirrorInv, NEW conns \in SUBSET (Pids \X Dests),
         NEW nameless, NEW p \in DOMAIN state \cup {c[1] : c \in conns}
  PROVE  /\ Mirrors(Accumulated(conns, nameless)[p].ports, 1, Captured(conns), p)
         /\ Mirrors(Accumulated(conns, nameless)[p].hosts, 2, Captured(conns), p)
         /\ InWindow(Accumulated(conns, nameless)[p].ports) /\ InWindow(Accumulated(conns, nameless)[p].hosts)
<1> DEFINE ports == Pruned(Freshened(Remembered(p, nameless).ports, Ports(Seen(conns, p))))
           hosts == Pruned(Freshened(Remembered(p, nameless).hosts, Hosts(Seen(conns, p))))
<1>1. Accumulated(conns, nameless)[p].ports = ports /\ Accumulated(conns, nameless)[p].hosts = hosts
  BY AccumulatedShape
<1>2. Mirrors(ports, 1, Captured(conns), p) /\ InWindow(ports)
  <2>1. Remembered(p, nameless).ports \in Aged(Ports(Dests)) /\ Mirrors(Remembered(p, nameless).ports, 1, probes, p)
    BY RememberedMirrors, RememberedAged
  <2>2. Ports(Seen(conns, p)) \in SUBSET Ports(Dests)
        /\ Parts(1, Seen(conns, p), Ports(Seen(conns, p)))
    BY PartsSeen
  <2> QED BY <2>1, <2>2, RunMirrors
<1>3. Mirrors(hosts, 2, Captured(conns), p) /\ InWindow(hosts)
  <2>1. Remembered(p, nameless).hosts \in Aged(Hosts(Dests)) /\ Mirrors(Remembered(p, nameless).hosts, 2, probes, p)
    BY RememberedMirrors, RememberedAged
  <2>2. Hosts(Seen(conns, p)) \in SUBSET Hosts(Dests)
        /\ Parts(2, Seen(conns, p), Hosts(Seen(conns, p)))
    BY PartsSeen
  <2> QED BY <2>1, <2>2, RunMirrors
<1> QED BY <1>1, <1>2, <1>3

LEMMA NextWindowInv == TypeInv /\ WindowInv /\ [Next]_vars => WindowInv'
<1> SUFFICES ASSUME TypeInv, WindowInv, [Next]_vars PROVE WindowInv'
  OBVIOUS
<1>0. MirrorInv
  BY DEF WindowInv
<1>1. ASSUME NEW conns \in SUBSET (Pids \X Dests), NEW nameless, Run(conns, nameless)
      PROVE  WindowInv'
  <2>2. state' = Scanned(conns, nameless) /\ probes' = Captured(conns) /\ UNCHANGED procs
        /\ reports' = {Report(p, state'[p]) : p \in {q \in DOMAIN state' : Scans(state'[q])}}
    BY <1>1 DEF Run, Captured
  <2> DEFINE all == DOMAIN state \cup {c[1] : c \in conns}
             acc == Accumulated(conns, nameless)
  <2>3. DOMAIN state' = {p \in all : ~Empty(acc[p])} /\ \A p \in DOMAIN state' : state'[p] = acc[p]
    <3> DEFINE new == Scanned(conns, nameless)
    <3>1. DOMAIN new = {p \in all : ~Empty(acc[p])} /\ \A p \in DOMAIN new : new[p] = acc[p]
      BY ScannedShape
    <3>2. state' = new
      BY <2>2
    <3> HIDE DEF new, acc
    <3> QED BY <3>1, <3>2
  <2>4. \A p \in all : /\ Mirrors(acc[p].ports, 1, probes', p) /\ Mirrors(acc[p].hosts, 2, probes', p)
                       /\ InWindow(acc[p].ports) /\ InWindow(acc[p].hosts)
    <3> SUFFICES ASSUME NEW p \in all
                 PROVE  /\ Mirrors(acc[p].ports, 1, probes', p) /\ Mirrors(acc[p].hosts, 2, probes', p)
                        /\ InWindow(acc[p].ports) /\ InWindow(acc[p].hosts)
      OBVIOUS
    <3>1. /\ Mirrors(acc[p].ports, 1, Captured(conns), p)
          /\ Mirrors(acc[p].hosts, 2, Captured(conns), p)
          /\ InWindow(acc[p].ports) /\ InWindow(acc[p].hosts)
      BY <1>0, AccumulatedMirrors
    <3> QED BY <2>2, <3>1
  <2> HIDE DEF acc
  <2>5. ASSUME NEW c \in DOMAIN probes' PROVE c[1] \in DOMAIN state'
    <3>1. DOMAIN probes' = DOMAIN probes \cup conns
      BY <2>2 DEF Captured
    <3>2. c[1] \in all
      BY <1>0, <3>1 DEF MirrorInv
    <3>3. c[2][1] \in DOMAIN acc[c[1]].ports
      BY <2>4, <3>2 DEF Mirrors
    <3> QED BY <2>3, <3>2, <3>3 DEF Empty
  <2>6. MirrorInv'
    BY <2>3, <2>4, <2>5 DEF MirrorInv
  <2>7. \A p : Report(p, state[p])' = Report(p, state'[p])
    BY <2>2 DEF Report
  <2>8. \A p : Scans(state[p])' = Scans(state'[p])
    BY DEF Scans
  <2>9. RunInv'
    <3>1. reports' = {Report(p, state[p])' : p \in {q \in DOMAIN state' : Scans(state[q])'}}
      BY <2>2, <2>7, <2>8
    <3> QED BY <2>3, <2>4, <3>1 DEF RunInv
  <2> QED BY <2>6, <2>9 DEF WindowInv
<1>2. CASE Tick
  <2>1. DOMAIN state' = DOMAIN state /\ probes' = TickedProbes /\ ~fresh'
        /\ \A p \in DOMAIN state :
             state'[p] = [state[p] EXCEPT !.ports = Older(@), !.hosts = Older(@)]
    BY <1>2 DEF Tick, TakeReports, TickedProbes
  <2>2. \A c \in DOMAIN probes' : c \in DOMAIN probes
    BY <2>1 DEF TickedProbes
  <2>3. ASSUME NEW p \in DOMAIN state
        PROVE  Mirrors(state'[p].ports, 1, probes', p) /\ Mirrors(state'[p].hosts, 2, probes', p)
    <3>1. state[p] \in Entry
      BY DEF TypeInv
    <3>2. state[p].ports \in Aged(Ports(Dests)) /\ state[p].hosts \in Aged(Hosts(Dests))
      BY <3>1 DEF Entry
    <3>3. state'[p].ports = Older(state[p].ports) /\ state'[p].hosts = Older(state[p].hosts)
      BY <2>1, <3>1 DEF Entry
    <3>4. Mirrors(state[p].ports, 1, probes, p) /\ Mirrors(state[p].hosts, 2, probes, p)
      BY <1>0 DEF MirrorInv
    <3>5. Mirrors(Older(state[p].ports), 1, TickedProbes, p)
      BY <3>2, <3>4, TickMirrors
    <3>6. Mirrors(Older(state[p].hosts), 2, TickedProbes, p)
      BY <3>2, <3>4, TickMirrors
    <3> QED BY <2>1, <3>3, <3>5, <3>6
  <2> QED BY <1>0, <2>1, <2>2, <2>3 DEF WindowInv, MirrorInv, RunInv
<1>3. CASE Restart
  BY <1>3 DEF Restart, TakeReports, WindowInv, MirrorInv, RunInv
<1>4. ASSUME NEW p \in Pids, NEW g \in Names \cup {Gone}, Becomes(p, g) PROVE WindowInv'
  <2>1. UNCHANGED <<state, probes>> /\ ~fresh'
    BY <1>4 DEF Becomes, TakeReports
  <2> QED BY <2>1 DEF WindowInv, MirrorInv, RunInv
<1>5. CASE UNCHANGED vars
  <2>1. UNCHANGED <<procs, state, reports, fresh, probes>>
    BY <1>5 DEF vars
  <2>2. MirrorInv'
    BY <1>0, <2>1 DEF MirrorInv
  <2>3. RunInv'
    BY <2>1 DEF WindowInv, RunInv, InWindow, Report, Scans
  <2> QED BY <2>2, <2>3 DEF WindowInv
<1> QED BY <1>1, <1>2, <1>3, <1>4, <1>5 DEF Next

(* After a run the entries of a pid are what was captured of it in time.   *)
LEMMA EntriesAreRecent ==
  ASSUME TypeInv, WindowInv, fresh, NEW p \in DOMAIN state
  PROVE  DOMAIN state[p].ports = Ports(Recent(p)) /\ DOMAIN state[p].hosts = Hosts(Recent(p))
<1>1. Mirrors(state[p].ports, 1, probes, p) /\ Mirrors(state[p].hosts, 2, probes, p)
  BY DEF WindowInv, MirrorInv
<1>2. (\A x \in DOMAIN state[p].ports : state[p].ports[x] <= Window)
      /\ (\A x \in DOMAIN state[p].hosts : state[p].hosts[x] <= Window)
  BY DEF WindowInv, RunInv, InWindow
<1>3. DOMAIN state[p].ports = Ports(Recent(p))
  <2>1. \A x \in DOMAIN state[p].ports : \E c \in DOMAIN probes : c[1] = p /\ c[2][1] = x
    BY <1>1, <1>2 DEF Mirrors
  <2>2. \A c \in DOMAIN probes : c[1] = p => c[2][1] \in DOMAIN state[p].ports
    BY <1>1 DEF Mirrors
  <2> QED BY <2>1, <2>2 DEF Ports, Recent
<1>4. DOMAIN state[p].hosts = Hosts(Recent(p))
  <2>1. \A x \in DOMAIN state[p].hosts : \E c \in DOMAIN probes : c[1] = p /\ c[2][2] = x
    BY <1>1, <1>2 DEF Mirrors
  <2>2. \A c \in DOMAIN probes : c[1] = p => c[2][2] \in DOMAIN state[p].hosts
    BY <1>1 DEF Mirrors
  <2> QED BY <2>1, <2>2 DEF Hosts, Recent
<1> QED BY <1>3, <1>4

LEMMA RecentHasEntry ==
  ASSUME WindowInv, NEW p, Recent(p) # {}
  PROVE  p \in DOMAIN state
BY DEF WindowInv, MirrorInv, Recent

(* A pid is reported for what was captured of it within the window, for    *)
(* all of it and, unless it is a known scanner, for nothing else.          *)
THEOREM WindowCorrect == Spec => []WindowIsExact
<1>1. ASSUME TypeInv, WindowInv PROVE WindowIsExact
  <2> SUFFICES ASSUME fresh
               PROVE  /\ \A p \in Pids : Recent(p) # {} /\ Reaches(Recent(p)) =>
                                           p \in {r.pid : r \in reports}
                      /\ \A r \in reports : Reaches(Recent(r.pid)) \/ r.comm \in Scanners
    BY DEF WindowIsExact
  <2>1. reports = {Report(p, state[p]) : p \in {q \in DOMAIN state : Scans(state[q])}}
    BY <1>1 DEF WindowInv, RunInv
  <2>2. \A p \in DOMAIN state :
          Scans(state[p]) <=> Reaches(Recent(p)) \/ state[p].comm \in Scanners
    BY <1>1, EntriesAreRecent DEF Scans, Reaches
  <2>3. \A p : Report(p, state[p]).pid = p /\ Report(p, state[p]).comm = state[p].comm
    BY DEF Report
  <2>4. ASSUME NEW p \in Pids, Recent(p) # {}, Reaches(Recent(p))
        PROVE  p \in {r.pid : r \in reports}
    <3>1. p \in DOMAIN state
      BY <1>1, <2>4, RecentHasEntry
    <3> QED BY <2>1, <2>2, <2>3, <2>4, <3>1
  <2>5. ASSUME NEW r \in reports PROVE Reaches(Recent(r.pid)) \/ r.comm \in Scanners
    BY <2>1, <2>2, <2>3
  <2> QED BY <2>4, <2>5
<1> QED BY <1>1, InitTypeInv, NextTypeInv, InitWindowInv, NextWindowInv, PTL DEF Spec

-------------------------------------------------------------------------------
(* The name of a pid.                                                      *)

(* A pid is remembered under the name it was first met with.               *)
NameInv == \A p \in DOMAIN state : metAs[p] = state[p].comm

LEMMA InitNameInv == Init => NameInv
BY DEF Init, NameInv

LEMMA NextNameInv == TypeInv /\ NameInv /\ [Next]_vars => NameInv'
<1> SUFFICES ASSUME TypeInv, NameInv, [Next]_vars PROVE NameInv'
  OBVIOUS
<1>1. ASSUME NEW conns \in SUBSET (Pids \X Dests), NEW nameless, Run(conns, nameless)
      PROVE  NameInv'
  <2>1. state' = Scanned(conns, nameless)
        /\ metAs' = [p \in DOMAIN state' |->
                       IF p \in DOMAIN metAs THEN metAs[p] ELSE Process(p, nameless)]
    BY <1>1 DEF Run
  <2>2. ASSUME NEW p \in DOMAIN state' PROVE metAs'[p] = state'[p].comm
    <3> DEFINE new == Scanned(conns, nameless)
    <3>1. /\ DOMAIN new \subseteq DOMAIN state \cup {c[1] : c \in conns}
          /\ \A q \in DOMAIN new : new[q] = Accumulated(conns, nameless)[q]
      BY ScannedShape
    <3>2. state' = new
      BY <2>1
    <3> HIDE DEF new
    <3>3. p \in DOMAIN state \cup {c[1] : c \in conns}
          /\ state'[p] = Accumulated(conns, nameless)[p]
      BY <3>1, <3>2
    <3>4. state'[p].comm = Remembered(p, nameless).comm
      BY <3>3, AccumulatedShape
    <3>5. metAs'[p] = IF p \in DOMAIN state THEN metAs[p] ELSE Process(p, nameless)
      BY <2>1 DEF TypeInv
    <3> QED BY <3>4, <3>5 DEF Remembered, NothingYet, NameInv
  <2> QED BY <2>2 DEF NameInv
<1>2. CASE Tick
  <2>1. DOMAIN state' = DOMAIN state /\ UNCHANGED metAs
        /\ \A p \in DOMAIN state :
             state'[p] = [state[p] EXCEPT !.ports = Older(@), !.hosts = Older(@)]
    BY <1>2 DEF Tick
  <2>2. \A p \in DOMAIN state : state'[p].comm = state[p].comm
    BY <2>1 DEF TypeInv, Entry
  <2> QED BY <2>1, <2>2 DEF NameInv
<1>3. CASE Restart
  BY <1>3 DEF Restart, NameInv
<1>4. ASSUME NEW p \in Pids, NEW g \in Names \cup {Gone}, Becomes(p, g) PROVE NameInv'
  BY <1>4 DEF Becomes, NameInv
<1>5. CASE UNCHANGED vars
  BY <1>5 DEF vars, NameInv
<1> QED BY <1>1, <1>2, <1>3, <1>4, <1>5 DEF Next

(* Known scanners are reported, unless their pid was first met under       *)
(* another name or without one.                                            *)
THEOREM ScannersReported == Spec => []KnownScannerReported
<1>1. ASSUME TypeInv, WindowInv, NameInv PROVE KnownScannerReported
  <2> SUFFICES ASSUME fresh, NEW p \in Pids, Recent(p) # {}, procs[p] \in Scanners,
                      ~(p \in DOMAIN metAs /\ metAs[p] # procs[p])
               PROVE  FlaggedAsScanner(p)
    BY DEF KnownScannerReported
  <2>1. p \in DOMAIN state /\ p \in DOMAIN metAs
    BY <1>1, RecentHasEntry DEF TypeInv
  <2>2. state[p].comm \in Scanners
    BY <1>1, <2>1 DEF NameInv
  <2>3. Report(p, state[p]) \in reports
    BY <1>1, <2>1, <2>2 DEF WindowInv, RunInv, Scans
  <2>4. Report(p, state[p]).pid = p /\ Report(p, state[p]).severity = SeverityHigh
    BY <2>2 DEF Report
  <2> QED BY <2>3, <2>4 DEF FlaggedAsScanner
<1> QED
  BY <1>1, InitTypeInv, NextTypeInv, InitWindowInv, NextWindowInv, InitNameInv, NextNameInv,
     PTL DEF Spec
===============================================================================
