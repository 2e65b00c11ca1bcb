-------------------------- MODULE SocketOwnersProofs --------------------------
(***************************************************************************)
(* Proofs about SocketOwners, for any processes, sockets, number of        *)
(* workers, channel capacity and chunk size: the type invariant, that an   *)
(* owner really held the socket, and that no result is lost on its way     *)
(* through the pool.                                                       *)
(***************************************************************************)
EXTENDS SocketOwners, TLAPS

LEMMA PidsFacts ==
  /\ Len(Pids) \in Nat
  /\ \A i \in 1..Len(Pids) : Pids[i] \in PidSet
  /\ PidSet \subseteq Nat \ {NoPid}
BY SocketOwnersAssumption DEF PidSet

(* One map laid over another: where it comes from.                         *)
LEMMA OverShape ==
  ASSUME NEW f, NEW g
  PROVE  /\ DOMAIN Over(f, g) = DOMAIN f \cup DOMAIN g
         /\ \A i \in DOMAIN g : Over(f, g)[i] = g[i]
         /\ \A i \in DOMAIN f \ DOMAIN g : Over(f, g)[i] = f[i]
BY DEF Over

LEMMA OverOwners ==
  ASSUME NEW f, NEW g, IsOwnerMap(f), IsOwnerMap(g)
  PROVE  IsOwnerMap(Over(f, g))
<1>1. DOMAIN Over(f, g) \subseteq Inodes
  BY OverShape DEF IsOwnerMap
<1>2. \A i \in DOMAIN f \cup DOMAIN g : (IF i \in DOMAIN g THEN g[i] ELSE f[i]) \in PidSet
  BY DEF IsOwnerMap
<1>3. Over(f, g) \in [DOMAIN Over(f, g) -> PidSet]
  BY <1>2, OverShape DEF Over
<1> QED BY <1>1, <1>3 DEF IsOwnerMap

LEMMA NoMapShape == DOMAIN NoMap = {} /\ IsOwnerMap(NoMap)
BY DEF NoMap, IsOwnerMap

LEMMA OneOwner ==
  ASSUME NEW i \in Inodes, NEW p \in PidSet
  PROVE  /\ IsOwnerMap([j \in {i} |-> p])
         /\ DOMAIN [j \in {i} |-> p] = {i} /\ [j \in {i} |-> p][i] = p
BY DEF IsOwnerMap

(* The channel: taking the first job, adding a last one.                   *)
LEMMA FirstJob ==
  ASSUME NEW S, NEW s \in Seq(S), s # <<>>
  PROVE  /\ Head(s) \in S /\ Head(s) = s[1] /\ Len(s) \in Nat \ {0}
         /\ Tail(s) \in Seq(S) /\ Len(Tail(s)) = Len(s) - 1
         /\ \A k \in 2..Len(s) : k - 1 \in 1..Len(Tail(s)) /\ Tail(s)[k - 1] = s[k]
OBVIOUS

LEMMA LastJob ==
  ASSUME NEW S, NEW s \in Seq(S), NEW x \in S
  PROVE  /\ Append(s, x) \in Seq(S) /\ Len(Append(s, x)) = Len(s) + 1
         /\ Append(s, x)[Len(s) + 1] = x
         /\ \A k \in 1..Len(s) : Append(s, x)[k] = s[k]
OBVIOUS

-------------------------------------------------------------------------------
(* Type correctness.                                                       *)

LEMMA InitTypeOK == Init => TypeOK
<1> SUFFICES ASSUME Init PROVE TypeOK
  OBVIOUS
<1>1. held \subseteq PidSet \X Inodes /\ steady \subseteq PidSet \X Fds \X Inodes
  BY DEF Init, Holding, OpenNow
<1>2. next \in 1..(Len(Pids) + 1)
  BY PidsFacts DEF Init
<1>3. jobs \in Seq([pid : PidSet, names : SUBSET Fds]) /\ Len(jobs) <= Capacity
  BY SocketOwnersAssumption DEF Init
<1>4. job \in [Workers -> Job]
  BY DEF Init, Job
<1>5. DOMAIN local = Workers /\ \A w \in Workers : IsOwnerMap(local[w])
  BY NoMapShape DEF Init
<1>6. changes \in Nat /\ (names # {} => next > 1) /\ names \subseteq Fds
  BY DEF Init
<1>7. \A w \in Workers : job[w].names # {} => job[w].pid \in PidSet
  BY DEF Init
<1> QED BY <1>1, <1>2, <1>3, <1>4, <1>5, <1>6, <1>7, NoMapShape DEF Init, TypeOK

LEMMA NextTypeOK == TypeOK /\ [Next]_vars => TypeOK'
<1> SUFFICES ASSUME TypeOK, [Next]_vars PROVE TypeOK'
  OBVIOUS
<1>1. CASE List
  <2>1. Pids[next] \in PidSet /\ next + 1 \in 1..(Len(Pids) + 1) /\ next + 1 > 1
    BY <1>1, PidsFacts DEF List, TypeOK
  <2>2. Opened(Pids[next]) \subseteq Fds
    BY DEF Opened
  <2> QED BY <1>1, <2>1, <2>2 DEF List, TypeOK, processes, workers
<1>2. CASE ListFails
  <2>1. next + 1 \in 1..(Len(Pids) + 1) /\ next + 1 > 1
    BY <1>2, PidsFacts DEF ListFails, TypeOK
  <2> QED BY <1>2, <2>1 DEF ListFails, TypeOK, processes, workers
<1>3. CASE Close
  BY <1>3 DEF Close, TypeOK, processes, workers
<1>4. CASE Expire
  BY <1>4 DEF Expire, TypeOK, processes, workers, producer
<1>5. ASSUME NEW c \in SUBSET names, HandOut(c) PROVE TypeOK'
  <2>1. Pids[next - 1] \in PidSet
    BY <1>5, PidsFacts DEF HandOut, TypeOK
  <2>2. [pid |-> Pids[next - 1], names |-> c] \in [pid : PidSet, names : SUBSET Fds]
    BY <1>5, <2>1 DEF HandOut, TypeOK
  <2>3. jobs' \in Seq([pid : PidSet, names : SUBSET Fds]) /\ Len(jobs') <= Capacity
    BY <1>5, <2>2, SocketOwnersAssumption DEF HandOut, TypeOK
  <2> QED BY <1>5, <2>3 DEF HandOut, TypeOK, processes, workers
<1>6. ASSUME NEW w \in Workers, Take(w) PROVE TypeOK'
  <2>1. Head(jobs) \in [pid : PidSet, names : SUBSET Fds]
    BY <1>6, FirstJob DEF Take, TypeOK
  <2>2. jobs' \in Seq([pid : PidSet, names : SUBSET Fds]) /\ Len(jobs') <= Capacity
    BY <1>6, FirstJob, SocketOwnersAssumption DEF Take, TypeOK
  <2>3. job' = [job EXCEPT ![w] = Head(jobs)] /\ Head(jobs) \in Job
    BY <1>6, <2>1 DEF Take, Job
  <2>4. job' \in [Workers -> Job]
    BY <2>3 DEF TypeOK
  <2>5. \A v \in Workers : job'[v].names # {} => job'[v].pid \in PidSet
    BY <2>1, <2>3 DEF TypeOK
  <2> QED BY <1>6, <2>2, <2>4, <2>5 DEF Take, TypeOK, processes, producer
<1>7. ASSUME NEW w \in Workers, NEW n \in job[w].names, ReadLink(w, n) PROVE TypeOK'
  <2>1. job[w] \in Job /\ job[w].pid \in PidSet
    BY <1>7 DEF TypeOK
  <2>2. job' \in [Workers -> Job]
    BY <1>7, <2>1 DEF ReadLink, TypeOK, Job
  <2>3. \A v \in Workers : job'[v].names # {} => job'[v].pid \in PidSet
    BY <1>7, <2>1 DEF ReadLink, TypeOK, Job
  <2>4. DOMAIN local' = Workers /\ \A v \in Workers : IsOwnerMap(local'[v])
    <3> DEFINE i == fds[job[w].pid][n]
    <3>1. CASE i \in Inodes
      <4>1. local' = [local EXCEPT ![w] = Over(local[w], [j \in {i} |-> job[w].pid])]
        BY <1>7, <3>1 DEF ReadLink
      <4>2. IsOwnerMap(Over(local[w], [j \in {i} |-> job[w].pid]))
        BY <2>1, <3>1, OneOwner, OverOwners DEF TypeOK
      <4> QED BY <4>1, <4>2 DEF TypeOK
    <3>2. CASE i \notin Inodes
      BY <1>7, <3>2 DEF ReadLink, TypeOK
    <3> QED BY <3>1, <3>2
  <2> QED BY <1>7, <2>2, <2>3, <2>4 DEF ReadLink, TypeOK, processes, producer
<1>8. ASSUME NEW w \in Workers, Finish(w) PROVE TypeOK'
  <2>1. IsOwnerMap(inodePID')
    BY <1>8, OverOwners DEF Finish, TypeOK
  <2> QED BY <1>8, <2>1 DEF Finish, TypeOK, processes, producer
<1>9. ASSUME NEW p \in PidSet, NEW n \in Fds, NEW i \in Inodes \cup {Closed}, Change(p, n, i)
      PROVE  TypeOK'
  <2>1. held' \subseteq PidSet \X Inodes /\ steady' \subseteq PidSet \X Fds \X Inodes
    BY <1>9 DEF Change, TypeOK, Holding
  <2>2. fds' \in [PidSet -> [Fds -> Inodes \cup {Closed}]] /\ changes' \in Nat
    BY <1>9 DEF Change, TypeOK
  <2> QED BY <1>9, <2>1, <2>2 DEF Change, TypeOK, producer, workers
<1>10. CASE UNCHANGED vars
  BY <1>10 DEF vars, TypeOK, processes, producer, workers
<1> QED
  BY <1>1, <1>2, <1>3, <1>4, <1>5, <1>6, <1>7, <1>8, <1>9, <1>10 DEF Next, Returned

(* Every variable keeps its shape, and the channel its capacity.           *)
THEOREM TypeCorrect == Spec => []TypeOK
BY InitTypeOK, NextTypeOK, PTL DEF Spec

-------------------------------------------------------------------------------
(* Owners are holders: every pair a worker or the map remembers is in the  *)
(* history of what was held, and that history covers the present.          *)

RealOwners(f) == \A i \in DOMAIN f : <<f[i], i>> \in held

HeldInv ==
  /\ Holding \subseteq held
  /\ \A w \in Workers : RealOwners(local[w])
  /\ RealOwners(inodePID)

LEMMA OverReal ==
  ASSUME NEW f, NEW g, RealOwners(f), RealOwners(g)
  PROVE  RealOwners(Over(f, g))
<1> SUFFICES ASSUME NEW i \in DOMAIN f \cup DOMAIN g PROVE <<Over(f, g)[i], i>> \in held
  BY OverShape DEF RealOwners
<1>1. CASE i \in DOMAIN g
  <2>1. Over(f, g)[i] = g[i]
    BY <1>1 DEF Over
  <2> QED BY <1>1, <2>1 DEF RealOwners
<1>2. CASE i \notin DOMAIN g
  <2>1. i \in DOMAIN f \ DOMAIN g
    BY <1>2
  <2>2. Over(f, g)[i] = f[i]
    BY <2>1 DEF Over
  <2> QED BY <2>1, <2>2 DEF RealOwners
<1> QED BY <1>1, <1>2

LEMMA NextHeldInv == TypeOK /\ HeldInv /\ [Next]_vars => HeldInv'
<1> SUFFICES ASSUME TypeOK, HeldInv, [Next]_vars PROVE HeldInv'
  OBVIOUS
<1>1. ASSUME UNCHANGED <<fds, held, local, inodePID>> PROVE HeldInv'
  BY <1>1 DEF HeldInv, RealOwners, Holding
<1>2. ASSUME NEW w \in Workers, NEW n \in job[w].names, ReadLink(w, n) PROVE HeldInv'
  <2> DEFINE p == job[w].pid
             i == fds[p][n]
  <2>1. UNCHANGED <<fds, held, inodePID>>
    BY <1>2 DEF ReadLink, processes
  <2>2. CASE i \in Inodes
    <3>1. p \in PidSet /\ n \in Fds
      BY <1>2 DEF TypeOK, Job
    <3>2. <<p, i>> \in Holding
      BY <2>2, <3>1 DEF Holding
    <3>3. RealOwners([j \in {i} |-> p])
      BY <3>2 DEF RealOwners, HeldInv
    <3>4. RealOwners(Over(local[w], [j \in {i} |-> p]))
      BY <3>3, OverReal DEF HeldInv
    <3>5. local' = [local EXCEPT ![w] = Over(local[w], [j \in {i} |-> p])]
      BY <1>2, <2>2 DEF ReadLink
    <3>6. \A v \in Workers : RealOwners(local'[v])
      BY <3>4, <3>5 DEF HeldInv, TypeOK
    <3> QED BY <2>1, <3>6 DEF HeldInv, RealOwners, Holding
  <2>3. CASE i \notin Inodes
    BY <1>1, <1>2, <2>1, <2>3 DEF ReadLink
  <2> QED BY <2>2, <2>3
<1>3. ASSUME NEW w \in Workers, Finish(w) PROVE HeldInv'
  <2>1. RealOwners(Over(inodePID, local[w]))
    BY OverReal DEF HeldInv
  <2> QED BY <1>3, <2>1 DEF Finish, HeldInv, RealOwners, Holding, processes
<1>4. ASSUME NEW p \in PidSet, NEW n \in Fds, NEW i \in Inodes \cup {Closed}, Change(p, n, i)
      PROVE  HeldInv'
  <2>1. held' = held \cup Holding' /\ UNCHANGED <<local, inodePID>>
    BY <1>4 DEF Change, workers
  <2> QED BY <2>1 DEF HeldInv, RealOwners
<1>5. ASSUME NEW c \in SUBSET names, HandOut(c) PROVE HeldInv'
  BY <1>1, <1>5 DEF HandOut, processes, workers
<1>6. ASSUME NEW w \in Workers, Take(w) PROVE HeldInv'
  BY <1>1, <1>6 DEF Take, processes
<1>7. CASE List \/ ListFails \/ Close \/ Expire
  BY <1>1, <1>7 DEF List, ListFails, Close, Expire, processes, workers
<1>8. CASE UNCHANGED vars
  BY <1>1, <1>8 DEF vars, processes, workers
<1> QED BY <1>2, <1>3, <1>4, <1>5, <1>6, <1>7, <1>8 DEF Next, Returned

(* The walk attributes a connection only to a process that held it.        *)
THEOREM OwnersHeldTheirSockets == Spec => []OwnersAreHolders
<1>1. Init => HeldInv
  BY NoMapShape DEF Init, HeldInv, RealOwners
<1>2. TypeOK /\ HeldInv /\ [Next]_vars => HeldInv'
  BY NextHeldInv
<1>3. HeldInv => OwnersAreHolders
  BY DEF HeldInv, RealOwners, OwnersAreHolders, Owner
<1> QED BY <1>1, <1>2, <1>3, TypeCorrect, PTL DEF Spec

-------------------------------------------------------------------------------
(* Nothing is lost.  A socket that a listed process holds all along is at  *)
(* every moment somewhere: still to be handed out, in the channel, in a    *)
(* worker's job, in the list of a worker that has not merged, or merged.   *)

InNames(t)    == t[1] = Pids[next - 1] /\ t[2] \in names
InChannel(t)  == \E k \in 1..Len(jobs) : jobs[k].pid = t[1] /\ t[2] \in jobs[k].names
InHand(t)     == \E w \in Workers : job[w].pid = t[1] /\ t[2] \in job[w].names
Recognised(t) == \E w \in Workers \ finished : t[3] \in DOMAIN local[w]
Somewhere(t)  == \/ InNames(t) \/ InChannel(t) \/ InHand(t)
                 \/ Recognised(t) \/ t[3] \in DOMAIN inodePID

LossInv ==
  /\ \A t \in steady : fds[t[1]][t[2]] = t[3]
  /\ \A t \in steady : t[1] \in listed => Somewhere(t)
  /\ closed => names = {}
  /\ finished # {} => closed /\ jobs = <<>>
  /\ \A w \in finished : job[w].names = {}

(* The five places, for a step that leaves what they depend on alone.      *)
LEMMA SomewhereStays ==
  ASSUME NEW t, UNCHANGED <<next, names, jobs, job, local, finished, inodePID>>, Somewhere(t)
  PROVE  Somewhere(t)'
BY DEF Somewhere, InNames, InChannel, InHand, Recognised

LEMMA InitLossInv == Init => LossInv
BY DEF Init, LossInv, OpenNow

LEMMA NextLossInv == TypeOK /\ LossInv /\ [Next]_vars => LossInv'
<1> SUFFICES ASSUME TypeOK, LossInv, [Next]_vars PROVE LossInv'
  OBVIOUS
<1>1. CASE List
  <2>1. /\ names = {} /\ ~closed /\ names' = Opened(Pids[next]) /\ next' = next + 1
        /\ listed' = listed \cup {Pids[next]}
        /\ UNCHANGED <<fds, steady, jobs, closed, job, local, finished, inodePID>>
    BY <1>1 DEF List, Walking, processes, workers
  <2>2. ASSUME NEW t \in steady, t[1] \in listed' PROVE Somewhere(t)'
    <3>1. CASE t[1] = Pids[next]
      <4>1. t[1] \in PidSet /\ t[2] \in Fds /\ t[3] \in Inodes
        BY DEF TypeOK
      <4>2. t[2] \in Opened(Pids[next])
        BY <3>1, <4>1, SocketOwnersAssumption DEF Opened, LossInv
      <4>3. next' - 1 = next
        BY <2>1 DEF TypeOK
      <4> QED BY <2>1, <3>1, <4>2, <4>3 DEF Somewhere, InNames
    <3>2. CASE t[1] # Pids[next]
      <4>1. Somewhere(t) /\ ~InNames(t)
        BY <2>1, <2>2, <3>2 DEF LossInv, InNames
      <4> QED BY <2>1, <4>1 DEF Somewhere, InChannel, InHand, Recognised
    <3> QED BY <3>1, <3>2
  <2> QED BY <2>1, <2>2 DEF LossInv
<1>2. CASE ListFails
  <2>1. /\ names = {} /\ UNCHANGED <<fds, steady, listed, names, jobs, closed, job, local,
                                     finished, inodePID>>
    BY <1>2 DEF ListFails, Walking, processes, workers
  <2>2. ASSUME NEW t \in steady, t[1] \in listed PROVE Somewhere(t)'
    BY <2>1, <2>2 DEF LossInv, Somewhere, InNames, InChannel, InHand, Recognised
  <2> QED BY <2>1, <2>2 DEF LossInv
<1>3. CASE Close \/ Expire
  <2>1. /\ UNCHANGED <<fds, steady, listed, next, names, jobs, job, local, finished, inodePID>>
        /\ closed' => names = {}
        /\ closed => closed'
    BY <1>3 DEF Close, Expire, Walking, processes, producer, workers, LossInv
  <2>2. ASSUME NEW t \in steady, t[1] \in listed PROVE Somewhere(t)'
    BY <2>1, <2>2, SomewhereStays DEF LossInv
  <2> QED BY <2>1, <2>2 DEF LossInv
<1>4. ASSUME NEW c \in SUBSET names, HandOut(c) PROVE LossInv'
  <2> DEFINE last == [pid |-> Pids[next - 1], names |-> c]
  <2>1. /\ c # {} /\ jobs' = Append(jobs, last) /\ names' = names \ c
        /\ UNCHANGED <<fds, steady, listed, next, closed, job, local, finished, inodePID>>
    BY <1>4 DEF HandOut, processes, workers
  <2>2. last \in [pid : PidSet, names : SUBSET Fds]
    BY <2>1, PidsFacts DEF TypeOK
  <2>3. ~closed /\ finished = {}
    BY <2>1 DEF LossInv
  <2>4. /\ Len(jobs') = Len(jobs) + 1 /\ jobs'[Len(jobs) + 1] = last
        /\ \A k \in 1..Len(jobs) : jobs'[k] = jobs[k]
    BY <2>1, <2>2, LastJob DEF TypeOK
  <2>5. Len(jobs) \in Nat
    BY DEF TypeOK
  <2>6. ASSUME NEW t \in steady, t[1] \in listed PROVE Somewhere(t)'
    <3>1. Somewhere(t)
      BY <2>6 DEF LossInv
    <3>2. CASE InNames(t) /\ t[2] \in c
      <4>1. jobs'[Len(jobs) + 1].pid = t[1] /\ t[2] \in jobs'[Len(jobs) + 1].names
        BY <2>4, <3>2 DEF InNames
      <4> QED BY <2>4, <2>5, <4>1 DEF Somewhere, InChannel
    <3>3. CASE InNames(t) /\ t[2] \notin c
      BY <2>1, <3>3 DEF InNames, Somewhere
    <3>4. CASE InChannel(t)
      BY <2>4, <2>5, <3>4 DEF InChannel, Somewhere
    <3>5. CASE InHand(t) \/ Recognised(t) \/ t[3] \in DOMAIN inodePID
      BY <2>1, <3>5 DEF InHand, Recognised, Somewhere
    <3> QED BY <3>1, <3>2, <3>3, <3>4, <3>5 DEF Somewhere
  <2> QED BY <2>1, <2>3, <2>6 DEF LossInv
<1>5. ASSUME NEW w \in Workers, Take(w) PROVE LossInv'
  <2>1. /\ w \notin finished /\ job[w].names = {} /\ jobs # <<>>
        /\ job' = [job EXCEPT ![w] = Head(jobs)] /\ jobs' = Tail(jobs)
        /\ UNCHANGED <<fds, steady, listed, next, names, closed, local, finished, inodePID>>
    BY <1>5 DEF Take, Idle, processes, producer
  <2>2. finished = {}
    BY <2>1 DEF LossInv
  <2>3. /\ Head(jobs) = jobs[1] /\ Len(jobs) \in Nat \ {0}
        /\ \A k \in 2..Len(jobs) : k - 1 \in 1..Len(jobs') /\ jobs'[k - 1] = jobs[k]
    BY <2>1, FirstJob DEF TypeOK
  <2>4. job'[w] = jobs[1] /\ \A v \in Workers \ {w} : job'[v] = job[v]
    BY <2>1, <2>3 DEF TypeOK
  <2>5. ASSUME NEW t \in steady, t[1] \in listed PROVE Somewhere(t)'
    <3>1. Somewhere(t)
      BY <2>5 DEF LossInv
    <3>2. CASE InChannel(t)
      <4>1. PICK k \in 1..Len(jobs) : jobs[k].pid = t[1] /\ t[2] \in jobs[k].names
        BY <3>2 DEF InChannel
      <4>2. CASE k = 1
        BY <2>4, <4>1, <4>2 DEF InHand, Somewhere
      <4>3. CASE k # 1
        <5>1. k \in 2..Len(jobs)
          BY <2>3, <4>3
        <5> QED BY <2>3, <4>1, <5>1 DEF InChannel, Somewhere
      <4> QED BY <4>2, <4>3
    <3>3. CASE InHand(t)
      BY <2>1, <2>4, <3>3 DEF InHand, Somewhere
    <3>4. CASE InNames(t) \/ Recognised(t) \/ t[3] \in DOMAIN inodePID
      BY <2>1, <3>4 DEF InNames, Recognised, Somewhere
    <3> QED BY <3>1, <3>2, <3>3, <3>4 DEF Somewhere
  <2> QED BY <2>1, <2>2, <2>5 DEF LossInv
<1>6. ASSUME NEW w \in Workers, NEW n \in job[w].names, ReadLink(w, n) PROVE LossInv'
  <2> DEFINE i == fds[job[w].pid][n]
  <2>1. /\ job' = [job EXCEPT ![w].names = @ \ {n}]
        /\ UNCHANGED <<fds, steady, listed, next, names, jobs, closed, finished, inodePID>>
    BY <1>6 DEF ReadLink, processes, producer
  <2>2. /\ \A v \in Workers \ {w} : job'[v] = job[v]
        /\ job'[w].pid = job[w].pid /\ job'[w].names = job[w].names \ {n}
    BY <2>1 DEF TypeOK, Job
  <2>3. /\ \A v \in Workers : DOMAIN local[v] \subseteq DOMAIN local'[v]
        /\ i \in Inodes => i \in DOMAIN local'[w]
    <3>1. CASE i \in Inodes
      <4>1. local' = [local EXCEPT ![w] = Over(local[w], [j \in {i} |-> job[w].pid])]
        BY <1>6, <3>1 DEF ReadLink
      <4>2. DOMAIN Over(local[w], [j \in {i} |-> job[w].pid]) = DOMAIN local[w] \cup {i}
        BY DEF Over
      <4> QED BY <4>1, <4>2 DEF TypeOK
    <3>2. CASE i \notin Inodes
      BY <1>6, <3>2 DEF ReadLink
    <3> QED BY <3>1, <3>2
  <2>4. w \notin finished
    BY DEF LossInv
  <2>5. ASSUME NEW t \in steady, t[1] \in listed PROVE Somewhere(t)'
    <3>1. Somewhere(t) /\ fds[t[1]][t[2]] = t[3] /\ t[3] \in Inodes
      BY <2>5 DEF LossInv, TypeOK
    <3>2. CASE t[1] = job[w].pid /\ t[2] = n
      <4>1. t[3] \in DOMAIN local'[w]
        BY <2>3, <3>1, <3>2
      <4> QED BY <2>1, <2>4, <4>1 DEF Recognised, Somewhere
    <3>3. CASE InHand(t) /\ ~(t[1] = job[w].pid /\ t[2] = n)
      BY <2>2, <3>3 DEF InHand, Somewhere
    <3>4. CASE Recognised(t)
      BY <2>1, <2>3, <3>4 DEF Recognised, Somewhere
    <3>5. CASE InNames(t) \/ InChannel(t) \/ t[3] \in DOMAIN inodePID
      BY <2>1, <3>5 DEF InNames, InChannel, Somewhere
    <3> QED BY <3>1, <3>2, <3>3, <3>4, <3>5 DEF Somewhere
  <2>6. \A v \in finished : job'[v].names = {}
    BY <2>2, <2>4 DEF LossInv, TypeOK
  <2> QED BY <2>1, <2>5, <2>6 DEF LossInv
<1>7. ASSUME NEW w \in Workers, Finish(w) PROVE LossInv'
  <2>1. /\ job[w].names = {} /\ closed /\ jobs = <<>>
        /\ inodePID' = Over(inodePID, local[w]) /\ finished' = finished \cup {w}
        /\ UNCHANGED <<fds, steady, listed, next, names, jobs, closed, job, local>>
    BY <1>7 DEF Finish, Idle, processes, producer
  <2>2. DOMAIN inodePID' = DOMAIN inodePID \cup DOMAIN local[w]
    BY <2>1 DEF Over
  <2>3. ASSUME NEW t \in steady, t[1] \in listed PROVE Somewhere(t)'
    <3>1. Somewhere(t)
      BY <2>3 DEF LossInv
    <3>2. CASE Recognised(t)
      BY <2>1, <2>2, <3>2 DEF Recognised, Somewhere
    <3>3. CASE InNames(t) \/ InChannel(t) \/ InHand(t) \/ t[3] \in DOMAIN inodePID
      BY <2>1, <2>2, <3>3 DEF InNames, InChannel, InHand, Somewhere
    <3> QED BY <3>1, <3>2, <3>3 DEF Somewhere
  <2> QED BY <2>1, <2>3 DEF LossInv
<1>8. ASSUME NEW p \in PidSet, NEW n \in Fds, NEW i \in Inodes \cup {Closed}, Change(p, n, i)
      PROVE  LossInv'
  <2>1. /\ steady' \subseteq steady
        /\ UNCHANGED <<listed, next, names, jobs, closed, job, local, finished, inodePID>>
    BY <1>8 DEF Change, producer, workers
  <2>2. \A t \in steady' : fds'[t[1]][t[2]] = t[3]
    BY <1>8 DEF Change, OpenNow
  <2>3. ASSUME NEW t \in steady', t[1] \in listed PROVE Somewhere(t)'
    BY <2>1, <2>3, SomewhereStays DEF LossInv
  <2> QED BY <2>1, <2>2, <2>3 DEF LossInv
<1>9. CASE UNCHANGED vars
  <2>1. UNCHANGED <<fds, steady, listed, next, names, jobs, closed, job, local, finished, inodePID>>
    BY <1>9 DEF vars, processes, producer, workers
  <2>2. ASSUME NEW t \in steady, t[1] \in listed PROVE Somewhere(t)'
    BY <2>1, <2>2, SomewhereStays DEF LossInv
  <2> QED BY <2>1, <2>2 DEF LossInv
<1> QED BY <1>1, <1>2, <1>3, <1>4, <1>5, <1>6, <1>7, <1>8, <1>9 DEF Next, Returned

(* Whatever the number of workers, the capacity and the chunk size: when   *)
(* the walk is over, every socket that a listed process held throughout    *)
(* has an owner in the map.                                                *)
THEOREM NothingIsLost == Spec => []NothingLost
<1>1. TypeOK /\ LossInv => NothingLost
  <2> SUFFICES ASSUME TypeOK, LossInv, Done, NEW t \in steady, t[1] \in listed
               PROVE  t[3] \in DOMAIN inodePID
    BY DEF NothingLost
  <2>1. finished = Workers /\ finished # {} /\ names = {} /\ jobs = <<>>
    BY SocketOwnersAssumption DEF Done, LossInv
  <2>2. Somewhere(t)
    BY DEF LossInv
  <2>3. ~InNames(t) /\ ~InChannel(t)
    BY <2>1 DEF InNames, InChannel
  <2>4. ~InHand(t) /\ ~Recognised(t)
    BY <2>1 DEF InHand, Recognised, LossInv
  <2> QED BY <2>2, <2>3, <2>4 DEF Somewhere
<1> QED BY <1>1, InitLossInv, NextLossInv, TypeCorrect, PTL DEF Spec
===============================================================================
