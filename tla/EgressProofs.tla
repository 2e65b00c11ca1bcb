----------------------------- MODULE EgressProofs -----------------------------
(***************************************************************************)
(* Proofs about Egress, for any containers, loads, thresholds and bounds.  *)
(***************************************************************************)
EXTENDS Egress, Integers, TLAPS

Samples == [packets : Nat, bytes : Nat, age : 0 .. MaxAge]
Sinces  == [packets : Nat, bytes : Nat, age : Nat]
Phases  == {"idle", "captured", "sampling"}

-------------------------------------------------------------------------------
(* Type correctness.                                                       *)

WorldOK == running \subseteq Containers /\ tx \in [Containers -> Counters]

(* Nothing is flagged outside a scan, and only what it listed within one.  *)
ScanOK ==
  /\ phase \in Phases /\ lag \in 0 .. MaxAge
  /\ todo \subseteq listed /\ listed \subseteq Containers /\ flagged \subseteq listed
  /\ phase # "sampling" => flagged = {} /\ DOMAIN prev \subseteq listed

SamplesOK == DOMAIN prev \subseteq Containers /\ prev \in [DOMAIN prev -> Samples]

RecordOK ==
  /\ since \in [Containers -> Sinces]
  /\ reset \subseteq DOMAIN prev /\ late \subseteq DOMAIN prev

TypeInv == WorldOK /\ ScanOK /\ SamplesOK /\ RecordOK

LEMMA TypeInvImplies == TypeInv => TypeOK
BY DEF TypeInv, WorldOK, ScanOK, SamplesOK, RecordOK, TypeOK, Samples, Sinces, Phases

LEMMA FreshIsAll == Fresh \in Samples /\ Fresh \in Sinces
BY EgressAssumption DEF Fresh, Samples, Sinces

LEMMA InitTypeInv == Init => TypeInv
<1> SUFFICES ASSUME Init PROVE TypeInv
  OBVIOUS
<1>1. WorldOK
  BY DEF Init, WorldOK, Silent, Counters
<1>2. ScanOK /\ SamplesOK
  BY EgressAssumption DEF Init, ScanOK, Phases, SamplesOK, NoSamples
<1>3. RecordOK
  BY FreshIsAll DEF Init, RecordOK
<1> QED BY <1>1, <1>2, <1>3 DEF TypeInv

LEMMA ForgetShape ==
  ASSUME TypeInv, NEW cs, Forget(cs), DOMAIN prev \ cs \subseteq DOMAIN prev'
  PROVE  RecordOK'
BY FreshIsAll DEF TypeInv, RecordOK, Forget

LEMMA NextTypeInv == TypeInv /\ [Next]_vars => TypeInv'
<1> SUFFICES ASSUME TypeInv, [Next]_vars PROVE TypeInv'
  OBVIOUS
<1> USE DEF TypeInv, world, record
<1>1. CASE Capture \/ List \/ ListFails
  <2>1. UNCHANGED <<world, prev, record>>
    BY <1>1 DEF Capture, List, ListFails
  <2>2. ScanOK'
    BY <1>1, EgressAssumption DEF Capture, List, ListFails, ScanOK, Phases, WorldOK
  <2> QED BY <2>1, <2>2 DEF WorldOK, SamplesOK, RecordOK
<1>2. CASE Finish
  <2>1. prev' = [c \in DOMAIN prev \cap listed |-> prev[c]] /\ UNCHANGED <<running, tx>>
    BY <1>2 DEF Finish
  <2>2. DOMAIN prev' = DOMAIN prev \cap listed
    BY <2>1
  <2>3. SamplesOK'
    BY <2>1, <2>2 DEF SamplesOK
  <2>4. ScanOK'
    BY <1>2, <2>2, EgressAssumption DEF Finish, ScanOK, Phases
  <2>5. RecordOK'
    <3>1. Forget(Containers \ DOMAIN prev')
      BY <1>2 DEF Finish
    <3>2. DOMAIN prev \subseteq Containers
      BY DEF SamplesOK
    <3>3. DOMAIN prev \ (Containers \ DOMAIN prev') \subseteq DOMAIN prev'
      BY <3>2
    <3> QED BY <3>1, <3>3, ForgetShape
  <2> QED BY <2>1, <2>3, <2>4, <2>5 DEF WorldOK
<1>3. CASE Restart
  <2>1. RecordOK'
    BY <1>3, ForgetShape DEF Restart, SamplesOK
  <2> QED BY <1>3, <2>1, EgressAssumption DEF Restart, WorldOK, ScanOK, Phases, SamplesOK, NoSamples
<1>4. CASE Tick
  <2>1. DOMAIN prev' = DOMAIN prev
        /\ \A c \in DOMAIN prev : prev'[c] = [prev[c] EXCEPT !.age = @ + 1] /\ prev[c].age < MaxAge
    BY <1>4 DEF Tick
  <2>2. prev' = [c \in DOMAIN prev |-> prev'[c]]
    BY <1>4 DEF Tick
  <2>3. \A c \in DOMAIN prev : prev'[c] \in Samples
    BY <2>1, EgressAssumption DEF SamplesOK, Samples
  <2>4. SamplesOK'
    BY <2>1, <2>2, <2>3 DEF SamplesOK
  <2>5. ScanOK'
    BY <1>4, <2>1, EgressAssumption DEF Tick, ScanOK, Phases
  <2>6. PICK load \in [running -> Loads] :
          LET Load(c, i) == IF c \in running THEN load[c][i] ELSE 0 IN
          /\ tx' = [c \in Containers |-> [packets |-> tx[c].packets + Load(c, 1),
                                          bytes |-> tx[c].bytes + Load(c, 2)]]
          /\ since' = [c \in Containers |->
                         IF c \notin DOMAIN prev THEN Fresh
                         ELSE [packets |-> since[c].packets + Load(c, 1),
                               bytes |-> since[c].bytes + Load(c, 2),
                               age |-> since[c].age + 1]]
    BY <1>4 DEF Tick
  <2>7. \A c \in running : load[c][1] \in Nat /\ load[c][2] \in Nat
    BY <2>6, EgressAssumption
  <2>8. tx' \in [Containers -> Counters]
    BY <2>6, <2>7 DEF WorldOK, Counters
  <2>9. since' \in [Containers -> Sinces]
    BY <2>6, <2>7, FreshIsAll DEF RecordOK, Sinces
  <2>10. UNCHANGED <<running, reset, late>>
    BY <1>4 DEF Tick
  <2> QED BY <2>1, <2>4, <2>5, <2>8, <2>9, <2>10 DEF WorldOK, RecordOK
<1>5. ASSUME NEW c \in Containers, Sample(c) PROVE TypeInv'
  <2>1. prev' = Sampled(c) /\ UNCHANGED <<running, tx, phase, lag, listed>> /\ c \in todo
    BY <1>5 DEF Sample
  <2>2. DOMAIN prev' = DOMAIN prev \cup {c}
    BY <2>1 DEF Sampled
  <2>3. SamplesOK'
    BY <2>1, <2>2 DEF Sampled, SamplesOK, Samples, WorldOK, Counters, ScanOK
  <2>4. ScanOK'
    BY <1>5, <2>1, <2>2 DEF Sample, ScanOK
  <2>5. RecordOK'
    BY <1>5, <2>2, FreshIsAll DEF Sample, RecordOK
  <2> QED BY <2>1, <2>3, <2>4, <2>5 DEF WorldOK
<1>6. ASSUME NEW c \in Containers, StatsFail(c) PROVE TypeInv'
  BY <1>6 DEF StatsFail, WorldOK, ScanOK, SamplesOK, RecordOK
<1>7. ASSUME NEW c \in Containers, Start(c) PROVE TypeInv'
  BY <1>7 DEF Start, WorldOK, ScanOK, SamplesOK, RecordOK
<1>8. ASSUME NEW c \in Containers, Stop(c) PROVE TypeInv'
  BY <1>8 DEF Stop, WorldOK, ScanOK, SamplesOK, RecordOK, Silent, Counters
<1>9. CASE UNCHANGED vars
  BY <1>9 DEF vars, WorldOK, ScanOK, SamplesOK, RecordOK
<1> QED BY <1>1, <1>2, <1>3, <1>4, <1>5, <1>6, <1>7, <1>8, <1>9 DEF Next

(* Every reachable state has the shape TypeOK describes.                   *)
THEOREM TypeCorrect == Spec => []TypeOK
BY InitTypeInv, NextTypeInv, TypeInvImplies, PTL DEF Spec

-------------------------------------------------------------------------------
(* What the samples say.                                                   *)

(* A container is sampled once in a scan.                                  *)
OnceInv == phase # "sampling" \/ todo \cap flagged = {}

(* Between two samples a counter grows by what was sent, unless it was     *)
(* reset; and the sample is as old as its capture, unless it was late.     *)
SentInv ==
  \A c \in DOMAIN prev :
    /\ c \notin reset => /\ tx[c].packets = prev[c].packets + since[c].packets
                         /\ tx[c].bytes = prev[c].bytes + since[c].bytes
    /\ c \notin late => prev[c].age = since[c].age

(* How much can have been sent, with at most most bytes in a tick.         *)
BoundInv(most) ==
  /\ \A c \in Containers : tx[c].packets <= MaxPackets
  /\ \A c \in DOMAIN prev : since[c].age <= prev[c].age /\ since[c].bytes <= most * since[c].age

CountInv(most) == OnceInv /\ SentInv /\ BoundInv(most)

LEMMA InitCountInv == ASSUME NEW most \in Nat PROVE Init => CountInv(most)
BY EgressAssumption DEF Init, CountInv, OnceInv, SentInv, BoundInv, NoSamples, Silent

LEMMA Grows ==
  ASSUME NEW most \in Nat, NEW age \in Nat, NEW sent \in Nat, NEW load \in Nat,
         sent <= most * age, load <= most
  PROVE  sent + load <= most * (age + 1)
<1>1. most * (age + 1) = most * age + most /\ most * age \in Nat
  OBVIOUS
<1> QED BY <1>1

(* A step that keeps samples and counters.                                 *)
LEMMA SameCount ==
  ASSUME NEW most \in Nat, CountInv(most), OnceInv', UNCHANGED <<tx, prev, record>>
  PROVE  CountInv(most)'
BY DEF CountInv, SentInv, BoundInv, record

LEMMA NextCountInv ==
  ASSUME NEW most \in Nat, \A l \in Loads : l[2] <= most
  PROVE  TypeInv /\ CountInv(most) /\ [Next]_vars => CountInv(most)'
<1> SUFFICES ASSUME TypeInv, CountInv(most), [Next]_vars PROVE CountInv(most)'
  OBVIOUS
<1> USE DEF world
<1>1. CASE Capture \/ List \/ ListFails
  <2>1. OnceInv'
    BY <1>1 DEF Capture, List, ListFails, OnceInv, TypeInv, ScanOK
  <2> QED BY <1>1, <2>1, SameCount DEF Capture, List, ListFails
<1>2. CASE Finish
  <2>1. prev' = [c \in DOMAIN prev \cap listed |-> prev[c]] /\ UNCHANGED tx /\ phase' = "idle"
        /\ Forget(Containers \ DOMAIN prev')
    BY <1>2 DEF Finish
  <2>2. DOMAIN prev' \subseteq DOMAIN prev /\ \A c \in DOMAIN prev' : prev'[c] = prev[c]
    BY <2>1
  <2>3. \A c \in DOMAIN prev' : since'[c] = since[c] /\ (c \in reset' <=> c \in reset)
                                /\ (c \in late' <=> c \in late)
    BY <2>1, <2>2 DEF Forget, TypeInv, SamplesOK
  <2> QED BY <2>1, <2>2, <2>3 DEF CountInv, OnceInv, SentInv, BoundInv
<1>3. CASE Restart
  BY <1>3 DEF Restart, NoSamples, CountInv, OnceInv, SentInv, BoundInv
<1>4. CASE Tick
  <2>1. DOMAIN prev' = DOMAIN prev
        /\ \A c \in DOMAIN prev : prev'[c] = [prev[c] EXCEPT !.age = @ + 1]
    BY <1>4 DEF Tick
  <2>2. PICK load \in [running -> Loads] :
          LET Load(c, i) == IF c \in running THEN load[c][i] ELSE 0 IN
          /\ \A c \in running : tx[c].packets + Load(c, 1) <= MaxPackets
          /\ tx' = [c \in Containers |-> [packets |-> tx[c].packets + Load(c, 1),
                                          bytes |-> tx[c].bytes + Load(c, 2)]]
          /\ since' = [c \in Containers |->
                         IF c \notin DOMAIN prev THEN Fresh
                         ELSE [packets |-> since[c].packets + Load(c, 1),
                               bytes |-> since[c].bytes + Load(c, 2),
                               age |-> since[c].age + 1]]
    BY <1>4 DEF Tick
  <2> DEFINE packets(c) == IF c \in running THEN load[c][1] ELSE 0
             bytes(c)   == IF c \in running THEN load[c][2] ELSE 0
  <2>3. \A c : packets(c) \in Nat /\ bytes(c) \in Nat /\ bytes(c) <= most
    BY <2>2, EgressAssumption
  <2>4. \A c \in Containers : /\ tx'[c].packets = tx[c].packets + packets(c)
                              /\ tx'[c].bytes = tx[c].bytes + bytes(c)
    BY <2>2
  <2>5. \A c \in running : tx[c].packets + packets(c) <= MaxPackets
    BY <2>2
  <2>6. DOMAIN prev \subseteq Containers
    BY DEF TypeInv, SamplesOK
  <2>7. \A c \in DOMAIN prev : /\ since'[c].packets = since[c].packets + packets(c)
                               /\ since'[c].bytes = since[c].bytes + bytes(c)
                               /\ since'[c].age = since[c].age + 1
    BY <2>2, <2>6
  <2>8. \A c \in Containers : c \notin running => packets(c) = 0
    OBVIOUS
  <2> HIDE DEF packets, bytes
  <2>9. \A c \in Containers : tx[c].packets \in Nat /\ tx[c].bytes \in Nat
    BY DEF TypeInv, WorldOK, Counters
  <2>10. \A c \in DOMAIN prev : /\ prev[c].packets \in Nat /\ prev[c].bytes \in Nat /\ prev[c].age \in Nat
                                /\ prev'[c].packets = prev[c].packets /\ prev'[c].bytes = prev[c].bytes
                                /\ prev'[c].age = prev[c].age + 1
    BY <2>1 DEF TypeInv, SamplesOK, Samples
  <2>11. \A c \in DOMAIN prev : /\ since[c].packets \in Nat /\ since[c].bytes \in Nat
                                /\ since[c].age \in Nat
    BY <2>6 DEF TypeInv, RecordOK, Sinces
  <2>12. UNCHANGED <<reset, late, phase, todo, flagged>>
    BY <1>4 DEF Tick
  <2>13. SentInv'
    <3> SUFFICES ASSUME NEW c \in DOMAIN prev
                 PROVE  /\ c \notin reset => /\ tx'[c].packets = prev'[c].packets + since'[c].packets
                                             /\ tx'[c].bytes = prev'[c].bytes + since'[c].bytes
                        /\ c \notin late => prev'[c].age = since'[c].age
      BY <2>1, <2>12 DEF SentInv
    <3>1. c \notin reset => /\ tx[c].packets = prev[c].packets + since[c].packets
                            /\ tx[c].bytes = prev[c].bytes + since[c].bytes
      BY DEF CountInv, SentInv
    <3>2. c \notin late => prev[c].age = since[c].age
      BY DEF CountInv, SentInv
    <3> QED BY <2>3, <2>4, <2>6, <2>7, <2>9, <2>10, <2>11, <3>1, <3>2
  <2>14. BoundInv(most)'
    <3>1. \A c \in Containers : tx'[c].packets <= MaxPackets
      BY <2>4, <2>5, <2>8, <2>9 DEF CountInv, BoundInv
    <3>2. ASSUME NEW c \in DOMAIN prev
          PROVE  since'[c].age <= prev'[c].age /\ since'[c].bytes <= most * since'[c].age
      <4>1. since[c].age <= prev[c].age /\ since[c].bytes <= most * since[c].age
        BY DEF CountInv, BoundInv
      <4>2. since[c].bytes + bytes(c) <= most * (since[c].age + 1)
        BY <2>3, <2>11, <4>1, Grows
      <4> QED BY <2>7, <2>10, <2>11, <4>1, <4>2
    <3> QED BY <2>1, <3>1, <3>2 DEF BoundInv
  <2>15. OnceInv'
    BY <2>12 DEF CountInv, OnceInv
  <2> QED BY <2>13, <2>14, <2>15 DEF CountInv
<1>5. ASSUME NEW c \in Containers, Sample(c) PROVE CountInv(most)'
  <2>1. prev' = Sampled(c) /\ UNCHANGED tx /\ since' = [since EXCEPT ![c] = Fresh]
        /\ reset' = reset \ {c}
    BY <1>5 DEF Sample
  <2>2. DOMAIN prev' = DOMAIN prev \cup {c}
        /\ prev'[c] = [packets |-> tx[c].packets, bytes |-> tx[c].bytes, age |-> lag]
        /\ \A d \in DOMAIN prev \ {c} : prev'[d] = prev[d]
    BY <2>1 DEF Sampled
  <2>3. since'[c] = Fresh /\ \A d \in DOMAIN prev \ {c} : since'[d] = since[d]
    BY <2>1 DEF TypeInv, RecordOK, SamplesOK
  <2>4. tx[c].packets \in Nat /\ tx[c].bytes \in Nat /\ lag \in Nat
    BY EgressAssumption DEF TypeInv, WorldOK, Counters, ScanOK
  <2>5. \A d \in DOMAIN prev \ {c} : (d \in reset' <=> d \in reset) /\ (d \in late' <=> d \in late)
    BY <1>5 DEF Sample
  <2>6. c \notin late' => lag = 0
    BY <1>5, <2>4 DEF Sample
  <2>7. SentInv'
    BY <2>1, <2>2, <2>3, <2>4, <2>5, <2>6 DEF CountInv, SentInv, Fresh
  <2>8. BoundInv(most)'
    BY <2>1, <2>2, <2>3, <2>4 DEF CountInv, BoundInv, Fresh
  <2>9. OnceInv'
    BY <1>5 DEF Sample, CountInv, OnceInv
  <2> QED BY <2>7, <2>8, <2>9 DEF CountInv
<1>6. ASSUME NEW c \in Containers, StatsFail(c) PROVE CountInv(most)'
  <2>1. OnceInv'
    BY <1>6 DEF StatsFail, CountInv, OnceInv
  <2> QED BY <1>6, <2>1, SameCount DEF StatsFail
<1>7. ASSUME NEW c \in Containers, Start(c) PROVE CountInv(most)'
  <2>1. OnceInv'
    BY <1>7 DEF Start, CountInv, OnceInv
  <2> QED BY <1>7, <2>1, SameCount DEF Start
<1>8. ASSUME NEW c \in Containers, Stop(c) PROVE CountInv(most)'
  <2>1. UNCHANGED <<prev, since, late, phase, todo, flagged>> /\ reset' = reset \cup ({c} \cap DOMAIN prev)
    BY <1>8 DEF Stop
  <2>2. tx'[c] = Silent /\ \A d \in Containers \ {c} : tx'[d] = tx[d]
    BY <1>8 DEF Stop, TypeInv, WorldOK
  <2>3. DOMAIN prev \subseteq Containers
    BY DEF TypeInv, SamplesOK
  <2>4. SentInv'
    BY <2>1, <2>2, <2>3 DEF CountInv, SentInv
  <2>5. BoundInv(most)'
    BY <2>1, <2>2, EgressAssumption DEF CountInv, BoundInv, Silent
  <2> QED BY <2>1, <2>4, <2>5 DEF CountInv, OnceInv
<1>9. CASE UNCHANGED vars
  BY <1>9, SameCount DEF vars, CountInv, OnceInv
<1> QED BY <1>1, <1>2, <1>3, <1>4, <1>5, <1>6, <1>7, <1>8, <1>9 DEF Next

-------------------------------------------------------------------------------
(* Who is flagged.                                                         *)

LEMMA DifferenceIsSent ==
  ASSUME NEW b \in Nat, NEW sent \in Nat, sent < Word
  PROVE  Difference(b + sent, b) = sent
<1>1. Word \in Nat \ {0}
  BY EgressAssumption
<1>2. ((b + sent) + Word) - b = sent + Word
  BY <1>1
<1>3. (sent + Word) % Word = sent
  BY <1>1
<1> QED BY <1>2, <1>3 DEF Difference

LEMMA FloodsIffReally ==
  ASSUME NEW most \in Nat, NothingWraps(most), TypeInv, CountInv(most), NEW c, Prompt(c),
         c \notin reset
  PROVE  Floods(c) <=> ReallyFloods(c)
<1>1. c \in DOMAIN prev /\ c \in Containers /\ lag = 0 /\ c \notin late
  BY DEF Prompt, TypeInv, SamplesOK
<1>2. /\ tx[c].packets = prev[c].packets + since[c].packets
      /\ tx[c].bytes = prev[c].bytes + since[c].bytes
      /\ prev[c].age = since[c].age
  BY <1>1 DEF CountInv, SentInv
<1>3. prev[c].packets \in Nat /\ prev[c].bytes \in Nat /\ prev[c].age \in 0 .. MaxAge
  BY <1>1 DEF TypeInv, SamplesOK, Samples
<1>4. since[c].packets \in Nat /\ since[c].bytes \in Nat /\ since[c].age \in Nat
  BY <1>1 DEF TypeInv, RecordOK, Sinces
<1>5. MaxAge \in Nat /\ MaxPackets \in Nat /\ Word \in Nat
  BY EgressAssumption
<1>6. since[c].packets < Word
  BY <1>1, <1>2, <1>3, <1>4, <1>5 DEF CountInv, BoundInv, NothingWraps
<1>7. since[c].bytes < Word
  <2>1. since[c].bytes <= most * since[c].age
    BY <1>1 DEF CountInv, BoundInv
  <2>2. most * since[c].age <= most * MaxAge
    BY <1>2, <1>3, <1>4, <1>5
  <2>3. most * since[c].age \in Nat /\ most * MaxAge \in Nat /\ most * MaxAge < Word
    BY <1>4, <1>5 DEF NothingWraps
  <2> QED BY <1>4, <1>5, <2>1, <2>2, <2>3
<1>8. Elapsed(c) = since[c].age
  BY <1>1, <1>2, <1>4 DEF Elapsed
<1>9. Difference(tx[c].packets, prev[c].packets) = since[c].packets
  BY <1>2, <1>3, <1>4, <1>6, DifferenceIsSent
<1>10. Difference(tx[c].bytes, prev[c].bytes) = since[c].bytes
  BY <1>2, <1>3, <1>4, <1>7, DifferenceIsSent
<1>11. tx[c].packets >= prev[c].packets
  BY <1>2, <1>3, <1>4
<1>12. PacketRate(c) = since[c].packets \div since[c].age
       /\ ByteRate(c) = since[c].bytes \div since[c].age
  BY <1>8, <1>9, <1>10 DEF PacketRate, ByteRate
<1> QED BY <1>1, <1>8, <1>11, <1>12 DEF Floods, ReallyFloods

(* Where no counter goes round, a container sampled in time and not        *)
(* stopped since is flagged if and only if it sent over a threshold.       *)
THEOREM RatesAreReal ==
  ASSUME NEW most \in Nat, NothingWraps(most)
  PROVE  Spec => FlaggedIffFlooding
<1>1. ASSUME TypeInv, CountInv(most), NEW c \in todo \ reset, Sample(c), Prompt(c)
      PROVE  c \in flagged' <=> ReallyFloods(c)
  <2>1. c \notin flagged
    BY <1>1 DEF Sample, CountInv, OnceInv
  <2>2. c \in flagged' <=> Floods(c)
    BY <1>1, <2>1 DEF Sample
  <2> QED BY <1>1, <2>2, FloodsIffReally
<1>2. TypeInv /\ CountInv(most) /\ [Next]_vars =>
        [\A c \in todo \ reset :
           Sample(c) /\ Prompt(c) => (c \in flagged' <=> ReallyFloods(c))]_vars
  BY <1>1
<1>3. \A l \in Loads : l[2] <= most
  BY DEF NothingWraps
<1>4. Init => CountInv(most)
  BY InitCountInv
<1>5. TypeInv /\ CountInv(most) /\ [Next]_vars => CountInv(most)'
  BY <1>3, NextCountInv
<1> QED
  BY <1>2, <1>4, <1>5, InitTypeInv, NextTypeInv, PTL DEF Spec, FlaggedIffFlooding
===============================================================================
