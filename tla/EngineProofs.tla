----------------------------- MODULE EngineProofs -----------------------------
(***************************************************************************)
(* Proofs about Engine, for every set of findings, rules, detectors and    *)
(* alerters and every cooldown:                                            *)
(*   - the type invariant;                                                 *)
(*   - the engine implements Throttle: lazy garbage collection of the      *)
(*     cooldown map never changes a decision;                              *)
(*   - two alerts about one key never overlap on one HTTP channel, when    *)
(*     the send timeout is shorter than the cooldown.                      *)
(* And what every configuration that Load accepts guarantees to the engine *)
(* and the rest of the daemon, and what config init writes.                *)
(***************************************************************************)
EXTENDS Engine, Config, TLAPS

-------------------------------------------------------------------------------
(* Ages.                                                                   *)

(* Ageing stays within the bound and never overtakes it.                   *)
LEMMA OlderRange ==
  ASSUME NEW max \in Nat, NEW age \in 0..max
  PROVE  /\ Older(age, max) \in 0..max
         /\ age < max => Older(age, max) = age + 1
         /\ age = max => Older(age, max) = max
BY DEF Older

LEMMA Bounds == /\ MaxAge \in Nat /\ MaxSend \in Nat
                /\ Cooldown < MaxAge /\ SendTimeout < MaxSend
                /\ 2 * Cooldown < MaxAge
                /\ Len(Detectors) \in Nat
BY EngineAssumption DEF MaxAge, MaxSend

(* Stamping a key resets its age and keeps or drops the other entries.     *)
LEMMA StampedShape ==
  ASSUME TypeOK, NEW k \in Keys
  PROVE  /\ DOMAIN Stamped(k) \subseteq Keys
         /\ Stamped(k) \in [DOMAIN Stamped(k) -> 0..MaxAge]
         /\ k \in DOMAIN Stamped(k) /\ Stamped(k)[k] = 0
         /\ \A j \in DOMAIN Stamped(k) \ {k} :
              j \in DOMAIN lastSeen /\ Stamped(k)[j] = lastSeen[j]
         /\ \A j \in DOMAIN lastSeen \ {k} :
              lastSeen[j] <= 2 * Cooldown => j \in DOMAIN Stamped(k)
<1> DEFINE D == {k} \cup {i \in DOMAIN lastSeen : lastSeen[i] <= 2 * Cooldown}
<1>1. Stamped(k) = [j \in D |-> IF j = k THEN 0 ELSE lastSeen[j]]
  BY DEF Stamped
<1>2. DOMAIN Stamped(k) = D
  BY <1>1
<1>3. D \subseteq Keys
  BY DEF TypeOK
<1>4. \A j \in D : Stamped(k)[j] = IF j = k THEN 0 ELSE lastSeen[j]
  BY <1>1
<1>5. \A j \in D : (IF j = k THEN 0 ELSE lastSeen[j]) \in 0..MaxAge
  BY Bounds DEF TypeOK
<1>6. Stamped(k) \in [DOMAIN Stamped(k) -> 0..MaxAge]
  <2> HIDE DEF D
  <2> QED BY <1>1, <1>2, <1>5
<1> QED BY <1>2, <1>3, <1>4, <1>6

LEMMA KeyOfFinding == ASSUME NEW f \in Findings PROVE Key(f) \in Keys
BY DEF Keys

LEMMA DispatchedShape ==
  ASSUME NEW f \in Findings
  PROVE  /\ Dispatched(f) \subseteq Sends
         /\ \A s \in Dispatched(f) : s.finding = f /\ s.age = 0
         /\ \A s, t \in Dispatched(f) : s.to = t.to => s = t
BY Bounds DEF Dispatched, Sends

(* An aged send is the same send, one tick older.                          *)
LEMMA AgedSend ==
  ASSUME NEW s \in Sends
  PROVE  LET t == [s EXCEPT !.age = Older(@, MaxSend)] IN
           /\ t \in Sends
           /\ t.to = s.to /\ t.finding = s.finding /\ t.age = Older(s.age, MaxSend)
BY OlderRange, Bounds DEF Sends

-------------------------------------------------------------------------------
(* Type correctness.                                                       *)

(* A map without entries is a map of ages.                                 *)
LEMMA EmptyMap ==
  /\ DOMAIN [k \in {} |-> 0] = {}
  /\ [k \in {} |-> 0] \in [{} -> 0..MaxAge]
OBVIOUS

LEMMA InitTypeOK == Init => TypeOK
<1> SUFFICES ASSUME Init PROVE TypeOK
  OBVIOUS
<1>1. DOMAIN lastSeen = {} /\ lastSeen \in [DOMAIN lastSeen -> 0..MaxAge]
  BY EmptyMap DEF Init
<1>2. pos \in 1..(Len(Detectors) + 1)
  BY Bounds DEF Init
<1> QED BY <1>1, <1>2 DEF Init, TypeOK, Verdicts

LEMMA NextTypeOK == TypeOK /\ [Next]_vars => TypeOK'
<1> SUFFICES ASSUME TypeOK, [Next]_vars PROVE TypeOK'
  OBVIOUS
<1> USE Bounds
<1>1. CASE Gather
  BY <1>1 DEF Gather, TypeOK
<1>2. CASE GatherFails
  BY <1>2 DEF GatherFails, TypeOK, work
<1>3. CASE RunDetector
  BY <1>3 DEF RunDetector, TypeOK
<1>4. CASE DetectorFails
  BY <1>4 DEF DetectorFails, TypeOK
<1>5. CASE EndScan
  BY <1>5 DEF EndScan, TypeOK
<1>6. ASSUME NEW f \in Findings, SkipOutOfScope(f) PROVE TypeOK'
  BY <1>6 DEF SkipOutOfScope, Handles, TypeOK, Verdicts
<1>7. ASSUME NEW f \in Findings, Suppress(f) PROVE TypeOK'
  BY <1>7, KeyOfFinding DEF Suppress, Handles, TypeOK, Verdicts
<1>8. ASSUME NEW f \in Findings, Report(f) PROVE TypeOK'
  <2>1. lastSeen' = Stamped(Key(f)) /\ verdict' = Reported(Key(f))
    BY <1>8 DEF Report, LetThrough
  <2>2. DOMAIN lastSeen' \subseteq Keys /\ lastSeen' \in [DOMAIN lastSeen' -> 0..MaxAge]
    BY <2>1, KeyOfFinding, StampedShape
  <2>3. verdict' \in Verdicts
    BY <2>1, KeyOfFinding DEF Verdicts
  <2>4. sends' \subseteq Sends
    BY <1>8, DispatchedShape DEF Report, TypeOK
  <2>5. \A t \in todo' : \E g \in Findings : \E a \in MatchActions(Rules, g) : t = <<a, g>>
    BY <1>8 DEF Report
  <2> QED BY <1>8, <2>2, <2>3, <2>4, <2>5 DEF Report, Handles, TypeOK
<1>9. ASSUME NEW t \in todo, Enforce(t[1], t[2]) PROVE TypeOK'
  BY <1>9 DEF Enforce, TypeOK
<1>10. ASSUME NEW t \in todo, ActionFails(t[1], t[2]) PROVE TypeOK'
  BY <1>10 DEF ActionFails, TypeOK
<1>11. CASE TakeTick
  BY <1>11 DEF TakeTick, TypeOK, work
<1>12. CASE TickerFires
  BY <1>12 DEF TickerFires, TypeOK, work
<1>13. CASE Signal
  BY <1>13 DEF Signal, TypeOK, work
<1>14. CASE Exit
  <2>1. DOMAIN lastSeen' = {} /\ lastSeen' \in [DOMAIN lastSeen' -> 0..MaxAge]
    BY <1>14, EmptyMap DEF Exit
  <2>2. pos' \in 1..(Len(Detectors) + 1)
    BY <1>14 DEF Exit
  <2> QED BY <1>14, <2>1, <2>2 DEF Exit, TypeOK, Verdicts
<1>15. CASE Start
  BY <1>15 DEF Start, TypeOK, work
<1>16. ASSUME NEW s \in sends, SendReturns(s) PROVE TypeOK'
  BY <1>16 DEF SendReturns, TypeOK, work
<1>17. CASE Elapse
  <2>1. \A k \in DOMAIN lastSeen : Older(lastSeen[k], MaxAge) \in 0..MaxAge
    BY OlderRange DEF TypeOK
  <2>2. DOMAIN lastSeen' = DOMAIN lastSeen /\ lastSeen' \in [DOMAIN lastSeen' -> 0..MaxAge]
    BY <1>17, <2>1 DEF Elapse
  <2>3. sends' \subseteq Sends
    BY <1>17, AgedSend DEF Elapse, TypeOK
  <2> QED BY <1>17, <2>2, <2>3 DEF Elapse, TypeOK, work
<1>18. ASSUME NEW f \in Findings, Appear(f) PROVE TypeOK'
  BY <1>18 DEF Appear, TypeOK, work
<1>19. ASSUME NEW f \in Findings, Vanish(f) PROVE TypeOK'
  BY <1>19 DEF Vanish, TypeOK, work
<1>20. CASE UNCHANGED vars
  BY <1>20 DEF vars, TypeOK
<1> QED
  BY <1>1, <1>2, <1>3, <1>4, <1>5, <1>6, <1>7, <1>8, <1>9, <1>10, <1>11, <1>12, <1>13,
     <1>14, <1>15, <1>16, <1>17, <1>18, <1>19, <1>20 DEF Next, Stop, Crash

(* Every reachable state has the shape TypeOK describes: indices stay in   *)
(* range, ages saturate, work in hand always comes from a matching rule.   *)
THEOREM TypeCorrect == Spec => []TypeOK
BY InitTypeOK, NextTypeOK, PTL DEF Spec

-------------------------------------------------------------------------------
(* The engine implements Throttle.                                         *)

LEMMA QuietValue ==
  /\ Quiet \in [Keys -> {Quiet[k] : k \in Keys}]
  /\ \A k \in Keys : Quiet[k] = IF InCooldown(k) THEN Cooldown - lastSeen[k] ELSE 0
BY DEF Quiet

LEMMA QuietZero == ASSUME TypeOK, NEW k \in Keys PROVE Quiet[k] = 0 <=> ~InCooldown(k)
BY EngineAssumption, Bounds DEF Quiet, InCooldown, TypeOK

LEMMA QuietNat == ASSUME TypeOK, NEW k \in Keys PROVE Quiet[k] \in Nat
BY EngineAssumption, Bounds DEF Quiet, InCooldown, TypeOK

(* An unchanged map is an unchanged throttle.                              *)
LEMMA QuietUnchanged == ASSUME UNCHANGED lastSeen PROVE UNCHANGED Quiet
BY DEF Quiet, InCooldown

LEMMA QuietEmpty == ASSUME DOMAIN lastSeen = {} PROVE Quiet = [k \in Keys |-> 0]
BY DEF Quiet, InCooldown

LEMMA InitRefines == Init => T!Init
<1> SUFFICES ASSUME Init PROVE T!Init
  OBVIOUS
<1>1. DOMAIN lastSeen = {}
  BY EmptyMap DEF Init
<1>2. Quiet = [k \in Keys |-> 0]
  BY <1>1, QuietEmpty
<1> QED BY <1>2 DEF Init, T!Init, NoVerdict, T!NoVerdict

LEMMA NextRefines == TypeOK /\ [Next]_vars => [T!Next]_(T!vars)
<1> SUFFICES ASSUME TypeOK, [Next]_vars PROVE [T!Next]_(T!vars)
  OBVIOUS
<1>1. ASSUME UNCHANGED <<lastSeen, verdict>> PROVE [T!Next]_(T!vars)
  BY <1>1, QuietUnchanged DEF T!vars
<1>2. ASSUME NEW f \in Findings, SkipOutOfScope(f) PROVE T!Ignore
  BY <1>2, QuietUnchanged DEF SkipOutOfScope, T!Ignore, NoVerdict, T!NoVerdict
<1>3. ASSUME NEW f \in Findings, Suppress(f) PROVE T!Suppress(Key(f))
  <2>1. Quiet[Key(f)] > 0
    BY <1>3, KeyOfFinding, QuietZero, QuietNat DEF Suppress
  <2>2. UNCHANGED Quiet
    BY <1>3, QuietUnchanged DEF Suppress
  <2> QED BY <1>3, <2>1, <2>2 DEF Suppress, T!Suppress, Suppressed, T!Suppressed
<1>4. ASSUME NEW f \in Findings, Report(f) PROVE T!LetThrough(Key(f))
  <2> DEFINE kf == Key(f)
  <2>1. kf \in Keys /\ ~InCooldown(kf) /\ lastSeen' = Stamped(kf) /\ verdict' = Reported(kf)
    BY <1>4, KeyOfFinding DEF Report, LetThrough
  <2>2. Quiet[kf] = 0
    BY <2>1, QuietZero
  <2> HIDE DEF kf
  <2>3. ASSUME NEW k \in Keys
        PROVE  (IF InCooldown(k) THEN Cooldown - lastSeen[k] ELSE 0)'
                 = IF k = kf THEN Cooldown ELSE Quiet[k]
    <3>1. CASE k = kf
      BY <2>1, <3>1, StampedShape, EngineAssumption DEF InCooldown
    <3>2. CASE k # kf
      <4>1. InCooldown(k)' <=> InCooldown(k)
        BY <2>1, <3>2, StampedShape, EngineAssumption, Bounds DEF InCooldown, TypeOK
      <4>2. InCooldown(k)' => lastSeen'[k] = lastSeen[k]
        BY <2>1, <3>2, StampedShape DEF InCooldown
      <4> QED BY <3>2, <4>1, <4>2, QuietValue
    <3> QED BY <3>1, <3>2
  <2>4. Quiet' = [k \in Keys |-> IF k = kf THEN Cooldown ELSE Quiet[k]]
    BY <2>3 DEF Quiet
  <2>5. Quiet' = [Quiet EXCEPT ![kf] = Cooldown]
    BY <2>1, <2>4, QuietValue
  <2>6. T!LetThrough(kf)
    BY <2>1, <2>2, <2>5 DEF T!LetThrough, Reported, T!Reported
  <2> QED BY <2>6 DEF kf
<1>5. CASE Elapse
  <2>1. ASSUME NEW k \in Keys
        PROVE  (IF InCooldown(k) THEN Cooldown - lastSeen[k] ELSE 0)'
                 = IF Quiet[k] > 0 THEN Quiet[k] - 1 ELSE 0
    <3>1. DOMAIN lastSeen' = DOMAIN lastSeen
      BY <1>5 DEF Elapse
    <3>2. CASE k \notin DOMAIN lastSeen
      BY <3>1, <3>2, QuietValue DEF InCooldown
    <3>3. CASE k \in DOMAIN lastSeen
      <4>1. lastSeen[k] \in 0..MaxAge /\ lastSeen'[k] = Older(lastSeen[k], MaxAge)
        BY <1>5, <3>3 DEF Elapse, TypeOK
      <4>2. lastSeen'[k] = IF lastSeen[k] < MaxAge THEN lastSeen[k] + 1 ELSE MaxAge
        BY <4>1 DEF Older
      <4>3. Quiet[k] = IF lastSeen[k] < Cooldown THEN Cooldown - lastSeen[k] ELSE 0
        BY <3>3, QuietValue DEF InCooldown
      <4>4. InCooldown(k)' <=> lastSeen'[k] < Cooldown
        BY <3>1, <3>3 DEF InCooldown
      <4>5. CASE lastSeen[k] < Cooldown
        BY <4>1, <4>2, <4>3, <4>4, <4>5, EngineAssumption, Bounds
      <4>6. CASE ~(lastSeen[k] < Cooldown)
        BY <4>1, <4>2, <4>3, <4>4, <4>6, EngineAssumption, Bounds
      <4> QED BY <4>5, <4>6
    <3> QED BY <3>2, <3>3
  <2>2. Quiet' = [k \in Keys |-> IF Quiet[k] > 0 THEN Quiet[k] - 1 ELSE 0]
    BY <2>1 DEF Quiet
  <2> QED BY <1>5, <2>2 DEF Elapse, T!Elapse, T!Next
<1>6. CASE Exit
  <2>1. Quiet' = [k \in Keys |-> 0]
    BY <1>6, EmptyMap DEF Exit, Quiet, InCooldown
  <2> QED BY <1>6, <2>1 DEF Exit, T!Restart, NoVerdict, T!NoVerdict, T!Next
<1>7. CASE UNCHANGED vars
  BY <1>1, <1>7 DEF vars
<1> QED
  <2>1. ASSUME NEW f \in Findings, SkipOutOfScope(f) \/ Suppress(f) \/ Report(f)
        PROVE  T!Next
    BY <1>2, <1>3, <1>4, <2>1, KeyOfFinding DEF T!Next
  <2>2. ASSUME NEW f \in Findings, Appear(f) \/ Vanish(f) PROVE UNCHANGED <<lastSeen, verdict>>
    BY <2>2 DEF Appear, Vanish
  <2>3. ASSUME NEW t \in todo, Enforce(t[1], t[2]) \/ ActionFails(t[1], t[2])
        PROVE  UNCHANGED <<lastSeen, verdict>>
    BY <2>3 DEF Enforce, ActionFails
  <2>4. ASSUME NEW s \in sends, SendReturns(s) PROVE UNCHANGED <<lastSeen, verdict>>
    BY <2>4 DEF SendReturns
  <2>5. CASE Gather \/ GatherFails \/ RunDetector \/ DetectorFails \/ EndScan
    BY <1>1, <2>5 DEF Gather, GatherFails, RunDetector, DetectorFails, EndScan
  <2>6. CASE TakeTick \/ TickerFires \/ Signal \/ Start
    BY <1>1, <2>6 DEF TakeTick, TickerFires, Signal, Start
  <2> QED BY <1>1, <1>5, <1>6, <1>7, <2>1, <2>2, <2>3, <2>4, <2>5, <2>6 DEF Next, Stop, Crash

(* The cooldown map with its opportunistic garbage collection decides      *)
(* exactly as an ideal throttle: every key is let through when a cooldown  *)
(* has passed, never before, and forgotten only by a restart.              *)
THEOREM EngineIsThrottle == Spec => IsThrottle
<1>1. Init => T!Init
  BY InitRefines
<1>2. TypeOK /\ [Next]_vars => [T!Next]_(T!vars)
  BY NextRefines
<1> QED BY <1>1, <1>2, TypeCorrect, PTL DEF Spec, IsThrottle, T!Spec

-------------------------------------------------------------------------------
(* Sends never overlap.  The invariant that carries it: an HTTP send in    *)
(* flight is exactly as old as the entry of its key, so the key cannot be  *)
(* let through again, nor its entry collected, before the send is over.    *)

HttpSends == {s \in sends : s.to \in HttpAlerters}

SendInv ==
  \A s \in HttpSends :
    /\ s.age <= SendTimeout
    /\ Key(s.finding) \in DOMAIN lastSeen
    /\ lastSeen[Key(s.finding)] = s.age

IInv == TypeOK /\ SendInv /\ NoOverlappingSends

(* No send is in flight for a key that is being let through.               *)
LEMMA OpenKeyHasNoSend ==
  ASSUME SendTimeout < Cooldown, IInv, NEW k, ~InCooldown(k), NEW s \in HttpSends
  PROVE  Key(s.finding) # k
BY EngineAssumption DEF IInv, SendInv, InCooldown, HttpSends, TypeOK, Sends

(* A step that adds no send and keeps the map keeps the invariant.         *)
LEMMA FewerSends ==
  ASSUME SendInv, NoOverlappingSends, sends' \subseteq sends, UNCHANGED lastSeen
  PROVE  SendInv' /\ NoOverlappingSends'
BY DEF SendInv, NoOverlappingSends, HttpSends

LEMMA ReportKeepsSends ==
  ASSUME SendTimeout < Cooldown, IInv, NEW f \in Findings, Report(f)
  PROVE  SendInv' /\ NoOverlappingSends'
<1> DEFINE kf == Key(f)
<1>1. kf \in Keys /\ ~InCooldown(kf) /\ lastSeen' = Stamped(kf)
  BY KeyOfFinding DEF Report, LetThrough
<1>2. kf \in DOMAIN lastSeen' /\ lastSeen'[kf] = 0
  BY <1>1, StampedShape DEF IInv
<1>3. sends' \subseteq sends \cup Dispatched(f)
  BY DEF Report
<1>4. \A s \in HttpSends : Key(s.finding) # kf
  BY <1>1, OpenKeyHasNoSend
<1>5. \A s \in HttpSends :
        Key(s.finding) \in DOMAIN lastSeen' /\ lastSeen'[Key(s.finding)] = s.age
  <2> SUFFICES ASSUME NEW s \in HttpSends
               PROVE  Key(s.finding) \in DOMAIN lastSeen' /\ lastSeen'[Key(s.finding)] = s.age
    OBVIOUS
  <2> HIDE DEF kf
  <2>1. Key(s.finding) \in DOMAIN lastSeen \ {kf} /\ lastSeen[Key(s.finding)] = s.age
    BY <1>4 DEF IInv, SendInv
  <2>2. lastSeen[Key(s.finding)] <= 2 * Cooldown
    BY <2>1, EngineAssumption DEF IInv, SendInv, HttpSends, TypeOK, Sends
  <2> QED BY <1>1, <2>1, <2>2, StampedShape DEF IInv
<1>6. \A s \in Dispatched(f) : s.finding = f /\ s.age = 0
  BY DispatchedShape
<1>7. SendInv'
  <2> SUFFICES ASSUME NEW s \in sends', s.to \in HttpAlerters
               PROVE  /\ s.age <= SendTimeout
                      /\ Key(s.finding) \in DOMAIN lastSeen'
                      /\ lastSeen'[Key(s.finding)] = s.age
    BY DEF SendInv, HttpSends
  <2>1. CASE s \in sends
    BY <1>5, <2>1 DEF IInv, SendInv, HttpSends
  <2>2. CASE s \in Dispatched(f)
    BY <1>2, <1>6, <2>2, EngineAssumption
  <2> QED BY <1>3, <2>1, <2>2
<1>8. NoOverlappingSends'
  <2> SUFFICES ASSUME NEW s \in sends', NEW t \in sends', s.to \in HttpAlerters,
                      s.to = t.to, Key(s.finding) = Key(t.finding)
               PROVE  s = t
    BY DEF NoOverlappingSends
  <2>1. CASE s \in sends /\ t \in sends
    BY <2>1 DEF IInv, NoOverlappingSends
  <2>2. CASE s \in Dispatched(f) /\ t \in Dispatched(f)
    BY <2>2, DispatchedShape
  <2>3. CASE s \in sends /\ t \in Dispatched(f)
    BY <1>4, <1>6, <2>3 DEF HttpSends
  <2>4. CASE s \in Dispatched(f) /\ t \in sends
    BY <1>4, <1>6, <2>4 DEF HttpSends
  <2> QED BY <1>3, <2>1, <2>2, <2>3, <2>4
<1> QED BY <1>7, <1>8

LEMMA ElapseKeepsSends ==
  ASSUME SendTimeout < Cooldown, IInv, Elapse
  PROVE  SendInv' /\ NoOverlappingSends'
<1> DEFINE Aged(s) == [s EXCEPT !.age = Older(@, MaxSend)]
<1>1. \A s \in sends : /\ Aged(s).to = s.to /\ Aged(s).finding = s.finding
                       /\ Aged(s).age = Older(s.age, MaxSend)
  BY AgedSend DEF IInv, TypeOK
<1>2. \A t \in sends' : \E s \in sends : t = Aged(s)
  BY DEF Elapse
<1> HIDE DEF Aged
<1>3. ASSUME NEW s \in HttpSends
      PROVE  /\ Aged(s).age = s.age + 1 /\ s.age + 1 <= SendTimeout
             /\ lastSeen'[Key(s.finding)] = s.age + 1
             /\ Key(s.finding) \in DOMAIN lastSeen'
  <2>1. s.age < SendTimeout /\ s.age \in 0..MaxSend
    BY DEF Elapse, HttpSends, IInv, TypeOK, Sends
  <2>2. Key(s.finding) \in DOMAIN lastSeen /\ lastSeen[Key(s.finding)] = s.age
    BY DEF IInv, SendInv
  <2>3. lastSeen'[Key(s.finding)] = Older(s.age, MaxAge) /\ DOMAIN lastSeen' = DOMAIN lastSeen
    BY <2>2 DEF Elapse
  <2>4. Older(s.age, MaxAge) = s.age + 1 /\ Older(s.age, MaxSend) = s.age + 1
    BY <2>1, Bounds, EngineAssumption DEF Older
  <2> QED BY <1>1, <2>1, <2>2, <2>3, <2>4, EngineAssumption DEF HttpSends
<1>4. SendInv'
  <2> SUFFICES ASSUME NEW t \in sends', t.to \in HttpAlerters
               PROVE  /\ t.age <= SendTimeout
                      /\ Key(t.finding) \in DOMAIN lastSeen'
                      /\ lastSeen'[Key(t.finding)] = t.age
    BY DEF SendInv, HttpSends
  <2>1. PICK s \in sends : t = Aged(s)
    BY <1>2
  <2>2. s \in HttpSends
    BY <1>1, <2>1 DEF HttpSends
  <2> QED BY <1>1, <1>3, <2>1, <2>2
<1>5. NoOverlappingSends'
  <2> SUFFICES ASSUME NEW u \in sends', NEW v \in sends', u.to \in HttpAlerters,
                      u.to = v.to, Key(u.finding) = Key(v.finding)
               PROVE  u = v
    BY DEF NoOverlappingSends
  <2>1. PICK s \in sends : u = Aged(s)
    BY <1>2
  <2>2. PICK t \in sends : v = Aged(t)
    BY <1>2
  <2>3. s = t
    BY <1>1, <2>1, <2>2 DEF IInv, NoOverlappingSends
  <2> QED BY <2>1, <2>2, <2>3
<1> QED BY <1>4, <1>5

LEMMA NextIInv == ASSUME SendTimeout < Cooldown PROVE IInv /\ [Next]_vars => IInv'
<1> SUFFICES ASSUME IInv, [Next]_vars PROVE SendInv' /\ NoOverlappingSends'
  BY NextTypeOK DEF IInv
<1>1. ASSUME sends' \subseteq sends, UNCHANGED lastSeen PROVE SendInv' /\ NoOverlappingSends'
  BY <1>1, FewerSends DEF IInv
<1>2. ASSUME NEW f \in Findings, SkipOutOfScope(f) \/ Suppress(f) \/ Appear(f) \/ Vanish(f)
      PROVE  SendInv' /\ NoOverlappingSends'
  BY <1>1, <1>2 DEF SkipOutOfScope, Suppress, Appear, Vanish
<1>3. ASSUME NEW f \in Findings, Report(f) PROVE SendInv' /\ NoOverlappingSends'
  BY <1>3, ReportKeepsSends
<1>4. ASSUME NEW t \in todo, Enforce(t[1], t[2]) \/ ActionFails(t[1], t[2])
      PROVE  SendInv' /\ NoOverlappingSends'
  BY <1>1, <1>4 DEF Enforce, ActionFails
<1>5. ASSUME NEW s \in sends, SendReturns(s) PROVE SendInv' /\ NoOverlappingSends'
  BY <1>1, <1>5 DEF SendReturns
<1>6. CASE Gather \/ GatherFails \/ RunDetector \/ DetectorFails \/ EndScan
  BY <1>1, <1>6 DEF Gather, GatherFails, RunDetector, DetectorFails, EndScan
<1>7. CASE TakeTick \/ TickerFires \/ Signal \/ Start
  BY <1>1, <1>7 DEF TakeTick, TickerFires, Signal, Start
<1>8. CASE Elapse
  BY <1>8, ElapseKeepsSends
<1>9. CASE Exit
  BY <1>9 DEF Exit, SendInv, NoOverlappingSends, HttpSends
<1>10. CASE UNCHANGED vars
  BY <1>1, <1>10 DEF vars
<1> QED BY <1>2, <1>3, <1>4, <1>5, <1>6, <1>7, <1>8, <1>9, <1>10 DEF Next, Stop, Crash

(* When an alert's timeout (12 s) is shorter than the cooldown, no HTTP    *)
(* channel ever has two alerts about the same target in flight.            *)
THEOREM SendsNeverOverlap ==
  ASSUME SendTimeout < Cooldown PROVE Spec => []NoOverlappingSends
<1>1. Init => IInv
  BY InitTypeOK DEF Init, IInv, SendInv, HttpSends, NoOverlappingSends
<1>2. IInv /\ [Next]_vars => IInv'
  BY NextIInv
<1>3. IInv => NoOverlappingSends
  BY DEF IInv
<1> QED BY <1>1, <1>2, <1>3, PTL DEF Spec

-------------------------------------------------------------------------------
(* The configuration the engine is built from.                             *)

(* Filling in defaults keeps the shape of a configuration.                 *)
LEMMA DefaultsKeepShape ==
  ASSUME NEW file \in Files
  PROVE  ApplyDefaults(file) \in Files
<1>1. [d \in DOMAIN Durations |-> IF file.durations[d] > 0 THEN file.durations[d] ELSE Durations[d]]
        \in [DOMAIN Durations -> Int]
  BY DEF Files, Durations
<1>2. [n \in DOMAIN Numbers |-> IF file.numbers[n] # 0 THEN file.numbers[n] ELSE Numbers[n]]
        \in [DOMAIN Numbers -> Int]
  BY DEF Files, Numbers
<1>3. [l \in DOMAIN Lists |-> IF file.lists[l] # {} THEN file.lists[l] ELSE Lists[l]]
        \in [DOMAIN Lists -> SUBSET Words]
  BY ConfigAssumption DEF Files
<1>4. QED
  BY <1>1, <1>2, <1>3, ConfigAssumption DEF ApplyDefaults, Files, NoValue, Modes

(* A configuration that Load accepts has its shape and can be run: no      *)
(* ticker is made with a duration that is not positive (time.NewTicker     *)
(* panics), which is also what EngineAssumption asks of the cooldown; the  *)
(* mode is one ModeAllows knows; there are rules, and every list has       *)
(* something to match; every alerter and the panel have somewhere to send. *)
THEOREM LoadedConfigRuns ==
  ASSUME NEW file \in Files, Accepted(file)
  PROVE  LET c == Load(file) IN
           /\ c \in Files
           /\ c.durations \in [DOMAIN Durations -> Nat \ {0}]
           /\ c.mode \in Modes
           /\ c.rules # {}
           /\ \A l \in DOMAIN Lists : c.lists[l] # {}
           /\ \A s \in BuildAlerters(c) \cup (c.enabled \cap {"pterodactyl"}) :
                \A t \in Destination[s] : t \in c.given
<1> DEFINE c == Load(file)
<1>1. c.durations \in [DOMAIN Durations -> Nat \ {0}]
  <2>1. \A d \in DOMAIN Durations : Durations[d] \in Nat \ {0}
    BY DEF Durations
  <2>2. \A d \in DOMAIN Durations : file.durations[d] \in Int
    BY DEF Files
  <2>3. c.durations = [d \in DOMAIN Durations |->
                         IF file.durations[d] > 0 THEN file.durations[d] ELSE Durations[d]]
    BY DEF Load, ApplyDefaults, Files
  <2>4. QED  BY <2>1, <2>2, <2>3
<1>2. c.mode \in Modes
  BY DEF Load, Accepted, Valid
<1>3. c.rules # {}
  <2>1. DefaultRules # {}
    BY DEF DefaultRules
  <2>2. QED  BY <2>1 DEF Load, ApplyDefaults, Files
<1>4. \A l \in DOMAIN Lists : c.lists[l] # {}
  <2>1. \A l \in DOMAIN Lists : Lists[l] # {}
    BY DEF Lists
  <2>2. c.lists = [l \in DOMAIN Lists |-> IF file.lists[l] # {} THEN file.lists[l] ELSE Lists[l]]
    BY DEF Load, ApplyDefaults, Files
  <2>3. QED  BY <2>1, <2>2
<1>5. ASSUME NEW s \in BuildAlerters(c) \cup (c.enabled \cap {"pterodactyl"}),
             NEW t \in Destination[s]
      PROVE  t \in c.given
  <2>1. s \in c.enabled /\ s \in DOMAIN Destination
    BY DEF BuildAlerters, Channels, Destination
  <2>2. QED  BY <2>1 DEF Load, Accepted, Valid
<1>6. c \in Files
  BY DefaultsKeepShape DEF Load
<1>7. QED  BY <1>1, <1>2, <1>3, <1>4, <1>5, <1>6

(* Of texts that stay texts in the file it writes, config init makes a     *)
(* configuration that Load accepts, whichever of its flags are given (a    *)
(* panel without its key is left off rather than refused), and one that    *)
(* destroys nothing until it is told to by the one word that does.         *)
THEOREM InitWritesAConfig ==
  ASSUME NEW f \in InitFlags
  PROVE  /\ RenderConfig(f) \in Files
         /\ f.plain => Accepted(RenderConfig(f))
         /\ ~Load(RenderConfig(f)).dryRun => f.dryRun = "false"
<1> DEFINE r == RenderConfig(f)
<1>1. r \in Files
  <2>1. Durations \in [DOMAIN Durations -> Int]
    BY DEF Durations
  <2>2. [Numbers EXCEPT !.max_nesting = 0] \in [DOMAIN Numbers -> Int]
    BY DEF Numbers
  <2>3. [l \in DOMAIN Lists |-> IF l \in {"scan_paths", "watch_paths"} THEN Lists[l] ELSE {}]
          \in [DOMAIN Lists -> SUBSET Words]
    BY ConfigAssumption
  <2>4. r.given \subseteq DefaultTexts \cup OtherTexts
    BY DEF RenderConfig, Template, OtherTexts
  <2>5. r.enabled \subseteq Sections
    <3>1. {"miner", "portscan", "ddos", "zipbomb", "exploit"}
             \subseteq {DetectorNames[i] : i \in 1..Len(DetectorNames)}
      BY DEF DetectorNames
    <3>2. QED  BY <3>1 DEF RenderConfig, Template, Sections, Channels, Backends
  <2>6. r.mode \in Words
    BY ConfigAssumption DEF RenderConfig, Template, Modes
  <2>7. f.plain \in BOOLEAN
    BY DEF InitFlags
  <2>8. QED
    BY <2>1, <2>2, <2>3, <2>4, <2>5, <2>6, <2>7, ConfigAssumption
    DEF RenderConfig, Template, Files
<1>2. ASSUME f.plain PROVE Accepted(r)
  <2>1. ApplyDefaults(r).mode \in Modes
    <3>1. r.mode \in Modes /\ "both" \in Modes
      BY DEF RenderConfig, Template, Modes
    <3>2. ApplyDefaults(r).mode = IF r.mode = NoValue THEN "both" ELSE r.mode
      BY <1>1 DEF ApplyDefaults, Files
    <3>3. QED  BY <3>1, <3>2
  <2>2. ApplyDefaults(r).enabled = r.enabled /\ r.given \subseteq ApplyDefaults(r).given
    BY <1>1 DEF ApplyDefaults, Files
  <2>3. ASSUME NEW s \in r.enabled \cap DOMAIN Destination
        PROVE  Destination[s] \subseteq r.given
    BY DEF RenderConfig, Template, Destination
  <2>4. Valid(ApplyDefaults(r))
    BY <2>1, <2>2, <2>3 DEF Valid
  <2>5. r.parses
    BY <1>2 DEF RenderConfig, Template
  <2>6. QED  BY <2>4, <2>5 DEF Accepted
<1>3. ~Load(r).dryRun => f.dryRun = "false"
  BY <1>1 DEF Load, ApplyDefaults, RenderConfig, Template, Files
<1>4. QED  BY <1>1, <1>2, <1>3
===============================================================================
