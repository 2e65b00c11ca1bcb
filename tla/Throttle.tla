------------------------------- MODULE Throttle -------------------------------
(***************************************************************************)
(* What the engine's cooldown promises, without the map and its garbage    *)
(* collection: once a key has been let through it is closed for exactly    *)
(* Cooldown units of time, and it is open otherwise.  A key is let through *)
(* only when it is open and suppressed only when it is closed, so neither  *)
(* a duplicate nor a gap is allowed.  A restart forgets everything.        *)
(***************************************************************************)
EXTENDS Naturals

CONSTANTS Keys,        \* what findings are de-duplicated by
          Cooldown     \* how long a key stays closed

VARIABLES
  quiet,               \* quiet[k]: time left before k is open again
  verdict              \* the last decision, or NoVerdict

NoVerdict       == <<>>
Reported(k)     == <<k, "reported">>
Suppressed(k)   == <<k, "suppressed">>

Init == /\ quiet = [k \in Keys |-> 0]
        /\ verdict = NoVerdict

LetThrough(k) == /\ quiet[k] = 0
                 /\ quiet' = [quiet EXCEPT ![k] = Cooldown]
                 /\ verdict' = Reported(k)

Suppress(k) == /\ quiet[k] > 0
               /\ verdict' = Suppressed(k)
               /\ UNCHANGED quiet

(* A finding the throttle is not asked about.                              *)
Ignore == /\ verdict' = NoVerdict
          /\ UNCHANGED quiet

Elapse == /\ quiet' = [k \in Keys |-> IF quiet[k] > 0 THEN quiet[k] - 1 ELSE 0]
          /\ UNCHANGED verdict

Restart == /\ quiet' = [k \in Keys |-> 0]
           /\ verdict' = NoVerdict

Next == \/ \E k \in Keys : LetThrough(k) \/ Suppress(k)
        \/ Ignore
        \/ Elapse
        \/ Restart

vars == <<quiet, verdict>>

Spec == Init /\ [][Next]_vars
===============================================================================
