-------------------------------- MODULE Engine --------------------------------
(***************************************************************************)
(* The orchestrator: one goroutine captures the system, asks each detector *)
(* in turn, and handles every finding to the end (scope, cooldown, rules,  *)
(* alerts, actions) before it looks at the next one.  Alerts leave in      *)
(* goroutines of their own.  A ticker with a one-slot channel paces the    *)
(* scans; a signal cancels the context; the process may crash and is       *)
(* started again, with an empty cooldown map.                              *)
(*                                                                         *)
(* Time is kept as ages (what time.Since would answer), saturating where   *)
(* the code can no longer tell them apart, so the state stays finite.      *)
(***************************************************************************)
EXTENDS Actions, Sequences, FiniteSets

CONSTANTS
  Findings,        \* the findings the system may give rise to
  Rank,            \* [Findings -> Nat]: the order in which a run of a detector
                   \* appends findings (equal where map iteration decides)
  Detectors,       \* the sequence of enabled detectors
  Rules, Mode, Alerters, MinSeverity,
  HttpAlerters,    \* alerters whose Send gives up when its context does
  Cooldown,        \* general.cooldown, in ticks of the model's clock
  SendTimeout      \* the 12 s an alert is given, in the same ticks

ASSUME EngineAssumption ==
  /\ Cooldown \in Nat \ {0}
  /\ SendTimeout \in Nat
  /\ Rank \in [Findings -> Nat]
  /\ Detectors \in Seq(STRING)
  /\ HttpAlerters \subseteq Alerters

VARIABLES
  threats,         \* what a capture of the system would show now
  snap,            \* what the capture of this scan showed
  phase,           \* "gather", "detect", "select" or "exited"
  pos,             \* index of the next detector to run
  batch,           \* findings of the last detector still to be handled
  todo,            \* actions still to be run for the finding in hand
  lastSeen,        \* key -> time since it was last let through
  verdict,         \* the last decision of the cooldown
  sends,           \* alert goroutines in flight
  tick,            \* the ticker's channel holds a tick
  cancelled        \* the context is done

work     == <<snap, pos, batch, todo>>
vars     == <<threats, snap, phase, pos, batch, todo, lastSeen, verdict, sends,
              tick, cancelled>>

Keys      == {Key(f) : f \in Findings}
MaxAge    == 2 * Cooldown + 1     \* older entries are garbage
MaxSend   == SendTimeout + 1      \* a send that outlived its timeout

NoVerdict     == <<>>
Reported(k)   == <<k, "reported">>
Suppressed(k) == <<k, "suppressed">>

Older(age, max) == IF age < max THEN age + 1 ELSE max

-------------------------------------------------------------------------------
(* Scope, cooldown and rules.                                              *)

InScope(ev) == ModeAllows(Mode, ContainerRelated(ev))

(* Mutant: only presence in the map counts, not the age of the entry.      *)
MutInCooldown(k) == k \in DOMAIN lastSeen

InCooldown(k) == k \in DOMAIN lastSeen /\ lastSeen[k] < Cooldown

(* Mutant: the garbage collection halves the cooldown instead of doubling. *)
MutStamped(k) ==
  [j \in {k} \cup {i \in DOMAIN lastSeen : lastSeen[i] < Cooldown \div 2} |->
     IF j = k THEN 0 ELSE lastSeen[j]]

(* Stamp the key, then drop every entry older than two cooldowns.          *)
Stamped(k) ==
  [j \in {k} \cup {i \in DOMAIN lastSeen : lastSeen[i] <= 2 * Cooldown} |->
     IF j = k THEN 0 ELSE lastSeen[j]]

Dispatched(ev) ==
  {[to |-> a, finding |-> ev, age |-> 0] :
     a \in {b \in Alerters : ev.severity >= MinSeverity[b]}}

-------------------------------------------------------------------------------
Init ==
  /\ threats \in SUBSET Findings
  /\ snap = {} /\ pos = 1 /\ batch = {} /\ todo = {}
  /\ phase = "gather"
  /\ lastSeen = [k \in {} |-> 0]
  /\ verdict = NoVerdict
  /\ sends = {}
  /\ tick = FALSE
  /\ cancelled = FALSE

-------------------------------------------------------------------------------
(* One scan.                                                               *)

Gather ==
  /\ phase = "gather"
  /\ snap' = threats
  /\ pos' = 1
  /\ phase' = "detect"
  /\ UNCHANGED <<threats, batch, todo, lastSeen, verdict, sends, tick, cancelled>>

GatherFails ==
  /\ phase = "gather"
  /\ phase' = "select"
  /\ UNCHANGED <<threats, work, lastSeen, verdict, sends, tick, cancelled>>

Idle == phase = "detect" /\ batch = {} /\ todo = {}

(* Mutant: the loop over the detectors leaves out the last one.            *)
MutRunDetector ==
  /\ Idle
  /\ pos < Len(Detectors)
  /\ batch' = {f \in snap : f.detector = Detectors[pos]}
  /\ pos' = pos + 1
  /\ UNCHANGED <<threats, snap, phase, todo, lastSeen, verdict, sends, tick, cancelled>>

RunDetector ==
  /\ Idle
  /\ pos <= Len(Detectors)
  /\ batch' = {f \in snap : f.detector = Detectors[pos]}
  /\ pos' = pos + 1
  /\ UNCHANGED <<threats, snap, phase, todo, lastSeen, verdict, sends, tick, cancelled>>

(* Mutant: the loop over the detectors does not stop at the last one.      *)
MutDetectorFails ==
  /\ Idle
  /\ pos' = pos + 1
  /\ UNCHANGED <<threats, snap, phase, batch, todo, lastSeen, verdict, sends, tick, cancelled>>

(* A detector that returns an error loses its findings for this scan.      *)
DetectorFails ==
  /\ Idle
  /\ pos <= Len(Detectors)
  /\ pos' = pos + 1
  /\ UNCHANGED <<threats, snap, phase, batch, todo, lastSeen, verdict, sends, tick, cancelled>>

(* handle: f is the next finding in the order the detector listed them.    *)
Handles(f) ==
  /\ f \in batch
  /\ \A g \in batch : Rank[f] <= Rank[g]
  /\ todo = {}
  /\ batch' = batch \ {f}
  /\ UNCHANGED <<threats, snap, phase, pos, tick, cancelled>>

SkipOutOfScope(f) ==
  /\ Handles(f)
  /\ ~InScope(f)
  /\ verdict' = NoVerdict
  /\ UNCHANGED <<todo, lastSeen, sends>>

Suppress(f) ==
  /\ Handles(f)
  /\ InScope(f)
  /\ InCooldown(Key(f))
  /\ verdict' = Suppressed(Key(f))
  /\ UNCHANGED <<todo, lastSeen, sends>>

(* inCooldown answered no: the key is stamped in the same critical section. *)
LetThrough(f) ==
  /\ ~InCooldown(Key(f))
  /\ lastSeen' = Stamped(Key(f))
  /\ verdict' = Reported(Key(f))

Report(f) ==
  /\ Handles(f)
  /\ InScope(f)
  /\ LetThrough(f)
  /\ LET actions == MatchActions(Rules, f) IN
       /\ sends' = IF "alert" \in actions THEN sends \cup Dispatched(f) ELSE sends
       /\ todo' = {<<a, f>> : a \in actions \ {"alert", "log_only"}}

(* The actions of one finding run one after another, in map order.         *)
Enforce(name, f) ==
  /\ <<name, f>> \in todo
  /\ Executes(name, f, cancelled)
  /\ todo' = todo \ {<<name, f>>}
  /\ threats' = {g \in threats : ~Ends(Target(name, f), g)}
  /\ UNCHANGED <<snap, phase, pos, batch, lastSeen, verdict, sends, tick, cancelled>>

(* Not enabled, refused, only logged (dry run) or failed: an error is      *)
(* logged and the finding is not tried again before its cooldown is over.  *)
ActionFails(name, f) ==
  /\ <<name, f>> \in todo
  /\ todo' = todo \ {<<name, f>>}
  /\ UNCHANGED <<threats, snap, phase, pos, batch, lastSeen, verdict, sends, tick, cancelled>>

EndScan ==
  /\ Idle
  /\ pos > Len(Detectors)
  /\ phase' = "select"
  /\ snap' = {}
  /\ pos' = 1
  /\ UNCHANGED <<threats, batch, todo, lastSeen, verdict, sends, tick, cancelled>>

-------------------------------------------------------------------------------
(* The select loop, the ticker and the life of the process.                *)

(* Go's select takes any ready case: a tick is taken although the context  *)
(* is already done.                                                        *)
TakeTick ==
  /\ phase = "select"
  /\ tick
  /\ tick' = FALSE
  /\ phase' = "gather"
  /\ UNCHANGED <<threats, work, lastSeen, verdict, sends, cancelled>>

TickerFires ==
  /\ phase # "exited"
  /\ ~tick
  /\ tick' = TRUE
  /\ UNCHANGED <<threats, work, phase, lastSeen, verdict, sends, cancelled>>

Signal ==
  /\ phase # "exited"
  /\ ~cancelled
  /\ cancelled' = TRUE
  /\ UNCHANGED <<threats, work, phase, lastSeen, verdict, sends, tick>>

(* When the process goes, everything it held in memory goes with it,       *)
(* alerts in flight included.                                              *)
Exit ==
  /\ phase' = "exited"
  /\ snap' = {} /\ pos' = 1 /\ batch' = {} /\ todo' = {}
  /\ lastSeen' = [k \in {} |-> 0]
  /\ verdict' = NoVerdict
  /\ sends' = {}
  /\ tick' = FALSE
  /\ cancelled' = FALSE
  /\ UNCHANGED threats

(* Mutant: a pending tick goes before the end of the context.              *)
MutStop == phase = "select" /\ cancelled /\ ~tick /\ Exit

Stop == phase = "select" /\ cancelled /\ Exit

Crash == phase # "exited" /\ Exit

(* systemd after a failure, an operator after a stop.                      *)
Start ==
  /\ phase = "exited"
  /\ phase' = "gather"
  /\ UNCHANGED <<threats, work, lastSeen, verdict, sends, tick, cancelled>>

-------------------------------------------------------------------------------
(* Alert goroutines, time and the outside world.                           *)

SendReturns(s) ==
  /\ s \in sends
  /\ sends' = sends \ {s}
  /\ UNCHANGED <<threats, work, phase, lastSeen, verdict, tick, cancelled>>

(* Mutant: the goroutine is given the plain context, without a timeout.    *)
MutElapse ==
  /\ phase # "exited"
  /\ lastSeen' = [k \in DOMAIN lastSeen |-> Older(lastSeen[k], MaxAge)]
  /\ sends' = {[s EXCEPT !.age = Older(@, MaxSend)] : s \in sends}
  /\ UNCHANGED <<threats, work, phase, verdict, tick, cancelled>>

(* The timeout ends an HTTP send: it never grows older than SendTimeout.   *)
Elapse ==
  /\ phase # "exited"
  /\ \A s \in sends : s.to \in HttpAlerters => s.age < SendTimeout
  /\ lastSeen' = [k \in DOMAIN lastSeen |-> Older(lastSeen[k], MaxAge)]
  /\ sends' = {[s EXCEPT !.age = Older(@, MaxSend)] : s \in sends}
  /\ UNCHANGED <<threats, work, phase, verdict, tick, cancelled>>

Appear(f) ==
  /\ f \notin threats
  /\ threats' = threats \cup {f}
  /\ UNCHANGED <<work, phase, lastSeen, verdict, sends, tick, cancelled>>

Vanish(f) ==
  /\ f \in threats
  /\ threats' = threats \ {f}
  /\ UNCHANGED <<work, phase, lastSeen, verdict, sends, tick, cancelled>>

-------------------------------------------------------------------------------
Handle == \E f \in Findings : SkipOutOfScope(f) \/ Suppress(f) \/ Report(f)

RunAction == \E t \in todo : Enforce(t[1], t[2]) \/ ActionFails(t[1], t[2])

Next ==
  \/ Gather \/ GatherFails \/ RunDetector \/ DetectorFails \/ EndScan
  \/ \E f \in Findings :
       \/ SkipOutOfScope(f) \/ Suppress(f) \/ Report(f)
       \/ Appear(f) \/ Vanish(f)
  \/ \E t \in todo : Enforce(t[1], t[2]) \/ ActionFails(t[1], t[2])
  \/ TakeTick \/ TickerFires \/ Signal \/ Stop \/ Crash \/ Start
  \/ \E s \in sends : SendReturns(s)
  \/ Elapse

Spec == Init /\ [][Next]_vars

(* Fairness.  The loop's own steps are taken when they can be; the ticker  *)
(* and the clock do not stop; an HTTP send ends with its timeout.  Reading *)
(* /proc, a detector and an action may fail, but not every time: strong    *)
(* fairness of the successful step.  Strong fairness of Stop is what Go's  *)
(* uniformly random choice among ready cases amounts to.                   *)
Fairness ==
  /\ SF_vars(Gather)
  /\ \A i \in 1..Len(Detectors) : SF_vars(RunDetector /\ pos = i)
  /\ WF_vars(Handle)
  /\ WF_vars(RunAction)
  /\ \A f \in Findings :
       \A a \in {b \in MatchActions(Rules, f) : Executes(b, f, FALSE)} : SF_vars(Enforce(a, f))
  /\ WF_vars(EndScan)
  /\ WF_vars(TakeTick)
  /\ SF_vars(Stop)
  /\ WF_vars(TickerFires)
  /\ WF_vars(Elapse)
  /\ WF_vars(\E s \in sends : s.to \in HttpAlerters /\ SendReturns(s))

FairSpec == Spec /\ Fairness

-------------------------------------------------------------------------------
(* Every variable has its shape; ages stay within their bounds, and an     *)
(* HTTP send never outlives its timeout.                                   *)
Sends == [to : Alerters, finding : Findings, age : 0..MaxSend]

Verdicts == {NoVerdict} \cup {Reported(k) : k \in Keys} \cup {Suppressed(k) : k \in Keys}

TypeOK ==
  /\ threats \subseteq Findings
  /\ snap \subseteq Findings
  /\ phase \in {"gather", "detect", "select", "exited"}
  /\ pos \in 1..(Len(Detectors) + 1)
  /\ batch \subseteq Findings
  /\ \A t \in todo : \E f \in Findings : \E a \in MatchActions(Rules, f) : t = <<a, f>>
  /\ DOMAIN lastSeen \subseteq Keys
  /\ lastSeen \in [DOMAIN lastSeen -> 0..MaxAge]
  /\ verdict \in Verdicts
  /\ sends \subseteq Sends
  /\ tick \in BOOLEAN
  /\ cancelled \in BOOLEAN

(* The cooldown map with its lazy garbage collection is a throttle: what   *)
(* is deleted, kept or stamped never shows in a decision.                  *)
Quiet == [k \in Keys |-> IF InCooldown(k) THEN Cooldown - lastSeen[k] ELSE 0]

T == INSTANCE Throttle WITH quiet <- Quiet

IsThrottle == T!Spec

(* Two alerts about the same target never race each other on one HTTP      *)
(* channel: the first is over before the cooldown lets the second go, so   *)
(* a channel sees them in order.  (It needs SendTimeout < Cooldown.)       *)
NoOverlappingSends ==
  \A s, t \in sends :
    (s.to \in HttpAlerters /\ s.to = t.to /\ Key(s.finding) = Key(t.finding)) => s = t

(* Alerter.Send "should return quickly; callers run it in a goroutine with *)
(* a timeout": whatever the channel, no send outlives the timeout.  It     *)
(* fails for smtp, which never looks at its context.                       *)
SendsHaveATimeout == \A s \in sends : s.age <= SendTimeout

-------------------------------------------------------------------------------
Up == phase # "exited" /\ ~cancelled

(* A termination signal ends the daemon even though ticks keep coming and  *)
(* the select may prefer them.                                             *)
ShutdownCompletes == cancelled ~> phase = "exited"

(* A finding in scope that stays true is let through again and again: no   *)
(* suppression, failed capture or failed detector starves its key.         *)
PersistentThreatReported ==
  \A f \in {g \in Findings : InScope(g)} :
    <>[](Up /\ f \in threats)
      => []<><<\E g \in Findings : Key(g) = Key(f) /\ Report(g)>>_vars

(* "every matching rule contributes its actions" (config.Rule): each       *)
(* action the rules give a lasting finding is attempted for it.            *)
EveryMatchingRuleContributes ==
  \A f \in {g \in Findings : InScope(g)} :
    \A a \in MatchActions(Rules, f) \ {"alert", "log_only"} :
      <>[](Up /\ f \in threats) => []<><<Enforce(a, f) \/ ActionFails(a, f)>>_vars

(* "When a threat is confirmed, protection alerts and enforces" (README):  *)
(* while the daemon is up no threat lasts for ever that an action of a     *)
(* matching rule is able to end.                                           *)
Enforceable(f) ==
  /\ InScope(f)
  /\ \E a \in MatchActions(Rules, f) : Executes(a, f, FALSE) /\ Ends(Target(a, f), f)

EnforceableThreatsEnd ==
  \A f \in {g \in Findings : Enforceable(g)} : <>[]Up => []<>(f \notin threats)
===============================================================================
