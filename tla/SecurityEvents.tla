---------------------------- MODULE SecurityEvents ----------------------------
(***************************************************************************)
(* The data the daemon's parts share: findings (core.Event), the key that  *)
(* de-duplicates them, the protection mode and the rule set.               *)
(*                                                                         *)
(* A finding keeps the fields decisions are taken on.  Its title,          *)
(* description and evidence are only printed and are left out.             *)
(***************************************************************************)
EXTENDS Naturals

NoValue == ""                   \* Go's zero value for a field nobody filled in

(* Severities, in the order of the source's iota.                          *)
SeverityInfo     == 0
SeverityLow      == 1
SeverityMedium   == 2
SeverityHigh     == 3
SeverityCritical == 4
Severity         == SeverityInfo .. SeverityCritical

(* An unknown word means medium: a typo never disables a rule.  Words are  *)
(* taken as already trimmed and in lower case.                             *)
ParseSeverity(s) ==
  CASE s = "info"                  -> SeverityInfo
    [] s = "low"                   -> SeverityLow
    [] s = "high"                  -> SeverityHigh
    [] s \in {"critical", "crit"}  -> SeverityCritical
    [] OTHER                       -> SeverityMedium

Category == {"miner", "portscan", "ddos", "zipbomb", "exploit", "abuse", "system"}

(* De-duplication key: a path wins over a container, a container over a    *)
(* pid.  The severity is not part of it.                                   *)
Key(ev) ==
  <<ev.category, ev.detector,
    IF ev.path # NoValue             THEN <<"path", ev.path>>
    ELSE IF ev.containerID # NoValue THEN <<"container", ev.containerID>>
                                     ELSE <<"pid", ev.pid>> >>

ContainerRelated(ev) == ev.containerID # NoValue \/ ev.server # NoValue

ModeAllows(mode, containerRelated) ==
  /\ mode = "docker" => containerRelated
  /\ mode = "server" => ~containerRelated

RuleMatches(r, ev) ==
  /\ ev.severity >= ParseSeverity(r.minSeverity)
  /\ {"*", ev.category} \cap r.categories # {}

(* Every matching rule contributes its actions.                            *)
MatchActions(rules, ev) ==
  UNION {r.actions : r \in {q \in rules : RuleMatches(q, ev)}}

DefaultRules ==
  {[categories |-> {"miner"},    minSeverity |-> "high",
    actions    |-> {"neutralize", "suspend_server", "alert"}],
   [categories |-> {"ddos"},     minSeverity |-> "high",
    actions    |-> {"neutralize", "suspend_server", "alert"}],
   [categories |-> {"exploit"},  minSeverity |-> "high",
    actions    |-> {"neutralize", "alert"}],
   [categories |-> {"zipbomb"},  minSeverity |-> "medium",
    actions    |-> {"quarantine_file", "alert"}],
   [categories |-> {"portscan"}, minSeverity |-> "medium",
    actions    |-> {"alert"}],
   [categories |-> {"*"},        minSeverity |-> "low",
    actions    |-> {"alert"}]}
===============================================================================
