------------------------------- MODULE MCEngine -------------------------------
(* Instances of Engine for TLC: a daemon built from a configuration that   *)
(* config init writes and Load accepts, under the default rules, and       *)
(* findings the detectors really emit.                                     *)
EXTENDS Engine, Config

S == INSTANCE Signatures WITH
       FlagReverseShell <- TRUE, FlagPrivEsc <- TRUE, ConnThreshold <- 2,
       Alphanumeric <- {"a", "b"}

-------------------------------------------------------------------------------
(* Configurations.  The words are those they are written with.        *)
SomeWords ==
  Modes \cup UNION {Lists[l] : l \in DOMAIN Lists}
    \cup UNION {r.categories \cup r.actions \cup {r.minSeverity} : r \in DefaultRules}

(* Armed, with the panel and Discord; then edited by hand.                 *)
Starter(mode) ==
  RenderConfig([mode |-> mode, dryRun |-> "false", discord |-> TRUE,
                pteroURL |-> TRUE, pteroKey |-> TRUE, plain |-> TRUE])

With(file, detectors, alerters) ==
  [file EXCEPT !.enabled = (@ \cap Backends) \cup detectors \cup alerters]

Host == With(Starter("server"), {"ddos", "exploit"}, {"discord", "smtp"})
Node == With(Starter("both"), {"miner", "portscan"}, {"discord"})
Bare == With(Starter("both"), {"miner"}, {"discord"})

ASSUME ConfigurationsAreAccepted == \A file \in {Host, Node, Bare} : Accepted(file)

HostMode      == Load(Host).mode
NodeMode      == Load(Node).mode
HostDetectors == BuildDetectors(Load(Host))
NodeDetectors == BuildDetectors(Load(Node))
BareDetectors == BuildDetectors(Load(Bare))
HostAlerters  == BuildAlerters(Load(Host))
NodeAlerters  == BuildAlerters(Load(Node))

(* All three have the same actions, rules and, as Docker answers, a client. *)
BuiltRules  == Load(Node).rules
BuiltDryRun == Load(Node).dryRun
BuiltDocker == "docker" \in Node.enabled
BuiltFile   == "file" \in Node.enabled
BuiltPtero  == "pterodactyl" \in Node.enabled
DockerPings == HasDocker(Load(Node), TRUE)

HttpOnly      == {a \in Alerters : a # "smtp"}
MinSeverities == [a \in Alerters |-> IF a = "smtp" THEN SeverityHigh ELSE SeverityMedium]

-------------------------------------------------------------------------------
(* Findings.                                                               *)
Finding(detector, category, severity, pid, containerID, server, path) ==
  [detector |-> detector, category |-> category, severity |-> severity, pid |-> pid,
   containerID |-> containerID, server |-> server, path |-> path]

(* The resolver knows the server of container c1.                          *)
Resolved(findings) ==
  {IF f.containerID = "c1" THEN [f EXCEPT !.server = "s1"] ELSE f : f \in findings}

(* A process of container c1 with a miner's name.                          *)
Miner == Finding("miner", "miner", SeverityHigh, 70, "c1", "s1", NoValue)

(* One host process: sustained CPU, and a connection to a pool port.  Run  *)
(* lists the processes first and appends the connections.                  *)
HostBusy == Finding("miner", "miner", SeverityMedium, 90, NoValue, NoValue, NoValue)
HostPool == Finding("miner", "miner", SeverityHigh,   90, NoValue, NoValue, NoValue)

(* A scan from a host process, which no rule has anybody killed for.       *)
Scan == Finding("portscan", "portscan", SeverityMedium, 42, NoValue, NoValue, NoValue)

(* An escape from container c1, and something run from /tmp on the host.   *)
Exploits ==
  S!ExploitFindings(
    {[pid |-> 70, containerID |-> "c1", marks |-> {"privesc", "namespaces", "scratch"}],
     [pid |-> 42, containerID |-> NoValue, marks |-> {"scratch"}]})

(* A process of the host floods with a known tool, over two connections:   *)
(* two checks, one threat.                                                 *)
Floods ==
  S!ToolFindings({[pid |-> 90, containerID |-> NoValue, marks |->
                     IF S!ContainsWord(<<"a", "b", "-", "a">>, <<"a">>) THEN {"ddos_word"} ELSE {}]})
    \cup S!PossibleFloods(
      {[id |-> i, pid |-> 90, containerID |-> NoValue, state |-> "syn_sent"] : i \in 1..2},
      [pid \in {90} |-> NoValue])

(* Of a process that bears any sign the exploit detector makes exactly one *)
(* finding, and a file in a watched directory never has anybody killed.    *)
ASSUME OneSignDecides ==
  \A marks \in SUBSET (S!Marks \ {"ddos_tool", "ddos_word", "java", "flood_jar"}), box \in {NoValue, "c1"} :
    Cardinality(S!ExploitFindings({[pid |-> 70, containerID |-> box, marks |-> marks]}))
      = IF marks \subseteq {"namespaces"} THEN 0 ELSE 1

ASSUME SetuidFilesHaveNobody ==
  \A ev \in S!SetuidFindings({"/tmp/x"}) : Neutralize(ev) = NoTarget

(* A tool is found wherever its name stands as a word of its own in the    *)
(* command line, also after an occurrence within a word that overlaps it.  *)
Texts(n) == UNION {[1..k -> {"a", "b", "-"}] : k \in 0..n}

ASSUME WordsAreFound ==
  \A s \in Texts(6), token \in {<<"a">>, <<"a", "b">>, <<"a", "-", "a">>} :
    S!ContainsWord(s, token) <=>
      \E i, j \in 1..Len(s) :
        /\ SubSeq(s, i, j) = token
        /\ i = 1 \/ s[i - 1] = "-"
        /\ j = Len(s) \/ s[j + 1] = "-"

ProcessesThenConns == [f \in Findings |-> IF f = HostPool THEN 1 ELSE 0]

AnyRank == [f \in Findings |-> 0]

MixedThreats == Resolved(Exploits \cup Floods)   \* two of the host, one of a container
TwoThreats   == {Miner, Scan}                    \* the second is only alerted about
OneProcess   == {HostBusy, HostPool}
===============================================================================
