------------------------------ MODULE Signatures ------------------------------
(***************************************************************************)
(* The checks that keep no memory and look at one capture: the exploit     *)
(* detector, and the ddos detector's tool signatures and connection        *)
(* floods.  A process is [pid, containerID, marks]: its marks are what its *)
(* names, its executable and its command line match.                       *)
(***************************************************************************)
EXTENDS SecurityEvents, Sequences, FiniteSetsExt

CONSTANTS
  FlagReverseShell, FlagPrivEsc,     \* of the exploit detector
  ConnThreshold,                     \* of the ddos detector
  Alphanumeric                       \* the characters a word is made of

Marks ==
  {"exploit_tool",      \* comm or executable is one of suspicious_processes
   "reverse_shell",     \* the command line has a reverse-shell pattern
   "privesc",           \* ... a privilege-escalation pattern
   "namespaces",        \* ... nsenter, or the namespaces of pid 1
   "scratch",           \* the executable lies under a watched directory
   "ddos_tool",         \* comm or executable is one of known_tools
   "ddos_word",         \* the command line has the name of one as a word
   "java", "flood_jar"} \* a java process; a flooder's name in the command line

Found(detector, severity, p) ==
  [detector |-> detector, category |-> detector, severity |-> severity, pid |-> p.pid,
   containerID |-> p.containerID, server |-> NoValue, path |-> NoValue]

-------------------------------------------------------------------------------
(* The exploit detector's four signs, in its order; the first decides.     *)

Tool(p)   == "exploit_tool" \in p.marks
Shell(p)  == FlagReverseShell /\ "reverse_shell" \in p.marks /\ ~Tool(p)
Escape(p) == FlagPrivEsc /\ "privesc" \in p.marks /\ ~Tool(p) /\ ~Shell(p)
Dropped(p) == "scratch" \in p.marks /\ ~Tool(p) /\ ~Shell(p) /\ ~Escape(p)

EscapeSeverity(p) ==
  IF p.containerID # NoValue /\ "namespaces" \in p.marks
    THEN SeverityCritical ELSE SeverityHigh

ExploitFindings(processes) ==
  {Found("exploit", SeverityHigh, p) : p \in {q \in processes : Tool(q) \/ Shell(q)}}
    \cup {Found("exploit", EscapeSeverity(p), p) : p \in {q \in processes : Escape(q)}}
    \cup {Found("exploit", SeverityMedium, p) : p \in {q \in processes : Dropped(q)}}

(* A setuid or setgid file in a watched directory has a path and nobody    *)
(* who could be neutralized.                                               *)
SetuidFindings(paths) ==
  {[Found("exploit", SeverityHigh, [pid |-> 0, containerID |-> NoValue]) EXCEPT !.path = path] :
     path \in paths}

-------------------------------------------------------------------------------
(* The ddos detector.                                                      *)

IsWordByte(s, i) == i \in 1..Len(s) /\ s[i] \in Alphanumeric

Index(s, from, token) ==
  {i \in from..(Len(s) - Len(token) + 1) : SubSeq(s, i, i + Len(token) - 1) = token}

(* An occurrence that is part of a longer word is stepped over by one.     *)
ContainsWord(s, token) ==
  LET search[from \in 1..(Len(s) + 1)] ==
        LET start == Min(Index(s, from, token)) IN
          /\ Index(s, from, token) # {}
          /\ \/ ~IsWordByte(s, start - 1) /\ ~IsWordByte(s, start + Len(token))
             \/ search[start + 1]
  IN  token # <<>> /\ search[1]

IsFlooder(p) ==
  \/ p.marks \cap {"ddos_tool", "ddos_word"} # {}
  \/ {"java", "flood_jar"} \subseteq p.marks

ToolFindings(processes) ==
  {Found("ddos", SeverityHigh, p) : p \in {q \in processes : IsFlooder(q)}}

(* A connection is [id, pid, containerID, state].  A flood has the         *)
(* container of any of its connections that has one; where none has, the   *)
(* pid's container is read again.                                          *)
Outbound(conns, pid) ==
  {c \in conns : c.pid = pid /\ c.state \in {"established", "syn_sent"}}

Flooders(conns) ==
  {pid \in {c.pid : c \in conns} \ {0} : Cardinality(Outbound(conns, pid)) >= ConnThreshold}

FloodContainers(conns, pid, reread) ==
  LET known == {c.containerID : c \in Outbound(conns, pid)} \ {NoValue} IN
    IF known # {} THEN known ELSE {reread[pid]}

PossibleFloods(conns, reread) ==
  UNION {{Found("ddos", SeverityHigh, [pid |-> pid, containerID |-> box]) :
            box \in FloodContainers(conns, pid, reread)} : pid \in Flooders(conns)}
===============================================================================
