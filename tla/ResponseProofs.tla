---------------------------- MODULE ResponseProofs ----------------------------
(***************************************************************************)
(* Proofs about Response, for any containers, servers, names, page size    *)
(* and times.                                                              *)
(***************************************************************************)
EXTENDS Response, FiniteSetTheorems, TLAPS

Tenants == [box : Containers \cup {NoBox}, found : BOOLEAN, runs : BOOLEAN]
Stages  == {"watch", "listed", "captured", "reported", "asking", "acting", "walking"}

-------------------------------------------------------------------------------
(* The parts of the type invariant.                                        *)

(* A pid that nobody has is in no container.                               *)
MachineOK ==
  /\ tenant \in Tenants /\ tenant.box \in Running \cup {NoBox}
  /\ up \in [Containers -> 0..MaxUp]
  /\ ~tenant.runs => tenant.box = NoBox /\ ~tenant.found

CacheOK ==
  /\ cache \subseteq Containers /\ answer \subseteq Containers
  /\ age \in Fresh..Expired /\ waited \in 0..Latency

MemoryOK == memory \in Containers \cup {NoBox}

WalkOK ==
  /\ panel \subseteq Servers /\ page \in Nat \ {0} /\ target \in Servers \cup {NoServer}
  /\ steady \subseteq panel /\ shifted \subseteq Servers /\ suspended \subseteq Servers

FindingOK ==
  finding \in Finding /\ (finding.kind = "rate" => docker /\ finding.box # NoBox)

HandOK == stage \in Stages /\ todo \subseteq {"neutralize", "suspend_server"}

FlagsOK ==
  docker \in BOOLEAN /\ inherited \in BOOLEAN /\ mixed \in BOOLEAN

TypeInv ==
  MachineOK /\ CacheOK /\ MemoryOK /\ WalkOK /\ FindingOK /\ HandOK /\ FlagsOK

LEMMA TypeInvImplies == TypeInv => TypeOK
BY DEF TypeInv, TypeOK, MachineOK, CacheOK, MemoryOK, WalkOK, FindingOK, HandOK, FlagsOK,
       Tenants, Stages

(* A part is kept by a step that leaves its variables alone.               *)
LEMMA SameMachine == MachineOK /\ UNCHANGED <<tenant, up>> => MachineOK'
BY DEF MachineOK, Running

LEMMA SameCache == CacheOK /\ UNCHANGED cached => CacheOK'
BY DEF CacheOK, cached

LEMMA SameMemory == MemoryOK /\ UNCHANGED memory => MemoryOK'
BY DEF MemoryOK

LEMMA SameWalk == WalkOK /\ UNCHANGED walk => WalkOK'
BY DEF WalkOK, walk

LEMMA SameFinding == FindingOK /\ UNCHANGED <<docker, finding>> => FindingOK'
BY DEF FindingOK

LEMMA SameHand == HandOK /\ UNCHANGED <<stage, todo>> => HandOK'
BY DEF HandOK

-------------------------------------------------------------------------------
(* What the shared parts of the actions do to them.                        *)

LEMMA NobodyIsATenant == Nobody \in Tenants /\ Nobody.box = NoBox /\ ~Nobody.runs /\ ~Nobody.found
BY DEF Nobody, Tenants

LEMMA StopShape ==
  ASSUME MachineOK, NEW c \in Containers, StopContainer(c)
  PROVE  MachineOK'
<1>1. up' \in [Containers -> 0..MaxUp] /\ Running' = Running \ {c}
  BY ResponseAssumption DEF StopContainer, MachineOK, Running
<1>2. CASE tenant.runs /\ tenant.box = c
  <2>1. tenant' = Nobody
    BY <1>2 DEF StopContainer
  <2> QED BY <1>1, <2>1, NobodyIsATenant DEF MachineOK
<1>3. CASE ~(tenant.runs /\ tenant.box = c)
  <2>1. UNCHANGED tenant
    BY <1>3 DEF StopContainer
  <2>2. CASE tenant.runs
    <3>1. tenant.box # c
      BY <1>3, <2>2
    <3> QED BY <1>1, <2>1, <2>2, <3>1 DEF MachineOK
  <2>3. CASE ~tenant.runs
    BY <1>1, <2>1, <2>3, NobodyIsATenant DEF MachineOK
  <2> QED BY <2>2, <2>3
<1> QED BY <1>2, <1>3

LEMMA FinishedShape ==
  ASSUME MachineOK, Finished, UNCHANGED up
  PROVE  MachineOK' /\ WalkOK' /\ FindingOK' /\ HandOK'
<1>1. tenant' = [tenant EXCEPT !.found = FALSE]
  BY DEF Finished
<1>2. tenant' \in Tenants /\ tenant'.box = tenant.box
  BY <1>1 DEF MachineOK, Tenants
<1>3. tenant'.runs = tenant.runs
  BY <1>1 DEF MachineOK, Tenants
<1>4. ~tenant'.found
  BY <1>1 DEF MachineOK, Tenants
<1>5. MachineOK'
  BY <1>2, <1>3, <1>4 DEF MachineOK, Running
<1>6. WalkOK'
  BY DEF Finished, WalkOK
<1>7. HandOK'
  BY DEF Finished, HandOK, Stages
<1>8. NoFinding \in Finding /\ NoFinding.kind # "rate"
  BY DEF NoFinding, Finding, Kinds, Strings, NoValue
<1>9. FindingOK'
  BY <1>8 DEF Finished, FindingOK
<1> QED BY <1>5, <1>6, <1>7, <1>9

LEMMA AnnotateShape ==
  ASSUME FindingOK, NEW known \in SUBSET Containers, Annotate(known)
  PROVE  FindingOK' /\ HandOK'
<1>1. finding' \in Finding /\ finding'.kind = finding.kind /\ finding'.box = finding.box
  <2>1. CASE finding.box \in known
    <3>1. finding' = [finding EXCEPT !.name = Name[finding.box],
                                     !.server = PteroServerUUID(finding.box)]
      BY <2>1 DEF Annotate
    <3>2. Name[finding.box] \in Strings /\ PteroServerUUID(finding.box) \in Strings
      BY <2>1, ResponseAssumption DEF PteroServerUUID
    <3> QED BY <3>1, <3>2 DEF FindingOK, Finding
  <2>2. CASE finding.box \notin known
    BY <2>2 DEF Annotate, FindingOK
  <2> QED BY <2>1, <2>2
<1>2. UNCHANGED docker
  BY DEF Annotate, machine
<1>3. HandOK'
  BY DEF Annotate, HandOK, Stages
<1>4. FindingOK'
  BY <1>1, <1>2 DEF FindingOK
<1> QED BY <1>3, <1>4

LEMMA QuitShape ==
  ASSUME HandOK, Quit, suspended' \subseteq Servers
  PROVE  WalkOK' /\ HandOK'
<1>1. WalkOK'
  BY DEF Quit, WalkOK
<1>2. HandOK'
  BY DEF Quit, Done, HandOK, Stages
<1> QED BY <1>1, <1>2

LEMMA ReadingsAreBoxes ==
  ASSUME MachineOK
  PROVE  Readings \subseteq Containers \cup {NoBox} /\ BoxNow \subseteq Containers \cup {NoBox}
BY DEF MachineOK, Tenants, Readings, BoxNow

(* A finding whose container is read keeps its kind.                       *)
LEMMA ReportShape ==
  ASSUME MachineOK, FindingOK, NEW box \in Containers \cup {NoBox}, Report(box),
         finding.kind # "rate"
  PROVE  FindingOK'
<1>1. PICK read \in BoxNow : finding' = [finding EXCEPT !.box = IF box # NoBox THEN box ELSE read]
  BY DEF Report
<1>2. (IF box # NoBox THEN box ELSE read) \in Containers \cup {NoBox}
  BY ReadingsAreBoxes
<1> QED BY <1>1, <1>2 DEF FindingOK, Finding

-------------------------------------------------------------------------------
(* Type correctness.                                                       *)

LEMMA InitTypeInv == Init => TypeInv
<1> SUFFICES ASSUME Init PROVE TypeInv
  OBVIOUS
<1> USE ResponseAssumption
<1>1. MachineOK
  BY NobodyIsATenant DEF Init, MachineOK
<1>2. CacheOK /\ MemoryOK
  BY DEF Init, CacheOK, MemoryOK, Fresh, Expired
<1>3. WalkOK
  BY DEF Init, WalkOK
<1>4. FindingOK
  BY DEF Init, FindingOK, NoFinding, Finding, Kinds, Strings, NoValue
<1>5. HandOK
  BY DEF Init, HandOK, Stages
<1>6. FlagsOK
  BY DEF Init, FlagsOK
<1> QED BY <1>1, <1>2, <1>3, <1>4, <1>5, <1>6 DEF TypeInv

(* Flags are set and reset, whatever happens.                              *)
LEMMA NextFlags == FlagsOK /\ [Next]_vars => FlagsOK'
<1> SUFFICES ASSUME FlagsOK, [Next]_vars PROVE FlagsOK'
  OBVIOUS
<1> USE DEF FlagsOK, machine, cached, scans, walk, hand
<1>1. CASE ListProcess \/ SeeConnection \/ ReportProcess \/ ReportConnection \/ ReportScan
  <2>1. CASE ListProcess
    BY <2>1 DEF ListProcess
  <2>2. CASE SeeConnection
    <3>1. UNCHANGED <<docker, inherited>>
      BY <2>2 DEF SeeConnection
    <3>2. mixed' \in BOOLEAN
      BY <2>2 DEF SeeConnection
    <3> QED BY <3>1, <3>2
  <2>3. CASE ReportProcess
    BY <2>3 DEF ReportProcess
  <2>4. CASE ReportConnection
    BY <2>4 DEF ReportConnection, Report
  <2>5. CASE ReportScan
    <3>1. UNCHANGED docker
      BY <2>5 DEF ReportScan, Report
    <3>2. mixed' \in BOOLEAN
      BY <2>5 DEF ReportScan
    <3>3. inherited' \in BOOLEAN
      BY <2>5 DEF ReportScan, Remembers
    <3> QED BY <3>1, <3>2, <3>3
  <2> QED BY <1>1, <2>1, <2>2, <2>3, <2>4, <2>5
<1>2. CASE Notice
  <2>1. UNCHANGED docker /\ mixed' = FALSE
    BY <1>2 DEF Notice, Finished
  <2>2. inherited' \in BOOLEAN
    BY <1>2 DEF Notice, Remembers
  <2> QED BY <2>1, <2>2
<1>3. CASE Forget
  BY <1>3 DEF Forget
<1>4. CASE Unresolvable \/ LookUp \/ Ask \/ Answered \/ Refused
  BY <1>4 DEF Unresolvable, LookUp, Ask, Answered, Refused, Annotate
<1>5. ASSUME NEW c, StopContainer(c) PROVE inherited' \in BOOLEAN
  BY <1>5 DEF StopContainer
<1>6. CASE KillContainer
  BY <1>5, <1>6 DEF KillContainer
<1>7. CASE KillProcess
  <2>1. UNCHANGED <<docker, shifted, mixed>>
    BY <1>7 DEF KillProcess
  <2>2. inherited' \in BOOLEAN
    BY <1>7 DEF KillProcess
  <2> QED BY <2>1, <2>2
<1>8. CASE NeutralizeFails
  BY <1>8 DEF NeutralizeFails
<1>9. CASE NoKey \/ NoMatch \/ PanelFails \/ Suspend
  BY <1>9 DEF NoKey, NoMatch, PanelFails, Suspend, Quit
<1>10. CASE StartWalk \/ FoundOnPage \/ NextPage
  BY <1>10 DEF StartWalk, FoundOnPage, NextPage
<1>11. CASE Finish
  BY <1>11 DEF Finish, Finished
<1>12. CASE Exit
  <2>1. UNCHANGED <<docker, shifted, mixed>>
    BY <1>12 DEF Exit
  <2>2. inherited' \in BOOLEAN
    BY <1>12 DEF Exit
  <2> QED BY <2>1, <2>2
<1>13. CASE Tick
  BY <1>13 DEF Tick
<1>14. ASSUME NEW c \in Containers, RateFinding(c) \/ Join(c) \/ Start(c) PROVE FlagsOK'
  BY <1>14 DEF RateFinding, Join, Start
<1>15. ASSUME NEW c \in Containers, Stop(c) PROVE FlagsOK'
  BY <1>5, <1>15 DEF Stop
<1>16. ASSUME NEW box \in Containers \cup {NoBox}, Fork(box) PROVE FlagsOK'
  BY <1>16 DEF Fork
<1>17. ASSUME NEW s \in Servers, Create(s) PROVE FlagsOK'
  BY <1>17 DEF Create
<1>18. ASSUME NEW s \in Servers, Delete(s) PROVE FlagsOK'
  BY <1>18 DEF Delete
<1>19. CASE UNCHANGED vars
  BY <1>19 DEF vars
<1> QED
  BY <1>1, <1>2, <1>3, <1>4, <1>6, <1>7, <1>8, <1>9, <1>10, <1>11, <1>12, <1>13,
     <1>14, <1>15, <1>16, <1>17, <1>18, <1>19 DEF Next

Parts == MachineOK /\ CacheOK /\ MemoryOK /\ WalkOK /\ FindingOK /\ HandOK

LEMMA NextParts == Parts /\ [Next]_vars => Parts'
<1> SUFFICES ASSUME Parts, [Next]_vars PROVE Parts'
  OBVIOUS
<1> USE SameMachine, SameCache, SameMemory, SameWalk, SameFinding, SameHand
        DEF Parts, machine, scans, walk, hand
<1>1. CASE ListProcess
  <2>1. tenant.runs /\ tenant' = [tenant EXCEPT !.found = TRUE]
    BY <1>1 DEF ListProcess
  <2>2. tenant' \in Tenants /\ tenant'.box = tenant.box
    BY <2>1 DEF MachineOK, Tenants
  <2>3. tenant'.runs
    BY <2>1 DEF MachineOK, Tenants
  <2>4. MachineOK'
    BY <1>1, <2>2, <2>3 DEF ListProcess, MachineOK, Running
  <2>5. PICK kind \in Kinds \ {"rate"}, box \in Readings :
          finding' = [NoFinding EXCEPT !.kind = kind, !.box = box]
    BY <1>1 DEF ListProcess
  <2>6. FindingOK'
    <3>1. kind \in Kinds /\ kind # "rate" /\ box \in Containers \cup {NoBox}
      BY ReadingsAreBoxes
    <3>2. NoValue \in Strings
      BY DEF NoValue, Strings
    <3>3. finding' = [kind |-> kind, box |-> box, name |-> NoValue, server |-> NoValue]
      BY <2>5 DEF NoFinding
    <3>4. finding' \in Finding /\ finding'.kind = kind
      BY <3>1, <3>2, <3>3 DEF Finding
    <3> QED BY <3>1, <3>4 DEF FindingOK
  <2>7. HandOK'
    BY <1>1 DEF ListProcess, HandOK, Stages
  <2> QED BY <1>1, <2>4, <2>6, <2>7 DEF ListProcess
<1>2. CASE SeeConnection
  <2>1. tenant.runs /\ tenant' = [tenant EXCEPT !.found = TRUE]
    BY <1>2 DEF SeeConnection
  <2>2. tenant' \in Tenants /\ tenant'.box = tenant.box
    BY <2>1 DEF MachineOK, Tenants
  <2>3. tenant'.runs
    BY <2>1 DEF MachineOK, Tenants
  <2>4. MachineOK'
    BY <1>2, <2>2, <2>3 DEF SeeConnection, MachineOK, Running
  <2>5. PICK group \in Running \cup {NoBox} :
          finding' = [finding EXCEPT !.box = IF @ # NoBox THEN @ ELSE group]
    BY <1>2 DEF SeeConnection
  <2>6. FindingOK'
    BY <1>2, <2>5 DEF SeeConnection, FindingOK, Finding, Running
  <2>7. HandOK'
    BY <1>2 DEF SeeConnection, HandOK, Stages
  <2> QED BY <1>2, <2>4, <2>6, <2>7 DEF SeeConnection
<1>3. CASE ReportProcess
  BY <1>3 DEF ReportProcess, HandOK, Stages
<1>4. ASSUME finding.kind # "rate", NEW box \in Containers \cup {NoBox}, Report(box)
      PROVE  MachineOK' /\ CacheOK' /\ WalkOK' /\ FindingOK' /\ HandOK'
  <2>1. FindingOK'
    BY <1>4, ReportShape
  <2>2. HandOK'
    BY <1>4 DEF Report, HandOK, Stages
  <2> QED BY <1>4, <2>1, <2>2 DEF Report
<1>5. CASE ReportConnection
  <2>1. finding.box \in Containers \cup {NoBox}
    BY DEF FindingOK, Finding
  <2> QED BY <1>4, <1>5, <2>1 DEF ReportConnection
<1>6. Remembered \in Containers \cup {NoBox}
  BY DEF Remembered, MemoryOK, FindingOK, Finding
<1>7. CASE ReportScan
  <2>1. MemoryOK'
    BY <1>6, <1>7 DEF ReportScan, Remembers, MemoryOK
  <2> QED BY <1>4, <1>6, <1>7, <2>1 DEF ReportScan
<1>8. CASE Notice
  <2>1. MemoryOK'
    BY <1>6, <1>8 DEF Notice, Remembers, MemoryOK
  <2> QED BY <1>8, <2>1, FinishedShape DEF Notice
<1>9. CASE Forget
  BY <1>9 DEF Forget, MemoryOK
<1>10. ASSUME NEW known \in SUBSET Containers, Annotate(known)
       PROVE  MachineOK' /\ MemoryOK' /\ WalkOK' /\ FindingOK' /\ HandOK'
  BY <1>10, AnnotateShape DEF Annotate
<1>11. {} \in SUBSET Containers /\ cache \in SUBSET Containers /\ answer \in SUBSET Containers
  BY DEF CacheOK
<1>12. CASE Unresolvable
  BY <1>10, <1>11, <1>12 DEF Unresolvable
<1>13. CASE LookUp
  BY <1>10, <1>11, <1>13 DEF LookUp
<1>14. CASE Ask
  <2>1. CacheOK'
    BY <1>14, ResponseAssumption DEF Ask, CacheOK, Running
  <2>2. HandOK'
    BY <1>14 DEF Ask, HandOK, Stages
  <2> QED BY <1>14, <2>1, <2>2 DEF Ask
<1>15. CASE Answered
  <2>1. CacheOK'
    BY <1>15, ResponseAssumption DEF Answered, CacheOK, Fresh, Expired
  <2> QED BY <1>10, <1>11, <1>15, <2>1 DEF Answered
<1>16. CASE Refused
  <2>1. CacheOK'
    BY <1>16, ResponseAssumption DEF Refused, CacheOK
  <2> QED BY <1>10, <1>11, <1>16, <2>1 DEF Refused
<1>17. ASSUME NEW action, Done(action), UNCHANGED stage PROVE HandOK'
  BY <1>17 DEF Done, HandOK
<1>18. CASE KillContainer
  <2>1. finding.box \in Containers
    BY <1>18 DEF KillContainer, Running
  <2>2. MachineOK'
    BY <1>18, <2>1, StopShape DEF KillContainer
  <2> QED BY <1>17, <1>18, <2>2 DEF KillContainer
<1>19. CASE KillProcess
  <2>1. MachineOK'
    BY <1>19, NobodyIsATenant DEF KillProcess, MachineOK, Running
  <2> QED BY <1>17, <1>19, <2>1 DEF KillProcess
<1>20. CASE NeutralizeFails
  BY <1>17, <1>20 DEF NeutralizeFails
<1>21. ASSUME Quit, suspended' \subseteq Servers PROVE WalkOK' /\ HandOK'
  BY <1>21, QuitShape
<1>22. CASE NoKey \/ NoMatch \/ PanelFails
  <2>1. Quit /\ suspended' \subseteq Servers
    BY <1>22 DEF NoKey, NoMatch, PanelFails, WalkOK
  <2> QED BY <1>21, <1>22, <2>1 DEF NoKey, NoMatch, PanelFails
<1>23. CASE Suspend
  <2>1. Quit /\ suspended' \subseteq Servers
    BY <1>23 DEF Suspend, WalkOK
  <2> QED BY <1>21, <1>23, <2>1 DEF Suspend
<1>24. CASE StartWalk
  <2>1. WalkOK'
    BY <1>24 DEF StartWalk, WalkOK
  <2>2. HandOK'
    BY <1>24 DEF StartWalk, HandOK, Stages
  <2> QED BY <1>24, <2>1, <2>2 DEF StartWalk
<1>25. CASE FoundOnPage
  <2>1. WalkOK'
    BY <1>25 DEF FoundOnPage, Found, OnPage, WalkOK
  <2> QED BY <1>25, <2>1 DEF FoundOnPage
<1>26. CASE NextPage
  <2>1. WalkOK'
    BY <1>26 DEF NextPage, WalkOK
  <2> QED BY <1>26, <2>1 DEF NextPage
<1>27. CASE Finish
  BY <1>27, FinishedShape DEF Finish
<1>28. CASE Exit
  <2>1. MachineOK'
    BY <1>28, NobodyIsATenant DEF Exit, MachineOK, Running
  <2> QED BY <1>28, <2>1 DEF Exit
<1>29. CASE Tick
  <2>1. up' \in [Containers -> 0..MaxUp]
    BY <1>29, ResponseAssumption DEF Tick, MachineOK, OnceUp
  <2>2. Running' = Running
    BY <1>29, <2>1, ResponseAssumption DEF Tick, MachineOK, Running, OnceUp
  <2>3. MachineOK'
    BY <1>29, <2>1, <2>2 DEF Tick, MachineOK
  <2>4. CacheOK'
    BY <1>29, ResponseAssumption DEF Tick, CacheOK, Fresh, Expired
  <2> QED BY <1>29, <2>3, <2>4 DEF Tick
<1>30. ASSUME NEW c \in Containers, RateFinding(c) PROVE Parts'
  <2>1. Name[c] \in Strings /\ NoValue \in Strings /\ c # NoBox
    BY ResponseAssumption DEF Strings, NoValue
  <2>2. finding' \in Finding /\ finding'.box = c /\ docker'
    BY <1>30, <2>1 DEF RateFinding, Finding, Kinds
  <2>3. FindingOK'
    BY <2>1, <2>2 DEF FindingOK
  <2>4. HandOK'
    BY <1>30 DEF RateFinding, HandOK, Stages
  <2> QED BY <1>30, <2>3, <2>4 DEF RateFinding
<1>31. ASSUME NEW c \in Containers, Join(c) PROVE Parts'
  <2>1. tenant.runs /\ tenant' = [tenant EXCEPT !.box = c] /\ c \in Running
    BY <1>31 DEF Join
  <2>2. tenant' \in Tenants /\ tenant'.box = c
    BY <2>1 DEF MachineOK, Tenants
  <2>3. tenant'.runs
    BY <2>1 DEF MachineOK, Tenants
  <2>4. MachineOK'
    BY <1>31, <2>1, <2>2, <2>3 DEF Join, MachineOK, Running
  <2> QED BY <1>31, <2>4 DEF Join
<1>32. ASSUME NEW c \in Containers, Start(c) PROVE Parts'
  <2>1. up' \in [Containers -> 0..MaxUp] /\ Running' = Running \cup {c}
    BY <1>32, ResponseAssumption DEF Start, MachineOK, Running
  <2>2. MachineOK'
    BY <1>32, <2>1 DEF Start, MachineOK
  <2> QED BY <1>32, <2>2 DEF Start
<1>33. ASSUME NEW c \in Containers, Stop(c) PROVE Parts'
  BY <1>33, StopShape DEF Stop
<1>34. ASSUME NEW box \in Containers \cup {NoBox}, Fork(box) PROVE Parts'
  <2>1. MachineOK'
    BY <1>34 DEF Fork, MachineOK, Tenants, Running
  <2> QED BY <1>34, <2>1 DEF Fork
<1>35. ASSUME NEW s \in Servers, Create(s) PROVE Parts'
  <2>1. WalkOK'
    BY <1>35 DEF Create, WalkOK
  <2> QED BY <1>35, <2>1 DEF Create
<1>36. ASSUME NEW s \in Servers, Delete(s) PROVE Parts'
  <2>1. WalkOK'
    BY <1>36 DEF Delete, WalkOK
  <2> QED BY <1>36, <2>1 DEF Delete
<1>37. CASE UNCHANGED vars
  BY <1>37 DEF vars
<1> QED
  BY <1>1, <1>2, <1>3, <1>5, <1>7, <1>8, <1>9, <1>12, <1>13, <1>14, <1>15, <1>16, <1>18,
     <1>19, <1>20, <1>22, <1>23, <1>24, <1>25, <1>26, <1>27, <1>28, <1>29, <1>30, <1>31,
     <1>32, <1>33, <1>34, <1>35, <1>36, <1>37 DEF Next

LEMMA NextTypeInv == TypeInv /\ [Next]_vars => TypeInv'
BY NextParts, NextFlags DEF TypeInv, Parts

(* Every reachable state has the shape TypeOK describes.  It is not        *)
(* inductive: that the pid's container is running needs that a pid nobody  *)
(* has is in none.                                                         *)
THEOREM TypeCorrect == Spec => []TypeOK
BY InitTypeInv, NextTypeInv, TypeInvImplies, PTL DEF Spec

-------------------------------------------------------------------------------
(* Whom a strike hits.                                                     *)

(* Nothing is in hand, and nobody found, while the engine watches.         *)
WatchInv ==
  /\ stage = "watch" => ~tenant.found
  /\ stage = "watch" \/ stage = "listed" => ~mixed

(* The container of a finding about one process is that process's.         *)
HeldInv == tenant.found /\ ~mixed => finding.box \in {NoBox, tenant.box}

(* A container remembered from the process that still has the pid is its.  *)
MemoryInv == memory # NoBox /\ ~inherited => tenant.runs /\ memory = tenant.box

FoundInv == WatchInv /\ HeldInv /\ MemoryInv

LEMMA InitFoundInv == Init => FoundInv
BY DEF Init, FoundInv, WatchInv, HeldInv, MemoryInv, Nobody

LEMMA SameWatch ==
  WatchInv /\ UNCHANGED <<stage, mixed, tenant>> => WatchInv'
BY DEF WatchInv

LEMMA SameHeld ==
  HeldInv /\ UNCHANGED <<finding, mixed, tenant>> => HeldInv'
BY DEF HeldInv

LEMMA SameMemoryInv ==
  MemoryInv /\ UNCHANGED <<memory, inherited, tenant>> => MemoryInv'
BY DEF MemoryInv

(* When the pid is let go, whatever is in hand is about somebody else.     *)
LEMMA LetGo ==
  ASSUME FoundInv, tenant' = Nobody, inherited' = (inherited \/ memory # NoBox),
         UNCHANGED <<memory, stage, finding, mixed>>
  PROVE  FoundInv'
<1>1. ~tenant'.found /\ ~tenant'.runs
  BY NobodyIsATenant
<1>2. WatchInv' /\ HeldInv'
  BY <1>1 DEF FoundInv, WatchInv, HeldInv
<1>3. memory' # NoBox => inherited'
  OBVIOUS
<1>4. MemoryInv'
  BY <1>3 DEF MemoryInv
<1> QED BY <1>2, <1>4 DEF FoundInv

LEMMA StopLetsGo ==
  ASSUME FoundInv, NEW c, StopContainer(c), UNCHANGED <<memory, stage, finding, mixed>>
  PROVE  FoundInv'
<1>1. CASE tenant.runs /\ tenant.box = c
  <2>1. tenant' = Nobody
    BY <1>1 DEF StopContainer
  <2>2. inherited' = (inherited \/ memory # NoBox)
    BY <1>1 DEF StopContainer
  <2> QED BY <2>1, <2>2, LetGo
<1>2. CASE ~(tenant.runs /\ tenant.box = c)
  <2>1. UNCHANGED <<tenant, inherited>>
    BY <1>2 DEF StopContainer
  <2> QED BY <2>1 DEF FoundInv, WatchInv, HeldInv, MemoryInv
<1> QED BY <1>1, <1>2

(* What the detector remembers of this connection or of an earlier one.    *)
LEMMA RemembersWhose ==
  ASSUME MachineOK, FoundInv, Remembers, tenant'.box = tenant.box, tenant'.runs = tenant.runs
  PROVE  MemoryInv'
<1>1. CASE memory # NoBox
  BY <1>1 DEF Remembers, Remembered, FoundInv, MemoryInv
<1>2. CASE memory = NoBox
  <2> SUFFICES ASSUME memory' # NoBox, ~inherited'
               PROVE  tenant.runs /\ memory' = tenant.box
    BY DEF MemoryInv
  <2>1. memory' = finding.box /\ finding.box # NoBox
    BY <1>2 DEF Remembers, Remembered
  <2>2. tenant.found /\ ~mixed
    BY <1>2, <2>1 DEF Remembers
  <2>3. tenant.runs
    BY <2>2 DEF MachineOK
  <2>4. finding.box = tenant.box
    BY <2>1, <2>2 DEF FoundInv, HeldInv
  <2> QED BY <2>1, <2>3, <2>4
<1> QED BY <1>1, <1>2

LEMMA FinishedFinds ==
  ASSUME MachineOK, Finished
  PROVE  WatchInv' /\ HeldInv' /\ tenant'.box = tenant.box /\ tenant'.runs = tenant.runs
<1>1. tenant' = [tenant EXCEPT !.found = FALSE]
  BY DEF Finished
<1>2. tenant'.box = tenant.box
  BY <1>1 DEF MachineOK, Tenants
<1>3. tenant'.runs = tenant.runs
  BY <1>1 DEF MachineOK, Tenants
<1>4. ~tenant'.found
  BY <1>1 DEF MachineOK, Tenants
<1>5. ~mixed'
  BY DEF Finished
<1> QED BY <1>2, <1>3, <1>4, <1>5 DEF WatchInv, HeldInv

LEMMA NextFoundInv == TypeInv /\ FoundInv /\ [Next]_vars => FoundInv'
<1> SUFFICES ASSUME TypeInv, FoundInv, [Next]_vars PROVE FoundInv'
  OBVIOUS
<1> USE DEF machine, scans, walk, hand
<1>0. MachineOK
  BY DEF TypeInv
<1>1. ASSUME UNCHANGED <<tenant, memory, inherited, mixed>>, finding'.box = finding.box,
             stage' \notin {"watch", "listed"} \/ UNCHANGED stage
      PROVE  FoundInv'
  BY <1>1 DEF FoundInv, WatchInv, HeldInv, MemoryInv
<1>2. CASE ListProcess
  <2>1. tenant.runs /\ tenant' = [tenant EXCEPT !.found = TRUE] /\ UNCHANGED <<memory, inherited>>
    BY <1>2 DEF ListProcess
  <2>2. tenant'.box = tenant.box
    BY <1>0, <2>1 DEF MachineOK, Tenants
  <2>3. tenant'.runs
    BY <1>0, <2>1 DEF MachineOK, Tenants
  <2>4. MemoryInv'
    BY <2>1, <2>2, <2>3 DEF FoundInv, MemoryInv
  <2>5. WatchInv'
    BY <1>2 DEF ListProcess, FoundInv, WatchInv
  <2>6. finding'.box \in {NoBox, tenant'.box}
    BY <1>2, <2>2 DEF ListProcess, NoFinding, Readings
  <2> QED BY <2>4, <2>5, <2>6 DEF FoundInv, HeldInv
<1>3. CASE SeeConnection
  <2>1. tenant.runs /\ tenant' = [tenant EXCEPT !.found = TRUE] /\ UNCHANGED <<memory, inherited>>
    BY <1>3 DEF SeeConnection
  <2>2. tenant'.box = tenant.box
    BY <1>0, <2>1 DEF MachineOK, Tenants
  <2>3. tenant'.runs
    BY <1>0, <2>1 DEF MachineOK, Tenants
  <2>4. MemoryInv'
    BY <2>1, <2>2, <2>3 DEF FoundInv, MemoryInv
  <2>5. WatchInv'
    BY <1>3 DEF SeeConnection, WatchInv
  <2>6. ~mixed' => tenant.found
    BY <1>3 DEF SeeConnection
  <2>7. ~mixed
    BY <1>3 DEF SeeConnection, FoundInv, WatchInv
  <2>8. ASSUME ~mixed' PROVE finding.box \in {NoBox, tenant.box}
    BY <2>6, <2>7, <2>8 DEF FoundInv, HeldInv
  <2>9. PICK group \in Running \cup {NoBox} :
          /\ finding' = [finding EXCEPT !.box = IF @ # NoBox THEN @ ELSE group]
          /\ mixed' = (~tenant.found \/ (finding.box = NoBox /\ group \notin Readings))
    BY <1>3 DEF SeeConnection
  <2>10. finding'.box = IF finding.box # NoBox THEN finding.box ELSE group
    BY <2>9 DEF TypeInv, FindingOK, Finding
  <2>11. ASSUME ~mixed', finding.box = NoBox PROVE group \in {NoBox, tenant.box}
    BY <2>9, <2>11 DEF Readings
  <2>12. HeldInv'
    BY <2>2, <2>8, <2>10, <2>11 DEF HeldInv
  <2> QED BY <2>4, <2>5, <2>12 DEF FoundInv
<1>4. CASE ReportProcess
  BY <1>1, <1>4 DEF ReportProcess
<1>5. ASSUME NEW box, Report(box)
      PROVE  /\ stage' = "reported" /\ UNCHANGED tenant
             /\ \/ finding'.box = box
                \/ finding'.box = NoBox
                \/ tenant.runs /\ finding'.box = tenant.box
  <2>1. stage' = "reported" /\ UNCHANGED tenant
    BY <1>5 DEF Report
  <2>2. PICK read \in BoxNow : finding' = [finding EXCEPT !.box = IF box # NoBox THEN box ELSE read]
    BY <1>5 DEF Report
  <2>3. finding'.box = IF box # NoBox THEN box ELSE read
    BY <2>2 DEF TypeInv, FindingOK, Finding
  <2>4. CASE read = NoBox
    BY <2>1, <2>3, <2>4
  <2>5. CASE read # NoBox
    <3>1. tenant.runs
      BY <2>5 DEF BoxNow
    <3>2. read = tenant.box
      BY <2>5 DEF BoxNow, Readings
    <3>3. finding'.box = box \/ finding'.box = tenant.box
      BY <2>3, <3>2
    <3> QED BY <2>1, <3>1, <3>3
  <2> QED BY <2>4, <2>5
<1>6. CASE ReportConnection
  BY <1>5, <1>6 DEF ReportConnection, FoundInv, WatchInv, HeldInv, MemoryInv
<1>7. CASE ReportScan
  <2>1. MemoryInv'
    BY <1>0, <1>5, <1>7, RemembersWhose DEF ReportScan
  <2>2. WatchInv'
    BY <1>5, <1>7 DEF ReportScan, WatchInv
  <2>3. CASE memory # NoBox
    <3>1. Remembered = memory /\ (~mixed' => ~inherited)
      BY <1>7, <2>3 DEF ReportScan, Remembered
    <3>2. ~mixed' => Remembered = tenant.box
      BY <2>3, <3>1 DEF FoundInv, MemoryInv
    <3> QED BY <1>5, <1>7, <2>1, <2>2, <3>2 DEF ReportScan, FoundInv, HeldInv
  <2>4. CASE memory = NoBox
    <3>1. Remembered = finding.box /\ (~mixed' => ~mixed)
      BY <1>7, <2>4 DEF ReportScan, Remembered
    <3>2. tenant.found /\ ~mixed' => Remembered \in {NoBox, tenant.box}
      BY <3>1 DEF FoundInv, HeldInv
    <3> QED BY <1>5, <1>7, <2>1, <2>2, <3>2 DEF ReportScan, FoundInv, HeldInv
  <2> QED BY <2>3, <2>4
<1>8. CASE Notice
  BY <1>0, <1>8, FinishedFinds, RemembersWhose DEF Notice, FoundInv
<1>9. CASE Forget
  BY <1>9, SameWatch, SameHeld DEF Forget, FoundInv, MemoryInv
<1>10. ASSUME NEW known, Annotate(known) PROVE FoundInv'
  <2>1. finding'.box = finding.box
    BY <1>10 DEF Annotate, TypeInv, FindingOK, Finding
  <2> QED BY <1>1, <1>10, <2>1 DEF Annotate
<1>11. CASE Unresolvable \/ LookUp \/ Answered \/ Refused
  BY <1>10, <1>11 DEF Unresolvable, LookUp, Answered, Refused
<1>12. CASE Ask
  BY <1>1, <1>12 DEF Ask
<1>13. CASE KillContainer
  BY <1>13, StopLetsGo DEF KillContainer
<1>14. CASE KillProcess
  <2>1. tenant' = Nobody
    BY <1>14 DEF KillProcess
  <2>2. inherited' = (inherited \/ memory # NoBox)
    BY <1>14 DEF KillProcess
  <2>3. UNCHANGED <<memory, stage, finding, mixed>>
    BY <1>14 DEF KillProcess
  <2> QED BY <2>1, <2>2, <2>3, LetGo
<1>15. CASE NeutralizeFails
  BY <1>1, <1>15 DEF NeutralizeFails
<1>16. CASE NoKey \/ NoMatch \/ PanelFails \/ Suspend
  BY <1>1, <1>16 DEF NoKey, NoMatch, PanelFails, Suspend, Quit
<1>17. CASE StartWalk \/ FoundOnPage \/ NextPage
  BY <1>1, <1>17 DEF StartWalk, FoundOnPage, NextPage
<1>18. CASE Finish
  BY <1>0, <1>18, FinishedFinds DEF Finish, FoundInv, MemoryInv
<1>19. CASE Exit
  <2>1. tenant' = Nobody
    BY <1>19 DEF Exit
  <2>2. inherited' = (inherited \/ memory # NoBox)
    BY <1>19 DEF Exit
  <2>3. UNCHANGED <<memory, stage, finding, mixed>>
    BY <1>19 DEF Exit
  <2> QED BY <2>1, <2>2, <2>3, LetGo
<1>20. CASE Tick
  BY <1>1, <1>20 DEF Tick
<1>21. ASSUME NEW c \in Containers, RateFinding(c) PROVE FoundInv'
  <2>1. stage = "watch" /\ stage' = "reported" /\ UNCHANGED <<tenant, scans, mixed>>
    BY <1>21 DEF RateFinding
  <2> QED BY <2>1, SameMemoryInv DEF FoundInv, WatchInv, HeldInv
<1>22. ASSUME NEW c \in Containers, Join(c) PROVE FoundInv'
  <2>1. tenant' = [tenant EXCEPT !.box = c] /\ tenant.box = NoBox
    BY <1>22 DEF Join
  <2>2. tenant'.box = c
    BY <1>0, <2>1 DEF MachineOK, Tenants
  <2>3. tenant'.found => tenant.found
    BY <1>0, <2>1 DEF MachineOK, Tenants
  <2>4. UNCHANGED <<stage, finding, mixed, memory, inherited>>
    BY <1>22 DEF Join
  <2>5. WatchInv'
    BY <2>3, <2>4 DEF FoundInv, WatchInv
  <2>6. HeldInv'
    BY <2>1, <2>3, <2>4 DEF FoundInv, HeldInv
  <2>7. MemoryInv'
    BY <2>1, <2>4 DEF FoundInv, MemoryInv
  <2> QED BY <2>5, <2>6, <2>7 DEF FoundInv
<1>23. ASSUME NEW c \in Containers, Stop(c) PROVE FoundInv'
  BY <1>23, StopLetsGo DEF Stop
<1>24. ASSUME NEW box \in Containers \cup {NoBox}, Fork(box) PROVE FoundInv'
  <2>1. ~tenant.runs
    BY <1>24 DEF Fork
  <2>2. ~tenant'.found
    BY <1>24 DEF Fork
  <2>3. UNCHANGED <<stage, finding, mixed, memory, inherited>>
    BY <1>24 DEF Fork
  <2> QED BY <2>1, <2>2, <2>3 DEF FoundInv, WatchInv, HeldInv, MemoryInv
<1>25. ASSUME NEW c \in Containers, Start(c) PROVE FoundInv'
  BY <1>1, <1>25 DEF Start
<1>26. ASSUME NEW s \in Servers, Create(s) \/ Delete(s) PROVE FoundInv'
  BY <1>1, <1>26 DEF Create, Delete
<1>27. CASE UNCHANGED vars
  BY <1>1, <1>27 DEF vars
<1> QED
  BY <1>2, <1>3, <1>4, <1>6, <1>7, <1>8, <1>9, <1>11, <1>12, <1>13, <1>14, <1>15, <1>16,
     <1>17, <1>18, <1>19, <1>20, <1>21, <1>22, <1>23, <1>24, <1>25, <1>26, <1>27 DEF Next

(* A strike of the moment: if there is somebody found left to hit, and the *)
(* finding is about nobody else, it takes the pid from him.                *)
LEMMA StrikesTheFound ==
  ASSUME TypeInv, FoundInv, KillContainer \/ KillProcess, tenant.found, ~mixed
  PROVE  ~tenant'.runs
<1>1. CASE KillProcess
  BY <1>1, NobodyIsATenant DEF KillProcess
<1>2. CASE KillContainer
  <2>1. finding.box \in Containers /\ StopContainer(finding.box)
    BY <1>2 DEF KillContainer, Running
  <2>2. finding.box = tenant.box
    BY <2>1, ResponseAssumption DEF FoundInv, HeldInv
  <2>3. tenant.runs
    BY DEF TypeInv, MachineOK
  <2> QED BY <2>1, <2>2, <2>3, NobodyIsATenant DEF StopContainer
<1> QED BY <1>1, <1>2

(* Whatever is struck, a found process that is still there is hit, unless  *)
(* the finding was put together from two.                                  *)
THEOREM StrikesHit == Spec => StrikeHitsTheFound
<1>1. TypeInv /\ FoundInv /\ [Next]_vars =>
        [(KillContainer \/ KillProcess) /\ tenant.found /\ ~mixed => ~tenant'.runs]_vars
  BY StrikesTheFound
<1> QED
  BY <1>1, InitTypeInv, NextTypeInv, InitFoundInv, NextFoundInv, PTL
     DEF Spec, StrikeHitsTheFound

-------------------------------------------------------------------------------
(* Which containers the resolver knows.                                    *)

(* Docker's list misses at most what came up after it was made, *)
AnswerInv ==
  stage = "asking" =>
    /\ finding.box \in Containers
    /\ \A c \in Containers : up[c] > waited + 1 => c \in answer

(* and the cache what came up after the list it was filled from.           *)
CacheInv ==
  age <= TTL => \A c \in Containers : up[c] > age + Latency + 1 => c \in cache

KnownInv == AnswerInv /\ CacheInv

LEMMA InitKnownInv == Init => KnownInv
BY ResponseAssumption DEF Init, KnownInv, AnswerInv, CacheInv, Expired

(* Containers that are started or stopped were never up for long.          *)
LEMMA YoungContainers ==
  ASSUME TypeInv, KnownInv, UNCHANGED <<stage, finding, cached>>,
         \A c \in Containers : up'[c] = up[c] \/ up'[c] \in {0, 1}
  PROVE  KnownInv'
<1>1. waited \in Nat /\ age \in Nat /\ Latency \in Nat
  BY ResponseAssumption DEF TypeInv, CacheOK, Fresh, Expired
<1>2. up \in [Containers -> Int]
  BY ResponseAssumption DEF TypeInv, MachineOK
<1>3. AnswerInv'
  BY <1>1, <1>2 DEF KnownInv, AnswerInv, cached
<1>4. CacheInv'
  BY <1>1, <1>2 DEF KnownInv, CacheInv, cached
<1> QED BY <1>3, <1>4 DEF KnownInv

LEMMA NextKnownInv == TypeInv /\ KnownInv /\ [Next]_vars => KnownInv'
<1> SUFFICES ASSUME TypeInv, KnownInv, [Next]_vars PROVE KnownInv'
  OBVIOUS
<1> USE DEF machine, scans, walk, hand
<1>1. ASSUME UNCHANGED <<up, cached>>, stage' # "asking" PROVE KnownInv'
  BY <1>1 DEF KnownInv, AnswerInv, CacheInv, cached
<1>2. ASSUME UNCHANGED <<up, cached, stage, finding>> PROVE KnownInv'
  BY <1>2, YoungContainers
<1>3. CASE ListProcess \/ SeeConnection \/ ReportProcess \/ ReportConnection \/ ReportScan
  BY <1>1, <1>3
     DEF ListProcess, SeeConnection, ReportProcess, ReportConnection, ReportScan, Report
<1>4. CASE Notice \/ Finish
  BY <1>1, <1>4 DEF Notice, Finish, Finished
<1>5. CASE Forget
  BY <1>2, <1>5 DEF Forget
<1>6. CASE Unresolvable \/ LookUp
  BY <1>1, <1>6 DEF Unresolvable, LookUp, Annotate
<1>7. CASE Ask
  <2>1. UNCHANGED <<up, cache, age, finding>> /\ answer' = Running /\ waited' = 0 /\ Resolvable
    BY <1>7 DEF Ask
  <2>2. CacheInv'
    BY <2>1 DEF KnownInv, CacheInv
  <2>3. finding'.box \in Containers
    BY <2>1 DEF Resolvable, TypeInv, FindingOK, Finding
  <2>4. up \in [Containers -> Int]
    BY ResponseAssumption DEF TypeInv, MachineOK
  <2>5. \A c \in Containers : up'[c] > waited' + 1 => c \in answer'
    BY <2>1, <2>4 DEF Running
  <2> QED BY <2>2, <2>3, <2>5 DEF KnownInv, AnswerInv
<1>8. CASE Answered
  <2>1. stage = "asking" /\ cache' = answer /\ age' = 0 /\ stage' = "acting" /\ UNCHANGED up
    BY <1>8 DEF Answered, Annotate, Fresh
  <2>2. waited \in 0..Latency /\ Latency \in Nat /\ up \in [Containers -> Int]
    BY ResponseAssumption DEF TypeInv, CacheOK, MachineOK
  <2>3. CacheInv'
    BY <2>1, <2>2 DEF KnownInv, AnswerInv, CacheInv
  <2> QED BY <2>1, <2>3 DEF KnownInv, AnswerInv
<1>9. CASE Refused
  BY <1>9 DEF Refused, Annotate, KnownInv, AnswerInv, CacheInv
<1>10. ASSUME NEW c, StopContainer(c), UNCHANGED <<cached, stage, finding>> PROVE KnownInv'
  <2>1. \A d \in Containers : up'[d] = up[d] \/ up'[d] \in {0, 1}
    BY <1>10 DEF StopContainer, TypeInv, MachineOK
  <2> QED BY <1>10, <2>1, YoungContainers
<1>11. CASE KillContainer
  BY <1>10, <1>11 DEF KillContainer
<1>12. CASE KillProcess \/ NeutralizeFails \/ FoundOnPage \/ NextPage \/ Exit
  BY <1>2, <1>12 DEF KillProcess, NeutralizeFails, FoundOnPage, NextPage, Exit
<1>13. CASE NoKey \/ NoMatch \/ PanelFails \/ Suspend \/ StartWalk
  BY <1>1, <1>13 DEF NoKey, NoMatch, PanelFails, Suspend, StartWalk, Quit
<1>14. CASE Tick
  <2>1. waited \in Nat /\ age \in Nat /\ Latency \in Nat /\ TTL \in Nat /\ MaxUp \in Nat
        /\ up \in [Containers -> Int]
    BY ResponseAssumption DEF TypeInv, CacheOK, MachineOK, Fresh, Expired
  <2>2. \A c \in Containers : up'[c] <= up[c] + 1 \/ up'[c] = 0
    BY <1>14, <2>1 DEF Tick, OnceUp
  <2>3. up' \in [Containers -> Int]
    BY <1>14, <2>1 DEF Tick, OnceUp
  <2>4. AnswerInv'
    <3> SUFFICES ASSUME stage' = "asking" PROVE AnswerInv'
      BY DEF AnswerInv
    <3>1. waited' = waited + 1 /\ UNCHANGED <<stage, finding, answer>> /\ stage = "asking"
      BY <1>14 DEF Tick
    <3> QED BY <2>1, <2>2, <2>3, <3>1 DEF KnownInv, AnswerInv
  <2>5. CacheInv'
    <3> SUFFICES ASSUME age' <= TTL PROVE CacheInv'
      BY DEF CacheInv
    <3>1. age <= TTL /\ age' = age + 1 /\ UNCHANGED cache
      BY <1>14, <2>1 DEF Tick
    <3> QED BY <2>1, <2>2, <2>3, <3>1 DEF KnownInv, CacheInv
  <2> QED BY <2>4, <2>5 DEF KnownInv
<1>15. ASSUME NEW c \in Containers, RateFinding(c) PROVE KnownInv'
  BY <1>1, <1>15 DEF RateFinding
<1>16. ASSUME NEW c \in Containers, Join(c) PROVE KnownInv'
  BY <1>2, <1>16 DEF Join
<1>17. ASSUME NEW c \in Containers, Start(c) PROVE KnownInv'
  <2>1. \A d \in Containers : up'[d] = up[d] \/ up'[d] \in {0, 1}
    BY <1>17 DEF Start, TypeInv, MachineOK
  <2> QED BY <1>17, <2>1, YoungContainers DEF Start
<1>18. ASSUME NEW c \in Containers, Stop(c) PROVE KnownInv'
  BY <1>10, <1>18 DEF Stop
<1>19. ASSUME NEW box \in Containers \cup {NoBox}, Fork(box) PROVE KnownInv'
  BY <1>2, <1>19 DEF Fork
<1>20. ASSUME NEW s \in Servers, Create(s) \/ Delete(s) PROVE KnownInv'
  BY <1>2, <1>20 DEF Create, Delete
<1>21. CASE UNCHANGED vars
  BY <1>2, <1>21 DEF vars
<1> QED
  BY <1>3, <1>4, <1>5, <1>6, <1>7, <1>8, <1>9, <1>11, <1>12, <1>13, <1>14, <1>15, <1>16,
     <1>17, <1>18, <1>19, <1>20, <1>21 DEF Next

(* Every container has something to suspend a server by.                   *)
LEMMA PteroServerUUIDIsAKey ==
  ASSUME NEW c \in Containers
  PROVE  PteroServerUUID(c) \in Strings \ {NoValue}
BY ResponseAssumption DEF PteroServerUUID

LEMMA AnnotateKnown ==
  ASSUME TypeInv, NEW known \in SUBSET Containers, finding.box \in known, Annotate(known)
  PROVE  finding'.server # NoValue
<1>1. finding'.server = PteroServerUUID(finding.box)
  BY DEF Annotate, TypeInv, FindingOK, Finding
<1> QED BY <1>1, PteroServerUUIDIsAKey

(* The caches never miss a container that has been up for as long as they  *)
(* and Docker's answer take.                                               *)
THEOREM SettledAreKnown == Spec => SettledContainersAreKnown
<1>1. ASSUME TypeInv, KnownInv, LookUp \/ Answered, up[finding.box] > TTL + Latency + 1
      PROVE  finding'.server # NoValue
  <2>1. waited \in 0..Latency /\ age \in Nat /\ Latency \in Nat /\ TTL \in Nat
    BY <1>1, ResponseAssumption DEF TypeInv, CacheOK, Fresh, Expired
  <2>4. up \in [Containers -> Int]
    BY <1>1, ResponseAssumption DEF TypeInv, MachineOK
  <2>5. cache \in SUBSET Containers /\ answer \in SUBSET Containers
    BY <1>1 DEF TypeInv, CacheOK
  <2>2. CASE LookUp
    <3>1. finding.box \in Containers /\ age <= TTL /\ Annotate(cache)
      BY <1>1, <2>2 DEF LookUp, Resolvable, TypeInv, FindingOK, Finding
    <3>2. up[finding.box] > age + Latency + 1
      <4>1. up[finding.box] \in Int
        BY <2>4, <3>1
      <4> QED BY <1>1, <2>1, <3>1, <4>1
    <3>3. finding.box \in cache
      BY <1>1, <3>1, <3>2 DEF KnownInv, CacheInv
    <3> QED BY <1>1, <2>5, <3>1, <3>3, AnnotateKnown
  <2>3. CASE Answered
    <3>1. stage = "asking" /\ Annotate(answer)
      BY <2>3 DEF Answered
    <3>2. finding.box \in Containers /\ (up[finding.box] > waited + 1 => finding.box \in answer)
      BY <1>1, <3>1 DEF KnownInv, AnswerInv
    <3>3. finding.box \in answer
      <4>1. up[finding.box] \in Int
        BY <2>4, <3>2
      <4> QED BY <1>1, <2>1, <3>2, <4>1
    <3> QED BY <1>1, <2>5, <3>1, <3>3, AnnotateKnown
  <2> QED BY <1>1, <2>2, <2>3
<1>2. TypeInv /\ KnownInv /\ [Next]_vars =>
        [(LookUp \/ Answered) /\ up[finding.box] > TTL + Latency + 1
           => finding'.server # NoValue]_vars
  BY <1>1
<1> QED
  BY <1>2, InitTypeInv, NextTypeInv, InitKnownInv, NextKnownInv, PTL
     DEF Spec, SettledContainersAreKnown

-------------------------------------------------------------------------------
(* Prefixes and keys.                                                      *)

LEMMA PrefixAt ==
  ASSUME NEW s \in Strings, NEW t \in Strings
  PROVE  IsPrefix(s, t) <=> Len(s) <= Len(t) /\ \A i \in 1..Len(s) : s[i] = t[i]
<1>1. Len(s) \in Nat /\ Len(t) \in Nat
  BY DEF Strings
<1>2. SubSeq(s, 1, Len(s)) = [i \in 1..Len(s) |-> s[i]]
  BY DEF Strings
<1>3. ASSUME Len(s) <= Len(t)
      PROVE  SubSeq(t, 1, Len(s)) = [i \in 1..Len(s) |-> t[i]]
  BY <1>3, <1>1 DEF Strings
<1> QED BY <1>1, <1>2, <1>3 DEF IsPrefix

LEMMA PrefixReflexive ==
  ASSUME NEW s \in Strings PROVE IsPrefix(s, s)
<1>1. Len(s) \in Nat
  BY DEF Strings
<1> QED BY <1>1, PrefixAt

LEMMA PrefixTransitive ==
  ASSUME NEW s \in Strings, NEW t \in Strings, NEW u \in Strings, IsPrefix(s, t), IsPrefix(t, u)
  PROVE  IsPrefix(s, u)
<1>1. Len(s) \in Nat /\ Len(t) \in Nat /\ Len(u) \in Nat
  BY DEF Strings
<1>2. Len(s) <= Len(t) /\ \A i \in 1..Len(s) : s[i] = t[i]
  BY PrefixAt
<1>3. Len(t) <= Len(u) /\ \A i \in 1..Len(t) : t[i] = u[i]
  BY PrefixAt
<1>4. Len(s) <= Len(u) /\ \A i \in 1..Len(s) : s[i] = u[i]
  BY <1>1, <1>2, <1>3
<1> QED BY <1>4, PrefixAt

(* With WingsNames and UuidsTellApart a key of one server is the key of no *)
(* other.                                                                  *)
LEMMA KeysTellApart ==
  ASSUME UuidsTellApart, NEW s \in Servers, NEW t \in Servers,
         NEW key \in {Uuid[s], Ident[s]}, Matches(key, t)
  PROVE  s = t
<1>1. Uuid[s] \in Strings /\ Ident[s] \in Strings /\ Uuid[t] \in Strings /\ Ident[t] \in Strings
  BY ResponseAssumption
<1>2. IsPrefix(Ident[s], Uuid[s]) /\ IsPrefix(Ident[t], Uuid[t])
  BY DEF UuidsTellApart
<1>3. IsPrefix(Ident[s], Uuid[t]) \/ IsPrefix(Ident[t], Uuid[s])
  <2>1. IsPrefix(key, Uuid[t]) \/ IsPrefix(Ident[t], key)
    BY <1>1, PrefixReflexive DEF Matches
  <2>2. CASE key = Uuid[s]
    BY <1>1, <1>2, <2>1, <2>2, PrefixTransitive
  <2>3. CASE key = Ident[s]
    BY <1>1, <1>2, <2>1, <2>3, PrefixTransitive
  <2> QED BY <2>2, <2>3
<1> QED BY <1>3 DEF UuidsTellApart

-------------------------------------------------------------------------------
(* Whom a suspension hits.                                                 *)

(* The name and the server of a finding are those of its container,        *)
NamedInv ==
  /\ finding.name # NoValue \/ finding.server # NoValue => finding.box \in Containers
  /\ finding.name # NoValue => finding.name = Name[finding.box]
  /\ finding.server # NoValue => finding.server = PteroServerUUID(finding.box)

(* and unknown until it is reported;                                       *)
UnnamedInv ==
  stage \in {"watch", "listed", "captured"} =>
    finding.name = NoValue /\ finding.server = NoValue

(* what the walk found and what was suspended matches the finding's key.   *)
TargetInv ==
  /\ stage = "walking" => SuspendKey # NoValue
  /\ target # NoServer => stage = "walking" /\ Matches(SuspendKey, target)
  /\ suspended # {} => stage \in {"acting", "walking"} /\ SuspendKey # NoValue
  /\ \A s \in suspended : Matches(SuspendKey, s)

KeyInv == NamedInv /\ UnnamedInv /\ TargetInv

LEMMA InitKeyInv == Init => KeyInv
BY DEF Init, KeyInv, NamedInv, UnnamedInv, TargetInv, NoFinding

(* Before the actions are run nothing is targeted or suspended.            *)
LEMMA NothingHitYet ==
  ASSUME KeyInv, stage \notin {"acting", "walking"}, UNCHANGED <<target, suspended>>,
         stage' # "walking"
  PROVE  TargetInv'
<1>1. target = NoServer /\ suspended = {}
  BY DEF KeyInv, TargetInv
<1> QED BY <1>1 DEF TargetInv

LEMMA SameKey ==
  ASSUME KeyInv, UNCHANGED <<stage, finding, target, suspended>>
  PROVE  KeyInv'
BY DEF KeyInv, NamedInv, UnnamedInv, TargetInv, SuspendKey

LEMMA FinishedKey == Finished => KeyInv'
BY DEF Finished, KeyInv, NamedInv, UnnamedInv, TargetInv, NoFinding

LEMMA AnnotateKey ==
  ASSUME TypeInv, KeyInv, stage \notin {"acting", "walking"},
         NEW known \in SUBSET Containers, Annotate(known)
  PROVE  KeyInv'
<1>1. stage' = "acting" /\ UNCHANGED <<target, suspended>>
  BY DEF Annotate, walk
<1>2. TargetInv' /\ UnnamedInv'
  BY <1>1, NothingHitYet DEF UnnamedInv
<1>3. NamedInv'
  <2>1. CASE finding.box \in known
    <3>1. finding' = [finding EXCEPT !.name = Name[finding.box],
                                     !.server = PteroServerUUID(finding.box)]
      BY <2>1 DEF Annotate
    <3>2. finding'.box = finding.box /\ finding'.name = Name[finding.box]
          /\ finding'.server = PteroServerUUID(finding.box)
      BY <3>1 DEF TypeInv, FindingOK, Finding
    <3>3. PteroServerUUID(finding.box)' = PteroServerUUID(finding'.box)
      BY DEF PteroServerUUID
    <3> QED BY <2>1, <3>2 DEF NamedInv, PteroServerUUID
  <2>2. CASE finding.box \notin known
    BY <2>2 DEF Annotate, KeyInv, NamedInv, PteroServerUUID
  <2> QED BY <2>1, <2>2
<1> QED BY <1>2, <1>3 DEF KeyInv

(* An action is done, and nothing but the target given up.                 *)
LEMMA QuitKey ==
  ASSUME KeyInv, Quit, stage \in {"acting", "walking"}, UNCHANGED <<finding, suspended>>
  PROVE  KeyInv'
BY DEF Quit, KeyInv, NamedInv, UnnamedInv, TargetInv, SuspendKey, PteroServerUUID

LEMMA NextKeyInv == TypeInv /\ KeyInv /\ [Next]_vars => KeyInv'
<1> SUFFICES ASSUME TypeInv, KeyInv, [Next]_vars PROVE KeyInv'
  OBVIOUS
<1> USE DEF machine, scans, walk, hand
<1>1. CASE ListProcess
  <2>1. TargetInv'
    BY <1>1, NothingHitYet DEF ListProcess
  <2>2. finding'.name = NoValue /\ finding'.server = NoValue
    BY <1>1 DEF ListProcess, NoFinding
  <2> QED BY <2>1, <2>2 DEF KeyInv, NamedInv, UnnamedInv
<1>2. CASE SeeConnection
  <2>1. TargetInv'
    BY <1>2, NothingHitYet DEF SeeConnection
  <2>2. finding'.name = finding.name /\ finding'.server = finding.server
    BY <1>2 DEF SeeConnection, TypeInv, FindingOK, Finding
  <2>3. finding.name = NoValue /\ finding.server = NoValue
    BY <1>2 DEF SeeConnection, KeyInv, UnnamedInv
  <2> QED BY <2>1, <2>2, <2>3 DEF KeyInv, NamedInv, UnnamedInv
<1>3. CASE ReportProcess
  <2>1. TargetInv'
    BY <1>3, NothingHitYet DEF ReportProcess
  <2>2. UnnamedInv'
    BY <1>3 DEF ReportProcess, UnnamedInv
  <2>3. NamedInv'
    BY <1>3 DEF ReportProcess, KeyInv, NamedInv, PteroServerUUID
  <2> QED BY <2>1, <2>2, <2>3 DEF KeyInv
<1>4. ASSUME stage = "captured", NEW box, Report(box) PROVE KeyInv'
  <2>1. TargetInv' /\ UnnamedInv'
    BY <1>4, NothingHitYet DEF Report, UnnamedInv
  <2>2. finding'.name = finding.name /\ finding'.server = finding.server
    BY <1>4 DEF Report, TypeInv, FindingOK, Finding
  <2>3. finding.name = NoValue /\ finding.server = NoValue
    BY <1>4 DEF KeyInv, UnnamedInv
  <2> QED BY <2>1, <2>2, <2>3 DEF KeyInv, NamedInv
<1>5. CASE ReportConnection \/ ReportScan
  BY <1>4, <1>5 DEF ReportConnection, ReportScan
<1>6. CASE Notice \/ Finish
  BY <1>6, FinishedKey DEF Notice, Finish
<1>7. CASE Forget
  BY <1>7, SameKey DEF Forget
<1>8. {} \in SUBSET Containers /\ cache \in SUBSET Containers /\ answer \in SUBSET Containers
  BY DEF TypeInv, CacheOK
<1>9. CASE Unresolvable \/ LookUp \/ Answered \/ Refused
  BY <1>8, <1>9, AnnotateKey DEF Unresolvable, LookUp, Answered, Refused
<1>10. CASE Ask
  <2>1. TargetInv'
    BY <1>10, NothingHitYet DEF Ask
  <2>2. UnnamedInv' /\ NamedInv'
    BY <1>10 DEF Ask, UnnamedInv, KeyInv, NamedInv, PteroServerUUID
  <2> QED BY <2>1, <2>2 DEF KeyInv
<1>11. CASE KillContainer \/ KillProcess \/ NeutralizeFails \/ NextPage \/ Exit \/ Tick
  BY <1>11, SameKey DEF KillContainer, KillProcess, NeutralizeFails, NextPage, Exit, Tick
<1>12. CASE NoKey \/ NoMatch \/ PanelFails
  BY <1>12, QuitKey DEF NoKey, NoMatch, PanelFails
<1>13. CASE StartWalk
  <2>1. stage = "acting" /\ stage' = "walking" /\ SuspendKey # NoValue
        /\ UNCHANGED <<finding, target, suspended>>
    BY <1>13 DEF StartWalk
  <2>2. SuspendKey' = SuspendKey
    BY <2>1 DEF SuspendKey
  <2>3. TargetInv'
    BY <2>1, <2>2 DEF KeyInv, TargetInv, Matches
  <2> QED BY <2>1, <2>3 DEF KeyInv, NamedInv, UnnamedInv, PteroServerUUID
<1>14. CASE FoundOnPage
  <2>1. stage = "walking" /\ target' \in Found /\ UNCHANGED <<stage, finding, suspended>>
    BY <1>14 DEF FoundOnPage
  <2>2. Matches(SuspendKey, target')
    BY <2>1 DEF Found
  <2>3. SuspendKey' = SuspendKey
    BY <2>1 DEF SuspendKey
  <2>4. TargetInv'
    BY <2>1, <2>2, <2>3 DEF KeyInv, TargetInv, Matches
  <2> QED BY <2>1, <2>4 DEF KeyInv, NamedInv, UnnamedInv, PteroServerUUID
<1>15. CASE Suspend
  <2>1. stage = "walking" /\ stage' = "acting" /\ suspended' = suspended \cup {target}
        /\ target \in panel /\ target' = NoServer /\ UNCHANGED finding
    BY <1>15 DEF Suspend, Quit
  <2>2. SuspendKey' = SuspendKey
    BY <2>1 DEF SuspendKey
  <2>3. target # NoServer
    BY <2>1, ResponseAssumption DEF TypeInv, WalkOK
  <2>4. SuspendKey # NoValue /\ Matches(SuspendKey, target)
    BY <2>1, <2>3 DEF KeyInv, TargetInv
  <2>5. TargetInv'
    BY <2>1, <2>2, <2>4 DEF KeyInv, TargetInv, Matches
  <2> QED BY <2>1, <2>5 DEF KeyInv, NamedInv, UnnamedInv, PteroServerUUID
<1>16. ASSUME NEW c \in Containers, RateFinding(c) PROVE KeyInv'
  <2>1. TargetInv' /\ UnnamedInv'
    BY <1>16, NothingHitYet DEF RateFinding, UnnamedInv
  <2>2. finding'.box = c /\ finding'.name = Name[c] /\ finding'.server = NoValue
    BY <1>16 DEF RateFinding
  <2> QED BY <2>1, <2>2 DEF KeyInv, NamedInv
<1>17. ASSUME NEW c \in Containers, Join(c) \/ Start(c) \/ Stop(c) PROVE KeyInv'
  BY <1>17, SameKey DEF Join, Start, Stop
<1>18. ASSUME NEW box \in Containers \cup {NoBox}, Fork(box) PROVE KeyInv'
  BY <1>18, SameKey DEF Fork
<1>19. ASSUME NEW s \in Servers, Create(s) \/ Delete(s) PROVE KeyInv'
  BY <1>19, SameKey DEF Create, Delete
<1>20. CASE UNCHANGED vars
  BY <1>20, SameKey DEF vars
<1> QED
  BY <1>1, <1>2, <1>3, <1>5, <1>6, <1>7, <1>9, <1>10, <1>11, <1>12, <1>13, <1>14, <1>15,
     <1>16, <1>17, <1>18, <1>19, <1>20 DEF Next

(* Where Wings names its containers and uuids differ where they must, the  *)
(* server that is suspended is the offending one.                          *)
THEOREM OnlyOffenders ==
  ASSUME WingsNames, UuidsTellApart
  PROVE  Spec => []OnlyTheOffendingServer
<1>1. ASSUME TypeInv, KeyInv PROVE OnlyTheOffendingServer
  <2> SUFFICES ASSUME NEW s \in suspended
               PROVE  finding.box # NoBox /\ ServerOf[finding.box] \in {s, NoServer}
    BY DEF OnlyTheOffendingServer
  <2>1. SuspendKey # NoValue /\ Matches(SuspendKey, s) /\ s \in Servers
    BY <1>1 DEF KeyInv, TargetInv, TypeInv, WalkOK
  <2>2. finding.box \in Containers
        /\ SuspendKey \in {Label[finding.box], Name[finding.box]} \ {NoValue}
    BY <1>1, <2>1 DEF KeyInv, NamedInv, SuspendKey, PteroServerUUID
  <2>3. CASE ServerOf[finding.box] # NoServer
    <3> DEFINE t == ServerOf[finding.box]
    <3>1. t \in Servers
      BY <2>2, <2>3, ResponseAssumption
    <3>2. SuspendKey \in {Uuid[t], Ident[t]}
      BY <2>2, <2>3 DEF WingsNames
    <3>3. s = t
      BY <2>1, <3>1, <3>2, KeysTellApart
    <3> QED BY <2>2, <3>3, ResponseAssumption
  <2> QED BY <2>2, <2>3, ResponseAssumption
<1> QED
  BY <1>1, InitTypeInv, NextTypeInv, InitKeyInv, NextKeyInv, PTL DEF Spec

-------------------------------------------------------------------------------
(* Which servers the walk has behind it.                                   *)

(* What is on or after page n (from 0) and not on it is on or after the    *)
(* next one.                                                               *)
LEMMA OnALaterPage ==
  ASSUME NEW k \in Nat \ {0}, NEW n \in Nat, NEW a \in Nat, a >= n * k, a \div k # n
  PROVE  a >= (n + 1) * k
<1> DEFINE q == a \div k
<1>1. q \in Nat /\ q * k <= a /\ a < (q + 1) * k
  OBVIOUS
<1>2. ~ (q < n)
  <2> SUFFICES ASSUME q + 1 <= n PROVE FALSE
    BY <1>1
  <2>1. (q + 1) * k <= n * k
    BY <1>1
  <2> QED BY <1>1, <2>1
<1>3. q >= n + 1
  BY <1>1, <1>2
<1>4. (n + 1) * k <= q * k
  BY <1>1, <1>3
<1> QED BY <1>1, <1>4

(* All that is listed is on the pages 1 to n, if there are no more.        *)
LEMMA AllOnPages ==
  ASSUME NEW k \in Nat \ {0}, NEW n \in Nat, NEW a \in Nat, n >= (a + k - 1) \div k
  PROVE  a <= n * k
<1> DEFINE q == (a + k - 1) \div k
<1>1. q \in Nat /\ a + k - 1 < (q + 1) * k
  OBVIOUS
<1>2. (q + 1) * k = q * k + k /\ q * k \in Nat
  BY <1>1
<1>3. a <= q * k
  BY <1>1, <1>2
<1>4. q * k <= n * k
  BY <1>1
<1> QED BY <1>1, <1>2, <1>3, <1>4

LEMMA RankInPanel ==
  ASSUME panel \subseteq Servers, NEW s \in panel
  PROVE  Rank(s) \in Nat /\ Cardinality(panel) \in Nat /\ Rank(s) < Cardinality(panel)
<1> DEFINE before == {r \in panel : r < s}
<1>1. IsFiniteSet(panel)
  BY ResponseAssumption, FS_Subset
<1>2. before \in SUBSET panel /\ s \notin before
  BY ResponseAssumption
<1>3. IsFiniteSet(before) /\ Cardinality(before) <= Cardinality(panel) /\ before # panel
      /\ (Cardinality(panel) = Cardinality(before) => panel = before)
  BY <1>1, <1>2, FS_Subset
<1>4. Cardinality(before) \in Nat /\ Cardinality(panel) \in Nat
  BY <1>1, <1>3, FS_CardinalityType
<1> QED BY <1>3, <1>4 DEF Rank

(* While nothing is found, a server that is there all along, did not move  *)
(* up and matches is on the page to be fetched or on a later one.          *)
AheadInv ==
  /\ stage # "walking" => page = 1 /\ shifted = {}
  /\ stage = "walking" /\ target = NoServer =>
       \A s \in steady \ shifted :
         Matches(SuspendKey, s) => Rank(s) >= (page - 1) * PageSize

LEMMA InitAheadInv == Init => AheadInv
BY DEF Init, AheadInv

(* If it is not on this page either, it is on a later one.                 *)
LEMMA StillAhead ==
  ASSUME TypeInv, AheadInv, stage = "walking", target = NoServer, Found = {},
         NEW s \in steady \ shifted, Matches(SuspendKey, s)
  PROVE  s \in panel /\ Rank(s) >= page * PageSize
<1>1. panel \subseteq Servers /\ s \in panel /\ page \in Nat \ {0} /\ PageSize \in Nat \ {0}
  BY ResponseAssumption DEF TypeInv, WalkOK
<1>2. Rank(s) \in Nat /\ Rank(s) >= (page - 1) * PageSize
  BY <1>1, RankInPanel DEF AheadInv
<1>3. Rank(s) \div PageSize # page - 1
  BY <1>1 DEF Found, OnPage
<1>4. page - 1 \in Nat /\ (page - 1) + 1 = page
  BY <1>1
<1>5. Rank(s) >= ((page - 1) + 1) * PageSize
  BY <1>1, <1>2, <1>3, <1>4, OnALaterPage
<1> QED BY <1>1, <1>4, <1>5

(* With more servers none has fewer before it.                             *)
LEMMA RankGrows ==
  ASSUME panel \subseteq Servers, NEW r \in Servers, panel' = panel \cup {r}, NEW s \in panel
  PROVE  Rank(s)' >= Rank(s)
<1> DEFINE before == {q \in panel : q < s}
           after  == {q \in panel \cup {r} : q < s}
<1>0. panel \cup {r} \in SUBSET Servers
  OBVIOUS
<1>1. IsFiniteSet(panel \cup {r})
  BY <1>0, ResponseAssumption, FS_Subset
<1>2. after \in SUBSET (panel \cup {r}) /\ before \in SUBSET after
  OBVIOUS
<1>3. IsFiniteSet(after)
  BY <1>1, <1>2, FS_Subset
<1>4. IsFiniteSet(before) /\ Cardinality(before) <= Cardinality(after)
  BY <1>2, <1>3, FS_Subset
<1>5. Cardinality(before) \in Nat /\ Cardinality(after) \in Nat
  BY <1>3, <1>4, FS_CardinalityType
<1> QED BY <1>4, <1>5 DEF Rank

LEMMA NextAheadInv == TypeInv /\ AheadInv /\ [Next]_vars => AheadInv'
<1> SUFFICES ASSUME TypeInv, AheadInv, [Next]_vars PROVE AheadInv'
  OBVIOUS
<1> USE DEF machine, scans, walk, hand
<1>0. panel \subseteq Servers /\ steady \subseteq panel /\ page \in Nat \ {0}
      /\ PageSize \in Nat \ {0} /\ NoServer \notin Servers
  BY ResponseAssumption DEF TypeInv, WalkOK
<1>1. ASSUME UNCHANGED <<page, shifted>>, stage # "walking", stage' # "walking" PROVE AheadInv'
  BY <1>1 DEF AheadInv
<1>2. ASSUME UNCHANGED <<stage, finding, panel, page, target, steady, shifted>> PROVE AheadInv'
  <2>1. SuspendKey' = SuspendKey
    BY <1>2 DEF SuspendKey
  <2>2. \A s \in steady : Rank(s)' = Rank(s)
    BY <1>2 DEF Rank
  <2> QED BY <1>2, <2>1, <2>2 DEF AheadInv, Matches
<1>3. ASSUME page' = 1, shifted' = {}, stage' # "walking" PROVE AheadInv'
  BY <1>3 DEF AheadInv
<1>4. CASE ListProcess \/ SeeConnection \/ ReportProcess \/ ReportConnection \/ ReportScan
  BY <1>1, <1>4
     DEF ListProcess, SeeConnection, ReportProcess, ReportConnection, ReportScan, Report
<1>5. CASE Notice \/ Finish
  BY <1>3, <1>5 DEF Notice, Finish, Finished
<1>6. CASE Forget
  BY <1>2, <1>6 DEF Forget
<1>7. CASE Unresolvable \/ LookUp \/ Ask \/ Answered \/ Refused
  BY <1>1, <1>7 DEF Unresolvable, LookUp, Ask, Answered, Refused, Annotate
<1>8. CASE KillContainer \/ KillProcess \/ NeutralizeFails \/ Exit \/ Tick
  BY <1>2, <1>8 DEF KillContainer, KillProcess, NeutralizeFails, Exit, Tick
<1>9. CASE NoKey \/ NoMatch \/ PanelFails \/ Suspend
  BY <1>3, <1>9 DEF NoKey, NoMatch, PanelFails, Suspend, Quit
<1>10. CASE StartWalk
  <2>1. page' = 1 /\ stage' = "walking" /\ panel' \subseteq Servers /\ steady' = panel'
    BY <1>10 DEF StartWalk, AheadInv
  <2>2. \A s \in steady' : Rank(s)' \in Nat
    <3> TAKE s \in steady'
    <3> DEFINE before == {r \in panel' : r < s}
    <3>1. before \in SUBSET Servers
      BY <2>1
    <3>2. Cardinality(before) \in Nat
      BY <3>1, ResponseAssumption, FS_Subset, FS_CardinalityType
    <3> QED BY <3>2 DEF Rank
  <2>3. (page' - 1) * PageSize = 0
    BY <1>0, <2>1
  <2>4. \A s \in steady' : Rank(s)' >= (page' - 1) * PageSize
    BY <2>2, <2>3
  <2> QED BY <2>1, <2>4 DEF AheadInv
<1>11. CASE FoundOnPage
  <2>1. stage' = "walking" /\ target' \in panel
    BY <1>11 DEF FoundOnPage, Found, OnPage
  <2> QED BY <1>0, <2>1 DEF AheadInv
<1>12. CASE NextPage
  <2>1. stage = "walking" /\ target = NoServer /\ Found = {} /\ page' = page + 1
        /\ UNCHANGED <<stage, finding, panel, target, steady, shifted>>
    BY <1>12 DEF NextPage
  <2>2. SuspendKey' = SuspendKey
    BY <2>1 DEF SuspendKey
  <2>3. \A s \in steady : Rank(s)' = Rank(s)
    BY <2>1 DEF Rank
  <2>4. ASSUME NEW s \in steady \ shifted, Matches(SuspendKey, s)
        PROVE  Rank(s)' >= (page' - 1) * PageSize
    <3>1. Rank(s) >= page * PageSize
      BY <2>1, <2>4, StillAhead
    <3>2. page' - 1 = page
      BY <1>0, <2>1
    <3> QED BY <2>3, <3>1, <3>2
  <2> QED BY <2>1, <2>2, <2>4 DEF AheadInv, Matches
<1>13. ASSUME NEW c \in Containers, RateFinding(c) PROVE AheadInv'
  BY <1>1, <1>13 DEF RateFinding
<1>14. ASSUME NEW c \in Containers, Join(c) \/ Start(c) \/ Stop(c) PROVE AheadInv'
  BY <1>2, <1>14 DEF Join, Start, Stop
<1>15. ASSUME NEW box \in Containers \cup {NoBox}, Fork(box) PROVE AheadInv'
  BY <1>2, <1>15 DEF Fork
<1>16. ASSUME NEW r \in Servers, Create(r) PROVE AheadInv'
  <2>1. stage = "walking" /\ panel' = panel \cup {r}
        /\ UNCHANGED <<stage, finding, page, target, steady, shifted>>
    BY <1>16 DEF Create
  <2>2. SuspendKey' = SuspendKey
    BY <2>1 DEF SuspendKey
  <2>3. ASSUME target = NoServer, NEW s \in steady \ shifted, Matches(SuspendKey, s)
        PROVE  Rank(s)' >= (page - 1) * PageSize
    <3>1. Rank(s) >= (page - 1) * PageSize
      BY <2>1, <2>3 DEF AheadInv
    <3>2. Rank(s)' >= Rank(s) /\ Rank(s) \in Nat
      BY <1>0, <2>1, RankGrows, RankInPanel
    <3>3. Rank(s)' \in Nat
      <4>1. {q \in panel' : q < s} \in SUBSET Servers
        BY <1>0, <2>1
      <4>2. Cardinality({q \in panel' : q < s}) \in Nat
        BY <4>1, ResponseAssumption, FS_Subset, FS_CardinalityType
      <4> QED BY <4>2 DEF Rank
    <3>4. (page - 1) * PageSize \in Nat
      BY <1>0
    <3> QED BY <3>1, <3>2, <3>3, <3>4
  <2> QED BY <2>1, <2>2, <2>3 DEF AheadInv, Matches
<1>17. ASSUME NEW r \in Servers, Delete(r) PROVE AheadInv'
  <2>1. stage = "walking" /\ panel' = panel \ {r} /\ steady' = steady \ {r}
        /\ UNCHANGED <<stage, finding, page, target>>
    BY <1>17 DEF Delete
  <2>2. SuspendKey' = SuspendKey
    BY <2>1 DEF SuspendKey
  <2>3. shifted' = shifted \cup {s \in panel : r < s}
    BY <1>17 DEF Delete
  <2>4. ASSUME NEW s \in steady' \ shifted' PROVE Rank(s)' = Rank(s)
    <3>1. ~ (r < s) /\ s \in panel
      BY <1>0, <2>1, <2>3, <2>4
    <3>2. {q \in panel' : q < s} = {q \in panel : q < s}
      BY <1>0, <2>1, <3>1
    <3> QED BY <3>2 DEF Rank
  <2>5. ASSUME target = NoServer, NEW s \in steady' \ shifted', Matches(SuspendKey, s)
        PROVE  Rank(s)' >= (page - 1) * PageSize
    <3>1. s \in steady \ shifted
      BY <2>1, <2>3, <2>5
    <3>2. Rank(s) >= (page - 1) * PageSize
      BY <2>1, <2>5, <3>1 DEF AheadInv
    <3> QED BY <2>4, <2>5, <3>2
  <2> QED BY <2>1, <2>2, <2>5 DEF AheadInv, Matches
<1>18. CASE UNCHANGED vars
  BY <1>2, <1>18 DEF vars
<1> QED
  BY <1>4, <1>5, <1>6, <1>7, <1>8, <1>9, <1>10, <1>11, <1>12, <1>13, <1>14, <1>15, <1>16,
     <1>17, <1>18 DEF Next

(* A walk that ends without a match missed no server that was there all    *)
(* along, except those that moved up.                                      *)
THEOREM SteadyAreFound == Spec => SteadyServerIsFound
<1>1. ASSUME TypeInv, AheadInv, NoMatch, NEW s \in steady \ shifted, Matches(SuspendKey, s)
      PROVE  FALSE
  <2>1. stage = "walking" /\ target = NoServer /\ Found = {} /\ page >= TotalPages
    BY <1>1 DEF NoMatch
  <2>2. s \in panel /\ Rank(s) >= page * PageSize
    BY <1>1, <2>1, StillAhead
  <2>3. panel \subseteq Servers /\ page \in Nat /\ PageSize \in Nat \ {0}
    BY <1>1, ResponseAssumption DEF TypeInv, WalkOK
  <2>4. Rank(s) \in Nat /\ Cardinality(panel) \in Nat /\ Rank(s) < Cardinality(panel)
    BY <2>2, <2>3, RankInPanel
  <2>5. Cardinality(panel) <= page * PageSize
    BY <2>1, <2>3, <2>4, AllOnPages DEF TotalPages
  <2>6. page * PageSize \in Nat
    BY <2>3
  <2> QED BY <2>2, <2>4, <2>5, <2>6
<1>2. TypeInv /\ AheadInv /\ [Next]_vars =>
        [NoMatch => \A s \in steady : Matches(SuspendKey, s) => s \in shifted]_vars
  BY <1>1
<1> QED
  BY <1>2, InitTypeInv, NextTypeInv, InitAheadInv, NextAheadInv, PTL
     DEF Spec, SteadyServerIsFound
===============================================================================
