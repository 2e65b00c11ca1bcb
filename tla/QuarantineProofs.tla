--------------------------- MODULE QuarantineProofs ---------------------------
(***************************************************************************)
(* Proofs about Quarantine, for every set of paths and payloads and any    *)
(* number of seconds, whatever calls fail and whenever the daemon crashes: *)
(*   - the type invariant;                                                 *)
(*   - no payload the action was run for is lost, when no two volumes hold *)
(*     archives of one name.                                               *)
(***************************************************************************)
EXTENDS Quarantine, TLAPS

Steps == {"rename", "open", "copy", "remove", "chmod"}

(* What the action knows of its source between two calls: it is there from *)
(* the moment it was opened until it is removed, as nobody else removes    *)
(* files.                                                                  *)
SourceInv == step \in {"copy", "remove"} => files[path] # Absent

TypeInv == TypeOK /\ SourceInv

(* What Put makes of the quarantine directory.                             *)
LEMMA PutShape ==
  ASSUME NEW payload, vault' = Put(dest, payload, FALSE)
  PROVE  /\ DOMAIN vault' = DOMAIN vault \cup {dest}
         /\ vault'[dest].payload = payload
         /\ \A e \in DOMAIN vault \ {dest} : vault'[e] = vault[e]
BY DEF Put

Entries == [payload : Payloads \cup {Partial}, sealed : BOOLEAN]

LEMMA PutType ==
  ASSUME TypeOK, NEW payload \in Payloads \cup {Partial},
         vault' = Put(dest, payload, FALSE)
  PROVE  DOMAIN vault' \subseteq Names /\ vault' \in [DOMAIN vault' -> Entries]
BY DEF Put, TypeOK, Entries

-------------------------------------------------------------------------------
(* Type correctness.                                                       *)

LEMMA InitTypeInv == Init => TypeInv
<1> SUFFICES ASSUME Init PROVE TypeInv
  OBVIOUS
<1>1. DOMAIN vault = {} /\ vault \in [DOMAIN vault -> Entries]
  BY DEF Init
<1>2. 0 \in 0..MaxNow
  BY QuarantineAssumption
<1> QED BY <1>1, <1>2 DEF Init, TypeInv, TypeOK, SourceInv, Names, Entries

LEMMA NextTypeInv == TypeInv /\ [Next]_vars => TypeInv'
<1> SUFFICES ASSUME TypeInv, [Next]_vars PROVE TypeInv'
  OBVIOUS
<1> USE QuarantineAssumption DEF TypeInv
<1>1. ASSUME NEW p \in Paths, Begin(p) PROVE TypeInv'
  <2>1. files[p] \in Payloads /\ <<now, Base[p]>> \in Names
    BY <1>1 DEF Begin, TypeOK, Names
  <2> QED BY <1>1, <2>1 DEF Begin, TypeOK, SourceInv
<1>2. CASE Rename
  <2>1. files[path] \in Payloads
    BY <1>2 DEF Rename, TypeOK
  <2>2. DOMAIN vault' \subseteq Names /\ vault' \in [DOMAIN vault' -> Entries]
    BY <1>2, <2>1, PutType DEF Rename
  <2> QED BY <1>2, <2>2 DEF Rename, call, TypeOK, SourceInv, Entries
<1>3. CASE RenameFails
  BY <1>3 DEF RenameFails, call, TypeOK, SourceInv
<1>4. CASE Open
  <2>1. DOMAIN vault' \subseteq Names /\ vault' \in [DOMAIN vault' -> Entries]
    BY <1>4, PutType DEF Open
  <2> QED BY <1>4, <2>1 DEF Open, call, TypeOK, SourceInv, Entries
<1>5. CASE Fails
  BY <1>5 DEF Fails, call, TypeOK, SourceInv
<1>6. CASE Copy
  <2>1. files[path] \in Payloads
    BY <1>6 DEF Copy, TypeOK
  <2>2. DOMAIN vault' \subseteq Names /\ vault' \in [DOMAIN vault' -> Entries]
    BY <1>6, <2>1, PutType DEF Copy
  <2> QED BY <1>6, <2>2 DEF Copy, call, TypeOK, SourceInv, Entries
<1>7. CASE CopyIsLost
  BY <1>7 DEF CopyIsLost, TypeOK, SourceInv
<1>8. CASE Remove
  BY <1>8 DEF Remove, call, TypeOK, SourceInv
<1>9. CASE Chmod
  BY <1>9 DEF Chmod, call, TypeOK, SourceInv
<1>10. CASE Crash
  BY <1>10 DEF Crash, call, TypeOK, SourceInv
<1>11. CASE Tick
  BY <1>11 DEF Tick, call, TypeOK, SourceInv
<1>12. ASSUME NEW p \in Paths, NEW c \in Payloads, Upload(p, c) PROVE TypeInv'
  BY <1>12 DEF Upload, call, TypeOK, SourceInv
<1>13. CASE UNCHANGED vars
  BY <1>13 DEF vars, TypeOK, SourceInv
<1> QED
  BY <1>1, <1>2, <1>3, <1>4, <1>5, <1>6, <1>7, <1>8, <1>9, <1>10, <1>11, <1>12, <1>13
     DEF Next, Wait

(* Every reachable state has the shape TypeOK describes: what is written   *)
(* into the quarantine directory is a payload or an incomplete copy, under *)
(* a name of the moment and of its archive.                                *)
THEOREM TypeCorrect == Spec => []TypeOK
<1>1. TypeInv => TypeOK
  BY DEF TypeInv
<1> QED BY <1>1, InitTypeInv, NextTypeInv, PTL DEF Spec
-------------------------------------------------------------------------------
(* No evidence is lost.  Three facts carry it: an archive's entries in the *)
(* quarantine directory are no younger than its last quarantine, so that   *)
(* the name of the next one is new; until the copy is made nothing is      *)
(* there under that name; and while the source waits to be removed its     *)
(* copy is whole, or was lost at close.                                    *)

NamesInv ==
  /\ \A d \in DOMAIN vault : \A p \in Paths : d[2] = Base[p] => d[1] <= lastRun[p]
  /\ step \in Steps => dest = <<lastRun[path], Base[path]>>

NewName == step \in {"rename", "open"} => dest \notin DOMAIN vault

NothingWhole == step = "copy" => dest \in DOMAIN vault /\ vault[dest].payload = Partial

CopyInv ==
  step = "remove" =>
    \/ files[path] \in unreported
    \/ dest \in DOMAIN vault /\ vault[dest].payload = files[path]

IInv ==
  TypeInv /\ NamesInv /\ NewName /\ NothingWhole /\ CopyInv /\ EvidenceKept

(* No two volumes hold archives of one name.                               *)
OwnBases == \A p, q \in Paths : Base[p] = Base[q] => p = q

(* What is kept stays kept when no file and no entry is touched.           *)
LEMMA StillKept ==
  ASSUME EvidenceKept, UNCHANGED <<files, flagged, unreported>>,
         \A d \in DOMAIN vault : d \in DOMAIN vault' /\ vault'[d].payload = vault[d].payload
  PROVE  EvidenceKept'
BY DEF EvidenceKept, Kept

(* ... or when an entry that was no payload is overwritten.                *)
LEMMA PutKeeps ==
  ASSUME EvidenceKept, UNCHANGED <<files, flagged, unreported>>, NEW payload,
         vault' = Put(dest, payload, FALSE),
         dest \in DOMAIN vault => vault[dest].payload \notin Payloads,
         flagged \subseteq Payloads
  PROVE  EvidenceKept'
<1> SUFFICES ASSUME NEW c \in flagged \ unreported PROVE Kept(c)'
  BY DEF EvidenceKept
<1>1. CASE \E p \in Paths : files[p] = c
  BY <1>1 DEF Kept
<1>2. CASE \E d \in DOMAIN vault : vault[d].payload = c
  <2>1. PICK d \in DOMAIN vault : vault[d].payload = c
    BY <1>2
  <2>2. d # dest
    BY <2>1
  <2>3. d \in DOMAIN vault' /\ vault'[d] = vault[d]
    BY <2>2, PutShape
  <2> QED BY <2>1, <2>3 DEF Kept
<1> QED BY <1>1, <1>2 DEF EvidenceKept, Kept

(* Entries are only added under the name of the quarantine in hand.        *)
LEMMA PutNames ==
  ASSUME NamesInv, step \in Steps, step' \in Steps, UNCHANGED <<path, dest, lastRun>>,
         path \in Paths, lastRun \in [Paths -> Nat],
         DOMAIN vault' = DOMAIN vault \cup {dest}, OwnBases
  PROVE  NamesInv'
<1>1. ASSUME NEW d \in DOMAIN vault', NEW p \in Paths, d[2] = Base[p]
      PROVE  d[1] <= lastRun[p]
  <2>1. CASE d \in DOMAIN vault
    BY <1>1, <2>1 DEF NamesInv
  <2>2. CASE d = dest
    <3>1. d[1] = lastRun[path] /\ d[2] = Base[path]
      BY <2>2 DEF NamesInv
    <3>2. p = path
      BY <1>1, <3>1 DEF OwnBases
    <3> QED BY <3>1, <3>2
  <2> QED BY <2>1, <2>2
<1> QED BY <1>1 DEF NamesInv

LEMMA InitIInv == Init => IInv
BY InitTypeInv DEF Init, IInv, NamesInv, NewName, NothingWhole, CopyInv, EvidenceKept, Steps

LEMMA NextIInv == OwnBases /\ IInv /\ [Next]_vars => IInv'
<1> SUFFICES ASSUME OwnBases, IInv, [Next]_vars PROVE IInv'
  OBVIOUS
<1>0. TypeInv /\ TypeInv'
  BY NextTypeInv DEF IInv
<1>t. path \in Paths /\ flagged \subseteq Payloads /\ Partial \notin Payloads /\ Absent \notin Payloads
      /\ lastRun \in [Paths -> Nat]
  BY <1>0, QuarantineAssumption DEF TypeInv, TypeOK
<1> USE DEF Steps
<1>1. ASSUME NEW p \in Paths, Begin(p) PROVE IInv'
  <2>1. dest' = <<now, Base[p]>> /\ path' = p /\ lastRun'[p] = now /\ lastRun[p] < now
    BY <1>1, <1>t DEF Begin
  <2>2. \A q \in Paths : lastRun'[q] = IF q = p THEN now ELSE lastRun[q]
    BY <1>1, <1>t DEF Begin
  <2>3. now \in Nat
    BY <1>0, QuarantineAssumption DEF TypeInv, TypeOK
  <2>4. NamesInv'
    <3>1. ASSUME NEW d \in DOMAIN vault, NEW q \in Paths, d[2] = Base[q]
          PROVE  d[1] <= lastRun'[q]
      <4>1. d[1] <= lastRun[q] /\ d[1] \in Nat
        BY <1>0, <3>1, QuarantineAssumption DEF IInv, NamesInv, TypeInv, TypeOK, Names
      <4> QED BY <4>1, <2>1, <2>2, <2>3, <1>t
    <3> QED BY <1>1, <2>1, <3>1 DEF Begin, NamesInv
  <2>5. NewName'
    <3> SUFFICES ASSUME <<now, Base[p]>> \in DOMAIN vault PROVE FALSE
      BY <1>1, <2>1 DEF Begin, NewName
    <3>1. now <= lastRun[p]
      BY DEF IInv, NamesInv
    <3> QED BY <2>1, <2>3, <3>1, <1>t
  <2>6. EvidenceKept'
    <3>1. Kept(files[p])
      BY DEF Kept
    <3>2. \A c \in flagged' \ unreported' : Kept(c)
      BY <1>1, <3>1 DEF Begin, IInv, EvidenceKept
    <3> QED BY <1>1, <3>2 DEF Begin, EvidenceKept, Kept
  <2> QED BY <1>0, <1>1, <2>4, <2>5, <2>6 DEF Begin, IInv, NothingWhole, CopyInv
<1>2. CASE Rename
  <2>1. dest \notin DOMAIN vault
    BY <1>2 DEF Rename, IInv, NewName
  <2>2. dest \in DOMAIN vault' /\ vault'[dest].payload = files[path]
        /\ DOMAIN vault' = DOMAIN vault \cup {dest}
        /\ \A d \in DOMAIN vault : vault'[d] = vault[d]
    BY <1>2, <2>1, PutShape DEF Rename, call
  <2>3. \A c : Kept(c) /\ c # Absent => Kept(c)'
    <3> SUFFICES ASSUME NEW c, Kept(c), c # Absent PROVE Kept(c)'
      OBVIOUS
    <3>1. CASE c = files[path]
      BY <2>2, <3>1 DEF Kept
    <3>2. CASE c # files[path]
      <4>1. \A p \in Paths : files[p] = c => files'[p] = c
        BY <1>2, <1>0, <3>2 DEF Rename, TypeInv, TypeOK
      <4> QED BY <2>2, <4>1 DEF Kept
    <3> QED BY <3>1, <3>2
  <2>4. EvidenceKept'
    BY <1>2, <1>t, <2>3 DEF Rename, call, IInv, EvidenceKept
  <2>5. NamesInv'
    BY <1>2, <1>t, <2>2, PutNames DEF Rename, call, IInv
  <2> QED BY <1>0, <1>2, <2>4, <2>5 DEF Rename, IInv, NewName, NothingWhole, CopyInv
<1>3. CASE RenameFails
  <2>1. EvidenceKept'
    BY <1>3, StillKept DEF RenameFails, call, IInv
  <2> QED BY <1>0, <1>3, <2>1 DEF RenameFails, call, IInv, NamesInv, NewName, NothingWhole, CopyInv
<1>4. CASE Open
  <2>1. dest \notin DOMAIN vault
    BY <1>4 DEF Open, IInv, NewName
  <2>2. dest \in DOMAIN vault' /\ vault'[dest].payload = Partial
        /\ DOMAIN vault' = DOMAIN vault \cup {dest}
    BY <1>4, PutShape DEF Open, call
  <2>3. EvidenceKept'
    BY <1>4, <1>t, <2>1, PutKeeps DEF Open, call, IInv
  <2>4. NamesInv'
    BY <1>4, <1>t, <2>2, PutNames DEF Open, call, IInv
  <2> QED BY <1>0, <1>4, <2>2, <2>3, <2>4 DEF Open, call, IInv, NewName, NothingWhole, CopyInv
<1>5. CASE Fails
  <2>1. EvidenceKept'
    BY <1>5, StillKept DEF Fails, call, IInv
  <2> QED BY <1>0, <1>5, <2>1 DEF Fails, call, IInv, NamesInv, NewName, NothingWhole, CopyInv
<1>6. CASE Copy
  <2>1. vault[dest].payload = Partial
    BY <1>6 DEF Copy, IInv, NothingWhole
  <2>2. dest \in DOMAIN vault' /\ vault'[dest].payload = files[path]
        /\ DOMAIN vault' = DOMAIN vault \cup {dest}
    BY <1>6, PutShape DEF Copy, call
  <2>3. EvidenceKept'
    BY <1>6, <1>t, <2>1, PutKeeps DEF Copy, call, IInv
  <2>4. NamesInv'
    BY <1>6, <1>t, <2>2, PutNames DEF Copy, call, IInv
  <2> QED BY <1>0, <1>6, <2>2, <2>3, <2>4 DEF Copy, call, IInv, NewName, NothingWhole, CopyInv
<1>7. CASE CopyIsLost
  <2>1. EvidenceKept'
    BY <1>7 DEF CopyIsLost, IInv, EvidenceKept, Kept
  <2> QED BY <1>0, <1>7, <2>1 DEF CopyIsLost, IInv, NamesInv, NewName, NothingWhole, CopyInv
<1>8. CASE Remove
  <2>1. ASSUME NEW c \in flagged \ unreported, Kept(c) PROVE Kept(c)'
    <3>1. CASE c = files[path]
      <4>1. dest \in DOMAIN vault /\ vault[dest].payload = c
        BY <1>8, <2>1, <3>1 DEF Remove, IInv, CopyInv
      <4> QED BY <1>8, <4>1 DEF Remove, Kept
    <3>2. CASE c # files[path]
      <4>1. \A p \in Paths : files[p] = c => files'[p] = c
        BY <1>8, <1>0, <3>2 DEF Remove, TypeInv, TypeOK
      <4> QED BY <1>8, <2>1, <4>1 DEF Remove, Kept
    <3> QED BY <3>1, <3>2
  <2>2. EvidenceKept'
    BY <1>8, <2>1 DEF Remove, call, IInv, EvidenceKept
  <2> QED BY <1>0, <1>8, <2>2 DEF Remove, call, IInv, NamesInv, NewName, NothingWhole, CopyInv
<1>9. CASE Chmod
  <2>1. DOMAIN vault' = DOMAIN vault
    BY <1>9 DEF Chmod
  <2>2. \A d \in DOMAIN vault : vault'[d].payload = vault[d].payload
    BY <1>9, <1>0 DEF Chmod, TypeInv, TypeOK
  <2>3. EvidenceKept'
    BY <1>9, <2>1, <2>2, StillKept DEF Chmod, call, IInv
  <2> QED BY <1>0, <1>9, <2>1, <2>3 DEF Chmod, call, IInv, NamesInv, NewName, NothingWhole, CopyInv
<1>10. CASE Crash
  <2>1. EvidenceKept'
    BY <1>10, StillKept DEF Crash, call, IInv
  <2> QED BY <1>0, <1>10, <2>1 DEF Crash, call, IInv, NamesInv, NewName, NothingWhole, CopyInv
<1>11. CASE Tick
  <2>1. EvidenceKept'
    BY <1>11, StillKept DEF Tick, call, IInv
  <2> QED BY <1>0, <1>11, <2>1 DEF Tick, call, IInv, NamesInv, NewName, NothingWhole, CopyInv
<1>12. ASSUME NEW p \in Paths, NEW c \in Payloads, Upload(p, c) PROVE IInv'
  <2>1. \A q \in Paths : files[q] # Absent => files'[q] = files[q]
    BY <1>12, <1>0 DEF Upload, TypeInv, TypeOK
  <2>2. EvidenceKept'
    BY <1>12, <1>t, <2>1 DEF Upload, call, IInv, EvidenceKept, Kept
  <2>3. CopyInv'
    BY <1>12, <1>0, <2>1 DEF Upload, call, IInv, CopyInv, TypeInv, SourceInv, TypeOK
  <2> QED BY <1>0, <1>12, <2>2, <2>3 DEF Upload, call, IInv, NamesInv, NewName, NothingWhole
<1>13. CASE UNCHANGED vars
  <2>1. EvidenceKept'
    BY <1>13, StillKept DEF vars, IInv
  <2> QED BY <1>0, <1>13, <2>1 DEF vars, IInv, NamesInv, NewName, NothingWhole, CopyInv
<1> QED
  BY <1>1, <1>2, <1>3, <1>4, <1>5, <1>6, <1>7, <1>8, <1>9, <1>10, <1>11, <1>12, <1>13
     DEF Next, Wait

(* Whatever calls fail and whenever the daemon crashes, a payload that was *)
(* to be quarantined is whole in its place or in the quarantine directory, *)
(* unless a write error showed only at close.  That archives have names of *)
(* their own is needed: see the run quarantine_collision.                  *)
THEOREM EvidenceIsKept == OwnBases => (Spec => []EvidenceKept)
<1> SUFFICES ASSUME OwnBases PROVE Spec => []EvidenceKept
  OBVIOUS
<1>1. Init => IInv
  BY InitIInv
<1>2. IInv /\ [Next]_vars => IInv'
  BY NextIInv
<1>3. IInv => EvidenceKept
  BY DEF IInv
<1> QED BY <1>1, <1>2, <1>3, PTL DEF Spec
===============================================================================
