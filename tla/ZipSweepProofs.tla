---------------------------- MODULE ZipSweepProofs ----------------------------
(***************************************************************************)
(* Proofs about ZipSweep, for every set of archives and contents, every    *)
(* threshold and any number of writes:                                     *)
(*   - the type invariant;                                                 *)
(*   - what the walk passes over is harmless.                              *)
(***************************************************************************)
EXTENDS ZipSweep, TLAPS

(* Every archive there is was written, and has the time of that.           *)
WrittenInv == \A p \in Present : files[p].mtime \in 1 .. writes

TypeInv == TypeOK /\ WrittenInv

Jobs == [path : Paths, size : Nat, mtime : 1 .. writes]

LEMMA JobInHand == ASSUME TypeOK, job # NoJob PROVE job \in Jobs
BY DEF TypeOK, Jobs

(* What the files are after a write, a move and a deletion.                *)
LEMMA WriteShape ==
  ASSUME TypeInv, NEW p \in Paths, NEW c \in Contents, Write(p, c)
  PROVE  /\ writes' = writes + 1 /\ writes' \in 0 .. MaxWrites
         /\ files' \in [Paths -> Archives]
         /\ files'[p].mtime = writes'
         /\ \A q \in Paths \ {p} : files'[q] = files[q]
         /\ Present' = Present \cup {p}
<1>1. writes' = writes + 1 /\ writes' \in 0 .. MaxWrites
  BY ZipAssumption DEF Write, TypeInv, TypeOK
<1>2. c[1] \in Nat /\ c[2] \in Nat
  BY ZipAssumption
<1>3. [size |-> c[1], expands |-> c[2], mtime |-> writes'] \in Archives
  BY <1>1, <1>2 DEF Archives
<1>4. files' = [files EXCEPT ![p] = [size |-> c[1], expands |-> c[2], mtime |-> writes']]
  BY DEF Write
<1>5. files'[p] = [size |-> c[1], expands |-> c[2], mtime |-> writes']
  BY <1>4 DEF TypeInv, TypeOK
<1>6. files'[p].mtime = writes' /\ files'[p].mtime # 0
  BY <1>1, <1>5 DEF TypeInv, TypeOK
<1>7. \A q \in Paths \ {p} : files'[q] = files[q]
  BY <1>4 DEF TypeInv, TypeOK
<1>8. files' \in [Paths -> Archives]
  BY <1>3, <1>4 DEF TypeInv, TypeOK
<1> QED BY <1>1, <1>6, <1>7, <1>8 DEF Present, NoFile

LEMMA MoveShape ==
  ASSUME TypeInv, NEW p \in Paths, NEW q \in Paths, Move(p, q)
  PROVE  /\ files' \in [Paths -> Archives]
         /\ files'[q] = files[p] /\ files'[p] = NoFile
         /\ \A r \in Paths \ {p, q} : files'[r] = files[r]
         /\ p \in Present /\ p # q
         /\ Present' = (Present \ {p}) \cup {q}
<1>1. p # q /\ p \in Present /\ files' = [files EXCEPT ![p] = NoFile, ![q] = files[p]]
  BY DEF Move
<1>2. files \in [Paths -> Archives] /\ NoFile \in Archives /\ files[p] # NoFile
  BY <1>1, ZipAssumption DEF TypeInv, TypeOK, NoFile, Archives, Present
<1>3. files' \in [Paths -> Archives]
  BY <1>1, <1>2
<1>4. files'[q] = files[p] /\ files'[p] = NoFile /\ \A r \in Paths \ {p, q} : files'[r] = files[r]
  BY <1>1, <1>2
<1> QED BY <1>1, <1>2, <1>3, <1>4 DEF Present

LEMMA DeleteShape ==
  ASSUME TypeInv, NEW p \in Paths, Delete(p)
  PROVE  /\ files' \in [Paths -> Archives]
         /\ files'[p] = NoFile
         /\ \A q \in Paths \ {p} : files'[q] = files[q]
         /\ Present' = Present \ {p}
<1>1. files' = [files EXCEPT ![p] = NoFile]
  BY DEF Delete
<1>2. files \in [Paths -> Archives] /\ NoFile \in Archives
  BY ZipAssumption DEF TypeInv, TypeOK, NoFile, Archives
<1>3. files' \in [Paths -> Archives]
  BY <1>1, <1>2
<1>4. files'[p] = NoFile /\ \A q \in Paths \ {p} : files'[q] = files[q]
  BY <1>1, <1>2
<1> QED BY <1>3, <1>4 DEF Present

(* What an inspection notes: nothing, or the job's time for its path.      *)
Noted ==
  /\ phase = "sweep"
  /\ cleared' = [q \in DOMAIN cleared \cup {job.path} |->
                   IF q = job.path THEN job.mtime ELSE cleared[q]]

LEMMA NotedShape ==
  ASSUME Noted
  PROVE  /\ DOMAIN cleared' = DOMAIN cleared \cup {job.path}
         /\ cleared'[job.path] = job.mtime
         /\ \A q \in DOMAIN cleared \ {job.path} : cleared'[q] = cleared[q]
BY DEF Noted

LEMMA InspectNotes ==
  ASSUME NEW opened \in BOOLEAN, Inspect(opened)
  PROVE  \/ UNCHANGED <<cleared, blind>>
         \/ /\ Noted
            /\ ~(job.path \in Present /\ opened /\ LooksLikeBomb(job.size, Declared(job.path)))
            /\ blind' = IF opened /\ files[job.path].mtime = job.mtime
                          THEN blind \ {job.path} ELSE blind \cup {job.path}
BY DEF Inspect, Noted, Stamp

-------------------------------------------------------------------------------
(* Type correctness.                                                       *)

LEMMA InitTypeInv == Init => TypeInv
<1> SUFFICES ASSUME Init PROVE TypeInv
  OBVIOUS
<1>1. DOMAIN cleared = {} /\ cleared \in [DOMAIN cleared -> 1 .. writes]
  BY DEF Init
<1>2. Present = {}
  BY DEF Init, Present
<1>3. NoFile \in Archives
  BY ZipAssumption DEF NoFile, Archives
<1> QED BY <1>1, <1>2, <1>3, ZipAssumption DEF Init, TypeInv, TypeOK, WrittenInv

LEMMA NextTypeInv == TypeInv /\ [Next]_vars => TypeInv'
<1> SUFFICES ASSUME TypeInv, [Next]_vars PROVE TypeInv'
  OBVIOUS
<1> USE ZipAssumption DEF TypeInv
<1>0. Present \subseteq Paths
  BY DEF Present
<1>1. CASE HotScan
  BY <1>0, <1>1 DEF HotScan, volume, TypeOK, WrittenInv, Present
<1>2. CASE FullSweep
  BY <1>0, <1>2 DEF FullSweep, volume, TypeOK, WrittenInv, Present
<1>3. ASSUME NEW p \in Paths, Stat(p) PROVE TypeInv'
  <2>1. job' = NoJob \/ job' \in Jobs
    <3>1. CASE p \notin Present \/ PassedOver(p)
      BY <1>3, <3>1 DEF Stat
    <3>2. CASE p \in Present /\ ~PassedOver(p)
      <4>1. job' = [path |-> p, size |-> files[p].size, mtime |-> files[p].mtime]
        BY <1>3, <3>2 DEF Stat
      <4>2. files[p].size \in Nat /\ files[p].mtime \in 1 .. writes
        BY <3>2 DEF TypeOK, Archives, WrittenInv
      <4> QED BY <4>1, <4>2 DEF Jobs
    <3> QED BY <3>1, <3>2
  <2>2. phase # "idle"
    BY <1>3 DEF Stat, TypeOK
  <2> QED BY <1>3, <2>1, <2>2 DEF Stat, volume, TypeOK, WrittenInv, Present, Jobs
<1>4. ASSUME NEW opened \in BOOLEAN, Inspect(opened) PROVE TypeInv'
  <2>1. job \in Jobs /\ phase # "idle"
    BY <1>4, JobInHand DEF Inspect, TypeOK
  <2>2. reports' \subseteq Paths
    BY <1>4, <2>1 DEF Inspect, TypeOK, Jobs
  <2>3. /\ DOMAIN cleared' \subseteq Paths
        /\ cleared' \in [DOMAIN cleared' -> 1 .. writes]
        /\ blind' \subseteq DOMAIN cleared'
    <3>1. CASE UNCHANGED <<cleared, blind>>
      BY <3>1 DEF TypeOK
    <3>2. CASE Noted /\ blind' \subseteq blind \cup {job.path}
      BY <2>1, <3>2, NotedShape DEF Noted, TypeOK, Jobs
    <3> QED BY <1>4, <3>1, <3>2, InspectNotes
  <2> QED BY <1>4, <2>1, <2>2, <2>3 DEF Inspect, volume, TypeOK, WrittenInv, Present
<1>5. CASE EndRun
  BY <1>5 DEF EndRun, volume, TypeOK, WrittenInv, Present
<1>6. CASE Elapse
  BY <1>6 DEF Elapse, volume, TypeOK, WrittenInv, Present
<1>7. CASE Restart
  <2>1. DOMAIN cleared' = {} /\ cleared' \in [DOMAIN cleared' -> 1 .. writes]
    BY <1>7 DEF Restart
  <2> QED BY <1>7, <2>1 DEF Restart, volume, TypeOK, WrittenInv, Present
<1>8. ASSUME NEW p \in Paths, NEW c \in Contents, Write(p, c) PROVE TypeInv'
  <2>1. WrittenInv'
    <3>1. \A q \in Present' : q = p \/ (q \in Present /\ files'[q] = files[q])
      BY <1>8, WriteShape, <1>0
    <3>2. writes \in Nat /\ writes' = writes + 1 /\ files'[p].mtime = writes'
      BY <1>8, WriteShape DEF TypeOK
    <3> QED BY <3>1, <3>2 DEF WrittenInv
  <2>2. cleared' \in [DOMAIN cleared' -> 1 .. writes']
    BY <1>8, WriteShape DEF Write, detector, TypeOK
  <2>3. job' = NoJob \/ job' \in [path : Paths, size : Nat, mtime : 1 .. writes']
    BY <1>8, WriteShape DEF Write, detector, TypeOK
  <2> QED BY <1>8, <2>1, <2>2, <2>3, WriteShape DEF Write, detector, TypeOK
<1>9. ASSUME NEW p \in Paths, NEW q \in Paths, Move(p, q) PROVE TypeInv'
  <2>1. WrittenInv'
    <3>1. \A r \in Present' : \E s \in Present : files'[r] = files[s]
      BY <1>9, MoveShape DEF Present
    <3> QED BY <1>9, <3>1 DEF Move, WrittenInv
  <2> QED BY <1>9, <2>1, MoveShape DEF Move, detector, TypeOK
<1>10. ASSUME NEW p \in Paths, Delete(p) PROVE TypeInv'
  <2>1. WrittenInv'
    <3>1. \A r \in Present' : r \in Present /\ files'[r] = files[r]
      BY <1>10, DeleteShape DEF Present
    <3> QED BY <1>10, <3>1 DEF Delete, WrittenInv
  <2> QED BY <1>10, <2>1, DeleteShape DEF Delete, detector, TypeOK
<1>11. CASE UNCHANGED vars
  BY <1>11 DEF vars, volume, TypeOK, WrittenInv, Present
<1> QED
  BY <1>1, <1>2, <1>3, <1>4, <1>5, <1>6, <1>7, <1>8, <1>9, <1>10, <1>11 DEF Next, Run

(* Every reachable state has the shape TypeOK describes: only times that   *)
(* archives have had are noted, and an idle detector has nothing in hand.  *)
THEOREM TypeCorrect == Spec => []TypeOK
<1>1. TypeInv => TypeOK
  BY DEF TypeInv
<1> QED BY <1>1, InitTypeInv, NextTypeInv, PTL DEF Spec
-------------------------------------------------------------------------------
(* What is passed over is harmless.  An archive can leave its path while   *)
(* its path is cleared, and come back, so the invariant speaks of every    *)
(* archive that has the time noted for a path, wherever it lies: it would  *)
(* be no bomb at that path.  Times tell archives apart, and the file info  *)
(* in hand is that of the archive with its time, if there still is one.    *)

WouldBeBomb(p, archive) ==
  LooksLikeBomb(archive.size, IF p \in Gzips THEN archive.expands % Word ELSE archive.expands)

TimesInv == \A p, q \in Present : files[p].mtime = files[q].mtime => p = q

JobInv ==
  job # NoJob => \A q \in Present : files[q].mtime = job.mtime => files[q].size = job.size

ClearedInv ==
  \A p \in DOMAIN cleared \ blind, q \in Present :
    files[q].mtime = cleared[p] => ~WouldBeBomb(p, files[q])

IInv == TypeInv /\ TimesInv /\ JobInv /\ ClearedInv

(* Whatever owners do, an archive is one that was there before, maybe      *)
(* elsewhere, or has a time nothing had before.                            *)
OldOrNew ==
  \A r \in Present' : \/ \E s \in Present : files'[r] = files[s]
                      \/ files'[r].mtime = writes + 1

LEMMA NothingChangesInPlace ==
  ASSUME TypeInv, JobInv, ClearedInv, UNCHANGED <<job, cleared, blind>>, OldOrNew
  PROVE  JobInv' /\ ClearedInv'
<1>1. ASSUME job # NoJob, NEW r \in Present', files'[r].mtime = job.mtime
      PROVE  files'[r].size = job.size
  <2>1. job.mtime \in 1 .. writes /\ writes \in Nat
    BY <1>1, JobInHand DEF TypeInv, TypeOK, Jobs
  <2>2. PICK s \in Present : files'[r] = files[s]
    BY <1>1, <2>1 DEF OldOrNew
  <2> QED BY <1>1, <2>2 DEF JobInv
<1>2. ASSUME NEW p \in DOMAIN cleared \ blind, NEW r \in Present', files'[r].mtime = cleared[p]
      PROVE  ~WouldBeBomb(p, files'[r])
  <2>1. cleared[p] \in 1 .. writes /\ writes \in Nat
    BY <1>2 DEF TypeInv, TypeOK
  <2>2. PICK s \in Present : files'[r] = files[s]
    BY <1>2, <2>1 DEF OldOrNew
  <2> QED BY <1>2, <2>2 DEF ClearedInv
<1> QED BY <1>1, <1>2 DEF JobInv, ClearedInv

(* A step that leaves the files and the memory alone.                      *)
LEMMA SameFiles ==
  ASSUME UNCHANGED files
  PROVE  /\ UNCHANGED Present
         /\ TimesInv => TimesInv'
         /\ JobInv /\ UNCHANGED job => JobInv'
         /\ ClearedInv /\ UNCHANGED <<cleared, blind>> => ClearedInv'
<1>1. UNCHANGED Present
  BY DEF Present
<1> QED BY <1>1 DEF TimesInv, JobInv, ClearedInv

LEMMA InitIInv == Init => IInv
<1> SUFFICES ASSUME Init PROVE IInv
  OBVIOUS
<1>1. Present = {} /\ DOMAIN cleared = {}
  BY DEF Init, Present
<1> QED BY <1>1, InitTypeInv DEF Init, IInv, TimesInv, JobInv, ClearedInv

LEMMA NextIInv == IInv /\ [Next]_vars => IInv'
<1> SUFFICES ASSUME IInv, [Next]_vars PROVE IInv'
  OBVIOUS
<1>0. TypeInv /\ TypeInv' /\ Present \subseteq Paths /\ writes \in Nat
  BY NextTypeInv, ZipAssumption DEF IInv, TypeInv, TypeOK, Present
<1>1. ASSUME HotScan \/ FullSweep \/ EndRun \/ Elapse PROVE IInv'
  BY <1>0, <1>1, SameFiles DEF HotScan, FullSweep, EndRun, Elapse, volume, IInv
<1>2. ASSUME NEW p \in Paths, Stat(p) PROVE IInv'
  <2>1. UNCHANGED <<files, cleared, blind>>
    BY <1>2 DEF Stat, volume
  <2>2. CASE p \notin Present \/ PassedOver(p)
    <3>1. job' = NoJob
      BY <1>2, <2>2 DEF Stat
    <3> QED BY <1>0, <2>1, <3>1, SameFiles DEF IInv, JobInv
  <2>3. CASE p \in Present /\ ~PassedOver(p)
    <3>1. job' = [path |-> p, size |-> files[p].size, mtime |-> files[p].mtime]
      BY <1>2, <2>3 DEF Stat
    <3>2. \A q \in Present : files[q].mtime = job'.mtime => files[q].size = job'.size
      BY <2>3, <3>1 DEF IInv, TimesInv
    <3> QED BY <1>0, <2>1, <3>2, SameFiles DEF IInv, JobInv
  <2> QED BY <2>2, <2>3
<1>3. ASSUME NEW opened \in BOOLEAN, Inspect(opened) PROVE IInv'
  <2>1. UNCHANGED files /\ job' = NoJob /\ job # NoJob
    BY <1>3 DEF Inspect, volume
  <2>2. job \in Jobs
    BY <1>0, <2>1, JobInHand DEF TypeInv
  <2>3. ClearedInv'
    <3>1. CASE UNCHANGED <<cleared, blind>>
      BY <2>1, <3>1, SameFiles DEF IInv
    <3>2. ASSUME Noted,
                 ~(job.path \in Present /\ opened /\ LooksLikeBomb(job.size, Declared(job.path))),
                 blind' = IF opened /\ files[job.path].mtime = job.mtime
                            THEN blind \ {job.path} ELSE blind \cup {job.path}
          PROVE  ClearedInv'
      <4> SUFFICES ASSUME NEW p \in DOMAIN cleared' \ blind', NEW q \in Present,
                          files[q].mtime = cleared'[p]
                   PROVE  ~WouldBeBomb(p, files[q])
        BY <2>1, SameFiles DEF ClearedInv
      <4>1. CASE p # job.path
        <5>1. p \in DOMAIN cleared \ blind /\ cleared'[p] = cleared[p]
          BY <3>2, <4>1, NotedShape
        <5> QED BY <5>1 DEF IInv, ClearedInv
      <4>2. CASE p = job.path
        <5>1. opened /\ files[p].mtime = job.mtime /\ cleared'[p] = job.mtime
          BY <3>2, <4>2, NotedShape
        <5>2. p \in Paths /\ job.mtime # 0
          BY <2>2, <4>2 DEF Jobs
        <5>3. p \in Present
          BY <5>1, <5>2 DEF Present, NoFile
        <5>4. q = p /\ files[p].size = job.size
          BY <2>1, <5>1, <5>3 DEF IInv, TimesInv, JobInv
        <5>5. ~LooksLikeBomb(files[p].size, Declared(p))
          BY <3>2, <4>2, <5>1, <5>3, <5>4
        <5> QED BY <5>4, <5>5 DEF WouldBeBomb, Declared
      <4> QED BY <4>1, <4>2
    <3> QED BY <1>3, <3>1, <3>2, InspectNotes
  <2> QED BY <1>0, <2>1, <2>3, SameFiles DEF IInv, JobInv
<1>4. CASE Restart
  <2>1. DOMAIN cleared' = {} /\ job' = NoJob /\ UNCHANGED files
    BY <1>4 DEF Restart, volume
  <2> QED BY <1>0, <2>1, SameFiles DEF IInv, JobInv, ClearedInv
<1>5. ASSUME NEW p \in Paths, NEW c \in Contents, Write(p, c) PROVE IInv'
  <2>1. \A r \in Present' : r = p \/ (r \in Present /\ files'[r] = files[r])
    BY <1>0, <1>5, WriteShape
  <2>2. files'[p].mtime = writes + 1
    BY <1>0, <1>5, WriteShape
  <2>3. \A r \in Present : files[r].mtime <= writes /\ files[r].mtime \in Nat
    BY <1>0 DEF TypeInv, WrittenInv
  <2>4. TimesInv'
    BY <1>0, <2>1, <2>2, <2>3 DEF IInv, TimesInv
  <2>5. JobInv' /\ ClearedInv'
    <3>1. OldOrNew
      BY <2>1, <2>2 DEF OldOrNew
    <3>2. UNCHANGED <<job, cleared, blind>>
      BY <1>5 DEF Write, detector
    <3> QED BY <1>0, <3>1, <3>2, NothingChangesInPlace DEF IInv
  <2> QED BY <1>0, <2>4, <2>5 DEF IInv
<1>6. ASSUME NEW p \in Paths, NEW q \in Paths, Move(p, q) PROVE IInv'
  <2> DEFINE before(r) == IF r = q THEN p ELSE r
  <2>1. \A r \in Present' : /\ r # p /\ before(r) \in Present
                            /\ files'[r] = files[before(r)]
    BY <1>0, <1>6, MoveShape
  <2>2. \A r, s \in Present' : before(r) = before(s) => r = s
    BY <2>1
  <2> HIDE DEF before
  <2>3. TimesInv'
    BY <2>1, <2>2 DEF IInv, TimesInv
  <2>4. JobInv' /\ ClearedInv'
    <3>1. OldOrNew
      BY <2>1 DEF OldOrNew
    <3> QED BY <1>0, <1>6, <3>1, NothingChangesInPlace DEF Move, detector, IInv
  <2> QED BY <1>0, <2>3, <2>4 DEF IInv
<1>7. ASSUME NEW p \in Paths, Delete(p) PROVE IInv'
  <2>1. \A r \in Present' : r \in Present /\ files'[r] = files[r]
    BY <1>0, <1>7, DeleteShape
  <2>2. TimesInv'
    BY <2>1 DEF IInv, TimesInv
  <2>3. JobInv' /\ ClearedInv'
    <3>1. OldOrNew
      BY <2>1 DEF OldOrNew
    <3> QED BY <1>0, <1>7, <3>1, NothingChangesInPlace DEF Delete, detector, IInv
  <2> QED BY <1>0, <2>2, <2>3 DEF IInv
<1>8. CASE UNCHANGED vars
  BY <1>0, <1>8, SameFiles DEF vars, volume, IInv
<1> QED
  BY <1>1, <1>2, <1>3, <1>4, <1>5, <1>6, <1>7, <1>8 DEF Next, Run

(* The walk never passes over a bomb for what it has noted, whatever is    *)
(* written, moved, deleted and restarted between any two of its steps:     *)
(* only where something else, or nothing, was read than was noted.         *)
THEOREM WhatIsClearedIsHarmless == Spec => []ClearedIsHarmless
<1>1. Init => IInv
  BY InitIInv
<1>2. IInv /\ [Next]_vars => IInv'
  BY NextIInv
<1>3. IInv => ClearedIsHarmless
  <2> SUFFICES ASSUME IInv, NEW p \in DOMAIN cleared \ blind, files[p].mtime = cleared[p]
               PROVE  ~Bomb(p)
    BY DEF ClearedIsHarmless
  <2>1. p \in Paths /\ cleared[p] # 0
    BY DEF IInv, TypeInv, TypeOK
  <2>2. p \in Present
    BY <2>1 DEF Present, NoFile
  <2>3. ~WouldBeBomb(p, files[p])
    BY <2>2 DEF IInv, ClearedInv
  <2> QED BY <2>3 DEF Bomb, WouldBeBomb, Declared
<1> QED BY <1>1, <1>2, <1>3, PTL DEF Spec
===============================================================================
