------------------------------- MODULE ZipSweep -------------------------------
(***************************************************************************)
(* The zip-bomb detector: a run looks at the archives of processes that    *)
(* seem to be extracting, and, when an interval has passed, walks all      *)
(* archives of the volumes.  The walk remembers the modification time of   *)
(* what it found harmless and passes it over from then on.  Owners of the  *)
(* volumes write, move and delete archives between any two system calls.   *)
(*                                                                         *)
(* Which processes seem to be extracting is left open.                     *)
(***************************************************************************)
EXTENDS Naturals

CONSTANTS
  Paths,           \* archives a volume may hold
  Gzips,           \* those of them that are gzip files
  Contents,        \* what may be in one: <<its size, the size it expands to>>
  Ratio,           \* ratio_threshold
  MaxUncompressed,
  Word,            \* 2^w, of which a gzip trailer keeps the remainder
  MaxWrites        \* bound: archives written

ASSUME ZipAssumption ==
  /\ Gzips \subseteq Paths /\ Contents \subseteq Nat \X Nat
  /\ {Ratio, MaxUncompressed, Word} \subseteq Nat \ {0} /\ MaxWrites \in Nat

NoFile == [size |-> 0, expands |-> 0, mtime |-> 0]
NoJob  == [path |-> "none", size |-> 0, mtime |-> 0]

VARIABLES
  files,           \* path -> archive or NoFile
  writes,          \* archives written so far: every one has its own time
  phase,           \* of the detector: "idle", "hot", "sweep"
  todo,            \* paths it has listed and not looked at
  job,             \* the archive it has the file info of: [path, size, mtime]
  due,             \* full_scan_interval has passed since the last walk
  cleared,         \* path -> modification time
  reports,         \* paths this run has found bombs at
  blind            \* history: paths whose time in cleared is not the time of
                   \*   what was read when it was noted

volume == <<files, writes>>
vars   == <<volume, phase, todo, job, due, cleared, reports, blind>>

Present == {p \in Paths : files[p] # NoFile}

Init ==
  /\ files = [p \in Paths |-> NoFile] /\ writes = 0
  /\ phase = "idle" /\ todo = {} /\ job = NoJob /\ due = TRUE
  /\ cleared = [p \in {} |-> 0]
  /\ reports = {} /\ blind = {}

-------------------------------------------------------------------------------
(* inspect.  The compressed size is the file info's; the other is read     *)
(* from the archive later, and is 0 when the archive cannot be opened.     *)

Declared(p) == IF p \in Gzips THEN files[p].expands % Word ELSE files[p].expands

LooksLikeBomb(size, uncompressed) ==
  /\ size > 0 /\ uncompressed > 0
  /\ uncompressed >= Ratio * size \/ uncompressed >= MaxUncompressed

-------------------------------------------------------------------------------
(* Run.                                                                    *)

(* Any archives may be open in a process that seems to extract, or lie in  *)
(* its working directory.                                                  *)
HotScan ==
  /\ phase = "idle"
  /\ phase' = "hot" /\ todo' \in SUBSET Present
  /\ UNCHANGED <<volume, job, due, cleared, reports, blind>>

(* Directories are read one after another, so the walk may also come to    *)
(* archives that are not there yet when it begins.                         *)
FullSweep ==
  /\ phase = "hot" /\ todo = {} /\ job = NoJob /\ due
  /\ phase' = "sweep" /\ due' = FALSE
  /\ \E later \in SUBSET Paths : todo' = Present \cup later
  /\ UNCHANGED <<volume, job, cleared, reports, blind>>

(* Mutant: what is not newer than what was cleared is passed over.         *)
MutPassedOver(p) ==
  phase = "sweep" /\ p \in DOMAIN cleared /\ cleared[p] >= files[p].mtime

(* The hot scan does not ask what the walk has cleared.                    *)
PassedOver(p) ==
  phase = "sweep" /\ p \in DOMAIN cleared /\ cleared[p] = files[p].mtime

Stat(p) ==
  /\ job = NoJob /\ p \in todo
  /\ todo' = todo \ {p}
  /\ job' = IF p \notin Present \/ PassedOver(p) THEN NoJob
            ELSE [path |-> p, size |-> files[p].size, mtime |-> files[p].mtime]
  /\ UNCHANGED <<volume, phase, due, cleared, reports, blind>>

(* Mutant: noted is the time of the inspection.                            *)
MutStamp == writes + 1

(* Mutant: the file is asked for its time again when it has been read.     *)
MutStampLate == files[job.path].mtime

Stamp == job.mtime

(* Only the walk notes what it finds harmless.  An archive that cannot be  *)
(* opened counts as one; an empty one need not be opened.                  *)
Inspect(opened) ==
  LET p == job.path IN
  /\ job # NoJob /\ (job.size = 0 => opened)
  /\ job' = NoJob
  /\ IF p \in Present /\ opened /\ LooksLikeBomb(job.size, Declared(p))
     THEN /\ reports' = reports \cup {p}
          /\ UNCHANGED <<cleared, blind>>
     ELSE /\ UNCHANGED reports
          /\ IF phase = "sweep"
             THEN /\ cleared' = [q \in DOMAIN cleared \cup {p} |-> IF q = p THEN Stamp ELSE cleared[q]]
                  /\ blind' = IF opened /\ files[p].mtime = Stamp THEN blind \ {p} ELSE blind \cup {p}
             ELSE UNCHANGED <<cleared, blind>>
  /\ UNCHANGED <<volume, phase, todo, due>>

EndRun ==
  /\ todo = {} /\ job = NoJob
  /\ phase = "sweep" \/ (phase = "hot" /\ ~due)
  /\ phase' = "idle" /\ reports' = {}
  /\ UNCHANGED <<volume, todo, job, due, cleared, blind>>

Elapse ==
  /\ ~due /\ due' = TRUE
  /\ UNCHANGED <<volume, phase, todo, job, cleared, reports, blind>>

(* The daemon is stopped or crashes, and starts again.                     *)
Restart ==
  /\ phase' = "idle" /\ todo' = {} /\ job' = NoJob /\ due' = TRUE
  /\ cleared' = [p \in {} |-> 0] /\ reports' = {} /\ blind' = {}
  /\ UNCHANGED volume

-------------------------------------------------------------------------------
(* The volumes' owners.                                                    *)

detector == <<phase, todo, job, due, cleared, reports, blind>>

Write(p, c) ==
  /\ writes < MaxWrites
  /\ writes' = writes + 1
  /\ files' = [files EXCEPT ![p] = [size |-> c[1], expands |-> c[2], mtime |-> writes']]
  /\ UNCHANGED detector

(* An archive keeps its time when it is moved.                             *)
Move(p, q) ==
  /\ p # q /\ p \in Present
  /\ files' = [files EXCEPT ![p] = NoFile, ![q] = files[p]]
  /\ UNCHANGED <<writes, detector>>

(* By its owner, or by the quarantine.                                     *)
Delete(p) ==
  /\ p \in Present
  /\ files' = [files EXCEPT ![p] = NoFile]
  /\ UNCHANGED <<writes, detector>>

Run ==
  \/ HotScan \/ FullSweep \/ EndRun
  \/ \E p \in Paths : Stat(p)
  \/ \E opened \in BOOLEAN : Inspect(opened)

Next ==
  \/ Run \/ Elapse \/ Restart
  \/ \E p \in Paths : Delete(p) \/ \E c \in Contents : Write(p, c)
  \/ \E p, q \in Paths : Move(p, q)

(* The engine calls the detector again and again, and time passes.         *)
Spec == Init /\ [][Next]_vars /\ WF_vars(Run) /\ WF_vars(Elapse)

-------------------------------------------------------------------------------
Archives == [size : Nat, expands : Nat, mtime : 0 .. MaxWrites]

(* Shapes; only times that files have had are noted.                       *)
TypeOK ==
  /\ files \in [Paths -> Archives] /\ writes \in 0 .. MaxWrites
  /\ phase \in {"idle", "hot", "sweep"} /\ due \in BOOLEAN
  /\ todo \subseteq Paths
  /\ job = NoJob \/ job \in [path : Paths, size : Nat, mtime : 1 .. writes]
  /\ phase = "idle" => todo = {} /\ job = NoJob /\ reports = {}
  /\ DOMAIN cleared \subseteq Paths /\ cleared \in [DOMAIN cleared -> 1 .. writes]
  /\ reports \subseteq Paths /\ blind \subseteq DOMAIN cleared

Bomb(p) == LooksLikeBomb(files[p].size, Declared(p))

(* What the walk passes over is harmless, although archives are written,   *)
(* moved and deleted between the file info and the reading: a bomb is only *)
(* ever passed over where something else, or nothing, was read when the    *)
(* file info was the bomb's.                                               *)
ClearedIsHarmless ==
  \A p \in DOMAIN cleared \ blind :
    files[p].mtime = cleared[p] => ~Bomb(p)

(* The time of the archive at p has been noted although the archive was    *)
(* not read: it could not be opened, or had given way to another one.      *)
Unread(p) == p \in blind /\ cleared[p] = files[p].mtime

(* A bomb that stays where it is is reported again and again (the engine's *)
(* cooldown counts on it), whatever was at its path before, noted or not,  *)
(* wherever it was moved from and whatever else happens, unless the daemon *)
(* is restarted for ever or this very archive was noted unread.            *)
BombsAreCaught ==
  \A p \in Paths :
    \/ []<><<Restart>>_vars
    \/ <>[](p \in Present /\ Bomb(p) /\ ~Unread(p)) => []<>(p \in reports)
===============================================================================
