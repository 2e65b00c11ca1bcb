------------------------------ MODULE Quarantine ------------------------------
(***************************************************************************)
(* quarantine_file, one system call at a time: the archive is moved into   *)
(* the quarantine directory under <unix second>_<base name>, by rename, or *)
(* by copy and remove when rename fails, and loses its permissions.  The   *)
(* daemon may crash between two calls; calls may fail; the owner of the    *)
(* volume goes on writing files.                                           *)
(***************************************************************************)
EXTENDS Naturals, FiniteSets

CONSTANTS
  Paths,           \* paths an archive is found at
  Base,            \* [Paths -> base names]
  Payloads,        \* contents of files
  CloseMayFail,    \* the file system may report a lost write only at close
  MaxNow           \* bound: seconds the clock shows

Absent  == "absent"
Partial == "partial"       \* an empty or incomplete copy

ASSUME QuarantineAssumption ==
  /\ {Absent, Partial} \cap Payloads = {}
  /\ CloseMayFail \in BOOLEAN
  /\ MaxNow \in Nat

VARIABLES
  now,             \* the wall clock, in seconds
  files,           \* path -> payload or Absent
  vault,           \* quarantine directory: <<second, base name>> -> [payload, sealed]
  step,            \* the next system call of the action
  path, dest,      \* its argument and its destination
  lastRun,         \* path -> second of its last quarantine
  flagged,         \* history: payloads the action was run for
  unreported       \* history: payloads whose copy was lost at an unchecked close

vars == <<now, files, vault, step, path, dest, lastRun, flagged, unreported>>
call == <<path, dest, lastRun, flagged, unreported>>

Names == {<<s, Base[p]>> : s \in 0..MaxNow, p \in Paths}

Put(d, payload, sealed) ==
  [e \in DOMAIN vault \cup {d} |->
     IF e = d THEN [payload |-> payload, sealed |-> sealed] ELSE vault[e]]

Init ==
  /\ now = 0
  /\ files \in [Paths -> Payloads \cup {Absent}]
  /\ \A p, q \in Paths : files[p] = files[q] => p = q \/ files[p] = Absent
  /\ vault = [d \in {} |-> 0]
  /\ step = "idle"
  /\ path \in Paths /\ dest = <<0, Base[path]>>
  /\ lastRun = [p \in Paths |-> 0]
  /\ flagged = {} /\ unreported = {}

-------------------------------------------------------------------------------
(* Execute.                                                                *)

(* Mutant: the destination is named before the call asks for the clock.    *)
MutBegin(p) ==
  /\ step = "idle"
  /\ files[p] # Absent
  /\ lastRun[p] < now
  /\ path' = p
  /\ dest' = <<now + 1, Base[p]>>
  /\ lastRun' = [lastRun EXCEPT ![p] = now]
  /\ flagged' = flagged \cup {files[p]}
  /\ step' = "rename"
  /\ UNCHANGED <<now, files, vault, unreported>>

(* The engine runs the action for a file the detector just saw; the        *)
(* cooldown keeps the same path from being handled twice in one second.    *)
Begin(p) ==
  /\ step = "idle"
  /\ files[p] # Absent
  /\ lastRun[p] < now
  /\ path' = p
  /\ dest' = <<now, Base[p]>>
  /\ lastRun' = [lastRun EXCEPT ![p] = now]
  /\ flagged' = flagged \cup {files[p]}
  /\ step' = "rename"
  /\ UNCHANGED <<now, files, vault, unreported>>

(* os.Rename replaces whatever has the destination's name.                 *)
Rename ==
  /\ step = "rename"
  /\ files[path] # Absent
  /\ vault' = Put(dest, files[path], FALSE)
  /\ files' = [files EXCEPT ![path] = Absent]
  /\ step' = "chmod"
  /\ UNCHANGED <<now, call>>

(* Another file system, or the file is gone.                               *)
RenameFails ==
  /\ step = "rename"
  /\ step' = "open"
  /\ UNCHANGED <<now, files, vault, call>>

(* Opens both ends; the destination is created or truncated.               *)
Open ==
  /\ step = "open"
  /\ files[path] # Absent
  /\ vault' = Put(dest, Partial, FALSE)
  /\ step' = "copy"
  /\ UNCHANGED <<now, files, call>>

(* Mutant: the source is removed also when the copy has failed.            *)
MutFails ==
  /\ step \in {"open", "copy", "remove"}
  /\ step' = IF step = "copy" THEN "remove" ELSE "idle"
  /\ UNCHANGED <<now, files, vault, call>>

(* A failure ends the action with an error; what is on disk stays.         *)
Fails ==
  /\ step \in {"open", "copy", "remove"}
  /\ step' = "idle"
  /\ UNCHANGED <<now, files, vault, call>>

(* io.Copy from the file that was opened.                                  *)
Copy ==
  /\ step = "copy"
  /\ vault' = Put(dest, files[path], FALSE)
  /\ files[path] # Absent
  /\ step' = "remove"
  /\ UNCHANGED <<now, files, call>>

(* The error of out.Close is not looked at.                                *)
CopyIsLost ==
  /\ CloseMayFail
  /\ step = "copy"
  /\ unreported' = unreported \cup {files[path]}
  /\ step' = "remove"
  /\ UNCHANGED <<now, files, vault, path, dest, lastRun, flagged>>

Remove ==
  /\ step = "remove"
  /\ files' = [files EXCEPT ![path] = Absent]
  /\ step' = "chmod"
  /\ UNCHANGED <<now, vault, call>>

Chmod ==
  /\ step = "chmod"
  /\ vault' = [vault EXCEPT ![dest].sealed = TRUE]
  /\ step' = "idle"
  /\ UNCHANGED <<now, files, call>>

-------------------------------------------------------------------------------
Crash ==
  /\ step # "idle"
  /\ step' = "idle"
  /\ UNCHANGED <<now, files, vault, call>>

Tick ==
  /\ now < MaxNow
  /\ now' = now + 1
  /\ UNCHANGED <<files, vault, step, call>>

(* The owner of the volume uploads a file nobody has seen yet.             *)
Upload(p, c) ==
  /\ files[p] = Absent
  /\ \A q \in Paths : files[q] # c
  /\ c \notin flagged
  /\ files' = [files EXCEPT ![p] = c]
  /\ UNCHANGED <<now, vault, step, call>>

(* No archive is in hand; the daemon waits for the next scan.              *)
Wait == step = "idle" /\ UNCHANGED vars

Next ==
  \/ Wait
  \/ \E p \in Paths : Begin(p)
  \/ Rename \/ RenameFails \/ Open \/ Fails \/ Copy \/ CopyIsLost \/ Remove \/ Chmod
  \/ Crash \/ Tick
  \/ \E p \in Paths, c \in Payloads : Upload(p, c)

Spec == Init /\ [][Next]_vars

-------------------------------------------------------------------------------
TypeOK ==
  /\ now \in 0..MaxNow
  /\ files \in [Paths -> Payloads \cup {Absent}]
  /\ DOMAIN vault \subseteq Names
  /\ vault \in [DOMAIN vault -> [payload : Payloads \cup {Partial}, sealed : BOOLEAN]]
  /\ step \in {"idle", "rename", "open", "copy", "remove", "chmod"}
  /\ path \in Paths /\ dest \in Names
  /\ lastRun \in [Paths -> 0..MaxNow]
  /\ flagged \subseteq Payloads /\ unreported \subseteq Payloads

Kept(c) == \/ \E p \in Paths : files[p] = c
           \/ \E d \in DOMAIN vault : vault[d].payload = c

(* At every moment, crashes and failed calls included, a payload the       *)
(* action was run for is whole in its place or whole in the quarantine     *)
(* directory; only a write error that shows at close can lose it.          *)
EvidenceKept == \A c \in flagged \ unreported : Kept(c)

(* Quarantine "preserves evidence" (README, file.go): without exception.   *)
PreservesEvidence == \A c \in flagged : Kept(c)
===============================================================================
