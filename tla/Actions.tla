------------------------------- MODULE Actions --------------------------------
(***************************************************************************)
(* The enforcement registry: which actions exist under a configuration,    *)
(* what each of them is aimed at for a given finding, and which findings   *)
(* stop being true once the target has been struck.                        *)
(***************************************************************************)
EXTENDS SecurityEvents

CONSTANTS
  DockerActions,      \* actions.docker.enabled
  DockerUp,           \* Docker answered the ping at start-up (the client is not nil)
  FileActions,        \* actions.file.enabled
  PteroActions,       \* actions.pterodactyl.enabled
  DryRun              \* general.dry_run

ASSUME ActionsAssumption ==
  {DockerActions, DockerUp, FileActions, PteroActions, DryRun} \subseteq BOOLEAN

Registry ==
  {"kill_process", "neutralize"}
    \cup (IF DockerActions /\ DockerUp THEN {"kill_container", "stop_container"} ELSE {})
    \cup (IF FileActions  THEN {"quarantine_file", "delete_file"} ELSE {})
    \cup (IF PteroActions THEN {"suspend_server"} ELSE {})

NoTarget == <<"none", NoValue>>

OnContainer(ev) == IF ev.containerID # NoValue THEN <<"container", ev.containerID>> ELSE NoTarget
OnProcess(ev)   == IF ev.pid > 1 THEN <<"pid", ev.pid>> ELSE NoTarget
OnFile(ev)      == IF ev.path # NoValue THEN <<"path", ev.path>> ELSE NoTarget
(* The key sent to the panel is the server, else the container's name; one *)
(* field stands for whichever there is.  A finding may have it without a   *)
(* container (an archive: the server is in its path), and a container      *)
(* without it (one the resolver did not know) or without a pid (a rate).   *)
OnServer(ev)    == IF ev.server # NoValue THEN <<"server", ev.server>> ELSE NoTarget

Neutralize(ev) ==
  IF ev.containerID # NoValue /\ DockerUp THEN OnContainer(ev) ELSE OnProcess(ev)

(* NoTarget stands for a refusal and for suspend_server's quiet success.   *)
Target(name, ev) ==
  CASE name \in {"kill_container", "stop_container"} -> OnContainer(ev)
    [] name \in {"quarantine_file", "delete_file"}   -> OnFile(ev)
    [] name = "kill_process"                         -> OnProcess(ev)
    [] name = "neutralize"                           -> Neutralize(ev)
    [] name = "suspend_server"                       -> OnServer(ev)
    [] OTHER                                         -> NoTarget

(* Calls over HTTP are given the daemon's context, system calls are not.   *)
UsesContext(target) == target[1] \in {"container", "server"}

(* Can the registry execute the action at all?  In a dry run it only logs. *)
Executes(name, ev, cancelled) ==
  /\ name \in Registry
  /\ ~DryRun
  /\ Target(name, ev) # NoTarget
  /\ ~(cancelled /\ UsesContext(Target(name, ev)))

(* The world: a finding about a file holds while the file is there; any    *)
(* other holds while its process, container and server run.                *)
Ends(target, ev) ==
  target \in IF ev.path # NoValue
               THEN {OnFile(ev)}
               ELSE {OnContainer(ev), OnProcess(ev), OnServer(ev)}
===============================================================================
