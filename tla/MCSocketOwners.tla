---------------------------- MODULE MCSocketOwners ----------------------------
(* Two processes that share sockets, two workers, one fd to a job.         *)
EXTENDS SocketOwners

TwoPids == <<7, 8>>
================================================================================
