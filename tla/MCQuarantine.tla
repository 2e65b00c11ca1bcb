----------------------------- MODULE MCQuarantine -----------------------------
(* Two volumes; archives with names of their own, or with the same name.   *)
EXTENDS Quarantine

OwnNames  == [p \in Paths |-> p]
SameNames == [p \in Paths |-> "world.zip"]
===============================================================================
