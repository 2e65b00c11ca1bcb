------------------------------ MODULE MCResponse ------------------------------
(* Servers on pages of one each.  The container "game" belongs to the      *)
(* second server, is named by its short identifier and labelled with its   *)
(* uuid; the container "tool" belongs to nobody, has no label, and its     *)
(* name begins the first server's uuid.                                    *)
EXTENDS Response

Names  == [c \in Containers |-> IF c = "game" THEN <<2, 2>> ELSE <<1>>]
Labels == [c \in Containers |-> IF c = "game" THEN <<2, 2, 3>> ELSE NoValue]
Uuids  == [s \in Servers |-> <<s, s, 3>>]
Idents == [s \in Servers |-> <<s, s>>]
Owners == [c \in Containers |-> IF c = "game" THEN 2 ELSE NoServer]

(* The hypotheses of the theorem about OnlyTheOffendingServer.             *)
ASSUME ServersAreToldApart == WingsNames /\ UuidsTellApart
===============================================================================
