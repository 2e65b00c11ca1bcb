------------------------------- MODULE MCEgress -------------------------------
(* Loads for TLC: silence, a slow trickle, a few large packets, many small *)
(* ones.                                                                   *)
EXTENDS Egress, TLC

MixedLoads == {<<0, 0>>, <<1, 1>>, <<1, 4>>, <<2, 2>>}

ContainerSymmetry == Permutations(Containers)

(* The hypothesis of the theorem about FlaggedIffFlooding.                 *)
ASSUME CountersDoNotWrap == NothingWraps(4)
===============================================================================
