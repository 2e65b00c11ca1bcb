------------------------------- MODULE MCMiner -------------------------------
(* Programs for TLC: one that bears nothing, one with every mark.          *)
EXTENDS Miner

PlainAndMarked == {{}, {"name", "pool"}}
===============================================================================
