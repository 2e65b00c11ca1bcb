------------------------------ MODULE MCPortScan ------------------------------
(* Destinations for TLC: two ports of one host and a second host.          *)
EXTENDS PortScan

ThreeDests == {<<22, "h1">>, <<80, "h1">>, <<80, "h2">>}
===============================================================================
