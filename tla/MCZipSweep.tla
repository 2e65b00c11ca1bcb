------------------------------ MODULE MCZipSweep ------------------------------
(* Archives for TLC: an empty one, a harmless one, one whose size makes it *)
(* look harmless when another's is used with it, and one whose trailer has *)
(* wrapped when it is a gzip file and that is a bomb by size when not.     *)
EXTENDS ZipSweep

MixedContents == {<<0, 0>>, <<2, 3>>, <<1, 4>>, <<3, 17>>}
===============================================================================
