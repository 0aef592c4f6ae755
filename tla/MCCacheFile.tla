----------------------------- MODULE MCCacheFile -----------------------------
(***************************************************************************)
(* A small instance of CacheFile: the two goroutines of the program, and   *)
(* two domains, one of which moves between two addresses.                  *)
(***************************************************************************)
EXTENDS CacheFile

CONSTANTS d1, d2, ip1, ip2

MCAnswers == [d \in Domain |-> IF d = d1 THEN {ip1} ELSE {ip1, ip2}]
=============================================================================
