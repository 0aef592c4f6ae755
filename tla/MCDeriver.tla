------------------------------ MODULE MCDeriver ------------------------------
(***************************************************************************)
(* A small instance of Deriver: two domains that may share an address or   *)
(* move between two, and hosts of an address and of a domain.              *)
(***************************************************************************)
EXTENDS Deriver

CONSTANTS d1, d2, ip1, ip2, p1

MCInputs == [deriver |-> {"host", "domain"}]
MCAnswers == [d \in Domain |-> IF d = d1 THEN {ip1} ELSE {ip1, ip2}]

Dom(d) == [type |-> "domain", name |-> d, port |-> None]
Host(n, p) == [type |-> "host", name |-> n, port |-> p]

MCGiven == {Dom(d1), Dom(d2), Host(d2, p1), Host(ip1, p1)}
=============================================================================
