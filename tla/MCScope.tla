------------------------------- MODULE MCScope -------------------------------
(***************************************************************************)
(* Small instances of Scope: addresses of two bytes of two bits each, a    *)
(* notation of each kind, and the ranges in which a carry, a mask or the   *)
(* end of the address space matters.                                       *)
(***************************************************************************)
EXTENDS Scope

CONSTANTS d1, d2, product, version, path1

Single(b) == [kind |-> "single", ip |-> b]
Bounds(b, c) == [kind |-> "bounds", from |-> b, to |-> c]
CIDR(b, n) == [kind |-> "cidr", ip |-> b, ones |-> n]

Carry == Bounds(<<0, 2>>, <<1, 1>>)
Backwards == Bounds(<<2, 0>>, <<1, 3>>)
LastTwo == Bounds(<<3, 2>>, <<3, 3>>)
HostPart == CIDR(<<1, 2>>, 1)
LowBits == CIDR(<<3, 3>>, 3)
One == CIDR(<<1, 0>>, 4)

Ranges1 == {Single(<<1, 0>>), Single(<<>>), Carry, Backwards, LastTwo, HostPart, LowBits, One}

MCIP == {<<1, 0>>, <<3, 3>>, <<>>}
MCAnswers == [d \in Domain |-> IF d = d1 THEN {<<1, 0>>, <<>>} ELSE {<<3, 3>>}]
NoVserver == [n \in Name |-> None]

MCConfig ==
    [ips : {<<>>} \cup {<<r>> : r \in Ranges1} \cup {<<r, s>> : r \in {Carry, LowBits}, s \in Ranges1},
     excludedIPs : {<<>>} \cup {<<r>> : r \in {Single(<<1, 0>>), LastTwo, HostPart}},
     domains : {<<>>, <<d1>>},
     excludedDomains : {<<>>, <<d2>>},
     domainlist : {<<d2>>, <<d2, d1>>}]

Art(type, value, ip) ==
    [type |-> type, value |-> value, port |-> None, ip |-> ip, url |-> None, version |-> None]

(* Without ips, with a list of domains, and with an excluded domain.       *)
WithoutIPs ==
    {[ips |-> <<>>, excludedIPs |-> <<>>, domains |-> <<d1>>, excludedDomains |-> <<d2>>,
      domainlist |-> <<>>]}
OfExcluded == {Art("host", d2, <<3, 3>>)}

MCAsked == {Art("domain", d1, None), Art("ip", <<1, 0>>, None), Art("host", d2, <<3, 3>>)}
=============================================================================
