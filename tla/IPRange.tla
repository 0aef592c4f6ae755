------------------------------- MODULE IPRange -------------------------------
(***************************************************************************)
(* Ranges of IP addresses (pkg/iprange/iprange.go).  The code compares     *)
(* only what To4 leaves of an address: the bytes of an IPv4 address, and   *)
(* nothing, here <<>>, of any other.  It increments the slice as it is, so *)
(* an address also has a form: "v4" is a slice of four bytes, which only   *)
(* CIDR notation yields, "mapped" an IPv4 address in sixteen bytes, which  *)
(* ParseIP yields, and "v6" all that is no IPv4 address.                   *)
(***************************************************************************)
EXTENDS Integers, Sequences

CONSTANTS
    Width,  \* bytes of an IPv4 address (4)
    Bits    \* bits of a byte (8)

ASSUME IPRangeAssumption == Width \in Nat \ {0} /\ Bits \in Nat \ {0}

(* The laws of powers; the provers know none.                              *)
ASSUME PowersAssumption ==
    /\ 2^0 = 1
    /\ \A m, n \in 0..Width * Bits :
          /\ 2^m \in Nat \ {0}
          /\ m + n <= Width * Bits => 2^(m + n) = 2^m * 2^n

Base == 2^Bits
Bytes == [1..Width -> 0..Base - 1]
Address == [form : {"v4", "mapped"}, bytes : Bytes]
           \cup [form : {"v6"}, bytes : {<<>>}]

NoIP == [form |-> "nil", bytes |-> <<>>]
ParseIP(b) == [form |-> IF b = <<>> THEN "v6" ELSE "mapped", bytes |-> b]

(* How the operator writes a range; ones is the length of a prefix.  An    *)
(* IPv6 range contains nothing in any notation: one of them is enough.     *)
Notation == [kind : {"cidr"}, ip : Bytes, ones : 0..Width * Bits]
            \cup [kind : {"bounds"}, from : Bytes, to : Bytes]
            \cup [kind : {"single"}, ip : Bytes \cup {<<>>}]

-----------------------------------------------------------------------------
(* Variant: the bytes are compared one by one, not in order.               *)
AtMost_Bytewise(a, b) ==
    \/ a = <<>>
    \/ <<>> \notin {a, b} /\ \A i \in 1..Width : a[i] <= b[i]

(* bytes.Compare(a, b) <= 0, where nil comes before everything.            *)
AtMost(a, b) ==
    \/ a \in {<<>>, b}
    \/ /\ <<>> \notin {a, b}
       /\ \E i \in 1..Width : a[i] < b[i] /\ \A j \in 1..i - 1 : a[j] = b[j]

RangeContains(r, ip) ==
    /\ ip.bytes # <<>>
    /\ AtMost(r.start.bytes, ip.bytes)
    /\ AtMost(ip.bytes, r.end.bytes)

(* The last byte that is not at its maximum is incremented, the bytes      *)
(* after it wrap to zero.  If there is none, four bytes start again at     *)
(* zero, while sixteen carry into the prefix that makes them IPv4.         *)
Increment(ip) ==
    LET free == {i \in 1..Width : ip.bytes[i] # Base - 1}
        k == IF free = {} THEN 0 ELSE CHOOSE i \in free : \A j \in free : j <= i
    IN  IF k = 0 /\ ip.form = "mapped"
        THEN [form |-> "v6", bytes |-> <<>>]
        ELSE [ip EXCEPT !.bytes = [i \in 1..Width |->
                 IF i < k THEN @[i] ELSE IF i = k THEN @[i] + 1 ELSE 0]]

(* Variant: the carry out of the last byte is forgotten.                   *)
NextIP_NoCarry(r, ip) ==
    LET next == [ip EXCEPT !.bytes[Width] = (@ + 1) % Base]
    IN  IF RangeContains(r, next) THEN next ELSE NoIP

NextIP(r, ip) == IF RangeContains(r, Increment(ip)) THEN Increment(ip) ELSE NoIP

First(r) == IF RangeContains(r, r.start) THEN r.start ELSE NoIP

-----------------------------------------------------------------------------
(* In byte i the first ones - Bits * (i - 1) bits are kept: a block of     *)
(* 2^(the other bits) values.                                              *)
Block(i, ones) ==
    LET kept == ones - Bits * (i - 1)
    IN  2^(IF kept <= 0 THEN Bits ELSE IF kept >= Bits THEN 0 ELSE Bits - kept)

newIPRangeFromCIDR(n) ==
    LET low == [i \in 1..Width |-> n.ip[i] - (n.ip[i] % Block(i, n.ones))]
        high == [i \in 1..Width |-> low[i] + Block(i, n.ones) - 1]
    IN  [start |-> [form |-> "v4", bytes |-> low],
         end |-> [form |-> "v4", bytes |-> high]]

newIPRangeFromIPRange(n) == [start |-> ParseIP(n.from), end |-> ParseIP(n.to)]

newIPRangeFromSingleIP(n) == [start |-> ParseIP(n.ip), end |-> ParseIP(n.ip)]

(* A malformed string ends the program at start-up (log.Fatalf).           *)
NewIPRangeFromString(n) ==
    CASE n.kind = "cidr" -> newIPRangeFromCIDR(n)
      [] n.kind = "bounds" -> newIPRangeFromIPRange(n)
      [] n.kind = "single" -> newIPRangeFromSingleIP(n)
=============================================================================
