---------------------------- MODULE ScopeProofs ----------------------------
(***************************************************************************)
(* Proofs about the scope: the iteration of a range yields each of its     *)
(* addresses once, and what is published or accepted has a reason.         *)
(***************************************************************************)
EXTENDS Scope, FiniteSetTheorems, WellFoundedInduction, TLAPS

-----------------------------------------------------------------------------
(* Least and greatest indices.                                             *)

Below == {s \in Nat \X Nat : s[1] < s[2]}

LEMMA BelowWellFounded == IsWellFoundedOn(Below, Nat)
BY NatLessThanWellFounded DEF OpToRel, Below

LEMMA Least ==
    ASSUME NEW T \in SUBSET Nat, T # {}
    PROVE  \E m \in T : \A n \in T : m <= n
<1>1. PICK m \in T : \A n \in T : ~(<<n, m>> \in Below)
  BY BelowWellFounded, WFMin
<1>2. \A n \in T : <<n, m>> \in Nat \X Nat
  OBVIOUS
<1>3. \A n \in T : ~(n < m)
  BY <1>1, <1>2 DEF Below
<1> QED
  BY <1>3

LEMMA Greatest ==
    ASSUME NEW bound \in Nat, NEW T \in SUBSET (1..bound), T # {}
    PROVE  \E m \in T : \A n \in T : n <= m
<1> DEFINE S == {bound - n : n \in T}
<1>1. S \in SUBSET Nat /\ S # {}
  OBVIOUS
<1>2. PICK s \in S : \A x \in S : s <= x
  BY <1>1, Least
<1>3. PICK m \in T : s = bound - m
  OBVIOUS
<1>4. \A n \in T : bound - m <= bound - n
  BY <1>2, <1>3
<1> QED
  BY <1>4

-----------------------------------------------------------------------------
(* The order of addresses.                                                 *)

Less(a, b) == \E i \in 1..Width : a[i] < b[i] /\ \A j \in 1..i - 1 : a[j] = b[j]

(* The exponents that occur.                                               *)
LEMMA Exponents ==
    /\ Width * Bits \in Nat
    /\ \A i \in 0..Width : i * Bits \in 0..Width * Bits
    /\ \A k \in 0..Bits : k \in 0..Width * Bits
<1>1. Width \in Nat \ {0} /\ Bits \in Nat \ {0} /\ Width * Bits \in Nat
  BY IPRangeAssumption
<1>2. ASSUME NEW i \in 0..Width PROVE i * Bits \in 0..Width * Bits
  <2>1. i * Bits \in Nat /\ (Width - i) * Bits \in Nat
    BY <1>1
  <2>2. Width * Bits = i * Bits + (Width - i) * Bits
    BY <1>1
  <2> QED
    BY <1>1, <2>1, <2>2
<1>3. 1 * Bits = Bits /\ 1 \in 0..Width
  BY <1>1
<1> QED
  BY <1>1, <1>2, <1>3

LEMMA BaseType == Width \in Nat \ {0} /\ Base \in Nat \ {0}
<1>1. Bits \in 0..Width * Bits
  BY IPRangeAssumption, Exponents
<1> QED
  BY <1>1, IPRangeAssumption, PowersAssumption DEF Base, Bytes

LEMMA NotEmpty == \A a \in Bytes : a # <<>>
<1>1. 1 \in 1..Width
  BY IPRangeAssumption
<1>2. \A a \in Bytes : 1 \in DOMAIN a
  BY <1>1 DEF Bytes
<1>3. 1 \notin DOMAIN <<>>
  OBVIOUS
<1> QED
  BY <1>2, <1>3

LEMMA AtMostLess ==
    ASSUME NEW a \in Bytes, NEW b \in Bytes
    PROVE  AtMost(a, b) <=> a = b \/ Less(a, b)
BY NotEmpty DEF AtMost, Less

LEMMA LessTransitive ==
    ASSUME NEW a \in Bytes, NEW b \in Bytes, NEW c \in Bytes, Less(a, b), Less(b, c)
    PROVE  Less(a, c)
<1>1. PICK i \in 1..Width : a[i] < b[i] /\ \A j \in 1..i - 1 : a[j] = b[j]
  BY DEF Less
<1>2. PICK k \in 1..Width : b[k] < c[k] /\ \A j \in 1..k - 1 : b[j] = c[j]
  BY DEF Less
<1>3. Width \in Nat /\ \A j \in 1..Width : a[j] \in Int /\ b[j] \in Int /\ c[j] \in Int
  BY BaseType DEF Bytes
<1>4. CASE i <= k
  <2>1. a[i] < c[i]
    BY <1>1, <1>2, <1>3, <1>4
  <2>2. \A j \in 1..i - 1 : a[j] = c[j]
    BY <1>1, <1>2, <1>3, <1>4
  <2> QED
    BY <2>1, <2>2 DEF Less
<1>5. CASE k < i
  <2>1. a[k] < c[k]
    BY <1>1, <1>2, <1>3, <1>5
  <2>2. \A j \in 1..k - 1 : a[j] = c[j]
    BY <1>1, <1>2, <1>3, <1>5
  <2> QED
    BY <2>1, <2>2 DEF Less
<1> QED
  BY <1>3, <1>4, <1>5

LEMMA LessIrreflexive == \A a \in Bytes : ~Less(a, a)
BY BaseType DEF Less, Bytes

(* The first index at which two addresses differ.                          *)
LEMMA LessTotal ==
    ASSUME NEW a \in Bytes, NEW b \in Bytes, a # b
    PROVE  Less(a, b) \/ Less(b, a)
<1> DEFINE T == {i \in 1..Width : a[i] # b[i]}
<1>1. Width \in Nat /\ \A j \in 1..Width : a[j] \in Int /\ b[j] \in Int
  BY BaseType DEF Bytes
<1>2. T # {}
  <2> SUFFICES ASSUME \A i \in 1..Width : a[i] = b[i] PROVE a = b
    OBVIOUS
  <2>1. a = [i \in 1..Width |-> a[i]] /\ b = [i \in 1..Width |-> b[i]]
    BY DEF Bytes
  <2> QED
    BY <2>1
<1>3. T \in SUBSET Nat
  BY <1>1
<1>4. PICK i \in T : \A n \in T : i <= n
  BY <1>2, <1>3, Least
<1>5. \A j \in 1..i - 1 : a[j] = b[j]
  BY <1>1, <1>4
<1>6. a[i] < b[i] \/ b[i] < a[i]
  BY <1>1, <1>4
<1> QED
  BY <1>4, <1>5, <1>6 DEF Less

LEMMA AtMostTransitive ==
    ASSUME NEW a \in Bytes, NEW b \in Bytes, NEW c \in Bytes, AtMost(a, b), AtMost(b, c)
    PROVE  AtMost(a, c)
BY AtMostLess, LessTransitive
-----------------------------------------------------------------------------
(* Increment is the successor.                                             *)

Lowest == [i \in 1..Width |-> 0]
Highest == [i \in 1..Width |-> Base - 1]

LEMMA Extremes ==
    /\ Lowest \in Bytes /\ Highest \in Bytes
    /\ \A b \in Bytes : ~Less(b, Lowest) /\ ~Less(Highest, b)
<1>1. Base \in Nat \ {0}
  BY BaseType
<1>2. Lowest \in Bytes /\ Highest \in Bytes
  BY <1>1 DEF Lowest, Highest, Bytes
<1>3. \A b \in Bytes : ~Less(b, Lowest) /\ ~Less(Highest, b)
  BY <1>1 DEF Less, Lowest, Highest, Bytes
<1> QED
  BY <1>2, <1>3

(* The address that follows ip's.                                          *)
Follows(s, b) == Less(b, s) /\ \A c \in Bytes : Less(b, c) => c = s \/ Less(s, c)

LEMMA IncrementFollows ==
    ASSUME NEW ip, NEW b \in Bytes, ip = [form |-> ip.form, bytes |-> b], b # Highest
    PROVE  /\ Increment(ip).form = ip.form
           /\ Increment(ip).bytes \in Bytes
           /\ Follows(Increment(ip).bytes, b)
<1>0. /\ Width \in Nat \ {0} /\ Base \in Nat \ {0}
      /\ \A i \in 1..Width : b[i] \in 0..Base - 1
  BY BaseType DEF Bytes
<1> DEFINE free == {i \in 1..Width : b[i] # Base - 1}
<1>1. free # {}
  <2> SUFFICES ASSUME \A i \in 1..Width : b[i] = Base - 1 PROVE b = Highest
    OBVIOUS
  <2>1. b = [i \in 1..Width |-> b[i]]
    BY DEF Bytes
  <2> QED
    BY <2>1 DEF Highest
<1>2. PICK k : k = CHOOSE i \in free : \A j \in free : j <= i
  OBVIOUS
<1>3. k \in free /\ \A j \in free : j <= k
  <2>1. \E i \in free : \A j \in free : j <= i
    BY <1>0, <1>1, Greatest
  <2> QED
    BY <1>2, <2>1
<1>4. k \in 1..Width /\ k # 0 /\ b[k] < Base - 1 /\ \A j \in 1..Width : k < j => b[j] = Base - 1
  BY <1>0, <1>3
<1> DEFINE s == [i \in 1..Width |-> IF i < k THEN b[i] ELSE IF i = k THEN b[i] + 1 ELSE 0]
<1>5. Increment(ip) = [form |-> ip.form, bytes |-> s]
  <2> DEFINE F == {i \in 1..Width : ip.bytes[i] # Base - 1}
             K == IF F = {} THEN 0 ELSE CHOOSE i \in F : \A j \in F : j <= i
  <2>1. ip.bytes = b
    OBVIOUS
  <2>2. F = free
    BY <2>1
  <2>3. K = k
    BY <1>1, <1>2, <2>2
  <2>4. Increment(ip) =
           IF K = 0 /\ ip.form = "mapped" THEN [form |-> "v6", bytes |-> <<>>]
           ELSE [ip EXCEPT !.bytes = [i \in 1..Width |->
                    IF i < K THEN @[i] ELSE IF i = K THEN @[i] + 1 ELSE 0]]
    BY DEF Increment
  <2> HIDE DEF K
  <2> QED
    BY <1>4, <2>1, <2>3, <2>4
<1>6. s \in Bytes
  BY <1>0, <1>4 DEF Bytes
<1>7. Less(b, s)
  BY <1>0, <1>4 DEF Less
<1>8. ASSUME NEW c \in Bytes, Less(b, c) PROVE c = s \/ Less(s, c)
  <2>1. PICK i \in 1..Width : b[i] < c[i] /\ \A j \in 1..i - 1 : b[j] = c[j]
    BY <1>8 DEF Less
  <2>2. \A j \in 1..Width : c[j] \in 0..Base - 1 /\ s[j] \in 0..Base - 1
    BY <1>6 DEF Bytes
  <2>3. i <= k
    BY <1>0, <1>4, <2>1, <2>2
  <2>4. CASE i < k
    <3>1. s[i] < c[i] /\ \A j \in 1..i - 1 : s[j] = c[j]
      BY <1>0, <1>4, <2>1, <2>4
    <3> QED
      BY <3>1 DEF Less
  <2>5. CASE i = k
    <3>1. /\ s[k] = b[k] + 1 /\ s[k] <= c[k]
          /\ \A j \in 1..k - 1 : s[j] = c[j]
          /\ \A j \in 1..Width : k < j => s[j] = 0
      BY <1>0, <1>4, <2>1, <2>2, <2>5
    <3>2. CASE c = s
      BY <3>2
    <3>3. CASE c # s
      <4>1. s \in Bytes /\ c \in Bytes
        BY <1>6
      <4>2. Less(s, c) \/ Less(c, s)
        BY <3>3, <4>1, LessTotal
      <4>3. ASSUME Less(c, s) PROVE FALSE
        <5>1. PICK m \in 1..Width : c[m] < s[m] /\ \A j \in 1..m - 1 : c[j] = s[j]
          BY <4>3 DEF Less
        <5>2. CASE m = k
          BY <2>2, <3>1, <5>1, <5>2
        <5>3. CASE k < m
          BY <2>2, <3>1, <5>1, <5>3
        <5>4. CASE m < k
          <6>1. m \in 1..k - 1
            BY <1>0, <1>4, <5>4
          <6>2. s[m] = c[m]
            BY <3>1, <6>1
          <6>3. s[m] \in Int /\ c[m] \in Int
            BY <2>2
          <6> QED
            BY <5>1, <6>2, <6>3
        <5> QED
          BY <1>0, <1>4, <5>2, <5>3, <5>4
      <4> QED
        BY <4>2, <4>3
    <3> QED
      BY <3>2, <3>3
  <2> QED
    BY <1>0, <1>4, <2>3, <2>4, <2>5
<1> HIDE DEF s
<1> QED
  BY <1>5, <1>6, <1>7, <1>8 DEF Follows
LEMMA IncrementWraps ==
    ASSUME NEW ip, ip = [form |-> ip.form, bytes |-> Highest]
    PROVE  Increment(ip) = IF ip.form = "mapped" THEN [form |-> "v6", bytes |-> <<>>]
                           ELSE [form |-> ip.form, bytes |-> Lowest]
<1>1. Width \in Nat \ {0} /\ Base \in Nat \ {0}
  BY BaseType
<1> DEFINE F == {i \in 1..Width : ip.bytes[i] # Base - 1}
           K == IF F = {} THEN 0 ELSE CHOOSE i \in F : \A j \in F : j <= i
<1>2. ip.bytes = Highest
  OBVIOUS
<1>3. K = 0
  BY <1>2 DEF Highest
<1>4. Increment(ip) =
         IF K = 0 /\ ip.form = "mapped" THEN [form |-> "v6", bytes |-> <<>>]
         ELSE [ip EXCEPT !.bytes = [i \in 1..Width |->
                  IF i < K THEN @[i] ELSE IF i = K THEN @[i] + 1 ELSE 0]]
  BY DEF Increment
<1> HIDE DEF K
<1>5. CASE ip.form # "mapped"
  <2>1. Increment(ip) = [form |-> ip.form, bytes |-> [i \in 1..Width |->
                 IF i < K THEN Highest[i] ELSE IF i = K THEN Highest[i] + 1 ELSE 0]]
    BY <1>2, <1>4, <1>5
  <2>2. [i \in 1..Width |-> IF i < K THEN Highest[i] ELSE IF i = K THEN Highest[i] + 1 ELSE 0] = Lowest
    BY <1>1, <1>3 DEF Lowest
  <2> QED
    BY <1>5, <2>1, <2>2
<1> QED
  BY <1>3, <1>4, <1>5

-----------------------------------------------------------------------------
(* Ranges.                                                                 *)

(* Both ends are addresses, or none is; then nothing is in the range.      *)
RangeType(r) ==
    /\ r.start = [form |-> r.start.form, bytes |-> r.start.bytes]
    /\ r.start.form \in {"v4", "mapped", "v6"}
    /\ \/ r.start.bytes \in Bytes /\ r.end.bytes \in Bytes
       \/ r.start.bytes = <<>> /\ r.end.bytes = <<>>

(* A block of a byte divides Base, and the part of the address up to byte  *)
(* i has blocks of Size(i, ones).                                          *)
Divides(m, B) == \E k \in Nat : B = k * m
Cut(p, m) == p - (p % m)
Within(x, q, S) == q * S <= x /\ x <= q * S + S - 1
Grows(S, T, m, B) ==
    \/ m = B /\ T = S * B
    \/ S = 1 /\ T = m

Size(i, ones) == 2^(IF i * Bits > ones THEN i * Bits - ones ELSE 0)

LEMMA BlockSize ==
    ASSUME NEW ones \in 0..Width * Bits, NEW i \in 1..Width
    PROVE  /\ Block(i, ones) \in Nat \ {0}
           /\ Size(i - 1, ones) \in Nat \ {0} /\ Size(i, ones) \in Nat \ {0}
           /\ Divides(Block(i, ones), Base)
           /\ Grows(Size(i - 1, ones), Size(i, ones), Block(i, ones), Base)
<1> DEFINE all == Width * Bits
           before == (i - 1) * Bits
           after == i * Bits
           saved == ones - Bits * (i - 1)
           free == IF saved <= 0 THEN Bits ELSE IF saved >= Bits THEN 0 ELSE Bits - saved
           small == IF before > ones THEN before - ones ELSE 0
           large == IF after > ones THEN after - ones ELSE 0
<1>1. /\ Width \in Nat \ {0} /\ Bits \in Nat \ {0} /\ all \in Nat
      /\ before \in 0..all /\ after \in 0..all /\ Bits \in 0..all
      /\ after = before + Bits /\ saved = ones - before
  <2>1. Width \in Nat \ {0} /\ Bits \in Nat \ {0} /\ i - 1 \in 0..Width /\ i \in 0..Width
    BY IPRangeAssumption
  <2>2. after = before + Bits /\ saved = ones - before
    BY <2>1
  <2> QED
    BY <2>1, <2>2, Exponents
<1>2. Block(i, ones) = 2^free /\ Size(i - 1, ones) = 2^small /\ Size(i, ones) = 2^large
  BY DEF Block, Size
<1> HIDE DEF before, after, saved, all
<1>3. free \in 0..Bits /\ Bits - free \in 0..Bits /\ small \in 0..all /\ large \in 0..all
  BY <1>1
<1>4. \/ free = Bits /\ large = small + Bits
      \/ small = 0 /\ large = free
  BY <1>1
<1> HIDE DEF free, small, large
<1>5. free \in 0..all /\ Bits - free \in 0..all
  BY <1>1, <1>3
<1>6. /\ 2^0 = 1
      /\ \A m, n \in 0..all : /\ 2^m \in Nat \ {0}
                              /\ m + n <= all => 2^(m + n) = 2^m * 2^n
  BY PowersAssumption DEF all
<1>7. 2^free \in Nat \ {0} /\ 2^small \in Nat \ {0} /\ 2^large \in Nat \ {0} /\ 2^(Bits - free) \in Nat
  BY <1>3, <1>5, <1>6
<1>8. Base = 2^(Bits - free) * 2^free
  <2>1. (Bits - free) + free = Bits /\ (Bits - free) + free <= all
    BY <1>1, <1>3
  <2>2. 2^((Bits - free) + free) = 2^(Bits - free) * 2^free
    BY <1>5, <1>6, <2>1
  <2> QED
    BY <2>1, <2>2 DEF Base
<1> DEFINE grows == Grows(Size(i - 1, ones), Size(i, ones), Block(i, ones), Base)
<1>9. ASSUME free = Bits, large = small + Bits PROVE grows
  <2>1. 2^(small + Bits) = 2^small * 2^Bits
    BY <1>1, <1>3, <1>6, <1>9
  <2>2. 2^large = 2^small * Base /\ 2^free = Base
    BY <1>9, <2>1 DEF Base
  <2>3. Block(i, ones) = Base /\ Size(i, ones) = Size(i - 1, ones) * Base
    BY <1>2, <2>2
  <2>4. \A S, T, m, B : m = B /\ T = S * B => Grows(S, T, m, B)
    BY DEF Grows
  <2> QED
    BY <2>3, <2>4
<1>10. ASSUME small = 0, large = free PROVE grows
  BY <1>2, <1>6, <1>10 DEF Grows
<1>11. Divides(2^free, Base)
  BY <1>7, <1>8 DEF Divides
<1> QED
  BY <1>2, <1>4, <1>7, <1>9, <1>10, <1>11

LEMMA Truncated ==
    ASSUME NEW m \in Nat \ {0}, NEW B \in Nat, Divides(m, B), NEW p \in 0..B - 1
    PROVE  \E c \in Nat : /\ Cut(p, m) = c * m /\ Within(p, c, m)
                          /\ c * m + m <= B
                          /\ m = B => c = 0
<1> DEFINE c == p \div m
<1>0. PICK k \in Nat : B = k * m
  BY DEF Divides
<1>1. p \in Nat /\ p < B
  OBVIOUS
<1>2. c \in Nat /\ Cut(p, m) = c * m /\ Within(p, c, m)
  BY <1>1 DEF Cut, Within
<1> HIDE DEF c
<1>3. c < k
  BY <1>0, <1>1, <1>2 DEF Within
<1>4. c * m + m <= B
  BY <1>0, <1>2, <1>3
<1>5. m = B => c = 0
  BY <1>2, <1>4
<1> QED
  BY <1>2, <1>4, <1>5 DEF Within

LowEnd(n) == [i \in 1..Width |-> n.ip[i] - (n.ip[i] % Block(i, n.ones))]
HighEnd(n) == [i \in 1..Width |-> LowEnd(n)[i] + Block(i, n.ones) - 1]

LEMMA EndBytes ==
    ASSUME NEW n \in Notation, n.kind = "cidr"
    PROVE  /\ LowEnd(n) \in Bytes /\ HighEnd(n) \in Bytes
           /\ n.ip \in Bytes /\ n.ones \in 0..Width * Bits
<1>1. n.ip \in Bytes /\ n.ones \in 0..Width * Bits /\ Base \in Nat \ {0}
  BY BaseType DEF Notation
<1>2. ASSUME NEW i \in 1..Width
      PROVE  LowEnd(n)[i] \in 0..Base - 1 /\ LowEnd(n)[i] + Block(i, n.ones) - 1 \in 0..Base - 1
  <2> DEFINE m == Block(i, n.ones)
             p == n.ip[i]
  <2>1. m \in Nat \ {0} /\ Divides(m, Base)
    BY <1>1, BlockSize
  <2>2. p \in 0..Base - 1
    BY <1>1 DEF Bytes
  <2>3. LowEnd(n)[i] = Cut(p, m)
    BY DEF LowEnd, Cut
  <2> HIDE DEF m, p
  <2>4. PICK c \in Nat : /\ Cut(p, m) = c * m /\ Within(p, c, m)
                         /\ c * m + m <= Base
                         /\ m = Base => c = 0
    <3>1. Base \in Nat
      BY <1>1
    <3> QED
      BY <2>1, <2>2, <3>1, Truncated
  <2>5. LowEnd(n)[i] \in 0..Base - 1 /\ LowEnd(n)[i] + m - 1 \in 0..Base - 1
    BY <1>1, <2>1, <2>3, <2>4
  <2> QED
    BY <2>5 DEF m
<1>3. LowEnd(n) \in [1..Width -> 0..Base - 1]
  BY <1>2 DEF LowEnd
<1>4. HighEnd(n) \in [1..Width -> 0..Base - 1]
  BY <1>2 DEF HighEnd
<1> QED
  BY <1>1, <1>3, <1>4 DEF Bytes

(* What the three notations are read as.                                   *)
LEMMA NotationType ==
    ASSUME NEW n \in Notation
    PROVE  RangeType(NewIPRangeFromString(n))
<1>0. <<>> \notin Bytes
  BY NotEmpty
<1>1. CASE n.kind = "cidr"
  <2>1. NewIPRangeFromString(n) = [start |-> [form |-> "v4", bytes |-> LowEnd(n)],
                                   end |-> [form |-> "v4", bytes |-> HighEnd(n)]]
    BY <1>1 DEF NewIPRangeFromString, newIPRangeFromCIDR, LowEnd, HighEnd
  <2> QED
    BY <1>1, <2>1, EndBytes DEF RangeType
<1>2. CASE n.kind = "bounds"
  <2>1. n.from \in Bytes /\ n.to \in Bytes
    BY <1>2 DEF Notation
  <2>2. NewIPRangeFromString(n) = [start |-> ParseIP(n.from), end |-> ParseIP(n.to)]
    BY <1>2 DEF NewIPRangeFromString, newIPRangeFromIPRange
  <2> QED
    BY <1>0, <2>1, <2>2 DEF RangeType, ParseIP
<1>3. CASE n.kind = "single"
  <2>1. n.ip \in Bytes \cup {<<>>}
    BY <1>3 DEF Notation
  <2>2. NewIPRangeFromString(n) = [start |-> ParseIP(n.ip), end |-> ParseIP(n.ip)]
    BY <1>3 DEF NewIPRangeFromString, newIPRangeFromSingleIP
  <2> QED
    BY <1>0, <2>1, <2>2 DEF RangeType, ParseIP
<1> QED
  BY <1>1, <1>2, <1>3 DEF Notation

Has(r, b) == RangeContains(r, ParseIP(b))

LEMMA ContainsBytes ==
    ASSUME NEW r, NEW ip
    PROVE  RangeContains(r, ip) <=> Has(r, ip.bytes)
BY DEF Has, RangeContains, ParseIP

LEMMA HasBetween ==
    ASSUME NEW r, RangeType(r), NEW b \in Bytes
    PROVE  Has(r, b) <=> /\ r.start.bytes \in Bytes /\ r.end.bytes \in Bytes
                         /\ AtMost(r.start.bytes, b) /\ AtMost(b, r.end.bytes)
<1>1. b # <<>>
  BY BaseType, NotEmpty
<1>2. Has(r, b) <=> AtMost(r.start.bytes, b) /\ AtMost(b, r.end.bytes)
  BY <1>1 DEF Has, RangeContains, ParseIP
<1>3. r.end.bytes = <<>> => ~AtMost(b, r.end.bytes)
  BY <1>1 DEF AtMost
<1> QED
  BY <1>2, <1>3 DEF RangeType

(* A range that has all addresses, in slices of four bytes: the address    *)
(* after the highest is the lowest, and the iteration starts again.        *)
Endless(r) == r.start.form # "mapped" /\ Has(r, Lowest) /\ Has(r, Highest)

(* What Iterate is at in r.                                                *)
Yields(r, ip) ==
    /\ ip # NoIP
    /\ ip = [form |-> r.start.form, bytes |-> ip.bytes]
    /\ ip.bytes \in Bytes /\ Has(r, ip.bytes)

LEMMA Addressed ==
    ASSUME NEW form, NEW b \in Bytes
    PROVE  [form |-> form, bytes |-> b] # NoIP
<1>1. b # <<>>
  BY BaseType, NotEmpty
<1> QED
  BY <1>1 DEF NoIP

LEMMA FirstYields ==
    ASSUME NEW r, RangeType(r)
    PROVE  /\ First(r) # NoIP => /\ Yields(r, First(r))
                                 /\ \A b \in Bytes : Has(r, b) => ~Less(b, First(r).bytes)
           /\ First(r) = NoIP => \A b \in Bytes : ~Has(r, b)
<1> DEFINE s == r.start.bytes
<1>1. <<>> \notin Bytes
  BY BaseType, NotEmpty
<1>2. CASE Has(r, s)
  <2>1. First(r) = r.start
    BY <1>2, ContainsBytes DEF First
  <2>2. s \in Bytes
    BY <1>2 DEF RangeType, Has, RangeContains, ParseIP
  <2>3. r.start # NoIP
    BY <1>1, <2>2 DEF NoIP
  <2>4. ASSUME NEW b \in Bytes, Has(r, b), Less(b, s) PROVE FALSE
    <3>1. s = b \/ Less(s, b)
      BY <1>1, <2>2, <2>4, HasBetween, AtMostLess
    <3> QED
      BY <1>1, <2>2, <2>4, <3>1, LessTransitive, LessIrreflexive
  <2> QED
    BY <1>2, <2>1, <2>2, <2>3, <2>4 DEF Yields, RangeType
<1>3. CASE ~Has(r, s)
  <2>1. First(r) = NoIP
    BY <1>3, ContainsBytes DEF First
  <2>2. ASSUME NEW b \in Bytes, Has(r, b) PROVE FALSE
    <3>1. /\ s \in Bytes /\ r.end.bytes \in Bytes
          /\ AtMost(s, b) /\ AtMost(b, r.end.bytes)
      BY <2>2, HasBetween
    <3>2. AtMost(s, r.end.bytes) /\ AtMost(s, s)
      BY <1>1, <3>1, AtMostTransitive, AtMostLess
    <3> QED
      BY <1>3, <3>1, <3>2, HasBetween
  <2> QED
    BY <2>1, <2>2
<1> QED
  BY <1>2, <1>3

LEMMA EndlessHasAll ==
    ASSUME NEW r, RangeType(r), Has(r, Lowest), Has(r, Highest)
    PROVE  \A b \in Bytes : Has(r, b)
<1> TAKE b \in Bytes
<1>1. /\ Lowest \in Bytes /\ Highest \in Bytes
      /\ ~Less(b, Lowest) /\ ~Less(Highest, b)
  BY BaseType, Extremes
<1>2. AtMost(Lowest, b) /\ AtMost(b, Highest)
  BY <1>1, LessTotal, AtMostLess
<1>3. /\ r.start.bytes \in Bytes /\ r.end.bytes \in Bytes
      /\ AtMost(r.start.bytes, Lowest) /\ AtMost(Highest, r.end.bytes)
  BY <1>1, HasBetween
<1>4. AtMost(r.start.bytes, b) /\ AtMost(b, r.end.bytes)
  BY <1>1, <1>2, <1>3, AtMostTransitive
<1> QED
  BY <1>3, <1>4, HasBetween

(* An endless range goes on ...                                            *)
LEMMA EndlessYields ==
    ASSUME NEW r, RangeType(r), Endless(r), NEW ip, Yields(r, ip)
    PROVE  Yields(r, NextIP(r, ip))
<1> DEFINE next == Increment(ip)
<1>1. next = [form |-> r.start.form, bytes |-> next.bytes] /\ next.bytes \in Bytes
  <2>1. CASE ip.bytes = Highest
    BY <2>1, IncrementWraps, Extremes DEF Yields, Endless
  <2>2. CASE ip.bytes # Highest
    <3>1. ip = [form |-> ip.form, bytes |-> ip.bytes] /\ ip.form = r.start.form /\ ip.bytes \in Bytes
      BY DEF Yields
    <3>2. next.form = ip.form /\ next.bytes \in Bytes
      BY <2>2, <3>1, IncrementFollows
    <3>3. next = [form |-> next.form, bytes |-> next.bytes]
      BY <3>1 DEF Increment
    <3> QED
      BY <3>1, <3>2, <3>3
  <2> QED
    BY <2>1, <2>2
<1> HIDE DEF next
<1>2. Has(r, next.bytes)
  BY <1>1, EndlessHasAll DEF Endless
<1>3. next # NoIP
  BY <1>1, Addressed
<1>4. NextIP(r, ip) = next
  BY <1>2, ContainsBytes DEF NextIP, next
<1> QED
  BY <1>1, <1>2, <1>3, <1>4 DEF Yields

(* ... and every other goes from an address to the next one in it.         *)
LEMMA NextYields ==
    ASSUME NEW r, RangeType(r), ~Endless(r), NEW ip, Yields(r, ip)
    PROVE  /\ NextIP(r, ip) # NoIP => /\ Yields(r, NextIP(r, ip))
                                      /\ Follows(NextIP(r, ip).bytes, ip.bytes)
           /\ NextIP(r, ip) = NoIP => \A c \in Bytes : Has(r, c) => ~Less(ip.bytes, c)
<1> DEFINE b == ip.bytes
           next == Increment(ip)
<1>1. /\ ip = [form |-> ip.form, bytes |-> b] /\ ip.form = r.start.form
      /\ b \in Bytes /\ Has(r, b)
  BY BaseType DEF Yields
<1>2. CASE b = Highest
  <2>1. \A c \in Bytes : ~Less(b, c)
    BY <1>2, Extremes
  <2>2. NextIP(r, ip) = NoIP
    <3>1. next = IF ip.form = "mapped" THEN [form |-> "v6", bytes |-> <<>>]
                 ELSE [form |-> ip.form, bytes |-> Lowest]
      BY <1>1, <1>2, IncrementWraps
    <3>2. ~RangeContains(r, next)
      <4>1. CASE ip.form = "mapped"
        BY <3>1, <4>1 DEF RangeContains
      <4>2. CASE ip.form # "mapped"
        BY <1>1, <1>2, <3>1, <4>2, ContainsBytes DEF Endless
      <4> QED
        BY <4>1, <4>2
    <3> QED
      BY <3>2 DEF NextIP
  <2> QED
    BY <2>1, <2>2
<1>3. CASE b # Highest
  <2>1. next.form = ip.form /\ next.bytes \in Bytes /\ Follows(next.bytes, b)
    BY <1>1, <1>3, IncrementFollows
  <2>2. next = [form |-> next.form, bytes |-> next.bytes]
    BY <1>1 DEF Increment
  <2>3. next # NoIP
    BY <2>1, <2>2, Addressed
  <2>4. CASE Has(r, next.bytes)
    <3>1. NextIP(r, ip) = next
      BY <2>4, ContainsBytes DEF NextIP
    <3> QED
      BY <1>1, <2>1, <2>2, <2>3, <2>4, <3>1 DEF Yields
  <2>5. CASE ~Has(r, next.bytes)
    <3>1. NextIP(r, ip) = NoIP
      BY <2>5, ContainsBytes DEF NextIP
    <3>2. ASSUME NEW c \in Bytes, Has(r, c), Less(b, c) PROVE FALSE
      <4>1. /\ r.start.bytes \in Bytes /\ r.end.bytes \in Bytes
            /\ AtMost(r.start.bytes, b) /\ AtMost(c, r.end.bytes)
        BY <1>1, <3>2, HasBetween
      <4>2. c = next.bytes \/ Less(next.bytes, c)
        BY <2>1, <3>2 DEF Follows
      <4>3. AtMost(next.bytes, c) /\ AtMost(b, next.bytes)
        BY <1>1, <2>1, <4>2, AtMostLess DEF Follows
      <4>4. AtMost(r.start.bytes, next.bytes) /\ AtMost(next.bytes, r.end.bytes)
        BY <1>1, <2>1, <4>1, <4>3, AtMostTransitive
      <4> QED
        BY <2>1, <2>5, <4>1, <4>4, HasBetween
    <3> QED
      BY <3>1, <3>2
  <2> QED
    BY <2>4, <2>5
<1> QED
  BY <1>2, <1>3
-----------------------------------------------------------------------------
(* Contains and the second definition: the order of addresses is the order *)
(* of their numbers.                                                       *)

LEMMA NumbersFrom ==
    ASSUME NEW b \in Bytes
    PROVE  /\ NumbersUpTo(b)[0] = 0
           /\ \A i \in 1..Width : NumbersUpTo(b)[i] = NumbersUpTo(b)[i - 1] * Base + b[i]
<1> DEFINE F(f, n) == f = [i \in 0..n |-> IF i = 0 THEN 0 ELSE f[i - 1] * Base + b[i]]
           T == {n \in 0..Width : ~\E f : F(f, n)}
<1>0. Width \in Nat
  BY BaseType
<1>1. T = {}
  <2> SUFFICES ASSUME T # {} PROVE FALSE
    OBVIOUS
  <2>1. T \in SUBSET Nat
    BY <1>0
  <2>2. PICK n \in T : \A k \in T : n <= k
    BY <2>1, Least
  <2>3. n # 0
    <3>1. F([i \in 0..0 |-> 0], 0)
      OBVIOUS
    <3> QED
      BY <3>1, <2>2
  <2>4. n - 1 \in 0..Width /\ n - 1 \notin T /\ n \in 1..Width
    BY <1>0, <2>1, <2>2, <2>3
  <2>5. PICK f : F(f, n - 1)
    BY <2>4
  <2> DEFINE g == [i \in 0..n |-> IF i = n THEN f[n - 1] * Base + b[n] ELSE f[i]]
  <2>6. \A i \in 0..n - 1 : f[i] = IF i = 0 THEN 0 ELSE f[i - 1] * Base + b[i]
    BY <2>5
  <2>7. \A i \in 0..n : g[i] = IF i = 0 THEN 0 ELSE g[i - 1] * Base + b[i]
    <3> TAKE i \in 0..n
    <3>1. CASE i = 0
      BY <2>4, <2>6, <3>1
    <3>2. CASE i \in 1..n - 1
      <4>1. g[i] = f[i] /\ g[i - 1] = f[i - 1] /\ i \in 0..n - 1
        BY <2>4, <3>2
      <4> QED
        BY <2>6, <3>2, <4>1
    <3>3. CASE i = n
      BY <2>4, <3>3
    <3> QED
      BY <2>4, <3>1, <3>2, <3>3
  <2>8. F(g, n)
    <3>1. g = [i \in 0..n |-> g[i]]
      OBVIOUS
    <3> HIDE DEF g
    <3> QED
      BY <2>7, <3>1
  <2> QED
    BY <2>2, <2>8
<1>2. PICK f : F(f, Width)
  <2> HIDE DEF F
  <2> QED
    BY <1>0, <1>1
<1>3. NumbersUpTo(b) = CHOOSE h : F(h, Width)
  BY DEF NumbersUpTo
<1>4. F(NumbersUpTo(b), Width)
  BY <1>2, <1>3
<1> QED
  BY <1>0, <1>4

LEMMA Multiplied == \A x, y \in Nat : x * y \in Nat
OBVIOUS

LEMMA NumbersType ==
    ASSUME NEW b \in Bytes
    PROVE  \A i \in 0..Width : NumbersUpTo(b)[i] \in Nat
<1> DEFINE P == NumbersUpTo(b)
           T == {i \in 0..Width : P[i] \notin Nat}
<1>0. /\ Width \in Nat /\ Base \in Nat /\ \A i \in 1..Width : b[i] \in Nat
      /\ P[0] = 0 /\ \A i \in 1..Width : P[i] = P[i - 1] * Base + b[i]
  <2>1. Width \in Nat /\ Base \in Nat /\ \A i \in 1..Width : b[i] \in Nat
    BY BaseType DEF Bytes
  <2>2. P[0] = 0 /\ \A i \in 1..Width : P[i] = P[i - 1] * Base + b[i]
    BY NumbersFrom
  <2> QED
    BY <2>1, <2>2
<1> HIDE DEF P
<1> SUFFICES ASSUME T # {} PROVE FALSE
  BY DEF P
<1>1. PICK i \in T : \A k \in T : i <= k
  <2>1. T \in SUBSET Nat
    BY <1>0
  <2> HIDE DEF T
  <2> QED
    BY <2>1, Least
<1>2. i # 0 /\ i \in 1..Width
  BY <1>0
<1>3. P[i - 1] \in Nat
  BY <1>0, <1>1, <1>2
<1>4. P[i - 1] * Base \in Nat
  BY <1>0, <1>3, Multiplied
<1>5. P[i] = P[i - 1] * Base + b[i] /\ b[i] \in Nat
  BY <1>0, <1>2
<1> QED
  BY <1>4, <1>5

LEMMA CarryLess ==
    ASSUME NEW B \in Nat \ {0}, NEW x \in Nat, NEW y \in Nat, x < y,
           NEW p \in 0..B - 1, NEW q \in 0..B - 1
    PROVE  x * B + p < y * B + q
OBVIOUS

LEMMA LessNumber ==
    ASSUME NEW a \in Bytes, NEW b \in Bytes, Less(a, b)
    PROVE  Number(a) < Number(b)
<1> DEFINE P == NumbersUpTo(a)
           Q == NumbersUpTo(b)
<1>0. /\ Width \in Nat \ {0} /\ Base \in Nat \ {0}
      /\ \A i \in 1..Width : a[i] \in 0..Base - 1 /\ b[i] \in 0..Base - 1
      /\ P[0] = 0 /\ \A i \in 1..Width : P[i] = P[i - 1] * Base + a[i]
      /\ Q[0] = 0 /\ \A i \in 1..Width : Q[i] = Q[i - 1] * Base + b[i]
      /\ \A i \in 0..Width : P[i] \in Nat /\ Q[i] \in Nat
  BY BaseType, NumbersFrom, NumbersType DEF Bytes
<1> HIDE DEF P, Q
<1>1. PICK k \in 1..Width : a[k] < b[k] /\ \A j \in 1..k - 1 : a[j] = b[j]
  BY DEF Less
<1>2. \A i \in 0..k - 1 : P[i] = Q[i]
  <2> DEFINE T == {i \in 0..k - 1 : P[i] # Q[i]}
  <2> SUFFICES ASSUME T # {} PROVE FALSE
    OBVIOUS
  <2>1. PICK i \in T : \A n \in T : i <= n
    <3>1. T \in SUBSET Nat
      BY <1>0
    <3> HIDE DEF T
    <3> QED
      BY <3>1, Least
  <2>2. i \in 1..k - 1 /\ i \in 1..Width /\ i - 1 \in 0..k - 1
    BY <1>0
  <2>3. P[i - 1] = Q[i - 1] /\ a[i] = b[i]
    BY <1>0, <1>1, <2>1, <2>2
  <2> QED
    BY <1>0, <2>2, <2>3
<1>3. \A i \in k..Width : P[i] < Q[i]
  <2> DEFINE T == {i \in k..Width : ~(P[i] < Q[i])}
  <2> SUFFICES ASSUME T # {} PROVE FALSE
    OBVIOUS
  <2>1. PICK i \in T : \A n \in T : i <= n
    <3>1. T \in SUBSET Nat
      BY <1>0
    <3> HIDE DEF T
    <3> QED
      BY <3>1, Least
  <2>2. i \in 1..Width /\ i - 1 \in 0..Width
    BY <1>0
  <2>3. CASE i = k
    <3>1. P[k - 1] = Q[k - 1]
      BY <1>0, <1>2
    <3>2. P[k] = P[k - 1] * Base + a[k] /\ Q[k] = Q[k - 1] * Base + b[k]
      BY <1>0
    <3>3. P[k] < Q[k]
      BY <1>0, <1>1, <3>1, <3>2
    <3> QED
      BY <2>3, <3>3
  <2>4. CASE i # k
    <3>1. P[i - 1] < Q[i - 1]
      BY <1>0, <2>1, <2>4
    <3>2. P[i] = P[i - 1] * Base + a[i] /\ Q[i] = Q[i - 1] * Base + b[i]
      BY <1>0, <2>2
    <3>3. /\ P[i - 1] \in Nat /\ Q[i - 1] \in Nat
          /\ a[i] \in 0..Base - 1 /\ b[i] \in 0..Base - 1
      BY <1>0, <2>2
    <3>4. P[i - 1] * Base + a[i] < Q[i - 1] * Base + b[i]
      BY <1>0, <3>1, <3>3, CarryLess
    <3> QED
      BY <3>2, <3>4
  <2> QED
    BY <2>3, <2>4
<1> QED
  BY <1>0, <1>3 DEF Number, P, Q

LEMMA AtMostNumber ==
    ASSUME NEW a \in Bytes, NEW b \in Bytes
    PROVE  /\ AtMost(a, b) <=> Number(a) <= Number(b)
           /\ Number(a) \in Nat /\ Number(b) \in Nat
<1>1. Number(a) \in Nat /\ Number(b) \in Nat /\ a \in Bytes /\ b \in Bytes
  BY BaseType, NumbersType DEF Number
<1>2. a = b \/ Less(a, b) \/ Less(b, a)
  BY <1>1, LessTotal
<1>3. AtMost(a, b) <=> a = b \/ Less(a, b)
  BY <1>1, AtMostLess
<1>4. /\ Less(a, b) => Number(a) < Number(b)
      /\ Less(b, a) => Number(b) < Number(a)
  BY LessNumber
<1> QED
  BY <1>1, <1>2, <1>3, <1>4

LEMMA BoundsDenote ==
    ASSUME NEW n \in Notation, n.kind = "bounds", NEW b \in Bytes
    PROVE  Has(NewIPRangeFromString(n), b) <=> Denotes(n, b)
<1>1. n.from \in Bytes /\ n.to \in Bytes /\ b # <<>>
  BY BaseType, NotEmpty DEF Notation
<1>2. NewIPRangeFromString(n) = [start |-> ParseIP(n.from), end |-> ParseIP(n.to)]
  BY DEF NewIPRangeFromString, newIPRangeFromIPRange
<1>3. Has(NewIPRangeFromString(n), b) <=> AtMost(n.from, b) /\ AtMost(b, n.to)
  BY <1>1, <1>2 DEF Has, RangeContains, ParseIP
<1>4. Denotes(n, b) <=> Number(b) \in Number(n.from)..Number(n.to)
  BY <1>1 DEF Denotes
<1> QED
  BY <1>1, <1>3, <1>4, AtMostNumber

(* A prefix.  The numbers of the first i bytes of the two ends enclose a   *)
(* multiple of Size(i, ones), and so do those of all its addresses.        *)
Enclosed(n, i) ==
    \E q \in Nat :
        /\ NumbersUpTo(LowEnd(n))[i] = q * Size(i, n.ones)
        /\ NumbersUpTo(HighEnd(n))[i] = q * Size(i, n.ones) + Size(i, n.ones) - 1
        /\ Within(NumbersUpTo(n.ip)[i], q, Size(i, n.ones))

(* One byte more.                                                          *)
LEMMA EncloseByte ==
    ASSUME NEW B \in Nat \ {0}, NEW m \in Nat \ {0}, Divides(m, B),
           NEW S \in Nat \ {0}, NEW T, Grows(S, T, m, B),
           NEW x \in Nat, NEW q \in Nat, Within(x, q, S), NEW p \in 0..B - 1
    PROVE  \E r \in Nat :
               /\ (q * S) * B + Cut(p, m) = r * T
               /\ (q * S + S - 1) * B + (Cut(p, m) + m - 1) = r * T + T - 1
               /\ Within(x * B + p, r, T)
<1> DEFINE l == Cut(p, m)
<1>0. PICK k \in Nat : B = k * m
  BY DEF Divides
<1>1. /\ p \in Nat /\ p < B /\ q * S <= x /\ x <= q * S + S - 1
      /\ \/ m = B /\ T = S * B
         \/ S = 1 /\ T = m
  BY DEF Within, Grows
<1>2. PICK c \in Nat : /\ l = c * m /\ c * m <= p /\ p <= c * m + m - 1
                       /\ m = B => c = 0
  <2>1. \E c \in Nat : /\ Cut(p, m) = c * m /\ Within(p, c, m)
                       /\ c * m + m <= B
                       /\ m = B => c = 0
    <3>1. B \in Nat
      OBVIOUS
    <3> HIDE DEF l
    <3> QED
      BY <3>1, Truncated
  <2> QED
    BY <2>1 DEF Within
<1> HIDE DEF l
<1>3. CASE m = B /\ T = S * B
  <2>1. l = 0
    BY <1>2, <1>3
  <2>2. (q * S) * B + l = q * T
    BY <1>3, <2>1
  <2>3. (q * S + S - 1) * B + (l + m - 1) = q * T + T - 1
    BY <1>3, <2>1
  <2>4. (q * S) * B <= x * B
    <3>1. \E e \in Nat : x = q * S + e
      <4>1. x - q * S \in Nat /\ x = q * S + (x - q * S)
        BY <1>1
      <4> QED
        BY <4>1
    <3>2. PICK e \in Nat : x = q * S + e
      BY <3>1
    <3>3. x * B = (q * S) * B + e * B /\ e * B \in Nat
      BY <3>2
    <3> QED
      BY <3>3
  <2>5. x * B <= (q * S + S - 1) * B
    <3>1. (q * S + S - 1) - x \in Nat
      BY <1>1
    <3>2. PICK e \in Nat : q * S + S - 1 = x + e
      <4>1. q * S + S - 1 = x + ((q * S + S - 1) - x)
        OBVIOUS
      <4> QED
        BY <3>1, <4>1
    <3>3. (q * S + S - 1) * B = x * B + e * B /\ e * B \in Nat
      BY <3>2
    <3> QED
      BY <3>3
  <2>6. q * T <= x * B + p
    BY <1>1, <2>1, <2>2, <2>4
  <2>7. x * B + p <= q * T + T - 1
    BY <1>1, <1>3, <2>1, <2>3, <2>5
  <2> QED
    BY <2>2, <2>3, <2>6, <2>7 DEF l, Within
<1>4. CASE S = 1 /\ T = m
  <2>1. x = q
    BY <1>1, <1>4
  <2>2. (q * k + c) * m = q * B + c * m /\ q * k + c \in Nat
    BY <1>0, <1>2
  <2>3. q * S = q /\ q * S + S - 1 = q
    BY <1>4
  <2>4. /\ q * B + l = (q * k + c) * m
        /\ q * B + (l + m - 1) = (q * k + c) * m + m - 1
        /\ (q * k + c) * m <= q * B + p
        /\ q * B + p <= (q * k + c) * m + m - 1
    BY <1>0, <1>2, <2>2
  <2> QED
    BY <1>4, <2>1, <2>2, <2>3, <2>4 DEF l, Within
<1> QED
  BY <1>1, <1>3, <1>4

LEMMA EnclosedAll ==
    ASSUME NEW n \in Notation, n.kind = "cidr"
    PROVE  \A i \in 0..Width : Enclosed(n, i)
<1> DEFINE L == NumbersUpTo(LowEnd(n))
           H == NumbersUpTo(HighEnd(n))
           X == NumbersUpTo(n.ip)
           T == {i \in 0..Width : ~Enclosed(n, i)}
<1>0. /\ Width \in Nat \ {0} /\ Bits \in Nat \ {0} /\ Base \in Nat \ {0}
      /\ n.ones \in 0..Width * Bits /\ \A i \in 1..Width : n.ip[i] \in 0..Base - 1
      /\ L[0] = 0 /\ \A i \in 1..Width : L[i] = L[i - 1] * Base + LowEnd(n)[i]
      /\ H[0] = 0 /\ \A i \in 1..Width : H[i] = H[i - 1] * Base + HighEnd(n)[i]
      /\ X[0] = 0 /\ \A i \in 1..Width : X[i] = X[i - 1] * Base + n.ip[i]
      /\ \A i \in 0..Width : X[i] \in Nat
  BY BaseType, IPRangeAssumption, NumbersFrom, NumbersType, EndBytes DEF Bytes
<1>1. \A i, q : (/\ q \in Nat
                 /\ L[i] = q * Size(i, n.ones)
                 /\ H[i] = q * Size(i, n.ones) + Size(i, n.ones) - 1
                 /\ Within(X[i], q, Size(i, n.ones))) => Enclosed(n, i)
  BY DEF Enclosed
<1>2. \A i : Enclosed(n, i) => \E q \in Nat :
                 /\ L[i] = q * Size(i, n.ones)
                 /\ H[i] = q * Size(i, n.ones) + Size(i, n.ones) - 1
                 /\ Within(X[i], q, Size(i, n.ones))
  BY DEF Enclosed
<1> HIDE DEF L, H, X
<1> SUFFICES ASSUME T # {} PROVE FALSE
  OBVIOUS
<1>3. PICK i \in T : \A e \in T : i <= e
  <2>1. T \in SUBSET Nat
    BY <1>0
  <2> HIDE DEF T
  <2> QED
    BY <2>1, Least
<1>4. i # 0
  <2>1. Size(0, n.ones) = 1
    <3>1. ~(0 * Bits > n.ones)
      BY <1>0
    <3> QED
      BY <3>1, PowersAssumption DEF Size
  <2>2. 0 * Size(0, n.ones) = 0 /\ 0 * Size(0, n.ones) + Size(0, n.ones) - 1 = 0
    BY <2>1
  <2>3. Enclosed(n, 0)
    <3>1. Within(X[0], 0, Size(0, n.ones))
      BY <1>0, <2>1, <2>2 DEF Within
    <3> QED
      BY <1>0, <1>1, <2>2, <3>1
  <2> QED
    BY <1>3, <2>3
<1>5. i \in 1..Width /\ i - 1 \in 0..Width /\ Enclosed(n, i - 1)
  BY <1>0, <1>3, <1>4
<1> DEFINE S == Size(i - 1, n.ones)
           U == Size(i, n.ones)
           m == Block(i, n.ones)
<1>6. PICK q \in Nat : /\ L[i - 1] = q * S /\ H[i - 1] = q * S + S - 1
                       /\ Within(X[i - 1], q, S)
  BY <1>2, <1>5
<1>7. m \in Nat \ {0} /\ S \in Nat \ {0} /\ Divides(m, Base) /\ Grows(S, U, m, Base)
  BY <1>0, <1>5, BlockSize
<1>8. LowEnd(n)[i] = Cut(n.ip[i], m) /\ HighEnd(n)[i] = LowEnd(n)[i] + m - 1
  BY <1>5 DEF LowEnd, HighEnd, Cut
<1> HIDE DEF S, U, m
<1>9. n.ip[i] \in 0..Base - 1 /\ X[i - 1] \in Nat
  BY <1>0, <1>5
<1>10. PICK r \in Nat :
          /\ (q * S) * Base + Cut(n.ip[i], m) = r * U
          /\ (q * S + S - 1) * Base + (Cut(n.ip[i], m) + m - 1) = r * U + U - 1
          /\ Within(X[i - 1] * Base + n.ip[i], r, U)
  BY <1>0, <1>6, <1>7, <1>9, EncloseByte
<1>11. L[i] = r * U /\ H[i] = r * U + U - 1 /\ Within(X[i], r, U)
  BY <1>0, <1>5, <1>6, <1>8, <1>10
<1> QED
  BY <1>1, <1>3, <1>11 DEF U

LEMMA Quotient ==
    ASSUME NEW x \in Nat, NEW m \in Nat \ {0}, NEW q \in Nat
    PROVE  x \div m = q <=> q * m <= x /\ x <= q * m + m - 1
OBVIOUS

LEMMA PrefixDenotes ==
    ASSUME NEW n \in Notation, n.kind = "cidr", NEW b \in Bytes
    PROVE  Has(NewIPRangeFromString(n), b) <=> Denotes(n, b)
<1> DEFINE size == 2^(Width * Bits - n.ones)
<1>1. /\ LowEnd(n) \in Bytes /\ HighEnd(n) \in Bytes /\ n.ip \in Bytes
      /\ n.ones \in 0..Width * Bits /\ b # <<>> /\ Width \in Nat \ {0} /\ Width * Bits \in Nat
  BY EndBytes, BaseType, NotEmpty, Exponents
<1>2. Size(Width, n.ones) = size /\ size \in Nat \ {0}
  <2>1. /\ Width * Bits > n.ones \/ Width * Bits - n.ones = 0
        /\ Width * Bits - n.ones \in 0..Width * Bits
    BY <1>1
  <2> QED
    BY <2>1, PowersAssumption DEF Size
<1>3. NewIPRangeFromString(n) = [start |-> [form |-> "v4", bytes |-> LowEnd(n)],
                                 end |-> [form |-> "v4", bytes |-> HighEnd(n)]]
  BY DEF NewIPRangeFromString, newIPRangeFromCIDR, LowEnd, HighEnd
<1>4. Has(NewIPRangeFromString(n), b) <=> AtMost(LowEnd(n), b) /\ AtMost(b, HighEnd(n))
  BY <1>1, <1>3 DEF Has, RangeContains, ParseIP
<1>5. Has(NewIPRangeFromString(n), b) <=>
         Number(LowEnd(n)) <= Number(b) /\ Number(b) <= Number(HighEnd(n))
  BY <1>1, <1>4, AtMostNumber
<1>6. Denotes(n, b) <=> Number(b) \div size = Number(n.ip) \div size
  BY <1>1 DEF Denotes
<1>7. Enclosed(n, Width)
  BY <1>1, EnclosedAll
<1>8. Number(b) \in Nat /\ Number(n.ip) \in Nat
  BY <1>1, AtMostNumber
<1> HIDE DEF size
<1>9. PICK q \in Nat : /\ Number(LowEnd(n)) = q * size
                       /\ Number(HighEnd(n)) = q * size + size - 1
                       /\ q * size <= Number(n.ip) /\ Number(n.ip) <= q * size + size - 1
  BY <1>2, <1>7 DEF Enclosed, Number, Within
<1>10. Number(n.ip) \div size = q
  BY <1>2, <1>8, <1>9, Quotient
<1>11. Number(b) \div size = q <=> q * size <= Number(b) /\ Number(b) <= q * size + size - 1
  BY <1>2, <1>8, Quotient
<1> QED
  BY <1>5, <1>6, <1>9, <1>10, <1>11

(* Contains of what NewIPRangeFromString makes of a notation is membership *)
(* in the notation's interval of numbers: mask and comparison of bytes are *)
(* division and comparison of numbers.                                     *)
THEOREM NotationDenotes ==
    ASSUME NEW n \in Notation, NEW b \in Bytes \cup {<<>>}
    PROVE  Has(NewIPRangeFromString(n), b) <=> Denotes(n, b)
<1>1. <<>> \notin Bytes
  BY BaseType, NotEmpty
<1>2. CASE b = <<>>
  BY <1>2 DEF Has, RangeContains, ParseIP, Denotes
<1>3. CASE b # <<>> /\ n.kind = "cidr"
  BY <1>3, PrefixDenotes
<1>4. CASE b # <<>> /\ n.kind = "bounds"
  BY <1>4, BoundsDenote
<1>5. CASE b # <<>> /\ n.kind = "single"
  <2>1. n.ip \in Bytes \cup {<<>>}
    BY <1>5 DEF Notation
  <2>2. NewIPRangeFromString(n) = [start |-> ParseIP(n.ip), end |-> ParseIP(n.ip)]
    BY <1>5 DEF NewIPRangeFromString, newIPRangeFromSingleIP
  <2>3. Denotes(n, b) <=> b = n.ip
    BY <1>5 DEF Denotes
  <2>4. Has(NewIPRangeFromString(n), b) <=> AtMost(n.ip, b) /\ AtMost(b, n.ip)
    BY <1>5, <2>2 DEF Has, RangeContains, ParseIP
  <2>5. AtMost(n.ip, b) /\ AtMost(b, n.ip) <=> b = n.ip
    <3>1. CASE n.ip = <<>>
      BY <1>5, <3>1 DEF AtMost
    <3>2. CASE n.ip \in Bytes
      BY <1>1, <1>5, <3>2, AtMostLess, LessTransitive, LessIrreflexive
    <3> QED
      BY <2>1, <3>1, <3>2
  <2> QED
    BY <2>3, <2>4, <2>5
<1> QED
  BY <1>2, <1>3, <1>4, <1>5 DEF Notation

(* The ranges of a list of notations.                                      *)
LEMMA RangesOf ==
    ASSUME NEW s \in Seq(Notation)
    PROVE  /\ DOMAIN Ranges(s) = 1..Len(s) /\ Len(s) \in Nat /\ DOMAIN s = 1..Len(s)
           /\ Len(Ranges(s)) = Len(s)
           /\ Ranges(s) = <<>> <=> s = <<>>
           /\ \A n \in 1..Len(s) : s[n] \in Notation /\ Ranges(s)[n] = NewIPRangeFromString(s[n])
           /\ \A n \in 1..Len(s) : RangeType(Ranges(s)[n])
<1> DEFINE T == {NewIPRangeFromString(n) : n \in Notation}
           R == [n \in 1..Len(s) |-> NewIPRangeFromString(s[n])]
<1>1. DOMAIN s = 1..Len(s) /\ Len(s) \in Nat /\ \A n \in 1..Len(s) : s[n] \in Notation
  OBVIOUS
<1>2. Ranges(s) = R
  BY <1>1 DEF Ranges
<1>3. \A n \in 1..Len(s) : NewIPRangeFromString(s[n]) \in T
  BY <1>1
<1> HIDE DEF T
<1>4. R \in Seq(T) /\ Len(R) = Len(s)
  BY <1>1, <1>3
<1>5. \A n \in 1..Len(s) : R[n] = NewIPRangeFromString(s[n])
  OBVIOUS
<1>6. \A n \in 1..Len(s) : RangeType(R[n])
  BY <1>1, <1>5, NotationType
<1>7. R = <<>> <=> s = <<>>
  BY <1>1, <1>4
<1>8. DOMAIN R = 1..Len(s)
  OBVIOUS
<1> HIDE DEF R
<1> QED
  BY <1>1, <1>2, <1>4, <1>5, <1>6, <1>7, <1>8

LEMMA RangesHave ==
    ASSUME NEW s \in Seq(Notation), NEW b \in Bytes \cup {<<>>}
    PROVE  (\E r \in ToSet(Ranges(s)) : Has(r, b)) <=> \E n \in ToSet(s) : Denotes(n, b)
<1>1. /\ DOMAIN Ranges(s) = 1..Len(s) /\ DOMAIN s = 1..Len(s)
      /\ \A n \in 1..Len(s) : s[n] \in Notation /\ Ranges(s)[n] = NewIPRangeFromString(s[n])
  BY RangesOf
<1>2. \A n \in 1..Len(s) : Has(Ranges(s)[n], b) <=> Denotes(s[n], b)
  BY <1>1, NotationDenotes
<1> QED
  BY <1>1, <1>2 DEF ToSet

LEMMA AllowedInScope ==
    ASSUME config \in Config, NEW b \in Bytes \cup {<<>>}
    PROVE  IsIPInScope(ParseIP(b)) <=> Allowed(b)
<1>1. config.ips \in Seq(Notation) /\ config.excludedIPs \in Seq(Notation)
  BY ScopeAssumption
<1>2. IsIPInScope(ParseIP(b)) <=>
         /\ ~ \E r \in ToSet(Ranges(config.excludedIPs)) : Has(r, b)
         /\ Ranges(config.ips) = <<>> \/ \E r \in ToSet(Ranges(config.ips)) : Has(r, b)
  BY DEF IsIPInScope, ips, excludedIPs, Has
<1>3. Ranges(config.ips) = <<>> <=> config.ips = <<>>
  BY <1>1, RangesOf
<1> QED
  BY <1>1, <1>2, <1>3, RangesHave DEF Allowed

LEMMA InScopeOfBytes ==
    ASSUME NEW ip
    PROVE  IsIPInScope(ip) <=> IsIPInScope(ParseIP(ip.bytes))
BY ContainsBytes DEF IsIPInScope, Has
-----------------------------------------------------------------------------
(* What is published: the lists the deriver walks.                         *)

(* The configuration, and the domains that come out of it.                 *)
Lists ==
    /\ config \in Config
    /\ kept \in Seq(Domain)
    /\ domains = IF step = "domainlist" THEN config.domains ELSE config.domains \o kept
    /\ step \in {"domainlist", "ips", "domains", "done"}
    /\ step \in {"domainlist", "domains"} => cursor \in Nat \ {0}
    /\ cache \in [Domain -> IP \cup {None}]

(* The lines kept of domainlist.txt, whatever the resolver answered.       *)
Reasons ==
    /\ \A d \in Domain : cache[d] \in Answers[d] \cup {None}
    /\ \A d \in ToSet(kept) : \E b \in Answers[d] : Allowed(b)
    /\ domainsOut \in Seq(Domain)
    /\ step \in {"domainlist", "ips"} => domainsOut = <<>>
    /\ \A d \in ToSet(domainsOut) : d \in ToSet(domains) /\ d \notin ToSet(config.excludedDomains)

ReasonInv == Lists /\ Reasons

LEMMA LookupAnswers ==
    ASSUME NEW d \in Domain, NEW ip \in IP \cup {None}, Lookup(d, ip),
           cache \in [Domain -> IP \cup {None}],
           \A e \in Domain : cache[e] \in Answers[e] \cup {None}
    PROVE  /\ ip \in Answers[d] \cup {None}
           /\ cache' \in [Domain -> IP \cup {None}]
           /\ \A e \in Domain : cache'[e] \in Answers[e] \cup {None}
BY DEF Lookup, Cached, dnsVars

(* The domain of an artifact without an address is a name to resolve.      *)
LEMMA AskedDomain ==
    ASSUME NEW a \in Asked, GetIPFromArtifact(a) = None, GetDomainFromArtifact(a) # None
    PROVE  GetDomainFromArtifact(a) \in Domain
<1>1. WellFormed(a)
  BY ScopeAssumption
<1>2. /\ a.type = "domain" => a.value \in Domain
      /\ a.url # None => a.url.host \in Domain \cup IP
  BY <1>1 DEF WellFormed, WellTyped, Name
<1>3. HostOf(a.url) \notin IP
  BY NameAssumption DEF GetIPFromArtifact, Name
<1>4. CASE a.type = "domain"
  BY <1>2, <1>4 DEF GetDomainFromArtifact
<1>5. CASE a.type = "host" /\ a.value \in Domain
  BY <1>5 DEF GetDomainFromArtifact
<1>6. CASE a.type # "domain" /\ ~(a.type = "host" /\ a.value \in Domain)
  <2>1. GetDomainFromArtifact(a) = HostOf(a.url)
    BY <1>6 DEF GetDomainFromArtifact
  <2>2. a.url # None
    BY <2>1 DEF HostOf
  <2> QED
    BY <1>2, <1>3, <2>1, <2>2 DEF HostOf
<1> QED
  BY <1>4, <1>5, <1>6

LEMMA AskedIP ==
    ASSUME NEW a \in Asked
    PROVE  GetIPFromArtifact(a) \in IP \cup {None}
<1>1. a \in Artifact
  BY ScopeAssumption DEF WellFormed, WellTyped
<1>2. a.ip \in IP \cup {None}
  BY <1>1 DEF Artifact
<1> QED
  BY <1>2 DEF GetIPFromArtifact, ValueIP

LEMMA AppendSet ==
    ASSUME NEW S, NEW s \in Seq(S), NEW x \in S
    PROVE  Append(s, x) \in Seq(S) /\ ToSet(Append(s, x)) = ToSet(s) \cup {x}
<1>1. /\ Append(s, x) \in Seq(S) /\ Len(s) \in Nat /\ DOMAIN s = 1..Len(s)
      /\ DOMAIN Append(s, x) = 1..Len(s) + 1
      /\ \A n \in 1..Len(s) : Append(s, x)[n] = s[n]
      /\ Append(s, x)[Len(s) + 1] = x
  OBVIOUS
<1>2. ToSet(Append(s, x)) \subseteq ToSet(s) \cup {x}
  BY <1>1 DEF ToSet
<1>3. ToSet(s) \subseteq ToSet(Append(s, x))
  BY <1>1 DEF ToSet
<1>4. x \in ToSet(Append(s, x))
  BY <1>1 DEF ToSet
<1> QED
  BY <1>1, <1>2, <1>3, <1>4

LEMMA ConcatSet ==
    ASSUME NEW S, NEW s \in Seq(S), NEW t \in Seq(S)
    PROVE  s \o t \in Seq(S) /\ ToSet(s \o t) = ToSet(s) \cup ToSet(t)
<1>1. /\ s \o t \in Seq(S) /\ Len(s) \in Nat /\ Len(t) \in Nat
      /\ DOMAIN s = 1..Len(s) /\ DOMAIN t = 1..Len(t)
      /\ DOMAIN (s \o t) = 1..Len(s) + Len(t)
      /\ \A n \in 1..Len(s) : (s \o t)[n] = s[n]
      /\ \A n \in 1..Len(t) : (s \o t)[Len(s) + n] = t[n]
  OBVIOUS
<1>2. \A n \in 1..Len(s) + Len(t) : n \in 1..Len(s) \/ \E k \in 1..Len(t) : n = Len(s) + k
  <2> TAKE n \in 1..Len(s) + Len(t)
  <2>1. CASE n <= Len(s)
    BY <1>1, <2>1
  <2>2. CASE n > Len(s)
    <3>1. n - Len(s) \in 1..Len(t) /\ n = Len(s) + (n - Len(s))
      BY <1>1, <2>2
    <3> QED
      BY <3>1
  <2> QED
    BY <1>1, <2>1, <2>2
<1>3. ToSet(s \o t) \subseteq ToSet(s) \cup ToSet(t)
  BY <1>1, <1>2 DEF ToSet
<1>4. ToSet(s) \subseteq ToSet(s \o t)
  BY <1>1 DEF ToSet
<1>5. ToSet(t) \subseteq ToSet(s \o t)
  <2> SUFFICES ASSUME NEW n \in 1..Len(t) PROVE t[n] \in ToSet(s \o t)
    BY <1>1 DEF ToSet
  <2>1. Len(s) + n \in DOMAIN (s \o t)
    BY <1>1
  <2> QED
    BY <1>1, <2>1 DEF ToSet
<1> QED
  BY <1>1, <1>3, <1>4, <1>5

LEMMA InScopeAllowed ==
    ASSUME config \in Config, NEW ip \in IP \cup {None}, InScopeAs(ip)
    PROVE  ip \in IP /\ Allowed(ip)
<1>1. ip \in IP /\ IsIPInScope(ParseIP(ip))
  BY DEF InScopeAs
<1>2. ip \in Bytes \cup {<<>>}
  BY <1>1, ScopeAssumption
<1> QED
  BY <1>1, <1>2, AllowedInScope

LEMMA ReasonInit ==
    ASSUME ScopeInit
    PROVE  ReasonInv
BY DEF ScopeInit, DNSInit, ReasonInv, Lists, Reasons, ToSet

LEMMA ReasonStep ==
    ASSUME ReasonInv, [ScopeNext]_scopeVars
    PROVE  ReasonInv'
<1>0. /\ config \in Config /\ kept \in Seq(Domain) /\ domainsOut \in Seq(Domain)
      /\ config.domains \in Seq(Domain) /\ config.domainlist \in Seq(Domain)
      /\ cache \in [Domain -> IP \cup {None}]
  BY ScopeAssumption DEF ReasonInv, Lists, Reasons
<1>1. CASE ReadLine
  <2> DEFINE line == config.domainlist[cursor]
  <2>1. PICK ip \in IP \cup {None} :
           Lookup(line, ip) /\ kept' = IF InScopeAs(ip) THEN Append(kept, line) ELSE kept
    BY <1>1 DEF ReadLine
  <2>2. /\ step = "domainlist" /\ step' = step /\ config' = config /\ domains' = domains
        /\ domainsOut' = domainsOut /\ cursor' = cursor + 1
        /\ cursor \in Nat \ {0} /\ cursor <= Len(config.domainlist)
    BY <1>1 DEF ReadLine, outVars, ReasonInv, Lists
  <2>3. line \in Domain
    BY <1>0, <2>2
  <2>4. /\ ip \in Answers[line] \cup {None}
        /\ cache' \in [Domain -> IP \cup {None}]
        /\ \A e \in Domain : cache'[e] \in Answers[e] \cup {None}
    BY <1>0, <2>1, <2>3, LookupAnswers DEF ReasonInv, Reasons
  <2>5. \A b : Allowed(b)' <=> Allowed(b)
    BY <2>2 DEF Allowed
  <2>6. kept' \in Seq(Domain) /\ \A d \in ToSet(kept') : \E b \in Answers[d] : Allowed(b)
    <3>1. CASE InScopeAs(ip)
      <4>1. ip \in IP /\ Allowed(ip)
        BY <1>0, <3>1, InScopeAllowed
      <4>2. kept' = Append(kept, line)
        BY <2>1, <3>1
      <4>3. Append(kept, line) \in Seq(Domain) /\ ToSet(Append(kept, line)) = ToSet(kept) \cup {line}
        BY <1>0, <2>3, AppendSet
      <4>4. ip # None
        BY <3>1 DEF InScopeAs
      <4> QED
        BY <2>4, <4>1, <4>2, <4>3, <4>4 DEF ReasonInv, Reasons
    <3>2. CASE ~InScopeAs(ip)
      BY <1>0, <2>1, <3>2 DEF ReasonInv, Reasons
    <3> QED
      BY <3>1, <3>2
  <2>7. Lists'
    BY <1>0, <2>2, <2>4, <2>6 DEF ReasonInv, Lists
  <2>8. Reasons'
    BY <1>0, <2>2, <2>4, <2>5, <2>6 DEF ReasonInv, Reasons
  <2> QED
    BY <2>7, <2>8 DEF ReasonInv
<1>2. CASE MergeDomainlist
  <2>1. /\ step = "domainlist" /\ step' = "ips" /\ domains' = domains \o kept
        /\ UNCHANGED <<cache, config, kept, domainsOut>>
    BY <1>2 DEF MergeDomainlist, outVars, dnsVars
  <2>2. \A b : Allowed(b)' <=> Allowed(b)
    BY <2>1 DEF Allowed
  <2>3. Lists'
    BY <2>1 DEF ReasonInv, Lists
  <2>4. domainsOut' = <<>>
    BY <2>1 DEF ReasonInv, Reasons
  <2>5. ToSet(domainsOut') = {}
    BY <2>4 DEF ToSet
  <2>6. Reasons'
    BY <2>1, <2>2, <2>4, <2>5 DEF ReasonInv, Reasons
  <2> QED
    BY <2>3, <2>6 DEF ReasonInv
<1>3. CASE StartRange \/ IterateIPs \/ StartDomains \/ EndScope
  <2>1. /\ UNCHANGED <<cache, config, kept, domains, domainsOut>>
        /\ \/ step = "ips" /\ step' = "ips"
           \/ step = "ips" /\ step' = "domains" /\ cursor' = 1
           \/ step = "domains" /\ step' = "done"
    BY <1>3 DEF StartRange, IterateIPs, StartDomains, EndScope, outVars, dnsVars
  <2>2. \A b : Allowed(b)' <=> Allowed(b)
    BY <2>1 DEF Allowed
  <2>3. Lists'
    BY <2>1 DEF ReasonInv, Lists
  <2>4. Reasons'
    BY <2>1, <2>2 DEF ReasonInv, Reasons
  <2> QED
    BY <2>3, <2>4 DEF ReasonInv
<1>4. CASE IterateDomains
  <2>1. /\ step = "domains" /\ step' = "domains" /\ cursor' = cursor + 1
        /\ cursor <= Len(domains) /\ cursor \in Nat \ {0}
        /\ UNCHANGED <<cache, config, kept, domains>>
        /\ domainsOut' = IF IsDomainInScope(domains[cursor])
                         THEN Append(domainsOut, domains[cursor]) ELSE domainsOut
    BY <1>4 DEF IterateDomains, dnsVars, ReasonInv, Lists
  <2>2. \A b : Allowed(b)' <=> Allowed(b)
    BY <2>1 DEF Allowed
  <2>3. domains \in Seq(Domain)
    BY <1>0, <2>1 DEF ReasonInv, Lists
  <2>4. domains[cursor] \in Domain /\ domains[cursor] \in ToSet(domains)
    BY <2>1, <2>3 DEF ToSet
  <2>5. /\ domainsOut' \in Seq(Domain)
        /\ \A d \in ToSet(domainsOut') : d \in ToSet(domains) /\ d \notin ToSet(config.excludedDomains)
    <3>1. CASE IsDomainInScope(domains[cursor])
      <4>1. domainsOut' = Append(domainsOut, domains[cursor])
        BY <2>1, <3>1
      <4>2. /\ Append(domainsOut, domains[cursor]) \in Seq(Domain)
            /\ ToSet(Append(domainsOut, domains[cursor])) = ToSet(domainsOut) \cup {domains[cursor]}
        BY <1>0, <2>4, AppendSet
      <4>3. domains[cursor] \notin ToSet(config.excludedDomains)
        BY <3>1 DEF IsDomainInScope
      <4> QED
        BY <2>4, <4>1, <4>2, <4>3 DEF ReasonInv, Reasons
    <3>2. CASE ~IsDomainInScope(domains[cursor])
      BY <1>0, <2>1, <3>2 DEF ReasonInv, Reasons
    <3> QED
      BY <3>1, <3>2
  <2>6. Lists'
    BY <2>1 DEF ReasonInv, Lists
  <2>7. Reasons'
    BY <2>1, <2>2, <2>5 DEF ReasonInv, Reasons
  <2> QED
    BY <2>6, <2>7 DEF ReasonInv
<1>5. CASE (\E a \in Asked : IsArtifactInScope(a)) \/ EntryExpires \/ UNCHANGED scopeVars
  <2>1. /\ UNCHANGED <<config, kept, step, cursor, domains, domainsOut>>
        /\ cache' \in [Domain -> IP \cup {None}]
        /\ \A e \in Domain : cache'[e] \in Answers[e] \cup {None}
    <3>1. CASE EntryExpires \/ UNCHANGED scopeVars
      BY <1>0, <3>1 DEF EntryExpires, Expire, runVars, outVars, scopeVars, dnsVars, ReasonInv, Reasons
    <3>2. ASSUME NEW a \in Asked, IsArtifactInScope(a)
          PROVE  /\ UNCHANGED <<config, kept, step, cursor, domains, domainsOut>>
                 /\ cache' \in [Domain -> IP \cup {None}]
                 /\ \A e \in Domain : cache'[e] \in Answers[e] \cup {None}
      <4>1. /\ UNCHANGED <<config, kept, step, cursor, domains, domainsOut>>
            /\ \/ UNCHANGED cache
               \/ /\ GetIPFromArtifact(a) = None /\ GetDomainFromArtifact(a) # None
                  /\ \E answer \in IP \cup {None} : Lookup(GetDomainFromArtifact(a), answer)
        BY <3>2 DEF IsArtifactInScope, runVars, dnsVars
      <4>2. CASE UNCHANGED cache
        BY <1>0, <4>1, <4>2 DEF ReasonInv, Reasons
      <4>3. CASE ~UNCHANGED cache
        <5>1. GetDomainFromArtifact(a) \in Domain
          BY <4>1, <4>3, AskedDomain
        <5>2. PICK answer \in IP \cup {None} : Lookup(GetDomainFromArtifact(a), answer)
          BY <4>1, <4>3
        <5>3. /\ cache' \in [Domain -> IP \cup {None}]
              /\ \A e \in Domain : cache'[e] \in Answers[e] \cup {None}
          BY <1>0, <5>1, <5>2, LookupAnswers DEF ReasonInv, Reasons
        <5> QED
          BY <4>1, <5>3
      <4> QED
        BY <4>2, <4>3
    <3> QED
      BY <1>5, <3>1, <3>2
  <2>2. \A b : Allowed(b)' <=> Allowed(b)
    BY <2>1 DEF Allowed
  <2>3. Lists'
    BY <2>1 DEF ReasonInv, Lists
  <2>4. Reasons'
    BY <2>1, <2>2 DEF ReasonInv, Reasons
  <2> QED
    BY <2>3, <2>4 DEF ReasonInv
<1> QED
  BY <1>1, <1>2, <1>3, <1>4, <1>5 DEF ScopeNext, StartUp

(* ReasonInv holds.                                                        *)
THEOREM ReasonInvHolds == ScopeSpec => []ReasonInv
<1>1. ScopeInit => ReasonInv
  BY ReasonInit
<1>2. ReasonInv /\ [ScopeNext]_scopeVars => ReasonInv'
  BY ReasonStep
<1> QED
  BY <1>1, <1>2, PTL DEF ScopeSpec

(* Every domain published by deriveArtifactsFromScope is in config.yaml or *)
(* resolves to an allowed address, whatever the cache held and however the *)
(* resolver failed, and none is excluded by name.                          *)
THEOREM DomainsHaveReason == ScopeSpec => []PublishedForReason
<1>1. ReasonInv => PublishedForReason
  <2> SUFFICES ASSUME ReasonInv, NEW d \in ToSet(domainsOut)
               PROVE  /\ d \notin ToSet(config.excludedDomains)
                      /\ d \in ToSet(config.domains) \/ \E b \in Answers[d] : Allowed(b)
    BY DEF PublishedForReason
  <2>1. d \in ToSet(domains) /\ d \notin ToSet(config.excludedDomains)
    BY DEF ReasonInv, Reasons
  <2>2. config.domains \in Seq(Domain) /\ kept \in Seq(Domain)
    BY ScopeAssumption DEF ReasonInv, Lists
  <2>3. ToSet(domains) \subseteq ToSet(config.domains) \cup ToSet(kept)
    BY <2>2, ConcatSet DEF ReasonInv, Lists
  <2> QED
    BY <2>1, <2>3 DEF ReasonInv, Reasons
<1> QED
  BY <1>1, ReasonInvHolds, PTL

(* The verdict on one artifact, from the lists and the cache it meets.     *)
LEMMA AcceptStep ==
    ASSUME ReasonInv, NEW a \in Asked, IsArtifactInScope(a)
    PROVE  /\ UNCHANGED <<config, domains>>
           /\ accepted' \subseteq accepted \cup {a}
           /\ a \in accepted' =>
                 \/ GetDomainFromArtifact(a) # None /\ IsDomainInScope(GetDomainFromArtifact(a))
                 \/ GetIPFromArtifact(a) # None /\ Allowed(GetIPFromArtifact(a))
                 \/ /\ GetIPFromArtifact(a) = None /\ GetDomainFromArtifact(a) # None
                    /\ \E b \in Answers[GetDomainFromArtifact(a)] : Allowed(b)
<1> DEFINE d == GetDomainFromArtifact(a)
           ip == GetIPFromArtifact(a)
<1>1. /\ UNCHANGED <<config, domains>> /\ a \notin accepted
      /\ \/ accepted' = accepted \cup {a} /\ d # None /\ IsDomainInScope(d)
         \/ accepted' = accepted \cup {a} /\ ip # None /\ InScopeAs(ip)
         \/ /\ ip = None /\ d # None
            /\ \E answer \in IP \cup {None} :
                  /\ Lookup(d, answer)
                  /\ accepted' = accepted \cup (IF InScopeAs(answer) THEN {a} ELSE {})
  BY DEF IsArtifactInScope
<1>2. /\ config \in Config /\ cache \in [Domain -> IP \cup {None}]
      /\ \A e \in Domain : cache[e] \in Answers[e] \cup {None}
  BY DEF ReasonInv, Lists, Reasons
<1>3. CASE accepted' = accepted \cup {a} /\ d # None /\ IsDomainInScope(d)
  BY <1>1, <1>3
<1>4. CASE accepted' = accepted \cup {a} /\ ip # None /\ InScopeAs(ip)
  <2>1. ip \in IP \cup {None}
    BY AskedIP
  <2>2. Allowed(ip)
    BY <1>2, <1>4, <2>1, InScopeAllowed
  <2> QED
    BY <1>1, <1>4, <2>2
<1>5. ASSUME ip = None, d # None, NEW answer \in IP \cup {None}, Lookup(d, answer),
             accepted' = accepted \cup (IF InScopeAs(answer) THEN {a} ELSE {})
      PROVE  /\ accepted' \subseteq accepted \cup {a}
             /\ a \in accepted' => \E b \in Answers[d] : Allowed(b)
  <2>1. d \in Domain
    BY <1>5, AskedDomain
  <2>2. answer \in Answers[d] \cup {None}
    BY <1>2, <1>5, <2>1, LookupAnswers
  <2>3. CASE InScopeAs(answer)
    BY <1>2, <1>5, <2>2, <2>3, InScopeAllowed DEF InScopeAs
  <2>4. CASE ~InScopeAs(answer)
    BY <1>1, <1>5, <2>4
  <2> QED
    BY <2>3, <2>4
<1> QED
  BY <1>1, <1>3, <1>4, <1>5

(* The reasons for which IsArtifactInScope accepts: the name, an address   *)
(* of the artifact's own, or one its domain resolves to.                   *)
AcceptedForAddress ==
    \A a \in accepted :
        LET d == GetDomainFromArtifact(a)
            ip == GetIPFromArtifact(a)
        IN  \/ d # None /\ IsDomainInScope(d)
            \/ ip # None /\ Allowed(ip)
            \/ ip = None /\ d # None /\ \E b \in Answers[d] : Allowed(b)

LEMMA AcceptedForReason == ScopeSpec => []AcceptedForAddress
<1> DEFINE Why(a) ==
               \/ GetDomainFromArtifact(a) # None /\ IsDomainInScope(GetDomainFromArtifact(a))
               \/ GetIPFromArtifact(a) # None /\ Allowed(GetIPFromArtifact(a))
               \/ /\ GetIPFromArtifact(a) = None /\ GetDomainFromArtifact(a) # None
                  /\ \E b \in Answers[GetDomainFromArtifact(a)] : Allowed(b)
           Asking == step # "done" => accepted = {}
           J == Asking /\ AcceptedForAddress
<1>1. AcceptedForAddress <=> \A a \in accepted : Why(a)
  BY DEF AcceptedForAddress
<1>2. ScopeInit => J
  BY DEF ScopeInit, AcceptedForAddress
<1>3. ASSUME ReasonInv, J, [ScopeNext]_scopeVars
      PROVE  J'
  <2>1. CASE StartUp \/ EntryExpires \/ UNCHANGED scopeVars
    <3>1. /\ config' = config /\ accepted' = accepted
          /\ step' # "done" => step # "done"
          /\ step = "done" => domains' = domains
      BY <2>1 DEF StartUp, ReadLine, MergeDomainlist, StartRange, IterateIPs, StartDomains,
                  IterateDomains, EndScope, EntryExpires, runVars, outVars, scopeVars
    <3>2. CASE step = "done"
      <4>1. AcceptedForAddress'
        BY <1>3, <3>1, <3>2 DEF AcceptedForAddress, IsDomainInScope, Allowed
      <4> QED
        BY <1>3, <3>1, <3>2, <4>1
    <3>3. CASE step # "done"
      <4>1. accepted' = {}
        BY <1>3, <3>1, <3>3
      <4> QED
        BY <4>1 DEF AcceptedForAddress
    <3> QED
      BY <3>2, <3>3
  <2>2. ASSUME NEW a \in Asked, IsArtifactInScope(a) PROVE J'
    <3>1. /\ UNCHANGED <<config, domains>> /\ accepted' \subseteq accepted \cup {a}
          /\ a \in accepted' => Why(a)
      BY <1>3, <2>2, AcceptStep
    <3>2. \A e \in accepted' : Why(e)
      BY <1>1, <1>3, <3>1
    <3>3. \A e : Why(e) => Why(e)'
      BY <3>1 DEF IsDomainInScope, Allowed
    <3>4. AcceptedForAddress'
      <4>1. \A e \in accepted' : Why(e)'
        BY <3>2, <3>3
      <4> QED
        BY <4>1 DEF AcceptedForAddress
    <3>5. step = "done" /\ step' = step
      BY <2>2 DEF IsArtifactInScope, runVars
    <3> QED
      BY <3>4, <3>5
  <2> QED
    BY <1>3, <2>1, <2>2 DEF ScopeNext
<1>4. J => AcceptedForAddress
  OBVIOUS
<1> HIDE DEF J
<1> QED
  BY <1>2, <1>3, <1>4, ReasonInvHolds, PTL DEF ScopeSpec

(* What the lists put out of scope by its domain and by its addresses is   *)
(* never accepted, for every configuration, cache and resolver.            *)
THEOREM OutOfBothIsRefused == ScopeSpec => []OutOfBothStaysOut
<1>1. AcceptedForAddress => OutOfBothStaysOut
  <2> SUFFICES ASSUME AcceptedForAddress, NEW a \in accepted,
                      DomainOut(GetDomainFromArtifact(a)),
                      \A b \in AddressesOf(a) : AddressOut(b)
               PROVE  FALSE
    BY DEF OutOfBothStaysOut
  <2>1. GetDomainFromArtifact(a) # None => ~IsDomainInScope(GetDomainFromArtifact(a))
    BY DEF DomainOut, IsDomainInScope
  <2>2. \A b : AddressOut(b) => ~Allowed(b)
    BY DEF AddressOut, Allowed
  <2>3. \A b \in AddressesOf(a) : ~Allowed(b)
    BY <2>2
  <2> QED
    BY <2>1, <2>3 DEF AcceptedForAddress, AddressesOf
<1> QED
  BY <1>1, AcceptedForReason, PTL
-----------------------------------------------------------------------------
(* Each address once per range that has it.                                *)

Published(b) == {n \in DOMAIN ipsOut : ipsOut[n] = b}

(* The ranges whose iteration is past b.                                   *)
Passed(b) ==
    {n \in 1..cursor : /\ Has(ips[n], b)
                       /\ n < cursor \/ current = NoIP \/ Less(b, current.bytes)}

Holding(b) == {n \in DOMAIN ips : Has(ips[n], b)}

(* Before IterateIPs, on the way, unless it never ends, and after it.      *)
IterationInv ==
    /\ config \in Config
    /\ ipsOut \in Seq(Bytes)
    /\ step \in {"domainlist", "ips", "domains", "done"}
    /\ step = "domainlist" => ipsOut = <<>> /\ current = NoIP
    /\ step = "ips" =>
          /\ cursor \in 0..Len(ips)
          /\ current # NoIP => cursor # 0 /\ Yields(ips[cursor], current)
          /\ \/ cursor # 0 /\ current # NoIP /\ Endless(ips[cursor])
             \/ \A b \in Bytes : Cardinality(Published(b)) =
                   IF IsIPInScope(ParseIP(b)) THEN Cardinality(Passed(b)) ELSE 0
    /\ step \in {"domains", "done"} =>
          \A b \in Bytes : Cardinality(Published(b)) =
              IF IsIPInScope(ParseIP(b)) THEN Cardinality(Holding(b)) ELSE 0

Count(s, b) == Cardinality({n \in DOMAIN s : s[n] = b})

LEMMA AppendCount ==
    ASSUME NEW S, NEW s \in Seq(S), NEW x \in S, NEW b
    PROVE  Count(Append(s, x), b) = Count(s, b) + (IF x = b THEN 1 ELSE 0)
<1> DEFINE T == {n \in DOMAIN s : s[n] = b}
           U == {n \in DOMAIN Append(s, x) : Append(s, x)[n] = b}
<1>1. /\ Len(s) \in Nat /\ DOMAIN s = 1..Len(s) /\ DOMAIN Append(s, x) = 1..Len(s) + 1
      /\ \A n \in 1..Len(s) : Append(s, x)[n] = s[n]
      /\ Append(s, x)[Len(s) + 1] = x
  OBVIOUS
<1>2. IsFiniteSet(1..Len(s))
  BY <1>1, FS_Interval
<1>3. IsFiniteSet(T)
  <2>1. T \subseteq 1..Len(s)
    BY <1>1
  <2> QED
    BY <1>2, <2>1, FS_Subset
<1>4. Cardinality(T) \in Nat
  BY <1>3, FS_CardinalityType
<1>a. Count(s, b) = Cardinality(T) /\ Count(Append(s, x), b) = Cardinality(U)
  BY DEF Count
<1>5. CASE x = b
  <2>1. U = T \cup {Len(s) + 1}
    BY <1>1, <1>5
  <2>2. Len(s) + 1 \notin T
    BY <1>1
  <2>3. Cardinality(T \cup {Len(s) + 1}) = Cardinality(T) + 1
    BY <1>3, <2>2, FS_AddElement
  <2> HIDE DEF T, U
  <2> QED
    BY <1>5, <1>a, <2>1, <2>3
<1>6. CASE x # b
  <2>1. U = T
    BY <1>1, <1>6
  <2> HIDE DEF T, U
  <2>2. Cardinality(U) = Cardinality(T) + 0
    BY <1>4, <2>1
  <2> QED
    BY <1>6, <1>a, <2>2
<1> QED
  BY <1>5, <1>6

LEMMA PassedFinite ==
    ASSUME NEW b, cursor \in Nat
    PROVE  IsFiniteSet(Passed(b)) /\ Cardinality(Passed(b)) \in Nat
<1>1. IsFiniteSet(1..cursor)
  BY FS_Interval
<1>2. Passed(b) \subseteq 1..cursor
  BY DEF Passed
<1> QED
  BY <1>1, <1>2, FS_Subset, FS_CardinalityType

(* The range of each index.                                                *)
LEMMA RangesOfConfig ==
    ASSUME config \in Config
    PROVE  /\ Len(ips) \in Nat /\ DOMAIN ips = 1..Len(ips)
           /\ \A n \in 1..Len(ips) : RangeType(ips[n])
<1>1. config.ips \in Seq(Notation)
  BY ScopeAssumption
<1> QED
  BY <1>1, RangesOf DEF ips

LEMMA IterationInit ==
    ASSUME ScopeInit
    PROVE  IterationInv
BY DEF ScopeInit, IterationInv

(* A new range: nothing of it is passed, unless it is empty.               *)
LEMMA StartRangePasses ==
    ASSUME config \in Config, cursor \in 0..Len(ips), StartRange
    PROVE  /\ cursor' \in 1..Len(ips) /\ ips' = ips
           /\ current' # NoIP => Yields(ips[cursor'], current')
           /\ \A b \in Bytes : Passed(b)' = Passed(b)
<1> DEFINE r == ips[cursor + 1]
<1>1. /\ current = NoIP /\ cursor < Len(ips) /\ cursor' = cursor + 1
      /\ current' = First(r) /\ ips' = ips
  BY DEF StartRange, ips
<1>2. Len(ips) \in Nat /\ cursor + 1 \in 1..Len(ips)
  BY <1>1, RangesOfConfig
<1>3. RangeType(r)
  BY <1>2, RangesOfConfig
<1>4. /\ First(r) # NoIP => /\ Yields(r, First(r))
                            /\ \A b \in Bytes : Has(r, b) => ~Less(b, First(r).bytes)
      /\ First(r) = NoIP => \A b \in Bytes : ~Has(r, b)
  BY <1>3, FirstYields
<1>5. ASSUME NEW b \in Bytes PROVE Passed(b)' = Passed(b)
  <2> DEFINE after == current' = NoIP \/ Less(b, current'.bytes)
  <2>1. Passed(b) = {n \in 1..cursor : Has(ips[n], b)}
    BY <1>1 DEF Passed
  <2>2. Passed(b)' = {n \in 1..cursor' : Has(ips[n], b) /\ (n < cursor' \/ after)}
    BY <1>1 DEF Passed
  <2>3. ~(Has(ips[cursor + 1], b) /\ after)
    BY <1>1, <1>4
  <2> HIDE DEF after
  <2>4. /\ cursor' = cursor + 1
        /\ \A n \in 1..cursor + 1 : n \in 1..cursor \/ n = cursor + 1
        /\ \A n \in 1..cursor : n < cursor + 1 /\ n \in 1..cursor + 1
    BY <1>1, <1>2
  <2> QED
    BY <2>1, <2>2, <2>3, <2>4
<1> QED
  BY <1>1, <1>2, <1>4, <1>5

(* The address published is passed next, and no other.                     *)
LEMMA IteratePasses ==
    ASSUME config \in Config, cursor \in 1..Len(ips),
           Yields(ips[cursor], current), ~Endless(ips[cursor]), IterateIPs
    PROVE  /\ current' # NoIP => Yields(ips[cursor], current')
           /\ cursor \notin Passed(current.bytes)
           /\ \A b \in Bytes : Passed(b)' =
                 IF b = current.bytes THEN Passed(b) \cup {cursor} ELSE Passed(b)
<1> DEFINE r == ips[cursor]
           at == current.bytes
           next == NextIP(r, current)
<1>1. current # NoIP /\ current' = next /\ cursor' = cursor /\ ips' = ips
  BY DEF IterateIPs, ips
<1>2. RangeType(r) /\ Len(ips) \in Nat
  BY RangesOfConfig
<1>3. at \in Bytes /\ Has(r, at)
  BY BaseType DEF Yields
<1>4. /\ next # NoIP => Yields(r, next) /\ Follows(next.bytes, at)
      /\ next = NoIP => \A c \in Bytes : Has(r, c) => ~Less(at, c)
  BY <1>2, NextYields
<1>5. next # NoIP => next.bytes \in Bytes
  BY <1>4 DEF Yields
<1> DEFINE After(b) == next = NoIP \/ Less(b, next.bytes)
<1>6. ASSUME NEW b \in Bytes, Has(r, b) PROVE After(b) <=> b = at \/ Less(b, at)
  <2>1. CASE b = at
    BY <1>4, <2>1 DEF Follows
  <2>2. CASE b # at /\ next = NoIP
    BY <1>3, <1>4, <1>6, <2>2, LessTotal
  <2>3. CASE b # at /\ next # NoIP
    <3>1. Less(at, next.bytes) /\ next.bytes \in Bytes
      BY <1>4, <1>5, <2>3 DEF Follows
    <3>2. Less(b, at) => Less(b, next.bytes)
      BY <1>3, <3>1, LessTransitive
    <3>3. ASSUME Less(b, next.bytes), Less(at, b) PROVE FALSE
      <4>1. b = next.bytes \/ Less(next.bytes, b)
        BY <1>4, <2>3, <3>3 DEF Follows
      <4> QED
        BY <1>3, <3>1, <3>3, <4>1, LessTransitive, LessIrreflexive
    <3>4. Less(at, b) \/ Less(b, at)
      BY <1>3, <2>3, LessTotal
    <3> QED
      BY <2>3, <3>2, <3>3, <3>4
  <2> QED
    BY <2>1, <2>2, <2>3
<1>7. cursor \notin Passed(at)
  BY <1>1, <1>3, LessIrreflexive DEF Passed
<1>8. ASSUME NEW b \in Bytes
      PROVE  Passed(b)' = IF b = at THEN Passed(b) \cup {cursor} ELSE Passed(b)
  <2>1. Passed(b) = {n \in 1..cursor : Has(ips[n], b) /\ (n < cursor \/ Less(b, at))}
    BY <1>1 DEF Passed
  <2>2. Passed(b)' = {n \in 1..cursor : Has(ips[n], b) /\ (n < cursor \/ After(b))}
    BY <1>1 DEF Passed
  <2>3. Has(ips[cursor], b) => (After(b) <=> b = at \/ Less(b, at))
    BY <1>6
  <2> HIDE DEF After
  <2>4. \A n \in 1..cursor : n < cursor \/ n = cursor
    BY <1>2
  <2>5. CASE b = at
    <3>1. Has(ips[cursor], b) /\ After(b) /\ cursor \in 1..cursor
      BY <1>2, <1>3, <2>3, <2>5
    <3> QED
      BY <2>1, <2>2, <2>4, <2>5, <3>1
  <2>6. CASE b # at
    <3>1. \A n \in 1..cursor : Has(ips[n], b) => (n < cursor \/ After(b) <=> n < cursor \/ Less(b, at))
      BY <2>3, <2>4, <2>6
    <3> QED
      BY <2>1, <2>2, <2>6, <3>1
  <2> QED
    BY <2>5, <2>6
<1> QED
  BY <1>1, <1>4, <1>7, <1>8

LEMMA PublishedNext ==
    ASSUME ipsOut \in Seq(Bytes), current.bytes \in Bytes, IterateIPs, NEW b \in Bytes
    PROVE  /\ ipsOut' \in Seq(Bytes)
           /\ Cardinality(Published(b))' =
                 Cardinality(Published(b))
                 + (IF b = current.bytes /\ IsIPInScope(ParseIP(b)) THEN 1 ELSE 0)
<1> DEFINE at == current.bytes
<1>1. ipsOut' = IF IsIPInScope(ParseIP(at)) THEN Append(ipsOut, at) ELSE ipsOut
  BY InScopeOfBytes DEF IterateIPs
<1>2. Cardinality(Published(b)) \in Nat
  <2>1. Len(ipsOut) \in Nat /\ DOMAIN ipsOut = 1..Len(ipsOut)
    OBVIOUS
  <2>2. IsFiniteSet(1..Len(ipsOut))
    BY <2>1, FS_Interval
  <2>3. Published(b) \subseteq 1..Len(ipsOut)
    BY <2>1 DEF Published
  <2> QED
    BY <2>2, <2>3, FS_Subset, FS_CardinalityType
<1>3. CASE IsIPInScope(ParseIP(at))
  <2>1. ipsOut' = Append(ipsOut, at)
    BY <1>1, <1>3
  <2>2. Cardinality(Published(b))' = Count(Append(ipsOut, at), b)
    BY <2>1 DEF Published, Count
  <2>3. Cardinality(Published(b))' = Cardinality(Published(b)) + (IF at = b THEN 1 ELSE 0)
    <3>1. Count(Append(ipsOut, at), b) = Count(ipsOut, b) + (IF at = b THEN 1 ELSE 0)
      BY AppendCount
    <3>2. Count(ipsOut, b) = Cardinality(Published(b))
      BY DEF Published, Count
    <3> QED
      BY <2>2, <3>1, <3>2
  <2>4. Append(ipsOut, at) \in Seq(Bytes)
    OBVIOUS
  <2>5. CASE at = b
    BY <1>3, <2>1, <2>3, <2>4, <2>5
  <2>6. CASE at # b
    BY <2>1, <2>3, <2>4, <2>6
  <2> QED
    BY <2>5, <2>6
<1>4. CASE ~IsIPInScope(ParseIP(at))
  <2>1. ipsOut' = ipsOut /\ ~(b = at /\ IsIPInScope(ParseIP(b)))
    BY <1>1, <1>4
  <2>2. Published(b)' = Published(b)
    BY <2>1 DEF Published
  <2>3. Cardinality(Published(b))' = Cardinality(Published(b)) + 0
    BY <1>2, <2>2
  <2> QED
    BY <2>1, <2>3
<1> QED
  BY <1>3, <1>4

LEMMA IterationStep ==
    ASSUME IterationInv, [ScopeNext]_scopeVars
    PROVE  IterationInv'
<1> DEFINE scoped(b) == IsIPInScope(ParseIP(b))
<1>0. config \in Config /\ ipsOut \in Seq(Bytes)
  BY DEF IterationInv
<1>a. Len(ips) \in Nat /\ DOMAIN ips = 1..Len(ips) /\ \A n \in 1..Len(ips) : RangeType(ips[n])
  BY <1>0, RangesOfConfig
<1>b. config' = config
  BY DEF ScopeNext, StartUp, ReadLine, MergeDomainlist, StartRange, IterateIPs, StartDomains,
         IterateDomains, EndScope, IsArtifactInScope, EntryExpires, runVars, outVars, scopeVars
<1>c. ips' = ips /\ \A b \in Bytes : scoped(b)' <=> scoped(b)
  BY <1>b DEF ips, IsIPInScope, excludedIPs
<1>1. CASE ReadLine
  <2>1. step = "domainlist" /\ step' = step /\ UNCHANGED <<ipsOut, current>>
    BY <1>1 DEF ReadLine, outVars
  <2> QED
    BY <1>0, <1>b, <2>1 DEF IterationInv
<1>2. CASE MergeDomainlist
  <2>1. step' = "ips" /\ cursor' = 0 /\ ipsOut' = <<>> /\ current' = NoIP
    BY <1>2 DEF MergeDomainlist, outVars, IterationInv
  <2>2. \A b : Published(b)' = {} /\ Passed(b)' = {}
    BY <2>1 DEF Published, Passed
  <2>3. \A b \in Bytes : Cardinality(Published(b))' =
            IF scoped(b)' THEN Cardinality(Passed(b))' ELSE 0
    BY <2>2, FS_EmptySet
  <2>4. cursor' \in 0..Len(ips)'
    BY <1>a, <1>c, <2>1
  <2> QED
    BY <1>0, <1>b, <2>1, <2>3, <2>4 DEF IterationInv
<1>3. CASE StartRange
  <2>1. step = "ips" /\ step' = step /\ ipsOut' = ipsOut /\ current = NoIP
    BY <1>3 DEF StartRange, outVars
  <2>2. /\ cursor \in 0..Len(ips)
        /\ \A b \in Bytes : Cardinality(Published(b)) =
              IF scoped(b) THEN Cardinality(Passed(b)) ELSE 0
    BY <2>1 DEF IterationInv
  <2>3. /\ cursor' \in 1..Len(ips)
        /\ current' # NoIP => Yields(ips[cursor'], current')
        /\ \A b \in Bytes : Passed(b)' = Passed(b)
    BY <1>0, <1>3, <2>2, StartRangePasses
  <2>4. \A b : Published(b)' = Published(b)
    BY <2>1 DEF Published
  <2>5. \A b \in Bytes : Cardinality(Published(b))' =
            IF scoped(b)' THEN Cardinality(Passed(b))' ELSE 0
    BY <1>c, <2>2, <2>3, <2>4
  <2>6. /\ cursor' \in 0..Len(ips)' /\ cursor' # 0
        /\ current' # NoIP => Yields(ips[cursor], current)'
    BY <1>a, <1>c, <2>3
  <2> QED
    BY <1>0, <1>b, <2>1, <2>5, <2>6 DEF IterationInv
<1>4. CASE IterateIPs
  <2>1. step = "ips" /\ step' = step /\ cursor' = cursor /\ current # NoIP
    BY <1>4 DEF IterateIPs
  <2>2. cursor \in 1..Len(ips) /\ Yields(ips[cursor], current)
    BY <1>a, <2>1 DEF IterationInv
  <2>3. current' = NextIP(ips[cursor], current)
    BY <1>4 DEF IterateIPs
  <2>4. current.bytes \in Bytes /\ RangeType(ips[cursor])
    BY <1>a, <2>2 DEF Yields
  <2>5. \A b \in Bytes :
           /\ ipsOut' \in Seq(Bytes)
           /\ Cardinality(Published(b))' =
                 Cardinality(Published(b)) + (IF b = current.bytes /\ scoped(b) THEN 1 ELSE 0)
    BY <1>0, <1>4, <2>4, PublishedNext
  <2>6. cursor' \in 0..Len(ips)' /\ cursor' # 0
    BY <1>a, <1>c, <2>1, <2>2
  <2>7. CASE Endless(ips[cursor])
    <3>1. Yields(ips[cursor], current')
      BY <2>2, <2>3, <2>4, <2>7, EndlessYields
    <3>2. Yields(ips[cursor], current)' /\ Endless(ips[cursor])' /\ (current # NoIP)'
      BY <1>c, <2>1, <2>7, <3>1 DEF Yields
    <3> QED
      BY <1>0, <1>b, <2>1, <2>4, <2>5, <2>6, <3>2 DEF IterationInv
  <2>8. CASE ~Endless(ips[cursor])
    <3>1. \A b \in Bytes : Cardinality(Published(b)) =
              IF scoped(b) THEN Cardinality(Passed(b)) ELSE 0
      BY <2>1, <2>8 DEF IterationInv
    <3>2. /\ current' # NoIP => Yields(ips[cursor], current')
          /\ cursor \notin Passed(current.bytes)
          /\ \A b \in Bytes : Passed(b)' =
                IF b = current.bytes THEN Passed(b) \cup {cursor} ELSE Passed(b)
      BY <1>0, <1>4, <2>2, <2>8, IteratePasses
    <3>3. ASSUME NEW b \in Bytes
          PROVE  Cardinality(Published(b))' = IF scoped(b)' THEN Cardinality(Passed(b))' ELSE 0
      <4>1. IsFiniteSet(Passed(b)) /\ Cardinality(Passed(b)) \in Nat
        BY <1>a, <2>2, PassedFinite
      <4>2. CASE b = current.bytes
        <5>1. Cardinality(Passed(b) \cup {cursor}) = Cardinality(Passed(b)) + 1
          BY <3>2, <4>1, <4>2, FS_AddElement
        <5>2. Cardinality(Passed(b))' = Cardinality(Passed(b)) + 1
          BY <3>2, <4>2, <5>1
        <5>3. Cardinality(Published(b))' = Cardinality(Published(b)) + (IF scoped(b) THEN 1 ELSE 0)
          BY <2>5, <4>2
        <5> QED
          BY <1>c, <3>1, <4>1, <5>2, <5>3
      <4>3. CASE b # current.bytes
        <5>1. Passed(b)' = Passed(b)
          BY <3>2, <4>3
        <5>2. Cardinality(Published(b))' = Cardinality(Published(b)) + 0
          BY <2>5, <4>3
        <5> QED
          BY <1>c, <3>1, <4>1, <5>1, <5>2
      <4> QED
        BY <4>2, <4>3
    <3>4. current' # NoIP => Yields(ips[cursor], current)'
      BY <1>c, <2>1, <3>2
    <3> QED
      BY <1>0, <1>b, <2>1, <2>4, <2>5, <2>6, <3>3, <3>4 DEF IterationInv
  <2> QED
    BY <2>7, <2>8
<1>5. CASE StartDomains
  <2>1. /\ step = "ips" /\ step' = "domains" /\ ipsOut' = ipsOut
        /\ current = NoIP /\ cursor = Len(ips)
    BY <1>5 DEF StartDomains, outVars
  <2>2. \A b \in Bytes : Cardinality(Published(b)) =
            IF scoped(b) THEN Cardinality(Passed(b)) ELSE 0
    BY <2>1 DEF IterationInv
  <2>3. \A b : Passed(b) = Holding(b)
    BY <1>a, <2>1 DEF Passed, Holding
  <2>4. \A b : Published(b)' = Published(b) /\ Holding(b)' = Holding(b)
    BY <1>c, <2>1 DEF Published, Holding
  <2>5. \A b \in Bytes : Cardinality(Published(b))' =
            IF scoped(b)' THEN Cardinality(Holding(b))' ELSE 0
    BY <1>c, <2>2, <2>3, <2>4
  <2> QED
    BY <1>0, <1>b, <2>1, <2>5 DEF IterationInv
<1>6. CASE \/ IterateDomains \/ EndScope \/ EntryExpires \/ UNCHANGED scopeVars
           \/ \E a \in Asked : IsArtifactInScope(a)
  <2>1. /\ ipsOut' = ipsOut
        /\ \/ step \in {"domains", "done"} /\ step' \in {"domains", "done"}
           \/ UNCHANGED <<step, cursor, current>>
    BY <1>6 DEF IterateDomains, EndScope, EntryExpires, IsArtifactInScope, runVars, outVars, scopeVars
  <2>2. \A b : Published(b)' = Published(b) /\ Holding(b)' = Holding(b)
    BY <1>c, <2>1 DEF Published, Holding
  <2>3. CASE step \in {"domains", "done"} /\ step' \in {"domains", "done"}
    <3>1. \A b \in Bytes : Cardinality(Published(b))' =
              IF scoped(b)' THEN Cardinality(Holding(b))' ELSE 0
      BY <1>c, <2>2, <2>3 DEF IterationInv
    <3> QED
      BY <1>0, <1>b, <2>1, <2>3, <3>1 DEF IterationInv
  <2>4. CASE UNCHANGED <<step, cursor, current>>
    <3>1. \A b : Passed(b)' = Passed(b)
      BY <1>c, <2>4 DEF Passed
    <3> QED
      BY <1>b, <1>c, <2>1, <2>2, <2>4, <3>1 DEF IterationInv
  <2> QED
    BY <2>1, <2>3, <2>4
<1> QED
  BY <1>1, <1>2, <1>3, <1>4, <1>5, <1>6 DEF ScopeNext, StartUp

(* IterationInv holds.                                                     *)
THEOREM IterationInvHolds == ScopeSpec => []IterationInv
<1>1. ScopeInit => IterationInv
  BY IterationInit
<1>2. IterationInv /\ [ScopeNext]_scopeVars => IterationInv'
  BY IterationStep
<1> QED
  BY <1>1, <1>2, PTL DEF ScopeSpec

(* When IterateIPs is over, each address has been published once per       *)
(* notation that stands for it, and not at all if it is excluded.          *)
THEOREM IterationIsExact == ScopeSpec => []IterationExact
<1>1. IterationInv => IterationExact
  <2> SUFFICES ASSUME IterationInv, step \in {"domains", "done"}, NEW b \in Bytes
               PROVE  Cardinality(Published(b)) =
                         IF Allowed(b)
                         THEN Cardinality({n \in DOMAIN config.ips : Denotes(config.ips[n], b)})
                         ELSE 0
    BY DEF IterationExact, Published
  <2>1. config.ips \in Seq(Notation) /\ config \in Config
    BY ScopeAssumption DEF IterationInv
  <2>2. /\ DOMAIN ips = DOMAIN config.ips
        /\ \A n \in DOMAIN ips : ips[n] = NewIPRangeFromString(config.ips[n]) /\ config.ips[n] \in Notation
    BY <2>1, RangesOf DEF ips
  <2>3. \A n \in DOMAIN ips : Has(ips[n], b) <=> Denotes(config.ips[n], b)
    BY <2>2, NotationDenotes
  <2>4. Holding(b) = {n \in DOMAIN config.ips : Denotes(config.ips[n], b)}
    BY <2>2, <2>3 DEF Holding
  <2>5. IsIPInScope(ParseIP(b)) <=> Allowed(b)
    BY <2>1, AllowedInScope
  <2> QED
    BY <2>4, <2>5 DEF IterationInv
<1> QED
  BY <1>1, IterationInvHolds, PTL
=============================================================================
