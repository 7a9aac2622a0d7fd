------------------------------ MODULE PacketProofs ------------------------------
(***************************************************************************)
(* What the packets say is what is read from them, for every value.        *)
(*                                                                         *)
(* First the numbers: two bytes, and the length field, for every length    *)
(* encode() lets pass.  EncodeLength and RemainingLength are recursive     *)
(* functions; that they are what their equations say rests on Recursion,   *)
(* that a function with such an equation exists, and on Least, induction   *)
(* by the least counterexample.                                            *)
(*                                                                         *)
(* Then the packets: where the fields of each stand in its bytes (Holds),  *)
(* that its frame is one the parser accepts (IsFrame, IsPacket), and what  *)
(* the parser reports of it (SaysParsed).  Then the exchange: ExchangeInv, *)
(* an inductive invariant of PacketExchange, and the properties its run    *)
(* checks, which follow from it.  Last the check of topics.                *)
(***************************************************************************)
EXTENDS PacketExchange, WellFoundedInduction, FiniteSetTheorems, SequenceTheorems, TLAPS

\* encodeNumber writes two bytes, and the parser's arithmetic (PUBACK, UNSUBACK,
\* PUBREL, PUBLISH) gives the number back: no identifier is altered on its way.
THEOREM NumberReadBack ==
    ASSUME NEW n \in Uint16
    PROVE  /\ EncodeNumber(n) \in Seq(Byte) /\ Len(EncodeNumber(n)) = 2
           /\ Number(EncodeNumber(n)[1], EncodeNumber(n)[2]) = n
<1>1. n \in Int /\ 0 <= n /\ n <= 65535
  BY DEF Uint16
<1>2. /\ n \div 256 \in Int /\ n % 256 \in Int
      /\ 0 <= n % 256 /\ n % 256 < 256
      /\ n = 256 * (n \div 256) + (n % 256)
  BY <1>1
<1>3. n \div 256 \in Byte /\ n % 256 \in Byte
  BY <1>1, <1>2 DEF Byte
<1> QED
  BY <1>2, <1>3 DEF EncodeNumber, Number

\* parseSUBACK extends the sign of the first byte; the cut to uint16_t at the end
\* removes what that adds, so it reads the identifier the other parsers read.
THEOREM SignExtensionHarmless ==
    ASSUME NEW hi \in Byte, NEW lo \in Byte
    PROVE  SubackIdentifier(hi, lo) = Number(hi, lo)
<1>1. CASE hi < 128
  <2>1. hi % 65536 = hi /\ (hi * 256 + lo) % 65536 = hi * 256 + lo
    BY <1>1 DEF Byte
  <2> QED
    BY <1>1, <2>1 DEF SubackIdentifier, Number, Byte
<1>2. CASE hi >= 128
  <2>1. (hi - 256) % 65536 = hi + 65280
    BY <1>2 DEF Byte
  <2>2. ((hi + 65280) * 256 + lo) % 65536 = hi * 256 + lo
    BY <1>2 DEF Byte
  <2> QED
    BY <1>2, <2>1, <2>2 DEF SubackIdentifier, Number, Byte
<1> QED
  BY <1>1, <1>2 DEF Byte

\* A SUBACK for the identifier of a SUBSCRIBE names that SUBSCRIBE.
COROLLARY SubackNamesSubscribe ==
    ASSUME NEW n \in Uint16
    PROVE  SubackIdentifier(EncodeNumber(n)[1], EncodeNumber(n)[2]) = n
<1>1. EncodeNumber(n)[1] \in Byte /\ EncodeNumber(n)[2] \in Byte
  BY NumberReadBack
<1> QED
  BY <1>1, NumberReadBack, SignExtensionHarmless

-----------------------------------------------------------------------------
(* Induction over the natural numbers, by their least counterexample *)

LEMMA Least ==
    ASSUME NEW S, S \subseteq Nat, S # {}
    PROVE  \E n \in S : \A m \in S : n <= m
<1> DEFINE R == {ss \in Nat \X Nat : ss[1] < ss[2]}
<1>1. IsWellFoundedOn(R, Nat)
  BY NatLessThanWellFounded, Zenon DEF OpToRel
<1> HIDE DEF R
<1>2. PICK n \in S : \A m \in S : ~ (<<m, n>> \in R)
  BY <1>1, WFMin
<1>3. ASSUME NEW m \in S PROVE n <= m
  <2>1. n \in Nat /\ m \in Nat
    OBVIOUS
  <2>2. m < n => <<m, n>> \in R
    BY <2>1 DEF R
  <2>3. ~ (m < n)
    BY <1>2, <2>2
  <2>4. QED
    BY <2>1, <2>3
<1>4. QED
  BY <1>3

LEMMA UpToBelow ==
    ASSUME NEW D, D \subseteq Nat, NEW n \in Nat
    PROVE  /\ n = 0 => {m \in D : m < n} = {}
           /\ n # 0 => n - 1 \in Nat /\ ~ (n <= n - 1) /\ {m \in D : m <= n - 1} = {m \in D : m < n}
<1>1. \A m \in D : m \in Nat
  OBVIOUS
<1>2. \A m \in Nat : m <= n - 1 <=> m < n
  OBVIOUS
<1>3. {m \in D : m <= n - 1} = {m \in D : m < n}
  BY <1>1, <1>2
<1>4. n = 0 => \A m \in D : ~ (m < n)
  BY <1>1
<1>5. n = 0 => {m \in D : m < n} = {}
  BY <1>4
<1>6. QED
  BY <1>3, <1>5

\* A function on D, a set of natural numbers, with values in T is defined by recursion: on B
\* it is base, elsewhere it is what grow makes of its value at the smaller number prev.
IsRecursion(D, T, B, base, prev, grow) ==
    /\ D \subseteq Nat
    /\ base \in [D -> T] /\ prev \in [D -> Nat] /\ grow \in [(D \ B) \X T -> T]
    /\ \A n \in D \ B : prev[n] \in D /\ prev[n] < n

HasSolution(D, T, B, base, prev, grow) ==
    \E f \in [D -> T] : \A n \in D : f[n] = IF n \in B THEN base[n] ELSE grow[<<n, f[prev[n]]>>]

LEMMA Recursion ==
    ASSUME NEW D, NEW T, NEW B, NEW base, NEW prev, NEW grow,
           IsRecursion(D, T, B, base, prev, grow)
    PROVE  HasSolution(D, T, B, base, prev, grow)
<1> USE DEF IsRecursion
<1> DEFINE Value(n, g) == IF n \in B THEN base[n] ELSE grow[<<n, g[prev[n]]>>]
           UpTo(n) == {m \in D : m <= n}
           Good(n, g) == g \in [UpTo(n) -> T] /\ \A m \in UpTo(n) : g[m] = Value(m, g)
\* Two of them agree where both are defined.
<1>1. ASSUME NEW n \in Nat, NEW k \in Nat, NEW g, NEW h, Good(n, g), Good(k, h), n <= k
      PROVE  \A m \in UpTo(n) : g[m] = h[m]
  <2> DEFINE Bad == {m \in UpTo(n) : g[m] # h[m]}
  <2> SUFFICES ASSUME Bad # {} PROVE FALSE
    OBVIOUS
  <2>1. PICK m \in Bad : \A i \in Bad : m <= i
    <3>1. Bad \subseteq Nat
      OBVIOUS
    <3> HIDE DEF Bad
    <3>2. QED
      BY <3>1, Least
  <2>2. m \in D /\ m <= n /\ m \in UpTo(k) /\ m \in Nat
    BY <1>1
  <2>3. m \notin B
    BY <1>1, <2>2
  <2>4. prev[m] \in D /\ prev[m] < m /\ prev[m] \in Nat
    BY <2>2, <2>3
  <2>5. g[prev[m]] = h[prev[m]]
    BY <2>1, <2>2, <2>4
  <2>6. g[m] = Value(m, g) /\ h[m] = Value(m, h)
    BY <1>1, <2>2
  <2>7. QED
    BY <2>1, <2>3, <2>5, <2>6
\* There is one up to each number.
<1>2. \A n \in Nat : \E g : Good(n, g)
  <2> DEFINE Bad == {n \in Nat : ~ \E g : Good(n, g)}
  <2> SUFFICES ASSUME Bad # {} PROVE FALSE
    OBVIOUS
  <2>1. PICK n \in Bad : \A i \in Bad : n <= i
    <3>1. Bad \subseteq Nat
      OBVIOUS
    <3> HIDE DEF Bad
    <3>2. QED
      BY <3>1, Least
  <2>2. n \in Nat /\ ~ \E g : Good(n, g)
    OBVIOUS
  <2> DEFINE Below == {m \in D : m < n}
  <2>3. \E h : h \in [Below -> T] /\ \A m \in Below : h[m] = Value(m, h)
    <3>1. CASE n = 0
      <4>1. Below = {}
        BY <2>2, <3>1, UpToBelow
      <4> HIDE DEF Below
      <4>2. [m \in Below |-> base[m]] \in [Below -> T]
        BY <4>1
      <4>3. \A m \in Below : [i \in Below |-> base[i]][m] = Value(m, [i \in Below |-> base[i]])
        BY <4>1
      <4>4. QED
        BY <4>2, <4>3
    <3>2. CASE n # 0
      <4>0. n - 1 \in Nat /\ ~ (n <= n - 1) /\ UpTo(n - 1) = Below
        BY <2>2, <3>2, UpToBelow
      <4>1. n - 1 \in Nat /\ n - 1 \notin Bad
        <5> HIDE DEF Bad, UpTo, Below
        <5>1. QED
          BY <2>1, <4>0
      <4>2. \E h : Good(n - 1, h)
        BY <4>1
      <4>3. UpTo(n - 1) = Below
        BY <4>0
      <4>4. QED
        <5> HIDE DEF Below, Value, UpTo
        <5>1. QED
          BY <4>2, <4>3
    <3>3. QED
      BY <3>1, <3>2
  <2>3a. PICK h : h \in [Below -> T] /\ \A m \in Below : h[m] = Value(m, h)
    BY <2>3
  <2> DEFINE g == [m \in UpTo(n) |-> IF m < n THEN h[m] ELSE Value(n, h)]
  <2>4. \A m \in UpTo(n) : m \in D /\ m \in Nat /\ (m < n \/ m = n)
    BY <2>2
  <2>5. \A m \in D : m < n => g[m] = h[m]
    <3>1. \A m \in D : m < n => m \in UpTo(n)
      BY <2>2
    <3> HIDE DEF UpTo, Value
    <3>2. QED
      BY <3>1
  <2>6. ASSUME NEW m \in UpTo(n) PROVE Value(m, g) = Value(m, h)
    <3>1. m \in D /\ m \in Nat /\ m <= n
      BY <2>2
    <3>2. CASE m \in B
      BY <3>2
    <3>3. CASE m \notin B
      <4>1. prev[m] \in D /\ prev[m] < m /\ prev[m] \in Nat
        BY <3>1, <3>3
      <4>2. prev[m] < n
        BY <2>2, <3>1, <4>1
      <4>3. g[prev[m]] = h[prev[m]]
        BY <2>5, <4>1, <4>2
      <4>4. QED
        BY <3>3, <4>3
    <3>4. QED
      BY <3>2, <3>3
  <2>7. \A m \in UpTo(n) : g[m] = Value(m, g)
    BY <2>3a, <2>4, <2>6
  <2>8. \A m \in UpTo(n) : g[m] \in T
    <3>1. ASSUME NEW m \in UpTo(n), m = n PROVE Value(n, h) \in T
      <4>1. n \in D
        BY <3>1
      <4>2. CASE n \in B
        BY <4>1, <4>2
      <4>3. CASE n \notin B
        <5>1. prev[n] \in D /\ prev[n] < n
          BY <4>1, <4>3
        <5>2. h[prev[n]] \in T
          BY <2>3a, <5>1
        <5>3. QED
          BY <4>1, <4>3, <5>2
      <4>4. QED
        BY <4>2, <4>3
    <3>2. QED
      BY <2>3a, <2>4, <3>1
  <2>9. Good(n, g)
    BY <2>7, <2>8
  <2>10. QED
    BY <2>2, <2>9
<1> DEFINE F(n) == CHOOSE g : Good(n, g)
           f == [n \in D |-> F(n)[n]]
<1>3. \A n \in Nat : Good(n, F(n))
  BY <1>2
<1> HIDE DEF F
<1>4. \A n \in D : f[n] = Value(n, f) /\ f[n] \in T
  <2> TAKE n \in D
  <2>1. n \in Nat /\ n \in UpTo(n)
    OBVIOUS
  <2>2. f[n] = Value(n, F(n)) /\ f[n] \in T
    BY <1>3, <2>1
  <2>3. ASSUME n \notin B PROVE F(n)[prev[n]] = f[prev[n]]
    <3>1. prev[n] \in D /\ prev[n] < n /\ prev[n] \in Nat /\ prev[n] \in UpTo(prev[n])
      BY <2>3
    <3>2. Good(prev[n], F(prev[n])) /\ Good(n, F(n))
      BY <1>3, <2>1, <3>1
    <3> HIDE DEF Good
    <3>3. F(prev[n])[prev[n]] = F(n)[prev[n]]
      BY <1>1, <2>1, <3>1, <3>2
    <3>4. QED
      BY <3>1, <3>3
  <2>4. QED
    BY <2>2, <2>3
<1>5. f \in [D -> T]
  BY <1>4
<1>6. QED
  BY <1>4, <1>5 DEF HasSolution

-----------------------------------------------------------------------------
(* The length field *)

\* The recursive function behind EncodeLength is the one its equation describes.
LEMMA EncodeLengthEquation ==
    /\ \A n \in Nat : EncodeLength(n) \in Seq(Nat)
    /\ \A n \in Nat : n < 128 => EncodeLength(n) = <<n>>
    /\ \A n \in Nat : n >= 128 => EncodeLength(n) = <<128 + (n % 128)>> \o EncodeLength(n \div 128)
<1> DEFINE End == 0 .. 127
           Strings == Seq(Nat)
           base == [n \in Nat |-> <<n>>]
           prev == [n \in Nat |-> n \div 128]
           grow == [p \in (Nat \ End) \X Strings |-> <<128 + (p[1] % 128)>> \o p[2]]
           Law(f) == f = [n \in Nat |-> IF n < 128 THEN <<n>>
                                        ELSE <<128 + (n % 128)>> \o f[n \div 128]]
           Digits == CHOOSE f : Law(f)
<1>1. base \in [Nat -> Strings] /\ prev \in [Nat -> Nat]
  OBVIOUS
<1>1a. ASSUME NEW n \in Nat, NEW s \in Seq(Nat) PROVE <<128 + (n % 128)>> \o s \in Seq(Nat)
  <2>1. 128 + (n % 128) \in Nat
    OBVIOUS
  <2>2. <<128 + (n % 128)>> \in Seq(Nat)
    BY <2>1
  <2>3. QED
    BY <2>2, ConcatProperties
<1>2. grow \in [(Nat \ End) \X Strings -> Strings]
  <2>1. ASSUME NEW p \in (Nat \ End) \X Strings PROVE <<128 + (p[1] % 128)>> \o p[2] \in Strings
    <3> HIDE DEF End, Strings
    <3>1. p[1] \in Nat /\ p[2] \in Strings
      OBVIOUS
    <3>2. QED
      BY <1>1a, <3>1 DEF Strings
  <2>2. QED
    BY <2>1
<1>2a. ASSUME NEW n \in Nat \ End, NEW s \in Strings
       PROVE  grow[<<n, s>>] = <<128 + (n % 128)>> \o s
  <2> HIDE DEF End, Strings
  <2>1. QED
    OBVIOUS
<1>3. \A n \in Nat \ End : prev[n] \in Nat /\ prev[n] < n
  OBVIOUS
<1>4. \E f \in [Nat -> Strings] :
         \A n \in Nat : f[n] = IF n \in End THEN base[n] ELSE grow[<<n, f[prev[n]]>>]
  <2> HIDE DEF End, base, prev, grow, Strings
  <2>1. IsRecursion(Nat, Strings, End, base, prev, grow)
    BY <1>1, <1>2, <1>3 DEF IsRecursion
  <2>2. HasSolution(Nat, Strings, End, base, prev, grow)
    BY <2>1, Recursion
  <2>3. QED
    BY <2>2 DEF HasSolution
<1>5. PICK f \in [Nat -> Strings] :
         \A n \in Nat : f[n] = IF n \in End THEN base[n] ELSE grow[<<n, f[prev[n]]>>]
  BY <1>4
<1>6. ASSUME NEW n \in Nat
      PROVE  f[n] = IF n < 128 THEN <<n>> ELSE <<128 + (n % 128)>> \o f[n \div 128]
  <2>1. CASE n < 128
    <3>1. n \in End
      BY <2>1
    <3>2. f[n] = base[n]
      BY <1>5, <3>1
    <3>3. QED
      BY <2>1, <3>2
  <2>2. CASE n >= 128
    <3>1. n \notin End /\ n \div 128 \in Nat /\ prev[n] = n \div 128
      BY <2>2
    <3>2. f[n] = grow[<<n, f[n \div 128]>>]
      BY <1>5, <3>1
    <3>3. n \in Nat \ End /\ f[n \div 128] \in Strings
      BY <3>1
    <3> HIDE DEF grow, End, Strings
    <3>4. f[n] = <<128 + (n % 128)>> \o f[n \div 128]
      BY <1>2a, <3>2, <3>3
    <3>5. QED
      BY <2>2, <3>4
  <2>3. n < 128 \/ n >= 128
    OBVIOUS
  <2>4. QED
    BY <2>1, <2>2, <2>3, Zenon
<1>7. Law(f)
  <2>1. f = [n \in Nat |-> f[n]]
    OBVIOUS
  <2>2. QED
    BY <1>6, <2>1
<1>8. Law(Digits)
  BY <1>7
<1>9. \A n : EncodeLength(n) = Digits[n]
  BY DEF EncodeLength
<1> HIDE DEF Digits
<1>10. \A n \in Nat : Digits[n] = IF n < 128 THEN <<n>> ELSE <<128 + (n % 128)>> \o Digits[n \div 128]
  BY <1>8
<1>11. \A n \in Nat : Digits[n] \in Seq(Nat)
  <2> DEFINE Bad == {n \in Nat : Digits[n] \notin Seq(Nat)}
  <2> SUFFICES ASSUME Bad # {} PROVE FALSE
    OBVIOUS
  <2>1. PICK n \in Bad : \A i \in Bad : n <= i
    <3>1. Bad \subseteq Nat
      OBVIOUS
    <3> HIDE DEF Bad
    <3>2. QED
      BY <3>1, Least
  <2>2. CASE n < 128
    <3>1. Digits[n] = <<n>> /\ n \in Nat
      BY <1>10, <2>2
    <3>2. <<n>> \in Seq(Nat)
      BY <3>1
    <3>3. Digits[n] \notin Seq(Nat)
      OBVIOUS
    <3>4. QED
      BY <3>1, <3>2, <3>3, Zenon
  <2>3. CASE n >= 128
    <3>1. n \div 128 \in Nat /\ n \div 128 < n /\ 128 + (n % 128) \in Nat
      BY <2>3
    <3>2. Digits[n \div 128] \in Seq(Nat)
      BY <2>1, <3>1
    <3>4. <<128 + (n % 128)>> \o Digits[n \div 128] \in Seq(Nat)
      BY <1>1a, <3>2
    <3>5. n \in Nat /\ ~ (n < 128) /\ Digits[n] \notin Seq(Nat)
      BY <2>3
    <3>6. Digits[n] = <<128 + (n % 128)>> \o Digits[n \div 128]
      BY <1>10, <3>5, Zenon
    <3>7. QED
      BY <3>4, <3>5, <3>6, Zenon
  <2>4. QED
    BY <2>2, <2>3
<1>12. \A n \in Nat : EncodeLength(n) \in Seq(Nat)
  BY <1>9, <1>11, Zenon
<1>13. \A n \in Nat : Digits[n] = EncodeLength(n)
  BY <1>9, Zenon
<1>14. ASSUME NEW n \in Nat
       PROVE  EncodeLength(n) = IF n < 128 THEN <<n>> ELSE <<128 + (n % 128)>> \o EncodeLength(n \div 128)
  <2>1. n \div 128 \in Nat
    OBVIOUS
  <2>2. Digits[n \div 128] = EncodeLength(n \div 128) /\ Digits[n] = EncodeLength(n)
    BY <1>13, <2>1
  <2>3. QED
    BY <1>10, <2>2, Zenon
<1>15. \A n \in Nat : n >= 128 => ~ (n < 128)
  OBVIOUS
<1>16. QED
  BY <1>12, <1>14, <1>15, Zenon

\* The field d of at most k bytes says n.
Digit(d, i) == IF i <= Len(d) THEN d[i] % 128 ELSE 0
IsLengthField(d, n, k) ==
    /\ d \in Seq(Byte) /\ 1 <= Len(d) /\ Len(d) <= k
    /\ \A i \in 1 .. Len(d) - 1 : d[i] >= 128
    /\ d[Len(d)] < 128
    /\ n = Digit(d, 1) + 128 * (Digit(d, 2) + 128 * (Digit(d, 3) + 128 * (Digit(d, 4) + 128 * Digit(d, 5))))

LEMMA OneMoreDigit ==
    ASSUME NEW k \in 1 .. 4, NEW n \in Nat, NEW d, IsLengthField(d, n \div 128, k)
    PROVE  IsLengthField(<<128 + (n % 128)>> \o d, n, k + 1)
<1> DEFINE first == 128 + (n % 128)
           e == <<first>> \o d
           m == n \div 128
<1>1. /\ first \in Byte /\ first >= 128 /\ first % 128 = n % 128
      /\ m \in Nat /\ n = (n % 128) + 128 * m /\ n % 128 \in Int
  BY DEF Byte
<1>2. d \in Seq(Byte) /\ Len(d) \in Nat /\ 1 <= Len(d) /\ Len(d) <= 4 /\ Len(d) <= k
  <2>1. d \in Seq(Byte) /\ 1 <= Len(d) /\ Len(d) <= k
    BY DEF IsLengthField
  <2>2. Len(d) \in Nat
    BY <2>1, LenProperties
  <2>3. QED
    BY <2>1, <2>2
<1>3. <<first>> \in Seq(Byte) /\ Len(<<first>>) = 1 /\ <<first>>[1] = first
  BY <1>1
<1>4. /\ e \in Seq(Byte) /\ Len(e) = Len(d) + 1
      /\ \A i \in 1 .. Len(d) + 1 : e[i] = IF i <= 1 THEN <<first>>[i] ELSE d[i - 1]
  BY <1>2, <1>3, ConcatProperties
<1> HIDE DEF e, first, m
<1>5. e[1] = first /\ \A i \in 1 .. Len(d) : e[i + 1] = d[i]
  <2>1. e[1] = first
    BY <1>2, <1>3, <1>4
  <2>2. ASSUME NEW i \in 1 .. Len(d) PROVE e[i + 1] = d[i]
    <3>1. i + 1 \in 1 .. Len(d) + 1 /\ ~ (i + 1 <= 1) /\ (i + 1) - 1 = i
      BY <1>2
    <3>2. QED
      BY <1>4, <3>1
  <2>3. QED
    BY <2>1, <2>2
<1>6. ASSUME NEW i \in 1 .. Len(e) - 1 PROVE e[i] >= 128
  <2>1. CASE i = 1
    BY <1>1, <1>5, <2>1
  <2>2. CASE i # 1
    <3>1. i - 1 \in 1 .. Len(d) - 1 /\ i - 1 \in 1 .. Len(d) /\ (i - 1) + 1 = i
      BY <1>2, <1>4, <2>2
    <3>2. d[i - 1] >= 128
      BY <3>1 DEF IsLengthField
    <3>3. QED
      BY <1>5, <3>1, <3>2
  <2>3. QED
    BY <2>1, <2>2
<1>7. e[Len(e)] < 128
  <2>1. Len(d) \in 1 .. Len(d) /\ Len(e) = Len(d) + 1
    BY <1>2, <1>4
  <2>2. d[Len(d)] < 128
    BY DEF IsLengthField
  <2>3. QED
    BY <1>5, <2>1, <2>2
<1>8. Digit(e, 1) = n % 128
  BY <1>1, <1>2, <1>4, <1>5 DEF Digit
<1>9. ASSUME NEW i \in 1 .. 4 PROVE Digit(e, i + 1) = Digit(d, i)
  <2>1. CASE i <= Len(d)
    <3>1. i \in 1 .. Len(d) /\ i + 1 <= Len(e)
      BY <1>2, <1>4, <2>1
    <3>2. QED
      BY <1>5, <2>1, <3>1 DEF Digit
  <2>2. CASE ~ (i <= Len(d))
    <3>1. ~ (i + 1 <= Len(e))
      BY <1>2, <1>4, <2>2
    <3>2. QED
      BY <2>2, <3>1 DEF Digit
  <2>3. QED
    BY <2>1, <2>2
<1>10. \A i \in 1 .. 5 : Digit(d, i) \in Nat
  <2>1. TAKE i \in 1 .. 5
  <2>2. CASE i <= Len(d)
    <3>1. i \in 1 .. Len(d)
      BY <1>2, <2>2
    <3>2. d[i] \in Byte
      BY <1>2, <3>1, ElementOfSeq
    <3>3. d[i] % 128 \in Nat
      BY <3>2 DEF Byte
    <3>4. QED
      BY <2>2, <3>3 DEF Digit
  <2>3. CASE ~ (i <= Len(d))
    BY <2>3 DEF Digit
  <2>4. QED
    BY <2>2, <2>3
<1>11. Digit(d, 5) = 0
  BY <1>2 DEF Digit
<1>12. m = Digit(d, 1) + 128 * (Digit(d, 2) + 128 * (Digit(d, 3) + 128 * (Digit(d, 4) + 128 * Digit(d, 5))))
  BY DEF IsLengthField, m
<1>13. Digit(e, 2) = Digit(d, 1) /\ Digit(e, 3) = Digit(d, 2) /\ Digit(e, 4) = Digit(d, 3)
       /\ Digit(e, 5) = Digit(d, 4)
  <2>1. 1 + 1 = 2 /\ 2 + 1 = 3 /\ 3 + 1 = 4 /\ 4 + 1 = 5
    OBVIOUS
  <2>2. QED
    BY <1>9, <2>1
<1>14. n = Digit(e, 1) + 128 * (Digit(e, 2) + 128 * (Digit(e, 3) + 128 * (Digit(e, 4) + 128 * Digit(e, 5))))
  BY <1>1, <1>8, <1>10, <1>11, <1>12, <1>13
<1>15. IsLengthField(e, n, k + 1)
  <2>1. 1 <= Len(e) /\ Len(e) <= k + 1
    BY <1>2, <1>4
  <2>2. QED
    BY <1>4, <1>6, <1>7, <1>14, <2>1 DEF IsLengthField
<1>16. QED
  BY <1>15 DEF e, first

LEMMA OneDigit ==
    ASSUME NEW n \in 0 .. 127
    PROVE  IsLengthField(EncodeLength(n), n, 1)
<1>1. EncodeLength(n) = <<n>>
  BY EncodeLengthEquation
<1>2. n \in Byte
  BY DEF Byte
<1>3. <<n>> \in Seq(Byte) /\ Len(<<n>>) = 1 /\ <<n>>[1] = n
  BY <1>2
<1>4. Digit(<<n>>, 1) = n /\ Digit(<<n>>, 2) = 0 /\ Digit(<<n>>, 3) = 0 /\ Digit(<<n>>, 4) = 0
      /\ Digit(<<n>>, 5) = 0
  BY <1>3 DEF Digit
<1>5. IsLengthField(<<n>>, n, 1)
  BY <1>3, <1>4 DEF IsLengthField
<1>6. QED
  BY <1>1, <1>5

LEMMA ManyDigits ==
    ASSUME NEW k \in 1 .. 4, NEW n \in Nat, n >= 128,
           IsLengthField(EncodeLength(n \div 128), n \div 128, k)
    PROVE  IsLengthField(EncodeLength(n), n, k + 1)
<1>1. IsLengthField(<<128 + (n % 128)>> \o EncodeLength(n \div 128), n, k + 1)
  BY OneMoreDigit
<1>2. EncodeLength(n) = <<128 + (n % 128)>> \o EncodeLength(n \div 128)
  BY EncodeLengthEquation
<1>3. QED
  BY <1>1, <1>2

LEMMA MaximumSize ==
    /\ MAXIMUM_CONTROL_PACKET_SIZE \in Nat
    /\ MAXIMUM_CONTROL_PACKET_SIZE = 128 * (128 * (128 * 128))
BY DEF MAXIMUM_CONTROL_PACKET_SIZE

LEMMA FewerDigits ==
    ASSUME NEW k \in 1 .. 4, NEW n, NEW d, IsLengthField(d, n, 1)
    PROVE  IsLengthField(d, n, k + 1)
<1>1. d \in Seq(Byte) /\ 1 <= Len(d) /\ Len(d) <= 1
  BY DEF IsLengthField
<1>2. Len(d) \in Nat
  BY <1>1, LenProperties
<1>3. Len(d) <= k + 1
  BY <1>1, <1>2
<1>4. QED
  BY <1>1, <1>3 DEF IsLengthField

LEMMA NextDigit ==
    ASSUME NEW k \in 1 .. 4, NEW n \in Nat,
           n >= 128 => IsLengthField(EncodeLength(n \div 128), n \div 128, k)
    PROVE  IsLengthField(EncodeLength(n), n, k + 1)
<1>1. CASE n >= 128
  BY <1>1, ManyDigits
<1>2. CASE n < 128
  <2>1. n \in 0 .. 127
    BY <1>2
  <2>2. QED
    BY <2>1, OneDigit, FewerDigits
<1>3. QED
  BY <1>1, <1>2

\* encodeLength writes at most five bytes for what encode() lets pass, and they say the length.
LEMMA LengthField ==
    ASSUME NEW n \in 0 .. MAXIMUM_CONTROL_PACKET_SIZE
    PROVE  IsLengthField(EncodeLength(n), n, 5)
<1>1. ASSUME NEW m \in Nat, m < 128 * 128 PROVE IsLengthField(EncodeLength(m), m, 2)
  <2>1. m \div 128 \in 0 .. 127
    BY <1>1
  <2>2. IsLengthField(EncodeLength(m), m, 1 + 1)
    BY <2>1, OneDigit, NextDigit
  <2>3. QED
    BY <2>2
<1>2. ASSUME NEW m \in Nat, m < 128 * (128 * 128) PROVE IsLengthField(EncodeLength(m), m, 3)
  <2>1. m \div 128 \in Nat /\ m \div 128 < 128 * 128
    BY <1>2
  <2>2. IsLengthField(EncodeLength(m), m, 2 + 1)
    BY <2>1, <1>1, NextDigit
  <2>3. QED
    BY <2>2
<1>3. ASSUME NEW m \in Nat, m < 128 * (128 * (128 * 128)) PROVE IsLengthField(EncodeLength(m), m, 4)
  <2>1. m \div 128 \in Nat /\ m \div 128 < 128 * (128 * 128)
    BY <1>3
  <2>2. IsLengthField(EncodeLength(m), m, 3 + 1)
    BY <2>1, <1>2, NextDigit
  <2>3. QED
    BY <2>2
<1>4. n \in Nat /\ n <= 128 * (128 * (128 * 128))
  <2>1. \A max \in Nat : n \in 0 .. max => n \in Nat /\ n <= max
    OBVIOUS
  <2>2. QED
    BY <2>1, MaximumSize
<1>5. n \div 128 \in Nat /\ n \div 128 < 128 * (128 * (128 * 128))
  BY <1>4
<1>6. IsLengthField(EncodeLength(n), n, 4 + 1)
  BY <1>3, <1>4, <1>5, NextDigit
<1>7. QED
  BY <1>6

-----------------------------------------------------------------------------
(* Reading the head of a frame *)

LEMMA BytesAreSmall ==
    \A b \in Byte : b \in Nat /\ b % 128 \in Nat /\ (b >= 128 <=> ~ (b < 128))
BY DEF Byte

LEMMA LengthEndsAt ==
    ASSUME NEW f \in Seq(Byte), f # <<>>, NEW k \in Nat, 1 <= k, k + 1 <= Len(f), f[k + 1] < 128,
           \A i \in 1 .. k - 1 : f[i + 1] >= 128
    PROVE  LengthBytes(f) = k
<1> DEFINE t == Tail(f)
           I == {i \in 1 .. Len(t) : t[i] < 128}
<1>1. Len(f) \in Nat
  BY LenProperties
<1>2. Len(t) = Len(f) - 1 /\ \A i \in 1 .. Len(t) : t[i] = f[i + 1]
  BY HeadTailProperties
<1>3. LengthBytes(f) = IF I # {} THEN Min(I) ELSE 0
  BY DEF LengthBytes, SelectInSeq
<1> HIDE DEF t
<1>4. k \in I
  <2>1. k \in 1 .. Len(t)
    BY <1>1, <1>2
  <2>2. QED
    BY <1>2, <2>1
<1>5. ASSUME NEW i \in I PROVE k <= i
  <2>1. i \in 1 .. Len(t) /\ t[i] < 128 /\ t[i] = f[i + 1] /\ i \in Nat
    BY <1>2
  <2>2. f[i + 1] \in Byte
    <3>1. i + 1 \in 1 .. Len(f)
      BY <1>1, <1>2, <2>1
    <3>2. QED
      BY <3>1, ElementOfSeq
  <2>3. ~ (f[i + 1] >= 128)
    BY <2>1, <2>2, BytesAreSmall
  <2>4. ~ (i \in 1 .. k - 1)
    BY <2>3
  <2>5. QED
    BY <2>1, <2>4
<1>6. I \subseteq Nat
  BY <1>1, <1>2
<1> HIDE DEF I
<1>7. Min(I) = k
  <2>1. Min(I) = CHOOSE x \in I : \A y \in I : x =< y
    BY DEF Min
  <2>2. Min(I) \in I /\ \A y \in I : Min(I) =< y
    BY <1>4, <1>5, <2>1
  <2>3. Min(I) <= k /\ k <= Min(I) /\ Min(I) \in Nat
    BY <1>4, <1>5, <1>6, <2>2
  <2>4. QED
    BY <2>3
<1>8. QED
  BY <1>3, <1>4, <1>7

LEMMA LengthDoesNotEnd ==
    ASSUME NEW f \in Seq(Byte), f # <<>>, \A i \in 2 .. Len(f) : f[i] >= 128
    PROVE  LengthBytes(f) = 0
<1> DEFINE t == Tail(f)
           I == {i \in 1 .. Len(t) : t[i] < 128}
<1>1. Len(f) \in Nat
  BY LenProperties
<1>2. Len(t) = Len(f) - 1 /\ \A i \in 1 .. Len(t) : t[i] = f[i + 1]
  BY HeadTailProperties
<1>3. LengthBytes(f) = IF I # {} THEN Min(I) ELSE 0
  BY DEF LengthBytes, SelectInSeq
<1> HIDE DEF t
<1>4. ASSUME NEW i \in 1 .. Len(t) PROVE ~ (t[i] < 128)
  <2>1. i + 1 \in 2 .. Len(f) /\ i + 1 \in 1 .. Len(f)
    BY <1>1, <1>2
  <2>2. f[i + 1] \in Byte /\ f[i + 1] >= 128
    BY <2>1, ElementOfSeq
  <2>3. QED
    BY <1>2, <2>2, BytesAreSmall
<1>5. I = {}
  BY <1>4
<1>6. QED
  BY <1>3, <1>5

\* Weights of the digits.
LEMMA Powers ==
    /\ \A i \in 1 .. 5 : 128 ^ (i - 1) \in Nat
    /\ 128 ^ 0 = 1 /\ 128 ^ 1 = 128 /\ 128 ^ 2 = 128 * 128 /\ 128 ^ 3 = 128 * (128 * 128)
    /\ 128 ^ 4 = 128 * (128 * (128 * 128))
<1>1. /\ 128 ^ 0 = 1 /\ 128 ^ 1 = 128 /\ 128 ^ 2 = 128 * 128 /\ 128 ^ 3 = 128 * (128 * 128)
      /\ 128 ^ 4 = 128 * (128 * (128 * 128))
  OBVIOUS
<1>2. 128 ^ 0 \in Nat /\ 128 ^ 1 \in Nat /\ 128 ^ 2 \in Nat /\ 128 ^ 3 \in Nat /\ 128 ^ 4 \in Nat
  BY <1>1
<1>3. \A i \in 1 .. 5 : i - 1 = 0 \/ i - 1 = 1 \/ i - 1 = 2 \/ i - 1 = 3 \/ i - 1 = 4
  OBVIOUS
<1>4. \A i \in 1 .. 5 : 128 ^ (i - 1) \in Nat
  BY <1>2, <1>3, Zenon
<1>5. QED
  BY <1>1, <1>4

IsDigits(x, f, k) == \A i \in 1 .. k : x[i] = f[1 + i] % 128
IsDigitSum(S, k, x) ==
    /\ S \in [0 .. k -> Nat] /\ S[0] = 0
    /\ \A i \in 1 .. k : S[i] = S[i - 1] + 128 ^ (i - 1) * x[i]

LEMMA LengthSum ==
    ASSUME NEW f \in Seq(Byte), NEW k \in Nat, LengthBytes(f) = k, k <= 5, k + 1 <= Len(f),
           NEW x, IsDigits(x, f, k)
    PROVE  \E S : IsDigitSum(S, k, x) /\ RemainingLength(f) = S[k]
<1> DEFINE D == 0 .. k
           base == [n \in D |-> 0]
           prev == [n \in D |-> IF n = 0 THEN 0 ELSE n - 1]
           grow == [p \in (D \ {0}) \X Nat |-> p[2] + 128 ^ (p[1] - 1) * (f[1 + p[1]] % 128)]
           Law(S) == S = [n \in 0 .. k |-> IF n = 0 THEN 0
                                           ELSE S[n - 1] + 128 ^ (n - 1) * (f[1 + n] % 128)]
           Sum == CHOOSE S : Law(S)
<1>1. ASSUME NEW i \in D \ {0}, NEW s \in Nat
      PROVE  s + 128 ^ (i - 1) * (f[1 + i] % 128) \in Nat
  <2>1. i \in 1 .. 5 /\ 1 + i \in 1 .. Len(f)
    <3>1. Len(f) \in Nat
      BY LenProperties
    <3>2. QED
      BY <3>1
  <2>2. f[1 + i] % 128 \in Nat
    <3>1. f[1 + i] \in Byte
      BY <2>1, ElementOfSeq
    <3>2. QED
      BY <3>1, BytesAreSmall
  <2>3. 128 ^ (i - 1) \in Nat
    BY <2>1, Powers
  <2>4. \A a \in Nat, b \in Nat : s + a * b \in Nat
    OBVIOUS
  <2>5. QED
    BY <2>2, <2>3, <2>4
<1>2. D \subseteq Nat /\ base \in [D -> Nat] /\ prev \in [D -> Nat]
  OBVIOUS
<1>3. grow \in [(D \ {0}) \X Nat -> Nat]
  <2> HIDE DEF D
  <2>1. \A p \in (D \ {0}) \X Nat : p[1] \in D \ {0} /\ p[2] \in Nat
    OBVIOUS
  <2>2. \A p \in (D \ {0}) \X Nat : p[2] + 128 ^ (p[1] - 1) * (f[1 + p[1]] % 128) \in Nat
    BY <1>1, <2>1
  <2>3. QED
    BY <2>2
<1>4. \A n \in D \ {0} : prev[n] \in D /\ prev[n] < n
  OBVIOUS
<1>5. HasSolution(D, Nat, {0}, base, prev, grow)
  <2> HIDE DEF D, base, prev, grow
  <2>1. IsRecursion(D, Nat, {0}, base, prev, grow)
    BY <1>2, <1>3, <1>4 DEF IsRecursion
  <2>2. QED
    BY <2>1, Recursion
<1>6. PICK S \in [D -> Nat] : \A n \in D : S[n] = IF n \in {0} THEN base[n] ELSE grow[<<n, S[prev[n]]>>]
  BY <1>5 DEF HasSolution
<1>7. ASSUME NEW n \in D
      PROVE  S[n] = IF n = 0 THEN 0 ELSE S[n - 1] + 128 ^ (n - 1) * (f[1 + n] % 128)
  <2>1. CASE n = 0
    BY <1>6, <2>1
  <2>2. CASE n # 0
    <3>1. prev[n] = n - 1 /\ n \in D \ {0} /\ n - 1 \in D
      BY <2>2
    <3> HIDE DEF D, prev
    <3>2. S[n] = grow[<<n, S[prev[n]]>>] /\ S[n - 1] \in Nat
      <4> HIDE DEF grow, base
      <4>1. S[n] = grow[<<n, S[prev[n]]>>]
        BY <1>6, <3>1
      <4>2. S[n - 1] \in Nat
        BY <3>1
      <4>3. QED
        BY <4>1, <4>2
    <3>3. S[n] = grow[<<n, S[n - 1]>>]
      BY <3>1, <3>2, Zenon
    <3>4. QED
      BY <2>2, <3>1, <3>2, <3>3
  <2>3. QED
    BY <2>1, <2>2
<1>8. Law(S)
  BY <1>7
<1>9. Law(Sum)
  BY <1>8
<1>10. RemainingLength(f) = Sum[k]
  BY DEF RemainingLength
<1> HIDE DEF Sum
<1>11. \A n \in D : Sum[n] = IF n = 0 THEN 0 ELSE Sum[n - 1] + 128 ^ (n - 1) * (f[1 + n] % 128)
  BY <1>9
<1>12. ASSUME NEW n \in D PROVE Sum[n] \in Nat
  <2> DEFINE Bad == {m \in D : Sum[m] \notin Nat}
  <2> SUFFICES ASSUME Bad # {} PROVE FALSE
    OBVIOUS
  <2>1. PICK m \in Bad : \A i \in Bad : m <= i
    <3>1. Bad \subseteq Nat
      OBVIOUS
    <3> HIDE DEF Bad
    <3>2. QED
      BY <3>1, Least
  <2>2. m # 0
    BY <1>11
  <2>3. m \in D \ {0} /\ m - 1 \in D /\ ~ (m <= m - 1)
    BY <2>2
  <2>4. Sum[m - 1] \in Nat
    BY <2>1, <2>3
  <2>5. Sum[m] = Sum[m - 1] + 128 ^ (m - 1) * (f[1 + m] % 128)
    BY <1>11, <2>2
  <2>6. Sum[m - 1] + 128 ^ (m - 1) * (f[1 + m] % 128) \in Nat
    BY <1>1, <2>3, <2>4
  <2>7. Sum[m] \notin Nat
    OBVIOUS
  <2>8. QED
    BY <2>5, <2>6, <2>7, Zenon
<1>13. DOMAIN Sum = D /\ Sum = [n \in D |-> Sum[n]]
  BY <1>9
<1>14. Sum \in [D -> Nat]
  BY <1>12, <1>13
<1>15. Sum[0] = 0
  BY <1>11
<1>16. ASSUME NEW i \in 1 .. k PROVE Sum[i] = Sum[i - 1] + 128 ^ (i - 1) * (f[1 + i] % 128)
  <2>1. i \in D /\ i # 0
    OBVIOUS
  <2>2. QED
    BY <1>11, <2>1, Zenon
<1>17. IsDigitSum(Sum, k, x)
  <2>1. ASSUME NEW i \in 1 .. k PROVE Sum[i] = Sum[i - 1] + 128 ^ (i - 1) * x[i]
    <3>1. x[i] = f[1 + i] % 128
      BY DEF IsDigits
    <3>2. QED
      BY <1>16, <3>1, Zenon
  <2>2. QED
    BY <1>14, <1>15, <2>1 DEF IsDigitSum
<1>18. QED
  BY <1>10, <1>17

AreDigits(x, k) ==
    k \in 1 .. 5 /\ x \in [1 .. 5 -> Nat] /\ \A i \in 1 .. 5 : i > k => x[i] = 0

LEMMA SumOfDigits ==
    ASSUME NEW k, NEW x, AreDigits(x, k), NEW S, IsDigitSum(S, k, x)
    PROVE  S[k] = x[1] + 128 * (x[2] + 128 * (x[3] + 128 * (x[4] + 128 * x[5])))
<1> USE DEF AreDigits
<1>a. PICK a \in Nat : a = x[1]
  OBVIOUS
<1>b. PICK b \in Nat : b = x[2]
  OBVIOUS
<1>c. PICK c \in Nat : c = x[3]
  OBVIOUS
<1>e. PICK e \in Nat : e = x[4]
  OBVIOUS
<1>g. PICK g \in Nat : g = x[5]
  OBVIOUS
<1>1. S[1] = a
  <2>1. 1 \in 1 .. k /\ 1 - 1 = 0 /\ 128 ^ (1 - 1) = 1
    BY Powers
  <2>2. S[1] = S[1 - 1] + 128 ^ (1 - 1) * x[1]
    BY <2>1, Zenon DEF IsDigitSum
  <2>3. S[1] = 0 + 1 * a
    BY <2>1, <2>2, <1>a, Zenon DEF IsDigitSum
  <2>4. QED
    BY <2>3
<1>2. k >= 2 => S[2] = a + 128 * b
  <2> HAVE k >= 2
  <2>1. 2 \in 1 .. k /\ 2 - 1 = 1 /\ k >= 1 /\ 128 ^ (2 - 1) = 128
    BY Powers
  <2>2. S[2] = S[2 - 1] + 128 ^ (2 - 1) * x[2]
    BY <2>1, Zenon DEF IsDigitSum
  <2>3. S[2 - 1] = a
    BY <1>1, <2>1
  <2>4. QED
    BY <2>1, <2>2, <2>3, <1>b, Zenon
<1>3. k >= 3 => S[3] = a + 128 * b + (128 * 128) * c
  <2> HAVE k >= 3
  <2>1. 3 \in 1 .. k /\ 3 - 1 = 2 /\ k >= 2 /\ 128 ^ (3 - 1) = (128 * 128)
    BY Powers
  <2>2. S[3] = S[3 - 1] + 128 ^ (3 - 1) * x[3]
    BY <2>1, Zenon DEF IsDigitSum
  <2>3. S[3 - 1] = a + 128 * b
    BY <1>2, <2>1
  <2>4. QED
    BY <2>1, <2>2, <2>3, <1>c, Zenon
<1>4. k >= 4 => S[4] = a + 128 * b + (128 * 128) * c + (128 * (128 * 128)) * e
  <2> HAVE k >= 4
  <2>1. 4 \in 1 .. k /\ 4 - 1 = 3 /\ k >= 3 /\ 128 ^ (4 - 1) = (128 * (128 * 128))
    BY Powers
  <2>2. S[4] = S[4 - 1] + 128 ^ (4 - 1) * x[4]
    BY <2>1, Zenon DEF IsDigitSum
  <2>3. S[4 - 1] = a + 128 * b + (128 * 128) * c
    BY <1>3, <2>1
  <2>4. QED
    BY <2>1, <2>2, <2>3, <1>e, Zenon
<1>5. k >= 5 =>
        S[5] = a + 128 * b + (128 * 128) * c + (128 * (128 * 128)) * e
               + (128 * (128 * (128 * 128))) * g
  <2> HAVE k >= 5
  <2>1. 5 \in 1 .. k /\ 5 - 1 = 4 /\ k >= 4 /\ 128 ^ (5 - 1) = (128 * (128 * (128 * 128)))
    BY Powers
  <2>2. S[5] = S[5 - 1] + 128 ^ (5 - 1) * x[5]
    BY <2>1, Zenon DEF IsDigitSum
  <2>3. S[5 - 1] = a + 128 * b + (128 * 128) * c + (128 * (128 * 128)) * e
    BY <1>4, <2>1
  <2>4. QED
    BY <2>1, <2>2, <2>3, <1>g, Zenon
<1>6. S[k] = a + 128 * (b + 128 * (c + 128 * (e + 128 * g)))
  <2>1. CASE k = 1
    <3>1. S[k] = a
      BY <1>1, <2>1
    <3>2. b = 0 /\ c = 0 /\ e = 0 /\ g = 0
      BY <2>1, <1>b, <1>c, <1>e, <1>g
    <3>3. a = a + 128 * (b + 128 * (c + 128 * (e + 128 * g)))
      BY <3>2
    <3>4. QED
      BY <3>1, <3>3, Zenon
  <2>2. CASE k = 2
    <3>1. S[k] = a + 128 * b
      BY <1>2, <2>2
    <3>2. c = 0 /\ e = 0 /\ g = 0
      BY <2>2, <1>c, <1>e, <1>g
    <3>3. a + 128 * b = a + 128 * (b + 128 * (c + 128 * (e + 128 * g)))
      BY <3>2
    <3>4. QED
      BY <3>1, <3>3, Zenon
  <2>3. CASE k = 3
    <3>1. S[k] = a + 128 * b + (128 * 128) * c
      BY <1>3, <2>3
    <3>2. e = 0 /\ g = 0
      BY <2>3, <1>e, <1>g
    <3>3. a + 128 * b + (128 * 128) * c = a + 128 * (b + 128 * (c + 128 * (e + 128 * g)))
      BY <3>2
    <3>4. QED
      BY <3>1, <3>3, Zenon
  <2>4. CASE k = 4
    <3>1. S[k] = a + 128 * b + (128 * 128) * c + (128 * (128 * 128)) * e
      BY <1>4, <2>4
    <3>2. g = 0
      BY <2>4, <1>g
    <3>3. a + 128 * b + (128 * 128) * c + (128 * (128 * 128)) * e
          = a + 128 * (b + 128 * (c + 128 * (e + 128 * g)))
      BY <3>2
    <3>4. QED
      BY <3>1, <3>3, Zenon
  <2>5. CASE k = 5
    <3>1. S[k] = a + 128 * b + (128 * 128) * c + (128 * (128 * 128)) * e + (128 * (128 * (128 * 128))) * g
      BY <1>5, <2>5
    <3>3. a + 128 * b + (128 * 128) * c + (128 * (128 * 128)) * e
          + (128 * (128 * (128 * 128))) * g
          = a + 128 * (b + 128 * (c + 128 * (e + 128 * g)))
      OBVIOUS
    <3>4. QED
      BY <3>1, <3>3, Zenon
  <2>6. k = 1 \/ k = 2 \/ k = 3 \/ k = 4 \/ k = 5
    OBVIOUS
  <2>7. QED
    BY <2>1, <2>2, <2>3, <2>4, <2>5, <2>6
<1>7. QED
  BY <1>6, <1>a, <1>b, <1>c, <1>e, <1>g, Zenon

LEMMA DropProperties ==
    ASSUME NEW s \in Seq(Byte), NEW n \in Nat, n <= Len(s)
    PROVE  /\ Drop(s, n) \in Seq(Byte) /\ Len(Drop(s, n)) = Len(s) - n
           /\ \A i \in 1 .. Len(s) - n : Drop(s, n)[i] = s[n + i]
<1>1. Len(s) \in Nat
  BY LenProperties
<1>2. PICK m \in Int : m = n + 1
  OBVIOUS
<1>3. PICK l \in Nat : l = Len(s)
  BY <1>1
<1>4. \A i \in m .. l : s[i] \in Byte
  <2>1. TAKE i \in m .. l
  <2>2. i \in 1 .. Len(s)
    BY <1>2, <1>3
  <2>3. QED
    BY <2>2, ElementOfSeq
<1>5. /\ SubSeq(s, m, l) \in Seq(Byte)
      /\ Len(SubSeq(s, m, l)) = IF m <= l THEN l - m + 1 ELSE 0
      /\ \A i \in 1 .. l - m + 1 : SubSeq(s, m, l)[i] = s[m + i - 1]
  BY <1>4, SubSeqProperties
<1>6. Drop(s, n) = SubSeq(s, m, l)
  BY <1>2, <1>3 DEF Drop
<1>7. Len(SubSeq(s, m, l)) = Len(s) - n
  BY <1>2, <1>3, <1>5
<1>8. ASSUME NEW i \in 1 .. Len(s) - n PROVE SubSeq(s, m, l)[i] = s[n + i]
  <2>1. i \in 1 .. l - m + 1 /\ m + i - 1 = n + i
    BY <1>2, <1>3
  <2>2. SubSeq(s, m, l)[i] = s[m + i - 1]
    BY <1>5, <2>1
  <2>3. QED
    BY <2>1, <2>2, Zenon
<1>9. QED
  BY <1>5, <1>6, <1>7, <1>8, Zenon

\* The frame f is the first byte h, the length field d, which says n, and the rest.
IsFrame(f, h, d, n, rest) ==
    h \in Byte /\ IsLengthField(d, n, 5) /\ rest \in Seq(Byte) /\ f = (<<h>> \o d) \o rest

LEMMA HeadRead ==
    ASSUME NEW f, NEW h, NEW d, NEW n, NEW rest, IsFrame(f, h, d, n, rest)
    PROVE  /\ f \in Seq(Byte) /\ Len(f) = 1 + Len(d) + Len(rest) /\ f[1] = h
           /\ LengthBytes(f) = Len(d) /\ RemainingLength(f) = n
           /\ Drop(f, 1 + LengthBytes(f)) = rest
<1> DEFINE head == <<h>> \o d
           k == Len(d)
<1> USE DEF IsFrame
<1>1. d \in Seq(Byte) /\ k \in Nat /\ 1 <= k /\ k <= 5 /\ d[k] < 128
      /\ \A i \in 1 .. k - 1 : d[i] >= 128
  <2>1. d \in Seq(Byte) /\ 1 <= k /\ k <= 5 /\ d[k] < 128 /\ \A i \in 1 .. k - 1 : d[i] >= 128
    BY DEF IsLengthField
  <2>2. k \in Nat
    BY <2>1, LenProperties
  <2>3. QED
    BY <2>1, <2>2
<1>2. <<h>> \in Seq(Byte) /\ Len(<<h>>) = 1 /\ <<h>>[1] = h
  OBVIOUS
<1>3. /\ head \in Seq(Byte) /\ Len(head) = 1 + k
      /\ \A i \in 1 .. 1 + k : head[i] = IF i <= 1 THEN <<h>>[i] ELSE d[i - 1]
  BY <1>1, <1>2, ConcatProperties
<1>4. Len(rest) \in Nat
  BY LenProperties
<1> HIDE DEF head, k
<1>5. /\ f \in Seq(Byte) /\ Len(f) = 1 + k + Len(rest)
      /\ \A i \in 1 .. 1 + k + Len(rest) : f[i] = IF i <= 1 + k THEN head[i] ELSE rest[i - (1 + k)]
  <2>1. f = head \o rest
    BY DEF head
  <2>2. /\ head \o rest \in Seq(Byte) /\ Len(head \o rest) = Len(head) + Len(rest)
        /\ \A i \in 1 .. Len(head) + Len(rest) :
              (head \o rest)[i] = IF i <= Len(head) THEN head[i] ELSE rest[i - Len(head)]
    BY <1>3, ConcatProperties
  <2>3. QED
    BY <1>3, <2>1, <2>2, Zenon
<1>6. f[1] = h
  <2>1. 1 \in 1 .. 1 + k /\ 1 \in 1 .. 1 + k + Len(rest) /\ 1 <= 1 + k
    BY <1>1, <1>4
  <2>2. QED
    BY <1>2, <1>3, <1>5, <2>1
<1>7. ASSUME NEW i \in 1 .. k PROVE f[1 + i] = d[i] /\ f[i + 1] = d[i]
  <2>1. 1 + i \in 1 .. 1 + k /\ 1 + i \in 1 .. 1 + k + Len(rest) /\ ~ (1 + i <= 1) /\ 1 + i <= 1 + k
        /\ (1 + i) - 1 = i /\ 1 + i = i + 1
    BY <1>1, <1>4
  <2>2. f[1 + i] = d[i]
    BY <1>3, <1>5, <2>1
  <2>3. QED
    BY <2>1, <2>2, Zenon
<1>8. LengthBytes(f) = k
  <2>1. f # <<>> /\ k + 1 <= Len(f)
    BY <1>1, <1>4, <1>5
  <2>2. f[k + 1] < 128
    <3>1. k \in 1 .. k
      BY <1>1
    <3>2. f[k + 1] = d[k]
      BY <1>7, <3>1
    <3>3. QED
      BY <1>1, <3>2
  <2>3. \A i \in 1 .. k - 1 : f[i + 1] >= 128
    <3>1. TAKE i \in 1 .. k - 1
    <3>2. i \in 1 .. k
      BY <1>1
    <3>3. QED
      BY <1>1, <1>7, <3>2
  <2>4. QED
    BY <1>1, <1>5, <2>1, <2>2, <2>3, LengthEndsAt
<1>9. RemainingLength(f) = n
  <2>1. k + 1 <= Len(f)
    BY <1>1, <1>4, <1>5
  <2> DEFINE x == [i \in 1 .. 5 |-> Digit(d, i)]
  <2>3. \A i \in 1 .. 5 : Digit(d, i) \in Nat
    <3>1. TAKE i \in 1 .. 5
    <3>2. CASE i <= k
      <4>1. d[i] \in Byte
        <5>1. i \in 1 .. Len(d)
          BY <3>2 DEF k
        <5>2. QED
          BY <1>1, <5>1, ElementOfSeq
      <4>2. d[i] % 128 \in Nat
        BY <4>1, BytesAreSmall
      <4>3. QED
        BY <3>2, <4>2 DEF Digit, k
    <3>3. CASE ~ (i <= k)
      BY <3>3 DEF Digit, k
    <3>4. QED
      BY <3>2, <3>3
  <2>4. x \in [1 .. 5 -> Nat]
    BY <2>3
  <2>5. \A i \in 1 .. k : x[i] = f[1 + i] % 128
    <3>1. TAKE i \in 1 .. k
    <3>2. i \in 1 .. 5 /\ i <= Len(d)
      BY <1>1 DEF k
    <3>3. x[i] = d[i] % 128
      BY <3>2 DEF Digit
    <3>4. f[1 + i] = d[i]
      BY <1>7
    <3>5. QED
      BY <3>3, <3>4, Zenon
  <2>6. \A i \in 1 .. 5 : i > k => x[i] = 0
    BY <1>1 DEF Digit, k
  <2>7. n = x[1] + 128 * (x[2] + 128 * (x[3] + 128 * (x[4] + 128 * x[5])))
    <3>1. x[1] = Digit(d, 1) /\ x[2] = Digit(d, 2) /\ x[3] = Digit(d, 3) /\ x[4] = Digit(d, 4)
          /\ x[5] = Digit(d, 5)
      OBVIOUS
    <3>2. n = Digit(d, 1) + 128 * (Digit(d, 2) + 128 * (Digit(d, 3) + 128 * (Digit(d, 4) + 128 * Digit(d, 5))))
      BY DEF IsLengthField
    <3>3. QED
      BY <3>1, <3>2, Zenon
  <2> HIDE DEF x
  <2>8. k \in 1 .. 5
    BY <1>1
  <2>9. PICK S : IsDigitSum(S, k, x) /\ RemainingLength(f) = S[k]
    <3>1. IsDigits(x, f, k)
      BY <2>5, Zenon DEF IsDigits
    <3>2. f \in Seq(Byte) /\ k \in Nat /\ k <= 5
      BY <1>1, <1>5
    <3>3. QED
      BY <1>8, <2>1, <3>1, <3>2, LengthSum, Zenon
  <2>10. S[k] = x[1] + 128 * (x[2] + 128 * (x[3] + 128 * (x[4] + 128 * x[5])))
    <3>1. AreDigits(x, k)
      BY <2>4, <2>6, <2>8, Zenon DEF AreDigits
    <3>2. QED
      BY <2>9, <3>1, SumOfDigits
  <2>11. QED
    BY <2>7, <2>9, <2>10, Zenon
<1>10. Drop(f, 1 + k) = rest
  <2>1. PICK m \in Nat : m = 1 + k
    BY <1>1
  <2>1a. m <= Len(f) /\ Len(f) - m = Len(rest)
    BY <1>1, <1>4, <1>5, <2>1
  <2>1b. /\ Drop(f, m) \in Seq(Byte) /\ Len(Drop(f, m)) = Len(f) - m
         /\ \A i \in 1 .. Len(f) - m : Drop(f, m)[i] = f[m + i]
    BY <1>5, <2>1a, DropProperties
  <2>2. /\ Drop(f, 1 + k) \in Seq(Byte) /\ Len(Drop(f, 1 + k)) = Len(rest)
        /\ \A i \in 1 .. Len(rest) : Drop(f, 1 + k)[i] = f[(1 + k) + i]
    BY <2>1, <2>1a, <2>1b, Zenon
  <2>3. \A i \in 1 .. Len(rest) : Drop(f, 1 + k)[i] = rest[i]
    <3>1. TAKE i \in 1 .. Len(rest)
    <3>2. PICK j \in Nat : j = (1 + k) + i
      BY <1>1
    <3>3. j \in 1 .. 1 + k + Len(rest) /\ ~ (j <= 1 + k) /\ j - (1 + k) = i
      BY <1>1, <1>4, <3>2
    <3>4. f[j] = rest[i]
      BY <1>5, <3>3
    <3>5. QED
      BY <2>2, <3>2, <3>4
  <2>4. QED
    BY <2>2, <2>3, SeqEqual
<1>11. QED
  BY <1>5, <1>6, <1>8, <1>9, <1>10 DEF k

-----------------------------------------------------------------------------
(* The length of a packet reaches its reader *)

\* What a frame with the head of a large packet holds.
HeadInv ==
    step = "head" => \E n \in Lengths : /\ sent = [type |-> "PUBLISH", length |-> n]
                                        /\ frame = <<16 * PacketType.PUBLISH>> \o EncodeLength(n)

LEMMA HeadRestored ==
    ASSUME HeadInv
    PROVE  LengthReadBack
<1> SUFFICES ASSUME step = "head"
             PROVE  RemainingLength(frame) = sent.length /\ LengthBytes(frame) = Len(frame) - 1
  BY DEF LengthReadBack
<1>1. PICK n \in Lengths : /\ sent = [type |-> "PUBLISH", length |-> n]
                           /\ frame = <<16 * PacketType.PUBLISH>> \o EncodeLength(n)
  BY DEF HeadInv
<1>2. n \in 0 .. MAXIMUM_CONTROL_PACKET_SIZE
  BY LengthsAssumption
<1>3. IsLengthField(EncodeLength(n), n, 5)
  BY <1>2, LengthField
<1>4. 16 * PacketType.PUBLISH \in Byte
  BY DEF PacketType, Byte
<1>5. PICK h \in Byte : h = 16 * PacketType.PUBLISH
  BY <1>4
<1>6. PICK d : d = EncodeLength(n)
  OBVIOUS
<1>7. IsLengthField(d, n, 5) /\ d \in Seq(Byte) /\ Len(d) \in Nat
  <2>1. IsLengthField(d, n, 5)
    BY <1>3, <1>6
  <2>2. d \in Seq(Byte)
    BY <2>1 DEF IsLengthField
  <2>3. QED
    BY <2>1, <2>2, LenProperties
<1>8. <<>> \in Seq(Byte) /\ Len(<<>>) = 0
  BY EmptySeq
<1>9. <<h>> \in Seq(Byte)
  OBVIOUS
<1>10. <<h>> \o d \in Seq(Byte)
  BY <1>7, <1>9, ConcatProperties
<1>11. frame = <<h>> \o d
  BY <1>1, <1>5, <1>6, Zenon
<1>12. frame = (<<h>> \o d) \o <<>>
  BY <1>10, <1>11, ConcatEmptySeq
<1>13. /\ Len(frame) = 1 + Len(d) + Len(<<>>)
       /\ LengthBytes(frame) = Len(d) /\ RemainingLength(frame) = n
  <2>1. IsFrame(frame, h, d, n, <<>>)
    BY <1>7, <1>8, <1>12 DEF IsFrame
  <2>2. QED
    BY <2>1, HeadRead
<1>14. LengthBytes(frame) = Len(frame) - 1
  BY <1>7, <1>8, <1>13
<1>15. QED
  BY <1>1, <1>13, <1>14

\* Where each action leaves the exchange.
LEMMA NextSteps ==
    ASSUME Next
    PROVE  \/ step' \in {"toBroker", "rejected"} /\ step = "idle"
           \/ BrokerReceives \/ BrokerAnswers \/ BrokerPublishes \/ ClientReceives
           \/ \E n \in Lengths : LargePacket(n)
           \/ NextExchange
<1>1. ASSUME ClientConnects PROVE step' = "toBroker" /\ step = "idle"
  BY <1>1 DEF ClientConnects, Connect, TransmitAs
<1>2. ASSUME ClientSends PROVE step' = "toBroker" /\ step = "idle"
  BY <1>2 DEF ClientSends, Transmit, TransmitAs
<1>3. ASSUME ClientSubscribes PROVE step' \in {"toBroker", "rejected"} /\ step = "idle"
  BY <1>3 DEF ClientSubscribes, Subscribe, Transmit, TransmitAs, Reject
<1>4. ASSUME ClientUnsubscribes PROVE step' \in {"toBroker", "rejected"} /\ step = "idle"
  BY <1>4 DEF ClientUnsubscribes, Unsubscribe, Transmit, TransmitAs, Reject
<1>5. QED
  BY <1>1, <1>2, <1>3, <1>4 DEF Next

LEMMA HeadInvStep ==
    ASSUME HeadInv, [Next]_vars
    PROVE  HeadInv'
<1>1. CASE UNCHANGED vars
  BY <1>1 DEF vars, HeadInv
<1>2. CASE Next
  <2>1. ASSUME NEW n \in Lengths, LargePacket(n) PROVE HeadInv'
    BY <2>1 DEF LargePacket, HeadInv
  <2>2. (\E n \in Lengths : LargePacket(n)) \/ step' # "head"
    BY <1>2, NextSteps DEF BrokerReceives, BrokerAnswers, BrokerPublishes, BrokerSends,
                           ClientReceives, NextExchange
  <2>3. step' # "head" => HeadInv'
    BY DEF HeadInv
  <2>4. QED
    BY <2>1, <2>2, <2>3
<1>3. QED
  BY <1>1, <1>2

\* Every length encode() lets pass is read again as it was meant, from the bytes of the length
\* field and no others.  (encodeLength, parseRemainingLength.)
THEOREM LengthsAreReadBack == Spec => []LengthReadBack
<1>1. Init => HeadInv
  BY DEF Init, HeadInv
<1>2. HeadInv /\ [Next]_vars => HeadInv'
  BY HeadInvStep
<1>3. HeadInv => LengthReadBack
  BY HeadRestored
<1>4. QED
  BY <1>1, <1>2, <1>3, PTL DEF Spec

-----------------------------------------------------------------------------
(* The parts of a body *)

\* The bytes of b from the index i on begin with s.
Holds(b, i, s) ==
    /\ b \in Seq(Byte) /\ s \in Seq(Byte) /\ i \in Nat /\ 1 <= i /\ i + Len(s) <= Len(b) + 1
    /\ \A j \in 1 .. Len(s) : b[(i - 1) + j] = s[j]

LEMMA HoldsItself ==
    ASSUME NEW b \in Seq(Byte)
    PROVE  Holds(b, 1, b)
<1>1. Len(b) \in Nat
  BY LenProperties
<1>2. \A j \in 1 .. Len(b) : (1 - 1) + j = j
  BY <1>1
<1>3. \A j \in 1 .. Len(b) : b[(1 - 1) + j] = b[j]
  BY <1>2
<1>4. QED
  BY <1>1, <1>3 DEF Holds

LEMMA HoldsParts ==
    ASSUME NEW b, NEW i, NEW s \in Seq(Byte), NEW t \in Seq(Byte), Holds(b, i, s \o t)
    PROVE  Holds(b, i, s) /\ Holds(b, i + Len(s), t)
<1>1. Len(s) \in Nat /\ Len(t) \in Nat
  BY LenProperties
<1>2. /\ Len(s \o t) = Len(s) + Len(t)
      /\ \A j \in 1 .. Len(s) + Len(t) : (s \o t)[j] = IF j <= Len(s) THEN s[j] ELSE t[j - Len(s)]
  BY ConcatProperties
<1>3. /\ b \in Seq(Byte) /\ i \in Nat /\ 1 <= i /\ i + (Len(s) + Len(t)) <= Len(b) + 1
      /\ \A j \in 1 .. Len(s) + Len(t) : b[(i - 1) + j] = (s \o t)[j]
  BY <1>2 DEF Holds
<1>4. Len(b) \in Nat
  BY <1>3, LenProperties
<1>5. Holds(b, i, s)
  <2>1. ASSUME NEW j \in 1 .. Len(s) PROVE b[(i - 1) + j] = s[j]
    <3>1. j \in 1 .. Len(s) + Len(t) /\ j <= Len(s)
      BY <1>1
    <3>2. QED
      BY <1>2, <1>3, <3>1
  <2>2. i + Len(s) <= Len(b) + 1
    BY <1>1, <1>3, <1>4
  <2>3. QED
    BY <1>3, <2>1, <2>2 DEF Holds
<1>6. Holds(b, i + Len(s), t)
  <2>1. ASSUME NEW j \in 1 .. Len(t) PROVE b[((i + Len(s)) - 1) + j] = t[j]
    <3>1. PICK k \in Nat : k = Len(s) + j
      BY <1>1
    <3>2. k \in 1 .. Len(s) + Len(t) /\ ~ (k <= Len(s)) /\ k - Len(s) = j
          /\ (i - 1) + k = ((i + Len(s)) - 1) + j
      BY <1>1, <1>3, <3>1
    <3>3. b[(i - 1) + k] = t[k - Len(s)]
      BY <1>2, <1>3, <3>2
    <3>4. QED
      BY <3>2, <3>3, Zenon
  <2>2. i + Len(s) \in Nat /\ 1 <= i + Len(s) /\ (i + Len(s)) + Len(t) <= Len(b) + 1
    BY <1>1, <1>3, <1>4
  <2>3. QED
    BY <1>3, <2>1, <2>2 DEF Holds
<1>7. QED
  BY <1>5, <1>6

\* s is a string of n bytes.
IsString(s, n) == s \in Seq(Byte) /\ Len(s) = n

LEMMA JoinStrings ==
    ASSUME NEW s, NEW t, NEW m, NEW n, IsString(s, m), IsString(t, n)
    PROVE  IsString(s \o t, m + n) /\ m \in Nat /\ n \in Nat
<1>1. s \in Seq(Byte) /\ Len(s) = m /\ t \in Seq(Byte) /\ Len(t) = n
  BY DEF IsString
<1>2. m \in Nat /\ n \in Nat
  BY <1>1, LenProperties
<1>3. s \o t \in Seq(Byte) /\ Len(s \o t) = Len(s) + Len(t)
  BY <1>1, ConcatProperties
<1>4. QED
  BY <1>1, <1>2, <1>3, Zenon DEF IsString

\* b holds at i the string s of m bytes and, from j on, the string t of n bytes.
HoldsBoth(b, i, s, m, j, t, n) ==
    IsString(s, m) /\ IsString(t, n) /\ Holds(b, i, s \o t) /\ j = i + m

LEMMA HoldsEach ==
    ASSUME NEW b, NEW i, NEW s, NEW m, NEW j, NEW t, NEW n, HoldsBoth(b, i, s, m, j, t, n)
    PROVE  Holds(b, i, s) /\ Holds(b, j, t)
<1>1. s \in Seq(Byte) /\ t \in Seq(Byte) /\ Holds(b, i, s \o t) /\ j = i + Len(s)
  BY Zenon DEF HoldsBoth, IsString
<1>2. Holds(b, i, s) /\ Holds(b, i + Len(s), t)
  BY <1>1, HoldsParts
<1>3. QED
  BY <1>1, <1>2, Zenon

LEMMA HoldsByte ==
    ASSUME NEW b, NEW i, NEW x, Holds(b, i, <<x>>)
    PROVE  b[i] = x /\ i \in Nat /\ 1 <= i /\ i <= Len(b)
<1>1. Len(<<x>>) = 1 /\ <<x>>[1] = x /\ 1 \in 1 .. 1
  OBVIOUS
<1>2. b \in Seq(Byte) /\ i \in Nat /\ 1 <= i /\ i + 1 <= Len(b) + 1 /\ b[(i - 1) + 1] = x
  BY <1>1 DEF Holds
<1>3. Len(b) \in Nat /\ (i - 1) + 1 = i
  BY <1>2, LenProperties
<1>4. QED
  BY <1>2, <1>3

\* The two bytes of n are at i and j.
HoldsNumberAt(b, i, j, n) == n \in Uint16 /\ Holds(b, i, EncodeNumber(n)) /\ j = i + 1

LEMMA HoldsNumber ==
    ASSUME NEW b, NEW i, NEW j, NEW n, HoldsNumberAt(b, i, j, n)
    PROVE  Number(b[i], b[j]) = n
<1> USE DEF HoldsNumberAt
<1>1. /\ Len(EncodeNumber(n)) = 2
      /\ Number(EncodeNumber(n)[1], EncodeNumber(n)[2]) = n
  BY NumberReadBack
<1>2. \A k \in 1 .. 2 : b[(i - 1) + k] = EncodeNumber(n)[k]
  BY <1>1 DEF Holds
<1>3. i \in Nat /\ (i - 1) + 1 = i /\ (i - 1) + 2 = j
  BY DEF Holds
<1>4. b[i] = EncodeNumber(n)[1] /\ b[j] = EncodeNumber(n)[2]
  <2>1. b[(i - 1) + 1] = EncodeNumber(n)[1] /\ b[(i - 1) + 2] = EncodeNumber(n)[2]
    BY <1>2
  <2>2. QED
    BY <1>3, <2>1, Zenon
<1>5. QED
  BY <1>1, <1>4, Zenon

\* The stretch of b that holds s is s.
LEMMA HeldStretch ==
    ASSUME NEW b, NEW i, NEW s, Holds(b, i, s)
    PROVE  \A n \in Int : n = (i - 1) + Len(s) => SubSeq(b, i, n) = s
<1>1. /\ b \in Seq(Byte) /\ s \in Seq(Byte) /\ i \in Nat /\ 1 <= i /\ i + Len(s) <= Len(b) + 1
      /\ \A j \in 1 .. Len(s) : b[(i - 1) + j] = s[j]
  BY DEF Holds
<1>2. Len(s) \in Nat /\ Len(b) \in Nat
  BY <1>1, LenProperties
<1>3. TAKE n \in Int
<1>4. HAVE n = (i - 1) + Len(s)
<1>5. \A j \in i .. n : b[j] \in Byte
  <2>1. TAKE j \in i .. n
  <2>2. j \in 1 .. Len(b)
    BY <1>1, <1>2, <1>4
  <2>3. QED
    BY <1>1, <2>2, ElementOfSeq
<1>6. /\ SubSeq(b, i, n) \in Seq(Byte)
      /\ Len(SubSeq(b, i, n)) = IF i <= n THEN n - i + 1 ELSE 0
      /\ \A j \in 1 .. n - i + 1 : SubSeq(b, i, n)[j] = b[i + j - 1]
  BY <1>1, <1>5, SubSeqProperties
<1>7. Len(SubSeq(b, i, n)) = Len(s)
  BY <1>1, <1>2, <1>4, <1>6
<1>8. ASSUME NEW j \in 1 .. Len(s) PROVE SubSeq(b, i, n)[j] = s[j]
  <2>1. j \in 1 .. n - i + 1 /\ i + j - 1 = (i - 1) + j
    BY <1>1, <1>2, <1>4
  <2>2. SubSeq(b, i, n)[j] = b[i + j - 1]
    BY <1>6, <2>1
  <2>3. QED
    BY <1>1, <2>1, <2>2, Zenon
<1>9. QED
  BY <1>1, <1>6, <1>7, <1>8, SeqEqual

LEMMA HeldRest ==
    ASSUME NEW b, NEW i, NEW s, Holds(b, i, s), i + Len(s) = Len(b) + 1, NEW n \in Nat, n + 1 = i
    PROVE  Drop(b, n) = s
<1>1. b \in Seq(Byte) /\ s \in Seq(Byte) /\ i \in Nat
  BY DEF Holds
<1>2. Len(b) \in Nat /\ Len(s) \in Nat
  BY <1>1, LenProperties
<1>3. Len(b) \in Int /\ Len(b) = (i - 1) + Len(s)
  BY <1>1, <1>2
<1>4. SubSeq(b, i, Len(b)) = s
  BY <1>3, HeldStretch
<1>5. QED
  BY <1>4 DEF Drop

\* S is the numbers up to m.
IsUpTo(S, m) == S = 0 .. m

LEMMA UpToMembers ==
    ASSUME NEW S, NEW m \in Nat, IsUpTo(S, m)
    PROVE  \A l : l \in S <=> l \in Nat /\ l <= m
BY DEF IsUpTo

LEMMA Uint16Members == \A l : l \in Uint16 <=> l \in Nat /\ l <= 65535
<1>1. IsUpTo(Uint16, 65535)
  BY SMT DEF IsUpTo, Uint16
<1>2. QED
  BY <1>1, UpToMembers

\* A field with its length, as the MQTT layout has it; encodeData writes it when it is short.
FieldOf(d) == EncodeNumber(Len(d)) \o d
Fits(d) == d \in Seq(Byte) /\ Len(d) \in Uint16
Short(d) == d \in Seq(Byte) /\ Len(d) < 65535

LEMMA FieldProperties ==
    ASSUME NEW d, Fits(d)
    PROVE  FieldOf(d) \in Seq(Byte) /\ Len(FieldOf(d)) = 2 + Len(d) /\ Len(d) \in Nat
<1>1. d \in Seq(Byte) /\ Len(d) \in Uint16
  BY DEF Fits
<1>2. EncodeNumber(Len(d)) \in Seq(Byte) /\ Len(EncodeNumber(Len(d))) = 2
  BY <1>1, NumberReadBack
<1>3. Len(d) \in Nat
  BY <1>1, LenProperties
<1>4. PICK e : e = EncodeNumber(Len(d))
  OBVIOUS
<1>5. e \in Seq(Byte) /\ Len(e) = 2
  BY <1>2, <1>4
<1>6. e \o d \in Seq(Byte) /\ Len(e \o d) = 2 + Len(d)
  <2>1. e \in Seq(Byte) /\ d \in Seq(Byte)
    BY <1>1, <1>5
  <2>2. e \o d \in Seq(Byte) /\ Len(e \o d) = Len(e) + Len(d)
    BY <2>1, ConcatProperties
  <2>3. QED
    BY <1>5, <2>2, Zenon
<1>7. QED
  BY <1>3, <1>4, <1>6, Zenon DEF FieldOf

LEMMA StringField ==
    ASSUME NEW d, Fits(d)
    PROVE  IsString(FieldOf(d), 2 + Len(d))
BY FieldProperties, Zenon DEF IsString

LEMMA StringNumber ==
    ASSUME NEW n \in Uint16
    PROVE  IsString(EncodeNumber(n), 2)
BY NumberReadBack, Zenon DEF IsString

LEMMA StringByte ==
    ASSUME NEW x \in Byte
    PROVE  IsString(<<x>>, 1)
BY DEF IsString

LEMMA ShortFits ==
    ASSUME NEW d, Short(d)
    PROVE  Fits(d) /\ EncodeData(d) = FieldOf(d)
<1>1. d \in Seq(Byte) /\ Len(d) \in Nat
  BY LenProperties DEF Short
<1>2. Len(d) <= 65535
  BY <1>1 DEF Short
<1>3. Len(d) \in Uint16
  BY <1>1, <1>2, Uint16Members
<1>4. QED
  BY <1>1, <1>3, SMT DEF Fits, FieldOf, EncodeData, Short

LEMMA HoldsField ==
    ASSUME NEW b, NEW i, NEW d, Fits(d), Holds(b, i, FieldOf(d))
    PROVE  /\ Field(b, i) = d /\ After(b, i) = i + 2 + Len(d)
           /\ i \in Nat /\ Len(d) \in Nat
<1>1. Len(d) \in Uint16 /\ d \in Seq(Byte)
  BY DEF Fits
<1>2. EncodeNumber(Len(d)) \in Seq(Byte) /\ Len(EncodeNumber(Len(d))) = 2
  BY <1>1, NumberReadBack
<1>3. Holds(b, i, EncodeNumber(Len(d))) /\ Holds(b, i + 2, d)
  BY <1>1, <1>2, HoldsParts DEF FieldOf
<1>4. Number(b[i], b[i + 1]) = Len(d)
  BY <1>1, <1>3, HoldsNumber DEF HoldsNumberAt
<1>5. i \in Nat /\ Len(d) \in Nat
  BY <1>1, LenProperties DEF Holds
<1>6. PICK n \in Int : n = i + 1 + Len(d)
  BY <1>5
<1>7. n = ((i + 2) - 1) + Len(d)
  BY <1>5, <1>6
<1>8. SubSeq(b, i + 2, n) = d
  BY <1>3, <1>7, HeldStretch
<1>9. QED
  BY <1>4, <1>5, <1>6, <1>8 DEF Field, After

-----------------------------------------------------------------------------
(* A packet that encode() writes *)

LEMMA TypeNames ==
    \A type \in DOMAIN PacketType :
        /\ PacketType[type] \in Nat /\ 1 <= PacketType[type] /\ PacketType[type] <= 14
        /\ TypeName(PacketType[type]) = type
<1>1. DOMAIN PacketType = {"CONNECT", "CONNACK", "PUBLISH", "PUBACK", "PUBREC", "PUBREL", "PUBCOMP",
                           "SUBSCRIBE", "SUBACK", "UNSUBSCRIBE", "UNSUBACK", "PINGREQ", "PINGRESP",
                           "DISCONNECT"}
  BY DEF PacketType
<1>2. \A type \in DOMAIN PacketType :
         PacketType[type] \in Nat /\ 1 <= PacketType[type] /\ PacketType[type] <= 14
  BY <1>1 DEF PacketType
<1>3. \A s, t \in DOMAIN PacketType : PacketType[s] = PacketType[t] => s = t
  BY <1>1 DEF PacketType
<1>4. QED
  BY <1>2, <1>3 DEF TypeName

\* The first byte of a packet.
IsFirstByte(h, type, flags) ==
    type \in DOMAIN PacketType /\ flags \in 0 .. 15 /\ h = 16 * PacketType[type] + flags

LEMMA FirstByte ==
    ASSUME NEW type, NEW flags, NEW h, IsFirstByte(h, type, flags)
    PROVE  /\ h \in Byte /\ TypeName(h \div 16) = type /\ h % 16 = flags
           /\ (h \div 2) % 4 = (flags \div 2) % 4 /\ h \div 16 \in 1 .. 14
           /\ PacketType[type] \in Nat
<1> USE DEF IsFirstByte
<1>1. PICK n \in Nat : n = PacketType[type] /\ 1 <= n /\ n <= 14
  BY TypeNames
<1>2. h \in Nat /\ 16 <= h /\ h <= 239
  BY <1>1
<1>3. h \in Byte
  BY <1>2 DEF Byte
<1>4. h \div 16 = n /\ h % 16 = flags
  BY <1>1
<1>5. (h \div 2) % 4 = (flags \div 2) % 4
  <2>1. PICK k \in 0 .. 7 : k = flags \div 2
    OBVIOUS
  <2>2. h \div 2 = 8 * n + k
    BY <1>1, <2>1
  <2>3. (8 * n + k) % 4 = k % 4
    BY <1>1
  <2>4. QED
    BY <2>1, <2>2, <2>3, Zenon
<1>6. TypeName(h \div 16) = type
  BY <1>1, <1>4, TypeNames, Zenon
<1>7. h \div 16 \in 1 .. 14
  BY <1>1, <1>4
<1>8. PacketType[type] \in Nat
  BY <1>1
<1>9. QED
  BY <1>3, <1>4, <1>5, <1>6, <1>7, <1>8, Zenon

\* f is the packet of this type, with these flags and this body.
IsPacket(f, type, flags, body) ==
    \E h : /\ IsFirstByte(h, type, flags)
           /\ IsFrame(f, h, EncodeLength(Len(body)), Len(body), body)

LEMMA PacketIsPacket ==
    ASSUME NEW type \in DOMAIN PacketType, NEW flags \in 0 .. 15,
           NEW body \in Seq(Byte), Len(body) <= MAXIMUM_CONTROL_PACKET_SIZE
    PROVE  IsPacket(Packet(type, flags, body), type, flags, body)
<1>1. PICK h : h = 16 * PacketType[type] + flags
  OBVIOUS
<1>2. h \in Byte /\ IsFirstByte(h, type, flags)
  <2>1. IsFirstByte(h, type, flags)
    BY <1>1 DEF IsFirstByte
  <2>2. QED
    BY <2>1, FirstByte
<1>3. Len(body) \in Nat
  BY LenProperties
<1>4. PICK n \in Nat : n = Len(body)
  BY <1>3
<1>5. IsLengthField(EncodeLength(n), n, 5)
  <2>1. PICK m \in Nat : m = MAXIMUM_CONTROL_PACKET_SIZE
    BY MaximumSize
  <2>2. n <= m
    BY <1>4, <2>1
  <2>3. n \in 0 .. MAXIMUM_CONTROL_PACKET_SIZE
    BY <2>1, <2>2
  <2>4. QED
    BY <2>3, LengthField
<1>6. IsLengthField(EncodeLength(Len(body)), Len(body), 5)
  BY <1>4, <1>5, Zenon
<1>7. ~ (Len(body) > MAXIMUM_CONTROL_PACKET_SIZE)
  BY <1>3, MaximumSize
<1>8. Packet(type, flags, body) = (<<h>> \o EncodeLength(Len(body))) \o body
  BY <1>1, <1>7 DEF Packet
<1>9. IsFrame(Packet(type, flags, body), h, EncodeLength(Len(body)), Len(body), body)
  BY <1>2, <1>6, <1>8 DEF IsFrame
<1>10. QED
  BY <1>2, <1>9 DEF IsPacket

LEMMA PacketRead ==
    ASSUME NEW f, NEW type, NEW flags, NEW body, IsPacket(f, type, flags, body)
    PROVE  /\ f \in Seq(Byte) /\ TypeName(f[1] \div 16) = type /\ f[1] % 16 = flags
           /\ RemainingLength(f) = Len(body) /\ Drop(f, 1 + LengthBytes(f)) = body
           /\ body \in Seq(Byte)
<1>2. PICK h : /\ IsFirstByte(h, type, flags)
               /\ IsFrame(f, h, EncodeLength(Len(body)), Len(body), body)
  BY DEF IsPacket
<1>3. TypeName(h \div 16) = type /\ h % 16 = flags
  BY <1>2, FirstByte
<1>4. /\ f \in Seq(Byte) /\ f[1] = h /\ RemainingLength(f) = Len(body)
      /\ Drop(f, 1 + LengthBytes(f)) = body
  BY <1>2, HeadRead
<1>5. body \in Seq(Byte)
  BY <1>2 DEF IsFrame
<1>6. QED
  BY <1>3, <1>4, <1>5, Zenon

-----------------------------------------------------------------------------
(* Texts *)

IsPieces(s, n) == n \in Nat /\ 1 <= n /\ s \in [1 .. n -> Seq(Byte)]
IsJoin(F, s, n) ==
    /\ F \in [1 .. n -> Seq(Byte)] /\ F[1] = s[1]
    /\ \A i \in 2 .. n : F[i] = F[i - 1] \o s[i]

LEMMA Joined ==
    ASSUME NEW s, NEW n, IsPieces(s, n)
    PROVE  \E F : IsJoin(F, s, n) /\ FlattenSeq(s) = F[n]
<1> USE DEF IsPieces
<1> DEFINE D == 1 .. n
           Strings == Seq(Byte)
           base == [i \in D |-> s[i]]
           prev == [i \in D |-> IF i = 1 THEN 1 ELSE i - 1]
           grow == [p \in (D \ {1}) \X Strings |-> p[2] \o s[p[1]]]
           Law(F) == F = [i \in 1 .. n |-> IF i = 1 THEN s[i] ELSE F[i - 1] \o s[i]]
           Join == CHOOSE F : Law(F)
<1>1. ASSUME NEW i \in D, NEW t \in Strings PROVE t \o s[i] \in Strings
  <2>1. s[i] \in Seq(Byte)
    OBVIOUS
  <2>2. QED
    BY <2>1, ConcatProperties
<1>2. D \subseteq Nat /\ base \in [D -> Strings] /\ prev \in [D -> Nat]
  OBVIOUS
<1>3. grow \in [(D \ {1}) \X Strings -> Strings]
  <2> HIDE DEF D, Strings
  <2>1. \A p \in (D \ {1}) \X Strings : p[1] \in D /\ p[2] \in Strings
    OBVIOUS
  <2>2. \A p \in (D \ {1}) \X Strings : p[2] \o s[p[1]] \in Strings
    BY <1>1, <2>1
  <2>3. QED
    BY <2>2
<1>4. \A i \in D \ {1} : prev[i] \in D /\ prev[i] < i
  OBVIOUS
<1>5. HasSolution(D, Strings, {1}, base, prev, grow)
  <2> HIDE DEF D, Strings, base, prev, grow
  <2>1. IsRecursion(D, Strings, {1}, base, prev, grow)
    BY <1>2, <1>3, <1>4 DEF IsRecursion
  <2>2. QED
    BY <2>1, Recursion
<1>6. PICK F \in [D -> Strings] : \A i \in D : F[i] = IF i \in {1} THEN base[i] ELSE grow[<<i, F[prev[i]]>>]
  BY <1>5 DEF HasSolution
<1>7. ASSUME NEW i \in D
      PROVE  F[i] = IF i = 1 THEN s[i] ELSE F[i - 1] \o s[i]
  <2>1. CASE i = 1
    BY <1>6, <2>1
  <2>2. CASE i # 1
    <3>1. prev[i] = i - 1 /\ i \in D \ {1} /\ i - 1 \in D
      BY <2>2
    <3> HIDE DEF D, prev, Strings
    <3>2. F[i] = grow[<<i, F[prev[i]]>>] /\ F[i - 1] \in Strings
      <4> HIDE DEF grow, base
      <4>1. F[i] = grow[<<i, F[prev[i]]>>]
        BY <1>6, <3>1
      <4>2. F[i - 1] \in Strings
        BY <3>1
      <4>3. QED
        BY <4>1, <4>2
    <3>3. F[i] = grow[<<i, F[i - 1]>>]
      BY <3>1, <3>2, Zenon
    <3>4. QED
      BY <2>2, <3>1, <3>2, <3>3
  <2>3. QED
    BY <2>1, <2>2
<1>8. Law(F)
  BY <1>7
<1>9. Law(Join)
  BY <1>8
<1>10. FlattenSeq(s) = Join[n]
  <2>1. Len(s) = n
    OBVIOUS
  <2>2. QED
    BY <2>1 DEF FlattenSeq
<1> HIDE DEF Join
<1>11. \A i \in D : Join[i] = IF i = 1 THEN s[i] ELSE Join[i - 1] \o s[i]
  BY <1>9
<1>12. ASSUME NEW i \in D PROVE Join[i] \in Strings
  <2> DEFINE Bad == {m \in D : Join[m] \notin Strings}
  <2> SUFFICES ASSUME Bad # {} PROVE FALSE
    OBVIOUS
  <2>1. PICK m \in Bad : \A j \in Bad : m <= j
    <3>1. Bad \subseteq Nat
      OBVIOUS
    <3> HIDE DEF Bad
    <3>2. QED
      BY <3>1, Least
  <2>2. m # 1
    BY <1>11
  <2>3. m \in D /\ m - 1 \in D /\ ~ (m <= m - 1)
    BY <2>2
  <2>4. Join[m - 1] \in Strings
    BY <2>1, <2>3
  <2>5. Join[m] = Join[m - 1] \o s[m]
    BY <1>11, <2>2
  <2>6. Join[m - 1] \o s[m] \in Strings
    BY <1>1, <2>3, <2>4
  <2>7. Join[m] \notin Strings
    OBVIOUS
  <2>8. QED
    BY <2>5, <2>6, <2>7, Zenon
<1>13. DOMAIN Join = D /\ Join = [i \in D |-> Join[i]]
  BY <1>9
<1>14. Join \in [D -> Strings]
  BY <1>12, <1>13
<1>15. Join[1] = s[1] /\ \A i \in 2 .. n : Join[i] = Join[i - 1] \o s[i]
  <2>1. 1 \in D /\ \A i \in 2 .. n : i \in D /\ i # 1
    OBVIOUS
  <2> HIDE DEF D
  <2>2. QED
    BY <1>11, <2>1
<1>16. QED
  BY <1>10, <1>14, <1>15 DEF IsJoin

\* A list of one string.
LEMMA JoinedOne ==
    ASSUME NEW s, IsPieces(s, 1)
    PROVE  FlattenSeq(s) = s[1]
<1>1. PICK F : IsJoin(F, s, 1) /\ FlattenSeq(s) = F[1]
  BY Joined
<1>2. QED
  BY <1>1 DEF IsJoin

LEMMA JoinedShort ==
    ASSUME NEW s, NEW n, IsPieces(s, n), \A i \in 1 .. n : Len(s[i]) <= 3
    PROVE  FlattenSeq(s) \in Seq(Byte) /\ Len(FlattenSeq(s)) <= 3 * n
<1>1. PICK F : IsJoin(F, s, n) /\ FlattenSeq(s) = F[n]
  BY Joined
<1>2. n \in Nat /\ 1 <= n /\ n \in 1 .. n
  BY DEF IsPieces
<1>3. F \in [1 .. n -> Seq(Byte)] /\ \A i \in 1 .. n : s[i] \in Seq(Byte)
  BY <1>1 DEF IsJoin, IsPieces
<1>4. \A i \in 1 .. n : Len(F[i]) \in Nat /\ Len(s[i]) \in Nat
  BY <1>3, LenProperties
<1> DEFINE Bad == {m \in 1 .. n : ~ (Len(F[m]) <= 3 * m)}
<1>5. Bad = {}
  <2> SUFFICES ASSUME Bad # {} PROVE FALSE
    OBVIOUS
  <2>1. PICK m \in Bad : \A j \in Bad : m <= j
    <3>1. Bad \subseteq Nat
      OBVIOUS
    <3> HIDE DEF Bad
    <3>2. QED
      BY <3>1, Least
  <2>2. m \in 1 .. n /\ ~ (Len(F[m]) <= 3 * m)
    OBVIOUS
  <2>3. m # 1
    <3>1. ASSUME m = 1 PROVE FALSE
      <4>1. F[m] = s[m]
        BY <1>1, <3>1 DEF IsJoin
      <4>2. Len(s[m]) <= 3
        BY <2>2
      <4>3. Len(F[m]) <= 3 * m
        BY <3>1, <4>1, <4>2
      <4>4. QED
        BY <2>2, <4>3
    <3>2. QED
      BY <3>1
  <2>4. m \in 2 .. n /\ m - 1 \in 1 .. n /\ ~ (m <= m - 1)
    BY <1>2, <2>2, <2>3
  <2>4a. PICK k \in 1 .. n : k = m - 1 /\ ~ (m <= k)
    BY <2>4
  <2>5. k \notin Bad
    BY <2>1, <2>4a
  <2>6. Len(F[k]) <= 3 * k
    BY <2>5
  <2>7. F[m] = F[k] \o s[m]
    BY <1>1, <2>4, <2>4a DEF IsJoin
  <2>8. F[k] \in Seq(Byte) /\ s[m] \in Seq(Byte)
    BY <1>3, <2>2
  <2>9. Len(F[k] \o s[m]) = Len(F[k]) + Len(s[m])
    BY <2>8, ConcatProperties
  <2>10. Len(s[m]) <= 3
    BY <2>2
  <2>11. Len(F[m]) = Len(F[k]) + Len(s[m])
    BY <2>7, <2>9, Zenon
  <2>12. Len(F[m]) <= 3 * m
    <3>1. PICK a \in Nat : a = Len(F[k])
      BY <1>4
    <3>2. PICK b \in Nat : b = Len(s[m])
      BY <1>4, <2>2
    <3>3. m = k + 1 /\ k \in Nat
      BY <1>2, <2>2, <2>4a
    <3>4. a <= 3 * k
      BY <2>6, <3>1, Zenon
    <3>5. b <= 3
      BY <2>10, <3>2, Zenon
    <3>6. a + b <= 3 * m
      BY <3>3, <3>4, <3>5
    <3>7. QED
      BY <2>11, <3>1, <3>2, <3>6
  <2>13. QED
    BY <2>2, <2>12
<1>6. Len(F[n]) <= 3 * n
  BY <1>2, <1>5
<1>7. F[n] \in Seq(Byte)
  BY <1>2, <1>3
<1>8. QED
  BY <1>1, <1>6, <1>7

LEMMA Utf8Bytes ==
    ASSUME NEW c \in Nat, c < 65536
    PROVE  Utf8(c) \in Seq(Byte) /\ Len(Utf8(c)) <= 3
<1>1. c \in Nat /\ c < 65536
  OBVIOUS
<1>2. CASE c < 128
  <2>1. c \in Byte
    BY <1>1, <1>2 DEF Byte
  <2>2. Utf8(c) = <<c>>
    BY <1>1, <1>2 DEF Utf8
  <2>3. QED
    BY <2>1, <2>2
<1>3. CASE c >= 128 /\ c < 2048
  <2>1. 128 <= c /\ c < 2048 /\ ~ (c < 128)
    BY <1>1, <1>3
  <2>2. Utf8(c) = <<192 + (c \div 64), 128 + (c % 64)>>
    BY <1>1, <2>1 DEF Utf8
  <2>3. 192 + (c \div 64) \in Byte /\ 128 + (c % 64) \in Byte
    BY <1>1, <1>3 DEF Byte
  <2>4. QED
    BY <2>2, <2>3
<1>4. CASE c >= 2048
  <2>1. ~ (128 <= c /\ c < 2048) /\ ~ (c < 128)
    BY <1>1, <1>4
  <2>2. Utf8(c) = <<224 + (c \div 4096), 128 + ((c \div 64) % 64), 128 + (c % 64)>>
    BY <1>1, <2>1 DEF Utf8
  <2>3. 224 + (c \div 4096) \in Byte /\ 128 + ((c \div 64) % 64) \in Byte /\ 128 + (c % 64) \in Byte
    BY <1>1, <1>4 DEF Byte
  <2>4. QED
    BY <2>2, <2>3
<1>5. QED
  BY <1>1, <1>2, <1>3, <1>4

LEMMA CharacterBytes ==
    ASSUME NEW c \in Characters
    PROVE  Utf8(c) \in Seq(Byte) /\ Len(Utf8(c)) <= 3
<1>1. c \in Uint16
  BY CharactersAssumption
<1>2. c \in Nat /\ c <= 65535
  BY <1>1, Uint16Members
<1>3. c < 65536
  BY <1>2
<1>4. QED
  BY <1>2, <1>3, Utf8Bytes

LEMMA TextsAreShort ==
    ASSUME NEW t \in Texts
    PROVE  Short(t)
<1>0. PICK s \in BoundedSeq(Characters, MaxTextLength) : t = FlattenSeq([i \in DOMAIN s |-> Utf8(s[i])])
  BY DEF Texts
<1>1. PICK m \in 0 .. MaxTextLength : s \in [1 .. m -> Characters]
  BY DEF BoundedSeq, SeqOf
<1>2. m \in Nat /\ m <= MaxTextLength /\ MaxTextLength \in Nat /\ 3 * MaxTextLength < 65535
  BY MaxTextLengthAssumption
<1>3. DOMAIN s = 1 .. m /\ \A i \in 1 .. m : s[i] \in Characters
  BY <1>1
<1> DEFINE pieces == [i \in 1 .. m |-> Utf8(s[i])]
<1>4. t = FlattenSeq(pieces)
  BY <1>0, <1>3
<1>5. pieces \in [1 .. m -> Seq(Byte)] /\ \A i \in 1 .. m : Len(pieces[i]) <= 3
  BY <1>3, CharacterBytes
<1>6. CASE m = 0
  <2>1. pieces = <<>>
    BY <1>6
  <2>2. FlattenSeq(pieces) = <<>>
    BY <2>1, EmptySeq DEF FlattenSeq
  <2>3. t = <<>>
    BY <1>4, <2>2
  <2>4. <<>> \in Seq(Byte) /\ Len(<<>>) = 0 /\ 0 < 65535
    BY EmptySeq
  <2>5. QED
    BY <2>3, <2>4 DEF Short
<1>7. CASE m # 0
  <2> HIDE DEF pieces
  <2>1. IsPieces(pieces, m)
    BY <1>2, <1>5, <1>7 DEF IsPieces
  <2>2. t \in Seq(Byte) /\ Len(t) <= 3 * m
    BY <1>4, <1>5, <2>1, JoinedShort
  <2>3. Len(t) \in Nat
    BY <2>2, LenProperties
  <2>4. PICK l \in Nat : l = Len(t)
    BY <2>3
  <2>5. l <= 3 * m
    BY <2>2, <2>4, Zenon
  <2>6. l < 65535
    BY <1>2, <2>5
  <2>7. QED
    BY <2>2, <2>4, <2>6 DEF Short
<1>8. QED
  BY <1>6, <1>7

LEMMA MessagesFit ==
    ASSUME NEW m \in Messages
    PROVE  Fits(m)
<1>1. PICK n \in MessageSizes : m = [i \in 1 .. n |-> i % 256]
  BY DEF Messages
<1>2. n \in Uint16
  BY MessageSizesAssumption
<1>3. n \in Nat
  BY <1>2, Uint16Members
<1>4. \A i \in 1 .. n : i % 256 \in Byte
  BY <1>3 DEF Byte
<1>5. m \in Seq(Byte) /\ Len(m) = n
  BY <1>1, <1>3, <1>4
<1>6. QED
  BY <1>2, <1>5 DEF Fits

LEMMA LongStrings ==
    ASSUME NEW n \in Nat
    PROVE  Long(n) \in Seq(Byte) /\ Len(Long(n)) = n
<1>1. 97 \in Byte
  BY DEF Byte
<1>2. QED
  BY <1>1 DEF Long

LEMMA LongFields ==
    ASSUME NEW n \in FieldSizes
    PROVE  Short(Long(n)) /\ Fits(Long(n + 1))
<1>1. n \in Nat /\ n < 65535 /\ n + 1 \in Nat /\ n + 1 <= 65535
  BY FieldSizesAssumption
<1>2. Short(Long(n))
  BY <1>1, LongStrings DEF Short
<1>3. n + 1 \in Uint16
  BY <1>1, Uint16Members
<1>4. QED
  BY <1>1, <1>2, <1>3, LongStrings DEF Fits

-----------------------------------------------------------------------------
(* What the broker reads, packet by packet *)

Reserved(type) == IF type \in {"SUBSCRIBE", "UNSUBSCRIBE"} THEN 2 ELSE 0

\* What BrokerReads makes of a packet with this type, these flags and this body.
Reading(type, flags, body) ==
    CASE type = "CONNECT"     -> ReadConnect(body)
      [] type = "PUBLISH"     -> ReadPublish(flags, body)
      [] type = "SUBSCRIBE"   -> [type |-> type, id |-> Number(body[1], body[2]),
                                  filters |-> <<[topic |-> Field(body, 3),
                                                 qos |-> body[After(body, 3)]]>>]
      [] type = "UNSUBSCRIBE" -> [type |-> type, id |-> Number(body[1], body[2]),
                                  topics |-> <<Field(body, 3)>>]
      [] type \in {"PUBACK", "PUBREC", "PUBCOMP"} -> [type |-> type, id |-> Number(body[1], body[2])]
      [] OTHER -> [type |-> type]

LEMMA ReadingOf ==
    ASSUME NEW f, NEW type, NEW flags, NEW body, IsPacket(f, type, flags, body),
           type = "PUBLISH" \/ flags = Reserved(type)
    PROVE  BrokerReads(f) = Reading(type, flags, body)
<1>1. /\ TypeName(f[1] \div 16) = type /\ f[1] % 16 = flags
      /\ RemainingLength(f) = Len(body) /\ Drop(f, 1 + LengthBytes(f)) = body
  BY PacketRead
<1>2. BrokerReads(f) =
        CASE RemainingLength(f) # Len(body) -> Malformed
          [] type # "PUBLISH" /\ flags # Reserved(type) -> Malformed
          [] OTHER -> Reading(type, flags, body)
  BY <1>1, Zenon DEF BrokerReads, Reading, Reserved
<1>3. QED
  BY <1>1, <1>2

\* Small enough for encode() in any case.
Small(body) == body \in Seq(Byte) /\ Len(body) <= 128 * (128 * 128)

LEMMA SmallBody ==
    ASSUME NEW body, Small(body)
    PROVE  body \in Seq(Byte) /\ Len(body) <= MAXIMUM_CONTROL_PACKET_SIZE
<1>1. body \in Seq(Byte) /\ Len(body) <= 128 * (128 * 128)
  BY DEF Small
<1>2. Len(body) \in Nat
  BY <1>1, LenProperties
<1>3. QED
  BY <1>1, <1>2, MaximumSize

IsAcknowledgement(p) ==
    \E type \in {"PUBACK", "PUBREC", "PUBCOMP"}, id \in Uint16 : p = [type |-> type, id |-> id]

LEMMA AcknowledgementRead ==
    ASSUME NEW p, IsAcknowledgement(p)
    PROVE  /\ IsPacket(Encode(p), p.type, 0, EncodeNumber(p.id))
           /\ BrokerReads(Encode(p)) = p
<1>1. PICK type \in {"PUBACK", "PUBREC", "PUBCOMP"}, id \in Uint16 : p = [type |-> type, id |-> id]
  BY DEF IsAcknowledgement
<1>2. p.type = type /\ p.id = id
  BY <1>1
<1>3. PICK body : body = EncodeNumber(id)
  OBVIOUS
<1>4. body \in Seq(Byte) /\ Len(body) = 2 /\ Number(body[1], body[2]) = id
  BY <1>3, NumberReadBack
<1>5. Encode(p) = Packet(type, 0, body)
  BY <1>2, <1>3 DEF Encode, EncodeAck
<1>6. type \in DOMAIN PacketType /\ 0 \in 0 .. 15
  BY DEF PacketType
<1>7. IsPacket(Encode(p), type, 0, body)
  <2>1. Small(body)
    BY <1>4 DEF Small
  <2>2. QED
    BY <1>5, <1>6, <2>1, SmallBody, PacketIsPacket
<1>8. BrokerReads(Encode(p)) = Reading(type, 0, body)
  BY <1>7, ReadingOf DEF Reserved
<1>9. Reading(type, 0, body) = [type |-> type, id |-> id]
  BY <1>4 DEF Reading
<1>10. QED
  BY <1>1, <1>2, <1>3, <1>7, <1>8, <1>9, Zenon

IsBare(p) == \E type \in {"PINGREQ", "DISCONNECT"} : p = [type |-> type]

LEMMA BareRead ==
    ASSUME NEW p, IsBare(p)
    PROVE  /\ IsPacket(Encode(p), p.type, 0, <<>>)
           /\ BrokerReads(Encode(p)) = p
<1>1. PICK type \in {"PINGREQ", "DISCONNECT"} : p = [type |-> type]
  BY DEF IsBare
<1>2. p.type = type
  BY <1>1
<1>3. PICK body : body = <<>>
  OBVIOUS
<1>4. body \in Seq(Byte) /\ Len(body) = 0
  BY <1>3, EmptySeq
<1>5. Encode(p) = Packet(type, 0, body)
  BY <1>2, <1>3 DEF Encode, EncodeBare
<1>6. type \in DOMAIN PacketType /\ 0 \in 0 .. 15
  BY DEF PacketType
<1>7. IsPacket(Encode(p), type, 0, body)
  <2>1. Small(body)
    BY <1>4 DEF Small
  <2>2. QED
    BY <1>5, <1>6, <2>1, SmallBody, PacketIsPacket
<1>8. BrokerReads(Encode(p)) = Reading(type, 0, body)
  BY <1>7, ReadingOf DEF Reserved
<1>9. Reading(type, 0, body) = [type |-> type]
  BY DEF Reading
<1>10. QED
  BY <1>1, <1>2, <1>3, <1>7, <1>8, <1>9, Zenon

IsSubscribe(p) ==
    \E id \in Uint16, q \in 0 .. 2, t \in Seq(Byte) :
        Short(t) /\ p = [type |-> "SUBSCRIBE", id |-> id, filters |-> <<[topic |-> t, qos |-> q]>>]

IsSubscribeBody(body, id, t, q) ==
    /\ id \in Uint16 /\ q \in 0 .. 2 /\ Short(t)
    /\ body = EncodeNumber(id) \o (FieldOf(t) \o <<q>>)

LEMMA SubscribeBody ==
    ASSUME NEW body, NEW id, NEW t, NEW q, IsSubscribeBody(body, id, t, q)
    PROVE  /\ Small(body) /\ Number(body[1], body[2]) = id
           /\ Field(body, 3) = t /\ body[After(body, 3)] = q
<1> USE DEF IsSubscribeBody
<1>1. Fits(t) /\ Len(t) < 65535
  BY ShortFits DEF Short
<1>2. PICK l \in Nat : l = Len(t)
  BY <1>1, FieldProperties
<1>3. IsString(EncodeNumber(id), 2)
  BY StringNumber
<1>4. IsString(FieldOf(t), 2 + l)
  BY <1>1, <1>2, StringField
<1>5. IsString(<<q>>, 1)
  <2>1. q \in Byte
    BY DEF Byte
  <2>2. QED
    BY <2>1, StringByte
<1>6. IsString(FieldOf(t) \o <<q>>, (2 + l) + 1)
  BY <1>4, <1>5, JoinStrings
<1>7. IsString(body, 2 + ((2 + l) + 1))
  BY <1>3, <1>6, JoinStrings
<1>8. Holds(body, 1, EncodeNumber(id)) /\ Holds(body, 3, FieldOf(t) \o <<q>>)
  <2>1. Holds(body, 1, body)
    BY <1>7, HoldsItself DEF IsString
  <2>2. HoldsBoth(body, 1, EncodeNumber(id), 2, 3, FieldOf(t) \o <<q>>, (2 + l) + 1)
    BY <1>3, <1>6, <2>1 DEF HoldsBoth
  <2>3. QED
    BY <2>2, HoldsEach
<1>9. Holds(body, 3, FieldOf(t)) /\ Holds(body, 5 + l, <<q>>)
  <2>1. HoldsBoth(body, 3, FieldOf(t), 2 + l, 5 + l, <<q>>, 1)
    BY <1>4, <1>5, <1>8 DEF HoldsBoth
  <2>2. QED
    BY <2>1, HoldsEach
<1>10. Number(body[1], body[2]) = id
  <2>1. HoldsNumberAt(body, 1, 2, id)
    BY <1>8 DEF HoldsNumberAt
  <2>2. QED
    BY <2>1, HoldsNumber
<1>11. Field(body, 3) = t /\ After(body, 3) = 5 + l
  BY <1>1, <1>2, <1>9, HoldsField
<1>12. body[5 + l] = q
  BY <1>9, HoldsByte
<1>13. Small(body)
  BY <1>1, <1>2, <1>7 DEF Small, IsString
<1>14. QED
  BY <1>10, <1>11, <1>12, <1>13

LEMMA SubscribeRead ==
    ASSUME NEW p, IsSubscribe(p)
    PROVE  \E body : IsPacket(Encode(p), "SUBSCRIBE", 2, body) /\ BrokerReads(Encode(p)) = p
<1>1. PICK id \in Uint16, q \in 0 .. 2, t \in Seq(Byte) :
         Short(t) /\ p = [type |-> "SUBSCRIBE", id |-> id, filters |-> <<[topic |-> t, qos |-> q]>>]
  BY DEF IsSubscribe
<1>2. p.type = "SUBSCRIBE" /\ p.id = id /\ p.filters = <<[topic |-> t, qos |-> q]>>
  BY <1>1
<1>3. DOMAIN p.filters = 1 .. 1 /\ p.filters[1].topic = t /\ p.filters[1].qos = q
  BY <1>2
<1> DEFINE pieces == [i \in DOMAIN p.filters |->
                         EncodeData(p.filters[i].topic) \o <<p.filters[i].qos>>]
<1>4. pieces[1] = FieldOf(t) \o <<q>> /\ DOMAIN pieces = 1 .. 1
  BY <1>1, <1>3, ShortFits
<1>5. FieldOf(t) \o <<q>> \in Seq(Byte)
  <2>1. FieldOf(t) \in Seq(Byte)
    BY <1>1, ShortFits, FieldProperties
  <2>2. <<q>> \in Seq(Byte)
    <3>1. q \in Byte
      BY DEF Byte
    <3>2. QED
      BY <3>1
  <2>3. QED
    BY <2>1, <2>2, ConcatProperties
<1>6. pieces \in [1 .. 1 -> Seq(Byte)]
  <2>1. pieces = [i \in 1 .. 1 |-> pieces[i]]
    BY <1>3
  <2> HIDE DEF pieces
  <2>2. \A i \in 1 .. 1 : pieces[i] \in Seq(Byte)
    BY <1>4, <1>5
  <2>3. QED
    BY <2>1, <2>2
<1> HIDE DEF pieces
<1>7. FlattenSeq(pieces) = FieldOf(t) \o <<q>>
  <2>1. IsPieces(pieces, 1)
    BY <1>6 DEF IsPieces
  <2>2. QED
    BY <1>4, <2>1, JoinedOne
<1>8. PICK body : body = EncodeNumber(id) \o (FieldOf(t) \o <<q>>)
  OBVIOUS
<1>9. Encode(p) = Packet("SUBSCRIBE", 2, body)
  <2>1. Encode(p) = EncodeSubscribe(p)
    BY <1>2 DEF Encode
  <2>2. EncodeSubscribe(p) = Packet("SUBSCRIBE", 2, EncodeNumber(p.id) \o FlattenSeq(pieces))
    BY DEF EncodeSubscribe, pieces
  <2>3. QED
    BY <1>2, <1>7, <1>8, <2>1, <2>2, Zenon
<1>10. /\ Small(body) /\ Number(body[1], body[2]) = id
       /\ Field(body, 3) = t /\ body[After(body, 3)] = q
  <2>1. IsSubscribeBody(body, id, t, q)
    BY <1>1, <1>8 DEF IsSubscribeBody
  <2>2. QED
    BY <2>1, SubscribeBody
<1>11. IsPacket(Encode(p), "SUBSCRIBE", 2, body)
  <2>1. "SUBSCRIBE" \in DOMAIN PacketType /\ 2 \in 0 .. 15
    BY DEF PacketType
  <2>2. QED
    BY <1>9, <1>10, <2>1, SmallBody, PacketIsPacket
<1>12. BrokerReads(Encode(p)) = Reading("SUBSCRIBE", 2, body)
  BY <1>11, ReadingOf DEF Reserved
<1>13. Reading("SUBSCRIBE", 2, body) =
          [type |-> "SUBSCRIBE", id |-> id, filters |-> <<[topic |-> t, qos |-> q]>>]
  BY <1>10 DEF Reading
<1>14. QED
  BY <1>1, <1>11, <1>12, <1>13, Zenon

IsUnsubscribe(p) ==
    \E id \in Uint16, t \in Seq(Byte) :
        Short(t) /\ p = [type |-> "UNSUBSCRIBE", id |-> id, topics |-> <<t>>]

LEMMA UnsubscribeBody ==
    ASSUME NEW id \in Uint16, NEW t, Short(t), NEW body, body = EncodeNumber(id) \o FieldOf(t)
    PROVE  Small(body) /\ Number(body[1], body[2]) = id /\ Field(body, 3) = t
<1>1. Fits(t) /\ Len(t) < 65535
  BY ShortFits DEF Short
<1>2. PICK l \in Nat : l = Len(t)
  BY <1>1, FieldProperties
<1>3. IsString(EncodeNumber(id), 2)
  BY StringNumber
<1>4. IsString(FieldOf(t), 2 + l)
  BY <1>1, <1>2, StringField
<1>5. IsString(body, 2 + (2 + l))
  BY <1>3, <1>4, JoinStrings
<1>6. Holds(body, 1, EncodeNumber(id)) /\ Holds(body, 3, FieldOf(t))
  <2>1. Holds(body, 1, body)
    BY <1>5, HoldsItself DEF IsString
  <2>2. HoldsBoth(body, 1, EncodeNumber(id), 2, 3, FieldOf(t), 2 + l)
    BY <1>3, <1>4, <2>1 DEF HoldsBoth
  <2>3. QED
    BY <2>2, HoldsEach
<1>7. Number(body[1], body[2]) = id
  <2>1. HoldsNumberAt(body, 1, 2, id)
    BY <1>6 DEF HoldsNumberAt
  <2>2. QED
    BY <2>1, HoldsNumber
<1>8. Field(body, 3) = t
  BY <1>1, <1>6, HoldsField
<1>9. Small(body)
  BY <1>1, <1>2, <1>5 DEF Small, IsString
<1>10. QED
  BY <1>7, <1>8, <1>9

LEMMA UnsubscribeRead ==
    ASSUME NEW p, IsUnsubscribe(p)
    PROVE  \E body : IsPacket(Encode(p), "UNSUBSCRIBE", 2, body) /\ BrokerReads(Encode(p)) = p
<1>1. PICK id \in Uint16, t \in Seq(Byte) :
         Short(t) /\ p = [type |-> "UNSUBSCRIBE", id |-> id, topics |-> <<t>>]
  BY DEF IsUnsubscribe
<1>2. p.type = "UNSUBSCRIBE" /\ p.id = id /\ p.topics = <<t>>
  BY <1>1
<1>3. DOMAIN p.topics = 1 .. 1 /\ p.topics[1] = t
  BY <1>2
<1> DEFINE pieces == [i \in DOMAIN p.topics |-> EncodeData(p.topics[i])]
<1>4. pieces[1] = FieldOf(t) /\ DOMAIN pieces = 1 .. 1
  BY <1>1, <1>3, ShortFits
<1>5. FieldOf(t) \in Seq(Byte)
  BY <1>1, ShortFits, FieldProperties
<1>6. pieces \in [1 .. 1 -> Seq(Byte)]
  <2>1. pieces = [i \in 1 .. 1 |-> pieces[i]]
    BY <1>3
  <2> HIDE DEF pieces
  <2>2. \A i \in 1 .. 1 : pieces[i] \in Seq(Byte)
    BY <1>4, <1>5
  <2>3. QED
    BY <2>1, <2>2
<1> HIDE DEF pieces
<1>7. FlattenSeq(pieces) = FieldOf(t)
  <2>1. IsPieces(pieces, 1)
    BY <1>6 DEF IsPieces
  <2>2. QED
    BY <1>4, <2>1, JoinedOne
<1>8. PICK body : body = EncodeNumber(id) \o FieldOf(t)
  OBVIOUS
<1>9. Encode(p) = Packet("UNSUBSCRIBE", 2, body)
  <2>1. Encode(p) = EncodeUnsubscribe(p)
    BY <1>2 DEF Encode
  <2>2. EncodeUnsubscribe(p) = Packet("UNSUBSCRIBE", 2, EncodeNumber(p.id) \o FlattenSeq(pieces))
    BY DEF EncodeUnsubscribe, pieces
  <2>3. QED
    BY <1>2, <1>7, <1>8, <2>1, <2>2, Zenon
<1>10. Small(body) /\ Number(body[1], body[2]) = id /\ Field(body, 3) = t
  BY <1>1, <1>8, UnsubscribeBody
<1>11. IsPacket(Encode(p), "UNSUBSCRIBE", 2, body)
  <2>1. "UNSUBSCRIBE" \in DOMAIN PacketType /\ 2 \in 0 .. 15
    BY DEF PacketType
  <2>2. QED
    BY <1>9, <1>10, <2>1, SmallBody, PacketIsPacket
<1>12. BrokerReads(Encode(p)) = Reading("UNSUBSCRIBE", 2, body)
  BY <1>11, ReadingOf DEF Reserved
<1>13. Reading("UNSUBSCRIBE", 2, body) = [type |-> "UNSUBSCRIBE", id |-> id, topics |-> <<t>>]
  BY <1>10 DEF Reading
<1>14. QED
  BY <1>1, <1>11, <1>12, <1>13, Zenon

\* The body of a PUBLISH: the topic t of l bytes, k bytes for the identifier, and the message.
IsPublishBody(body, t, l, e, k, m) ==
    /\ Short(t) /\ l = Len(t) /\ IsString(e, k) /\ k <= 2 /\ Fits(m)
    /\ body = (FieldOf(t) \o e) \o m

LEMMA PublishBody ==
    ASSUME NEW body, NEW t, NEW l, NEW e, NEW k, NEW m, IsPublishBody(body, t, l, e, k, m)
    PROVE  /\ Small(body) /\ l \in Nat /\ k \in Nat /\ Len(m) \in Nat /\ Len(body) = ((2 + l) + k) + Len(m)
           /\ Number(body[1], body[2]) = l /\ Field(body, 1) = t /\ After(body, 1) = 3 + l
           /\ SubSeq(body, 3, 2 + l) = t
           /\ Holds(body, 3 + l, e)
           /\ Drop(body, (2 + l) + k) = m /\ Drop(body, 2 + l) = e \o m
<1>0. Short(t) /\ Len(t) < 65535
  BY DEF IsPublishBody, Short
<1>1. Fits(t) /\ Fits(m) /\ IsString(e, k) /\ l = Len(t) /\ body = (FieldOf(t) \o e) \o m /\ k <= 2
  BY <1>0, ShortFits DEF IsPublishBody
<1>2. l \in Nat
  BY <1>1, FieldProperties
<1>3. PICK n \in Uint16 : n = Len(m)
  BY <1>1 DEF Fits
<1>3a. n \in Nat
  BY <1>3, Uint16Members
<1>4. IsString(FieldOf(t), 2 + l) /\ IsString(m, n)
  <2>1. IsString(FieldOf(t), 2 + l)
    BY <1>1, StringField, Zenon
  <2>2. IsString(m, n)
    BY <1>1, <1>3, Zenon DEF Fits, IsString
  <2>3. QED
    BY <2>1, <2>2
<1>5. k \in Nat /\ IsString(FieldOf(t) \o e, (2 + l) + k) /\ IsString(e \o m, k + n)
  BY <1>1, <1>4, JoinStrings
<1>6. IsString(body, ((2 + l) + k) + n)
  BY <1>1, <1>4, <1>5, JoinStrings
<1>7. body = FieldOf(t) \o (e \o m)
  <2>1. FieldOf(t) \in Seq(Byte) /\ e \in Seq(Byte) /\ m \in Seq(Byte)
    BY <1>1, <1>4, Zenon DEF IsString
  <2>2. PICK g \in Seq(Byte) : g = FieldOf(t)
    BY <2>1
  <2>3. (g \o e) \o m = g \o (e \o m)
    BY <2>1, ConcatAssociative
  <2>4. QED
    BY <1>1, <2>2, <2>3, Zenon
<1>8. Holds(body, 1, body)
  BY <1>6, HoldsItself DEF IsString
<1>9. Holds(body, 1, FieldOf(t)) /\ Holds(body, 3 + l, e \o m)
  <2>1. Holds(body, 1, FieldOf(t) \o (e \o m))
    BY <1>7, <1>8, Zenon
  <2>2. HoldsBoth(body, 1, FieldOf(t), 2 + l, 3 + l, e \o m, k + n)
    BY <1>2, <1>4, <1>5, <2>1 DEF HoldsBoth
  <2>3. QED
    BY <2>2, HoldsEach
<1>10. Holds(body, 3 + l, e) /\ Holds(body, (3 + l) + k, m)
  <2>1. HoldsBoth(body, 3 + l, e, k, (3 + l) + k, m, n)
    BY <1>1, <1>4, <1>9 DEF HoldsBoth
  <2>2. QED
    BY <2>1, HoldsEach
<1>11. Field(body, 1) = t /\ After(body, 1) = 3 + l
  <2>1. Field(body, 1) = t /\ After(body, 1) = 1 + 2 + l
    BY <1>1, <1>9, HoldsField
  <2>2. 1 + 2 + l = 3 + l
    BY <1>2
  <2>3. QED
    BY <2>1, <2>2
<1>12. Number(body[1], body[2]) = l /\ SubSeq(body, 3, 2 + l) = t
  <2>1. IsString(EncodeNumber(l), 2) /\ IsString(t, l) /\ l \in Uint16
    <3>1. l \in Uint16
      BY <1>1, Zenon DEF Fits
    <3>2. IsString(t, l)
      BY <1>1, Zenon DEF Fits, IsString
    <3>3. QED
      BY <3>1, <3>2, StringNumber
  <2>2. FieldOf(t) = EncodeNumber(l) \o t
    BY <1>1, Zenon DEF FieldOf
  <2>3. HoldsBoth(body, 1, EncodeNumber(l), 2, 3, t, l)
    BY <1>9, <2>1, <2>2 DEF HoldsBoth
  <2>4. Holds(body, 1, EncodeNumber(l)) /\ Holds(body, 3, t)
    BY <2>3, HoldsEach
  <2>5. HoldsNumberAt(body, 1, 2, l)
    BY <2>1, <2>4 DEF HoldsNumberAt
  <2>6. 2 + l \in Int /\ 2 + l = (3 - 1) + l
    BY <1>2
  <2>7. 2 + l \in Int /\ 2 + l = (3 - 1) + Len(t)
    BY <1>1, <2>6, Zenon
  <2>8. SubSeq(body, 3, 2 + l) = t
    BY <2>4, <2>7, HeldStretch
  <2>9. QED
    BY <2>5, <2>8, HoldsNumber
<1>13. Drop(body, (2 + l) + k) = m
  <2>1. (2 + l) + k \in Nat /\ ((2 + l) + k) + 1 = (3 + l) + k
        /\ ((3 + l) + k) + n = (((2 + l) + k) + n) + 1
    BY <1>2, <1>3a, <1>5
  <2>2. ((3 + l) + k) + Len(m) = Len(body) + 1
    BY <1>3, <1>6, <2>1, Zenon DEF IsString
  <2>3. QED
    BY <1>10, <2>1, <2>2, HeldRest
<1>14. Drop(body, 2 + l) = e \o m
  <2>1. 2 + l \in Nat /\ (2 + l) + 1 = 3 + l /\ (3 + l) + (k + n) = (((2 + l) + k) + n) + 1
    BY <1>2, <1>3a, <1>5
  <2>2. (3 + l) + Len(e \o m) = Len(body) + 1
    BY <1>5, <1>6, <2>1, Zenon DEF IsString
  <2>3. PICK r : r = e \o m
    OBVIOUS
  <2>4. Holds(body, 3 + l, r) /\ (3 + l) + Len(r) = Len(body) + 1
    BY <1>9, <2>2, <2>3, Zenon
  <2>5. Drop(body, 2 + l) = r
    BY <2>1, <2>4, HeldRest
  <2>6. QED
    BY <2>3, <2>5, Zenon
<1>15. Small(body)
  <2>1. ((2 + l) + k) + n <= 128 * (128 * 128)
    <3>1. n <= 65535 /\ l < 65535
      BY <1>0, <1>1, Uint16Members
    <3>2. QED
      BY <1>1, <1>2, <1>3a, <1>5, <3>1
  <2>2. QED
    BY <1>6, <2>1, Zenon DEF Small, IsString
<1>16. Len(body) = ((2 + l) + k) + Len(m) /\ Len(m) \in Nat
  BY <1>3, <1>3a, <1>6, Zenon DEF IsString
<1>17. QED
  BY <1>2, <1>5, <1>10, <1>11, <1>12, <1>13, <1>14, <1>15, <1>16, Zenon

IsPublication(t, m, q, id) ==
    Short(t) /\ Fits(m) /\ q \in 0 .. 2 /\ id \in Uint16 /\ (q = 0 => id = 0)
IsPublish(p) ==
    \E t, m, q, id :
        /\ IsPublication(t, m, q, id)
        /\ p = [type |-> "PUBLISH", topic |-> t, message |-> m, qos |-> q, retain |-> FALSE, id |-> id]

\* f is the PUBLISH with body, where the identifier takes k bytes.
IsPublishPacket(f, body, t, m, q, id, k) ==
    /\ IsPacket(f, "PUBLISH", 2 * q, body)
    /\ k = IF q = 0 THEN 0 ELSE 2
    /\ IsPublishBody(body, t, Len(t), IF q = 0 THEN <<>> ELSE EncodeNumber(id), k, m)

LEMMA PublishPacket ==
    ASSUME NEW t, NEW m, NEW q, NEW id, IsPublication(t, m, q, id), NEW p,
           p = [type |-> "PUBLISH", topic |-> t, message |-> m, qos |-> q, retain |-> FALSE, id |-> id]
    PROVE  \E body, k : IsPublishPacket(Encode(p), body, t, m, q, id, k)
<1>1. Short(t) /\ Fits(m) /\ q \in 0 .. 2 /\ id \in Uint16
  BY DEF IsPublication
<1>2. p.type = "PUBLISH" /\ p.topic = t /\ p.message = m /\ p.qos = q /\ ~ p.retain /\ p.id = id
  OBVIOUS
<1>3. PICK e : e = IF q = 0 THEN <<>> ELSE EncodeNumber(id)
  OBVIOUS
<1>4. PICK k : k = IF q = 0 THEN 0 ELSE 2
  OBVIOUS
<1>5. IsString(e, k) /\ k <= 2
  <2>1. CASE q = 0
    <3>1. e = <<>> /\ k = 0
      BY <1>3, <1>4, <2>1
    <3>2. QED
      BY <3>1, EmptySeq DEF IsString
  <2>2. CASE q # 0
    <3>1. e = EncodeNumber(id) /\ k = 2
      BY <1>3, <1>4, <2>2
    <3>2. QED
      BY <1>1, <3>1, StringNumber
  <2>3. QED
    BY <2>1, <2>2
<1>6. PICK body : body = (FieldOf(t) \o e) \o m
  OBVIOUS
<1>7. IsPublishBody(body, t, Len(t), e, k, m)
  BY <1>1, <1>5, <1>6 DEF IsPublishBody
<1>8. Small(body)
  BY <1>7, PublishBody
<1>9. Encode(p) = Packet("PUBLISH", 2 * q, body)
  <2>1. Encode(p) = EncodePublish(p)
    BY <1>2 DEF Encode
  <2>2. 2 * p.qos + Bit(p.retain) = 2 * q
    BY <1>1, <1>2 DEF Bit
  <2>3. (IF p.qos \in {QoS.AT_LEAST_ONCE, QoS.EXACTLY_ONCE} THEN EncodeNumber(p.id) ELSE <<>>) = e
    BY <1>1, <1>2, <1>3 DEF QoS
  <2>4. EncodeData(p.topic) = FieldOf(t)
    BY <1>1, <1>2, ShortFits
  <2>5. QED
    BY <1>2, <1>6, <2>1, <2>2, <2>3, <2>4, Zenon DEF EncodePublish
<1>10. IsPacket(Encode(p), "PUBLISH", 2 * q, body)
  <2>1. "PUBLISH" \in DOMAIN PacketType /\ 2 * q \in 0 .. 15
    BY <1>1 DEF PacketType
  <2>2. body \in Seq(Byte) /\ Len(body) <= MAXIMUM_CONTROL_PACKET_SIZE
    BY <1>8, SmallBody
  <2>3. QED
    BY <1>9, <2>1, <2>2, PacketIsPacket
<1>11. IsPublishPacket(Encode(p), body, t, m, q, id, k)
  BY <1>3, <1>4, <1>7, <1>10, Zenon DEF IsPublishPacket
<1>12. QED
  BY <1>11

LEMMA PublishRead ==
    ASSUME NEW p, IsPublish(p)
    PROVE  Encode(p) \in Seq(Byte) /\ BrokerReads(Encode(p)) = p
<1>1. PICK t, m, q, id :
        /\ IsPublication(t, m, q, id)
        /\ p = [type |-> "PUBLISH", topic |-> t, message |-> m, qos |-> q, retain |-> FALSE, id |-> id]
  BY DEF IsPublish
<1>2. PICK body, k : IsPublishPacket(Encode(p), body, t, m, q, id, k)
  BY <1>1, PublishPacket
<1>3. /\ IsPacket(Encode(p), "PUBLISH", 2 * q, body)
      /\ k = IF q = 0 THEN 0 ELSE 2
  BY <1>2 DEF IsPublishPacket
<1>4. PICK e : e = IF q = 0 THEN <<>> ELSE EncodeNumber(id)
  OBVIOUS
<1>5. PICK l : l = Len(t)
  OBVIOUS
<1>6. IsPublishBody(body, t, l, e, k, m)
  BY <1>2, <1>4, <1>5, Zenon DEF IsPublishPacket
<1>7. q \in 0 .. 2 /\ id \in Uint16 /\ (q = 0 => id = 0)
  BY <1>1 DEF IsPublication
<1>8. BrokerReads(Encode(p)) = ReadPublish(2 * q, body)
  <2>1. BrokerReads(Encode(p)) = Reading("PUBLISH", 2 * q, body)
    BY <1>3, ReadingOf
  <2>2. QED
    BY <2>1 DEF Reading
<1>9. /\ l \in Nat /\ Field(body, 1) = t /\ After(body, 1) = 3 + l
      /\ Holds(body, 3 + l, e) /\ Drop(body, (2 + l) + k) = m
  BY <1>6, PublishBody
<1>10. (2 * q) \div 2 = q /\ ((2 * q) % 2 = 1) = FALSE
  BY <1>7
<1>11. (IF q = 0 THEN 0 ELSE Number(body[3 + l], body[(3 + l) + 1])) = id
  <2>1. CASE q = 0
    BY <1>7, <2>1
  <2>2. CASE q # 0
    <3>1. e = EncodeNumber(id)
      BY <1>4, <2>2
    <3>2. HoldsNumberAt(body, 3 + l, (3 + l) + 1, id)
      BY <1>7, <1>9, <3>1 DEF HoldsNumberAt
    <3>3. Number(body[3 + l], body[(3 + l) + 1]) = id
      BY <3>2, HoldsNumber
    <3>4. QED
      BY <2>2, <3>3
  <2>3. QED
    BY <2>1, <2>2
<1>12. Drop(body, IF q = 0 THEN (3 + l) - 1 ELSE (3 + l) + 1) = m
  <2>1. (2 + l) + k = IF q = 0 THEN (3 + l) - 1 ELSE (3 + l) + 1
    BY <1>3, <1>9
  <2>2. QED
    BY <1>9, <2>1, Zenon
<1>13. ReadPublish(2 * q, body) =
         [type |-> "PUBLISH", topic |-> t, qos |-> q, retain |-> FALSE, id |-> id, message |-> m]
  BY <1>9, <1>10, <1>11, <1>12, Zenon DEF ReadPublish
<1>14. Encode(p) \in Seq(Byte)
  BY <1>3, PacketRead
<1>15. QED
  BY <1>1, <1>8, <1>13, <1>14

-----------------------------------------------------------------------------
(* CONNECT *)

\* The lower bit of the QoS q is masked out of the fields x of the flags f.
AreFlags(f, x, u, p, r, v, q) ==
    /\ u \in 0 .. 1 /\ p \in 0 .. 1 /\ r \in 0 .. 1 /\ v \in 0 .. 1 /\ q \in 0 .. 2
    /\ x = 128 * u + 64 * p + 32 * r + 8 * q + 4 * v + 2
    /\ f = x - 8 * ((x \div 8) % 2)

\* The masked flags: all of them but the lower bit of the QoS.
LEMMA FlagBits ==
    ASSUME NEW f, NEW x, NEW u, NEW p, NEW r, NEW v, NEW q, AreFlags(f, x, u, p, r, v, q)
    PROVE  /\ f \in Nat /\ f <= 255
           /\ (f \div 4) % 2 = v /\ (f \div 32) % 2 = r /\ (f \div 64) % 2 = p /\ (f \div 128) % 2 = u
<1>0. /\ u \in 0 .. 1 /\ p \in 0 .. 1 /\ r \in 0 .. 1 /\ v \in 0 .. 1 /\ q \in 0 .. 2
      /\ x = 128 * u + 64 * p + 32 * r + 8 * q + 4 * v + 2
      /\ f = x - 8 * ((x \div 8) % 2)
  BY Zenon DEF AreFlags
<1> USE <1>0
<1>1. x \in Int /\ x \div 8 = 16 * u + 8 * p + 4 * r + q
  OBVIOUS
<1>2. PICK h \in 0 .. 1 : q - ((16 * u + 8 * p + 4 * r + q) % 2) = 2 * h
  <2>1. (16 * u + 8 * p + 4 * r + q) % 2 = q % 2
    OBVIOUS
  <2>2. \E h \in 0 .. 1 : q - (q % 2) = 2 * h
    <3>1. CASE q = 2
      BY <3>1
    <3>2. CASE q # 2
      BY <3>2
    <3>3. QED
      BY <3>1, <3>2
  <2>3. QED
    BY <2>1, <2>2
<1>3. f = 128 * u + 64 * p + 32 * r + 16 * h + 4 * v + 2
  BY <1>1, <1>2
<1>4. f \in Nat /\ f <= 255
  BY <1>3
<1>5. f \div 4 = 32 * u + 16 * p + 8 * r + 4 * h + v
  BY <1>3
<1>6. f \div 32 = 4 * u + 2 * p + r
  BY <1>3
<1>7. f \div 64 = 2 * u + p
  BY <1>3
<1>8. f \div 128 = u
  BY <1>3
<1>9. (f \div 4) % 2 = v
  BY <1>5
<1>10. (f \div 32) % 2 = r
  BY <1>6
<1>11. (f \div 64) % 2 = p
  BY <1>7
<1>12. (f \div 128) % 2 = u
  BY <1>8
<1>13. QED
  BY <1>4, <1>9, <1>10, <1>11, <1>12

\* s is the field d with its length, n bytes in all, when it is present, and nothing otherwise.
IsOptional(s, n, present, d) ==
    IF present THEN Fits(d) /\ s = FieldOf(d) /\ n = 2 + Len(d) ELSE s = <<>> /\ n = 0

LEMMA OptionalString ==
    ASSUME NEW s, NEW n, NEW present, NEW d, IsOptional(s, n, present, d)
    PROVE  IsString(s, n)
<1>1. CASE present
  BY <1>1, StringField DEF IsOptional
<1>2. CASE ~ present
  <2>1. s = <<>> /\ n = 0
    BY <1>2 DEF IsOptional
  <2>2. QED
    BY <2>1, EmptySeq DEF IsString
<1>3. QED
  BY <1>1, <1>2

LEMMA OptionalRead ==
    ASSUME NEW s, NEW n, NEW present, NEW d, IsOptional(s, n, present, d),
           NEW b, NEW i, Holds(b, i, s)
    PROVE  /\ present => Field(b, i) = d
           /\ (IF present THEN After(b, i) ELSE i) = i + n
<1>1. CASE present
  <2>1. Fits(d) /\ s = FieldOf(d) /\ n = 2 + Len(d)
    BY <1>1 DEF IsOptional
  <2>2. Field(b, i) = d /\ After(b, i) = i + 2 + Len(d) /\ i \in Nat /\ Len(d) \in Nat
    BY <2>1, HoldsField
  <2>3. After(b, i) = i + n
    BY <2>1, <2>2
  <2>4. QED
    BY <1>1, <2>2, <2>3
<1>2. CASE ~ present
  <2>1. n = 0 /\ i \in Nat
    BY <1>2 DEF IsOptional, Holds
  <2>2. QED
    BY <1>2, <2>1
<1>3. QED
  BY <1>1, <1>2

\* The payload y of a CONNECT is five strings, one after the other, from the index i on.
IsPayload(y, c, a, t, nt, m, nm, u, nu, p, np) ==
    /\ IsString(c, a) /\ IsString(t, nt) /\ IsString(m, nm) /\ IsString(u, nu) /\ IsString(p, np)
    /\ y = ((c \o (t \o m)) \o u) \o p

LEMMA PayloadParts ==
    ASSUME NEW y, NEW c, NEW a, NEW t, NEW nt, NEW m, NEW nm, NEW u, NEW nu, NEW p, NEW np,
           IsPayload(y, c, a, t, nt, m, nm, u, nu, p, np), NEW b, NEW i \in Nat, Holds(b, i, y)
    PROVE  /\ Holds(b, i, c) /\ Holds(b, i + a, t) /\ Holds(b, (i + a) + nt, m)
           /\ Holds(b, ((i + a) + nt) + nm, u) /\ Holds(b, (((i + a) + nt) + nm) + nu, p)
<1>1. /\ IsString(c, a) /\ IsString(t, nt) /\ IsString(m, nm) /\ IsString(u, nu) /\ IsString(p, np)
      /\ y = ((c \o (t \o m)) \o u) \o p
  BY DEF IsPayload
<1>2. /\ a \in Nat /\ nt \in Nat /\ nm \in Nat /\ nu \in Nat /\ np \in Nat
      /\ IsString(t \o m, nt + nm)
  BY <1>1, JoinStrings
<1>3. IsString(c \o (t \o m), a + (nt + nm))
  BY <1>1, <1>2, JoinStrings
<1>4. IsString((c \o (t \o m)) \o u, (a + (nt + nm)) + nu)
  BY <1>1, <1>3, JoinStrings
<1>5. Holds(b, i, (c \o (t \o m)) \o u) /\ Holds(b, (((i + a) + nt) + nm) + nu, p)
  <2>1. (((i + a) + nt) + nm) + nu = i + ((a + (nt + nm)) + nu)
    BY <1>2
  <2>2. HoldsBoth(b, i, (c \o (t \o m)) \o u, (a + (nt + nm)) + nu, (((i + a) + nt) + nm) + nu, p, np)
    BY <1>1, <1>4, <2>1, Zenon DEF HoldsBoth
  <2>3. QED
    BY <2>2, HoldsEach
<1>6. Holds(b, i, c \o (t \o m)) /\ Holds(b, ((i + a) + nt) + nm, u)
  <2>1. ((i + a) + nt) + nm = i + (a + (nt + nm))
    BY <1>2
  <2>2. HoldsBoth(b, i, c \o (t \o m), a + (nt + nm), ((i + a) + nt) + nm, u, nu)
    BY <1>1, <1>3, <1>5, <2>1, Zenon DEF HoldsBoth
  <2>3. QED
    BY <2>2, HoldsEach
<1>7. Holds(b, i, c) /\ Holds(b, i + a, t \o m)
  <2>1. HoldsBoth(b, i, c, a, i + a, t \o m, nt + nm)
    BY <1>1, <1>2, <1>6, Zenon DEF HoldsBoth
  <2>2. QED
    BY <2>1, HoldsEach
<1>8. Holds(b, i + a, t) /\ Holds(b, (i + a) + nt, m)
  <2>1. HoldsBoth(b, i + a, t, nt, (i + a) + nt, m, nm)
    BY <1>1, <1>7, Zenon DEF HoldsBoth
  <2>2. QED
    BY <2>1, HoldsEach
<1>9. QED
  BY <1>5, <1>6, <1>7, <1>8

LEMMA PayloadString ==
    ASSUME NEW y, NEW c, NEW a, NEW t, NEW nt, NEW m, NEW nm, NEW u, NEW nu, NEW p, NEW np,
           IsPayload(y, c, a, t, nt, m, nm, u, nu, p, np)
    PROVE  /\ a \in Nat /\ nt \in Nat /\ nm \in Nat /\ nu \in Nat /\ np \in Nat
           /\ IsString(y, (((a + nt) + nm) + nu) + np)
<1>1. /\ IsString(c, a) /\ IsString(t, nt) /\ IsString(m, nm) /\ IsString(u, nu) /\ IsString(p, np)
      /\ y = ((c \o (t \o m)) \o u) \o p
  BY DEF IsPayload
<1>2. /\ a \in Nat /\ nt \in Nat /\ nm \in Nat /\ nu \in Nat /\ np \in Nat
      /\ IsString(t \o m, nt + nm)
  BY <1>1, JoinStrings
<1>3. IsString(c \o (t \o m), a + (nt + nm))
  BY <1>1, <1>2, JoinStrings
<1>4. IsString((c \o (t \o m)) \o u, (a + (nt + nm)) + nu)
  BY <1>1, <1>3, JoinStrings
<1>5. IsString(y, ((a + (nt + nm)) + nu) + np)
  BY <1>1, <1>4, JoinStrings
<1>6. ((a + (nt + nm)) + nu) + np = (((a + nt) + nm) + nu) + np
  BY <1>2
<1>7. QED
  BY <1>2, <1>5, <1>6, Zenon

\* The ten bytes before the payload: protocol name and level, flags, keep alive.
Protocol == <<0, 4, 77, 81, 84, 84, 4>>

LEMMA ProtocolString ==
    IsString(Protocol, 7) /\ EncodeData(<<77, 81, 84, 84>>) \o << 4 >> = Protocol
<1>1. \A b \in {0, 4, 77, 81, 84} : b \in Byte
  BY DEF Byte
<1>2. Protocol \in Seq(Byte) /\ Len(Protocol) = 7
  BY <1>1 DEF Protocol
<1>3. EncodeNumber(4) = <<0, 4>>
  BY DEF EncodeNumber
<1>4. PICK d : d = <<77, 81, 84, 84>>
  OBVIOUS
<1>5. d \in Seq(Byte) /\ Len(d) = 4 /\ d[1] = 77 /\ d[2] = 81 /\ d[3] = 84 /\ d[4] = 84
  BY <1>1, <1>4
<1>6. EncodeData(d) = <<0, 4>> \o d
  <2>1. Short(d)
    BY <1>5 DEF Short
  <2>2. EncodeData(d) = FieldOf(d)
    BY <2>1, ShortFits
  <2>3. QED
    BY <1>3, <1>5, <2>2, Zenon DEF FieldOf
<1>7. PICK a : a = <<0, 4>>
  OBVIOUS
<1>8. a \in Seq(Byte) /\ Len(a) = 2 /\ a[1] = 0 /\ a[2] = 4
  BY <1>1, <1>7
<1>9. PICK f : f = a \o d
  OBVIOUS
<1>10. f \in Seq(Byte) /\ Len(f) = 6 /\ \A i \in 1 .. 6 : f[i] = IF i <= 2 THEN a[i] ELSE d[i - 2]
  <2>1. /\ a \o d \in Seq(Byte) /\ Len(a \o d) = Len(a) + Len(d)
        /\ \A i \in 1 .. Len(a) + Len(d) : (a \o d)[i] = IF i <= Len(a) THEN a[i] ELSE d[i - Len(a)]
    <3>1. a \in Seq(Byte) /\ d \in Seq(Byte)
      BY <1>5, <1>8
    <3>2. QED
      BY <3>1, ConcatProperties
  <2>2. Len(a) + Len(d) = 6
    BY <1>5, <1>8
  <2>3. QED
    BY <1>8, <1>9, <2>1, <2>2, Zenon
<1>11. f[1] = 0 /\ f[2] = 4 /\ f[3] = 77 /\ f[4] = 81 /\ f[5] = 84 /\ f[6] = 84
  BY <1>5, <1>8, <1>10
<1>12. PICK z : z = <<4>>
  OBVIOUS
<1>13. z \in Seq(Byte) /\ Len(z) = 1 /\ z[1] = 4
  BY <1>1, <1>12
<1>14. PICK g : g = f \o z
  OBVIOUS
<1>15. g \in Seq(Byte) /\ Len(g) = 7 /\ \A i \in 1 .. 7 : g[i] = IF i <= 6 THEN f[i] ELSE z[i - 6]
  <2>1. /\ f \o z \in Seq(Byte) /\ Len(f \o z) = Len(f) + Len(z)
        /\ \A i \in 1 .. Len(f) + Len(z) : (f \o z)[i] = IF i <= Len(f) THEN f[i] ELSE z[i - Len(f)]
    <3>1. f \in Seq(Byte) /\ z \in Seq(Byte)
      BY <1>10, <1>13
    <3>2. QED
      BY <3>1, ConcatProperties
  <2>2. Len(f) + Len(z) = 7
    BY <1>10, <1>13
  <2>3. QED
    BY <1>10, <1>14, <2>1, <2>2, Zenon
<1>16. /\ g[1] = 0 /\ g[2] = 4 /\ g[3] = 77 /\ g[4] = 81 /\ g[5] = 84 /\ g[6] = 84 /\ g[7] = 4
  BY <1>11, <1>13, <1>15
<1>17. \A i \in 1 .. 7 : g[i] = Protocol[i]
  BY <1>16 DEF Protocol
<1>18. g = Protocol
  BY <1>2, <1>15, <1>17, SeqEqual
<1>19. EncodeData(<<77, 81, 84, 84>>) \o <<4>> = g
  BY <1>4, <1>6, <1>7, <1>9, <1>12, <1>14, Zenon
<1>20. QED
  BY <1>2, <1>18, <1>19 DEF IsString

IsConnectBody(body, flags, y, n) ==
    flags \in Byte /\ IsString(y, n) /\ body = ((Protocol \o <<flags>>) \o EncodeNumber(30)) \o y

LEMMA ConnectBody ==
    ASSUME NEW body, NEW flags, NEW y, NEW n, IsConnectBody(body, flags, y, n)
    PROVE  /\ IsString(body, 10 + n) /\ n \in Nat
           /\ SubSeq(body, 1, 7) = Protocol /\ body[8] = flags /\ Holds(body, 11, y)
<1>1. flags \in Byte /\ IsString(y, n) /\ body = ((Protocol \o <<flags>>) \o EncodeNumber(30)) \o y
  BY DEF IsConnectBody
<1>2. IsString(Protocol, 7) /\ IsString(<<flags>>, 1) /\ IsString(EncodeNumber(30), 2)
  <2>1. 30 \in Uint16
    BY Uint16Members
  <2>2. QED
    BY <1>1, <2>1, ProtocolString, StringByte, StringNumber
<1>3. IsString(Protocol \o <<flags>>, 8)
  <2>1. IsString(Protocol \o <<flags>>, 7 + 1)
    BY <1>2, JoinStrings
  <2>2. QED
    BY <2>1
<1>4. IsString((Protocol \o <<flags>>) \o EncodeNumber(30), 10)
  <2>1. IsString((Protocol \o <<flags>>) \o EncodeNumber(30), 8 + 2)
    BY <1>2, <1>3, JoinStrings
  <2>2. QED
    BY <2>1
<1>5. IsString(body, 10 + n) /\ n \in Nat
  BY <1>1, <1>4, JoinStrings
<1>6. Holds(body, 1, body)
  BY <1>5, HoldsItself DEF IsString
<1>7. Holds(body, 1, (Protocol \o <<flags>>) \o EncodeNumber(30)) /\ Holds(body, 11, y)
  <2>1. 11 = 1 + 10
    OBVIOUS
  <2>2. HoldsBoth(body, 1, (Protocol \o <<flags>>) \o EncodeNumber(30), 10, 11, y, n)
    BY <1>1, <1>4, <1>6, <2>1, Zenon DEF HoldsBoth
  <2>3. QED
    BY <2>2, HoldsEach
<1>8. Holds(body, 1, Protocol \o <<flags>>)
  <2>1. 9 = 1 + 8
    OBVIOUS
  <2>2. HoldsBoth(body, 1, Protocol \o <<flags>>, 8, 9, EncodeNumber(30), 2)
    BY <1>2, <1>3, <1>7, <2>1, Zenon DEF HoldsBoth
  <2>3. QED
    BY <2>2, HoldsEach
<1>9. Holds(body, 1, Protocol) /\ Holds(body, 8, <<flags>>)
  <2>1. 8 = 1 + 7
    OBVIOUS
  <2>2. HoldsBoth(body, 1, Protocol, 7, 8, <<flags>>, 1)
    BY <1>2, <1>8, <2>1, Zenon DEF HoldsBoth
  <2>3. QED
    BY <2>2, HoldsEach
<1>10. SubSeq(body, 1, 7) = Protocol
  <2>1. 7 \in Int /\ 7 = (1 - 1) + Len(Protocol)
    BY <1>2 DEF IsString
  <2>2. QED
    BY <1>9, <2>1, HeldStretch
<1>11. body[8] = flags
  BY <1>9, HoldsByte
<1>12. QED
  BY <1>5, <1>7, <1>10, <1>11

\* A packet with these flags and optional fields.
FlagsSay(flags, v, u, p, r) ==
    /\ ((flags \div 4) % 2 = 1) = v /\ ((flags \div 128) % 2 = 1) = u
    /\ ((flags \div 64) % 2 = 1) = p /\ ((flags \div 32) % 2 = 1) = r
    /\ v \in BOOLEAN /\ u \in BOOLEAN /\ p \in BOOLEAN /\ r \in BOOLEAN

IsConnectParts(y, c, v, topic, message, u, userName, p, password) ==
    \E a, t, nt, m, nm, s, ns, w, nw :
        /\ IsPayload(y, FieldOf(c), a, t, nt, m, nm, s, ns, w, nw)
        /\ Fits(c) /\ a = 2 + Len(c)
        /\ IsOptional(t, nt, v, topic) /\ IsOptional(m, nm, v, message)
        /\ IsOptional(s, ns, u, userName) /\ IsOptional(w, nw, p, password)

ConnectReading(c, flags, v, topic, message, u, userName, p, password, r) ==
    [type |-> "CONNECT", clientIdentifier |-> c,
     will |-> IF v THEN Will(topic, message, r, (flags \div 8) % 4) ELSE NoWill,
     userName |-> IF u THEN userName ELSE <<>>,
     password |-> IF p THEN <<password>> ELSE <<>>]

LEMMA ConnectReadBack ==
    ASSUME NEW body, NEW flags, NEW y, NEW n, IsConnectBody(body, flags, y, n),
           NEW c, NEW v, NEW topic, NEW message, NEW u, NEW userName, NEW p, NEW password, NEW r,
           IsConnectParts(y, c, v, topic, message, u, userName, p, password),
           FlagsSay(flags, v, u, p, r)
    PROVE  ReadConnect(body) = ConnectReading(c, flags, v, topic, message, u, userName, p, password, r)
<1>1. /\ IsString(body, 10 + n) /\ n \in Nat
      /\ SubSeq(body, 1, 7) = Protocol /\ body[8] = flags /\ Holds(body, 11, y)
  BY ConnectBody
<1>2. PICK a, t, nt, m, nm, s, ns, w, nw :
         /\ IsPayload(y, FieldOf(c), a, t, nt, m, nm, s, ns, w, nw)
         /\ Fits(c) /\ a = 2 + Len(c)
         /\ IsOptional(t, nt, v, topic) /\ IsOptional(m, nm, v, message)
         /\ IsOptional(s, ns, u, userName) /\ IsOptional(w, nw, p, password)
  BY DEF IsConnectParts
<1>3. /\ a \in Nat /\ nt \in Nat /\ nm \in Nat /\ ns \in Nat /\ nw \in Nat
      /\ IsString(y, (((a + nt) + nm) + ns) + nw)
  BY <1>2, PayloadString
<1>4. /\ Holds(body, 11, FieldOf(c)) /\ Holds(body, 11 + a, t) /\ Holds(body, (11 + a) + nt, m)
      /\ Holds(body, ((11 + a) + nt) + nm, s) /\ Holds(body, (((11 + a) + nt) + nm) + ns, w)
  BY <1>1, <1>2, PayloadParts
<1>5. PICK willTopic : willTopic = 11 + a
  OBVIOUS
<1>6. PICK willMessage : willMessage = (11 + a) + nt
  OBVIOUS
<1>7. PICK name : name = ((11 + a) + nt) + nm
  OBVIOUS
<1>8. PICK secret : secret = (((11 + a) + nt) + nm) + ns
  OBVIOUS
<1>9. PICK end : end = ((((11 + a) + nt) + nm) + ns) + nw
  OBVIOUS
<1>10. Field(body, 11) = c /\ After(body, 11) = willTopic
  <2>1. Field(body, 11) = c /\ After(body, 11) = 11 + 2 + Len(c) /\ Len(c) \in Nat
    BY <1>2, <1>4, HoldsField
  <2>2. QED
    BY <1>2, <1>5, <2>1
<1>11. /\ v => Field(body, willTopic) = topic
       /\ (IF v THEN After(body, willTopic) ELSE willTopic) = willMessage
  <2>1. willMessage = willTopic + nt
    BY <1>5, <1>6, Zenon
  <2>2. QED
    BY <1>2, <1>4, <1>5, <2>1, OptionalRead
<1>12. /\ v => Field(body, willMessage) = message
       /\ (IF v THEN After(body, willMessage) ELSE willMessage) = name
  <2>1. name = willMessage + nm
    BY <1>6, <1>7, Zenon
  <2>2. QED
    BY <1>2, <1>4, <1>6, <2>1, OptionalRead
<1>13. /\ u => Field(body, name) = userName
       /\ (IF u THEN After(body, name) ELSE name) = secret
  <2>1. secret = name + ns
    BY <1>7, <1>8, Zenon
  <2>2. QED
    BY <1>2, <1>4, <1>7, <2>1, OptionalRead
<1>14. /\ p => Field(body, secret) = password
       /\ (IF p THEN After(body, secret) ELSE secret) = end
  <2>1. end = secret + nw
    BY <1>8, <1>9, Zenon
  <2>2. QED
    BY <1>2, <1>4, <1>8, <2>1, OptionalRead
<1>15. end = Len(body) + 1
  <2>1. Len(body) = 10 + n /\ n = (((a + nt) + nm) + ns) + nw
    BY <1>1, <1>3, ConnectBody DEF IsString, IsConnectBody
  <2>2. QED
    BY <1>3, <1>9, <2>1
<1>16. FlagsSay(body[8], v, u, p, r)
  BY <1>1
<1>17. /\ ((body[8] \div 4) % 2 = 1) = v /\ ((body[8] \div 128) % 2 = 1) = u
       /\ ((body[8] \div 64) % 2 = 1) = p /\ ((body[8] \div 32) % 2 = 1) = r
  BY <1>16 DEF FlagsSay
<1>18. SubSeq(body, 1, 7) = <<0, 4, 77, 81, 84, 84, 4>>
  BY <1>1 DEF Protocol
<1>19. ReadConnect(body) =
          [type |-> "CONNECT", clientIdentifier |-> Field(body, 11),
           will |-> IF v THEN Will(Field(body, willTopic), Field(body, willMessage), r,
                                   (body[8] \div 8) % 4)
                    ELSE NoWill,
           userName |-> IF u THEN Field(body, name) ELSE <<>>,
           password |-> IF p THEN <<Field(body, secret)>> ELSE <<>>]
  <2> DEFINE flag(k) == (body[8] \div k) % 2 = 1
             Skip(k, i) == IF flag(k) THEN After(body, i) ELSE i
  <2>1. /\ Skip(4, willTopic) = willMessage /\ Skip(4, willMessage) = name
        /\ Skip(128, name) = secret /\ Skip(64, secret) = end
    BY <1>11, <1>12, <1>13, <1>14, <1>17
  <2>2. /\ flag(4) <=> v
        /\ flag(128) <=> u
        /\ flag(64) <=> p
        /\ flag(32) = r
    BY <1>17
  <2>3. ReadConnect(body) =
          LET wt == After(body, 11)
              wm == Skip(4, wt)
              un == Skip(4, wm)
              pw == Skip(128, un)
          IN IF SubSeq(body, 1, 7) = <<0, 4, 77, 81, 84, 84, 4>> /\ Skip(64, pw) = Len(body) + 1
             THEN [type |-> "CONNECT", clientIdentifier |-> Field(body, 11),
                   will |-> IF flag(4)
                            THEN Will(Field(body, wt), Field(body, wm), flag(32), (body[8] \div 8) % 4)
                            ELSE NoWill,
                   userName |-> IF flag(128) THEN Field(body, un) ELSE <<>>,
                   password |-> IF flag(64) THEN <<Field(body, pw)>> ELSE <<>>]
             ELSE Malformed
    BY Zenon DEF ReadConnect
  <2> HIDE DEF flag, Skip
  <2>4. ReadConnect(body) =
          IF SubSeq(body, 1, 7) = <<0, 4, 77, 81, 84, 84, 4>> /\ end = Len(body) + 1
          THEN [type |-> "CONNECT", clientIdentifier |-> Field(body, 11),
                will |-> IF flag(4)
                         THEN Will(Field(body, willTopic), Field(body, willMessage), flag(32),
                                   (body[8] \div 8) % 4)
                         ELSE NoWill,
                userName |-> IF flag(128) THEN Field(body, name) ELSE <<>>,
                password |-> IF flag(64) THEN <<Field(body, secret)>> ELSE <<>>]
          ELSE Malformed
    BY <1>10, <2>1, <2>3, ZenonT(60)
  <2>5. ReadConnect(body) =
          [type |-> "CONNECT", clientIdentifier |-> Field(body, 11),
           will |-> IF flag(4)
                    THEN Will(Field(body, willTopic), Field(body, willMessage), flag(32),
                              (body[8] \div 8) % 4)
                    ELSE NoWill,
           userName |-> IF flag(128) THEN Field(body, name) ELSE <<>>,
           password |-> IF flag(64) THEN <<Field(body, secret)>> ELSE <<>>]
    BY <1>15, <1>18, <2>4, Zenon
  <2>6. QED
    BY <2>2, <2>5, Zenon
<1>20. QED
  BY <1>1, <1>10, <1>11, <1>12, <1>13, <1>14, <1>19, Zenon DEF ConnectReading

IsWill(w) ==
    \/ w = NoWill
    \/ \E t, m, r, q : /\ Short(t) /\ Fits(m) /\ r \in BOOLEAN /\ q \in 0 .. 2
                       /\ w = Will(t, m, r, q)
IsPassword(w) == w = <<>> \/ \E x : Short(x) /\ w = <<x>>
IsConnection(c, w, u, p) == Short(c) /\ IsWill(w) /\ Short(u) /\ IsPassword(p)
IsConnect(p) ==
    \E c, w, u, x :
        /\ IsConnection(c, w, u, x)
        /\ p = [type |-> "CONNECT", clientIdentifier |-> c, will |-> w, userName |-> u, password |-> x]

\* The fields of a will, whether it is valid or not.
LEMMA WillFields ==
    ASSUME NEW w, IsWill(w)
    PROVE  /\ w.valid \in BOOLEAN /\ w.retain \in BOOLEAN /\ w.qos \in 0 .. 2
           /\ Short(w.topic) /\ Fits(w.message)
           /\ ~ w.valid => w = NoWill
           /\ w.valid => w = Will(w.topic, w.message, w.retain, w.qos)
<1>1. CASE w = NoWill
  <2>1. w.valid = FALSE /\ w.retain = FALSE /\ w.qos = 0 /\ w.topic = <<>> /\ w.message = <<>>
    BY <1>1 DEF NoWill
  <2>2. <<>> \in Seq(Byte) /\ Len(<<>>) = 0 /\ 0 < 65535
    BY EmptySeq
  <2>3. Short(<<>>) /\ Fits(<<>>)
    <3>1. Short(<<>>)
      BY <2>2 DEF Short
    <3>2. QED
      BY <3>1, ShortFits
  <2>4. Short(w.topic) /\ Fits(w.message)
    BY <2>1, <2>3, Zenon
  <2>5. w.valid \in BOOLEAN /\ w.retain \in BOOLEAN /\ ~ w.valid
    BY <2>1, Zenon
  <2>6. w.qos \in 0 .. 2
    <3>1. w.qos = 0
      BY <2>1
    <3>2. QED
      BY <3>1
  <2>7. QED
    BY <1>1, <2>4, <2>5, <2>6
<1>2. ASSUME NEW t, NEW m, NEW r, NEW q, Short(t), Fits(m), r \in BOOLEAN, q \in 0 .. 2,
             w = Will(t, m, r, q)
      PROVE  /\ w.valid \in BOOLEAN /\ w.retain \in BOOLEAN /\ w.qos \in 0 .. 2
             /\ Short(w.topic) /\ Fits(w.message)
             /\ ~ w.valid => w = NoWill
             /\ w.valid => w = Will(w.topic, w.message, w.retain, w.qos)
  <2>1. w.valid = TRUE /\ w.retain = r /\ w.qos = q /\ w.topic = t /\ w.message = m
    BY <1>2 DEF Will
  <2>2. QED
    BY <1>2, <2>1
<1>3. QED
  BY <1>1, <1>2 DEF IsWill

LEMMA MessageField ==
    ASSUME NEW m, Fits(m)
    PROVE  EncodeMessage(m) = FieldOf(m)
<1>1. PICK n \in Uint16 : n = Len(m)
  BY DEF Fits
<1>2. n \in Nat /\ n <= 65535
  BY Uint16Members
<1>3. Len(m) % 65536 = Len(m)
  BY <1>1, <1>2
<1>4. QED
  BY <1>3, SMT DEF EncodeMessage, FieldOf

LEMMA OptionalSize ==
    ASSUME NEW s, NEW n, NEW present, NEW d, IsOptional(s, n, present, d)
    PROVE  n \in Nat /\ n <= 65537
<1>1. CASE present
  <2>1. Len(d) \in Uint16 /\ n = 2 + Len(d)
    BY <1>1 DEF IsOptional, Fits
  <2>2. PICK l \in Nat : l = Len(d) /\ l <= 65535
    BY <2>1, Uint16Members
  <2>3. QED
    BY <2>1, <2>2
<1>2. CASE ~ present
  BY <1>2 DEF IsOptional
<1>3. QED
  BY <1>1, <1>2

LEMMA Bits == \A b \in BOOLEAN : Bit(b) \in 0 .. 1 /\ (Bit(b) = 1) = b
BY DEF Bit

\* The fields the flags of p are made of.
HasFields(p, v, u, x, r, q) ==
    /\ v \in BOOLEAN /\ u \in BOOLEAN /\ x \in BOOLEAN /\ r \in BOOLEAN /\ q \in 0 .. 2
    /\ p.will.valid = v /\ p.will.retain = r /\ p.will.qos = q
    /\ HasUserName(p) = u /\ HasPassword(p) = x

LEMMA ConnectFlagsSay ==
    ASSUME NEW p, NEW v, NEW u, NEW x, NEW r, NEW q, HasFields(p, v, u, x, r, q)
    PROVE  ConnectFlags(p) \in Byte /\ FlagsSay(ConnectFlags(p), v, u, x, r)
<1>0. /\ v \in BOOLEAN /\ u \in BOOLEAN /\ x \in BOOLEAN /\ r \in BOOLEAN /\ q \in 0 .. 2
      /\ p.will.valid = v /\ p.will.retain = r /\ p.will.qos = q
      /\ HasUserName(p) = u /\ HasPassword(p) = x
  BY Zenon DEF HasFields
<1>1. PICK bu \in 0 .. 1 : bu = Bit(u)
  BY <1>0, Bits
<1>2. PICK bx \in 0 .. 1 : bx = Bit(x)
  BY <1>0, Bits
<1>3. PICK br \in 0 .. 1 : br = Bit(r)
  BY <1>0, Bits
<1>4. PICK bv \in 0 .. 1 : bv = Bit(v)
  BY <1>0, Bits
<1>5. PICK z : z = 128 * bu + 64 * bx + 32 * br + 8 * q + 4 * bv + 2
  OBVIOUS
<1>6. PICK f : f = z - 8 * ((z \div 8) % 2)
  OBVIOUS
<1>7. /\ f \in Nat /\ f <= 255
      /\ (f \div 4) % 2 = bv /\ (f \div 32) % 2 = br /\ (f \div 64) % 2 = bx /\ (f \div 128) % 2 = bu
  <2>1. AreFlags(f, z, bu, bx, br, bv, q)
    BY <1>0, <1>5, <1>6, Zenon DEF AreFlags
  <2>2. QED
    BY <2>1, FlagBits
<1>8. ConnectFlagFields(p) = z
  <2>1. /\ Bit(HasUserName(p)) = bu /\ Bit(HasPassword(p)) = bx /\ Bit(p.will.retain) = br
        /\ Bit(p.will.valid) = bv /\ p.will.qos = q
    BY <1>0, <1>1, <1>2, <1>3, <1>4, Zenon
  <2>2. QED
    BY <1>5, <2>1, Zenon DEF ConnectFlagFields
<1>9. ConnectFlags(p) = f
  BY <1>6, <1>8, Zenon DEF ConnectFlags
<1>10. f \in Byte
  BY <1>7 DEF Byte
<1>11. FlagsSay(f, v, u, x, r)
  <2>1. ((f \div 4) % 2 = 1) = v
    BY <1>0, <1>4, <1>7, Bits, Zenon
  <2>2. ((f \div 128) % 2 = 1) = u
    BY <1>0, <1>1, <1>7, Bits, Zenon
  <2>3. ((f \div 64) % 2 = 1) = x
    BY <1>0, <1>2, <1>7, Bits, Zenon
  <2>4. ((f \div 32) % 2 = 1) = r
    BY <1>0, <1>3, <1>7, Bits, Zenon
  <2>5. QED
    BY <1>0, <2>1, <2>2, <2>3, <2>4, Zenon DEF FlagsSay
<1>12. QED
  BY <1>9, <1>10, <1>11, Zenon

LEMMA WillWritten ==
    ASSUME NEW w, IsWill(w), NEW t, NEW m,
           t = (IF w.valid THEN FieldOf(w.topic) ELSE <<>>),
           m = (IF w.valid THEN FieldOf(w.message) ELSE <<>>)
    PROVE  EncodeWill(w) = t \o m
<1>1. Short(w.topic) /\ Fits(w.message)
  BY WillFields
<1>2. CASE w.valid
  <2>1. t = FieldOf(w.topic) /\ m = FieldOf(w.message)
    BY <1>2
  <2>2. EncodeData(w.topic) = FieldOf(w.topic) /\ EncodeMessage(w.message) = FieldOf(w.message)
    BY <1>1, ShortFits, MessageField
  <2>3. QED
    BY <1>2, <2>1, <2>2, Zenon DEF EncodeWill
<1>3. CASE ~ w.valid
  <2>1. t = <<>> /\ m = <<>>
    BY <1>3
  <2>2. <<>> \in Seq(Byte)
    BY EmptySeq
  <2>3. <<>> \o <<>> = <<>>
    BY <2>2, ConcatEmptySeq
  <2>4. EncodeWill(w) = <<>>
    BY <1>3, Zenon DEF EncodeWill
  <2>5. QED
    BY <2>1, <2>3, <2>4
<1>4. QED
  BY <1>2, <1>3

\* f is the CONNECT with these fields, of which the payload y has n bytes.
IsConnectPacket(f, body, flags, y, n, c, w, u, x) ==
    /\ IsPacket(f, "CONNECT", 0, body) /\ IsConnectBody(body, flags, y, n)
    /\ IsConnectParts(y, c, w.valid, w.topic, w.message, u # <<>>, u, x # <<>>, x[1])
    /\ FlagsSay(flags, w.valid, u # <<>>, x # <<>>, w.retain)

LEMMA ConnectPacketWritten ==
    ASSUME NEW c, NEW w, NEW u, NEW x, IsConnection(c, w, u, x), NEW p,
           p = [type |-> "CONNECT", clientIdentifier |-> c, will |-> w, userName |-> u, password |-> x]
    PROVE  \E body, flags, y, n : IsConnectPacket(Encode(p), body, flags, y, n, c, w, u, x)
<1>1. Short(c) /\ IsWill(w) /\ Short(u) /\ IsPassword(x)
  BY DEF IsConnection
<1>2. p.type = "CONNECT" /\ p.clientIdentifier = c /\ p.will = w /\ p.userName = u /\ p.password = x
  OBVIOUS
<1>3. /\ w.valid \in BOOLEAN /\ w.retain \in BOOLEAN /\ w.qos \in 0 .. 2
      /\ Short(w.topic) /\ Fits(w.message)
  BY <1>1, WillFields
<1>4. PICK v \in BOOLEAN : v = w.valid
  BY <1>3
<1>5. PICK hu \in BOOLEAN : hu = (u # <<>>)
  OBVIOUS
<1>6. PICK hx \in BOOLEAN : hx = (x # <<>>)
  OBVIOUS
<1>7. PICK flags : flags = ConnectFlags(p)
  OBVIOUS
<1>8. flags \in Byte /\ FlagsSay(flags, v, hu, hx, w.retain)
  <2>1. HasFields(p, v, hu, hx, w.retain, w.qos)
    BY <1>2, <1>3, <1>4, <1>5, <1>6, Zenon DEF HasFields, HasUserName, HasPassword
  <2>2. QED
    BY <1>7, <2>1, ConnectFlagsSay
<1>9. PICK t : t = IF v THEN FieldOf(w.topic) ELSE <<>>
  OBVIOUS
<1>10. PICK m : m = IF v THEN FieldOf(w.message) ELSE <<>>
  OBVIOUS
<1>11. PICK s : s = IF hu THEN FieldOf(u) ELSE <<>>
  OBVIOUS
<1>12. PICK z : z = IF hx THEN FieldOf(x[1]) ELSE <<>>
  OBVIOUS
<1>13. PICK nt : IsOptional(t, nt, v, w.topic)
  BY <1>3, <1>9, ShortFits DEF IsOptional
<1>14. PICK nm : IsOptional(m, nm, v, w.message)
  BY <1>3, <1>10 DEF IsOptional
<1>15. PICK ns : IsOptional(s, ns, hu, u)
  BY <1>1, <1>11, ShortFits DEF IsOptional
<1>15a. hx => Short(x[1])
  <2>1. CASE x = <<>>
    BY <1>6, <2>1
  <2>2. ASSUME NEW e, Short(e), x = <<e>>
        PROVE  Short(x[1])
    <3>1. x[1] = e
      BY <2>2
    <3>2. QED
      BY <2>2, <3>1, Zenon
  <2>3. QED
    BY <1>1, <2>1, <2>2, Zenon DEF IsPassword
<1>16. PICK nz : IsOptional(z, nz, hx, x[1])
  BY <1>12, <1>15a, ShortFits DEF IsOptional
<1>17. PICK a : a = 2 + Len(c)
  OBVIOUS
<1>18. Fits(c) /\ EncodeData(c) = FieldOf(c) /\ IsString(FieldOf(c), a)
  BY <1>1, <1>17, ShortFits, StringField
<1>19. PICK y : y = ((FieldOf(c) \o (t \o m)) \o s) \o z
  OBVIOUS
<1>20. IsPayload(y, FieldOf(c), a, t, nt, m, nm, s, ns, z, nz)
  <2>1. IsString(t, nt) /\ IsString(m, nm) /\ IsString(s, ns) /\ IsString(z, nz)
    BY <1>13, <1>14, <1>15, <1>16, OptionalString
  <2>2. QED
    BY <1>18, <1>19, <2>1, Zenon DEF IsPayload
<1>21. ConnectPayload(p) = y
  <2>1. EncodeWill(p.will) = t \o m
    BY <1>1, <1>2, <1>4, <1>9, <1>10, WillWritten
  <2>2. (IF HasUserName(p) THEN EncodeData(p.userName) ELSE <<>>) = s
    BY <1>1, <1>2, <1>5, <1>11, ShortFits DEF HasUserName
  <2>3. (IF HasPassword(p) THEN EncodeData(p.password[1]) ELSE <<>>) = z
    BY <1>2, <1>6, <1>12, <1>15a, ShortFits DEF HasPassword
  <2>4. EncodeData(p.clientIdentifier) = FieldOf(c)
    BY <1>2, <1>18
  <2>5. QED
    BY <1>19, <2>1, <2>2, <2>3, <2>4, Zenon DEF ConnectPayload
<1>22. PICK body : body = ((Protocol \o <<flags>>) \o EncodeNumber(30)) \o y
  OBVIOUS
<1>23. Encode(p) = Packet("CONNECT", 0, body)
  <2>1. Encode(p) = EncodeConnect(p)
    BY <1>2 DEF Encode
  <2>2. ConnectHeader(p) = (Protocol \o <<flags>>) \o EncodeNumber(30)
    BY <1>7, ProtocolString, Zenon DEF ConnectHeader
  <2>3. QED
    BY <1>21, <1>22, <2>1, <2>2, Zenon DEF EncodeConnect
<1>24. PICK n : n = (((a + nt) + nm) + ns) + nz
  OBVIOUS
<1>25. IsConnectBody(body, flags, y, n)
  <2>1. IsString(y, n)
    BY <1>20, <1>24, PayloadString
  <2>2. QED
    BY <1>8, <1>22, <2>1 DEF IsConnectBody
<1>26. Small(body)
  <2>2. /\ a \in Nat /\ nt \in Nat /\ nm \in Nat /\ ns \in Nat /\ nz \in Nat
        /\ a <= 65537 /\ nt <= 65537 /\ nm <= 65537 /\ ns <= 65537 /\ nz <= 65537
    <3>1. a \in Nat /\ a <= 65537
      <4>1. PICK l \in Nat : l = Len(c) /\ l < 65535
        BY <1>1, <1>18, FieldProperties DEF Short
      <4>2. QED
        BY <1>17, <4>1
    <3>2. nt \in Nat /\ nt <= 65537
      BY <1>13, OptionalSize
    <3>3. nm \in Nat /\ nm <= 65537
      BY <1>14, OptionalSize
    <3>4. ns \in Nat /\ ns <= 65537
      BY <1>15, OptionalSize
    <3>5. nz \in Nat /\ nz <= 65537
      BY <1>16, OptionalSize
    <3>6. QED
      BY <3>1, <3>2, <3>3, <3>4, <3>5
  <2>3. 10 + n <= 128 * (128 * 128)
    BY <1>24, <2>2
  <2>4. IsString(body, 10 + n)
    BY <1>25, ConnectBody
  <2>5. QED
    BY <2>3, <2>4 DEF Small, IsString
<1>27. IsPacket(Encode(p), "CONNECT", 0, body)
  <2>1. "CONNECT" \in DOMAIN PacketType /\ 0 \in 0 .. 15
    BY DEF PacketType
  <2>2. body \in Seq(Byte) /\ Len(body) <= MAXIMUM_CONTROL_PACKET_SIZE
    BY <1>26, SmallBody
  <2>3. QED
    BY <1>23, <2>1, <2>2, PacketIsPacket
<1>28. IsConnectParts(y, c, w.valid, w.topic, w.message, u # <<>>, u, x # <<>>, x[1])
  <2>1. IsConnectParts(y, c, v, w.topic, w.message, hu, u, hx, x[1])
    BY <1>13, <1>14, <1>15, <1>16, <1>17, <1>18, <1>20, Zenon DEF IsConnectParts
  <2>2. QED
    BY <1>4, <1>5, <1>6, <2>1, Zenon
<1>29. FlagsSay(flags, w.valid, u # <<>>, x # <<>>, w.retain)
  BY <1>4, <1>5, <1>6, <1>8, Zenon
<1>30. IsConnectPacket(Encode(p), body, flags, y, n, c, w, u, x)
  BY <1>25, <1>27, <1>28, <1>29, Zenon DEF IsConnectPacket
<1>31. QED
  BY <1>30

\* A CONNECT with these fields.
Connection(c, w, u, x) ==
    [type |-> "CONNECT", clientIdentifier |-> c, will |-> w, userName |-> u, password |-> x]

LEMMA OtherQoS ==
    ASSUME NEW c, NEW u, NEW x, NEW t, NEW m, NEW r, NEW a, NEW b
    PROVE  SameButWillQoS(Connection(c, Will(t, m, r, a), u, x), Connection(c, Will(t, m, r, b), u, x))
<1>1. PICK p : p = Connection(c, Will(t, m, r, a), u, x)
  OBVIOUS
<1>2. PICK q : q = Connection(c, Will(t, m, r, b), u, x)
  OBVIOUS
<1>3. p.type = "CONNECT" /\ q.type = "CONNECT"
  BY <1>1, <1>2 DEF Connection
<1>4. [p EXCEPT !.will.qos = 0] = Connection(c, Will(t, m, r, 0), u, x)
  <2>1. /\ p.type = "CONNECT" /\ p.clientIdentifier = c /\ p.userName = u /\ p.password = x
        /\ p.will = Will(t, m, r, a)
        /\ DOMAIN p = {"type", "clientIdentifier", "will", "userName", "password"}
    BY <1>1 DEF Connection
  <2>2. PICK w : w = Will(t, m, r, 0)
    OBVIOUS
  <2>3. [p.will EXCEPT !.qos = 0] = w
    <3>1. [Will(t, m, r, a) EXCEPT !.qos = 0] = Will(t, m, r, 0)
      <4>1. PICK yes : yes = TRUE
        OBVIOUS
      <4>2. /\ Will(t, m, r, a) = [valid |-> yes, topic |-> t, message |-> m, retain |-> r, qos |-> a]
            /\ Will(t, m, r, 0) = [valid |-> yes, topic |-> t, message |-> m, retain |-> r, qos |-> 0]
        BY <4>1, Zenon DEF Will
      <4>3. QED
        BY <4>2
    <3>2. QED
      BY <2>1, <2>2, <3>1, Zenon
  <2>4. [p EXCEPT !.will.qos = 0] = [p EXCEPT !.will = w]
    BY <2>1, <2>3
  <2>5. [p EXCEPT !.will = w] = Connection(c, w, u, x)
    BY <1>1 DEF Connection
  <2>6. QED
    BY <2>2, <2>4, <2>5, Zenon
<1>5. [q EXCEPT !.will.qos = 0] = Connection(c, Will(t, m, r, 0), u, x)
  <2>1. /\ q.type = "CONNECT" /\ q.clientIdentifier = c /\ q.userName = u /\ q.password = x
        /\ q.will = Will(t, m, r, b)
        /\ DOMAIN q = {"type", "clientIdentifier", "will", "userName", "password"}
    BY <1>2 DEF Connection
  <2>2. PICK w : w = Will(t, m, r, 0)
    OBVIOUS
  <2>3. [q.will EXCEPT !.qos = 0] = w
    <3>1. [Will(t, m, r, b) EXCEPT !.qos = 0] = Will(t, m, r, 0)
      <4>1. PICK yes : yes = TRUE
        OBVIOUS
      <4>2. /\ Will(t, m, r, b) = [valid |-> yes, topic |-> t, message |-> m, retain |-> r, qos |-> b]
            /\ Will(t, m, r, 0) = [valid |-> yes, topic |-> t, message |-> m, retain |-> r, qos |-> 0]
        BY <4>1, Zenon DEF Will
      <4>3. QED
        BY <4>2
    <3>2. QED
      BY <2>1, <2>2, <3>1, Zenon
  <2>4. [q EXCEPT !.will.qos = 0] = [q EXCEPT !.will = w]
    BY <2>1, <2>3
  <2>5. [q EXCEPT !.will = w] = Connection(c, w, u, x)
    BY <1>2 DEF Connection
  <2>6. QED
    BY <2>2, <2>4, <2>5, Zenon
<1>6. SameButWillQoS(p, q)
  BY <1>3, <1>4, <1>5, Zenon DEF SameButWillQoS
<1>7. QED
  BY <1>1, <1>2, <1>6, Zenon

LEMMA ConnectRead ==
    ASSUME NEW p, IsConnect(p)
    PROVE  /\ Encode(p) \in Seq(Byte) /\ BrokerReads(Encode(p)).type = "CONNECT"
           /\ SameButWillQoS(BrokerReads(Encode(p)), p)
<1>1. PICK c, w, u, x : IsConnection(c, w, u, x) /\ p = Connection(c, w, u, x)
  BY Zenon DEF IsConnect, Connection
<1>2. PICK body, flags, y, n : IsConnectPacket(Encode(p), body, flags, y, n, c, w, u, x)
  BY <1>1, ConnectPacketWritten DEF Connection
<1>3. /\ IsPacket(Encode(p), "CONNECT", 0, body) /\ IsConnectBody(body, flags, y, n)
      /\ IsConnectParts(y, c, w.valid, w.topic, w.message, u # <<>>, u, x # <<>>, x[1])
      /\ FlagsSay(flags, w.valid, u # <<>>, x # <<>>, w.retain)
  BY <1>2, Zenon DEF IsConnectPacket
<1>4. PICK r : r = BrokerReads(Encode(p))
  OBVIOUS
<1>5. r = ReadConnect(body)
  <2>1. BrokerReads(Encode(p)) = Reading("CONNECT", 0, body)
    BY <1>3, ReadingOf DEF Reserved
  <2>2. QED
    BY <1>4, <2>1 DEF Reading
<1>6. r = ConnectReading(c, flags, w.valid, w.topic, w.message, u # <<>>, u, x # <<>>, x[1], w.retain)
  <2>1. PICK hu \in BOOLEAN : hu = (u # <<>>)
    OBVIOUS
  <2>2. PICK hx \in BOOLEAN : hx = (x # <<>>)
    OBVIOUS
  <2>3. /\ IsConnectParts(y, c, w.valid, w.topic, w.message, hu, u, hx, x[1])
        /\ FlagsSay(flags, w.valid, hu, hx, w.retain)
    BY <1>3, <2>1, <2>2, Zenon
  <2>4. r = ConnectReading(c, flags, w.valid, w.topic, w.message, hu, u, hx, x[1], w.retain)
    BY <1>3, <1>5, <2>3, ConnectReadBack
  <2>5. QED
    BY <2>1, <2>2, <2>4, Zenon
<1>7. (IF u # <<>> THEN u ELSE <<>>) = u
  OBVIOUS
<1>8. (IF x # <<>> THEN <<x[1]>> ELSE <<>>) = x
  <2>1. CASE x = <<>>
    BY <2>1
  <2>2. ASSUME NEW e, x = <<e>> PROVE (IF x # <<>> THEN <<x[1]>> ELSE <<>>) = x
    BY <2>2
  <2>3. x = <<>> \/ \E e : x = <<e>>
    BY <1>1, Zenon DEF IsConnection, IsPassword
  <2>4. QED
    BY <2>1, <2>2, <2>3, Zenon
<1>9. PICK q : q = (flags \div 8) % 4
  OBVIOUS
<1>10. PICK v : v = IF w.valid THEN Will(w.topic, w.message, w.retain, q) ELSE NoWill
  OBVIOUS
<1>11. r = Connection(c, v, u, x)
  BY <1>6, <1>7, <1>8, <1>9, <1>10, Zenon DEF ConnectReading, Connection
<1>12. SameButWillQoS(r, p)
  <2>1. /\ ~ w.valid => w = NoWill
        /\ w.valid => w = Will(w.topic, w.message, w.retain, w.qos)
    BY <1>1, WillFields DEF IsConnection
  <2>2. CASE w.valid
    <3>1. v = Will(w.topic, w.message, w.retain, q) /\ w = Will(w.topic, w.message, w.retain, w.qos)
      BY <1>10, <2>1, <2>2
    <3>2. PICK t, m, f, b : w = Will(t, m, f, b) /\ v = Will(t, m, f, q)
      BY <3>1, Zenon
    <3>3. SameButWillQoS(Connection(c, Will(t, m, f, q), u, x), Connection(c, Will(t, m, f, b), u, x))
      BY OtherQoS
    <3>4. QED
      BY <1>1, <1>11, <3>2, <3>3, Zenon
  <2>3. CASE ~ w.valid
    <3>1. r = p
      BY <1>1, <1>10, <1>11, <2>1, <2>3, Zenon
    <3>2. QED
      BY <3>1, Zenon DEF SameButWillQoS
  <2>4. QED
    BY <2>2, <2>3
<1>13. r.type = "CONNECT"
  BY <1>11 DEF Connection
<1>14. Encode(p) \in Seq(Byte)
  BY <1>3, PacketRead
<1>15. QED
  BY <1>4, <1>12, <1>13, <1>14, Zenon

-----------------------------------------------------------------------------
(* Every packet the client means to write *)

IsRequest(p) ==
    \/ IsConnect(p) \/ IsPublish(p) \/ IsSubscribe(p) \/ IsUnsubscribe(p)
    \/ IsAcknowledgement(p) \/ IsBare(p)

LEMMA SameIsSame == \A p : SameButWillQoS(p, p)
BY Zenon DEF SameButWillQoS

LEMMA RequestRead ==
    ASSUME NEW p, IsRequest(p)
    PROVE  Encode(p) \in Seq(Byte) /\ SameButWillQoS(BrokerReads(Encode(p)), p)
<1>1. CASE IsConnect(p)
  BY <1>1, ConnectRead
<1>2. CASE IsPublish(p)
  BY <1>2, PublishRead, SameIsSame
<1>3. CASE IsSubscribe(p)
  BY <1>3, SubscribeRead, PacketRead, SameIsSame
<1>4. CASE IsUnsubscribe(p)
  BY <1>4, UnsubscribeRead, PacketRead, SameIsSame
<1>5. CASE IsAcknowledgement(p)
  BY <1>5, AcknowledgementRead, PacketRead, SameIsSame
<1>6. CASE IsBare(p)
  BY <1>6, BareRead, PacketRead, SameIsSame
<1>7. QED
  BY <1>1, <1>2, <1>3, <1>4, <1>5, <1>6 DEF IsRequest

-----------------------------------------------------------------------------
(* Every packet that is transmitted is one of these *)

AnyWill(v, t, m, r, q) == [valid |-> v, topic |-> t, message |-> m, retain |-> r, qos |-> q]

IsRecordOfWill(w) == \E v, t, m, r, q : w = AnyWill(v, t, m, r, q)

LEMMA WillIsAny == \A w : IsWill(w) => \E v, t, m, r, q : w = AnyWill(v, t, m, r, q)
BY Zenon DEF IsWill, NoWill, Will, AnyWill

LEMMA FormerWillIsAny == \A w \in FormerWills \cup {NoWill} : IsRecordOfWill(w)
<1>1. ASSUME NEW w \in FormerWills PROVE IsRecordOfWill(w)
  <2>1. w \in [valid : BOOLEAN, topic : Seq(Byte), message : Seq(Byte), retain : BOOLEAN, qos : 0 .. 2]
    BY FormerWillsAssumption
  <2>2. w = AnyWill(w.valid, w.topic, w.message, w.retain, w.qos)
    BY <2>1 DEF AnyWill
  <2>3. QED
    BY <2>2, Zenon DEF IsRecordOfWill
<1>2. IsRecordOfWill(NoWill)
  BY WillIsAny, Zenon DEF IsWill, IsRecordOfWill
<1>3. QED
  BY <1>1, <1>2

LEMMA Assigned ==
    ASSUME NEW v, NEW t, NEW m, NEW r, NEW q, NEW a, NEW b, NEW c, NEW d, NEW e
    PROVE  Assign(AnyWill(v, t, m, r, q), AnyWill(a, b, c, d, e)) = AnyWill(a, b, c, d, e)
BY DEF Assign, AnyWill

\* Nothing of the former will is left.
LEMMA AssignedWill ==
    ASSUME NEW f, NEW w, IsRecordOfWill(f), IsWill(w)
    PROVE  Assign(f, w) = w
<1>1. PICK v, t, m, r, q : f = AnyWill(v, t, m, r, q)
  BY DEF IsRecordOfWill
<1>2. PICK a, b, c, d, e : w = AnyWill(a, b, c, d, e)
  BY WillIsAny
<1>3. Assign(AnyWill(v, t, m, r, q), AnyWill(a, b, c, d, e)) = AnyWill(a, b, c, d, e)
  BY Assigned
<1>4. QED
  BY <1>1, <1>2, <1>3, Zenon

\* The copy of a valid will is that will.
LEMMA HandedWill ==
    ASSUME NEW w, IsWill(w), NEW h \in HandedOver(w)
    PROVE  h = w
<1>1. w.valid => w = Will(w.topic, w.message, w.retain, w.qos)
  BY WillFields
<1>2. h = w \/ (w.valid /\ h = CopyOf(w))
  BY DEF HandedOver
<1>3. QED
  BY <1>1, <1>2, Zenon DEF CopyOf

LEMMA WillsAreWills ==
    ASSUME NEW w \in Wills \cup LongWills
    PROVE  IsWill(w)
<1>1. CASE w \in Wills
  <2>1. w = NoWill \/ \E t \in TopicNames, m \in Messages, r \in BOOLEAN, q \in 0 .. 2 : w = Will(t, m, r, q)
    BY <1>1 DEF Wills
  <2>2. \A t \in TopicNames : Short(t)
    BY TextsAreShort DEF TopicNames
  <2>3. \A m \in Messages : Fits(m)
    BY MessagesFit
  <2>4. QED
    BY <2>1, <2>2, <2>3, Zenon DEF IsWill
<1>2. CASE w \in LongWills
  <2>1. PICK n \in FieldSizes : w = Will(Long(n), Long(n + 1), FALSE, 0)
    BY <1>2 DEF LongWills
  <2>2. Short(Long(n)) /\ Fits(Long(n + 1))
    BY LongFields
  <2>3. FALSE \in BOOLEAN /\ 0 \in 0 .. 2
    OBVIOUS
  <2>4. QED
    BY <2>1, <2>2, <2>3, Zenon DEF IsWill
<1>3. QED
  BY <1>1, <1>2

-----------------------------------------------------------------------------
(* What becomes of the credentials *)

LEMMA AnnouncedConnection ==
    ASSUME NEW c, NEW w, NEW u, NEW x, NEW p, p = Connection(c, w, u, x)
    PROVE  Announced(p) = Connection(c, w, IF u # <<>> /\ x # <<>> THEN u ELSE <<>>,
                                           IF u # <<>> /\ x # <<>> THEN x ELSE <<>>)
<1>1. p.type = "CONNECT" /\ p.userName = u /\ p.password = x
  BY DEF Connection
<1>2. PICK e : e = <<>>
  OBVIOUS
<1>3. [p EXCEPT !.userName = e, !.password = e] = Connection(c, w, e, e)
  <2>1. PICK q : q = [p EXCEPT !.userName = e]
    OBVIOUS
  <2>2. q = Connection(c, w, e, x)
    BY <2>1 DEF Connection
  <2>3. [q EXCEPT !.password = e] = Connection(c, w, e, e)
    BY <2>2 DEF Connection
  <2>4. QED
    BY <2>1, <2>3, Zenon
<1>4. CASE u # <<>> /\ x # <<>>
  <2>1. Announced(p) = p
    BY <1>1, <1>4, Zenon DEF Announced
  <2>2. QED
    BY <1>4, <2>1, Zenon
<1>5. CASE ~ (u # <<>> /\ x # <<>>)
  <2>1. Announced(p) = [p EXCEPT !.userName = <<>>, !.password = <<>>]
    BY <1>1, <1>5, Zenon DEF Announced
  <2>2. Announced(p) = Connection(c, w, e, e)
    BY <1>2, <1>3, <2>1, Zenon
  <2>3. QED
    BY <1>2, <1>5, <2>2, Zenon
<1>6. QED
  BY <1>4, <1>5

LEMMA EmptyIsShort == Short(<<>>)
<1>1. <<>> \in Seq(Byte) /\ Len(<<>>) = 0 /\ 0 < 65535
  BY EmptySeq
<1>2. QED
  BY <1>1 DEF Short

\* The packet with the credentials that are sent is a CONNECT like the one without them.
LEMMA AnnouncedConnect ==
    ASSUME NEW p, IsConnect(p)
    PROVE  IsConnect(Announced(p))
<1>1. PICK c, w, u, x : IsConnection(c, w, u, x) /\ p = Connection(c, w, u, x)
  BY Zenon DEF IsConnect, Connection
<1>2. PICK a : a = IF u # <<>> /\ x # <<>> THEN u ELSE <<>>
  OBVIOUS
<1>3. PICK b : b = IF u # <<>> /\ x # <<>> THEN x ELSE <<>>
  OBVIOUS
<1>4. Announced(p) = Connection(c, w, a, b)
  <2>1. Announced(p) = Connection(c, w, IF u # <<>> /\ x # <<>> THEN u ELSE <<>>,
                                        IF u # <<>> /\ x # <<>> THEN x ELSE <<>>)
    BY <1>1, AnnouncedConnection
  <2>2. QED
    BY <1>2, <1>3, <2>1, Zenon
<1>5. Short(a) /\ IsPassword(b)
  <2>1. CASE u # <<>> /\ x # <<>>
    <3>1. a = u /\ b = x
      BY <1>2, <1>3, <2>1
    <3>2. QED
      BY <1>1, <3>1, Zenon DEF IsConnection
  <2>2. CASE ~ (u # <<>> /\ x # <<>>)
    <3>1. a = <<>> /\ b = <<>>
      BY <1>2, <1>3, <2>2
    <3>2. QED
      BY <3>1, EmptyIsShort, Zenon DEF IsPassword
  <2>3. QED
    BY <2>1, <2>2
<1>6. IsConnection(c, w, a, b)
  BY <1>1, <1>5 DEF IsConnection
<1>7. QED
  BY <1>4, <1>6, Zenon DEF IsConnect, Connection

LEMMA AnnouncedOther == \A p : p.type # "CONNECT" => Announced(p) = p
BY Zenon DEF Announced

\* Of the requests, only a CONNECT differs from what is announced.
LEMMA AnnouncedRequest ==
    ASSUME NEW p, IsRequest(p)
    PROVE  /\ IsRequest(Announced(p))
           /\ IsConnect(p) \/ Announced(p) = p
<1>1. CASE IsConnect(p)
  BY <1>1, AnnouncedConnect DEF IsRequest
<1>2. CASE ~ IsConnect(p)
  <2>1. CASE IsPublish(p)
    <3>1. p.type = "PUBLISH"
      BY <2>1 DEF IsPublish
    <3>2. QED
      BY <2>1, <3>1, AnnouncedOther, Zenon
  <2>2. CASE IsSubscribe(p)
    <3>1. p.type = "SUBSCRIBE"
      BY <2>2 DEF IsSubscribe
    <3>2. QED
      BY <2>2, <3>1, AnnouncedOther, Zenon
  <2>3. CASE IsUnsubscribe(p)
    <3>1. p.type = "UNSUBSCRIBE"
      BY <2>3 DEF IsUnsubscribe
    <3>2. QED
      BY <2>3, <3>1, AnnouncedOther, Zenon
  <2>4. CASE IsAcknowledgement(p)
    <3>1. p.type \in {"PUBACK", "PUBREC", "PUBCOMP"}
      BY <2>4 DEF IsAcknowledgement
    <3>2. p.type # "CONNECT"
      BY <3>1
    <3>3. QED
      BY <2>4, <3>2, AnnouncedOther, Zenon
  <2>5. CASE IsBare(p)
    <3>1. p.type \in {"PINGREQ", "DISCONNECT"}
      BY <2>5 DEF IsBare
    <3>2. p.type # "CONNECT"
      BY <3>1
    <3>3. QED
      BY <2>5, <3>2, AnnouncedOther, Zenon
  <2>6. Announced(p) = p
    BY <1>2, <2>1, <2>2, <2>3, <2>4, <2>5, AnnouncedOther, Zenon DEF IsRequest
  <2>7. QED
    BY <2>6, Zenon
<1>3. QED
  BY <1>1, <1>2

\* What a user that connects wants to be written, and what is written.
LEMMA ConnectWritten ==
    ASSUME NEW f, NEW w, NEW h \in HandedOver(w), NEW u, NEW x,
           IsRecordOfWill(f), IsWill(w), Short(u), IsPassword(x),
           NEW wanted, wanted = Wanted(w, u, x)
    PROVE  IsRequest(wanted) /\ Announced(wanted) = ConnectPacket(<< 99 >>, Assign(f, h), u, x)
<1>1. h = w
  BY HandedWill
<1>2. IsRecordOfWill(NoWill)
  BY FormerWillIsAny
<1>3. Assign(f, h) = w /\ Assign(NoWill, w) = w
  BY <1>1, <1>2, AssignedWill, Zenon
<1>4. wanted = Connection(<<99>>, w, u, x)
  BY Zenon DEF Wanted, Connection
<1>5. ConnectPacket(<<99>>, Assign(f, h), u, x)
        = Connection(<<99>>, w, IF u # <<>> /\ x # <<>> THEN u ELSE <<>>,
                                IF u # <<>> /\ x # <<>> THEN x ELSE <<>>)
  BY <1>3, Zenon DEF ConnectPacket, Connection
<1>6. Announced(wanted) = ConnectPacket(<<99>>, Assign(f, h), u, x)
  <2>1. PICK c : c = <<99>>
    OBVIOUS
  <2>2. wanted = Connection(c, w, u, x)
    BY <1>4, <2>1, Zenon
  <2>3. Announced(wanted) = Connection(c, w, IF u # <<>> /\ x # <<>> THEN u ELSE <<>>,
                                             IF u # <<>> /\ x # <<>> THEN x ELSE <<>>)
    BY <2>2, AnnouncedConnection
  <2>4. QED
    BY <1>5, <2>1, <2>3, Zenon
<1>7. Short(<<99>>)
  <2>1. 99 \in Byte
    BY DEF Byte
  <2>2. QED
    BY <2>1 DEF Short
<1>8. IsConnect(wanted)
  BY <1>4, <1>7, Zenon DEF IsConnect, IsConnection, Connection
<1>9. QED
  BY <1>6, <1>8 DEF IsRequest

LEMMA PublicationRecord ==
    ASSUME NEW T, NEW M, NEW Q, NEW R, NEW I,
           NEW p \in [type : {"PUBLISH"}, topic : T, message : M, qos : Q, retain : R, id : I]
    PROVE  /\ p.topic \in T /\ p.message \in M /\ p.qos \in Q /\ p.retain \in R /\ p.id \in I
           /\ p = [type |-> "PUBLISH", topic |-> p.topic, message |-> p.message, qos |-> p.qos,
                   retain |-> p.retain, id |-> p.id]
OBVIOUS

LEMMA PublicationsArePublish ==
    ASSUME NEW topics, \A t \in topics : Short(t), NEW qoss, qoss \subseteq 0 .. 2,
           NEW p \in PublishPackets(topics, qoss)
    PROVE  IsPublish(p)
<1>1. p \in [type : {"PUBLISH"}, topic : topics, message : Messages, qos : qoss,
             retain : {FALSE}, id : Identifiers \cup {0}]
  BY Zenon DEF PublishPackets
<1>2. p.qos = 0 <=> p.id = 0
  BY Zenon DEF PublishPackets
<1>3. /\ p.topic \in topics /\ p.message \in Messages /\ p.qos \in qoss /\ p.retain \in {FALSE}
      /\ p.id \in Identifiers \cup {0}
      /\ p = [type |-> "PUBLISH", topic |-> p.topic, message |-> p.message, qos |-> p.qos,
              retain |-> p.retain, id |-> p.id]
  BY <1>1, PublicationRecord
<1>4. p.id \in Uint16
  BY <1>3, IdentifiersAssumption, Uint16Members
<1>5. p.qos \in 0 .. 2
  BY <1>3, Zenon
<1>6. Short(p.topic) /\ Fits(p.message)
  BY <1>3, MessagesFit, Zenon
<1>7. IsPublication(p.topic, p.message, p.qos, p.id)
  BY <1>2, <1>4, <1>5, <1>6, Zenon DEF IsPublication
<1>8. p.retain = FALSE
  BY <1>3, Zenon
<1>9. QED
  BY <1>3, <1>7, <1>8, Zenon DEF IsPublish

LEMMA LongPublicationsArePublish ==
    ASSUME NEW p \in LongPublications
    PROVE  IsPublish(p)
<1>1. p \in [type : {"PUBLISH"}, topic : {Long(n) : n \in FieldSizes}, message : {<<>>},
             qos : {1}, retain : {FALSE}, id : {1}]
  BY Zenon DEF LongPublications
<1>2. /\ p.topic \in {Long(n) : n \in FieldSizes} /\ p.message \in {<<>>} /\ p.qos \in {1}
      /\ p.retain \in {FALSE} /\ p.id \in {1}
      /\ p = [type |-> "PUBLISH", topic |-> p.topic, message |-> p.message, qos |-> p.qos,
              retain |-> p.retain, id |-> p.id]
  BY <1>1, PublicationRecord
<1>3. 1 \in Uint16 /\ 1 \in 0 .. 2 /\ 1 # 0
  BY Uint16Members
<1>4. Short(p.topic)
  BY <1>2, LongFields
<1>5. Fits(<<>>)
  <2>1. <<>> \in Seq(Byte) /\ Len(<<>>) = 0 /\ 0 < 65535
    BY EmptySeq
  <2>2. Short(<<>>)
    BY <2>1 DEF Short
  <2>3. QED
    BY <2>2, ShortFits
<1>6. p.message = <<>> /\ p.qos = 1 /\ p.id = 1
  BY <1>2, Zenon
<1>7. IsPublication(p.topic, p.message, p.qos, p.id)
  BY <1>3, <1>4, <1>5, <1>6, Zenon DEF IsPublication
<1>8. p.retain = FALSE
  BY <1>2, Zenon
<1>9. QED
  BY <1>2, <1>7, <1>8, Zenon DEF IsPublish

LEMMA TopicNamesAreShort == \A t \in TopicNames : Short(t)
BY TextsAreShort DEF TopicNames

LEMMA ClientPacketsAreRequests ==
    ASSUME NEW p \in ClientPackets
    PROVE  IsRequest(p)
<1>1. CASE p \in PublishPackets(TopicNames, 0 .. 1)
  <2>1. 0 .. 1 \subseteq 0 .. 2
    OBVIOUS
  <2>2. QED
    BY <1>1, <2>1, TopicNamesAreShort, PublicationsArePublish DEF IsRequest
<1>2. CASE p \in LongPublications
  BY <1>2, LongPublicationsArePublish DEF IsRequest
<1>3. CASE p \in [type : {"PUBACK", "PUBREC", "PUBCOMP"}, id : Identifiers]
  <2>1. p.type \in {"PUBACK", "PUBREC", "PUBCOMP"} /\ p.id \in Identifiers /\ p = [type |-> p.type, id |-> p.id]
    BY <1>3
  <2>2. p.id \in Uint16
    BY <2>1, IdentifiersAssumption, Zenon
  <2>3. QED
    BY <2>1, <2>2, Zenon DEF IsRequest, IsAcknowledgement
<1>4. CASE p \in [type : {"PINGREQ", "DISCONNECT"}]
  <2>1. p.type \in {"PINGREQ", "DISCONNECT"} /\ p = [type |-> p.type]
    BY <1>4
  <2>2. QED
    BY <2>1, Zenon DEF IsRequest, IsBare
<1>5. QED
  BY <1>1, <1>2, <1>3, <1>4 DEF ClientPackets

-----------------------------------------------------------------------------
(* What readPacket makes of a frame *)

PacketOf(type, flags, body) ==
    [type |-> type, flags |-> flags, qos |-> (flags \div 2) % 4, payload |-> body]

\* The flags do not hold the QoS that does not exist.
HasQoS(flags) == flags \in 0 .. 15 /\ (flags \div 2) % 4 <= 2

\* f begins with the packet of this type, with these flags and this body.
Begins(f, type, flags, body) ==
    \E h, extra : /\ IsFirstByte(h, type, flags)
                  /\ IsFrame(f, h, EncodeLength(Len(body)), Len(body), body \o extra)
                  /\ body \in Seq(Byte) /\ extra \in Seq(Byte)

LEMMA WholeFrame ==
    ASSUME NEW f, NEW type, NEW flags, NEW body, Begins(f, type, flags, body), HasQoS(flags)
    PROVE  Complete(f) /\ ReadPacket(f) = PacketOf(type, flags, body) /\ f \in Seq(Byte)
<1>1. PICK h, extra : /\ IsFirstByte(h, type, flags)
                      /\ IsFrame(f, h, EncodeLength(Len(body)), Len(body), body \o extra)
                      /\ body \in Seq(Byte) /\ extra \in Seq(Byte)
  BY DEF Begins
<1>2. /\ h \in Byte /\ TypeName(h \div 16) = type /\ h % 16 = flags
      /\ (h \div 2) % 4 = (flags \div 2) % 4 /\ h \div 16 \in 1 .. 14
  BY <1>1, FirstByte
<1>3. PICK n \in Nat : n = Len(body)
  BY <1>1, LenProperties
<1>4. PICK d : d = EncodeLength(n)
  OBVIOUS
<1>5. PICK rest : rest = body \o extra
  OBVIOUS
<1>6. IsFrame(f, h, d, n, rest)
  BY <1>1, <1>3, <1>4, <1>5, Zenon
<1>7. /\ f \in Seq(Byte) /\ Len(f) = 1 + Len(d) + Len(rest) /\ f[1] = h
      /\ LengthBytes(f) = Len(d) /\ RemainingLength(f) = n
  BY <1>6, HeadRead
<1>8. /\ d \in Seq(Byte) /\ 1 <= Len(d) /\ rest \in Seq(Byte) /\ f = (<<h>> \o d) \o rest
  BY <1>6 DEF IsFrame, IsLengthField
<1>9. Len(d) \in Nat /\ Len(rest) \in Nat /\ Len(extra) \in Nat
  BY <1>1, <1>8, LenProperties
<1>10. Len(rest) = n + Len(extra)
  BY <1>1, <1>3, <1>5, ConcatProperties
<1>11. f # <<>>
  BY <1>7, <1>9
<1>12. ParseHeader(f)
  <2>1. h \div 16 \notin {0, 15} /\ (h \div 2) % 4 <= 2
    BY <1>2 DEF HasQoS
  <2>2. QED
    BY <1>7, <1>11, <2>1, Zenon DEF ParseHeader
<1>13. Complete(f)
  <2>1. Len(d) > 0 /\ (1 + Len(d) + Len(rest)) - 1 - Len(d) >= n
    BY <1>8, <1>9, <1>10
  <2>2. QED
    BY <1>7, <1>12, <2>1 DEF Complete
<1>14. Holds(f, (1 + Len(d)) + 1, body)
  <2>1. Holds(f, 1, f)
    BY <1>7, HoldsItself
  <2>2. IsString(<<h>>, 1) /\ IsString(d, Len(d)) /\ IsString(rest, Len(rest))
    BY <1>2, <1>8, StringByte DEF IsString
  <2>3. IsString(<<h>> \o d, 1 + Len(d))
    BY <2>2, JoinStrings
  <2>4. (1 + Len(d)) + 1 = 1 + (1 + Len(d))
    BY <1>9
  <2>5. HoldsBoth(f, 1, <<h>> \o d, 1 + Len(d), (1 + Len(d)) + 1, rest, Len(rest))
    BY <1>8, <2>1, <2>2, <2>3, <2>4, Zenon DEF HoldsBoth
  <2>6. Holds(f, (1 + Len(d)) + 1, rest)
    BY <2>5, HoldsEach
  <2>7. QED
    BY <1>1, <1>5, <2>6, HoldsParts
<1>15. SubSeq(f, (1 + Len(d)) + 1, (1 + Len(d)) + n) = body
  <2>1. (1 + Len(d)) + n \in Int /\ (1 + Len(d)) + n = (((1 + Len(d)) + 1) - 1) + Len(body)
    BY <1>3, <1>9
  <2>2. QED
    BY <1>14, <2>1, HeldStretch
<1>16. ReadPacket(f) = PacketOf(type, flags, body)
  BY <1>2, <1>7, <1>15, Zenon DEF ReadPacket, PacketOf
<1>17. QED
  BY <1>7, <1>13, <1>16

\* The first k bytes of w.
Beginning(w, k) == SubSeq(w, 1, k)

LEMMA BeginningOf ==
    ASSUME NEW w \in Seq(Byte), NEW k \in Nat, k <= Len(w)
    PROVE  /\ Beginning(w, k) \in Seq(Byte) /\ Len(Beginning(w, k)) = k
           /\ \A i \in 1 .. k : Beginning(w, k)[i] = w[i]
<1>1. Len(w) \in Nat
  BY LenProperties
<1>2. \A i \in 1 .. k : w[i] \in Byte
  <2>1. TAKE i \in 1 .. k
  <2>2. i \in 1 .. Len(w)
    BY <1>1
  <2>3. QED
    BY <2>2, ElementOfSeq
<1>3. /\ SubSeq(w, 1, k) \in Seq(Byte)
      /\ Len(SubSeq(w, 1, k)) = IF 1 <= k THEN k - 1 + 1 ELSE 0
      /\ \A i \in 1 .. k - 1 + 1 : SubSeq(w, 1, k)[i] = w[1 + i - 1]
  BY <1>2, SubSeqProperties
<1>4. \A i \in 1 .. k : i \in 1 .. k - 1 + 1 /\ 1 + i - 1 = i
  OBVIOUS
<1>5. \A i \in 1 .. k : SubSeq(w, 1, k)[i] = w[i]
  BY <1>3, <1>4, Zenon
<1>6. Len(SubSeq(w, 1, k)) = k
  BY <1>3
<1>7. QED
  BY <1>3, <1>5, <1>6 DEF Beginning

LEMMA PartFrame ==
    ASSUME NEW w, NEW type, NEW flags, NEW body, IsPacket(w, type, flags, body),
           NEW k \in Nat, k < Len(w)
    PROVE  ~ Complete(Beginning(w, k))
<1>1. PICK h : IsFrame(w, h, EncodeLength(Len(body)), Len(body), body)
  BY DEF IsPacket
<1>2. PICK n : n = Len(body)
  OBVIOUS
<1>3. PICK d : d = EncodeLength(n)
  OBVIOUS
<1>4. IsFrame(w, h, d, n, body)
  BY <1>1, <1>2, <1>3, Zenon
<1>5. /\ w \in Seq(Byte) /\ Len(w) = 1 + Len(d) + Len(body)
  BY <1>4, HeadRead
<1>6. /\ h \in Byte /\ d \in Seq(Byte) /\ 1 <= Len(d) /\ body \in Seq(Byte)
      /\ \A i \in 1 .. Len(d) - 1 : d[i] >= 128
      /\ w = (<<h>> \o d) \o body
  BY <1>4 DEF IsFrame, IsLengthField
<1>7. Len(d) \in Nat /\ Len(body) \in Nat
  BY <1>6, LenProperties
<1>8. PICK f : f = Beginning(w, k)
  OBVIOUS
<1>9. f \in Seq(Byte) /\ Len(f) = k /\ \A i \in 1 .. k : f[i] = w[i]
  BY <1>5, <1>7, <1>8, BeginningOf
<1>10. IsString(<<h>>, 1) /\ IsString(d, Len(d)) /\ IsString(body, Len(body))
  BY <1>6, StringByte DEF IsString
<1>11. IsString(<<h>> \o d, 1 + Len(d))
  BY <1>10, JoinStrings
<1>12. Holds(w, 1, <<h>>) /\ Holds(w, 2, d) /\ Holds(w, 2 + Len(d), body)
  <2>1. Holds(w, 1, w)
    BY <1>5, HoldsItself
  <2>2. 2 + Len(d) = 1 + (1 + Len(d))
    BY <1>7
  <2>3. HoldsBoth(w, 1, <<h>> \o d, 1 + Len(d), 2 + Len(d), body, Len(body))
    BY <1>6, <1>10, <1>11, <2>1, <2>2, Zenon DEF HoldsBoth
  <2>4. Holds(w, 1, <<h>> \o d) /\ Holds(w, 2 + Len(d), body)
    BY <2>3, HoldsEach
  <2>5. 2 = 1 + 1
    OBVIOUS
  <2>6. HoldsBoth(w, 1, <<h>>, 1, 2, d, Len(d))
    BY <1>10, <2>4, <2>5, Zenon DEF HoldsBoth
  <2>7. QED
    BY <2>4, <2>6, HoldsEach
<1>13. CASE k = 0
  <2>1. f = <<>>
    BY <1>9, <1>13, EmptySeq
  <2>2. QED
    BY <1>8, <2>1 DEF Complete, ParseHeader
<1>14. CASE 1 <= k /\ k <= Len(d)
  <2>1. ASSUME NEW i \in 2 .. Len(f) PROVE f[i] >= 128
    <3>1. PICK j \in 1 .. Len(d) - 1 : j = i - 1
      BY <1>7, <1>9, <1>14
    <3>2. (2 - 1) + j = i /\ i \in 1 .. k /\ j \in 1 .. Len(d)
      BY <1>7, <1>9, <3>1
    <3>3. w[(2 - 1) + j] = d[j]
      BY <1>12, <3>2 DEF Holds
    <3>4. f[i] = d[j]
      BY <1>9, <3>2, <3>3, Zenon
    <3>5. QED
      BY <1>6, <3>1, <3>4
  <2>2. f # <<>>
    BY <1>9, <1>14
  <2>3. LengthBytes(f) = 0
    BY <1>9, <2>1, <2>2, LengthDoesNotEnd
  <2>4. QED
    BY <1>8, <2>3 DEF Complete
<1>15. CASE k >= 1 + Len(d)
  <2>1. PICK l \in Nat : l = (k - 1) - Len(d) /\ l < Len(body)
    <3>1. k < 1 + Len(d) + Len(body)
      BY <1>5
    <3>2. (k - 1) - Len(d) \in Nat /\ (k - 1) - Len(d) < Len(body)
      BY <1>7, <1>15, <3>1
    <3>3. QED
      BY <3>2
  <2>2. PICK rest : rest = Beginning(body, l)
    OBVIOUS
  <2>3. rest \in Seq(Byte) /\ Len(rest) = l /\ \A i \in 1 .. l : rest[i] = body[i]
    <3>1. body \in Seq(Byte) /\ l <= Len(body)
      BY <1>6, <1>7, <2>1
    <3>2. QED
      BY <2>2, <3>1, BeginningOf
  <2>4. PICK a : a = <<h>> \o d
    OBVIOUS
  <2>5. a \in Seq(Byte) /\ Len(a) = 1 + Len(d)
    BY <1>11, <2>4 DEF IsString
  <2>6. /\ a \o rest \in Seq(Byte) /\ Len(a \o rest) = Len(a) + Len(rest)
        /\ \A i \in 1 .. Len(a) + Len(rest) : (a \o rest)[i] = IF i <= Len(a) THEN a[i] ELSE rest[i - Len(a)]
    BY <2>3, <2>5, ConcatProperties
  <2>7. /\ \A i \in 1 .. Len(a) + Len(body) : (a \o body)[i] = IF i <= Len(a) THEN a[i] ELSE body[i - Len(a)]
    BY <1>6, <2>5, ConcatProperties
  <2>8. w = a \o body
    BY <1>6, <2>4
  <2>9. Len(a \o rest) = k /\ Len(a) \in Nat /\ Len(rest) \in Nat
    BY <1>7, <2>1, <2>3, <2>5, <2>6
  <2>10. ASSUME NEW i \in 1 .. k PROVE f[i] = (a \o rest)[i]
    <3>1. i \in 1 .. Len(a) + Len(rest) /\ i \in 1 .. Len(a) + Len(body)
      BY <1>7, <2>1, <2>3, <2>5
    <3>2. w[i] = IF i <= Len(a) THEN a[i] ELSE body[i - Len(a)]
      BY <2>7, <2>8, <3>1
    <3>3. (a \o rest)[i] = IF i <= Len(a) THEN a[i] ELSE rest[i - Len(a)]
      BY <2>6, <3>1
    <3>4. CASE i <= Len(a)
      BY <1>9, <3>2, <3>3, <3>4
    <3>5. CASE ~ (i <= Len(a))
      <4>1. PICK j \in 1 .. l : j = i - Len(a)
        <5>1. i - Len(a) \in 1 .. l
          BY <1>7, <2>1, <2>5, <3>5
        <5>2. QED
          BY <5>1
      <4>2. rest[j] = body[j]
        BY <2>3, <4>1
      <4>3. (a \o rest)[i] = rest[j] /\ w[i] = body[j]
        BY <3>2, <3>3, <3>5, <4>1
      <4>4. QED
        BY <1>9, <4>2, <4>3
    <3>6. QED
      BY <3>4, <3>5
  <2>11. f = a \o rest
    BY <1>9, <2>6, <2>9, <2>10, SeqEqual
  <2>12. IsFrame(f, h, d, n, rest)
    BY <1>4, <2>3, <2>4, <2>11, Zenon DEF IsFrame
  <2>13. LengthBytes(f) = Len(d) /\ RemainingLength(f) = n
    BY <2>12, HeadRead
  <2>14. ~ ((k - 1) - Len(d) >= n)
    BY <1>2, <1>7, <2>1
  <2>15. ~ (Len(f) - 1 - LengthBytes(f) >= RemainingLength(f))
    BY <1>9, <2>13, <2>14, Zenon
  <2>16. QED
    BY <1>8, <2>15, Zenon DEF Complete
<1>16. QED
  BY <1>7, <1>13, <1>14, <1>15

\* A frame holds the packet w and perhaps more, or only the beginning of w.
LEMMA ShapeOf ==
    ASSUME NEW w, NEW type, NEW flags, NEW body, IsPacket(w, type, flags, body),
           NEW f \in Shapes(w)
    PROVE  \/ Begins(f, type, flags, body) /\ Len(f) >= Len(w)
           \/ \E k \in Nat : k < Len(w) /\ f = Beginning(w, k) /\ Len(f) = k /\ f \in Seq(Byte)
<1>1. PICK h : /\ IsFirstByte(h, type, flags)
               /\ IsFrame(w, h, EncodeLength(Len(body)), Len(body), body)
  BY DEF IsPacket
<1>2. PICK n : n = Len(body)
  OBVIOUS
<1>3. PICK d : d = EncodeLength(n)
  OBVIOUS
<1>4. IsFrame(w, h, d, n, body)
  BY <1>1, <1>2, <1>3, Zenon
<1>5. w \in Seq(Byte)
  BY <1>4, HeadRead
<1>6. Len(w) \in Nat
  BY <1>5, LenProperties
<1>7. PICK a : a = <<h>> \o d
  OBVIOUS
<1>8. a \in Seq(Byte) /\ body \in Seq(Byte) /\ w = a \o body
  <2>1. h \in Byte /\ d \in Seq(Byte) /\ body \in Seq(Byte) /\ w = (<<h>> \o d) \o body
    BY <1>4 DEF IsFrame, IsLengthField
  <2>2. <<h>> \in Seq(Byte)
    BY <2>1
  <2>3. <<h>> \o d \in Seq(Byte)
    BY <2>1, <2>2, ConcatProperties
  <2>4. QED
    BY <1>7, <2>1, <2>3
<1>9. ASSUME NEW e \in Seq(Byte), NEW g, g = w \o e
      PROVE  Begins(g, type, flags, body) /\ Len(g) >= Len(w)
  <2>1. (a \o body) \o e = a \o (body \o e)
    BY <1>8, ConcatAssociative
  <2>2. body \o e \in Seq(Byte)
    BY <1>8, ConcatProperties
  <2>3. PICK r : r = body \o e
    OBVIOUS
  <2>4. g = a \o r
    BY <1>8, <1>9, <2>1, <2>3, Zenon
  <2>5. IsFrame(g, h, d, n, r)
    BY <1>4, <1>7, <2>2, <2>3, <2>4, Zenon DEF IsFrame
  <2>6. Begins(g, type, flags, body)
    BY <1>1, <1>2, <1>3, <1>8, <2>3, <2>5, Zenon DEF Begins
  <2>7. Len(w \o e) = Len(w) + Len(e)
    BY <1>5, ConcatProperties
  <2>8. Len(e) \in Nat
    BY LenProperties
  <2>9. Len(g) >= Len(w)
    BY <1>6, <1>9, <2>7, <2>8
  <2>10. QED
    BY <2>6, <2>9
<1>10. CASE f = w
  <2>1. <<>> \in Seq(Byte)
    BY EmptySeq
  <2>2. w \o <<>> = w
    BY <1>5, ConcatEmptySeq
  <2>3. QED
    BY <1>9, <1>10, <2>1, <2>2
<1>11. CASE f = w \o <<208, 0>>
  <2>1. 208 \in Byte /\ 0 \in Byte
    BY DEF Byte
  <2>2. <<208, 0>> \in Seq(Byte)
    BY <2>1
  <2>3. QED
    BY <1>9, <1>11, <2>2, Zenon
<1>12. ASSUME NEW k \in (Cuts \cup {Len(w) - 1}) \cap 0 .. Len(w) - 1, f = SubSeq(w, 1, k)
       PROVE  \E j \in Nat : j < Len(w) /\ f = Beginning(w, j) /\ Len(f) = j /\ f \in Seq(Byte)
  <2>1. k \in Nat /\ k < Len(w) /\ k <= Len(w)
    BY <1>6
  <2>2. f = Beginning(w, k)
    BY <1>12 DEF Beginning
  <2>3. f \in Seq(Byte) /\ Len(f) = k
    BY <1>5, <2>1, <2>2, BeginningOf
  <2>4. QED
    BY <2>1, <2>2, <2>3
<1>13. \/ f = w \/ f = w \o <<208, 0>>
       \/ \E k \in (Cuts \cup {Len(w) - 1}) \cap 0 .. Len(w) - 1 : f = SubSeq(w, 1, k)
  BY Zenon DEF Shapes
<1>14. QED
  BY <1>10, <1>11, <1>12, <1>13

\* The signal for a packet that is complete.
Handled(packet) ==
    CASE packet.type = "CONNACK"  -> ParseCONNACK(packet)
      [] packet.type = "SUBACK"   -> ParseSUBACK(packet)
      [] packet.type = "PUBLISH"  -> ParsePUBLISH(packet)
      [] packet.type = "PUBACK"   -> ParseIdentifier("puback", packet)
      [] packet.type = "UNSUBACK" -> ParseIdentifier("unsuback", packet)
      [] packet.type = "PUBREL"   -> ParsePUBREL(packet)
      [] packet.type = "PINGRESP" -> [signal |-> "pong"]
      [] OTHER                    -> NoSignal

LEMMA WholeFrameParsed ==
    ASSUME NEW f, NEW type, NEW flags, NEW body, Begins(f, type, flags, body), HasQoS(flags)
    PROVE  Parse(f) = Handled(PacketOf(type, flags, body))
<1>1. Complete(f) /\ ReadPacket(f) = PacketOf(type, flags, body)
  BY WholeFrame
<1>2. Parse(f) = Handled(ReadPacket(f))
  BY <1>1, Zenon DEF Parse, Handled
<1>3. QED
  BY <1>1, <1>2, Zenon

\* A packet with a body of less than 128 bytes.
LEMMA TwoElements ==
    ASSUME NEW a, NEW b
    PROVE  <<a>> \o <<b>> = <<a, b>>
<1> DEFINE S == {a, b}
<1>1. PICK x : x = <<a>>
  OBVIOUS
<1>2. PICK y : y = <<b>>
  OBVIOUS
<1>3. x \in Seq(S) /\ y \in Seq(S) /\ Len(x) = 1 /\ Len(y) = 1 /\ x[1] = a /\ y[1] = b
  BY <1>1, <1>2
<1>4. /\ x \o y \in Seq(S) /\ Len(x \o y) = Len(x) + Len(y)
      /\ \A i \in 1 .. Len(x) + Len(y) : (x \o y)[i] = IF i <= Len(x) THEN x[i] ELSE y[i - Len(x)]
  <2>1. x \in Seq(S) /\ y \in Seq(S)
    BY <1>3
  <2> HIDE DEF S
  <2>2. QED
    BY <2>1, ConcatProperties
<1>5. PICK z : z = x \o y
  OBVIOUS
<1>6. z \in Seq(S) /\ Len(z) = 2 /\ z[1] = a /\ z[2] = b
  <2>1. Len(x) + Len(y) = 2
    BY <1>3
  <2>2. \A i \in 1 .. 2 : z[i] = IF i <= 1 THEN x[i] ELSE y[i - 1]
    BY <1>3, <1>4, <1>5, <2>1, Zenon
  <2>3. z[1] = x[1] /\ z[2] = y[1]
    BY <2>2
  <2>4. QED
    BY <1>3, <1>4, <1>5, <2>1, <2>3, Zenon
<1>7. PICK t : t = <<a, b>>
  OBVIOUS
<1>8. t \in Seq(S) /\ Len(t) = 2 /\ t[1] = a /\ t[2] = b
  BY <1>7
<1>9. z = t
  <2> HIDE DEF S
  <2>1. Len(z) = Len(t) /\ \A i \in 1 .. Len(z) : z[i] = t[i]
    BY <1>6, <1>8
  <2>2. QED
    BY <1>6, <1>8, <2>1, SeqEqual
<1>10. QED
  BY <1>1, <1>2, <1>5, <1>7, <1>9, Zenon

LEMMA SmallPacket ==
    ASSUME NEW h, NEW type, NEW flags, IsFirstByte(h, type, flags),
           NEW n \in 0 .. 127, NEW body, IsString(body, n), NEW w, w = <<h, n>> \o body
    PROVE  IsPacket(w, type, flags, body)
<1>1. body \in Seq(Byte) /\ Len(body) = n /\ n \in Nat
  BY DEF IsString
<1>2. EncodeLength(n) = <<n>>
  <2>1. n \in Nat /\ n < 128
    OBVIOUS
  <2>2. QED
    BY <2>1, EncodeLengthEquation
<1>3. h \in Byte
  BY FirstByte
<1>4. <<h>> \o <<n>> = <<h, n>>
  BY TwoElements
<1>5. IsLengthField(EncodeLength(n), n, 5)
  <2>1. n <= MAXIMUM_CONTROL_PACKET_SIZE
    BY MaximumSize
  <2>2. PICK m \in Nat : m = MAXIMUM_CONTROL_PACKET_SIZE
    BY MaximumSize
  <2>3. n \in 0 .. MAXIMUM_CONTROL_PACKET_SIZE
    BY <2>1, <2>2
  <2>4. QED
    BY <2>3, LengthField
<1>6. w = (<<h>> \o EncodeLength(n)) \o body
  BY <1>2, <1>4, Zenon
<1>7. IsFrame(w, h, EncodeLength(n), n, body)
  BY <1>1, <1>3, <1>5, <1>6, Zenon DEF IsFrame
<1>8. QED
  BY <1>1, <1>7, Zenon DEF IsPacket

LEMMA FourElements ==
    ASSUME NEW a \in Byte, NEW b \in Byte, NEW c \in Byte, NEW d \in Byte
    PROVE  <<a, b>> \o <<c, d>> = <<a, b, c, d>>
<1>1. PICK x : x = <<a, b>>
  OBVIOUS
<1>2. PICK y : y = <<c, d>>
  OBVIOUS
<1>3. x \in Seq(Byte) /\ y \in Seq(Byte) /\ Len(x) = 2 /\ Len(y) = 2
      /\ x[1] = a /\ x[2] = b /\ y[1] = c /\ y[2] = d
  BY <1>1, <1>2
<1>4. /\ x \o y \in Seq(Byte) /\ Len(x \o y) = Len(x) + Len(y)
      /\ \A i \in 1 .. Len(x) + Len(y) : (x \o y)[i] = IF i <= Len(x) THEN x[i] ELSE y[i - Len(x)]
  <2>1. x \in Seq(Byte) /\ y \in Seq(Byte)
    BY <1>3
  <2>2. QED
    BY <2>1, ConcatProperties
<1>5. PICK z : z = x \o y
  OBVIOUS
<1>6. z \in Seq(Byte) /\ Len(z) = 4 /\ z[1] = a /\ z[2] = b /\ z[3] = c /\ z[4] = d
  <2>1. Len(x) + Len(y) = 4
    BY <1>3
  <2>2. \A i \in 1 .. 4 : z[i] = IF i <= 2 THEN x[i] ELSE y[i - 2]
    BY <1>3, <1>4, <1>5, <2>1, Zenon
  <2>3. z[1] = x[1] /\ z[2] = x[2] /\ z[3] = y[1] /\ z[4] = y[2]
    BY <2>2
  <2>4. QED
    BY <1>3, <1>4, <1>5, <2>1, <2>3, Zenon
<1>7. PICK t : t = <<a, b, c, d>>
  OBVIOUS
<1>8. t \in Seq(Byte) /\ Len(t) = 4 /\ t[1] = a /\ t[2] = b /\ t[3] = c /\ t[4] = d
  BY <1>7
<1>9. z = t
  <2>1. Len(z) = Len(t) /\ \A i \in 1 .. Len(z) : z[i] = t[i]
    BY <1>6, <1>8
  <2>2. QED
    BY <1>6, <1>8, <2>1, SeqEqual
<1>10. QED
  BY <1>1, <1>2, <1>5, <1>7, <1>9, Zenon

\* The packet w is the signal s to the client.
Says(w, s) ==
    \E type, flags, body : /\ IsPacket(w, type, flags, body) /\ HasQoS(flags)
                           /\ Handled(PacketOf(type, flags, body)) = s

\* A frame with all of w is that signal, one with its beginning is an error.
LEMMA SaysParsed ==
    ASSUME NEW w, NEW s, Says(w, s), NEW f \in Shapes(w)
    PROVE  /\ f \in Seq(Byte)
           /\ Len(f) >= Len(w) => Parse(f) = s
           /\ ~ (Len(f) >= Len(w)) => Parse(f) = Error("INVALID_PACKET")
<1>1. PICK type, flags, body : /\ IsPacket(w, type, flags, body) /\ HasQoS(flags)
                               /\ Handled(PacketOf(type, flags, body)) = s
  BY DEF Says
<1>2. Len(w) \in Nat
  BY <1>1, PacketRead, LenProperties
<1>3. CASE Begins(f, type, flags, body) /\ Len(f) >= Len(w)
  <2>1. f \in Seq(Byte) /\ Parse(f) = s
    BY <1>1, <1>3, WholeFrame, WholeFrameParsed
  <2>2. QED
    BY <1>3, <2>1
<1>4. ASSUME NEW k \in Nat, k < Len(w), f = Beginning(w, k), Len(f) = k, f \in Seq(Byte)
      PROVE  /\ f \in Seq(Byte)
             /\ Len(f) >= Len(w) => Parse(f) = s
             /\ ~ (Len(f) >= Len(w)) => Parse(f) = Error("INVALID_PACKET")
  <2>1. ~ Complete(f)
    BY <1>1, <1>4, PartFrame
  <2>2. Parse(f) = Error("INVALID_PACKET")
    BY <2>1, Zenon DEF Parse
  <2>3. ~ (Len(f) >= Len(w))
    BY <1>2, <1>4
  <2>4. QED
    BY <1>4, <2>2, <2>3
<1>5. QED
  BY <1>1, <1>3, <1>4, ShapeOf

IsAnswer(a) ==
    \/ \E c \in 0 .. 5 : a = [type |-> "CONNACK", code |-> c]
    \/ \E i \in Uint16, c \in {0, 1, 2, 128} : a = [type |-> "SUBACK", id |-> i, code |-> c]
    \/ \E t \in {"UNSUBACK", "PUBACK", "PUBREL"}, i \in Uint16 : a = [type |-> t, id |-> i]
    \/ a = [type |-> "PINGRESP"]

LEMMA ConnackSays ==
    ASSUME NEW c \in 0 .. 5, NEW a, a = [type |-> "CONNACK", code |-> c]
    PROVE  Says(BrokerWrites(a), SignalFor(a, a))
<1>1. a.type = "CONNACK" /\ a.code = c
  OBVIOUS
<1>2. PICK body : body = <<0, c>>
  OBVIOUS
<1>3. c \in Byte /\ 0 \in Byte /\ 32 \in Byte /\ 2 \in Byte
  BY DEF Byte
<1>4. IsString(body, 2) /\ Len(body) = 2 /\ body[1] = 0 /\ body[2] = c
  BY <1>2, <1>3 DEF IsString
<1>5. BrokerWrites(a) = <<32, 2>> \o body
  <2>1. <<32, 2>> \o <<0, c>> = <<32, 2, 0, c>>
    BY <1>3, FourElements
  <2>2. BrokerWrites(a) = <<32, 2, 0, c>>
    BY <1>1 DEF BrokerWrites
  <2>3. QED
    BY <1>2, <2>1, <2>2, Zenon
<1>6. IsPacket(BrokerWrites(a), "CONNACK", 0, body)
  <2>1. IsFirstByte(32, "CONNACK", 0)
    BY DEF IsFirstByte, PacketType
  <2>2. 2 \in 0 .. 127
    OBVIOUS
  <2>3. QED
    BY <1>4, <1>5, <2>1, <2>2, SmallPacket
<1>7. HasQoS(0)
  BY DEF HasQoS
<1>8. Handled(PacketOf("CONNACK", 0, body)) = SignalFor(a, a)
  <2>1. PICK packet : packet = PacketOf("CONNACK", 0, body)
    OBVIOUS
  <2>2. packet.type = "CONNACK" /\ packet.payload = body
    BY <2>1 DEF PacketOf
  <2>3. Handled(packet) = ParseCONNACK(packet)
    BY <2>2 DEF Handled
  <2>4. ~ (Len(body) # 2 \/ body[1] > 1 \/ body[2] > 5) /\ (body[1] = 1) = FALSE
    BY <1>4
  <2>5. ParseCONNACK(packet) = [signal |-> "connack", code |-> c, sessionPresent |-> FALSE]
    BY <1>4, <2>2, <2>4, Zenon DEF ParseCONNACK
  <2>6. SignalFor(a, a) = [signal |-> "connack", code |-> c, sessionPresent |-> FALSE]
    BY <1>1, Zenon DEF SignalFor
  <2>7. QED
    BY <2>1, <2>3, <2>5, <2>6, Zenon
<1>9. QED
  BY <1>6, <1>7, <1>8, Zenon DEF Says

LEMMA SubackSays ==
    ASSUME NEW i \in Uint16, NEW c \in {0, 1, 2, 128}, NEW a, a = [type |-> "SUBACK", id |-> i, code |-> c]
    PROVE  Says(BrokerWrites(a), SignalFor(a, a))
<1>1. a.type = "SUBACK" /\ a.id = i /\ a.code = c
  OBVIOUS
<1>2. PICK e : e = EncodeNumber(i)
  OBVIOUS
<1>3. e \in Seq(Byte) /\ Len(e) = 2 /\ SubackIdentifier(e[1], e[2]) = i
  BY <1>2, NumberReadBack, SubackNamesSubscribe
<1>4. PICK z : z = <<c>>
  OBVIOUS
<1>5. z \in Seq(Byte) /\ Len(z) = 1 /\ z[1] = c /\ DOMAIN z = 1 .. 1
  <2>1. c \in Byte
    BY DEF Byte
  <2>2. QED
    BY <1>4, <2>1
<1>6. PICK body : body = e \o z
  OBVIOUS
<1>7. IsString(body, 3) /\ body \in Seq(Byte) /\ Len(body) = 3
  <2>1. IsString(e, 2) /\ IsString(z, 1)
    BY <1>3, <1>5 DEF IsString
  <2>2. IsString(body, 2 + 1)
    BY <1>6, <2>1, JoinStrings
  <2>3. QED
    BY <2>2 DEF IsString
<1>8. body[1] = e[1] /\ body[2] = e[2] /\ Drop(body, 2) = z
  <2>1. Holds(body, 1, body)
    BY <1>7, HoldsItself
  <2>2. HoldsBoth(body, 1, e, 2, 3, z, 1)
    BY <1>3, <1>5, <1>6, <2>1 DEF HoldsBoth, IsString
  <2>3. Holds(body, 1, e) /\ Holds(body, 3, z)
    BY <2>2, HoldsEach
  <2>4. body[1] = e[1] /\ body[2] = e[2]
    <3>1. \A j \in 1 .. 2 : body[(1 - 1) + j] = e[j]
      BY <1>3, <2>3 DEF Holds
    <3>2. QED
      BY <3>1
  <2>5. 3 + Len(z) = Len(body) + 1 /\ 2 \in Nat /\ 2 + 1 = 3
    BY <1>5, <1>7
  <2>6. Drop(body, 2) = z
    BY <2>3, <2>5, HeldRest
  <2>7. QED
    BY <2>4, <2>6
<1>9. IsPacket(BrokerWrites(a), "SUBACK", 0, body)
  <2>1. IsFirstByte(144, "SUBACK", 0)
    BY DEF IsFirstByte, PacketType
  <2>2. 3 \in 0 .. 127
    OBVIOUS
  <2>3. BrokerWrites(a) = <<144, 3>> \o e \o z
    BY <1>1, <1>2, <1>4 DEF BrokerWrites
  <2>4. <<144, 3>> \o e \o z = <<144, 3>> \o body
    <3>1. 144 \in Byte /\ 3 \in Byte
      BY DEF Byte
    <3>2. PICK h : h = <<144, 3>>
      OBVIOUS
    <3>3. h \in Seq(Byte)
      BY <3>1, <3>2
    <3>4. (h \o e) \o z = h \o (e \o z)
      BY <1>3, <1>5, <3>3, ConcatAssociative
    <3>5. QED
      BY <1>6, <3>2, <3>4, Zenon
  <2>5. BrokerWrites(a) = <<144, 3>> \o body
    BY <2>3, <2>4, Zenon
  <2>6. QED
    <3>1. PICK w : w = BrokerWrites(a)
      OBVIOUS
    <3>2. PICK n \in 0 .. 127 : n = 3
      OBVIOUS
    <3>3. PICK h : h = 144
      OBVIOUS
    <3>4. PICK f : f = 0
      OBVIOUS
    <3>5. IsString(body, n) /\ w = <<h, n>> \o body /\ IsFirstByte(h, "SUBACK", f)
      BY <1>7, <2>1, <2>5, <3>1, <3>2, <3>3, <3>4, Zenon
    <3>6. IsPacket(w, "SUBACK", f, body)
      BY <3>5, SmallPacket
    <3>7. QED
      BY <3>1, <3>4, <3>6, Zenon
<1>10. HasQoS(0)
  BY DEF HasQoS
<1>11. Handled(PacketOf("SUBACK", 0, body)) = SignalFor(a, a)
  <2>1. PICK packet : packet = PacketOf("SUBACK", 0, body)
    OBVIOUS
  <2>2. packet.type = "SUBACK" /\ packet.payload = body
    BY <2>1 DEF PacketOf
  <2>3. Handled(packet) = ParseSUBACK(packet)
    BY <2>2 DEF Handled
  <2>4. ~ (Len(body) < 2) /\ \A k \in DOMAIN z : z[k] = 128 \/ z[k] <= 2
    BY <1>5, <1>7
  <2>5. ParseSUBACK(packet) =
          [signal |-> "suback", id |-> SubackIdentifier(body[1], body[2]),
           qos |-> [k \in DOMAIN z |-> IF z[k] = 128 THEN QoS.INVALID ELSE z[k]]]
    BY <1>8, <2>2, <2>4, Zenon DEF ParseSUBACK
  <2>6. [k \in DOMAIN z |-> IF z[k] = 128 THEN QoS.INVALID ELSE z[k]]
          = <<IF c = 128 THEN QoS.INVALID ELSE c>>
    BY <1>5
  <2>7. SubackIdentifier(body[1], body[2]) = i
    BY <1>3, <1>8, Zenon
  <2>8. SignalFor(a, a) = [signal |-> "suback", id |-> i,
                           qos |-> <<IF c = 128 THEN QoS.INVALID ELSE c>>]
    BY <1>1, Zenon DEF SignalFor
  <2>9. QED
    BY <2>1, <2>3, <2>5, <2>6, <2>7, <2>8, Zenon
<1>12. QED
  BY <1>9, <1>10, <1>11, Zenon DEF Says

\* PUBACK, UNSUBACK and PUBREL: the first byte is h.
IdentifierFirst(h, type, flags) ==
    \/ h = 64 /\ type = "PUBACK" /\ flags = 0
    \/ h = 176 /\ type = "UNSUBACK" /\ flags = 0
    \/ h = 98 /\ type = "PUBREL" /\ flags = 2

LEMMA IdentifierSays ==
    ASSUME NEW h, NEW type, NEW flags, IdentifierFirst(h, type, flags),
           NEW i \in Uint16, NEW a, a = [type |-> type, id |-> i]
    PROVE  Says(BrokerWrites(a), SignalFor(a, a))
<1>1. a.type = type /\ a.id = i
  OBVIOUS
<1>2. PICK body : body = EncodeNumber(i)
  OBVIOUS
<1>3. /\ body \in Seq(Byte) /\ Len(body) = 2 /\ Number(body[1], body[2]) = i
      /\ ~ (Len(body) < 2) /\ Len(body) >= 2
  BY <1>2, NumberReadBack
<1>4. IsString(body, 2)
  BY <1>3 DEF IsString
<1>5. BrokerWrites(a) = <<h, 2>> \o body
  BY <1>1, <1>2 DEF BrokerWrites, IdentifierFirst
<1>6. IsFirstByte(h, type, flags) /\ HasQoS(flags)
  BY DEF IdentifierFirst, IsFirstByte, PacketType, HasQoS
<1>7. IsPacket(BrokerWrites(a), type, flags, body)
  <2>1. 2 \in 0 .. 127
    OBVIOUS
  <2>2. QED
    BY <1>4, <1>5, <1>6, <2>1, SmallPacket
<1>8. Handled(PacketOf(type, flags, body)) = SignalFor(a, a)
  <2>1. PICK packet : packet = PacketOf(type, flags, body)
    OBVIOUS
  <2>2. packet.type = type /\ packet.payload = body /\ packet.flags = flags
    BY <2>1 DEF PacketOf
  <2>3. \A s : ParseIdentifier(s, packet) = [signal |-> s, id |-> i]
    BY <1>3, <2>2, Zenon DEF ParseIdentifier
  <2>4. CASE type = "PUBACK"
    <3>1. Handled(packet) = ParseIdentifier("puback", packet)
      BY <2>2, <2>4 DEF Handled
    <3>2. SignalFor(a, a) = [signal |-> "puback", id |-> i]
      BY <1>1, <2>4, Zenon DEF SignalFor
    <3>3. QED
      BY <2>1, <2>3, <3>1, <3>2, Zenon
  <2>5. CASE type = "UNSUBACK"
    <3>1. Handled(packet) = ParseIdentifier("unsuback", packet)
      BY <2>2, <2>5 DEF Handled
    <3>2. SignalFor(a, a) = [signal |-> "unsuback", id |-> i]
      BY <1>1, <2>5, Zenon DEF SignalFor
    <3>3. QED
      BY <2>1, <2>3, <3>1, <3>2, Zenon
  <2>6. CASE type = "PUBREL"
    <3>1. Handled(packet) = ParsePUBREL(packet)
      BY <2>2, <2>6 DEF Handled
    <3>2. ~ (packet.flags # 2)
      BY <2>2, <2>6 DEF IdentifierFirst
    <3>3. ParsePUBREL(packet) = ParseIdentifier("pubrel", packet)
      BY <3>2, Zenon DEF ParsePUBREL
    <3>4. SignalFor(a, a) = [signal |-> "pubrel", id |-> i]
      BY <1>1, <2>6, Zenon DEF SignalFor
    <3>5. QED
      BY <2>1, <2>3, <3>1, <3>3, <3>4, Zenon
  <2>7. QED
    BY <2>4, <2>5, <2>6 DEF IdentifierFirst
<1>9. QED
  BY <1>6, <1>7, <1>8, Zenon DEF Says

LEMMA PingrespSays ==
    ASSUME NEW a, a = [type |-> "PINGRESP"]
    PROVE  Says(BrokerWrites(a), SignalFor(a, a))
<1>1. a.type = "PINGRESP"
  OBVIOUS
<1>2. PICK body : body = <<>>
  OBVIOUS
<1>3. IsString(body, 0)
  BY <1>2, EmptySeq DEF IsString
<1>4. BrokerWrites(a) = <<208, 0>> \o body
  <2>1. BrokerWrites(a) = <<208, 0>>
    BY <1>1 DEF BrokerWrites
  <2>2. PICK e : e = <<208, 0>>
    OBVIOUS
  <2>3. e \in Seq(Byte)
    <3>1. 208 \in Byte /\ 0 \in Byte
      BY DEF Byte
    <3>2. QED
      BY <2>2, <3>1
  <2>4. e \o <<>> = e
    BY <2>3, ConcatEmptySeq
  <2>5. QED
    BY <1>2, <2>1, <2>2, <2>4, Zenon
<1>5. IsFirstByte(208, "PINGRESP", 0) /\ HasQoS(0)
  BY DEF IsFirstByte, PacketType, HasQoS
<1>6. IsPacket(BrokerWrites(a), "PINGRESP", 0, body)
  <2>1. 0 \in 0 .. 127
    OBVIOUS
  <2>2. QED
    BY <1>3, <1>4, <1>5, <2>1, SmallPacket
<1>7. Handled(PacketOf("PINGRESP", 0, body)) = SignalFor(a, a)
  <2>1. PICK packet : packet = PacketOf("PINGRESP", 0, body)
    OBVIOUS
  <2>2. packet.type = "PINGRESP"
    BY <2>1 DEF PacketOf
  <2>3. Handled(packet) = [signal |-> "pong"]
    BY <2>2 DEF Handled
  <2>4. SignalFor(a, a) = [signal |-> "pong"]
    BY <1>1, Zenon DEF SignalFor
  <2>5. QED
    BY <2>1, <2>3, <2>4, Zenon
<1>8. QED
  BY <1>5, <1>6, <1>7, Zenon DEF Says

LEMMA AnswerSays ==
    ASSUME NEW a, IsAnswer(a)
    PROVE  Says(BrokerWrites(a), SignalFor(a, a))
<1>1. ASSUME NEW t \in {"UNSUBACK", "PUBACK", "PUBREL"}, NEW i \in Uint16, a = [type |-> t, id |-> i]
      PROVE  Says(BrokerWrites(a), SignalFor(a, a))
  <2>1. \E h, flags : IdentifierFirst(h, t, flags)
    BY DEF IdentifierFirst
  <2>2. QED
    BY <1>1, <2>1, IdentifierSays
<1>2. ASSUME NEW c \in 0 .. 5, a = [type |-> "CONNACK", code |-> c]
      PROVE  Says(BrokerWrites(a), SignalFor(a, a))
  BY <1>2, ConnackSays
<1>3. ASSUME NEW i \in Uint16, NEW c \in {0, 1, 2, 128}, a = [type |-> "SUBACK", id |-> i, code |-> c]
      PROVE  Says(BrokerWrites(a), SignalFor(a, a))
  BY <1>3, SubackSays
<1>4. CASE a = [type |-> "PINGRESP"]
  BY <1>4, PingrespSays
<1>5. QED
  BY <1>1, <1>2, <1>3, <1>4 DEF IsAnswer

\* Each byte of an ASCII text is a character.
LEMMA AsciiLength ==
    ASSUME NEW t \in Seq(Byte), Ascii(t)
    PROVE  Utf16Length(t) = Len(t)
<1>1. Len(t) \in Nat /\ DOMAIN t = 1 .. Len(t)
  BY LenProperties
<1>2. \A i \in 1 .. Len(t) : t[i] < 128 /\ t[i] \in Nat
  <2>1. \A b \in Byte : b \in Nat
    BY DEF Byte
  <2>2. \A i \in 1 .. Len(t) : t[i] \in Byte
    BY ElementOfSeq
  <2>3. \A i \in 1 .. Len(t) : t[i] < 128
    BY <1>1 DEF Ascii
  <2>4. QED
    BY <2>1, <2>2, <2>3, Zenon
<1>3. {i \in DOMAIN t : t[i] \notin 128 .. 191} = 1 .. Len(t)
  <2>1. \A b \in Nat : b < 128 => b \notin 128 .. 191
    OBVIOUS
  <2>2. \A i \in 1 .. Len(t) : t[i] \notin 128 .. 191
    BY <1>2, <2>1, Zenon
  <2>3. QED
    BY <1>1, <2>2, Zenon
<1>4. {i \in DOMAIN t : t[i] >= 240} = {}
  <2>1. \A i \in 1 .. Len(t) : ~ (t[i] >= 240)
    BY <1>2
  <2>2. QED
    BY <1>1, <2>1, Zenon
<1>5. Cardinality(1 .. Len(t)) = Len(t)
  <2>1. Cardinality(1 .. Len(t)) = IF 1 > Len(t) THEN 0 ELSE Len(t) - 1 + 1
    BY <1>1, FS_Interval
  <2>2. QED
    BY <1>1, <2>1
<1>6. Cardinality({}) = 0
  BY FS_EmptySet
<1>7. Utf16Length(t) = Len(t) + 0
  BY <1>3, <1>4, <1>5, <1>6, Zenon DEF Utf16Length
<1>8. QED
  BY <1>1, <1>7

LEMMA PublishSays ==
    ASSUME NEW a, IsPublish(a)
    PROVE  /\ a.type = "PUBLISH"
           /\ \E s : Says(BrokerWrites(a), s) /\ (Ascii(a.topic) => s = PublicationOf(a))
<1>1. PICK t, m, q, id :
        /\ IsPublication(t, m, q, id)
        /\ a = [type |-> "PUBLISH", topic |-> t, message |-> m, qos |-> q, retain |-> FALSE, id |-> id]
  BY DEF IsPublish
<1>2. a.type = "PUBLISH" /\ a.topic = t /\ a.message = m /\ a.qos = q /\ a.id = id
  BY <1>1
<1>3. PICK body, k : IsPublishPacket(Encode(a), body, t, m, q, id, k)
  BY <1>1, PublishPacket
<1>4. IsPacket(Encode(a), "PUBLISH", 2 * q, body) /\ k = IF q = 0 THEN 0 ELSE 2
  BY <1>3 DEF IsPublishPacket
<1>5. PICK e : e = IF q = 0 THEN <<>> ELSE EncodeNumber(id)
  OBVIOUS
<1>6. PICK l : l = Len(t)
  OBVIOUS
<1>7. IsPublishBody(body, t, l, e, k, m)
  BY <1>3, <1>5, <1>6, Zenon DEF IsPublishPacket
<1>8. q \in 0 .. 2 /\ id \in Uint16 /\ (q = 0 => id = 0) /\ t \in Seq(Byte)
  BY <1>1 DEF IsPublication, Short
<1>9. /\ l \in Nat /\ k \in Nat /\ Len(m) \in Nat /\ Len(body) = ((2 + l) + k) + Len(m)
      /\ Number(body[1], body[2]) = l /\ SubSeq(body, 3, 2 + l) = t
      /\ Drop(body, 2 + l) = e \o m
  <2>1. /\ l \in Nat /\ k \in Nat
        /\ Number(body[1], body[2]) = l /\ SubSeq(body, 3, 2 + l) = t
        /\ Drop(body, 2 + l) = e \o m
    BY <1>7, PublishBody
  <2>2. Len(m) \in Nat
    BY <1>7, PublishBody
  <2>3. Len(body) = ((2 + l) + k) + Len(m)
    BY <1>7, PublishBody
  <2>4. QED
    BY <2>1, <2>2, <2>3
<1>10. PICK flags : flags = 2 * q
  OBVIOUS
<1>11. HasQoS(flags) /\ (flags \div 2) % 4 = q
  BY <1>8, <1>10 DEF HasQoS
<1>12. BrokerWrites(a) = Encode(a)
  BY <1>2 DEF BrokerWrites, Encode
<1>13. PICK s : s = Handled(PacketOf("PUBLISH", flags, body))
  OBVIOUS
<1>14. Says(BrokerWrites(a), s)
  BY <1>4, <1>10, <1>11, <1>12, <1>13, Zenon DEF Says
<1>15. ASSUME Ascii(t) PROVE s = PublicationOf(a)
  <2>1. PICK packet : packet = PacketOf("PUBLISH", flags, body)
    OBVIOUS
  <2>2. packet.type = "PUBLISH" /\ packet.payload = body /\ packet.qos = q
    BY <1>11, <2>1 DEF PacketOf
  <2>3. s = ParsePUBLISH(packet)
    BY <1>13, <2>1, <2>2 DEF Handled
  <2>4. PICK rest : rest = e \o m
    OBVIOUS
  <2>5. PICK hasId \in BOOLEAN : hasId = (q # 0)
    OBVIOUS
  <2>6. HasIdentifier(packet) = hasId
    BY <2>2, <2>5 DEF HasIdentifier, QoS
  <2>7. ~ (Len(body) < 2 \/ Len(body) - 2 < l)
    BY <1>9
  <2>8. ~ (Utf16Length(t) # l)
    BY <1>6, <1>8, <1>15, AsciiLength
  <2>9. /\ hasId => Number(rest[1], rest[2]) = id /\ Drop(rest, 2) = m /\ ~ (Len(rest) < 2)
        /\ ~ hasId => rest = m /\ id = 0
    <3>1. m \in Seq(Byte)
      BY <1>1 DEF IsPublication, Fits
    <3>2. CASE q = 0
      <4>1. e = <<>>
        BY <1>5, <3>2
      <4>2. rest = m
        BY <2>4, <3>1, <4>1, ConcatEmptySeq
      <4>3. QED
        BY <1>8, <2>5, <3>2, <4>2
    <3>3. CASE q # 0
      <4>1. e = EncodeNumber(id)
        BY <1>5, <3>3
      <4>2. IsString(e, 2)
        BY <1>8, <4>1, StringNumber
      <4>3. PICK n \in Nat : n = Len(m)
        BY <1>9
      <4>4. IsString(m, n)
        BY <3>1, <4>3 DEF IsString
      <4>5. IsString(rest, 2 + n)
        BY <2>4, <4>2, <4>4, JoinStrings
      <4>6. Holds(rest, 1, rest)
        BY <4>5, HoldsItself DEF IsString
      <4>7. HoldsBoth(rest, 1, e, 2, 3, m, n)
        BY <2>4, <4>2, <4>4, <4>6 DEF HoldsBoth
      <4>8. Holds(rest, 1, e) /\ Holds(rest, 3, m)
        BY <4>7, HoldsEach
      <4>9. HoldsNumberAt(rest, 1, 2, id)
        BY <1>8, <4>1, <4>8 DEF HoldsNumberAt
      <4>10. Number(rest[1], rest[2]) = id
        BY <4>9, HoldsNumber
      <4>11. Len(rest) = 2 + n
        BY <4>5 DEF IsString
      <4>12. 3 + Len(m) = Len(rest) + 1 /\ 2 \in Nat /\ 2 + 1 = 3 /\ ~ (Len(rest) < 2)
        BY <4>3, <4>11
      <4>13. Drop(rest, 2) = m
        BY <4>8, <4>12, HeldRest
      <4>14. QED
        BY <2>5, <3>3, <4>10, <4>12, <4>13
    <3>4. QED
      BY <3>2, <3>3
  <2>10. ParsePUBLISH(packet) =
           [signal |-> "publish", qos |-> q, topic |-> t,
            id      |-> IF hasId THEN Number(rest[1], rest[2]) ELSE 0,
            message |-> IF hasId THEN Drop(rest, 2) ELSE rest]
    <3>1. ~ (Utf16Length(t) # l \/ (hasId /\ Len(rest) < 2))
      BY <2>8, <2>9, Zenon
    <3>2. Drop(body, 2 + l) = rest
      BY <1>9, <2>4, Zenon
    <3>3. QED
      BY <1>9, <2>2, <2>6, <2>7, <3>1, <3>2, Zenon DEF ParsePUBLISH
  <2>11. (IF hasId THEN Number(rest[1], rest[2]) ELSE 0) = id /\ (IF hasId THEN Drop(rest, 2) ELSE rest) = m
    BY <2>9, Zenon
  <2>12. PublicationOf(a) = [signal |-> "publish", qos |-> q, topic |-> t, id |-> id, message |-> m]
    BY <1>2, Zenon DEF PublicationOf
  <2>13. QED
    BY <2>3, <2>10, <2>11, <2>12, Zenon
<1>16. QED
  BY <1>2, <1>14, <1>15, Zenon

\* The answers to a request name it.
LEMMA AnswersAreAnswers ==
    ASSUME NEW p, IsRequest(p), NEW a \in Answers(BrokerReads(Encode(Announced(p))))
    PROVE  IsAnswer(a) /\ a.type # "PUBLISH" /\ SignalFor(p, a) = SignalFor(a, a)
<1>1. CASE IsConnect(p)
  <2>1. BrokerReads(Encode(Announced(p))).type = "CONNECT"
    BY <1>1, AnnouncedConnect, ConnectRead
  <2>2. a \in [type : {"CONNACK"}, code : 0 .. 5]
    BY <2>1 DEF Answers
  <2>3. a.type = "CONNACK" /\ a.code \in 0 .. 5 /\ a = [type |-> "CONNACK", code |-> a.code]
    BY <2>2
  <2>4. IsAnswer(a)
    BY <2>3, Zenon DEF IsAnswer
  <2>5. SignalFor(p, a) = SignalFor(a, a)
    BY <2>3, Zenon DEF SignalFor
  <2>6. QED
    BY <2>3, <2>4, <2>5
<1> SUFFICES ASSUME ~ IsConnect(p)
             PROVE  IsAnswer(a) /\ a.type # "PUBLISH" /\ SignalFor(p, a) = SignalFor(a, a)
  BY <1>1
<1>0. a \in Answers(BrokerReads(Encode(p)))
  BY AnnouncedRequest, Zenon
<1>2. CASE IsPublish(p)
  <2>1. PICK t, m, q, id :
          /\ IsPublication(t, m, q, id)
          /\ p = [type |-> "PUBLISH", topic |-> t, message |-> m, qos |-> q, retain |-> FALSE, id |-> id]
    BY <1>2 DEF IsPublish
  <2>2. BrokerReads(Encode(p)) = p
    BY <1>2, PublishRead
  <2>3. p.type = "PUBLISH" /\ p.id = id /\ id \in Uint16
    BY <2>1 DEF IsPublication
  <2>4. a \in [type : {"PUBACK"}, id : {p.id}]
    BY <1>0, <2>2, <2>3 DEF Answers
  <2>5. a.type = "PUBACK" /\ a.id = p.id /\ a = [type |-> "PUBACK", id |-> p.id]
    BY <2>4
  <2>6. IsAnswer(a)
    BY <2>3, <2>5 DEF IsAnswer
  <2>7. SignalFor(p, a) = SignalFor(a, a)
    BY <2>5, Zenon DEF SignalFor
  <2>8. QED
    BY <2>5, <2>6, <2>7
<1>3. CASE IsSubscribe(p)
  <2>1. PICK id \in Uint16, q \in 0 .. 2, t \in Seq(Byte) :
          Short(t) /\ p = [type |-> "SUBSCRIBE", id |-> id, filters |-> <<[topic |-> t, qos |-> q]>>]
    BY <1>3 DEF IsSubscribe
  <2>2. BrokerReads(Encode(p)) = p
    BY <1>3, SubscribeRead
  <2>3. p.type = "SUBSCRIBE" /\ p.id = id /\ p.filters[1].qos = q
    BY <2>1
  <2>4. a \in [type : {"SUBACK"}, id : {id}, code : {128} \cup 0 .. q]
    BY <1>0, <2>2, <2>3 DEF Answers
  <2>5. a.type = "SUBACK" /\ a.id = id /\ a.code \in {128} \cup 0 .. q
        /\ a = [type |-> "SUBACK", id |-> id, code |-> a.code]
    BY <2>4
  <2>6. a.code \in {0, 1, 2, 128}
    BY <2>1, <2>5
  <2>7. IsAnswer(a)
    BY <2>1, <2>5, <2>6 DEF IsAnswer
  <2>8. SignalFor(p, a) = SignalFor(a, a)
    BY <2>3, <2>5, Zenon DEF SignalFor
  <2>9. QED
    BY <2>5, <2>7, <2>8
<1>4. CASE IsUnsubscribe(p)
  <2>1. PICK id \in Uint16, t \in Seq(Byte) : p = [type |-> "UNSUBSCRIBE", id |-> id, topics |-> <<t>>]
    BY <1>4 DEF IsUnsubscribe
  <2>2. BrokerReads(Encode(p)) = p
    BY <1>4, UnsubscribeRead
  <2>3. p.type = "UNSUBSCRIBE" /\ p.id = id
    BY <2>1
  <2>4. a \in [type : {"UNSUBACK"}, id : {p.id}]
    BY <1>0, <2>2, <2>3 DEF Answers
  <2>5. a.type = "UNSUBACK" /\ a.id = p.id /\ a = [type |-> "UNSUBACK", id |-> p.id]
    BY <2>4
  <2>6. IsAnswer(a)
    BY <2>1, <2>3, <2>5 DEF IsAnswer
  <2>7. SignalFor(p, a) = SignalFor(a, a)
    BY <2>5, Zenon DEF SignalFor
  <2>8. QED
    BY <2>5, <2>6, <2>7
<1>5. CASE IsAcknowledgement(p)
  <2>1. PICK type \in {"PUBACK", "PUBREC", "PUBCOMP"}, id \in Uint16 : p = [type |-> type, id |-> id]
    BY <1>5 DEF IsAcknowledgement
  <2>2. BrokerReads(Encode(p)) = p
    BY <1>5, AcknowledgementRead
  <2>3. p.type = type /\ p.id = id
    BY <2>1
  <2>4. a \in [type : {"PUBREL"}, id : {p.id}]
    BY <1>0, <2>1, <2>2, <2>3 DEF Answers
  <2>5. a.type = "PUBREL" /\ a.id = p.id /\ a = [type |-> "PUBREL", id |-> p.id]
    BY <2>4
  <2>6. IsAnswer(a)
    BY <2>1, <2>3, <2>5 DEF IsAnswer
  <2>7. SignalFor(p, a) = SignalFor(a, a)
    BY <2>5, Zenon DEF SignalFor
  <2>8. QED
    BY <2>5, <2>6, <2>7
<1>6. CASE IsBare(p)
  <2>1. PICK type \in {"PINGREQ", "DISCONNECT"} : p = [type |-> type]
    BY <1>6 DEF IsBare
  <2>2. BrokerReads(Encode(p)) = p
    BY <1>6, BareRead
  <2>3. p.type = type
    BY <2>1
  <2>4. a \in [type : {"PINGRESP"}]
    BY <1>0, <2>1, <2>2, <2>3 DEF Answers
  <2>5. a.type = "PINGRESP" /\ a = [type |-> "PINGRESP"]
    BY <2>4
  <2>6. IsAnswer(a)
    BY <2>5 DEF IsAnswer
  <2>7. SignalFor(p, a) = SignalFor(a, a)
    BY <2>5, Zenon DEF SignalFor
  <2>8. QED
    BY <2>5, <2>6, <2>7
<1>7. QED
  BY <1>2, <1>3, <1>4, <1>5, <1>6 DEF IsRequest

-----------------------------------------------------------------------------
(* The exchange *)

\* What the client holds is the answer to its request, or a publication nobody asked for.
Replied(p, a) ==
    \/ p = Nothing /\ IsPublish(a)
    \/ IsRequest(p) /\ a \in Answers(BrokerReads(Encode(Announced(p))))

StepOK == step \in {"idle", "toBroker", "read", "toClient", "parsed", "head", "rejected"}

\* The bytes under way are those of what was meant, whoever reads them.
ExchangeInv ==
    /\ StepOK
    /\ step \in {"idle", "rejected", "head"} => frame \in Seq(Byte)
    /\ step = "idle" => sent = Nothing
    /\ step \in {"toBroker", "read"} => IsRequest(sent) /\ frame = Encode(Announced(sent))
    /\ step = "read" => seen = BrokerReads(frame)
    /\ step \in {"toClient", "parsed"} => Replied(sent, answer) /\ frame \in Shapes(BrokerWrites(answer))
    /\ step = "parsed" => seen = Parse(frame)

LEMMA ExchangeInit == Init => ExchangeInv
<1>1. <<>> \in Seq(Byte)
  BY EmptySeq
<1>2. QED
  BY <1>1 DEF Init, ExchangeInv, StepOK

\* The client begins to write, or refuses to.
Begun ==
    /\ step = "idle"
    /\ \/ step' = "toBroker" /\ IsRequest(sent') /\ frame' = Encode(Announced(sent'))
       \/ step' = "rejected" /\ frame' = frame

LEMMA TextsOf == \A t \in Texts : Short(t)
BY TextsAreShort

LEMMA UserNamesAreShort == \A u \in UserNames : Short(u)
BY UserNamesAssumption DEF Short

LEMMA PasswordsArePasswords ==
    ASSUME NEW x \in Passwords
    PROVE  IsPassword(x)
<1>1. /\ x \in Seq(Seq(Byte)) /\ Len(x) <= 1
      /\ \A i \in DOMAIN x : Len(x[i]) < 65535
  BY PasswordsAssumption
<1>2. CASE Len(x) = 0
  <2>1. x = <<>>
    BY <1>1, <1>2, EmptySeq
  <2>2. QED
    BY <2>1 DEF IsPassword
<1>3. CASE Len(x) = 1
  <2>1. x[1] \in Seq(Byte) /\ Len(x[1]) < 65535
    BY <1>1, <1>3
  <2>2. x = <<x[1]>>
    BY <1>1, <1>3
  <2>3. Short(x[1])
    BY <2>1 DEF Short
  <2>4. QED
    BY <2>2, <2>3, Zenon DEF IsPassword
<1>4. Len(x) = 0 \/ Len(x) = 1
  <2>1. PICK n \in Nat : n = Len(x)
    BY <1>1, LenProperties
  <2>2. n <= 1
    <3>1. Len(x) <= 1
      BY PasswordsAssumption
    <3>2. QED
      BY <2>1, <3>1
  <2>3. n = 0 \/ n = 1
    BY <2>2
  <2>4. QED
    BY <2>1, <2>3, Zenon
<1>5. QED
  BY <1>2, <1>3, <1>4

LEMMA ConnectsBegin == ClientConnects => Begun
<1> SUFFICES ASSUME ClientConnects
             PROVE  Begun
  OBVIOUS
<1>1. ASSUME NEW f, IsRecordOfWill(f), NEW w \in Wills \cup LongWills,
             NEW u, Short(u), NEW x, IsPassword(x),
             Connect(f, w, u, x), step = "idle"
      PROVE  Begun
  <2>1. IsWill(w)
    BY WillsAreWills
  <2>2. PICK h \in HandedOver(w) :
           TransmitAs(Wanted(w, u, x), ConnectPacket(<< 99 >>, Assign(f, h), u, x))
    BY <1>1 DEF Connect
  <2>3. PICK wanted : wanted = Wanted(w, u, x)
    OBVIOUS
  <2>4. IsRequest(wanted) /\ Announced(wanted) = ConnectPacket(<<99>>, Assign(f, h), u, x)
    BY <1>1, <2>1, <2>3, ConnectWritten
  <2>5. step' = "toBroker" /\ sent' = wanted /\ frame' = Encode(Announced(wanted))
    BY <2>2, <2>3, <2>4, Zenon DEF TransmitAs
  <2>6. QED
    BY <1>1, <2>4, <2>5, Zenon DEF Begun
<1>2. step = "idle"
  BY DEF ClientConnects
<1>3. ASSUME NEW f \in FormerWills, NEW w \in Wills, NEW u \in UserNames,
             NEW x \in Passwords, Connect(f, w, u, x)
      PROVE  Begun
  <2>1. IsRecordOfWill(f) /\ w \in Wills \cup LongWills /\ Short(u) /\ IsPassword(x)
    BY FormerWillIsAny, UserNamesAreShort, PasswordsArePasswords
  <2>2. QED
    BY <1>1, <1>2, <1>3, <2>1, Zenon
<1>4. ASSUME NEW w \in LongWills, Connect(NoWill, w, <<>>, <<>>)
      PROVE  Begun
  <2>1. IsRecordOfWill(NoWill) /\ w \in Wills \cup LongWills
    BY FormerWillIsAny
  <2>2. Short(<<>>) /\ IsPassword(<<>>)
    BY EmptyIsShort DEF IsPassword
  <2>3. QED
    BY <1>1, <1>2, <1>4, <2>1, <2>2, Zenon
<1>5. QED
  BY <1>3, <1>4, Zenon DEF ClientConnects

\* Any other packet is announced as it was meant.
LEMMA TransmissionBegins ==
    ASSUME NEW p, IsRequest(p), p.type # "CONNECT", step = "idle", Transmit(p)
    PROVE  Begun
<1>1. step' = "toBroker" /\ sent' = p /\ frame' = Encode(p)
  BY DEF Transmit, TransmitAs
<1>2. Announced(p) = p
  BY AnnouncedOther
<1>3. QED
  BY <1>1, <1>2, Zenon DEF Begun

LEMMA PacketTypesSent ==
    \A p \in ClientPackets :
        p.type \in {"PUBLISH", "PUBACK", "PUBREC", "PUBCOMP", "PINGREQ", "DISCONNECT"}
BY DEF ClientPackets, PublishPackets, LongPublications

LEMMA RequestsBegin == ClientSends \/ ClientSubscribes \/ ClientUnsubscribes => Begun
<1>1. ASSUME ClientSends PROVE Begun
  <2>1. PICK p \in ClientPackets : Transmit(p)
    BY <1>1 DEF ClientSends
  <2>2. IsRequest(p) /\ p.type # "CONNECT"
    BY ClientPacketsAreRequests, PacketTypesSent
  <2>3. QED
    BY <1>1, <2>1, <2>2, TransmissionBegins DEF ClientSends
<1>2. ASSUME ClientSubscribes PROVE Begun
  <2>1. PICK t \in Texts, q \in 0 .. 2, i \in Identifiers : Subscribe(t, q, i)
    BY <1>2 DEF ClientSubscribes
  <2>2. step = "idle"
    BY <1>2 DEF ClientSubscribes
  <2>3. CASE Reject("SUBSCRIBE", t)
    BY <2>2, <2>3 DEF Reject, Begun
  <2>4. ASSUME Transmit([type |-> "SUBSCRIBE", id |-> i, filters |-> <<[topic |-> t, qos |-> q]>>])
        PROVE  Begun
    <3>1. PICK p : p = [type |-> "SUBSCRIBE", id |-> i, filters |-> <<[topic |-> t, qos |-> q]>>]
      OBVIOUS
    <3>2. IsRequest(p)
      <4>1. i \in Uint16 /\ Short(t) /\ t \in Seq(Byte)
        BY IdentifiersAssumption, TextsOf DEF Short
      <4>2. QED
        BY <3>1, <4>1, Zenon DEF IsRequest, IsSubscribe
    <3>3. p.type # "CONNECT" /\ Transmit(p)
      BY <2>4, <3>1
    <3>4. QED
      BY <2>2, <3>2, <3>3, TransmissionBegins
  <2>5. QED
    BY <2>1, <2>3, <2>4, Zenon DEF Subscribe
<1>3. ASSUME ClientUnsubscribes PROVE Begun
  <2>1. PICK t \in Texts, i \in Identifiers : Unsubscribe(t, i)
    BY <1>3 DEF ClientUnsubscribes
  <2>2. step = "idle"
    BY <1>3 DEF ClientUnsubscribes
  <2>3. CASE Reject("UNSUBSCRIBE", t)
    BY <2>2, <2>3 DEF Reject, Begun
  <2>4. ASSUME Transmit([type |-> "UNSUBSCRIBE", id |-> i, topics |-> <<t>>])
        PROVE  Begun
    <3>1. PICK p : p = [type |-> "UNSUBSCRIBE", id |-> i, topics |-> <<t>>]
      OBVIOUS
    <3>2. IsRequest(p)
      <4>1. i \in Uint16 /\ Short(t) /\ t \in Seq(Byte)
        BY IdentifiersAssumption, TextsOf DEF Short
      <4>2. QED
        BY <3>1, <4>1, Zenon DEF IsRequest, IsUnsubscribe
    <3>3. p.type # "CONNECT" /\ Transmit(p)
      BY <2>4, <3>1
    <3>4. QED
      BY <2>2, <3>2, <3>3, TransmissionBegins
  <2>5. QED
    BY <2>1, <2>3, <2>4, Zenon DEF Unsubscribe
<1>4. QED
  BY <1>1, <1>2, <1>3

LEMMA ExchangeStep ==
    ASSUME ExchangeInv, [Next]_vars
    PROVE  ExchangeInv'
<1>1. CASE UNCHANGED vars
  BY <1>1, Zenon DEF vars, ExchangeInv, StepOK
<1>2. CASE Begun
  <2>1. frame \in Seq(Byte)
    BY <1>2 DEF Begun, ExchangeInv
  <2>2. QED
    BY <1>2, <2>1 DEF Begun, ExchangeInv, StepOK
<1>3. CASE BrokerReceives
  BY <1>3 DEF BrokerReceives, ExchangeInv, StepOK
<1>4. CASE BrokerAnswers
  <2>1. PICK a \in Answers(seen) : BrokerSends(a)
    BY <1>4 DEF BrokerAnswers
  <2>2. step = "read"
    BY <1>4 DEF BrokerAnswers
  <2>3. IsRequest(sent) /\ seen = BrokerReads(Encode(Announced(sent)))
    BY <2>2 DEF ExchangeInv
  <2>4. Replied(sent, a)
    BY <2>1, <2>3, Zenon DEF Replied
  <2>5. step' = "toClient" /\ sent' = sent /\ answer' = a /\ frame' \in Shapes(BrokerWrites(a))
    BY <2>1 DEF BrokerSends
  <2>6. Replied(sent', answer') /\ frame' \in Shapes(BrokerWrites(answer'))
    BY <2>4, <2>5, Zenon
  <2>7. QED
    BY <2>5, <2>6 DEF ExchangeInv, StepOK
<1>5. CASE BrokerPublishes
  <2>1. PICK a \in PublishPackets(TopicNames, 0 .. 2) \cup LongPublications : BrokerSends(a)
    BY <1>5 DEF BrokerPublishes
  <2>2. sent = Nothing
    BY <1>5 DEF BrokerPublishes, ExchangeInv
  <2>3. IsPublish(a)
    <3>1. 0 .. 2 \subseteq 0 .. 2
      OBVIOUS
    <3>2. CASE a \in PublishPackets(TopicNames, 0 .. 2)
      BY <3>1, <3>2, TopicNamesAreShort, PublicationsArePublish
    <3>3. CASE a \in LongPublications
      BY <3>3, LongPublicationsArePublish
    <3>4. QED
      BY <3>2, <3>3
  <2>4. step' = "toClient" /\ sent' = sent /\ answer' = a /\ frame' \in Shapes(BrokerWrites(a))
    BY <2>1 DEF BrokerSends
  <2>5. Replied(sent', answer') /\ frame' \in Shapes(BrokerWrites(answer'))
    BY <2>2, <2>3, <2>4, Zenon DEF Replied
  <2>6. QED
    BY <2>4, <2>5 DEF ExchangeInv, StepOK
<1>6. CASE ClientReceives
  BY <1>6 DEF ClientReceives, ExchangeInv, StepOK
<1>7. ASSUME NEW n \in Lengths, LargePacket(n) PROVE ExchangeInv'
  <2>1. PICK d : d = EncodeLength(n)
    OBVIOUS
  <2>2. d \in Seq(Byte)
    <3>1. n \in 0 .. MAXIMUM_CONTROL_PACKET_SIZE
      BY LengthsAssumption
    <3>2. IsLengthField(d, n, 5)
      BY <2>1, <3>1, LengthField
    <3>3. QED
      BY <3>2 DEF IsLengthField
  <2>3. PICK h \in Byte : h = 16 * PacketType.PUBLISH
    BY DEF PacketType, Byte
  <2>4. <<h>> \in Seq(Byte)
    OBVIOUS
  <2>5. <<h>> \o d \in Seq(Byte)
    BY <2>2, <2>4, ConcatProperties
  <2>6. step' = "head" /\ frame' = <<h>> \o d
    BY <1>7, <2>1, <2>3, Zenon DEF LargePacket
  <2>7. frame' \in Seq(Byte)
    BY <2>5, <2>6
  <2>8. QED
    BY <2>6, <2>7 DEF ExchangeInv, StepOK
<1>8. CASE NextExchange
  <2>1. <<>> \in Seq(Byte)
    BY EmptySeq
  <2>2. QED
    BY <1>8, <2>1 DEF NextExchange, ExchangeInv, StepOK
<1>9. QED
  BY <1>1, <1>2, <1>3, <1>4, <1>5, <1>6, <1>7, <1>8, ConnectsBegin, RequestsBegin, Zenon DEF Next

LEMMA ExchangeKept == Spec => []ExchangeInv
BY ExchangeInit, ExchangeStep, PTL DEF Spec

\* What the frame to the client says, and how it is to be reported.
LEMMA ReplySays ==
    ASSUME NEW p, NEW a, Replied(p, a)
    PROVE  \E s : /\ Says(BrokerWrites(a), s)
                  /\ p # Nothing => s = SignalFor(p, a)
                  /\ a.type = "PUBLISH" /\ Ascii(a.topic) => s = PublicationOf(a)
<1>1. CASE p = Nothing /\ IsPublish(a)
  <2>1. PICK s : Says(BrokerWrites(a), s) /\ (Ascii(a.topic) => s = PublicationOf(a))
    BY <1>1, PublishSays
  <2>2. QED
    BY <1>1, <2>1, Zenon
<1>2. CASE IsRequest(p) /\ a \in Answers(BrokerReads(Encode(Announced(p))))
  <2>1. IsAnswer(a) /\ a.type # "PUBLISH" /\ SignalFor(p, a) = SignalFor(a, a)
    BY <1>2, AnswersAreAnswers
  <2>2. Says(BrokerWrites(a), SignalFor(a, a))
    BY <2>1, AnswerSays
  <2>3. QED
    BY <2>1, <2>2, Zenon
<1>3. QED
  BY <1>1, <1>2 DEF Replied

LEMMA FramesAreBytes == ExchangeInv => FrameTypeOK
<1> SUFFICES ASSUME ExchangeInv
             PROVE  FrameTypeOK
  OBVIOUS
<1>1. CASE step \in {"idle", "rejected", "head"}
  BY <1>1 DEF ExchangeInv, FrameTypeOK, StepOK
<1>2. CASE step \in {"toBroker", "read"}
  <2>1. IsRequest(Announced(sent)) /\ frame = Encode(Announced(sent))
    BY <1>2, AnnouncedRequest DEF ExchangeInv
  <2>2. frame \in Seq(Byte)
    BY <2>1, RequestRead, Zenon
  <2>3. QED
    BY <2>2 DEF ExchangeInv, FrameTypeOK, StepOK
<1>3. CASE step \in {"toClient", "parsed"}
  <2>1. Replied(sent, answer) /\ frame \in Shapes(BrokerWrites(answer))
    BY <1>3 DEF ExchangeInv
  <2>2. PICK s : Says(BrokerWrites(answer), s)
    BY <2>1, ReplySays
  <2>3. frame \in Seq(Byte)
    BY <2>1, <2>2, SaysParsed
  <2>4. QED
    BY <2>3 DEF ExchangeInv, FrameTypeOK, StepOK
<1>4. QED
  BY <1>1, <1>2, <1>3 DEF ExchangeInv, StepOK

LEMMA ReadersAgree ==
    ExchangeInv => /\ PacketsReadBack /\ AnswersNameTheRequest
                   /\ AsciiPublicationsReported /\ PartOfPacketRefused
<1> SUFFICES ASSUME ExchangeInv
             PROVE  /\ PacketsReadBack /\ AnswersNameTheRequest
                    /\ AsciiPublicationsReported /\ PartOfPacketRefused
  OBVIOUS
<1>1. PacketsReadBack
  <2>1. ASSUME step = "read" PROVE SameButWillQoS(seen, Announced(sent))
    <3>1. IsRequest(sent) /\ seen = BrokerReads(Encode(Announced(sent)))
      BY <2>1 DEF ExchangeInv
    <3>2. SameButWillQoS(BrokerReads(Encode(Announced(sent))), Announced(sent))
      BY <3>1, AnnouncedRequest, RequestRead
    <3>3. QED
      BY <3>1, <3>2, Zenon
  <2>2. QED
    BY <2>1 DEF PacketsReadBack
<1>2. ASSUME step = "parsed"
      PROVE  /\ sent # Nothing /\ FullFrame => seen = SignalFor(sent, answer)
             /\ answer.type = "PUBLISH" /\ FullFrame /\ Ascii(answer.topic) => seen = PublicationOf(answer)
             /\ ~ FullFrame => seen = Error("INVALID_PACKET")
  <2>1. Replied(sent, answer) /\ frame \in Shapes(BrokerWrites(answer)) /\ seen = Parse(frame)
    BY <1>2 DEF ExchangeInv
  <2>2. PICK s : /\ Says(BrokerWrites(answer), s)
                 /\ sent # Nothing => s = SignalFor(sent, answer)
                 /\ answer.type = "PUBLISH" /\ Ascii(answer.topic) => s = PublicationOf(answer)
    BY <2>1, ReplySays
  <2>3. /\ FullFrame => seen = s
        /\ ~ FullFrame => seen = Error("INVALID_PACKET")
    <3>1. /\ Len(frame) >= Len(BrokerWrites(answer)) => Parse(frame) = s
          /\ ~ (Len(frame) >= Len(BrokerWrites(answer))) => Parse(frame) = Error("INVALID_PACKET")
      BY <2>1, <2>2, SaysParsed
    <3>2. QED
      BY <2>1, <3>1, Zenon DEF FullFrame
  <2>4. QED
    BY <2>2, <2>3, Zenon
<1>3. AnswersNameTheRequest
  BY <1>2, Zenon DEF AnswersNameTheRequest
<1>4. AsciiPublicationsReported
  BY <1>2, Zenon DEF AsciiPublicationsReported
<1>5. PartOfPacketRefused
  BY <1>2, Zenon DEF PartOfPacketRefused
<1>6. QED
  BY <1>1, <1>3, <1>4, <1>5

\* What is written to the socket are bytes, from either side and at every step.
\* (encode() of every packet class.)
THEOREM OnlyBytes == Spec => []FrameTypeOK
BY ExchangeKept, FramesAreBytes, PTL

\* Whatever the texts and messages are, the user names, passwords and former wills within their
\* assumptions, and the identifiers, a reader of the MQTT layout finds each of them again in what
\* the client writes, but for the QoS of the will and for credentials that are not complete.
\* (encode() and the variableHeader and payload of each packet class; the copies of QMqttWill.)
THEOREM EveryPacketReadBack == Spec => []PacketsReadBack
BY ExchangeKept, ReadersAgree, PTL

\* Whatever follows the answer in its frame, the client reports it under the identifier of
\* the request, for all 65536 of them.  (parseSUBACK, parsePUBACK, parseUNSUBACK, parsePUBREL.)
THEOREM EveryAnswerNamesItsRequest == Spec => []AnswersNameTheRequest
BY ExchangeKept, ReadersAgree, PTL

\* A publication under an ASCII topic is reported with all it has, up to the longest topic that
\* fits and the longest message of the model.  (parsePUBLISH.)
THEOREM AsciiTopicsReported == Spec => []AsciiPublicationsReported
BY ExchangeKept, ReadersAgree, PTL

\* No beginning of a packet the broker writes is taken for a packet, wherever it is cut.
\* (readPacket.)
THEOREM BeginningsRefused == Spec => []PartOfPacketRefused
BY ExchangeKept, ReadersAgree, PTL

-----------------------------------------------------------------------------
(* The check of topics *)

LEMMA Greatest ==
    ASSUME NEW S, S \subseteq Nat, S # {}, NEW n \in Nat, \A m \in S : m <= n
    PROVE  \E g \in S : \A m \in S : m <= g
<1> DEFINE T == {n - m : m \in S}
<1>1. T \subseteq Nat /\ T # {}
  <2>1. \A m \in S : n - m \in Nat
    OBVIOUS
  <2>2. QED
    BY <2>1
<1>2. PICK t \in T : \A u \in T : t <= u
  <2> HIDE DEF T
  <2> QED
    BY <1>1, Least
<1>3. PICK g \in S : t = n - g
  BY <1>2
<1>4. ASSUME NEW m \in S PROVE m <= g
  <2>1. n - m \in T
    OBVIOUS
  <2>2. n - g <= n - m
    BY <1>2, <1>3, <2>1
  <2>3. m \in Nat /\ g \in Nat
    OBVIOUS
  <2>4. QED
    BY <2>2, <2>3
<1>5. QED
  BY <1>4

\* A part lies between two ends a and b of the topic t, and has no end inside.
IsPart(t, a, b) ==
    /\ t \in Seq(Byte) /\ a \in 0 .. Len(t) /\ b \in 1 .. Len(t) + 1 /\ a < b
    /\ a # 0 => t[a] = Slash
    /\ b # Len(t) + 1 => t[b] = Slash
    /\ \A i \in DOMAIN t : (a < i /\ i < b) => t[i] # Slash

LEMMA EndsOf ==
    ASSUME NEW t \in Seq(Byte)
    PROVE  /\ Len(t) \in Nat /\ DOMAIN t = 1 .. Len(t)
           /\ \A e : e \in Ends(t) <=> \/ e = 0 \/ e = Len(t) + 1
                                       \/ e \in 1 .. Len(t) /\ t[e] = Slash
           /\ Ends(t) \subseteq 0 .. Len(t) + 1
<1>1. Len(t) \in Nat /\ DOMAIN t = 1 .. Len(t)
  BY LenProperties
<1>2. QED
  BY <1>1 DEF Ends

LEMMA PartsOf ==
    ASSUME NEW t \in Seq(Byte), NEW a, NEW b
    PROVE  <<a, b>> \in Parts(t) <=> IsPart(t, a, b)
<1>1. /\ Len(t) \in Nat /\ DOMAIN t = 1 .. Len(t)
      /\ \A e : e \in Ends(t) <=> \/ e = 0 \/ e = Len(t) + 1
                                  \/ e \in 1 .. Len(t) /\ t[e] = Slash
  BY EndsOf
<1>2. <<a, b>> \in Parts(t) <=>
         /\ a \in Ends(t) /\ b \in Ends(t) /\ a < b
         /\ \A e \in Ends(t) : e <= a \/ b <= e
  BY DEF Parts
<1>3. ASSUME a \in Ends(t), b \in Ends(t), a < b, \A e \in Ends(t) : e <= a \/ b <= e
      PROVE  IsPart(t, a, b)
  <2>1. a \in 0 .. Len(t) + 1 /\ b \in 0 .. Len(t) + 1
    BY <1>3, EndsOf
  <2>2. a \in 0 .. Len(t) /\ b \in 1 .. Len(t) + 1
    BY <1>1, <1>3, <2>1
  <2>3. a # 0 => t[a] = Slash
    BY <1>1, <1>3, <2>2
  <2>4. b # Len(t) + 1 => t[b] = Slash
    BY <1>1, <1>3, <2>2
  <2>5. ASSUME NEW i \in DOMAIN t, a < i, i < b PROVE t[i] # Slash
    <3>1. i \in 1 .. Len(t)
      BY <1>1
    <3>2. ~ (i <= a \/ b <= i)
      BY <2>1, <2>5, <3>1
    <3>3. i \notin Ends(t)
      BY <1>3, <3>2
    <3>4. QED
      BY <1>1, <3>1, <3>3
  <2>6. QED
    BY <1>3, <2>2, <2>3, <2>4, <2>5 DEF IsPart
<1>4. ASSUME IsPart(t, a, b)
      PROVE  a \in Ends(t) /\ b \in Ends(t) /\ a < b /\ \A e \in Ends(t) : e <= a \/ b <= e
  <2>1. a \in 0 .. Len(t) /\ b \in 1 .. Len(t) + 1 /\ a < b
    BY <1>4 DEF IsPart
  <2>2. a \in Ends(t) /\ b \in Ends(t)
    BY <1>1, <1>4, <2>1 DEF IsPart
  <2>3. ASSUME NEW e \in Ends(t) PROVE e <= a \/ b <= e
    <3>1. CASE e = 0 \/ e = Len(t) + 1
      BY <1>1, <2>1, <3>1
    <3>2. CASE e \in 1 .. Len(t) /\ t[e] = Slash
      <4>1. ~ (a < e /\ e < b)
        BY <1>1, <1>4, <3>2 DEF IsPart
      <4>2. QED
        BY <2>1, <3>2, <4>1
    <3>3. QED
      BY <1>1, <3>1, <3>2
  <2>4. QED
    BY <2>1, <2>2, <2>3
<1>5. QED
  BY <1>2, <1>3, <1>4

\* Every part has two ends.
LEMMA PartIsPair ==
    ASSUME NEW t \in Seq(Byte), NEW p \in Parts(t)
    PROVE  p = <<p[1], p[2]>> /\ IsPart(t, p[1], p[2])
<1>1. p \in Ends(t) \X Ends(t)
  BY DEF Parts
<1>2. p = <<p[1], p[2]>>
  BY <1>1
<1>3. <<p[1], p[2]>> \in Parts(t)
  BY <1>2
<1>4. QED
  BY <1>2, <1>3, PartsOf

\* The text of a part, and what of it isTopicNameValid looks at.
LEMMA TextOfPart ==
    ASSUME NEW t, NEW a, NEW b, IsPart(t, a, b)
    PROVE  /\ Text(t, <<a, b>>) \in Seq(Byte) /\ Len(Text(t, <<a, b>>)) = b - a - 1
           /\ \A i \in 1 .. Len(t) : (a < i /\ i < b) => Text(t, <<a, b>>)[i - a] = t[i]
<1>1. t \in Seq(Byte) /\ Len(t) \in Nat /\ a \in 0 .. Len(t) /\ b \in 1 .. Len(t) + 1 /\ a < b
  BY LenProperties DEF IsPart
<1>2. PICK m : m = a + 1
  OBVIOUS
<1>3. PICK n : n = b - 1
  OBVIOUS
<1>4. m \in 1 .. Len(t) + 1 /\ n \in m - 1 .. Len(t) /\ m \in Int /\ n \in Int
  BY <1>1, <1>2, <1>3
<1>5. Text(t, <<a, b>>) = SubSeq(t, m, n)
  BY <1>2, <1>3 DEF Text
<1>6. /\ SubSeq(t, m, n) \in Seq(Byte)
      /\ Len(SubSeq(t, m, n)) = n - m + 1
      /\ \A i \in 1 .. n - m + 1 : SubSeq(t, m, n)[i] = t[m + i - 1]
  BY <1>1, <1>4, SubSeqProperties
<1>7. n - m + 1 = b - a - 1
  BY <1>1, <1>2, <1>3
<1>8. ASSUME NEW i \in 1 .. Len(t), a < i, i < b
      PROVE  Text(t, <<a, b>>)[i - a] = t[i]
  <2>1. i - a \in 1 .. n - m + 1 /\ m + (i - a) - 1 = i
    BY <1>1, <1>2, <1>3, <1>8
  <2>2. QED
    BY <1>5, <1>6, <2>1
<1>9. QED
  BY <1>5, <1>6, <1>7, <1>8

\* What a part of one character is, and what holds a wildcard.
LEMMA SingleCharacter ==
    ASSUME NEW t, NEW a, NEW b, IsPart(t, a, b), NEW c \in Byte
    PROVE  Text(t, <<a, b>>) = <<c>> <=> (b = a + 2 /\ t[a + 1] = c)
<1>1. t \in Seq(Byte) /\ Len(t) \in Nat /\ a \in 0 .. Len(t) /\ b \in 1 .. Len(t) + 1 /\ a < b
  BY LenProperties DEF IsPart
<1>2. PICK s : s = Text(t, <<a, b>>)
  OBVIOUS
<1>3. /\ s \in Seq(Byte) /\ Len(s) = b - a - 1
      /\ \A i \in 1 .. Len(t) : (a < i /\ i < b) => s[i - a] = t[i]
  BY <1>2, TextOfPart
<1>s. s \in Seq(Byte) /\ Len(s) = b - a - 1
  BY <1>2, TextOfPart
<1>4. ASSUME s = <<c>> PROVE b = a + 2 /\ t[a + 1] = c
  <2>1. Len(s) = 1 /\ s[1] = c
    BY <1>4
  <2>2. b = a + 2
    <3>1. a \in Int /\ b \in Int
      BY <1>1
    <3>2. b - a - 1 = 1
      BY <1>s, <2>1
    <3>3. QED
      BY <3>1, <3>2
  <2>3. PICK i : i = a + 1
    OBVIOUS
  <2>4. i \in 1 .. Len(t) /\ a < i /\ i < b /\ i - a = 1
    BY <1>1, <2>2, <2>3
  <2>5. s[1] = t[i]
    BY <1>3, <2>4
  <2>6. QED
    BY <2>1, <2>2, <2>3, <2>5
<1>5. ASSUME b = a + 2, t[a + 1] = c PROVE s = <<c>>
  <2>1. Len(s) = 1
    BY <1>1, <1>3, <1>5
  <2>2. PICK i : i = a + 1
    OBVIOUS
  <2>3. i \in 1 .. Len(t) /\ a < i /\ i < b /\ i - a = 1
    BY <1>1, <1>5, <2>2
  <2>4. s[1] = c
    BY <1>3, <1>5, <2>2, <2>3
  <2>5. PICK u : u = <<c>>
    OBVIOUS
  <2>6. u \in Seq(Byte) /\ Len(u) = 1 /\ u[1] = c
    BY <2>5
  <2>7. Len(s) = Len(u) /\ \A j \in 1 .. Len(s) : s[j] = u[j]
    BY <2>1, <2>4, <2>6
  <2>8. QED
    BY <1>s, <2>5, <2>6, <2>7, SeqEqual
<1>6. QED
  BY <1>2, <1>4, <1>5

LEMMA HasCharacter ==
    ASSUME NEW t, NEW a, NEW b, IsPart(t, a, b), NEW c
    PROVE  Contains(Text(t, <<a, b>>), c) <=> \E i \in 1 .. Len(t) : a < i /\ i < b /\ t[i] = c
<1>1. t \in Seq(Byte) /\ Len(t) \in Nat /\ a \in 0 .. Len(t) /\ b \in 1 .. Len(t) + 1 /\ a < b
  BY LenProperties DEF IsPart
<1>2. PICK s : s = Text(t, <<a, b>>)
  OBVIOUS
<1>3. /\ s \in Seq(Byte) /\ Len(s) = b - a - 1
      /\ \A i \in 1 .. Len(t) : (a < i /\ i < b) => s[i - a] = t[i]
  BY <1>2, TextOfPart
<1>4. Contains(s, c) <=> \E j \in 1 .. Len(s) : s[j] = c
  BY DEF Contains
<1>5. ASSUME NEW j \in 1 .. Len(s), s[j] = c
      PROVE  \E i \in 1 .. Len(t) : a < i /\ i < b /\ t[i] = c
  <2>1. a + j \in 1 .. Len(t) /\ a < a + j /\ a + j < b /\ (a + j) - a = j
    BY <1>1, <1>3
  <2>2. QED
    BY <1>3, <1>5, <2>1
<1>6. ASSUME NEW i \in 1 .. Len(t), a < i, i < b, t[i] = c
      PROVE  \E j \in 1 .. Len(s) : s[j] = c
  <2>1. i - a \in 1 .. Len(s)
    BY <1>1, <1>3, <1>6
  <2>2. QED
    BY <1>3, <1>6, <2>1
<1>7. QED
  BY <1>2, <1>4, <1>5, <1>6

\* A character that is no slash is in a part.
LEMMA PartAround ==
    ASSUME NEW t \in Seq(Byte), NEW i \in 1 .. Len(t), t[i] # Slash
    PROVE  \E a, b : IsPart(t, a, b) /\ a < i /\ i < b
<1>1. /\ Len(t) \in Nat /\ DOMAIN t = 1 .. Len(t)
      /\ \A e : e \in Ends(t) <=> \/ e = 0 \/ e = Len(t) + 1
                                  \/ e \in 1 .. Len(t) /\ t[e] = Slash
      /\ Ends(t) \subseteq 0 .. Len(t) + 1
  BY EndsOf
<1>2. i \in Nat /\ 1 <= i /\ i <= Len(t) /\ i \notin Ends(t)
  BY <1>1
<1>3. PICK a \in Ends(t) : a < i /\ \A e \in Ends(t) : e < i => e <= a
  <2>1. PICK S : S = {e \in Ends(t) : e < i}
    OBVIOUS
  <2>2. S \subseteq Nat /\ 0 \in S /\ \A e \in S : e <= i
    BY <1>1, <1>2, <2>1
  <2>3. PICK g \in S : \A e \in S : e <= g
    BY <1>2, <2>2, Greatest
  <2>4. QED
    BY <2>1, <2>3
<1>4. PICK b \in Ends(t) : i < b /\ \A e \in Ends(t) : i < e => b <= e
  <2>1. PICK S : S = {e \in Ends(t) : i < e}
    OBVIOUS
  <2>2. S \subseteq Nat /\ Len(t) + 1 \in S
    BY <1>1, <1>2, <2>1
  <2>3. PICK g \in S : \A e \in S : g <= e
    BY <2>2, Least
  <2>4. QED
    BY <2>1, <2>3
<1>5. a \in Nat /\ b \in Nat
  BY <1>1
<1>6. a < b
  BY <1>2, <1>3, <1>4, <1>5
<1>7. \A e \in Ends(t) : e <= a \/ b <= e
  <2> TAKE e \in Ends(t)
  <2>1. e \in Nat /\ e # i
    BY <1>1, <1>2
  <2>2. e < i \/ i < e
    BY <1>2, <2>1
  <2>3. QED
    BY <1>3, <1>4, <2>2
<1>8. <<a, b>> \in Parts(t)
  BY <1>6, <1>7 DEF Parts
<1>9. QED
  BY <1>3, <1>4, <1>8, PartsOf

\* A part that is one character c fills a level of its own.
LEMMA WholeLevel ==
    ASSUME NEW t, NEW a, NEW b, IsPart(t, a, b), NEW i \in 1 .. Len(t), a + 1 = i, b = i + 1
    PROVE  (i = 1 \/ t[i - 1] = Slash) /\ (i = Len(t) \/ t[i + 1] = Slash)
<1>1. /\ Len(t) \in Nat /\ a \in 0 .. Len(t) /\ b \in 1 .. Len(t) + 1
      /\ a # 0 => t[a] = Slash
      /\ b # Len(t) + 1 => t[b] = Slash
  BY LenProperties DEF IsPart
<1>2. i - 1 = a /\ i + 1 = b
  BY <1>1
<1>3. i = 1 \/ t[i - 1] = Slash
  BY <1>1, <1>2
<1>4. i = Len(t) \/ t[i + 1] = Slash
  BY <1>1, <1>2
<1>5. QED
  BY <1>3, <1>4

Wildcard(c) == c = Hash \/ c = Plus

\* A part that holds a wildcard is "+", or the loop stops at it.
LEMMA WildcardDecides ==
    ASSUME NEW t, NEW a, NEW b, IsPart(t, a, b),
           NEW i \in 1 .. Len(t), a < i, i < b, Wildcard(t[i])
    PROVE  Decides(Text(t, <<a, b>>)) \/ (b = a + 2 /\ i = a + 1 /\ t[i] = Plus)
<1>1. Contains(Text(t, <<a, b>>), Hash) \/ Contains(Text(t, <<a, b>>), Plus)
  BY HasCharacter DEF Wildcard
<1>2. CASE Text(t, <<a, b>>) = <<Plus>>
  <2>1. Plus \in Byte
    BY DEF Plus, Byte
  <2>2. b = a + 2 /\ t[a + 1] = Plus
    BY <1>2, <2>1, SingleCharacter
  <2>3. a \in Nat /\ i \in Nat
    BY LenProperties DEF IsPart
  <2>4. i = a + 1
    BY <2>2, <2>3
  <2>5. QED
    BY <2>2, <2>4
<1>3. CASE Text(t, <<a, b>>) # <<Plus>>
  BY <1>1, <1>3 DEF Decides
<1>4. QED
  BY <1>2, <1>3

\* What the loop stops at holds a wildcard.
LEMMA DecidesWildcard ==
    ASSUME NEW t, NEW a, NEW b, IsPart(t, a, b), Decides(Text(t, <<a, b>>))
    PROVE  \E i \in 1 .. Len(t) : a < i /\ i < b /\ Wildcard(t[i])
<1>1. t \in Seq(Byte) /\ Len(t) \in Nat /\ a \in 0 .. Len(t) /\ b \in 1 .. Len(t) + 1 /\ a < b
  BY LenProperties DEF IsPart
<1>2. CASE Text(t, <<a, b>>) = <<Hash>>
  <2>1. Hash \in Byte
    BY DEF Hash, Byte
  <2>2. b = a + 2 /\ t[a + 1] = Hash
    BY <1>2, <2>1, SingleCharacter
  <2>3. a + 1 \in 1 .. Len(t) /\ a < a + 1 /\ a + 1 < b
    BY <1>1, <2>2
  <2>4. QED
    BY <2>2, <2>3 DEF Wildcard
<1>3. CASE Contains(Text(t, <<a, b>>), Hash) \/ Contains(Text(t, <<a, b>>), Plus)
  BY <1>3, HasCharacter DEF Wildcard
<1>4. QED
  BY <1>2, <1>3 DEF Decides

LEMMA RulesAreKept ==
    ASSUME NEW t \in Seq(Byte), IsTopicNameValid(t)
    PROVE  WildcardsInPlace(t)
<1>1. Len(t) \in Nat /\ DOMAIN t = 1 .. Len(t)
  BY EndsOf
<1>2. SUFFICES ASSUME NEW i \in 1 .. Len(t), Wildcard(t[i])
               PROVE  /\ i = 1 \/ t[i - 1] = Slash
                      /\ i = Len(t) \/ t[i + 1] = Slash
                      /\ t[i] = Hash => i = Len(t)
  BY <1>1 DEF WildcardsInPlace, Wildcard
<1>3. PICK a, b : IsPart(t, a, b) /\ a < i /\ i < b
  <2>1. t[i] # Slash
    BY <1>2 DEF Wildcard, Hash, Plus, Slash
  <2>2. QED
    BY <2>1, PartAround
<1>4. CASE b = a + 2 /\ i = a + 1 /\ t[i] = Plus
  <2>1. a \in Nat
    BY <1>1, <1>3 DEF IsPart
  <2>2. a + 1 = i /\ b = i + 1
    BY <1>4, <2>1
  <2>3. (i = 1 \/ t[i - 1] = Slash) /\ (i = Len(t) \/ t[i + 1] = Slash)
    BY <1>3, <2>2, WholeLevel
  <2>4. t[i] # Hash
    BY <1>4 DEF Hash, Plus
  <2>5. QED
    BY <2>3, <2>4
<1>5. CASE Decides(Text(t, <<a, b>>))
  <2>1. PICK S : S = {k \in 0 .. Len(t) : \E l : IsPart(t, k, l) /\ Decides(Text(t, <<k, l>>))}
    OBVIOUS
  <2>2. a \in S
    BY <1>3, <1>5, <2>1 DEF IsPart
  <2>3. PICK k \in S : \A m \in S : k <= m
    <3>1. 0 .. Len(t) \subseteq Nat
      BY <1>1
    <3>2. S \subseteq Nat /\ S # {}
      BY <2>1, <2>2, <3>1
    <3>3. QED
      BY <3>2, Least
  <2>4. PICK l : IsPart(t, k, l) /\ Decides(Text(t, <<k, l>>))
    BY <2>1, <2>3
  <2>5. PICK part : part = <<k, l>>
    OBVIOUS
  <2>6. part \in Parts(t) /\ part[1] = k /\ part[2] = l
    BY <2>4, <2>5, PartsOf
  <2>7. ASSUME NEW p \in Parts(t), p[1] < k, Decides(Text(t, p)) PROVE FALSE
    <3>1. p = <<p[1], p[2]>> /\ IsPart(t, p[1], p[2])
      BY PartIsPair
    <3>2. p[1] \in 0 .. Len(t)
      BY <3>1 DEF IsPart
    <3>3. Decides(Text(t, <<p[1], p[2]>>))
      BY <2>7, <3>1
    <3>4. p[1] \in S
      BY <2>1, <3>1, <3>2, <3>3
    <3>5. k <= p[1]
      BY <2>3, <3>4
    <3>6. k \in 0 .. Len(t)
      BY <2>1
    <3>7. k \in Int /\ p[1] \in Int
      BY <1>1, <3>2, <3>6
    <3>8. QED
      BY <2>7, <3>5, <3>7
  <2>8. DecidesFirst(t, part)
    BY <2>4, <2>5, <2>6, <2>7 DEF DecidesFirst
  <2>9. Text(t, part) = <<Hash>> /\ part[2] = Len(t) + 1
    BY <2>6, <2>8 DEF IsTopicNameValid
  <2>10. l = k + 2 /\ t[k + 1] = Hash /\ l = Len(t) + 1
    <3>1. Hash \in Byte
      BY DEF Hash, Byte
    <3>2. QED
      BY <2>4, <2>5, <2>6, <2>9, <3>1, SingleCharacter
  <2>11. k = a
    <3>0. k \in 0 .. Len(t) /\ a \in 0 .. Len(t) /\ k <= a
      BY <2>1, <2>2, <2>3
    <3>1. k \in Nat /\ a \in Nat /\ k <= a /\ a < Len(t)
      BY <1>1, <1>3, <3>0
    <3>2. k < a => a \in DOMAIN t /\ a < l /\ t[a] = Slash
      BY <1>1, <1>3, <2>10, <3>1 DEF IsPart
    <3>3. k < a => FALSE
      BY <2>4, <3>2 DEF IsPart
    <3>4. QED
      BY <3>1, <3>3
  <2>12. i = k + 1 /\ i = Len(t) /\ k \in Nat
    <3>1. k \in 0 .. Len(t) /\ k < i
      BY <1>3, <2>1, <2>11
    <3>2. k \in Int /\ i \in Int /\ Len(t) \in Int /\ 0 <= k /\ i <= Len(t) /\ k + 2 = Len(t) + 1
      BY <1>1, <2>10, <3>1
    <3>3. QED
      BY <3>1, <3>2
  <2>13. k + 1 = i /\ l = i + 1
    BY <2>10, <2>12
  <2>14. i = 1 \/ t[i - 1] = Slash
    BY <2>4, <2>13, WholeLevel
  <2>15. QED
    BY <2>12, <2>14
<1>6. QED
  BY <1>2, <1>3, <1>4, <1>5, WildcardDecides

LEMMA RulesSuffice ==
    ASSUME NEW t \in Seq(Byte), WildcardsInPlace(t)
    PROVE  IsTopicNameValid(t)
<1>1. Len(t) \in Nat /\ DOMAIN t = 1 .. Len(t)
  BY EndsOf
<1>2. SUFFICES ASSUME NEW part \in Parts(t), Decides(Text(t, part))
               PROVE  Text(t, part) = <<Hash>> /\ part[2] = Len(t) + 1
  BY DEF IsTopicNameValid, DecidesFirst
<1>3. PICK a : a = part[1]
  OBVIOUS
<1>4. PICK b : b = part[2]
  OBVIOUS
<1>5. part = <<a, b>> /\ IsPart(t, a, b)
  BY <1>3, <1>4, PartIsPair
<1>6. a \in 0 .. Len(t) /\ b \in 1 .. Len(t) + 1 /\ a < b
  BY <1>5 DEF IsPart
<1>7. PICK i \in 1 .. Len(t) : a < i /\ i < b /\ Wildcard(t[i])
  BY <1>2, <1>5, DecidesWildcard
<1>8. /\ i = 1 \/ t[i - 1] = Slash
      /\ i = Len(t) \/ t[i + 1] = Slash
      /\ t[i] = Hash => i = Len(t)
  BY <1>1, <1>7 DEF WildcardsInPlace, Wildcard
<1>9. \A j \in 1 .. Len(t) : a < j /\ j < b => t[j] # Slash
  BY <1>1, <1>5 DEF IsPart
<1>10. i = a + 1
  <2>1. CASE a < i - 1
    <3>1. i - 1 \in 1 .. Len(t) /\ i - 1 < b /\ i # 1
      BY <1>1, <1>6, <1>7, <2>1
    <3>2. QED
      BY <1>8, <1>9, <2>1, <3>1
  <2>2. QED
    BY <1>1, <1>6, <1>7, <2>1
<1>11. b = i + 1
  <2>1. CASE i + 1 < b
    <3>1. /\ Len(t) \in Int /\ i \in Int /\ a \in Int /\ b \in Int
          /\ 1 <= i /\ a < i /\ b <= Len(t) + 1
      BY <1>1, <1>6, <1>7
    <3>2. i + 1 \in 1 .. Len(t) /\ a < i + 1 /\ i # Len(t)
      BY <2>1, <3>1
    <3>3. QED
      BY <1>8, <1>9, <2>1, <3>2
  <2>2. QED
    BY <1>1, <1>6, <1>7, <2>1
<1>12. b = a + 2 /\ t[a + 1] = t[i]
  BY <1>6, <1>10, <1>11
<1>13. Hash \in Byte /\ Plus \in Byte
  BY DEF Hash, Plus, Byte
<1>14. CASE t[i] = Hash
  <2>1. Text(t, part) = <<Hash>>
    BY <1>5, <1>12, <1>13, <1>14, SingleCharacter
  <2>2. QED
    BY <1>4, <1>8, <1>11, <1>14, <2>1
<1>15. CASE t[i] = Plus
  <2>1. Text(t, part) = <<Plus>>
    BY <1>5, <1>12, <1>13, <1>15, SingleCharacter
  <2>2. <<Plus>> # <<Hash>>
    BY DEF Plus, Hash
  <2>3. QED
    BY <1>2, <2>1, <2>2 DEF Decides
<1>16. QED
  BY <1>7, <1>14, <1>15 DEF Wildcard

LEMMA EmptyTopicAccepted == WildcardsInPlace(<<>>)
BY DEF WildcardsInPlace

\* The check accepts what follows the rules, and the empty topic, which does not.
LEMMA CheckFollowsRules ==
    \A t \in Seq(Byte) : IsTopicNameValid(t) <=> (t = <<>> \/ FollowsRules(t))
<1>1. \A t \in Seq(Byte) : IsTopicNameValid(t) <=> WildcardsInPlace(t)
  BY RulesAreKept, RulesSuffice
<1>2. \A t \in Seq(Byte) : WildcardsInPlace(t) <=> (t = <<>> \/ FollowsRules(t))
  BY EmptyTopicAccepted, Zenon DEF FollowsRules
<1>3. QED
  BY <1>1, <1>2

\* What was refused failed the check, and what was requested passed it.
TopicsChecked ==
    /\ step = "rejected" => sent.topic \in Seq(Byte) /\ ~ IsTopicNameValid(sent.topic)
    /\ (sent.type = "SUBSCRIBE" /\ step # "rejected") =>
          sent.filters[1].topic \in Seq(Byte) /\ IsTopicNameValid(sent.filters[1].topic)
    /\ (sent.type = "UNSUBSCRIBE" /\ step # "rejected") =>
          sent.topics[1] \in Seq(Byte) /\ IsTopicNameValid(sent.topics[1])

\* Packets without a topic to check.
LEMMA OtherPackets ==
    ASSUME step' # "rejected", sent'.type \notin {"SUBSCRIBE", "UNSUBSCRIBE"}
    PROVE  TopicsChecked'
BY DEF TopicsChecked

LEMMA SubscribeChecked == ClientSubscribes => TopicsChecked'
<1> SUFFICES ASSUME ClientSubscribes PROVE TopicsChecked'
  OBVIOUS
<1>1. PICK t \in Texts, q \in 0 .. 2, i \in Identifiers : Subscribe(t, q, i)
  BY DEF ClientSubscribes
<1>2. t \in Seq(Byte)
  BY TextsOf DEF Short
<1>3. CASE ~ IsTopicNameValid(t) /\ Reject("SUBSCRIBE", t)
  <2>1. step' = "rejected" /\ sent'.topic = t
    BY <1>3 DEF Reject
  <2>2. QED
    BY <1>2, <1>3, <2>1 DEF TopicsChecked
<1>4. CASE /\ IsTopicNameValid(t)
           /\ Transmit([type |-> "SUBSCRIBE", id |-> i,
                        filters |-> <<[topic |-> t, qos |-> q]>>])
  <2>1. /\ step' = "toBroker"
        /\ sent' = [type |-> "SUBSCRIBE", id |-> i, filters |-> <<[topic |-> t, qos |-> q]>>]
    BY <1>4 DEF Transmit, TransmitAs
  <2>2. sent'.type = "SUBSCRIBE" /\ sent'.filters[1].topic = t
    BY <2>1
  <2>3. QED
    BY <1>2, <1>4, <2>1, <2>2 DEF TopicsChecked
<1>5. QED
  BY <1>1, <1>3, <1>4 DEF Subscribe

LEMMA UnsubscribeChecked == ClientUnsubscribes => TopicsChecked'
<1> SUFFICES ASSUME ClientUnsubscribes PROVE TopicsChecked'
  OBVIOUS
<1>1. PICK t \in Texts, i \in Identifiers : Unsubscribe(t, i)
  BY DEF ClientUnsubscribes
<1>2. t \in Seq(Byte)
  BY TextsOf DEF Short
<1>3. CASE ~ IsTopicNameValid(t) /\ Reject("UNSUBSCRIBE", t)
  <2>1. step' = "rejected" /\ sent'.topic = t
    BY <1>3 DEF Reject
  <2>2. QED
    BY <1>2, <1>3, <2>1 DEF TopicsChecked
<1>4. CASE /\ IsTopicNameValid(t)
           /\ Transmit([type |-> "UNSUBSCRIBE", id |-> i, topics |-> <<t>>])
  <2>1. step' = "toBroker" /\ sent' = [type |-> "UNSUBSCRIBE", id |-> i, topics |-> <<t>>]
    BY <1>4 DEF Transmit, TransmitAs
  <2>2. sent'.type = "UNSUBSCRIBE" /\ sent'.topics[1] = t
    BY <2>1
  <2>3. QED
    BY <1>2, <1>4, <2>1, <2>2 DEF TopicsChecked
<1>5. QED
  BY <1>1, <1>3, <1>4 DEF Unsubscribe

LEMMA ConnectUnchecked == ClientConnects => TopicsChecked'
<1> SUFFICES ASSUME ClientConnects PROVE TopicsChecked'
  OBVIOUS
<1>1. PICK f, w, u, p : Connect(f, w, u, p)
  BY DEF ClientConnects
<1>2. step' = "toBroker" /\ sent' = Wanted(w, u, p)
  BY <1>1 DEF Connect, TransmitAs
<1>3. sent'.type = "CONNECT"
  BY <1>2 DEF Wanted
<1>4. QED
  BY <1>2, <1>3, OtherPackets

LEMMA SendUnchecked == ClientSends => TopicsChecked'
<1> SUFFICES ASSUME ClientSends PROVE TopicsChecked'
  OBVIOUS
<1>1. PICK p \in ClientPackets : Transmit(p)
  BY DEF ClientSends
<1>2. step' = "toBroker" /\ sent' = p
  BY <1>1 DEF Transmit, TransmitAs
<1>3. p.type \in {"PUBLISH", "PUBACK", "PUBREC", "PUBCOMP", "PINGREQ", "DISCONNECT"}
  BY PacketTypesSent
<1>4. QED
  BY <1>2, <1>3, OtherPackets

\* Steps that go on with the exchange that has begun.
LEMMA ExchangeUnchecked ==
    TopicsChecked /\ (BrokerReceives \/ BrokerAnswers \/ BrokerPublishes \/ ClientReceives)
        => TopicsChecked'
<1> SUFFICES ASSUME TopicsChecked,
                    BrokerReceives \/ BrokerAnswers \/ BrokerPublishes \/ ClientReceives
             PROVE  TopicsChecked'
  OBVIOUS
<1>1. step # "rejected" /\ step' # "rejected" /\ sent' = sent
  BY DEF BrokerReceives, BrokerAnswers, BrokerPublishes, BrokerSends, ClientReceives
<1>2. QED
  BY <1>1 DEF TopicsChecked

LEMMA TopicsCheckedStep == TopicsChecked /\ [Next]_vars => TopicsChecked'
<1> SUFFICES ASSUME TopicsChecked, [Next]_vars
             PROVE  TopicsChecked'
  OBVIOUS
<1>1. CASE \E n \in Lengths : LargePacket(n)
  BY <1>1, OtherPackets DEF LargePacket
<1>2. CASE NextExchange
  BY <1>2, OtherPackets DEF NextExchange, Nothing
<1>3. CASE UNCHANGED vars
  BY <1>3 DEF vars, TopicsChecked
<1>4. QED
  BY <1>1, <1>2, <1>3, ConnectUnchecked, SendUnchecked, SubscribeChecked, UnsubscribeChecked,
     ExchangeUnchecked DEF Next

\* A topic filter of any length that fits a field is sent exactly when it follows the documented
\* rules or is empty: the loop over the levels, which stops at the first that decides, agrees with
\* the rules, which speak of each character and its neighbours, on all but the empty topic.
\* (isTopicNameValid.)
THEOREM TopicsFollowTheRules == Spec => []TopicRulesDecide
<1>1. Init => TopicsChecked
  BY DEF Init, Nothing, TopicsChecked
<1>2. TopicsChecked => TopicRulesDecide
  BY CheckFollowsRules DEF TopicsChecked, TopicRulesDecide
<1>3. QED
  BY <1>1, <1>2, TopicsCheckedStep, PTL DEF Spec
=============================================================================
