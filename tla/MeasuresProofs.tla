--------------------------- MODULE MeasuresProofs ---------------------------
(* For all sentences, latencies and sounds, whatever the words, the         *)
(* latencies and the bounds: a measure the project judges itself by is what *)
(* it claims to be.  Distance and ClippedMatches are defined by recursion   *)
(* over data, so their theorems go by induction: a function that satisfies  *)
(* the recursion is built up to every size first, since a recursive         *)
(* function of TLA+ is only the choice of one.                              *)
EXTENDS Quality, FiniteSetTheorems, FunctionTheorems, SequenceTheorems,
        WellFoundedInduction, TLAPS

-----------------------------------------------------------------------------
(* Induction.                                                              *)

\* A set of numbers that has one has a least one.
LEMMA LeastNumber ==
  ASSUME NEW T, T \subseteq Nat, T # {}
  PROVE  \E x \in T : \A y \in T : y >= x
<1>1. PICK x \in T : \A y \in T : ~ (<<y, x>> \in OpToRel(<, Nat))
  <2>1. IsWellFoundedOn(OpToRel(<, Nat), Nat)
    BY NatLessThanWellFounded
  <2> DEFINE R == OpToRel(<, Nat)
  <2> HIDE DEF R
  <2>2. IsWellFoundedOn(R, Nat)
    BY <2>1 DEF R
  <2>3. \E x \in T : \A y \in T : ~ (<<y, x>> \in R)
    BY <2>2, WFMin
  <2> QED BY <2>3 DEF R
<1>2. \A y \in T : ~ (y < x)
  BY <1>1 DEF OpToRel
<1> QED BY <1>2

\* Induction over a set of numbers.
LEMMA AllNumbers ==
  ASSUME NEW S, 0 \in S, \A n \in Nat : n \in S => n + 1 \in S
  PROVE  Nat \subseteq S
<1> SUFFICES ASSUME Nat \ S # {} PROVE FALSE
  OBVIOUS
<1>1. PICK n \in Nat \ S : \A m \in Nat \ S : m >= n
  <2>1. Nat \ S \subseteq Nat
    OBVIOUS
  <2> QED BY <2>1, LeastNumber
<1>2. n # 0 /\ n - 1 \in Nat
  BY <1>1
<1>3. n - 1 \in S
  BY <1>1, <1>2
<1> QED BY <1>1, <1>2, <1>3

\* The numbers up to one.
LEMMA UpTo ==
  ASSUME NEW n \in Nat
  PROVE  IsFiniteSet(1 .. n) /\ Cardinality(1 .. n) = n
<1>1. 1 \in Int /\ n \in Int
  OBVIOUS
<1>2. IsFiniteSet(1 .. n) /\ Cardinality(1 .. n) = IF 1 > n THEN 0 ELSE n - 1 + 1
  BY <1>1, FS_Interval
<1>3. n = IF 1 > n THEN 0 ELSE n - 1 + 1
  OBVIOUS
<1> QED BY <1>2, <1>3

-----------------------------------------------------------------------------
(* Sound and time (Signals): the codes of A-law, whose segments are told     *)
(* apart by powers of two.                                                 *)

\* The doublings of a delay, and the limits of the segments of the code.
LEMMA Bits ==
  /\ Bit(0) = 1 /\ Bit(1) = 2 /\ Bit(2) = 4 /\ Bit(3) = 8 /\ Bit(4) = 16 /\ Bit(5) = 32
  /\ Bit(6) = 64 /\ Bit(7) = 128 /\ Bit(8) = 256 /\ Bit(9) = 512 /\ Bit(10) = 1024
  /\ Bit(11) = 2048 /\ Bit(12) = 4096 /\ Bit(13) = 8192 /\ Bit(14) = 16384
  /\ Bit(15) = 32768 /\ Bit(16) = 65536 /\ Bit(17) = 131072 /\ Bit(18) = 262144
  /\ Bit(19) = 524288 /\ Bit(20) = 1048576
BY DEF Bit

LEMMA BitsGrow ==
  ASSUME NEW i \in 0 .. 20, NEW j \in 0 .. 20, i <= j
  PROVE  Bit(i) \in Nat /\ Bit(j) \in Nat /\ Bit(i) >= 1 /\ (i < j => 2 * Bit(i) <= Bit(j))
<1>1. \A k \in 0 .. 20 : Bit(k) \in Nat /\ Bit(k) >= 1
  BY Bits
<1>2. i < j => 2 * Bit(i) <= Bit(j)
  BY Bits
<1> QED BY <1>1, <1>2

\* Some bit above bit 7 is the highest one of a magnitude that has one.
LEMMA SegmentOf ==
  ASSUME NEW m, \E e \in 1 .. 7 : HighestBit(m, e)
  PROVE  Segment(m) \in 1 .. 7 /\ HighestBit(m, Segment(m))
BY DEF Segment

LEMMA QuotientIsOne ==
  ASSUME NEW m \in Nat
  PROVE  /\ m \div 256 = 1 <=> 256 <= m /\ m < 512
         /\ m \div 512 = 1 <=> 512 <= m /\ m < 1024
         /\ m \div 1024 = 1 <=> 1024 <= m /\ m < 2048
         /\ m \div 2048 = 1 <=> 2048 <= m /\ m < 4096
         /\ m \div 4096 = 1 <=> 4096 <= m /\ m < 8192
         /\ m \div 8192 = 1 <=> 8192 <= m /\ m < 16384
         /\ m \div 16384 = 1 <=> 16384 <= m /\ m < 32768
OBVIOUS

\* A segment reaches from a power of two to the next.
LEMMA HighestBitOf ==
  ASSUME NEW m \in Nat, NEW e \in 1 .. 7
  PROVE  HighestBit(m, e) <=> Bit(e + 7) <= m /\ m < 2 * Bit(e + 7)
BY QuotientIsOne, Bits DEF HighestBit

\* The least magnitude of a step.
Lowest(e, a) == IF e = 0 THEN a * 16 ELSE (a + 16) * Bit(e + 3)
InStep(m, e, a) == Lowest(e, a) <= m /\ m < Lowest(e, a) + 2 * HalfStep(e)

\* The literals of a segment: its steps, and the middle of one.
LEMMA StepsOf ==
  ASSUME NEW e \in 0 .. 7, NEW a \in 0 .. 15
  PROVE  /\ HalfStep(e) \in Nat /\ HalfStep(e) >= 8 /\ Lowest(e, a) \in Nat
         /\ Expanded(e, a) = Lowest(e, a) + HalfStep(e)
         /\ e = 0 => Lowest(e, a) + 2 * HalfStep(e) <= 256
         /\ e # 0 => Bit(e + 7) <= Lowest(e, a)
                     /\ Lowest(e, a) + 2 * HalfStep(e) <= 2 * Bit(e + 7)
         /\ Lowest(e, a) + 2 * HalfStep(e) <= 32768
         /\ Expanded(e, a) <= 32256
<1>1. CASE e = 0
  BY <1>1 DEF Lowest, HalfStep, Expanded
<1>2. CASE e # 0
  <2>1. CASE e = 1
    <3>1. Bit(e + 7) = 256 /\ Bit(e + 3) = 16 /\ Bit(e + 2) = 8 /\ Bit(e - 1) = 1
      BY <2>1, Bits
    <3> QED BY <2>1, <3>1 DEF Lowest, HalfStep, Expanded
  <2>2. CASE e = 2
    <3>1. Bit(e + 7) = 512 /\ Bit(e + 3) = 32 /\ Bit(e + 2) = 16 /\ Bit(e - 1) = 2
      BY <2>2, Bits
    <3> QED BY <2>2, <3>1 DEF Lowest, HalfStep, Expanded
  <2>3. CASE e = 3
    <3>1. Bit(e + 7) = 1024 /\ Bit(e + 3) = 64 /\ Bit(e + 2) = 32 /\ Bit(e - 1) = 4
      BY <2>3, Bits
    <3> QED BY <2>3, <3>1 DEF Lowest, HalfStep, Expanded
  <2>4. CASE e = 4
    <3>1. Bit(e + 7) = 2048 /\ Bit(e + 3) = 128 /\ Bit(e + 2) = 64 /\ Bit(e - 1) = 8
      BY <2>4, Bits
    <3> QED BY <2>4, <3>1 DEF Lowest, HalfStep, Expanded
  <2>5. CASE e = 5
    <3>1. Bit(e + 7) = 4096 /\ Bit(e + 3) = 256 /\ Bit(e + 2) = 128 /\ Bit(e - 1) = 16
      BY <2>5, Bits
    <3> QED BY <2>5, <3>1 DEF Lowest, HalfStep, Expanded
  <2>6. CASE e = 6
    <3>1. Bit(e + 7) = 8192 /\ Bit(e + 3) = 512 /\ Bit(e + 2) = 256 /\ Bit(e - 1) = 32
      BY <2>6, Bits
    <3> QED BY <2>6, <3>1 DEF Lowest, HalfStep, Expanded
  <2>7. CASE e = 7
    <3>1. Bit(e + 7) = 16384 /\ Bit(e + 3) = 1024 /\ Bit(e + 2) = 512 /\ Bit(e - 1) = 64
      BY <2>7, Bits
    <3> QED BY <2>7, <3>1 DEF Lowest, HalfStep, Expanded
  <2> QED BY <1>2, <2>1, <2>2, <2>3, <2>4, <2>5, <2>6, <2>7
<1> QED BY <1>1, <1>2

\* Dividing by a step.
LEMMA Divided ==
  ASSUME NEW m \in Nat, NEW q \in Nat
  PROVE  /\ m \div 16 = q <=> q * 16 <= m /\ m < q * 16 + 16
         /\ m \div 32 = q <=> q * 32 <= m /\ m < q * 32 + 32
         /\ m \div 64 = q <=> q * 64 <= m /\ m < q * 64 + 64
         /\ m \div 128 = q <=> q * 128 <= m /\ m < q * 128 + 128
         /\ m \div 256 = q <=> q * 256 <= m /\ m < q * 256 + 256
         /\ m \div 512 = q <=> q * 512 <= m /\ m < q * 512 + 512
         /\ m \div 1024 = q <=> q * 1024 <= m /\ m < q * 1024 + 1024
OBVIOUS

LEMMA LastFourBits ==
  ASSUME NEW a \in 0 .. 15
  PROVE  a % 16 = a /\ (a + 16) % 16 = a
OBVIOUS

\* All magnitudes of a step have its code.
LEMMA CodeOfStep ==
  ASSUME NEW e \in 0 .. 7, NEW a \in 0 .. 15, NEW m \in Nat, InStep(m, e, a)
  PROVE  Exponent(m) = e /\ Mantissa(m, e) = a
<1>1. Exponent(m) = e
  <2>1. CASE e = 0
    <3>1. m < 256
      BY <2>1, StepsOf DEF InStep
    <3> QED BY <2>1, <3>1 DEF Exponent
  <2>2. CASE e # 0
    <3>1. Bit(e + 7) <= m /\ m < 2 * Bit(e + 7) /\ m >= 256
      BY <2>2, StepsOf, Bits DEF InStep
    <3>2. HighestBit(m, e)
      BY <2>2, <3>1, HighestBitOf
    <3>3. PICK s \in 1 .. 7 : s = Segment(m) /\ HighestBit(m, s)
      BY <2>2, <3>2, SegmentOf
    <3>4. Bit(s + 7) <= m /\ m < 2 * Bit(s + 7)
      BY <3>3, HighestBitOf
    <3>5. s = e
      BY <2>2, <3>1, <3>4, BitsGrow
    <3> QED BY <3>1, <3>3, <3>5 DEF Exponent
  <2> QED BY <2>1, <2>2
<1>2. Mantissa(m, e) = a
  <2>1. CASE e = 0
    <3>1. m \div 16 = a
      BY <2>1, Divided DEF InStep, Lowest, HalfStep
    <3>2. Mantissa(m, e) = (m \div 16) % 16
      BY <2>1, Bits DEF Mantissa
    <3> QED BY <3>1, <3>2, LastFourBits
  <2>2. CASE e = 1
    <3>1. Bit(e + 3) = 16 /\ Bit(e + 2) = 8
      BY <2>2, Bits
    <3>2. m \div 16 = a + 16
      BY <2>2, <3>1, Divided DEF InStep, Lowest, HalfStep
    <3>3. Mantissa(m, e) = (m \div 16) % 16
      BY <2>2, <3>1 DEF Mantissa
    <3> QED BY <3>2, <3>3, LastFourBits
  <2>3. CASE e = 2
    <3>1. Bit(e + 3) = 32 /\ Bit(e + 2) = 16
      BY <2>3, Bits
    <3>2. m \div 32 = a + 16
      BY <2>3, <3>1, Divided DEF InStep, Lowest, HalfStep
    <3>3. Mantissa(m, e) = (m \div 32) % 16
      BY <2>3, <3>1 DEF Mantissa
    <3> QED BY <3>2, <3>3, LastFourBits
  <2>4. CASE e = 3
    <3>1. Bit(e + 3) = 64 /\ Bit(e + 2) = 32
      BY <2>4, Bits
    <3>2. m \div 64 = a + 16
      BY <2>4, <3>1, Divided DEF InStep, Lowest, HalfStep
    <3>3. Mantissa(m, e) = (m \div 64) % 16
      BY <2>4, <3>1 DEF Mantissa
    <3> QED BY <3>2, <3>3, LastFourBits
  <2>5. CASE e = 4
    <3>1. Bit(e + 3) = 128 /\ Bit(e + 2) = 64
      BY <2>5, Bits
    <3>2. m \div 128 = a + 16
      BY <2>5, <3>1, Divided DEF InStep, Lowest, HalfStep
    <3>3. Mantissa(m, e) = (m \div 128) % 16
      BY <2>5, <3>1 DEF Mantissa
    <3> QED BY <3>2, <3>3, LastFourBits
  <2>6. CASE e = 5
    <3>1. Bit(e + 3) = 256 /\ Bit(e + 2) = 128
      BY <2>6, Bits
    <3>2. m \div 256 = a + 16
      BY <2>6, <3>1, Divided DEF InStep, Lowest, HalfStep
    <3>3. Mantissa(m, e) = (m \div 256) % 16
      BY <2>6, <3>1 DEF Mantissa
    <3> QED BY <3>2, <3>3, LastFourBits
  <2>7. CASE e = 6
    <3>1. Bit(e + 3) = 512 /\ Bit(e + 2) = 256
      BY <2>7, Bits
    <3>2. m \div 512 = a + 16
      BY <2>7, <3>1, Divided DEF InStep, Lowest, HalfStep
    <3>3. Mantissa(m, e) = (m \div 512) % 16
      BY <2>7, <3>1 DEF Mantissa
    <3> QED BY <3>2, <3>3, LastFourBits
  <2>8. CASE e = 7
    <3>1. Bit(e + 3) = 1024 /\ Bit(e + 2) = 512
      BY <2>8, Bits
    <3>2. m \div 1024 = a + 16
      BY <2>8, <3>1, Divided DEF InStep, Lowest, HalfStep
    <3>3. Mantissa(m, e) = (m \div 1024) % 16
      BY <2>8, <3>1 DEF Mantissa
    <3> QED BY <3>2, <3>3, LastFourBits
  <2> QED BY <2>1, <2>2, <2>3, <2>4, <2>5, <2>6, <2>7, <2>8
<1> QED BY <1>1, <1>2

\* Every magnitude of 15 bits lies in a step, and its clipped value in the same one.
HasStep(n) == \E e \in 0 .. 7, a \in 0 .. 15 : InStep(n, e, a) /\ InStep(Clipped(n), e, a)
LEMMA StepOf ==
  ASSUME NEW n \in Nat, n <= 32767
  PROVE  HasStep(n)
<1> USE DEF HasStep
<1>1. Lowest(7, 15) = 31744 /\ HalfStep(7) = 512
  BY Bits DEF Lowest, HalfStep
<1>2. CASE n > 32635
  <2>1. Clipped(n) = 32635
    BY <1>2 DEF Clipped
  <2>2. InStep(n, 7, 15)
    BY <1>1, <1>2 DEF InStep
  <2>3. InStep(Clipped(n), 7, 15)
    BY <1>1, <2>1 DEF InStep
  <2> QED BY <2>2, <2>3
<1>3. CASE n <= 32635
  <2>1. Clipped(n) = n
    BY <1>3 DEF Clipped
  <2>2. CASE n < 256
    <3>1. PICK q \in 0 .. 15 : q = n \div 16
      BY <2>2
    <3>2. q * 16 <= n /\ n < q * 16 + 16
      BY <3>1, Divided
    <3>3. InStep(n, 0, q)
      BY <3>2 DEF InStep, Lowest, HalfStep
    <3> QED BY <2>1, <3>3
  <2>3. CASE n >= 256 /\ n < 512
    <3>1. PICK q \in 16 .. 31 : q = n \div 16
      BY <2>3
    <3>2. q * 16 <= n /\ n < q * 16 + 16
      BY <3>1, Divided
    <3>3. Lowest(1, q - 16) = q * 16 /\ HalfStep(1) = 8
      BY Bits DEF Lowest, HalfStep
    <3>4. q - 16 \in 0 .. 15 /\ InStep(n, 1, q - 16)
      BY <3>2, <3>3 DEF InStep
    <3> QED BY <2>1, <3>4
  <2>4. CASE n >= 512 /\ n < 1024
    <3>1. PICK q \in 16 .. 31 : q = n \div 32
      BY <2>4
    <3>2. q * 32 <= n /\ n < q * 32 + 32
      BY <3>1, Divided
    <3>3. Lowest(2, q - 16) = q * 32 /\ HalfStep(2) = 16
      BY Bits DEF Lowest, HalfStep
    <3>4. q - 16 \in 0 .. 15 /\ InStep(n, 2, q - 16)
      BY <3>2, <3>3 DEF InStep
    <3> QED BY <2>1, <3>4
  <2>5. CASE n >= 1024 /\ n < 2048
    <3>1. PICK q \in 16 .. 31 : q = n \div 64
      BY <2>5
    <3>2. q * 64 <= n /\ n < q * 64 + 64
      BY <3>1, Divided
    <3>3. Lowest(3, q - 16) = q * 64 /\ HalfStep(3) = 32
      BY Bits DEF Lowest, HalfStep
    <3>4. q - 16 \in 0 .. 15 /\ InStep(n, 3, q - 16)
      BY <3>2, <3>3 DEF InStep
    <3> QED BY <2>1, <3>4
  <2>6. CASE n >= 2048 /\ n < 4096
    <3>1. PICK q \in 16 .. 31 : q = n \div 128
      BY <2>6
    <3>2. q * 128 <= n /\ n < q * 128 + 128
      BY <3>1, Divided
    <3>3. Lowest(4, q - 16) = q * 128 /\ HalfStep(4) = 64
      BY Bits DEF Lowest, HalfStep
    <3>4. q - 16 \in 0 .. 15 /\ InStep(n, 4, q - 16)
      BY <3>2, <3>3 DEF InStep
    <3> QED BY <2>1, <3>4
  <2>7. CASE n >= 4096 /\ n < 8192
    <3>1. PICK q \in 16 .. 31 : q = n \div 256
      BY <2>7
    <3>2. q * 256 <= n /\ n < q * 256 + 256
      BY <3>1, Divided
    <3>3. Lowest(5, q - 16) = q * 256 /\ HalfStep(5) = 128
      BY Bits DEF Lowest, HalfStep
    <3>4. q - 16 \in 0 .. 15 /\ InStep(n, 5, q - 16)
      BY <3>2, <3>3 DEF InStep
    <3> QED BY <2>1, <3>4
  <2>8. CASE n >= 8192 /\ n < 16384
    <3>1. PICK q \in 16 .. 31 : q = n \div 512
      BY <2>8
    <3>2. q * 512 <= n /\ n < q * 512 + 512
      BY <3>1, Divided
    <3>3. Lowest(6, q - 16) = q * 512 /\ HalfStep(6) = 256
      BY Bits DEF Lowest, HalfStep
    <3>4. q - 16 \in 0 .. 15 /\ InStep(n, 6, q - 16)
      BY <3>2, <3>3 DEF InStep
    <3> QED BY <2>1, <3>4
  <2>9. CASE n >= 16384 /\ n < 32768
    <3>1. PICK q \in 16 .. 31 : q = n \div 1024
      BY <2>9
    <3>2. q * 1024 <= n /\ n < q * 1024 + 1024
      BY <3>1, Divided
    <3>3. Lowest(7, q - 16) = q * 1024 /\ HalfStep(7) = 512
      BY Bits DEF Lowest, HalfStep
    <3>4. q - 16 \in 0 .. 15 /\ InStep(n, 7, q - 16)
      BY <3>2, <3>3 DEF InStep
    <3> QED BY <2>1, <3>4
  <2> QED BY <1>3, <2>2, <2>3, <2>4, <2>5, <2>6, <2>7, <2>8, <2>9
<1> QED BY <1>2, <1>3

\* The code of a sample of 16 bits: what comes back is near, and has the same code.
ComesBack(s) ==
  LET code == Encode(s) IN
    /\ code \in Code
    /\ Decode(code) - s \in -HalfStep(code.exponent) .. HalfStep(code.exponent)
    /\ Encode(Decode(code)) = code

\* Every sample, coded and decoded.
LEMMA SampleComesBack ==
  ASSUME NEW s \in Int, -32768 <= s, s <= 32767
  PROVE  ComesBack(s)
<1> DEFINE n == IF s < 0 THEN -s - 1 ELSE s
           sign == IF s < 0 THEN 0 ELSE 1
<1>1. n \in Nat /\ n <= 32767
  OBVIOUS
<1> HIDE DEF n
<1>2. PICK e \in 0 .. 7, a \in 0 .. 15 : InStep(n, e, a) /\ InStep(Clipped(n), e, a)
  <2>1. HasStep(n)
    BY <1>1, StepOf
  <2> QED BY <2>1 DEF HasStep
<1>3. Clipped(n) \in Nat
  BY <1>1 DEF Clipped
<1>4. Encode(s) = [sign |-> sign, exponent |-> e, mantissa |-> a]
  <2>1. Exponent(Clipped(n)) = e /\ Mantissa(Clipped(n), e) = a
    BY <1>2, <1>3, CodeOfStep
  <2> QED BY <2>1 DEF Encode, n
<1>5. Decode(Encode(s)) = IF s < 0 THEN -Expanded(e, a) ELSE Expanded(e, a)
  BY <1>4 DEF Decode
<1> DEFINE back == IF s < 0 THEN -Expanded(e, a) ELSE Expanded(e, a)
           m == IF s < 0 THEN Expanded(e, a) - 1 ELSE Expanded(e, a)
<1>6. /\ HalfStep(e) \in Nat /\ HalfStep(e) >= 8 /\ Lowest(e, a) \in Nat
      /\ Expanded(e, a) = Lowest(e, a) + HalfStep(e) /\ Expanded(e, a) <= 32256
  BY StepsOf
<1>7. back - s \in -HalfStep(e) .. HalfStep(e)
  <2>1. Lowest(e, a) <= n /\ n < Lowest(e, a) + 2 * HalfStep(e)
    BY <1>2 DEF InStep
  <2> QED BY <1>6, <2>1 DEF n
<1>8. Encode(back) = Encode(s)
  <2>1. m \in Nat /\ Clipped(m) = m /\ InStep(m, e, a)
    BY <1>6 DEF InStep, Clipped
  <2>2. Exponent(m) = e /\ Mantissa(m, e) = a
    <3> HIDE DEF m
    <3> QED BY <2>1, CodeOfStep
  <2>3. (IF back < 0 THEN -back - 1 ELSE back) = m /\ (IF back < 0 THEN 0 ELSE 1) = sign
    BY <1>6
  <2> HIDE DEF m, back, sign
  <2>4. Encode(back) = [sign |-> sign, exponent |-> e, mantissa |-> a]
    BY <2>1, <2>2, <2>3 DEF Encode
  <2> QED BY <1>4, <2>4
<1> HIDE DEF back, sign
<1>9. Encode(s) \in Code
  BY <1>4 DEF Code, sign
<1> QED BY <1>4, <1>5, <1>7, <1>8, <1>9 DEF back, ComesBack

-----------------------------------------------------------------------------
(* Silence and retries.                                                    *)

\* Milliseconds in a thousandth of samples.
Span(ms) == ms * SampleRate

LEMMA Spans ==
  /\ SampleRate \in Nat /\ SilenceHold \in Nat /\ Span(0) = 0
  /\ \A a \in Nat : Span(a) \in Nat
  /\ \A a \in Nat, b \in Nat : Span(a + b) = Span(a) + Span(b)
  /\ \A a \in Nat : Span(a + 1) = Span(a) + SampleRate
  /\ \A a \in Nat, b \in Nat : Span(a) <= Span(b) => a <= b
<1>1. SampleRate \in Nat /\ SampleRate > 0 /\ SilenceHold \in Nat
  BY SizesAssumption
<1>2. Span(0) = 0
  BY <1>1 DEF Span
<1>3. ASSUME NEW a \in Nat, NEW b \in Nat
      PROVE  /\ Span(a) \in Nat /\ Span(a + b) = Span(a) + Span(b)
             /\ Span(a + 1) = Span(a) + SampleRate
  BY <1>1 DEF Span
<1>4. ASSUME NEW a \in Nat, NEW b \in Nat, b < a PROVE Span(b) < Span(a)
  <2>1. PICK c \in Nat : a = b + (c + 1)
    <3>1. a - b - 1 \in Nat /\ a = b + ((a - b - 1) + 1)
      BY <1>4
    <3> QED BY <3>1
  <2>2. Span(c + 1) = Span(c) + SampleRate /\ Span(b) \in Nat /\ Span(c) \in Nat
    BY <1>3
  <2>3. c + 1 \in Nat
    OBVIOUS
  <2>4. Span(a) = Span(b) + Span(c + 1)
    BY <1>3, <2>1, <2>3
  <2> QED BY <1>1, <2>2, <2>4
<1>5. ASSUME NEW a \in Nat, NEW b \in Nat, Span(a) <= Span(b) PROVE a <= b
  BY <1>3, <1>4, <1>5
<1> QED BY <1>1, <1>2, <1>3, <1>5

\* A frame's duration loses less than a millisecond.
LEMMA FrameDuration ==
  ASSUME NEW n \in Nat
  PROVE  \E d \in Nat : /\ d = (n * 1000) \div SampleRate
                        /\ Span(d) <= n * 1000 /\ n * 1000 < Span(d) + SampleRate
<1>1. SampleRate \in Nat /\ SampleRate > 0 /\ n * 1000 \in Nat
  BY SizesAssumption
<1> DEFINE d == (n * 1000) \div SampleRate
<1>2. d \in Int /\ SampleRate * d <= n * 1000 /\ n * 1000 < SampleRate * d + SampleRate
  BY <1>1
<1>3. d \in Nat /\ SampleRate * d = d * SampleRate
  BY <1>1, <1>2
<1> QED BY <1>2, <1>3 DEF Span

\* The milliseconds counted are those of the samples, but for what each frame lost.
Silent(ms, u, b) ==
  /\ ms \in Nat /\ u \in [frames : Nat, samples : Nat]
  /\ Span(ms) <= u.samples * 1000 /\ u.samples * 1000 <= Span(ms + u.frames)
  /\ b = (u.frames > 0 /\ ms >= SilenceHold)

SilenceInv == Silent(silenceMS, unvoiced, boundary)

\* It starts, and starts again, from nothing.
LEMMA SilenceStarts == Silent(0, [frames |-> 0, samples |-> 0], FALSE)
<1> DEFINE u == [frames |-> 0, samples |-> 0]
<1>1. u.frames = 0 /\ u.samples = 0 /\ u \in [frames : Nat, samples : Nat]
  OBVIOUS
<1> HIDE DEF u
<1>2. 0 + u.frames = 0 /\ u.samples * 1000 = 0 /\ Span(0) = 0
  BY <1>1, Spans
<1>3. (u.frames > 0 /\ 0 >= SilenceHold) = FALSE
  BY <1>1
<1>4. Silent(0, u, FALSE)
  BY <1>1, <1>2, <1>3 DEF Silent
<1> QED BY <1>4 DEF u

LEMMA SilenceSteps == SilenceInv /\ [SignalsNext]_signalsVars => SilenceInv'
<1> SUFFICES ASSUME SilenceInv, [SignalsNext]_signalsVars PROVE SilenceInv'
  OBVIOUS
<1>1. CASE UNCHANGED silenceVars
  BY <1>1 DEF SilenceInv, Silent, silenceVars
<1>2. CASE /\ silenceMS' = 0 /\ boundary' = FALSE
           /\ unvoiced' = [frames |-> 0, samples |-> 0]
  BY <1>2, SilenceStarts DEF SilenceInv
<1>3. ASSUME NEW n \in 0 .. MaxFrameSize, NEW frame \in [1 .. n -> Amplitudes],
             silenceMS' = silenceMS + frameDurationMS(frame),
             boundary' = (silenceMS' >= SilenceHold),
             unvoiced' = [frames |-> unvoiced.frames + 1, samples |-> unvoiced.samples + n]
      PROVE  SilenceInv'
  <2>1. n \in Nat /\ Len(frame) = n
    BY SizesAssumption
  <2>2. PICK d \in Nat : /\ d = frameDurationMS(frame)
                         /\ Span(d) <= n * 1000 /\ n * 1000 < Span(d) + SampleRate
    BY <2>1, FrameDuration DEF frameDurationMS
  <2>3. PICK f \in Nat, x \in Nat : unvoiced = [frames |-> f, samples |-> x]
    BY DEF SilenceInv, Silent
  <2>4. PICK ms \in Nat : ms = silenceMS
    BY DEF SilenceInv, Silent
  <2>5. Span(ms) <= x * 1000 /\ x * 1000 <= Span(ms + f)
    BY <2>3, <2>4 DEF SilenceInv, Silent
  <2>6. /\ Span(ms + d) = Span(ms) + Span(d) /\ Span(ms + f) = Span(ms) + Span(f)
        /\ Span((ms + d) + (f + 1)) = Span(ms) + Span(d) + Span(f) + SampleRate
        /\ Span(ms) \in Nat /\ Span(d) \in Nat /\ Span(f) \in Nat /\ SampleRate \in Nat
    <3>1. f + 1 \in Nat /\ ms + d \in Nat
      OBVIOUS
    <3>2. /\ Span(ms + d) = Span(ms) + Span(d) /\ Span(ms + f) = Span(ms) + Span(f)
          /\ Span(f + 1) = Span(f) + SampleRate
          /\ Span(ms) \in Nat /\ Span(d) \in Nat /\ Span(f) \in Nat /\ SampleRate \in Nat
      BY Spans
    <3>3. Span((ms + d) + (f + 1)) = Span(ms + d) + Span(f + 1)
      BY <3>1, Spans
    <3> QED BY <3>2, <3>3
  <2>7. Span(ms + d) <= (x + n) * 1000 /\ (x + n) * 1000 <= Span((ms + d) + (f + 1))
    <3>1. PICK p \in Nat, q \in Nat : /\ p = x * 1000 /\ q = n * 1000
                                      /\ p + q = (x + n) * 1000
      <4>1. x * 1000 \in Nat /\ n * 1000 \in Nat /\ x * 1000 + n * 1000 = (x + n) * 1000
        BY <2>1
      <4> QED BY <4>1
    <3>2. PICK a \in Nat, b \in Nat, c \in Nat : a = Span(ms) /\ b = Span(d) /\ c = Span(f)
      BY <2>6
    <3>3. Span(ms + d) = a + b /\ Span((ms + d) + (f + 1)) = a + b + c + SampleRate
      BY <2>6, <3>2
    <3>4. /\ a <= p /\ b <= q /\ q < b + SampleRate /\ SampleRate \in Nat
          /\ Span(ms + f) = a + c
      BY <2>2, <2>5, <2>6, <3>1, <3>2
    <3>5. p <= a + c
      BY <2>5, <3>1, <3>4
    <3>6. a + b <= p + q /\ p + q <= a + b + c + SampleRate
      BY <3>4, <3>5
    <3> QED BY <3>1, <3>3, <3>6
  <2>8. /\ silenceMS' = ms + d /\ boundary' = (ms + d >= SilenceHold)
        /\ unvoiced' = [frames |-> f + 1, samples |-> x + n]
    BY <1>3, <2>2, <2>3, <2>4
  <2>9. ms + d \in Nat /\ f + 1 \in Nat /\ x + n \in Nat /\ f + 1 > 0
    BY <2>1
  <2>10. Silent(ms + d, [frames |-> f + 1, samples |-> x + n], ms + d >= SilenceHold)
    BY <2>7, <2>9 DEF Silent
  <2> QED BY <2>8, <2>10 DEF SilenceInv
<1>4. CASE TakesSample \/ Retries \/ UNCHANGED signalsVars
  BY <1>1, <1>4 DEF TakesSample, Retries, signalsVars
<1>5. CASE Observe
  BY <1>2, <1>3, <1>5 DEF Observe
<1>6. CASE Reset
  BY <1>2, <1>6 DEF Reset
<1> QED BY <1>4, <1>5, <1>6 DEF SignalsNext

\* So a boundary comes neither before its time nor much after it.
LEMMA SilenceLasts == SilenceInv => SilenceMeasured
<1> SUFFICES ASSUME SilenceInv PROVE SilenceMeasured
  OBVIOUS
<1>1. PICK f \in Nat, x \in Nat : unvoiced = [frames |-> f, samples |-> x]
  BY DEF SilenceInv, Silent
<1>2. PICK ms \in Nat : ms = silenceMS
  BY DEF SilenceInv, Silent
<1>3. /\ Span(ms) <= x * 1000 /\ x * 1000 <= Span(ms + f)
      /\ boundary = (f > 0 /\ ms >= SilenceHold)
  BY <1>1, <1>2 DEF SilenceInv, Silent
<1>4. ms >= SilenceHold => Span(SilenceHold) <= x * 1000
  <2> SUFFICES ASSUME ms >= SilenceHold PROVE Span(SilenceHold) <= x * 1000
    OBVIOUS
  <2>1. PICK k \in Nat : ms = SilenceHold + k
    <3>1. ms - SilenceHold \in Nat /\ ms = SilenceHold + (ms - SilenceHold)
      BY Spans
    <3> QED BY <3>1
  <2>2. Span(SilenceHold + k) = Span(SilenceHold) + Span(k) /\ Span(k) \in Nat
        /\ Span(SilenceHold) \in Nat
    BY Spans
  <2> QED BY <1>3, <2>1, <2>2
<1>5. Span(SilenceHold + f) <= x * 1000 => ms >= SilenceHold
  <2>1. /\ SilenceHold + f \in Nat /\ ms + f \in Nat /\ SilenceHold \in Nat
    BY Spans
  <2>2. Span(SilenceHold + f) <= x * 1000 => SilenceHold + f <= ms + f
    BY <1>3, <2>1, Spans
  <2> QED BY <2>1, <2>2
<1>6. /\ boundary => x * 1000 >= Span(SilenceHold)
      /\ f > 0 /\ x * 1000 >= Span(SilenceHold + f) => boundary
  <2>1. SilenceHold \in Nat /\ SilenceHold + f \in Nat
    BY Spans
  <2>2. /\ Span(SilenceHold) \in Nat /\ Span(SilenceHold + f) \in Nat
        /\ x * 1000 \in Nat
    <3>1. Span(SilenceHold) \in Nat /\ Span(SilenceHold + f) \in Nat
      BY <2>1, Spans
    <3>2. x * 1000 \in Nat
      OBVIOUS
    <3> QED BY <3>1, <3>2
  <2>3. boundary => x * 1000 >= Span(SilenceHold)
    <3>1. boundary => Span(SilenceHold) <= x * 1000
      BY <1>3, <1>4
    <3> QED BY <2>2, <3>1
  <2>4. f > 0 /\ x * 1000 >= Span(SilenceHold + f) => boundary
    <3>1. x * 1000 >= Span(SilenceHold + f) => Span(SilenceHold + f) <= x * 1000
      BY <2>2
    <3> QED BY <1>3, <1>5, <3>1
  <2> QED BY <2>3, <2>4
<1> QED BY <1>1, <1>6 DEF SilenceMeasured, Span

\* A doubling keeps up with a factor of two.
LEMMA Doubled ==
  ASSUME NEW b \in Nat, NEW x \in Nat, NEW y \in Nat, 2 * x <= y
  PROVE  b * x \in Nat /\ b * y \in Nat /\ 2 * (b * x) <= b * y
<1>1. PICK r \in Nat : y = 2 * x + r
  <2>1. y - 2 * x \in Nat /\ y = 2 * x + (y - 2 * x)
    OBVIOUS
  <2> QED BY <2>1
<1>2. b * y = 2 * (b * x) + b * r /\ b * r \in Nat /\ b * x \in Nat
  BY <1>1
<1> QED BY <1>2

\* A delay is between the base and the cap, and has doubled since an earlier one unless
\* it is at the cap.
LEMMA DelaysGrow ==
  ASSUME NEW d \in Delays, NEW n \in Nat
  PROVE  /\ Backoff(d, n) \in Nat /\ d.base <= Backoff(d, n) /\ Backoff(d, n) <= d.cap
         /\ \A k \in 0 .. n - 1 : Backoff(d, n) = d.cap \/ 2 * Backoff(d, k) <= Backoff(d, n)
<1>1. PICK b \in Nat, c \in Nat : b = d.base /\ c = d.cap /\ b <= c /\ c <= b * Bit(20)
  <2>1. Bit(20) = 2^20
    BY DEF Bit
  <2>2. d.base \in Nat /\ d.cap \in Nat /\ d.base <= d.cap /\ d.cap <= d.base * 2^20
    BY DelaysAssumption
  <2> HIDE DEF Bit
  <2> QED BY <2>1, <2>2
<1>2. ASSUME NEW k \in Nat
      PROVE  /\ Doublings(k) \in 0 .. 20 /\ Bit(Doublings(k)) \in Nat
             /\ Bit(Doublings(k)) >= 1
             /\ Backoff(d, k) = IF b * Bit(Doublings(k)) > c THEN c ELSE b * Bit(Doublings(k))
  <2>1. Doublings(k) \in 0 .. 20
    BY DEF Doublings
  <2>2. Bit(Doublings(k)) \in Nat /\ Bit(Doublings(k)) >= 1
    BY <2>1, BitsGrow
  <2> QED BY <1>1, <2>1, <2>2 DEF Backoff
<1>3. ASSUME NEW k \in Nat
      PROVE  /\ Backoff(d, k) \in Nat /\ b <= Backoff(d, k) /\ Backoff(d, k) <= c
             /\ b * Bit(Doublings(k)) \in Nat /\ Backoff(d, k) <= b * Bit(Doublings(k))
  <2>1. PICK x \in Nat : x = Bit(Doublings(k)) /\ x >= 1
    BY <1>2
  <2>2. PICK r \in Nat : x = 1 + r
    <3>1. x - 1 \in Nat /\ x = 1 + (x - 1)
      BY <2>1
    <3> QED BY <3>1
  <2>3. b * x = b + b * r /\ b * r \in Nat /\ b * x \in Nat
    BY <2>2
  <2>4. Backoff(d, k) = IF b * x > c THEN c ELSE b * x
    BY <1>2, <2>1
  <2>5. b <= b * x
    BY <2>3
  <2> QED BY <1>1, <2>1, <2>3, <2>4, <2>5
<1>4. ASSUME NEW k \in 0 .. n - 1, Backoff(d, n) # c
      PROVE  2 * Backoff(d, k) <= Backoff(d, n)
  <2>1. n <= 19
    <3>1. CASE n >= 20
      <4>1. Doublings(n) = 20
        BY <3>1 DEF Doublings
      <4>2. Backoff(d, n) = IF b * Bit(20) > c THEN c ELSE b * Bit(20)
        BY <1>2, <4>1
      <4>3. b * Bit(20) \in Nat
        BY <1>3, <4>1
      <4> QED BY <1>1, <1>4, <4>2, <4>3
    <3> QED BY <3>1
  <2>2. k \in Nat /\ Doublings(k) = k /\ Doublings(n) = n /\ k < n
    BY <2>1 DEF Doublings
  <2>3. Bit(k) \in Nat /\ Bit(n) \in Nat /\ 2 * Bit(k) <= Bit(n)
    BY <2>1, <2>2, BitsGrow
  <2>4. b * Bit(k) \in Nat /\ b * Bit(n) \in Nat /\ 2 * (b * Bit(k)) <= b * Bit(n)
    BY <2>3, Doubled
  <2>5. Backoff(d, n) = b * Bit(n)
    BY <1>2, <1>4, <2>2
  <2>6. Backoff(d, k) <= b * Bit(k) /\ Backoff(d, k) \in Nat
    BY <1>3, <2>2
  <2> QED BY <2>4, <2>5, <2>6
<1> QED BY <1>1, <1>3, <1>4

LEMMA DelaysFit ==
  ASSUME delay \in Delays, attempt \in Nat
  PROVE  DelaysMeasured
<1>1. ASSUME NEW B \in Nat, NEW x \in B .. B + B \div 5
      PROVE  x \in Nat /\ B <= x /\ 5 * x <= 6 * B /\ x <= 2 * B
  <2>1. 5 * (B \div 5) <= B /\ B \div 5 \in Nat
    OBVIOUS
  <2> QED BY <2>1
<1>2. ASSUME NEW x \in BackoffDelays(delay, attempt)
      PROVE  delay.base <= x /\ 5 * x <= 6 * delay.cap
  <2>1. PICK B \in Nat : B = Backoff(delay, attempt) /\ delay.base <= B /\ B <= delay.cap
    BY DelaysGrow
  <2>2. B <= x /\ 5 * x <= 6 * B /\ x \in Nat
    BY <1>1, <1>2, <2>1 DEF BackoffDelays
  <2>3. delay.base \in Nat /\ delay.cap \in Nat
    BY DelaysAssumption
  <2> QED BY <2>1, <2>2, <2>3
<1>3. ASSUME NEW k \in 0 .. attempt - 1, Backoff(delay, attempt) # delay.cap,
             NEW x \in BackoffDelays(delay, k)
      PROVE  x <= Backoff(delay, attempt)
  <2>1. k \in Nat /\ Backoff(delay, attempt) \in Nat
        /\ 2 * Backoff(delay, k) <= Backoff(delay, attempt)
    BY <1>3, DelaysGrow
  <2>2. PICK B \in Nat : B = Backoff(delay, k)
    BY <2>1, DelaysGrow
  <2>3. x \in Nat /\ x <= 2 * B
    BY <1>1, <1>3, <2>2 DEF BackoffDelays
  <2> QED BY <2>1, <2>2, <2>3
<1> QED BY <1>2, <1>3 DEF DelaysMeasured

-----------------------------------------------------------------------------
(* The parts together.                                                     *)

SignalsInv ==
  /\ pcm \in Int /\ -32768 <= pcm /\ pcm <= 32767
  /\ SilenceInv
  /\ delay \in Delays /\ attempt \in Nat

LEMMA SignalsStart == SignalsInit => SignalsInv
<1> SUFFICES ASSUME SignalsInit PROVE SignalsInv
  OBVIOUS
<1>1. SilenceInv
  <2>1. silenceMS = 0 /\ unvoiced = [frames |-> 0, samples |-> 0] /\ boundary = FALSE
    BY DEF SignalsInit
  <2> QED BY <2>1, SilenceStarts DEF SilenceInv
<1>2. pcm \in Int /\ -32768 <= pcm /\ pcm <= 32767
  BY DEF SignalsInit
<1>3. delay \in Delays /\ attempt \in Nat
  BY DEF SignalsInit
<1> QED BY <1>1, <1>2, <1>3 DEF SignalsInv

LEMMA SignalsSteps == SignalsInv /\ [SignalsNext]_signalsVars => SignalsInv'
<1> SUFFICES ASSUME SignalsInv, [SignalsNext]_signalsVars PROVE SignalsInv'
  OBVIOUS
<1>1. SilenceInv'
  BY SilenceSteps DEF SignalsInv
<1>2. pcm' \in Int /\ -32768 <= pcm' /\ pcm' <= 32767
  <2>1. CASE TakesSample
    <3>1. pcm' = pcm + Stride /\ pcm + Stride <= 32767
      BY <2>1 DEF TakesSample
    <3>2. pcm \in Int /\ -32768 <= pcm /\ Stride \in Nat
      BY SizesAssumption DEF SignalsInv
    <3> QED BY <3>1, <3>2
  <2>2. CASE UNCHANGED pcm
    BY <2>2 DEF SignalsInv
  <2> QED BY <2>1, <2>2 DEF SignalsNext, signalsVars, Observe, Reset, Retries
<1>3. delay' \in Delays /\ attempt' \in Nat
  BY DEF SignalsInv, SignalsNext, signalsVars, delayVars, TakesSample, Observe, Reset,
     Retries
<1> QED BY <1>1, <1>2, <1>3 DEF SignalsInv

LEMMA SignalsHold == SignalsInv => SignalsMeasured
<1> SUFFICES ASSUME SignalsInv PROVE SignalsMeasured
  OBVIOUS
<1>1. AudioMeasured
  <2>1. ComesBack(pcm)
    BY SampleComesBack DEF SignalsInv
  <2> QED BY <2>1 DEF ComesBack, AudioMeasured
<1> QED BY <1>1, SilenceLasts, DelaysFit DEF SignalsInv, SignalsMeasured

\* Every sample of 16 bits comes back near and is not worse for being coded again, silence
\* is measured to the fraction of a millisecond each frame may lose, and retries never
\* come faster (alaw.go, vad.go, backoff.go).
THEOREM SoundAndTimeMeasured == SignalsSpec => []SignalsMeasured
BY SignalsStart, SignalsSteps, SignalsHold, PTL DEF SignalsSpec

-----------------------------------------------------------------------------
(* The word error rate: the table exists, its entries are typed, and each   *)
(* is the cost of the cheapest alignment of the words above and left of it. *)

\* min3 gives one of its arguments, and none is smaller.
LEMMA LeastOf ==
  ASSUME NEW a \in Nat, NEW b \in Nat, NEW c \in Nat
  PROVE  /\ Least(a, b, c) \in Nat
         /\ Least(a, b, c) <= a /\ Least(a, b, c) <= b /\ Least(a, b, c) <= c
         /\ Least(a, b, c) = a \/ Least(a, b, c) = b \/ Least(a, b, c) = c
<1>1. \E x \in {a, b, c} : \A y \in {a, b, c} : x <= y
  OBVIOUS
<1>2. Least(a, b, c) \in {a, b, c} /\ \A y \in {a, b, c} : Least(a, b, c) <= y
  BY <1>1 DEF Least, Min
<1> QED BY <1>2

\* An entry is a number, and depends on entries nearer to the corner only.
LEMMA EntryTyped ==
  ASSUME NEW r, NEW h, NEW i \in Nat, NEW j \in Nat, NEW g,
         i # 0 /\ j # 0 =>
           /\ g[<<i - 1, j - 1>>] \in Nat
           /\ g[<<i - 1, j>>] \in Nat
           /\ g[<<i, j - 1>>] \in Nat
  PROVE  Entry(r, h, g, i, j) \in Nat
<1>1. CASE i = 0 \/ j = 0
  BY <1>1 DEF Entry
<1>2. CASE i # 0 /\ j # 0 /\ r[i] = h[j]
  BY <1>2 DEF Entry
<1>3. CASE i # 0 /\ j # 0 /\ r[i] # h[j]
  <2> DEFINE a == g[<<i - 1, j - 1>>] + 1
             b == g[<<i - 1, j>>] + 1
             c == g[<<i, j - 1>>] + 1
  <2>1. a \in Nat /\ b \in Nat /\ c \in Nat
    BY <1>3
  <2>2. Entry(r, h, g, i, j) = Least(a, b, c)
    BY <1>3 DEF Entry
  <2> HIDE DEF a, b, c
  <2> QED BY <2>1, <2>2, LeastOf
<1> QED BY <1>1, <1>2, <1>3

\* An entry depends on three others only.
LEMMA EntryOf ==
  ASSUME NEW r, NEW h, NEW i \in Nat, NEW j \in Nat, NEW f, NEW g,
         i # 0 /\ j # 0 =>
           /\ f[<<i - 1, j - 1>>] = g[<<i - 1, j - 1>>]
           /\ f[<<i - 1, j>>] = g[<<i - 1, j>>]
           /\ f[<<i, j - 1>>] = g[<<i, j - 1>>]
  PROVE  Entry(r, h, f, i, j) = Entry(r, h, g, i, j)
BY DEF Entry

\* The table that Distance reads: every entry is as wordErrorRate computes it.
Table(r, h) == CHOOSE dp : dp = [x \in Places(r, h) |-> Entry(r, h, dp, x[1], x[2])]

\* The recursion can be satisfied, by induction over the sum of the indices: a table right
\* up to a sum is extended by the entries of the next.
LEMMA TableExists ==
  ASSUME NEW r \in Seq(Words), NEW h \in Seq(Words)
  PROVE  /\ Table(r, h) = [x \in Places(r, h) |-> Entry(r, h, Table(r, h), x[1], x[2])]
         /\ Distance(r, h) = Table(r, h)[<<Len(r), Len(h)>>]
<1> DEFINE n == Len(r)
           m == Len(h)
           P == Places(r, h)
           Right(g, k) == \A i \in 0 .. n, j \in 0 .. m :
                            i + j < k => g[<<i, j>>] = Entry(r, h, g, i, j)
           S == {k \in Nat : \E g : Right(g, k)}
<1>1. n \in Nat /\ m \in Nat
  OBVIOUS
<1>2. P = (0 .. n) \X (0 .. m)
  BY DEF Places
<1>3. 0 \in S
  <2>1. Right(<<>>, 0)
    BY <1>1
  <2> QED BY <2>1
<1>4. ASSUME NEW k \in Nat, k \in S PROVE k + 1 \in S
  <2>1. PICK g : Right(g, k)
    BY <1>4
  <2> DEFINE f == [x \in P |-> IF x[1] + x[2] < k THEN g[x] ELSE Entry(r, h, g, x[1], x[2])]
  <2>2. ASSUME NEW i \in 0 .. n, NEW j \in 0 .. m
        PROVE  f[<<i, j>>] = IF i + j < k THEN g[<<i, j>>] ELSE Entry(r, h, g, i, j)
    BY <1>2
  <2> HIDE DEF f
  <2>3. ASSUME NEW i \in 0 .. n, NEW j \in 0 .. m, i + j < k + 1
        PROVE  f[<<i, j>>] = Entry(r, h, f, i, j)
    <3>1. i \in Nat /\ j \in Nat
      BY <1>1
    <3>2. ASSUME i # 0, j # 0
          PROVE  /\ f[<<i - 1, j - 1>>] = g[<<i - 1, j - 1>>]
                 /\ f[<<i - 1, j>>] = g[<<i - 1, j>>]
                 /\ f[<<i, j - 1>>] = g[<<i, j - 1>>]
      <4>1. i - 1 \in 0 .. n /\ j - 1 \in 0 .. m
        BY <1>1, <3>2
      <4>2. (i - 1) + (j - 1) < k /\ (i - 1) + j < k /\ i + (j - 1) < k
        BY <2>3, <3>1
      <4> QED BY <2>2, <4>1, <4>2
    <3>3. Entry(r, h, f, i, j) = Entry(r, h, g, i, j)
      BY <3>1, <3>2, EntryOf
    <3>4. f[<<i, j>>] = Entry(r, h, g, i, j)
      BY <2>1, <2>2
    <3> QED BY <3>3, <3>4
  <2>4. Right(f, k + 1)
    BY <2>3
  <2> HIDE DEF Right
  <2> QED BY <2>4
<1>5. n + m + 1 \in S
  <2>1. n + m + 1 \in Nat
    BY <1>1
  <2> HIDE DEF S
  <2> QED BY <1>3, <1>4, <2>1, AllNumbers
<1>6. \E dp : dp = [x \in P |-> Entry(r, h, dp, x[1], x[2])]
  <2>1. PICK g : Right(g, n + m + 1)
    BY <1>5
  <2> DEFINE f == [x \in P |-> g[x]]
  <2>2. ASSUME NEW i \in 0 .. n, NEW j \in 0 .. m PROVE f[<<i, j>>] = g[<<i, j>>]
    BY <1>2
  <2>3. ASSUME NEW x \in P PROVE f[x] = Entry(r, h, f, x[1], x[2])
    <3>1. PICK i \in 0 .. n, j \in 0 .. m : x = <<i, j>>
      BY <1>2
    <3>2. i \in Nat /\ j \in Nat /\ i + j < n + m + 1
      BY <1>1
    <3>3. i # 0 /\ j # 0 => i - 1 \in 0 .. n /\ j - 1 \in 0 .. m
      BY <1>1
    <3> HIDE DEF f
    <3>4. Entry(r, h, f, i, j) = Entry(r, h, g, i, j)
      <4>1. ASSUME i # 0, j # 0
            PROVE  /\ f[<<i - 1, j - 1>>] = g[<<i - 1, j - 1>>]
                   /\ f[<<i - 1, j>>] = g[<<i - 1, j>>]
                   /\ f[<<i, j - 1>>] = g[<<i, j - 1>>]
        BY <2>2, <3>3, <4>1
      <4> QED BY <3>2, <4>1, EntryOf
    <3>5. f[<<i, j>>] = Entry(r, h, g, i, j)
      BY <2>1, <2>2, <3>2
    <3> QED BY <3>1, <3>4, <3>5
  <2>4. f = [x \in P |-> Entry(r, h, f, x[1], x[2])]
    <3>1. f = [x \in P |-> f[x]]
      OBVIOUS
    <3> HIDE DEF f, P
    <3> QED BY <2>3, <3>1
  <2> HIDE DEF f
  <2> QED BY <2>4
<1>7. Table(r, h) = [x \in P |-> Entry(r, h, Table(r, h), x[1], x[2])]
  BY <1>6 DEF Table
<1> QED BY <1>7 DEF Distance, Table

\* Every entry is as wordErrorRate computes it, and a number.
LEMMA TableTyped ==
  ASSUME NEW r \in Seq(Words), NEW h \in Seq(Words), NEW i \in 0 .. Len(r), NEW j \in 0 .. Len(h)
  PROVE  /\ Table(r, h)[<<i, j>>] = Entry(r, h, Table(r, h), i, j)
         /\ Table(r, h)[<<i, j>>] \in Nat
<1> DEFINE n == Len(r)
           m == Len(h)
           T == Table(r, h)
           S == {k \in Nat : \A a \in 0 .. n, b \in 0 .. m : a + b < k => T[<<a, b>>] \in Nat}
<1>1. n \in Nat /\ m \in Nat
  OBVIOUS
<1>2. ASSUME NEW a \in 0 .. n, NEW b \in 0 .. m PROVE T[<<a, b>>] = Entry(r, h, T, a, b)
  <2>1. <<a, b>> \in Places(r, h)
    BY DEF Places
  <2>2. T = [x \in Places(r, h) |-> Entry(r, h, T, x[1], x[2])]
    BY TableExists
  <2> HIDE DEF T
  <2>3. T[<<a, b>>] = Entry(r, h, T, <<a, b>>[1], <<a, b>>[2])
    BY <2>1, <2>2
  <2> QED BY <2>3
<1> HIDE DEF T
<1>3. 0 \in S
  <2>1. ASSUME NEW a \in 0 .. n, NEW b \in 0 .. m PROVE ~(a + b < 0)
    BY <1>1
  <2> QED BY <2>1
<1>4. ASSUME NEW k \in Nat, k \in S PROVE k + 1 \in S
  <2>1. ASSUME NEW a \in 0 .. n, NEW b \in 0 .. m, a + b < k + 1 PROVE T[<<a, b>>] \in Nat
    <3>1. a \in Nat /\ b \in Nat
      BY <1>1
    <3>2. ASSUME a # 0, b # 0
          PROVE  /\ T[<<a - 1, b - 1>>] \in Nat
                 /\ T[<<a - 1, b>>] \in Nat
                 /\ T[<<a, b - 1>>] \in Nat
      <4>1. a - 1 \in 0 .. n /\ b - 1 \in 0 .. m
        BY <1>1, <3>2
      <4>2. (a - 1) + (b - 1) < k /\ (a - 1) + b < k /\ a + (b - 1) < k
        BY <2>1, <3>1
      <4> QED BY <1>4, <4>1, <4>2
    <3>3. Entry(r, h, T, a, b) \in Nat
      BY <3>1, <3>2, EntryTyped
    <3> QED BY <1>2, <3>3
  <2> QED BY <2>1
<1>5. i + j + 1 \in S
  <2>1. i + j + 1 \in Nat
    BY <1>1
  <2> HIDE DEF S
  <2> QED BY <1>3, <1>4, <2>1, AllNumbers
<1>6. T[<<i, j>>] \in Nat
  <2>1. i + j < i + j + 1
    BY <1>1
  <2> QED BY <1>5, <2>1
<1> QED BY <1>2, <1>6 DEF T

\* What an entry is, case by case.
LEMMA TableEntries ==
  ASSUME NEW r \in Seq(Words), NEW h \in Seq(Words), NEW i \in 0 .. Len(r), NEW j \in 0 .. Len(h)
  PROVE  LET T == Table(r, h) IN
         /\ i = 0 \/ j = 0 => T[<<i, j>>] = i + j
         /\ i # 0 /\ j # 0 =>
              /\ i - 1 \in 0 .. Len(r) /\ j - 1 \in 0 .. Len(h)
              /\ r[i] = h[j] => T[<<i, j>>] = T[<<i - 1, j - 1>>]
              /\ r[i] # h[j] =>
                   /\ T[<<i, j>>] <= T[<<i - 1, j - 1>>] + 1
                   /\ T[<<i, j>>] <= T[<<i - 1, j>>] + 1
                   /\ T[<<i, j>>] <= T[<<i, j - 1>>] + 1
                   /\ \/ T[<<i, j>>] = T[<<i - 1, j - 1>>] + 1
                      \/ T[<<i, j>>] = T[<<i - 1, j>>] + 1
                      \/ T[<<i, j>>] = T[<<i, j - 1>>] + 1
<1> DEFINE T == Table(r, h)
<1>1. T[<<i, j>>] = Entry(r, h, T, i, j)
  BY TableTyped
<1>2. i = 0 \/ j = 0 => T[<<i, j>>] = i + j
  BY <1>1 DEF Entry
<1>3. ASSUME i # 0, j # 0
      PROVE  i - 1 \in 0 .. Len(r) /\ j - 1 \in 0 .. Len(h)
  <2>1. Len(r) \in Nat /\ Len(h) \in Nat
    OBVIOUS
  <2> QED BY <1>3, <2>1
<1>4. ASSUME i # 0, j # 0, r[i] = h[j] PROVE T[<<i, j>>] = T[<<i - 1, j - 1>>]
  BY <1>1, <1>4 DEF Entry
<1>5. ASSUME i # 0, j # 0, r[i] # h[j]
      PROVE  /\ T[<<i, j>>] <= T[<<i - 1, j - 1>>] + 1
             /\ T[<<i, j>>] <= T[<<i - 1, j>>] + 1
             /\ T[<<i, j>>] <= T[<<i, j - 1>>] + 1
             /\ \/ T[<<i, j>>] = T[<<i - 1, j - 1>>] + 1
                \/ T[<<i, j>>] = T[<<i - 1, j>>] + 1
                \/ T[<<i, j>>] = T[<<i, j - 1>>] + 1
  <2> DEFINE a == T[<<i - 1, j - 1>>] + 1
             b == T[<<i - 1, j>>] + 1
             c == T[<<i, j - 1>>] + 1
  <2>1. a \in Nat /\ b \in Nat /\ c \in Nat
    <3>1. /\ T[<<i - 1, j - 1>>] \in Nat
          /\ T[<<i - 1, j>>] \in Nat
          /\ T[<<i, j - 1>>] \in Nat
      BY <1>3, <1>5, TableTyped
    <3> QED BY <3>1
  <2>2. T[<<i, j>>] = Least(a, b, c)
    <3> HIDE DEF T
    <3> QED BY <1>1, <1>5 DEF Entry
  <2>3. /\ T[<<i, j>>] <= a /\ T[<<i, j>>] <= b /\ T[<<i, j>>] <= c
        /\ T[<<i, j>>] = a \/ T[<<i, j>>] = b \/ T[<<i, j>>] = c
    <3> HIDE DEF a, b, c, T
    <3>1. /\ Least(a, b, c) <= a /\ Least(a, b, c) <= b /\ Least(a, b, c) <= c
          /\ Least(a, b, c) = a \/ Least(a, b, c) = b \/ Least(a, b, c) = c
      BY <2>1, LeastOf
    <3> QED BY <2>2, <3>1
  <2> QED BY <2>3
<1> QED BY <1>2, <1>3, <1>4, <1>5

\* Alignments of the first i words with the first j words, and what they cost.
Aligned(i, j) ==
  {A \in SUBSET ((1 .. i) \X (1 .. j)) :
     \A x, y \in A : (x[1] = y[1] <=> x[2] = y[2]) /\ (x[1] < y[1] <=> x[2] < y[2])}

Replaced(r, h, A) == {x \in A : r[x[1]] # h[x[2]]}

Cost(r, h, i, j, A) ==
  Cardinality(Replaced(r, h, A)) + (i - Cardinality(A)) + (j - Cardinality(A))

\* Alignments are finite.
LEMMA AlignedFinite ==
  ASSUME NEW r, NEW h, NEW i \in Nat, NEW j \in Nat, NEW A \in Aligned(i, j)
  PROVE  /\ IsFiniteSet(A) /\ Cardinality(A) \in Nat
         /\ IsFiniteSet(Replaced(r, h, A)) /\ Cardinality(Replaced(r, h, A)) \in Nat
<1>1. IsFiniteSet((1 .. i) \X (1 .. j))
  BY UpTo, FS_Product
<1>2. A \subseteq (1 .. i) \X (1 .. j)
  BY DEF Aligned
<1>3. IsFiniteSet(A)
  BY <1>1, <1>2, FS_Subset
<1>4. Replaced(r, h, A) \subseteq A
  BY DEF Replaced
<1>5. IsFiniteSet(Replaced(r, h, A))
  BY <1>3, <1>4, FS_Subset
<1> QED BY <1>3, <1>5, FS_CardinalityType

\* What is left of an alignment when a pair is taken out.
LEMMA WithoutPair ==
  ASSUME NEW r, NEW h, NEW i \in Nat, NEW j \in Nat, NEW A \in Aligned(i, j), NEW p \in A
  PROVE  LET B == A \ {p} IN
         /\ Cardinality(B) = Cardinality(A) - 1
         /\ Cardinality(Replaced(r, h, B)) =
              IF r[p[1]] = h[p[2]] THEN Cardinality(Replaced(r, h, A))
                                   ELSE Cardinality(Replaced(r, h, A)) - 1
<1> DEFINE B == A \ {p}
<1>1. /\ IsFiniteSet(A) /\ IsFiniteSet(Replaced(r, h, A))
  BY AlignedFinite
<1>2. Cardinality(B) = Cardinality(A) - 1
  BY <1>1, FS_RemoveElement
<1>3. CASE r[p[1]] = h[p[2]]
  <2>1. Replaced(r, h, B) = Replaced(r, h, A)
    BY <1>3 DEF Replaced
  <2> QED BY <1>2, <1>3, <2>1
<1>4. CASE r[p[1]] # h[p[2]]
  <2>1. Replaced(r, h, B) = Replaced(r, h, A) \ {p} /\ p \in Replaced(r, h, A)
    BY <1>4 DEF Replaced
  <2>2. Cardinality(Replaced(r, h, B)) = Cardinality(Replaced(r, h, A)) - 1
    BY <1>1, <2>1, FS_RemoveElement
  <2> QED BY <1>2, <1>4, <2>2
<1> QED BY <1>3, <1>4

\* A pair of the next two words can be added.
LEMMA WithPair ==
  ASSUME NEW r, NEW h, NEW i \in Nat \ {0}, NEW j \in Nat \ {0},
         NEW B \in Aligned(i - 1, j - 1), NEW A, A = B \cup {<<i, j>>}
  PROVE  /\ A \in Aligned(i, j)
         /\ Cost(r, h, i, j, A) =
              Cost(r, h, i - 1, j - 1, B) + (IF r[i] = h[j] THEN 0 ELSE 1)
<1> DEFINE p == <<i, j>>
<1>1. i - 1 \in Nat /\ j - 1 \in Nat /\ A = B \cup {p}
  OBVIOUS
<1>2. /\ IsFiniteSet(B) /\ IsFiniteSet(Replaced(r, h, B))
      /\ Cardinality(B) \in Nat /\ Cardinality(Replaced(r, h, B)) \in Nat
  BY <1>1, AlignedFinite
<1>3. \A x \in B : x = <<x[1], x[2]>> /\ x[1] \in 1 .. i - 1 /\ x[2] \in 1 .. j - 1
  BY DEF Aligned
<1>4. p \notin B
  BY <1>3
<1>5. A \in Aligned(i, j)
  <2>1. A \subseteq (1 .. i) \X (1 .. j)
    <3>1. ASSUME NEW x \in B PROVE x \in (1 .. i) \X (1 .. j)
      <4>1. x[1] \in 1 .. i /\ x[2] \in 1 .. j
        BY <1>3
      <4> QED BY <1>3, <4>1
    <3>2. p \in (1 .. i) \X (1 .. j)
      OBVIOUS
    <3> QED BY <3>1, <3>2
  <2>2. ASSUME NEW x \in A, NEW y \in A
        PROVE  (x[1] = y[1] <=> x[2] = y[2]) /\ (x[1] < y[1] <=> x[2] < y[2])
    <3>1. CASE x \in B /\ y \in B
      BY <3>1 DEF Aligned
    <3>2. CASE x \in B /\ y = p
      <4>1. x[1] \in 1 .. i - 1 /\ x[2] \in 1 .. j - 1 /\ y[1] = i /\ y[2] = j
        BY <1>3, <3>2
      <4> QED BY <4>1
    <3>3. CASE x = p /\ y \in B
      <4>1. y[1] \in 1 .. i - 1 /\ y[2] \in 1 .. j - 1 /\ x[1] = i /\ x[2] = j
        BY <1>3, <3>3
      <4> QED BY <4>1
    <3>4. CASE x = p /\ y = p
      BY <3>4
    <3> QED BY <3>1, <3>2, <3>3, <3>4
  <2> QED BY <2>1, <2>2 DEF Aligned
<1>6. Cardinality(A) = Cardinality(B) + 1
  BY <1>2, <1>4, FS_AddElement
<1>7. Cardinality(Replaced(r, h, A)) = Cardinality(Replaced(r, h, B)) + (IF r[i] = h[j] THEN 0 ELSE 1)
  <2>1. CASE r[i] = h[j]
    <3>1. Replaced(r, h, A) = Replaced(r, h, B)
      BY <2>1 DEF Replaced
    <3> QED BY <1>2, <2>1, <3>1
  <2>2. CASE r[i] # h[j]
    <3>1. Replaced(r, h, A) = Replaced(r, h, B) \cup {p} /\ p \notin Replaced(r, h, B)
      BY <1>4, <2>2 DEF Replaced
    <3>2. Cardinality(Replaced(r, h, A)) = Cardinality(Replaced(r, h, B)) + 1
      BY <1>2, <3>1, FS_AddElement
    <3> QED BY <2>2, <3>2
  <2> QED BY <2>1, <2>2
<1> QED BY <1>1, <1>2, <1>5, <1>6, <1>7 DEF Cost

\* Words can be left unpaired.
LEMMA OneMoreWord ==
  ASSUME NEW r, NEW h, NEW i \in Nat, NEW j \in Nat, NEW A
  PROVE  /\ A \in Aligned(i, j) => /\ A \in Aligned(i + 1, j) /\ A \in Aligned(i, j + 1)
                                  /\ Cost(r, h, i + 1, j, A) = Cost(r, h, i, j, A) + 1
                                  /\ Cost(r, h, i, j + 1, A) = Cost(r, h, i, j, A) + 1
<1> SUFFICES ASSUME A \in Aligned(i, j)
             PROVE  /\ A \in Aligned(i + 1, j) /\ A \in Aligned(i, j + 1)
                    /\ Cost(r, h, i + 1, j, A) = Cost(r, h, i, j, A) + 1
                    /\ Cost(r, h, i, j + 1, A) = Cost(r, h, i, j, A) + 1
  OBVIOUS
<1>1. /\ (1 .. i) \X (1 .. j) \subseteq (1 .. i + 1) \X (1 .. j)
      /\ (1 .. i) \X (1 .. j) \subseteq (1 .. i) \X (1 .. j + 1)
  <2>1. 1 .. i \subseteq 1 .. i + 1 /\ 1 .. j \subseteq 1 .. j + 1
    OBVIOUS
  <2> QED BY <2>1
<1>2. A \in Aligned(i + 1, j) /\ A \in Aligned(i, j + 1)
  BY <1>1 DEF Aligned
<1>3. Cardinality(A) \in Nat /\ Cardinality(Replaced(r, h, A)) \in Nat
  BY AlignedFinite
<1> QED BY <1>2, <1>3 DEF Cost

\* An alignment without its pair of the last word, if it has one.
LEMMA WordOff ==
  ASSUME NEW r, NEW h, NEW i \in Nat, NEW j \in Nat, NEW A \in Aligned(i, j),
         NEW a \in Nat, NEW b \in Nat, (i = a + 1 /\ j = b) \/ (i = a /\ j = b + 1)
  PROVE  \E B \in Aligned(a, b) : Cost(r, h, a, b, B) <= Cost(r, h, i, j, A) + 1
<1>1. Cardinality(A) \in Nat /\ Cardinality(Replaced(r, h, A)) \in Nat
  BY AlignedFinite
<1>2. \A x \in A : x = <<x[1], x[2]>> /\ x[1] \in 1 .. i /\ x[2] \in 1 .. j
  BY DEF Aligned
<1>3. CASE A \subseteq (1 .. a) \X (1 .. b)
  <2>1. A \in Aligned(a, b)
    BY <1>3 DEF Aligned
  <2>2. Cost(r, h, a, b, A) <= Cost(r, h, i, j, A) + 1
    BY <1>1 DEF Cost
  <2> QED BY <2>1, <2>2
<1>4. CASE ~(A \subseteq (1 .. a) \X (1 .. b))
  <2>1. PICK p \in A : p \notin (1 .. a) \X (1 .. b)
    BY <1>4
  <2> DEFINE B == A \ {p}
  <2>2. B \in Aligned(a, b)
    <3>1. ASSUME NEW x \in A, x \notin (1 .. a) \X (1 .. b) PROVE x = p
      <4>1. (x[1] = p[1] /\ x[1] = i) \/ (x[2] = p[2] /\ x[2] = j)
        <5>1. ASSUME NEW y \in A, y \notin (1 .. a) \X (1 .. b)
              PROVE  (y[1] = i /\ i = a + 1) \/ (y[2] = j /\ j = b + 1)
          <6>1. ~(y[1] \in 1 .. a) \/ ~(y[2] \in 1 .. b)
            BY <1>2, <5>1
          <6>2. y[1] \in 1 .. i /\ y[2] \in 1 .. j
            BY <1>2
          <6> QED BY <6>1, <6>2
        <5> QED BY <2>1, <3>1, <5>1
      <4>2. x[1] = p[1] /\ x[2] = p[2]
        BY <4>1 DEF Aligned
      <4> QED BY <1>2, <4>2
    <3>2. B \subseteq (1 .. a) \X (1 .. b)
      BY <3>1
    <3> QED BY <3>2 DEF Aligned
  <2>3. /\ Cardinality(B) = Cardinality(A) - 1
        /\ \/ Cardinality(Replaced(r, h, B)) = Cardinality(Replaced(r, h, A))
           \/ Cardinality(Replaced(r, h, B)) = Cardinality(Replaced(r, h, A)) - 1
    <3>1. Cardinality(Replaced(r, h, B)) =
            IF r[p[1]] = h[p[2]] THEN Cardinality(Replaced(r, h, A))
                                 ELSE Cardinality(Replaced(r, h, A)) - 1
      BY WithoutPair
    <3>2. Cardinality(B) = Cardinality(A) - 1
      BY WithoutPair
    <3> QED BY <3>1, <3>2
  <2> HIDE DEF B
  <2>4. Cost(r, h, a, b, B) <= Cost(r, h, i, j, A) + 1
    BY <1>1, <2>3 DEF Cost
  <2> QED BY <2>2, <2>4
<1> QED BY <1>3, <1>4

\* Taking off the last words: an alignment leaves one of them unpaired, or pairs them
\* with each other.
LEMMA LastWords ==
  ASSUME NEW r, NEW h, NEW i \in Nat \ {0}, NEW j \in Nat \ {0}, NEW A \in Aligned(i, j)
  PROVE  \/ A \in Aligned(i - 1, j) /\ Cost(r, h, i, j, A) = Cost(r, h, i - 1, j, A) + 1
         \/ A \in Aligned(i, j - 1) /\ Cost(r, h, i, j, A) = Cost(r, h, i, j - 1, A) + 1
         \/ \E B \in Aligned(i - 1, j - 1) :
              Cost(r, h, i, j, A) =
                Cost(r, h, i - 1, j - 1, B) + (IF r[i] = h[j] THEN 0 ELSE 1)
<1>1. i - 1 \in Nat /\ j - 1 \in Nat /\ i \in Nat /\ j \in Nat
  OBVIOUS
<1>2. Cardinality(A) \in Nat /\ Cardinality(Replaced(r, h, A)) \in Nat
  BY <1>1, AlignedFinite
<1>3. \A x \in A : x = <<x[1], x[2]>> /\ x[1] \in 1 .. i /\ x[2] \in 1 .. j
  BY DEF Aligned
<1>4. CASE \A x \in A : x[1] # i
  <2>1. A \subseteq (1 .. i - 1) \X (1 .. j)
    <3>1. ASSUME NEW x \in A PROVE x[1] \in 1 .. i - 1
      BY <1>3, <1>4
    <3> QED BY <1>3, <3>1
  <2>2. A \in Aligned(i - 1, j)
    BY <2>1 DEF Aligned
  <2>3. Cost(r, h, i, j, A) = Cost(r, h, i - 1, j, A) + 1
    BY <1>2 DEF Cost
  <2> QED BY <2>2, <2>3
<1>5. CASE \A x \in A : x[2] # j
  <2>1. A \subseteq (1 .. i) \X (1 .. j - 1)
    <3>1. ASSUME NEW x \in A PROVE x[2] \in 1 .. j - 1
      BY <1>3, <1>5
    <3> QED BY <1>3, <3>1
  <2>2. A \in Aligned(i, j - 1)
    BY <2>1 DEF Aligned
  <2>3. Cost(r, h, i, j, A) = Cost(r, h, i, j - 1, A) + 1
    BY <1>2 DEF Cost
  <2> QED BY <2>2, <2>3
<1>6. CASE (\E x \in A : x[1] = i) /\ (\E x \in A : x[2] = j)
  <2>1. PICK p \in A : p[1] = i
    BY <1>6
  <2>2. PICK q \in A : q[2] = j
    BY <1>6
  <2>3. p[2] = j
    <3>1. ~(q[1] < p[1])
      <4>1. q[1] < p[1] => q[2] < p[2]
        BY DEF Aligned
      <4>2. ~(q[2] < p[2])
        BY <1>3, <2>2
      <4> QED BY <4>1, <4>2
    <3>2. q[1] = p[1]
      BY <1>3, <2>1, <3>1
    <3>3. q[2] = p[2]
      BY <3>2 DEF Aligned
    <3> QED BY <2>2, <3>3
  <2> DEFINE B == A \ {p}
  <2>4. B \in Aligned(i - 1, j - 1)
    <3>1. ASSUME NEW x \in B PROVE x \in (1 .. i - 1) \X (1 .. j - 1)
      <4>1. x[1] # i /\ x[2] # j
        <5>1. x[1] = p[1] <=> x[2] = p[2]
          BY DEF Aligned
        <5>2. p = <<p[1], p[2]>> /\ x = <<x[1], x[2]>>
          BY <1>3
        <5> QED BY <2>1, <2>3, <5>1, <5>2
      <4>2. x[1] \in 1 .. i - 1 /\ x[2] \in 1 .. j - 1
        BY <1>3, <4>1
      <4> QED BY <1>3, <4>2
    <3> QED BY <3>1 DEF Aligned
  <2>5. /\ Cardinality(B) = Cardinality(A) - 1
        /\ Cardinality(Replaced(r, h, B)) =
             IF r[i] = h[j] THEN Cardinality(Replaced(r, h, A))
                            ELSE Cardinality(Replaced(r, h, A)) - 1
    BY <1>1, <2>1, <2>3, WithoutPair
  <2> HIDE DEF B
  <2>6. Cost(r, h, i, j, A) = Cost(r, h, i - 1, j - 1, B) + (IF r[i] = h[j] THEN 0 ELSE 1)
    BY <1>2, <2>5 DEF Cost
  <2> QED BY <2>4, <2>6
<1> QED BY <1>4, <1>5, <1>6

\* No alignment is cheaper than the entry says, and one costs as much.
Cheapest(r, h, i, j) ==
  /\ \A A \in Aligned(i, j) : Table(r, h)[<<i, j>>] <= Cost(r, h, i, j, A)
  /\ \E A \in Aligned(i, j) : Table(r, h)[<<i, j>>] = Cost(r, h, i, j, A)

\* The first row and column: nothing can be paired.
LEMMA CornerCheapest ==
  ASSUME NEW r \in Seq(Words), NEW h \in Seq(Words), NEW i \in 0 .. Len(r), NEW j \in 0 .. Len(h),
         i = 0 \/ j = 0
  PROVE  Cheapest(r, h, i, j)
<1>1. i \in Nat /\ j \in Nat
  OBVIOUS
<1>2. Aligned(i, j) = {{}}
  <2>1. (1 .. i) \X (1 .. j) = {}
    <3>1. 1 .. i = {} \/ 1 .. j = {}
      OBVIOUS
    <3> QED BY <3>1
  <2> QED BY <2>1 DEF Aligned
<1>3. Cost(r, h, i, j, {}) = i + j
  <2>1. Replaced(r, h, {}) = {}
    BY DEF Replaced
  <2>2. Cardinality({}) = 0
    BY FS_EmptySet
  <2>3. Cost(r, h, i, j, {}) = 0 + (i - 0) + (j - 0)
    BY <2>1, <2>2, Zenon DEF Cost
  <2> QED BY <1>1, <2>3
<1>4. Table(r, h)[<<i, j>>] = i + j
  BY TableEntries
<1>5. {} \in Aligned(i, j) /\ \A A \in Aligned(i, j) : A = {}
  BY <1>2
<1>6. Table(r, h)[<<i, j>>] <= i + j
  <2>1. i + j <= i + j
    BY <1>1
  <2> QED BY <1>4, <2>1
<1>7. ASSUME NEW A \in Aligned(i, j) PROVE Table(r, h)[<<i, j>>] <= Cost(r, h, i, j, A)
  <2>1. A = {}
    BY <1>5
  <2> QED BY <1>3, <1>6, <2>1
<1>8. Table(r, h)[<<i, j>>] = Cost(r, h, i, j, {})
  BY <1>3, <1>4
<1> QED BY <1>5, <1>7, <1>8 DEF Cheapest

\* Costs are numbers.
LEMMA CostTyped ==
  ASSUME NEW r, NEW h, NEW i \in Nat, NEW j \in Nat, NEW A \in Aligned(i, j)
  PROVE  Cost(r, h, i, j, A) \in Int
BY AlignedFinite DEF Cost

\* An entry, from the three it is computed from.
LEMMA NextCheapest ==
  ASSUME NEW r \in Seq(Words), NEW h \in Seq(Words), NEW i \in 1 .. Len(r), NEW j \in 1 .. Len(h),
         Cheapest(r, h, i - 1, j - 1), Cheapest(r, h, i - 1, j), Cheapest(r, h, i, j - 1)
  PROVE  Cheapest(r, h, i, j)
<1> DEFINE t == Table(r, h)[<<i, j>>]
           diag == Table(r, h)[<<i - 1, j - 1>>]
           up == Table(r, h)[<<i - 1, j>>]
           left == Table(r, h)[<<i, j - 1>>]
<1>1. /\ i \in Nat \ {0} /\ j \in Nat \ {0} /\ i - 1 \in Nat /\ j - 1 \in Nat
      /\ i \in 0 .. Len(r) /\ j \in 0 .. Len(h)
      /\ i - 1 \in 0 .. Len(r) /\ j - 1 \in 0 .. Len(h)
  OBVIOUS
<1>2. t \in Nat /\ diag \in Nat /\ up \in Nat /\ left \in Nat
  BY <1>1, TableTyped
<1>3. /\ r[i] = h[j] => t = diag
      /\ r[i] # h[j] =>
           /\ t <= diag + 1 /\ t <= up + 1 /\ t <= left + 1
           /\ t = diag + 1 \/ t = up + 1 \/ t = left + 1
  BY <1>1, TableEntries
<1>4. diag <= up + 1
  <2>1. PICK A \in Aligned(i - 1, j) : up = Cost(r, h, i - 1, j, A)
    BY DEF Cheapest
  <2>2. PICK B \in Aligned(i - 1, j - 1) :
          Cost(r, h, i - 1, j - 1, B) <= Cost(r, h, i - 1, j, A) + 1
    <3>1. j = (j - 1) + 1
      BY <1>1
    <3> QED BY <1>1, <3>1, WordOff
  <2>3. diag <= Cost(r, h, i - 1, j - 1, B) /\ Cost(r, h, i - 1, j - 1, B) \in Int
    BY <1>1, CostTyped DEF Cheapest
  <2> HIDE DEF diag, up
  <2> QED BY <1>2, <2>1, <2>2, <2>3
<1>5. diag <= left + 1
  <2>1. PICK A \in Aligned(i, j - 1) : left = Cost(r, h, i, j - 1, A)
    BY DEF Cheapest
  <2>2. PICK B \in Aligned(i - 1, j - 1) :
          Cost(r, h, i - 1, j - 1, B) <= Cost(r, h, i, j - 1, A) + 1
    <3>1. i = (i - 1) + 1
      BY <1>1
    <3> QED BY <1>1, <3>1, WordOff
  <2>3. diag <= Cost(r, h, i - 1, j - 1, B) /\ Cost(r, h, i - 1, j - 1, B) \in Int
    BY <1>1, CostTyped DEF Cheapest
  <2> HIDE DEF diag, left
  <2> QED BY <1>2, <2>1, <2>2, <2>3
<1>6. t <= up + 1 /\ t <= left + 1
  <2> HIDE DEF t, up, left, diag
  <2> QED BY <1>2, <1>3, <1>4, <1>5
<1>7. ASSUME NEW A \in Aligned(i, j) PROVE t <= Cost(r, h, i, j, A)
  <2>1. CASE A \in Aligned(i - 1, j) /\ Cost(r, h, i, j, A) = Cost(r, h, i - 1, j, A) + 1
    <3>1. up <= Cost(r, h, i - 1, j, A) /\ Cost(r, h, i - 1, j, A) \in Int
      BY <1>1, <2>1, CostTyped DEF Cheapest
    <3> HIDE DEF t, up
    <3> QED BY <1>2, <1>6, <2>1, <3>1
  <2>2. CASE A \in Aligned(i, j - 1) /\ Cost(r, h, i, j, A) = Cost(r, h, i, j - 1, A) + 1
    <3>1. left <= Cost(r, h, i, j - 1, A) /\ Cost(r, h, i, j - 1, A) \in Int
      BY <1>1, <2>2, CostTyped DEF Cheapest
    <3> HIDE DEF t, left
    <3> QED BY <1>2, <1>6, <2>2, <3>1
  <2>3. CASE \E B \in Aligned(i - 1, j - 1) :
               Cost(r, h, i, j, A) =
                 Cost(r, h, i - 1, j - 1, B) + (IF r[i] = h[j] THEN 0 ELSE 1)
    <3>1. PICK B \in Aligned(i - 1, j - 1) :
            Cost(r, h, i, j, A) =
              Cost(r, h, i - 1, j - 1, B) + (IF r[i] = h[j] THEN 0 ELSE 1)
      BY <2>3
    <3>2. diag <= Cost(r, h, i - 1, j - 1, B) /\ Cost(r, h, i - 1, j - 1, B) \in Int
      BY <1>1, CostTyped DEF Cheapest
    <3> HIDE DEF t, diag
    <3> QED BY <1>2, <1>3, <3>1, <3>2
  <2> QED BY <1>1, <2>1, <2>2, <2>3, LastWords
<1>8. \E A \in Aligned(i, j) : t = Cost(r, h, i, j, A)
  <2>1. CASE t = diag + (IF r[i] = h[j] THEN 0 ELSE 1)
    <3>1. PICK B \in Aligned(i - 1, j - 1) : diag = Cost(r, h, i - 1, j - 1, B)
      BY DEF Cheapest
    <3> DEFINE A == B \cup {<<i, j>>}
    <3>a. A = B \cup {<<i, j>>}
      OBVIOUS
    <3> HIDE DEF A, t, diag
    <3>2. /\ A \in Aligned(i, j)
          /\ Cost(r, h, i, j, A) =
               Cost(r, h, i - 1, j - 1, B) + (IF r[i] = h[j] THEN 0 ELSE 1)
      <4>1. i \in Nat \ {0} /\ j \in Nat \ {0}
        BY <1>1
      <4>2. B \in Aligned(i - 1, j - 1)
        BY <3>1
      <4> QED BY <4>1, <4>2, <3>a, WithPair
    <3> QED BY <2>1, <3>1, <3>2
  <2>2. CASE t = up + 1
    <3>1. PICK A \in Aligned(i - 1, j) : up = Cost(r, h, i - 1, j, A)
      BY DEF Cheapest
    <3>2. /\ A \in Aligned((i - 1) + 1, j)
          /\ Cost(r, h, (i - 1) + 1, j, A) = Cost(r, h, i - 1, j, A) + 1
      BY <1>1, <3>1, OneMoreWord
    <3>3. (i - 1) + 1 = i
      BY <1>1
    <3> QED BY <2>2, <3>1, <3>2, <3>3
  <2>3. CASE t = left + 1
    <3>1. PICK A \in Aligned(i, j - 1) : left = Cost(r, h, i, j - 1, A)
      BY DEF Cheapest
    <3>2. /\ A \in Aligned(i, (j - 1) + 1)
          /\ Cost(r, h, i, (j - 1) + 1, A) = Cost(r, h, i, j - 1, A) + 1
      BY <1>1, <3>1, OneMoreWord
    <3>3. (j - 1) + 1 = j
      BY <1>1
    <3> QED BY <2>3, <3>1, <3>2, <3>3
  <2>4. t = diag + (IF r[i] = h[j] THEN 0 ELSE 1) \/ t = up + 1 \/ t = left + 1
    <3> HIDE DEF t, diag, up, left
    <3> QED BY <1>2, <1>3
  <2> QED BY <2>1, <2>2, <2>3, <2>4
<1> QED BY <1>7, <1>8 DEF Cheapest

\* Every entry, by induction over the sum of its indices.
LEMMA AllCheapest ==
  ASSUME NEW r \in Seq(Words), NEW h \in Seq(Words)
  PROVE  Cheapest(r, h, Len(r), Len(h))
<1> DEFINE n == Len(r)
           m == Len(h)
           S == {k \in Nat : \A a \in 0 .. n, b \in 0 .. m : a + b < k => Cheapest(r, h, a, b)}
<1>1. n \in Nat /\ m \in Nat
  OBVIOUS
<1>2. 0 \in S
  <2>1. ASSUME NEW a \in 0 .. n, NEW b \in 0 .. m PROVE ~(a + b < 0)
    BY <1>1
  <2> QED BY <2>1
<1>3. ASSUME NEW k \in Nat, k \in S PROVE k + 1 \in S
  <2>1. ASSUME NEW a \in 0 .. n, NEW b \in 0 .. m, a + b < k + 1 PROVE Cheapest(r, h, a, b)
    <3>1. CASE a = 0 \/ b = 0
      BY <3>1, CornerCheapest
    <3>2. CASE a # 0 /\ b # 0
      <4>1. /\ a \in 1 .. n /\ b \in 1 .. m /\ a - 1 \in 0 .. n /\ b - 1 \in 0 .. m
            /\ (a - 1) + (b - 1) < k /\ (a - 1) + b < k /\ a + (b - 1) < k
        BY <1>1, <2>1, <3>2
      <4>2. /\ Cheapest(r, h, a - 1, b - 1) /\ Cheapest(r, h, a - 1, b)
            /\ Cheapest(r, h, a, b - 1)
        BY <1>3, <4>1
      <4> QED BY <4>1, <4>2, NextCheapest
    <3> QED BY <3>1, <3>2
  <2> QED BY <2>1
<1>4. n + m + 1 \in S
  <2>1. n + m + 1 \in Nat
    BY <1>1
  <2> HIDE DEF S
  <2> QED BY <1>2, <1>3, <2>1, AllNumbers
<1>5. n \in 0 .. n /\ m \in 0 .. m /\ n + m < n + m + 1
  BY <1>1
<1> QED BY <1>4, <1>5

\* The distance is the price of the cheapest alignment.
LEMMA DistanceIsLeast ==
  ASSUME NEW r \in Seq(Words), NEW h \in Seq(Words)
  PROVE  Distance(r, h) = Min({Edits(r, h, A) : A \in Alignments(r, h)})
<1> DEFINE d == Table(r, h)[<<Len(r), Len(h)>>]
           E == {Edits(r, h, A) : A \in Alignments(r, h)}
<1>1. Alignments(r, h) = Aligned(Len(r), Len(h))
  <2>1. \A A \in SUBSET ((1 .. Len(r)) \X (1 .. Len(h))) :
          A \in Alignments(r, h) <=> A \in Aligned(Len(r), Len(h))
    BY DEF Alignments, Matchings, Aligned
  <2>2. /\ Alignments(r, h) \subseteq SUBSET ((1 .. Len(r)) \X (1 .. Len(h)))
        /\ Aligned(Len(r), Len(h)) \subseteq SUBSET ((1 .. Len(r)) \X (1 .. Len(h)))
    BY DEF Alignments, Matchings, Aligned
  <2> QED BY <2>1, <2>2
<1>2. \A A : Edits(r, h, A) = Cost(r, h, Len(r), Len(h), A)
  BY DEF Edits, Cost, Replaced
<1>3. d \in E /\ \A e \in E : d <= e
  <2>1. /\ \A A \in Aligned(Len(r), Len(h)) : d <= Cost(r, h, Len(r), Len(h), A)
        /\ \E A \in Aligned(Len(r), Len(h)) : d = Cost(r, h, Len(r), Len(h), A)
    BY AllCheapest DEF Cheapest
  <2> HIDE DEF d
  <2> QED BY <1>1, <1>2, <2>1
<1>4. d \in Int /\ E \subseteq Int
  <2>1. Len(r) \in Nat /\ Len(h) \in Nat
    OBVIOUS
  <2>2. d \in Nat
    BY <2>1, TableTyped
  <2>3. \A A \in Aligned(Len(r), Len(h)) : Cost(r, h, Len(r), Len(h), A) \in Int
    BY <2>1, CostTyped
  <2> QED BY <1>1, <1>2, <2>2, <2>3
<1>5. Min(E) = d
  <2> HIDE DEF d, E
  <2>1. Min(E) \in E /\ \A e \in E : Min(E) <= e
    BY <1>3 DEF Min
  <2>2. Min(E) <= d /\ d <= Min(E)
    BY <1>3, <2>1
  <2>3. Min(E) \in Int
    BY <1>4, <2>1
  <2> QED BY <1>4, <2>2, <2>3
<1>6. Distance(r, h) = d
  BY TableExists
<1> QED BY <1>5, <1>6

\* Different last words make an error.
LEMMA DifferentWords ==
  ASSUME NEW r \in Seq(Words), NEW h \in Seq(Words), NEW i \in 0 .. Len(r), NEW j \in 0 .. Len(h),
         i # 0, j # 0, r[i] # h[j]
  PROVE  Table(r, h)[<<i, j>>] # 0
<1> DEFINE T(a, b) == Table(r, h)[<<a, b>>]
<1>1. i - 1 \in 0 .. Len(r) /\ j - 1 \in 0 .. Len(h)
  OBVIOUS
<1>2. T(i - 1, j - 1) \in Nat /\ T(i - 1, j) \in Nat /\ T(i, j - 1) \in Nat
  BY <1>1, TableTyped
<1>3. \/ T(i, j) = T(i - 1, j - 1) + 1
      \/ T(i, j) = T(i - 1, j) + 1
      \/ T(i, j) = T(i, j - 1) + 1
  BY TableEntries
<1> HIDE DEF T
<1>4. T(i, j) # 0
  BY <1>2, <1>3
<1> QED BY <1>4 DEF T

\* An entry is zero where the words above and left of it are the same.
LEMMA ZeroEntry ==
  ASSUME NEW r \in Seq(Words), NEW h \in Seq(Words), NEW i \in 0 .. Len(r), NEW j \in 0 .. Len(h),
         Table(r, h)[<<i, j>>] = 0
  PROVE  i = j /\ \A k \in 1 .. i : r[k] = h[k]
<1> DEFINE Same(a, b) == a = b /\ \A k \in 1 .. a : r[k] = h[k]
           T(a, b) == Table(r, h)[<<a, b>>]
           S == {k \in Nat : \A a \in 0 .. Len(r), b \in 0 .. Len(h) :
                               a + b < k /\ T(a, b) = 0 => Same(a, b)}
<1>1. Len(r) \in Nat /\ Len(h) \in Nat
  OBVIOUS
<1>2. 0 \in S
  <2>1. ASSUME NEW a \in 0 .. Len(r), NEW b \in 0 .. Len(h) PROVE ~(a + b < 0)
    BY <1>1
  <2> QED BY <2>1
<1>3. ASSUME NEW k \in Nat, k \in S PROVE k + 1 \in S
  <2>1. ASSUME NEW a \in 0 .. Len(r), NEW b \in 0 .. Len(h), a + b < k + 1, T(a, b) = 0
        PROVE  Same(a, b)
    <3>1. CASE a = 0 \/ b = 0
      <4>1. a + b = 0
        BY <2>1, <3>1, TableEntries
      <4>2. a = 0 /\ b = 0
        BY <1>1, <4>1
      <4> QED BY <4>2
    <3>2. CASE a # 0 /\ b # 0
      <4>1. a - 1 \in 0 .. Len(r) /\ b - 1 \in 0 .. Len(h) /\ (a - 1) + (b - 1) < k
        BY <1>1, <2>1, <3>2
      <4>2. r[a] = h[b]
        BY <2>1, <3>2, DifferentWords
      <4>3. T(a - 1, b - 1) = 0
        BY <2>1, <3>2, <4>2, TableEntries
      <4>4. Same(a - 1, b - 1)
        BY <1>3, <4>1, <4>3
      <4>5. a = b
        BY <1>1, <4>4
      <4>6. ASSUME NEW c \in 1 .. a PROVE r[c] = h[c]
        <5>1. CASE c = a
          BY <4>2, <4>5, <5>1
        <5>2. CASE c # a
          <6>1. c \in 1 .. a - 1
            BY <1>1, <5>2
          <6> QED BY <4>4, <6>1
        <5> QED BY <5>1, <5>2
      <4> QED BY <4>5, <4>6
    <3> QED BY <3>1, <3>2
  <2> HIDE DEF T, Same
  <2> QED BY <2>1
<1>4. i + j + 1 \in S
  <2>1. i + j + 1 \in Nat
    OBVIOUS
  <2> HIDE DEF S
  <2> QED BY <1>2, <1>3, <2>1, AllNumbers
<1>5. i + j < i + j + 1
  OBVIOUS
<1> QED BY <1>4, <1>5

\* A sentence is at no distance from itself, by induction over its words.
LEMMA ZeroDiagonal ==
  ASSUME NEW r \in Seq(Words)
  PROVE  Table(r, r)[<<Len(r), Len(r)>>] = 0
<1> DEFINE T(a) == Table(r, r)[<<a, a>>]
           S == {k \in Nat : k \in 0 .. Len(r) => T(k) = 0}
<1>1. Len(r) \in Nat
  OBVIOUS
<1>2. 0 \in S
  <2>1. 0 \in 0 .. Len(r) /\ 0 + 0 = 0
    BY <1>1
  <2>2. T(0) = 0 + 0
    BY <2>1, TableEntries
  <2> QED BY <2>1, <2>2
<1>3. ASSUME NEW k \in Nat, k \in S PROVE k + 1 \in S
  <2>1. ASSUME k + 1 \in 0 .. Len(r) PROVE T(k + 1) = 0
    <3>1. k \in 0 .. Len(r) /\ k + 1 # 0 /\ (k + 1) - 1 = k
      BY <1>1, <2>1
    <3>2. T(k + 1) = Table(r, r)[<<(k + 1) - 1, (k + 1) - 1>>]
      BY <2>1, <3>1, TableEntries
    <3> QED BY <1>3, <3>1, <3>2
  <2> QED BY <2>1
<1>4. Len(r) \in S
  <2> HIDE DEF S
  <2> QED BY <1>1, <1>2, <1>3, AllNumbers
<1> QED BY <1>1, <1>4

\* No error is made in what is recognised as it was said, and in nothing else.
LEMMA NoErrors ==
  ASSUME NEW r \in Seq(Words), NEW h \in Seq(Words)
  PROVE  WordErrorRate(r, h).num = 0 <=> r = h
<1>1. CASE r = <<>>
  BY <1>1 DEF WordErrorRate, Rate
<1>2. CASE r # <<>>
  <2>1. WordErrorRate(r, h).num = Table(r, h)[<<Len(r), Len(h)>>]
    BY <1>2, TableExists DEF WordErrorRate, Rate
  <2>2. Len(r) \in 0 .. Len(r) /\ Len(h) \in 0 .. Len(h)
    OBVIOUS
  <2>3. ASSUME Table(r, h)[<<Len(r), Len(h)>>] = 0 PROVE r = h
    <3>1. Len(r) = Len(h) /\ \A k \in 1 .. Len(r) : r[k] = h[k]
      BY <2>2, <2>3, ZeroEntry
    <3> QED BY <3>1
  <2>4. r = h => Table(r, h)[<<Len(r), Len(h)>>] = 0
    BY ZeroDiagonal
  <2> QED BY <2>1, <2>3, <2>4
<1> QED BY <1>1, <1>2

-----------------------------------------------------------------------------
(* The BLEU score: the clipped matches are a largest matching of the equal  *)
(* grams, by induction over the grams.                                     *)

\* Min of a pair.
LEMMA MinOfTwo ==
  ASSUME NEW a \in Nat, NEW b \in Nat
  PROVE  /\ Min({a, b}) \in Nat /\ Min({a, b}) <= a /\ Min({a, b}) <= b
         /\ Min({a, b}) = a \/ Min({a, b}) = b
<1>1. \E x \in {a, b} : \A y \in {a, b} : x <= y
  <2>1. CASE a <= b
    BY <2>1
  <2>2. CASE b <= a
    BY <2>2
  <2> QED BY <2>1, <2>2
<1>2. Min({a, b}) \in {a, b} /\ \A y \in {a, b} : Min({a, b}) <= y
  BY <1>1 DEF Min
<1> QED BY <1>2

\* The sum of clippedNGramMatches, over any part of the grams of the candidate.
Kept(r, c, n, gram) == Min({NGramCount(c, n, gram), NGramCount(r, n, gram)})
Grams(c, n) == {Gram(c, n, i) : i \in Starts(c, n)}
Picked(s) == CHOOSE gram \in s : TRUE
Summed(r, c, n, g, s) ==
  IF s = {} THEN 0 ELSE Kept(r, c, n, Picked(s)) + g[s \ {Picked(s)}]
Sums(r, c, n) == CHOOSE g : g = [s \in SUBSET Grams(c, n) |-> Summed(r, c, n, g, s)]

\* The clipped matches are the sum over all the grams.
LEMMA ClippedIsSum ==
  ASSUME NEW r, NEW c, NEW n
  PROVE  ClippedMatches(r, c, n) = Sums(r, c, n)[Grams(c, n)]
BY Zenon DEF ClippedMatches, MapThenSumSet, MapThenFoldSet, Sums, Summed, Grams, Kept, Picked

\* Where a gram can start.
LEMMA StartsFinite ==
  ASSUME NEW s \in Seq(Words), NEW n \in Nat
  PROVE  /\ IsFiniteSet(Starts(s, n))
         /\ IsFiniteSet(Grams(s, n))
         /\ n \in 1 .. Len(s) =>
              Starts(s, n) = 1 .. Len(s) - n + 1 /\ Cardinality(Starts(s, n)) = Len(s) - n + 1
<1>1. Len(s) \in Nat
  OBVIOUS
<1>2. IsFiniteSet(Starts(s, n))
  <2>1. Starts(s, n) \in SUBSET (1 .. Len(s))
    BY DEF Starts
  <2> QED BY <1>1, <2>1, UpTo, FS_Subset
<1>3. IsFiniteSet(Grams(s, n))
  <2> DEFINE f == [i \in Starts(s, n) |-> Gram(s, n, i)]
  <2>1. f \in Surjection(Starts(s, n), Grams(s, n))
    BY DEF Surjection, Grams
  <2> QED BY <1>2, <2>1, FS_Surjection
<1>4. ASSUME n \in 1 .. Len(s)
      PROVE  Starts(s, n) = 1 .. Len(s) - n + 1 /\ Cardinality(Starts(s, n)) = Len(s) - n + 1
  <2>1. Starts(s, n) = 1 .. Len(s) - n + 1
    BY <1>1, <1>4 DEF Starts
  <2>2. Len(s) - n + 1 \in Nat
    BY <1>1, <1>4
  <2> QED BY <2>1, <2>2, UpTo
<1> QED BY <1>2, <1>3, <1>4

\* This recursion can be satisfied too, by induction over the number of grams.
LEMMA SumExists ==
  ASSUME NEW r, NEW c \in Seq(Words), NEW n \in Nat
  PROVE  Sums(r, c, n) = [s \in SUBSET Grams(c, n) |-> Summed(r, c, n, Sums(r, c, n), s)]
<1> DEFINE G == Grams(c, n)
           Right(g, k) == \A s \in SUBSET G : Cardinality(s) < k => g[s] = Summed(r, c, n, g, s)
           S == {k \in Nat : \E g : Right(g, k)}
<1>1. IsFiniteSet(G)
  BY StartsFinite
<1>2. ASSUME NEW s \in SUBSET G
      PROVE  IsFiniteSet(s) /\ Cardinality(s) \in Nat /\ Cardinality(s) <= Cardinality(G)
  BY <1>1, FS_Subset, FS_CardinalityType
<1>3. ASSUME NEW s \in SUBSET G, s # {}, NEW x, x = Picked(s)
      PROVE  x \in s /\ s \ {x} \in SUBSET G /\ Cardinality(s \ {x}) = Cardinality(s) - 1
  <2>1. x \in s
    BY <1>3 DEF Picked
  <2>2. Cardinality(s \ {x}) = Cardinality(s) - 1
    BY <1>2, <2>1, FS_RemoveElement
  <2> QED BY <2>1, <2>2
<1>4. 0 \in S
  <2>1. Right(<<>>, 0)
    <3>1. ASSUME NEW s \in SUBSET G PROVE ~(Cardinality(s) < 0)
      BY <1>2
    <3> QED BY <3>1
  <2> QED BY <2>1
<1>5. ASSUME NEW k \in Nat, k \in S PROVE k + 1 \in S
  <2>1. PICK g : Right(g, k)
    BY <1>5
  <2> DEFINE f == [s \in SUBSET G |-> IF Cardinality(s) < k THEN g[s] ELSE Summed(r, c, n, g, s)]
  <2>2. ASSUME NEW s \in SUBSET G, Cardinality(s) < k + 1 PROVE f[s] = Summed(r, c, n, f, s)
    <3>1. f[s] = Summed(r, c, n, g, s)
      BY <2>1
    <3>2. Summed(r, c, n, f, s) = Summed(r, c, n, g, s)
      <4>1. CASE s = {}
        BY <4>1 DEF Summed
      <4>2. CASE s # {}
        <5> DEFINE x == Picked(s)
        <5>1. s \ {x} \in SUBSET G /\ Cardinality(s \ {x}) = Cardinality(s) - 1
          BY <1>3, <4>2
        <5>2. Cardinality(s \ {x}) < k
          BY <1>2, <2>2, <5>1
        <5>3. f[s \ {x}] = g[s \ {x}]
          BY <5>1, <5>2
        <5> HIDE DEF f
        <5> QED BY <4>2, <5>3 DEF Summed
      <4> QED BY <4>1, <4>2
    <3> QED BY <3>1, <3>2
  <2>3. Right(f, k + 1)
    <3> HIDE DEF f
    <3> QED BY <2>2
  <2> HIDE DEF Right, f
  <2> QED BY <2>3
<1>6. Cardinality(G) + 1 \in S
  <2>1. Cardinality(G) + 1 \in Nat
    BY <1>1, FS_CardinalityType
  <2> HIDE DEF S, G
  <2> QED BY <1>4, <1>5, <2>1, AllNumbers
<1>7. \E g : g = [s \in SUBSET G |-> Summed(r, c, n, g, s)]
  <2>1. PICK g : Right(g, Cardinality(G) + 1)
    BY <1>6
  <2> DEFINE f == [s \in SUBSET G |-> g[s]]
  <2>2. ASSUME NEW s \in SUBSET G PROVE f[s] = Summed(r, c, n, f, s)
    <3>1. Cardinality(s) < Cardinality(G) + 1
      BY <1>1, <1>2, FS_CardinalityType
    <3>2. f[s] = Summed(r, c, n, g, s)
      BY <2>1, <3>1
    <3>3. Summed(r, c, n, f, s) = Summed(r, c, n, g, s)
      <4>1. CASE s = {}
        BY <4>1 DEF Summed
      <4>2. CASE s # {}
        <5> DEFINE x == Picked(s)
        <5>1. s \ {x} \in SUBSET G
          OBVIOUS
        <5>2. f[s \ {x}] = g[s \ {x}]
          BY <5>1
        <5> HIDE DEF f
        <5> QED BY <4>2, <5>2 DEF Summed
      <4> QED BY <4>1, <4>2
    <3> QED BY <3>2, <3>3
  <2>3. f = [s \in SUBSET G |-> Summed(r, c, n, f, s)]
    <3>1. f = [s \in SUBSET G |-> f[s]]
      OBVIOUS
    <3> HIDE DEF f
    <3> QED BY <2>2, <3>1
  <2> HIDE DEF f
  <2> QED BY <2>3
<1> QED BY <1>7, Zenon DEF Sums

\* What the sum is made of.
LEMMA SumParts ==
  ASSUME NEW r \in Seq(Words), NEW c \in Seq(Words), NEW n \in Nat, NEW s \in SUBSET Grams(c, n)
  PROVE  /\ s = {} => Sums(r, c, n)[s] = 0
         /\ s # {} =>
              /\ Picked(s) \in s
              /\ Sums(r, c, n)[s] = Kept(r, c, n, Picked(s)) + Sums(r, c, n)[s \ {Picked(s)}]
<1> DEFINE I == Sums(r, c, n)
<1>1. I[s] = Summed(r, c, n, I, s)
  <2>1. I = [t \in SUBSET Grams(c, n) |-> Summed(r, c, n, I, t)]
    BY SumExists
  <2> HIDE DEF I
  <2> QED BY <2>1
<1> HIDE DEF I
<1>2. s = {} => I[s] = 0
  BY <1>1 DEF Summed
<1>3. s # {} => Picked(s) \in s
  BY DEF Picked
<1>4. s # {} => I[s] = Kept(r, c, n, Picked(s)) + I[s \ {Picked(s)}]
  BY <1>1 DEF Summed
<1> QED BY <1>2, <1>3, <1>4 DEF I

\* Two finite sets can be matched as far as the smaller one goes, and no further.
LEMMA SidesBound ==
  ASSUME NEW U, NEW V, IsFiniteSet(U), IsFiniteSet(V), NEW A \in Matchings(U \X V)
  PROVE  IsFiniteSet(A) /\ Cardinality(A) <= Cardinality(U) /\ Cardinality(A) <= Cardinality(V)
<1>1. \A x \in A : x = <<x[1], x[2]>> /\ x[1] \in U /\ x[2] \in V
  BY DEF Matchings
<1>2. \A x, y \in A : x[1] = y[1] <=> x[2] = y[2]
  BY DEF Matchings
<1>3. IsFiniteSet(A) /\ Cardinality(A) <= Cardinality(U)
  <2> DEFINE f == [x \in A |-> x[1]]
  <2>1. f \in Injection(A, U)
    <3>1. f \in [A -> U]
      BY <1>1
    <3>2. ASSUME NEW x \in A, NEW y \in A, f[x] = f[y] PROVE x = y
      <4>1. x[1] = y[1] /\ x[2] = y[2]
        BY <1>2, <3>2
      <4> QED BY <1>1, <4>1
    <3> HIDE DEF f
    <3> QED BY <3>1, <3>2 DEF Injection, IsInjective
  <2> QED BY <2>1, FS_Injection
<1>4. Cardinality(A) <= Cardinality(V)
  <2> DEFINE f == [x \in A |-> x[2]]
  <2>1. f \in Injection(A, V)
    <3>1. f \in [A -> V]
      BY <1>1
    <3>2. ASSUME NEW x \in A, NEW y \in A, f[x] = f[y] PROVE x = y
      <4>1. x[1] = y[1] /\ x[2] = y[2]
        BY <1>2, <3>2
      <4> QED BY <1>1, <4>1
    <3> HIDE DEF f
    <3> QED BY <3>1, <3>2 DEF Injection, IsInjective
  <2> QED BY <2>1, FS_Injection
<1> QED BY <1>3, <1>4

\* The first k of either side, paired as they are numbered.
LEMMA SidesMatched ==
  ASSUME NEW U, NEW V, IsFiniteSet(U), IsFiniteSet(V),
         NEW k \in Nat, k <= Cardinality(U), k <= Cardinality(V)
  PROVE  \E A \in Matchings(U \X V) : IsFiniteSet(A) /\ Cardinality(A) = k
<1>1. PICK f : f \in Bijection(1 .. Cardinality(U), U)
  BY FS_CardinalityType, Fun_ExistsBij
<1>2. PICK g : g \in Bijection(1 .. Cardinality(V), V)
  BY FS_CardinalityType, Fun_ExistsBij
<1>3. Cardinality(U) \in Nat /\ Cardinality(V) \in Nat
  BY FS_CardinalityType
<1>4. \A i \in 1 .. k : i \in 1 .. Cardinality(U) /\ i \in 1 .. Cardinality(V)
  BY <1>3
<1>5. ASSUME NEW i \in 1 .. k, NEW j \in 1 .. k
      PROVE  /\ f[i] \in U /\ g[i] \in V
             /\ f[i] = f[j] => i = j
             /\ g[i] = g[j] => i = j
  BY <1>1, <1>2, <1>4 DEF Bijection, Injection, IsInjective
<1> DEFINE A == {<<f[i], g[i]>> : i \in 1 .. k}
<1>6. A \in Matchings(U \X V)
  <2>1. A \subseteq U \X V
    BY <1>5
  <2>2. ASSUME NEW x \in A, NEW y \in A PROVE x[1] = y[1] <=> x[2] = y[2]
    <3>1. PICK i \in 1 .. k : x = <<f[i], g[i]>>
      OBVIOUS
    <3>2. PICK j \in 1 .. k : y = <<f[j], g[j]>>
      OBVIOUS
    <3> QED BY <1>5, <3>1, <3>2
  <2> HIDE DEF A
  <2> QED BY <2>1, <2>2 DEF Matchings
<1>7. IsFiniteSet(A) /\ Cardinality(A) = k
  <2> DEFINE e == [i \in 1 .. k |-> <<f[i], g[i]>>]
  <2>1. e \in Surjection(1 .. k, A)
    BY DEF Surjection
  <2>2. e \in Injection(1 .. k, A)
    <3>1. e \in [1 .. k -> A]
      OBVIOUS
    <3>2. ASSUME NEW i \in 1 .. k, NEW j \in 1 .. k, e[i] = e[j] PROVE i = j
      BY <1>5, <3>2
    <3> HIDE DEF e
    <3> QED BY <3>1, <3>2 DEF Injection, IsInjective
  <2>3. IsFiniteSet(1 .. k) /\ Cardinality(1 .. k) = k
    BY UpTo
  <2> HIDE DEF e, A
  <2> QED BY <2>1, <2>2, <2>3, FS_Surjection
<1> HIDE DEF A
<1> QED BY <1>6, <1>7

\* The pairs of equal grams, of some of the grams.
Pairs(r, c, n, s) == {x \in EqualGrams(r, c, n) : Gram(c, n, x[2]) \in s}
StartsOf(s, n, gram) == {i \in Starts(s, n) : Gram(s, n, i) = gram}

\* The pairs of one gram: as many are kept as can be matched.
LEMMA OneGram ==
  ASSUME NEW r \in Seq(Words), NEW c \in Seq(Words), NEW n \in Nat, NEW gram
  PROVE  /\ Pairs(r, c, n, {gram}) = StartsOf(r, n, gram) \X StartsOf(c, n, gram)
         /\ IsFiniteSet(StartsOf(r, n, gram)) /\ IsFiniteSet(StartsOf(c, n, gram))
         /\ Kept(r, c, n, gram) \in Nat
         /\ \A A \in Matchings(Pairs(r, c, n, {gram})) :
              IsFiniteSet(A) /\ Cardinality(A) <= Kept(r, c, n, gram)
         /\ \E A \in Matchings(Pairs(r, c, n, {gram})) :
              IsFiniteSet(A) /\ Cardinality(A) = Kept(r, c, n, gram)
<1> DEFINE U == StartsOf(r, n, gram)
           V == StartsOf(c, n, gram)
           k == Kept(r, c, n, gram)
<1>1. Pairs(r, c, n, {gram}) = U \X V
  BY DEF Pairs, EqualGrams, StartsOf
<1>2. IsFiniteSet(U) /\ IsFiniteSet(V)
  <2>1. U \in SUBSET Starts(r, n) /\ V \in SUBSET Starts(c, n)
    BY DEF StartsOf
  <2> QED BY <2>1, StartsFinite, FS_Subset
<1>3. Cardinality(U) \in Nat /\ Cardinality(V) \in Nat
  BY <1>2, FS_CardinalityType
<1>4. k = Min({Cardinality(V), Cardinality(U)})
  BY DEF Kept, NGramCount, StartsOf
<1>5. /\ k \in Nat /\ k <= Cardinality(U) /\ k <= Cardinality(V)
      /\ k = Cardinality(U) \/ k = Cardinality(V)
  BY <1>3, <1>4, MinOfTwo
<1> HIDE DEF k, U, V
<1>6. ASSUME NEW A \in Matchings(U \X V) PROVE IsFiniteSet(A) /\ Cardinality(A) <= k
  BY <1>2, <1>5, SidesBound
<1>7. \E A \in Matchings(U \X V) : IsFiniteSet(A) /\ Cardinality(A) = k
  BY <1>2, <1>5, SidesMatched
<1> QED BY <1>1, <1>2, <1>5, <1>6, <1>7 DEF k, U, V

\* Over some of the grams, the sum is the size of the largest matching.
Matched(r, c, n, s) ==
  /\ Sums(r, c, n)[s] \in Nat
  /\ \A A \in Matchings(Pairs(r, c, n, s)) : IsFiniteSet(A) /\ Cardinality(A) <= Sums(r, c, n)[s]
  /\ \E A \in Matchings(Pairs(r, c, n, s)) : IsFiniteSet(A) /\ Cardinality(A) = Sums(r, c, n)[s]

\* Over no gram.
LEMMA NoGramMatched ==
  ASSUME NEW r \in Seq(Words), NEW c \in Seq(Words), NEW n \in Nat
  PROVE  Matched(r, c, n, {})
<1>1. Sums(r, c, n)[{}] = 0
  BY SumParts
<1>2. Matchings(Pairs(r, c, n, {})) = {{}}
  <2>1. Pairs(r, c, n, {}) = {}
    BY DEF Pairs
  <2> QED BY <2>1 DEF Matchings
<1>3. IsFiniteSet({}) /\ Cardinality({}) = 0
  BY FS_EmptySet
<1>4. 0 \in Nat /\ 0 <= 0
  OBVIOUS
<1>5. {} \in Matchings(Pairs(r, c, n, {})) /\ \A A \in Matchings(Pairs(r, c, n, {})) : A = {}
  BY <1>2
<1> QED BY <1>1, <1>3, <1>4, <1>5, Zenon DEF Matched

\* Over one gram more: pairs of two grams share no place.
LEMMA GramMatched ==
  ASSUME NEW r \in Seq(Words), NEW c \in Seq(Words), NEW n \in Nat,
         NEW s, NEW gram \in s,
         Sums(r, c, n)[s] = Kept(r, c, n, gram) + Sums(r, c, n)[s \ {gram}],
         Matched(r, c, n, s \ {gram})
  PROVE  Matched(r, c, n, s)
<1> DEFINE P == Pairs(r, c, n, s)
           P1 == Pairs(r, c, n, {gram})
           P2 == Pairs(r, c, n, s \ {gram})
           k1 == Kept(r, c, n, gram)
           k2 == Sums(r, c, n)[s \ {gram}]
           k == Sums(r, c, n)[s]
<1>1. P = P1 \cup P2 /\ P1 \cap P2 = {}
  BY DEF Pairs
<1>2. k1 \in Nat /\ k2 \in Nat /\ k = k1 + k2
  BY OneGram DEF Matched
<1>3. ASSUME NEW x \in P1, NEW y \in P2 PROVE x[1] # y[1] /\ x[2] # y[2]
  <2>1. /\ Gram(c, n, x[2]) = gram /\ Gram(r, n, x[1]) = gram
        /\ Gram(c, n, y[2]) # gram /\ Gram(r, n, y[1]) # gram
    BY DEF Pairs, EqualGrams
  <2> QED BY <2>1
<1>4. \A A \in Matchings(P1) : IsFiniteSet(A) /\ Cardinality(A) <= k1
  BY OneGram
<1>5. PICK A1 \in Matchings(P1) : IsFiniteSet(A1) /\ Cardinality(A1) = k1
  BY OneGram
<1>6. \A A \in Matchings(P2) : IsFiniteSet(A) /\ Cardinality(A) <= k2
  BY DEF Matched
<1>7. PICK A2 \in Matchings(P2) : IsFiniteSet(A2) /\ Cardinality(A2) = k2
  BY DEF Matched
<1> HIDE DEF P, P1, P2, k1, k2, k
<1>8. ASSUME NEW A \in Matchings(P) PROVE IsFiniteSet(A) /\ Cardinality(A) <= k
  <2>1. A \cap P1 \in Matchings(P1) /\ A \cap P2 \in Matchings(P2)
    BY DEF Matchings
  <2>2. /\ IsFiniteSet(A \cap P1) /\ Cardinality(A \cap P1) <= k1 /\ Cardinality(A \cap P1) \in Nat
        /\ IsFiniteSet(A \cap P2) /\ Cardinality(A \cap P2) <= k2 /\ Cardinality(A \cap P2) \in Nat
    BY <1>4, <1>6, <2>1, FS_CardinalityType
  <2>3. A = (A \cap P1) \cup (A \cap P2) /\ (A \cap P1) \cap (A \cap P2) = {}
    BY <1>1 DEF Matchings
  <2>4. /\ IsFiniteSet(A)
        /\ Cardinality(A) = Cardinality(A \cap P1) + Cardinality(A \cap P2) - Cardinality({})
    BY <2>2, <2>3, FS_Union
  <2>5. Cardinality({}) = 0
    BY FS_EmptySet
  <2> QED BY <1>2, <2>2, <2>4, <2>5
<1>9. A1 \cup A2 \in Matchings(P) /\ IsFiniteSet(A1 \cup A2) /\ Cardinality(A1 \cup A2) = k
  <2>1. A1 \subseteq P1 /\ A2 \subseteq P2
    BY DEF Matchings
  <2>2. ASSUME NEW x \in A1 \cup A2, NEW y \in A1 \cup A2 PROVE x[1] = y[1] <=> x[2] = y[2]
    <3>1. CASE x \in A1 /\ y \in A1
      BY <3>1 DEF Matchings
    <3>2. CASE x \in A2 /\ y \in A2
      BY <3>2 DEF Matchings
    <3>3. CASE x \in A1 /\ y \in A2
      BY <1>3, <2>1, <3>3
    <3>4. CASE x \in A2 /\ y \in A1
      BY <1>3, <2>1, <3>4
    <3> QED BY <3>1, <3>2, <3>3, <3>4
  <2>3. A1 \cup A2 \in Matchings(P)
    BY <1>1, <2>1, <2>2 DEF Matchings
  <2>4. A1 \cap A2 = {}
    BY <1>1, <2>1
  <2>5. /\ IsFiniteSet(A1 \cup A2)
        /\ Cardinality(A1 \cup A2) = Cardinality(A1) + Cardinality(A2) - Cardinality({})
    BY <1>5, <1>7, <2>4, FS_Union
  <2>6. Cardinality({}) = 0
    BY FS_EmptySet
  <2> QED BY <1>2, <1>5, <1>7, <2>3, <2>5, <2>6
<1>10. k \in Nat
  BY <1>2
<1> QED BY <1>8, <1>9, <1>10 DEF Matched, P, k

\* Over all of them, by induction over the number of grams.
LEMMA AllMatched ==
  ASSUME NEW r \in Seq(Words), NEW c \in Seq(Words), NEW n \in Nat
  PROVE  Matched(r, c, n, Grams(c, n))
<1> DEFINE G == Grams(c, n)
           S == {k \in Nat : \A s \in SUBSET G : Cardinality(s) < k => Matched(r, c, n, s)}
<1>1. IsFiniteSet(G) /\ Cardinality(G) \in Nat
  BY StartsFinite, FS_CardinalityType
<1>2. ASSUME NEW s \in SUBSET G PROVE IsFiniteSet(s) /\ Cardinality(s) \in Nat
  BY <1>1, FS_Subset, FS_CardinalityType
<1>3. 0 \in S
  <2>1. ASSUME NEW s \in SUBSET G PROVE ~(Cardinality(s) < 0)
    BY <1>2
  <2> QED BY <2>1
<1>4. ASSUME NEW k \in Nat, k \in S PROVE k + 1 \in S
  <2>1. ASSUME NEW s \in SUBSET G, Cardinality(s) < k + 1 PROVE Matched(r, c, n, s)
    <3>1. CASE s = {}
      BY <3>1, NoGramMatched
    <3>2. CASE s # {}
      <4> DEFINE x == Picked(s)
      <4>1. x \in s /\ Sums(r, c, n)[s] = Kept(r, c, n, x) + Sums(r, c, n)[s \ {x}]
        BY <3>2, SumParts
      <4> HIDE DEF x
      <4>2. s \ {x} \in SUBSET G /\ Cardinality(s \ {x}) = Cardinality(s) - 1
        BY <1>2, <4>1, FS_RemoveElement
      <4>3. Matched(r, c, n, s \ {x})
        BY <1>2, <1>4, <2>1, <4>2
      <4> QED BY <4>1, <4>3, GramMatched
    <3> QED BY <3>1, <3>2
  <2> QED BY <2>1
<1>5. Cardinality(G) + 1 \in S
  <2>1. Cardinality(G) + 1 \in Nat
    BY <1>1
  <2> HIDE DEF S, G
  <2> QED BY <1>3, <1>4, <2>1, AllNumbers
<1>6. Cardinality(G) < Cardinality(G) + 1
  BY <1>1
<1> QED BY <1>5, <1>6

\* The clipped matches are a largest matching of the equal grams.
LEMMA ClippedIsLargest ==
  ASSUME NEW r \in Seq(Words), NEW c \in Seq(Words), NEW n \in Nat
  PROVE  /\ ClippedMatches(r, c, n) = Max({Cardinality(A) : A \in Matchings(EqualGrams(r, c, n))})
         /\ \A A \in Matchings(EqualGrams(r, c, n)) : Cardinality(A) <= ClippedMatches(r, c, n)
         /\ \E A \in Matchings(EqualGrams(r, c, n)) :
              IsFiniteSet(A) /\ Cardinality(A) = ClippedMatches(r, c, n)
<1> DEFINE k == ClippedMatches(r, c, n)
           E == EqualGrams(r, c, n)
           sizes == {Cardinality(A) : A \in Matchings(E)}
<1>1. k = Sums(r, c, n)[Grams(c, n)]
  BY ClippedIsSum
<1>2. Pairs(r, c, n, Grams(c, n)) = E
  BY DEF Pairs, Grams, EqualGrams
<1>3. /\ k \in Nat
      /\ \A A \in Matchings(E) : IsFiniteSet(A) /\ Cardinality(A) <= k
      /\ \E A \in Matchings(E) : IsFiniteSet(A) /\ Cardinality(A) = k
  <2>1. Matched(r, c, n, Grams(c, n))
    BY AllMatched
  <2> HIDE DEF k, E
  <2> QED BY <1>1, <1>2, <2>1 DEF Matched
<1> HIDE DEF k, E
<1>4. k \in sizes /\ \A m \in sizes : m <= k /\ m \in Nat
  BY <1>3, FS_CardinalityType
<1> HIDE DEF sizes
<1>5. Max(sizes) \in sizes /\ \A m \in sizes : m <= Max(sizes)
  BY <1>4 DEF Max
<1>6. Max(sizes) = k
  <2>1. Max(sizes) <= k /\ k <= Max(sizes) /\ Max(sizes) \in Nat
    BY <1>4, <1>5
  <2> QED BY <1>3, <2>1
<1> QED BY <1>3, <1>6 DEF k, E, sizes

\* The order n of the candidate: up to four, and up to all of it.
LEMMA OrderOf ==
  ASSUME NEW c \in Seq(Words), NEW n \in Orders(c)
  PROVE  n \in Nat /\ n \in 1 .. Len(c)
<1>1. Len(c) \in Nat /\ 4 \in Nat
  OBVIOUS
<1>2. Min({4, Len(c)}) \in Nat /\ Min({4, Len(c)}) <= Len(c)
  BY <1>1, MinOfTwo
<1> QED BY <1>1, <1>2 DEF Orders

\* A short candidate counts the gram that is all of it.
LEMMA FullOrder ==
  ASSUME NEW c \in Seq(Words), c # <<>>, Len(c) <= 4
  PROVE  Len(c) \in Orders(c)
<1>1. Len(c) \in Nat /\ 4 \in Nat /\ Len(c) > 0
  OBVIOUS
<1>2. Min({4, Len(c)}) = 4 \/ Min({4, Len(c)}) = Len(c)
  BY <1>1, MinOfTwo
<1> QED BY <1>1, <1>2 DEF Orders

\* The reference itself: every gram of it is matched with itself.
LEMMA AllGramsMatched ==
  ASSUME NEW r \in Seq(Words), NEW n \in Nat, n \in 1 .. Len(r)
  PROVE  ClippedMatches(r, r, n) = Len(r) - n + 1
<1> DEFINE S == Starts(r, n)
           D == {<<i, i>> : i \in S}
           k == ClippedMatches(r, r, n)
<1>1. IsFiniteSet(S) /\ Cardinality(S) = Len(r) - n + 1
  BY StartsFinite
<1>2. D \in Matchings(EqualGrams(r, r, n))
  <2>1. D \subseteq EqualGrams(r, r, n)
    BY DEF EqualGrams
  <2>2. \A x, y \in D : x[1] = y[1] <=> x[2] = y[2]
    OBVIOUS
  <2> QED BY <2>1, <2>2 DEF Matchings
<1>3. Cardinality(D) = Cardinality(S)
  <2> DEFINE f == [i \in S |-> <<i, i>>]
  <2>1. f \in Surjection(S, D)
    BY DEF Surjection
  <2>2. f \in Injection(S, D)
    BY DEF Injection, IsInjective
  <2> HIDE DEF f, S, D
  <2> QED BY <1>1, <2>1, <2>2, FS_Surjection
<1>4. Cardinality(D) <= k
  BY <1>2, ClippedIsLargest
<1>5. PICK A \in Matchings(EqualGrams(r, r, n)) : IsFiniteSet(A) /\ Cardinality(A) = k
  BY ClippedIsLargest
<1>6. Cardinality(A) <= Cardinality(S)
  <2>1. A \in Matchings(S \X S)
    BY DEF Matchings, EqualGrams
  <2> QED BY <1>1, <2>1, SidesBound
<1>7. Cardinality(A) \in Nat /\ Cardinality(S) \in Nat
  BY <1>1, <1>5, FS_CardinalityType
<1> HIDE DEF S, D, k
<1> QED BY <1>1, <1>3, <1>4, <1>5, <1>6, <1>7 DEF k

\* The score of the reference itself.
LEMMA ScoreOfItself ==
  ASSUME NEW r \in Seq(Words)
  PROVE  ScoreIsOne(r, r)
<1>1. ASSUME NEW n \in Orders(r) PROVE Precision(r, r, n).num = Precision(r, r, n).den
  BY OrderOf, AllGramsMatched DEF Precision, Rate
<1>2. Len(r) >= Len(r)
  OBVIOUS
<1> QED BY <1>1, <1>2 DEF ScoreIsOne

\* A short candidate with all its grams in the reference, and no shorter: its longest
\* gram is the whole of both.
LEMMA ScoreOfOthers ==
  ASSUME NEW r \in Seq(Words), NEW c \in Seq(Words), Len(c) <= 4, ScoreIsOne(r, c)
  PROVE  r = c
<1>1. CASE r = <<>>
  BY <1>1 DEF ScoreIsOne
<1>2. CASE r # <<>>
  <2> DEFINE n == Len(c)
  <2>1. c # <<>> /\ n >= Len(r) /\ \A m \in Orders(c) : Precision(r, c, m).num = Precision(r, c, m).den
    BY <1>2 DEF ScoreIsOne
  <2>2. n \in Nat /\ n > 0 /\ Len(r) \in Nat
    BY <2>1
  <2>3. ClippedMatches(r, c, n) = 1
    <3>1. n \in Orders(c)
      BY <2>1, FullOrder
    <3>2. ClippedMatches(r, c, n) = n - n + 1
      BY <2>1, <3>1 DEF Precision, Rate
    <3> QED BY <2>2, <3>2
  <2>4. PICK A \in Matchings(EqualGrams(r, c, n)) : IsFiniteSet(A) /\ Cardinality(A) = 1
    BY <2>2, <2>3, ClippedIsLargest
  <2>5. PICK x : x \in A
    <3>1. A # {}
      BY <2>4, FS_EmptySet
    <3> QED BY <3>1
  <2>6. /\ x[1] \in Starts(r, n) /\ x[2] \in Starts(c, n)
        /\ Gram(r, n, x[1]) = Gram(c, n, x[2])
    BY <2>5 DEF Matchings, EqualGrams
  <2>7. x[1] = 1 /\ x[2] = 1 /\ Len(r) = n
    BY <2>1, <2>2, <2>6 DEF Starts
  <2>8. Gram(r, n, 1) = r /\ Gram(c, n, 1) = c
    <3>1. 1 + n - 1 = n
      BY <2>2
    <3>2. Gram(r, n, 1) = SubSeq(r, 1, Len(r)) /\ Gram(c, n, 1) = SubSeq(c, 1, Len(c))
      BY <2>7, <3>1 DEF Gram
    <3>3. SubSeq(r, 1, Len(r)) = r /\ SubSeq(c, 1, Len(c)) = c
      OBVIOUS
    <3> QED BY <3>2, <3>3
  <2> QED BY <2>6, <2>7, <2>8
<1> QED BY <1>1, <1>2

\* What SentencesMeasured says, of any two sentences.
LEMMA SentencesAre ==
  ASSUME NEW r \in Seq(Words), NEW h \in Seq(Words)
  PROVE  /\ Distance(r, h) = Min({Edits(r, h, A) : A \in Alignments(r, h)})
         /\ WordErrorRate(r, h).num = 0 <=> r = h
         /\ \A n \in Orders(h) :
              ClippedMatches(r, h, n) = Max({Cardinality(A) : A \in Matchings(EqualGrams(r, h, n))})
         /\ r = h => ScoreIsOne(r, h)
         /\ Len(h) <= 4 /\ ScoreIsOne(r, h) => r = h
<1>1. ASSUME NEW n \in Orders(h)
      PROVE ClippedMatches(r, h, n) = Max({Cardinality(A) : A \in Matchings(EqualGrams(r, h, n))})
  BY OrderOf, ClippedIsLargest
<1>2. r = h => ScoreIsOne(r, h)
  BY ScoreOfItself
<1>3. Len(h) <= 4 /\ ScoreIsOne(r, h) => r = h
  BY ScoreOfOthers
<1> QED BY <1>1, <1>2, <1>3, DistanceIsLeast, NoErrors

-----------------------------------------------------------------------------
(* Latencies: the sorted ones, and what a percentile leaves on either side. *)

\* A value has at most the others before it.
LEMMA BeforeCounts ==
  ASSUME NEW vs \in Seq(Nat), NEW i \in DOMAIN vs
  PROVE  /\ IsFiniteSet(Before(vs, i))
         /\ Cardinality(Before(vs, i)) \in 0 .. Len(vs) - 1
<1>1. IsFiniteSet(DOMAIN vs) /\ Cardinality(DOMAIN vs) = Len(vs) /\ Len(vs) \in Nat
  <2>1. DOMAIN vs = 1 .. Len(vs) /\ Len(vs) \in Nat
    OBVIOUS
  <2> QED BY <2>1, UpTo
<1>2. IsFiniteSet(DOMAIN vs \ {i}) /\ Cardinality(DOMAIN vs \ {i}) = Len(vs) - 1
  BY <1>1, FS_RemoveElement
<1>3. Before(vs, i) \subseteq DOMAIN vs \ {i}
  <2>1. ASSUME NEW j \in Before(vs, i) PROVE j # i
    <3>1. vs[i] \in Nat /\ i \in Nat
      OBVIOUS
    <3> QED BY <2>1, <3>1 DEF Before
  <2> QED BY <2>1 DEF Before
<1>4. /\ IsFiniteSet(Before(vs, i))
      /\ Cardinality(Before(vs, i)) <= Len(vs) - 1
  BY <1>2, <1>3, FS_Subset
<1>5. Cardinality(Before(vs, i)) \in Nat
  BY <1>4, FS_CardinalityType
<1> QED BY <1>1, <1>4, <1>5

\* Of two places one is before the other, and has fewer before it.
LEMMA BeforeGrows ==
  ASSUME NEW vs \in Seq(Nat), NEW i \in DOMAIN vs, NEW j \in DOMAIN vs, j \in Before(vs, i)
  PROVE  Cardinality(Before(vs, j)) < Cardinality(Before(vs, i)) /\ vs[j] <= vs[i]
<1>1. /\ \A k \in DOMAIN vs : vs[k] \in Nat /\ k \in Nat
      /\ DOMAIN vs \subseteq Nat
  OBVIOUS
<1>2. Before(vs, j) \subseteq Before(vs, i) \ {j}
  BY <1>1 DEF Before
<1>3. IsFiniteSet(Before(vs, i)) /\ Cardinality(Before(vs, i)) \in Nat
  BY BeforeCounts, FS_CardinalityType
<1>4. /\ IsFiniteSet(Before(vs, i) \ {j})
      /\ Cardinality(Before(vs, i) \ {j}) = Cardinality(Before(vs, i)) - 1
  BY <1>3, FS_RemoveElement
<1>5. Cardinality(Before(vs, j)) <= Cardinality(Before(vs, i)) - 1
  BY <1>2, <1>4, FS_Subset
<1>6. Cardinality(Before(vs, j)) \in Nat
  BY BeforeCounts, FS_CardinalityType
<1>7. vs[j] <= vs[i]
  BY <1>1 DEF Before
<1> QED BY <1>3, <1>5, <1>6, <1>7

\* Every rank is taken by one place.
LEMMA RanksAreTaken ==
  ASSUME NEW vs \in Seq(Nat)
  PROVE  /\ \A k \in DOMAIN vs :
              Ranked(vs, k) \in DOMAIN vs /\ Cardinality(Before(vs, Ranked(vs, k))) = k - 1
         /\ \A k, l \in DOMAIN vs : k <= l => vs[Ranked(vs, k)] <= vs[Ranked(vs, l)]
<1> DEFINE n == Len(vs)
           rank == [i \in 1 .. n |-> Cardinality(Before(vs, i)) + 1]
<1>1. DOMAIN vs = 1 .. n /\ n \in Nat
  OBVIOUS
<1>2. \A i \in 1 .. n : vs[i] \in Nat
  OBVIOUS
<1>3. \A i \in 1 .. n : Cardinality(Before(vs, i)) \in 0 .. n - 1
  BY <1>1, BeforeCounts
<1>4. ASSUME NEW i \in 1 .. n, NEW j \in 1 .. n, i # j
      PROVE  i \in Before(vs, j) \/ j \in Before(vs, i)
  BY <1>1, <1>2, <1>4 DEF Before
<1>5. ASSUME NEW i \in 1 .. n, NEW j \in 1 .. n, i # j
      PROVE  Cardinality(Before(vs, i)) # Cardinality(Before(vs, j))
  <2>1. Cardinality(Before(vs, i)) \in Nat /\ Cardinality(Before(vs, j)) \in Nat
    BY <1>3
  <2>2. CASE i \in Before(vs, j)
    BY <1>1, <2>1, <2>2, BeforeGrows
  <2>3. CASE j \in Before(vs, i)
    BY <1>1, <2>1, <2>3, BeforeGrows
  <2> QED BY <1>4, <1>5, <2>2, <2>3
<1>6. rank \in Injection(1 .. n, 1 .. n)
  <2>1. rank \in [1 .. n -> 1 .. n]
    BY <1>1, <1>3
  <2>2. ASSUME NEW i \in 1 .. n, NEW j \in 1 .. n, rank[i] = rank[j] PROVE i = j
    <3>1. Cardinality(Before(vs, i)) = Cardinality(Before(vs, j))
      BY <1>3, <2>2
    <3> QED BY <1>5, <3>1
  <2> QED BY <2>1, <2>2, Fun_IsInj
<1>7. rank \in Surjection(1 .. n, 1 .. n)
  <2>1. IsFiniteSet(1 .. n)
    BY <1>1, FS_Interval
  <2> QED BY <1>6, <2>1, FS_Injection
<1>8. ASSUME NEW k \in 1 .. n
      PROVE  Ranked(vs, k) \in 1 .. n /\ Cardinality(Before(vs, Ranked(vs, k))) = k - 1
  <2>1. PICK i \in 1 .. n : rank[i] = k
    BY <1>7, <1>8 DEF Surjection
  <2>2. Cardinality(Before(vs, i)) = k - 1
    <3>1. Cardinality(Before(vs, i)) \in Int /\ rank[i] = Cardinality(Before(vs, i)) + 1
      BY <1>1, <1>3
    <3> QED BY <2>1, <3>1
  <2> QED BY <1>1, <2>2 DEF Ranked
<1>9. ASSUME NEW k \in 1 .. n, NEW l \in 1 .. n, k <= l
      PROVE  vs[Ranked(vs, k)] <= vs[Ranked(vs, l)]
  <2> DEFINE i == Ranked(vs, k)
             j == Ranked(vs, l)
  <2>1. /\ i \in 1 .. n /\ Cardinality(Before(vs, i)) = k - 1
        /\ j \in 1 .. n /\ Cardinality(Before(vs, j)) = l - 1
    BY <1>8
  <2> HIDE DEF i, j
  <2>2. ASSUME i = j PROVE vs[i] <= vs[j]
    BY <1>2, <2>1, <2>2
  <2>3. ASSUME i \in Before(vs, j) PROVE vs[i] <= vs[j]
    BY <1>1, <2>1, <2>3, BeforeGrows
  <2>4. ASSUME j \in Before(vs, i) PROVE vs[i] <= vs[j]
    <3>1. Cardinality(Before(vs, j)) < Cardinality(Before(vs, i))
      BY <1>1, <2>1, <2>4, BeforeGrows
    <3> QED BY <1>9, <2>1, <3>1
  <2>5. vs[i] <= vs[j]
    BY <1>4, <2>1, <2>2, <2>3, <2>4
  <2> QED BY <2>5 DEF i, j
<1> QED BY <1>1, <1>8, <1>9

\* The places of some ranks are as many as the ranks.
LEMMA PlacesOfRanks ==
  ASSUME NEW vs \in Seq(Nat), NEW K, K \subseteq DOMAIN vs, NEW S, S \subseteq DOMAIN vs,
         \A k \in K : Ranked(vs, k) \in S
  PROVE  IsFiniteSet(K) /\ IsFiniteSet(S) /\ Cardinality(K) <= Cardinality(S)
<1> DEFINE f == [k \in K |-> Ranked(vs, k)]
<1>1. IsFiniteSet(S)
  <2>1. DOMAIN vs = 1 .. Len(vs) /\ Len(vs) \in Nat
    OBVIOUS
  <2>2. IsFiniteSet(DOMAIN vs)
    BY <2>1, UpTo
  <2> QED BY <2>2, FS_Subset
<1>2. f \in Injection(K, S)
  <2>1. f \in [K -> S]
    OBVIOUS
  <2>2. ASSUME NEW k \in K, NEW l \in K, f[k] = f[l] PROVE k = l
    <3>1. k - 1 = l - 1
      <4>1. Ranked(vs, k) = Ranked(vs, l)
        BY <2>2
      <4>2. Cardinality(Before(vs, Ranked(vs, k))) = k - 1
        BY RanksAreTaken
      <4>3. Cardinality(Before(vs, Ranked(vs, l))) = l - 1
        BY RanksAreTaken
      <4> QED BY <4>1, <4>2, <4>3
    <3>2. k \in Nat /\ l \in Nat
      <4>1. DOMAIN vs \subseteq Nat
        OBVIOUS
      <4> QED BY <4>1
    <3> QED BY <3>1, <3>2
  <2> HIDE DEF f
  <2> QED BY <2>1, <2>2, Fun_IsInj
<1>3. IsFiniteSet(K) /\ Cardinality(K) <= Cardinality(S)
  <2> HIDE DEF f
  <2> QED BY <1>1, <1>2, FS_Injection
<1> QED BY <1>1, <1>3

\* The rank of a percentile among n values, a hundred times: it lies between two of
\* them, or on one.
LowerRank(n, p) == (p * (n - 1)) \div 100
FracRank(n, p) == (p * (n - 1)) % 100
UpperRank(n, p) == IF FracRank(n, p) = 0 THEN LowerRank(n, p) ELSE LowerRank(n, p) + 1

Percents == {50, 90, 95, 99}

\* A rank is a place among the sorted values.
LEMMA RankOf ==
  ASSUME NEW n \in Nat \ {0}, NEW p \in Percents
  PROVE  /\ FracRank(n, p) \in 0 .. 99
         /\ LowerRank(n, p) \in 0 .. n - 1
         /\ UpperRank(n, p) \in LowerRank(n, p) .. n - 1
         /\ 100 * LowerRank(n, p) + FracRank(n, p) = p * (n - 1)
<1> DEFINE rank == p * (n - 1)
<1>1. rank \in Nat /\ rank <= 99 * (n - 1)
  BY DEF Percents
<1> HIDE DEF rank
<1>2. /\ rank \div 100 \in Int /\ rank \div 100 >= 0 /\ rank % 100 \in 0 .. 99
      /\ 100 * (rank \div 100) + (rank % 100) = rank
  BY <1>1
<1>3. LowerRank(n, p) = rank \div 100 /\ FracRank(n, p) = rank % 100
  BY DEF rank, LowerRank, FracRank
<1>4. LowerRank(n, p) <= n - 1
  BY <1>1, <1>2, <1>3
<1>5. UpperRank(n, p) \in LowerRank(n, p) .. n - 1
  BY <1>1, <1>2, <1>3, <1>4 DEF UpperRank
<1>6. 100 * LowerRank(n, p) + FracRank(n, p) = rank
  BY <1>2, <1>3
<1> QED BY <1>2, <1>3, <1>4, <1>5, <1>6 DEF rank

\* A value between two others.
LEMMA Interpolation ==
  ASSUME NEW a \in Nat, NEW d \in Nat, NEW f \in 0 .. 99
  PROVE  a * (100 - f) + (a + d) * f = 100 * a + d * f
<1>1. a * (100 - f) = 100 * a - a * f
  OBVIOUS
<1>2. (a + d) * f = a * f + d * f
  OBVIOUS
<1>3. a * f \in Int /\ d * f \in Int
  OBVIOUS
<1> QED BY <1>1, <1>2, <1>3

\* What lies between two values is between them.
LEMMA Between ==
  ASSUME NEW a \in Nat, NEW b \in Nat, a <= b, NEW f \in 0 .. 99
  PROVE  /\ a * (100 - f) + b * f \in Nat
         /\ 100 * a <= a * (100 - f) + b * f
         /\ a * (100 - f) + b * f <= 100 * b
<1>1. PICK d \in Nat : b = a + d
  <2>1. b - a \in Nat /\ b = a + (b - a)
    OBVIOUS
  <2> QED BY <2>1
<1>2. a * (100 - f) + b * f = 100 * a + d * f
  BY <1>1, Interpolation
<1>3. d * f \in Nat /\ d * f <= 100 * d
  OBVIOUS
<1> QED BY <1>1, <1>2, <1>3

\* Further along is not lower.
LEMMA BetweenGrows ==
  ASSUME NEW a \in Nat, NEW b \in Nat, a <= b, NEW f \in 0 .. 99, NEW g \in 0 .. 99, f <= g
  PROVE  a * (100 - f) + b * f <= a * (100 - g) + b * g
<1>1. PICK d \in Nat : b = a + d
  <2>1. b - a \in Nat /\ b = a + (b - a)
    OBVIOUS
  <2> QED BY <2>1
<1>2. a * (100 - f) + b * f = 100 * a + d * f /\ a * (100 - g) + b * g = 100 * a + d * g
  BY <1>1, Interpolation
<1>3. d * f <= d * g
  OBVIOUS
<1> QED BY <1>2, <1>3

\* The two latencies a percentile lies between.
Low(vs, p) == vs[Ranked(vs, LowerRank(Len(vs), p) + 1)]
High(vs, p) == vs[Ranked(vs, UpperRank(Len(vs), p) + 1)]

\* A percentile lies between the values of its two ranks.
LEMMA PercentileBetween ==
  ASSUME NEW vs \in Seq(Nat), vs # <<>>, NEW p \in Percents
  PROVE  LET f == FracRank(Len(vs), p) IN
         /\ Low(vs, p) \in Nat /\ High(vs, p) \in Nat /\ Low(vs, p) <= High(vs, p)
         /\ Percentile(vs, p) = Low(vs, p) * (100 - f) + High(vs, p) * f
         /\ Percentile(vs, p) \in Nat
         /\ 100 * Low(vs, p) <= Percentile(vs, p) /\ Percentile(vs, p) <= 100 * High(vs, p)
<1> DEFINE n == Len(vs)
           l == LowerRank(n, p)
           u == UpperRank(n, p)
           f == FracRank(n, p)
<1>1. n \in Nat \ {0} /\ DOMAIN vs = 1 .. n /\ \A i \in 1 .. n : vs[i] \in Nat
  BY EmptySeq
<1>2. f \in 0 .. 99 /\ l \in 0 .. n - 1 /\ u \in l .. n - 1
  BY <1>1, RankOf
<1>3. l + 1 \in 1 .. n /\ u + 1 \in 1 .. n /\ l + 1 <= u + 1
  BY <1>1, <1>2
<1>4. /\ Low(vs, p) \in Nat /\ High(vs, p) \in Nat /\ Low(vs, p) <= High(vs, p)
  <2>1. /\ Ranked(vs, l + 1) \in 1 .. n /\ Ranked(vs, u + 1) \in 1 .. n
        /\ vs[Ranked(vs, l + 1)] <= vs[Ranked(vs, u + 1)]
    <3> HIDE DEF n, l, u, f
    <3> QED BY <1>1, <1>3, RanksAreTaken
  <2> QED BY <1>1, <2>1 DEF Low, High
<1>5. Percentile(vs, p) = Low(vs, p) * (100 - f) + High(vs, p) * f
  <2>1. Sorted(vs)[l + 1] = Low(vs, p) /\ Sorted(vs)[u + 1] = High(vs, p)
    <3>1. \A k \in 1 .. n : Sorted(vs)[k] = vs[Ranked(vs, k)]
      BY <1>1 DEF Sorted
    <3> QED BY <1>3, <3>1 DEF Low, High
  <2> QED BY <2>1 DEF Percentile, LowerRank, UpperRank, FracRank
<1>6. /\ Percentile(vs, p) \in Nat
      /\ 100 * Low(vs, p) <= Percentile(vs, p) /\ Percentile(vs, p) <= 100 * High(vs, p)
  <2> DEFINE a == Low(vs, p)
             b == High(vs, p)
  <2>1. a \in Nat /\ b \in Nat /\ a <= b
    BY <1>4
  <2> HIDE DEF a, b, f
  <2>2. /\ a * (100 - f) + b * f \in Nat
        /\ 100 * a <= a * (100 - f) + b * f
        /\ a * (100 - f) + b * f <= 100 * b
    BY <1>2, <2>1, Between
  <2> QED BY <1>5, <2>2 DEF a, b
<1> QED BY <1>4, <1>5, <1>6

\* Enough values on either side.
LEMMA PercentileParts ==
  ASSUME NEW vs \in Seq(Nat), vs # <<>>, NEW p \in Percents
  PROVE  LET below == {i \in DOMAIN vs : 100 * vs[i] <= Percentile(vs, p)}
             above == {i \in DOMAIN vs : 100 * vs[i] >= Percentile(vs, p)}
         IN  /\ 100 * Cardinality(below) >= p * (Len(vs) - 1)
             /\ 100 * Cardinality(above) >= (100 - p) * (Len(vs) - 1)
<1> DEFINE n == Len(vs)
           l == LowerRank(n, p)
           u == UpperRank(n, p)
           f == FracRank(n, p)
           below == {i \in DOMAIN vs : 100 * vs[i] <= Percentile(vs, p)}
           above == {i \in DOMAIN vs : 100 * vs[i] >= Percentile(vs, p)}
<1>1. n \in Nat \ {0} /\ DOMAIN vs = 1 .. n /\ \A i \in 1 .. n : vs[i] \in Nat
  BY EmptySeq
<1>2. f \in 0 .. 99 /\ l \in 0 .. n - 1 /\ u \in l .. n - 1 /\ 100 * l + f = p * (n - 1)
  BY <1>1, RankOf
<1>3. u = IF f = 0 THEN l ELSE l + 1
  BY DEF UpperRank
<1>4. /\ Percentile(vs, p) \in Nat /\ Low(vs, p) \in Nat /\ High(vs, p) \in Nat
      /\ 100 * Low(vs, p) <= Percentile(vs, p) /\ Percentile(vs, p) <= 100 * High(vs, p)
  BY PercentileBetween
<1>5. Low(vs, p) = vs[Ranked(vs, l + 1)] /\ High(vs, p) = vs[Ranked(vs, u + 1)]
  BY DEF Low, High
<1> HIDE DEF n, l, u, f
<1>6. IsFiniteSet(below) /\ Cardinality(below) \in Nat /\ l + 1 <= Cardinality(below)
  <2>1. ASSUME NEW k \in 1 .. l + 1 PROVE k \in DOMAIN vs /\ Ranked(vs, k) \in below
    <3>1. k \in 1 .. n /\ l + 1 \in 1 .. n /\ k <= l + 1
      BY <1>1, <1>2
    <3>2. Ranked(vs, k) \in 1 .. n /\ vs[Ranked(vs, k)] <= vs[Ranked(vs, l + 1)]
      BY <1>1, <3>1, RanksAreTaken
    <3>3. vs[Ranked(vs, k)] \in Nat
      BY <1>1, <3>2
    <3>4. 100 * vs[Ranked(vs, k)] <= Percentile(vs, p)
      BY <1>4, <1>5, <3>2, <3>3
    <3> QED BY <1>1, <3>1, <3>2, <3>4
  <2>2. l + 1 \in Nat /\ IsFiniteSet(1 .. l + 1) /\ Cardinality(1 .. l + 1) = l + 1
    <3>1. l + 1 \in Nat
      BY <1>2
    <3> QED BY <3>1, UpTo
  <2>3. below \subseteq DOMAIN vs
    OBVIOUS
  <2> HIDE DEF below
  <2>4. IsFiniteSet(below) /\ Cardinality(1 .. l + 1) <= Cardinality(below)
    BY <2>1, <2>3, PlacesOfRanks
  <2> QED BY <2>2, <2>4, FS_CardinalityType
<1>7. IsFiniteSet(above) /\ Cardinality(above) \in Nat /\ n - u <= Cardinality(above)
  <2>1. ASSUME NEW k \in u + 1 .. n PROVE k \in DOMAIN vs /\ Ranked(vs, k) \in above
    <3>1. k \in 1 .. n /\ u + 1 \in 1 .. n /\ u + 1 <= k
      BY <1>1, <1>2
    <3>2. Ranked(vs, k) \in 1 .. n /\ vs[Ranked(vs, u + 1)] <= vs[Ranked(vs, k)]
      BY <1>1, <3>1, RanksAreTaken
    <3>3. vs[Ranked(vs, k)] \in Nat
      BY <1>1, <3>2
    <3>4. 100 * vs[Ranked(vs, k)] >= Percentile(vs, p)
      BY <1>4, <1>5, <3>2, <3>3
    <3> QED BY <1>1, <3>1, <3>2, <3>4
  <2>2. Cardinality(u + 1 .. n) = n - u
    <3>1. u + 1 \in Int /\ n \in Int /\ u + 1 <= n
      BY <1>1, <1>2
    <3>2. Cardinality(u + 1 .. n) = IF u + 1 > n THEN 0 ELSE n - (u + 1) + 1
      BY <3>1, FS_Interval
    <3>3. ~(u + 1 > n) /\ n - (u + 1) + 1 = n - u
      BY <1>1, <1>2, <3>1
    <3> QED BY <3>2, <3>3
  <2>3. above \subseteq DOMAIN vs
    OBVIOUS
  <2> HIDE DEF above
  <2>4. IsFiniteSet(above) /\ Cardinality(u + 1 .. n) <= Cardinality(above)
    BY <2>1, <2>3, PlacesOfRanks
  <2> QED BY <2>2, <2>4, FS_CardinalityType
<1>8. 100 * Cardinality(below) >= p * (n - 1)
  <2> HIDE DEF below
  <2>1. 100 * (l + 1) >= 100 * l + f
    BY <1>2
  <2> QED BY <1>2, <1>6, <2>1
<1>9. 100 * Cardinality(above) >= (100 - p) * (n - 1)
  <2> HIDE DEF above
  <2>1. (100 - p) * (n - 1) = 100 * (n - 1) - p * (n - 1)
    BY <1>1 DEF Percents
  <2>2. 100 * (n - u) >= 100 * (n - 1) - (100 * l + f)
    BY <1>1, <1>2, <1>3
  <2> QED BY <1>1, <1>2, <1>7, <2>1, <2>2
<1> QED BY <1>8, <1>9 DEF n

LEMMA Hundreds ==
  ASSUME NEW a \in Int, NEW b \in Int, NEW f \in 0 .. 99, NEW g \in 0 .. 99,
         100 * a + f <= 100 * b + g
  PROVE  a < b \/ (a = b /\ f <= g)
OBVIOUS

\* A higher percentile is not lower.
LEMMA PercentilesGrow ==
  ASSUME NEW vs \in Seq(Nat), vs # <<>>, NEW p \in Percents, NEW q \in Percents, p < q
  PROVE  Percentile(vs, p) <= Percentile(vs, q)
<1> DEFINE n == Len(vs)
<1>1. n \in Nat \ {0} /\ DOMAIN vs = 1 .. n
  BY EmptySeq
<1>2. ASSUME NEW r \in Percents
      PROVE  /\ FracRank(n, r) \in 0 .. 99 /\ LowerRank(n, r) \in 0 .. n - 1
             /\ UpperRank(n, r) \in LowerRank(n, r) .. n - 1
             /\ 100 * LowerRank(n, r) + FracRank(n, r) = r * (n - 1)
  BY <1>1, RankOf
<1>3. ASSUME NEW r \in Percents
      PROVE  /\ Low(vs, r) \in Nat /\ High(vs, r) \in Nat /\ Low(vs, r) <= High(vs, r)
             /\ Percentile(vs, r) =
                  Low(vs, r) * (100 - FracRank(n, r)) + High(vs, r) * FracRank(n, r)
             /\ Percentile(vs, r) \in Nat
             /\ 100 * Low(vs, r) <= Percentile(vs, r) /\ Percentile(vs, r) <= 100 * High(vs, r)
  BY PercentileBetween
<1>4. p * (n - 1) <= q * (n - 1)
  BY <1>1 DEF Percents
<1>5. \/ LowerRank(n, p) < LowerRank(n, q)
      \/ LowerRank(n, p) = LowerRank(n, q) /\ FracRank(n, p) <= FracRank(n, q)
  <2>1. /\ LowerRank(n, p) \in Int /\ FracRank(n, p) \in 0 .. 99
        /\ LowerRank(n, q) \in Int /\ FracRank(n, q) \in 0 .. 99
    BY <1>2
  <2>2. 100 * LowerRank(n, p) + FracRank(n, p) <= 100 * LowerRank(n, q) + FracRank(n, q)
    BY <1>2, <1>4
  <2> HIDE DEF n
  <2> QED BY <2>1, <2>2, Hundreds
<1>6. CASE LowerRank(n, p) < LowerRank(n, q)
  <2>1. UpperRank(n, p) <= LowerRank(n, q)
    BY <1>2, <1>6 DEF UpperRank
  <2>2. UpperRank(n, p) + 1 \in 1 .. n /\ LowerRank(n, q) + 1 \in 1 .. n
    BY <1>1, <1>2
  <2>3. UpperRank(n, p) + 1 <= LowerRank(n, q) + 1
    BY <1>1, <1>2, <2>1
  <2>4. High(vs, p) <= Low(vs, q)
    <3> HIDE DEF n
    <3>1. vs[Ranked(vs, UpperRank(n, p) + 1)] <= vs[Ranked(vs, LowerRank(n, q) + 1)]
      BY <1>1, <2>2, <2>3, RanksAreTaken
    <3> QED BY <3>1 DEF High, Low, n
  <2> QED BY <1>3, <2>4
<1>7. CASE LowerRank(n, p) = LowerRank(n, q) /\ FracRank(n, p) <= FracRank(n, q)
  <2>1. Low(vs, p) = Low(vs, q)
    BY <1>7 DEF Low
  <2>2. CASE FracRank(n, p) = 0
    <3>1. High(vs, p) = Low(vs, p)
      BY <2>2 DEF High, Low, UpperRank
    <3> QED BY <1>3, <2>1, <3>1
  <2>3. CASE FracRank(n, p) # 0
    <3>1. UpperRank(n, p) = UpperRank(n, q)
      <4>1. FracRank(n, p) \in 0 .. 99 /\ FracRank(n, q) \in 0 .. 99
        BY <1>2
      <4>2. FracRank(n, q) # 0
        <5> DEFINE f == FracRank(n, p)
                   g == FracRank(n, q)
        <5>1. f \in 0 .. 99 /\ g \in 0 .. 99 /\ f <= g /\ f # 0
          BY <1>7, <2>3, <4>1
        <5> HIDE DEF f, g
        <5>2. g # 0
          BY <5>1
        <5> QED BY <5>2 DEF g
      <4> QED BY <1>7, <2>3, <4>2 DEF UpperRank
    <3>2. High(vs, p) = High(vs, q)
      BY <3>1 DEF High
    <3>3. Percentile(vs, p) = Low(vs, q) * (100 - FracRank(n, p)) + High(vs, q) * FracRank(n, p)
      BY <1>3, <2>1, <3>2
    <3>4. Percentile(vs, q) = Low(vs, q) * (100 - FracRank(n, q)) + High(vs, q) * FracRank(n, q)
      BY <1>3
    <3>5. /\ FracRank(n, p) \in 0 .. 99 /\ FracRank(n, q) \in 0 .. 99
          /\ Low(vs, q) \in Nat /\ High(vs, q) \in Nat /\ Low(vs, q) <= High(vs, q)
      BY <1>2, <1>3
    <3> HIDE DEF n
    <3> QED BY <1>7, <3>3, <3>4, <3>5, BetweenGrows
  <2> QED BY <2>2, <2>3
<1> QED BY <1>5, <1>6, <1>7

\* What LatenciesMeasured says, of any latencies.
LEMMA LatenciesAre ==
  ASSUME NEW vs \in Seq(Nat), vs # <<>>
  PROVE  /\ \A p \in Percents :
              LET below == {i \in DOMAIN vs : 100 * vs[i] <= Percentile(vs, p)}
                  above == {i \in DOMAIN vs : 100 * vs[i] >= Percentile(vs, p)}
              IN  /\ 100 * Cardinality(below) >= p * (Len(vs) - 1)
                  /\ 100 * Cardinality(above) >= (100 - p) * (Len(vs) - 1)
         /\ \A p, q \in Percents : p < q => Percentile(vs, p) <= Percentile(vs, q)
BY PercentileParts, PercentilesGrow

-----------------------------------------------------------------------------
(* The parts together.                                                     *)

QualityInv ==
  /\ ref \in Seq(Words) /\ hyp \in Seq(Words)
  /\ values \in Seq(Nat)
  /\ SignalsInv

LEMMA QualityStart == QualityInit => QualityInv
<1> SUFFICES ASSUME QualityInit PROVE QualityInv
  OBVIOUS
<1>1. ref \in Seq(Words) /\ hyp \in Seq(Words) /\ values \in Seq(Nat)
  BY DEF QualityInit
<1>2. SignalsInv
  BY SignalsStart DEF QualityInit
<1> QED BY <1>1, <1>2 DEF QualityInv

LEMMA QualitySteps == QualityInv /\ [QualityNext]_qualityVars => QualityInv'
<1> SUFFICES ASSUME QualityInv, [QualityNext]_qualityVars PROVE QualityInv'
  OBVIOUS
<1>1. ref \in Seq(Words) /\ hyp \in Seq(Words) /\ values \in Seq(Nat)
  BY DEF QualityInv
<1>2. CASE AddsWord
  <2>1. PICK w \in Words :
          \/ ref' = Append(ref, w) /\ hyp' = hyp
          \/ hyp' = Append(hyp, w) /\ ref' = ref
    BY <1>2 DEF AddsWord
  <2>2. Append(ref, w) \in Seq(Words) /\ Append(hyp, w) \in Seq(Words)
    BY <1>1
  <2>3. ref' \in Seq(Words) /\ hyp' \in Seq(Words)
    BY <1>1, <2>1, <2>2
  <2>4. values' \in Seq(Nat) /\ UNCHANGED signalsVars
    BY <1>1, <1>2 DEF AddsWord
  <2>5. SignalsInv'
    BY <2>4, SignalsSteps DEF QualityInv
  <2> QED BY <2>3, <2>4, <2>5 DEF QualityInv
<1>3. CASE AddsLatency
  <2>1. PICK ms \in Millis : values' = Append(values, ms)
    BY <1>3 DEF AddsLatency
  <2>2. values' \in Seq(Nat)
    BY <1>1, <2>1, QualityAssumption
  <2>3. ref' \in Seq(Words) /\ hyp' \in Seq(Words) /\ UNCHANGED signalsVars
    BY <1>1, <1>3 DEF AddsLatency, sentenceVars
  <2>4. SignalsInv'
    BY <2>3, SignalsSteps DEF QualityInv
  <2> QED BY <2>2, <2>3, <2>4 DEF QualityInv
<1>4. CASE SignalStep
  <2>1. ref' \in Seq(Words) /\ hyp' \in Seq(Words) /\ values' \in Seq(Nat)
    BY <1>1, <1>4 DEF SignalStep, sentenceVars
  <2>2. SignalsNext
    BY <1>4 DEF SignalStep, SignalsNext
  <2>3. SignalsInv'
    BY <2>2, SignalsSteps DEF QualityInv
  <2> QED BY <2>1, <2>3 DEF QualityInv
<1>5. CASE UNCHANGED qualityVars
  <2>1. ref' \in Seq(Words) /\ hyp' \in Seq(Words) /\ values' \in Seq(Nat) /\ UNCHANGED signalsVars
    BY <1>1, <1>5 DEF qualityVars, sentenceVars
  <2>2. SignalsInv'
    BY <2>1, SignalsSteps DEF QualityInv
  <2> QED BY <2>1, <2>2 DEF QualityInv
<1> QED BY <1>2, <1>3, <1>4, <1>5 DEF QualityNext

\* Every measure is what it claims to be, of sentences and latencies of any length: the
\* word error rate counts the fewest edits, the clipped matches are what can be matched
\* one to one, a percentile has enough latencies on either side, and sound and time are
\* measured right (wer.go, bleu.go, metrics.go, alaw.go, vad.go, backoff.go).
THEOREM MeasuresAreExact == QualitySpec => []Measures
<1>1. QualityInv => Measures
  <2> SUFFICES ASSUME QualityInv PROVE Measures
    OBVIOUS
  <2>1. SentencesMeasured
    <3>1. ref \in Seq(Words) /\ hyp \in Seq(Words)
      BY DEF QualityInv
    <3> QED BY <3>1, SentencesAre DEF SentencesMeasured
  <2>2. LatenciesMeasured
    <3>1. values \in Seq(Nat)
      BY DEF QualityInv
    <3> QED BY <3>1, LatenciesAre DEF LatenciesMeasured, Percents
  <2>3. SignalsMeasured
    BY SignalsHold DEF QualityInv
  <2> QED BY <2>1, <2>2, <2>3 DEF Measures
<1> QED BY <1>1, QualityStart, QualitySteps, PTL DEF QualitySpec
=============================================================================
