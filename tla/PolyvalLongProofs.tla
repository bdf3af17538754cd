-------------------------- MODULE PolyvalLongProofs --------------------------
(***************************************************************************)
(* The profile with 8-bit windows, for every width, every key and block    *)
(* and any sequence of calls: eight doublings are a byte shift and one     *)
(* entry of the reduction table, the index that wraps at 256 fills each    *)
(* table once, and the byte loop gives the product of PolyvalSpec.         *)
(***************************************************************************)
EXTENDS PolyvalLong, PolyvalFieldProofs

\* Polynomials that fit in a byte.
Byte8 == SUBSET (0 .. 7)

\* x^8 times an element, as eight calls of polyval_double would have it.
D8(a) == Double4(Double4(a))

LEMMA D8Type ==
  ASSUME NEW a \in Element
  PROVE  D8(a) \in Element
BY Double4Type DEF D8

LEMMA Double4Linear ==
  ASSUME NEW a \in Element, NEW b \in Element
  PROVE  Double4(Xor(a, b)) = Xor(Double4(a), Double4(b))
<1>1. /\ Double(a) \in Element /\ Double(b) \in Element
      /\ Double(Xor(a, b)) = Xor(Double(a), Double(b))
  BY DoubleType, DoubleLinear
<1>2. /\ Double(Double(a)) \in Element /\ Double(Double(b)) \in Element
      /\ Double(Double(Xor(a, b))) = Xor(Double(Double(a)), Double(Double(b)))
  BY <1>1, DoubleType, DoubleLinear
<1>3. /\ Double(Double(Double(a))) \in Element /\ Double(Double(Double(b))) \in Element
      /\ Double(Double(Double(Xor(a, b)))) = Xor(Double(Double(Double(a))), Double(Double(Double(b))))
  BY <1>2, DoubleType, DoubleLinear
<1> QED
  BY <1>3, DoubleLinear DEF Double4

LEMMA D8Linear ==
  ASSUME NEW a \in Element, NEW b \in Element
  PROVE  D8(Xor(a, b)) = Xor(D8(a), D8(b))
BY Double4Linear, Double4Type DEF D8

LEMMA D8Commutes ==
  ASSUME NEW a
  PROVE  D8(Double(a)) = Double(D8(a))
BY DEF D8, Double4

\* Below the top exponent a doubling only shifts.
LEMMA DoubleIsUp ==
  ASSUME NEW a \in Element, N - 1 \notin a
  PROVE  Double(a) = Up(a, 1)
BY DEF Double, Rol, Up

LEMMA Shift4 ==
  ASSUME NEW a \in Element, a \cap (N - 4 .. N - 1) = {}
  PROVE  Double4(a) = Up(a, 4)
<1> DEFINE a1 == Up(a, 1)
           a2 == Up(a1, 1)
           a3 == Up(a2, 1)
<1>0. N \in Nat /\ N >= 16 /\ a \subseteq 0 .. N - 1 /\ a \subseteq Int
  BY NAssumption, ElementInt
<1>1. /\ \A j \in Int : j \in a1 <=> j - 1 \in a
      /\ a1 \subseteq Int
  BY <1>0, UpOne DEF Up
<1>2. /\ \A j \in Int : j \in a2 <=> j - 1 \in a1
      /\ a2 \subseteq Int
  <2> HIDE DEF a1
  <2> QED
    BY <1>1, UpOne DEF Up
<1>3. /\ \A j \in Int : j \in a3 <=> j - 1 \in a2
      /\ a3 \subseteq Int
  <2> HIDE DEF a2
  <2> QED
    BY <1>2, UpOne DEF Up
<1>4. N - 1 \notin a /\ N - 2 \notin a /\ N - 3 \notin a /\ N - 4 \notin a
  BY <1>0
<1> HIDE DEF a1, a2, a3
<1>5. N - 1 \notin a1 /\ N - 1 \notin a2 /\ N - 1 \notin a3
  <2>1. /\ N - 1 \in Int /\ N - 2 \in Int /\ N - 3 \in Int /\ (N - 1) - 1 = N - 2
        /\ (N - 2) - 1 = N - 3 /\ (N - 3) - 1 = N - 4
    BY <1>0
  <2> QED
    BY <1>1, <1>2, <1>3, <1>4, <2>1
<1>6. Double(a) = a1
  BY <1>4, DoubleIsUp DEF a1
<1>7. Double(a1) = a2
  BY <1>5, <1>6, DoubleType, DoubleIsUp DEF a2
<1>8. Double(a2) = a3
  BY <1>5, <1>6, <1>7, DoubleType, DoubleIsUp DEF a3
<1>9. Double(a3) = Up(a3, 1)
  BY <1>5, <1>6, <1>7, <1>8, DoubleType, DoubleIsUp
<1>10. Double4(a) = Up(a3, 1)
  BY <1>6, <1>7, <1>8, <1>9 DEF Double4
<1>11. Up(a3, 1) = Up(a, 4)
  <2>1. Up(a3, 1) \subseteq Int /\ Up(a, 4) \subseteq Int
    BY <1>0, <1>3 DEF Up
  <2>2. ASSUME NEW j \in Int PROVE j \in Up(a3, 1) <=> j \in Up(a, 4)
    <3>1. j \in Up(a3, 1) <=> j - 1 \in a3
      BY <1>3, UpOne
    <3>2. /\ j - 1 \in Int /\ j - 2 \in Int /\ j - 3 \in Int /\ (j - 1) - 1 = j - 2
          /\ (j - 2) - 1 = j - 3 /\ (j - 3) - 1 = j - 4
      OBVIOUS
    <3>3. j \in Up(a, 4) <=> j - 4 \in a
      <4>1. \A s \in Int : j \in Up(a, s) <=> j - s \in a
        BY <1>0, UpMember
      <4> QED
        BY <4>1
    <3> QED
      BY <1>1, <1>2, <1>3, <3>1, <3>2, <3>3
  <2> QED
    BY <2>1, <2>2, SamePolynomial
<1> QED
  BY <1>10, <1>11

LEMMA Shift8 ==
  ASSUME NEW a \in Element, a \cap (N - 8 .. N - 1) = {}
  PROVE  D8(a) = Up(a, 8)
<1>0. N \in Nat /\ N >= 16 /\ a \subseteq 0 .. N - 1 /\ a \subseteq Int
  BY NAssumption, ElementInt
<1>1. a \cap (N - 4 .. N - 1) = {}
  BY <1>0
<1>2. Double4(a) = Up(a, 4)
  BY <1>1, Shift4
<1>3. \A s \in Int : \A j \in Int : j \in Up(a, s) <=> j - s \in a
  BY <1>0, UpMember
<1>4. Up(a, 4) \cap (N - 4 .. N - 1) = {}
  <2> SUFFICES ASSUME NEW j \in N - 4 .. N - 1, j \in Up(a, 4) PROVE FALSE
    OBVIOUS
  <2>1. j \in Int /\ j - 4 \in N - 8 .. N - 1
    BY <1>0
  <2> QED
    BY <1>3, <2>1
<1>5. Up(a, 4) \in Element
  BY <1>2, Double4Type
<1>6. Double4(Up(a, 4)) = Up(Up(a, 4), 4)
  BY <1>4, <1>5, Shift4
<1>7. Up(Up(a, 4), 4) = Up(a, 8)
  <2>1. \A s, t \in Int : Up(Up(a, s), t) = Up(a, s + t)
    BY <1>0, UpUp
  <2> QED
    BY <2>1
<1> QED
  BY <1>2, <1>6, <1>7 DEF D8

-----------------------------------------------------------------------------
(* The reductions of a byte that is shifted out. *)

\* A byte at the top of the value, eight doublings later.
Fold8(b) == D8(Up(b, N - 8))

LEMMA TopType ==
  ASSUME NEW b \in Byte8
  PROVE  Up(b, N - 8) \in Element /\ b \in Element /\ b \subseteq Int
<1>0. N \in Nat /\ N >= 16
  BY NAssumption
<1> QED
  BY <1>0 DEF Up, Byte8, Element

LEMMA FoldType ==
  ASSUME NEW b \in Byte8
  PROVE  Fold8(b) \in Element
BY TopType, D8Type DEF Fold8

LEMMA FoldLinear ==
  ASSUME NEW b \in Byte8, NEW c \in Byte8
  PROVE  Fold8(Xor(b, c)) = Xor(Fold8(b), Fold8(c))
<1>1. N - 8 \in Int
  BY NAssumption
<1>2. Up(Xor(b, c), N - 8) = Xor(Up(b, N - 8), Up(c, N - 8))
  BY <1>1, TopType, UpXor
<1> QED
  BY <1>2, TopType, D8Linear DEF Fold8

LEMMA FoldNext ==
  ASSUME NEW b \in Byte8, 7 \notin b
  PROVE  Up(b, 1) \in Byte8 /\ Fold8(Up(b, 1)) = Double(Fold8(b))
<1>0. N \in Nat /\ N >= 16 /\ N - 8 \in Int
  BY NAssumption
<1>1. Up(b, 1) \in Byte8
  <2>1. \A i \in b : i + 1 \in 0 .. 7
    BY DEF Byte8
  <2>2. Up(b, 1) \subseteq 0 .. 7
    BY <2>1 DEF Up
  <2> QED
    BY <2>2 DEF Byte8
<1>2. N - 1 \notin Up(b, N - 8)
  <2>1. N - 1 \in Int /\ (N - 1) - (N - 8) = 7
    BY <1>0
  <2>2. N - 1 \in Up(b, N - 8) <=> (N - 1) - (N - 8) \in b
    BY <1>0, <2>1, TopType, UpMember
  <2> QED
    BY <2>1, <2>2
<1>3. Double(Up(b, N - 8)) = Up(Up(b, N - 8), 1)
  BY <1>2, TopType, DoubleIsUp
<1>4. Up(Up(b, N - 8), 1) = Up(Up(b, 1), N - 8)
  BY <1>0, TopType, UpOnce
<1> QED
  BY <1>1, <1>3, <1>4, D8Commutes DEF Fold8

LEMMA FoldOne ==
  /\ {} \in Byte8 /\ Fold8({}) = {}
  /\ {0} \in Byte8 /\ Fold8({0}) = LeftReduction
<1>0. N \in Nat /\ N >= 16
  BY NAssumption
<1>1. {} \in Byte8 /\ {0} \in Byte8
  BY DEF Byte8
<1>2. Fold8({}) = {}
  <2>1. Up({}, N - 8) = {}
    BY DEF Up
  <2> QED
    BY <2>1, DoubleZero DEF Fold8, D8, Double4
<1>3. ASSUME NEW i \in 0 .. N - 2
      PROVE  Double({i}) = {i + 1}
  <2>1. {i} \in Element /\ N - 1 \notin {i}
    BY <1>0 DEF Element
  <2>2. Up({i}, 1) = {i + 1}
    BY DEF Up
  <2> QED
    BY <2>1, <2>2, DoubleIsUp
<1>4. Up({0}, N - 8) = {N - 8}
  BY <1>0 DEF Up
<1>5. Double4({N - 8}) = {N - 4}
  <2>1. /\ N - 8 \in 0 .. N - 2 /\ N - 7 \in 0 .. N - 2 /\ N - 6 \in 0 .. N - 2
        /\ N - 5 \in 0 .. N - 2
        /\ (N - 8) + 1 = N - 7 /\ (N - 7) + 1 = N - 6 /\ (N - 6) + 1 = N - 5
        /\ (N - 5) + 1 = N - 4
    BY <1>0
  <2>2. Double({N - 8}) = {N - 7} /\ Double({N - 7}) = {N - 6}
    BY <1>3, <2>1
  <2>3. Double({N - 6}) = {N - 5} /\ Double({N - 5}) = {N - 4}
    BY <1>3, <2>1
  <2> QED
    BY <2>2, <2>3 DEF Double4
<1>6. Double4({N - 4}) = LeftReduction
  <2>1. /\ N - 4 \in 0 .. N - 2 /\ N - 3 \in 0 .. N - 2 /\ N - 2 \in 0 .. N - 2
        /\ (N - 4) + 1 = N - 3 /\ (N - 3) + 1 = N - 2 /\ (N - 2) + 1 = N - 1
    BY <1>0
  <2>2. Double({N - 4}) = {N - 3} /\ Double({N - 3}) = {N - 2}
    BY <1>3, <2>1
  <2>3. Double({N - 2}) = {N - 1}
    BY <1>3, <2>1
  <2>4. Double({N - 1}) = LeftReduction
    <3>1. Rol({N - 1}) = {}
      BY DEF Rol
    <3> QED
      BY <3>1 DEF Double, Xor
  <2> QED
    BY <2>2, <2>3, <2>4 DEF Double4
<1> QED
  BY <1>1, <1>2, <1>4, <1>5, <1>6 DEF Fold8, D8

\* The byte that leaves the value at its top.
TopByte(a) == {b \in 0 .. 7 : b + (N - 8) \in a}

(* Eight doublings are a shift by a byte and one entry of the reductions. *)
LEMMA RolReduces ==
  ASSUME NEW a \in Element
  PROVE  TopByte(a) \in Byte8 /\ D8(a) = Xor(Rol8(a), Fold8(TopByte(a)))
<1> DEFINE lo == a \ (N - 8 .. N - 1)
           t == TopByte(a)
<1>0. N \in Nat /\ N >= 16 /\ a \subseteq 0 .. N - 1 /\ N - 8 \in Int
  BY NAssumption, ElementInt
<1>1. t \in Byte8
  BY DEF TopByte, Byte8
<1>2. lo \in Element /\ lo \cap (N - 8 .. N - 1) = {}
  BY DEF Element
<1>3. Up(t, N - 8) \in Element
  BY <1>1, TopType
<1>4. a = Xor(lo, Up(t, N - 8))
  <2>1. Xor(lo, Up(t, N - 8)) \in Element
    BY <1>2, <1>3, XorType
  <2>2. ASSUME NEW j \in 0 .. N - 1
        PROVE  j \in a <=> j \in Xor(lo, Up(t, N - 8))
    <3>1. j \in Up(t, N - 8) <=> j - (N - 8) \in t
      BY <1>0, <1>1, TopType, UpMember
    <3>2. j - (N - 8) \in t <=> j \in a /\ j >= N - 8
      BY <1>0 DEF TopByte
    <3>3. j \in lo <=> j \in a /\ j < N - 8
      BY <1>0
    <3> HIDE DEF lo, t
    <3> QED
      BY <1>0, <3>1, <3>2, <3>3, XorMember
  <2> HIDE DEF lo, t
  <2> QED
    BY <2>1, <2>2, SameExponents
<1>5. D8(lo) = Rol8(a)
  <2>1. Rol8(a) = Up(lo, 8)
    BY DEF Rol8, Up
  <2> QED
    BY <1>2, <2>1, Shift8
<1>6. D8(a) = Xor(D8(lo), D8(Up(t, N - 8)))
  BY <1>2, <1>3, <1>4, D8Linear
<1> QED
  BY <1>1, <1>5, <1>6 DEF Fold8

LEMMA OverNDouble ==
  ASSUME NEW a \in Element
  PROVE  Abs!OverN(Double(a)) = Double(Abs!OverN(a))
<1> DEFINE t == N - 1 \in a
<1>0. N \in Nat /\ N >= 16
  BY NAssumption
<1>1. a \in SUBSET (0 .. 2 * N - 2)
  BY <1>0, ElementInt
<1>2. Abs!OverN(Up(a, 1)) = Double(Abs!OverN(a)) /\ Up(a, 1) \in Poly
  BY <1>1, OverNShift, UpOneType
<1>3. Abs!Modulus \in Poly
  BY <1>0, ModulusInt DEF Poly
<1>4. Abs!OverN(Abs!Modulus) = {}
  <2>1. Abs!Over(Abs!Modulus, Half) = {}
    BY Halves, OverModulus
  <2>2. Abs!Over({}, Half) = {}
    <3>1. Xor({}, {}) = {} /\ \A x : Xor(x, x) = {}
      BY DEF Xor
    <3> QED
      BY <3>1, OverLinear, Halves
  <2>3. Abs!OverN(Abs!Modulus) = Abs!OverN({})
    BY <2>1, <2>2, Halves
  <2> QED
    BY <2>3, OverNZero
<1>5. Double(a) = Xor(Up(a, 1), Sel(t, Abs!Modulus))
  BY DoubleReduces
<1>6. Sel(t, Abs!Modulus) \in Poly /\ Abs!OverN(Sel(t, Abs!Modulus)) = {}
  BY <1>3, <1>4, OverNZero, ZeroType DEF Sel
<1>7. Abs!OverN(Double(a)) = Xor(Abs!OverN(Up(a, 1)), {})
  BY <1>2, <1>5, <1>6, OverNLinear
<1> QED
  BY <1>2, <1>7 DEF Xor

(* An entry of the reduction table is the byte times x^N. *)
LEMMA FoldIsShifted ==
  ASSUME NEW b \in Byte8
  PROVE  Abs!OverN(Fold8(b)) = b
<1> DEFINE O(s) == Abs!OverN(Up(b, s))
<1>0. N \in Nat /\ N >= 16
  BY NAssumption
<1>1. ASSUME NEW s \in N - 8 .. N - 1
      PROVE  O(s + 1) = Double(O(s))
  <2>1. s \in Int /\ s \in 0 .. N /\ s < N
    BY <1>0
  <2>2. Up(b, s) \in SUBSET (0 .. 2 * N - 2)
    BY <2>1, TopType, UpPoly
  <2>3. Up(Up(b, s), 1) = Up(b, s + 1)
    BY <2>1, TopType, UpOnce
  <2> QED
    BY <2>2, <2>3, OverNShift
<1>2. /\ (N - 8) + 1 = N - 7 /\ (N - 7) + 1 = N - 6 /\ (N - 6) + 1 = N - 5
      /\ (N - 5) + 1 = N - 4 /\ (N - 4) + 1 = N - 3 /\ (N - 3) + 1 = N - 2
      /\ (N - 2) + 1 = N - 1 /\ (N - 1) + 1 = N
      /\ N - 8 \in N - 8 .. N - 1 /\ N - 7 \in N - 8 .. N - 1 /\ N - 6 \in N - 8 .. N - 1
      /\ N - 5 \in N - 8 .. N - 1 /\ N - 4 \in N - 8 .. N - 1 /\ N - 3 \in N - 8 .. N - 1
      /\ N - 2 \in N - 8 .. N - 1 /\ N - 1 \in N - 8 .. N - 1
  BY <1>0
<1> HIDE DEF O
<1>3. O(N - 4) = Double4(O(N - 8))
  BY <1>1, <1>2 DEF Double4
<1>4. O(N) = Double4(O(N - 4))
  BY <1>1, <1>2 DEF Double4
<1>5. O(N) = b
  BY TopType, OverNExact DEF O
<1>6. ASSUME NEW a \in Element
      PROVE  Abs!OverN(Double4(a)) = Double4(Abs!OverN(a))
  BY DoubleType, OverNDouble DEF Double4
<1>7. Abs!OverN(Fold8(b)) = D8(O(N - 8))
  BY <1>6, TopType, Double4Type DEF Fold8, D8, O
<1> QED
  BY <1>3, <1>4, <1>5, <1>7 DEF D8

-----------------------------------------------------------------------------
(* Bytes as polynomials. *)

LEMMA ByteBitsMember ==
  ASSUME NEW i \in Byte
  PROVE  /\ ByteBits(i) \in Byte8
         /\ 0 \in ByteBits(i) <=> i % 2 = 1
         /\ 1 \in ByteBits(i) <=> (i \div 2) % 2 = 1
         /\ 2 \in ByteBits(i) <=> (i \div 4) % 2 = 1
         /\ 3 \in ByteBits(i) <=> (i \div 8) % 2 = 1
         /\ 4 \in ByteBits(i) <=> (i \div 16) % 2 = 1
         /\ 5 \in ByteBits(i) <=> (i \div 32) % 2 = 1
         /\ 6 \in ByteBits(i) <=> (i \div 64) % 2 = 1
         /\ 7 \in ByteBits(i) <=> (i \div 128) % 2 = 1
<1> DEFINE Bits(b) == (i \div 2 ^ b) % 2 = 1
<1>1. /\ 2 ^ 0 = 1 /\ 2 ^ 1 = 2 /\ 2 ^ 2 = 4 /\ 2 ^ 3 = 8
      /\ 2 ^ 4 = 16 /\ 2 ^ 5 = 32 /\ 2 ^ 6 = 64 /\ 2 ^ 7 = 128
  OBVIOUS
<1>2. i \div 1 = i
  BY DEF Byte
<1>3. /\ Bits(0) <=> i % 2 = 1
      /\ Bits(1) <=> (i \div 2) % 2 = 1
      /\ Bits(2) <=> (i \div 4) % 2 = 1
      /\ Bits(3) <=> (i \div 8) % 2 = 1
      /\ Bits(4) <=> (i \div 16) % 2 = 1
      /\ Bits(5) <=> (i \div 32) % 2 = 1
      /\ Bits(6) <=> (i \div 64) % 2 = 1
      /\ Bits(7) <=> (i \div 128) % 2 = 1
  BY <1>1, <1>2
<1>4. \A b : b \in ByteBits(i) <=> b \in 0 .. 7 /\ Bits(b)
  BY DEF ByteBits
<1>5. ByteBits(i) \in Byte8
  BY DEF ByteBits, Byte8
<1> HIDE DEF Bits
<1> QED
  BY <1>3, <1>4, <1>5

\* Two bytes are the same when their eight bits are.
LEMMA SameByte ==
  ASSUME NEW a \in Byte8, NEW b \in Byte8,
         0 \in a <=> 0 \in b, 1 \in a <=> 1 \in b, 2 \in a <=> 2 \in b, 3 \in a <=> 3 \in b,
         4 \in a <=> 4 \in b, 5 \in a <=> 5 \in b, 6 \in a <=> 6 \in b, 7 \in a <=> 7 \in b
  PROVE  a = b
<1>1. \A j \in 0 .. 7 : j \in a <=> j \in b
  <2> SUFFICES ASSUME NEW j \in 0 .. 7 PROVE j \in a <=> j \in b
    OBVIOUS
  <2>1. j = 0 \/ j = 1 \/ j = 2 \/ j = 3 \/ j = 4 \/ j = 5 \/ j = 6 \/ j = 7
    OBVIOUS
  <2> QED
    BY <2>1
<1> QED
  BY <1>1 DEF Byte8

LEMMA ByteBitsDouble ==
  ASSUME NEW k \in 0 .. 127
  PROVE  /\ 7 \notin ByteBits(k)
         /\ ByteBits(2 * k) = Up(ByteBits(k), 1)
         /\ ByteBits(2 * k + 1) = Xor(ByteBits(2 * k), {0})
<1> DEFINE b == ByteBits(k)
           e == ByteBits(2 * k)
           o == ByteBits(2 * k + 1)
<1>0. k \in Byte /\ 2 * k \in Byte /\ 2 * k + 1 \in Byte
  BY DEF Byte
<1>1. /\ b \in Byte8 /\ b \subseteq Int
      /\ 0 \in b <=> k % 2 = 1
      /\ 1 \in b <=> (k \div 2) % 2 = 1
      /\ 2 \in b <=> (k \div 4) % 2 = 1
      /\ 3 \in b <=> (k \div 8) % 2 = 1
      /\ 4 \in b <=> (k \div 16) % 2 = 1
      /\ 5 \in b <=> (k \div 32) % 2 = 1
      /\ 6 \in b <=> (k \div 64) % 2 = 1
      /\ 7 \in b <=> (k \div 128) % 2 = 1
  BY <1>0, ByteBitsMember DEF Byte8
<1>2. /\ e \in Byte8
      /\ 0 \in e <=> (2 * k) % 2 = 1
      /\ 1 \in e <=> ((2 * k) \div 2) % 2 = 1
      /\ 2 \in e <=> ((2 * k) \div 4) % 2 = 1
      /\ 3 \in e <=> ((2 * k) \div 8) % 2 = 1
      /\ 4 \in e <=> ((2 * k) \div 16) % 2 = 1
      /\ 5 \in e <=> ((2 * k) \div 32) % 2 = 1
      /\ 6 \in e <=> ((2 * k) \div 64) % 2 = 1
      /\ 7 \in e <=> ((2 * k) \div 128) % 2 = 1
  BY <1>0, ByteBitsMember
<1>3. /\ o \in Byte8
      /\ 0 \in o <=> (2 * k + 1) % 2 = 1
      /\ 1 \in o <=> ((2 * k + 1) \div 2) % 2 = 1
      /\ 2 \in o <=> ((2 * k + 1) \div 4) % 2 = 1
      /\ 3 \in o <=> ((2 * k + 1) \div 8) % 2 = 1
      /\ 4 \in o <=> ((2 * k + 1) \div 16) % 2 = 1
      /\ 5 \in o <=> ((2 * k + 1) \div 32) % 2 = 1
      /\ 6 \in o <=> ((2 * k + 1) \div 64) % 2 = 1
      /\ 7 \in o <=> ((2 * k + 1) \div 128) % 2 = 1
  BY <1>0, ByteBitsMember
<1>4. /\ (2 * k) % 2 = 0 /\ (2 * k) \div 2 = k /\ (2 * k) \div 4 = k \div 2
      /\ (2 * k) \div 8 = k \div 4 /\ (2 * k) \div 16 = k \div 8
      /\ (2 * k) \div 32 = k \div 16 /\ (2 * k) \div 64 = k \div 32
      /\ (2 * k) \div 128 = k \div 64 /\ k \div 128 = 0
  OBVIOUS
<1>5. /\ (2 * k + 1) % 2 = 1 /\ (2 * k + 1) \div 2 = k /\ (2 * k + 1) \div 4 = k \div 2
      /\ (2 * k + 1) \div 8 = k \div 4 /\ (2 * k + 1) \div 16 = k \div 8
      /\ (2 * k + 1) \div 32 = k \div 16 /\ (2 * k + 1) \div 64 = k \div 32
      /\ (2 * k + 1) \div 128 = k \div 64
  OBVIOUS
<1> HIDE DEF b, e, o
<1>6. 7 \notin b
  BY <1>1, <1>4
<1>7. e = Up(b, 1)
  <2>1. Up(b, 1) \in Byte8
    BY <1>1, <1>6, FoldNext
  <2>2. \A j \in Int : j \in Up(b, 1) <=> j - 1 \in b
    BY <1>1, UpOne
  <2>3. /\ 0 \notin Up(b, 1) /\ (1 \in Up(b, 1) <=> 0 \in b)
        /\ (2 \in Up(b, 1) <=> 1 \in b) /\ (3 \in Up(b, 1) <=> 2 \in b)
        /\ (4 \in Up(b, 1) <=> 3 \in b) /\ (5 \in Up(b, 1) <=> 4 \in b)
        /\ (6 \in Up(b, 1) <=> 5 \in b) /\ (7 \in Up(b, 1) <=> 6 \in b)
    <3>1. -1 \notin b
      BY <1>1 DEF Byte8
    <3>2. /\ 0 - 1 = -1 /\ 1 - 1 = 0 /\ 2 - 1 = 1 /\ 3 - 1 = 2 /\ 4 - 1 = 3
          /\ 5 - 1 = 4 /\ 6 - 1 = 5 /\ 7 - 1 = 6
      OBVIOUS
    <3> QED
      BY <2>2, <3>1, <3>2
  <2> HIDE DEF Up
  <2> QED
    BY <1>1, <1>2, <1>4, <2>1, <2>3, SameByte
<1>8. o = Xor(e, {0})
  <2>1. Xor(e, {0}) \in Byte8
    BY <1>2 DEF Xor, Byte8
  <2>2. /\ 0 \in Xor(e, {0}) <=> 0 \notin e
        /\ \A j \in 1 .. 7 : j \in Xor(e, {0}) <=> j \in e
    BY DEF Xor
  <2> QED
    BY <1>2, <1>3, <1>4, <1>5, <2>1, <2>2, SameByte
<1> QED
  BY <1>6, <1>7, <1>8 DEF b, e, o

LEMMA ByteBitsEnds == ByteBits(0) = {} /\ ByteBits(1) = {0}
<1>0. 0 \in Byte /\ 1 \in Byte /\ {} \in Byte8 /\ {0} \in Byte8
  BY DEF Byte, Byte8
<1>1. ByteBits(0) = {}
  <2>1. ByteBits(0) \cap 0 .. 7 = {}
    <3>1. \A j \in 0 .. 7 : j = 0 \/ j = 1 \/ j = 2 \/ j = 3 \/ j = 4 \/ j = 5 \/ j = 6 \/ j = 7
      OBVIOUS
    <3>2. /\ 0 % 2 = 0 /\ 0 \div 2 = 0 /\ 0 \div 4 = 0 /\ 0 \div 8 = 0 /\ 0 \div 16 = 0
          /\ 0 \div 32 = 0 /\ 0 \div 64 = 0 /\ 0 \div 128 = 0
      OBVIOUS
    <3> QED
      BY <1>0, <3>1, <3>2, ByteBitsMember
  <2> QED
    BY <2>1 DEF ByteBits
<1>2. ByteBits(1) = Xor(ByteBits(0), {0})
  BY ByteBitsDouble, 2 * 0 + 1 = 1, 2 * 0 = 0
<1> QED
  BY <1>1, <1>2 DEF Xor

\* The eight exponents from p up, as a byte.
Digit(u, p) == {b \in 0 .. 7 : p + b \in u}

LEMMA ByteAtIs ==
  ASSUME NEW u \in Element, NEW p \in Nat
  PROVE  ByteAt(u, p) \in Byte /\ ByteBits(ByteAt(u, p)) = Digit(u, p)
<1> DEFINE lo == NibbleAt(u, p)
           hi == NibbleAt(u, p + 4)
           n == lo + 16 * hi
           d == Digit(u, p)
<1>1. /\ lo \in 0 .. 15
      /\ lo % 2 = 1 <=> p \in u
      /\ (lo \div 2) % 2 = 1 <=> p + 1 \in u
      /\ (lo \div 4) % 2 = 1 <=> p + 2 \in u
      /\ (lo \div 8) % 2 = 1 <=> p + 3 \in u
  BY NibbleDigits
<1>2. /\ hi \in 0 .. 15
      /\ hi % 2 = 1 <=> p + 4 \in u
      /\ (hi \div 2) % 2 = 1 <=> p + 5 \in u
      /\ (hi \div 4) % 2 = 1 <=> p + 6 \in u
      /\ (hi \div 8) % 2 = 1 <=> p + 7 \in u
  <2>1. /\ p + 4 \in Nat /\ (p + 4) + 1 = p + 5 /\ (p + 4) + 2 = p + 6 /\ (p + 4) + 3 = p + 7
    OBVIOUS
  <2> QED
    BY <2>1, NibbleDigits
<1> HIDE DEF lo, hi
<1>3. n \in Byte
  BY <1>1, <1>2 DEF Byte
<1>4. /\ n % 2 = lo % 2 /\ (n \div 2) % 2 = (lo \div 2) % 2
      /\ (n \div 4) % 2 = (lo \div 4) % 2 /\ (n \div 8) % 2 = (lo \div 8) % 2
  BY <1>1, <1>2
<1>5. /\ (n \div 16) = hi /\ (n \div 32) % 2 = (hi \div 2) % 2
      /\ (n \div 64) % 2 = (hi \div 4) % 2 /\ (n \div 128) % 2 = (hi \div 8) % 2
  BY <1>1, <1>2
<1>6. /\ d \in Byte8
      /\ (0 \in d <=> p \in u) /\ (1 \in d <=> p + 1 \in u) /\ (2 \in d <=> p + 2 \in u)
      /\ (3 \in d <=> p + 3 \in u) /\ (4 \in d <=> p + 4 \in u) /\ (5 \in d <=> p + 5 \in u)
      /\ (6 \in d <=> p + 6 \in u) /\ (7 \in d <=> p + 7 \in u)
  BY p + 0 = p DEF Digit, Byte8
<1>7. ByteAt(u, p) = n
  BY DEF ByteAt, lo, hi
<1> HIDE DEF n, d
<1>8. ByteBits(n) = d
  BY <1>1, <1>2, <1>3, <1>4, <1>5, <1>6, ByteBitsMember, SameByte
<1> QED
  BY <1>3, <1>7, <1>8 DEF d

\* The entries of the two 8-bit tables, as their loops make them.
LEMMA ProductEntries ==
  ASSUME NEW k \in Element
  PROVE  /\ Abs!Dot(ByteBits(0), k) = {} /\ Abs!Dot(ByteBits(1), k) = Prime(k)
         /\ \A i \in 0 .. 127 :
              /\ Abs!Dot(ByteBits(2 * i), k) = Double(Abs!Dot(ByteBits(i), k))
              /\ Abs!Dot(ByteBits(2 * i + 1), k) = Xor(Abs!Dot(ByteBits(2 * i), k), Prime(k))
<1>1. Abs!Dot(ByteBits(0), k) = {} /\ Abs!Dot(ByteBits(1), k) = Prime(k)
  BY ByteBitsEnds, DotZero, DotOne
<1>2. ASSUME NEW i \in 0 .. 127
      PROVE  /\ Abs!Dot(ByteBits(2 * i), k) = Double(Abs!Dot(ByteBits(i), k))
             /\ Abs!Dot(ByteBits(2 * i + 1), k) = Xor(Abs!Dot(ByteBits(2 * i), k), Prime(k))
  <2>1. /\ ByteBits(2 * i) = Up(ByteBits(i), 1)
        /\ ByteBits(2 * i + 1) = Xor(ByteBits(2 * i), {0})
    BY ByteBitsDouble
  <2>2. ByteBits(i) \in Byte8 /\ ByteBits(2 * i) \in Byte8
    BY ByteBitsMember DEF Byte
  <2>3. ByteBits(i) \in Element /\ ByteBits(2 * i) \in Element
    BY <2>2, TopType
  <2>4. N - 1 \notin ByteBits(i)
    BY <2>2, NAssumption DEF Byte8
  <2>5. Abs!Dot(ByteBits(2 * i), k) = Double(Abs!Dot(ByteBits(i), k))
    BY <2>1, <2>3, <2>4, DotShift
  <2> QED
    BY <2>1, <2>3, <2>5, DotLinear, DotOne
<1> QED
  BY <1>1, <1>2

LEMMA ReducedEntries ==
  /\ Reduced(0) = {} /\ Reduced(1) = LeftReduction
  /\ \A i \in Byte : Reduced(i) = Fold8(ByteBits(i)) /\ Reduced(i) \in Element
  /\ \A i \in 0 .. 127 : /\ Reduced(2 * i) = Double(Reduced(i))
                         /\ Reduced(2 * i + 1) = Xor(Reduced(2 * i), LeftReduction)
<1>1. ASSUME NEW i \in Byte
      PROVE  Reduced(i) = Fold8(ByteBits(i)) /\ Reduced(i) \in Element
  <2>1. Reduced(i) = Fold8(ByteBits(i))
    BY DEF Reduced, Fold8, D8, Up
  <2> QED
    BY <2>1, ByteBitsMember, FoldType
<1>2. Reduced(0) = {} /\ Reduced(1) = LeftReduction
  BY <1>1, ByteBitsEnds, FoldOne DEF Byte
<1>3. ASSUME NEW i \in 0 .. 127
      PROVE  /\ Reduced(2 * i) = Double(Reduced(i))
             /\ Reduced(2 * i + 1) = Xor(Reduced(2 * i), LeftReduction)
  <2>1. i \in Byte /\ 2 * i \in Byte /\ 2 * i + 1 \in Byte
    BY DEF Byte
  <2>2. ByteBits(i) \in Byte8 /\ ByteBits(2 * i) \in Byte8
    BY <2>1, ByteBitsMember
  <2>3. /\ 7 \notin ByteBits(i) /\ ByteBits(2 * i) = Up(ByteBits(i), 1)
        /\ ByteBits(2 * i + 1) = Xor(ByteBits(2 * i), {0})
    BY ByteBitsDouble
  <2>4. Fold8(ByteBits(2 * i)) = Double(Fold8(ByteBits(i)))
    BY <2>2, <2>3, FoldNext
  <2>5. Fold8(ByteBits(2 * i + 1)) = Xor(Fold8(ByteBits(2 * i)), LeftReduction)
    BY <2>2, <2>3, FoldLinear, FoldOne
  <2> QED
    BY <1>1, <2>1, <2>4, <2>5
<1> QED
  BY <1>1, <1>2, <1>3

(* Eight bits of the operand: one entry of the 8-bit table. *)
LEMMA DotByte ==
  ASSUME NEW u \in Element, NEW k \in Element, NEW p \in Nat, p + 8 <= N
  PROVE  Abs!Dot(Shr(u, p), k)
           = Xor(D8(Abs!Dot(Shr(u, p + 8), k)), Abs!Dot(Digit(u, p), k))
<1> DEFINE hp == Prime(k)
           b == Digit(u, p)
           hi == Multiple(NibbleAt(u, p + 4), hp)
           lo == Multiple(NibbleAt(u, p), hp)
           d == Abs!Dot(Shr(u, p + 8), k)
<1>0. N \in Nat /\ N >= 16 /\ p + 4 \in Nat /\ (p + 4) + 4 = p + 8 /\ p + 4 <= N
  BY NAssumption
<1>1. Abs!Dot(Shr(u, p + 4), k) = Xor(Double4(d), hi)
  BY <1>0, DotNibble
<1>2. Abs!Dot(Shr(u, p), k) = Xor(Double4(Abs!Dot(Shr(u, p + 4), k)), lo)
  BY <1>0, DotNibble
<1>3. b \in Byte8 /\ b \in Element
  <2>1. b \in Byte8
    BY DEF Digit, Byte8
  <2> QED
    BY <2>1, TopType
<1>4. /\ NibbleAt(b, 0) = NibbleAt(u, p)
      /\ NibbleAt(b, 4) = NibbleAt(u, p + 4)
  <2>1. \A j \in 0 .. 7 : j \in b <=> p + j \in u
    BY DEF Digit
  <2>2. /\ (p + 4) + 1 = p + 5 /\ (p + 4) + 2 = p + 6 /\ (p + 4) + 3 = p + 7 /\ p + 0 = p
    OBVIOUS
  <2> HIDE DEF b
  <2> QED
    BY <2>1, <2>2 DEF NibbleAt, Bit
<1>5. Shr(b, 8) = {}
  <2>1. \A i \in 0 .. N - 1 : i + 8 \notin b
    BY <1>3 DEF Byte8
  <2> QED
    BY <2>1 DEF Shr
<1>6. hp \in Element /\ d \in Element /\ hi \in Element /\ lo \in Element
  <2>1. hp \in Element /\ d \in Element
    BY PrimeType, DotType
  <2>2. NibbleAt(u, p + 4) \in Nat /\ NibbleAt(u, p) \in Nat
    <3>1. NibbleAt(u, p + 4) \in 0 .. 15
      BY <1>0, NibbleDigits
    <3>2. NibbleAt(u, p) \in 0 .. 15
      BY NibbleDigits
    <3> QED
      BY <3>1, <3>2
  <2> QED
    BY <2>1, <2>2, MultipleType
<1> HIDE DEF hp, b, hi, lo, d
<1>7. Abs!Dot(Shr(b, 4), k) = hi
  <2>1. Abs!Dot(Shr(b, 4), k) = Xor(Double4(Abs!Dot(Shr(b, 4 + 4), k)), Multiple(NibbleAt(b, 4), hp))
    BY <1>0, <1>3, DotNibble DEF hp
  <2>2. Abs!Dot(Shr(b, 4 + 4), k) = {} /\ Double4({}) = {}
    BY <1>5, DotZero, DoubleZero DEF Double4
  <2> QED
    BY <1>4, <1>6, <2>1, <2>2, XorZero DEF hi
<1>8. Abs!Dot(b, k) = Xor(Double4(hi), lo)
  <2>1. Abs!Dot(Shr(b, 0), k) = Xor(Double4(Abs!Dot(Shr(b, 0 + 4), k)), Multiple(NibbleAt(b, 0), hp))
    BY <1>0, <1>3, DotNibble DEF hp
  <2>2. Shr(b, 0) = b
    BY <1>3, ShrEnds
  <2> QED
    BY <1>4, <1>7, <2>1, <2>2 DEF lo
<1>9. Double4(Xor(Double4(d), hi)) = Xor(D8(d), Double4(hi))
  BY <1>6, Double4Type, Double4Linear DEF D8
<1>10. \A x, y, z : Xor(Xor(x, y), z) = Xor(x, Xor(y, z))
  BY DEF Xor
<1> QED
  BY <1>1, <1>2, <1>8, <1>9, <1>10 DEF d, b

\* The first byte of the operand.
LEMMA DotTop ==
  ASSUME NEW u \in Element, NEW k
  PROVE  Abs!Dot(Shr(u, N - 8), k) = Abs!Dot(ByteBits(ByteAt(u, N - 8)), k)
<1>0. N \in Nat /\ N >= 16 /\ N - 8 \in Nat
  BY NAssumption
<1>1. ByteBits(ByteAt(u, N - 8)) = Digit(u, N - 8)
  BY <1>0, ByteAtIs
<1>2. Shr(u, N - 8) = Digit(u, N - 8)
  <2>1. Shr(u, N - 8) \subseteq Int /\ Digit(u, N - 8) \subseteq Int
    BY DEF Shr, Digit
  <2>2. ASSUME NEW j \in Int
        PROVE  j \in Shr(u, N - 8) <=> j \in Digit(u, N - 8)
    <3>1. j \in Shr(u, N - 8) <=> j >= 0 /\ j + (N - 8) \in u
      BY <1>0, ShrType
    <3>2. j \in Digit(u, N - 8) <=> j \in 0 .. 7 /\ (N - 8) + j \in u
      BY DEF Digit
    <3>3. j + (N - 8) \in u => j <= 7
      BY <1>0, ElementInt
    <3>4. j + (N - 8) = (N - 8) + j
      BY <1>0
    <3> QED
      BY <3>1, <3>2, <3>3, <3>4
  <2> QED
    BY <2>1, <2>2, SamePolynomial
<1> QED
  BY <1>1, <1>2

\* What a pass of the fused loop does.
LEMMA FusedStep ==
  ASSUME NEW a \in Element
  PROVE  Xor(Rol8(a), Reduced(ByteAt(a, N - 8))) = D8(a)
<1>1. ByteAt(a, N - 8) \in Byte /\ ByteBits(ByteAt(a, N - 8)) = Digit(a, N - 8)
  BY NAssumption, ByteAtIs
<1>2. Digit(a, N - 8) = TopByte(a)
  <2>1. \A b \in 0 .. 7 : (N - 8) + b = b + (N - 8)
    BY NAssumption
  <2> QED
    BY <2>1 DEF Digit, TopByte
<1>3. Reduced(ByteAt(a, N - 8)) = Fold8(TopByte(a))
  BY <1>1, <1>2, ReducedEntries
<1> QED
  BY <1>3, RolReduces

-----------------------------------------------------------------------------
(* The invariant. *)

LEMMA InitInvariant == Init => IInv
<1> SUFFICES ASSUME Init
             PROVE  IInv
  OBVIOUS
<1>1. HostTypeOK /\ pc = "idle" /\ key = Nil
  BY InitTypes DEF Init
<1>2. TypeOK
  BY <1>1, HostAssumption DEF Init, TypeOK
<1> QED
  BY <1>1, <1>2 DEF IInv, BuildFlow, TableRight, Tables8Right, CallKept, Multiplied

\* A step between calls that leaves the tables alone.
LEMMA OutsideStep ==
  ASSUME IInv, pc = "idle", pc' = "idle", HostTypeOK', UNCHANGED <<htable, key, tables8>>
  PROVE  IInv'
<1>1. TypeOK'
  BY DEF IInv, TypeOK, tables8
<1> QED
  BY <1>1 DEF IInv, BuildFlow, TableRight, Tables8Right, CallKept, Multiplied, tables8,
     Entries8, Reductions, Reduced, ByteBits

LEMMA HostStep ==
  ASSUME IInv, Host, UNCHANGED tables8
  PROVE  IInv'
<1>1. HostTypeOK
  BY DEF IInv, TypeOK
<1> QED
  BY <1>1, HostKeeps, OutsideStep

SimpleRoutine ==
  \/ polyval_init \/ polyval_double \/ polyval_right_shift_1
  \/ polyval_shift_left_4 \/ polyval_xor_table_entry

LEMMA SimpleRoutines == SimpleRoutine => OneStepCall /\ UNCHANGED tables8
BY DEF SimpleRoutine, polyval_init, polyval_double, polyval_right_shift_1,
   polyval_shift_left_4, polyval_xor_table_entry, pv_unroll_xor_htable_16, OneStepCall

LEMMA CallStep ==
  ASSUME IInv, SimpleRoutine
  PROVE  IInv'
<1>1. HostTypeOK /\ TableRight
  BY DEF IInv, TypeOK
<1> QED
  BY <1>1, SimpleRoutines, CallKeeps, OutsideStep

-----------------------------------------------------------------------------
(* The table build. *)

Building == {"shift", "entries", "build", "entries8", "build8", "reduce", "build_reduce"}

\* A step inside a build: what it fills in is all there is to show.
LEMMA InsideStep ==
  ASSUME IInv, pc \in Building, pc' \in Building,
         UNCHANGED <<h, nibble, key, call>>, TypeOK', BuildFlow'
  PROVE  IInv'
<1>1. pc # "idle" /\ pc # "multiply" /\ pc' # "idle" /\ pc' # "multiply"
  BY DEF Building
<1> QED
  BY <1>1 DEF IInv, TableRight, Tables8Right, CallKept, Multiplied

LEMMA SetType ==
  ASSUME NEW D, NEW t \in [D -> Element], NEW a \in Element, NEW i
  PROVE  /\ Set(t, i, a) \in [D -> Element]
         /\ \A j \in D : Set(t, i, a)[j] = IF j = i THEN a ELSE t[j]
BY DEF Set

LEMMA CopyHStep ==
  ASSUME IInv, CopyH
  PROVE  IInv'
<1>1. /\ TypeOK /\ HostTypeOK
  BY DEF IInv, TypeOK
<1>2. /\ pc = "idle" /\ pc' = "shift" /\ step' = N /\ acc' = h /\ calls < MaxCalls
      /\ calls' = calls + 1
      /\ call' = [h |-> h, temp |-> temp, nibble |-> nibble, acc |-> acc, key |-> key]
      /\ UNCHANGED <<h, temp, nibble, key, input, htable, tables8>>
  BY DEF CopyH, Enter
<1>3. HostTypeOK'
  BY <1>1, <1>2, NAssumption, HostAssumption DEF HostTypeOK
<1>4. TypeOK'
  BY <1>1, <1>2, <1>3 DEF TypeOK, tables8
<1>5. acc' = Abs!OverN(Abs!Shifted(h', step'))
  <2>1. h \in Element
    BY <1>1 DEF HostTypeOK
  <2>2. Abs!OverN(Up(h, N)) = h
    BY <2>1, OverNExact
  <2> QED
    BY <1>2, <2>2 DEF Abs!Shifted, Up
<1>6. BuildFlow'
  <2>1. step' \in 1 .. N
    BY <1>2, NAssumption
  <2> QED
    BY <1>2, <1>5, <2>1 DEF BuildFlow
<1>7. CallKept'
  BY <1>1, <1>2 DEF CallKept, HostTypeOK
<1> QED
  BY <1>2, <1>4, <1>6, <1>7 DEF IInv, TableRight, Tables8Right, Multiplied

LEMMA ShiftStep ==
  ASSUME IInv, Shift
  PROVE  IInv' /\ pc \in Building /\ pc' \in Building /\ UNCHANGED call
<1>1. /\ TypeOK /\ HostTypeOK /\ pc = "shift" /\ step \in 1 .. N
      /\ acc = Abs!OverN(Up(h, step)) /\ h \in Element
  BY DEF IInv, TypeOK, HostTypeOK, BuildFlow, Shift, Up, Abs!Shifted
<1>2. /\ acc' = RightShift(acc)
      /\ step' = step - 1 /\ pc' = (IF step = 1 THEN "entries" ELSE "shift")
      /\ call' = call
      /\ UNCHANGED <<h, temp, nibble, key, input, htable, calls, tables8>>
  BY <1>1 DEF Shift, CountDown, Goto
<1>3. acc' = Abs!OverN(Up(h, step - 1))
  BY <1>1, <1>2, OverNHalve
<1>4. acc' \in Element /\ step' \in Nat
  BY <1>1, <1>2, NAssumption, RightShiftType DEF HostTypeOK
<1>5. TypeOK'
  <2>1. HostTypeOK'
    BY <1>1, <1>2, <1>4 DEF HostTypeOK
  <2> QED
    BY <1>1, <1>2, <2>1 DEF TypeOK, tables8
<1>6. BuildFlow'
  <2>1. CASE step = 1
    <3>1. Up(h, 0) = h
      BY <1>1, ElementInt DEF Up
    <3>2. acc' = Prime(h)
      BY <1>1, <1>3, <2>1, <3>1, OverNPrime, 1 - 1 = 0
    <3> QED
      BY <1>2, <2>1, <3>2 DEF BuildFlow
  <2>2. CASE step # 1
    <3>1. step' \in 1 .. N
      BY <1>1, <1>2, <2>2, NAssumption
    <3>2. acc' = Abs!OverN(Abs!Shifted(h', step'))
      BY <1>2, <1>3 DEF Up, Abs!Shifted
    <3> QED
      BY <1>2, <2>2, <3>1, <3>2 DEF BuildFlow
  <2> QED
    BY <2>1, <2>2
<1>7. pc \in Building /\ pc' \in Building
  BY <1>1, <1>2 DEF Building
<1> QED
  BY <1>2, <1>5, <1>6, <1>7, InsideStep

LEMMA FirstEntriesStep ==
  ASSUME IInv, FirstEntries
  PROVE  IInv' /\ pc \in Building /\ pc' \in Building /\ UNCHANGED call
<1> DEFINE hp == Prime(h)
<1>1. /\ TypeOK /\ HostTypeOK /\ pc = "entries" /\ acc = hp /\ h \in Element
      /\ htable \in [Entry -> Element] /\ acc \in Element
  BY DEF IInv, TypeOK, HostTypeOK, BuildFlow, FirstEntries
<1>2. /\ acc' = Double(acc) /\ htable' = Set(Set01(htable, acc), 2, acc')
      /\ step' = 3 /\ pc' = "build" /\ call' = call
      /\ UNCHANGED <<h, temp, nibble, key, input, calls, tables8>>
  BY <1>1 DEF FirstEntries, Goto
<1>3. acc' \in Element /\ hp \in Element
  BY <1>1, <1>2, DoubleType, PrimeType
<1>4. /\ htable' \in [Entry -> Element]
      /\ htable'[0] = {} /\ htable'[1] = hp /\ htable'[2] = Double(hp)
  <2> DEFINE t0 == Set(htable, 0, {})
             t1 == Set(t0, 1, acc)
             t2 == Set(t1, 2, acc')
  <2>1. htable' = t2
    BY <1>2 DEF Set01
  <2>2. t0 \in [Entry -> Element] /\ \A j \in Entry : t0[j] = IF j = 0 THEN {} ELSE htable[j]
    BY <1>1, ZeroType, SetType
  <2> HIDE DEF t0
  <2>3. t1 \in [Entry -> Element] /\ \A j \in Entry : t1[j] = IF j = 1 THEN acc ELSE t0[j]
    BY <1>1, <2>2, SetType
  <2> HIDE DEF t1
  <2>4. t2 \in [Entry -> Element] /\ \A j \in Entry : t2[j] = IF j = 2 THEN acc' ELSE t1[j]
    BY <1>3, <2>3, SetType
  <2> HIDE DEF t2
  <2>5. 0 \in Entry /\ 1 \in Entry /\ 2 \in Entry
    BY DEF Entry
  <2> QED
    BY <1>1, <1>2, <2>1, <2>2, <2>3, <2>4, <2>5
<1>5. /\ Multiple(0, hp) = {} /\ Multiple(1, hp) = hp
      /\ Multiple(2, hp) = Double(hp)
  <2>1. Multiple(2 * 1, hp) = Double(Multiple(1, hp))
    BY <1>3, MultipleStep
  <2> QED
    BY <1>3, <2>1, MultipleZero
<1>6. TypeOK'
  <2>1. HostTypeOK'
    BY <1>1, <1>2, <1>3, <1>4 DEF HostTypeOK
  <2> QED
    BY <1>1, <1>2, <2>1 DEF TypeOK, tables8
<1> HIDE DEF hp
<1>7. Entries(3, h)'
  <2>1. \A i \in Entry : i < 3 => i = 0 \/ i = 1 \/ i = 2
    BY DEF Entry
  <2>2. \A i \in Entry : i < 3 => htable'[i] = Multiple(i, hp)
    BY <1>4, <1>5, <2>1
  <2> QED
    BY <1>2, <2>2 DEF Entries, hp
<1>8. BuildFlow'
  BY <1>2, <1>7 DEF BuildFlow
<1>9. pc \in Building /\ pc' \in Building
  BY <1>1, <1>2 DEF Building
<1> QED
  BY <1>2, <1>6, <1>8, <1>9, InsideStep

LEMMA BuildEntryStep ==
  ASSUME IInv, BuildEntry
  PROVE  IInv' /\ pc \in Building /\ pc' \in Building /\ UNCHANGED call
<1> DEFINE hp == Prime(h)
<1>1. /\ TypeOK /\ HostTypeOK /\ pc = "build" /\ step \in 3 .. 15
      /\ h \in Element /\ htable \in [Entry -> Element]
      /\ \A i \in Entry : i < step => htable[i] = Multiple(i, hp)
  BY DEF IInv, TypeOK, HostTypeOK, BuildFlow, BuildEntry, Entries
<1>2. /\ acc' = IF step % 2 = 0 THEN Double(htable[step \div 2])
                ELSE Xor(htable[step - 1], htable[1])
      /\ htable' = Set(htable, step, acc')
      /\ step' = step + 1 /\ pc' = (IF step + 1 = 16 THEN "entries8" ELSE "build")
      /\ call' = call
      /\ UNCHANGED <<h, temp, nibble, key, input, calls, tables8>>
  BY <1>1 DEF BuildEntry, Goto
<1>3. hp \in Element
  BY <1>1, PrimeType
<1> HIDE DEF hp
<1>4. acc' = Multiple(step, hp)
  <2>1. CASE step % 2 = 0
    <3>1. PICK k \in 1 .. 7 : step = 2 * k
      <4>1. step \div 2 \in 1 .. 7 /\ step = 2 * (step \div 2)
        BY <1>1, <2>1
      <4> QED
        BY <4>1
    <3>2. step \div 2 = k /\ k \in Entry /\ k < step
      BY <3>1 DEF Entry
    <3>3. htable[k] = Multiple(k, hp)
      BY <1>1, <3>2
    <3>4. Multiple(2 * k, hp) = Double(Multiple(k, hp))
      BY <1>3, MultipleStep
    <3> QED
      BY <1>2, <2>1, <3>1, <3>2, <3>3, <3>4
  <2>2. CASE step % 2 # 0
    <3>1. PICK k \in 1 .. 7 : step = 2 * k + 1
      <4>1. step \div 2 \in 1 .. 7 /\ step = 2 * (step \div 2) + 1
        BY <1>1, <2>2
      <4> QED
        BY <4>1
    <3>2. step - 1 = 2 * k /\ 2 * k \in Entry /\ 2 * k < step /\ 1 \in Entry /\ 1 < step
      BY <3>1 DEF Entry
    <3>3. htable[2 * k] = Multiple(2 * k, hp) /\ htable[1] = Multiple(1, hp)
      BY <1>1, <3>2
    <3>4. /\ Multiple(2 * k, hp) = Double(Multiple(k, hp))
          /\ Multiple(2 * k + 1, hp) = Xor(Double(Multiple(k, hp)), hp)
          /\ Multiple(1, hp) = hp
      BY <1>3, MultipleStep, MultipleZero
    <3> QED
      BY <1>2, <2>2, <3>1, <3>2, <3>3, <3>4
  <2> QED
    BY <2>1, <2>2
<1>5. acc' \in Element
  BY <1>1, <1>3, <1>4, MultipleType
<1>6. /\ htable' \in [Entry -> Element]
      /\ \A j \in Entry : htable'[j] = IF j = step THEN acc' ELSE htable[j]
  BY <1>1, <1>2, <1>5, SetType
<1>7. TypeOK'
  <2>1. HostTypeOK'
    BY <1>1, <1>2, <1>5, <1>6 DEF HostTypeOK
  <2> QED
    BY <1>1, <1>2, <2>1 DEF TypeOK, tables8
<1>8. \A i \in Entry : i < step + 1 => htable'[i] = Multiple(i, Prime(h'))
  <2>1. \A i \in Entry : i < step + 1 => i = step \/ i < step
    BY <1>1 DEF Entry
  <2> QED
    BY <1>1, <1>2, <1>4, <1>6, <2>1 DEF hp
<1>9. BuildFlow'
  <2>1. CASE step = 15
    <3>1. Entries(16, h)'
      BY <1>8, <2>1 DEF Entries
    <3> QED
      BY <1>2, <2>1, <3>1 DEF BuildFlow
  <2>2. CASE step # 15
    <3>1. step' \in 3 .. 15 /\ pc' = "build"
      BY <1>1, <1>2, <2>2
    <3>2. Entries(step, h)'
      BY <1>2, <1>8 DEF Entries
    <3> QED
      BY <3>1, <3>2 DEF BuildFlow
  <2> QED
    BY <2>1, <2>2
<1>10. pc \in Building /\ pc' \in Building
  BY <1>1, <1>2 DEF Building
<1> QED
  BY <1>2, <1>7, <1>9, <1>10, InsideStep

\* A pass of either 8-bit loop, for the products f it tabulates.
LEMMA NextEntry8 ==
  ASSUME NEW f \in [Byte -> Element], NEW base,
         \A i \in 0 .. 127 : /\ f[2 * i] = Double(f[i])
                             /\ f[2 * i + 1] = Xor(f[2 * i], base),
         NEW t \in [Byte -> Element], step \in 2 .. 255, acc = t[step - 1],
         \A i \in Byte : i < step => t[i] = f[i]
  PROVE  /\ Entry8(t, base) = f[step] /\ Entry8(t, base) \in Element
         /\ Set(t, step, Entry8(t, base)) \in [Byte -> Element]
         /\ Set(t, step, Entry8(t, base))[step] = Entry8(t, base)
         /\ \A i \in Byte : i < step + 1 => Set(t, step, Entry8(t, base))[i] = f[i]
<1> DEFINE a == Entry8(t, base)
<1>1. a = f[step]
  <2>1. CASE step % 2 = 0
    <3>1. PICK k \in 1 .. 127 : step = 2 * k
      <4>1. step \div 2 \in 1 .. 127 /\ step = 2 * (step \div 2)
        BY <2>1
      <4> QED
        BY <4>1
    <3>2. step \div 2 = k /\ k \in Byte /\ k < step /\ k \in 0 .. 127
      BY <3>1 DEF Byte
    <3>3. t[k] = f[k] /\ f[2 * k] = Double(f[k])
      BY <3>2
    <3> QED
      BY <2>1, <3>1, <3>2, <3>3 DEF Entry8
  <2>2. CASE step % 2 # 0
    <3>1. PICK k \in 1 .. 127 : step = 2 * k + 1
      <4>1. step \div 2 \in 1 .. 127 /\ step = 2 * (step \div 2) + 1
        BY <2>2
      <4> QED
        BY <4>1
    <3>2. step - 1 = 2 * k /\ 2 * k \in Byte /\ 2 * k < step /\ k \in 0 .. 127
      BY <3>1 DEF Byte
    <3>3. acc = f[2 * k] /\ f[2 * k + 1] = Xor(f[2 * k], base)
      BY <3>2
    <3> QED
      BY <2>2, <3>1, <3>3 DEF Entry8
  <2> QED
    BY <2>1, <2>2
<1>2. a \in Element /\ step \in Byte
  BY <1>1 DEF Byte
<1> HIDE DEF a
<1>3. /\ Set(t, step, a) \in [Byte -> Element]
      /\ \A j \in Byte : Set(t, step, a)[j] = IF j = step THEN a ELSE t[j]
  <2>1. Set(t, step, a) = [j \in Byte |-> IF j = step THEN a ELSE t[j]]
    BY DEF Set
  <2>2. \A j \in Byte : t[j] \in Element
    OBVIOUS
  <2> QED
    BY <1>2, <2>1, <2>2
<1>4. \A i \in Byte : i < step + 1 => Set(t, step, a)[i] = f[i]
  <2>1. \A i \in Byte : i < step + 1 => i = step \/ i < step
    BY DEF Byte
  <2> QED
    BY <1>1, <1>3, <2>1
<1> QED
  BY <1>1, <1>2, <1>3, <1>4 DEF a

LEMMA FirstTwo ==
  ASSUME NEW t \in [Byte -> Element], NEW a \in Element
  PROVE  /\ Set01(t, a) \in [Byte -> Element]
         /\ Set01(t, a)[0] = {} /\ Set01(t, a)[1] = a
<1> DEFINE t0 == Set(t, 0, {})
<1>1. t0 \in [Byte -> Element] /\ \A j \in Byte : t0[j] = IF j = 0 THEN {} ELSE t[j]
  BY ZeroType, SetType
<1> HIDE DEF t0
<1>2. Set(t0, 1, a) \in [Byte -> Element] /\ \A j \in Byte : Set(t0, 1, a)[j] = IF j = 1 THEN a ELSE t0[j]
  BY <1>1, SetType
<1>3. 0 \in Byte /\ 1 \in Byte
  BY DEF Byte
<1> QED
  BY <1>1, <1>2, <1>3 DEF Set01, t0

LEMMA FirstEntries8Step ==
  ASSUME IInv, FirstEntries8
  PROVE  IInv' /\ pc \in Building /\ pc' \in Building /\ UNCHANGED call
<1>1. /\ TypeOK /\ HostTypeOK /\ pc = "entries8" /\ h \in Element
      /\ htable8 \in [Byte -> Element] /\ Entries(16, h)
  BY DEF IInv, TypeOK, HostTypeOK, BuildFlow, FirstEntries8
<1>2. /\ acc' = htable[1] /\ htable8' = Set01(htable8, acc')
      /\ step' = 2 /\ pc' = "build8" /\ call' = call
      /\ UNCHANGED <<h, temp, nibble, key, input, htable, calls, reduce8>>
  BY <1>1 DEF FirstEntries8, Goto
<1>3. acc' = Prime(h) /\ acc' \in Element
  <2>1. 1 \in Entry /\ 1 < 16
    BY DEF Entry
  <2>2. acc' = Multiple(1, Prime(h))
    BY <1>1, <1>2, <2>1 DEF Entries
  <2> QED
    BY <1>1, <2>2, PrimeType, MultipleZero
<1>4. htable8' \in [Byte -> Element] /\ htable8'[0] = {} /\ htable8'[1] = Prime(h)
  BY <1>1, <1>2, <1>3, FirstTwo
<1>5. TypeOK'
  <2>1. HostTypeOK'
    BY <1>1, <1>2, <1>3 DEF HostTypeOK
  <2> QED
    BY <1>1, <1>2, <1>4, <2>1 DEF TypeOK
<1>6. Entries8(2, h)'
  <2>1. \A i \in Byte : i < 2 => i = 0 \/ i = 1
    BY DEF Byte
  <2>2. \A i \in Byte : i < 2 => htable8'[i] = Abs!Dot(ByteBits(i), h)
    BY <1>1, <1>4, <2>1, ProductEntries
  <2> QED
    BY <1>2, <2>2 DEF Entries8, ByteBits
<1>7. Entries(16, h)'
  BY <1>1, <1>2 DEF Entries
<1>8. acc' = htable8'[step' - 1]
  BY <1>2, <1>3, <1>4, 2 - 1 = 1
<1>9. BuildFlow'
  BY <1>2, <1>6, <1>7, <1>8 DEF BuildFlow
<1>10. pc \in Building /\ pc' \in Building
  BY <1>1, <1>2 DEF Building
<1> QED
  BY <1>2, <1>5, <1>9, <1>10, InsideStep

LEMMA BuildEntry8Step ==
  ASSUME IInv, BuildEntry8
  PROVE  IInv' /\ pc \in Building /\ pc' \in Building /\ UNCHANGED call
<1> DEFINE f == [i \in Byte |-> Abs!Dot(ByteBits(i), h)]
<1>1. /\ TypeOK /\ HostTypeOK /\ pc = "build8" /\ h \in Element
      /\ htable8 \in [Byte -> Element] /\ Entries(16, h)
      /\ step \in 2 .. 255 /\ acc = htable8[step - 1] /\ Entries8(step, h)
  BY DEF IInv, TypeOK, HostTypeOK, BuildFlow, BuildEntry8
<1>2. /\ acc' = Entry8(htable8, htable[1]) /\ htable8' = Set(htable8, step, acc')
      /\ step' = Wrapped /\ pc' = (IF Wrapped = 0 THEN "reduce" ELSE "build8")
      /\ call' = call
      /\ UNCHANGED <<h, temp, nibble, key, input, htable, calls, reduce8>>
  BY <1>1 DEF BuildEntry8, Goto
<1>3. htable[1] = Prime(h)
  <2>1. 1 \in Entry /\ 1 < 16
    BY DEF Entry
  <2>2. htable[1] = Multiple(1, Prime(h))
    BY <1>1, <2>1 DEF Entries
  <2> QED
    BY <1>1, <2>2, PrimeType, MultipleZero
<1>4. /\ f \in [Byte -> Element]
      /\ \A i \in 0 .. 127 : /\ f[2 * i] = Double(f[i])
                             /\ f[2 * i + 1] = Xor(f[2 * i], htable[1])
      /\ \A i \in Byte : i < step => htable8[i] = f[i]
  <2>1. f \in [Byte -> Element]
    BY DotType
  <2>2. \A i \in 0 .. 127 : i \in Byte /\ 2 * i \in Byte /\ 2 * i + 1 \in Byte
    BY DEF Byte
  <2>3. \A i \in 0 .. 127 : /\ f[2 * i] = Double(f[i])
                            /\ f[2 * i + 1] = Xor(f[2 * i], htable[1])
    BY <1>1, <1>3, <2>2, ProductEntries
  <2>4. \A i \in Byte : i < step => htable8[i] = f[i]
    BY <1>1 DEF Entries8
  <2> QED
    BY <2>1, <2>3, <2>4
<1>5. \A i \in Byte : f[i] = Abs!Dot(ByteBits(i), h)
  OBVIOUS
<1> HIDE DEF f
<1>6. /\ acc' \in Element /\ htable8' \in [Byte -> Element] /\ htable8'[step] = acc'
      /\ \A i \in Byte : i < step + 1 => htable8'[i] = f[i]
  <2> DEFINE base == htable[1]
  <2>1. /\ htable8 \in [Byte -> Element] /\ step \in 2 .. 255 /\ acc = htable8[step - 1]
        /\ \A i \in 0 .. 127 : f[2 * i] = Double(f[i]) /\ f[2 * i + 1] = Xor(f[2 * i], base)
    BY <1>1, <1>4
  <2>2. acc' = Entry8(htable8, base) /\ htable8' = Set(htable8, step, Entry8(htable8, base))
    BY <1>2
  <2> HIDE DEF base
  <2>3. /\ Entry8(htable8, base) \in Element
        /\ Set(htable8, step, Entry8(htable8, base)) \in [Byte -> Element]
        /\ Set(htable8, step, Entry8(htable8, base))[step] = Entry8(htable8, base)
        /\ \A i \in Byte : i < step + 1 => Set(htable8, step, Entry8(htable8, base))[i] = f[i]
    BY <1>4, <2>1, NextEntry8
  <2> QED
    BY <2>2, <2>3
<1>7. Wrapped = IF step = 255 THEN 0 ELSE step + 1
  BY <1>1 DEF Wrapped
<1>8. TypeOK'
  <2>1. step' \in Nat
    BY <1>1, <1>2, <1>7
  <2>2. HostTypeOK'
    BY <1>1, <1>2, <1>6, <2>1 DEF HostTypeOK
  <2> QED
    BY <1>1, <1>2, <1>6, <2>2 DEF TypeOK
<1>9. Entries(16, h)'
  BY <1>1, <1>2 DEF Entries
<1>10. BuildFlow'
  <2>1. CASE step = 255
    <3>1. Entries8(256, h)'
      BY <1>2, <1>5, <1>6, <2>1 DEF Entries8, ByteBits
    <3> QED
      BY <1>2, <1>7, <1>9, <2>1, <3>1 DEF BuildFlow
  <2>2. CASE step # 255
    <3>1. step' = step + 1 /\ step' \in 2 .. 255 /\ step' - 1 = step /\ pc' = "build8"
      BY <1>1, <1>2, <1>7, <2>2
    <3>2. Entries8(step, h)'
      BY <1>2, <1>5, <1>6, <3>1 DEF Entries8, ByteBits
    <3> QED
      BY <1>6, <1>9, <3>1, <3>2 DEF BuildFlow
  <2> QED
    BY <2>1, <2>2
<1>11. pc \in Building /\ pc' \in Building
  BY <1>1, <1>2 DEF Building
<1> QED
  BY <1>2, <1>8, <1>10, <1>11, InsideStep

LEMMA FirstReduce8Step ==
  ASSUME IInv, FirstReduce8
  PROVE  IInv' /\ pc \in Building /\ pc' \in Building /\ UNCHANGED call
<1>1. /\ TypeOK /\ HostTypeOK /\ pc = "reduce"
      /\ reduce8 \in [Byte -> Element] /\ Entries(16, h) /\ Entries8(256, h)
  BY DEF IInv, TypeOK, HostTypeOK, BuildFlow, FirstReduce8
<1>2. /\ acc' = LeftReduction /\ reduce8' = Set01(reduce8, acc')
      /\ step' = 2 /\ pc' = "build_reduce" /\ call' = call
      /\ UNCHANGED <<h, temp, nibble, key, input, htable, calls, htable8>>
  BY <1>1 DEF FirstReduce8, Goto
<1>3. acc' \in Element
  BY <1>2, ReductionType
<1>4. reduce8' \in [Byte -> Element] /\ reduce8'[0] = {} /\ reduce8'[1] = LeftReduction
  BY <1>1, <1>2, <1>3, FirstTwo
<1>5. TypeOK'
  <2>1. HostTypeOK'
    BY <1>1, <1>2, <1>3 DEF HostTypeOK
  <2> QED
    BY <1>1, <1>2, <1>4, <2>1 DEF TypeOK
<1>6. Reductions(2)'
  <2>1. \A i \in Byte : i < 2 => i = 0 \/ i = 1
    BY DEF Byte
  <2>2. \A i \in Byte : i < 2 => reduce8'[i] = Reduced(i)
    BY <1>4, <2>1, ReducedEntries
  <2> QED
    BY <2>2 DEF Reductions, Reduced, ByteBits
<1>7. Entries(16, h)' /\ Entries8(256, h)'
  BY <1>1, <1>2 DEF Entries, Entries8, ByteBits
<1>8. acc' = reduce8'[step' - 1]
  BY <1>2, <1>4, 2 - 1 = 1
<1>9. BuildFlow'
  BY <1>2, <1>6, <1>7, <1>8 DEF BuildFlow
<1>10. pc \in Building /\ pc' \in Building
  BY <1>1, <1>2 DEF Building
<1> QED
  BY <1>2, <1>5, <1>9, <1>10, InsideStep

LEMMA BuildReduce8Step ==
  ASSUME IInv, BuildReduce8
  PROVE  /\ IInv' /\ pc = "build_reduce" /\ pc' \in {"build_reduce", "idle"}
         /\ UNCHANGED <<h, nibble>>
         /\ pc' = "build_reduce" => UNCHANGED call
         /\ pc' = "idle" =>
              key' = h /\ Entries(16, h)' /\ Entries8(256, h)' /\ Reductions(256)'
<1> DEFINE f == [i \in Byte |-> Reduced(i)]
<1>1. /\ TypeOK /\ HostTypeOK /\ pc = "build_reduce" /\ h \in Element
      /\ reduce8 \in [Byte -> Element] /\ Entries(16, h) /\ Entries8(256, h)
      /\ step \in 2 .. 255 /\ acc = reduce8[step - 1] /\ Reductions(step)
  BY DEF IInv, TypeOK, HostTypeOK, BuildFlow, BuildReduce8
<1>2. /\ acc' = Entry8(reduce8, LeftReduction) /\ reduce8' = Set(reduce8, step, acc')
      /\ step' = Wrapped /\ pc' = (IF Wrapped = 0 THEN "idle" ELSE "build_reduce")
      /\ call' = (IF Wrapped = 0 THEN Nil ELSE call)
      /\ key' = (IF Wrapped = 0 THEN h ELSE key)
      /\ UNCHANGED <<h, temp, nibble, input, htable, calls, htable8>>
  BY <1>1 DEF BuildReduce8, Goto
<1>3. /\ f \in [Byte -> Element]
      /\ \A i \in 0 .. 127 : /\ f[2 * i] = Double(f[i])
                             /\ f[2 * i + 1] = Xor(f[2 * i], LeftReduction)
      /\ \A i \in Byte : i < step => reduce8[i] = f[i]
  <2>1. f \in [Byte -> Element]
    BY ReducedEntries
  <2>2. \A i \in 0 .. 127 : i \in Byte /\ 2 * i \in Byte /\ 2 * i + 1 \in Byte
    BY DEF Byte
  <2>3. \A i \in 0 .. 127 : /\ f[2 * i] = Double(f[i])
                            /\ f[2 * i + 1] = Xor(f[2 * i], LeftReduction)
    BY <2>2, ReducedEntries
  <2>4. \A i \in Byte : i < step => reduce8[i] = f[i]
    BY <1>1 DEF Reductions
  <2> QED
    BY <2>1, <2>3, <2>4
<1>4. \A i \in Byte : f[i] = Reduced(i)
  OBVIOUS
<1> HIDE DEF f
<1>5. /\ acc' \in Element /\ reduce8' \in [Byte -> Element] /\ reduce8'[step] = acc'
      /\ \A i \in Byte : i < step + 1 => reduce8'[i] = f[i]
  <2> DEFINE base == LeftReduction
  <2>1. /\ reduce8 \in [Byte -> Element] /\ step \in 2 .. 255 /\ acc = reduce8[step - 1]
        /\ \A i \in 0 .. 127 : f[2 * i] = Double(f[i]) /\ f[2 * i + 1] = Xor(f[2 * i], base)
    BY <1>1, <1>3
  <2>2. acc' = Entry8(reduce8, base) /\ reduce8' = Set(reduce8, step, Entry8(reduce8, base))
    BY <1>2
  <2> HIDE DEF base
  <2>3. /\ Entry8(reduce8, base) \in Element
        /\ Set(reduce8, step, Entry8(reduce8, base)) \in [Byte -> Element]
        /\ Set(reduce8, step, Entry8(reduce8, base))[step] = Entry8(reduce8, base)
        /\ \A i \in Byte : i < step + 1 => Set(reduce8, step, Entry8(reduce8, base))[i] = f[i]
    BY <1>3, <2>1, NextEntry8
  <2> QED
    BY <2>2, <2>3
<1>6. Wrapped = IF step = 255 THEN 0 ELSE step + 1
  BY <1>1 DEF Wrapped
<1>7. TypeOK'
  <2>1. step' \in Nat
    BY <1>1, <1>2, <1>6
  <2>2. HostTypeOK'
    BY <1>1, <1>2, <1>5, <2>1 DEF HostTypeOK
  <2> QED
    BY <1>1, <1>2, <1>5, <2>2 DEF TypeOK
<1>8. Entries(16, h)' /\ Entries8(256, h)'
  BY <1>1, <1>2 DEF Entries, Entries8, ByteBits
<1>9. CASE step = 255
  <2>1. Reductions(256)'
    <3>1. \A i \in Byte : i < 256 => reduce8'[i] = Reduced(i)
      BY <1>4, <1>5, <1>9, 255 + 1 = 256
    <3> QED
      BY <3>1 DEF Reductions, Reduced, ByteBits
  <2>2. pc' = "idle" /\ key' = h' /\ call' = Nil
    BY <1>2, <1>6, <1>9
  <2>3. Entries8(256, key)'
    BY <1>8, <2>2
  <2>4. TableRight'
    <3>1. \A i \in Entry : i < 16
      BY DEF Entry
    <3> QED
      BY <1>8, <2>2, <3>1 DEF Entries, TableRight
  <2>5. Tables8Right'
    BY <2>1, <2>3 DEF Tables8Right
  <2> QED
    BY <1>1, <1>2, <1>7, <1>8, <2>1, <2>2, <2>4, <2>5 DEF IInv, BuildFlow, CallKept, Multiplied
<1>10. CASE step # 255
  <2>1. step' = step + 1 /\ step' \in 2 .. 255 /\ step' - 1 = step /\ pc' = "build_reduce"
    BY <1>1, <1>2, <1>6, <1>10
  <2>2. Reductions(step)'
    BY <1>4, <1>5, <2>1 DEF Reductions, Reduced, ByteBits
  <2>3. BuildFlow'
    BY <1>5, <1>8, <2>1, <2>2 DEF BuildFlow
  <2>4. UNCHANGED <<h, nibble, key, call>>
    BY <1>1, <1>2, <1>6, <1>10
  <2>5. pc \in Building /\ pc' \in Building
    BY <1>1, <2>1 DEF Building
  <2> QED
    BY <1>1, <1>7, <2>1, <2>3, <2>4, <2>5, InsideStep
<1> QED
  BY <1>9, <1>10

-----------------------------------------------------------------------------
(* The multiplication. *)

LEMMA MultiplyCallStep ==
  ASSUME IInv, polyval_multiply \/ polyval_update
  PROVE  IInv' /\ pc = "idle" /\ pc' = "multiply"
<1>1. /\ TypeOK /\ HostTypeOK /\ TableRight /\ Tables8Right
      /\ acc \in Element /\ temp \in Element /\ key # Nil /\ pc = "idle"
  BY DEF IInv, TypeOK, HostTypeOK, polyval_multiply, polyval_update, MultiplyCore, Enter
<1>2. /\ pc' = "multiply" /\ step' = N \div 8 - 1 /\ calls' = calls + 1 /\ calls < MaxCalls
      /\ input' \in {acc, Xor(acc, temp)}
      /\ acc' = htable8[ByteAt(input', N - 8)]
      /\ call' = [h |-> h, temp |-> temp, nibble |-> nibble, acc |-> acc, key |-> key]
      /\ UNCHANGED <<h, temp, nibble, key, htable, tables8>>
  BY DEF polyval_multiply, polyval_update, MultiplyCore, Enter,
     pv_unroll_fused_xor_temp_to_input_16
<1>3. input' \in Element
  BY <1>1, <1>2, XorType
<1>4. N \in Nat /\ step' \in Nat /\ step' >= 1 /\ 8 * step' = N - 8 /\ N - 8 \in Nat
  BY <1>2, NAssumption
<1>5. key \in Element
  BY <1>1 DEF HostTypeOK
<1>6. acc' = Abs!Dot(Shr(input', 8 * step'), key)
  <2>1. ByteAt(input', N - 8) \in Byte
    BY <1>3, <1>4, ByteAtIs
  <2>2. \A i \in Byte : htable8[i] = Abs!Dot(ByteBits(i), key)
    BY <1>1 DEF Tables8Right, Entries8, Byte
  <2>3. acc' = Abs!Dot(ByteBits(ByteAt(input', N - 8)), key)
    BY <1>2, <2>1, <2>2
  <2>4. Abs!Dot(Shr(input', N - 8), key) = Abs!Dot(ByteBits(ByteAt(input', N - 8)), key)
    BY <1>3, DotTop
  <2> QED
    BY <1>4, <2>3, <2>4
<1>7. TypeOK'
  <2>1. acc' \in Element
    BY <1>6, DotType
  <2>2. HostTypeOK'
    BY <1>1, <1>2, <1>3, <1>4, <2>1, HostAssumption DEF HostTypeOK
  <2> QED
    BY <1>1, <1>2, <2>2 DEF TypeOK, tables8
<1>8. call'.temp = temp /\ call'.acc = acc /\ call'.h = h /\ call'.key = key
  BY <1>2
<1>9. Multiplied(8)'
  <2>1. 8 * step' <= N
    <3>1. N - 8 <= N
      BY <1>4
    <3> QED
      BY <1>4, <3>1
  <2> QED
    BY <1>1, <1>2, <1>4, <1>6, <1>8, <2>1 DEF Multiplied, Shr
<1>10. CallKept'
  BY <1>1, <1>2, <1>8 DEF CallKept
<1>11. TableRight' /\ Tables8Right'
  BY <1>1, <1>2 DEF TableRight, Tables8Right, tables8, Entries8, Reductions, Reduced, ByteBits
<1> QED
  BY <1>1, <1>2, <1>7, <1>9, <1>10, <1>11 DEF IInv, BuildFlow

(* A pass of the fused loop takes the accumulator from the product of the  *)
(* bytes so far to the product with one byte more.                         *)
LEMMA MultiplyByteStep ==
  ASSUME IInv, MultiplyByte
  PROVE  /\ IInv' /\ pc = "multiply" /\ pc' \in {"multiply", "idle"}
         /\ UNCHANGED <<h, temp, key, nibble>>
         /\ pc' = "multiply" => UNCHANGED call
         /\ pc' = "idle" => acc' = Abs!Dot(input, key)
<1> DEFINE p == 8 * (step - 1)
<1>1. /\ TypeOK /\ HostTypeOK /\ TableRight /\ Tables8Right /\ CallKept /\ Multiplied(8)
      /\ pc = "multiply" /\ key # Nil
  BY DEF IInv, TypeOK, MultiplyByte, Multiplied
<1>2. /\ step \in Nat /\ step >= 1 /\ 8 * step <= N
      /\ acc \in Element /\ input \in Element /\ key \in Element
      /\ acc = Abs!Dot(Shr(input, 8 * step), key)
  BY <1>1 DEF HostTypeOK, Multiplied
<1>3. /\ acc' = Xor(Xor(Rol8(acc), reduce8[ByteAt(acc, N - 8)]), htable8[ByteAt(input, p)])
      /\ step' = step - 1 /\ pc' = (IF step = 1 THEN "idle" ELSE "multiply")
      /\ call' = (IF step = 1 THEN Nil ELSE call)
      /\ UNCHANGED <<h, temp, nibble, key, input, htable, calls, tables8>>
  BY DEF MultiplyByte, CountDown, Goto
<1>4. p \in Nat /\ p + 8 = 8 * step /\ p + 8 <= N
  BY <1>2, NAssumption
<1> HIDE DEF p
<1>5. /\ \A i \in Byte : htable8[i] = Abs!Dot(ByteBits(i), key)
      /\ \A i \in Byte : reduce8[i] = Reduced(i)
  BY <1>1 DEF Tables8Right, Entries8, Reductions, Byte
<1>6. /\ ByteAt(acc, N - 8) \in Byte
      /\ ByteAt(input, p) \in Byte /\ ByteBits(ByteAt(input, p)) = Digit(input, p)
  BY <1>2, <1>4, NAssumption, ByteAtIs
<1>7. acc' = Xor(D8(acc), Abs!Dot(Digit(input, p), key))
  BY <1>2, <1>3, <1>5, <1>6, FusedStep
<1>8. acc' = Abs!Dot(Shr(input, p), key)
  BY <1>2, <1>4, <1>7, DotByte
<1>9. TypeOK'
  <2>1. acc' \in Element /\ step' \in Nat
    BY <1>2, <1>3, <1>8, DotType
  <2>2. HostTypeOK'
    BY <1>1, <1>3, <2>1 DEF HostTypeOK
  <2> QED
    BY <1>1, <1>3, <2>2 DEF TypeOK, tables8
<1>10. TableRight' /\ Tables8Right'
  BY <1>1, <1>3 DEF TableRight, Tables8Right, tables8, Entries8, Reductions, Reduced, ByteBits
<1>11. CASE step = 1
  <2>1. p = 0
    BY <1>11 DEF p
  <2>2. acc' = Abs!Dot(input, key)
    BY <1>2, <1>8, <2>1, ShrEnds
  <2> QED
    BY <1>1, <1>3, <1>9, <1>10, <1>11, <2>2 DEF IInv, BuildFlow, CallKept, Multiplied
<1>12. CASE step # 1
  <2>1. step' >= 1 /\ 8 * step' <= N /\ p = 8 * step'
    BY <1>2, <1>3, <1>12, NAssumption DEF p
  <2>2. Multiplied(8)'
    BY <1>1, <1>3, <1>8, <1>12, <2>1 DEF Multiplied, Shr
  <2>3. CallKept'
    BY <1>1, <1>3, <1>12 DEF CallKept
  <2> QED
    BY <1>1, <1>3, <1>9, <1>10, <1>12, <2>2, <2>3 DEF IInv, BuildFlow
<1> QED
  BY <1>11, <1>12

-----------------------------------------------------------------------------
LEMMA NextKeeps ==
  ASSUME IInv, [Next]_vars
  PROVE  IInv'
<1>1. CASE Host /\ UNCHANGED tables8
  BY <1>1, HostStep
<1>2. CASE SimpleRoutine
  BY <1>2, CallStep
<1>3. CASE CopyH
  BY <1>3, CopyHStep
<1>4. CASE polyval_multiply \/ polyval_update
  BY <1>4, MultiplyCallStep
<1>5. CASE Shift
  BY <1>5, ShiftStep
<1>6. CASE FirstEntries
  BY <1>6, FirstEntriesStep
<1>7. CASE BuildEntry
  BY <1>7, BuildEntryStep
<1>8. CASE FirstEntries8
  BY <1>8, FirstEntries8Step
<1>9. CASE BuildEntry8
  BY <1>9, BuildEntry8Step
<1>10. CASE FirstReduce8
  BY <1>10, FirstReduce8Step
<1>11. CASE BuildReduce8
  BY <1>11, BuildReduce8Step
<1>12. CASE MultiplyByte
  BY <1>12, MultiplyByteStep
<1>13. CASE UNCHANGED vars
  BY <1>13 DEF vars, tables8, hostVars, interface, IInv, TypeOK, HostTypeOK, BuildFlow,
     Entries, Entries8, Reductions, Reduced, ByteBits, TableRight, Tables8Right, CallKept,
     Multiplied, Shr
<1> QED
  BY <1>1, <1>2, <1>3, <1>4, <1>5, <1>6, <1>7, <1>8, <1>9, <1>10, <1>11, <1>12, <1>13
  DEF Next, Library, SimpleRoutine

(* At each place of the 8-bit code the entries written so far are right,   *)
(* the accumulator holds the entry before, and in a product it holds the   *)
(* product of the operand's bytes so far, whatever was called before.      *)
THEOREM LongInvariance == Spec => []IInv
<1> QED
  BY InitInvariant, NextKeeps, PTL DEF Spec

LEMMA NibbleIsByte ==
  ASSUME NEW i \in Entry
  PROVE  Abs!NibbleBits(i) = ByteBits(i)
<1> DEFINE Bits(b) == (i \div 2 ^ b) % 2 = 1
<1>1. i \in Byte
  BY DEF Entry, Byte
<1>2. /\ (i \div 16) % 2 # 1 /\ (i \div 32) % 2 # 1
      /\ (i \div 64) % 2 # 1 /\ (i \div 128) % 2 # 1
  BY DEF Entry
<1>3. 4 \notin ByteBits(i) /\ 5 \notin ByteBits(i) /\ 6 \notin ByteBits(i) /\ 7 \notin ByteBits(i)
  BY <1>1, <1>2, ByteBitsMember
<1>4. ByteBits(i) = {b \in 0 .. 7 : Bits(b)} /\ Abs!NibbleBits(i) = {b \in 0 .. 3 : Bits(b)}
  BY DEF ByteBits, Abs!NibbleBits
<1> HIDE DEF Bits
<1> QED
  BY <1>3, <1>4

LEMMA BuildRight ==
  ASSUME IInv, [Next]_vars
  PROVE  [BuildStep]_vars
<1> SUFFICES ASSUME Next, pc = "build_reduce", pc' = "idle"
             PROVE  BuildStep
  BY DEF BuildStep
<1>1. BuildReduce8
  BY DEF Next, Library, Host, SetH, SetBlock, SetNibble, polyval_init, polyval_double,
     polyval_right_shift_1, polyval_shift_left_4, polyval_xor_table_entry, OneStep,
     CopyH, Enter, Shift, FirstEntries, BuildEntry, FirstEntries8, BuildEntry8, FirstReduce8,
     polyval_multiply, polyval_update, MultiplyCore, MultiplyByte
<1>2. Entries(16, h)' /\ Entries8(256, h)' /\ Reductions(256)' /\ h' = h /\ h \in Element
  <2>1. h \in Element
    BY DEF IInv, TypeOK, HostTypeOK
  <2> QED
    BY <1>1, <2>1, BuildReduce8Step
<1>3. \A i \in Entry : htable'[i] = Abs!Dot(ByteBits(i), h)
  <2> SUFFICES ASSUME NEW i \in Entry
               PROVE  htable'[i] = Abs!Dot(ByteBits(i), h)
    OBVIOUS
  <2>1. i \in 0 .. 15 /\ i < 16
    BY DEF Entry
  <2>2. htable'[i] = Multiple(i, Prime(h))
    BY <1>2, <2>1 DEF Entries
  <2> QED
    BY <1>2, <2>1, <2>2, DotEntry, NibbleIsByte
<1>4. \A i \in Byte : htable8'[i] = Abs!Dot(ByteBits(i), h)
  <2>1. \A i \in Byte : i < 256
    BY DEF Byte
  <2> QED
    BY <1>2, <2>1 DEF Entries8, ByteBits
<1>5. \A i \in Byte : Abs!OverN(reduce8'[i]) = ByteBits(i)
  <2> SUFFICES ASSUME NEW i \in Byte
               PROVE  Abs!OverN(reduce8'[i]) = ByteBits(i)
    OBVIOUS
  <2>1. i < 256
    BY DEF Byte
  <2>2. reduce8'[i] = Reduced(i)
    BY <1>2, <2>1 DEF Reductions, Reduced, ByteBits
  <2>3. ByteBits(i) \in Byte8 /\ Reduced(i) = Fold8(ByteBits(i))
    BY ByteBitsMember, ReducedEntries
  <2> QED
    BY <2>2, <2>3, FoldIsShifted
<1> QED
  BY <1>3, <1>4, <1>5 DEF BuildStep

(* When the build of the LONG profile ends, every entry of its three       *)
(* tables is the product it stands for: i * H in the two tables of         *)
(* multiples, i * x^128 reduced in the table of reductions, though every   *)
(* odd entry rests on what the pass before left in the accumulator.        *)
THEOREM LongTableSafety == Spec => [][BuildStep]_vars
<1>1. IInv /\ [Next]_vars => [BuildStep]_vars
  BY BuildRight
<1> QED
  BY <1>1, LongInvariance, PTL DEF Spec

LEMMA StepRefines ==
  ASSUME IInv, [Next]_vars
  PROVE  Abs!Next \/ UNCHANGED Abs!vars
<1>0. HostTypeOK /\ TableRight /\ CallKept
  BY DEF IInv, TypeOK
<1>1. CASE Host
  BY <1>0, <1>1, HostRefines
<1>2. CASE SimpleRoutine
  BY <1>0, <1>2, SimpleRoutines, CallRefines
<1>3. CASE CopyH \/ polyval_multiply \/ polyval_update
  <2>1. /\ pc = "idle" /\ pc' \in {"shift", "multiply"}
        /\ call' = [h |-> h, temp |-> temp, nibble |-> nibble, acc |-> acc, key |-> key]
    BY <1>3 DEF CopyH, polyval_multiply, polyval_update, MultiplyCore, Enter,
       pv_unroll_fused_xor_temp_to_input_16
  <2> QED
    BY <2>1, EnterHidden
<1>4. CASE Shift \/ FirstEntries \/ BuildEntry \/ FirstEntries8 \/ BuildEntry8 \/ FirstReduce8
  <2>1. pc \in Building /\ pc' \in Building /\ UNCHANGED call
    BY <1>4, ShiftStep, FirstEntriesStep, BuildEntryStep, FirstEntries8Step, BuildEntry8Step,
       FirstReduce8Step
  <2> QED
    BY <2>1, RunningHidden DEF Building
<1>5. CASE BuildReduce8
  <2>1. /\ IInv' /\ pc = "build_reduce" /\ pc' \in {"build_reduce", "idle"}
        /\ UNCHANGED <<h, nibble>>
        /\ pc' = "build_reduce" => UNCHANGED call
        /\ pc' = "idle" => key' = h
    BY <1>5, BuildReduce8Step
  <2>2. CASE pc' = "build_reduce"
    BY <2>1, <2>2, RunningHidden
  <2>3. CASE pc' = "idle"
    <3>1. HostTypeOK'
      BY <2>1 DEF IInv, TypeOK
    <3> QED
      BY <1>0, <2>1, <2>3, <3>1, BuildRefines
  <2> QED
    BY <2>1, <2>2, <2>3
<1>6. CASE MultiplyByte
  <2>1. /\ pc = "multiply" /\ pc' \in {"multiply", "idle"}
        /\ UNCHANGED <<h, temp, key, nibble>>
        /\ pc' = "multiply" => UNCHANGED call
        /\ pc' = "idle" => acc' = Abs!Dot(input, key)
    BY <1>6, MultiplyByteStep
  <2>2. CASE pc' = "multiply"
    BY <2>1, <2>2, RunningHidden
  <2>3. CASE pc' = "idle"
    <3>1. /\ key # Nil /\ input \in {call.acc, Xor(call.acc, call.temp)}
          /\ nibble' \in Entry
      BY <1>0, <2>1 DEF IInv, Multiplied, HostTypeOK
    <3> QED
      BY <1>0, <2>1, <2>3, <3>1, ProductRefines
  <2> QED
    BY <2>1, <2>2, <2>3
<1>7. CASE UNCHANGED vars
  BY <1>7 DEF vars, hostVars, interface, Abs!vars
<1> QED
  BY <1>1, <1>2, <1>3, <1>4, <1>5, <1>6, <1>7 DEF Next, Library, SimpleRoutine

(* For its caller the LONG profile computes the polynomials of RFC 8452    *)
(* too: the byte loop with its two tables of 256 entries and the product   *)
(* reduced at the end give the same element on every operand and key.      *)
THEOREM LongRefinement == Spec => ImplementsPolyval
<1>1. Init => Abs!Init
  BY InitRefines DEF Init
<1>2. Spec => Abs!Init /\ [][Abs!Next]_(Abs!vars)
  BY <1>1, StepRefines, LongInvariance, PTL DEF Spec
<1> QED
  BY <1>2 DEF ImplementsPolyval, Abs!Spec
=============================================================================
