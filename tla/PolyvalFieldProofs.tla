------------------------- MODULE PolyvalFieldProofs -------------------------
(***************************************************************************)
(* Facts about the field operations of PolyvalField, for every width: what *)
(* the shifts and tables of the code are, and then, from the section on    *)
(* polynomials on, that they compute the product RFC 8452 defines.         *)
(***************************************************************************)
EXTENDS PolyvalHost, Integers, FiniteSetTheorems, TLAPS

LEMMA XorMember ==
  ASSUME NEW a, NEW b, NEW j
  PROVE  j \in Xor(a, b) <=> ~(j \in a <=> j \in b)
BY DEF Xor

LEMMA XorType ==
  ASSUME NEW a \in Element, NEW b \in Element
  PROVE  Xor(a, b) \in Element
BY DEF Xor, Element

LEMMA ReductionType ==
  LeftReduction \in Element /\ RightReduction \in Element
BY NAssumption DEF LeftReduction, RightReduction, Element

LEMMA RolMember ==
  ASSUME NEW a \in Element, NEW j \in Int
  PROVE  j \in Rol(a) <=> (j - 1 \in a /\ j < N)
<1>1. ASSUME j \in Rol(a)
      PROVE  j - 1 \in a /\ j < N
  <2>1. PICK i \in a \ {N - 1} : j = i + 1
    BY <1>1 DEF Rol
  <2>2. i \in 0 .. N - 1 /\ i # N - 1
    BY <2>1 DEF Element
  <2> QED
    BY <2>1, <2>2, NAssumption
<1>2. ASSUME j - 1 \in a, j < N
      PROVE  j \in Rol(a)
  <2>1. j - 1 \in a \ {N - 1}
    BY <1>2, NAssumption
  <2>2. j = (j - 1) + 1
    OBVIOUS
  <2> QED
    BY <2>1, <2>2 DEF Rol
<1> QED
  BY <1>1, <1>2

LEMMA RorMember ==
  ASSUME NEW a \in Element, NEW j \in Int
  PROVE  j \in Ror(a) <=> (j + 1 \in a /\ j >= 0)
<1>1. ASSUME j \in Ror(a)
      PROVE  j + 1 \in a /\ j >= 0
  <2>1. PICK i \in a \ {0} : j = i - 1
    BY <1>1 DEF Ror
  <2>2. i \in 0 .. N - 1 /\ i # 0
    BY <2>1 DEF Element
  <2> QED
    BY <2>1, <2>2, NAssumption
<1>2. ASSUME j + 1 \in a, j >= 0
      PROVE  j \in Ror(a)
  <2>1. j + 1 \in a \ {0}
    BY <1>2
  <2>2. j = (j + 1) - 1
    OBVIOUS
  <2> QED
    BY <2>1, <2>2 DEF Ror
<1> QED
  BY <1>1, <1>2

LEMMA RotateType ==
  ASSUME NEW a \in Element
  PROVE  Rol(a) \in Element /\ Ror(a) \in Element
<1>1. \A i \in a : i \in 0 .. N - 1
  BY DEF Element
<1>2. Rol(a) \subseteq 0 .. N - 1
  BY <1>1, NAssumption DEF Rol
<1>3. Ror(a) \subseteq 0 .. N - 1
  BY <1>1, NAssumption DEF Ror
<1> QED
  BY <1>2, <1>3 DEF Element

LEMMA DoubleType ==
  ASSUME NEW a \in Element
  PROVE  Double(a) \in Element
BY RotateType, XorType, ReductionType DEF Double

LEMMA RightShiftType ==
  ASSUME NEW a \in Element
  PROVE  RightShift(a) \in Element
BY RotateType, XorType, ReductionType DEF RightShift

LEMMA DoubleMember ==
  ASSUME NEW a \in Element, NEW j \in 0 .. N - 1
  PROVE  j \in Double(a) <=>
           ~(j - 1 \in a <=> (N - 1 \in a /\ j \in LeftReduction))
<1>1. j \in Int /\ j < N
  BY NAssumption
<1>2. j \in Rol(a) <=> j - 1 \in a
  BY <1>1, RolMember
<1> QED
  BY <1>2, XorMember DEF Double

LEMMA RightShiftMember ==
  ASSUME NEW a \in Element, NEW j \in 0 .. N - 1
  PROVE  j \in RightShift(a) <=>
           ~(j + 1 \in a <=> (0 \in a /\ j \in RightReduction))
<1>1. j \in Int /\ j >= 0
  BY NAssumption
<1>2. j \in Ror(a) <=> j + 1 \in a
  BY <1>1, RorMember
<1> QED
  BY <1>2, XorMember DEF RightShift

(* Two elements with the same exponents are equal. *)
LEMMA SameExponents ==
  ASSUME NEW a \in Element, NEW b \in Element,
         \A j \in 0 .. N - 1 : j \in a <=> j \in b
  PROVE  a = b
BY DEF Element

(* polyval_right_shift_1 undoes polyval_double: the two reduction masks    *)
(* $01, $C2 and $E1 belong to one polynomial.                              *)
THEOREM RightShiftUndoesDouble ==
  ASSUME NEW a \in Element
  PROVE  RightShift(Double(a)) = a
<1> DEFINE d == Double(a)
<1>1. d \in Element /\ RightShift(d) \in Element
  BY DoubleType, RightShiftType
<1>2. 0 \in d <=> N - 1 \in a
  <2>1. 0 \in 0 .. N - 1 /\ 0 \in LeftReduction /\ 0 - 1 \notin a
    BY NAssumption DEF LeftReduction, Element
  <2> QED
    BY <2>1, DoubleMember
<1>3. ASSUME NEW j \in 0 .. N - 1
      PROVE  j \in RightShift(d) <=> j \in a
  <2>1. j \in RightShift(d) <=> ~(j + 1 \in d <=> (N - 1 \in a /\ j \in RightReduction))
    BY <1>1, <1>2, RightShiftMember
  <2>2. CASE j = N - 1
    <3>1. j + 1 \notin d
      BY <1>1, <2>2, NAssumption DEF Element
    <3>2. j \in RightReduction
      BY <2>2 DEF RightReduction
    <3> QED
      BY <2>1, <2>2, <3>1, <3>2
  <2>3. CASE j # N - 1
    <3>1. j + 1 \in 0 .. N - 1 /\ (j + 1) - 1 = j
      BY <2>3, NAssumption
    <3>2. j + 1 \in d <=> ~(j \in a <=> (N - 1 \in a /\ j + 1 \in LeftReduction))
      BY <3>1, DoubleMember
    <3>3. j + 1 \in LeftReduction <=> j \in RightReduction
      BY <2>3, NAssumption DEF LeftReduction, RightReduction
    <3> QED
      BY <2>1, <3>2, <3>3
  <2> QED
    BY <2>2, <2>3
<1> QED
  BY <1>1, <1>3, SameExponents

(* Doubling is linear, so what is added to the accumulator before a shift  *)
(* and what is added after it can be looked up in tables.                  *)
THEOREM DoubleLinear ==
  ASSUME NEW a \in Element, NEW b \in Element
  PROVE  Double(Xor(a, b)) = Xor(Double(a), Double(b))
<1>1. Xor(a, b) \in Element /\ Double(a) \in Element /\ Double(b) \in Element
  BY XorType, DoubleType
<1>2. Double(Xor(a, b)) \in Element /\ Xor(Double(a), Double(b)) \in Element
  BY <1>1, XorType, DoubleType
<1>3. ASSUME NEW j \in 0 .. N - 1
      PROVE  j \in Double(Xor(a, b)) <=> j \in Xor(Double(a), Double(b))
  <2>1. j \in Double(Xor(a, b)) <=>
          ~(j - 1 \in Xor(a, b) <=> (N - 1 \in Xor(a, b) /\ j \in LeftReduction))
    BY <1>1, DoubleMember
  <2>2. j \in Double(a) <=> ~(j - 1 \in a <=> (N - 1 \in a /\ j \in LeftReduction))
    BY DoubleMember
  <2>3. j \in Double(b) <=> ~(j - 1 \in b <=> (N - 1 \in b /\ j \in LeftReduction))
    BY DoubleMember
  <2> QED
    BY <2>1, <2>2, <2>3, XorMember
<1> QED
  BY <1>2, <1>3, SameExponents

-----------------------------------------------------------------------------
(* Sums and multiples. *)

LEMMA XorZero ==
  ASSUME NEW a \in Element
  PROVE  Xor(a, {}) = a /\ Xor({}, a) = a
BY DEF Xor

LEMMA DoubleZero == {} \in Element /\ Double({}) = {}
BY DEF Double, Rol, Element

LEMMA HalvedType ==
  ASSUME NEW a \in Element, NEW n \in 0 .. 7
  PROVE  Halved(a, n) \in Element
<1> DEFINE x1 == RightShift(a)
           x2 == RightShift(x1)
           x3 == RightShift(x2)
           x4 == RightShift(x3)
           x5 == RightShift(x4)
           x6 == RightShift(x5)
<1>1. x1 \in Element
  BY RightShiftType
<1>2. x2 \in Element
  BY <1>1, RightShiftType
<1>3. x3 \in Element
  BY <1>2, RightShiftType
<1>4. x4 \in Element
  BY <1>3, RightShiftType
<1>5. x5 \in Element
  BY <1>4, RightShiftType
<1>6. x6 \in Element
  BY <1>5, RightShiftType
<1>7. RightShift(x6) \in Element
  BY <1>6, RightShiftType
<1> HIDE DEF x1, x2, x3, x4, x5, x6
<1> QED
  BY <1>1, <1>2, <1>3, <1>4, <1>5, <1>6, <1>7 DEF Halved, x1, x2, x3, x4, x5, x6

LEMMA HalvedNext ==
  ASSUME NEW a \in Element, NEW n \in 0 .. 6
  PROVE  RightShift(Halved(a, n)) = Halved(a, n + 1)
BY DEF Halved

LEMMA PrimeType ==
  ASSUME NEW a \in Element
  PROVE  Prime(a) \in Element
<1>1. Halved(a, 1) \in Element /\ Halved(a, 2) \in Element /\ Halved(a, 7) \in Element
  BY HalvedType
<1> QED
  BY <1>1, XorType DEF Prime

\* A value or nothing.
Sel(b, a) == IF b THEN a ELSE {}

LEMMA SelType ==
  ASSUME NEW a \in Element, NEW b \in BOOLEAN
  PROVE  Sel(b, a) \in Element /\ Double(Sel(b, a)) = Sel(b, Double(a))
BY DoubleZero DEF Sel

LEMMA MultipleZero ==
  ASSUME NEW a \in Element
  PROVE  Multiple(0, a) = {} /\ Multiple(1, a) = a
<1>1. 0 \div 2 = 0 /\ 0 \div 4 = 0 /\ 0 \div 8 = 0 /\ 0 % 2 = 0
  OBVIOUS
<1>2. 1 \div 2 = 0 /\ 1 \div 4 = 0 /\ 1 \div 8 = 0 /\ 1 % 2 = 1
  OBVIOUS
<1>3. Term(0, a) = {} /\ Term(1, a) = a /\ \A b : Term(0, b) = {}
  BY <1>1, <1>2 DEF Term
<1>4. Xor({}, {}) = {} /\ Xor(a, {}) = a
  BY DEF Xor
<1> QED
  BY <1>1, <1>2, <1>3, <1>4 DEF Multiple

(* Four exponents of a value make a number whose binary digits they are.   *)
LEMMA NibbleDigits ==
  ASSUME NEW a \in Element, NEW p \in Nat
  PROVE  LET n == NibbleAt(a, p)
         IN  /\ n \in 0 .. 15
             /\ (n % 2 = 1) <=> (p \in a)
             /\ ((n \div 2) % 2 = 1) <=> (p + 1 \in a)
             /\ ((n \div 4) % 2 = 1) <=> (p + 2 \in a)
             /\ ((n \div 8) % 2 = 1) <=> (p + 3 \in a)
BY DEF NibbleAt, Bit

LEMMA NibbleMultiple ==
  ASSUME NEW a \in Element, NEW p \in Nat, NEW hp \in Element
  PROVE  Multiple(NibbleAt(a, p), hp) =
           Xor(Xor(Sel(p \in a, hp), Sel(p + 1 \in a, Double(hp))),
               Xor(Sel(p + 2 \in a, Double(Double(hp))),
                   Sel(p + 3 \in a, Double(Double(Double(hp))))))
BY NibbleDigits DEF Multiple, Term, Sel

LEMMA MultipleType ==
  ASSUME NEW i \in Nat, NEW a \in Element
  PROVE  Multiple(i, a) \in Element
<1> DEFINE t0 == Term(i, a)
           t1 == Term(i \div 2, Double(a))
           t2 == Term(i \div 4, Double(Double(a)))
           t3 == Term(i \div 8, Double(Double(Double(a))))
<1>1. t0 \in Element /\ t1 \in Element /\ t2 \in Element /\ t3 \in Element
  BY DoubleType, DoubleZero DEF Term
<1>2. Xor(t0, t1) \in Element /\ Xor(t2, t3) \in Element
  BY <1>1, XorType
<1> HIDE DEF t0, t1, t2, t3
<1>3. Xor(Xor(t0, t1), Xor(t2, t3)) \in Element
  BY <1>2, XorType
<1> QED
  BY <1>3 DEF Multiple, t0, t1, t2, t3

(* Entry 2k is entry k doubled, entry 2k + 1 one more: the way the tables  *)
(* of the 4-bit profiles are filled gives every multiple.                  *)
LEMMA MultipleStep ==
  ASSUME NEW a \in Element, NEW k \in 1 .. 7
  PROVE  /\ Multiple(2 * k, a) = Double(Multiple(k, a))
         /\ Multiple(2 * k + 1, a) = Xor(Double(Multiple(k, a)), a)
<1> DEFINE a1 == Double(a)
           a2 == Double(a1)
           a3 == Double(a2)
           t0 == Term(k, a)
           t1 == Term(k \div 2, a1)
           t2 == Term(k \div 4, a2)
           t3 == Term(k \div 8, a3)
           u1 == Term(k, a1)
           u2 == Term(k \div 2, a2)
           u3 == Term(k \div 4, a3)
<1>1. a1 \in Element /\ a2 \in Element /\ a3 \in Element
  BY DoubleType
<1>2. t0 \in Element /\ t1 \in Element /\ t2 \in Element
  BY <1>1, DoubleZero DEF Term
<1>3. Double(t0) = u1 /\ Double(t1) = u2 /\ Double(t2) = u3
  BY DoubleZero DEF Term
<1>4. t3 = {}
  <2>1. (k \div 8) % 2 = 0
    OBVIOUS
  <2> QED
    BY <2>1 DEF Term
<1>5. /\ Term(2 * k, a) = {} /\ Term(2 * k + 1, a) = a
      /\ Term((2 * k) \div 2, a1) = u1 /\ Term((2 * k + 1) \div 2, a1) = u1
      /\ Term((2 * k) \div 4, a2) = u2 /\ Term((2 * k + 1) \div 4, a2) = u2
      /\ Term((2 * k) \div 8, a3) = u3 /\ Term((2 * k + 1) \div 8, a3) = u3
  <2>1. (2 * k) % 2 = 0 /\ (2 * k + 1) % 2 = 1
    OBVIOUS
  <2>2. (2 * k) \div 2 = k /\ (2 * k + 1) \div 2 = k
    OBVIOUS
  <2>3. (2 * k) \div 4 = k \div 2 /\ (2 * k + 1) \div 4 = k \div 2
    OBVIOUS
  <2>4. (2 * k) \div 8 = k \div 4 /\ (2 * k + 1) \div 8 = k \div 4
    OBVIOUS
  <2>5. Term(2 * k, a) = {} /\ Term(2 * k + 1, a) = a
    BY <2>1 DEF Term
  <2> QED
    BY <2>2, <2>3, <2>4, <2>5
<1>6. u1 \in Element /\ u2 \in Element /\ u3 \in Element
  BY <1>2, <1>3, DoubleType
<1>7. Multiple(k, a) = Xor(Xor(t0, t1), Xor(t2, {}))
  BY <1>4 DEF Multiple
<1>8. Multiple(2 * k, a) = Xor(Xor({}, u1), Xor(u2, u3))
  BY <1>5 DEF Multiple
<1>9. Multiple(2 * k + 1, a) = Xor(Xor(a, u1), Xor(u2, u3))
  BY <1>5 DEF Multiple
<1> HIDE DEF a1, a2, a3, t0, t1, t2, t3, u1, u2, u3
<1>10. Double(Multiple(k, a)) = Xor(Xor(u1, u2), u3)
  <2>1. Xor(t2, {}) = t2 /\ Xor(t0, t1) \in Element
    BY <1>2, XorZero, XorType
  <2>2. Double(Xor(Xor(t0, t1), t2)) = Xor(Double(Xor(t0, t1)), Double(t2))
    BY <1>2, <2>1, DoubleLinear
  <2>3. Double(Xor(t0, t1)) = Xor(Double(t0), Double(t1))
    BY <1>2, DoubleLinear
  <2> QED
    BY <1>3, <1>7, <2>1, <2>2, <2>3
<1>11. Xor(Xor({}, u1), Xor(u2, u3)) = Xor(Xor(u1, u2), u3)
  BY DEF Xor
<1>12. Xor(Xor(a, u1), Xor(u2, u3)) = Xor(Xor(Xor(u1, u2), u3), a)
  BY DEF Xor
<1> QED
  BY <1>8, <1>9, <1>10, <1>11, <1>12

LEMMA BitStepSel ==
  ASSUME NEW a \in Element, NEW b \in BOOLEAN, NEW hp \in Element
  PROVE  /\ BitStep(a, b, hp) \in Element
         /\ BitStep(a, b, hp) = Xor(Double(a), Sel(b, hp))
BY DoubleType, XorType, XorZero DEF BitStep, Sel

(* Shifting by four and adding one table entry is four steps of the        *)
(* schoolbook multiplication.                                              *)
LEMMA NibbleIsFourBits ==
  ASSUME NEW a \in Element, NEW hp \in Element, NEW u \in Element, NEW p \in Nat
  PROVE  BitStep(BitStep(BitStep(BitStep(
           a, p + 3 \in u, hp), p + 2 \in u, hp), p + 1 \in u, hp), p \in u, hp)
         = Xor(Double4(a), Multiple(NibbleAt(u, p), hp))
<1> DEFINE b0 == p \in u
           b1 == p + 1 \in u
           b2 == p + 2 \in u
           b3 == p + 3 \in u
           h1 == Double(hp)
           h2 == Double(h1)
           h3 == Double(h2)
           a1 == Double(a)
           a2 == Double(a1)
           a3 == Double(a2)
           a4 == Double(a3)
           s1 == BitStep(a, b3, hp)
           s2 == BitStep(s1, b2, hp)
           s3 == BitStep(s2, b1, hp)
           s4 == BitStep(s3, b0, hp)
<1>2. h1 \in Element /\ h2 \in Element /\ h3 \in Element
  BY DoubleType
<1>3. a1 \in Element /\ a2 \in Element /\ a3 \in Element /\ a4 \in Element
  BY DoubleType
<1>1. b0 \in BOOLEAN /\ b1 \in BOOLEAN /\ b2 \in BOOLEAN /\ b3 \in BOOLEAN
  OBVIOUS
<1>4. Multiple(NibbleAt(u, p), hp) =
        Xor(Xor(Sel(b0, hp), Sel(b1, h1)), Xor(Sel(b2, h2), Sel(b3, h3)))
  BY NibbleMultiple
<1> HIDE DEF b0, b1, b2, b3
<1>5. s1 \in Element /\ s1 = Xor(a1, Sel(b3, hp))
  BY <1>1, BitStepSel
<1> HIDE DEF h1, h2, h3, a1, a2, a3, a4, s1, s2, s3, s4
<1>6. s2 \in Element /\ s2 = Xor(Xor(a2, Sel(b3, h1)), Sel(b2, hp))
  <2>1. s2 \in Element /\ s2 = Xor(Double(s1), Sel(b2, hp))
    BY <1>1, <1>5, BitStepSel DEF s2
  <2>2. Double(s1) = Xor(a2, Sel(b3, h1))
    BY <1>1, <1>3, <1>5, DoubleLinear, SelType DEF a2, h1
  <2> QED
    BY <2>1, <2>2
<1>7. s3 \in Element /\ s3 = Xor(Xor(Xor(a3, Sel(b3, h2)), Sel(b2, h1)), Sel(b1, hp))
  <2>1. s3 \in Element /\ s3 = Xor(Double(s2), Sel(b1, hp))
    BY <1>1, <1>6, BitStepSel DEF s3
  <2>2. Xor(a2, Sel(b3, h1)) \in Element
    BY <1>1, <1>2, <1>3, SelType, XorType
  <2>3. Double(s2) = Xor(Double(Xor(a2, Sel(b3, h1))), Sel(b2, h1))
    BY <1>1, <1>6, <2>2, DoubleLinear, SelType DEF h1
  <2>4. Double(Xor(a2, Sel(b3, h1))) = Xor(a3, Sel(b3, h2))
    BY <1>1, <1>2, <1>3, DoubleLinear, SelType DEF a3, h2
  <2> QED
    BY <2>1, <2>3, <2>4
<1>8. s4 = Xor(Xor(Xor(Xor(a4, Sel(b3, h3)), Sel(b2, h2)), Sel(b1, h1)), Sel(b0, hp))
  <2>1. s4 = Xor(Double(s3), Sel(b0, hp))
    BY <1>1, <1>7, BitStepSel DEF s4
  <2>2. Xor(a3, Sel(b3, h2)) \in Element
    BY <1>1, <1>2, <1>3, SelType, XorType
  <2>3. Xor(Xor(a3, Sel(b3, h2)), Sel(b2, h1)) \in Element
    BY <1>1, <1>2, <2>2, SelType, XorType
  <2>4. Double(s3) = Xor(Double(Xor(Xor(a3, Sel(b3, h2)), Sel(b2, h1))), Sel(b1, h1))
    BY <1>1, <1>7, <2>3, DoubleLinear, SelType DEF h1
  <2>5. Double(Xor(Xor(a3, Sel(b3, h2)), Sel(b2, h1)))
          = Xor(Double(Xor(a3, Sel(b3, h2))), Sel(b2, h2))
    BY <1>1, <1>2, <2>2, DoubleLinear, SelType DEF h2
  <2>6. Double(Xor(a3, Sel(b3, h2))) = Xor(a4, Sel(b3, h3))
    BY <1>1, <1>2, <1>3, DoubleLinear, SelType DEF a4, h3
  <2> QED
    BY <2>1, <2>4, <2>5, <2>6
<1>9. \A v, w, x, y, z :
        Xor(Xor(Xor(Xor(v, w), x), y), z) = Xor(v, Xor(Xor(z, y), Xor(x, w)))
  BY DEF Xor
<1> QED
  BY <1>8, <1>9, <1>4 DEF Double4, b0, b1, b2, b3, a1, a2, a3, a4, s1, s2, s3, s4

-----------------------------------------------------------------------------
(* Polynomials: parity, products, multiples of the modulus. *)

Odd(s) == Cardinality(s) % 2 = 1

LEMMA XorParity ==
  ASSUME NEW s, NEW t, IsFiniteSet(s), IsFiniteSet(t)
  PROVE  IsFiniteSet(Xor(s, t)) /\ (Odd(Xor(s, t)) <=> ~(Odd(s) <=> Odd(t)))
<1> DEFINE u == s \ t
           v == t \ s
<1>1. /\ IsFiniteSet(u) /\ Cardinality(u) = Cardinality(s) - Cardinality(s \cap t)
      /\ IsFiniteSet(v) /\ Cardinality(v) = Cardinality(t) - Cardinality(t \cap s)
  BY FS_Difference
<1>2. u \cap v = {} /\ Xor(s, t) = u \cup v /\ t \cap s = s \cap t
  BY DEF Xor
<1>3. /\ IsFiniteSet(u \cup v)
      /\ Cardinality(u \cup v) = Cardinality(u) + Cardinality(v) - Cardinality(u \cap v)
  BY <1>1, FS_Union
<1>4. IsFiniteSet(s \cap t) /\ Cardinality({}) = 0
  BY FS_Intersection, FS_EmptySet
<1>5. /\ Cardinality(s) \in Nat /\ Cardinality(t) \in Nat
      /\ Cardinality(s \cap t) \in Nat
  BY <1>4, FS_CardinalityType
<1>6. Cardinality(Xor(s, t)) = Cardinality(s) + Cardinality(t) - 2 * Cardinality(s \cap t)
  <2>1. Cardinality(t \cap s) = Cardinality(s \cap t) /\ Cardinality(u \cap v) = 0
    BY <1>2, <1>4
  <2>2. Cardinality(Xor(s, t)) = Cardinality(u \cup v)
    BY <1>2
  <2> HIDE DEF u, v
  <2> QED
    BY <1>1, <1>3, <1>5, <2>1, <2>2
<1>7. \A x, y, z \in Nat :
        ((x + y - 2 * z) % 2 = 1) <=> ~((x % 2 = 1) <=> (y % 2 = 1))
  OBVIOUS
<1> QED
  BY <1>2, <1>3, <1>5, <1>6, <1>7 DEF Odd

Up(a, s) == {i + s : i \in a}

LEMMA UpMember ==
  ASSUME NEW a, a \subseteq Int, NEW s \in Int, NEW j \in Int
  PROVE  j \in Up(a, s) <=> j - s \in a
BY DEF Up

LEMMA UpType ==
  ASSUME NEW a, NEW d \in Nat, a \subseteq 0 .. d, NEW s \in Nat
  PROVE  Up(a, s) \subseteq s .. d + s
BY DEF Up

LEMMA ProductMember ==
  ASSUME NEW a, NEW b, NEW e \in 0 .. 2 * N - 1
  PROVE  e \in Abs!Product(a, b) <=> Odd({i \in a : e - i \in b})
BY DEF Abs!Product, Odd, Abs!Cardinality, Cardinality, Abs!IsFiniteSet, IsFiniteSet

LEMMA ProductType ==
  ASSUME NEW a, NEW b
  PROVE  Abs!Product(a, b) \in SUBSET (0 .. 2 * N - 1)
BY DEF Abs!Product

LEMMA SamePolynomial ==
  ASSUME NEW a, NEW b, a \subseteq Int, b \subseteq Int,
         \A j \in Int : j \in a <=> j \in b
  PROVE  a = b
OBVIOUS

(* A product is linear in its first factor. *)
LEMMA ProductLinear ==
  ASSUME NEW a, NEW b, NEW c, IsFiniteSet(a), IsFiniteSet(b)
  PROVE  Abs!Product(Xor(a, b), c) = Xor(Abs!Product(a, c), Abs!Product(b, c))
<1>1. ASSUME NEW e \in 0 .. 2 * N - 1
      PROVE  e \in Abs!Product(Xor(a, b), c) <=>
               e \in Xor(Abs!Product(a, c), Abs!Product(b, c))
  <2> DEFINE s == {i \in a : e - i \in c}
             t == {i \in b : e - i \in c}
  <2>1. IsFiniteSet(s) /\ IsFiniteSet(t)
    BY FS_Subset
  <2>2. {i \in Xor(a, b) : e - i \in c} = Xor(s, t)
    BY DEF Xor
  <2>3. Odd(Xor(s, t)) <=> ~(Odd(s) <=> Odd(t))
    BY <2>1, XorParity
  <2> HIDE DEF s, t
  <2> QED
    BY <2>2, <2>3, ProductMember, XorMember DEF s, t
<1>2. /\ Abs!Product(Xor(a, b), c) \subseteq 0 .. 2 * N - 1
      /\ Xor(Abs!Product(a, c), Abs!Product(b, c)) \subseteq 0 .. 2 * N - 1
  BY ProductType DEF Xor
<1> QED
  BY <1>1, <1>2

LEMMA Singleton ==
  ASSUME NEW c
  PROVE  IsFiniteSet({c}) /\ Odd({c})
<1>1. IsFiniteSet({c}) /\ Cardinality({c}) = 1
  BY FS_Singleton, Zenon
<1>2. 1 % 2 = 1
  OBVIOUS
<1> QED
  BY <1>1, <1>2 DEF Odd

LEMMA ProductMonomial ==
  ASSUME NEW c, NEW q, NEW e \in 0 .. 2 * N - 1
  PROVE  e \in Abs!Product({c}, q) <=> e - c \in q
<1> DEFINE s == {i \in {c} : e - i \in q}
<1>1. CASE e - c \in q
  <2>1. s = {c}
    BY <1>1
  <2>2. Odd({c})
    BY Singleton
  <2> QED
    BY <1>1, <2>1, <2>2, ProductMember
<1>2. CASE e - c \notin q
  <2>1. s = {}
    BY <1>2
  <2>2. ~Odd({})
    <3>1. Cardinality({}) = 0 /\ 0 % 2 = 0
      BY FS_EmptySet
    <3> QED
      BY <3>1 DEF Odd
  <2> QED
    BY <1>2, <2>1, <2>2, ProductMember
<1> QED
  BY <1>1, <1>2

\* q times the modulus.
Mul(q) == Xor(q, Xor(Xor(Up(q, N - 7), Up(q, N - 2)), Xor(Up(q, N - 1), Up(q, N))))

LEMMA MulMember ==
  ASSUME NEW q, q \subseteq Int, NEW j \in Int
  PROVE  j \in Mul(q) <=>
           ~(j \in q <=> ~(~(j - (N - 7) \in q <=> j - (N - 2) \in q)
                           <=> ~(j - (N - 1) \in q <=> j - N \in q)))
<1>1. N \in Int /\ N - 7 \in Int /\ N - 2 \in Int /\ N - 1 \in Int
  BY NAssumption
<1>2. /\ j \in Up(q, N - 7) <=> j - (N - 7) \in q
      /\ j \in Up(q, N - 2) <=> j - (N - 2) \in q
      /\ j \in Up(q, N - 1) <=> j - (N - 1) \in q
      /\ j \in Up(q, N) <=> j - N \in q
  BY <1>1, UpMember
<1> QED
  BY <1>2, XorMember DEF Mul

LEMMA MulType ==
  ASSUME NEW d \in Nat, NEW q, q \subseteq 0 .. d
  PROVE  Mul(q) \subseteq 0 .. N + d
<1>1. N \in Nat /\ N >= 16
  BY NAssumption
<1>2. /\ Up(q, N - 7) \subseteq 0 .. N + d /\ Up(q, N - 2) \subseteq 0 .. N + d
      /\ Up(q, N - 1) \subseteq 0 .. N + d /\ Up(q, N) \subseteq 0 .. N + d
  BY <1>1 DEF Up
<1>3. q \subseteq 0 .. N + d
  BY <1>1
<1> QED
  BY <1>2, <1>3 DEF Mul, Xor

LEMMA ModulusProduct ==
  ASSUME NEW q, q \subseteq 0 .. N - 1
  PROVE  Abs!Product(Abs!Modulus, q) = Mul(q)
<1> DEFINE m1 == Xor({N - 7}, {N - 2})
           m2 == Xor({N - 1}, {N})
           m3 == Xor(m1, m2)
<1>0. N \in Nat /\ N >= 16
  BY NAssumption
<1>1. Abs!Modulus = Xor({0}, m3)
  BY <1>0 DEF Abs!Modulus, Xor
<1>2. /\ IsFiniteSet({0}) /\ IsFiniteSet({N - 7}) /\ IsFiniteSet({N - 2})
      /\ IsFiniteSet({N - 1}) /\ IsFiniteSet({N})
  BY Singleton
<1>3. IsFiniteSet(m1) /\ IsFiniteSet(m2)
  BY <1>2, XorParity
<1>4. IsFiniteSet(m3)
  BY <1>3, XorParity
<1>5. Abs!Product(m1, q) = Xor(Abs!Product({N - 7}, q), Abs!Product({N - 2}, q))
  BY <1>2, ProductLinear
<1>6. Abs!Product(m2, q) = Xor(Abs!Product({N - 1}, q), Abs!Product({N}, q))
  BY <1>2, ProductLinear
<1> HIDE DEF m1, m2
<1>7. Abs!Product(m3, q) = Xor(Abs!Product(m1, q), Abs!Product(m2, q))
  BY <1>3, ProductLinear
<1> HIDE DEF m3
<1>8. Abs!Product(Abs!Modulus, q) = Xor(Abs!Product({0}, q), Abs!Product(m3, q))
  BY <1>1, <1>2, <1>4, ProductLinear
<1>9. ASSUME NEW e \in 0 .. 2 * N - 1
      PROVE  e \in Abs!Product(Abs!Modulus, q) <=> e \in Mul(q)
  <2>1. /\ e \in Abs!Product({0}, q) <=> e \in q
        /\ e \in Abs!Product({N - 7}, q) <=> e - (N - 7) \in q
        /\ e \in Abs!Product({N - 2}, q) <=> e - (N - 2) \in q
        /\ e \in Abs!Product({N - 1}, q) <=> e - (N - 1) \in q
        /\ e \in Abs!Product({N}, q) <=> e - N \in q
    <3>1. e - 0 = e
      OBVIOUS
    <3> QED
      BY <3>1, ProductMonomial
  <2>2. e \in Mul(q) <=>
          ~(e \in q <=> ~(~(e - (N - 7) \in q <=> e - (N - 2) \in q)
                          <=> ~(e - (N - 1) \in q <=> e - N \in q)))
    <3>1. q \subseteq Int /\ e \in Int
      OBVIOUS
    <3> QED
      BY <3>1, MulMember
  <2> QED
    BY <1>5, <1>6, <1>7, <1>8, <2>1, <2>2, XorMember
<1>10. Mul(q) \subseteq 0 .. 2 * N - 1
  <2>1. N - 1 \in Nat /\ N + (N - 1) = 2 * N - 1
    BY <1>0
  <2> QED
    BY <2>1, MulType
<1> QED
  BY <1>9, <1>10, ProductType

-----------------------------------------------------------------------------
(* Division by a power of x. *)

Low(p, s) == p \cap (0 .. s - 1)

\* The shifts the two halves of a division make.
Shifts == 1 .. N - 7

LEMMA OverMember ==
  ASSUME NEW p, p \subseteq Int, NEW s \in Shifts, NEW j \in Int
  PROVE  j \in Abs!Over(p, s) <=> j + s \in Xor(p, Mul(Low(p, s)))
<1>0. N \in Nat /\ N >= 16 /\ s \in Nat /\ s <= N - 7
  BY NAssumption DEF Shifts
<1>1. Abs!Product(Abs!Modulus, Low(p, s)) = Mul(Low(p, s))
  <2>1. Low(p, s) \subseteq 0 .. N - 1
    BY <1>0 DEF Low
  <2> QED
    BY <2>1, ModulusProduct
<1>2. Abs!Over(p, s) = {i - s : i \in Xor(p, Mul(Low(p, s)))}
  BY <1>1 DEF Abs!Over, Abs!Plus, Xor, Low
<1>3. Xor(p, Mul(Low(p, s))) \subseteq Int
  <2>1. s - 1 \in Nat /\ Low(p, s) \subseteq 0 .. s - 1
    BY <1>0 DEF Low, Shifts
  <2>2. Mul(Low(p, s)) \subseteq Int
    BY <1>0, <2>1, MulType
  <2> QED
    BY <2>2 DEF Xor
<1> QED
  BY <1>0, <1>2, <1>3

LEMMA LowMember ==
  ASSUME NEW p, NEW s \in Int, NEW j \in Int
  PROVE  j \in Low(p, s) <=> (j \in p /\ 0 <= j /\ j < s)
BY DEF Low

LEMMA LowType ==
  ASSUME NEW p, NEW s \in Shifts
  PROVE  Low(p, s) \subseteq 0 .. s - 1 /\ Low(p, s) \subseteq Int
BY DEF Low

\* Written out: a coefficient of p, and those of its low part that the
\* modulus brings to the same place.
LEMMA OverCoefficient ==
  ASSUME NEW p, p \subseteq Int, NEW s \in Shifts, NEW j \in Int
  PROVE  LET q == Low(p, s)
             e == j + s
         IN  j \in Abs!Over(p, s) <=>
               ~(e \in p <=>
                   ~(e \in q <=> ~(~(e - (N - 7) \in q <=> e - (N - 2) \in q)
                                   <=> ~(e - (N - 1) \in q <=> e - N \in q))))
<1> DEFINE q == Low(p, s)
           e == j + s
<1>1. q \subseteq Int /\ e \in Int
  BY LowType DEF Shifts
<1>2. j \in Abs!Over(p, s) <=> e \in Xor(p, Mul(q))
  BY OverMember
<1> HIDE DEF q, e
<1>3. e \in Mul(q) <=>
        ~(e \in q <=> ~(~(e - (N - 7) \in q <=> e - (N - 2) \in q)
                        <=> ~(e - (N - 1) \in q <=> e - N \in q)))
  BY <1>1, MulMember
<1>4. e \in Xor(p, Mul(q)) <=> ~(e \in p <=> e \in Mul(q))
  BY XorMember
<1> QED
  BY <1>2, <1>3, <1>4 DEF q, e

LEMMA OverInt ==
  ASSUME NEW p, p \subseteq Int, NEW s \in Shifts
  PROVE  Abs!Over(p, s) \subseteq Int
<1>0. N \in Nat /\ N >= 16 /\ s \in Nat /\ s <= N - 7
  BY NAssumption DEF Shifts
<1>1. Abs!Product(Abs!Modulus, Low(p, s)) \subseteq Int
  BY <1>0, ProductType
<1>2. Xor(p, Abs!Product(Abs!Modulus, Low(p, s))) \subseteq Int
  BY <1>1 DEF Xor
<1>3. Abs!Over(p, s) = {i - s : i \in Xor(p, Abs!Product(Abs!Modulus, Low(p, s)))}
  BY DEF Abs!Over, Abs!Plus, Xor, Low
<1> QED
  BY <1>0, <1>2, <1>3

\* The degree goes down by s, but a multiple of the modulus reaches N - 1.
LEMMA OverType ==
  ASSUME NEW d \in Nat, NEW p, p \subseteq 0 .. d, NEW s \in Shifts
  PROVE  Abs!Over(p, s) \subseteq 0 .. (IF d - s >= N - 1 THEN d - s ELSE N - 1)
<1>0. N \in Nat /\ N >= 16 /\ s \in Nat /\ s <= N - 7 /\ s >= 1 /\ p \subseteq Int
  BY NAssumption DEF Shifts
<1> SUFFICES ASSUME NEW j \in Abs!Over(p, s)
             PROVE  j >= 0 /\ (j <= d - s \/ j <= N - 1) /\ j \in Int
  BY <1>0
<1>1. j \in Int
  BY <1>0, OverInt
<1> DEFINE q == Low(p, s)
           e == j + s
<1>2. ~(e \in p <=>
          ~(e \in q <=> ~(~(e - (N - 7) \in q <=> e - (N - 2) \in q)
                          <=> ~(e - (N - 1) \in q <=> e - N \in q))))
  BY <1>0, <1>1, OverCoefficient
<1>3. e \in Int
  BY <1>0, <1>1
<1>4. \A i \in Int : i \in q <=> (i \in p /\ 0 <= i /\ i < s)
  BY <1>0, LowMember
<1>5. \A i \in p : 0 <= i /\ i <= d
  OBVIOUS
<1> HIDE DEF q
<1>6. CASE j < 0
  <2>1. e < s /\ e - (N - 7) < 0 /\ e - (N - 2) < 0 /\ e - (N - 1) < 0 /\ e - N < 0
    BY <1>0, <1>1, <1>6
  <2>2. e \in p <=> e \in q
    BY <1>3, <1>4, <1>5, <2>1
  <2>3. e - (N - 7) \notin q /\ e - (N - 2) \notin q /\ e - (N - 1) \notin q /\ e - N \notin q
    BY <1>0, <1>3, <1>4, <2>1
  <2> QED
    BY <1>2, <2>2, <2>3
<1>7. CASE j > d - s /\ j > N - 1
  <2>1. e > d /\ e - (N - 7) >= s /\ e - (N - 2) >= s /\ e - (N - 1) >= s /\ e - N >= s
    BY <1>0, <1>1, <1>7
  <2>2. e \notin p /\ e \notin q
    BY <1>3, <1>4, <1>5, <2>1
  <2>3. e - (N - 7) \notin q /\ e - (N - 2) \notin q /\ e - (N - 1) \notin q /\ e - N \notin q
    BY <1>0, <1>3, <1>4, <2>1
  <2> QED
    BY <1>2, <2>2, <2>3
<1> QED
  BY <1>1, <1>6, <1>7, <1>0

LEMMA OverLinear ==
  ASSUME NEW a, NEW b, a \subseteq Int, b \subseteq Int, NEW s \in Shifts
  PROVE  Abs!Over(Xor(a, b), s) = Xor(Abs!Over(a, s), Abs!Over(b, s))
<1>0. N \in Nat /\ N >= 16 /\ s \in Int
  BY NAssumption DEF Shifts
<1>1. Xor(a, b) \subseteq Int
  BY DEF Xor
<1>2. ASSUME NEW j \in Int
      PROVE  j \in Abs!Over(Xor(a, b), s) <=> j \in Xor(Abs!Over(a, s), Abs!Over(b, s))
  <2> DEFINE e == j + s
             Q(p, i) == i \in Low(p, s)
  <2>1. \A i \in Int : Q(Xor(a, b), i) <=> ~(Q(a, i) <=> Q(b, i))
    BY <1>0, LowMember, XorMember
  <2>2. e \in Xor(a, b) <=> ~(e \in a <=> e \in b)
    BY XorMember
  <2>3. /\ e \in Int /\ e - (N - 7) \in Int /\ e - (N - 2) \in Int
        /\ e - (N - 1) \in Int /\ e - N \in Int
    BY <1>0
  <2>4. j \in Abs!Over(Xor(a, b), s) <=>
          ~(e \in Xor(a, b) <=>
              ~(Q(Xor(a, b), e) <=>
                 ~(~(Q(Xor(a, b), e - (N - 7)) <=> Q(Xor(a, b), e - (N - 2)))
                   <=> ~(Q(Xor(a, b), e - (N - 1)) <=> Q(Xor(a, b), e - N)))))
    BY <1>1, OverCoefficient
  <2>5. j \in Abs!Over(a, s) <=>
          ~(e \in a <=> ~(Q(a, e) <=> ~(~(Q(a, e - (N - 7)) <=> Q(a, e - (N - 2)))
                                        <=> ~(Q(a, e - (N - 1)) <=> Q(a, e - N)))))
    BY OverCoefficient
  <2>6. j \in Abs!Over(b, s) <=>
          ~(e \in b <=> ~(Q(b, e) <=> ~(~(Q(b, e - (N - 7)) <=> Q(b, e - (N - 2)))
                                        <=> ~(Q(b, e - (N - 1)) <=> Q(b, e - N)))))
    BY OverCoefficient
  <2> HIDE DEF e, Q
  <2> QED
    BY <2>1, <2>2, <2>3, <2>4, <2>5, <2>6, XorMember
<1>3. Abs!Over(Xor(a, b), s) \subseteq Int /\ Xor(Abs!Over(a, s), Abs!Over(b, s)) \subseteq Int
  BY <1>1, OverInt DEF Xor
<1> QED
  BY <1>2, <1>3, SamePolynomial

LEMMA ModulusMember ==
  ASSUME NEW j \in Int
  PROVE  j \in Abs!Modulus <=>
           ~(j = 0 <=> ~(~(j = N - 7 <=> j = N - 2) <=> ~(j = N - 1 <=> j = N)))
BY NAssumption DEF Abs!Modulus

LEMMA ModulusInt == Abs!Modulus \subseteq 0 .. N
BY NAssumption DEF Abs!Modulus

LEMMA UpOne ==
  ASSUME NEW a, a \subseteq Int, NEW j \in Int
  PROVE  j \in Up(a, 1) <=> j - 1 \in a
BY DEF Up

(* Dividing x * p: the remainder's top bit brings in the modulus. *)
LEMMA OverShift ==
  ASSUME NEW p, p \subseteq Nat, NEW s \in Shifts
  PROVE  Abs!Over(Up(p, 1), s) =
           Xor(Up(Abs!Over(p, s), 1), Sel(s - 1 \in p, Abs!Modulus))
<1>0. N \in Nat /\ N >= 16 /\ s \in Nat /\ s >= 1 /\ p \subseteq Int
  BY NAssumption DEF Shifts
<1>1. Up(p, 1) \subseteq Int /\ Abs!Over(p, s) \subseteq Int /\ Abs!Over(Up(p, 1), s) \subseteq Int
  <2>1. Up(p, 1) \subseteq Int
    BY <1>0 DEF Up
  <2> QED
    BY <1>0, <2>1, OverInt
<1> DEFINE t == s - 1 \in p
           lhs == Abs!Over(Up(p, 1), s)
           rhs == Xor(Up(Abs!Over(p, s), 1), Sel(t, Abs!Modulus))
<1>2. lhs \subseteq Int /\ rhs \subseteq Int
  <2>1. Up(Abs!Over(p, s), 1) \subseteq Int
    BY <1>1 DEF Up
  <2>2. Sel(t, Abs!Modulus) \subseteq Int
    BY <1>0, ModulusInt DEF Sel
  <2> QED
    BY <1>1, <2>1, <2>2 DEF Xor
<1>3. ASSUME NEW j \in Int
      PROVE  j \in lhs <=> j \in rhs
  <2> DEFINE e == j + s
             q(i) == i \in Low(p, s)
             r(i) == i \in Low(Up(p, 1), s)
             g == (j - 1) + s
  <2>1. \A i \in Int : r(i) <=> ~(q(i - 1) <=> (t /\ i = s))
    <3> SUFFICES ASSUME NEW i \in Int
                 PROVE  r(i) <=> ~(q(i - 1) <=> (t /\ i = s))
      OBVIOUS
    <3>1. r(i) <=> (i - 1 \in p /\ 0 <= i /\ i < s)
      <4>1. r(i) <=> (i \in Up(p, 1) /\ 0 <= i /\ i < s)
        BY <1>0, LowMember
      <4>2. i \in Up(p, 1) <=> i - 1 \in p
        BY <1>0, UpOne
      <4> QED
        BY <4>1, <4>2
    <3>2. q(i - 1) <=> (i - 1 \in p /\ 0 <= i - 1 /\ i - 1 < s)
      BY <1>0, LowMember
    <3>3. i - 1 \in p => 0 <= i - 1
      OBVIOUS
    <3> HIDE DEF r, q
    <3>4. CASE i = s
      BY <1>0, <3>1, <3>2, <3>3, <3>4
    <3>5. CASE i # s
      BY <1>0, <3>1, <3>2, <3>3, <3>5
    <3> QED
      BY <3>4, <3>5
  <2>2. e \in Up(p, 1) <=> g \in p
    <3>1. e \in Int /\ e - 1 = g
      BY <1>0
    <3> HIDE DEF e, g
    <3> QED
      BY <1>0, <3>1, UpOne
  <2>3. j \in lhs <=>
          ~(e \in Up(p, 1) <=>
              ~(r(e) <=> ~(~(r(e - (N - 7)) <=> r(e - (N - 2)))
                           <=> ~(r(e - (N - 1)) <=> r(e - N)))))
    BY <1>0, <1>1, OverCoefficient
  <2>4. j - 1 \in Abs!Over(p, s) <=>
          ~(g \in p <=>
              ~(q(g) <=> ~(~(q(g - (N - 7)) <=> q(g - (N - 2)))
                           <=> ~(q(g - (N - 1)) <=> q(g - N)))))
    <3>1. j - 1 \in Int
      OBVIOUS
    <3> QED
      BY <1>0, <3>1, OverCoefficient
  <2>5. j \in rhs <=> ~(j - 1 \in Abs!Over(p, s) <=> (t /\ j \in Abs!Modulus))
    <3>1. j \in Up(Abs!Over(p, s), 1) <=> j - 1 \in Abs!Over(p, s)
      BY <1>1, UpMember
    <3>2. j \in Sel(t, Abs!Modulus) <=> (t /\ j \in Abs!Modulus)
      BY DEF Sel
    <3> QED
      BY <3>1, <3>2, XorMember
  <2>6. /\ r(e) <=> ~(q(g) <=> (t /\ j = 0))
        /\ r(e - (N - 7)) <=> ~(q(g - (N - 7)) <=> (t /\ j = N - 7))
        /\ r(e - (N - 2)) <=> ~(q(g - (N - 2)) <=> (t /\ j = N - 2))
        /\ r(e - (N - 1)) <=> ~(q(g - (N - 1)) <=> (t /\ j = N - 1))
        /\ r(e - N) <=> ~(q(g - N) <=> (t /\ j = N))
    <3> HIDE DEF r, q, t
    <3>1. /\ e \in Int /\ e - (N - 7) \in Int /\ e - (N - 2) \in Int
          /\ e - (N - 1) \in Int /\ e - N \in Int
      BY <1>0
    <3>2. /\ e - 1 = g /\ (e - (N - 7)) - 1 = g - (N - 7) /\ (e - (N - 2)) - 1 = g - (N - 2)
          /\ (e - (N - 1)) - 1 = g - (N - 1) /\ (e - N) - 1 = g - N
      BY <1>0
    <3>3. /\ e = s <=> j = 0
          /\ e - (N - 7) = s <=> j = N - 7
          /\ e - (N - 2) = s <=> j = N - 2
          /\ e - (N - 1) = s <=> j = N - 1
          /\ e - N = s <=> j = N
      BY <1>0
    <3> HIDE DEF e, g
    <3> QED
      BY <2>1, <3>1, <3>2, <3>3
  <2>7. j \in Abs!Modulus <=>
          ~(j = 0 <=> ~(~(j = N - 7 <=> j = N - 2) <=> ~(j = N - 1 <=> j = N)))
    BY ModulusMember
  <2> HIDE DEF e, g, r, q, t, lhs, rhs
  <2> QED
    BY <2>2, <2>3, <2>4, <2>5, <2>6, <2>7
<1> HIDE DEF lhs, rhs
<1>4. lhs = rhs
  BY <1>2, <1>3, SamePolynomial
<1> QED
  BY <1>4 DEF lhs, rhs

(* x^s divides x^s * a. *)
LEMMA OverExact ==
  ASSUME NEW a, a \subseteq Nat, NEW s \in Shifts
  PROVE  Abs!Over(Up(a, s), s) = a
<1>0. N \in Nat /\ N >= 16 /\ s \in Nat /\ s >= 1 /\ a \subseteq Int
  BY NAssumption DEF Shifts
<1>1. Up(a, s) \subseteq Int /\ Abs!Over(Up(a, s), s) \subseteq Int
  <2>1. Up(a, s) \subseteq Int
    BY <1>0 DEF Up
  <2> QED
    BY <2>1, OverInt
<1>2. Low(Up(a, s), s) = {}
  <2>1. \A i \in Up(a, s) : i >= s /\ i \in Int
    BY <1>0 DEF Up
  <2> QED
    BY <1>0, <2>1 DEF Low
<1>3. ASSUME NEW j \in Int
      PROVE  j \in Abs!Over(Up(a, s), s) <=> j \in a
  <2>1. j \in Abs!Over(Up(a, s), s) <=> j + s \in Up(a, s)
    BY <1>1, <1>2, OverCoefficient
  <2>2. j + s \in Up(a, s) <=> (j + s) - s \in a
    <3>1. j + s \in Int /\ s \in Int
      BY <1>0
    <3> QED
      BY <1>0, <3>1, UpMember
  <2>3. (j + s) - s = j
    BY <1>0
  <2> QED
    BY <2>1, <2>2, <2>3
<1> QED
  BY <1>0, <1>1, <1>3, SamePolynomial

Down(a, s) == {i - s : i \in {i \in a : i >= s}}

LEMMA DownMember ==
  ASSUME NEW a, a \subseteq Int, NEW s \in Int, NEW j \in Int
  PROVE  j \in Down(a, s) <=> (j >= 0 /\ j + s \in a)
BY DEF Down

(* Multiples of the modulus stay multiples of it. *)
LEMMA OverMul ==
  ASSUME NEW d \in Nat, NEW a, a \subseteq 0 .. d, NEW s \in Shifts
  PROVE  Abs!Over(Mul(a), s) = Mul(Down(a, s))
<1>0. N \in Nat /\ N >= 16 /\ s \in Nat /\ s >= 1 /\ s <= N - 7 /\ a \subseteq Int
  BY NAssumption DEF Shifts
<1>1. Down(a, s) \subseteq Int /\ Down(a, s) \subseteq 0 .. d
  BY <1>0 DEF Down
<1>2. Mul(a) \subseteq Int /\ Mul(Down(a, s)) \subseteq Int
  <2>1. Mul(a) \subseteq 0 .. N + d /\ Mul(Down(a, s)) \subseteq 0 .. N + d
    BY <1>1, MulType
  <2> QED
    BY <1>0, <2>1
<1>3. ASSUME NEW j \in Int
      PROVE  j \in Abs!Over(Mul(a), s) <=> j \in Mul(Down(a, s))
  <2> DEFINE e == j + s
             f(i) == i \in a
             q(i) == i \in Low(Mul(a), s)
             r(i) == i \in Down(a, s)
  <2>0. /\ e \in Int /\ e - (N - 7) \in Int /\ e - (N - 2) \in Int
        /\ e - (N - 1) \in Int /\ e - N \in Int
        /\ j - (N - 7) \in Int /\ j - (N - 2) \in Int
        /\ j - (N - 1) \in Int /\ j - N \in Int
    BY <1>0
  <2>1. \A i \in Int : i \in Mul(a) <=>
          ~(f(i) <=> ~(~(f(i - (N - 7)) <=> f(i - (N - 2)))
                       <=> ~(f(i - (N - 1)) <=> f(i - N))))
    BY <1>0, MulMember
  <2>2. \A i \in Int : f(i) => i >= 0
    OBVIOUS
  <2>3. \A i \in Int : q(i) <=> (f(i) /\ i < s)
    <3> SUFFICES ASSUME NEW i \in Int
                 PROVE  q(i) <=> (f(i) /\ i < s)
      OBVIOUS
    <3>1. q(i) <=> (i \in Mul(a) /\ 0 <= i /\ i < s)
      BY <1>0, LowMember
    <3>2. i < s => ~f(i - (N - 7)) /\ ~f(i - (N - 2)) /\ ~f(i - (N - 1)) /\ ~f(i - N)
      <4> HIDE DEF f
      <4>1. /\ i - (N - 7) \in Int /\ i - (N - 2) \in Int /\ i - (N - 1) \in Int /\ i - N \in Int
        BY <1>0
      <4>2. i < s => i - (N - 7) < 0 /\ i - (N - 2) < 0 /\ i - (N - 1) < 0 /\ i - N < 0
        BY <1>0
      <4> QED
        BY <2>2, <4>1, <4>2
    <3> HIDE DEF f, q
    <3>3. i < s => (i \in Mul(a) <=> f(i))
      BY <2>1, <3>2
    <3> QED
      BY <2>2, <3>1, <3>3
  <2>4. \A i \in Int : r(i) <=> (f(i + s) /\ i >= 0)
    <3> SUFFICES ASSUME NEW i \in Int
                 PROVE  r(i) <=> (f(i + s) /\ i >= 0)
      OBVIOUS
    <3>1. s \in Int
      BY <1>0
    <3> QED
      BY <1>0, <3>1, DownMember
  <2>5. \A i \in Int : r(i) <=> ~(f(i + s) <=> q(i + s))
    <3> SUFFICES ASSUME NEW i \in Int
                 PROVE  r(i) <=> ~(f(i + s) <=> q(i + s))
      OBVIOUS
    <3> HIDE DEF f, q, r
    <3>1. i + s \in Int /\ (i + s < s <=> ~(i >= 0))
      BY <1>0
    <3> QED
      BY <2>3, <2>4, <3>1
  <2>6. j \in Abs!Over(Mul(a), s) <=>
          ~(e \in Mul(a) <=>
             ~(q(e) <=> ~(~(q(e - (N - 7)) <=> q(e - (N - 2)))
                          <=> ~(q(e - (N - 1)) <=> q(e - N)))))
    BY <1>2, OverCoefficient
  <2>7. j \in Mul(Down(a, s)) <=>
          ~(r(j) <=> ~(~(r(j - (N - 7)) <=> r(j - (N - 2)))
                       <=> ~(r(j - (N - 1)) <=> r(j - N))))
    BY <1>1, MulMember
  <2>8. /\ j + s = e /\ (j - (N - 7)) + s = e - (N - 7) /\ (j - (N - 2)) + s = e - (N - 2)
        /\ (j - (N - 1)) + s = e - (N - 1) /\ (j - N) + s = e - N
    BY <1>0
  <2> HIDE DEF e, f, q, r
  <2>9. /\ r(j) <=> ~(f(e) <=> q(e))
        /\ r(j - (N - 7)) <=> ~(f(e - (N - 7)) <=> q(e - (N - 7)))
        /\ r(j - (N - 2)) <=> ~(f(e - (N - 2)) <=> q(e - (N - 2)))
        /\ r(j - (N - 1)) <=> ~(f(e - (N - 1)) <=> q(e - (N - 1)))
        /\ r(j - N) <=> ~(f(e - N) <=> q(e - N))
    BY <2>0, <2>5, <2>8
  <2>10. e \in Mul(a) <=>
           ~(f(e) <=> ~(~(f(e - (N - 7)) <=> f(e - (N - 2)))
                        <=> ~(f(e - (N - 1)) <=> f(e - N))))
    BY <2>0, <2>1
  <2> QED
    BY <2>6, <2>7, <2>9, <2>10
<1>4. Abs!Over(Mul(a), s) \subseteq Int
  BY <1>2, OverInt
<1> QED
  BY <1>2, <1>3, <1>4, SamePolynomial

-----------------------------------------------------------------------------
(* Division by x^N in two halves, as the specification has it. *)

Half == N \div 2

LEMMA Halves ==
  /\ Half \in Shifts /\ N - Half \in Shifts
  /\ \A p : Abs!OverN(p) = Abs!Over(Abs!Over(p, Half), N - Half)
<1>1. N \in Nat /\ N >= 16
  BY NAssumption
<1>2. Half \in Shifts /\ N - Half \in Shifts
  BY <1>1 DEF Half, Shifts
<1> QED
  BY <1>2 DEF Abs!OverN, Half

Poly == SUBSET (0 .. 2 * N - 1)

LEMMA OverNType ==
  ASSUME NEW p \in Poly
  PROVE  /\ Abs!OverN(p) \in Element
         /\ Abs!Over(p, Half) \subseteq 0 .. 2 * N - 1 - Half
<1>0. N \in Nat /\ N >= 16 /\ Half \in Int /\ Half >= 1 /\ Half <= N - 7
  BY NAssumption, Halves DEF Shifts
<1>1. Abs!Over(p, Half) \subseteq 0 .. 2 * N - 1 - Half
  <2>1. 2 * N - 1 \in Nat /\ p \subseteq 0 .. 2 * N - 1 /\ (2 * N - 1) - Half >= N - 1
    BY <1>0 DEF Poly
  <2>2. Abs!Over(p, Half) \subseteq 0 .. (IF (2 * N - 1) - Half >= N - 1
                                          THEN (2 * N - 1) - Half ELSE N - 1)
    BY <2>1, Halves, OverType
  <2> QED
    BY <2>1, <2>2
<1>2. Abs!OverN(p) \subseteq 0 .. N - 1
  <2> DEFINE d == 2 * N - 1 - Half
             t == N - Half
  <2>1. d \in Nat /\ d - t = N - 1 /\ t \in Shifts
    BY <1>0, Halves
  <2> HIDE DEF d, t
  <2>2. Abs!Over(Abs!Over(p, Half), t) \subseteq 0 .. (IF d - t >= N - 1 THEN d - t ELSE N - 1)
    BY <1>1, <2>1, OverType DEF d
  <2>3. Abs!Over(Abs!Over(p, Half), t) \subseteq 0 .. N - 1
    BY <2>1, <2>2
  <2> QED
    BY <2>3, Halves DEF t
<1> QED
  BY <1>1, <1>2 DEF Element

LEMMA PolyInt ==
  ASSUME NEW p \in Poly
  PROVE  p \subseteq Nat /\ p \subseteq Int
BY DEF Poly

LEMMA ElementInt ==
  ASSUME NEW a \in Element
  PROVE  a \subseteq 0 .. N - 1 /\ a \subseteq Nat /\ a \subseteq Int /\ a \in Poly
BY NAssumption DEF Poly, Element

LEMMA OverNLinear ==
  ASSUME NEW a \in Poly, NEW b \in Poly
  PROVE  Abs!OverN(Xor(a, b)) = Xor(Abs!OverN(a), Abs!OverN(b))
<1>1. a \subseteq Int /\ b \subseteq Int
  BY PolyInt
<1>2. Abs!Over(a, Half) \subseteq Int /\ Abs!Over(b, Half) \subseteq Int
  BY <1>1, OverInt, Halves
<1>3. Abs!Over(Xor(a, b), Half) = Xor(Abs!Over(a, Half), Abs!Over(b, Half))
  <2>1. Half \in Shifts
    BY Halves
  <2> QED
    BY <1>1, <2>1, OverLinear
<1>4. Abs!Over(Xor(Abs!Over(a, Half), Abs!Over(b, Half)), N - Half)
        = Xor(Abs!Over(Abs!Over(a, Half), N - Half), Abs!Over(Abs!Over(b, Half), N - Half))
  BY <1>2, OverLinear, Halves
<1> QED
  BY <1>3, <1>4, Halves

LEMMA PolyXor ==
  ASSUME NEW a \in Poly, NEW b \in Poly
  PROVE  Xor(a, b) \in Poly
BY DEF Poly, Xor

LEMMA ZeroType == {} \in Poly /\ {} \in Element
BY DEF Poly, Element

LEMMA OverNZero == Abs!OverN({}) = {}
<1>1. Xor({}, {}) = {} /\ \A x : Xor(x, x) = {}
  BY DEF Xor
<1> QED
  BY <1>1, OverNLinear, ZeroType

LEMMA OverModulus ==
  ASSUME NEW s \in Shifts
  PROVE  Abs!Over(Abs!Modulus, s) = {}
<1>0. N \in Nat /\ N >= 16 /\ s \in Nat /\ s >= 1 /\ s <= N - 7
  BY NAssumption DEF Shifts
<1> DEFINE one == {0}
<1>1. one \subseteq 0 .. 0 /\ 0 \in Nat
  OBVIOUS
<1>2. Mul(one) = Abs!Modulus
  <2>1. one \subseteq Int /\ Mul(one) \subseteq Int /\ Abs!Modulus \subseteq Int
    <3>1. Mul(one) \subseteq 0 .. N + 0
      BY <1>1, MulType
    <3> QED
      BY <3>1, ModulusInt, <1>0
  <2>2. ASSUME NEW j \in Int
        PROVE  j \in Mul(one) <=> j \in Abs!Modulus
    <3>1. j \in Mul(one) <=>
            ~(j \in one <=> ~(~(j - (N - 7) \in one <=> j - (N - 2) \in one)
                             <=> ~(j - (N - 1) \in one <=> j - N \in one)))
      BY <2>1, MulMember
    <3>2. /\ j \in one <=> j = 0 
          /\ j - (N - 7) \in one <=> j = N - 7
          /\ j - (N - 2) \in one <=> j = N - 2
          /\ j - (N - 1) \in one <=> j = N - 1
          /\ j - N \in one <=> j = N
      BY <1>0
    <3> HIDE DEF one
    <3> QED
      BY <3>1, <3>2, ModulusMember
  <2> HIDE DEF one
  <2> QED
    BY <2>1, <2>2, SamePolynomial
<1>3. Down(one, s) = {}
  BY <1>0 DEF Down
<1>4. Mul({}) = {}
  BY DEF Mul, Up, Xor
<1>5. Abs!Over(Mul(one), s) = Mul(Down(one, s))
  BY <1>1, OverMul
<1> QED
  BY <1>2, <1>3, <1>4, <1>5

\* What doubling an element makes of the top bit.
LEMMA DoubleIsReduced ==
  ASSUME NEW a \in Element, NEW r \in Element, NEW t \in BOOLEAN,
         r = Xor(Up(a, 1), Sel(t, Abs!Modulus))
  PROVE  r = Double(a) /\ (t <=> N - 1 \in a)
<1>0. N \in Nat /\ N >= 16
  BY NAssumption
<1>1. \A j \in Int : j \in r <=> ~(j - 1 \in a <=> (t /\ j \in Abs!Modulus))
  <2> SUFFICES ASSUME NEW j \in Int
               PROVE  j \in r <=> ~(j - 1 \in a <=> (t /\ j \in Abs!Modulus))
    OBVIOUS
  <2>1. j \in Up(a, 1) <=> j - 1 \in a
    BY ElementInt, UpOne
  <2>2. j \in Sel(t, Abs!Modulus) <=> (t /\ j \in Abs!Modulus)
    BY DEF Sel
  <2> QED
    BY <2>1, <2>2, XorMember
<1>2. t <=> N - 1 \in a
  <2>1. N \notin r /\ N \in Int /\ N \in Abs!Modulus
    BY <1>0 DEF Element, Abs!Modulus
  <2> QED
    BY <1>1, <2>1
<1>3. ASSUME NEW j \in 0 .. N - 1
      PROVE  j \in r <=> j \in Double(a)
  <2>1. j \in Abs!Modulus <=> j \in LeftReduction
    BY <1>0 DEF Abs!Modulus, LeftReduction
  <2>2. j \in r <=> ~(j - 1 \in a <=> (t /\ j \in Abs!Modulus))
    BY <1>1
  <2> QED
    BY <1>2, <2>1, <2>2, DoubleMember
<1> QED
  BY <1>2, <1>3, DoubleType, SameExponents

LEMMA UpOneType ==
  ASSUME NEW p \in SUBSET (0 .. 2 * N - 2)
  PROVE  Up(p, 1) \in Poly /\ p \in Poly
BY NAssumption DEF Up, Poly

(* The division by x^N commutes with a multiplication by x. *)
LEMMA OverNShift ==
  ASSUME NEW p \in SUBSET (0 .. 2 * N - 2)
  PROVE  Abs!OverN(Up(p, 1)) = Double(Abs!OverN(p))
<1> DEFINE r == Abs!Over(p, Half)
           o == Abs!OverN(p)
           M == Abs!Modulus
           t1 == Half - 1 \in p
           t2 == (N - Half) - 1 \in r
           n == N - Half
<1>0. N \in Nat /\ N >= 16 /\ Half \in Int
  BY NAssumption, Halves DEF Shifts
<1>1. p \in Poly /\ Up(p, 1) \in Poly /\ p \subseteq Nat
  BY UpOneType, PolyInt
<1>2. r \subseteq Nat /\ r \subseteq Int
  <2>1. r \subseteq 0 .. 2 * N - 1 - Half
    BY <1>1, OverNType
  <2> QED
    BY <1>0, <2>1
<1>3. o = Abs!Over(r, n) /\ o \in Element
  BY <1>1, Halves, OverNType
<1>4. Abs!Over(Up(p, 1), Half) = Xor(Up(r, 1), Sel(t1, M))
  BY <1>1, Halves, OverShift
<1>5. Abs!Over(Up(r, 1), n) = Xor(Up(o, 1), Sel(t2, M))
  BY <1>2, <1>3, Halves, OverShift
<1>6. Abs!Over(Sel(t1, M), n) = {}
  <2>1. Abs!Over({}, n) = {}
    <3>1. Xor({}, {}) = {} /\ \A x : Xor(x, x) = {}
      BY DEF Xor
    <3> QED
      BY <3>1, OverLinear, Halves
  <2> QED
    BY <2>1, Halves, OverModulus DEF Sel
<1>7. Abs!Over(Xor(Up(r, 1), Sel(t1, M)), n)
        = Xor(Abs!Over(Up(r, 1), n), Abs!Over(Sel(t1, M), n))
  <2>1. Up(r, 1) \subseteq Int
    BY <1>2 DEF Up
  <2>2. Sel(t1, M) \subseteq Int
    BY <1>0, ModulusInt DEF Sel
  <2> QED
    BY <2>1, <2>2, Halves, OverLinear
<1>8. Abs!OverN(Up(p, 1)) = Xor(Up(o, 1), Sel(t2, M))
  <2>1. Abs!OverN(Up(p, 1)) = Abs!Over(Abs!Over(Up(p, 1), Half), n)
    BY Halves
  <2>2. \A x : Xor(x, {}) = x
    BY DEF Xor
  <2> QED
    BY <1>4, <1>5, <1>6, <1>7, <2>1, <2>2
<1>9. Abs!OverN(Up(p, 1)) \in Element
  BY <1>1, OverNType
<1>10. t2 \in BOOLEAN
  OBVIOUS
<1> HIDE DEF o, t2, M
<1> QED
  BY <1>3, <1>8, <1>9, <1>10, DoubleIsReduced DEF o, M

LEMMA UpUp ==
  ASSUME NEW a, a \subseteq Int, NEW s \in Int, NEW t \in Int
  PROVE  Up(Up(a, s), t) = Up(a, s + t)
<1>1. Up(a, s) \subseteq Int /\ s + t \in Int
  <2>1. Up(a, s) \subseteq Int
    BY DEF Up
  <2>2. s + t \in Int
    OBVIOUS
  <2> QED
    BY <2>1, <2>2
<1>2. Up(Up(a, s), t) \subseteq Int /\ Up(a, s + t) \subseteq Int
  BY <1>1 DEF Up
<1>3. ASSUME NEW j \in Int
      PROVE  j \in Up(Up(a, s), t) <=> j \in Up(a, s + t)
  <2>1. j \in Up(Up(a, s), t) <=> j - t \in Up(a, s)
    BY <1>1, UpMember
  <2>2. j - t \in Up(a, s) <=> (j - t) - s \in a
    <3>1. j - t \in Int
      OBVIOUS
    <3> QED
      BY <3>1, UpMember
  <2>3. j \in Up(a, s + t) <=> j - (s + t) \in a
    BY <1>1, UpMember
  <2>4. (j - t) - s = j - (s + t)
    OBVIOUS
  <2> QED
    BY <2>1, <2>2, <2>3, <2>4
<1> QED
  BY <1>2, <1>3, SamePolynomial

LEMMA OverNExact ==
  ASSUME NEW a \in Element
  PROVE  Abs!OverN(Up(a, N)) = a
<1> DEFINE n == N - Half
<1>0. N \in Nat /\ Half \in Int /\ n \in Nat /\ n + Half = N
  BY NAssumption, Halves DEF Shifts
<1>1. a \subseteq Int /\ a \subseteq Nat
  BY ElementInt
<1>2. Up(a, N) = Up(Up(a, n), Half)
  <2>1. Up(Up(a, n), Half) = Up(a, n + Half)
    <3>1. n \in Int
      BY <1>0
    <3> HIDE DEF n
    <3> QED
      BY <1>0, <1>1, <3>1, UpUp
  <2> QED
    BY <1>0, <2>1
<1>3. Up(a, n) \subseteq Nat
  BY <1>0, <1>1 DEF Up
<1>4. Abs!Over(Up(a, N), Half) = Up(a, n)
  BY <1>2, <1>3, Halves, OverExact
<1>5. Abs!Over(Up(a, n), n) = a
  BY <1>1, Halves, OverExact
<1> QED
  BY <1>4, <1>5, Halves

LEMMA UpPoly ==
  ASSUME NEW a \in Element, NEW s \in 0 .. N
  PROVE  Up(a, s) \in Poly /\ (s < N => Up(a, s) \in SUBSET (0 .. 2 * N - 2))
BY NAssumption DEF Up, Poly, Element

(* A right shift divides by x. *)
LEMMA OverNHalve ==
  ASSUME NEW a \in Element, NEW s \in 1 .. N
  PROVE  RightShift(Abs!OverN(Up(a, s))) = Abs!OverN(Up(a, s - 1))
<1>0. N \in Nat /\ s - 1 \in 0 .. N /\ s - 1 < N /\ s - 1 \in Int
  BY NAssumption
<1>1. Up(a, s - 1) \in SUBSET (0 .. 2 * N - 2) /\ Up(a, s - 1) \in Poly
  BY <1>0, UpPoly
<1>2. Up(a, s) = Up(Up(a, s - 1), 1)
  <2>1. (s - 1) + 1 = s /\ 1 \in Int
    OBVIOUS
  <2>2. Up(Up(a, s - 1), 1) = Up(a, (s - 1) + 1)
    BY <1>0, <2>1, ElementInt, UpUp
  <2> QED
    BY <2>1, <2>2
<1>3. Abs!OverN(Up(a, s)) = Double(Abs!OverN(Up(a, s - 1)))
  BY <1>1, <1>2, OverNShift
<1> QED
  BY <1>1, <1>3, OverNType, RightShiftUndoesDouble

LEMMA OverNMul ==
  ASSUME NEW a \in Element
  PROVE  Abs!OverN(Mul(a)) = {}
<1> DEFINE b == Down(a, Half)
           n == N - Half
<1>0. /\ N \in Nat /\ N >= 16 /\ Half \in Int /\ Half >= 1 /\ Half <= N - 7
      /\ n \in Int /\ n >= 1 /\ N - 1 \in Nat
  BY NAssumption, Halves DEF Shifts
<1>1. Abs!Over(Mul(a), Half) = Mul(b)
  BY <1>0, Halves, ElementInt, OverMul
<1>2. b \subseteq 0 .. n - 1 /\ b \subseteq 0 .. N - 1
  BY <1>0, ElementInt DEF Down
<1>3. Abs!Over(Mul(b), n) = Mul(Down(b, n))
  BY <1>0, <1>2, Halves, OverMul
<1>4. Down(b, n) = {}
  <2>1. \A i \in b : ~(i >= n)
    BY <1>0, <1>2
  <2> HIDE DEF b, n
  <2> QED
    BY <2>1 DEF Down
<1>5. Mul({}) = {}
  BY DEF Mul, Up, Xor
<1> QED
  BY <1>1, <1>3, <1>4, <1>5, Halves

(* Dividing an element by x^N is the sum the table builds start from. *)
LEMMA OverNPrime ==
  ASSUME NEW a \in Element
  PROVE  Abs!OverN(a) = Prime(a)
<1>0. N \in Nat /\ N >= 16
  BY NAssumption
<1> DEFINE u(s) == Up(a, s)
           v(s) == Abs!OverN(u(s))
<1>1. \A s \in 0 .. N : u(s) \in Poly /\ v(s) \in Element
  BY UpPoly, OverNType
<1>2. a \in Poly /\ Abs!OverN(a) \in Element
  BY ElementInt, OverNType
<1>3. Abs!OverN(Mul(a))
        = Xor(Abs!OverN(a), Xor(Xor(v(N - 7), v(N - 2)), Xor(v(N - 1), v(N))))
  <2>1. /\ N - 7 \in 0 .. N /\ N - 2 \in 0 .. N /\ N - 1 \in 0 .. N /\ N \in 0 .. N
    BY <1>0
  <2>2. /\ Xor(u(N - 7), u(N - 2)) \in Poly /\ Xor(u(N - 1), u(N)) \in Poly
    BY <1>1, <2>1, PolyXor
  <2>3. Xor(Xor(u(N - 7), u(N - 2)), Xor(u(N - 1), u(N))) \in Poly
    BY <2>2, PolyXor
  <2>4. Mul(a) = Xor(a, Xor(Xor(u(N - 7), u(N - 2)), Xor(u(N - 1), u(N))))
    BY DEF Mul
  <2>5. Abs!OverN(Xor(u(N - 7), u(N - 2))) = Xor(v(N - 7), v(N - 2))
    BY <1>1, <2>1, OverNLinear
  <2>6. Abs!OverN(Xor(u(N - 1), u(N))) = Xor(v(N - 1), v(N))
    BY <1>1, <2>1, OverNLinear
  <2> HIDE DEF u, v
  <2> QED
    BY <1>2, <2>2, <2>3, <2>4, <2>5, <2>6, OverNLinear
<1>4. Xor(Abs!OverN(a), Xor(Xor(v(N - 7), v(N - 2)), Xor(v(N - 1), v(N)))) = {}
  BY <1>3, OverNMul
<1>5. v(N) = Halved(a, 0)
  BY OverNExact DEF Halved
<1>6. \A j \in 0 .. 6 : v(N - j) = Halved(a, j) => v(N - (j + 1)) = Halved(a, j + 1)
  <2> SUFFICES ASSUME NEW j \in 0 .. 6, v(N - j) = Halved(a, j)
               PROVE  v(N - (j + 1)) = Halved(a, j + 1)
    OBVIOUS
  <2>1. N - j \in 1 .. N /\ (N - j) - 1 = N - (j + 1)
    BY <1>0
  <2>2. RightShift(v(N - j)) = v((N - j) - 1)
    BY <2>1, OverNHalve
  <2> HIDE DEF u, v
  <2> QED
    BY <2>1, <2>2, HalvedNext
<1> HIDE DEF u, v
<1>7. N - 0 = N /\ 0 + 1 = 1 /\ 1 + 1 = 2 /\ 2 + 1 = 3 /\ 3 + 1 = 4 /\ 4 + 1 = 5 /\ 5 + 1 = 6 /\ 6 + 1 = 7
  BY <1>0
<1>8. v(N - 1) = Halved(a, 1)
  BY <1>5, <1>6, <1>7
<1>9. v(N - 2) = Halved(a, 2)
  BY <1>8, <1>6, <1>7
<1>10. v(N - 3) = Halved(a, 3)
  BY <1>9, <1>6, <1>7
<1>11. v(N - 4) = Halved(a, 4)
  BY <1>10, <1>6, <1>7
<1>12. v(N - 5) = Halved(a, 5)
  BY <1>11, <1>6, <1>7
<1>13. v(N - 6) = Halved(a, 6)
  BY <1>12, <1>6, <1>7
<1>14. v(N - 7) = Halved(a, 7)
  BY <1>13, <1>6, <1>7
<1>15. Halved(a, 0) = a
  BY DEF Halved
<1>16. \A w, x, y, z, b : Xor(w, Xor(Xor(x, y), Xor(z, b))) = {} => w = Xor(Xor(Xor(b, z), y), x)
  BY DEF Xor
<1> QED
  BY <1>4, <1>5, <1>8, <1>9, <1>14, <1>15, <1>16 DEF Prime

-----------------------------------------------------------------------------
(* The shifts of the code are the shifts of the specification. *)

(* One routine without a loop each: polyval_right_shift_1 divides by x. *)
LEMMA OverOne ==
  ASSUME NEW a \in Element
  PROVE  Abs!Over(a, 1) = RightShift(a)
<1> DEFINE one == 1
<1>0. N \in Nat /\ N >= 16 /\ one \in Shifts /\ one \in Int /\ one = 1
  BY NAssumption DEF Shifts
<1> HIDE DEF one
<1>1. a \subseteq Int /\ N - 1 \in Nat
  BY <1>0, ElementInt
<1>2. Abs!Over(a, one) \in Element
  <2>1. Abs!Over(a, one) \subseteq 0 .. (IF (N - 1) - one >= N - 1 THEN (N - 1) - one ELSE N - 1)
    BY <1>0, <1>1, ElementInt, OverType
  <2> QED
    BY <1>0, <2>1 DEF Element
<1>3. ASSUME NEW j \in 0 .. N - 1
      PROVE  j \in Abs!Over(a, one) <=> j \in RightShift(a)
  <2> DEFINE q(i) == i \in Low(a, one)
             e == j + one
  <2>1. \A i \in Int : q(i) <=> (i = 0 /\ 0 \in a)
    BY <1>0, LowMember
  <2>2. j \in Abs!Over(a, one) <=>
          ~(e \in a <=>
              ~(q(e) <=> ~(~(q(e - (N - 7)) <=> q(e - (N - 2)))
                           <=> ~(q(e - (N - 1)) <=> q(e - N)))))
    <3>1. j \in Int
      OBVIOUS
    <3> QED
      BY <1>0, <1>1, <3>1, OverCoefficient, Zenon
  <2> HIDE DEF q
  <2>3. /\ ~q(e)
        /\ q(e - (N - 7)) <=> (j = N - 8 /\ 0 \in a)
        /\ q(e - (N - 2)) <=> (j = N - 3 /\ 0 \in a)
        /\ q(e - (N - 1)) <=> (j = N - 2 /\ 0 \in a)
        /\ q(e - N) <=> (j = N - 1 /\ 0 \in a)
    BY <1>0, <2>1
  <2>4. j \in RightReduction <=>
          ~(~(j = N - 8 <=> j = N - 3) <=> ~(j = N - 2 <=> j = N - 1))
    BY <1>0 DEF RightReduction
  <2>5. j \in RightShift(a) <=> ~(e \in a <=> (0 \in a /\ j \in RightReduction))
    BY <1>0, RightShiftMember
  <2> HIDE DEF e
  <2> QED
    BY <2>2, <2>3, <2>4, <2>5
<1>4. Abs!Over(a, one) = RightShift(a)
  BY <1>2, <1>3, RightShiftType, SameExponents
<1> QED
  BY <1>4 DEF one

LEMMA MulZero == Mul({}) = {} /\ Mul({0}) = Abs!Modulus
<1>0. N \in Nat /\ N >= 16
  BY NAssumption
<1>1. Mul({}) = {}
  BY DEF Mul, Up, Xor
<1>2. Mul({0}) = Xor({0}, Xor(Xor({N - 7}, {N - 2}), Xor({N - 1}, {N})))
  <2>1. /\ Up({0}, N - 7) = {N - 7} /\ Up({0}, N - 2) = {N - 2}
        /\ Up({0}, N - 1) = {N - 1} /\ Up({0}, N) = {N}
    BY <1>0 DEF Up
  <2> QED
    BY <1>0, <2>1 DEF Mul
<1>3. Abs!Modulus = Xor({0}, Xor(Xor({N - 7}, {N - 2}), Xor({N - 1}, {N})))
  BY <1>0 DEF Abs!Modulus, Xor
<1> QED
  BY <1>1, <1>2, <1>3

LEMMA UpXor ==
  ASSUME NEW a, NEW b, a \subseteq Int, b \subseteq Int, NEW s \in Int
  PROVE  Up(Xor(a, b), s) = Xor(Up(a, s), Up(b, s))
<1>1. Xor(a, b) \subseteq Int
  BY DEF Xor
<1>2. /\ Up(Xor(a, b), s) \subseteq Int /\ Xor(Up(a, s), Up(b, s)) \subseteq Int
  <2>1. Up(a, s) \subseteq Int /\ Up(b, s) \subseteq Int /\ Up(Xor(a, b), s) \subseteq Int
    BY <1>1 DEF Up
  <2> QED
    BY <2>1 DEF Xor
<1>3. ASSUME NEW j \in Int
      PROVE  j \in Up(Xor(a, b), s) <=> j \in Xor(Up(a, s), Up(b, s))
  <2>1. /\ j \in Up(Xor(a, b), s) <=> j - s \in Xor(a, b)
        /\ j \in Up(a, s) <=> j - s \in a
        /\ j \in Up(b, s) <=> j - s \in b
    BY <1>1, UpMember
  <2> QED
    BY <2>1, XorMember
<1> QED
  BY <1>2, <1>3, SamePolynomial

LEMMA UpOnce ==
  ASSUME NEW a, NEW b, a \subseteq Int, b \subseteq Int
  PROVE  /\ Up(Xor(a, b), 1) = Xor(Up(a, 1), Up(b, 1))
         /\ \A s \in Int : /\ Up(Up(a, s), 1) = Up(a, s + 1)
                           /\ Up(Up(a, 1), s) = Up(a, s + 1)
<1>1. \A t \in Int : Up(Xor(a, b), t) = Xor(Up(a, t), Up(b, t))
  BY UpXor
<1>2. \A s, t \in Int : Up(Up(a, s), t) = Up(a, s + t)
  BY UpUp
<1>3. 1 \in Int /\ \A s \in Int : 1 + s = s + 1
  OBVIOUS
<1> QED
  BY <1>1, <1>2, <1>3

LEMMA MulXor ==
  ASSUME NEW a, NEW b, a \subseteq Int, b \subseteq Int
  PROVE  Mul(Xor(a, b)) = Xor(Mul(a), Mul(b))
<1>0. N \in Int /\ N - 7 \in Int /\ N - 2 \in Int /\ N - 1 \in Int
  BY NAssumption
<1>1. /\ Up(Xor(a, b), N - 7) = Xor(Up(a, N - 7), Up(b, N - 7))
      /\ Up(Xor(a, b), N - 2) = Xor(Up(a, N - 2), Up(b, N - 2))
      /\ Up(Xor(a, b), N - 1) = Xor(Up(a, N - 1), Up(b, N - 1))
      /\ Up(Xor(a, b), N) = Xor(Up(a, N), Up(b, N))
  <2>1. \A s \in Int : Up(Xor(a, b), s) = Xor(Up(a, s), Up(b, s))
    BY UpXor
  <2> QED
    BY <1>0, <2>1
<1> DEFINE a1 == Up(a, N - 7)
           a2 == Up(a, N - 2)
           a3 == Up(a, N - 1)
           a4 == Up(a, N)
           b1 == Up(b, N - 7)
           b2 == Up(b, N - 2)
           b3 == Up(b, N - 1)
           b4 == Up(b, N)
<1>2. /\ Mul(a) = Xor(a, Xor(Xor(a1, a2), Xor(a3, a4)))
      /\ Mul(b) = Xor(b, Xor(Xor(b1, b2), Xor(b3, b4)))
      /\ Mul(Xor(a, b)) = Xor(Xor(a, b), Xor(Xor(Xor(a1, b1), Xor(a2, b2)),
                                             Xor(Xor(a3, b3), Xor(a4, b4))))
  BY <1>1 DEF Mul
<1> HIDE DEF a1, a2, a3, a4, b1, b2, b3, b4
<1>3. Xor(Xor(a, b), Xor(Xor(Xor(a1, b1), Xor(a2, b2)), Xor(Xor(a3, b3), Xor(a4, b4))))
        = Xor(Xor(a, Xor(Xor(a1, a2), Xor(a3, a4))), Xor(b, Xor(Xor(b1, b2), Xor(b3, b4))))
  BY DEF Xor
<1> QED
  BY <1>2, <1>3

LEMMA MulUp ==
  ASSUME NEW a, a \subseteq Int
  PROVE  Up(Mul(a), 1) = Mul(Up(a, 1))
<1>0. N \in Int /\ N - 7 \in Int /\ N - 2 \in Int /\ N - 1 \in Int
  BY NAssumption
<1> DEFINE c(s) == Up(a, s)
<1>1. \A s \in Int : c(s) \subseteq Int
  BY DEF Up
<1>2. \A s \in Int : Up(c(s), 1) = Up(c(1), s)
  BY UpOnce
<1>3. /\ Xor(c(N - 7), c(N - 2)) \subseteq Int /\ Xor(c(N - 1), c(N)) \subseteq Int
  BY <1>0, <1>1 DEF Xor
<1>4. Xor(Xor(c(N - 7), c(N - 2)), Xor(c(N - 1), c(N))) \subseteq Int
  BY <1>3 DEF Xor
<1>6. Up(Mul(a), 1)
        = Xor(Up(a, 1), Up(Xor(Xor(c(N - 7), c(N - 2)), Xor(c(N - 1), c(N))), 1))
  <2> DEFINE b == Xor(Xor(c(N - 7), c(N - 2)), Xor(c(N - 1), c(N)))
  <2>1. Mul(a) = Xor(a, b)
    BY DEF Mul
  <2>2. b \subseteq Int /\ 0 \in Int
    BY <1>4
  <2> HIDE DEF b
  <2>3. Up(Xor(a, b), 1) = Xor(Up(a, 1), Up(b, 1))
    BY <2>2, UpOnce, Zenon
  <2> QED
    BY <2>1, <2>3 DEF b
<1> HIDE DEF c
<1>7. Up(Xor(Xor(c(N - 7), c(N - 2)), Xor(c(N - 1), c(N))), 1)
        = Xor(Up(Xor(c(N - 7), c(N - 2)), 1), Up(Xor(c(N - 1), c(N)), 1))
  BY <1>3, UpOnce
<1>8. Up(Xor(c(N - 7), c(N - 2)), 1) = Xor(Up(c(N - 7), 1), Up(c(N - 2), 1))
  BY <1>0, <1>1, UpOnce
<1>9. Up(Xor(c(N - 1), c(N)), 1) = Xor(Up(c(N - 1), 1), Up(c(N), 1))
  BY <1>0, <1>1, UpOnce
<1> QED
  BY <1>0, <1>2, <1>6, <1>7, <1>8, <1>9 DEF Mul, c

LEMMA DoubleReduces ==
  ASSUME NEW a \in Element
  PROVE  Double(a) = Xor(Up(a, 1), Sel(N - 1 \in a, Abs!Modulus))
<1>0. N \in Nat /\ N >= 16
  BY NAssumption
<1>1. Double(a) \subseteq Int /\ a \subseteq Int
  BY DoubleType, ElementInt
<1> DEFINE t == N - 1 \in a
           r == Xor(Up(a, 1), Sel(t, Abs!Modulus))
<1>2. r \subseteq Int
  <2>1. Up(a, 1) \subseteq Int
    BY <1>1 DEF Up
  <2>2. Sel(t, Abs!Modulus) \subseteq Int
    BY <1>0, ModulusInt DEF Sel
  <2> QED
    BY <2>1, <2>2 DEF Xor
<1>3. ASSUME NEW j \in Int
      PROVE  j \in Double(a) <=> j \in r
  <2>1. j \in r <=> ~(j - 1 \in a <=> (t /\ j \in Abs!Modulus))
    <3>1. j \in Up(a, 1) <=> j - 1 \in a
      BY <1>1, UpOne
    <3>2. j \in Sel(t, Abs!Modulus) <=> (t /\ j \in Abs!Modulus)
      BY DEF Sel
    <3> QED
      BY <3>1, <3>2, XorMember
  <2>2. CASE j \in 0 .. N - 1
    <3>1. j \in Abs!Modulus <=> j \in LeftReduction
      BY <1>0, <2>2 DEF Abs!Modulus, LeftReduction
    <3> QED
      BY <2>1, <2>2, <3>1, DoubleMember
  <2>3. CASE j \notin 0 .. N - 1
    <3>1. j \notin Double(a)
      BY <2>3, DoubleType DEF Element
    <3>2. j - 1 \in a <=> (t /\ j = N)
      BY <1>0, <2>3 DEF Element
    <3>3. j \in Abs!Modulus <=> j = N
      BY <1>0, <2>3 DEF Abs!Modulus
    <3> QED
      BY <2>1, <3>1, <3>2, <3>3
  <2> QED
    BY <2>2, <2>3
<1> HIDE DEF r
<1>4. Double(a) = r
  BY <1>1, <1>2, <1>3, SamePolynomial
<1> QED
  BY <1>4 DEF r

\* What x^s * a differs from by a multiple of the modulus.
Class(a, s) == {Xor(Up(a, s), Mul(q)) : q \in SUBSET (0 .. s - 1)}

LEMMA ClassNext ==
  ASSUME NEW a \in Element, NEW s \in Nat, NEW r \in Class(a, s), r \in Element
  PROVE  Double(r) \in Class(a, s + 1) /\ Double(r) \in Element
<1>1. PICK q \in SUBSET (0 .. s - 1) : r = Xor(Up(a, s), Mul(q))
  BY DEF Class
<1> DEFINE t == N - 1 \in r
           q1 == Xor(Up(q, 1), Sel(t, {0}))
<1>2. a \subseteq Int /\ r \subseteq Int /\ q \subseteq Int /\ s \in Int /\ 1 \in Int
  BY ElementInt
<1>3. q1 \in SUBSET (0 .. (s + 1) - 1)
  <2>1. Up(q, 1) \subseteq 0 .. s
    BY DEF Up
  <2> QED
    BY <2>1 DEF Xor, Sel
<1>4. Up(r, 1) = Xor(Up(a, s + 1), Mul(Up(q, 1)))
  <2>1. Up(a, s) \subseteq Int
    BY <1>2 DEF Up
  <2>2. Mul(q) \subseteq Int
    <3>1. q \subseteq 0 .. s
      BY DEF Mul
    <3>2. Mul(q) \subseteq 0 .. N + s
      BY <3>1, MulType
    <3> QED
      BY <3>2, NAssumption
  <2>3. Up(r, 1) = Xor(Up(Up(a, s), 1), Up(Mul(q), 1))
    BY <1>1, <1>2, <2>1, <2>2, UpOnce
  <2>4. Up(Up(a, s), 1) = Up(a, s + 1)
    BY <1>2, UpOnce
  <2> QED
    BY <1>2, <2>3, <2>4, MulUp
<1>5. Sel(t, Abs!Modulus) = Mul(Sel(t, {0}))
  BY MulZero DEF Sel
<1>6. Mul(q1) = Xor(Mul(Up(q, 1)), Mul(Sel(t, {0})))
  <2>1. Up(q, 1) \subseteq Int /\ Sel(t, {0}) \subseteq Int
    BY <1>2 DEF Up, Sel
  <2> QED
    BY <2>1, MulXor
<1>7. Double(r) = Xor(Up(r, 1), Sel(t, Abs!Modulus))
  BY DoubleReduces
<1> HIDE DEF q1, t
<1>8. \A x, y, z : Xor(Xor(x, y), z) = Xor(x, Xor(y, z))
  BY DEF Xor
<1>9. Double(r) = Xor(Up(a, s + 1), Mul(q1))
  BY <1>4, <1>5, <1>6, <1>7, <1>8
<1> QED
  BY <1>3, <1>9, DoubleType DEF Class

\* No multiple of the modulus is an element.
LEMMA MulNotElement ==
  ASSUME NEW q, q \subseteq 0 .. 3, Mul(q) \in Element
  PROVE  q = {}
<1>0. N \in Nat /\ N >= 16
  BY NAssumption
<1>1. q \subseteq Int
  OBVIOUS
<1>2. \A j \in Int : j >= N => j \notin Mul(q)
  BY <1>0 DEF Element
<1>3. ASSUME NEW i \in 0 .. 3, i + 1 \notin q, i + 2 \notin q, i + 7 \notin q, i + N \notin q
      PROVE  i \notin q
  <2> DEFINE j == N + i
  <2>1. j \in Int /\ j >= N
    BY <1>0
  <2>2. /\ j - (N - 7) = i + 7 /\ j - (N - 2) = i + 2 /\ j - (N - 1) = i + 1
        /\ j - N = i /\ j = i + N
    BY <1>0
  <2> HIDE DEF j
  <2>3. j \in Mul(q) <=>
          ~(j \in q <=> ~(~(j - (N - 7) \in q <=> j - (N - 2) \in q)
                          <=> ~(j - (N - 1) \in q <=> j - N \in q)))
    BY <1>1, <2>1, MulMember
  <2> QED
    BY <1>2, <1>3, <2>1, <2>2, <2>3
<1>4. \A i \in Int : i > 3 => i \notin q
  OBVIOUS
<1>5. 3 \notin q
  BY <1>0, <1>3, <1>4
<1>6. 2 \notin q
  BY <1>0, <1>3, <1>4, <1>5
<1>7. 1 \notin q
  BY <1>0, <1>3, <1>4, <1>5, <1>6
<1>8. 0 \notin q
  BY <1>0, <1>3, <1>4, <1>6, <1>7
<1> QED
  BY <1>5, <1>6, <1>7, <1>8

LEMMA ClassElement ==
  ASSUME NEW a \in Element, NEW s \in 0 .. 4,
         NEW r \in Class(a, s), r \in Element, NEW t \in Class(a, s), t \in Element
  PROVE  r = t
<1>1. PICK q \in SUBSET (0 .. s - 1) : r = Xor(Up(a, s), Mul(q))
  BY DEF Class
<1>2. PICK u \in SUBSET (0 .. s - 1) : t = Xor(Up(a, s), Mul(u))
  BY DEF Class
<1>3. Xor(q, u) \subseteq 0 .. 3 /\ q \subseteq Int /\ u \subseteq Int
  BY DEF Xor
<1>4. Mul(Xor(q, u)) = Xor(Mul(q), Mul(u))
  BY <1>3, MulXor
<1>5. \A x, y, z : Xor(y, z) = Xor(Xor(x, y), Xor(x, z))
  BY DEF Xor
<1>6. Mul(Xor(q, u)) = Xor(r, t)
  BY <1>1, <1>2, <1>4, <1>5
<1>7. Xor(q, u) = {}
  BY <1>3, <1>6, XorType, MulNotElement
<1>8. Xor(r, t) = {}
  BY <1>6, <1>7, MulZero
<1> QED
  BY <1>8 DEF Xor

LEMMA TimesIs ==
  ASSUME NEW a \in Element, NEW s \in 0 .. 4, NEW r \in Class(a, s), r \in Element
  PROVE  Abs!Times(a, s) = r
<1>1. \A q \in SUBSET (0 .. s - 1) : Abs!Product(Abs!Modulus, q) = Mul(q)
  <2> SUFFICES ASSUME NEW q \in SUBSET (0 .. s - 1)
               PROVE  Abs!Product(Abs!Modulus, q) = Mul(q)
    OBVIOUS
  <2>1. q \subseteq 0 .. N - 1
    BY NAssumption
  <2> QED
    BY <2>1, ModulusProduct
<1>2. Class(a, s) = {Abs!Plus(Abs!Shifted(a, s), Abs!Product(Abs!Modulus, q)) :
                       q \in SUBSET (0 .. s - 1)}
  BY <1>1 DEF Class, Abs!Plus, Xor, Abs!Shifted, Up
<1>3. Abs!Times(a, s) = CHOOSE v \in Class(a, s) : v \in Element
  BY <1>2 DEF Abs!Times, Abs!Element, Element
<1>4. (CHOOSE v \in Class(a, s) : v \in Element) \in Class(a, s)
      /\ (CHOOSE v \in Class(a, s) : v \in Element) \in Element
  OBVIOUS
<1> QED
  BY <1>3, <1>4, ClassElement

(* polyval_double multiplies by x, polyval_shift_left_4 by x^4. *)
LEMMA TimesOneAndFour ==
  ASSUME NEW a \in Element
  PROVE  Abs!Times(a, 1) = Double(a) /\ Abs!Times(a, 4) = Double4(a)
<1> DEFINE d1 == Double(a)
           d2 == Double(d1)
           d3 == Double(d2)
           d4 == Double(d3)
<1>1. a \in Class(a, 0) /\ a \in Element
  <2>1. Up(a, 0) = a
    BY ElementInt DEF Up
  <2>2. {} \in SUBSET (0 .. 0 - 1) /\ Xor(a, {}) = a
    BY DEF Xor
  <2> QED
    BY <2>1, <2>2, MulZero DEF Class
<1>2. d1 \in Class(a, 1) /\ d1 \in Element
  BY <1>1, ClassNext, 0 + 1 = 1
<1>3. d2 \in Class(a, 2) /\ d2 \in Element
  BY <1>2, ClassNext, 1 + 1 = 2
<1>4. d3 \in Class(a, 3) /\ d3 \in Element
  BY <1>3, ClassNext, 2 + 1 = 3
<1>5. d4 \in Class(a, 4) /\ d4 \in Element
  BY <1>4, ClassNext, 3 + 1 = 4
<1> HIDE DEF d1, d2, d3, d4
<1> QED
  BY <1>2, <1>5, TimesIs DEF Double4, d1, d2, d3, d4

-----------------------------------------------------------------------------
(* The product of RFC 8452, a bit, a nibble and a byte at a time. *)

LEMMA DotType ==
  ASSUME NEW a, NEW b
  PROVE  Abs!Dot(a, b) \in Element
BY ProductType, OverNType DEF Abs!Dot, Poly

(* The product of RFC 8452 is linear in its first factor. *)
THEOREM DotLinear ==
  ASSUME NEW a \in Element, NEW b \in Element, NEW c
  PROVE  Abs!Dot(Xor(a, b), c) = Xor(Abs!Dot(a, c), Abs!Dot(b, c))
<1>1. IsFiniteSet(a) /\ IsFiniteSet(b)
  <2>1. IsFiniteSet(0 .. N - 1)
    BY NAssumption, FS_Interval
  <2> QED
    BY <2>1, ElementInt, FS_Subset
<1>2. Abs!Product(Xor(a, b), c) = Xor(Abs!Product(a, c), Abs!Product(b, c))
  BY <1>1, ProductLinear
<1>3. Abs!Product(a, c) \in Poly /\ Abs!Product(b, c) \in Poly
  BY ProductType DEF Poly
<1> QED
  BY <1>2, <1>3, OverNLinear DEF Abs!Dot

LEMMA DotZero ==
  ASSUME NEW c
  PROVE  Abs!Dot({}, c) = {}
<1>1. Xor({}, {}) = {} /\ \A x : Xor(x, x) = {}
  BY DEF Xor
<1>2. Abs!Dot(Xor({}, {}), c) = Xor(Abs!Dot({}, c), Abs!Dot({}, c))
  BY ZeroType, DotLinear
<1> QED
  BY <1>1, <1>2

(* The product with one is the division by x^N. *)
LEMMA DotOne ==
  ASSUME NEW k \in Element
  PROVE  {0} \in Element /\ Abs!Dot({0}, k) = Prime(k)
<1>0. N \in Nat /\ N >= 16 /\ k \subseteq 0 .. N - 1
  BY NAssumption, ElementInt
<1>1. Abs!Product({0}, k) = k
  <2>1. ASSUME NEW e \in 0 .. 2 * N - 1
        PROVE  e \in Abs!Product({0}, k) <=> e \in k
    <3>1. e - 0 = e
      OBVIOUS
    <3> QED
      BY <3>1, ProductMonomial
  <2>2. Abs!Product({0}, k) \subseteq 0 .. 2 * N - 1 /\ k \subseteq 0 .. 2 * N - 1
    BY <1>0, ProductType
  <2> QED
    BY <2>1, <2>2
<1>2. {0} \in Element
  BY <1>0 DEF Element
<1> QED
  BY <1>1, <1>2, OverNPrime DEF Abs!Dot

LEMMA UpCardinality ==
  ASSUME NEW s, s \subseteq Int, IsFiniteSet(s)
  PROVE  Cardinality(Up(s, 1)) = Cardinality(s)
<1> DEFINE t == Up(s, 1)
           f == [i \in s |-> i + 1]
<1>1. f \in [s -> t]
  BY DEF Up
<1>2. \A i, j \in s : f[i] = f[j] => i = j
  OBVIOUS
<1>3. \A e \in t : \E i \in s : f[i] = e
  BY DEF Up
<1>4. f \in Bijection(s, t)
  BY <1>1, <1>2, <1>3 DEF Bijection, Injection, Surjection, IsInjective
<1>5. ExistsBijection(s, t)
  BY <1>4 DEF ExistsBijection
<1> QED
  BY <1>5, FS_Bijection

LEMMA ProductShift ==
  ASSUME NEW a \in Element, N - 1 \notin a, NEW b \in Element
  PROVE  /\ Abs!Product(Up(a, 1), b) = Up(Abs!Product(a, b), 1)
         /\ Abs!Product(a, b) \in SUBSET (0 .. 2 * N - 2)
<1>0. N \in Nat /\ N >= 16
  BY NAssumption
<1>1. a \subseteq 0 .. N - 2 /\ b \subseteq 0 .. N - 1 /\ a \subseteq Int
  BY <1>0, ElementInt
<1>2. IsFiniteSet(a)
  <2>1. IsFiniteSet(0 .. N - 1)
    BY <1>0, FS_Interval
  <2> QED
    BY <2>1, ElementInt, FS_Subset
<1>3. ~Odd({})
  <2>1. Cardinality({}) = 0 /\ 0 % 2 = 0
    BY FS_EmptySet
  <2> QED
    BY <2>1 DEF Odd
<1>4. \A e \in Abs!Product(a, b) : e \in 0 .. 2 * N - 3
  <2> SUFFICES ASSUME NEW e \in Abs!Product(a, b)
               PROVE  e \in 0 .. 2 * N - 3
    OBVIOUS
  <2>1. e \in 0 .. 2 * N - 1
    BY ProductType
  <2>2. {i \in a : e - i \in b} # {}
    BY <1>3, <2>1, ProductMember
  <2>3. PICK i \in a : e - i \in b
    BY <2>2
  <2>4. i \in 0 .. N - 2 /\ e - i \in 0 .. N - 1
    BY <1>1, <2>3
  <2> QED
    BY <1>0, <2>1, <2>4
<1>5. Abs!Product(Up(a, 1), b) \subseteq 0 .. 2 * N - 1
  BY ProductType
<1>6. Up(Abs!Product(a, b), 1) \subseteq 0 .. 2 * N - 1
  BY <1>0, <1>4 DEF Up
<1>7. ASSUME NEW e \in 0 .. 2 * N - 1
      PROVE  e \in Abs!Product(Up(a, 1), b) <=> e \in Up(Abs!Product(a, b), 1)
  <2>1. e \in Up(Abs!Product(a, b), 1) <=> e - 1 \in Abs!Product(a, b)
    <3>1. Abs!Product(a, b) \subseteq Int /\ e \in Int
      BY <1>4
    <3> QED
      BY <3>1, UpOne
  <2> DEFINE s == {i \in a : (e - 1) - i \in b}
             t == {i \in Up(a, 1) : e - i \in b}
  <2>2. t = Up(s, 1)
    <3>1. t \subseteq Int /\ Up(s, 1) \subseteq Int /\ s \subseteq Int
      <4>1. s \subseteq Int
        BY <1>1
      <4>3. Up(a, 1) \subseteq Int
        BY <1>1 DEF Up
      <4>2. t \subseteq Int
        BY <4>3
      <4> HIDE DEF s
      <4> QED
        BY <4>1, <4>2 DEF Up
    <3>2. ASSUME NEW j \in Int
          PROVE  j \in t <=> j \in Up(s, 1)
      <4>1. j \in Up(s, 1) <=> j - 1 \in s
        BY <3>1, UpOne
      <4>2. j \in Up(a, 1) <=> j - 1 \in a
        BY <1>1, UpOne
      <4>3. (e - 1) - (j - 1) = e - j
        OBVIOUS
      <4> QED
        BY <4>1, <4>2, <4>3
    <3> HIDE DEF s, t
    <3> QED
      BY <3>1, <3>2, SamePolynomial
  <2>3. Odd(t) <=> Odd(s)
    <3>1. IsFiniteSet(s) /\ s \subseteq Int
      BY <1>1, <1>2, FS_Subset
    <3> HIDE DEF s, t
    <3> QED
      BY <2>2, <3>1, UpCardinality DEF Odd
  <2>4. e \in Abs!Product(Up(a, 1), b) <=> Odd(t)
    BY ProductMember
  <2>5. CASE e >= 1
    <3>1. e - 1 \in 0 .. 2 * N - 1
      BY <1>0, <2>5
    <3>2. e - 1 \in Abs!Product(a, b) <=> Odd(s)
      BY <3>1, ProductMember
    <3> QED
      BY <2>1, <2>3, <2>4, <3>2
  <2>6. CASE e = 0
    <3>1. e - 1 \notin Abs!Product(a, b)
      BY <1>4, <2>6
    <3>2. t = {}
      <4>1. \A i \in Up(a, 1) : i \in Int /\ i >= 1
        BY <1>1 DEF Up
      <4>2. \A i \in Up(a, 1) : e - i \notin b
        BY <1>1, <2>6, <4>1
      <4> QED
        BY <4>2
    <3> HIDE DEF t
    <3> QED
      BY <1>3, <2>1, <2>4, <3>1, <3>2
  <2> QED
    BY <2>5, <2>6
<1>8. Abs!Product(a, b) \in SUBSET (0 .. 2 * N - 2)
  BY <1>0, <1>4
<1> QED
  BY <1>5, <1>6, <1>7, <1>8

(* Multiplying a factor by x doubles the product. *)
THEOREM DotShift ==
  ASSUME NEW a \in Element, N - 1 \notin a, NEW b \in Element
  PROVE  /\ Up(a, 1) \in Element
         /\ Abs!Dot(Up(a, 1), b) = Double(Abs!Dot(a, b))
<1>1. Up(a, 1) \in Element
  <2>1. \A i \in a : i \in 0 .. N - 1 /\ i # N - 1
    BY ElementInt
  <2>2. Up(a, 1) \subseteq 0 .. N - 1
    BY <2>1, NAssumption DEF Up
  <2> QED
    BY <2>2 DEF Element
<1> QED
  BY <1>1, ProductShift, OverNShift DEF Abs!Dot

LEMMA ShrType ==
  ASSUME NEW u \in Element, NEW s \in Nat
  PROVE  /\ Shr(u, s) \in Element
         /\ \A i \in Int : i \in Shr(u, s) <=> (i >= 0 /\ i + s \in u)
<1>1. Shr(u, s) \in Element
  BY DEF Shr, Element
<1>2. \A i \in Int : i + s \in u => i <= N - 1
  BY NAssumption, ElementInt
<1> QED
  BY <1>1, <1>2, NAssumption DEF Shr

LEMMA ShrEnds ==
  ASSUME NEW u \in Element
  PROVE  Shr(u, 0) = u /\ Shr(u, N) = {}
<1>1. Shr(u, 0) = u
  BY ElementInt DEF Shr
<1>2. \A i \in 0 .. N - 1 : i + N \notin u
  BY NAssumption, ElementInt
<1> QED
  BY <1>1, <1>2 DEF Shr

(* One bit of the operand: double and add H'. *)
LEMMA DotBit ==
  ASSUME NEW u \in Element, NEW k \in Element, NEW p \in 0 .. N - 1
  PROVE  Abs!Dot(Shr(u, p), k) = BitStep(Abs!Dot(Shr(u, p + 1), k), p \in u, Prime(k))
<1> DEFINE v == Shr(u, p + 1)
           b == p \in u
<1>0. N \in Nat /\ N >= 16 /\ p \in Nat /\ p + 1 \in Nat
  BY NAssumption
<1>1. /\ v \in Element /\ \A i \in Int : i \in v <=> (i >= 0 /\ i + (p + 1) \in u)
      /\ Shr(u, p) \in Element /\ \A i \in Int : i \in Shr(u, p) <=> (i >= 0 /\ i + p \in u)
  BY <1>0, ShrType
<1>2. N - 1 \notin v
  <2>1. (N - 1) + (p + 1) > N - 1 /\ (N - 1) + (p + 1) \in Int /\ N - 1 \in Int
    BY <1>0
  <2>2. (N - 1) + (p + 1) \notin u
    BY <2>1, ElementInt
  <2> HIDE DEF v
  <2> QED
    BY <1>1, <2>1, <2>2
<1>3. Shr(u, p) = Xor(Up(v, 1), Sel(b, {0}))
  <2>1. v \subseteq Int /\ Shr(u, p) \subseteq Int
    BY <1>1, ElementInt
  <2>2. Xor(Up(v, 1), Sel(b, {0})) \subseteq Int
    BY <2>1 DEF Up, Sel, Xor
  <2>3. ASSUME NEW j \in Int
        PROVE  j \in Shr(u, p) <=> j \in Xor(Up(v, 1), Sel(b, {0}))
    <3>1. j \in Up(v, 1) <=> j - 1 \in v
      BY <2>1, UpOne
    <3>2. j - 1 \in v <=> (j - 1 >= 0 /\ j + p \in u)
      <4>1. j - 1 \in Int /\ (j - 1) + (p + 1) = j + p
        BY <1>0
      <4> HIDE DEF v
      <4> QED
        BY <1>1, <4>1
    <3>3. j \in Sel(b, {0}) <=> (b /\ j = 0)
      BY DEF Sel
    <3>4. j \in Shr(u, p) <=> (j >= 0 /\ j + p \in u)
      BY <1>1
    <3>5. j = 0 => (b <=> j + p \in u)
      BY <1>0
    <3> HIDE DEF v, b
    <3>6. j \in Xor(Up(v, 1), Sel(b, {0})) <=> ~(j \in Up(v, 1) <=> j \in Sel(b, {0}))
      BY XorMember
    <3>7. CASE j = 0
      BY <3>1, <3>2, <3>3, <3>4, <3>5, <3>6, <3>7
    <3>8. CASE j # 0
      BY <3>1, <3>2, <3>3, <3>4, <3>6, <3>8
    <3> QED
      BY <3>7, <3>8
  <2> HIDE DEF v, b
  <2> QED
    BY <2>1, <2>2, <2>3, SamePolynomial
<1>4. b \in BOOLEAN
  OBVIOUS
<1> HIDE DEF v, b
<1>5. Up(v, 1) \in Element /\ Abs!Dot(Up(v, 1), k) = Double(Abs!Dot(v, k))
  BY <1>1, <1>2, DotShift
<1>6. Sel(b, {0}) \in Element /\ Abs!Dot(Sel(b, {0}), k) = Sel(b, Prime(k))
  BY ZeroType, DotOne, DotZero DEF Sel
<1>7. Abs!Dot(Shr(u, p), k) = Xor(Double(Abs!Dot(v, k)), Sel(b, Prime(k)))
  BY <1>3, <1>5, <1>6, DotLinear
<1>8. BitStep(Abs!Dot(v, k), b, Prime(k)) = Xor(Double(Abs!Dot(v, k)), Sel(b, Prime(k)))
  BY <1>4, DotType, PrimeType, BitStepSel
<1> QED
  BY <1>7, <1>8 DEF v, b

(* Four bits of the operand: one table entry. *)
LEMMA DotNibble ==
  ASSUME NEW u \in Element, NEW k \in Element, NEW p \in Nat, p + 4 <= N
  PROVE  Abs!Dot(Shr(u, p), k) =
           Xor(Double4(Abs!Dot(Shr(u, p + 4), k)), Multiple(NibbleAt(u, p), Prime(k)))
<1> DEFINE D(s) == Abs!Dot(Shr(u, s), k)
           hp == Prime(k)
<1>1. /\ p \in 0 .. N - 1 /\ p + 1 \in 0 .. N - 1 /\ p + 2 \in 0 .. N - 1 /\ p + 3 \in 0 .. N - 1
      /\ (p + 1) + 1 = p + 2 /\ (p + 2) + 1 = p + 3 /\ (p + 3) + 1 = p + 4
  BY NAssumption
<1>2. D(p + 3) = BitStep(D(p + 4), p + 3 \in u, hp)
  BY <1>1, DotBit
<1>3. D(p + 2) = BitStep(D(p + 3), p + 2 \in u, hp)
  BY <1>1, DotBit
<1>4. D(p + 1) = BitStep(D(p + 2), p + 1 \in u, hp)
  BY <1>1, DotBit
<1>5. D(p) = BitStep(D(p + 1), p \in u, hp)
  BY <1>1, DotBit
<1>6. D(p + 4) \in Element /\ hp \in Element
  BY DotType, PrimeType
<1> HIDE DEF D, hp
<1>7. D(p) = Xor(Double4(D(p + 4)), Multiple(NibbleAt(u, p), hp))
  BY <1>2, <1>3, <1>4, <1>5, <1>6, NibbleIsFourBits
<1> QED
  BY <1>7 DEF D, hp

(* A table entry is the product with the nibble it is looked up by. *)
LEMMA DotEntry ==
  ASSUME NEW n \in 0 .. 15, NEW k \in Element
  PROVE  Abs!Dot(Abs!NibbleBits(n), k) = Multiple(n, Prime(k))
<1> DEFINE u == Abs!NibbleBits(n)
<1>0. N \in Nat /\ N >= 16 /\ 0 \in Nat /\ 0 + 4 = 4 /\ 4 <= N
  BY NAssumption
<1>1. /\ \A i \in Int : i \in u <=> (i \in 0 .. 3 /\ (n \div 2 ^ i) % 2 = 1)
      /\ u \in Element
  BY <1>0 DEF Abs!NibbleBits, Element
<1>2. 2 ^ 0 = 1 /\ 2 ^ 1 = 2 /\ 2 ^ 2 = 4 /\ 2 ^ 3 = 8
  OBVIOUS
<1>3. /\ 0 \in u <=> n % 2 = 1 
      /\ 1 \in u <=> (n \div 2) % 2 = 1
      /\ 2 \in u <=> (n \div 4) % 2 = 1
      /\ 3 \in u <=> (n \div 8) % 2 = 1
  BY <1>2 DEF Abs!NibbleBits
<1> HIDE DEF u
<1>4. NibbleAt(u, 0) = n
  <2>1. NibbleAt(u, 0) = (n % 2) + 2 * ((n \div 2) % 2) + 4 * ((n \div 4) % 2) + 8 * ((n \div 8) % 2)
    BY <1>3 DEF NibbleAt, Bit
  <2> QED
    BY <2>1
<1>5. Shr(u, 4) = {}
  <2>1. \A i \in 0 .. N - 1 : i + 4 \notin u
    BY <1>0, <1>1
  <2> QED
    BY <2>1 DEF Shr
<1>6. Abs!Dot(Shr(u, 0), k) = Xor(Double4(Abs!Dot(Shr(u, 4), k)), Multiple(NibbleAt(u, 0), Prime(k)))
  BY <1>0, <1>1, DotNibble
<1>7. Double4({}) = {}
  BY DoubleZero DEF Double4
<1>8. Multiple(n, Prime(k)) \in Element
  BY PrimeType, MultipleType
<1> QED
  BY <1>1, <1>4, <1>5, <1>6, <1>7, <1>8, ShrEnds, DotZero, XorZero DEF u

LEMMA Double4Type ==
  ASSUME NEW a \in Element
  PROVE  Double4(a) \in Element
BY DoubleType DEF Double4

-----------------------------------------------------------------------------
(* What the profiles share: the caller's own steps, and the calls without  *)
(* a loop.                                                                 *)

LEMMA InitTypes == HostInit => HostTypeOK /\ pc = "idle" /\ key = Nil
<1> SUFFICES ASSUME HostInit
             PROVE  HostTypeOK /\ pc = "idle" /\ key = Nil
  OBVIOUS
<1>1. h \in Element /\ temp \in Element /\ Junk \in Element
  BY HostAssumption DEF HostInit
<1>2. HostTypeOK
  BY <1>1, ZeroType, HostAssumption DEF HostInit, HostTypeOK, Entry
<1> QED
  BY <1>2 DEF HostInit

LEMMA HostKeeps ==
  ASSUME HostTypeOK, Host
  PROVE  HostTypeOK' /\ pc = "idle" /\ pc' = "idle" /\ UNCHANGED <<htable, key>>
<1>1. ASSUME NEW k \in Key, SetH(k)
      PROVE  HostTypeOK' /\ pc = "idle" /\ pc' = "idle" /\ UNCHANGED <<htable, key>>
  BY <1>1, HostAssumption DEF SetH, HostTypeOK
<1>2. ASSUME NEW b \in Block, SetBlock(b)
      PROVE  HostTypeOK' /\ pc = "idle" /\ pc' = "idle" /\ UNCHANGED <<htable, key>>
  BY <1>2, HostAssumption DEF SetBlock, HostTypeOK
<1>3. ASSUME NEW n \in Nibble, SetNibble(n)
      PROVE  HostTypeOK' /\ pc = "idle" /\ pc' = "idle" /\ UNCHANGED <<htable, key>>
  BY <1>3, HostAssumption DEF SetNibble, HostTypeOK, Entry
<1> QED
  BY <1>1, <1>2, <1>3 DEF Host

\* The five routines that no profile needs a loop for.
OneStepCall ==
  \/ OneStep({}) \/ OneStep(Double(acc)) \/ OneStep(RightShift(acc)) \/ OneStep(Double4(acc))
  \/ key # Nil /\ OneStep(IF nibble = 0 THEN acc ELSE Xor(acc, htable[nibble]))

LEMMA OneStepKeeps ==
  ASSUME HostTypeOK, NEW a \in Element, OneStep(a)
  PROVE  HostTypeOK' /\ pc = "idle" /\ pc' = "idle" /\ UNCHANGED <<htable, key>>
BY HostAssumption DEF HostTypeOK, OneStep

LEMMA EntryRight ==
  ASSUME HostTypeOK, TableRight, pc = "idle", key # Nil
  PROVE  (IF nibble = 0 THEN acc ELSE Xor(acc, htable[nibble]))
           = Xor(acc, Abs!Dot(Abs!NibbleBits(nibble), key))
<1>1. /\ key \in Element /\ acc \in Element /\ nibble \in Entry
      /\ htable[nibble] = Multiple(nibble, Prime(key))
  BY DEF HostTypeOK, TableRight
<1>2. htable[nibble] = Abs!Dot(Abs!NibbleBits(nibble), key)
  BY <1>1, DotEntry DEF Entry
<1>3. CASE nibble = 0
  <2>1. htable[nibble] = {}
    BY <1>1, <1>3, PrimeType, MultipleZero
  <2>2. Xor(acc, htable[nibble]) = acc
    BY <1>1, <2>1, XorZero
  <2> QED
    BY <1>2, <1>3, <2>2
<1>4. CASE nibble # 0
  BY <1>2, <1>4
<1> QED
  BY <1>3, <1>4

LEMMA CallKeeps ==
  ASSUME HostTypeOK, TableRight, OneStepCall
  PROVE  HostTypeOK' /\ pc = "idle" /\ pc' = "idle" /\ UNCHANGED <<htable, key>>
<1>1. acc \in Element
  BY DEF HostTypeOK
<1>2. CASE OneStep({})
  BY <1>2, ZeroType, OneStepKeeps
<1>3. CASE OneStep(Double(acc))
  BY <1>1, <1>3, DoubleType, OneStepKeeps
<1>4. CASE OneStep(RightShift(acc))
  BY <1>1, <1>4, RightShiftType, OneStepKeeps
<1>5. CASE OneStep(Double4(acc))
  BY <1>1, <1>5, Double4Type, OneStepKeeps
<1>6. CASE key # Nil /\ OneStep(IF nibble = 0 THEN acc ELSE Xor(acc, htable[nibble]))
  <2>1. pc = "idle"
    BY <1>6 DEF OneStep
  <2>2. Xor(acc, Abs!Dot(Abs!NibbleBits(nibble), key)) \in Element
    BY <1>1, DotType, XorType
  <2> QED
    BY <1>6, <2>1, <2>2, EntryRight, OneStepKeeps
<1> QED
  BY <1>2, <1>3, <1>4, <1>5, <1>6 DEF OneStepCall

-----------------------------------------------------------------------------
(* The calls are the atomic steps of PolyvalSpec: what its caller sees     *)
(* changes with the last step of a call.                                   *)

LEMMA SameOperators ==
  /\ Abs!Element = Element
  /\ \A a, b : Abs!Plus(a, b) = Xor(a, b)
BY DEF Abs!Element, Element, Abs!Plus, Xor

LEMMA InitRefines == HostInit => Abs!Init
BY DEF HostInit, Abs!Init

LEMMA HostRefines ==
  ASSUME HostTypeOK, Host
  PROVE  Abs!Next
<1>0. pc = "idle" /\ pc' = "idle"
  BY HostKeeps
<1>1. ASSUME NEW k \in Key, SetH(k)
      PROVE  Abs!Next
  <2>1. Abs!SetH(k)
    BY <1>0, <1>1 DEF SetH, Abs!SetH
  <2> QED
    BY <2>1 DEF Abs!Next
<1>2. ASSUME NEW b \in Block, SetBlock(b)
      PROVE  Abs!Next
  <2>1. Abs!SetBlock(b)
    BY <1>0, <1>2 DEF SetBlock, Abs!SetBlock
  <2> QED
    BY <2>1 DEF Abs!Next
<1>3. ASSUME NEW n \in Nibble, SetNibble(n)
      PROVE  Abs!Next
  <2>1. Abs!SetNibble(n) /\ n \in 0 .. 15
    BY <1>0, <1>3, HostAssumption DEF SetNibble, Abs!SetNibble
  <2> QED
    BY <2>1 DEF Abs!Next
<1> QED
  BY <1>1, <1>2, <1>3 DEF Host

LEMMA CallRefines ==
  ASSUME HostTypeOK, TableRight, OneStepCall
  PROVE  Abs!Next
<1>0. pc = "idle" /\ pc' = "idle" /\ acc \in Element
  BY CallKeeps DEF HostTypeOK
<1>1. CASE OneStep({})
  <2>1. Abs!InitAcc
    BY <1>0, <1>1 DEF OneStep, Abs!InitAcc
  <2> QED
    BY <2>1 DEF Abs!Next
<1>2. CASE OneStep(Double(acc))
  <2>1. acc' = Abs!Times(acc, 1)
    BY <1>0, <1>2, TimesOneAndFour DEF OneStep
  <2>2. Abs!DoubleAcc
    BY <1>0, <1>2, <2>1 DEF OneStep, Abs!DoubleAcc
  <2> QED
    BY <2>2 DEF Abs!Next
<1>3. CASE OneStep(RightShift(acc))
  <2>1. acc' = Abs!Over(acc, 1)
    BY <1>0, <1>3, OverOne DEF OneStep
  <2>2. Abs!HalveAcc
    BY <1>0, <1>3, <2>1 DEF OneStep, Abs!HalveAcc
  <2> QED
    BY <2>2 DEF Abs!Next
<1>4. CASE OneStep(Double4(acc))
  <2>1. acc' = Abs!Times(acc, 4)
    BY <1>0, <1>4, TimesOneAndFour DEF OneStep
  <2>2. Abs!ShiftAcc
    BY <1>0, <1>4, <2>1 DEF OneStep, Abs!ShiftAcc
  <2> QED
    BY <2>2 DEF Abs!Next
<1>5. CASE key # Nil /\ OneStep(IF nibble = 0 THEN acc ELSE Xor(acc, htable[nibble]))
  <2>1. /\ acc' = Abs!Plus(acc, Abs!Dot(Abs!NibbleBits(nibble), key))
        /\ UNCHANGED <<h, temp, nibble, key>>
    BY <1>0, <1>5, EntryRight, SameOperators DEF OneStep
  <2>2. Abs!XorEntry
    BY <1>0, <1>5, <2>1 DEF Abs!XorEntry
  <2> QED
    BY <2>2 DEF Abs!Next
<1> QED
  BY <1>1, <1>2, <1>3, <1>4, <1>5 DEF OneStepCall

\* A call that begins, and one that is not over, are invisible.
LEMMA EnterHidden ==
  ASSUME pc = "idle", pc' # "idle",
         call' = [h |-> h, temp |-> temp, nibble |-> nibble, acc |-> acc, key |-> key]
  PROVE  UNCHANGED Abs!vars
BY DEF Abs!vars

LEMMA RunningHidden ==
  ASSUME pc # "idle", pc' # "idle", UNCHANGED call
  PROVE  UNCHANGED Abs!vars
BY DEF Abs!vars

LEMMA BuildRefines ==
  ASSUME CallKept, HostTypeOK', pc \notin {"idle", "multiply"}, pc' = "idle", key' = h,
         UNCHANGED <<h, nibble>>
  PROVE  Abs!Next
<1>1. call.h = h /\ call.nibble = nibble
  BY DEF CallKept
<1>2. acc' \in Abs!Element /\ temp' \in Abs!Element
  BY SameOperators DEF HostTypeOK
<1>3. Abs!Precompute
  BY <1>1, <1>2 DEF Abs!Precompute
<1> QED
  BY <1>3 DEF Abs!Next

LEMMA ProductRefines ==
  ASSUME CallKept, key # Nil, input \in {call.acc, Xor(call.acc, call.temp)},
         pc = "multiply", pc' = "idle", acc' = Abs!Dot(input, key),
         UNCHANGED <<h, temp, key>>, nibble' \in Entry
  PROVE  Abs!Next
<1>1. call.h = h /\ call.key = key /\ call.temp = temp
  BY DEF CallKept
<1>2. CASE input = call.acc
  <2>1. Abs!Multiply
    BY <1>1, <1>2 DEF Abs!Multiply, Entry
  <2> QED
    BY <2>1 DEF Abs!Next
<1>3. CASE input = Xor(call.acc, call.temp)
  <2>1. acc' = Abs!Dot(Abs!Plus(call.acc, call.temp), key)
    BY <1>3, SameOperators
  <2>2. Abs!Update
    BY <1>1, <2>1 DEF Abs!Update, Entry
  <2> QED
    BY <2>2 DEF Abs!Next
<1> QED
  BY <1>2, <1>3
=============================================================================
