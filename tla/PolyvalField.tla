---------------------------- MODULE PolyvalField ----------------------------
(***************************************************************************)
(* The field arithmetic shared by the three POLYVAL back-ends.             *)
(*                                                                         *)
(* An element is the set of the exponents of x in it: bit i of byte j of   *)
(* the code is exponent 8*j + i, EOR is symmetric difference, a ROL or ROR *)
(* chain adds one to or takes one from every exponent.  N is 128 in the    *)
(* code.  The reductions sit at the two ends of the value, so any multiple *)
(* of 8 from 16 up gives the same algorithms on shorter values.            *)
(***************************************************************************)
EXTENDS Naturals

CONSTANT N

ASSUME NAssumption == N \in Nat /\ N >= 16 /\ N % 8 = 0

Element == SUBSET (0 .. N - 1)

Xor(a, b) == (a \ b) \cup (b \ a)

\* x^N: byte 0 ^= $01, last byte ^= $C2.
LeftReduction == {0, N - 7, N - 2, N - 1}
\* 1/x: last byte ^= $E1.
RightReduction == {N - 8, N - 3, N - 2, N - 1}

Rol(a) == {i + 1 : i \in a \ {N - 1}}
Ror(a) == {i - 1 : i \in a \ {0}}

Double(a) == IF N - 1 \in a THEN Xor(Rol(a), LeftReduction) ELSE Rol(a)
RightShift(a) == IF 0 \in a THEN Xor(Ror(a), RightReduction) ELSE Ror(a)

Rol8(a) == {i + 8 : i \in a \ (N - 8 .. N - 1)}
Double4(a) == Double(Double(Double(Double(a))))

\* The numbers the code uses as table indices.
Bit(a, p) == IF p \in a THEN 1 ELSE 0
NibbleAt(a, p) ==
  Bit(a, p) + 2 * Bit(a, p + 1) + 4 * Bit(a, p + 2) + 8 * Bit(a, p + 3)
ByteAt(a, p) == NibbleAt(a, p) + 16 * NibbleAt(a, p + 4)

\* i times the element a, for a nibble i.
Term(c, a) == IF c % 2 = 1 THEN a ELSE {}
Multiple(i, a) ==
  Xor(Xor(Term(i, a), Term(i \div 2, Double(a))),
      Xor(Term(i \div 4, Double(Double(a))),
          Term(i \div 8, Double(Double(Double(a))))))

\* The powers of 1/x that a table build goes through, times a.
Halved(a, n) ==
  LET x1 == RightShift(a)
      x2 == RightShift(x1)
      x3 == RightShift(x2)
      x4 == RightShift(x3)
      x5 == RightShift(x4)
      x6 == RightShift(x5)
  IN  CASE n = 0 -> a [] n = 1 -> x1 [] n = 2 -> x2 [] n = 3 -> x3
        [] n = 4 -> x4 [] n = 5 -> x5 [] n = 6 -> x6 [] OTHER -> RightShift(x6)

\* a * (1 + 1/x + 1/x^2 + 1/x^7)
Prime(a) == Xor(Xor(Xor(a, Halved(a, 1)), Halved(a, 2)), Halved(a, 7))

\* What has been folded into the accumulator after n shifts.
Folded(a, n) ==
  CASE n = 0 -> a
    [] n = 1 -> Xor(a, Halved(a, 1))
    [] n \in 2 .. 6 -> Xor(Xor(a, Halved(a, 1)), Halved(a, 2))
    [] OTHER -> Prime(a)

\* One bit of a schoolbook multiplication by hp.
BitStep(a, b, hp) == IF b THEN Xor(Double(a), hp) ELSE Double(a)
=============================================================================
