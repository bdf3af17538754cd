---------------------------- MODULE PolyvalOracle ----------------------------
(***************************************************************************)
(* POLYVAL as the two references of the test suite compute it, which were  *)
(* written apart so that they do not share a mistake:                      *)
(* src/tools/polyval_reference.py, a bit-serial product and the 4-bit      *)
(* table of the 6502 code, and src/tools/hazmat_oracle.py, a carry-less    *)
(* product, a reduction by the polynomial and x^-128 by exponentiation.    *)
(*                                                                         *)
(* A 128-bit integer is the set of its bits, so ^ is the symmetric         *)
(* difference and a shift adds to every member.                            *)
(***************************************************************************)
EXTENDS Integers, Sequences

Plus(a, b) == (a \ b) \cup (b \ a)
Left(a, s) == {i + s : i \in a}
Right(a) == {i - 1 : i \in a \ {0}}
Mask(a) == a \cap (0 .. 127)

\* A loop of n passes, the first with i = 1, over a state that begins as a:
\* the first half of the passes, then the second half on what they leave.
Loop(n, Pass(_, _), a) ==
  LET RECURSIVE Run(_, _, _)
      Run(first, last, s) ==
        LET middle == (first + last) \div 2
        IN  IF first = last THEN Pass(s, first)
            ELSE CHOOSE t \in {Run(middle + 1, last, u) : u \in {Run(first, middle, s)}} : TRUE
  IN  IF n = 0 THEN a ELSE Run(1, n, a)

-----------------------------------------------------------------------------
(* polyval_reference.py *)

RightReduce == {120, 125, 126, 127}
LeftReduce == {127, 126, 121, 0}

polyval_right_shift_1(a) == IF 0 \in a THEN Plus(Right(a), RightReduce) ELSE Right(a)

polyval_double(a) ==
  IF 127 \in a THEN Plus(Mask(Left(a, 1)), LeftReduce) ELSE Mask(Left(a, 1))

polyval_shift_left_4(a) == Loop(4, LAMBDA v, i : polyval_double(v), a)

\* Variant: the number of the bit does not count.
OverflowOfFour(n) == IF n = {} THEN {} ELSE LeftReduce

\* reduce_table: what four bits pushed out at the top come to.
Overflow(n) ==
  LET bit(k) == IF k \in n THEN Loop(k, LAMBDA v, i : polyval_double(v), LeftReduce) ELSE {}
  IN  Plus(Plus(bit(0), bit(1)), Plus(bit(2), bit(3)))

polyval_shift_left_4_single_pass(a) ==
  Plus(Mask(Left(a, 4)), Overflow({i - 124 : i \in a \cap (124 .. 127)}))

\* v is a * x^-1, a * x^-2, ...; the bits of b from the top choose.
polyval_dot(a, b) ==
  LET Pass(s, i) == LET v == polyval_right_shift_1(s.v) IN
        [v |-> v, result |-> IF 128 - i \in b THEN Plus(s.result, v) ELSE s.result]
  IN  Loop(128, Pass, [v |-> a, result |-> {}]).result

polyval(hash, blocks) ==
  Loop(Len(blocks), LAMBDA s, i : polyval_dot(Plus(s, blocks[i]), hash), {})

\* Variant: an odd entry is twice the entry below its half, and one more.
EntryLate(t, i) ==
  IF i % 2 = 0 THEN polyval_double(t[i \div 2]) ELSE Plus(t[(i - 1) \div 2], t[1])

\* Entry i, from entries below.
EntryFrom(t, i) ==
  IF i % 2 = 0 THEN polyval_double(t[i \div 2]) ELSE Plus(t[i - 1], t[1])

polyval_precompute_table(hash) ==
  LET prime == Loop(128, LAMBDA v, i : polyval_right_shift_1(v), hash)
      Entry(t, i) == [t EXCEPT ![i + 1] = EntryFrom(t, i + 1)]
  IN  Loop(14, Entry, [i \in 0 .. 15 |-> IF i = 1 THEN prime ELSE {}])

\* The number in bits p .. p + 3.
NibbleOf(a, p) ==
  LET bit(k) == IF p + k \in a THEN 2 ^ k ELSE 0
  IN  bit(0) + bit(1) + bit(2) + bit(3)

\* Nibbles from the top, each after a shift by four.
polyval_multiply_table(a, table) ==
  LET Pass(r, i) == Plus(polyval_shift_left_4(r), table[NibbleOf(a, 128 - 4 * i)])
  IN  Loop(32, Pass, {})

-----------------------------------------------------------------------------
(* hazmat_oracle.py *)

Poly == {128, 127, 126, 121, 0}

\* clmul: for each bit of b, a shifted by as much.
clmul(a, b) == Loop(128, LAMBDA r, i : IF i - 1 \in b THEN Plus(r, Left(a, i - 1)) ELSE r, {})

\* One pass of reduce, for bit i.
Cleared(v, i) == IF i \in v THEN Plus(v, Left(Poly, i - 128)) ELSE v

\* reduce: bits 255 down to 128.
Reduce(a) == Loop(128, LAMBDA v, i : Cleared(v, 256 - i), a)

gf_mul(a, b) == Reduce(clmul(a, b))

\* _inv_x128: x to the power 2^128 - 1 - 128, whose bits are all but the 7th.
XInv128 ==
  LET Pass(s, i) == [base |-> gf_mul(s.base, s.base),
                     result |-> IF i = 8 THEN s.result ELSE gf_mul(s.result, s.base)]
  IN  Loop(128, Pass, [base |-> {1}, result |-> {0}]).result

dot(a, b) == gf_mul(gf_mul(a, b), XInv128)

mulX_POLYVAL(a) == Reduce(Left(a, 1))

\* polyval, on a message in blocks.
HazmatPolyval(hash, blocks) == Loop(Len(blocks), LAMBDA s, i : dot(Plus(s, blocks[i]), hash), {})

-----------------------------------------------------------------------------
(* The self-checks, with the example of RFC 8452, appendix A *)

\* The assertion behind X_INV128, and the identity _selfcheck asks for.
InverseChecked ==
  LET inverse == gf_mul(XInv128, {127})
      power(k) == Loop(k, LAMBDA v, i : gf_mul(v, inverse), {0})
  IN  /\ gf_mul(XInv128, Reduce({128})) = {0}
      /\ gf_mul(inverse, {1}) = {0}
      /\ XInv128 = Plus(Plus({0}, power(1)), Plus(power(2), power(7)))

\* ghash_mul: as polyval_dot, but v is shifted after it was added.
ghash_mul(a, b) ==
  LET Pass(s, i) == [z |-> IF 128 - i \in b THEN Plus(s.z, s.v) ELSE s.z,
                     v |-> polyval_right_shift_1(s.v)]
  IN  Loop(128, Pass, [z |-> {}, v |-> a]).z

\* POLYVAL as GHASH with the key times x.  The bytes are reversed and read
\* from the other end, which gives the same integers.
ByGhash(hash, blocks) ==
  Loop(Len(blocks), LAMBDA s, i : ghash_mul(Plus(s, blocks[i]), polyval_right_shift_1(hash)), {})
=============================================================================
