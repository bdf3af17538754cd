------------------------------ MODULE AesSbox ------------------------------
(* _build_sbox of src/tools/hazmat_oracle.py: p goes through the powers of *)
(* 3, q through their inverses.                                            *)
EXTENDS AesSpec

TimesThree(p) == Xor(p, Xtime(p))

OverThree(q) ==
  LET q1 == Xor(q, (2 * q) % 256)
      q2 == Xor(q1, (4 * q1) % 256)
      q4 == Xor(q2, (16 * q2) % 256)
  IN  IF q4 < 128 THEN q4 ELSE Xor(q4, 9)

Affine(q) ==
  LET turn(k) == ((q * 2 ^ k) % 256) + ((q * 2 ^ k) \div 256)
  IN  Xor(99, Xor(Xor(q, turn(1)), Xor(Xor(turn(2), turn(3)), turn(4))))

RECURSIVE BuildSbox(_)
BuildSbox(s) ==
  LET p == TimesThree(s.p)
      q == OverThree(s.q)
      sbox == [s.sbox EXCEPT ![p + 1] = Affine(q)]
  IN  IF p = 1 THEN [sbox EXCEPT ![1] = 99] ELSE BuildSbox([p |-> p, q |-> q, sbox |-> sbox])

SBox == BuildSbox([p |-> 1, q |-> 1, sbox |-> Tail(<<0>> \o [n \in 1 .. 256 |-> 0])])
LookedUp(b) == SBox[b + 1]
=============================================================================
