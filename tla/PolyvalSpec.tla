----------------------------- MODULE PolyvalSpec -----------------------------
(***************************************************************************)
(* What the nine routines of src/src/polyval_api.inc promise, one step per *)
(* call, whatever the profile.  The arithmetic is the definition of RFC    *)
(* 8452 on polynomials over GF(2), with no tables and no running           *)
(* reduction: a carry-less product, then a division by x^N.                *)
(***************************************************************************)
EXTENDS Integers, FiniteSets

CONSTANTS N, Key, Block, Nil

VARIABLES
  h,        \* polyval_h
  temp,     \* polyval_temp
  nibble,   \* pv_mul_nibble
  acc,      \* polyval_acc
  key       \* the key the tables were built for

vars == <<h, temp, nibble, acc, key>>

Element == SUBSET (0 .. N - 1)
Plus(a, b) == (a \ b) \cup (b \ a)
Shifted(a, s) == {i + s : i \in a}

\* x^128 + x^127 + x^126 + x^121 + 1
Modulus == {0, N - 7, N - 2, N - 1, N}

\* The coefficient of x^e counts the pairs of exponents that add up to e.
Product(a, b) ==
  LET coefficient(e) == Cardinality({i \in a : e - i \in b})
  IN  {e \in 0 .. 2 * N - 1 : coefficient(e) % 2 = 1}

\* p / x^s for s <= N - 7: with q the low s bits of p, p + q * Modulus is a
\* multiple of x^s, for the exponents of the modulus between are N - 7 or more.
Over(p, s) ==
  LET q == p \cap (0 .. s - 1)
  IN  {i - s : i \in Plus(p, Product(Modulus, q))}

\* The remainder of x^s * a: of all it differs from by a multiple of the
\* modulus, the one of degree below N.
Times(a, s) ==
  CHOOSE r \in {Plus(Shifted(a, s), Product(Modulus, q)) : q \in SUBSET (0 .. s - 1)} :
    r \in Element

OverN(p) == Over(Over(p, N \div 2), N - N \div 2)

Dot(a, b) == OverN(Product(a, b))

NibbleBits(n) == {b \in 0 .. 3 : (n \div 2 ^ b) % 2 = 1}

Init ==
  /\ h \in Key /\ temp \in Block /\ nibble = 0
  /\ acc = {} /\ key = Nil

SetH(k) == h' = k /\ UNCHANGED <<temp, nibble, acc, key>>
SetBlock(b) == temp' = b /\ UNCHANGED <<h, nibble, acc, key>>
SetNibble(n) == nibble' = n /\ UNCHANGED <<h, temp, acc, key>>

InitAcc == acc' = {} /\ UNCHANGED <<h, temp, nibble, key>>
DoubleAcc == acc' = Times(acc, 1) /\ UNCHANGED <<h, temp, nibble, key>>
HalveAcc == acc' = Over(acc, 1) /\ UNCHANGED <<h, temp, nibble, key>>
ShiftAcc == acc' = Times(acc, 4) /\ UNCHANGED <<h, temp, nibble, key>>

\* The accumulator and the block buffer are scratch of the table build.
Precompute ==
  /\ key' = h
  /\ acc' \in Element /\ temp' \in Element
  /\ UNCHANGED <<h, nibble>>

XorEntry ==
  /\ key # Nil
  /\ UNCHANGED <<h, temp, nibble, key>>
  /\ acc' = Plus(acc, Dot(NibbleBits(nibble), key))

Multiply ==
  /\ key # Nil
  /\ UNCHANGED <<h, temp, key>>
  /\ nibble' \in 0 .. 15
  /\ acc' = Dot(acc, key)

Update ==
  /\ key # Nil
  /\ UNCHANGED <<h, temp, key>>
  /\ nibble' \in 0 .. 15
  /\ acc' = Dot(Plus(acc, temp), key)

Next ==
  \/ \E k \in Key : SetH(k)
  \/ \E b \in Block : SetBlock(b)
  \/ \E n \in 0 .. 15 : SetNibble(n)
  \/ InitAcc \/ DoubleAcc \/ HalveAcc \/ ShiftAcc
  \/ Precompute \/ XorEntry \/ Multiply \/ Update

Spec == Init /\ [][Next]_vars
=============================================================================
