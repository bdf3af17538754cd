------------------------------ MODULE AesSpec ------------------------------
(***************************************************************************)
(* AES-256 as src/tools/hazmat_oracle.py computes it without a library and *)
(* without tables: the key schedule and the cipher, over an S-box that     *)
(* AesSbox computes.  It is the oracle the test suite holds the 6502 code  *)
(* against.  Blocks and words are tuples of bytes, column by column; a     *)
(* schedule is a tuple of sixty words.                                     *)
(***************************************************************************)
EXTENDS Integers, Sequences

CONSTANT SubByte(_)  \* SBOX

Byte == 0 .. 255

\* A power of two asks for one bit of a number.
Bit(n, power) == (n \div power) % 2

\* EOR of two bytes.
Xor(a, b) ==
  LET one(power) == power * ((Bit(a, power) + Bit(b, power)) % 2)
  IN  one(1) + one(2) + one(4) + one(8) + one(16) + one(32) + one(64) + one(128)

\* _xtime
Xtime(a) == IF a < 128 THEN 2 * a ELSE Xor(2 * a - 256, 27)

-----------------------------------------------------------------------------
(* Key schedule *)

Four(f(_)) == <<f(0), f(1), f(2), f(3)>>

\* One more word.
Extend(s) ==
  LET i == Len(s.words)
      last == s.words[i]
      fed(k) ==
        IF i % 8 = 0
        THEN Xor(SubByte(last[((k + 1) % 4) + 1]), IF k = 0 THEN s.rcon ELSE 0)
        ELSE IF i % 8 = 4 THEN SubByte(last[k + 1]) ELSE last[k + 1]
      next(k) == Xor(s.words[i - 7][k + 1], fed(k))
  IN  [words |-> Append(s.words, Four(next)),
       rcon  |-> IF i % 8 = 0 THEN Xtime(s.rcon) ELSE s.rcon]

\* A key is a function on 0 .. 31.
Schedule(key) ==
  LET word(i) == <<key[4 * i], key[4 * i + 1], key[4 * i + 2], key[4 * i + 3]>>
      after[n \in 0 .. 52] ==
        IF n = 0
        THEN [words |-> <<word(0), word(1), word(2), word(3), word(4), word(5), word(6), word(7)>>,
              rcon  |-> 1]
        ELSE Extend(after[n - 1])
  IN  after[52].words

-----------------------------------------------------------------------------
(* Cipher: rounds of substitution, row rotation, column product, key *)

Sixteen(f(_)) ==
  <<f(0), f(1), f(2), f(3), f(4), f(5), f(6), f(7),
    f(8), f(9), f(10), f(11), f(12), f(13), f(14), f(15)>>

SubBytes(s) == LET f(p) == SubByte(s[p + 1]) IN Sixteen(f)

ShiftRows(s) == LET f(p) == s[((p + 4 * (p % 4)) % 16) + 1] IN Sixteen(f)

MixColumns(s) ==
  LET a(c, i) == s[4 * c + (i % 4) + 1]
      total(c) == Xor(Xor(a(c, 0), a(c, 1)), Xor(a(c, 2), a(c, 3)))
      mixed(c, i) == Xor(Xor(a(c, i), total(c)), Xtime(Xor(a(c, i), a(c, i + 1))))
      f(p) == mixed(p \div 4, p % 4)
  IN  Sixteen(f)

AddRoundKey(s, w, n) ==
  LET f(p) == Xor(s[p + 1], w[4 * n + (p \div 4) + 1][(p % 4) + 1]) IN Sixteen(f)

Round(w, n) ==
  [s \in [1 .. 16 -> Byte] |-> AddRoundKey(MixColumns(ShiftRows(SubBytes(s))), w, n)]

\* Round 0 is the first key alone, the last has no column product.
Cipher(block, w) ==
  LET after[n \in 0 .. 13] ==
        IF n = 0 THEN AddRoundKey(block, w, 0) ELSE Round(w, n)[after[n - 1]]
  IN  AddRoundKey(ShiftRows(SubBytes(after[13])), w, 14)
=============================================================================
