----------------------------- MODULE AesProofs -----------------------------
(***************************************************************************)
(* Aes computes what AesSpec does, for every layout the build lets         *)
(* through, every key and every block.  The tables enter through           *)
(* TablesAssumption only.  Three arguments meet in the invariant: bit by   *)
(* bit, the products of the two column routines undo each other; slot by   *)
(* slot, no temporary reaches another in a layout that was accepted; round *)
(* by round, the block at a label leads to the end the oracle gives it.    *)
(***************************************************************************)
EXTENDS Aes, SequenceTheorems, NaturalsInduction, WellFoundedInduction, TLAPS

Powers == {1, 2, 4, 8, 16, 32, 64, 128}

State == [Position -> Byte]
Blk == [1 .. 16 -> Byte]         \* a block of the oracle
Expansion == [0 .. 239 -> Byte]  \* aes_expanded_key
Page == [Byte -> Byte]           \* the zero page

-----------------------------------------------------------------------------
(* Bytes, bit by bit *)

\* A byte is the sum of its bits.
LEMMA ByteBits ==
  ASSUME NEW a \in Byte
  PROVE  /\ \A p \in Powers : Bit(a, p) \in 0 .. 1
         /\ a = Bit(a, 1) + 2 * Bit(a, 2) + 4 * Bit(a, 4) + 8 * Bit(a, 8) + 16 * Bit(a, 16)
                + 32 * Bit(a, 32) + 64 * Bit(a, 64) + 128 * Bit(a, 128)
<1>1. \A p \in Powers : Bit(a, p) \in 0 .. 1
  BY DEF Bit, Byte, Powers
<1>2. a = Bit(a, 1) + 2 * Bit(a, 2) + 4 * Bit(a, 4) + 8 * Bit(a, 8) + 16 * Bit(a, 16)
                + 32 * Bit(a, 32) + 64 * Bit(a, 64) + 128 * Bit(a, 128)
  BY SMTT(60) DEF Bit, Byte
<1> QED
  BY <1>1, <1>2

\* The bits of a sum of distinct powers.
LEMMA SumBits ==
  ASSUME NEW x1 \in 0 .. 1, NEW x2 \in 0 .. 1, NEW x4 \in 0 .. 1, NEW x8 \in 0 .. 1,
         NEW x16 \in 0 .. 1, NEW x32 \in 0 .. 1, NEW x64 \in 0 .. 1, NEW x128 \in 0 .. 1,
         NEW s \in Nat,
         s = x1 + 2 * x2 + 4 * x4 + 8 * x8 + 16 * x16 + 32 * x32 + 64 * x64 + 128 * x128
  PROVE  /\ s \in Byte
         /\ Bit(s, 1) = x1 /\ Bit(s, 2) = x2 /\ Bit(s, 4) = x4 /\ Bit(s, 8) = x8
         /\ Bit(s, 16) = x16 /\ Bit(s, 32) = x32 /\ Bit(s, 64) = x64 /\ Bit(s, 128) = x128
<1>1. s \in Byte
  BY DEF Byte
<1>2. Bit(s, 1) = x1
  BY DEF Bit
<1>3. Bit(s, 2) = x2
  BY DEF Bit
<1>4. Bit(s, 4) = x4
  BY DEF Bit
<1>5. Bit(s, 8) = x8
  BY DEF Bit
<1>6. Bit(s, 16) = x16
  BY DEF Bit
<1>7. Bit(s, 32) = x32
  BY DEF Bit
<1>8. Bit(s, 64) = x64
  BY DEF Bit
<1>9. Bit(s, 128) = x128
  BY DEF Bit
<1> QED
  BY <1>1, <1>2, <1>3, <1>4, <1>5, <1>6, <1>7, <1>8, <1>9

\* EOR adds bit by bit modulo two.
LEMMA XorBits ==
  ASSUME NEW a \in Byte, NEW b \in Byte
  PROVE  /\ Xor(a, b) \in Byte
         /\ \A p \in Powers : Bit(Xor(a, b), p) = (Bit(a, p) + Bit(b, p)) % 2
<1> DEFINE one(p) == (Bit(a, p) + Bit(b, p)) % 2
<1>1. one(1) \in 0 .. 1 /\ one(2) \in 0 .. 1 /\ one(4) \in 0 .. 1 /\ one(8) \in 0 .. 1
      /\ one(16) \in 0 .. 1 /\ one(32) \in 0 .. 1 /\ one(64) \in 0 .. 1 /\ one(128) \in 0 .. 1
  BY ByteBits DEF Powers
<1>2. Xor(a, b) = one(1) + 2 * one(2) + 4 * one(4) + 8 * one(8) + 16 * one(16)
                  + 32 * one(32) + 64 * one(64) + 128 * one(128)
  BY <1>1 DEF Xor
<1> HIDE DEF one
<1>3. Xor(a, b) \in Nat
  BY <1>1, <1>2
<1>4. /\ Xor(a, b) \in Byte
      /\ Bit(Xor(a, b), 1) = one(1) /\ Bit(Xor(a, b), 2) = one(2)
      /\ Bit(Xor(a, b), 4) = one(4) /\ Bit(Xor(a, b), 8) = one(8)
      /\ Bit(Xor(a, b), 16) = one(16) /\ Bit(Xor(a, b), 32) = one(32)
      /\ Bit(Xor(a, b), 64) = one(64) /\ Bit(Xor(a, b), 128) = one(128)
  BY <1>1, <1>2, <1>3, SumBits
<1> QED
  BY <1>4 DEF one, Powers

\* Equal bits, equal bytes.
LEMMA SameBits ==
  ASSUME NEW a \in Byte, NEW b \in Byte, \A p \in Powers : Bit(a, p) = Bit(b, p)
  PROVE  a = b
<1>1. /\ Bit(a, 1) = Bit(b, 1) /\ Bit(a, 2) = Bit(b, 2) /\ Bit(a, 4) = Bit(b, 4)
      /\ Bit(a, 8) = Bit(b, 8) /\ Bit(a, 16) = Bit(b, 16) /\ Bit(a, 32) = Bit(b, 32)
      /\ Bit(a, 64) = Bit(b, 64) /\ Bit(a, 128) = Bit(b, 128)
  BY DEF Powers
<1> QED
  BY <1>1, ByteBits

LEMMA XorType ==
  \A a \in Byte, b \in Byte : Xor(a, b) \in Byte
BY XorBits

\* A byte combined twice is taken back.
LEMMA XorSelf ==
  \A a \in Byte, b \in Byte : Xor(a, a) = 0 /\ Xor(a, 0) = a /\ Xor(Xor(a, b), b) = a
<1> SUFFICES ASSUME NEW a \in Byte, NEW b \in Byte
             PROVE  Xor(a, a) = 0 /\ Xor(a, 0) = a /\ Xor(Xor(a, b), b) = a
  OBVIOUS
<1>0. 0 \in Byte /\ \A p \in Powers : Bit(0, p) = 0
  BY DEF Byte, Bit, Powers
<1>1. \A p \in Powers : Bit(a, p) \in 0 .. 1 /\ Bit(b, p) \in 0 .. 1
  BY ByteBits
<1>2. \A p \in Powers : Bit(Xor(a, a), p) = 0
  BY <1>1, XorBits
<1>3. \A p \in Powers : Bit(Xor(a, 0), p) = Bit(a, p)
  BY <1>0, <1>1, XorBits
<1>4. \A p \in Powers : Bit(Xor(Xor(a, b), b), p) = Bit(a, p)
  BY <1>1, XorBits
<1> QED
  BY <1>0, <1>2, <1>3, <1>4, XorBits, SameBits

\* Doubling moves every bit up and folds the eighth back.
LEMMA DoubleBits ==
  ASSUME NEW a \in Byte
  PROVE  /\ gf_mul2(a) \in Byte
         /\ Bit(gf_mul2(a), 1) = Bit(a, 128)
         /\ Bit(gf_mul2(a), 2) = (Bit(a, 1) + Bit(a, 128)) % 2
         /\ Bit(gf_mul2(a), 4) = Bit(a, 2)
         /\ Bit(gf_mul2(a), 8) = (Bit(a, 4) + Bit(a, 128)) % 2
         /\ Bit(gf_mul2(a), 16) = (Bit(a, 8) + Bit(a, 128)) % 2
         /\ Bit(gf_mul2(a), 32) = Bit(a, 16)
         /\ Bit(gf_mul2(a), 64) = Bit(a, 32)
         /\ Bit(gf_mul2(a), 128) = Bit(a, 64)
<1> DEFINE up == (2 * a) % 256
<1>0. a \in Nat /\ a <= 255
  BY DEF Byte
<1>1. up \in Byte /\ 27 \in Byte
  BY <1>0 DEF Byte
<1>b. \A p \in Powers : Bit(a, p) \in 0 .. 1
  BY ByteBits
<1>2. /\ Bit(up, 1) = 0 /\ Bit(up, 2) = Bit(a, 1) /\ Bit(up, 4) = Bit(a, 2)
      /\ Bit(up, 8) = Bit(a, 4) /\ Bit(up, 16) = Bit(a, 8) /\ Bit(up, 32) = Bit(a, 16)
      /\ Bit(up, 64) = Bit(a, 32) /\ Bit(up, 128) = Bit(a, 64)
  <2>1. Bit(up, 1) = 0
    BY <1>0 DEF Bit
  <2>2. Bit(up, 2) = Bit(a, 1)
    BY <1>0 DEF Bit
  <2>3. Bit(up, 4) = Bit(a, 2)
    BY <1>0 DEF Bit
  <2>4. Bit(up, 8) = Bit(a, 4)
    BY <1>0 DEF Bit
  <2>5. Bit(up, 16) = Bit(a, 8)
    BY <1>0 DEF Bit
  <2>6. Bit(up, 32) = Bit(a, 16)
    BY <1>0 DEF Bit
  <2>7. Bit(up, 64) = Bit(a, 32)
    BY <1>0 DEF Bit
  <2>8. Bit(up, 128) = Bit(a, 64)
    BY <1>0 DEF Bit
  <2> QED
    BY <2>1, <2>2, <2>3, <2>4, <2>5, <2>6, <2>7, <2>8
<1>3. /\ Bit(27, 1) = 1 /\ Bit(27, 2) = 1 /\ Bit(27, 4) = 0 /\ Bit(27, 8) = 1
      /\ Bit(27, 16) = 1 /\ Bit(27, 32) = 0 /\ Bit(27, 64) = 0 /\ Bit(27, 128) = 0
  BY DEF Bit
<1>4. CASE a < 128
  <2>1. gf_mul2(a) = up /\ Bit(a, 128) = 0
    BY <1>0, <1>4 DEF gf_mul2, Bit
  <2> QED
    BY <1>1, <1>2, <1>b, <2>1 DEF Powers
<1>5. CASE ~ (a < 128)
  <2>1. gf_mul2(a) = Xor(up, 27) /\ Bit(a, 128) = 1
    BY <1>0, <1>5 DEF gf_mul2, Bit
  <2> HIDE DEF up
  <2>2. /\ Xor(up, 27) \in Byte
        /\ \A p \in Powers : Bit(Xor(up, 27), p) = (Bit(up, p) + Bit(27, p)) % 2
    BY <1>1, XorBits
  <2> QED
    BY <1>2, <1>3, <1>b, <2>1, <2>2 DEF Powers
<1> QED
  BY <1>4, <1>5

\* Doubling distributes over EOR.
LEMMA DoubleSum ==
  \A a \in Byte, b \in Byte : gf_mul2(Xor(a, b)) = Xor(gf_mul2(a), gf_mul2(b))
<1> SUFFICES ASSUME NEW a \in Byte, NEW b \in Byte
             PROVE  gf_mul2(Xor(a, b)) = Xor(gf_mul2(a), gf_mul2(b))
  OBVIOUS
<1> DEFINE s == Xor(a, b)
           l == gf_mul2(s)
           r == Xor(gf_mul2(a), gf_mul2(b))
<1>1. /\ s \in Byte /\ l \in Byte /\ r \in Byte
      /\ gf_mul2(a) \in Byte /\ gf_mul2(b) \in Byte
  BY XorBits, DoubleBits
<1>2. \A p \in Powers : Bit(s, p) = (Bit(a, p) + Bit(b, p)) % 2 /\ Bit(a, p) \in 0 .. 1
        /\ Bit(b, p) \in 0 .. 1
  BY XorBits, ByteBits
<1>3. \A p \in Powers : Bit(r, p) = (Bit(gf_mul2(a), p) + Bit(gf_mul2(b), p)) % 2
  BY <1>1, XorBits
<1> HIDE DEF s, r
<1>4. \A p \in Powers : Bit(l, p) = Bit(r, p)
  BY <1>1, <1>2, <1>3, DoubleBits DEF Powers
<1> QED
  BY <1>1, <1>4, SameBits DEF s, r

\* A sum of four bytes, and of two of them.
LEMMA FourBits ==
  ASSUME NEW a \in Byte, NEW b \in Byte, NEW c \in Byte, NEW d \in Byte
  PROVE  /\ Xor(Xor(a, b), Xor(c, d)) \in Byte
         /\ \A p \in Powers : Bit(Xor(Xor(a, b), Xor(c, d)), p)
                 = (Bit(a, p) + Bit(b, p) + Bit(c, p) + Bit(d, p)) % 2
<1>1. Xor(a, b) \in Byte /\ Xor(c, d) \in Byte
  BY XorBits
<1>2. ASSUME NEW p \in Powers
      PROVE  Bit(Xor(Xor(a, b), Xor(c, d)), p) = (Bit(a, p) + Bit(b, p) + Bit(c, p) + Bit(d, p)) % 2
  BY <1>1, XorBits, ByteBits
<1> QED
  BY <1>1, <1>2, XorBits

LEMMA FourBit ==
  ASSUME NEW a \in Byte, NEW b \in Byte, NEW c \in Byte, NEW d \in Byte, NEW p \in Powers
  PROVE  Bit(Xor(Xor(a, b), Xor(c, d)), p) = (Bit(a, p) + Bit(b, p) + Bit(c, p) + Bit(d, p)) % 2
BY FourBits

LEMMA DoubleFourBit ==
  ASSUME NEW g \in Byte, NEW x \in Byte, NEW y \in Byte, NEW z \in Byte, NEW p \in Powers
  PROVE  Bit(gf_mul2(Xor(Xor(g, x), Xor(y, z))), p)
           = (Bit(gf_mul2(g), p) + Bit(gf_mul2(x), p) + Bit(gf_mul2(y), p) + Bit(gf_mul2(z), p)) % 2
<1>1. Xor(g, x) \in Byte /\ Xor(y, z) \in Byte
  BY XorBits
<1>2. gf_mul2(Xor(Xor(g, x), Xor(y, z))) = Xor(Xor(gf_mul2(g), gf_mul2(x)), Xor(gf_mul2(y), gf_mul2(z)))
  BY <1>1, DoubleSum
<1>3. gf_mul2(g) \in Byte /\ gf_mul2(x) \in Byte /\ gf_mul2(y) \in Byte /\ gf_mul2(z) \in Byte
  BY DoubleBits
<1>4. \A a \in Byte, b \in Byte, c \in Byte, d \in Byte :
        Bit(Xor(Xor(a, b), Xor(c, d)), p) = (Bit(a, p) + Bit(b, p) + Bit(c, p) + Bit(d, p)) % 2
  BY FourBit
<1> QED
  BY <1>2, <1>3, <1>4

-----------------------------------------------------------------------------
(* A column of the product and of its inverse *)

\* A byte of the product, from the total of its column.
LEMMA MixByte ==
  ASSUME NEW a0 \in Byte, NEW a1 \in Byte, NEW a2 \in Byte, NEW a3 \in Byte
  PROVE  Xor(Xor(gf_mul2(a0), gf_mul3(a1)), Xor(a2, a3))
           = Xor(Xor(a0, Xor(Xor(a0, a1), Xor(a2, a3))), gf_mul2(Xor(a0, a1)))
<1>1. PICK t0 \in Byte : t0 = gf_mul2(a0)
  BY DoubleBits
<1>2. PICK t1 \in Byte : t1 = gf_mul2(a1)
  BY DoubleBits
<1>3. gf_mul2(Xor(a0, a1)) = Xor(t0, t1)
  BY <1>1, <1>2, DoubleSum
<1> DEFINE l == Xor(Xor(t0, Xor(t1, a1)), Xor(a2, a3))
           r == Xor(Xor(a0, Xor(Xor(a0, a1), Xor(a2, a3))), Xor(t0, t1))
<1>4. PICK x \in Byte : x = Xor(t1, a1)
  BY XorBits
<1>5. PICK y \in Byte : y = Xor(Xor(a0, a1), Xor(a2, a3))
  BY FourBits
<1>6. l \in Byte /\ r \in Byte
  BY <1>4, <1>5, FourBits
<1>7. ASSUME NEW p \in Powers PROVE Bit(l, p) = Bit(r, p)
  <2>1. Bit(l, p) = (Bit(t0, p) + Bit(x, p) + Bit(a2, p) + Bit(a3, p)) % 2
    BY <1>4, FourBits
  <2>2. Bit(r, p) = (Bit(a0, p) + Bit(y, p) + Bit(t0, p) + Bit(t1, p)) % 2
    BY <1>5, FourBits
  <2>3. Bit(x, p) = (Bit(t1, p) + Bit(a1, p)) % 2
    BY <1>4, XorBits
  <2>4. Bit(y, p) = (Bit(a0, p) + Bit(a1, p) + Bit(a2, p) + Bit(a3, p)) % 2
    BY <1>5, FourBits
  <2>5. \A b \in Byte : Bit(b, p) \in 0 .. 1
    BY ByteBits
  <2> HIDE DEF l, r
  <2> QED
    BY <2>1, <2>2, <2>3, <2>4, <2>5
<1>8. l = r
  BY <1>6, <1>7, SameBits
<1> QED
  BY <1>1, <1>2, <1>3, <1>8 DEF gf_mul3

MixedByte(a0, a1, a2, a3) == Xor(Xor(gf_mul2(a0), gf_mul3(a1)), Xor(a2, a3))
UnmixedByte(a0, a1, a2, a3) ==
  Xor(Xor(gf_mul_0e(a0), gf_mul_0b(a1)), Xor(gf_mul_0d(a2), gf_mul_09(a3)))

\* A byte doubled two, three and four times.
By4(a) == gf_mul2(gf_mul2(a))
By8(a) == gf_mul2(By4(a))
By16(a) == gf_mul2(By8(a))

LEMMA MultipleType ==
  \A a \in Byte : gf_mul_09(a) \in Byte /\ gf_mul_0b(a) \in Byte /\ gf_mul_0d(a) \in Byte
          /\ gf_mul_0e(a) \in Byte
BY XorType, DoubleBits DEF gf_mul_09, gf_mul_0b, gf_mul_0d, gf_mul_0e, gf_mul_0c

\* Bit p of the multiples of a byte in the column products, and of their
\* doubles, before it is reduced modulo 2.
Sum9(a, p) == Bit(By8(a), p) + Bit(a, p)
Sum11(a, p) == Bit(By8(a), p) + Bit(a, p) + Bit(gf_mul2(a), p)
Sum13(a, p) == Bit(By8(a), p) + Bit(a, p) + Bit(By4(a), p)
Sum14(a, p) == Bit(By8(a), p) + Bit(By4(a), p) + Bit(gf_mul2(a), p)
Sum18(a, p) == Bit(By16(a), p) + Bit(gf_mul2(a), p)
Sum22(a, p) == Bit(By16(a), p) + Bit(gf_mul2(a), p) + Bit(By4(a), p)
Sum26(a, p) == Bit(By16(a), p) + Bit(gf_mul2(a), p) + Bit(By8(a), p)
Sum28(a, p) == Bit(By16(a), p) + Bit(By8(a), p) + Bit(By4(a), p)

LEMMA SumsInt ==
  \A a \in Byte, p \in Powers :
    /\ Sum9(a, p) \in Int /\ Sum11(a, p) \in Int /\ Sum13(a, p) \in Int /\ Sum14(a, p) \in Int
    /\ Sum18(a, p) \in Int /\ Sum22(a, p) \in Int /\ Sum26(a, p) \in Int /\ Sum28(a, p) \in Int
<1> SUFFICES ASSUME NEW a \in Byte, NEW p \in Powers
    PROVE /\ Sum9(a, p) \in Int /\ Sum11(a, p) \in Int /\ Sum13(a, p) \in Int /\ Sum14(a, p) \in Int
          /\ Sum18(a, p) \in Int /\ Sum22(a, p) \in Int /\ Sum26(a, p) \in Int /\ Sum28(a, p) \in Int
  OBVIOUS
<1>1. gf_mul2(a) \in Byte /\ By4(a) \in Byte /\ By8(a) \in Byte /\ By16(a) \in Byte
  BY DoubleBits DEF By4, By8, By16
<1>2. /\ Bit(a, p) \in Int /\ Bit(gf_mul2(a), p) \in Int /\ Bit(By4(a), p) \in Int
      /\ Bit(By8(a), p) \in Int /\ Bit(By16(a), p) \in Int
  BY <1>1, ByteBits
<1> QED
  BY <1>2 DEF Sum9, Sum11, Sum13, Sum14, Sum18, Sum22, Sum26, Sum28

\* The bits of the multiples by 9, 11, 13 and 14 and of their doubles.
LEMMA MultipleBits ==
  ASSUME NEW a \in Byte, NEW p \in Powers
  PROVE  /\ Bit(gf_mul_09(a), p) = Sum9(a, p) % 2 /\ Bit(gf_mul_0b(a), p) = Sum11(a, p) % 2
         /\ Bit(gf_mul_0d(a), p) = Sum13(a, p) % 2 /\ Bit(gf_mul_0e(a), p) = Sum14(a, p) % 2
         /\ Bit(gf_mul2(gf_mul_09(a)), p) = Sum18(a, p) % 2
         /\ Bit(gf_mul2(gf_mul_0b(a)), p) = Sum22(a, p) % 2
         /\ Bit(gf_mul2(gf_mul_0d(a)), p) = Sum26(a, p) % 2
         /\ Bit(gf_mul2(gf_mul_0e(a)), p) = Sum28(a, p) % 2
<1>1. PICK d \in Byte : d = gf_mul2(a)
  BY DoubleBits
<1>2. PICK q \in Byte : q = gf_mul2(d)
  BY DoubleBits
<1>3. PICK e \in Byte : e = gf_mul2(q)
  BY DoubleBits
<1>4. PICK f \in Byte : f = gf_mul2(e)
  BY DoubleBits
<1>d. By4(a) = q /\ By8(a) = e /\ By16(a) = f
  BY <1>1, <1>2, <1>3, <1>4 DEF By4, By8, By16
<1>b. \A x \in Byte : Bit(x, p) \in 0 .. 1
  BY ByteBits
<1>0. \A x \in Byte, y \in Byte : Xor(x, y) \in Byte /\ Bit(Xor(x, y), p) = (Bit(x, p) + Bit(y, p)) % 2
  BY XorBits
<1>5. /\ gf_mul_09(a) = Xor(e, a) /\ gf_mul_0b(a) = Xor(Xor(e, a), d)
      /\ gf_mul_0d(a) = Xor(Xor(e, a), q) /\ gf_mul_0e(a) = Xor(Xor(e, q), d)
  BY <1>1, <1>2, <1>3 DEF gf_mul_09, gf_mul_0b, gf_mul_0d, gf_mul_0e, gf_mul_0c
<1>6. Xor(e, a) \in Byte /\ Xor(e, q) \in Byte
  BY <1>0
<1>7. gf_mul2(Xor(e, a)) = Xor(f, d) /\ gf_mul2(Xor(e, q)) = Xor(f, e)
  BY <1>1, <1>3, <1>4, DoubleSum
<1>8. /\ gf_mul2(Xor(Xor(e, a), d)) = Xor(Xor(f, d), q)
      /\ gf_mul2(Xor(Xor(e, a), q)) = Xor(Xor(f, d), e)
      /\ gf_mul2(Xor(Xor(e, q), d)) = Xor(Xor(f, e), q)
  BY <1>2, <1>3, <1>6, <1>7, DoubleSum
<1>9. Xor(f, d) \in Byte /\ Xor(f, e) \in Byte
  BY <1>0
<1>10. /\ Bit(gf_mul_09(a), p) = (Bit(e, p) + Bit(a, p)) % 2
       /\ Bit(gf_mul_0b(a), p) = (Bit(e, p) + Bit(a, p) + Bit(d, p)) % 2
       /\ Bit(gf_mul_0d(a), p) = (Bit(e, p) + Bit(a, p) + Bit(q, p)) % 2
       /\ Bit(gf_mul_0e(a), p) = (Bit(e, p) + Bit(q, p) + Bit(d, p)) % 2
  BY <1>b, <1>0, <1>5, <1>6
<1>11. /\ Bit(gf_mul2(gf_mul_09(a)), p) = (Bit(f, p) + Bit(d, p)) % 2
       /\ Bit(gf_mul2(gf_mul_0b(a)), p) = (Bit(f, p) + Bit(d, p) + Bit(q, p)) % 2
       /\ Bit(gf_mul2(gf_mul_0d(a)), p) = (Bit(f, p) + Bit(d, p) + Bit(e, p)) % 2
       /\ Bit(gf_mul2(gf_mul_0e(a)), p) = (Bit(f, p) + Bit(e, p) + Bit(q, p)) % 2
  BY <1>b, <1>0, <1>5, <1>7, <1>8, <1>9
<1> QED
  BY <1>1, <1>d, <1>10, <1>11 DEF Sum9, Sum11, Sum13, Sum14, Sum18, Sum22, Sum26, Sum28

\* Only what is odd in a sum counts.
LEMMA Parity ==
  ASSUME NEW i \in Int, NEW j \in Int, NEW k \in Int, NEW l \in Int
  PROVE  ((i % 2) + (j % 2) + (k % 2) + (l % 2)) % 2 = (i + j + k + l) % 2
OBVIOUS

\* One inverse product and its double, bit by bit.
LEMMA UnmixedBits ==
  ASSUME NEW a \in Byte, NEW b \in Byte, NEW c \in Byte, NEW d \in Byte, NEW p \in Powers
  PROVE  /\ UnmixedByte(a, b, c, d) \in Byte
         /\ Bit(UnmixedByte(a, b, c, d), p) = (Sum14(a, p) + Sum11(b, p) + Sum13(c, p) + Sum9(d, p)) % 2
         /\ Bit(gf_mul2(UnmixedByte(a, b, c, d)), p)
                 = (Sum28(a, p) + Sum22(b, p) + Sum26(c, p) + Sum18(d, p)) % 2
<1>1. PICK g \in Byte : g = gf_mul_0e(a)
  BY MultipleType
<1>2. PICK x \in Byte : x = gf_mul_0b(b)
  BY MultipleType
<1>3. PICK y \in Byte : y = gf_mul_0d(c)
  BY MultipleType
<1>4. PICK z \in Byte : z = gf_mul_09(d)
  BY MultipleType
<1>5. UnmixedByte(a, b, c, d) = Xor(Xor(g, x), Xor(y, z))
  BY <1>1, <1>2, <1>3, <1>4 DEF UnmixedByte
<1>6. UnmixedByte(a, b, c, d) \in Byte
  BY <1>5, FourBits
<1>7. Bit(UnmixedByte(a, b, c, d), p) = (Bit(g, p) + Bit(x, p) + Bit(y, p) + Bit(z, p)) % 2
  BY <1>5, FourBits
<1>8. Bit(gf_mul2(UnmixedByte(a, b, c, d)), p)
        = (Bit(gf_mul2(g), p) + Bit(gf_mul2(x), p) + Bit(gf_mul2(y), p) + Bit(gf_mul2(z), p)) % 2
  BY <1>5, DoubleFourBit
<1>9. /\ Bit(g, p) = Sum14(a, p) % 2 /\ Bit(x, p) = Sum11(b, p) % 2
      /\ Bit(y, p) = Sum13(c, p) % 2 /\ Bit(z, p) = Sum9(d, p) % 2
  BY <1>1, <1>2, <1>3, <1>4, MultipleBits
<1>10. /\ Bit(gf_mul2(g), p) = Sum28(a, p) % 2 /\ Bit(gf_mul2(x), p) = Sum22(b, p) % 2
       /\ Bit(gf_mul2(y), p) = Sum26(c, p) % 2 /\ Bit(gf_mul2(z), p) = Sum18(d, p) % 2
  BY <1>1, <1>2, <1>3, <1>4, MultipleBits
<1>11. /\ Sum14(a, p) \in Int /\ Sum11(b, p) \in Int /\ Sum13(c, p) \in Int /\ Sum9(d, p) \in Int
       /\ Sum28(a, p) \in Int /\ Sum22(b, p) \in Int /\ Sum26(c, p) \in Int /\ Sum18(d, p) \in Int
  BY SumsInt
<1>12. Bit(UnmixedByte(a, b, c, d), p) = (Sum14(a, p) + Sum11(b, p) + Sum13(c, p) + Sum9(d, p)) % 2
  BY <1>7, <1>9, <1>11, Parity
<1>13. Bit(gf_mul2(UnmixedByte(a, b, c, d)), p)
        = (Sum28(a, p) + Sum22(b, p) + Sum26(c, p) + Sum18(d, p)) % 2
  BY <1>8, <1>10, <1>11, Parity
<1> QED
  BY <1>6, <1>12, <1>13

\* The product with 2 3 1 1 undoes the product with 14 11 13 9.
LEMMA MixUnmixed ==
  ASSUME NEW a \in Byte, NEW b \in Byte, NEW c \in Byte, NEW d \in Byte
  PROVE  MixedByte(UnmixedByte(a, b, c, d), UnmixedByte(b, c, d, a),
                   UnmixedByte(c, d, a, b), UnmixedByte(d, a, b, c)) = a
<1>1. PICK g \in Byte : g = UnmixedByte(a, b, c, d)
  BY UnmixedBits DEF Powers
<1>2. PICK x \in Byte : x = UnmixedByte(b, c, d, a)
  BY UnmixedBits DEF Powers
<1>3. PICK y \in Byte : y = UnmixedByte(c, d, a, b)
  BY UnmixedBits DEF Powers
<1>4. PICK z \in Byte : z = UnmixedByte(d, a, b, c)
  BY UnmixedBits DEF Powers
<1>5. PICK dw \in Byte, dx \in Byte : dw = gf_mul2(g) /\ dx = gf_mul2(x)
  BY DoubleBits
<1>6. PICK tx \in Byte : tx = Xor(dx, x)
  BY XorBits
<1>m. MixedByte(g, x, y, z) = Xor(Xor(dw, tx), Xor(y, z))
  BY <1>5, <1>6 DEF MixedByte, gf_mul3
<1>7. MixedByte(g, x, y, z) \in Byte
  BY <1>m, FourBits
<1>8. ASSUME NEW p \in Powers PROVE Bit(MixedByte(g, x, y, z), p) = Bit(a, p)
  <2>1. /\ Bit(dw, p) = (Sum28(a, p) + Sum22(b, p) + Sum26(c, p) + Sum18(d, p)) % 2
        /\ Bit(dx, p) = (Sum28(b, p) + Sum22(c, p) + Sum26(d, p) + Sum18(a, p)) % 2
        /\ Bit(x, p) = (Sum14(b, p) + Sum11(c, p) + Sum13(d, p) + Sum9(a, p)) % 2
        /\ Bit(y, p) = (Sum14(c, p) + Sum11(d, p) + Sum13(a, p) + Sum9(b, p)) % 2
        /\ Bit(z, p) = (Sum14(d, p) + Sum11(a, p) + Sum13(b, p) + Sum9(c, p)) % 2
    BY <1>1, <1>2, <1>3, <1>4, <1>5, UnmixedBits
  <2>2. \A v \in {a, b, c, d} :
          /\ Sum9(v, p) \in Int /\ Sum11(v, p) \in Int /\ Sum13(v, p) \in Int /\ Sum14(v, p) \in Int
          /\ Sum18(v, p) \in Int /\ Sum22(v, p) \in Int /\ Sum26(v, p) \in Int /\ Sum28(v, p) \in Int
    BY SumsInt
  <2>3. /\ Sum28(a, p) + Sum22(b, p) + Sum26(c, p) + Sum18(d, p) \in Int
        /\ Sum28(b, p) + Sum22(c, p) + Sum26(d, p) + Sum18(a, p) \in Int
        /\ Sum14(b, p) + Sum11(c, p) + Sum13(d, p) + Sum9(a, p) \in Int
        /\ Sum14(c, p) + Sum11(d, p) + Sum13(a, p) + Sum9(b, p) \in Int
        /\ Sum14(d, p) + Sum11(a, p) + Sum13(b, p) + Sum9(c, p) \in Int
    BY <2>2
  <2>i. PICK i \in Int : i = Sum28(a, p) + Sum22(b, p) + Sum26(c, p) + Sum18(d, p)
    BY <2>3
  <2>j. PICK j0 \in Int : j0 = Sum28(b, p) + Sum22(c, p) + Sum26(d, p) + Sum18(a, p)
    BY <2>3
  <2>s. PICK j1 \in Int : j1 = Sum14(b, p) + Sum11(c, p) + Sum13(d, p) + Sum9(a, p)
    BY <2>3
  <2>k. PICK k \in Int : k = Sum14(c, p) + Sum11(d, p) + Sum13(a, p) + Sum9(b, p)
    BY <2>3
  <2>l. PICK l \in Int : l = Sum14(d, p) + Sum11(a, p) + Sum13(b, p) + Sum9(c, p)
    BY <2>3
  <2>4. Bit(dw, p) = i % 2 /\ Bit(dx, p) = j0 % 2 /\ Bit(x, p) = j1 % 2 /\ Bit(y, p) = k % 2
          /\ Bit(z, p) = l % 2
    BY <2>1, <2>i, <2>j, <2>s, <2>k, <2>l
  <2>5. Bit(tx, p) = (Bit(dx, p) + Bit(x, p)) % 2
    BY <1>6, XorBits
  <2>6. PICK j \in Int : j = j0 + j1
    OBVIOUS
  <2>7. Bit(tx, p) = j % 2
    BY <2>4, <2>5, <2>6
  <2>8. Bit(MixedByte(g, x, y, z), p) = (Bit(dw, p) + Bit(tx, p) + Bit(y, p) + Bit(z, p)) % 2
    <3>1. Bit(Xor(Xor(dw, tx), Xor(y, z)), p) = (Bit(dw, p) + Bit(tx, p) + Bit(y, p) + Bit(z, p)) % 2
      BY FourBit
    <3> QED
      BY <1>m, <3>1
  <2>9. Bit(MixedByte(g, x, y, z), p) = (i + j + k + l) % 2
    BY <2>4, <2>7, <2>8, Parity
  <2>10. PICK h \in Int : i + j + k + l = Bit(a, p) + 2 * h
    <3>1. PICK a1 \in Int, a2 \in Int, a4 \in Int, a8 \in Int, a16 \in Int :
           /\ a1 = Bit(a, p) /\ a2 = Bit(gf_mul2(a), p) /\ a4 = Bit(By4(a), p)
           /\ a8 = Bit(By8(a), p) /\ a16 = Bit(By16(a), p)
      BY ByteBits, DoubleBits DEF By4, By8, By16
    <3>2. PICK b1 \in Int, b2 \in Int, b4 \in Int, b8 \in Int, b16 \in Int :
           /\ b1 = Bit(b, p) /\ b2 = Bit(gf_mul2(b), p) /\ b4 = Bit(By4(b), p)
           /\ b8 = Bit(By8(b), p) /\ b16 = Bit(By16(b), p)
      BY ByteBits, DoubleBits DEF By4, By8, By16
    <3>3. PICK c1 \in Int, c2 \in Int, c4 \in Int, c8 \in Int, c16 \in Int :
           /\ c1 = Bit(c, p) /\ c2 = Bit(gf_mul2(c), p) /\ c4 = Bit(By4(c), p)
           /\ c8 = Bit(By8(c), p) /\ c16 = Bit(By16(c), p)
      BY ByteBits, DoubleBits DEF By4, By8, By16
    <3>4. PICK d1 \in Int, d2 \in Int, d4 \in Int, d8 \in Int, d16 \in Int :
           /\ d1 = Bit(d, p) /\ d2 = Bit(gf_mul2(d), p) /\ d4 = Bit(By4(d), p)
           /\ d8 = Bit(By8(d), p) /\ d16 = Bit(By16(d), p)
      BY ByteBits, DoubleBits DEF By4, By8, By16
    <3>5. /\ Sum9(a, p) = a8 + a1 /\ Sum11(a, p) = a8 + a1 + a2
           /\ Sum13(a, p) = a8 + a1 + a4 /\ Sum14(a, p) = a8 + a4 + a2
           /\ Sum18(a, p) = a16 + a2 /\ Sum22(a, p) = a16 + a2 + a4
           /\ Sum26(a, p) = a16 + a2 + a8 /\ Sum28(a, p) = a16 + a8 + a4
      BY <3>1 DEF Sum9, Sum11, Sum13, Sum14, Sum18, Sum22, Sum26, Sum28
    <3>6. /\ Sum9(b, p) = b8 + b1 /\ Sum11(b, p) = b8 + b1 + b2
           /\ Sum13(b, p) = b8 + b1 + b4 /\ Sum14(b, p) = b8 + b4 + b2
           /\ Sum18(b, p) = b16 + b2 /\ Sum22(b, p) = b16 + b2 + b4
           /\ Sum26(b, p) = b16 + b2 + b8 /\ Sum28(b, p) = b16 + b8 + b4
      BY <3>2 DEF Sum9, Sum11, Sum13, Sum14, Sum18, Sum22, Sum26, Sum28
    <3>7. /\ Sum9(c, p) = c8 + c1 /\ Sum11(c, p) = c8 + c1 + c2
           /\ Sum13(c, p) = c8 + c1 + c4 /\ Sum14(c, p) = c8 + c4 + c2
           /\ Sum18(c, p) = c16 + c2 /\ Sum22(c, p) = c16 + c2 + c4
           /\ Sum26(c, p) = c16 + c2 + c8 /\ Sum28(c, p) = c16 + c8 + c4
      BY <3>3 DEF Sum9, Sum11, Sum13, Sum14, Sum18, Sum22, Sum26, Sum28
    <3>8. /\ Sum9(d, p) = d8 + d1 /\ Sum11(d, p) = d8 + d1 + d2
           /\ Sum13(d, p) = d8 + d1 + d4 /\ Sum14(d, p) = d8 + d4 + d2
           /\ Sum18(d, p) = d16 + d2 /\ Sum22(d, p) = d16 + d2 + d4
           /\ Sum26(d, p) = d16 + d2 + d8 /\ Sum28(d, p) = d16 + d8 + d4
      BY <3>4 DEF Sum9, Sum11, Sum13, Sum14, Sum18, Sum22, Sum26, Sum28
    <3>9. i = a16 + a8 + a4 + b16 + b2 + b4 + c16 + c2 + c8 + d16 + d2
      BY <2>i, <3>5, <3>6, <3>7, <3>8
    <3>10. j0 = b16 + b8 + b4 + c16 + c2 + c4 + d16 + d2 + d8 + a16 + a2
      BY <2>j, <3>5, <3>6, <3>7, <3>8
    <3>11. j1 = b8 + b4 + b2 + c8 + c1 + c2 + d8 + d1 + d4 + a8 + a1
      BY <2>s, <3>5, <3>6, <3>7, <3>8
    <3>12. k = c8 + c4 + c2 + d8 + d1 + d2 + a8 + a1 + a4 + b8 + b1
      BY <2>k, <3>5, <3>6, <3>7, <3>8
    <3>13. l = d8 + d4 + d2 + a8 + a1 + a2 + b8 + b1 + b4 + c8 + c1
      BY <2>l, <3>5, <3>6, <3>7, <3>8
    <3>14. i + j + k + l
            = a1 + 2 * (a1 + a16 + a2 + a4 + 2 * a8 + b1 + b16 + b2 + 2 * b4 + 2 * b8 + c1 + c16
                    + 2 * c2 + c4 + 2 * c8 + d1 + d16 + 2 * d2 + d4 + 2 * d8)
      BY <2>6, <3>9, <3>10, <3>11, <3>12, <3>13
    <3>15. PICK h \in Int : h
            = a1 + a16 + a2 + a4 + 2 * a8 + b1 + b16 + b2 + 2 * b4 + 2 * b8 + c1 + c16 + 2 * c2
                    + c4 + 2 * c8 + d1 + d16 + 2 * d2 + d4 + 2 * d8
      OBVIOUS
    <3>16. i + j + k + l = Bit(a, p) + 2 * h
      BY <3>1, <3>14, <3>15
    <3> QED
      BY <3>16
  <2>11. Bit(a, p) \in 0 .. 1
    BY ByteBits
  <2>12. (Bit(a, p) + 2 * h) % 2 = Bit(a, p)
    BY <2>11
  <2> QED
    BY <2>9, <2>10, <2>12
<1> QED
  BY <1>1, <1>2, <1>3, <1>4, <1>7, <1>8, SameBits

-----------------------------------------------------------------------------
(* The routines on a block, against the oracle's *)

LEMMA SubBytesIs ==
  ASSUME NEW s
  PROVE  SubBytes(s) = [n \in 1 .. 16 |-> SubByte(s[n])]
BY DEF SubBytes, Sixteen

LEMMA ShiftRowsIs ==
  ASSUME NEW s
  PROVE  ShiftRows(s) = [n \in 1 .. 16 |-> s[(((n - 1) + 4 * ((n - 1) % 4)) % 16) + 1]]
BY DEF ShiftRows, Sixteen

LEMMA AddRoundKeyIs ==
  ASSUME NEW s, NEW u, NEW r \in Nat
  PROVE  AddRoundKey(s, u, r)
          = [n \in 1 .. 16 |-> Xor(s[n], u[4 * r + ((n - 1) \div 4) + 1][((n - 1) % 4) + 1])]
BY DEF AddRoundKey, Sixteen

\* A byte of a schedule, in its word.
LEMMA WordsAt ==
  ASSUME NEW f \in Expansion, NEW j \in 1 .. 60, NEW k \in 0 .. 3
  PROVE  Words(f)[j][k + 1] = f[4 * (j - 1) + k]
<1>1. Words(f)[j] = <<f[4 * j - 4], f[4 * j - 3], f[4 * j - 2], f[4 * j - 1]>>
  BY DEF Words
<1>2. k = 0 \/ k = 1 \/ k = 2 \/ k = 3
  OBVIOUS
<1> QED
  BY <1>1, <1>2

LEMMA Substituted ==
  ASSUME NEW st \in State
  PROVE  Tuple([x \in Position |-> sbox(st[x])]) = SubBytes(Tuple(st))
<1>1. SubBytes(Tuple(st)) = [n \in 1 .. 16 |-> SubByte(Tuple(st)[n])]
  BY SubBytesIs
<1>2. \A n \in 1 .. 16 : n - 1 \in Position /\ st[n - 1] \in Byte
  BY DEF State, Position
<1> QED
  BY <1>1, <1>2, TablesAssumption DEF Tuple

LEMMA Unsubstituted ==
  ASSUME NEW st \in State
  PROVE  SubBytes(Tuple([x \in Position |-> inv_sbox(st[x])])) = Tuple(st)
<1> DEFINE s == Tuple([x \in Position |-> inv_sbox(st[x])])
<1>1. SubBytes(s) = [n \in 1 .. 16 |-> SubByte(s[n])]
  BY SubBytesIs
<1>2. \A n \in 1 .. 16 : n - 1 \in Position /\ st[n - 1] \in Byte
  BY DEF State, Position
<1>3. \A n \in 1 .. 16 : s[n] = inv_sbox(st[n - 1])
  BY <1>2 DEF Tuple
<1>4. \A n \in 1 .. 16 : SubByte(s[n]) = st[n - 1]
  BY <1>2, <1>3, TablesAssumption
<1> QED
  BY <1>1, <1>4 DEF Tuple

LEMMA Shifted ==
  ASSUME NEW st \in State
  PROVE  Tuple([x \in Position |-> st[Rotated(x)]]) = ShiftRows(Tuple(st))
<1> DEFINE from(n) == ((n - 1) + 4 * ((n - 1) % 4)) % 16
<1>1. ShiftRows(Tuple(st)) = [n \in 1 .. 16 |-> Tuple(st)[from(n) + 1]]
  BY ShiftRowsIs
<1>2. \A n \in 1 .. 16 : n - 1 \in Position /\ from(n) \in Position /\ Rotated(n - 1) = from(n)
  BY DEF Position, Rotated
<1> HIDE DEF from
<1>3. \A n \in 1 .. 16 : Tuple(st)[from(n) + 1] = st[from(n)]
  BY <1>2 DEF Tuple, Position
<1>4. \A n \in 1 .. 16 : Tuple([x \in Position |-> st[Rotated(x)]])[n] = st[from(n)]
  BY <1>2 DEF Tuple
<1> QED
  BY <1>1, <1>3, <1>4 DEF Tuple

LEMMA Unshifted ==
  ASSUME NEW st \in State
  PROVE  ShiftRows(Tuple([x \in Position |-> CASE x % 4 = 0 -> st[x]
                                [] x % 4 = 1 -> st[(x + 12) % 16]
                                [] x % 4 = 2 -> st[(x + 8) % 16]
                                [] x % 4 = 3 -> st[(x + 4) % 16]])) = Tuple(st)
<1> DEFINE from(n) == ((n - 1) + 4 * ((n - 1) % 4)) % 16
           g == [x \in Position |-> CASE x % 4 = 0 -> st[x]
                                [] x % 4 = 1 -> st[(x + 12) % 16]
                                [] x % 4 = 2 -> st[(x + 8) % 16]
                                [] x % 4 = 3 -> st[(x + 4) % 16]]
<1>1. ShiftRows(Tuple(g)) = [n \in 1 .. 16 |-> Tuple(g)[from(n) + 1]]
  BY ShiftRowsIs
<1>2. \A n \in 1 .. 16 : from(n) \in Position
  BY DEF Position
<1>3. \A x \in Position : g[x] = st[(x + 12 * (x % 4)) % 16]
  BY DEF Position
<1>4. \A n \in 1 .. 16 : (from(n) + 12 * (from(n) % 4)) % 16 = n - 1
  OBVIOUS
<1> HIDE DEF from, g
<1>5. \A n \in 1 .. 16 : Tuple(g)[from(n) + 1] = g[from(n)]
  BY <1>2 DEF Tuple, Position
<1>6. \A n \in 1 .. 16 : Tuple(g)[from(n) + 1] = st[n - 1]
  BY <1>2, <1>3, <1>4, <1>5
<1> QED
  BY <1>1, <1>6 DEF Tuple, g

\* A round key, as the code adds it and as the oracle does.
LEMMA KeyAdded ==
  ASSUME NEW st \in State, NEW f \in Expansion, NEW r \in 0 .. 14
  PROVE  /\ Tuple([x \in Position |-> Xor(st[x], f[16 * r + x])]) = AddRoundKey(Tuple(st), Words(f), r)
         /\ AddRoundKey(Tuple(st), Words(f), r) = [n \in 1 .. 16 |-> Xor(st[n - 1], f[16 * r + (n - 1)])]
<1>1. ASSUME NEW n \in 1 .. 16
      PROVE  Words(f)[4 * r + ((n - 1) \div 4) + 1][((n - 1) % 4) + 1] = f[16 * r + (n - 1)]
  <2>1. PICK j \in 1 .. 60 : j = 4 * r + ((n - 1) \div 4) + 1
    OBVIOUS
  <2>2. PICK k \in 0 .. 3 : k = (n - 1) % 4
    OBVIOUS
  <2>3. Words(f)[j][k + 1] = f[4 * (j - 1) + k]
    BY WordsAt
  <2>4. 4 * (j - 1) + k = 16 * r + (n - 1)
    BY <2>1, <2>2
  <2> QED
    BY <2>1, <2>2, <2>3, <2>4
<1>2. AddRoundKey(Tuple(st), Words(f), r)
        = [n \in 1 .. 16 |-> Xor(Tuple(st)[n], Words(f)[4 * r + ((n - 1) \div 4) + 1][((n - 1) % 4) + 1])]
  BY AddRoundKeyIs
<1>3. \A n \in 1 .. 16 : Tuple(st)[n] = st[n - 1] /\ n - 1 \in Position
  BY DEF Tuple, Position
<1> QED
  BY <1>1, <1>2, <1>3 DEF Tuple

\* A round key added twice is taken back.
LEMMA KeyTwice ==
  ASSUME NEW st \in State, NEW f \in Expansion, NEW r \in 0 .. 14
  PROVE  /\ [x \in Position |-> Xor(st[x], f[16 * r + x])] \in State
         /\ AddRoundKey(Tuple([x \in Position |-> Xor(st[x], f[16 * r + x])]), Words(f), r) = Tuple(st)
<1> DEFINE g == [x \in Position |-> Xor(st[x], f[16 * r + x])]
<1>1. \A x \in Position : st[x] \in Byte /\ f[16 * r + x] \in Byte
  BY DEF State, Position, Expansion
<1>2. g \in State
  BY <1>1, XorType DEF State
<1>3. \A x \in Position : Xor(g[x], f[16 * r + x]) = st[x]
  BY <1>1, XorSelf
<1>4. \A n \in 1 .. 16 : n - 1 \in Position
  BY DEF Position
<1> HIDE DEF g
<1>5. AddRoundKey(Tuple(g), Words(f), r) = [n \in 1 .. 16 |-> Xor(g[n - 1], f[16 * r + (n - 1)])]
  BY <1>2, KeyAdded
<1> QED
  BY <1>2, <1>3, <1>4, <1>5 DEF g, Tuple

-----------------------------------------------------------------------------
(* Columns of a block *)

\* The total of a column does not depend on where it starts.
LEMMA FourTurn ==
  ASSUME NEW a \in Byte, NEW b \in Byte, NEW c \in Byte, NEW d \in Byte
  PROVE  Xor(Xor(a, b), Xor(c, d)) = Xor(Xor(b, c), Xor(d, a))
<1>1. Xor(Xor(a, b), Xor(c, d)) \in Byte /\ Xor(Xor(b, c), Xor(d, a)) \in Byte
  BY FourBits
<1>2. ASSUME NEW p \in Powers
      PROVE  Bit(Xor(Xor(a, b), Xor(c, d)), p) = Bit(Xor(Xor(b, c), Xor(d, a)), p)
  <2>1. Bit(a, p) \in Int /\ Bit(b, p) \in Int /\ Bit(c, p) \in Int /\ Bit(d, p) \in Int
    BY ByteBits
  <2>2. Bit(Xor(Xor(a, b), Xor(c, d)), p) = (Bit(a, p) + Bit(b, p) + Bit(c, p) + Bit(d, p)) % 2
    BY FourBit
  <2>3. Bit(Xor(Xor(b, c), Xor(d, a)), p) = (Bit(b, p) + Bit(c, p) + Bit(d, p) + Bit(a, p)) % 2
    BY FourBit
  <2> QED
    BY <2>1, <2>2, <2>3
<1> QED
  BY <1>1, <1>2, SameBits

\* The byte of a column product, as the oracle computes it.
LEMMA OracleMix ==
  ASSUME NEW a \in Byte, NEW b \in Byte, NEW c \in Byte, NEW d \in Byte
  PROVE  Xor(Xor(a, Xor(Xor(a, b), Xor(c, d))), Xtime(Xor(a, b))) = MixedByte(a, b, c, d)
<1>1. Xor(a, b) \in Byte
  BY XorType
<1>2. \A x \in Byte : Xtime(x) = gf_mul2(x)
  <2> SUFFICES ASSUME NEW x \in Byte PROVE Xtime(x) = gf_mul2(x)
    OBVIOUS
  <2>1. ~ (x < 128) => (2 * x) % 256 = 2 * x - 256
    BY DEF Byte
  <2> QED
    BY <2>1 DEF Xtime, gf_mul2
<1> QED
  BY <1>1, <1>2, MixByte DEF MixedByte

\* Byte k of the column that holds byte q, counted around.
Beside(s, q, k) == s[4 * (q \div 4) + ((q + k) % 4) + 1]

LEMMA MixColumnsIs ==
  ASSUME NEW s \in Blk
  PROVE  MixColumns(s)
           = [n \in 1 .. 16 |-> MixedByte(Beside(s, n - 1, 0), Beside(s, n - 1, 1),
                                         Beside(s, n - 1, 2), Beside(s, n - 1, 3))]
<1> DEFINE a(c, i) == s[4 * c + (i % 4) + 1]
           total(c) == Xor(Xor(a(c, 0), a(c, 1)), Xor(a(c, 2), a(c, 3)))
           mixed(c, i) == Xor(Xor(a(c, i), total(c)), Xtime(Xor(a(c, i), a(c, i + 1))))
<1>1. MixColumns(s) = [n \in 1 .. 16 |-> mixed((n - 1) \div 4, (n - 1) % 4)]
  BY DEF MixColumns, Sixteen
<1>2. ASSUME NEW c \in 0 .. 3, NEW i \in 0 .. 3
      PROVE  mixed(c, i) = MixedByte(s[4 * c + i + 1], s[4 * c + ((i + 1) % 4) + 1],
                                    s[4 * c + ((i + 2) % 4) + 1], s[4 * c + ((i + 3) % 4) + 1])
  <2>1. PICK x0 \in Byte, x1 \in Byte, x2 \in Byte, x3 \in Byte :
          x0 = s[4 * c + 1] /\ x1 = s[4 * c + 2] /\ x2 = s[4 * c + 3] /\ x3 = s[4 * c + 4]
    BY DEF Blk
  <2>2. a(c, 0) = x0 /\ a(c, 1) = x1 /\ a(c, 2) = x2 /\ a(c, 3) = x3 /\ a(c, 4) = x0
    BY <2>1
  <2>3. total(c) = Xor(Xor(x0, x1), Xor(x2, x3))
    BY <2>2
  <2> HIDE DEF total
  <2>4. /\ total(c) = Xor(Xor(x1, x2), Xor(x3, x0)) /\ total(c) = Xor(Xor(x2, x3), Xor(x0, x1))
        /\ total(c) = Xor(Xor(x3, x0), Xor(x1, x2))
    BY <2>3, FourTurn
  <2>5. CASE i = 0
    <3>1. a(c, i) = x0 /\ a(c, i + 1) = x1
      BY <2>1, <2>5
    <3>2. mixed(c, i) = Xor(Xor(x0, Xor(Xor(x0, x1), Xor(x2, x3))), Xtime(Xor(x0, x1)))
      BY <2>3, <3>1
    <3>3. mixed(c, i) = MixedByte(x0, x1, x2, x3)
      BY <3>2, OracleMix
    <3> QED
      BY <2>1, <2>5, <3>3
  <2>6. CASE i = 1
    <3>1. a(c, i) = x1 /\ a(c, i + 1) = x2
      BY <2>1, <2>6
    <3>2. mixed(c, i) = Xor(Xor(x1, Xor(Xor(x1, x2), Xor(x3, x0))), Xtime(Xor(x1, x2)))
      BY <2>4, <3>1
    <3>3. mixed(c, i) = MixedByte(x1, x2, x3, x0)
      BY <3>2, OracleMix
    <3> QED
      BY <2>1, <2>6, <3>3
  <2>7. CASE i = 2
    <3>1. a(c, i) = x2 /\ a(c, i + 1) = x3
      BY <2>1, <2>7
    <3>2. mixed(c, i) = Xor(Xor(x2, Xor(Xor(x2, x3), Xor(x0, x1))), Xtime(Xor(x2, x3)))
      BY <2>4, <3>1
    <3>3. mixed(c, i) = MixedByte(x2, x3, x0, x1)
      BY <3>2, OracleMix
    <3> QED
      BY <2>1, <2>7, <3>3
  <2>8. CASE i = 3
    <3>1. a(c, i) = x3 /\ a(c, i + 1) = x0
      BY <2>1, <2>8
    <3>2. mixed(c, i) = Xor(Xor(x3, Xor(Xor(x3, x0), Xor(x1, x2))), Xtime(Xor(x3, x0)))
      BY <2>4, <3>1
    <3>3. mixed(c, i) = MixedByte(x3, x0, x1, x2)
      BY <3>2, OracleMix
    <3> QED
      BY <2>1, <2>8, <3>3
  <2> QED
    BY <2>5, <2>6, <2>7, <2>8
<1> HIDE DEF mixed
<1>3. ASSUME NEW n \in 1 .. 16
      PROVE  mixed((n - 1) \div 4, (n - 1) % 4)
               = MixedByte(Beside(s, n - 1, 0), Beside(s, n - 1, 1), Beside(s, n - 1, 2), Beside(s,
                       n - 1, 3))
  <2>1. PICK c \in 0 .. 3, i \in 0 .. 3 : c = (n - 1) \div 4 /\ i = (n - 1) % 4
    OBVIOUS
  <2>2. /\ ((n - 1) + 0) % 4 = i /\ ((n - 1) + 1) % 4 = (i + 1) % 4
        /\ ((n - 1) + 2) % 4 = (i + 2) % 4 /\ ((n - 1) + 3) % 4 = (i + 3) % 4
    BY <2>1
  <2>3. /\ Beside(s, n - 1, 0) = s[4 * c + i + 1] /\ Beside(s, n - 1, 1) = s[4 * c + ((i + 1) % 4) + 1]
        /\ Beside(s, n - 1, 2) = s[4 * c + ((i + 2) % 4) + 1]
                /\ Beside(s, n - 1, 3) = s[4 * c + ((i + 3) % 4) + 1]
    BY <2>1, <2>2 DEF Beside
  <2> QED
    BY <1>2, <2>1, <2>3
<1> QED
  BY <1>1, <1>3

\* A block whose first c columns have been mixed.
Partly(s, c) == [n \in 1 .. 16 |-> IF n <= 4 * c THEN MixColumns(s)[n] ELSE s[n]]

LEMMA TupleType ==
  ASSUME NEW st \in State
  PROVE  Tuple(st) \in Blk /\ \A n \in 1 .. 16 : Tuple(st)[n] = st[n - 1] /\ n - 1 \in Position
BY DEF Tuple, State, Position, Blk

LEMMA MixedByteType ==
  \A a \in Byte, b \in Byte, c \in Byte, d \in Byte : MixedByte(a, b, c, d) \in Byte
BY DoubleBits, XorType DEF MixedByte, gf_mul3

LEMMA MixType ==
  ASSUME NEW s \in Blk
  PROVE  /\ MixColumns(s) \in Blk
         /\ \A n \in 1 .. 16 :
              MixColumns(s)[n] = MixedByte(Beside(s, n - 1, 0), Beside(s, n - 1, 1),
                                           Beside(s, n - 1, 2), Beside(s, n - 1, 3))
<1>1. \A a \in Byte, b \in Byte, c \in Byte, d \in Byte : MixedByte(a, b, c, d) \in Byte
  BY MixedByteType
<1>2. ASSUME NEW n \in 1 .. 16, NEW k \in 0 .. 3 PROVE Beside(s, n - 1, k) \in Byte
  <2>1. 4 * ((n - 1) \div 4) + (((n - 1) + k) % 4) + 1 \in 1 .. 16
    OBVIOUS
  <2> QED
    BY <2>1 DEF Beside, Blk
<1>3. ASSUME NEW n \in 1 .. 16
      PROVE  MixedByte(Beside(s, n - 1, 0), Beside(s, n - 1, 1), Beside(s, n - 1, 2), Beside(s,
              n - 1, 3)) \in Byte
  <2>1. /\ Beside(s, n - 1, 0) \in Byte /\ Beside(s, n - 1, 1) \in Byte
        /\ Beside(s, n - 1, 2) \in Byte /\ Beside(s, n - 1, 3) \in Byte
    BY <1>2
  <2> QED
    BY <1>1, <2>1
<1> QED
  BY <1>3, MixColumnsIs DEF Blk

\* Before the first column and after the last.
LEMMA PartlyEnds ==
  ASSUME NEW s \in Blk
  PROVE  Partly(s, 0) = s /\ Partly(s, 4) = MixColumns(s)
<1>1. MixColumns(s) \in Blk
  BY MixType
<1> QED
  BY <1>1 DEF Partly, Blk

\* Beside within the column of a byte.
LEMMA BesideIs ==
  ASSUME NEW st \in State, NEW n \in 1 .. 16, NEW k \in 0 .. 3
  PROVE  Beside(Tuple(st), n - 1, k) = st[4 * ((n - 1) \div 4) + (((n - 1) + k) % 4)]
<1>1. PICK m \in 1 .. 16 : m = 4 * ((n - 1) \div 4) + (((n - 1) + k) % 4) + 1
  OBVIOUS
<1>2. Tuple(st)[m] = st[m - 1]
  BY TupleType
<1>3. m - 1 = 4 * ((n - 1) \div 4) + (((n - 1) + k) % 4)
  BY <1>1
<1> QED
  BY <1>1, <1>2, <1>3 DEF Beside

\* One column of the inverse product takes back one column of the product.
LEMMA ColumnUnmixed ==
  ASSUME NEW st \in State, NEW c \in 0 .. 3, NEW new \in State,
         \A p \in Position : ~ (p \in 4 * c .. 4 * c + 3) => new[p] = st[p],
         \A p \in 4 * c .. 4 * c + 3 :
           new[p] = UnmixedByte(st[4 * c + (p % 4)], st[4 * c + ((p + 1) % 4)],
                                st[4 * c + ((p + 2) % 4)], st[4 * c + ((p + 3) % 4)])
  PROVE  Partly(Tuple(new), c + 1) = Partly(Tuple(st), c)
<1>1. ASSUME NEW n \in 1 .. 16, n <= 4 * c
      PROVE  MixColumns(Tuple(new))[n] = MixColumns(Tuple(st))[n]
  <2>1. \A k \in 0 .. 3 : Beside(Tuple(new), n - 1, k) = Beside(Tuple(st), n - 1, k)
    <3> SUFFICES ASSUME NEW k \in 0 .. 3 PROVE Beside(Tuple(new), n - 1, k) = Beside(Tuple(st), n - 1, k)
      OBVIOUS
    <3>1. PICK p \in Position : p = 4 * ((n - 1) \div 4) + (((n - 1) + k) % 4)
      BY DEF Position
    <3>2. p < 4 * c
      BY <1>1, <3>1
    <3>3. new[p] = st[p]
      BY <3>2 DEF Position
    <3> QED
      BY <3>1, <3>3, BesideIs
  <2>2. Tuple(new) \in Blk /\ Tuple(st) \in Blk
    BY TupleType
  <2> QED
    BY <2>1, <2>2, MixType
<1>2. ASSUME NEW n \in 1 .. 16, n > 4 * c, n <= 4 * c + 4
      PROVE  MixColumns(Tuple(new))[n] = st[n - 1]
  <2>1. PICK i \in 0 .. 3 : i = (n - 1) % 4
    OBVIOUS
  <2>2. (n - 1) \div 4 = c /\ n - 1 = 4 * c + i
    BY <1>2, <2>1
  <2>3. PICK a \in Byte, b \in Byte, d \in Byte, e \in Byte :
          /\ a = st[4 * c + i] /\ b = st[4 * c + ((i + 1) % 4)]
          /\ d = st[4 * c + ((i + 2) % 4)] /\ e = st[4 * c + ((i + 3) % 4)]
    BY DEF State, Position
  <2>4. ASSUME NEW k \in 0 .. 3
        PROVE  Beside(Tuple(new), n - 1, k)
                 = UnmixedByte(st[4 * c + ((i + k) % 4)], st[4 * c + ((i + k + 1) % 4)],
                               st[4 * c + ((i + k + 2) % 4)], st[4 * c + ((i + k + 3) % 4)])
    <3>1. PICK p \in 4 * c .. 4 * c + 3 : p = 4 * c + (((n - 1) + k) % 4)
      OBVIOUS
    <3>2. Beside(Tuple(new), n - 1, k) = new[p]
      BY <2>2, <3>1, BesideIs
    <3>3. /\ p % 4 = (i + k) % 4 /\ (p + 1) % 4 = (i + k + 1) % 4
          /\ (p + 2) % 4 = (i + k + 2) % 4 /\ (p + 3) % 4 = (i + k + 3) % 4
      BY <2>2, <3>1
    <3> QED
      BY <3>2, <3>3
  <2>5. /\ Beside(Tuple(new), n - 1, 0) = UnmixedByte(a, b, d, e)
        /\ Beside(Tuple(new), n - 1, 1) = UnmixedByte(b, d, e, a)
        /\ Beside(Tuple(new), n - 1, 2) = UnmixedByte(d, e, a, b)
        /\ Beside(Tuple(new), n - 1, 3) = UnmixedByte(e, a, b, d)
    <3>1. /\ (i + 0) % 4 = i /\ (i + 4) % 4 = i /\ (i + 5) % 4 = (i + 1) % 4 /\ (i + 6) % 4 = (i + 2) % 4
      OBVIOUS
    <3>2. Beside(Tuple(new), n - 1, 0) = UnmixedByte(a, b, d, e)
      <4>1. /\ (i + 0) % 4 = i /\ (i + 0 + 1) % 4 = (i + 1) % 4
            /\ (i + 0 + 2) % 4 = (i + 2) % 4 /\ (i + 0 + 3) % 4 = (i + 3) % 4
        OBVIOUS
      <4> QED
        BY <2>3, <2>4, <4>1
    <3>3. Beside(Tuple(new), n - 1, 1) = UnmixedByte(b, d, e, a)
      <4>1. /\ (i + 1 + 1) % 4 = (i + 2) % 4
            /\ (i + 1 + 2) % 4 = (i + 3) % 4 /\ (i + 1 + 3) % 4 = i
        OBVIOUS
      <4> QED
        BY <2>3, <2>4, <4>1
    <3>4. Beside(Tuple(new), n - 1, 2) = UnmixedByte(d, e, a, b)
      <4>1. /\ (i + 2 + 1) % 4 = (i + 3) % 4
            /\ (i + 2 + 2) % 4 = i /\ (i + 2 + 3) % 4 = (i + 1) % 4
        OBVIOUS
      <4> QED
        BY <2>3, <2>4, <4>1
    <3>5. Beside(Tuple(new), n - 1, 3) = UnmixedByte(e, a, b, d)
      <4>1. /\ (i + 3 + 1) % 4 = i
            /\ (i + 3 + 2) % 4 = (i + 1) % 4 /\ (i + 3 + 3) % 4 = (i + 2) % 4
        OBVIOUS
      <4> QED
        BY <2>3, <2>4, <4>1
    <3> QED
      BY <3>2, <3>3, <3>4, <3>5
  <2>6. MixColumns(Tuple(new))[n] = MixedByte(Beside(Tuple(new), n - 1, 0), Beside(Tuple(new), n - 1, 1),
                                             Beside(Tuple(new), n - 1, 2), Beside(Tuple(new), n - 1, 3))
    BY TupleType, MixType
  <2>7. MixedByte(UnmixedByte(a, b, d, e), UnmixedByte(b, d, e, a), UnmixedByte(d, e, a, b),
          UnmixedByte(e, a, b, d)) = a
    BY MixUnmixed
  <2> QED
    BY <2>2, <2>3, <2>5, <2>6, <2>7
<1>3. \A n \in 1 .. 16 : /\ Tuple(new)[n] = new[n - 1] /\ Tuple(st)[n] = st[n - 1]
                         /\ n > 4 * c + 4 => new[n - 1] = st[n - 1]
  BY TupleType DEF Position
<1>4. \A n \in 1 .. 16 : (IF n <= 4 * (c + 1) THEN MixColumns(Tuple(new))[n] ELSE Tuple(new)[n])
                           = (IF n <= 4 * c THEN MixColumns(Tuple(st))[n] ELSE Tuple(st)[n])
  <2> SUFFICES ASSUME NEW n \in 1 .. 16
      PROVE (IF n <= 4 * (c + 1) THEN MixColumns(Tuple(new))[n] ELSE Tuple(new)[n])
               = (IF n <= 4 * c THEN MixColumns(Tuple(st))[n] ELSE Tuple(st)[n])
    OBVIOUS
  <2>1. CASE n <= 4 * c
    BY <1>1, <2>1
  <2>2. CASE n > 4 * c /\ n <= 4 * c + 4
    BY <1>2, <1>3, <2>2
  <2>3. CASE n > 4 * c + 4
    BY <1>3, <2>3
  <2> QED
    BY <2>1, <2>2, <2>3
<1> QED
  BY <1>4 DEF Partly

\* One column of the product.
LEMMA ColumnMixed ==
  ASSUME NEW st \in State, NEW c \in 0 .. 3, NEW new \in State, NEW s \in Blk,
         Tuple(st) = Partly(s, c),
         \A p \in Position : ~ (p \in 4 * c .. 4 * c + 3) => new[p] = st[p],
         \A p \in 4 * c .. 4 * c + 3 :
           new[p] = MixedByte(st[4 * c + (p % 4)], st[4 * c + ((p + 1) % 4)],
                              st[4 * c + ((p + 2) % 4)], st[4 * c + ((p + 3) % 4)])
  PROVE  Tuple(new) = Partly(s, c + 1)
<1>1. \A n \in 1 .. 16 : n > 4 * c => st[n - 1] = s[n]
  BY TupleType DEF Partly
<1>2. ASSUME NEW n \in 1 .. 16, n > 4 * c, n <= 4 * c + 4
      PROVE  new[n - 1] = MixColumns(s)[n]
  <2>1. PICK p \in 4 * c .. 4 * c + 3 : p = n - 1
    BY <1>2
  <2>2. p \div 4 = c
    OBVIOUS
  <2>3. ASSUME NEW k \in 0 .. 3 PROVE Beside(s, n - 1, k) = st[4 * c + ((p + k) % 4)]
    <3>1. PICK m \in 1 .. 16 : m = 4 * c + ((p + k) % 4) + 1
      OBVIOUS
    <3>2. Beside(s, n - 1, k) = s[m]
      BY <2>1, <2>2, <3>1 DEF Beside
    <3>3. m > 4 * c /\ m - 1 = 4 * c + ((p + k) % 4)
      BY <3>1
    <3> QED
      BY <1>1, <3>2, <3>3
  <2>4. p + 0 = p
    OBVIOUS
  <2>5. /\ Beside(s, n - 1, 0) = st[4 * c + (p % 4)] /\ Beside(s, n - 1, 1) = st[4 * c + ((p + 1) % 4)]
        /\ Beside(s, n - 1, 2) = st[4 * c + ((p + 2) % 4)]
                /\ Beside(s, n - 1, 3) = st[4 * c + ((p + 3) % 4)]
    BY <2>3, <2>4
  <2> QED
    BY <2>1, <2>5, MixType
<1>3. ASSUME NEW n \in 1 .. 16
      PROVE  Tuple(new)[n] = IF n <= 4 * (c + 1) THEN MixColumns(s)[n] ELSE s[n]
  <2>1. Tuple(new)[n] = new[n - 1] /\ Tuple(st)[n] = st[n - 1] /\ n - 1 \in Position
    BY TupleType
  <2>2. CASE n <= 4 * c
    <3>1. new[n - 1] = st[n - 1]
      BY <2>1, <2>2
    <3>2. Tuple(st)[n] = MixColumns(s)[n]
      BY <2>2 DEF Partly
    <3> QED
      BY <2>1, <2>2, <3>1, <3>2
  <2>3. CASE n > 4 * c /\ n <= 4 * c + 4
    BY <1>2, <2>1, <2>3
  <2>4. CASE n > 4 * c + 4
    <3>1. new[n - 1] = st[n - 1]
      BY <2>1, <2>4
    <3> QED
      BY <1>1, <2>1, <2>4, <3>1
  <2> QED
    BY <2>2, <2>3, <2>4
<1>4. Tuple(new) \in Blk
  BY TupleType
<1> QED
  BY <1>3, <1>4 DEF Partly, Blk

-----------------------------------------------------------------------------
(* Induction over the natural numbers *)

\* A set of naturals that is not empty has a least element.
LEMMA LeastOf ==
  ASSUME NEW T, T \subseteq Nat, T # {}
  PROVE  \E m \in T : \A n \in T : m <= n
<1> DEFINE R == OpToRel(<, Nat)
<1>1. \A x \in Nat, y \in Nat : x < y => <<x, y>> \in R
  BY DEF OpToRel
<1>2. IsWellFoundedOn(R, Nat)
  BY NatLessThanWellFounded
<1> HIDE DEF R
<1>3. PICK m \in T : \A y \in T : ~ (<<y, m>> \in R)
  BY <1>2, WFMin
<1>4. \A n \in T : m \in Nat /\ n \in Nat /\ ~ (n < m)
  BY <1>1, <1>3
<1> QED
  BY <1>3, <1>4

\* A set with 0 and the successor of each member has all naturals.
LEMMA Induct ==
  ASSUME NEW S, 0 \in S, \A n \in Nat : n \in S => n + 1 \in S
  PROVE  Nat \subseteq S
<1> SUFFICES ASSUME ~ (Nat \subseteq S) PROVE FALSE
  OBVIOUS
<1>1. PICK m \in Nat \ S : \A n \in Nat \ S : m <= n
  BY LeastOf
<1>2. m # 0 /\ m - 1 \in Nat
  BY <1>1
<1>3. m - 1 \in S
  BY <1>1, <1>2
<1> QED
  BY <1>1, <1>2, <1>3

\* A sequence of states is determined by the first and the step.
LEMMA SameSteps ==
  ASSUME NEW N \in Nat, NEW f, NEW g, f[0] = g[0],
         \A n \in 1 .. N : f[n - 1] = g[n - 1] => f[n] = g[n]
  PROVE  \A n \in 0 .. N : f[n] = g[n]
<1> DEFINE S == {n \in Nat : n <= N => f[n] = g[n]}
<1>1. 0 \in S
  OBVIOUS
<1>2. ASSUME NEW n \in Nat, n \in S PROVE n + 1 \in S
  <2>1. CASE n + 1 <= N
    <3>1. PICK k \in 1 .. N : k = n + 1 /\ k - 1 = n
      BY <2>1
    <3>2. f[k - 1] = g[k - 1]
      BY <1>2, <2>1, <3>1
    <3>3. f[k] = g[k]
      BY <3>2
    <3> QED
      BY <3>1, <3>3
  <2>2. CASE ~ (n + 1 <= N)
    BY <2>2
  <2> QED
    BY <2>1, <2>2
<1> HIDE DEF S
<1>3. Nat \subseteq S
  BY <1>1, <1>2, Induct
<1> QED
  BY <1>3 DEF S

\* Such a sequence exists.
StepsOn(V, N) == [1 .. N -> [V -> V]]
Walks(V, N, first, step) == {c \in [0 .. N -> V] : c[0] = first
        /\ \A n \in 1 .. N : c[n] = step[n][c[n - 1]]}

LEMMA Steps ==
  ASSUME NEW V, NEW N \in Nat, NEW first \in V, NEW step \in StepsOn(V, N)
  PROVE  Walks(V, N, first, step) # {}
<1> USE DEF StepsOn
<1> DEFINE Good(k) == \E c \in [0 .. N -> V] : c[0] = first /\ \A n \in 1 .. N : n <= k
                 => c[n] = step[n][c[n - 1]]
           S == {k \in Nat : Good(k)}
<1>1. 0 \in S
  <2>1. PICK c \in [0 .. N -> V] : c = [n \in 0 .. N |-> first]
    OBVIOUS
  <2>2. c[0] = first
    BY <2>1
  <2>3. \A n \in 1 .. N : n <= 0 => c[n] = step[n][c[n - 1]]
    OBVIOUS
  <2>4. Good(0)
    BY <2>2, <2>3
  <2> QED
    BY <2>4
<1>2. ASSUME NEW k \in Nat, k \in S PROVE k + 1 \in S
  <2>1. PICK c \in [0 .. N -> V] : c[0] = first /\ \A n \in 1 .. N : n <= k => c[n] = step[n][c[n - 1]]
    BY <1>2
  <2>2. CASE k + 1 > N
    BY <2>1, <2>2
  <2>3. CASE k + 1 <= N
    <3>1. PICK j \in 1 .. N : j = k + 1 /\ j - 1 = k
      BY <2>3
    <3>2. k \in 0 .. N /\ c[k] \in V
      BY <2>1, <2>3
    <3>3. step[j] \in [V -> V]
      OBVIOUS
    <3>4. PICK v \in V : v = step[j][c[k]]
      BY <3>2, <3>3
    <3> DEFINE d == [n \in 0 .. N |-> IF n = j THEN v ELSE c[n]]
    <3>5. d \in [0 .. N -> V]
      BY <2>1, <3>4
    <3>6. d[0] = first
      BY <2>1
    <3>7. \A n \in 1 .. N : n <= k + 1 => d[n] = step[n][d[n - 1]]
      <4> SUFFICES ASSUME NEW n \in 1 .. N, n <= k + 1 PROVE d[n] = step[n][d[n - 1]]
        OBVIOUS
      <4>1. CASE n = j
        <5>1. d[n] = v /\ d[n - 1] = c[k]
          BY <3>1, <4>1
        <5> QED
          BY <3>4, <4>1, <5>1
      <4>2. CASE n # j
        <5>1. n <= k /\ n - 1 # j /\ n - 1 \in 0 .. N
          BY <3>1, <4>2
        <5>2. d[n] = c[n] /\ d[n - 1] = c[n - 1]
          BY <4>2, <5>1
        <5> QED
          BY <2>1, <5>1, <5>2
      <4> QED
        BY <4>1, <4>2
    <3> HIDE DEF d
    <3>8. Good(k + 1)
      BY <3>5, <3>6, <3>7
    <3> QED
      BY <3>8
  <2> QED
    BY <2>2, <2>3
<1> HIDE DEF S
<1>3. N \in S
  BY <1>1, <1>2, Induct
<1> QED
  BY <1>3 DEF S, Walks

-----------------------------------------------------------------------------
(* The rounds of the oracle *)

Sub(s) == ShiftRows(SubBytes(s))
Stage(s, u, n) == Sub(AddRoundKey(MixColumns(s), u, n))

\* s, before the column product of round r + 1, is encrypted to out.
Leads(u, r, s, out) ==
  \E c \in [0 .. 13 -> Blk] :
    /\ c[r] = s
    /\ \A n \in 1 .. 13 : n > r => c[n] = Stage(c[n - 1], u, n)
    /\ out = AddRoundKey(c[13], u, 14)

LEMMA SubType ==
  ASSUME NEW s \in Blk
  PROVE  SubBytes(s) \in Blk /\ ShiftRows(s) \in Blk /\ Sub(s) \in Blk
<1>1. ASSUME NEW t \in Blk PROVE SubBytes(t) \in Blk
  BY SubBytesIs, TablesAssumption DEF Blk
<1>2. ASSUME NEW t \in Blk PROVE ShiftRows(t) \in Blk
  <2>1. ShiftRows(t) = [n \in 1 .. 16 |-> t[(((n - 1) + 4 * ((n - 1) % 4)) % 16) + 1]]
    BY ShiftRowsIs
  <2>2. \A n \in 1 .. 16 : (((n - 1) + 4 * ((n - 1) % 4)) % 16) + 1 \in 1 .. 16
    OBVIOUS
  <2> QED
    BY <2>1, <2>2 DEF Blk
<1> QED
  BY <1>1, <1>2 DEF Sub

LEMMA KeyType ==
  ASSUME NEW s \in Blk, NEW f \in Expansion, NEW r \in 0 .. 14
  PROVE  AddRoundKey(s, Words(f), r) \in Blk
<1>0. \A x \in Position : s[x + 1] \in Byte
  BY DEF Blk, Position
<1>1. PICK st \in State : st = [x \in Position |-> s[x + 1]]
  BY <1>0 DEF State
<1>2. s = Tuple(st)
  BY <1>1 DEF Tuple, Blk, Position
<1>3. Tuple([x \in Position |-> Xor(st[x], f[16 * r + x])]) \in Blk
  BY KeyTwice, TupleType
<1> QED
  BY <1>2, <1>3, KeyAdded

LEMMA StageType ==
  ASSUME NEW s \in Blk, NEW f \in Expansion, NEW r \in 0 .. 14
  PROVE  Stage(s, Words(f), r) \in Blk
BY KeyType, MixType, SubType DEF Stage

\* One round forward, and one back.
LEMMA LeadsUp ==
  ASSUME NEW u, NEW r \in 0 .. 12, NEW s, NEW out, Leads(u, r, s, out)
  PROVE  Leads(u, r + 1, Stage(s, u, r + 1), out)
<1>1. PICK c \in [0 .. 13 -> Blk] :
        /\ c[r] = s
        /\ \A n \in 1 .. 13 : n > r => c[n] = Stage(c[n - 1], u, n)
        /\ out = AddRoundKey(c[13], u, 14)
  BY DEF Leads
<1>2. PICK q \in 1 .. 13 : q = r + 1 /\ q - 1 = r
  OBVIOUS
<1>3. c[q] = Stage(s, u, q)
  BY <1>1, <1>2
<1>4. \A n \in 1 .. 13 : n > q => c[n] = Stage(c[n - 1], u, n)
  BY <1>1, <1>2
<1>5. Leads(u, q, Stage(s, u, q), out)
  BY <1>1, <1>3, <1>4 DEF Leads
<1> QED
  BY <1>2, <1>5

LEMMA LeadsDown ==
  ASSUME NEW u, NEW r \in 1 .. 13, NEW s \in Blk, NEW out, Leads(u, r, Stage(s, u, r), out)
  PROVE  Leads(u, r - 1, s, out)
<1>1. PICK c \in [0 .. 13 -> Blk] :
        /\ c[r] = Stage(s, u, r)
        /\ \A n \in 1 .. 13 : n > r => c[n] = Stage(c[n - 1], u, n)
        /\ out = AddRoundKey(c[13], u, 14)
  BY DEF Leads
<1>2. PICK q \in 0 .. 12 : q = r - 1
  OBVIOUS
<1> DEFINE d == [n \in 0 .. 13 |-> IF n = q THEN s ELSE c[n]]
<1>3. d \in [0 .. 13 -> Blk] /\ d[q] = s /\ \A n \in 0 .. 13 : n # q => d[n] = c[n]
  OBVIOUS
<1> HIDE DEF d
<1>4. ASSUME NEW n \in 1 .. 13, n > q PROVE d[n] = Stage(d[n - 1], u, n)
  <2>1. CASE n = r
    <3>1. d[n] = c[r] /\ d[n - 1] = s
      BY <1>2, <1>3, <2>1
    <3> QED
      BY <1>1, <2>1, <3>1
  <2>2. CASE n # r
    <3>1. n > r /\ n - 1 \in 0 .. 13 /\ n - 1 # q
      BY <1>2, <1>4, <2>2
    <3>2. d[n] = c[n] /\ d[n - 1] = c[n - 1]
      BY <1>3, <1>4, <3>1
    <3> QED
      BY <1>1, <3>1, <3>2
  <2> QED
    BY <2>1, <2>2
<1>5. d[13] = c[13]
  BY <1>3
<1>6. Leads(u, q, s, out)
  BY <1>1, <1>3, <1>4, <1>5 DEF Leads
<1> QED
  BY <1>2, <1>6

LEMMA LeadsLast ==
  ASSUME NEW u, NEW s, NEW out
  PROVE  /\ Leads(u, 13, s, out) => out = AddRoundKey(s, u, 14)
         /\ s \in Blk => Leads(u, 13, s, AddRoundKey(s, u, 14))
<1>1. Leads(u, 13, s, out) => out = AddRoundKey(s, u, 14)
  BY DEF Leads
<1>2. ASSUME s \in Blk PROVE Leads(u, 13, s, AddRoundKey(s, u, 14))
  <2>1. PICK c \in [0 .. 13 -> Blk] : c = [n \in 0 .. 13 |-> s]
    BY <1>2
  <2>2. c[13] = s
    BY <2>1
  <2>3. \A n \in 1 .. 13 : ~ (n > 13)
    OBVIOUS
  <2> QED
    BY <2>2, <2>3 DEF Leads
<1> QED
  BY <1>1, <1>2

\* What the whole of the rounds leads to is what Cipher returns.
LEMMA LeadsCipher ==
  ASSUME NEW f \in Expansion, NEW block \in Blk, NEW out,
         Leads(Words(f), 0, Sub(AddRoundKey(block, Words(f), 0)), out)
  PROVE  out = Cipher(block, Words(f))
<1> DEFINE u == Words(f)
<1>t. ASSUME NEW s \in Blk, NEW r \in 0 .. 14 PROVE AddRoundKey(s, u, r) \in Blk
  BY KeyType
<1>0. Leads(u, 0, Sub(AddRoundKey(block, u, 0)), out)
  OBVIOUS
<1> HIDE DEF u
<1>1. PICK c \in [0 .. 13 -> Blk] :
        /\ c[0] = Sub(AddRoundKey(block, u, 0))
        /\ \A n \in 1 .. 13 : n > 0 => c[n] = Stage(c[n - 1], u, n)
        /\ out = AddRoundKey(c[13], u, 14)
  BY <1>0 DEF Leads
<1> DEFINE b == [n \in 0 .. 13 |-> IF n = 0 THEN AddRoundKey(block, u, 0)
                 ELSE AddRoundKey(MixColumns(c[n - 1]), u, n)]
<1>2. ASSUME NEW n \in 0 .. 13 PROVE c[n] = Sub(b[n])
  <2>1. CASE n = 0
    BY <1>1, <2>1
  <2>2. CASE n # 0
    BY <1>1, <2>2 DEF Stage
  <2> QED
    BY <2>1, <2>2
<1>3. b[0] = AddRoundKey(block, u, 0)
  OBVIOUS
<1>b. ASSUME NEW n \in 0 .. 13 PROVE b[n] \in Blk
  <2>1. CASE n = 0
    BY <1>t, <1>3, <2>1
  <2>2. CASE n # 0
    <3>1. MixColumns(c[n - 1]) \in Blk
      BY <2>2, MixType
    <3> QED
      BY <1>t, <2>2, <3>1
  <2> QED
    BY <2>1, <2>2
<1>4. ASSUME NEW n \in 1 .. 13 PROVE b[n] = Round(u, n)[b[n - 1]]
  <2>1. b[n] = AddRoundKey(MixColumns(c[n - 1]), u, n)
    OBVIOUS
  <2>2. n - 1 \in 0 .. 13
    OBVIOUS
  <2> HIDE DEF b
  <2>3. c[n - 1] = ShiftRows(SubBytes(b[n - 1]))
    BY <1>2, <2>2 DEF Sub
  <2>4. b[n - 1] \in [1 .. 16 -> Byte]
    BY <1>b, <2>2 DEF Blk
  <2> QED
    BY <2>1, <2>3, <2>4 DEF Round
<1>5. b = [n \in 0 .. 13 |-> b[n]]
  OBVIOUS
<1> HIDE DEF b
<1> DEFINE after[n \in 0 .. 13] == IF n = 0 THEN AddRoundKey(block, u, 0) ELSE Round(u, n)[after[n - 1]]
<1>6. b = [n \in 0 .. 13 |-> IF n = 0 THEN AddRoundKey(block, u, 0) ELSE Round(u, n)[b[n - 1]]]
  BY <1>3, <1>4, <1>5
<1>7. after = [n \in 0 .. 13 |-> IF n = 0 THEN AddRoundKey(block, u, 0) ELSE Round(u, n)[after[n - 1]]]
  BY <1>6
<1>8. Cipher(block, u) = AddRoundKey(ShiftRows(SubBytes(after[13])), u, 14)
  BY DEF Cipher
<1> HIDE DEF after
<1>9. after[0] = b[0]
  BY <1>3, <1>7
<1>10. \A n \in 1 .. 13 : after[n - 1] = b[n - 1] => after[n] = b[n]
  BY <1>4, <1>7
<1>11. \A n \in 0 .. 13 : after[n] = b[n]
  BY <1>9, <1>10, SameSteps
<1>12. c[13] = ShiftRows(SubBytes(after[13]))
  BY <1>2, <1>11 DEF Sub
<1>13. out = Cipher(block, u)
  BY <1>1, <1>8, <1>12
<1> QED
  BY <1>13 DEF u

\* The rounds of the oracle exist for every block.
LEMMA CipherLeads ==
  ASSUME NEW f \in Expansion, NEW block \in Blk
  PROVE  Leads(Words(f), 0, Sub(AddRoundKey(block, Words(f), 0)), Cipher(block, Words(f)))
<1> DEFINE u == Words(f)
           first == Sub(AddRoundKey(block, u, 0))
           step == [n \in 1 .. 13 |-> [s \in Blk |-> Stage(s, u, n)]]
<1>1. first \in Blk
  BY KeyType, SubType
<1>2. ASSUME NEW n \in 1 .. 13, NEW s \in Blk PROVE Stage(s, u, n) \in Blk
  <2>1. n \in 0 .. 14
    OBVIOUS
  <2> QED
    BY <2>1, StageType
<1>3. step \in [1 .. 13 -> [Blk -> Blk]]
  BY <1>2
<1>4. \A n \in 1 .. 13, s \in Blk : step[n][s] = Stage(s, u, n)
  OBVIOUS
<1> HIDE DEF u, first, step
<1>5. PICK c \in [0 .. 13 -> Blk] : c[0] = first /\ \A n \in 1 .. 13 : c[n] = step[n][c[n - 1]]
  <2>1. step \in StepsOn(Blk, 13) /\ 13 \in Nat
    BY <1>3 DEF StepsOn
  <2>2. Walks(Blk, 13, first, step) # {}
    BY <1>1, <2>1, Steps
  <2> QED
    BY <2>2 DEF Walks
<1>6. ASSUME NEW n \in 1 .. 13 PROVE c[n] = Stage(c[n - 1], u, n)
  <2>1. c[n - 1] \in Blk
    OBVIOUS
  <2> QED
    BY <1>4, <1>5, <2>1
<1>7. Leads(u, 0, first, AddRoundKey(c[13], u, 14))
  BY <1>5, <1>6 DEF Leads
<1>8. AddRoundKey(c[13], u, 14) = Cipher(block, u)
  BY <1>7, LeadsCipher DEF first, u
<1> QED
  BY <1>7, <1>8 DEF first, u

-----------------------------------------------------------------------------
(* The key schedule of the oracle *)

Prefix(f, m) == [j \in 1 .. m |-> Words(f)[j]]
Quad == [1 .. 4 -> Byte]

\* f holds a key and what the recurrence makes of it, below word i.
Expanded(f, k, i) ==
  /\ \A b \in 0 .. 31 : f[b] = k[b]
  /\ \A j \in 8 .. i - 1 : \A q \in 0 .. 3 :
       f[4 * j + q] = Xor(f[4 * j - 32 + q], Fed(j, [p \in 0 .. 3 |-> f[4 * j - 4 + p]])[q])

LEMMA WordType ==
  ASSUME NEW f \in Expansion, NEW j \in 1 .. 60
  PROVE  /\ Words(f)[j] \in Quad
         /\ Words(f)[j] = <<f[4 * j - 4], f[4 * j - 3], f[4 * j - 2], f[4 * j - 1]>>
<1>1. Words(f)[j] = <<f[4 * j - 4], f[4 * j - 3], f[4 * j - 2], f[4 * j - 1]>>
  BY DEF Words
<1>2. f[4 * j - 4] \in Byte /\ f[4 * j - 3] \in Byte /\ f[4 * j - 2] \in Byte /\ f[4 * j - 1] \in Byte
  BY DEF Expansion
<1> QED
  BY <1>1, <1>2 DEF Quad

\* The schedule grows by a word.
LEMMA PrefixIs ==
  ASSUME NEW f \in Expansion, NEW m \in 0 .. 59
  PROVE  /\ Len(Prefix(f, m)) = m
         /\ Append(Prefix(f, m), Words(f)[m + 1]) = Prefix(f, m + 1)
<1>1. \A j \in 1 .. 60 : Words(f)[j] \in Quad
  BY WordType
<1>2. Prefix(f, m) \in [1 .. m -> Quad] /\ Prefix(f, m + 1) \in [1 .. m + 1 -> Quad]
  BY <1>1 DEF Prefix
<1>3. Prefix(f, m) \in Seq(Quad)
  BY <1>2, SeqDef
<1>4. DOMAIN Prefix(f, m) = 1 .. Len(Prefix(f, m)) /\ Len(Prefix(f, m)) \in Nat
  BY <1>3, LenProperties
<1>5. Len(Prefix(f, m)) = m
  BY <1>2, <1>4
<1>6. PICK v \in Quad : v = Words(f)[m + 1]
  BY <1>1
<1>7. PICK h : h = Append(Prefix(f, m), v)
  OBVIOUS
<1>8. h \in Seq(Quad) /\ Len(h) = m + 1
        /\ \A j \in 1 .. m + 1 : h[j] = IF j = m + 1 THEN v ELSE Prefix(f, m)[j]
  BY <1>3, <1>5, <1>7, AppendProperties
<1>9. h \in [1 .. m + 1 -> Quad]
  BY <1>8, LenProperties
<1>10. ASSUME NEW j \in 1 .. m + 1 PROVE h[j] = Prefix(f, m + 1)[j]
  <2>1. Prefix(f, m + 1)[j] = Words(f)[j]
    BY DEF Prefix
  <2>2. CASE j = m + 1
    BY <1>6, <1>8, <2>1, <2>2
  <2>3. CASE j # m + 1
    <3>1. j \in 1 .. m
      BY <2>3
    <3>2. Prefix(f, m)[j] = Words(f)[j]
      BY <3>1 DEF Prefix
    <3> QED
      BY <1>8, <2>1, <2>3, <3>2
  <2> QED
    BY <2>2, <2>3
<1> QED
  BY <1>2, <1>5, <1>6, <1>7, <1>9, <1>10

\* What the code feeds into a word is what the oracle does.
LEMMA FedIs ==
  ASSUME NEW i \in 8 .. 59, NEW t \in [0 .. 3 -> Byte], NEW k \in 0 .. 3
  PROVE  /\ Fed(i, t)[k] \in Byte
         /\ Fed(i, t)[k] = IF i % 8 = 0
                           THEN Xor(SubByte(t[(k + 1) % 4]), IF k = 0 THEN aes_rcon[i \div 8] ELSE 0)
                           ELSE IF i % 8 = 4 THEN SubByte(t[k]) ELSE t[k]
         /\ Fed(i, t) \in [0 .. 3 -> Byte]
<1>1. \A q \in 0 .. 3 : (q + 1) % 4 \in 0 .. 3
  OBVIOUS
<1>2. \A q \in 0 .. 3 : sbox(t[(q + 1) % 4]) = SubByte(t[(q + 1) % 4]) /\ SubByte(t[(q + 1) % 4]) \in Byte
                        /\ sbox(t[q]) = SubByte(t[q]) /\ SubByte(t[q]) \in Byte
  BY <1>1, TablesAssumption
<1>3. aes_rcon[i \div 8] \in Byte /\ 0 \in Byte
  <2>1. PICK j \in 1 .. 7 : j = i \div 8
    OBVIOUS
  <2>2. aes_rcon[j] \in Byte
    BY TablesAssumption
  <2>3. 0 \in Byte
    BY DEF Byte
  <2> QED
    BY <2>1, <2>2, <2>3
<1>4. CASE i % 8 = 0
  <2>1. Fed(i, t) = [q \in 0 .. 3 |-> Xor(sbox(t[(q + 1) % 4]), IF q = 0 THEN aes_rcon[i \div 8] ELSE 0)]
    BY <1>4 DEF Fed
  <2>2. \A q \in 0 .. 3 : Xor(sbox(t[(q + 1) % 4]), IF q = 0 THEN aes_rcon[i \div 8] ELSE 0) \in Byte
    BY <1>2, <1>3, XorType
  <2> QED
    BY <1>2, <1>4, <2>1, <2>2
<1>5. CASE i % 8 = 4
  <2>1. Fed(i, t) = [q \in 0 .. 3 |-> sbox(t[q])]
    BY <1>5 DEF Fed
  <2> QED
    BY <1>2, <1>5, <2>1
<1>6. CASE i % 8 # 0 /\ i % 8 # 4
  BY <1>6 DEF Fed
<1> QED
  BY <1>4, <1>5, <1>6

\* The constant for the next word that takes one.
Rcon(n) == aes_rcon[((n + 7) \div 8) + 1]

\* One more word of the oracle's schedule.
LEMMA ExtendIs ==
  ASSUME NEW f \in Expansion, NEW k, Expanded(f, k, 60), NEW n \in 1 .. 52
  PROVE  Extend([words |-> Prefix(f, n + 7), rcon |-> Rcon(n - 1)])
          = [words |-> Prefix(f, n + 8), rcon |-> Rcon(n)]
<1>1. PICK i \in 8 .. 59 : i = n + 7
  OBVIOUS
<1> DEFINE ws == Prefix(f, i)
           s == [words |-> ws, rcon |-> Rcon(n - 1)]
           last == ws[i]
           fed(q) ==
             IF i % 8 = 0
             THEN Xor(SubByte(last[((q + 1) % 4) + 1]), IF q = 0 THEN Rcon(n - 1) ELSE 0)
             ELSE IF i % 8 = 4 THEN SubByte(last[q + 1]) ELSE last[q + 1]
           next(q) == Xor(ws[i - 7][q + 1], fed(q))
<1>2. Len(ws) = i
  <2>1. i \in 0 .. 59
    OBVIOUS
  <2> QED
    BY <2>1, PrefixIs
<1>3. Extend(s) = [words |-> Append(ws, <<next(0), next(1), next(2), next(3)>>),
                   rcon |-> IF i % 8 = 0 THEN Xtime(Rcon(n - 1)) ELSE Rcon(n - 1)]
  <2>1. PICK v : v = ws
    OBVIOUS
  <2>2. PICK rc : rc = Rcon(n - 1)
    OBVIOUS
  <2>3. Len(v) = i
    BY <1>2, <2>1
  <2>4. s = [words |-> v, rcon |-> rc]
    BY <2>1, <2>2
  <2>5. PICK r : r = [words |-> v, rcon |-> rc]
    OBVIOUS
  <2>6. r.words = v /\ r.rcon = rc
    BY <2>5
  <2> DEFINE bytes(q) == Xor(v[i - 7][q + 1],
               IF i % 8 = 0 THEN Xor(SubByte(v[i][((q + 1) % 4) + 1]), IF q = 0 THEN rc ELSE 0)
               ELSE IF i % 8 = 4 THEN SubByte(v[i][q + 1]) ELSE v[i][q + 1])
  <2>7. Extend(r) = [words |-> Append(v, <<bytes(0), bytes(1), bytes(2), bytes(3)>>),
                     rcon |-> IF i % 8 = 0 THEN Xtime(rc) ELSE rc]
    BY <2>3, <2>6 DEF Extend, Four
  <2>8. next(0) = bytes(0) /\ next(1) = bytes(1) /\ next(2) = bytes(2) /\ next(3) = bytes(3)
    BY <2>1, <2>2
  <2> HIDE DEF bytes, next, ws, s
  <2> QED
    BY <2>1, <2>2, <2>4, <2>5, <2>7, <2>8
<1>4. PICK t \in [0 .. 3 -> Byte] : t = [p \in 0 .. 3 |-> f[4 * i - 4 + p]]
  <2>1. \A p \in 0 .. 3 : f[4 * i - 4 + p] \in Byte
    <3> SUFFICES ASSUME NEW p \in 0 .. 3 PROVE f[4 * i - 4 + p] \in Byte
      OBVIOUS
    <3>1. 4 * i - 4 + p \in 0 .. 239
      OBVIOUS
    <3> QED
      BY <3>1 DEF Expansion
  <2> QED
    BY <2>1
<1>5. ASSUME NEW q \in 0 .. 3 PROVE last[q + 1] = t[q]
  <2>1. last = Words(f)[i]
    BY DEF Prefix
  <2>2. Words(f)[i][q + 1] = f[4 * (i - 1) + q]
    <3>1. i \in 1 .. 60
      OBVIOUS
    <3> QED
      BY <3>1, WordsAt
  <2>3. 4 * (i - 1) + q = 4 * i - 4 + q
    OBVIOUS
  <2> QED
    BY <1>4, <2>1, <2>2, <2>3
<1>6. ASSUME NEW q \in 0 .. 3 PROVE ws[i - 7][q + 1] = f[4 * i - 32 + q]
  <2>1. PICK j \in 1 .. 60 : j = i - 7
    OBVIOUS
  <2>2. ws[j] = Words(f)[j]
    BY <2>1 DEF Prefix
  <2>3. Words(f)[j][q + 1] = f[4 * (j - 1) + q]
    BY WordsAt
  <2>4. 4 * (j - 1) + q = 4 * i - 32 + q
    BY <2>1
  <2> QED
    BY <2>1, <2>2, <2>3, <2>4
<1>7. i % 8 = 0 => Rcon(n - 1) = aes_rcon[i \div 8]
  <2>1. i % 8 = 0 => (((n - 1) + 7) \div 8) + 1 = i \div 8
    BY <1>1
  <2> QED
    BY <2>1 DEF Rcon
<1>8. ASSUME NEW q \in 0 .. 3 PROVE fed(q) = Fed(i, t)[q]
  <2>1. PICK e \in 0 .. 3 : e = (q + 1) % 4
    OBVIOUS
  <2>2. last[e + 1] = t[e] /\ last[q + 1] = t[q]
    BY <1>5
  <2> QED
    BY <1>7, <2>1, <2>2, FedIs
<1>9. ASSUME NEW q \in 0 .. 3 PROVE next(q) = f[4 * i + q]
  <2>1. f[4 * i + q] = Xor(f[4 * i - 32 + q], Fed(i, [p \in 0 .. 3 |-> f[4 * i - 4 + p]])[q])
    <3>1. i \in 8 .. 60 - 1
      OBVIOUS
    <3> QED
      BY <3>1 DEF Expanded
  <2> HIDE DEF fed
  <2> QED
    BY <1>4, <1>6, <1>8, <2>1
<1>10. <<next(0), next(1), next(2), next(3)>> = Words(f)[i + 1]
  <2>1. PICK j \in 1 .. 60 : j = i + 1
    OBVIOUS
  <2>2. Words(f)[j] = <<f[4 * j - 4], f[4 * j - 3], f[4 * j - 2], f[4 * j - 1]>>
    BY WordType
  <2>3. 4 * j - 4 = 4 * i + 0 /\ 4 * j - 3 = 4 * i + 1 /\ 4 * j - 2 = 4 * i + 2 /\ 4 * j - 1 = 4 * i + 3
    BY <2>1
  <2> HIDE DEF next
  <2>4. next(0) = f[4 * i + 0] /\ next(1) = f[4 * i + 1] /\ next(2) = f[4 * i + 2]
          /\ next(3) = f[4 * i + 3]
    BY <1>9
  <2> QED
    BY <2>1, <2>2, <2>3, <2>4
<1>11. Append(ws, Words(f)[i + 1]) = Prefix(f, i + 1)
  <2>1. i \in 0 .. 59
    OBVIOUS
  <2> QED
    BY <2>1, PrefixIs
<1>12. (IF i % 8 = 0 THEN Xtime(Rcon(n - 1)) ELSE Rcon(n - 1)) = Rcon(n)
  <2>1. CASE i % 8 = 0
    <3>1. PICK j \in 1 .. 7 : j = i \div 8
      OBVIOUS
    <3>2. aes_rcon[j + 1] = Xtime(aes_rcon[j])
      BY TablesAssumption
    <3>3. ((n + 7) \div 8) + 1 = j + 1
      BY <1>1, <3>1
    <3> QED
      BY <1>7, <2>1, <3>1, <3>2, <3>3 DEF Rcon
  <2>2. CASE i % 8 # 0
    <3>1. ((n - 1) + 7) \div 8 = (n + 7) \div 8
      BY <1>1, <2>2
    <3> QED
      BY <2>2, <3>1 DEF Rcon
  <2> QED
    BY <2>1, <2>2
<1> HIDE DEF next, fed, ws
<1>13. Extend(s) = [words |-> Prefix(f, i + 1), rcon |-> Rcon(n)]
  BY <1>3, <1>10, <1>11, <1>12
<1>14. i + 1 = n + 8
  BY <1>1
<1> QED
  BY <1>1, <1>13, <1>14 DEF ws

\* Bytes that satisfy the recurrence are the oracle's schedule.
LEMMA ScheduleIs ==
  ASSUME NEW f \in Expansion, NEW k, Expanded(f, k, 60)
  PROVE  Words(f) = Schedule(k)
<1> DEFINE word(i) == <<k[4 * i], k[4 * i + 1], k[4 * i + 2], k[4 * i + 3]>>
           first == [words |-> <<word(0), word(1), word(2), word(3), word(4), word(5), word(6), word(7)>>,
                     rcon  |-> 1]
           after[n \in 0 .. 52] == IF n = 0 THEN first ELSE Extend(after[n - 1])
           g == [n \in 0 .. 52 |-> [words |-> Prefix(f, n + 8), rcon |-> Rcon(n)]]
<1>1. Schedule(k) = after[52].words
  BY DEF Schedule
<1>2. g[0] = first
  <2>1. Rcon(0) = 1
    BY TablesAssumption DEF Rcon
  <2>2. ASSUME NEW j \in 1 .. 8 PROVE Words(f)[j] = word(j - 1)
    <3>1. Words(f)[j] = <<f[4 * j - 4], f[4 * j - 3], f[4 * j - 2], f[4 * j - 1]>>
      BY WordType
    <3>2. f[4 * j - 4] = k[4 * j - 4] /\ f[4 * j - 3] = k[4 * j - 3]
            /\ f[4 * j - 2] = k[4 * j - 2] /\ f[4 * j - 1] = k[4 * j - 1]
      <4>1. \A b \in 0 .. 31 : f[b] = k[b]
        BY DEF Expanded
      <4>2. 4 * j - 4 \in 0 .. 31 /\ 4 * j - 3 \in 0 .. 31 /\ 4 * j - 2 \in 0 .. 31
              /\ 4 * j - 1 \in 0 .. 31
        OBVIOUS
      <4> QED
        BY <4>1, <4>2
    <3>3. 4 * (j - 1) = 4 * j - 4 /\ 4 * (j - 1) + 1 = 4 * j - 3 /\ 4 * (j - 1) + 2 = 4 * j - 2
            /\ 4 * (j - 1) + 3 = 4 * j - 1
      OBVIOUS
    <3> QED
      BY <3>1, <3>2, <3>3
  <2> HIDE DEF word
  <2>3. Prefix(f, 8) = <<word(0), word(1), word(2), word(3), word(4), word(5), word(6), word(7)>>
    BY <2>2 DEF Prefix
  <2> QED
    BY <2>1, <2>3
<1>3. ASSUME NEW n \in 1 .. 52 PROVE g[n] = Extend(g[n - 1])
  <2>1. PICK m \in 0 .. 52 : m = n - 1
    OBVIOUS
  <2>2. m + 8 = n + 7
    BY <2>1
  <2>3. g[m] = [words |-> Prefix(f, n + 7), rcon |-> Rcon(n - 1)]
    BY <2>1, <2>2
  <2>4. g[n] = [words |-> Prefix(f, n + 8), rcon |-> Rcon(n)]
    OBVIOUS
  <2>5. Extend([words |-> Prefix(f, n + 7), rcon |-> Rcon(n - 1)])
          = [words |-> Prefix(f, n + 8), rcon |-> Rcon(n)]
    BY ExtendIs
  <2> HIDE DEF g
  <2> QED
    BY <2>1, <2>3, <2>4, <2>5
<1>4. g = [n \in 0 .. 52 |-> g[n]] /\ g[52].words = Prefix(f, 60)
  OBVIOUS
<1> HIDE DEF first, g
<1>5. g = [n \in 0 .. 52 |-> IF n = 0 THEN first ELSE Extend(g[n - 1])]
  BY <1>2, <1>3, <1>4
<1>6. after = [n \in 0 .. 52 |-> IF n = 0 THEN first ELSE Extend(after[n - 1])]
  BY <1>5
<1> HIDE DEF after
<1>7. after[0] = g[0]
  BY <1>2, <1>6
<1>8. \A n \in 1 .. 52 : after[n - 1] = g[n - 1] => after[n] = g[n]
  BY <1>3, <1>6
<1>9. \A n \in 0 .. 52 : after[n] = g[n]
  BY <1>7, <1>8, SameSteps
<1>10. Prefix(f, 60) = Words(f)
  BY DEF Prefix, Words
<1> QED
  BY <1>1, <1>4, <1>9, <1>10

-----------------------------------------------------------------------------
(* Layouts *)

LEMMA Sizes == \A s \in Slot : Size[s] \in {1, 2, 16}
BY DEF Size

\* Each unordered pair is checked once, and that is enough.
LEMMA BothOrders ==
  ASSUME NEW asked \in [Slot -> Nat], Accepted(asked),
         NEW s \in Slot, NEW t \in Slot, s # t
  PROVE  Apart(asked, s, t)
<1>1. CASE t > s
  BY <1>1 DEF Accepted
<1>2. CASE s > t
  <2>1. Apart(asked, t, s)
    BY <1>2 DEF Accepted
  <2> QED
    BY <2>1 DEF Apart
<1> QED
  BY <1>1, <1>2 DEF Slot

\* Two slots with a byte each are apart exactly when they share none.
LEMMA ApartIsDisjoint ==
  ASSUME NEW asked \in [Slot -> Nat], NEW s \in Slot, NEW t \in Slot
  PROVE  Apart(asked, s, t) <=> Bytes(asked, s) \cap Bytes(asked, t) = {}
<1> DEFINE a == asked[s]  b == asked[t]  m == Size[s]  n == Size[t]
<1>1. a \in Nat /\ b \in Nat /\ m \in Nat \ {0} /\ n \in Nat \ {0}
  BY Sizes
<1> HIDE DEF a, b, m, n
<1>2. ASSUME b >= a + m \/ a >= b + n PROVE (a .. a + m - 1) \cap (b .. b + n - 1) = {}
  BY <1>1, <1>2
<1>3. ASSUME ~(b >= a + m \/ a >= b + n) PROVE (a .. a + m - 1) \cap (b .. b + n - 1) # {}
  <2>1. CASE a <= b
    <3>1. b \in a .. a + m - 1 /\ b \in b .. b + n - 1
      BY <1>1, <1>3, <2>1
    <3> QED
      BY <3>1
  <2>2. CASE b < a
    <3>1. a \in a .. a + m - 1 /\ a \in b .. b + n - 1
      BY <1>1, <1>3, <2>2
    <3> QED
      BY <3>1
  <2> QED
    BY <1>1, <2>1, <2>2
<1> QED
  BY <1>2, <1>3 DEF Apart, Bytes, a, b, m, n

\* A slot is in range exactly when all of its bytes are.
LEMMA RangeIsInside ==
  ASSUME NEW asked \in [Slot -> Nat], NEW s \in Slot
  PROVE  InRange(asked, s) <=> Bytes(asked, s) \subseteq 2 .. 255
<1> DEFINE a == asked[s]  m == Size[s]
<1>1. a \in Nat /\ m \in Nat \ {0}
  BY Sizes
<1> HIDE DEF a, m
<1>2. ASSUME a >= 2, a + m <= 256 PROVE a .. a + m - 1 \subseteq 2 .. 255
  BY <1>1, <1>2
<1>3. ASSUME a .. a + m - 1 \subseteq 2 .. 255 PROVE a >= 2 /\ a + m <= 256
  <2>1. a \in a .. a + m - 1 /\ a + m - 1 \in a .. a + m - 1
    BY <1>1
  <2>2. a \in 2 .. 255 /\ a + m - 1 \in 2 .. 255
    BY <1>3, <2>1
  <2> QED
    BY <1>1, <2>2
<1> QED
  BY <1>2, <1>3 DEF InRange, Bytes, a, m

(* The assemble-time checks accept exactly the layouts without aliasing    *)
(* (zp_config.s:150-246).                                                  *)
THEOREM ChecksExact ==
  ASSUME NEW asked \in [Slot -> Nat]
  PROVE  Accepted(asked) <=> Sound(asked)
<1>1. ASSUME Accepted(asked) PROVE Sound(asked)
  <2>1. \A s \in Slot : InRange(asked, s)
    BY <1>1 DEF Accepted
  <2> QED
    BY <1>1, <2>1, BothOrders, ApartIsDisjoint, RangeIsInside DEF Sound
<1>2. ASSUME Sound(asked) PROVE Accepted(asked)
  <2>1. ASSUME NEW s \in Slot, NEW t \in Slot, t > s PROVE Apart(asked, s, t)
    <3>1. s # t
      BY <2>1 DEF Slot
    <3> QED
      BY <1>2, <3>1, ApartIsDisjoint DEF Sound
  <2> QED
    BY <1>2, <2>1, RangeIsInside DEF Sound, Accepted
<1> QED
  BY <1>1, <1>2

-----------------------------------------------------------------------------
(* Slots of the zero page *)

\* The slots of a layout the build accepted.
Placed == layout \in [Slot -> Nat] /\ Sound(layout)

LEMMA SlotsApart ==
  ASSUME Placed
  PROVE  /\ \A s \in Slot : layout[s] \in Byte
         /\ \A s \in Slot, t \in Slot : s # t => layout[s] # layout[t]
<1>1. ASSUME NEW s \in Slot PROVE layout[s] \in Bytes(layout, s)
  <2>1. layout[s] \in Nat
    BY DEF Placed
  <2>2. PICK k \in {1, 2, 16} : k = Size[s]
    BY DEF Size
  <2>3. layout[s] \in layout[s] .. layout[s] + k - 1
    BY <2>1
  <2> QED
    BY <2>2, <2>3 DEF Bytes
<1>2. \A s \in Slot : layout[s] \in Bytes(layout, s)
  BY <1>1
<1>3. ASSUME NEW s \in Slot PROVE layout[s] \in Byte
  <2>1. Bytes(layout, s) \subseteq 2 .. 255
    BY DEF Placed, Sound
  <2>2. layout[s] \in 2 .. 255
    BY <1>2, <2>1
  <2> QED
    BY <2>2 DEF Byte
<1>4. \A s \in Slot, t \in Slot : s # t => layout[s] # layout[t]
  BY <1>2 DEF Placed, Sound
<1> QED
  BY <1>3, <1>4

LEMMA PutIs ==
  ASSUME NEW m \in Page, NEW s \in Slot, NEW v \in Byte, layout[s] \in Byte
  PROVE  Put(m, s, v) = [a \in Byte |-> IF a = layout[s] THEN v ELSE m[a]]
BY DEF Put, Page

LEMMA PutType ==
  ASSUME NEW m \in Page, NEW s \in Slot, NEW v \in Byte, layout[s] \in Byte
  PROVE  Put(m, s, v) \in Page
BY PutIs DEF Page

\* A store reaches its slot and no other.
LEMMA GetPut ==
  ASSUME Placed, NEW m \in Page, NEW s \in Slot, NEW v \in Byte
  PROVE  /\ Put(m, s, v) \in Page
         /\ Get(Put(m, s, v), s) = v
         /\ \A t \in Slot : t # s => Get(Put(m, s, v), t) = Get(m, t)
<1>1. layout[s] \in Byte /\ \A t \in Slot : layout[t] \in Byte /\ (t # s => layout[t] # layout[s])
  BY SlotsApart
<1>2. Put(m, s, v) = [a \in Byte |-> IF a = layout[s] THEN v ELSE m[a]]
  BY <1>1, PutIs
<1> QED
  BY <1>1, <1>2, PutType DEF Get

LEMMA GetType ==
  ASSUME Placed, NEW m \in Page, NEW s \in Slot
  PROVE  Get(m, s) \in Byte
BY SlotsApart DEF Get, Page

LEMMA TmpIs ==
  ASSUME NEW k \in 0 .. 3
  PROVE  Tmp(k) = 3 + k /\ Tmp(k) \in Slot /\ Tmp(k + 1) = Tmp((k + 1) % 4)
         /\ Tmp(k + 2) = Tmp((k + 2) % 4) /\ Tmp(k + 3) = Tmp((k + 3) % 4)
BY DEF Tmp, aes_tmp1, Slot

\* The four temporaries hold a word.
LEMMA WordPut ==
  ASSUME Placed, NEW m \in Page, NEW v \in [0 .. 3 -> Byte]
  PROVE  /\ PutWord(m, v) \in Page
         /\ \A k \in 0 .. 3 : Get(PutWord(m, v), Tmp(k)) = v[k]
         /\ \A s \in Slot : s \notin 3 .. 6 => Get(PutWord(m, v), s) = Get(m, s)
         /\ GetWord(PutWord(m, v)) = v
<1>1. Tmp(0) = 3 /\ Tmp(1) = 4 /\ Tmp(2) = 5 /\ Tmp(3) = 6
  BY DEF Tmp, aes_tmp1
<1>2. 3 \in Slot /\ 4 \in Slot /\ 5 \in Slot /\ 6 \in Slot
  BY DEF Slot
<1>3. v[0] \in Byte /\ v[1] \in Byte /\ v[2] \in Byte /\ v[3] \in Byte
  OBVIOUS
<1>4. PICK m1 : m1 = Put(m, 3, v[0])
  OBVIOUS
<1>5. m1 \in Page /\ Get(m1, 3) = v[0] /\ \A t \in Slot : t # 3 => Get(m1, t) = Get(m, t)
  BY <1>2, <1>3, <1>4, GetPut
<1>6. PICK m2 : m2 = Put(m1, 4, v[1])
  OBVIOUS
<1>7. m2 \in Page /\ Get(m2, 4) = v[1] /\ \A t \in Slot : t # 4 => Get(m2, t) = Get(m1, t)
  BY <1>2, <1>3, <1>5, <1>6, GetPut
<1>8. PICK m3 : m3 = Put(m2, 5, v[2])
  OBVIOUS
<1>9. m3 \in Page /\ Get(m3, 5) = v[2] /\ \A t \in Slot : t # 5 => Get(m3, t) = Get(m2, t)
  BY <1>2, <1>3, <1>7, <1>8, GetPut
<1>10. PICK m4 : m4 = Put(m3, 6, v[3])
  OBVIOUS
<1>11. m4 \in Page /\ Get(m4, 6) = v[3] /\ \A t \in Slot : t # 6 => Get(m4, t) = Get(m3, t)
  BY <1>2, <1>3, <1>9, <1>10, GetPut
<1>12. PutWord(m, v) = m4
  BY <1>1, <1>4, <1>6, <1>8, <1>10 DEF PutWord
<1>13. Get(m4, 3) = v[0] /\ Get(m4, 4) = v[1] /\ Get(m4, 5) = v[2] /\ Get(m4, 6) = v[3]
  BY <1>2, <1>5, <1>7, <1>9, <1>11
<1>14. ASSUME NEW k \in 0 .. 3 PROVE Get(m4, Tmp(k)) = v[k]
  <2>1. k = 0 \/ k = 1 \/ k = 2 \/ k = 3
    OBVIOUS
  <2> QED
    BY <1>1, <1>13, <2>1
<1>15. ASSUME NEW s \in Slot, s \notin 3 .. 6 PROVE Get(m4, s) = Get(m, s)
  <2>1. s # 3 /\ s # 4 /\ s # 5 /\ s # 6
    BY <1>15
  <2> QED
    BY <1>5, <1>7, <1>9, <1>11, <2>1
<1>16. GetWord(m4) = v
  BY <1>14 DEF GetWord
<1> QED
  BY <1>11, <1>12, <1>14, <1>15, <1>16

LEMMA Parked ==
  ASSUME Placed, NEW m \in Page, NEW k \in 0 .. 3
  PROVE  /\ Park(m, k) \in Page
         /\ \A s \in Slot : s # zp_temp => Get(Park(m, k), s) = Get(m, s)
<1>1. Tmp(k) \in Slot /\ zp_temp \in Slot
  BY TmpIs DEF zp_temp, Slot
<1>2. Get(m, Tmp(k)) \in Byte
  BY <1>1, GetType
<1> QED
  BY <1>1, <1>2, GetPut DEF Park

\* The parked argument of gf_mul3 leaves the column alone.
LEMMA MixedIs ==
  ASSUME Placed, NEW m \in Page, NEW t \in [0 .. 3 -> Byte],
         \A k \in 0 .. 3 : Get(m, Tmp(k)) = t[k]
  PROVE  /\ Mixed(m).mem \in Page
         /\ \A s \in Slot : s # zp_temp => Get(Mixed(m).mem, s) = Get(m, s)
         /\ \A k \in 0 .. 3 :
              Mixed(m).bytes[k] = MixedByte(t[k], t[(k + 1) % 4], t[(k + 2) % 4], t[(k + 3) % 4])
<1>1. PICK m1 : m1 = Park(m, 1)
  OBVIOUS
<1>2. PICK m2 : m2 = Park(m1, 2)
  OBVIOUS
<1>3. PICK m3 : m3 = Park(m2, 3)
  OBVIOUS
<1>4. PICK m4 : m4 = Park(m3, 4)
  OBVIOUS
<1>5. m1 \in Page /\ \A s \in Slot : s # zp_temp => Get(m1, s) = Get(m, s)
  <2>1. 1 \in 0 .. 3
    OBVIOUS
  <2> QED
    BY <1>1, <2>1, Parked
<1>6. m2 \in Page /\ \A s \in Slot : s # zp_temp => Get(m2, s) = Get(m, s)
  <2>1. 2 \in 0 .. 3
    OBVIOUS
  <2> QED
    BY <1>2, <1>5, <2>1, Parked
<1>7. m3 \in Page /\ \A s \in Slot : s # zp_temp => Get(m3, s) = Get(m, s)
  <2>1. 3 \in 0 .. 3
    OBVIOUS
  <2> QED
    BY <1>3, <1>6, <2>1, Parked
<1>8. m4 \in Page /\ \A s \in Slot : s # zp_temp => Get(m4, s) = Get(m, s)
  <2>1. Park(m3, 4) = Park(m3, 0) /\ 0 \in 0 .. 3
    BY DEF Park, Tmp
  <2> QED
    BY <1>4, <1>7, <2>1, Parked
<1>9. Tmp(0) = 3 /\ Tmp(1) = 4 /\ Tmp(2) = 5 /\ Tmp(3) = 6 /\ Tmp(4) = 3 /\ Tmp(5) = 4 /\ Tmp(6) = 5
  BY DEF Tmp, aes_tmp1
<1>10. /\ Get(m, 3) = t[0] /\ Get(m, 4) = t[1] /\ Get(m, 5) = t[2] /\ Get(m, 6) = t[3]
  BY <1>9
<1>11. 3 \in Slot /\ 4 \in Slot /\ 5 \in Slot /\ 6 \in Slot /\ zp_temp \notin 3 .. 6
  BY DEF Slot, zp_temp
<1>12. ASSUME NEW q, q \in {m1, m2, m3, m4}
       PROVE  Get(q, 3) = t[0] /\ Get(q, 4) = t[1] /\ Get(q, 5) = t[2] /\ Get(q, 6) = t[3]
  BY <1>5, <1>6, <1>7, <1>8, <1>10, <1>11, <1>12
<1> DEFINE byte(before, after, k) ==
        Xor(Xor(gf_mul2(Get(before, Tmp(k))), gf_mul3(Get(before, Tmp(k + 1)))),
            Xor(Get(after, Tmp(k + 2)), Get(after, Tmp(k + 3))))
<1>13. byte(m, m1, 0) = MixedByte(t[0], t[1], t[2], t[3])
  BY <1>9, <1>10, <1>12 DEF MixedByte
<1>14. byte(m1, m2, 1) = MixedByte(t[1], t[2], t[3], t[0])
  BY <1>9, <1>12 DEF MixedByte
<1>15. byte(m2, m3, 2) = MixedByte(t[2], t[3], t[0], t[1])
  BY <1>9, <1>12 DEF MixedByte
<1>16. byte(m3, m4, 3) = MixedByte(t[3], t[0], t[1], t[2])
  BY <1>9, <1>12 DEF MixedByte
<1>17. Mixed(m) = [bytes |-> [k \in 0 .. 3 |-> IF k = 0 THEN byte(m, m1, 0)
                                  ELSE IF k = 1 THEN byte(m1, m2, 1)
                                  ELSE IF k = 2 THEN byte(m2, m3, 2) ELSE byte(m3, m4, 3)],
                   mem |-> m4]
  BY <1>1, <1>2, <1>3, <1>4 DEF Mixed
<1> HIDE DEF byte
<1>18. ASSUME NEW k \in 0 .. 3
       PROVE  Mixed(m).bytes[k] = MixedByte(t[k], t[(k + 1) % 4], t[(k + 2) % 4], t[(k + 3) % 4])
  <2>1. k = 0 \/ k = 1 \/ k = 2 \/ k = 3
    OBVIOUS
  <2> QED
    BY <1>13, <1>14, <1>15, <1>16, <1>17, <2>1
<1> QED
  BY <1>8, <1>17, <1>18

-----------------------------------------------------------------------------
(* The invariant *)

Encrypting == {"sub_bytes", "shift_rows", "mix_columns", "mix_column", "round_key",
               "last_sub_bytes", "last_shift_rows"}
Decrypting == {"inv_shift_rows", "inv_sub_bytes", "inv_round_key", "inv_mix_columns",
               "inv_mix_column", "last_inv_shift_rows", "last_inv_sub_bytes"}
Routine == {"aes_key_expansion", "aes_encrypt_block", "aes_decrypt_block"}
KeyBytes == [0 .. 31 -> Byte]

Typed ==
  /\ layout \in Layout
  /\ zp \in Page /\ key \in KeyBytes /\ w \in Expansion /\ state \in State /\ entry \in State
  /\ pc \in Encrypting \cup Decrypting \cup Routine
            \cup {"assemble", "refused", "idle", "expand_word", "last_key"}
  /\ call \in Routine \cup {"none"} /\ calls \in 0 .. MaxCalls

Started == pc \in Routine => entry = state /\ call = pc

Expanding ==
  pc = "expand_word" => Get(zp, zp_count) \in 8 .. 59 /\ Expanded(w, key, Get(zp, zp_count))

\* At label p of a routine, with r and c in the counters, the block s under
\* the schedule u is on the way of the oracle's cipher to out.
Phase(p, routine, r, c, s, u, out) ==
  /\ p \in Encrypting => routine = "aes_encrypt_block"
  /\ p \in Decrypting => routine = "aes_decrypt_block"
  /\ p = "sub_bytes" => r \in 1 .. 13 /\ Leads(u, r - 1, Sub(s), out)
  /\ p = "shift_rows" => r \in 1 .. 13 /\ Leads(u, r - 1, ShiftRows(s), out)
  /\ p = "mix_columns" => r \in 1 .. 13 /\ Leads(u, r - 1, s, out)
  /\ p = "mix_column" =>
       r \in 1 .. 13 /\ c \in 0 .. 3 /\ \E x \in Blk : Leads(u, r - 1, x, out) /\ s = Partly(x, c)
  /\ p = "round_key" => r \in 1 .. 13 /\ Leads(u, r, Sub(AddRoundKey(s, u, r)), out)
  /\ p = "last_sub_bytes" => r = 14 /\ Leads(u, 13, Sub(s), out)
  /\ p = "last_shift_rows" => r = 14 /\ Leads(u, 13, ShiftRows(s), out)
  /\ p = "last_key" =>
       \/ routine = "aes_encrypt_block" /\ r = 14 /\ Leads(u, 13, s, out)
       \/ routine = "aes_decrypt_block" /\ r = 0 /\ Leads(u, 0, Sub(s), out)
  /\ p = "inv_shift_rows" => r \in 1 .. 13 /\ Leads(u, r, s, out)
  /\ p = "inv_sub_bytes" => r \in 1 .. 13 /\ Leads(u, r, ShiftRows(s), out)
  /\ p = "inv_round_key" => r \in 1 .. 13 /\ Leads(u, r, Sub(s), out)
  /\ p = "inv_mix_columns" => r \in 1 .. 13 /\ Leads(u, r, Sub(AddRoundKey(s, u, r)), out)
  /\ p = "inv_mix_column" =>
       r \in 1 .. 13 /\ c \in 0 .. 3 /\ Leads(u, r, Sub(AddRoundKey(Partly(s, c), u, r)), out)
  /\ p = "last_inv_shift_rows" => r = 0 /\ Leads(u, 0, s, out)
  /\ p = "last_inv_sub_bytes" => r = 0 /\ Leads(u, 0, ShiftRows(s), out)

\* What the call is to lead to: the enciphered block, or the block that was
\* given to be deciphered.
Out == IF call = "aes_encrypt_block" THEN Cipher(Tuple(entry), Words(w)) ELSE Tuple(entry)

Ciphering == Phase(pc, call, Get(zp, aes_round), Get(zp, aes_col), Tuple(state), Words(w), Out)

Inv == Typed /\ NoAlias /\ Started /\ Expanding /\ Ciphering

LEMMA Sounded ==
  ASSUME Inv, pc \notin {"assemble", "refused"}
  PROVE  Placed
BY AesAssumption DEF Inv, Typed, NoAlias, Placed

\* Outside the two ciphers only the types and the layout matter.
LEMMA NoPhase ==
  ASSUME NEW p, p \notin Encrypting, p \notin Decrypting, p # "last_key",
         NEW a, NEW r, NEW c, NEW s, NEW u, NEW out
  PROVE  Phase(p, a, r, c, s, u, out)
BY DEF Phase, Encrypting, Decrypting

LEMMA Resting ==
  ASSUME Typed', NoAlias', Started', Expanding',
         pc' \notin Encrypting, pc' \notin Decrypting, pc' # "last_key"
  PROVE  Inv'
<1>1. Ciphering'
  BY NoPhase DEF Ciphering
<1> QED
  BY <1>1 DEF Inv

\* A step within a cipher.
LEMMA Working ==
  ASSUME Inv, pc \notin {"assemble", "refused"},
         UNCHANGED <<layout, key, w, entry, call, calls>>,
         zp' \in Page, state' \in State,
         pc' \in Encrypting \cup Decrypting \cup {"last_key"},
         Phase(pc', call, Get(zp', aes_round), Get(zp', aes_col), Tuple(state'), Words(w), Out)
  PROVE  Inv'
<1>1. Typed'
  BY DEF Inv, Typed
<1>2. NoAlias'
  BY DEF Inv, NoAlias
<1>3. Started' /\ Expanding'
  BY DEF Started, Expanding, Encrypting, Decrypting, Routine
<1>4. Out' = Out /\ Get(zp, aes_round)' = Get(zp', aes_round) /\ Get(zp, aes_col)' = Get(zp', aes_col)
  BY DEF Out, Get
<1>5. Ciphering'
  BY <1>4 DEF Ciphering
<1> QED
  BY <1>1, <1>2, <1>3, <1>5 DEF Inv

\* A round key as the code adds it.
LEMMA KeyOf ==
  ASSUME Inv, NEW m, NEW r \in 0 .. 14, Get(m, aes_round) = r
  PROVE  /\ aes_add_round_key(m) \in State
         /\ Tuple(aes_add_round_key(m)) = AddRoundKey(Tuple(state), Words(w), r)
         /\ AddRoundKey(Tuple(aes_add_round_key(m)), Words(w), r) = Tuple(state)
<1>1. (16 * r) % 256 = 16 * r
  OBVIOUS
<1>2. aes_add_round_key(m) = [x \in Position |-> Xor(state[x], w[16 * r + x])]
  BY <1>1 DEF aes_add_round_key
<1>3. PICK st \in State : st = state
  BY DEF Inv, Typed
<1>4. PICK f \in Expansion : f = w
  BY DEF Inv, Typed
<1>5. PICK g : g = aes_add_round_key(m)
  OBVIOUS
<1>6. g = [x \in Position |-> Xor(st[x], f[16 * r + x])]
  BY <1>2, <1>3, <1>4, <1>5
<1>7. g \in State /\ AddRoundKey(Tuple(g), Words(f), r) = Tuple(st)
  BY <1>6, KeyTwice
<1>8. Tuple(g) = AddRoundKey(Tuple(st), Words(f), r)
  BY <1>6, KeyAdded
<1> QED
  BY <1>3, <1>4, <1>5, <1>7, <1>8

LEMMA Initially ==
  ASSUME Init
  PROVE  Inv
<1>1. 0 \in Byte
  BY DEF Byte
<1>2. zp \in Page /\ key \in KeyBytes /\ w \in Expansion /\ state \in State /\ entry \in State
  BY <1>1 DEF Init, Page, KeyBytes, Expansion, State
<1>3. Typed
  BY <1>2, AesAssumption DEF Init, Typed
<1>4. NoAlias /\ Started /\ Expanding
  BY DEF Init, NoAlias, Started, Expanding, Routine
<1>5. Ciphering
  BY NoPhase DEF Init, Ciphering, Encrypting, Decrypting
<1> QED
  BY <1>3, <1>4, <1>5 DEF Inv

-----------------------------------------------------------------------------
(* One lemma for each action *)

LEMMA StepAssemble ==
  ASSUME Inv, Assemble
  PROVE  Inv'
<1> USE DEF Assemble, Goto
<1>1. pc' = "idle" \/ pc' = "refused"
  OBVIOUS
<1>2. pc' \notin Encrypting /\ pc' \notin Decrypting /\ pc' \notin Routine /\ pc' # "last_key"
        /\ pc' # "expand_word"
  BY <1>1 DEF Encrypting, Decrypting, Routine
<1>3. Typed'
  BY <1>1 DEF Inv, Typed, data
<1>4. Started' /\ Expanding'
  BY <1>2 DEF Started, Expanding
<1>5. NoAlias'
  <2>1. PICK asked \in [Slot -> Nat] : asked = layout
    BY AesAssumption DEF Inv, Typed
  <2>2. Accepted(asked) => Sound(asked)
    BY ChecksExact
  <2> QED
    BY <2>1, <2>2 DEF NoAlias
<1> QED
  BY <1>2, <1>3, <1>4, <1>5, Resting

LEMMA StepLoad ==
  ASSUME Inv, \/ \E k \in Key : LoadKey(k)
              \/ \E b \in Block : LoadBlock(b)
  PROVE  Inv'
<1>1. /\ pc = "idle" /\ pc' = "idle" /\ UNCHANGED <<layout, zp, w, entry, call, calls>>
      /\ key' \in KeyBytes /\ state' \in State
  BY AesAssumption DEF LoadKey, LoadBlock, Inv, Typed, KeyBytes, State
<1>2. pc' \notin Encrypting /\ pc' \notin Decrypting /\ pc' \notin Routine /\ pc' # "last_key"
        /\ pc' # "expand_word"
  BY <1>1 DEF Encrypting, Decrypting, Routine
<1>3. Typed' /\ NoAlias'
  BY <1>1 DEF Inv, Typed, NoAlias
<1>4. Started' /\ Expanding'
  BY <1>2 DEF Started, Expanding
<1> QED
  BY <1>2, <1>3, <1>4, Resting

LEMMA StepCall ==
  ASSUME Inv, NEW r \in Routine, Call(r)
  PROVE  Inv'
<1>1. /\ pc = "idle" /\ pc' = r /\ call' = r /\ entry' = state /\ calls' = calls + 1 /\ calls < MaxCalls
      /\ UNCHANGED <<layout, zp, key, w, state>>
  BY DEF Call, Goto, data
<1>2. pc' \notin Encrypting /\ pc' \notin Decrypting /\ pc' # "last_key" /\ pc' # "expand_word"
  BY <1>1 DEF Encrypting, Decrypting, Routine
<1>3. calls' \in 0 .. MaxCalls
  BY <1>1, AesAssumption DEF Inv, Typed
<1>4. Typed' /\ NoAlias'
  BY <1>1, <1>3 DEF Inv, Typed, NoAlias
<1>5. Started' /\ Expanding'
  BY <1>1, <1>2 DEF Started, Expanding
<1> QED
  BY <1>2, <1>4, <1>5, Resting

\* Four bytes stored one after the other.
LEMMA FourWritten ==
  ASSUME NEW f \in [0 .. 239 -> Byte],
         NEW x \in 0 .. 239, NEW y \in 0 .. 239, NEW z \in 0 .. 239, NEW t \in 0 .. 239,
         NEW a \in Byte, NEW b \in Byte, NEW c \in Byte, NEW d \in Byte
  PROVE  [f EXCEPT ![x] = a, ![y] = b, ![z] = c, ![t] = d]
           = [q \in 0 .. 239 |-> IF q = t THEN d ELSE IF q = z THEN c
                                 ELSE IF q = y THEN b ELSE IF q = x THEN a ELSE f[q]]
<1>1. PICK g1 : g1 = [f EXCEPT ![x] = a]
  OBVIOUS
<1>2. PICK g2 : g2 = [g1 EXCEPT ![y] = b]
  OBVIOUS
<1>3. PICK g3 : g3 = [g2 EXCEPT ![z] = c]
  OBVIOUS
<1>4. PICK g4 : g4 = [g3 EXCEPT ![t] = d]
  OBVIOUS
<1>5. [f EXCEPT ![x] = a, ![y] = b, ![z] = c, ![t] = d] = g4
  BY <1>1, <1>2, <1>3, <1>4
<1>6. g1 \in [0 .. 239 -> Byte] /\ \A q \in 0 .. 239 : g1[q] = IF q = x THEN a ELSE f[q]
  BY <1>1
<1>7. g2 \in [0 .. 239 -> Byte] /\ \A q \in 0 .. 239 : g2[q] = IF q = y THEN b ELSE g1[q]
  BY <1>2, <1>6
<1>8. g3 \in [0 .. 239 -> Byte] /\ \A q \in 0 .. 239 : g3[q] = IF q = z THEN c ELSE g2[q]
  BY <1>3, <1>7
<1>9. g4 \in [0 .. 239 -> Byte] /\ \A q \in 0 .. 239 : g4[q] = IF q = t THEN d ELSE g3[q]
  BY <1>4, <1>8
<1>10. \A q \in 0 .. 239 : g4[q] = IF q = t THEN d ELSE IF q = z THEN c ELSE IF q = y THEN b
        ELSE IF q = x THEN a ELSE f[q]
  BY <1>6, <1>7, <1>8, <1>9
<1>11. g4 = [q \in 0 .. 239 |-> g4[q]]
  BY <1>9
<1> QED
  BY <1>5, <1>10, <1>11

\* The recurrence reaches one word further.
LEMMA ExpandedUp ==
  ASSUME NEW f \in Expansion, NEW g \in Expansion, NEW k, NEW i \in 8 .. 59, Expanded(f, k, i),
         \A b \in 0 .. 239 : b < 4 * i => g[b] = f[b],
         \A q \in 0 .. 3 : g[4 * i + q]
                 = Xor(f[4 * i - 32 + q], Fed(i, [p \in 0 .. 3 |-> f[4 * i - 4 + p]])[q])
  PROVE  Expanded(g, k, i + 1)
<1>1. ASSUME NEW b \in 0 .. 31 PROVE g[b] = k[b]
  <2>1. b \in 0 .. 239 /\ b < 4 * i
    OBVIOUS
  <2> QED
    BY <2>1 DEF Expanded
<1>2. ASSUME NEW j \in 8 .. i, NEW q \in 0 .. 3
      PROVE  /\ g[4 * j - 32 + q] = f[4 * j - 32 + q]
             /\ [p \in 0 .. 3 |-> g[4 * j - 4 + p]] = [p \in 0 .. 3 |-> f[4 * j - 4 + p]]
  <2>1. PICK b \in 0 .. 239 : b = 4 * j - 32 + q
    OBVIOUS
  <2>2. b < 4 * i
    BY <2>1
  <2>3. ASSUME NEW p \in 0 .. 3 PROVE g[4 * j - 4 + p] = f[4 * j - 4 + p]
    <3>1. PICK d \in 0 .. 239 : d = 4 * j - 4 + p
      OBVIOUS
    <3>2. d < 4 * i
      BY <3>1
    <3> QED
      BY <3>1, <3>2
  <2> QED
    BY <2>1, <2>2, <2>3
<1>3. ASSUME NEW j \in 8 .. i, NEW q \in 0 .. 3
      PROVE  g[4 * j + q] = Xor(g[4 * j - 32 + q], Fed(j, [p \in 0 .. 3 |-> g[4 * j - 4 + p]])[q])
  <2>1. CASE j = i
    BY <1>2, <2>1
  <2>2. CASE j # i
    <3>1. j \in 8 .. i - 1
      BY <2>2
    <3>2. PICK b \in 0 .. 239 : b = 4 * j + q
      OBVIOUS
    <3>3. b < 4 * i
      BY <3>1, <3>2
    <3>4. g[4 * j + q] = f[4 * j + q]
      BY <3>2, <3>3
    <3>5. f[4 * j + q] = Xor(f[4 * j - 32 + q], Fed(j, [p \in 0 .. 3 |-> f[4 * j - 4 + p]])[q])
      BY <3>1 DEF Expanded
    <3> QED
      BY <1>2, <3>4, <3>5
  <2> QED
    BY <2>1, <2>2
<1>4. \A j \in 8 .. (i + 1) - 1 : j \in 8 .. i
  OBVIOUS
<1> QED
  BY <1>1, <1>3, <1>4 DEF Expanded

LEMMA StepCopyKey ==
  ASSUME Inv, CopyKey
  PROVE  Inv'
<1>1. /\ pc = "aes_key_expansion" /\ pc' = "expand_word" /\ zp' = Put(zp, zp_count, 8)
      /\ w' = [b \in 0 .. 239 |-> IF b < 32 THEN key[b] ELSE w[b]]
      /\ UNCHANGED <<layout, key, state, entry, call, calls>>
  BY DEF CopyKey, Goto
<1>2. Placed
  BY <1>1, Sounded
<1>3. zp \in Page /\ key \in KeyBytes /\ w \in Expansion
  BY DEF Inv, Typed
<1>4. zp_count \in Slot /\ 8 \in Byte
  BY DEF zp_count, Slot, Byte
<1>5. zp' \in Page /\ Get(zp', zp_count) = 8
  BY <1>1, <1>2, <1>3, <1>4, GetPut
<1>6. w' \in Expansion /\ \A b \in 0 .. 31 : w'[b] = key[b]
  BY <1>1, <1>3 DEF Expansion, KeyBytes
<1>7. Expanded(w', key, 8)
  BY <1>6 DEF Expanded
<1>8. Typed' /\ NoAlias'
  BY <1>1, <1>5, <1>6 DEF Inv, Typed, NoAlias
<1>9. Started'
  BY <1>1 DEF Started, Routine
<1>10. Expanding'
  <2>1. Get(zp, zp_count)' = 8
    BY <1>1, <1>5 DEF Get
  <2>2. Expanded(w, key, 8)'
    BY <1>1, <1>7 DEF Expanded
  <2> QED
    BY <2>1, <2>2 DEF Expanding
<1>11. pc' \notin Encrypting /\ pc' \notin Decrypting /\ pc' # "last_key"
  BY <1>1 DEF Encrypting, Decrypting
<1> QED
  BY <1>8, <1>9, <1>10, <1>11, Resting

\* A word, from the counter to the four bytes written.
LEMMA WordExpanded ==
  ASSUME Inv, ExpandWord, NEW i, i = Get(zp, zp_count)
  PROVE  /\ i \in 8 .. 59 /\ w' \in Expansion /\ zp' \in Page
         /\ Get(zp', zp_count) = i + 1 /\ Expanded(w', key, i + 1)
         /\ pc' = IF i + 1 < 60 THEN "expand_word" ELSE "idle"
<1>1. pc = "expand_word"
  BY DEF ExpandWord
<1>2. Placed
  BY <1>1, Sounded
<1>3. i \in 8 .. 59 /\ Expanded(w, key, i) /\ w \in Expansion /\ zp \in Page
  BY <1>1 DEF Inv, Typed, Expanding
<1>4. zp_count \in Slot /\ zp_count \notin 3 .. 6
  BY DEF zp_count, Slot
<1>5. ASSUME NEW b \in 0 .. 239 PROVE w[b] \in Byte
  BY <1>3 DEF Expansion
<1>6. PICK t \in [0 .. 3 -> Byte] : t = [k \in 0 .. 3 |-> w[4 * i - 4 + k]]
  <2>1. ASSUME NEW k \in 0 .. 3 PROVE w[4 * i - 4 + k] \in Byte
    <3>1. 4 * i - 4 + k \in 0 .. 239
      BY <1>3
    <3> QED
      BY <1>5, <3>1
  <2> QED
    BY <2>1
<1>7. PICK read : read = PutWord(zp, t)
  OBVIOUS
<1>8. read \in Page /\ Get(read, zp_count) = i /\ GetWord(read) = t
  BY <1>2, <1>3, <1>4, <1>7, WordPut
<1>9. PICK v \in [0 .. 3 -> Byte] : v = Fed(i, t)
  <2>1. 0 \in 0 .. 3
    OBVIOUS
  <2> QED
    BY <1>3, <2>1, FedIs
<1>10. PICK fed : fed = PutWord(read, v)
  OBVIOUS
<1>11. fed \in Page /\ Get(fed, zp_count) = i /\ \A k \in 0 .. 3 : Get(fed, Tmp(k)) = v[k]
  BY <1>2, <1>4, <1>8, <1>10, WordPut
<1> DEFINE word(k) == Xor(w[4 * i + k - 32], Get(fed, Tmp(k)))
<1>12. /\ w' = [w EXCEPT ![4 * i] = word(0), ![4 * i + 1] = word(1),
                         ![4 * i + 2] = word(2), ![4 * i + 3] = word(3)]
       /\ zp' = Put(fed, zp_count, i + 1)
       /\ pc' = IF i + 1 < 60 THEN "expand_word" ELSE "idle"
  BY <1>6, <1>7, <1>8, <1>9, <1>10, <1>11 DEF ExpandWord, Goto
<1>13. i + 1 \in Byte
  BY <1>3 DEF Byte
<1>14. zp' \in Page /\ Get(zp', zp_count) = i + 1
  BY <1>2, <1>4, <1>11, <1>12, <1>13, GetPut
<1>15. ASSUME NEW k \in 0 .. 3 PROVE word(k) = Xor(w[4 * i - 32 + k], v[k]) /\ word(k) \in Byte
  <2>1. PICK b \in 0 .. 239 : b = 4 * i - 32 + k
    BY <1>3
  <2>2. 4 * i + k - 32 = b
    BY <1>3, <2>1
  <2>3. w[b] \in Byte /\ v[k] \in Byte
    BY <1>5
  <2>4. Xor(w[b], v[k]) \in Byte
    BY <2>3, XorType
  <2> QED
    BY <1>11, <2>1, <2>2, <2>4
<1> HIDE DEF word
<1>16. word(0) \in Byte /\ word(1) \in Byte /\ word(2) \in Byte /\ word(3) \in Byte
  BY <1>15
<1>17. PICK x \in 0 .. 239 : x = 4 * i
  BY <1>3
<1>18. x + 1 \in 0 .. 239 /\ x + 2 \in 0 .. 239 /\ x + 3 \in 0 .. 239
  BY <1>3, <1>17
<1>19. w' = [q \in 0 .. 239 |-> IF q = x + 3 THEN word(3) ELSE IF q = x + 2 THEN word(2)
                                ELSE IF q = x + 1 THEN word(1) ELSE IF q = x THEN word(0) ELSE w[q]]
  <2>1. PICK f \in [0 .. 239 -> Byte] : f = w
    BY <1>3 DEF Expansion
  <2>2. PICK y \in 0 .. 239 : y = x + 1
    BY <1>18
  <2>3. PICK z \in 0 .. 239 : z = x + 2
    BY <1>18
  <2>4. PICK d \in 0 .. 239 : d = x + 3
    BY <1>18
  <2>5. w' = [f EXCEPT ![x] = word(0), ![y] = word(1), ![z] = word(2), ![d] = word(3)]
    BY <1>12, <1>17, <2>1, <2>2, <2>3, <2>4
  <2>6. w' = [q \in 0 .. 239 |-> IF q = d THEN word(3) ELSE IF q = z THEN word(2)
                                 ELSE IF q = y THEN word(1) ELSE IF q = x THEN word(0) ELSE f[q]]
    BY <1>16, <2>5, FourWritten
  <2> QED
    BY <2>1, <2>2, <2>3, <2>4, <2>6
<1>20. PICK g : g = w'
  OBVIOUS
<1>21. g \in Expansion /\ \A b \in 0 .. 239 : b < 4 * i => g[b] = w[b]
  <2>1. ASSUME NEW q \in 0 .. 239
        PROVE  /\ g[q] = IF q = x + 3 THEN word(3) ELSE IF q = x + 2 THEN word(2)
                         ELSE IF q = x + 1 THEN word(1) ELSE IF q = x THEN word(0) ELSE w[q]
               /\ g[q] \in Byte
    BY <1>5, <1>16, <1>19, <1>20
  <2>2. g = [q \in 0 .. 239 |-> g[q]]
    BY <1>19, <1>20
  <2>3. g \in Expansion
    BY <2>1, <2>2 DEF Expansion
  <2>4. ASSUME NEW b \in 0 .. 239, b < 4 * i PROVE g[b] = w[b]
    <3>1. b # x + 3 /\ b # x + 2 /\ b # x + 1 /\ b # x
      BY <1>17, <2>4
    <3> QED
      BY <2>1, <3>1
  <2> QED
    BY <2>3, <2>4
<1>22. ASSUME NEW q \in 0 .. 3
       PROVE  g[4 * i + q] = Xor(w[4 * i - 32 + q], Fed(i, [p \in 0 .. 3 |-> w[4 * i - 4 + p]])[q])
  <2>1. g[x] = word(0) /\ g[x + 1] = word(1) /\ g[x + 2] = word(2) /\ g[x + 3] = word(3)
    <3>1. ASSUME NEW b \in 0 .. 239
          PROVE  g[b] = IF b = x + 3 THEN word(3) ELSE IF b = x + 2 THEN word(2)
                        ELSE IF b = x + 1 THEN word(1) ELSE IF b = x THEN word(0) ELSE w[b]
      BY <1>19, <1>20
    <3> QED
      BY <1>18, <3>1
  <2>2. q = 0 \/ q = 1 \/ q = 2 \/ q = 3
    OBVIOUS
  <2>3. g[4 * i + q] = word(q)
    BY <1>17, <2>1, <2>2
  <2> QED
    BY <1>6, <1>9, <1>15, <2>3
<1>23. Expanded(g, key, i + 1)
  <2>1. PICK f \in Expansion : f = w
    BY <1>3
  <2> QED
    BY <1>3, <1>21, <1>22, <2>1, ExpandedUp
<1> QED
  BY <1>3, <1>12, <1>14, <1>20, <1>21, <1>23

LEMMA StepExpandWord ==
  ASSUME Inv, ExpandWord
  PROVE  Inv'
<1>1. PICK i : i = Get(zp, zp_count)
  OBVIOUS
<1>2. /\ i \in 8 .. 59 /\ w' \in Expansion /\ zp' \in Page
      /\ Get(zp', zp_count) = i + 1 /\ Expanded(w', key, i + 1)
      /\ pc' = IF i + 1 < 60 THEN "expand_word" ELSE "idle"
  BY <1>1, WordExpanded
<1>3. pc = "expand_word" /\ UNCHANGED <<layout, key, state, entry, call, calls>>
  BY DEF ExpandWord
<1>4. pc' \in {"expand_word", "idle"}
  BY <1>2
<1>5. Typed' /\ NoAlias'
  BY <1>2, <1>3, <1>4 DEF Inv, Typed, NoAlias
<1>6. Started'
  BY <1>4 DEF Started, Routine
<1>7. Expanding'
  <2> SUFFICES ASSUME pc' = "expand_word"
      PROVE  Get(zp, zp_count)' \in 8 .. 59 /\ Expanded(w, key, Get(zp, zp_count))'
    BY DEF Expanding
  <2>1. i + 1 < 60
    BY <1>2
  <2>2. Get(zp, zp_count)' = i + 1
    BY <1>2, <1>3 DEF Get
  <2>3. Expanded(w, key, i + 1)'
    BY <1>2, <1>3 DEF Expanded
  <2>4. Expanded(w, key, Get(zp, zp_count))'
    BY <2>2, <2>3
  <2> QED
    BY <1>2, <2>1, <2>2, <2>4
<1>8. pc' \notin Encrypting /\ pc' \notin Decrypting /\ pc' # "last_key"
  BY <1>4 DEF Encrypting, Decrypting
<1> QED
  BY <1>5, <1>6, <1>7, <1>8, Resting

\* The counters of a page in which one of them was written.
LEMMA CounterPut ==
  ASSUME Placed, NEW m \in Page, NEW v \in Byte
  PROVE  /\ Put(m, aes_round, v) \in Page /\ Get(Put(m, aes_round, v), aes_round) = v
         /\ Put(m, aes_col, v) \in Page /\ Get(Put(m, aes_col, v), aes_col) = v
         /\ Get(Put(m, aes_round, v), aes_col) = Get(m, aes_col)
         /\ Get(Put(m, aes_col, v), aes_round) = Get(m, aes_round)
<1>1. aes_round \in Slot /\ aes_col \in Slot /\ aes_round # aes_col
  BY DEF aes_round, aes_col, Slot
<1> QED
  BY <1>1, GetPut

LEMMA Typing ==
  ASSUME Inv
  PROVE  zp \in Page /\ w \in Expansion /\ state \in State /\ entry \in State
BY DEF Inv, Typed

LEMMA StepEncryptStart ==
  ASSUME Inv, EncryptStart
  PROVE  Inv'
<1>1. /\ pc = "aes_encrypt_block" /\ pc' = "sub_bytes"
      /\ state' = aes_add_round_key(Put(zp, aes_round, 0)) /\ zp' = Put(zp, aes_round, 1)
      /\ UNCHANGED <<layout, key, w, entry, call, calls>>
  BY DEF EncryptStart, FirstKey, Goto
<1>2. entry = state /\ call = "aes_encrypt_block"
  BY <1>1 DEF Inv, Started, Routine
<1>3. Placed
  BY <1>1, Sounded
<1>4. 0 \in Byte /\ 1 \in Byte /\ 0 \in 0 .. 14
  BY DEF Byte
<1>5. zp' \in Page /\ Get(zp', aes_round) = 1 /\ Get(Put(zp, aes_round, 0), aes_round) = 0
  BY <1>1, <1>3, <1>4, CounterPut, Typing
<1>6. PICK st : st = state'
  OBVIOUS
<1>7. st \in State /\ Tuple(st) = AddRoundKey(Tuple(state), Words(w), 0)
  BY <1>1, <1>4, <1>5, <1>6, KeyOf
<1>8. Leads(Words(w), 0, Sub(AddRoundKey(Tuple(entry), Words(w), 0)), Cipher(Tuple(entry), Words(w)))
  BY Typing, TupleType, CipherLeads
<1>9. Out = Cipher(Tuple(entry), Words(w))
  BY <1>2 DEF Out
<1>10. Leads(Words(w), 0, Sub(Tuple(st)), Out)
  BY <1>2, <1>7, <1>8, <1>9
<1>11. Phase("sub_bytes", call, 1, Get(zp', aes_col), Tuple(st), Words(w), Out)
  BY <1>2, <1>10 DEF Phase, Encrypting, Decrypting
<1>12. "sub_bytes" \in Encrypting
  BY DEF Encrypting
<1> QED
  BY <1>1, <1>5, <1>6, <1>7, <1>11, <1>12, Working

LEMMA StepDecryptStart ==
  ASSUME Inv, DecryptStart
  PROVE  Inv'
<1>1. /\ pc = "aes_decrypt_block" /\ pc' = "inv_shift_rows"
      /\ state' = aes_add_round_key(Put(zp, aes_round, 14)) /\ zp' = Put(zp, aes_round, 13)
      /\ UNCHANGED <<layout, key, w, entry, call, calls>>
  BY DEF DecryptStart, FirstKey, Goto
<1>2. entry = state /\ call = "aes_decrypt_block"
  BY <1>1 DEF Inv, Started, Routine
<1>3. Placed
  BY <1>1, Sounded
<1>4. 13 \in Byte /\ 14 \in Byte /\ 14 \in 0 .. 14
  BY DEF Byte
<1>5. zp' \in Page /\ Get(zp', aes_round) = 13 /\ Get(Put(zp, aes_round, 14), aes_round) = 14
  BY <1>1, <1>3, <1>4, CounterPut, Typing
<1>6. PICK st : st = state'
  OBVIOUS
<1>7. st \in State /\ AddRoundKey(Tuple(st), Words(w), 14) = Tuple(state)
  BY <1>1, <1>4, <1>5, <1>6, KeyOf
<1>8. Leads(Words(w), 13, Tuple(st), AddRoundKey(Tuple(st), Words(w), 14))
  BY <1>7, TupleType, LeadsLast
<1>9. Out = Tuple(entry)
  BY <1>2 DEF Out
<1>10. Leads(Words(w), 13, Tuple(st), Out)
  BY <1>2, <1>7, <1>8, <1>9
<1>11. Phase("inv_shift_rows", call, 13, Get(zp', aes_col), Tuple(st), Words(w), Out)
  BY <1>2, <1>10 DEF Phase, Encrypting, Decrypting
<1>12. "inv_shift_rows" \in Decrypting
  BY DEF Decrypting
<1> QED
  BY <1>1, <1>5, <1>6, <1>7, <1>11, <1>12, Working

\* The four routines that rewrite the block and nothing else.
LEMMA Rewritten ==
  ASSUME Inv, NEW here, NEW then, NEW last, NEW lastThen, NEW s \in State,
         Rewrite(here, then, last, lastThen, s),
         here \notin {"assemble", "refused"}, last \notin {"assemble", "refused"},
         {then, lastThen} \subseteq Encrypting \cup Decrypting \cup {"last_key"},
         \A a, r, c, u, out :
           /\ Phase(here, a, r, c, Tuple(state), u, out) => Phase(then, a, r, c, Tuple(s), u, out)
           /\ Phase(last, a, r, c, Tuple(state), u, out) => Phase(lastThen, a, r, c, Tuple(s), u, out)
  PROVE  Inv'
<1>1. /\ \/ pc = here /\ pc' = then
         \/ pc = last /\ pc' = lastThen
      /\ state' = s /\ UNCHANGED <<layout, zp, key, w, entry, call, calls>>
  BY DEF Rewrite, Goto
<1>2. Phase(pc, call, Get(zp, aes_round), Get(zp, aes_col), Tuple(state), Words(w), Out)
  BY DEF Inv, Ciphering
<1>3. Phase(pc', call, Get(zp, aes_round), Get(zp, aes_col), Tuple(s), Words(w), Out)
  BY <1>1, <1>2
<1>4. zp' = zp /\ zp' \in Page
  BY <1>1, Typing
<1> QED
  BY <1>1, <1>3, <1>4, Working

LEMMA StepSubBytes ==
  ASSUME Inv, aes_sub_bytes
  PROVE  Inv'
<1>1. PICK st \in State : st = state
  BY Typing
<1>2. PICK s : s = [x \in Position |-> sbox(st[x])]
  OBVIOUS
<1>3. s \in State
  BY <1>2, TablesAssumption DEF State
<1>4. Tuple(s) = SubBytes(Tuple(st))
  BY <1>2, Substituted
<1>5. Rewrite("sub_bytes", "shift_rows", "last_sub_bytes", "last_shift_rows", s)
  BY <1>1, <1>2 DEF aes_sub_bytes
<1>6. ASSUME NEW a, NEW r, NEW c, NEW u, NEW out
      PROVE  /\ Phase("sub_bytes", a, r, c, Tuple(st), u, out)
              => Phase("shift_rows", a, r, c, Tuple(s), u, out)
             /\ Phase("last_sub_bytes", a, r, c, Tuple(st), u, out)
                  => Phase("last_shift_rows", a, r, c, Tuple(s), u, out)
  BY <1>4 DEF Phase, Encrypting, Decrypting, Sub
<1>7. {"shift_rows", "last_shift_rows"} \subseteq Encrypting \cup Decrypting \cup {"last_key"}
  BY DEF Encrypting
<1> QED
  BY <1>1, <1>3, <1>5, <1>6, <1>7, Rewritten

LEMMA StepShiftRows ==
  ASSUME Inv, aes_shift_rows
  PROVE  Inv'
<1>1. PICK st \in State : st = state
  BY Typing
<1>2. PICK s : s = [x \in Position |-> st[Rotated(x)]]
  OBVIOUS
<1>3. s \in State
  <2>1. \A x \in Position : Rotated(x) \in Position
    BY DEF Position, Rotated
  <2> QED
    BY <1>2, <2>1 DEF State
<1>4. Tuple(s) = ShiftRows(Tuple(st))
  BY <1>2, Shifted
<1>5. Rewrite("shift_rows", "mix_columns", "last_shift_rows", "last_key", s)
  BY <1>1, <1>2 DEF aes_shift_rows
<1>6. ASSUME NEW a, NEW r, NEW c, NEW u, NEW out
      PROVE  /\ Phase("shift_rows", a, r, c, Tuple(st), u, out)
              => Phase("mix_columns", a, r, c, Tuple(s), u, out)
             /\ Phase("last_shift_rows", a, r, c, Tuple(st), u, out)
                  => Phase("last_key", a, r, c, Tuple(s), u, out)
  BY <1>4 DEF Phase, Encrypting, Decrypting
<1>7. {"mix_columns", "last_key"} \subseteq Encrypting \cup Decrypting \cup {"last_key"}
  BY DEF Encrypting
<1> QED
  BY <1>1, <1>3, <1>5, <1>6, <1>7, Rewritten

LEMMA StepInvShiftRows ==
  ASSUME Inv, aes_inv_shift_rows
  PROVE  Inv'
<1>1. PICK st \in State : st = state
  BY Typing
<1>2. PICK s : s = [x \in Position |-> CASE x % 4 = 0 -> st[x]
                                [] x % 4 = 1 -> st[(x + 12) % 16]
                                [] x % 4 = 2 -> st[(x + 8) % 16]
                                [] x % 4 = 3 -> st[(x + 4) % 16]]
  OBVIOUS
<1>3. s \in State
  BY <1>2 DEF State, Position
<1>4. ShiftRows(Tuple(s)) = Tuple(st)
  BY <1>2, Unshifted
<1>5. Rewrite("inv_shift_rows", "inv_sub_bytes", "last_inv_shift_rows", "last_inv_sub_bytes", s)
  <2>1. ASSUME NEW x \in Position
        PROVE  (CASE x % 4 = 0 -> st[x]
                  [] x % 4 = 1 -> st[(x + 12) % 16]
                  [] x % 4 = 2 -> st[(x + 8) % 16]
                  [] x % 4 = 3 -> st[(x + 4) % 16])
               = (CASE x % 4 = 0 -> state[x]
                    [] x % 4 = 1 -> state[(x + 12) % 16]
                    [] x % 4 = 2 -> state[(x + 8) % 16]
                    [] x % 4 = 3 -> state[(x + 4) % 16])
    BY <1>1
  <2>2. s = [x \in Position |-> CASE x % 4 = 0 -> state[x]
                                [] x % 4 = 1 -> state[(x + 12) % 16]
                                [] x % 4 = 2 -> state[(x + 8) % 16]
                                [] x % 4 = 3 -> state[(x + 4) % 16]]
    BY <1>2, <2>1
  <2> QED
    BY <2>2 DEF aes_inv_shift_rows
<1>6. ASSUME NEW a, NEW r, NEW c, NEW u, NEW out
      PROVE  /\ Phase("inv_shift_rows", a, r, c, Tuple(st), u, out)
              => Phase("inv_sub_bytes", a, r, c, Tuple(s), u, out)
             /\ Phase("last_inv_shift_rows", a, r, c, Tuple(st), u, out)
                  => Phase("last_inv_sub_bytes", a, r, c, Tuple(s), u, out)
  BY <1>4 DEF Phase, Encrypting, Decrypting
<1>7. {"inv_sub_bytes", "last_inv_sub_bytes"} \subseteq Encrypting \cup Decrypting \cup {"last_key"}
  BY DEF Decrypting
<1> QED
  BY <1>1, <1>3, <1>5, <1>6, <1>7, Rewritten

LEMMA StepInvSubBytes ==
  ASSUME Inv, aes_inv_sub_bytes
  PROVE  Inv'
<1>1. PICK st \in State : st = state
  BY Typing
<1>2. PICK s : s = [x \in Position |-> inv_sbox(st[x])]
  OBVIOUS
<1>3. s \in State
  BY <1>2, TablesAssumption DEF State
<1>4. SubBytes(Tuple(s)) = Tuple(st)
  BY <1>2, Unsubstituted
<1>5. Rewrite("inv_sub_bytes", "inv_round_key", "last_inv_sub_bytes", "last_key", s)
  BY <1>1, <1>2 DEF aes_inv_sub_bytes
<1>6. ASSUME NEW a, NEW r, NEW c, NEW u, NEW out
      PROVE  /\ Phase("inv_sub_bytes", a, r, c, Tuple(st), u, out)
              => Phase("inv_round_key", a, r, c, Tuple(s), u, out)
             /\ Phase("last_inv_sub_bytes", a, r, c, Tuple(st), u, out)
                  => Phase("last_key", a, r, c, Tuple(s), u, out)
  BY <1>4 DEF Phase, Encrypting, Decrypting, Sub
<1>7. {"inv_round_key", "last_key"} \subseteq Encrypting \cup Decrypting \cup {"last_key"}
  BY DEF Decrypting
<1> QED
  BY <1>1, <1>3, <1>5, <1>6, <1>7, Rewritten

LEMMA StepMixStart ==
  ASSUME Inv, MixStart
  PROVE  Inv'
<1>1. /\ \/ pc = "mix_columns" /\ pc' = "mix_column"
         \/ pc = "inv_mix_columns" /\ pc' = "inv_mix_column"
      /\ zp' = Put(zp, aes_col, 0) /\ UNCHANGED <<layout, key, w, state, entry, call, calls>>
  BY DEF MixStart, Goto, data
<1>2. Placed
  BY <1>1, Sounded
<1>3. 0 \in Byte
  BY DEF Byte
<1>4. zp' \in Page /\ Get(zp', aes_col) = 0 /\ Get(zp', aes_round) = Get(zp, aes_round)
  BY <1>1, <1>2, <1>3, CounterPut, Typing
<1>5. PICK s \in Blk : s = Tuple(state)
  BY Typing, TupleType
<1>6. Partly(s, 0) = s
  BY PartlyEnds
<1>7. ASSUME NEW a, NEW r, NEW c, NEW u, NEW out
      PROVE  /\ Phase("mix_columns", a, r, c, s, u, out) => Phase("mix_column", a, r, 0, s, u, out)
             /\ Phase("inv_mix_columns", a, r, c, s, u, out)
                     => Phase("inv_mix_column", a, r, 0, s, u, out)
  BY <1>6 DEF Phase, Encrypting, Decrypting
<1>8. Phase(pc, call, Get(zp, aes_round), Get(zp, aes_col), s, Words(w), Out)
  BY <1>5 DEF Inv, Ciphering
<1>9. Phase(pc', call, Get(zp, aes_round), 0, s, Words(w), Out)
  BY <1>1, <1>7, <1>8
<1>10. pc' \in Encrypting \cup Decrypting \cup {"last_key"}
  BY <1>1 DEF Encrypting, Decrypting
<1>11. state' \in State /\ Tuple(state') = s
  BY <1>1, <1>5, Typing
<1>12. pc \notin {"assemble", "refused"}
  BY <1>1
<1> QED
  BY <1>1, <1>4, <1>9, <1>10, <1>11, <1>12, Working

\* The column in the temporaries, mixed and written back.
LEMMA ColumnDone ==
  ASSUME Inv, MixColumn, NEW c \in 0 .. 3, c = Get(zp, aes_col)
  PROVE  /\ zp' \in Page /\ Get(zp', aes_col) = c + 1 /\ Get(zp', aes_round) = Get(zp, aes_round)
         /\ state' \in State
         /\ pc' = IF c + 1 = 4 THEN "round_key" ELSE "mix_column"
         /\ \A s \in Blk : Tuple(state) = Partly(s, c) => Tuple(state') = Partly(s, c + 1)
<1>1. pc = "mix_column"
  BY DEF MixColumn
<1>2. Placed
  BY <1>1, Sounded
<1>3. PICK st \in State : st = state
  BY Typing
<1>4. PICK t \in [0 .. 3 -> Byte] : t = [k \in 0 .. 3 |-> st[4 * c + k]]
  <2>1. ASSUME NEW k \in 0 .. 3 PROVE st[4 * c + k] \in Byte
    <3>1. 4 * c + k \in Position
      BY DEF Position
    <3> QED
      BY <3>1 DEF State
  <2> QED
    BY <2>1
<1>5. PICK m : m = PutWord(zp, t)
  OBVIOUS
<1>6. aes_col \in Slot /\ aes_round \in Slot /\ aes_col \notin 3 .. 6 /\ aes_round \notin 3 .. 6
      /\ aes_col # zp_temp /\ aes_round # zp_temp
  BY DEF aes_col, aes_round, zp_temp, Slot
<1>7. /\ m \in Page /\ \A k \in 0 .. 3 : Get(m, Tmp(k)) = t[k]
      /\ Get(m, aes_col) = c /\ Get(m, aes_round) = Get(zp, aes_round)
  BY <1>2, <1>5, <1>6, Typing, WordPut
<1>8. PICK out : out = Mixed(m)
  OBVIOUS
<1>9. /\ out.mem \in Page
      /\ Get(out.mem, aes_col) = c /\ Get(out.mem, aes_round) = Get(zp, aes_round)
      /\ \A k \in 0 .. 3 : out.bytes[k] = MixedByte(t[k], t[(k + 1) % 4], t[(k + 2) % 4], t[(k + 3) % 4])
  BY <1>2, <1>6, <1>7, <1>8, MixedIs
<1>10. /\ state' = [p \in Position |-> IF p \in 4 * c .. 4 * c + 3 THEN out.bytes[p % 4] ELSE st[p]]
       /\ zp' = Put(out.mem, aes_col, c + 1)
       /\ pc' = IF c + 1 = 4 THEN "round_key" ELSE "mix_column"
  BY <1>3, <1>4, <1>5, <1>8, <1>9 DEF MixColumn, Goto
<1>11. zp' \in Page /\ Get(zp', aes_col) = c + 1 /\ Get(zp', aes_round) = Get(zp, aes_round)
  <2>1. PICK mem \in Page : mem = out.mem
    BY <1>9
  <2>2. c + 1 \in Byte
    BY DEF Byte
  <2>3. zp' = Put(mem, aes_col, c + 1)
    BY <1>10, <2>1
  <2> QED
    BY <1>2, <1>9, <2>1, <2>2, <2>3, CounterPut
<1>12. ASSUME NEW k \in 0 .. 3 PROVE out.bytes[k] \in Byte
  <2>1. (k + 1) % 4 \in 0 .. 3 /\ (k + 2) % 4 \in 0 .. 3 /\ (k + 3) % 4 \in 0 .. 3
    OBVIOUS
  <2>2. t[k] \in Byte /\ t[(k + 1) % 4] \in Byte /\ t[(k + 2) % 4] \in Byte /\ t[(k + 3) % 4] \in Byte
    BY <2>1
  <2> QED
    BY <1>9, <2>2, MixedByteType
<1>13. PICK new : new = state'
  OBVIOUS
<1>14. new \in State /\ \A p \in Position : ~ (p \in 4 * c .. 4 * c + 3) => new[p] = st[p]
  <2>1. ASSUME NEW p \in Position PROVE out.bytes[p % 4] \in Byte /\ st[p] \in Byte
    <3>1. p % 4 \in 0 .. 3
      BY DEF Position
    <3> QED
      BY <1>12, <3>1 DEF State
  <2> QED
    BY <1>10, <1>13, <2>1 DEF State
<1>15. ASSUME NEW p \in 4 * c .. 4 * c + 3
       PROVE  new[p] = MixedByte(st[4 * c + (p % 4)], st[4 * c + ((p + 1) % 4)],
                                 st[4 * c + ((p + 2) % 4)], st[4 * c + ((p + 3) % 4)])
  <2>1. PICK k \in 0 .. 3 : k = p % 4
    OBVIOUS
  <2>2. (p + 1) % 4 = (k + 1) % 4 /\ (p + 2) % 4 = (k + 2) % 4 /\ (p + 3) % 4 = (k + 3) % 4
    BY <2>1
  <2>3. p \in Position
    BY DEF Position
  <2>4. new[p] = out.bytes[k]
    BY <1>10, <1>13, <2>1, <2>3
  <2>5. \A q \in 0 .. 3 : t[q] = st[4 * c + q]
    BY <1>4
  <2>6. (k + 1) % 4 \in 0 .. 3 /\ (k + 2) % 4 \in 0 .. 3 /\ (k + 3) % 4 \in 0 .. 3
    OBVIOUS
  <2>7. new[p] = MixedByte(t[k], t[(k + 1) % 4], t[(k + 2) % 4], t[(k + 3) % 4])
    BY <1>9, <2>4
  <2>8. /\ t[k] = st[4 * c + k] /\ t[(k + 1) % 4] = st[4 * c + ((k + 1) % 4)]
        /\ t[(k + 2) % 4] = st[4 * c + ((k + 2) % 4)] /\ t[(k + 3) % 4] = st[4 * c + ((k + 3) % 4)]
    BY <2>5, <2>6
  <2> QED
    BY <2>1, <2>2, <2>7, <2>8
<1>16. ASSUME NEW s \in Blk, Tuple(st) = Partly(s, c) PROVE Tuple(new) = Partly(s, c + 1)
  BY <1>14, <1>15, <1>16, ColumnMixed
<1> QED
  BY <1>3, <1>10, <1>11, <1>13, <1>14, <1>16

LEMMA StepMixColumn ==
  ASSUME Inv, MixColumn
  PROVE  Inv'
<1>1. pc = "mix_column" /\ UNCHANGED <<layout, key, w, entry, call, calls>>
  BY DEF MixColumn
<1>2. PICK r : r = Get(zp, aes_round)
  OBVIOUS
<1>3. PICK c : c = Get(zp, aes_col)
  OBVIOUS
<1>4. Phase("mix_column", call, r, c, Tuple(state), Words(w), Out)
  BY <1>1, <1>2, <1>3 DEF Inv, Ciphering
<1>5. /\ call = "aes_encrypt_block" /\ r \in 1 .. 13 /\ c \in 0 .. 3
      /\ \E x \in Blk : Leads(Words(w), r - 1, x, Out) /\ Tuple(state) = Partly(x, c)
  BY <1>4 DEF Phase, Encrypting
<1>6. PICK x \in Blk : Leads(Words(w), r - 1, x, Out) /\ Tuple(state) = Partly(x, c)
  BY <1>5
<1>7. PICK new : new = state'
  OBVIOUS
<1>8. /\ zp' \in Page /\ Get(zp', aes_col) = c + 1 /\ Get(zp', aes_round) = r
      /\ new \in State
      /\ pc' = (IF c + 1 = 4 THEN "round_key" ELSE "mix_column")
      /\ Tuple(new) = Partly(x, c + 1)
  BY <1>2, <1>3, <1>5, <1>6, <1>7, ColumnDone
<1>9. pc' \in Encrypting
  BY <1>8 DEF Encrypting
<1>10. Phase(pc', call, r, c + 1, Tuple(new), Words(w), Out)
  <2>1. CASE c + 1 = 4
    <3>1. Tuple(new) = MixColumns(x)
      BY <1>8, <2>1, PartlyEnds
    <3>2. PICK q \in 0 .. 12 : q = r - 1 /\ r = q + 1
      BY <1>5
    <3>3. Leads(Words(w), q + 1, Stage(x, Words(w), q + 1), Out)
      BY <1>6, <3>2, LeadsUp
    <3>4. Leads(Words(w), r, Sub(AddRoundKey(Tuple(new), Words(w), r)), Out)
      BY <3>1, <3>2, <3>3 DEF Stage
    <3> QED
      BY <1>5, <1>8, <2>1, <3>4 DEF Phase, Encrypting, Decrypting
  <2>2. CASE c + 1 # 4
    <3>1. c + 1 \in 0 .. 3
      BY <1>5, <2>2
    <3> QED
      BY <1>5, <1>6, <1>8, <2>2, <3>1 DEF Phase, Encrypting, Decrypting
  <2> QED
    BY <2>1, <2>2
<1> QED
  BY <1>1, <1>7, <1>8, <1>9, <1>10, Working

LEMMA StepRoundKey ==
  ASSUME Inv, RoundKey
  PROVE  Inv'
<1>1. PICK r : r = Get(zp, aes_round)
  OBVIOUS
<1>2. /\ pc = "round_key" /\ UNCHANGED <<layout, key, w, entry, call, calls>>
      /\ state' = aes_add_round_key(zp) /\ zp' = Put(zp, aes_round, r + 1)
      /\ pc' = IF r + 1 < 14 THEN "sub_bytes" ELSE "last_sub_bytes"
  BY <1>1 DEF RoundKey, Goto
<1>3. Phase("round_key", call, r, Get(zp, aes_col), Tuple(state), Words(w), Out)
  BY <1>1, <1>2 DEF Inv, Ciphering
<1>4. /\ call = "aes_encrypt_block" /\ r \in 1 .. 13
      /\ Leads(Words(w), r, Sub(AddRoundKey(Tuple(state), Words(w), r)), Out)
  BY <1>3 DEF Phase, Encrypting
<1>5. Placed
  BY <1>2, Sounded
<1>6. PICK next \in Byte : next = r + 1
  BY <1>4 DEF Byte
<1>7. zp' \in Page /\ Get(zp', aes_round) = next
  BY <1>2, <1>5, <1>6, CounterPut, Typing
<1>8. PICK st : st = state'
  OBVIOUS
<1>9. st \in State /\ Tuple(st) = AddRoundKey(Tuple(state), Words(w), r)
  <2>1. r \in 0 .. 14
    BY <1>4
  <2> QED
    BY <1>1, <1>2, <1>8, <2>1, KeyOf
<1>10. Leads(Words(w), r, Sub(Tuple(st)), Out)
  BY <1>4, <1>9
<1>11. pc' \in Encrypting
  BY <1>2 DEF Encrypting
<1>12. Phase(pc', call, next, Get(zp', aes_col), Tuple(st), Words(w), Out)
  <2>1. CASE r + 1 < 14
    <3>1. next \in 1 .. 13 /\ next - 1 = r
      BY <1>4, <1>6, <2>1
    <3> QED
      BY <1>2, <1>4, <1>10, <2>1, <3>1 DEF Phase, Encrypting, Decrypting
  <2>2. CASE ~ (r + 1 < 14)
    <3>1. next = 14 /\ r = 13
      BY <1>4, <1>6, <2>2
    <3> QED
      BY <1>2, <1>4, <1>10, <2>2, <3>1 DEF Phase, Encrypting, Decrypting
  <2> QED
    BY <2>1, <2>2
<1> QED
  BY <1>2, <1>7, <1>8, <1>9, <1>11, <1>12, Working

LEMMA StepInvRoundKey ==
  ASSUME Inv, InvRoundKey
  PROVE  Inv'
<1>1. PICK r : r = Get(zp, aes_round)
  OBVIOUS
<1>2. /\ pc = "inv_round_key" /\ UNCHANGED <<layout, zp, key, w, entry, call, calls>>
      /\ state' = aes_add_round_key(zp) /\ pc' = "inv_mix_columns"
  BY <1>1 DEF InvRoundKey, Goto
<1>3. Phase("inv_round_key", call, r, Get(zp, aes_col), Tuple(state), Words(w), Out)
  BY <1>1, <1>2 DEF Inv, Ciphering
<1>4. call = "aes_decrypt_block" /\ r \in 1 .. 13 /\ Leads(Words(w), r, Sub(Tuple(state)), Out)
  BY <1>3 DEF Phase, Decrypting
<1>5. PICK st : st = state'
  OBVIOUS
<1>6. st \in State /\ AddRoundKey(Tuple(st), Words(w), r) = Tuple(state)
  <2>1. r \in 0 .. 14
    BY <1>4
  <2> QED
    BY <1>1, <1>2, <1>5, <2>1, KeyOf
<1>7. Leads(Words(w), r, Sub(AddRoundKey(Tuple(st), Words(w), r)), Out)
  BY <1>4, <1>6
<1>8. Phase("inv_mix_columns", call, r, Get(zp, aes_col), Tuple(st), Words(w), Out)
  BY <1>4, <1>7 DEF Phase, Encrypting, Decrypting
<1>9. zp' = zp /\ zp' \in Page /\ "inv_mix_columns" \in Decrypting
  BY <1>2, Typing DEF Decrypting
<1> QED
  BY <1>1, <1>2, <1>5, <1>6, <1>8, <1>9, Working

\* The offset parked in a temporary of the key schedule, the argument of the
\* products in another: neither meets the counters.
LEMMA ColumnUndone ==
  ASSUME Inv, InvMixColumn, NEW c \in 0 .. 3, c = Get(zp, aes_col),
         NEW r \in 1 .. 13, r = Get(zp, aes_round)
  PROVE  /\ zp' \in Page
         /\ IF c + 1 = 4
            THEN /\ Get(zp', aes_round) = r - 1
                 /\ pc' = IF r - 1 # 0 THEN "inv_shift_rows" ELSE "last_inv_shift_rows"
            ELSE Get(zp', aes_round) = r /\ Get(zp', aes_col) = c + 1 /\ pc' = "inv_mix_column"
         /\ state' \in State
         /\ Partly(Tuple(state'), c + 1) = Partly(Tuple(state), c)
<1>1. pc = "inv_mix_column"
  BY DEF InvMixColumn
<1>2. Placed
  BY <1>1, Sounded
<1>3. PICK st \in State : st = state
  BY Typing
<1>4. PICK offset \in Byte : offset = 4 * c
  BY DEF Byte
<1> DEFINE a(k) == st[offset + (k % 4)]
           b(k) == Xor(Xor(gf_mul_0e(a(k)), gf_mul_0b(a(k + 1))),
                       Xor(gf_mul_0d(a(k + 2)), gf_mul_09(a(k + 3))))
<1>5. ASSUME NEW k \in 0 .. 3 PROVE st[offset + k] \in Byte
  <2>1. offset + k \in Position
    BY <1>4 DEF Position
  <2> QED
    BY <2>1 DEF State
<1>6. PICK parked \in Byte : parked = gf_mul_0c(a(3))
  <2>1. a(3) = st[offset + 3] /\ st[offset + 3] \in Byte
    BY <1>5
  <2>2. \A x \in Byte : gf_mul_0c(x) \in Byte
    BY DoubleBits, XorType DEF gf_mul_0c
  <2> HIDE DEF a
  <2> QED
    BY <2>1, <2>2
<1>7. PICK m1 : m1 = Put(zp, aes_tmp1, offset)
  OBVIOUS
<1>8. aes_tmp1 \in Slot /\ zp_temp \in Slot /\ aes_col \in Slot /\ aes_round \in Slot
      /\ aes_tmp1 # zp_temp /\ aes_tmp1 # aes_col /\ aes_tmp1 # aes_round
      /\ zp_temp # aes_col /\ zp_temp # aes_round
  BY DEF aes_tmp1, zp_temp, aes_col, aes_round, Slot
<1>9. m1 \in Page /\ Get(m1, aes_tmp1) = offset /\ Get(m1, aes_col) = c /\ Get(m1, aes_round) = r
  BY <1>2, <1>7, <1>8, Typing, GetPut
<1>10. PICK mem : mem = Put(m1, zp_temp, parked)
  OBVIOUS
<1>11. mem \in Page /\ Get(mem, aes_tmp1) = offset /\ Get(mem, aes_col) = c /\ Get(mem, aes_round) = r
  BY <1>2, <1>8, <1>9, <1>10, GetPut
<1>12. PICK next \in Byte : next = c + 1
  BY DEF Byte
<1>13. PICK more : more = Put(mem, aes_col, next)
  OBVIOUS
<1>14. more \in Page /\ Get(more, aes_col) = next /\ Get(more, aes_round) = r
  BY <1>2, <1>11, <1>13, CounterPut
<1>15. PICK left \in Byte : left = r - 1
  BY DEF Byte
<1>16. /\ state' = [p \in Position |-> IF p \in offset .. offset + 3 THEN b(p - offset) ELSE st[p]]
       /\ IF c + 1 = 4
          THEN /\ zp' = Put(more, aes_round, left)
               /\ pc' = IF left # 0 THEN "inv_shift_rows" ELSE "last_inv_shift_rows"
          ELSE zp' = more /\ pc' = "inv_mix_column"
  <2>1. /\ state' = [p \in Position |-> IF p \in Get(mem, aes_tmp1) .. Get(mem, aes_tmp1) + 3
                                        THEN b(p - Get(mem, aes_tmp1)) ELSE st[p]]
        /\ IF c + 1 = 4
           THEN /\ zp' = Put(more, aes_round, left)
                /\ pc' = IF left # 0 THEN "inv_shift_rows" ELSE "last_inv_shift_rows"
           ELSE zp' = more /\ pc' = "inv_mix_column"
    BY <1>3, <1>4, <1>6, <1>7, <1>10, <1>11, <1>12, <1>13, <1>14, <1>15
       DEF InvMixColumn, Goto, RoundsLeft
  <2> QED
    BY <1>11, <2>1
<1>17. /\ zp' \in Page
       /\ IF c + 1 = 4
          THEN /\ Get(zp', aes_round) = r - 1
               /\ pc' = IF r - 1 # 0 THEN "inv_shift_rows" ELSE "last_inv_shift_rows"
          ELSE Get(zp', aes_round) = r /\ Get(zp', aes_col) = c + 1 /\ pc' = "inv_mix_column"
  <2>1. Put(more, aes_round, left) \in Page /\ Get(Put(more, aes_round, left), aes_round) = left
    BY <1>2, <1>14, CounterPut
  <2> HIDE DEF a, b
  <2> QED
    BY <1>12, <1>14, <1>15, <1>16, <2>1
<1>18. PICK new : new = state'
  OBVIOUS
<1>19. ASSUME NEW k \in 0 .. 3
       PROVE  /\ b(k) = UnmixedByte(st[4 * c + (k % 4)], st[4 * c + ((k + 1) % 4)],
                                    st[4 * c + ((k + 2) % 4)], st[4 * c + ((k + 3) % 4)])
              /\ b(k) \in Byte
  <2>1. k % 4 \in 0 .. 3 /\ (k + 1) % 4 \in 0 .. 3 /\ (k + 2) % 4 \in 0 .. 3 /\ (k + 3) % 4 \in 0 .. 3
    OBVIOUS
  <2>2. a(k) \in Byte /\ a(k + 1) \in Byte /\ a(k + 2) \in Byte /\ a(k + 3) \in Byte
    BY <1>5, <2>1
  <2>3. b(k) = UnmixedByte(a(k), a(k + 1), a(k + 2), a(k + 3))
    BY DEF UnmixedByte
  <2>4. UnmixedByte(a(k), a(k + 1), a(k + 2), a(k + 3)) \in Byte
    <3>1. 1 \in Powers
      BY DEF Powers
    <3> HIDE DEF a
    <3> QED
      BY <2>2, <3>1, UnmixedBits
  <2> QED
    BY <1>4, <2>3, <2>4
<1> HIDE DEF a, b
<1>20. ASSUME NEW p \in Position, p \in 4 * c .. 4 * c + 3
       PROVE  /\ new[p] \in Byte
              /\ new[p] = UnmixedByte(st[4 * c + (p % 4)], st[4 * c + ((p + 1) % 4)],
                                      st[4 * c + ((p + 2) % 4)], st[4 * c + ((p + 3) % 4)])
  <2>1. PICK k \in 0 .. 3 : k = p - offset
    BY <1>4, <1>20
  <2>2. new[p] = b(k)
    BY <1>4, <1>16, <1>18, <1>20, <2>1
  <2>3. k % 4 = p % 4 /\ (k + 1) % 4 = (p + 1) % 4 /\ (k + 2) % 4 = (p + 2) % 4
          /\ (k + 3) % 4 = (p + 3) % 4
    <3>1. p = 4 * c + k
      BY <1>4, <2>1 DEF Position
    <3> QED
      <4>1. CASE c = 0
        BY <3>1, <4>1
      <4>2. CASE c = 1
        BY <3>1, <4>2
      <4>3. CASE c = 2
        BY <3>1, <4>3
      <4>4. CASE c = 3
        BY <3>1, <4>4
      <4> QED
        BY <4>1, <4>2, <4>3, <4>4
  <2> QED
    BY <1>19, <2>2, <2>3
<1>21. ASSUME NEW p \in Position, ~ (p \in 4 * c .. 4 * c + 3) PROVE new[p] = st[p] /\ st[p] \in Byte
  BY <1>4, <1>16, <1>18, <1>21 DEF State
<1>22. new \in State
  <2>1. \A p \in Position : new[p] \in Byte
    BY <1>20, <1>21
  <2>2. new = [p \in Position |-> new[p]]
    BY <1>16, <1>18
  <2> QED
    BY <2>1, <2>2 DEF State
<1>23. \A p \in 4 * c .. 4 * c + 3 :
         new[p] = UnmixedByte(st[4 * c + (p % 4)], st[4 * c + ((p + 1) % 4)],
                              st[4 * c + ((p + 2) % 4)], st[4 * c + ((p + 3) % 4)])
  <2>1. \A p \in 4 * c .. 4 * c + 3 : p \in Position
    BY DEF Position
  <2> QED
    BY <1>20, <2>1
<1>24. Partly(Tuple(new), c + 1) = Partly(Tuple(st), c)
  BY <1>21, <1>22, <1>23, ColumnUnmixed
<1> QED
  BY <1>3, <1>17, <1>18, <1>22, <1>24

LEMMA StepInvMixColumn ==
  ASSUME Inv, InvMixColumn
  PROVE  Inv'
<1>1. pc = "inv_mix_column" /\ UNCHANGED <<layout, key, w, entry, call, calls>>
  BY DEF InvMixColumn
<1>2. PICK r : r = Get(zp, aes_round)
  OBVIOUS
<1>3. PICK c : c = Get(zp, aes_col)
  OBVIOUS
<1>4. Phase("inv_mix_column", call, r, c, Tuple(state), Words(w), Out)
  BY <1>1, <1>2, <1>3 DEF Inv, Ciphering
<1>5. /\ call = "aes_decrypt_block" /\ r \in 1 .. 13 /\ c \in 0 .. 3
      /\ Leads(Words(w), r, Sub(AddRoundKey(Partly(Tuple(state), c), Words(w), r)), Out)
  BY <1>4 DEF Phase, Decrypting
<1>6. PICK new : new = state'
  OBVIOUS
<1>7. PICK left : left = Get(zp', aes_round)
  OBVIOUS
<1>8. /\ zp' \in Page /\ new \in State
      /\ IF c + 1 = 4
         THEN left = r - 1 /\ pc' = IF r - 1 # 0 THEN "inv_shift_rows" ELSE "last_inv_shift_rows"
         ELSE left = r /\ Get(zp', aes_col) = c + 1 /\ pc' = "inv_mix_column"
      /\ Partly(Tuple(new), c + 1) = Partly(Tuple(state), c)
  BY <1>2, <1>3, <1>5, <1>6, <1>7, ColumnUndone
<1>9. pc' \in Decrypting
  BY <1>8 DEF Decrypting
<1>10. PICK s \in Blk : s = Tuple(new)
  BY <1>8, TupleType
<1>11. Leads(Words(w), r, Sub(AddRoundKey(Partly(s, c + 1), Words(w), r)), Out)
  BY <1>5, <1>8, <1>10
<1>12. Phase(pc', call, left, Get(zp', aes_col), s, Words(w), Out)
  <2>1. CASE c + 1 = 4
    <3>1. Leads(Words(w), r, Stage(s, Words(w), r), Out)
      BY <1>11, <2>1, PartlyEnds DEF Stage
    <3>2. Leads(Words(w), r - 1, s, Out)
      BY <1>5, <3>1, LeadsDown
    <3>3. left = r - 1 /\ left \in 0 .. 12
      BY <1>5, <1>8, <2>1
    <3>4. CASE left # 0
      <4>1. left \in 1 .. 13 /\ pc' = "inv_shift_rows"
        BY <1>8, <2>1, <3>3, <3>4
      <4> QED
        BY <1>5, <3>2, <3>3, <4>1 DEF Phase, Encrypting, Decrypting
    <3>5. CASE left = 0
      <4>1. pc' = "last_inv_shift_rows"
        BY <1>8, <2>1, <3>3, <3>5
      <4> QED
        BY <1>5, <3>2, <3>3, <3>5, <4>1 DEF Phase, Encrypting, Decrypting
    <3> QED
      BY <3>4, <3>5
  <2>2. CASE c + 1 # 4
    <3>1. c + 1 \in 0 .. 3
      BY <1>5, <2>2
    <3> QED
      BY <1>5, <1>8, <1>11, <2>2, <3>1 DEF Phase, Encrypting, Decrypting
  <2> QED
    BY <2>1, <2>2
<1> QED
  BY <1>1, <1>6, <1>7, <1>8, <1>9, <1>10, <1>12, Working

\* The last round key ends either cipher.
LEMMA StepLastKey ==
  ASSUME Inv, LastKey
  PROVE  Inv' /\ CipherStep
<1>1. PICK r : r = Get(zp, aes_round)
  OBVIOUS
<1>2. /\ pc = "last_key" /\ UNCHANGED <<layout, zp, key, w, entry, call, calls>>
      /\ state' = aes_add_round_key(zp) /\ pc' = "idle"
  BY DEF LastKey, Goto
<1>3. Phase("last_key", call, r, Get(zp, aes_col), Tuple(state), Words(w), Out)
  BY <1>1, <1>2 DEF Inv, Ciphering
<1>4. \/ call = "aes_encrypt_block" /\ r = 14 /\ Leads(Words(w), 13, Tuple(state), Out)
      \/ call = "aes_decrypt_block" /\ r = 0 /\ Leads(Words(w), 0, Sub(Tuple(state)), Out)
  BY <1>3 DEF Phase
<1>5. PICK st : st = state'
  OBVIOUS
<1>6. r \in 0 .. 14
  BY <1>4
<1>7. /\ st \in State
      /\ Tuple(st) = AddRoundKey(Tuple(state), Words(w), r)
      /\ AddRoundKey(Tuple(st), Words(w), r) = Tuple(state)
  BY <1>1, <1>2, <1>5, <1>6, KeyOf
<1>8. ASSUME call = "aes_encrypt_block" PROVE Tuple(st) = Cipher(Tuple(entry), Words(w))
  <2>1. r = 14 /\ Leads(Words(w), 13, Tuple(state), Out)
    BY <1>4, <1>8
  <2>2. Out = AddRoundKey(Tuple(state), Words(w), 14)
    BY <2>1, LeadsLast
  <2> QED
    BY <1>7, <1>8, <2>1, <2>2 DEF Out
<1>9. ASSUME call # "aes_encrypt_block" PROVE Tuple(entry) = Cipher(Tuple(st), Words(w))
  <2>1. r = 0 /\ Leads(Words(w), 0, Sub(Tuple(state)), Out)
    BY <1>4, <1>9
  <2>2. Leads(Words(w), 0, Sub(AddRoundKey(Tuple(st), Words(w), 0)), Out)
    BY <1>7, <2>1
  <2>3. PICK f \in Expansion : f = w
    BY DEF Inv, Typed
  <2>4. PICK block \in Blk : block = Tuple(st)
    BY <1>7, TupleType
  <2>5. Out = Cipher(block, Words(f))
    <3>1. Leads(Words(f), 0, Sub(AddRoundKey(block, Words(f), 0)), Out)
      BY <2>2, <2>3, <2>4
    <3> QED
      BY <3>1, LeadsCipher
  <2> QED
    BY <1>9, <2>3, <2>5, <2>4 DEF Out
<1>10. CipherStep
  BY <1>5, <1>8, <1>9 DEF CipherStep
<1>11. pc' \notin Encrypting /\ pc' \notin Decrypting /\ pc' \notin Routine /\ pc' # "last_key"
        /\ pc' # "expand_word"
  BY <1>2 DEF Encrypting, Decrypting, Routine
<1>12. Typed' /\ NoAlias'
  BY <1>2, <1>5, <1>7 DEF Inv, Typed, NoAlias
<1>13. Started' /\ Expanding'
  BY <1>11 DEF Started, Expanding
<1> QED
  BY <1>10, <1>11, <1>12, <1>13, Resting

LEMMA StepHost ==
  ASSUME Inv, Host
  PROVE  Inv'
<1>1. CASE Assemble
  BY <1>1, StepAssemble
<1>2. CASE (\E k \in Key : LoadKey(k)) \/ (\E b \in Block : LoadBlock(b))
  BY <1>2, StepLoad
<1>3. CASE \E r \in Routine : Call(r)
  BY <1>3, StepCall
<1> QED
  BY <1>1, <1>2, <1>3 DEF Host, Routine

LEMMA StepLibrary ==
  ASSUME Inv, Library
  PROVE  Inv'
BY StepCopyKey, StepExpandWord, StepEncryptStart, StepSubBytes, StepShiftRows, StepMixStart,
   StepMixColumn, StepRoundKey, StepLastKey, StepDecryptStart, StepInvShiftRows,
   StepInvSubBytes, StepInvRoundKey, StepInvMixColumn DEF Library

\* A step that changes nothing keeps the invariant.
LEMMA Stutter ==
  ASSUME Inv, UNCHANGED vars
  PROVE  Inv'
<1>1. UNCHANGED <<layout, zp, key, w, state, pc, call, entry, calls>>
  BY DEF vars, data
<1>2. Typed' /\ NoAlias' /\ Started'
  BY <1>1 DEF Inv, Typed, NoAlias, Started
<1>3. Expanding'
  BY <1>1 DEF Inv, Expanding, Expanded, Get
<1>4. Ciphering'
  BY <1>1 DEF Inv, Ciphering, Out, Get
<1> QED
  BY <1>2, <1>3, <1>4 DEF Inv

-----------------------------------------------------------------------------
(* The theorems *)

(* At every label of every routine the block in aes_state is on the way of  *)
(* the oracle's cipher, and the schedule is the oracle's as far as it has  *)
(* been expanded, in every layout the build lets through (aes_encrypt.s:   *)
(* 32-405, aes_decrypt.s:39-330).                                          *)
THEOREM Invariance == Spec => []Inv
<1>1. ASSUME Inv, [Next]_vars PROVE Inv'
  BY <1>1, StepHost, StepLibrary, Stutter DEF Next
<1> QED
  BY <1>1, Initially, PTL DEF Spec

(* No layout with two slots that meet, or one that leaves the page or the  *)
(* processor port, gets past the assembler (zp_config.s:150-246).          *)
THEOREM NoAliasSafety == Spec => []NoAlias
<1>1. Inv => NoAlias
  BY DEF Inv
<1> QED
  BY <1>1, Invariance, PTL

\* Only the pass over the last word ends the key schedule.
LEMMA OnlyExpand ==
  ASSUME Next, pc = "expand_word", pc' = "idle"
  PROVE  ExpandWord
BY DEF Next, Host, Library, Assemble, LoadKey, LoadBlock, Call, CopyKey, EncryptStart, FirstKey,
   aes_sub_bytes, aes_shift_rows, Rewrite, MixStart, MixColumn, RoundKey, LastKey, DecryptStart,
   aes_inv_shift_rows, aes_inv_sub_bytes, InvRoundKey, InvMixColumn, Goto

LEMMA OnlyLastKey ==
  ASSUME Next, pc = "last_key"
  PROVE  LastKey
BY DEF Next, Host, Library, Assemble, LoadKey, LoadBlock, Call, CopyKey, ExpandWord, EncryptStart,
        FirstKey,
   aes_sub_bytes, aes_shift_rows, Rewrite, MixStart, MixColumn, RoundKey, DecryptStart,
   aes_inv_shift_rows, aes_inv_sub_bytes, InvRoundKey, InvMixColumn, Goto

(* aes_key_expansion leaves the schedule of the oracle, for every key and  *)
(* whatever the buffers held (aes_encrypt.s:283-405).                      *)
THEOREM ScheduleSafety == Spec => ScheduleRight
<1>1. ASSUME Inv, [Next]_vars PROVE [ExpandStep]_vars
  <2> SUFFICES ASSUME Next, pc = "expand_word", pc' = "idle"
               PROVE  Words(w') = Schedule(key)
    BY <1>1 DEF ExpandStep
  <2>1. ExpandWord
    BY OnlyExpand
  <2>2. PICK i : i = Get(zp, zp_count)
    OBVIOUS
  <2>3. /\ i \in 8 .. 59 /\ w' \in Expansion /\ Expanded(w', key, i + 1)
        /\ pc' = IF i + 1 < 60 THEN "expand_word" ELSE "idle"
    BY <1>1, <2>1, <2>2, WordExpanded
  <2>4. i + 1 = 60
    BY <2>3
  <2>5. PICK f : f = w'
    OBVIOUS
  <2>6. Words(f) = Schedule(key)
    BY <2>3, <2>4, <2>5, ScheduleIs
  <2> QED
    BY <2>5, <2>6
<1> QED
  BY <1>1, Invariance, PTL DEF Spec, ScheduleRight

(* aes_encrypt_block is the cipher of the oracle and aes_decrypt_block its *)
(* inverse, for every block and every schedule (aes_encrypt.s:32-88,       *)
(* aes_decrypt.s:39-100).                                                  *)
THEOREM CipherSafety == Spec => CipherRight
<1>1. ASSUME Inv, [Next]_vars PROVE [CipherStep]_vars
  <2> SUFFICES ASSUME Next, pc = "last_key", pc' = "idle" PROVE CipherStep
    BY <1>1 DEF CipherStep
  <2>1. LastKey
    BY OnlyLastKey
  <2> QED
    BY <1>1, <2>1, StepLastKey
<1> QED
  BY <1>1, Invariance, PTL DEF Spec, CipherRight
=============================================================================
