----------------------------- MODULE LoopProofs -----------------------------
(***************************************************************************)
(* Proofs about the two data loops of gcm_siv.s.  CtrStream: the byte-wise *)
(* inc / bne of gcmsiv_gen_keystream adds one to the 32-bit counter, carry *)
(* included, and each byte of the text meets the keystream byte of its     *)
(* position.  TagBase: the loop of gcmsiv_compute_tag_base absorbs   *)
(* the padded message for every length the 8-bit index can carry.          *)
(***************************************************************************)
EXTENDS CtrStream, TagBase, TLAPS

-----------------------------------------------------------------------------
(* Counter mode *)

Word == [0 .. 15 -> Byte]

LEMMA FirstCounterWord == \A t \in Word : FirstCounter(t) \in Word
BY DEF Word, Byte, FirstCounter, SetTop

LEMMA IncrementWord == \A c \in Word : Increment(c) \in Word
<1> SUFFICES ASSUME NEW c \in Word, NEW i \in 0 .. 15 PROVE Increment(c)[i] \in Byte
  BY DEF Word, Increment
<1>1. c[i] \in Byte
  BY DEF Word
<1>2. Inc(c[i]) \in Byte
  BY <1>1, SMTT(30) DEF Byte, Inc
<1> QED
  BY <1>1, <1>2 DEF Increment

\* Byte, carry and rest of a number.
LEMMA DivMod ==
  ASSUME NEW x \in Nat
  PROVE  /\ x = 256 * (x \div 256) + (x % 256)
         /\ x % 256 \in Byte /\ x \div 256 \in Nat
BY DEF Byte

LEMMA DivModUnique ==
  ASSUME NEW q \in Nat, NEW r \in Byte
  PROVE  (256 * q + r) \div 256 = q /\ (256 * q + r) % 256 = r
BY DEF Byte

\* One more: the byte wraps exactly when the rest grows by one.
LEMMA DivModStep ==
  ASSUME NEW x \in Nat
  PROVE  /\ (x + 1) % 256 = Inc(x % 256)
         /\ Inc(x % 256) = 0 => (x + 1) \div 256 = x \div 256 + 1
         /\ Inc(x % 256) # 0 => (x + 1) \div 256 = x \div 256
<1> DEFINE q == x \div 256
           r == x % 256
<1>1. x = 256 * q + r /\ r \in Byte /\ q \in Nat
  BY DivMod
<1> HIDE DEF q, r
<1>2. CASE r = 255
  <2>1. x + 1 = 256 * (q + 1) + 0
    BY <1>1, <1>2
  <2>2. (x + 1) \div 256 = q + 1 /\ (x + 1) % 256 = 0
    BY <1>1, <2>1, DivModUnique DEF Byte
  <2> QED
    BY <1>2, <2>2 DEF Inc, q, r
<1>3. CASE r # 255
  <2>1. x + 1 = 256 * q + (r + 1) /\ r + 1 \in Byte
    BY <1>1, <1>3 DEF Byte
  <2>2. (x + 1) \div 256 = q /\ (x + 1) % 256 = r + 1
    BY <1>1, <2>1, DivModUnique
  <2>3. Inc(r) = r + 1 /\ r + 1 # 0
    BY <1>1, <2>1 DEF Inc, Byte
  <2> QED
    BY <2>2, <2>3 DEF q, r
<1> QED
  BY <1>2, <1>3

\* The carry out of byte b when k (0 or 1) is added, and the byte it leaves.
Carry(b, k) == IF k = 1 /\ Inc(b) = 0 THEN 1 ELSE 0
Sum8(b, k) == IF k = 1 THEN Inc(b) ELSE b

\* Adding k to x adds k to its byte, and the carry to its rest.
CarriesInto(x, y, k) ==
  /\ y % 256 = Sum8(x % 256, k)
  /\ y \div 256 = x \div 256 + Carry(x % 256, k)

LEMMA AddCarry == \A x \in Nat, k \in {0, 1} : CarriesInto(x, x + k, k)
<1> SUFFICES ASSUME NEW x \in Nat, NEW k \in {0, 1} PROVE CarriesInto(x, x + k, k)
  OBVIOUS
<1>1. CASE k = 0
  <2>1. x + k = x /\ x \div 256 \in Nat
    BY <1>1, DivMod
  <2> QED
    BY <1>1, <2>1 DEF CarriesInto, Sum8, Carry
<1>2. CASE k = 1
  BY <1>2, DivModStep, DivMod DEF CarriesInto, Sum8, Carry
<1> QED
  BY <1>1, <1>2

\* Two bytes make a number whose byte and rest they are.
LEMMA TwoBytes ==
  ASSUME NEW a \in Byte, NEW b \in Byte
  PROVE  /\ (a + 256 * b) % 256 = a /\ (a + 256 * b) \div 256 = b
         /\ b % 256 = b /\ b \div 256 = 0
BY DEF Byte

LEMMA HalvesNat ==
  ASSUME NEW t \in Word, NEW n \in Nat
  PROVE  /\ LowHalf(t, n) \in Nat /\ LowHalf(t, n + 1) = LowHalf(t, n) + 1
         /\ LowHalf(t, n) \div 256 \in Nat
         /\ HighHalf(t, n) \in Nat
         /\ HighHalf(t, n) \div 256 \in Nat
<1>1. t[0] \in Nat /\ t[1] \in Nat /\ t[2] \in Nat /\ t[3] \in Nat
  BY DEF Word, Byte
<1>2. LowHalf(t, n) \in Nat /\ LowHalf(t, n + 1) = LowHalf(t, n) + 1
  BY <1>1 DEF LowHalf
<1>3. LowHalf(t, n) \div 256 \in Nat
  BY <1>2, DivMod
<1>4. (LowHalf(t, n) \div 256) \div 256 \in Nat
  BY <1>3, DivMod
<1>5. HighHalf(t, n) \in Nat
  BY <1>1, <1>4 DEF HighHalf
<1> QED
  BY <1>2, <1>3, <1>5, DivMod

LEMMA CounterBlockWord == ASSUME NEW t \in Word, NEW n \in Nat PROVE CounterBlock(t, n) \in Word
<1>1. /\ LowHalf(t, n) % 256 \in Byte /\ (LowHalf(t, n) \div 256) % 256 \in Byte
      /\ HighHalf(t, n) % 256 \in Byte /\ (HighHalf(t, n) \div 256) % 256 \in Byte
  BY HalvesNat, DivMod
<1>2. (\A i \in 0 .. 15 : t[i] \in Byte) /\ 128 + (t[15] % 128) \in Byte
  BY DEF Word, Byte
<1> QED
  BY <1>1, <1>2 DEF CounterBlock, Word

\* Setting the top bit leaves the counter bytes alone.
LEMMA FirstBlock == \A t \in Word : CounterBlock(t, 0) = FirstCounter(t)
<1> SUFFICES ASSUME NEW t \in Word PROVE CounterBlock(t, 0) = FirstCounter(t)
  OBVIOUS
<1>1. t[0] \in Byte /\ t[1] \in Byte /\ t[2] \in Byte /\ t[3] \in Byte
  BY DEF Word
<1>0. \A a, b \in Byte : a + 256 * b + 0 = a + 256 * b
  BY DEF Byte
<1>2. LowHalf(t, 0) = t[0] + 256 * t[1]
  BY <1>0, <1>1 DEF LowHalf
<1>3. /\ LowHalf(t, 0) % 256 = t[0] /\ LowHalf(t, 0) \div 256 = t[1]
      /\ t[1] % 256 = t[1] /\ t[1] \div 256 = 0
  BY <1>1, <1>2, TwoBytes
<1>4. HighHalf(t, 0) = t[2] + 256 * t[3]
  BY <1>0, <1>1, <1>3 DEF HighHalf
<1>5. /\ HighHalf(t, 0) % 256 = t[2] /\ HighHalf(t, 0) \div 256 = t[3]
      /\ t[3] % 256 = t[3]
  BY <1>1, <1>4, TwoBytes
<1>6. 128 + (t[15] % 128) = SetTop(t[15])
  BY DEF Word, Byte, SetTop
<1> QED
  BY <1>3, <1>5, <1>6 DEF CounterBlock, FirstCounter

\* gcmsiv_gen_keystream goes from one counter block of RFC 8452 to the next.
LEMMA IncrementCounterBlock ==
  ASSUME NEW t \in Word, NEW n \in Nat
  PROVE  Increment(CounterBlock(t, n)) = CounterBlock(t, n + 1)
<1> DEFINE c == CounterBlock(t, n)
           d == CounterBlock(t, n + 1)
           lo == LowHalf(t, n)
           hi == HighHalf(t, n)
           k1 == Carry(c[0], 1)
           k2 == Carry(c[1], k1)
           k3 == Carry(c[2], k2)
<1>1. /\ lo \in Nat /\ lo \div 256 \in Nat /\ hi \in Nat /\ hi \div 256 \in Nat
      /\ LowHalf(t, n + 1) = lo + 1
  BY HalvesNat
<1>2. /\ c[0] = lo % 256 /\ c[1] = (lo \div 256) % 256
      /\ c[2] = hi % 256 /\ c[3] = (hi \div 256) % 256
      /\ \A i \in 4 .. 15 : c[i] = d[i]
  BY DEF CounterBlock
<1>3. k1 \in {0, 1} /\ k2 \in {0, 1} /\ k3 \in {0, 1}
  BY DEF Carry
<1>4. /\ d[0] = LowHalf(t, n + 1) % 256 /\ d[1] = (LowHalf(t, n + 1) \div 256) % 256
      /\ d[2] = HighHalf(t, n + 1) % 256 /\ d[3] = (HighHalf(t, n + 1) \div 256) % 256
  BY DEF CounterBlock
<1> HIDE DEF c, d, lo, hi, k1, k2, k3
<1>5. CarriesInto(lo, lo + 1, 1)
  BY <1>1, AddCarry
<1>6. d[0] = Sum8(c[0], 1) /\ LowHalf(t, n + 1) \div 256 = lo \div 256 + k1
  BY <1>1, <1>2, <1>4, <1>5 DEF CarriesInto, k1
<1>7. CarriesInto(lo \div 256, lo \div 256 + k1, k1)
  BY <1>1, <1>3, AddCarry
<1>8. /\ d[1] = Sum8(c[1], k1)
      /\ (LowHalf(t, n + 1) \div 256) \div 256 = (lo \div 256) \div 256 + k2
  BY <1>2, <1>4, <1>6, <1>7 DEF CarriesInto, k2
<1>9. HighHalf(t, n + 1) = hi + k2
  <2>1. t[2] \in Nat /\ t[3] \in Nat /\ (lo \div 256) \div 256 \in Nat
    BY <1>1, DivMod DEF Word, Byte
  <2> QED
    BY <1>3, <1>8, <2>1 DEF HighHalf, hi, lo
<1>10. CarriesInto(hi, hi + k2, k2)
  BY <1>1, <1>3, AddCarry
<1>11. d[2] = Sum8(c[2], k2) /\ HighHalf(t, n + 1) \div 256 = hi \div 256 + k3
  BY <1>2, <1>4, <1>9, <1>10 DEF CarriesInto, k3
<1>12. CarriesInto(hi \div 256, hi \div 256 + k3, k3)
  BY <1>1, <1>3, AddCarry
<1>13. d[3] = Sum8(c[3], k3)
  BY <1>2, <1>4, <1>11, <1>12 DEF CarriesInto
<1>14. \A i \in 0 .. 15 : Increment(c)[i] = d[i]
  <2> DEFINE carried(i) == \A j \in 0 .. i - 1 : Inc(c[j]) = 0
  <2>1. \A i \in 0 .. 15 : Increment(c)[i] = IF i <= 3 /\ carried(i) THEN Inc(c[i]) ELSE c[i]
    BY DEF Increment
  <2>2. carried(0) /\ (carried(1) <=> k1 = 1) /\ (carried(2) <=> k2 = 1) /\ (carried(3) <=> k3 = 1)
    <3>1. 0 .. 0 - 1 = {} /\ 0 .. 1 - 1 = {0} /\ 0 .. 2 - 1 = {0, 1} /\ 0 .. 3 - 1 = {0, 1, 2}
      OBVIOUS
    <3> QED
      BY <3>1 DEF k1, k2, k3, Carry
  <2> HIDE DEF carried
  <2>3. /\ Increment(c)[0] = d[0] /\ Increment(c)[1] = d[1]
        /\ Increment(c)[2] = d[2] /\ Increment(c)[3] = d[3]
    BY <1>6, <1>8, <1>11, <1>13, <2>1, <2>2 DEF Sum8
  <2>4. \A i \in 4 .. 15 : Increment(c)[i] = d[i]
    BY <1>2, <2>1
  <2> QED
    BY <2>3, <2>4
<1>15. Increment(c) = [i \in 0 .. 15 |-> Increment(c)[i]] /\ d = [i \in 0 .. 15 |-> d[i]]
  BY DEF Increment, d, CounterBlock
<1> QED
  BY <1>14, <1>15 DEF c, d

-----------------------------------------------------------------------------
(* The loop *)

LoopInv == TypeOK /\ InStep /\ RightBytes

\* The position of the next byte in its block.
Follows(i, k) ==
  IF k = BlockSize - 1
  THEN (i + 1) % BlockSize = 0 /\ (i + 1) \div BlockSize = i \div BlockSize + 1
  ELSE (i + 1) % BlockSize = k + 1 /\ (i + 1) \div BlockSize = i \div BlockSize

LEMMA NextPosition == \A i \in Index : Follows(i, i % BlockSize)
BY DEF Follows, BlockSize, Index, MaxLen

LEMMA BlockNumber == \A i \in 0 .. MaxLen : i \div BlockSize \in 0 .. 4
BY DEF BlockSize, MaxLen

LEMMA InitLoop == Init => LoopInv
<1> SUFFICES ASSUME Init PROVE LoopInv
  OBVIOUS
<1>1. TypeOK
  BY TagsAssumption, LensAssumption DEF Init, TypeOK, BlockSize, MaxLen
<1>2. InStep /\ RightBytes
  BY DEF Init, InStep, RightBytes, Output, OtherBuffer, Untouched, Index, MaxLen
<1> QED
  BY <1>1, <1>2 DEF LoopInv

LEMMA StartLoop == LoopInv /\ Start => LoopInv'
<1> SUFFICES ASSUME LoopInv, Start PROVE LoopInv'
  OBVIOUS
<1>1. tag \in Word /\ counter' = FirstCounter(tag)
  BY TagsAssumption DEF LoopInv, TypeOK, Start, Word
<1>2. TypeOK'
  BY <1>1, FirstCounterWord, LensAssumption DEF LoopInv, TypeOK, Start, BlockSize, MaxLen, Word
<1>3. InStep'
  <2>1. 0 % BlockSize = 0 /\ 0 \div BlockSize = 0
    BY DEF BlockSize
  <2> QED
    BY <1>1, <2>1, FirstBlock DEF InStep, Start
<1>4. ctIdx = 0
  BY DEF LoopInv, InStep, Start
<1>5. RightBytes'
  BY <1>4 DEF LoopInv, RightBytes, Output, OtherBuffer, Expected, Start
<1> QED
  BY <1>2, <1>3, <1>5 DEF LoopInv

LEMMA GenLoop == LoopInv /\ GenKeystream => LoopInv'
<1> SUFFICES ASSUME LoopInv, GenKeystream PROVE LoopInv'
  OBVIOUS
<1> DEFINE n == ctIdx \div BlockSize
<1>1. /\ ksIdx = BlockSize /\ ctIdx % BlockSize = 0
      /\ counter = CounterBlock(tag, n) /\ counter \in Word /\ keystream \in Word
  BY DEF LoopInv, TypeOK, InStep, GenKeystream, BlockSize, Word
<1>2. tag \in Word /\ n \in Nat
  BY TagsAssumption, LensAssumption, BlockNumber DEF LoopInv, TypeOK, Word, MaxLen
<1>3. counter' = CounterBlock(tag, n + 1)
  BY <1>1, <1>2, IncrementCounterBlock DEF GenKeystream
<1>4. TypeOK'
  BY <1>1, IncrementWord DEF LoopInv, TypeOK, GenKeystream, BlockSize, Word
<1>5. InStep'
  BY <1>1, <1>3 DEF LoopInv, InStep, GenKeystream, BlockSize
<1>6. RightBytes'
  BY DEF LoopInv, RightBytes, Output, OtherBuffer, Expected, GenKeystream
<1> QED
  BY <1>4, <1>5, <1>6 DEF LoopInv

\* Both loops advance the indices alike.
Advance ==
  /\ pc = "loop" /\ ctIdx < ptLen /\ ksIdx < BlockSize
  /\ ctIdx' = ctIdx + 1 /\ ksIdx' = ksIdx + 1
  /\ UNCHANGED <<tag, ptLen, mode, pc, counter, keystream>>

LEMMA AdvanceLoop ==
  ASSUME LoopInv, Advance
  PROVE  TypeOK' /\ InStep' /\ ctIdx \in Index /\ Xored(ctIdx) = Expected(ctIdx)
<1>1. ctIdx \in Index /\ ctIdx < ptLen /\ ptLen \in 0 .. MaxLen
  BY LensAssumption DEF LoopInv, TypeOK, Advance, Index, MaxLen
<1>2. /\ ksIdx = ctIdx % BlockSize /\ ksIdx \in 0 .. BlockSize - 1
      /\ keystream = CounterBlock(tag, ctIdx \div BlockSize)
      /\ counter = CounterBlock(tag, ctIdx \div BlockSize + 1)
  BY DEF LoopInv, TypeOK, InStep, Advance, BlockSize
<1>3. TypeOK'
  BY <1>1, <1>2 DEF LoopInv, TypeOK, Advance, BlockSize, MaxLen
<1>4. Follows(ctIdx, ksIdx)
  BY <1>1, <1>2, NextPosition
<1>5. InStep'
  BY <1>2, <1>4 DEF InStep, Advance, Follows, BlockSize
<1> QED
  BY <1>1, <1>2, <1>3, <1>5 DEF Xored, Expected

LEMMA ByteLoop == LoopInv /\ (EncryptByte \/ DecryptByte) => LoopInv'
<1> SUFFICES ASSUME LoopInv, EncryptByte \/ DecryptByte PROVE LoopInv'
  OBVIOUS
<1>1. Advance
  BY DEF EncryptByte, DecryptByte, Advance
<1>2. TypeOK' /\ InStep' /\ ctIdx \in Index /\ Xored(ctIdx) = Expected(ctIdx)
  BY <1>1, AdvanceLoop
<1>3. /\ Output' = [i \in Index |-> IF i = ctIdx THEN Xored(i) ELSE Output[i]]
      /\ OtherBuffer' = OtherBuffer
  BY DEF EncryptByte, DecryptByte, Output, OtherBuffer
<1>4. \A i \in Index : Expected(i)' = Expected(i)
  BY <1>1 DEF Advance, Expected
<1>5. \A i \in Index : i < ctIdx + 1 <=> i < ctIdx \/ i = ctIdx
  BY <1>2 DEF Index, MaxLen
<1>6. RightBytes'
  BY <1>1, <1>2, <1>3, <1>4, <1>5 DEF LoopInv, RightBytes, Advance
<1> QED
  BY <1>2, <1>6 DEF LoopInv

LEMMA RestLoop == LoopInv /\ (Finish \/ UNCHANGED vars) => LoopInv'
<1> SUFFICES ASSUME LoopInv, Finish \/ UNCHANGED vars PROVE LoopInv'
  OBVIOUS
<1>1. UNCHANGED <<tag, ptLen, mode, counter, keystream, ctIdx, ksIdx, ctBuf, decBuf>>
  BY DEF Finish, vars
<1>2. TypeOK' /\ InStep'
  BY <1>1, LensAssumption DEF LoopInv, TypeOK, InStep, Finish, vars, MaxLen
<1>3. RightBytes'
  BY <1>1 DEF LoopInv, RightBytes, Output, OtherBuffer, Expected
<1> QED
  BY <1>2, <1>3 DEF LoopInv

(* For every tag and every length the two indices and the counter stay in  *)
(* step, and every byte written so far has its own counter block and       *)
(* keystream index (gcm_siv.s:635-718, 932-979).                           *)
THEOREM LoopInvariance == Spec => []LoopInv
<1>1. LoopInv /\ [Next]_vars => LoopInv'
  BY StartLoop, GenLoop, ByteLoop, RestLoop DEF Next, Step, Done
<1> QED
  BY InitLoop, <1>1, PTL DEF Spec

(* Counter mode leaves at every position what RFC 8452 says.               *)
THEOREM RightBytesSafety == Spec => []RightBytes
<1>1. LoopInv => RightBytes
  BY DEF LoopInv
<1> QED
  BY <1>1, LoopInvariance, PTL

\* The counter blocks of one message differ in their first byte.
LEMMA CounterBlocksDiffer ==
  ASSUME NEW t \in Word, NEW m \in 0 .. 4, NEW n \in 0 .. 4,
         CounterBlock(t, m) = CounterBlock(t, n)
  PROVE  m = n
<1> DEFINE x == t[0] + 256 * t[1]
<1>1. x \in Nat
  <2>1. t[0] \in Nat /\ t[1] \in Nat
    BY DEF Word, Byte
  <2> QED
    BY <2>1
<1>2. LowHalf(t, m) = x + m /\ LowHalf(t, n) = x + n
  BY DEF LowHalf
<1> HIDE DEF x
<1>3. (x + m) % 256 = (x + n) % 256
  BY <1>2 DEF CounterBlock
<1>4. /\ x + m = 256 * ((x + m) \div 256) + ((x + m) % 256)
      /\ x + n = 256 * ((x + n) \div 256) + ((x + n) % 256)
      /\ (x + m) \div 256 \in Nat /\ (x + n) \div 256 \in Nat /\ (x + m) % 256 \in Nat
  <2>1. x + m \in Nat /\ x + n \in Nat
    BY <1>1
  <2>2. \A y \in Nat : /\ y = 256 * (y \div 256) + (y % 256)
                      /\ y \div 256 \in Nat /\ y % 256 \in Nat
    BY DivMod DEF Byte
  <2> QED
    BY <2>1, <2>2
<1>5. m - n = 256 * ((x + m) \div 256 - (x + n) \div 256)
  BY <1>1, <1>3, <1>4
<1> QED
  BY <1>4, <1>5

(* No keystream byte is used twice, also across a wrap of the counter.     *)
THEOREM KeystreamSafety == Spec => []NoKeystreamReuse
<1>1. LoopInv => NoKeystreamReuse
  <2> SUFFICES ASSUME LoopInv, NEW i \in 0 .. ctIdx - 1, NEW j \in 0 .. ctIdx - 1,
                      Output[i].block = Output[j].block, Output[i].at = Output[j].at
               PROVE  i = j
    BY DEF NoKeystreamReuse
  <2>1. /\ i \in Index /\ j \in Index /\ i < ctIdx /\ j < ctIdx /\ tag \in Word
    BY TagsAssumption, LensAssumption DEF LoopInv, TypeOK, Index, MaxLen, Word
  <2>2. Output[i] = Expected(i) /\ Output[j] = Expected(j)
    BY <2>1 DEF LoopInv, RightBytes
  <2>3. i % BlockSize = j % BlockSize
        /\ CounterBlock(tag, i \div BlockSize) = CounterBlock(tag, j \div BlockSize)
    BY <2>2 DEF Expected
  <2>4. i \div BlockSize \in 0 .. 4 /\ j \div BlockSize \in 0 .. 4
    BY <2>1, BlockNumber DEF Index, MaxLen
  <2>5. i \div BlockSize = j \div BlockSize
    BY <2>1, <2>3, <2>4, CounterBlocksDiffer
  <2> QED
    BY <2>1, <2>3, <2>5 DEF BlockSize, Index, MaxLen
<1> QED
  BY <1>1, LoopInvariance, PTL

-----------------------------------------------------------------------------
(* Tag base *)

\* The blocks absorbed when the loop has ended.
Final == Append(PaddedBlocks(BlockCount), [under |-> authKey, block |-> LengthBlock])

TInv ==
  /\ TagTypeOK /\ AbsorbedSoFar
  /\ place = "copy_result" => acc = Final
  /\ place = "done" => tagAcc = Final

\* One block more.
LEMMA PaddedBlocksAppend ==
  ASSUME NEW n \in Nat
  PROVE  Append(PaddedBlocks(n), [under |-> authKey, block |-> Padded(BlockLen * n)])
           = PaddedBlocks(n + 1)
<1> DEFINE e(j) == [under |-> authKey, block |-> Padded(BlockLen * (j - 1))]
<1>1. PaddedBlocks(n) = [j \in 1 .. n |-> e(j)] /\ PaddedBlocks(n + 1) = [j \in 1 .. n + 1 |-> e(j)]
  BY DEF PaddedBlocks
<1>2. e(n + 1) = [under |-> authKey, block |-> Padded(BlockLen * n)]
  <2>1. (n + 1) - 1 = n
    OBVIOUS
  <2> QED
    BY <2>1
<1> HIDE DEF e
<1>3. Append([j \in 1 .. n |-> e(j)], e(n + 1)) = [j \in 1 .. n + 1 |-> e(j)]
  OBVIOUS
<1> QED
  BY <1>1, <1>2, <1>3

\* The sign test sees whether the index has reached the length.
LEMMA ExhaustedMeaning ==
  ASSUME textLen \in 0 .. 127, blockIdx \in 0 .. 127, blockIdx = 0 \/ blockIdx < textLen
  PROVE  Exhausted <=> textLen = 0
<1> DEFINE d == textLen - blockIdx
<1>1. d \in 0 .. 127 /\ (d = 0 <=> textLen = 0)
  OBVIOUS
<1> HIDE DEF d
<1>2. d % 256 = d
  BY <1>1
<1> QED
  BY <1>1, <1>2 DEF Exhausted, Remaining, d

\* The blocks below an index that is a multiple of 16.
LEMMA BlockArithmetic ==
  ASSUME NEW b \in 0 .. 127, NEW l \in 1 .. 127, b % 16 = 0, b < l
  PROVE  /\ b = 16 * (b \div 16) /\ b \div 16 \in Nat
         /\ (b + 16) % 256 = b + 16 /\ (b + 16) % 16 = 0
         /\ (b + 16) \div 16 = b \div 16 + 1
         /\ b + 16 >= l => (b + 16) \div 16 = (l + 16 - 1) \div 16
         /\ (b + 16) \div 16 <= (l + 16 - 1) \div 16
OBVIOUS

LEMMA LengthBlockRight == textLen \in 0 .. 127 => IsLengthBlock(LengthBlock, textLen)
<1> SUFFICES ASSUME textLen \in 0 .. 127 PROVE IsLengthBlock(LengthBlock, textLen)
  OBVIOUS
<1>1. \A l \in 0 .. 127 : ((8 * l) % 256) + 256 * (l \div 32) = 8 * l /\ (8 * l) % 256 \in 0 .. 255
  OBVIOUS
<1>2. /\ LengthBlock[8] = (8 * textLen) % 256 /\ LengthBlock[9] = textLen \div 32
      /\ \A i \in (0 .. 15) \ {8, 9} : LengthBlock[i] = 0
  BY DEF LengthBlock
<1> QED
  BY <1>1, <1>2 DEF IsLengthBlock

LEMMA LenPadded == ASSUME NEW n \in Nat PROVE Len(PaddedBlocks(n)) = n
BY DEF PaddedBlocks

LEMMA CountNat ==
  ASSUME textLen \in 0 .. BufferLen PROVE BlockCount \in Nat /\ textLen \in 0 .. 127
BY BufferAssumption DEF BlockCount, BlockLen

LEMMA InitTInv == TagInit => TInv
<1> SUFFICES ASSUME TagInit PROVE TInv
  OBVIOUS
<1>1. BlockCount \in Nat /\ Len(acc) \in 0 .. 1
  BY CountNat DEF TagInit
<1>2. Len(acc) <= BlockCount + 1
  <2>1. PICK n \in Nat : n = BlockCount
    BY <1>1
  <2> QED
    BY <1>1, <2>1
<1>3. TagTypeOK
  BY <1>2 DEF TagInit, TagTypeOK
<1> QED
  BY <1>3 DEF TagInit, TInv, AbsorbedSoFar

\* Steps that leave the accumulator, or clear it.
LEMMA SetupTInv ==
  TInv /\ (CopyH \/ Precompute \/ InitAcc \/ TagDone \/ UNCHANGED tagVars) => TInv'
<1> SUFFICES ASSUME TInv, CopyH \/ Precompute \/ InitAcc \/ TagDone \/ UNCHANGED tagVars
             PROVE  TInv'
  OBVIOUS
<1> USE DEF TInv
<1>0. BlockCount \in Nat
  BY CountNat DEF TagTypeOK
<1>1. CASE InitAcc
  <2>1. BlockCount' = BlockCount /\ Len(<<>>) = 0
    BY <1>1 DEF InitAcc, BlockCount
  <2>2. TagTypeOK'
    BY <1>0, <1>1, <2>1 DEF InitAcc, TagTypeOK
  <2>3. PaddedBlocks(0)' = <<>> /\ 0 % BlockLen = 0 /\ 0 \div BlockLen = 0
    BY DEF PaddedBlocks, BlockLen
  <2>4. AbsorbedSoFar'
    BY <1>1, <2>3 DEF InitAcc, AbsorbedSoFar
  <2> QED
    BY <1>1, <2>2, <2>4 DEF InitAcc
<1>2. CASE CopyH \/ Precompute
  <2>1. TagTypeOK'
    BY <1>2 DEF CopyH, Precompute, TagTypeOK, BlockCount
  <2>2. AbsorbedSoFar'
    BY <1>2 DEF CopyH, Precompute, AbsorbedSoFar
  <2> QED
    BY <1>2, <2>1, <2>2 DEF CopyH, Precompute
<1>3. CASE TagDone \/ UNCHANGED tagVars
  <2>1. UNCHANGED tagVars
    BY <1>3 DEF TagDone
  <2>2. TagTypeOK'
    BY <2>1 DEF tagVars, TagTypeOK, BlockCount
  <2>3. AbsorbedSoFar'
    BY <2>1 DEF tagVars, AbsorbedSoFar, BlockCount, PaddedBlocks, Padded
  <2>4. Final' = Final
    BY <2>1 DEF tagVars, Final, BlockCount, PaddedBlocks, Padded, LengthBlock
  <2> QED
    BY <2>1, <2>2, <2>3, <2>4 DEF tagVars
<1> QED
  BY <1>1, <1>2, <1>3

LEMMA BlockTInv == TInv /\ ProcessBlock => TInv'
<1> SUFFICES ASSUME TInv, ProcessBlock PROVE TInv'
  OBVIOUS
<1> DEFINE n == blockIdx \div BlockLen
<1>1. /\ place = "process" /\ textLen \in 0 .. 127 /\ BlockCount \in Nat
      /\ blockIdx % BlockLen = 0 /\ acc = PaddedBlocks(n)
      /\ blockIdx = 0 \/ blockIdx < textLen
  BY CountNat DEF TInv, TagTypeOK, AbsorbedSoFar, ProcessBlock
<1>2. blockIdx \in 0 .. 127
  BY <1>1 DEF TInv, TagTypeOK
<1>3. textLen \in 1 .. 127 /\ blockIdx < textLen
  BY <1>1, <1>2, ExhaustedMeaning DEF ProcessBlock
<1>4. /\ blockIdx = BlockLen * n /\ n \in Nat
      /\ blockIdx' = blockIdx + BlockLen /\ blockIdx' % BlockLen = 0
      /\ blockIdx' \div BlockLen = n + 1
      /\ blockIdx' >= textLen => blockIdx' \div BlockLen = BlockCount
      /\ blockIdx' \div BlockLen <= BlockCount
  BY <1>1, <1>2, <1>3, BlockArithmetic DEF ProcessBlock, BlockLen, BlockCount
<1>5. UNCHANGED <<authKey, textLen, polyvalH, htable, tagAcc>>
      /\ place' = IF blockIdx' < textLen THEN "process" ELSE "length"
  BY DEF ProcessBlock
<1>6. acc' = PaddedBlocks(n + 1)
  <2>1. acc' = Append(acc, [under |-> authKey, block |-> Padded(blockIdx)])
    BY <1>1 DEF ProcessBlock, Absorb, TInv, AbsorbedSoFar
  <2> QED
    BY <1>1, <1>4, <2>1, PaddedBlocksAppend
<1> HIDE DEF n
<1>7. PaddedBlocks(n + 1)' = PaddedBlocks(n' + 1) /\ BlockCount' = BlockCount
  BY <1>5 DEF PaddedBlocks, Padded, BlockCount
<1>8. TagTypeOK'
  <2>1. Len(acc') <= BlockCount + 1
    BY <1>1, <1>4, <1>6, LenPadded
  <2> QED
    BY <1>1, <1>2, <1>4, <1>5, <1>7, <2>1 DEF TInv, TagTypeOK, BlockLen
<1>9. AbsorbedSoFar'
  <2>1. htable = authKey /\ polyvalH = authKey
    BY <1>1 DEF TInv, AbsorbedSoFar
  <2>2. blockIdx' \div BlockLen = n + 1 /\ blockIdx' % BlockLen = 0
    BY <1>4
  <2>3. acc' = PaddedBlocks(blockIdx \div BlockLen)'
    BY <1>5, <1>6, <2>2 DEF PaddedBlocks, Padded
  <2>4. place' = "length" => blockIdx' >= textLen
    BY <1>2, <1>3, <1>4, <1>5 DEF BlockLen
  <2> QED
    BY <1>1, <1>4, <1>5, <1>7, <2>1, <2>3, <2>4 DEF AbsorbedSoFar
<1> QED
  BY <1>5, <1>8, <1>9 DEF TInv

LEMMA EndTInv == TInv /\ (NoMoreData \/ ProcessLength \/ CopyResult) => TInv'
<1> SUFFICES ASSUME TInv, NoMoreData \/ ProcessLength \/ CopyResult PROVE TInv'
  OBVIOUS
<1>1. UNCHANGED <<authKey, textLen, polyvalH, htable, blockIdx>>
      /\ textLen \in 0 .. 127 /\ BlockCount \in Nat
  BY CountNat DEF TInv, TagTypeOK, NoMoreData, ProcessLength, CopyResult
<1>2. BlockCount' = BlockCount /\ Final' = Final
      /\ PaddedBlocks(blockIdx \div BlockLen)' = PaddedBlocks(blockIdx \div BlockLen)
  BY <1>1 DEF BlockCount, Final, PaddedBlocks, Padded, LengthBlock
<1>3. CASE NoMoreData
  <2>1. textLen = 0 /\ blockIdx = 0
    <3>1. place = "process" /\ (blockIdx = 0 \/ blockIdx < textLen) /\ blockIdx \in 0 .. 255
      BY <1>3 DEF TInv, TagTypeOK, AbsorbedSoFar, NoMoreData
    <3>2. blockIdx \in 0 .. 127
      BY <1>1, <3>1
    <3> QED
      BY <1>1, <1>3, <3>1, <3>2, ExhaustedMeaning DEF NoMoreData
  <2>2. BlockCount = 0 /\ 0 \div BlockLen = 0
    BY <2>1 DEF BlockCount, BlockLen
  <2>3. TagTypeOK'
    BY <1>1, <1>2, <1>3 DEF TInv, TagTypeOK, NoMoreData
  <2>4. AbsorbedSoFar'
    BY <1>1, <1>2, <1>3, <2>1, <2>2 DEF TInv, AbsorbedSoFar, NoMoreData
  <2> QED
    BY <1>3, <2>3, <2>4 DEF TInv, NoMoreData
<1>4. CASE ProcessLength
  <2>1. acc = PaddedBlocks(BlockCount) /\ htable = authKey
    BY <1>4 DEF TInv, AbsorbedSoFar, ProcessLength
  <2>2. acc' = Final
    BY <1>4, <2>1 DEF ProcessLength, Absorb, Final
  <2>3. Len(Final) = BlockCount + 1
    <3> DEFINE s == PaddedBlocks(BlockCount)
               x == [under |-> authKey, block |-> LengthBlock]
    <3>1. s = [j \in 1 .. BlockCount |-> s[j]]
      BY DEF PaddedBlocks
    <3> HIDE DEF s, x
    <3>2. Append([j \in 1 .. BlockCount |-> s[j]], x)
            = [j \in 1 .. BlockCount + 1 |-> IF j = BlockCount + 1 THEN x ELSE s[j]]
      BY <1>1
    <3>3. Len([j \in 1 .. BlockCount + 1 |-> IF j = BlockCount + 1 THEN x ELSE s[j]])
            = BlockCount + 1
      BY <1>1
    <3> QED
      BY <3>1, <3>2, <3>3 DEF Final, s, x
  <2>4. TagTypeOK'
    BY <1>1, <1>2, <1>4, <2>2, <2>3 DEF TInv, TagTypeOK, ProcessLength
  <2>5. AbsorbedSoFar'
    BY <1>1, <1>4 DEF TInv, AbsorbedSoFar, ProcessLength
  <2> QED
    BY <1>2, <1>4, <2>2, <2>4, <2>5 DEF TInv, ProcessLength
<1>5. CASE CopyResult
  <2>1. TagTypeOK' /\ AbsorbedSoFar'
    BY <1>1, <1>2, <1>5 DEF TInv, TagTypeOK, AbsorbedSoFar, CopyResult
  <2> QED
    BY <1>2, <1>5, <2>1 DEF TInv, CopyResult
<1> QED
  BY <1>3, <1>4, <1>5

LEMMA TInvariance == TagSpec => []TInv
<1>1. TInv /\ [TagNext]_tagVars => TInv'
  BY SetupTInv, BlockTInv, EndTInv DEF TagNext, TagStep
<1> QED
  BY InitTInv, <1>1, PTL DEF TagSpec

(* For every length an 8-bit signed loop can carry, the absorbed blocks    *)
(* are the padded message's (gcm_siv.s:394-437).                           *)
THEOREM AbsorptionSafety == TagSpec => []AbsorbedSoFar
<1>1. TInv => AbsorbedSoFar
  BY DEF TInv, AbsorbedSoFar
<1> QED
  BY <1>1, TInvariance, PTL

(* The tag base is POLYVAL of the padded message and its bit length under  *)
(* this call's key, whatever an earlier call left in the tables and the    *)
(* accumulator (gcm_siv.s:373-478).                                        *)
THEOREM HashSafety == TagSpec => []HashesMessage
<1>1. TInv => HashesMessage
  <2> SUFFICES ASSUME TInv, place = "done" PROVE HashesMessage
    BY DEF HashesMessage
  <2>1. textLen \in 0 .. 127
    BY CountNat DEF TInv, TagTypeOK
  <2> QED
    BY <2>1, LengthBlockRight DEF TInv, Final, HashesMessage
<1> QED
  BY <1>1, TInvariance, PTL
=============================================================================
