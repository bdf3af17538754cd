------------------------------ MODULE CtrStream ------------------------------
(***************************************************************************)
(* The counter-mode loops of gcm_siv.s: gcmsiv_ctr_encrypt,                *)
(* gcmsiv_ctr_decrypt and gcmsiv_gen_keystream, a byte at a time.          *)
(*                                                                         *)
(* The question is which keystream byte meets which data byte, so a byte   *)
(* of an output buffer is modelled by its provenance: the position of the  *)
(* input byte, the counter block that was encrypted, and the index in the  *)
(* keystream.  The counter keeps its 16 bytes and its byte-wise carry.     *)
(* GcmSiv takes the whole loop as one step (CryptUnder).                   *)
(***************************************************************************)
EXTENDS Integers

CONSTANTS
  Tags,      \* 16-byte tags a call may start from
  Lens,      \* values of gcmsiv_pt_len
  Nothing    \* an output byte not written by this call

BlockSize == 16
MaxLen == 64          \* gcmsiv_max_pt_len
Byte == 0 .. 255

ASSUME TagsAssumption == Tags \subseteq [0 .. 15 -> Byte]
ASSUME LensAssumption == Lens \subseteq 0 .. MaxLen

VARIABLES
  tag, ptLen,         \* inputs
  mode,               \* which of the two loops runs
  pc,                 \* "start", "loop", "done"
  counter, keystream, \* gcmsiv_counter; the block gcmsiv_keystream came from
  ctIdx, ksIdx,
  ctBuf, decBuf

vars == <<tag, ptLen, mode, pc, counter, keystream, ctIdx, ksIdx, ctBuf, decBuf>>

Index == 0 .. MaxLen - 1
Untouched == [i \in Index |-> Nothing]

Init ==
  /\ tag \in Tags /\ ptLen \in Lens
  /\ mode \in {"encrypt", "decrypt"}
  /\ pc = "start"
  /\ counter = tag /\ keystream = tag
  /\ ctIdx = 0 /\ ksIdx = 0
  /\ ctBuf = Untouched /\ decBuf = Untouched

-----------------------------------------------------------------------------
\* ora #$80
SetTop(b) == IF b < 128 THEN b + 128 ELSE b

\* Variant: the top bit is toggled.
FirstCounterToggled(t) ==
  [i \in 0 .. 15 |-> IF i = 15 THEN (t[i] + 128) % 256 ELSE t[i]]

\* The tag with the top bit of its last byte set.
FirstCounter(t) == [i \in 0 .. 15 |-> IF i = 15 THEN SetTop(t[i]) ELSE t[i]]

Inc(b) == (b + 1) % 256

\* inc / bne over bytes 0..3: a byte is incremented when all lower ones wrapped.
Increment(c) ==
  [i \in 0 .. 15 |->
     IF i <= 3 /\ \A j \in 0 .. i - 1 : Inc(c[j]) = 0 THEN Inc(c[i]) ELSE c[i]]

Start ==
  /\ pc = "start" /\ pc' = "loop"
  /\ counter' = FirstCounter(tag)
  /\ ctIdx' = 0 /\ ksIdx' = BlockSize
  /\ UNCHANGED <<tag, ptLen, mode, keystream, ctBuf, decBuf>>

\* gcmsiv_gen_keystream, and the index goes back to the block's first byte.
GenKeystream ==
  /\ pc = "loop" /\ ctIdx < ptLen /\ ksIdx >= BlockSize
  /\ keystream' = counter
  /\ counter' = Increment(counter)
  /\ ksIdx' = 0
  /\ UNCHANGED <<tag, ptLen, mode, pc, ctIdx, ctBuf, decBuf>>

\* What eor leaves at the output: input byte i with a keystream byte.
Xored(i) == [in |-> i, block |-> keystream, at |-> ksIdx]

\* Variant: the loop tests ks_idx after, not before, the byte is used.
EncryptByteLate ==
  /\ pc = "loop" /\ mode = "encrypt" /\ ctIdx < ptLen /\ ksIdx < BlockSize
  /\ ctBuf' = [i \in Index |-> IF i = ctIdx THEN Xored(i) ELSE ctBuf[i]]
  /\ ctIdx' = ctIdx + 1 /\ ksIdx' = (ksIdx + 1) % BlockSize
  /\ UNCHANGED <<tag, ptLen, mode, pc, counter, keystream, decBuf>>

EncryptByte ==
  /\ pc = "loop" /\ mode = "encrypt" /\ ctIdx < ptLen /\ ksIdx < BlockSize
  /\ ctBuf' = [i \in Index |-> IF i = ctIdx THEN Xored(i) ELSE ctBuf[i]]
  /\ ctIdx' = ctIdx + 1 /\ ksIdx' = ksIdx + 1
  /\ UNCHANGED <<tag, ptLen, mode, pc, counter, keystream, decBuf>>

DecryptByte ==
  /\ pc = "loop" /\ mode = "decrypt" /\ ctIdx < ptLen /\ ksIdx < BlockSize
  /\ decBuf' = [i \in Index |-> IF i = ctIdx THEN Xored(i) ELSE decBuf[i]]
  /\ ctIdx' = ctIdx + 1 /\ ksIdx' = ksIdx + 1
  /\ UNCHANGED <<tag, ptLen, mode, pc, counter, keystream, ctBuf>>

Finish ==
  /\ pc = "loop" /\ ctIdx >= ptLen /\ pc' = "done"
  /\ UNCHANGED <<tag, ptLen, mode, counter, keystream, ctIdx, ksIdx, ctBuf, decBuf>>

Step == Start \/ GenKeystream \/ EncryptByte \/ DecryptByte \/ Finish

\* The routine has returned.
Done == pc = "done" /\ UNCHANGED vars

Next == Step \/ Done

Spec == Init /\ [][Next]_vars

-----------------------------------------------------------------------------
(* The n-th counter block of RFC 8452: the 32-bit little-endian number in  *)
(* bytes 0..3 plus n, modulo 2^32 (kept as two 16-bit halves), the other   *)
(* bytes as in the tag with the top bit set.                               *)
LowHalf(t, n) == t[0] + 256 * t[1] + n
HighHalf(t, n) == t[2] + 256 * t[3] + (LowHalf(t, n) \div 256) \div 256

CounterBlock(t, n) ==
  [i \in 0 .. 15 |->
     CASE i = 0 -> LowHalf(t, n) % 256
       [] i = 1 -> (LowHalf(t, n) \div 256) % 256
       [] i = 2 -> HighHalf(t, n) % 256
       [] i = 3 -> (HighHalf(t, n) \div 256) % 256
       [] i = 15 -> 128 + (t[i] % 128)
       [] OTHER -> t[i]]

Output == IF mode = "encrypt" THEN ctBuf ELSE decBuf
OtherBuffer == IF mode = "encrypt" THEN decBuf ELSE ctBuf

\* The byte counter mode must leave at position i.
Expected(i) ==
  [in |-> i, block |-> CounterBlock(tag, i \div BlockSize), at |-> i % BlockSize]

TypeOK ==
  /\ tag \in Tags /\ ptLen \in Lens
  /\ mode \in {"encrypt", "decrypt"}
  /\ pc \in {"start", "loop", "done"}
  /\ counter \in [0 .. 15 -> Byte] /\ keystream \in [0 .. 15 -> Byte]
  /\ ctIdx \in 0 .. ptLen /\ ksIdx \in 0 .. BlockSize

(* At every point of the loop the two indices and the counter agree: the   *)
(* keystream in the buffer is the one for the byte that comes next, and    *)
(* the counter is one block ahead of it; the routine returns with the      *)
(* whole message done (gcm_siv.s:658-681, 690-718).                        *)
InStep ==
  /\ pc = "start" => ctIdx = 0
  /\ pc = "done" => ctIdx = ptLen
  /\ pc # "start" =>
       IF ksIdx = BlockSize
       THEN ctIdx % BlockSize = 0 /\ counter = CounterBlock(tag, ctIdx \div BlockSize)
       ELSE /\ ksIdx = ctIdx % BlockSize
            /\ keystream = CounterBlock(tag, ctIdx \div BlockSize)
            /\ counter = CounterBlock(tag, ctIdx \div BlockSize + 1)

(* Every byte written so far is the input byte of its own position with    *)
(* the keystream byte RFC 8452 gives it; no byte past the index is         *)
(* written, and the other buffer is not touched (gcm_siv.s:671-679).       *)
RightBytes ==
  /\ \A i \in Index : Output[i] = IF i < ctIdx THEN Expected(i) ELSE Nothing
  /\ OtherBuffer = Untouched

(* A keystream byte is used at most once, also when the 32-bit counter     *)
(* wraps on the way (gcm_siv.s:709-718).                                   *)
NoKeystreamReuse ==
  \A i, j \in 0 .. ctIdx - 1 :
    (Output[i].block = Output[j].block /\ Output[i].at = Output[j].at) => i = j
=============================================================================
