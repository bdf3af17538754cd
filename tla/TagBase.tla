------------------------------- MODULE TagBase -------------------------------
(***************************************************************************)
(* gcmsiv_compute_tag_base of gcm_siv.s: the plaintext goes to POLYVAL in  *)
(* 16-byte blocks, zero-padded, and the length block after it.  All index  *)
(* arithmetic is 8 bits wide and the loop ends on the sign of a            *)
(* difference, so the question is whether every byte is absorbed once, in  *)
(* order, for every length.  GcmSiv takes the routine as one step.         *)
(*                                                                         *)
(* A plaintext byte is named by its position.  polyval_acc is the sequence *)
(* of blocks absorbed since polyval_init, each with the key whose table    *)
(* multiplied it; the tables and the accumulator start with what an        *)
(* earlier call left in them.                                              *)
(***************************************************************************)
EXTENDS Integers, Sequences

CONSTANTS
  Key,       \* values of gcmsiv_auth_key
  BufferLen,    \* gcmsiv_max_pt_len
  Zero       \* a byte of padding

(* The sign test of the loop limits the buffer to 127 bytes (it has 64). *)
ASSUME BufferAssumption == BufferLen \in 0 .. 127

VARIABLES
  authKey, textLen,     \* inputs
  polyvalH, htable,   \* polyval_h; the key polyval_htable was built from
  acc,                \* polyval_acc
  blockIdx,           \* gcmsiv_block_idx
  tagAcc,             \* gcmsiv_tag_acc
  place

tagVars == <<authKey, textLen, polyvalH, htable, acc, blockIdx, tagAcc, place>>

BlockLen == 16

Absorb(block) == acc' = Append(acc, [under |-> htable, block |-> block])

NoBlock == [i \in 0 .. 15 |-> Zero]

TagInit ==
  /\ authKey \in Key /\ textLen \in 0 .. BufferLen
  /\ polyvalH \in Key /\ htable \in Key
  /\ acc \in {<<>>} \cup {<<[under |-> k, block |-> NoBlock]>> : k \in Key}
  /\ tagAcc = acc
  /\ blockIdx \in {0, 64}
  /\ place = "copy_h"

-----------------------------------------------------------------------------
CopyH ==
  /\ place = "copy_h" /\ place' = "precompute"
  /\ polyvalH' = authKey
  /\ UNCHANGED <<authKey, textLen, htable, acc, blockIdx, tagAcc>>

\* Variant: the tables of the previous call are kept.
PrecomputeOnce ==
  /\ place = "precompute" /\ place' = "init"
  /\ UNCHANGED <<authKey, textLen, polyvalH, htable, acc, blockIdx, tagAcc>>

\* polyval_precompute_table
Precompute ==
  /\ place = "precompute" /\ place' = "init"
  /\ htable' = polyvalH
  /\ UNCHANGED <<authKey, textLen, polyvalH, acc, blockIdx, tagAcc>>

\* polyval_init, and the index of the first block.
InitAcc ==
  /\ place = "init" /\ place' = "process"
  /\ acc' = <<>> /\ blockIdx' = 0
  /\ UNCHANGED <<authKey, textLen, polyvalH, htable, tagAcc>>

\* polyval_temp at @update_block: bytes from y on while y < pt_len, then zeros.
Padded(y) == [x \in 0 .. 15 |-> IF y + x < textLen THEN y + x ELSE Zero]

\* sec / sbc, then beq and bmi: nothing remains, or the difference is negative.
Remaining == (textLen - blockIdx) % 256
Exhausted == Remaining = 0 \/ Remaining >= 128

\* Variant: the loop goes on while the index does not exceed the length.
ProcessBlockInclusive ==
  /\ place = "process" /\ ~Exhausted
  /\ Absorb(Padded(blockIdx))
  /\ blockIdx' = (blockIdx + BlockLen) % 256
  /\ place' = IF blockIdx' + BlockLen <= textLen THEN "process" ELSE "length"
  /\ UNCHANGED <<authKey, textLen, polyvalH, htable, tagAcc>>

\* One pass of @process_loop.
ProcessBlock ==
  /\ place = "process" /\ ~Exhausted
  /\ Absorb(Padded(blockIdx))
  /\ blockIdx' = (blockIdx + BlockLen) % 256
  /\ place' = IF blockIdx' < textLen THEN "process" ELSE "length"
  /\ UNCHANGED <<authKey, textLen, polyvalH, htable, tagAcc>>

\* @process_done from the head of the loop.
NoMoreData ==
  /\ place = "process" /\ Exhausted
  /\ place' = "length"
  /\ UNCHANGED <<authKey, textLen, polyvalH, htable, acc, blockIdx, tagAcc>>

\* Variant: the high bits of the bit length are dropped.
LengthBlockLow ==
  [i \in 0 .. 15 |-> IF i = 8 THEN (8 * textLen) % 256 ELSE 0]

\* Three asl, and five lsr for the bits they push out.
LengthBlock ==
  [i \in 0 .. 15 |-> CASE i = 8 -> (8 * textLen) % 256
                       [] i = 9 -> textLen \div 32
                       [] OTHER -> 0]

ProcessLength ==
  /\ place = "length" /\ place' = "copy_result"
  /\ Absorb(LengthBlock)
  /\ UNCHANGED <<authKey, textLen, polyvalH, htable, blockIdx, tagAcc>>

CopyResult ==
  /\ place = "copy_result" /\ place' = "done"
  /\ tagAcc' = acc
  /\ UNCHANGED <<authKey, textLen, polyvalH, htable, acc, blockIdx>>

\* Back in the caller.
TagDone == place = "done" /\ UNCHANGED tagVars

TagStep ==
  \/ CopyH \/ Precompute \/ InitAcc \/ ProcessBlock \/ NoMoreData
  \/ ProcessLength \/ CopyResult

TagNext == TagStep \/ TagDone

TagSpec == TagInit /\ [][TagNext]_tagVars

-----------------------------------------------------------------------------
\* The message as POLYVAL must see it: n full blocks from the front, the
\* last one padded with zeros.
PaddedBlocks(n) ==
  [j \in 1 .. n |-> [under |-> authKey, block |-> Padded(BlockLen * (j - 1))]]

BlockCount == (textLen + BlockLen - 1) \div BlockLen

(* The index fits its byte and no call absorbs more blocks than its length *)
(* has, the length block included.                                         *)
TagTypeOK ==
  /\ authKey \in Key /\ textLen \in 0 .. BufferLen
  /\ polyvalH \in Key /\ htable \in Key
  /\ blockIdx \in 0 .. 255
  /\ place \in {"copy_h", "precompute", "init", "process", "length", "copy_result", "done"}
  /\ Len(acc) <= BlockCount + 1

(* While the loop runs, exactly the blocks below the index have been       *)
(* absorbed, in order, under the table of this call's key; it leaves the   *)
(* loop with all of them (gcm_siv.s:394-437).                              *)
AbsorbedSoFar ==
  /\ place # "copy_h" => polyvalH = authKey
  /\ place \notin {"copy_h", "precompute"} => htable = authKey
  /\ place \in {"process", "length"} =>
       /\ blockIdx % BlockLen = 0
       /\ acc = PaddedBlocks(blockIdx \div BlockLen)
  /\ place = "process" => blockIdx = 0 \/ blockIdx < textLen
  /\ place = "length" => blockIdx \div BlockLen = BlockCount

\* A block that gives the bit length of a message of l bytes and no other.
IsLengthBlock(b, l) ==
  /\ b[8] + 256 * b[9] = 8 * l /\ b[8] \in 0 .. 255
  /\ \A i \in (0 .. 15) \ {8, 9} : b[i] = 0

(* The result is POLYVAL, under this call's key alone, of every plaintext  *)
(* byte once and in order, zero padding, and a block that tells any two    *)
(* lengths apart (gcm_siv.s:373-478).                                      *)
HashesMessage ==
  place = "done" =>
    /\ tagAcc = Append(PaddedBlocks(BlockCount), [under |-> authKey, block |-> LengthBlock])
    /\ IsLengthBlock(LengthBlock, textLen)
=============================================================================
