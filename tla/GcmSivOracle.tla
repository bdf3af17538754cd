---------------------------- MODULE GcmSivOracle ----------------------------
(***************************************************************************)
(* The message of POLYVAL and the counter mode of AES-256-GCM-SIV as the   *)
(* two references of the test suite build them: polyval_reference.py chunk *)
(* by chunk, hazmat_oracle.py from one padded string.  They also take      *)
(* additional data, which the 6502 code has not.                           *)
(*                                                                         *)
(* A text is a sequence of bytes, numbered or named; a byte of output is   *)
(* its provenance as in CtrStream.                                         *)
(***************************************************************************)
EXTENDS Integers, Sequences

CONSTANT Zero       \* a byte of padding

Zeros(n) == [i \in 1 .. n |-> Zero]

\* b[16 * (n - 1) : 16 * n]
Slice(b, n) == SubSeq(b, 16 * n - 15, IF 16 * n <= Len(b) THEN 16 * n ELSE Len(b))

\* struct.pack("<QQ", ...) of bit lengths below 2^16.
Packed(bits) == <<bits % 256, bits \div 256, 0, 0, 0, 0, 0, 0>>
Lengths(aad, text) == Packed(8 * Len(aad)) \o Packed(8 * Len(text))

-----------------------------------------------------------------------------
(* gcmsiv_compute_tag and gcmsiv_tag, up to POLYVAL *)

\* Variant: a whole last chunk is followed by a chunk of padding.
ChunksAlwaysPadded(b) ==
  [n \in 1 .. Len(b) \div 16 + 1 |-> Slice(b, n) \o Zeros(16 - Len(Slice(b, n)))]

\* Chunks of 16 bytes; a shorter one is padded.
Chunks(b) ==
  [n \in 1 .. (Len(b) + 15) \div 16 |->
     LET chunk == Slice(b, n)
     IN  IF Len(chunk) < 16 THEN chunk \o Zeros(16 - Len(chunk)) ELSE chunk]

TagBlocks(aad, text) == Append(Chunks(aad) \o Chunks(text), Lengths(aad, text))

pad16(b) == b \o Zeros((-Len(b)) % 16)

\* polyval takes the string in slices of 16.
HazmatBlocks(aad, text) ==
  LET message == pad16(aad) \o pad16(text) \o Lengths(aad, text)
  IN  [n \in 1 .. Len(message) \div 16 |-> Slice(message, n)]

-----------------------------------------------------------------------------
(* gcmsiv_ctr_encrypt and ctr *)

\* counter[15] |= 0x80
Marked(tag) == [tag EXCEPT ![15] = IF @ < 128 THEN @ + 128 ELSE @]

\* Variant: the carry stops at 16 bits.
CountedLow(counter) ==
  LET low == counter[0] + 256 * counter[1] + 1
  IN  [counter EXCEPT ![0] = low % 256, ![1] = (low \div 256) % 256]

\* The word in bytes 0 .. 3, as two halves, plus 1, modulo 2^32.
Counted(counter) ==
  LET low == counter[0] + 256 * counter[1] + 1
      high == counter[2] + 256 * counter[3] + low \div 65536
  IN  [counter EXCEPT ![0] = low % 256, ![1] = (low \div 256) % 256,
                      ![2] = high % 256, ![3] = (high \div 256) % 256]

\* chunk[j] ^ keystream[j]
Mixed(chunk, counter) ==
  [j \in 1 .. Len(chunk) |-> [in |-> chunk[j], block |-> counter, at |-> j - 1]]

RECURSIVE CtrFrom(_, _, _)
CtrFrom(counter, text, n) ==
  IF 16 * (n - 1) >= Len(text) THEN <<>>
  ELSE Mixed(Slice(text, n), counter) \o CtrFrom(Counted(counter), text, n + 1)

gcmsiv_ctr_encrypt(tag, text) == IF text = <<>> THEN <<>> ELSE CtrFrom(Marked(tag), text, 1)

\* ctr: zip stops at the shorter of its two sequences.
RECURSIVE Zipped(_, _, _)
Zipped(blk, data, n) ==
  LET chunk == Slice(data, n)
      both == IF Len(chunk) < 16 THEN Len(chunk) ELSE 16
  IN  IF Len(data) <= 16 * (n - 1) THEN <<>>
      ELSE Mixed(SubSeq(chunk, 1, both), blk) \o Zipped(Counted(blk), data, n + 1)

ctr(tag, data) == Zipped(Marked(tag), data, 1)
=============================================================================
