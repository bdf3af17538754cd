---------------------------- MODULE PolyvalValues ----------------------------
(***************************************************************************)
(* Values of the real width for the runs: the key and the blocks of the    *)
(* POLYVAL example of RFC 8452, appendix A, which the repository's tests   *)
(* use too (src/tools/vectors/rfc8452_vectors.json), and a key of one bit. *)
(***************************************************************************)
EXTENDS Integers, Sequences

\* The value of 16 bytes, the first byte lowest.
FromBytes(b) ==
  {e \in 0 .. 8 * Len(b) - 1 : (b[e \div 8 + 1] \div 2 ^ (e % 8)) % 2 = 1}

RfcH == FromBytes(<<37, 98, 147, 71, 88, 146, 66, 118,
                    29, 49, 248, 38, 186, 75, 117, 123>>)
RfcX1 == FromBytes(<<79, 79, 149, 102, 140, 131, 223, 182,
                     64, 23, 98, 187, 45, 1, 162, 98>>)
RfcX2 == FromBytes(<<209, 162, 77, 221, 39, 33, 208, 6,
                     187, 228, 95, 32, 211, 201, 243, 98>>)
RfcResult == FromBytes(<<247, 163, 180, 123, 132, 97, 25, 250,
                         229, 183, 134, 108, 245, 229, 183, 126>>)

Keys == {RfcH, {127}}
Blocks == {RfcX1, RfcX2}
Nibbles == {0, 11}
JunkEntry == {0, 64, 127}
=============================================================================
