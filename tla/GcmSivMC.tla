------------------------------ MODULE GcmSivMC ------------------------------
(* GcmSiv with free functions for AES, POLYVAL and the keystream: two      *)
(* applications are equal only when their arguments are.  A keystream byte *)
(* is a byte of one fresh bit, so EOR cancels exactly what was added.      *)
EXTENDS GcmSiv, TLC

CONSTANT a      \* the bit staged text may have

\* No definition names a key.
KeySymmetry == Permutations(Key)

MCText == {{}, {a}}
MCDerivePiece(s, n, i) == <<s, n, i>>
MCPolyval(k, m) == <<"pv", k, m>>
MCTagCipher(e, acc, n) == <<"tag", e, acc, n>>
MCStream(e, t, i) == {<<e, t, i>>}
=============================================================================
