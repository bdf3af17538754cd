------------------------------- MODULE DemoMC -------------------------------
(* Demo with free functions for AES, POLYVAL and the keystream; a tag has  *)
(* two bytes, so that a load can stop between them.  Names have at most    *)
(* three characters and the default name one.                              *)
EXTENDS Demo

CONSTANTS a, A1, B, C, D0, D1

MCText == {{a}}
\* Free: each result determines the arguments.
MCDerivePiece(s, n, i) == <<n, i>>
MCPolyval(k, m) == <<k[0], m>>
MCTagByte(e, acc, n, i) == <<acc, i>>
MCStream(e, t, i) == {<<e[2], t, i>>}
MCDefaultName == <<A1>>
MCDigit == <<D0, D1>>
LongAndShort == {<<B, C>>, <<C>>}
OneName == {<<B>>}
=============================================================================
