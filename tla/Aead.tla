-------------------------------- MODULE Aead --------------------------------
(***************************************************************************)
(* What c64-polyval promises of AES-256-GCM-SIV, in one atomic step per    *)
(* call: Seal is gcmsiv_encrypt, Open is gcmsiv_decrypt.  Module GcmSiv    *)
(* models the routines of src/src/gcm_siv.s step by step and is shown to   *)
(* implement this specification.                                           *)
(*                                                                         *)
(* A byte is the set of its one-bits, so EOR is symmetric difference; a    *)
(* key schedule is named by the key it was expanded from.  The block       *)
(* cipher, POLYVAL and the counter-mode keystream are operators given as   *)
(* constants, so every result holds whatever functions they are.           *)
(***************************************************************************)
EXTENDS Naturals

CONSTANTS
  Key,                    \* master keys the host uses
  Nonce,                  \* nonces the host uses
  MaxLen,                 \* gcmsiv_max_pt_len: the size of the data buffers
  Len8,                   \* values the host may leave in gcmsiv_pt_len
  Text,                   \* byte values the host stages
  ForeignTag,             \* tags that arrive from elsewhere
  DerivePiece(_, _, _),   \* schedule, nonce, counter -> 8 derived key bytes
  Polyval(_, _),          \* auth key, message -> POLYVAL of blocks and length
  TagCipher(_, _, _),     \* schedule, POLYVAL result, nonce -> tag
  Stream(_, _, _)         \* schedule, tag, i -> i-th keystream byte

VARIABLES
  key,      \* aes_current_key
  sched,    \* aes_expanded_key
  nonce, len,
  pt, ct, dec,
  tag,
  valid,    \* gcmsiv_tag_valid
  ret       \* accumulator on return: 0 accepted, 1 rejected

vars == <<key, sched, nonce, len, pt, ct, dec, tag, valid, ret>>

Index == 0 .. MaxLen - 1

Eor(a, b) == (a \ b) \cup (b \ a)

AuthKey(s, n) == [i \in 0 .. 1 |-> DerivePiece(s, n, i)]
EncKey(s, n) == [i \in 2 .. 5 |-> DerivePiece(s, n, i)]

\* The message of l bytes at the front of buffer b.
Prefix(b, l) == [i \in 0 .. l - 1 |-> b[i]]

\* The tag of message m under schedule s and nonce n.
TagFor(s, n, m) == TagCipher(EncKey(s, n), Polyval(AuthKey(s, n), m), n)

\* Buffer out after the first l bytes of in went through the keystream of e, t.
Crypt(e, t, in, out, l) ==
  [i \in Index |-> IF i < l THEN Eor(in[i], Stream(e, t, i)) ELSE out[i]]

Blank8 == [i \in Index |-> {}]

-----------------------------------------------------------------------------
Init ==
  /\ key \in Key /\ sched = key
  /\ nonce \in Nonce
  /\ len = 0
  /\ pt = Blank8 /\ ct = Blank8 /\ dec = Blank8
  /\ tag \in ForeignTag
  /\ valid = 0 /\ ret = 0

\* The host loads another master key, and separately expands it.
SetKey(k) ==
  key' = k /\ UNCHANGED <<sched, nonce, len, pt, ct, dec, tag, valid, ret>>

ExpandKey ==
  sched' = key /\ UNCHANGED <<key, nonce, len, pt, ct, dec, tag, valid, ret>>

SetNonce(n) ==
  nonce' = n /\ UNCHANGED <<key, sched, len, pt, ct, dec, tag, valid, ret>>

StageText(l, b) ==
  len' = l /\ pt' = b /\ UNCHANGED <<key, sched, nonce, ct, dec, tag, valid, ret>>

\* A ciphertext byte or the tag arrives changed.
FlipCt(i, b) ==
  /\ ct' = [j \in Index |-> IF j = i THEN Eor(ct[j], b) ELSE ct[j]]
  /\ UNCHANGED <<key, sched, nonce, len, pt, dec, tag, valid, ret>>

SetTag(t) ==
  tag' = t /\ UNCHANGED <<key, sched, nonce, len, pt, ct, dec, valid, ret>>

Host ==
  \/ \E k \in Key : SetKey(k)
  \/ ExpandKey
  \/ \E n \in Nonce : SetNonce(n)
  \/ \E l \in Len8, b \in [Index -> Text] : StageText(l, b)
  \/ \E i \in Index, b \in Text : FlipCt(i, b)
  \/ \E t \in ForeignTag : SetTag(t)

\* gcmsiv_encrypt.  Derivation uses the schedule in place and leaves the
\* schedule of the current key behind.
Seal ==
  IF len <= MaxLen
  THEN LET t == TagFor(sched, nonce, Prefix(pt, len))
       IN  /\ tag' = t
           /\ ct' = Crypt(EncKey(sched, nonce), t, pt, ct, len)
           /\ sched' = key /\ ret' = 0
           /\ UNCHANGED <<key, nonce, len, pt, dec, valid>>
  ELSE ret' = 1 /\ UNCHANGED <<key, sched, nonce, len, pt, ct, dec, tag, valid>>

\* gcmsiv_decrypt.  The candidate plaintext is staged in pt whatever the
\* verdict; dec keeps it only when the tag matches.
Open ==
  IF len <= MaxLen
  THEN LET d == Crypt(EncKey(sched, nonce), tag, ct, dec, len)
           ok == TagFor(sched, nonce, Prefix(d, len)) = tag
       IN  /\ dec' = IF ok THEN d ELSE Blank8
           /\ pt' = [i \in Index |-> IF i < len THEN d[i] ELSE pt[i]]
           /\ valid' = (IF ok THEN 1 ELSE 0)
           /\ ret' = (IF ok THEN 0 ELSE 1)
           /\ sched' = key
           /\ UNCHANGED <<key, nonce, len, ct, tag>>
  ELSE /\ dec' = Blank8 /\ valid' = 0 /\ ret' = 1
       /\ UNCHANGED <<key, sched, nonce, len, pt, ct, tag>>

Next == Host \/ Seal \/ Open

Spec == Init /\ [][Next]_vars
=============================================================================
