------------------------------- MODULE GcmSiv -------------------------------
(***************************************************************************)
(* The AEAD routines of src/src/gcm_siv.s, one action per routine, loop    *)
(* pass or jsr that changes what another routine reads.                    *)
(*                                                                         *)
(* There is ONE expanded-key buffer.  Derivation, tag finalisation and     *)
(* counter mode all run AES under aes_expanded_key, so each of them has to *)
(* find the right schedule there and put the master schedule back.  The    *)
(* buffers gcmsiv_tag and gcmsiv_pt_buf are inputs of a decryption and are *)
(* overwritten in the middle of it.  Those two hazards are the subject.    *)
(*                                                                         *)
(* Abstractions: a schedule is named by its key, a byte is the set of its  *)
(* one-bits; POLYVAL, AES and the keystream are constant operators.  The   *)
(* block loops inside compute_tag_base and ctr_encrypt/decrypt are single  *)
(* steps here and are modelled byte by byte in TagBase and CtrStream.      *)
(***************************************************************************)
EXTENDS Naturals

CONSTANTS
  Key, Nonce, MaxLen, Len8, Text, ForeignTag,      \* as in Aead
  DerivePiece(_, _, _), Polyval(_, _), TagCipher(_, _, _), Stream(_, _, _),
  MaxCalls,                                        \* bound on AEAD calls
  Nil                                              \* memory not yet written

ASSUME MaxLenAssumption == MaxLen \in Nat
ASSUME Len8Assumption == Len8 \subseteq Nat
ASSUME MaxCallsAssumption == MaxCalls \in Nat

VARIABLES
  curKey,     \* aes_current_key
  exp,        \* aes_expanded_key
  nonce,      \* gcmsiv_nonce
  ptLen,      \* gcmsiv_pt_len
  ptBuf, ctBuf, decBuf,
  tag,        \* gcmsiv_tag
  tagValid,   \* gcmsiv_tag_valid
  ret,        \* A on return from gcmsiv_encrypt / gcmsiv_decrypt
  authKey, encKey, savedKey, expEncKey, savedExp, tagAcc, verifyTag,
  deriveCtr,
  pc,         \* next routine to run; "idle" between calls
  caller,     \* exported routine the host called, "none" between calls
  call,       \* history: the interface as it was when the call began
  calls       \* history: number of calls begun

interface == <<curKey, exp, nonce, ptLen, ptBuf, ctBuf, decBuf, tag, tagValid, ret>>
scratch == <<authKey, encKey, savedKey, expEncKey, savedExp, tagAcc, verifyTag, deriveCtr>>
control == <<pc, caller, call, calls>>
vars == <<interface, scratch, control>>

Index == 0 .. MaxLen - 1
Eor(a, b) == (a \ b) \cup (b \ a)
Prefix(b, l) == [i \in 0 .. l - 1 |-> b[i]]
Blank8 == [i \in Index |-> {}]

Aeads == {"gcmsiv_encrypt", "gcmsiv_decrypt"}
Pieces == {"gcmsiv_derive_keys", "gcmsiv_compute_tag_base", "gcmsiv_finalize_tag",
           "gcmsiv_ctr_encrypt", "gcmsiv_ctr_decrypt"}

Init ==
  /\ curKey \in Key /\ exp = curKey
  /\ nonce \in Nonce
  /\ ptLen = 0
  /\ ptBuf = Blank8 /\ ctBuf = Blank8 /\ decBuf = Blank8
  /\ tag \in ForeignTag
  /\ tagValid = 0 /\ ret = 0
  /\ authKey = [i \in 0 .. 1 |-> Nil] /\ encKey = [i \in 2 .. 5 |-> Nil]
  /\ savedKey = Nil /\ expEncKey = Nil /\ savedExp = Nil
  /\ tagAcc = Nil /\ verifyTag = Nil
  /\ deriveCtr = 0
  /\ pc = "idle" /\ caller = "none" /\ call = Nil /\ calls = 0

-----------------------------------------------------------------------------
(* The host, between calls. *)

SetKey(k) ==
  /\ pc = "idle" /\ curKey' = k
  /\ UNCHANGED <<exp, nonce, ptLen, ptBuf, ctBuf, decBuf, tag, tagValid, ret>>
  /\ UNCHANGED <<scratch, control>>

\* jsr aes_key_expansion
ExpandKey ==
  /\ pc = "idle" /\ exp' = curKey
  /\ UNCHANGED <<curKey, nonce, ptLen, ptBuf, ctBuf, decBuf, tag, tagValid, ret>>
  /\ UNCHANGED <<scratch, control>>

SetNonce(n) ==
  /\ pc = "idle" /\ nonce' = n
  /\ UNCHANGED <<curKey, exp, ptLen, ptBuf, ctBuf, decBuf, tag, tagValid, ret>>
  /\ UNCHANGED <<scratch, control>>

StageText(l, b) ==
  /\ pc = "idle" /\ ptLen' = l /\ ptBuf' = b
  /\ UNCHANGED <<curKey, exp, nonce, ctBuf, decBuf, tag, tagValid, ret>>
  /\ UNCHANGED <<scratch, control>>

FlipCt(i, b) ==
  /\ pc = "idle"
  /\ ctBuf' = [j \in Index |-> IF j = i THEN Eor(ctBuf[j], b) ELSE ctBuf[j]]
  /\ UNCHANGED <<curKey, exp, nonce, ptLen, ptBuf, decBuf, tag, tagValid, ret>>
  /\ UNCHANGED <<scratch, control>>

SetTag(t) ==
  /\ pc = "idle" /\ tag' = t
  /\ UNCHANGED <<curKey, exp, nonce, ptLen, ptBuf, ctBuf, decBuf, tagValid, ret>>
  /\ UNCHANGED <<scratch, control>>

Host ==
  \/ \E k \in Key : SetKey(k)
  \/ ExpandKey
  \/ \E n \in Nonce : SetNonce(n)
  \/ \E l \in Len8, b \in [Index -> Text] : StageText(l, b)
  \/ \E i \in Index, b \in Text : FlipCt(i, b)
  \/ \E t \in ForeignTag : SetTag(t)

-----------------------------------------------------------------------------
(* Calls and returns. *)

Snapshot ==
  [key |-> curKey, exp |-> exp, nonce |-> nonce, len |-> ptLen, pt |-> ptBuf,
   ct |-> ctBuf, dec |-> decBuf, tag |-> tag, valid |-> tagValid, ret |-> ret]

Enter(routine, first) ==
  /\ pc = "idle" /\ calls < MaxCalls
  /\ pc' = first /\ caller' = routine /\ call' = Snapshot /\ calls' = calls + 1

Goto(next) ==
  /\ pc' = next
  /\ IF next = "idle" THEN caller' = "none" /\ call' = Nil
                      ELSE UNCHANGED <<caller, call>>
  /\ UNCHANGED calls

\* Where the rts at the end of each routine lands.
AfterDerive ==
  CASE caller = "gcmsiv_encrypt" -> "tag_base"
    [] caller = "gcmsiv_decrypt" -> "ctr_install"
    [] OTHER                     -> "idle"
AfterTagBase ==
  IF caller \in Aeads THEN "fin_install" ELSE "idle"
AfterFinalize ==
  CASE caller = "gcmsiv_encrypt" -> "ctr_install"
    [] caller = "gcmsiv_decrypt" -> "compare"
    [] OTHER                     -> "idle"
AfterCtr ==
  IF caller = "gcmsiv_decrypt" THEN "stage_dec" ELSE "idle"

-----------------------------------------------------------------------------
(* gcmsiv_encrypt: length gate, then derive_keys. *)

EncryptCall ==
  /\ ptLen <= MaxLen
  /\ Enter("gcmsiv_encrypt", "derive")
  /\ deriveCtr' = 0
  /\ UNCHANGED interface
  /\ UNCHANGED <<authKey, encKey, savedKey, expEncKey, savedExp, tagAcc, verifyTag>>

EncryptReject ==
  /\ ptLen > MaxLen
  /\ pc = "idle" /\ calls < MaxCalls /\ calls' = calls + 1
  /\ ret' = 1
  /\ UNCHANGED <<curKey, exp, nonce, ptLen, ptBuf, ctBuf, decBuf, tag, tagValid>>
  /\ UNCHANGED <<scratch, pc, caller, call>>

(* gcmsiv_decrypt: tag_valid cleared before anything else. *)

\* Variant: tag_valid of the previous call survives into this one.
DecryptCallKeepsValid ==
  /\ ptLen <= MaxLen
  /\ Enter("gcmsiv_decrypt", "derive")
  /\ deriveCtr' = 0
  /\ UNCHANGED interface
  /\ UNCHANGED <<authKey, encKey, savedKey, expEncKey, savedExp, tagAcc, verifyTag>>

DecryptCall ==
  /\ ptLen <= MaxLen
  /\ Enter("gcmsiv_decrypt", "derive")
  /\ deriveCtr' = 0 /\ tagValid' = 0
  /\ UNCHANGED <<curKey, exp, nonce, ptLen, ptBuf, ctBuf, decBuf, tag, ret>>
  /\ UNCHANGED <<authKey, encKey, savedKey, expEncKey, savedExp, tagAcc, verifyTag>>

DecryptReject ==
  /\ ptLen > MaxLen
  /\ pc = "idle" /\ calls < MaxCalls /\ calls' = calls + 1
  /\ tagValid' = 0 /\ decBuf' = Blank8 /\ ret' = 1
  /\ UNCHANGED <<curKey, exp, nonce, ptLen, ptBuf, ctBuf, tag>>
  /\ UNCHANGED <<scratch, pc, caller, call>>

(* A step of the pipeline called by itself; its contract is pt_len <= 64. *)
PieceCall(routine) ==
  /\ ptLen <= MaxLen
  /\ Enter(routine, CASE routine = "gcmsiv_derive_keys"      -> "derive"
                      [] routine = "gcmsiv_compute_tag_base" -> "tag_base"
                      [] routine = "gcmsiv_finalize_tag"     -> "fin_install"
                      [] OTHER                               -> "ctr_install")
  /\ deriveCtr' = (IF routine = "gcmsiv_derive_keys" THEN 0 ELSE deriveCtr)
  /\ UNCHANGED interface
  /\ UNCHANGED <<authKey, encKey, savedKey, expEncKey, savedExp, tagAcc, verifyTag>>

-----------------------------------------------------------------------------
(* gcmsiv_derive_keys *)

\* Variant: derive_ctr is not advanced.
DeriveBlockStuck ==
  /\ pc = "derive" /\ deriveCtr < 6
  /\ authKey' = [i \in 0 .. 1 |-> DerivePiece(exp, nonce, deriveCtr)]
  /\ UNCHANGED <<encKey, savedKey, expEncKey, savedExp, tagAcc, verifyTag, deriveCtr>>
  /\ UNCHANGED <<interface, control>>

\* Variant: the auth key is taken from counters 2 and 3 too.
DeriveBlockOverlap ==
  /\ pc = "derive" /\ deriveCtr < 6
  /\ LET piece == DerivePiece(exp, nonce, deriveCtr)
     IN  /\ authKey' = [i \in 0 .. 1 |-> IF deriveCtr \in {i, i + 2} THEN piece ELSE authKey[i]]
         /\ encKey' = [i \in 2 .. 5 |-> IF deriveCtr = i THEN piece ELSE encKey[i]]
  /\ deriveCtr' = deriveCtr + 1
  /\ UNCHANGED <<savedKey, expEncKey, savedExp, tagAcc, verifyTag>>
  /\ UNCHANGED <<interface, control>>

\* One pass of @derive_loop: encrypt counter || nonce under the schedule in
\* place and keep 8 bytes as a piece of the auth key (0, 1) or enc key (2..5).
DeriveBlock ==
  /\ pc = "derive" /\ deriveCtr < 6
  /\ LET piece == DerivePiece(exp, nonce, deriveCtr)
     IN  /\ authKey' = [i \in 0 .. 1 |-> IF deriveCtr = i THEN piece ELSE authKey[i]]
         /\ encKey' = [i \in 2 .. 5 |-> IF deriveCtr = i THEN piece ELSE encKey[i]]
  /\ deriveCtr' = deriveCtr + 1
  /\ UNCHANGED <<savedKey, expEncKey, savedExp, tagAcc, verifyTag>>
  /\ UNCHANGED <<interface, control>>

\* The loop is over: the enc key takes the place of the master key.
SwapInEncKey ==
  /\ pc = "derive" /\ deriveCtr >= 6
  /\ savedKey' = curKey /\ curKey' = encKey
  /\ Goto("expand_enc")
  /\ UNCHANGED <<exp, nonce, ptLen, ptBuf, ctBuf, decBuf, tag, tagValid, ret>>
  /\ UNCHANGED <<authKey, encKey, expEncKey, savedExp, tagAcc, verifyTag, deriveCtr>>

\* aes_key_expansion, and the schedule is copied aside.
ExpandEncKey ==
  /\ pc = "expand_enc"
  /\ exp' = curKey /\ expEncKey' = curKey
  /\ Goto("expand_master")
  /\ UNCHANGED <<curKey, nonce, ptLen, ptBuf, ctBuf, decBuf, tag, tagValid, ret>>
  /\ UNCHANGED <<authKey, encKey, savedKey, savedExp, tagAcc, verifyTag, deriveCtr>>

\* Variant: the master key comes back but is not expanded again.
RestoreMasterKeyOnly ==
  /\ pc = "expand_master"
  /\ curKey' = savedKey
  /\ Goto(AfterDerive)
  /\ UNCHANGED <<exp, nonce, ptLen, ptBuf, ctBuf, decBuf, tag, tagValid, ret>>
  /\ UNCHANGED scratch

\* The master key comes back and is expanded again.
RestoreMasterKey ==
  /\ pc = "expand_master"
  /\ curKey' = savedKey /\ exp' = savedKey
  /\ Goto(AfterDerive)
  /\ UNCHANGED <<nonce, ptLen, ptBuf, ctBuf, decBuf, tag, tagValid, ret>>
  /\ UNCHANGED scratch

-----------------------------------------------------------------------------
(* gcmsiv_compute_tag_base, gcmsiv_finalize_tag *)

ComputeTagBase ==
  /\ pc = "tag_base"
  /\ tagAcc' = Polyval(authKey, Prefix(ptBuf, ptLen))
  /\ Goto(AfterTagBase)
  /\ UNCHANGED interface
  /\ UNCHANGED <<authKey, encKey, savedKey, expEncKey, savedExp, verifyTag, deriveCtr>>

\* gcmsiv_install_enc_key, from finalize_tag or from ctr_encrypt/decrypt.
InstallEncKey(from, to) ==
  /\ pc = from
  /\ savedExp' = exp /\ exp' = expEncKey
  /\ Goto(to)
  /\ UNCHANGED <<curKey, nonce, ptLen, ptBuf, ctBuf, decBuf, tag, tagValid, ret>>
  /\ UNCHANGED <<authKey, encKey, savedKey, expEncKey, tagAcc, verifyTag, deriveCtr>>

\* Variant: the jsr gcmsiv_restore_orig_key is missing.
FinalizeTagKeepsEncKey ==
  /\ pc = "fin_aes"
  /\ tag' = TagCipher(exp, tagAcc, nonce)
  /\ Goto(AfterFinalize)
  /\ UNCHANGED <<curKey, exp, nonce, ptLen, ptBuf, ctBuf, decBuf, tagValid, ret>>
  /\ UNCHANGED scratch

\* aes_encrypt_block, gcmsiv_restore_orig_key, store the tag.
FinalizeTag ==
  /\ pc = "fin_aes"
  /\ tag' = TagCipher(exp, tagAcc, nonce)
  /\ exp' = savedExp
  /\ Goto(AfterFinalize)
  /\ UNCHANGED <<curKey, nonce, ptLen, ptBuf, ctBuf, decBuf, tagValid, ret>>
  /\ UNCHANGED scratch

-----------------------------------------------------------------------------
(* gcmsiv_ctr_encrypt, gcmsiv_ctr_decrypt *)

CryptUnder(e, t, in, out, l) ==
  [i \in Index |-> IF i < l THEN Eor(in[i], Stream(e, t, i)) ELSE out[i]]

Crypt(in, out) == CryptUnder(exp, tag, in, out, ptLen)

CtrEncrypt ==
  /\ pc = "ctr" /\ caller \in {"gcmsiv_encrypt", "gcmsiv_ctr_encrypt"}
  /\ ctBuf' = Crypt(ptBuf, ctBuf)
  /\ exp' = savedExp
  /\ ret' = (IF caller \in Aeads THEN 0 ELSE ret)
  /\ Goto(AfterCtr)
  /\ UNCHANGED <<curKey, nonce, ptLen, ptBuf, decBuf, tag, tagValid>>
  /\ UNCHANGED scratch

CtrDecrypt ==
  /\ pc = "ctr" /\ caller \in {"gcmsiv_decrypt", "gcmsiv_ctr_decrypt"}
  /\ decBuf' = Crypt(ctBuf, decBuf)
  /\ exp' = savedExp
  /\ Goto(AfterCtr)
  /\ UNCHANGED <<curKey, nonce, ptLen, ptBuf, ctBuf, tag, tagValid, ret>>
  /\ UNCHANGED scratch

-----------------------------------------------------------------------------
(* The rest of gcmsiv_decrypt *)

\* Variant: the recovered plaintext is not copied to gcmsiv_pt_buf.
StageDecryptedNoCopy ==
  /\ pc = "stage_dec"
  /\ verifyTag' = tag
  /\ Goto("tag_base")
  /\ UNCHANGED <<curKey, exp, nonce, ptLen, ptBuf, ctBuf, decBuf, tag, tagValid, ret>>
  /\ UNCHANGED <<authKey, encKey, savedKey, expEncKey, savedExp, tagAcc, deriveCtr>>

\* Keep the received tag, stage the candidate plaintext for hashing.
StageDecrypted ==
  /\ pc = "stage_dec"
  /\ verifyTag' = tag
  /\ ptBuf' = [i \in Index |-> IF i < ptLen THEN decBuf[i] ELSE ptBuf[i]]
  /\ Goto("tag_base")
  /\ UNCHANGED <<curKey, exp, nonce, ptLen, ctBuf, decBuf, tag, tagValid, ret>>
  /\ UNCHANGED <<authKey, encKey, savedKey, expEncKey, savedExp, tagAcc, deriveCtr>>

TagMatch ==
  /\ pc = "compare" /\ tag = verifyTag
  /\ tagValid' = 1 /\ ret' = 0 /\ tag' = verifyTag
  /\ Goto("idle")
  /\ UNCHANGED <<curKey, exp, nonce, ptLen, ptBuf, ctBuf, decBuf, scratch>>

\* Variant: gcmsiv_tag is left holding the recomputed tag.
TagFailKeepsComputed ==
  /\ pc = "compare" /\ tag # verifyTag
  /\ tagValid' = 0 /\ ret' = 1 /\ decBuf' = Blank8
  /\ Goto("idle")
  /\ UNCHANGED <<curKey, exp, nonce, ptLen, ptBuf, ctBuf, tag, scratch>>

TagFail ==
  /\ pc = "compare" /\ tag # verifyTag
  /\ tagValid' = 0 /\ ret' = 1 /\ tag' = verifyTag /\ decBuf' = Blank8
  /\ Goto("idle")
  /\ UNCHANGED <<curKey, exp, nonce, ptLen, ptBuf, ctBuf, scratch>>

-----------------------------------------------------------------------------
Library ==
  \/ DeriveBlock \/ SwapInEncKey \/ ExpandEncKey \/ RestoreMasterKey
  \/ ComputeTagBase
  \/ InstallEncKey("fin_install", "fin_aes") \/ FinalizeTag
  \/ InstallEncKey("ctr_install", "ctr") \/ CtrEncrypt \/ CtrDecrypt
  \/ StageDecrypted \/ TagMatch \/ TagFail

AeadCall == EncryptCall \/ EncryptReject \/ DecryptCall \/ DecryptReject

\* A host that uses the two AEAD entry points only.
Next == Host \/ AeadCall \/ Library
Spec == Init /\ [][Next]_vars

\* A host that also calls the exported steps by themselves, in any order.
NextPieces == Next \/ \E r \in Pieces : PieceCall(r)
SpecPieces == Init /\ [][NextPieces]_vars
FairSpecPieces == SpecPieces /\ WF_vars(Library)

-----------------------------------------------------------------------------
(* What must hold. *)

AuthKeyOf(s, n) == [i \in 0 .. 1 |-> DerivePiece(s, n, i)]
EncKeyOf(s, n) == [i \in 2 .. 5 |-> DerivePiece(s, n, i)]
TagFor(s, n, m) == TagCipher(EncKeyOf(s, n), Polyval(AuthKeyOf(s, n), m), n)

Labels == {"idle", "derive", "expand_enc", "expand_master", "tag_base",
           "fin_install", "fin_aes", "ctr_install", "ctr", "stage_dec", "compare"}

IsBuffer(b) == b = [i \in Index |-> b[i]]

(* The control variables stay in their ranges, the data buffers keep their *)
(* size, and a routine that takes a length runs only on one that fits.     *)
TypeOK ==
  /\ pc \in Labels
  /\ caller \in Aeads \cup Pieces \cup {"none"}
  /\ (pc = "idle") <=> (caller = "none")
  /\ deriveCtr \in 0 .. 6
  /\ ptLen \in Nat /\ (pc # "idle" => ptLen <= MaxLen)
  /\ IsBuffer(ptBuf) /\ IsBuffer(ctBuf) /\ IsBuffer(decBuf)
  /\ tagValid \in {0, 1} /\ ret \in {0, 1}
  /\ calls \in 0 .. MaxCalls

(* The inductive invariant behind the properties below: what every buffer  *)
(* holds at every label, in terms of the interface the call found.         *)
Deriving == {"derive", "expand_enc", "expand_master"}
Stages(routine) ==
  CASE routine = "gcmsiv_encrypt" -> Labels \ {"idle", "stage_dec", "compare"}
    [] routine = "gcmsiv_decrypt" -> Labels \ {"idle"}
    [] routine = "gcmsiv_derive_keys" -> Deriving
    [] routine = "gcmsiv_compute_tag_base" -> {"tag_base"}
    [] routine = "gcmsiv_finalize_tag" -> {"fin_install", "fin_aes"}
    [] OTHER -> {"ctr_install", "ctr"}

\* The schedule that has to be in place when the call returns.
HomeExp == IF caller \in Aeads \cup {"gcmsiv_derive_keys"} THEN call.key ELSE call.exp

CallFrame ==
  pc # "idle" =>
    /\ pc \in Stages(caller)
    /\ nonce = call.nonce /\ ptLen = call.len

KeyFlow ==
  pc # "idle" =>
    /\ curKey = IF pc \in {"expand_enc", "expand_master"} THEN encKey ELSE call.key
    /\ pc \in {"expand_enc", "expand_master"} => savedKey = call.key
    /\ pc = "expand_master" => expEncKey = encKey
    /\ pc = "derive" => exp = call.exp
    /\ pc \in {"tag_base", "fin_install", "ctr_install", "stage_dec", "compare"} =>
         exp = HomeExp
    /\ pc \in {"fin_aes", "ctr"} => savedExp = HomeExp

DerivedKeys ==
  /\ authKey = [i \in 0 .. 1 |-> authKey[i]]
  /\ encKey = [i \in 2 .. 5 |-> encKey[i]]
  /\ caller \in Aeads =>
       /\ pc = "derive" =>
            /\ \A i \in 0 .. 1 : i < deriveCtr => authKey[i] = AuthKeyOf(call.exp, call.nonce)[i]
            /\ \A i \in 2 .. 5 : i < deriveCtr => encKey[i] = EncKeyOf(call.exp, call.nonce)[i]
       /\ pc # "derive" =>
            /\ authKey = AuthKeyOf(call.exp, call.nonce)
            /\ encKey = EncKeyOf(call.exp, call.nonce)
       /\ pc \notin Deriving => expEncKey = encKey
       /\ pc \in {"fin_aes", "ctr"} => exp = encKey

EncryptFlow ==
  caller = "gcmsiv_encrypt" =>
    /\ ptBuf = call.pt /\ ctBuf = call.ct /\ decBuf = call.dec
    /\ tagValid = call.valid /\ ret = call.ret
    /\ pc \in {"fin_install", "fin_aes"} =>
         tagAcc = Polyval(AuthKeyOf(call.exp, call.nonce), Prefix(call.pt, call.len))
    /\ tag = IF pc \in {"ctr_install", "ctr"}
             THEN TagFor(call.exp, call.nonce, Prefix(call.pt, call.len))
             ELSE call.tag

\* The candidate plaintext of a decryption.
Candidate ==
  CryptUnder(EncKeyOf(call.exp, call.nonce), call.tag, call.ct, call.dec, call.len)

DecryptFlow ==
  caller = "gcmsiv_decrypt" =>
    /\ ctBuf = call.ct /\ tagValid = 0 /\ ret = call.ret
    /\ IF pc \in Deriving \cup {"ctr_install", "ctr"}
       THEN ptBuf = call.pt /\ decBuf = call.dec
       ELSE decBuf = Candidate
    /\ pc = "stage_dec" => ptBuf = call.pt
    /\ pc \in {"tag_base", "fin_install", "fin_aes", "compare"} =>
         /\ verifyTag = call.tag
         /\ ptBuf = [i \in Index |-> IF i < call.len THEN Candidate[i] ELSE call.pt[i]]
    /\ pc \in {"fin_install", "fin_aes"} =>
         tagAcc = Polyval(AuthKeyOf(call.exp, call.nonce), Prefix(Candidate, call.len))
    /\ tag = IF pc = "compare"
             THEN TagFor(call.exp, call.nonce, Prefix(Candidate, call.len))
             ELSE call.tag

(* At every label of every call each buffer holds what the call's inputs   *)
(* determine: the auth and enc keys come from disjoint counters of one     *)
(* schedule, the tag buffer is the received tag until it is recomputed,    *)
(* the plaintext hashed is the one deciphered (gcm_siv.s:122-979).         *)
IInv ==
  TypeOK /\ CallFrame /\ KeyFlow /\ DerivedKeys /\ EncryptFlow /\ DecryptFlow

(* Every AES call of an AEAD call finds the schedule it needs in           *)
(* aes_expanded_key: the caller's own during derivation (gcm_siv.s:198),   *)
(* the derived encryption key's inside finalize_tag and counter mode       *)
(* (gcm_siv.s:538, 636, 933), with the master's kept for the restore.      *)
RightSchedule ==
  caller \in Aeads =>
    /\ pc = "derive" => exp = call.exp
    /\ pc \in {"fin_aes", "ctr"} =>
          exp = EncKeyOf(call.exp, call.nonce) /\ savedExp = call.key

(* Whatever exported routine the host calls, in whatever order, the master *)
(* key is back in aes_current_key when it returns, and aes_expanded_key    *)
(* holds the schedule the call found there or, after a derivation, the     *)
(* master key's (gcm_siv.s:100-101, 181-184, 504, 625, 922).               *)
RestoreStep ==
  (pc # "idle" /\ pc' = "idle") =>
    /\ curKey' = call.key
    /\ exp' = IF caller \in Aeads \cup {"gcmsiv_derive_keys"}
              THEN call.key ELSE call.exp

MasterRestored == [][RestoreStep]_vars

(* gcmsiv_tag_valid becomes 1 only in a step that leaves in gcmsiv_dec_buf *)
(* a plaintext whose tag is the received one, and while it stays 1 the     *)
(* buffer does not change: no moment of any call shows an unverified       *)
(* plaintext as valid (gcm_siv.s:797, 849).                                *)
ReleaseStep ==
  tagValid' = 1 =>
    \/ tagValid = 1 /\ decBuf' = decBuf
    \/ tagValid = 0 /\ call.tag = TagFor(call.exp, call.nonce, Prefix(decBuf', ptLen))

OnlyVerifiedReleased == [][ReleaseStep]_vars

(* A decryption given what an encryption produced -- same schedule and     *)
(* nonce, the tag and the ciphertext of some message m -- accepts it and   *)
(* returns m, whatever the buffers held before (gcm_siv.s:720-731).        *)
Message(l) == [0 .. l - 1 -> Text]

RoundTripStep ==
  (caller = "gcmsiv_decrypt" /\ pc' = "idle") =>
    \A m \in Message(call.len) :
      LET t == TagFor(call.exp, call.nonce, m)
          e == EncKeyOf(call.exp, call.nonce)
      IN  ( /\ call.tag = t
            /\ \A i \in 0 .. call.len - 1 : call.ct[i] = Eor(m[i], Stream(e, t, i)) )
          => ret' = 0 /\ tagValid' = 1 /\ Prefix(decBuf', call.len) = m

RoundTrip == [][RoundTripStep]_vars

(* The AEAD specification, seen through the interface: while a call runs   *)
(* it still shows the values the call found.                               *)
Abs == INSTANCE Aead WITH
  key   <- IF pc = "idle" THEN curKey ELSE call.key,
  sched <- IF pc = "idle" THEN exp ELSE call.exp,
  nonce <- IF pc = "idle" THEN nonce ELSE call.nonce,
  len   <- IF pc = "idle" THEN ptLen ELSE call.len,
  pt    <- IF pc = "idle" THEN ptBuf ELSE call.pt,
  ct    <- IF pc = "idle" THEN ctBuf ELSE call.ct,
  dec   <- IF pc = "idle" THEN decBuf ELSE call.dec,
  tag   <- IF pc = "idle" THEN tag ELSE call.tag,
  valid <- IF pc = "idle" THEN tagValid ELSE call.valid,
  ret   <- IF pc = "idle" THEN ret ELSE call.ret

(* gcmsiv_encrypt and gcmsiv_decrypt behave as the atomic Seal and Open.   *)
ImplementsAead == Abs!Spec

(* Every call returns: the derivation loop and the pipeline end.           *)
CallReturns == pc # "idle" ~> pc = "idle"
=============================================================================
