---------------------------- MODULE GcmSivProofs ----------------------------
(***************************************************************************)
(* The inductive invariant IInv of GcmSiv says what every buffer holds at  *)
(* every label; it is preserved by every exported routine a host may call. *)
(* From it: the schedules, the restored master key, the released           *)
(* plaintext, the round trip and the implementation of Aead.               *)
(***************************************************************************)
EXTENDS GcmSiv, TLAPS

LEMMA InitIInv == Init => IInv
<1> SUFFICES ASSUME Init PROVE IInv
  OBVIOUS
<1> USE DEF Init, Blank8, Index
<1>1. TypeOK
  BY MaxCallsAssumption DEF TypeOK, Labels, Aeads, Pieces, IsBuffer
<1>2. CallFrame /\ KeyFlow
  BY DEF CallFrame, KeyFlow
<1>3. DerivedKeys
  BY DEF DerivedKeys, Aeads
<1>4. EncryptFlow /\ DecryptFlow
  BY DEF EncryptFlow, DecryptFlow
<1> QED
  BY <1>1, <1>2, <1>3, <1>4 DEF IInv

\* What the host does between calls is seen by TypeOK only.
LEMMA HostIInv == IInv /\ Host => IInv'
<1> SUFFICES ASSUME IInv, Host PROVE IInv'
  OBVIOUS
<1>1. /\ pc = "idle" /\ UNCHANGED <<scratch, control, decBuf, tagValid, ret>>
      /\ ptLen' \in Nat /\ IsBuffer(ptBuf)' /\ IsBuffer(ctBuf)'
  <2> USE DEF IInv, TypeOK
  <2>1. ASSUME NEW l \in Len8, NEW b \in [Index -> Text], StageText(l, b)
        PROVE  <1>1!:
    BY <2>1, Len8Assumption DEF StageText, scratch, control, IsBuffer
  <2>2. ASSUME NEW i \in Index, NEW b \in Text, FlipCt(i, b)
        PROVE  <1>1!:
    BY <2>2 DEF FlipCt, scratch, control, IsBuffer
  <2>3. CASE \/ \E k \in Key : SetKey(k)
             \/ ExpandKey
             \/ \E n \in Nonce : SetNonce(n)
             \/ \E t \in ForeignTag : SetTag(t)
    BY <2>3 DEF SetKey, ExpandKey, SetNonce, SetTag, scratch, control, IsBuffer
  <2> QED
    BY <2>1, <2>2, <2>3 DEF Host
<1>2. TypeOK'
  BY <1>1 DEF IInv, TypeOK, scratch, control, IsBuffer
<1>3. CallFrame' /\ KeyFlow'
  BY <1>1 DEF CallFrame, KeyFlow, control
<1>4. DerivedKeys'
  BY <1>1 DEF IInv, TypeOK, DerivedKeys, scratch, control, Aeads
<1>5. EncryptFlow' /\ DecryptFlow'
  BY <1>1 DEF IInv, TypeOK, EncryptFlow, DecryptFlow, control
<1> QED
  BY <1>2, <1>3, <1>4, <1>5 DEF IInv

\* The message hashed by a decryption is the candidate plaintext's prefix.
LEMMA StagedPrefix ==
  ASSUME NEW b, NEW d, NEW l \in Nat, l <= MaxLen
  PROVE  Prefix([i \in Index |-> IF i < l THEN d[i] ELSE b[i]], l) = Prefix(d, l)
BY MaxLenAssumption DEF Prefix, Index

LEMMA StepIInv == IInv /\ (EncryptCall \/ DecryptCall \/ Library) => IInv'
<1> SUFFICES ASSUME IInv, EncryptCall \/ DecryptCall \/ Library PROVE IInv'
  OBVIOUS
<1> USE MaxLenAssumption, MaxCallsAssumption
    DEF IInv, TypeOK, CallFrame, Stages, Deriving, Labels, Aeads, Pieces,
        interface, scratch, control

<1>1. CASE EncryptCall
  <2> USE <1>1 DEF EncryptCall, Enter, Snapshot
  <2>1. TypeOK' /\ CallFrame'
    BY DEF IsBuffer, CryptUnder, Blank8
  <2>2. KeyFlow'
    BY DEF KeyFlow, HomeExp
  <2>3. DerivedKeys'
    BY DEF KeyFlow, DerivedKeys, AuthKeyOf, EncKeyOf
  <2>4. EncryptFlow'
    BY DEF KeyFlow, DerivedKeys, EncryptFlow, TagFor
  <2>5. DecryptFlow'
    BY StagedPrefix DEF KeyFlow, DerivedKeys, DecryptFlow, TagFor, Candidate
  <2> QED
    BY <2>1, <2>2, <2>3, <2>4, <2>5
<1>2. CASE DecryptCall
  <2> USE <1>2 DEF DecryptCall, Enter, Snapshot
  <2>1. TypeOK' /\ CallFrame'
    BY DEF IsBuffer, CryptUnder, Blank8
  <2>2. KeyFlow'
    BY DEF KeyFlow, HomeExp
  <2>3. DerivedKeys'
    BY DEF KeyFlow, DerivedKeys, AuthKeyOf, EncKeyOf
  <2>4. EncryptFlow'
    BY DEF KeyFlow, DerivedKeys, EncryptFlow, TagFor
  <2>5. DecryptFlow'
    BY StagedPrefix DEF KeyFlow, DerivedKeys, DecryptFlow, TagFor, Candidate
  <2> QED
    BY <2>1, <2>2, <2>3, <2>4, <2>5
<1>3. CASE DeriveBlock
  <2> USE <1>3 DEF DeriveBlock
  <2>1. TypeOK' /\ CallFrame'
    BY DEF IsBuffer, CryptUnder, Blank8
  <2>2. KeyFlow'
    BY DEF KeyFlow, HomeExp
  <2>3. DerivedKeys'
    BY DEF KeyFlow, DerivedKeys, AuthKeyOf, EncKeyOf
  <2>4. EncryptFlow'
    BY DEF KeyFlow, DerivedKeys, EncryptFlow, TagFor
  <2>5. DecryptFlow'
    BY StagedPrefix DEF KeyFlow, DerivedKeys, DecryptFlow, TagFor, Candidate
  <2> QED
    BY <2>1, <2>2, <2>3, <2>4, <2>5
<1>4. CASE SwapInEncKey
  <2> USE <1>4 DEF SwapInEncKey, Goto
  <2>1. TypeOK' /\ CallFrame'
    BY DEF IsBuffer, CryptUnder, Blank8
  <2>2. KeyFlow'
    BY DEF KeyFlow, HomeExp
  <2>3. DerivedKeys'
    BY DEF KeyFlow, DerivedKeys, AuthKeyOf, EncKeyOf
  <2>4. EncryptFlow'
    BY DEF KeyFlow, DerivedKeys, EncryptFlow, TagFor
  <2>5. DecryptFlow'
    BY StagedPrefix DEF KeyFlow, DerivedKeys, DecryptFlow, TagFor, Candidate
  <2> QED
    BY <2>1, <2>2, <2>3, <2>4, <2>5
<1>5. CASE ExpandEncKey
  <2> USE <1>5 DEF ExpandEncKey, Goto
  <2>1. TypeOK' /\ CallFrame'
    BY DEF IsBuffer, CryptUnder, Blank8
  <2>2. KeyFlow'
    BY DEF KeyFlow, HomeExp
  <2>3. DerivedKeys'
    BY DEF KeyFlow, DerivedKeys, AuthKeyOf, EncKeyOf
  <2>4. EncryptFlow'
    BY DEF KeyFlow, DerivedKeys, EncryptFlow, TagFor
  <2>5. DecryptFlow'
    BY StagedPrefix DEF KeyFlow, DerivedKeys, DecryptFlow, TagFor, Candidate
  <2> QED
    BY <2>1, <2>2, <2>3, <2>4, <2>5
<1>6. CASE RestoreMasterKey
  <2> USE <1>6 DEF RestoreMasterKey, Goto, AfterDerive
  <2>1. TypeOK' /\ CallFrame'
    BY DEF IsBuffer, CryptUnder, Blank8
  <2>2. KeyFlow'
    BY DEF KeyFlow, HomeExp
  <2>3. DerivedKeys'
    BY DEF KeyFlow, DerivedKeys, AuthKeyOf, EncKeyOf
  <2>4. EncryptFlow'
    BY DEF KeyFlow, DerivedKeys, EncryptFlow, TagFor
  <2>5. DecryptFlow'
    BY StagedPrefix DEF KeyFlow, DerivedKeys, DecryptFlow, TagFor, Candidate
  <2> QED
    BY <2>1, <2>2, <2>3, <2>4, <2>5
<1>7. CASE ComputeTagBase
  <2> USE <1>7 DEF ComputeTagBase, Goto, AfterTagBase
  <2>1. TypeOK' /\ CallFrame'
    BY DEF IsBuffer, CryptUnder, Blank8
  <2>2. KeyFlow'
    BY DEF KeyFlow, HomeExp
  <2>3. DerivedKeys'
    BY DEF KeyFlow, DerivedKeys, AuthKeyOf, EncKeyOf
  <2>4. EncryptFlow'
    BY DEF KeyFlow, DerivedKeys, EncryptFlow, TagFor
  <2>5. DecryptFlow'
    BY StagedPrefix DEF KeyFlow, DerivedKeys, DecryptFlow, TagFor, Candidate
  <2> QED
    BY <2>1, <2>2, <2>3, <2>4, <2>5
<1>8. CASE InstallEncKey("fin_install", "fin_aes")
  <2> USE <1>8 DEF InstallEncKey, Goto
  <2>1. TypeOK' /\ CallFrame'
    BY DEF IsBuffer, CryptUnder, Blank8
  <2>2. KeyFlow'
    BY DEF KeyFlow, HomeExp
  <2>3. DerivedKeys'
    BY DEF KeyFlow, DerivedKeys, AuthKeyOf, EncKeyOf
  <2>4. EncryptFlow'
    BY DEF KeyFlow, DerivedKeys, EncryptFlow, TagFor
  <2>5. DecryptFlow'
    BY StagedPrefix DEF KeyFlow, DerivedKeys, DecryptFlow, TagFor, Candidate
  <2> QED
    BY <2>1, <2>2, <2>3, <2>4, <2>5
<1>9. CASE FinalizeTag
  <2> USE <1>9 DEF FinalizeTag, Goto, AfterFinalize
  <2>1. TypeOK' /\ CallFrame'
    BY DEF IsBuffer, CryptUnder, Blank8
  <2>2. KeyFlow'
    BY DEF KeyFlow, HomeExp
  <2>3. DerivedKeys'
    BY DEF KeyFlow, DerivedKeys, AuthKeyOf, EncKeyOf
  <2>4. EncryptFlow'
    BY DEF KeyFlow, DerivedKeys, EncryptFlow, TagFor
  <2>5. DecryptFlow'
    BY StagedPrefix DEF KeyFlow, DerivedKeys, DecryptFlow, TagFor, Candidate
  <2> QED
    BY <2>1, <2>2, <2>3, <2>4, <2>5
<1>10. CASE InstallEncKey("ctr_install", "ctr")
  <2> USE <1>10 DEF InstallEncKey, Goto
  <2>1. TypeOK' /\ CallFrame'
    BY DEF IsBuffer, CryptUnder, Blank8
  <2>2. KeyFlow'
    BY DEF KeyFlow, HomeExp
  <2>3. DerivedKeys'
    BY DEF KeyFlow, DerivedKeys, AuthKeyOf, EncKeyOf
  <2>4. EncryptFlow'
    BY DEF KeyFlow, DerivedKeys, EncryptFlow, TagFor
  <2>5. DecryptFlow'
    BY StagedPrefix DEF KeyFlow, DerivedKeys, DecryptFlow, TagFor, Candidate
  <2> QED
    BY <2>1, <2>2, <2>3, <2>4, <2>5
<1>11. CASE CtrEncrypt
  <2> USE <1>11 DEF CtrEncrypt, Goto, AfterCtr, Crypt
  <2>1. TypeOK' /\ CallFrame'
    BY DEF IsBuffer, CryptUnder, Blank8
  <2>2. KeyFlow'
    BY DEF KeyFlow, HomeExp
  <2>3. DerivedKeys'
    BY DEF KeyFlow, DerivedKeys, AuthKeyOf, EncKeyOf
  <2>4. EncryptFlow'
    BY DEF KeyFlow, DerivedKeys, EncryptFlow, TagFor
  <2>5. DecryptFlow'
    BY StagedPrefix DEF KeyFlow, DerivedKeys, DecryptFlow, TagFor, Candidate
  <2> QED
    BY <2>1, <2>2, <2>3, <2>4, <2>5
<1>12. CASE CtrDecrypt
  <2> USE <1>12 DEF CtrDecrypt, Goto, AfterCtr, Crypt
  <2>1. TypeOK' /\ CallFrame'
    BY DEF IsBuffer, CryptUnder, Blank8
  <2>2. KeyFlow'
    BY DEF KeyFlow, HomeExp
  <2>3. DerivedKeys'
    BY DEF KeyFlow, DerivedKeys, AuthKeyOf, EncKeyOf
  <2>4. EncryptFlow'
    BY DEF KeyFlow, DerivedKeys, EncryptFlow, TagFor
  <2>5. DecryptFlow'
    BY StagedPrefix DEF KeyFlow, DerivedKeys, DecryptFlow, TagFor, Candidate
  <2> QED
    BY <2>1, <2>2, <2>3, <2>4, <2>5
<1>13. CASE StageDecrypted
  <2> USE <1>13 DEF StageDecrypted, Goto
  <2>1. TypeOK' /\ CallFrame'
    BY DEF IsBuffer, CryptUnder, Blank8
  <2>2. KeyFlow'
    BY DEF KeyFlow, HomeExp
  <2>3. DerivedKeys'
    BY DEF KeyFlow, DerivedKeys, AuthKeyOf, EncKeyOf
  <2>4. EncryptFlow'
    BY DEF KeyFlow, DerivedKeys, EncryptFlow, TagFor
  <2>5. DecryptFlow'
    BY StagedPrefix DEF KeyFlow, DerivedKeys, DecryptFlow, TagFor, Candidate
  <2> QED
    BY <2>1, <2>2, <2>3, <2>4, <2>5
<1>14. CASE TagMatch
  <2> USE <1>14 DEF TagMatch, Goto
  <2>1. TypeOK' /\ CallFrame'
    BY DEF IsBuffer, CryptUnder, Blank8
  <2>2. KeyFlow'
    BY DEF KeyFlow, HomeExp
  <2>3. DerivedKeys'
    BY DEF KeyFlow, DerivedKeys, AuthKeyOf, EncKeyOf
  <2>4. EncryptFlow'
    BY DEF KeyFlow, DerivedKeys, EncryptFlow, TagFor
  <2>5. DecryptFlow'
    BY StagedPrefix DEF KeyFlow, DerivedKeys, DecryptFlow, TagFor, Candidate
  <2> QED
    BY <2>1, <2>2, <2>3, <2>4, <2>5
<1>15. CASE TagFail
  <2> USE <1>15 DEF TagFail, Goto
  <2>1. TypeOK' /\ CallFrame'
    BY DEF IsBuffer, CryptUnder, Blank8
  <2>2. KeyFlow'
    BY DEF KeyFlow, HomeExp
  <2>3. DerivedKeys'
    BY DEF KeyFlow, DerivedKeys, AuthKeyOf, EncKeyOf
  <2>4. EncryptFlow'
    BY DEF KeyFlow, DerivedKeys, EncryptFlow, TagFor
  <2>5. DecryptFlow'
    BY StagedPrefix DEF KeyFlow, DerivedKeys, DecryptFlow, TagFor, Candidate
  <2> QED
    BY <2>1, <2>2, <2>3, <2>4, <2>5
<1> QED
  BY <1>1, <1>2, <1>3, <1>4, <1>5, <1>6, <1>7, <1>8, <1>9, <1>10, <1>11, <1>12, <1>13, <1>14, <1>15 DEF Library

LEMMA RejectIInv == IInv /\ (EncryptReject \/ DecryptReject) => IInv'
<1> SUFFICES ASSUME IInv, EncryptReject \/ DecryptReject PROVE IInv'
  OBVIOUS
<1> USE DEF IInv, TypeOK, Aeads, Pieces, scratch
<1>1. pc = "idle" /\ caller = "none" /\ UNCHANGED <<scratch, pc, caller, call>>
  BY DEF EncryptReject, DecryptReject
<1>2. TypeOK'
  BY <1>1, MaxCallsAssumption DEF EncryptReject, DecryptReject, IsBuffer, Blank8
<1>3. CallFrame' /\ KeyFlow' /\ DerivedKeys'
  BY <1>1 DEF CallFrame, KeyFlow, DerivedKeys
<1>4. EncryptFlow' /\ DecryptFlow'
  BY <1>1 DEF EncryptFlow, DecryptFlow
<1> QED
  BY <1>2, <1>3, <1>4

LEMMA PieceIInv == \A r \in Pieces : IInv /\ PieceCall(r) => IInv'
<1> SUFFICES ASSUME NEW r \in Pieces, IInv, PieceCall(r) PROVE IInv'
  OBVIOUS
<1> USE DEF IInv, TypeOK, PieceCall, Enter, Snapshot, Aeads, Pieces, Labels, interface
<1>1. TypeOK' /\ CallFrame'
  BY MaxCallsAssumption DEF CallFrame, Stages, Deriving, IsBuffer
<1>2. KeyFlow' /\ DerivedKeys'
  BY DEF KeyFlow, HomeExp, DerivedKeys
<1>3. EncryptFlow' /\ DecryptFlow'
  BY DEF EncryptFlow, DecryptFlow
<1> QED
  BY <1>1, <1>2, <1>3

LEMMA StutterIInv == IInv /\ UNCHANGED vars => IInv'
BY DEF IInv, TypeOK, IsBuffer, CallFrame, KeyFlow, HomeExp, DerivedKeys, EncryptFlow,
       DecryptFlow, Candidate, vars, interface, scratch, control

(* For every set of keys, nonces, lengths and texts and every choice of    *)
(* AES, POLYVAL and keystream functions, each buffer holds at each label   *)
(* what IInv says, whichever exported routines of gcm_siv.s the host calls *)
(* and in whatever order.                                                  *)
THEOREM Invariance == SpecPieces => []IInv
<1>1. IInv /\ [NextPieces]_vars => IInv'
  BY HostIInv, StepIInv, RejectIInv, PieceIInv, StutterIInv
     DEF NextPieces, Next, AeadCall
<1> QED
  BY InitIInv, <1>1, PTL DEF SpecPieces

\* A host of the AEAD entry points alone never runs a step by itself.
AeadOnly == IInv /\ caller \notin Pieces

LEMMA AeadInvariance == Spec => []AeadOnly
<1>1. Init => AeadOnly
  BY InitIInv DEF AeadOnly, Init, Pieces
<1>2. AeadOnly /\ [Next]_vars => AeadOnly'
  <2> SUFFICES ASSUME AeadOnly, [Next]_vars PROVE AeadOnly'
    OBVIOUS
  <2>1. IInv'
    BY HostIInv, StepIInv, RejectIInv, StutterIInv DEF AeadOnly, Next, AeadCall
  <2>2. CASE UNCHANGED control
    BY <2>1, <2>2 DEF AeadOnly, control
  <2>3. CASE Host \/ UNCHANGED vars
    BY <2>1, <2>3 DEF AeadOnly, Host, SetKey, ExpandKey, SetNonce, StageText, FlipCt,
                      SetTag, control, vars
  <2>4. CASE AeadCall
    BY <2>1, <2>4 DEF AeadOnly, AeadCall, EncryptCall, EncryptReject, DecryptCall,
                      DecryptReject, Enter, Pieces
  <2>5. CASE Library
    BY <2>1, <2>5 DEF AeadOnly, Library, DeriveBlock, SwapInEncKey, ExpandEncKey,
         RestoreMasterKey, ComputeTagBase, InstallEncKey, FinalizeTag, CtrEncrypt,
         CtrDecrypt, StageDecrypted, TagMatch, TagFail, Goto, Pieces, control
  <2> QED
    BY <2>3, <2>4, <2>5 DEF Next
<1> QED
  BY <1>1, <1>2, PTL DEF Spec

(* The AES calls of gcmsiv_encrypt and gcmsiv_decrypt always run under the *)
(* schedule they need (gcm_siv.s:198, 538, 636, 933).                      *)
THEOREM ScheduleSafety == SpecPieces => []RightSchedule
<1>1. IInv => RightSchedule
  BY DEF IInv, TypeOK, Aeads, KeyFlow, HomeExp, DerivedKeys, Deriving, RightSchedule
<1> QED
  BY Invariance, <1>1, PTL

(* Whatever the host calls, the master key and its schedule are back in    *)
(* place when the routine returns (gcm_siv.s:100, 181, 504, 625, 922).     *)
THEOREM RestoreSafety == SpecPieces => MasterRestored
<1>1. IInv /\ NextPieces => RestoreStep
  <2> SUFFICES ASSUME IInv, NextPieces, pc # "idle", pc' = "idle" PROVE RestoreStep
    BY DEF RestoreStep
  <2> USE DEF RestoreStep, IInv, TypeOK, CallFrame, Stages, Deriving, Labels, Aeads,
              Pieces, KeyFlow, HomeExp
  <2>1. Library
    BY DEF NextPieces, Next, Host, SetKey, ExpandKey, SetNonce, StageText, FlipCt,
           SetTag, AeadCall, EncryptCall, EncryptReject, DecryptCall, DecryptReject,
           PieceCall, Enter
  <2>2. CASE DeriveBlock \/ SwapInEncKey \/ ExpandEncKey \/ RestoreMasterKey
    BY <2>2 DEF DeriveBlock, SwapInEncKey, ExpandEncKey, RestoreMasterKey, Goto,
                AfterDerive, control
  <2>3. CASE \/ ComputeTagBase \/ FinalizeTag
             \/ InstallEncKey("fin_install", "fin_aes")
             \/ InstallEncKey("ctr_install", "ctr")
    BY <2>3 DEF ComputeTagBase, InstallEncKey, FinalizeTag, Goto, AfterTagBase,
                AfterFinalize, interface
  <2>4. CASE CtrEncrypt \/ CtrDecrypt
    BY <2>4 DEF CtrEncrypt, CtrDecrypt, Goto, AfterCtr
  <2>5. CASE StageDecrypted \/ TagMatch \/ TagFail
    BY <2>5 DEF StageDecrypted, TagMatch, TagFail, Goto
  <2> QED
    BY <2>1, <2>2, <2>3, <2>4, <2>5 DEF Library
<1>2. IInv /\ [NextPieces]_vars => [RestoreStep]_vars
  BY <1>1
<1> QED
  BY Invariance, <1>2, PTL DEF SpecPieces, MasterRestored

(* No step of any AEAD call shows an unverified plaintext as valid         *)
(* (gcm_siv.s:797, 849).                                                   *)
THEOREM ReleaseSafety == Spec => OnlyVerifiedReleased
<1>1. AeadOnly /\ Next => ReleaseStep
  <2> SUFFICES ASSUME AeadOnly, Next, tagValid' = 1 PROVE ReleaseStep
    BY DEF ReleaseStep
  <2>1. CASE Host
    BY <2>1 DEF AeadOnly, IInv, TypeOK, ReleaseStep, Host, SetKey, ExpandKey,
                SetNonce, StageText, FlipCt, SetTag
  <2>2. CASE AeadCall
    BY <2>2 DEF AeadOnly, IInv, TypeOK, ReleaseStep, AeadCall, EncryptCall,
                EncryptReject, DecryptCall, DecryptReject, interface
  <2>3. CASE CtrDecrypt
    BY <2>3 DEF ReleaseStep, CtrDecrypt, AeadOnly, IInv, TypeOK, Pieces, DecryptFlow
  <2>4. CASE TagMatch
    <3>1. caller = "gcmsiv_decrypt" /\ ptLen = call.len
      BY <2>4 DEF TagMatch, AeadOnly, IInv, TypeOK, CallFrame, Stages, Deriving,
                  Aeads, Pieces, Labels
    <3>2. call.tag = TagFor(call.exp, call.nonce, Prefix(decBuf, ptLen))
      BY <2>4, <3>1 DEF TagMatch, AeadOnly, IInv, DecryptFlow, Deriving
    <3> QED
      BY <2>4, <3>1, <3>2 DEF ReleaseStep, TagMatch, AeadOnly, IInv, DecryptFlow
  <2>5. CASE TagFail
    BY <2>5 DEF TagFail, ReleaseStep
  <2>6. CASE Library /\ ~CtrDecrypt /\ ~TagMatch /\ ~TagFail
    BY <2>6 DEF ReleaseStep, AeadOnly, IInv, TypeOK, Library, DeriveBlock,
                SwapInEncKey, ExpandEncKey, RestoreMasterKey, ComputeTagBase, InstallEncKey, FinalizeTag, CtrEncrypt, StageDecrypted,
                interface
  <2> QED
    BY <2>1, <2>2, <2>3, <2>4, <2>5, <2>6 DEF Next
<1>2. AeadOnly /\ [Next]_vars => [ReleaseStep]_vars
  BY <1>1
<1> QED
  BY AeadInvariance, <1>2, PTL DEF Spec, OnlyVerifiedReleased

-----------------------------------------------------------------------------
(* EOR with the same byte twice changes nothing. *)
LEMMA EorInvolutive == \A x, y : Eor(Eor(x, y), y) = x
BY DEF Eor

(* What counter mode enciphered it deciphers, for any keystream. *)
LEMMA CryptInverts ==
  ASSUME NEW l \in Nat, l <= MaxLen, NEW e, NEW t, NEW m, NEW c, NEW d,
         m = [i \in 0 .. l - 1 |-> m[i]],
         \A i \in 0 .. l - 1 : c[i] = Eor(m[i], Stream(e, t, i))
  PROVE  Prefix(CryptUnder(e, t, c, d, l), l) = m
<1>1. \A i \in 0 .. l - 1 : CryptUnder(e, t, c, d, l)[i] = m[i]
  BY EorInvolutive, MaxLenAssumption DEF CryptUnder, Index
<1> QED
  BY <1>1 DEF Prefix

(* Whatever AES, POLYVAL and keystream are, gcmsiv_decrypt accepts every   *)
(* message an encryption under the same schedule and nonce produced, and   *)
(* returns it (gcm_siv.s:720-731).                                         *)
THEOREM RoundTripSafety == Spec => RoundTrip
<1>1. AeadOnly /\ [Next]_vars => RoundTripStep
  <2> SUFFICES ASSUME AeadOnly, [Next]_vars, caller = "gcmsiv_decrypt", pc' = "idle",
                      NEW m \in Message(call.len),
                      call.tag = TagFor(call.exp, call.nonce, m),
                      \A i \in 0 .. call.len - 1 :
                        call.ct[i] = Eor(m[i], Stream(EncKeyOf(call.exp, call.nonce), call.tag, i))
               PROVE  ret' = 0 /\ tagValid' = 1 /\ Prefix(decBuf', call.len) = m
    BY DEF RoundTripStep
  <2>1. pc # "idle" /\ call.len \in Nat /\ call.len <= MaxLen
    BY DEF AeadOnly, IInv, TypeOK, CallFrame
  <2>2. Prefix(Candidate, call.len) = m
    BY <2>1, CryptInverts DEF Candidate, Message
  <2>3. ~TagFail
    BY <2>2 DEF TagFail, AeadOnly, IInv, DecryptFlow, Deriving
  <2>4. TagMatch
    BY <2>1, <2>3 DEF AeadOnly, IInv, TypeOK, CallFrame, Next, Host, SetKey, ExpandKey,
      SetNonce, StageText, FlipCt, SetTag, AeadCall, EncryptCall, EncryptReject, DecryptCall,
      DecryptReject, Enter, Library, DeriveBlock, SwapInEncKey, ExpandEncKey,
      RestoreMasterKey, ComputeTagBase, InstallEncKey, FinalizeTag, CtrEncrypt,
      CtrDecrypt, StageDecrypted, Goto, AfterDerive, AfterTagBase, AfterFinalize,
      AfterCtr, Aeads, vars, control
  <2> QED
    BY <2>2, <2>4 DEF TagMatch, AeadOnly, IInv, DecryptFlow, Deriving
<1> QED
  BY AeadInvariance, <1>1, PTL DEF Spec, RoundTrip

-----------------------------------------------------------------------------
(* Refinement of Aead. *)

LEMMA SameOperators ==
  /\ \A s, n, m : Abs!TagFor(s, n, m) = TagFor(s, n, m)
  /\ \A s, n : Abs!EncKey(s, n) = EncKeyOf(s, n)
  /\ \A b, l : Abs!Prefix(b, l) = Prefix(b, l)
  /\ \A e, t, in, out, l : Abs!Crypt(e, t, in, out, l) = CryptUnder(e, t, in, out, l)
  /\ Abs!Index = Index /\ Abs!Blank8 = Blank8
BY DEF Abs!TagFor, Abs!EncKey, Abs!AuthKey, Abs!Prefix, Abs!Crypt, Abs!Index, Abs!Blank8,
       Abs!Eor, TagFor, EncKeyOf, AuthKeyOf, Prefix, CryptUnder, Index, Blank8, Eor

LEMMA InitRefines == Init => Abs!Init
BY SameOperators DEF Init, Abs!Init

LEMMA HostRefines == Host => Abs!Host
<1> SUFFICES ASSUME Host PROVE Abs!Host
  OBVIOUS
<1>1. pc = "idle" /\ pc' = "idle"
  BY DEF Host, SetKey, ExpandKey, SetNonce, StageText, FlipCt, SetTag, control
<1> QED
  BY <1>1, SameOperators
     DEF Host, SetKey, ExpandKey, SetNonce, StageText, FlipCt, SetTag, Eor, Abs!Eor,
         Abs!Host, Abs!SetKey, Abs!ExpandKey, Abs!SetNonce, Abs!StageText, Abs!FlipCt,
         Abs!SetTag

LEMMA CallRefines == AeadOnly /\ AeadCall => Abs!Seal \/ Abs!Open \/ UNCHANGED Abs!vars
<1> SUFFICES ASSUME AeadOnly, AeadCall PROVE Abs!Seal \/ Abs!Open \/ UNCHANGED Abs!vars
  OBVIOUS
<1>0. ptLen \in Nat
  BY DEF AeadOnly, IInv, TypeOK
<1>1. ASSUME EncryptCall \/ DecryptCall PROVE UNCHANGED Abs!vars
  BY <1>1 DEF EncryptCall, DecryptCall, Enter, Snapshot, interface, Abs!vars
<1>2. ASSUME EncryptReject PROVE Abs!Seal
  BY <1>0, <1>2, MaxLenAssumption DEF EncryptReject, Abs!Seal
<1>3. ASSUME DecryptReject PROVE Abs!Open
  BY <1>0, <1>3, MaxLenAssumption, SameOperators DEF DecryptReject, Abs!Open
<1> QED
  BY <1>1, <1>2, <1>3 DEF AeadCall

\* A routine that does not return from the call is invisible outside.
LEMMA InnerStepHidden ==
  ASSUME pc # "idle", pc' # "idle", UNCHANGED call
  PROVE  UNCHANGED Abs!vars
BY DEF Abs!vars

\* The return of gcmsiv_encrypt is Seal.
LEMMA EncryptReturns ==
  AeadOnly /\ CtrEncrypt => Abs!Seal
<1> SUFFICES ASSUME AeadOnly, CtrEncrypt PROVE Abs!Seal
  OBVIOUS
<1> USE DEF AeadOnly, CtrEncrypt
<1>1. pc = "ctr" /\ caller = "gcmsiv_encrypt" /\ pc' = "idle"
  BY DEF Pieces, Goto, AfterCtr, IInv, TypeOK
<1>2. call.len <= MaxLen
  BY <1>1 DEF IInv, TypeOK, CallFrame
<1>3. /\ curKey = call.key /\ nonce = call.nonce /\ ptLen = call.len
      /\ savedExp = call.key /\ exp = EncKeyOf(call.exp, call.nonce)
      /\ ptBuf = call.pt /\ ctBuf = call.ct /\ decBuf = call.dec /\ tagValid = call.valid
      /\ tag = TagFor(call.exp, call.nonce, Prefix(call.pt, call.len))
  BY <1>1 DEF IInv, CallFrame, KeyFlow, HomeExp, DerivedKeys, EncryptFlow, Deriving, Aeads
<1> QED
  BY <1>1, <1>2, <1>3, SameOperators DEF Abs!Seal, Crypt, Aeads

\* The return of gcmsiv_decrypt, with either verdict, is Open.
LEMMA DecryptReturns ==
  AeadOnly /\ (TagMatch \/ TagFail) => Abs!Open
<1> SUFFICES ASSUME AeadOnly, TagMatch \/ TagFail PROVE Abs!Open
  OBVIOUS
<1> USE DEF AeadOnly
<1>1. pc = "compare" /\ caller = "gcmsiv_decrypt" /\ pc' = "idle"
  BY DEF TagMatch, TagFail, Pieces, Goto, IInv, TypeOK, CallFrame, Stages, Aeads, Labels
<1>2. call.len <= MaxLen
  BY <1>1 DEF IInv, TypeOK, CallFrame
<1>3. /\ curKey = call.key /\ exp = call.key
      /\ nonce = call.nonce /\ ptLen = call.len /\ ctBuf = call.ct
      /\ decBuf = Candidate /\ verifyTag = call.tag
      /\ ptBuf = [i \in Index |-> IF i < call.len THEN Candidate[i] ELSE call.pt[i]]
      /\ tag = TagFor(call.exp, call.nonce, Prefix(Candidate, call.len))
  BY <1>1 DEF IInv, CallFrame, KeyFlow, HomeExp, DecryptFlow, Deriving, Aeads
<1>4. CASE TagMatch
  BY <1>1, <1>2, <1>3, <1>4, SameOperators DEF TagMatch, Abs!Open, Candidate
<1>5. CASE TagFail
  BY <1>1, <1>2, <1>3, <1>5, SameOperators DEF TagFail, Abs!Open, Candidate
<1> QED
  BY <1>4, <1>5

LEMMA StepRefines == AeadOnly /\ [Next]_vars => [Abs!Next]_(Abs!vars)
<1> SUFFICES ASSUME AeadOnly, [Next]_vars PROVE Abs!Next \/ UNCHANGED Abs!vars
  OBVIOUS
<1>1. CASE Host
  BY <1>1, HostRefines DEF Abs!Next
<1>2. CASE AeadCall
  BY <1>2, CallRefines DEF Abs!Next
<1>3. CASE CtrEncrypt \/ TagMatch \/ TagFail
  BY <1>3, EncryptReturns, DecryptReturns DEF Abs!Next
<1>4. CASE Library /\ ~(CtrEncrypt \/ TagMatch \/ TagFail)
  <2>1. pc # "idle" /\ pc' # "idle" /\ UNCHANGED call
    BY <1>4 DEF Library, DeriveBlock, SwapInEncKey, ExpandEncKey, RestoreMasterKey,
                ComputeTagBase, InstallEncKey, FinalizeTag, CtrDecrypt, StageDecrypted,
                Goto, AfterDerive, AfterTagBase, AfterFinalize, AfterCtr, control,
                AeadOnly, IInv, TypeOK, Aeads
  <2> QED
    BY <2>1, InnerStepHidden
<1>5. CASE UNCHANGED vars
  BY <1>5 DEF vars, interface, control, Abs!vars
<1> QED
  BY <1>1, <1>2, <1>3, <1>4, <1>5 DEF Next

(* The routines of gcm_siv.s, as a host of gcmsiv_encrypt and              *)
(* gcmsiv_decrypt sees them, are the atomic Seal and Open of Aead.         *)
THEOREM Refinement == Spec => ImplementsAead
<1>1. Spec => Abs!Init /\ [][Abs!Next]_(Abs!vars)
  BY InitRefines, StepRefines, AeadInvariance, PTL DEF Spec
<1> QED
  BY <1>1 DEF ImplementsAead, Abs!Spec
=============================================================================
