------------------------------- MODULE LoopsMC -------------------------------
(* The two loops over the text in gcm_siv.s beside the references of the   *)
(* test suite: a counter-mode loop or the tag base runs, and they share no *)
(* state.  The tags are those whose counter starts where the carry stops   *)
(* in each of its bytes and where it wraps out of the last one, with the   *)
(* top bit clear and set.                                                  *)
EXTENDS CtrStream, TagBase

VARIABLE loop     \* "stream" or "base"

Starts ==
  {[i \in 0 .. 3 |-> IF i = 0 THEN b ELSE h[i]] :
     b \in {0, 253, 255}, h \in [1 .. 3 -> {0, 255}]}

MCTags ==
  {[i \in 0 .. 15 |-> CASE i \in 0 .. 3 -> c[i] [] i = 15 -> top [] OTHER -> i] :
     c \in Starts, top \in {18, 146}}

\* The loop that does not run starts from one state.
StreamIdle ==
  /\ tag = CHOOSE t \in Tags : TRUE
  /\ ptLen = 0 /\ mode = "encrypt"
BaseIdle ==
  /\ authKey = CHOOSE k \in Key : TRUE
  /\ textLen = 0 /\ polyvalH = authKey /\ htable = authKey
  /\ acc = <<>> /\ blockIdx = 0

LoopsInit ==
  /\ loop \in {"stream", "base"}
  /\ Init /\ (loop # "stream" => StreamIdle)
  /\ TagInit /\ (loop # "base" => BaseIdle)

LoopsNext ==
  \/ loop = "stream" /\ Next /\ UNCHANGED <<loop, tagVars>>
  \/ loop = "base" /\ TagNext /\ UNCHANGED <<loop, vars>>

LoopsSpec == LoopsInit /\ [][LoopsNext]_<<loop, vars, tagVars>>

-----------------------------------------------------------------------------
StreamOracle == INSTANCE GcmSivOracle WITH Zero <- Nothing
HashOracle == INSTANCE GcmSivOracle

(* The routine leaves what both references of the test suite leave, byte   *)
(* for byte (gcm_siv.s:636-718, polyval_reference.py:315-339,              *)
(* hazmat_oracle.py:235-245).                                              *)
OraclesStreamSame ==
  pc = "done" =>
    LET text == [n \in 1 .. ptLen |-> n - 1]
        left == [n \in 1 .. ptLen |-> Output[n - 1]]
    IN  left = StreamOracle!gcmsiv_ctr_encrypt(tag, text) /\ left = StreamOracle!ctr(tag, text)

AadLens == {0, 1, 15, 16, 17, 33}

(* The blocks absorbed are those both references hand to POLYVAL, for every*)
(* length; and with additional data of lengths around a block, which only  *)
(* they take, the two make the same blocks (gcm_siv.s:394-464,             *)
(* polyval_reference.py:280-300, hazmat_oracle.py:222-228).                *)
OraclesHashSame ==
  place = "done" =>
    LET text == [i \in 1 .. textLen |-> i - 1]
        Aad(n) == [i \in 1 .. n |-> 200 + i]
    IN  /\ [j \in DOMAIN tagAcc |-> [i \in 1 .. 16 |-> tagAcc[j].block[i - 1]]]
             = HashOracle!TagBlocks(<<>>, text)
        /\ \A n \in AadLens :
             HashOracle!TagBlocks(Aad(n), text) = HashOracle!HazmatBlocks(Aad(n), text)
=============================================================================
