------------------------------ MODULE SanityGate ------------------------------
(***************************************************************************)
(* src/tools/reference_sanity.py: before a test run, polyval_reference.py  *)
(* is compared with the library cryptography on some cases.                *)
(*                                                                         *)
(* An implementation is the set of its defects, each of which shows on     *)
(* texts and additional data of one kind; two implementations with the     *)
(* same defect agree.  A vector is the lengths of its inputs, which inputs *)
(* they are, and whether its pinned bytes are those of RFC 8452; the file  *)
(* is a function from places to vectors.  Bytes and messages are left out. *)
(***************************************************************************)
EXTENDS Integers, Sequences, SequencesExt

CONSTANTS
  VectorFile,     \* the vectors to begin with, in their places
  RandomLengths,  \* lengths that the seed gives: a sequence of [pt, aad]
  MaxFaults       \* bound on defects and edits

VARIABLES
  reference, external,  \* defects of polyval_reference.py and of cryptography
  vectors,             \* rfc8452_vectors.json: what is left of VectorFile
  faults,
  cases,               \* cases of the run, once they are built
  next,                \* index of the next case; 0 before they are built
  sane                 \* the verdict: "none", "passed", "died"

sanityVars == <<reference, external, vectors, faults, cases, next, sane>>

KindOfLength(n) == IF n = 0 THEN "empty" ELSE IF n % 16 = 0 THEN "whole" ELSE "partial"
LengthKinds == {"empty", "partial", "whole"}
Parts == {"encrypt", "decrypt", "rejects", "forged"}
Defects == [part : Parts, pt : LengthKinds, aad : LengthKinds]
Shows(impl, part, c) ==
  [part |-> part, pt |-> KindOfLength(c.pt), aad |-> KindOfLength(c.aad)] \in impl

\* A vector without text has no additional data either.
Vector == {v \in [pt : Nat, aad : Nat, input : STRING, pinned : BOOLEAN] : v.pt = 0 => v.aad = 0}

\* The seed gives partial blocks of text, with every kind of additional data.
ASSUME SanityAssumption ==
  /\ VectorFile \in Seq(Vector)
  /\ RandomLengths \in Seq([pt : Nat \ {0}, aad : Nat])
  /\ \A kind \in {"partial", "whole"} : \E i \in DOMAIN RandomLengths :
       KindOfLength(RandomLengths[i].pt) = "partial" /\ KindOfLength(RandomLengths[i].aad) = kind

\* What an implementation encrypts a case to.
Encrypted(impl, c) ==
  [input |-> c.input, right |-> ~Shows(impl, "encrypt", c)]

\* No pinned bytes at all are those of no input.
NoPin == [input |-> "none", right |-> FALSE]

-----------------------------------------------------------------------------
(* The cases *)

Case(pt, aad, input, pin) == [pt |-> pt, aad |-> aad, input |-> input, pin |-> pin]
OfVector(v) == Case(v.pt, v.aad, v.input, [input |-> v.input, right |-> v.pinned])

\* The first vector with P, if there is one.
FirstWith(P(_)) ==
  LET found == {i \in DOMAIN vectors : P(vectors[i])}
  IN  IF found = {} THEN <<>> ELSE <<vectors[Min(found)]>>

\* _load_rfc_cases
RfcPicks == FirstWith(LAMBDA v : v.pt = 0 /\ v.aad = 0) \o FirstWith(LAMBDA v : v.pt >= 8)
RfcCases == [i \in DOMAIN RfcPicks |-> OfVector(RfcPicks[i])]

RandomCases ==
  [i \in DOMAIN RandomLengths |-> Case(RandomLengths[i].pt, RandomLengths[i].aad, "random", NoPin)]

\* _edge_cases, the first of them with the key, nonce and bytes of a pick.
\* An empty text makes another input of a pick that has one.
EdgeCases(pick) ==
  <<Case(0, 0, IF pick.pt = 0 THEN pick.input ELSE "emptied", pick.pin),
    Case(1, 0, "edge", NoPin), Case(16, 0, "edge", NoPin), Case(17, 0, "edge", NoPin)>>

-----------------------------------------------------------------------------
SanityInit ==
  /\ reference = {} /\ external = {} /\ vectors = VectorFile /\ faults = 0
  /\ cases = <<>> /\ next = 0 /\ sane = "none"

Fault == /\ next = 0 /\ sane = "none" /\ faults < MaxFaults /\ faults' = faults + 1
         /\ UNCHANGED <<cases, next, sane>>

BreakReference ==
  /\ Fault
  /\ \E d \in Defects : reference' = reference \cup {d}
  /\ UNCHANGED <<external, vectors>>

BreakLibrary ==
  /\ Fault
  /\ \E d \in Defects : external' = external \cup {d}
  /\ UNCHANGED <<reference, vectors>>

\* A vector is dropped, or all of one length; pinned bytes are mistyped.
EditVectors ==
  /\ Fault
  /\ \E i \in DOMAIN vectors :
       vectors' \in {Restrict(vectors, DOMAIN vectors \ {i}),
                     Restrict(vectors, {j \in DOMAIN vectors : vectors[j].pt # vectors[i].pt}),
                     [vectors EXCEPT ![i].pinned = FALSE]}
  /\ UNCHANGED <<reference, external>>

\* cross_validate_reference up to its loop; without a pick there is no first one.
BuildCases ==
  /\ next = 0 /\ sane = "none"
  /\ IF RfcCases = <<>> THEN sane' = "died" /\ UNCHANGED <<cases, next>>
     ELSE /\ cases' = RfcCases \o RandomCases \o EdgeCases(RfcCases[1])
          /\ next' = 1 /\ UNCHANGED sane
  /\ UNCHANGED <<reference, external, vectors, faults>>

\* Variant: the library encrypts, but does not decrypt what the reference made,
\* and the reference decrypts nothing.
AgreedEncrypting(c) ==
  IF c.pt > 0 THEN Encrypted(reference, c) = Encrypted(external, c)
              ELSE Encrypted(reference, c) = c.pin

\* _check_case: the library refuses an empty text, so a pin stands for it.
Agreed(c) ==
  /\ IF c.pt > 0
     THEN /\ Encrypted(reference, c) = Encrypted(external, c)
          /\ ~Shows(external, "decrypt", c) /\ ~Shows(external, "rejects", c)
     ELSE c.pin # NoPin /\ Encrypted(reference, c) = c.pin
  /\ ~Shows(reference, "decrypt", c) /\ ~Shows(reference, "rejects", c)

CheckCase ==
  /\ next \in DOMAIN cases /\ sane = "none"
  /\ next' = next + 1
  /\ sane' = IF ~Agreed(cases[next]) THEN "died"
             ELSE IF next = Len(cases) THEN "passed" ELSE "none"
  /\ UNCHANGED <<reference, external, vectors, faults, cases>>

SanityNext == BreakReference \/ BreakLibrary \/ EditVectors \/ BuildCases \/ CheckCase

SanitySpec == SanityInit /\ [][SanityNext]_sanityVars

-----------------------------------------------------------------------------
\* The combinations of kinds that no case has: a text of whole blocks, or an
\* empty one, with additional data.
Untried(d) == d.pt # "partial" /\ d.aad # "empty"

(* When the check has passed, the reference encrypts, decrypts and accepts *)
(* rightly every kind of input, unless the library or the pinned bytes     *)
(* have the very same fault; it does not look at whether a forged tag is   *)
(* refused, nor at whole blocks or an empty text with additional data.     *)
(* A right reference passes whichever vectors remain, if an empty one does *)
(* (reference_sanity.py:53-87, 90-118, 140-155, 168-178).                  *)
ReferenceVouched ==
  /\ sane = "passed" =>
       \A d \in reference :
         \/ d.part = "forged" \/ Untried(d)
         \/ d.part = "encrypt" /\ IF d.pt = "empty" THEN \E i \in DOMAIN vectors : ~vectors[i].pinned
                                                    ELSE d \in external
  /\ (sane = "died" /\ reference = {} /\ external = {}) =>
       \/ \E i \in DOMAIN vectors : ~vectors[i].pinned
       \/ \A i \in DOMAIN vectors : vectors[i].pt > 0
=============================================================================
