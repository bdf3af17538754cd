---------------------------- MODULE ComposingGate ----------------------------
(***************************************************************************)
(* src/tools/check_composing_mode.py: what a consumer gets that links      *)
(* several libraries, with LIB_NO_BARE_EXPORTS, is what the documents say. *)
(*                                                                         *)
(* One side is the code: the manifest's tables with the conditions they    *)
(* stand under, and defects of what is built from it.  The other side is   *)
(* the documents: rows of tables, the sentence naming the archives, brace  *)
(* lists of targets.  The gate builds every arm twice in one tree of its   *)
(* own, dumps the objects, and compares.  A table's size, region and       *)
(* sharing are one value; the dump's and the documents' text is left out.  *)
(***************************************************************************)
EXTENDS Integers, Sequences, FiniteSets

CONSTANTS
  Profiles,       \* profiles of the PROFILE_VAL ladder
  Tables, Facts,  \* names of tables, values of their facts
  Manifest,       \* manifest to begin with: a set of [table, when, facts]
  Documents,      \* documents to begin with: [rows, prose, braces, mention]
  Arms,           \* arms_from_makefile: the order in which arms are built
  MaxDrifts       \* bound on edits and sweeps

VARIABLES
  manifest, defects, aliased,   \* the code; aliased: polyval.a is LIB_AEAD_OBJS
  documents,                    \* rows: a set of [table, facts, spec]
  drifts,
  turn, buildMode, stepOf,      \* the loop: index of the arm, mode of the build, step
  built,                        \* objects in the tree: [object, arm, buildMode]
  snap,                         \* dumps of this arm
  perArm, failures,             \* per_arm, bad
  composed                      \* the verdict: "none", "passed", "died"

composingVars == <<manifest, defects, aliased, documents, drifts, turn, buildMode, stepOf,
                   built, snap, perArm, failures, composed>>
sources == <<manifest, defects, aliased, documents>>

Objects == {"precalc_manifest.o", "lib_version.o"}
Modes == {"default", "nobare"}
AllArms == [profile : Profiles, aead : BOOLEAN]
Targets == AllArms     \* a target, its archive and its arm share a name
Alias == [profile |-> "the default", aead |-> TRUE]     \* polyval.a
Unknown == [profile |-> "none", aead |-> FALSE]          \* in a list, but no target
GcmSivLong == [profile |-> "LONG", aead |-> TRUE]
Archives == AllArms \cup {Alias}
ByArchive(x) == IF x = Alias THEN GcmSivLong ELSE x

ASSUME ComposingAssumption ==
  /\ Profiles # {} /\ Arms \in Seq(AllArms) /\ {Arms[i] : i \in DOMAIN Arms} = AllArms
  /\ \A u, v \in Manifest : u.table = v.table => u = v
  /\ "rows" \in DOMAIN Documents
  /\ \A q, r \in Documents.rows : q.table = r.table => q = r

\* The conditions of the manifest.
Holds(when, x, m) ==
  CASE when = "always" -> TRUE
    [] when = "aes" -> x.aead
    [] when = "bare" -> m = "default"
    [] OTHER -> x.profile = when

Defect(what, x, o) == [what |-> what, arm |-> x, object |-> o] \in defects

\* The names an object exports that was built for arm x in mode m.
Exports(o, x, m) ==
  LET names == IF o = "lib_version.o" THEN {"VERSION"}
               ELSE {t.table : t \in {u \in manifest : Holds(u.when, x, m)}}
  IN  [bare |-> IF (m = "default" /\ ~Defect("no bare", x, o)) \/ Defect("bare kept", x, o)
                THEN names ELSE {},
       prefixed |-> IF (m = "nobare" /\ Defect("lost", x, o)) \/ Defect("never", x, o)
                    THEN {} ELSE names,
       absolute |-> ~Defect("relative", x, o),
       agree |-> ~Defect("disagree", x, o),
       valued |-> ~Defect("other value", x, o)]

FactsOf(t) == (CHOOSE u \in manifest : u.table = t).facts
RowOf(t) == CHOOSE r \in documents.rows : r.table = t
Described == {r.table : r \in documents.rows}

\* doc_arms: the arms a row names, by archives if it has any, or by profiles.
ArmsOf(spec) == IF spec.archives # {} THEN {ByArchive(x) : x \in spec.archives}
                ELSE {x \in AllArms : x.profile \in spec.profiles}

ComposingInit ==
  /\ manifest = Manifest /\ defects = {} /\ aliased = TRUE /\ documents = Documents
  /\ drifts = 0 /\ turn = 0 /\ buildMode = "default" /\ stepOf = "start"
  /\ built = {} /\ snap = [m \in Modes |-> <<>>] /\ perArm = <<>> /\ failures = 0
  /\ composed = "none"

-----------------------------------------------------------------------------
(* One side moves without the other *)

Drift == /\ drifts < MaxDrifts /\ drifts' = drifts + 1
         /\ UNCHANGED <<turn, buildMode, snap, perArm, failures, composed>>

DriftManifest ==
  /\ Drift /\ stepOf = "start"
  /\ \E t \in Tables, w \in {"always", "aes", "bare"} \cup Profiles, f \in Facts, keep \in BOOLEAN :
       LET rest == {u \in manifest : u.table # t}
       IN  manifest' = IF keep THEN rest \cup {[table |-> t, when |-> w, facts |-> f]} ELSE rest
  /\ UNCHANGED <<defects, aliased, documents, built, stepOf>>

DriftBuild ==
  /\ Drift /\ stepOf = "start"
  /\ \/ /\ \E x \in AllArms, o \in Objects :
             \E w \in {"no bare", "bare kept", "lost", "never", "relative", "disagree", "other value"} :
               defects' = defects \cup {[what |-> w, arm |-> x, object |-> o]}
        /\ UNCHANGED aliased
     \/ /\ \E x \in AllArms, w \in {"not staged", "not linking"} :
             defects' = defects \cup {[what |-> w, arm |-> x, object |-> "archive"]}
        /\ UNCHANGED aliased
     \/ aliased' = FALSE /\ UNCHANGED defects
  /\ UNCHANGED <<manifest, documents, built, stepOf>>

Specs == [archives : SUBSET Archives, profiles : SUBSET Profiles]

DriftDocuments ==
  /\ Drift /\ stepOf = "start"
  /\ \/ \E t \in Tables, f \in Facts, p \in Specs, keep \in BOOLEAN :
          LET rest == {r \in documents.rows : r.table # t}
          IN  documents' = [documents EXCEPT !.rows =
                 IF keep THEN rest \cup {[table |-> t, facts |-> f, spec |-> p]} ELSE rest]
     \/ \E s \in SUBSET Archives, n \in 0 .. 1 :
          documents' = [documents EXCEPT !.prose = [aead |-> s, noaes |-> @.noaes, count |-> @.count - n, stray |-> {}]]
     \/ \E s \in SUBSET Archives : documents' = [documents EXCEPT !.prose.noaes = s]
     \/ \E x \in Archives : documents' = [documents EXCEPT !.prose.stray = {x}]
     \/ \E i \in DOMAIN documents.braces, s \in SUBSET (AllArms \cup {Unknown}), near \in BOOLEAN :
          documents' = [documents EXCEPT !.braces[i].names = s, !.braces[i].near = near]
  /\ UNCHANGED <<manifest, defects, aliased, built, stepOf>>

\* A `make clean' by somebody else sweeps the gate's tree.
SweptMeanwhile ==
  /\ Drift /\ stepOf \notin {"start", "end"} /\ built # {}
  /\ built' = {}
  /\ UNCHANGED <<sources, stepOf>>

-----------------------------------------------------------------------------
(* The gate *)

Fail == /\ composed' = "died" /\ stepOf' = "end" /\ built' = {}
        /\ UNCHANGED <<turn, buildMode, snap, perArm, failures>>

\* (1) Both enumerations have the same tables with the same facts.
Reconciled ==
  /\ documents.rows # {}
  /\ \A r \in documents.rows : ArmsOf(r.spec) # {}
  /\ \E u \in manifest : u.when = "always"
  /\ {u.table : u \in manifest} = Described
  /\ \A t \in Described : FactsOf(t) = RowOf(t).facts

StartComposing ==
  /\ stepOf = "start"
  /\ IF Reconciled THEN /\ stepOf' = "clean" /\ turn' = 1
                        /\ UNCHANGED <<buildMode, built, snap, perArm, failures, composed>>
                   ELSE Fail
  /\ UNCHANGED <<sources, drifts>>

CleanMode ==
  /\ stepOf = "clean" /\ stepOf' = "build" /\ built' = {}
  /\ UNCHANGED <<sources, drifts, turn, buildMode, snap, perArm, failures, composed>>

\* make makes what is not there.
BuildArm ==
  /\ stepOf = "build" /\ stepOf' = "dump"
  /\ built' = built \cup {[object |-> o, arm |-> Arms[turn], buildMode |-> buildMode] :
                           o \in {p \in Objects \cup {"archive"} : \A q \in built : q.object # p}}
  /\ UNCHANGED <<sources, drifts, turn, buildMode, snap, perArm, failures, composed>>

\* exports of both objects; one that is absent is not one without exports.
Dump ==
  /\ stepOf = "dump"
  /\ LET found == {q.object : q \in built}
         Of(o) == CHOOSE q \in built : q.object = o
     IN  IF ~(Objects \subseteq found) THEN Fail
         ELSE /\ snap' = [snap EXCEPT ![buildMode] =
                            [o \in Objects |-> Exports(o, Of(o).arm, Of(o).buildMode)]]
              /\ IF buildMode = "default" THEN buildMode' = "nobare" /\ stepOf' = "clean"
                                     ELSE buildMode' = "default" /\ stepOf' = "compare"
              /\ UNCHANGED <<turn, built, perArm, failures, composed>>
  /\ UNCHANGED <<sources, drifts>>

\* Suppression removes every bare name and keeps every prefixed one.
Suppressed(d, n) ==
  /\ d.bare # {} /\ d.prefixed # {} /\ n.bare = {} /\ d.prefixed = n.prefixed
  /\ d.absolute /\ n.absolute /\ d.agree

Compare ==
  /\ stepOf = "compare" /\ stepOf' = "values"
  /\ failures' = failures + Cardinality({o \in Objects : ~Suppressed(snap["default"][o], snap["nobare"][o])})
  /\ UNCHANGED <<sources, drifts, turn, buildMode, built, snap, perArm, composed>>

\* (2) The tables of the arm, with the values the documents give.
Values ==
  /\ stepOf = "values"
  /\ LET dump == snap["nobare"]["precalc_manifest.o"]
         seen == dump.prefixed
     IN
     IF ~dump.valued \/ \E t \in seen : t \notin Described \/ FactsOf(t) # RowOf(t).facts THEN Fail
     ELSE /\ perArm' = Append(perArm, seen) /\ stepOf' = "link"
          /\ UNCHANGED <<turn, buildMode, built, snap, failures, composed>>
  /\ UNCHANGED <<sources, drifts>>

ConsumerLinks(x) == ~\E w \in {"not staged", "not linking"} : Defect(w, x, "archive")

\* (3) A consumer links the archive that is in the tree.
LinkConsumer ==
  /\ stepOf = "link"
  /\ IF Arms[turn].aead /\ ~\E q \in built : q.object = "archive" /\ ConsumerLinks(q.arm) THEN Fail
     ELSE /\ IF turn < Len(Arms) THEN turn' = turn + 1 /\ stepOf' = "clean"
                                 ELSE stepOf' = "conclude" /\ UNCHANGED turn
          /\ UNCHANGED <<buildMode, built, snap, perArm, failures, composed>>
  /\ UNCHANGED <<sources, drifts>>

Exporting(t) == {Arms[i] : i \in {j \in DOMAIN perArm : t \in perArm[j]}}

\* Variant: only the union of the arms is compared, legs (4) and (5).
ArmSetsByUnion ==
  /\ \A t \in Described : Exporting(t) # {}
  /\ \A u \in manifest : u.when = "always" => Exporting(u.table) = {Arms[i] : i \in DOMAIN Arms}

\* (4) and (5): every table in exactly the arms its row names.
ArmSets ==
  /\ \A t \in Described : Exporting(t) # {}
  /\ \A u \in manifest : u.when = "always" => Exporting(u.table) = {Arms[i] : i \in DOMAIN Arms}
  /\ aliased
  /\ \A t \in Described : Exporting(t) = ArmsOf(RowOf(t).spec)

\* doc_prose_archives: the sentence under the rows has two lists, and no
\* archive outside them.
ProseRead ==
  LET p == documents.prose
  IN  p.stray \subseteq p.aead \cup p.noaes /\ p.aead # {} /\ p.noaes # {}

\* (6) The lists are those of the archives.
ProseRight ==
  LET p == documents.prose
      Wanted(b) == {x \in Archives : ByArchive(x).aead = b}
  IN  /\ ProseRead
      /\ p.aead = Wanted(TRUE) /\ p.noaes = Wanted(FALSE) /\ p.count = Cardinality(p.aead)

NoAesTargets == {x \in Targets : ~x.aead}

NearBraces == {i \in DOMAIN documents.braces : documents.braces[i].near}

\* brace_targets: each file that mentions the define has a list near it.
BracesRead ==
  /\ NearBraces # {}
  /\ \A f \in documents.mention : \E i \in NearBraces : documents.braces[i].file = f

\* (7) Every list names targets, those near the define the ones without AES.
BracesRight ==
  /\ BracesRead
  /\ \A i \in DOMAIN documents.braces : documents.braces[i].names \subseteq Targets
  /\ \A i \in NearBraces : documents.braces[i].names = NoAesTargets

Conclude ==
  /\ stepOf = "conclude" /\ stepOf' = "end" /\ built' = {}
  /\ composed' = IF ArmSets /\ ProseRight /\ BracesRight /\ failures = 0 THEN "passed" ELSE "died"
  /\ UNCHANGED <<sources, drifts, turn, buildMode, snap, perArm, failures>>

ComposingNext ==
  \/ DriftManifest \/ DriftBuild \/ DriftDocuments \/ SweptMeanwhile
  \/ StartComposing \/ CleanMode \/ BuildArm \/ Dump \/ Compare \/ Values \/ LinkConsumer \/ Conclude

ComposingSpec == ComposingInit /\ [][ComposingNext]_composingVars

-----------------------------------------------------------------------------
(* When the gate has passed, a consumer who builds any arm afresh in the   *)
(* composing mode gets no bare name, the prefixed names of the default     *)
(* build, and exactly the tables whose row names the arm, with the row's   *)
(* facts; the AEAD archives link; and every list that claims to name the   *)
(* targets without AES does (check_composing_mode.py:15-48, 512-528,       *)
(* 532-568, 597-617, 633-663, 689-701).                                    *)
ConsumerGetsDocumented ==
  composed = "passed" =>
    /\ \A x \in AllArms :
         /\ \A o \in Objects : LET n == Exports(o, x, "nobare") IN
              n.bare = {} /\ n.prefixed = Exports(o, x, "default").prefixed
         /\ Exports("precalc_manifest.o", x, "nobare").prefixed =
              {r.table : r \in {q \in documents.rows : x \in ArmsOf(q.spec)}}
         /\ Exports("precalc_manifest.o", x, "nobare").valued
         /\ x.aead => ConsumerLinks(x)
    /\ \A r \in documents.rows : FactsOf(r.table) = r.facts
    /\ \A i \in DOMAIN documents.braces :
         documents.braces[i].near => documents.braces[i].names = NoAesTargets
=============================================================================
