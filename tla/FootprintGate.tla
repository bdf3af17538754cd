---------------------------- MODULE FootprintGate ----------------------------
(***************************************************************************)
(* src/tools/check_footprints.py: the footprint a library manifest         *)
(* declares bounds what a link of the library places.                      *)
(*                                                                         *)
(* The library is, for each archive configuration ("arm"), the sizes of    *)
(* its members by the segment each emits into, and what its manifest       *)
(* declares.  The gate builds one arm after the other in a tree of its     *)
(* own, which a `make clean' of somebody else may sweep at any moment.     *)
(* Addresses, the dump formats and their regular expressions are left out; *)
(* a row of the linker's map that no longer parses is a segment.           *)
(***************************************************************************)
EXTENDS Integers, Sequences, FiniteSets, FiniteSetsExt

CONSTANTS
  SegmentNames, \* LIB_POLYVAL_* segments; "CODE" is the default segment
  RoFloor,      \* RO_FLOOR
  Library,      \* the library to begin with, by arm
  MakeTargets,  \* the Makefile's archive targets, in their order
  ColdSegment,  \* where the cold entry lies
  Tweaks,       \* bound on edits
  Sweeps        \* bound on sweeps by others

VARIABLES
  types,        \* lib_only.cfg: "ro", "bss" or "none" for each segment
  unparsed,     \* segments whose rows of the map do not parse
  broken,       \* parsers and comparisons of the gate that stopped working
  targets,      \* the Makefile's archive targets, a sequence of arms
  library,      \* by arm: [size, cold, inner, resident, coldBytes]
  tweaks, sweeps,
  arm, phase,   \* which arm, and what the gate does next
  objects,      \* its tree: [member, of]
  declares,     \* d: what the manifest in the tree declares
  refused,      \* bad
  footed        \* the verdict: "none", "passed", "died"

footprintVars == <<types, unparsed, broken, targets, library, tweaks, sweeps,
                   arm, phase, objects, declares, refused, footed>>
source == <<types, unparsed, broken, targets, library, tweaks>>

\* A library of its arms, and a target for each of them.
Libraries ==
  [DOMAIN Library -> [size : [SegmentNames \cup {"CODE"} -> Nat], cold : Nat, inner : BOOLEAN,
                      resident : Int, coldBytes : Int]]

ASSUME FootprintAssumption ==
  /\ IsFiniteSet(SegmentNames) /\ RoFloor \subseteq SegmentNames
  /\ {"manifest", "CODE"} \cap SegmentNames = {} /\ ColdSegment \in SegmentNames
  /\ Library \in Libraries
  /\ MakeTargets \in Seq(DOMAIN Library) \ {<<>>} /\ Len(MakeTargets) = Cardinality(DOMAIN Library)
  /\ \A x \in DOMAIN Library : \E i \in DOMAIN MakeTargets : MakeTargets[i] = x

Members(x) == {"manifest"} \cup {m \in SegmentNames \cup {"CODE"} : library[x].size[m] > 0}

\* classify_segments
Ro == {m \in SegmentNames : types[m] = "ro" /\ "types" \notin broken}

\* segments_from_cfg; the floor does not move when the types do.
Classified == /\ \A m \in SegmentNames : types[m] # "none"
              /\ RoFloor \subseteq Ro

FootprintInit ==
  /\ types = [m \in SegmentNames |-> IF m = "BSS" THEN "bss" ELSE "ro"]
  /\ unparsed = {} /\ broken = {} /\ library = Library /\ targets = MakeTargets
  /\ tweaks = 0 /\ sweeps = 0 /\ arm = 0 /\ phase = "start" /\ objects = {}
  /\ declares = [resident |-> 0, coldBytes |-> 0] /\ refused = 0 /\ footed = "none"

-----------------------------------------------------------------------------
(* What happens to the sources before the gate runs *)

Tweak ==
  /\ phase = "start" /\ tweaks < Tweaks /\ tweaks' = tweaks + 1
  /\ UNCHANGED <<sweeps, arm, phase, objects, declares, refused, footed>>

Retype ==
  /\ Tweak
  /\ \E m \in SegmentNames, t \in {"ro", "bss", "none"} : types' = [types EXCEPT ![m] = t]
  /\ UNCHANGED <<unparsed, broken, targets, library>>

\* The linker's map changes its layout for a segment.
Reformat ==
  /\ Tweak
  /\ \E m \in SegmentNames : unparsed' = unparsed \cup {m}
  /\ UNCHANGED <<types, broken, targets, library>>

\* The gate itself is edited: a parser matches nothing, a comparison is dead.
Checks == {"exports", "labels", "types", "emission", "flags"}
BreakGate ==
  /\ Tweak
  /\ \E c \in Checks : broken' = broken \cup {c}
  /\ UNCHANGED <<types, unparsed, targets, library>>

DropTarget ==
  /\ Tweak /\ targets # <<>>
  /\ targets' = Tail(targets)
  /\ UNCHANGED <<types, unparsed, broken, library>>

\* A member grows, in its own segment or in the default one; growth of the
\* cold routine; a top-level label inside it; a manifest that declares less.
Grow ==
  /\ Tweak
  /\ \E x \in DOMAIN library :
       \/ \E m \in SegmentNames \cup {"CODE"} : library' = [library EXCEPT ![x].size[m] = @ + 1]
       \/ library' = [library EXCEPT ![x].size[ColdSegment] = @ + 1, ![x].cold = @ + 1]
       \/ library' = [library EXCEPT ![x].inner = TRUE]
       \/ library' = [library EXCEPT ![x].resident = @ - 1]
       \/ library' = [library EXCEPT ![x].coldBytes = @ + 2]
  /\ UNCHANGED <<types, unparsed, broken, targets>>

-----------------------------------------------------------------------------
(* The gate *)

Die == /\ footed' = "died" /\ phase' = "end" /\ objects' = {}
       /\ UNCHANGED <<arm, declares, refused>>

\* Variant: no self-test.
SelftestNever == TRUE

\* selftest: a fixture for each of them.
FixturesRight == broken = {}

\* arms_from_makefile wants every configuration.
ArmsFromMakefile == Len(targets) = Cardinality(DOMAIN Library)

\* main up to the loop.
StartFootprints ==
  /\ phase = "start"
  /\ IF FixturesRight /\ Classified /\ ArmsFromMakefile
     THEN phase' = "clean" /\ arm' = 1 /\ UNCHANGED <<objects, declares, refused, footed>>
     ELSE Die
  /\ UNCHANGED <<source, sweeps>>

CleanBuild ==
  /\ phase = "clean" /\ phase' = "make" /\ objects' = {}
  /\ UNCHANGED <<source, sweeps, arm, declares, refused, footed>>

\* make makes what is not there.
Make ==
  /\ phase = "make" /\ phase' = "emission"
  /\ objects' = objects \cup {[member |-> m, of |-> targets[arm]] :
                               m \in {n \in Members(targets[arm]) : \A o \in objects : o.member # n}}
  /\ UNCHANGED <<source, sweeps, arm, declares, refused, footed>>

\* default_segment_emission
Emission ==
  /\ phase = "emission" /\ phase' = "declared"
  /\ refused' = IF "emission" \notin broken /\ \E o \in objects : o.member = "CODE"
                THEN refused + 1 ELSE refused
  /\ UNCHANGED <<source, sweeps, arm, objects, declares, footed>>

\* declared
Declared ==
  /\ phase = "declared"
  /\ \/ \E o \in objects :
          /\ o.member = "manifest" /\ "exports" \notin broken /\ phase' = "measure"
          /\ declares' = [resident |-> library[o.of].resident, coldBytes |-> library[o.of].coldBytes]
          /\ UNCHANGED <<arm, objects, refused, footed>>
     \/ ("exports" \in broken \/ \A o \in objects : o.member # "manifest") /\ Die
  /\ UNCHANGED <<source, sweeps>>

\* The linker resolves every import: all the members of the arm are there.
LinksWhole == \A m \in Members(targets[arm]) : \E o \in objects : o.member = m

Total(f, S) == MapThenSumSet(LAMBDA x : f[x], S)

Placed == [o \in objects |-> library[o.of].size[o.member]]
Rows == {o \in objects : o.member \in SegmentNames \ unparsed}
Hits == {o \in Rows : o.member \in Ro}

\* Variant: a row that does not parse is not missed.
MissedUnseen == {}

Missed == {o \in objects : o.member \in Ro /\ o \notin Rows}

\* measure, resident
Resident == Total(Placed, Hits)

\* measure, cold: up to the next label, or to the end of the segment.
Cold(o) == IF library[o.of].inner /\ "labels" \notin broken THEN 1 ELSE library[o.of].cold

\* footprint_flags: does it raise one?
FootprintFlags(cold) ==
  /\ "flags" \notin broken
  /\ \/ declares.resident < Resident
     \/ declares.coldBytes < cold
     \/ declares.coldBytes > declares.resident

\* measure, and the row of the arm.
MeasureArm ==
  /\ phase = "measure"
  /\ IF ~LinksWhole \/ Hits = {} \/ Missed # {} \/ (\A o \in objects : o.member # ColdSegment)
     THEN Die
     ELSE LET o == CHOOSE x \in objects : x.member = ColdSegment IN
          /\ refused' = IF FootprintFlags(Cold(o)) THEN refused + 1 ELSE refused
          /\ IF arm < Len(targets) THEN phase' = "clean" /\ arm' = arm + 1 /\ UNCHANGED footed
             ELSE /\ phase' = "end" /\ UNCHANGED arm
                  /\ footed' = IF refused' = 0 THEN "passed" ELSE "died"
          /\ UNCHANGED <<objects, declares>>
  /\ UNCHANGED <<source, sweeps>>

\* A `make clean' in the same repository sweeps build-scratch.*, file by file.
SweptByOthers ==
  /\ phase \notin {"start", "end"} /\ sweeps < Sweeps
  /\ sweeps' = sweeps + 1
  /\ objects' \in SUBSET objects
  /\ UNCHANGED <<source, arm, phase, declares, refused, footed>>

FootprintNext ==
  \/ Retype \/ Reformat \/ BreakGate \/ DropTarget \/ Grow
  \/ StartFootprints \/ CleanBuild \/ Make \/ Emission \/ Declared \/ MeasureArm \/ SweptByOthers

FootprintSpec == FootprintInit /\ [][FootprintNext]_footprintVars

-----------------------------------------------------------------------------
(* When every row said ok, each configuration's manifest declares at least *)
(* the bytes its members put into the segments that ship and at least its  *)
(* cold routine, no member is in the default segment, and cold is within   *)
(* resident, whatever was swept from the tree meanwhile; a label inside    *)
(* the cold routine hides its rest, by the documented method.  Nor does a gate *)
(* pass whose own parsers or comparisons are dead (check_footprints.py:    *)
(* 43-50, 94-103, 193-198, 221-244, 246-347, 360-367).                     *)
DeclaredBoundsPlaced ==
  footed = "passed" =>
    \A x \in DOMAIN library :
      /\ library[x].resident >= Total(library[x].size, RoFloor)
      /\ library[x].size["CODE"] = 0
      /\ library[x].inner \/ library[x].coldBytes >= library[x].cold
      /\ library[x].coldBytes <= library[x].resident
=============================================================================
