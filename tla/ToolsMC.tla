------------------------------- MODULE ToolsMC -------------------------------
(* One of the Python tools runs: the benchmark, one of the checks before a *)
(* release, or the validation of the reference.  They share no state.      *)
EXTENDS BenchmarkMC, PublishMC, ScratchGate, FootprintGate, ComposingMC, SanityGate

VARIABLE tool

(* The two vectors that are picked and a second empty one; the lengths are *)
(* those the seed of the script gives.                                     *)
MCVectorFile == <<[pt |-> 0, aad |-> 0, input |-> "C.2 #1", pinned |-> TRUE],
                  [pt |-> 8, aad |-> 0, input |-> "C.2 #2", pinned |-> TRUE],
                  [pt |-> 0, aad |-> 0, input |-> "C.2 #17", pinned |-> TRUE]>>
MCRandomLengths == <<[pt |-> 66, aad |-> 45], [pt |-> 71, aad |-> 64], [pt |-> 19, aad |-> 59],
                     [pt |-> 31, aad |-> 29], [pt |-> 59, aad |-> 20]>>

(* An AEAD archive and one without AES, which share the member where the   *)
(* cold entry lies; sizes of a few bytes, since only sums are compared.    *)
MCSegments == {"AES_RODATA", "GCMSIV_CODE", "PROFILE_CODE", "VERIFY_CODE", "BSS"}
MCRoFloor == {"AES_RODATA", "GCMSIV_CODE", "PROFILE_CODE"}
Of(aes, gcm, prof, cold) ==
  [size |-> [m \in MCSegments \cup {"CODE"} |->
      CASE m = "AES_RODATA" -> aes [] m = "GCMSIV_CODE" -> gcm [] m = "PROFILE_CODE" -> prof
        [] m = "BSS" -> 1 [] OTHER -> 0],
   cold |-> cold, inner |-> FALSE, resident |-> aes + gcm + prof, coldBytes |-> cold]
MCLibrary == [x \in {"LONG AEAD", "SHORT NO_AES"} |->
  IF x = "LONG AEAD" THEN Of(2, 2, 3, 2) ELSE Of(0, 0, 4, 3)]
MCMakeTargets == <<"LONG AEAD", "SHORT NO_AES">>

\* Two of the tools that make scratch directories, with one expected name each,
\* and every form of line.
ToolLine(form, var, prefix) == [form |-> form, var |-> var, prefix |-> prefix]
Good == <<"build-scratch", ".">>
Release == Good \o <<"release", ".">>
Bad == <<"unswept", ".">>

MCExpected == [t \in {"build_release.sh", "check_footprints.py"} |->
                 IF t = "build_release.sh" THEN {"OUT_TMP"} ELSE {"bd"}]
MCTools == [t \in DOMAIN MCExpected |->
              IF t = "build_release.sh" THEN <<ToolLine("by hand", "OUT_TMP", Release)>>
              ELSE <<ToolLine("mkdtemp", "bd", Good)>>]
MCLines == [t \in DOMAIN MCExpected |->
  LET forms == IF Python(t) THEN {"mkdtemp", "ROOT /", "command"}
               ELSE (Known \ {"mkdtemp", "ROOT /"}) \cup Plainly \cup Rebinding
      names == MCExpected[t] \cup {"NEW"}
  IN  {ToolLine(f, v, p) : f \in forms \cup {Comment, Elsewhere}, v \in names, p \in {Good, Bad}}
      \cup (IF Python(t) THEN {ToolLine("mkdtemp", "bd", <<>>), ToolLine("mkdtemp", "", Bad)}
            ELSE {ToolLine("by hand", "OUT_TMP", <<>>), ToolLine("mkdir", "", Bad)})]
MCPatterns ==
  {<<>>, <<[stem |-> Release, star |-> TRUE], [stem |-> <<"build-scratch">>, star |-> FALSE]>>,
   <<[stem |-> <<"build-scratch">>, star |-> TRUE]>>,
   <<[stem |-> <<>>, star |-> TRUE]>>,
   <<[stem |-> Good, star |-> TRUE], [stem |-> <<"unswept">>, star |-> FALSE]>>,
   <<[stem |-> Good, star |-> TRUE], [stem |-> Bad, star |-> TRUE]>>}

toolsVars == <<tool, benchmarkVars, publishVars, scratchVars, footprintVars, composingVars, sanityVars>>

Tool == {"benchmark", "publish", "scratch", "footprints", "composing", "sanity"}

ToolsInit ==
  /\ tool \in Tool
  /\ BenchmarkInit /\ (tool # "benchmark" => session = CHOOSE s \in Sessions : TRUE)
  /\ PublishInit /\ ScratchInit /\ FootprintInit /\ ComposingInit /\ SanityInit

ToolsNext ==
  \/ /\ tool = "benchmark" /\ BenchmarkNext
     /\ UNCHANGED <<tool, publishVars, scratchVars, footprintVars, composingVars, sanityVars>>
  \/ /\ tool = "publish" /\ PublishNext
     /\ UNCHANGED <<tool, benchmarkVars, scratchVars, footprintVars, composingVars, sanityVars>>
  \/ /\ tool = "scratch" /\ ScratchNext
     /\ UNCHANGED <<tool, benchmarkVars, publishVars, footprintVars, composingVars, sanityVars>>
  \/ /\ tool = "footprints" /\ FootprintNext
     /\ UNCHANGED <<tool, benchmarkVars, publishVars, scratchVars, composingVars, sanityVars>>
  \/ /\ tool = "composing" /\ ComposingNext
     /\ UNCHANGED <<tool, benchmarkVars, publishVars, scratchVars, footprintVars, sanityVars>>
  \/ /\ tool = "sanity" /\ SanityNext
     /\ UNCHANGED <<tool, benchmarkVars, publishVars, scratchVars, footprintVars, composingVars>>

ToolsSpec == ToolsInit /\ [][ToolsNext]_toolsVars
=============================================================================
