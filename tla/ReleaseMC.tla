----------------------------- MODULE ReleaseMC -----------------------------
(* Two runs that may overlap.  Source "next" has another VERSION; the      *)
(* notes "undated" and "norow" are refused.                                *)
EXTENDS Release, TLC

CONSTANTS r1, r2

\* No definition names a run.
RunSymmetry == Permutations({r1, r2})
=============================================================================
