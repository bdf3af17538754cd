---------------------------- MODULE BuildProofs ----------------------------
(***************************************************************************)
(* Proofs about how the library is built, measured and released.           *)
(*                                                                         *)
(* Release, for any number of runs, edits, sources and notes: what every   *)
(* run holds at every step is a copy of the tree, which nothing but the    *)
(* author changes; the tarball and the notes follow.                       *)
(*                                                                         *)
(* ScratchGate, SanityGate and ComposingGate, for any tree they read and   *)
(* any drift of it: a loop that has reached its end has established its    *)
(* condition for everything it went through, from what it read itself,     *)
(* and what it read has not moved since.                                   *)
(*                                                                         *)
(* FootprintGate, for any library: an arm whose row said ok is within its  *)
(* declaration, because the sum the gate takes over the objects it found   *)
(* covers the sum over the segments that ship; sums over finite sets are   *)
(* related by induction on their size.                                     *)
(*                                                                         *)
(* Benchmark, for any session: what a wrapper did to the timers is undone  *)
(* when it returns, from every piece at which a connection can be lost;    *)
(* what a wrapper shows is a function of what its target cost, a sample    *)
(* that is not the target's is paid for by a disturbance, and a median of  *)
(* samples that are mostly the same is that one.                           *)
(***************************************************************************)
EXTENDS Release, ScratchGate, SanityGate, ComposingGate, FootprintGate, Benchmark,
        FiniteSetTheorems, WellFoundedInduction, TLAPS

-----------------------------------------------------------------------------
(* Releases *)

\* Steps at which a run holds the staged tree, its tarball, its size and hash.
Built == {"measure", "reset_cp", "reset_mv", "out_mv"}
Measured == {"reset_cp", "reset_mv"} \cup Publishing
Reset1 == {"tar"} \cup Built \cup Measured

\* What a run holds, in terms of the tree.
Copies(r) ==
  /\ pc[r] = "reset" => staged[r].src = src /\ staged[r].body = body
  /\ pc[r] \in Reset1 => staged[r] = Tree
  /\ pc[r] \in Built => outTmp[r] \in {Nil, Tree}
  /\ pc[r] \in Measured => stamp[r] = Tree
  /\ pc[r] = "reset_mv" => notesTmp[r] \in {Nil, Placeholder}
  /\ pc[r] = "stamp_mv" => notesTmp[r] \in {Nil, Tree}

\* What a run that publishes has done to the tree.
Published(r) ==
  /\ pc[r] = "out_mv" => att \in {Placeholder, Tree}
  /\ pc[r] \in {"stamp_cp", "stamp_mv"} => out = Tree

\* What the tag-drift guard let through.
Guarded(r) ==
  pc[r] \notin Ended /\ tag # Nil /\ ~overridden => Tree = tag.stamp

TagRight ==
  tag # Nil => tag.stamp = [src |-> tag.src, body |-> tag.body, att |-> Placeholder]

Runs == \A r \in Run : Copies(r) /\ Published(r) /\ Guarded(r)

RInv == TypeOK /\ Attested /\ Loud /\ ReleasedStays /\ TagRight /\ Runs

LEMMA InitRight == Init => RInv
<1> SUFFICES ASSUME Init PROVE RInv
  OBVIOUS
<1>1. TypeOK
  <2>1. src \in Source /\ body \in Body /\ begun \in 0 .. MaxRuns /\ edits \in 0 .. MaxEdits
    BY ReleaseAssumption DEF Init
  <2> QED
    BY <2>1 DEF Init, TypeOK, PC, Ended
<1>2. Attested /\ Loud /\ ReleasedStays /\ TagRight
  BY DEF Init, Attested, Loud, ReleasedStays, TagRight
<1>3. ASSUME NEW r \in Run PROVE Copies(r) /\ Published(r) /\ Guarded(r)
  <2>1. pc[r] = "off"
    BY DEF Init
  <2> QED
    BY <2>1 DEF Copies, Published, Guarded, Reset1, Built, Measured, Publishing, Ended
<1> QED
  BY <1>1, <1>2, <1>3 DEF RInv, Runs

LEMMA BeginRight ==
  ASSUME RInv, NEW r \in Run, NEW git, NEW allow, Begin(r, git, allow) PROVE RInv'
<1> USE DEF tree, scratch, history, count
<1>1. TypeOK /\ Copies(r) /\ Published(r) /\ Guarded(r)
  BY DEF RInv, Runs
<1>2. Tree' = Tree
  BY <1>1 DEF Begin, Guard, Warns, Drifted, Tree, Copies, Reset1, Measured, Publishing
<1>3. TypeOK'
  <2>1. begun' \in 0 .. MaxRuns
    BY <1>1, ReleaseAssumption DEF Begin, TypeOK
  <2>2. pc' \in [Run -> PC]
    BY <1>1 DEF Begin, TypeOK, PC, Ended, Goto, With
  <2>3. overridden' \in BOOLEAN
    BY <1>1 DEF Begin, TypeOK
  <2>4. outTmp' \in [Run -> Tarball \cup {Nil}] /\ notesTmp' \in [Run -> Tarball \cup {Placeholder, Nil}]
    BY <1>1 DEF Begin, TypeOK, With
  <2> QED
    BY <1>1, <2>1, <2>2, <2>3, <2>4 DEF Begin, TypeOK
<1>4. ASSUME NEW q \in Run PROVE (Copies(q) /\ Published(q) /\ Guarded(q))'
  <2>1. Copies(q) /\ Published(q) /\ Guarded(q)
    BY DEF RInv, Runs
  <2>2. Copies(q)'
    BY <1>1, <1>2, <2>1 DEF Begin, Guard, Warns, Drifted, Goto, With, TypeOK, Copies, Reset1, Built, Measured, Publishing, Ended, Tree
  <2>3. Published(q)'
    BY <1>1, <1>2, <2>1 DEF Begin, Guard, Warns, Drifted, Goto, With, TypeOK, Copies, Published, Reset1, Built, Measured, Publishing, Ended
  <2>4. Guarded(q)'
    BY <1>1, <1>2, <2>1 DEF Begin, Guard, Warns, Drifted, Goto, With, TypeOK, Guarded, Ended, RInv, TagRight, Tree
  <2> QED
    BY <2>2, <2>3, <2>4
<1>5. Attested' /\ ReleasedStays' /\ TagRight'
  BY <1>1, <1>2 DEF Begin, Guard, Warns, Drifted, RInv, Attested, ReleasedStays, TagRight, Copies, Published, Guarded, Reset1, Built, Measured, Publishing, Ended
<1>6. Loud'
  BY <1>1 DEF Begin, Guard, Warns, Drifted, RInv, Loud, Publishing, Ended, Goto, With, TypeOK, Copies, Reset1, Measured, Tree
<1> QED
  BY <1>3, <1>4, <1>5, <1>6 DEF RInv, Runs

LEMMA StageRight ==
  ASSUME RInv, NEW r \in Run, Stage(r) PROVE RInv'
<1> USE DEF tree, scratch, history, count
<1>1. TypeOK /\ Copies(r) /\ Published(r) /\ Guarded(r)
  BY DEF RInv, Runs
<1>2. Tree' = Tree
  BY <1>1 DEF Stage, Tree, Copies, Reset1, Measured, Publishing
<1>3. TypeOK'
  BY <1>1 DEF Stage, TypeOK, PC, Ended, Publishing, Tarball, Goto, With, Copies, Reset1, Built, Measured, Tree
<1>4. ASSUME NEW q \in Run PROVE (Copies(q) /\ Published(q) /\ Guarded(q))'
  <2>1. Copies(q) /\ Published(q) /\ Guarded(q)
    BY DEF RInv, Runs
  <2>2. Copies(q)'
    BY <1>1, <1>2, <2>1 DEF Stage, Goto, With, TypeOK, Copies, Reset1, Built, Measured, Publishing, Ended, Tree
  <2>3. Published(q)'
    BY <1>1, <1>2, <2>1 DEF Stage, Goto, With, TypeOK, Copies, Published, Reset1, Built, Measured, Publishing, Ended
  <2>4. Guarded(q)'
    BY <1>1, <1>2, <2>1 DEF Stage, Goto, With, TypeOK, Guarded, Ended, RInv, TagRight, Tree
  <2> QED
    BY <2>2, <2>3, <2>4
<1>5. Attested' /\ ReleasedStays' /\ TagRight'
  BY <1>1, <1>2 DEF Stage, RInv, Attested, ReleasedStays, TagRight, Copies, Published, Guarded, Reset1, Built, Measured, Publishing, Ended
<1>6. Loud'
  BY <1>1 DEF Stage, RInv, Loud, Publishing, Ended, Goto, With, TypeOK, Copies, Reset1, Measured, Tree
<1> QED
  BY <1>3, <1>4, <1>5, <1>6 DEF RInv, Runs

LEMMA ResetRight ==
  ASSUME RInv, NEW r \in Run, Reset(r) PROVE RInv'
<1> USE DEF tree, scratch, history, count
<1>1. TypeOK /\ Copies(r) /\ Published(r) /\ Guarded(r)
  BY DEF RInv, Runs
<1>2. Tree' = Tree
  BY <1>1 DEF Reset, Tree, Copies, Reset1, Measured, Publishing
<1>3. TypeOK'
  BY <1>1 DEF Reset, TypeOK, PC, Ended, Publishing, Tarball, Goto, With, Copies, Reset1, Built, Measured, Tree
<1>4. ASSUME NEW q \in Run PROVE (Copies(q) /\ Published(q) /\ Guarded(q))'
  <2>1. Copies(q) /\ Published(q) /\ Guarded(q)
    BY DEF RInv, Runs
  <2>2. Copies(q)'
    BY <1>1, <1>2, <2>1 DEF Reset, Goto, With, TypeOK, Copies, Reset1, Built, Measured, Publishing, Ended, Tree
  <2>3. Published(q)'
    BY <1>1, <1>2, <2>1 DEF Reset, Goto, With, TypeOK, Copies, Published, Reset1, Built, Measured, Publishing, Ended
  <2>4. Guarded(q)'
    BY <1>1, <1>2, <2>1 DEF Reset, Goto, With, TypeOK, Guarded, Ended, RInv, TagRight, Tree
  <2> QED
    BY <2>2, <2>3, <2>4
<1>5. Attested' /\ ReleasedStays' /\ TagRight'
  BY <1>1, <1>2 DEF Reset, RInv, Attested, ReleasedStays, TagRight, Copies, Published, Guarded, Reset1, Built, Measured, Publishing, Ended
<1>6. Loud'
  BY <1>1 DEF Reset, RInv, Loud, Publishing, Ended, Goto, With, TypeOK, Copies, Reset1, Measured, Tree
<1> QED
  BY <1>3, <1>4, <1>5, <1>6 DEF RInv, Runs

LEMMA TarRight ==
  ASSUME RInv, NEW r \in Run, Tar(r) PROVE RInv'
<1> USE DEF tree, scratch, history, count
<1>1. TypeOK /\ Copies(r) /\ Published(r) /\ Guarded(r)
  BY DEF RInv, Runs
<1>2. Tree' = Tree
  BY <1>1 DEF Tar, Tree, Copies, Reset1, Measured, Publishing
<1>3. TypeOK'
  BY <1>1 DEF Tar, TypeOK, PC, Ended, Publishing, Tarball, Goto, With, Copies, Reset1, Built, Measured, Tree
<1>4. ASSUME NEW q \in Run PROVE (Copies(q) /\ Published(q) /\ Guarded(q))'
  <2>1. Copies(q) /\ Published(q) /\ Guarded(q)
    BY DEF RInv, Runs
  <2>2. Copies(q)'
    BY <1>1, <1>2, <2>1 DEF Tar, Goto, With, TypeOK, Copies, Reset1, Built, Measured, Publishing, Ended, Tree
  <2>3. Published(q)'
    BY <1>1, <1>2, <2>1 DEF Tar, Goto, With, TypeOK, Copies, Published, Reset1, Built, Measured, Publishing, Ended
  <2>4. Guarded(q)'
    BY <1>1, <1>2, <2>1 DEF Tar, Goto, With, TypeOK, Guarded, Ended, RInv, TagRight, Tree
  <2> QED
    BY <2>2, <2>3, <2>4
<1>5. Attested' /\ ReleasedStays' /\ TagRight'
  BY <1>1, <1>2 DEF Tar, RInv, Attested, ReleasedStays, TagRight, Copies, Published, Guarded, Reset1, Built, Measured, Publishing, Ended
<1>6. Loud'
  BY <1>1 DEF Tar, RInv, Loud, Publishing, Ended, Goto, With, TypeOK, Copies, Reset1, Measured, Tree
<1> QED
  BY <1>3, <1>4, <1>5, <1>6 DEF RInv, Runs

LEMMA MeasureRight ==
  ASSUME RInv, NEW r \in Run, Measure(r) PROVE RInv'
<1> USE DEF tree, scratch, history, count
<1>1. TypeOK /\ Copies(r) /\ Published(r) /\ Guarded(r)
  BY DEF RInv, Runs
<1>2. Tree' = Tree
  BY <1>1 DEF Measure, Tree, Copies, Reset1, Measured, Publishing
<1>3. TypeOK'
  BY <1>1 DEF Measure, TypeOK, PC, Ended, Publishing, Tarball, Goto, With, Copies, Reset1, Built, Measured, Tree
<1>4. ASSUME NEW q \in Run PROVE (Copies(q) /\ Published(q) /\ Guarded(q))'
  <2>1. Copies(q) /\ Published(q) /\ Guarded(q)
    BY DEF RInv, Runs
  <2>2. Copies(q)'
    BY <1>1, <1>2, <2>1 DEF Measure, Goto, With, TypeOK, Copies, Reset1, Built, Measured, Publishing, Ended, Tree
  <2>3. Published(q)'
    BY <1>1, <1>2, <2>1 DEF Measure, Goto, With, TypeOK, Copies, Published, Reset1, Built, Measured, Publishing, Ended
  <2>4. Guarded(q)'
    BY <1>1, <1>2, <2>1 DEF Measure, Goto, With, TypeOK, Guarded, Ended, RInv, TagRight, Tree
  <2> QED
    BY <2>2, <2>3, <2>4
<1>5. Attested' /\ ReleasedStays' /\ TagRight'
  BY <1>1, <1>2 DEF Measure, RInv, Attested, ReleasedStays, TagRight, Copies, Published, Guarded, Reset1, Built, Measured, Publishing, Ended
<1>6. Loud'
  BY <1>1 DEF Measure, RInv, Loud, Publishing, Ended, Goto, With, TypeOK, Copies, Reset1, Measured, Tree
<1> QED
  BY <1>3, <1>4, <1>5, <1>6 DEF RInv, Runs

LEMMA CopyResetRight ==
  ASSUME RInv, NEW r \in Run, CopyReset(r) PROVE RInv'
<1> USE DEF tree, scratch, history, count
<1>1. TypeOK /\ Copies(r) /\ Published(r) /\ Guarded(r)
  BY DEF RInv, Runs
<1>2. Tree' = Tree
  BY <1>1 DEF CopyReset, Tree, Copies, Reset1, Measured, Publishing
<1>3. TypeOK'
  BY <1>1 DEF CopyReset, TypeOK, PC, Ended, Publishing, Tarball, Goto, With, Copies, Reset1, Built, Measured, Tree
<1>4. ASSUME NEW q \in Run PROVE (Copies(q) /\ Published(q) /\ Guarded(q))'
  <2>1. Copies(q) /\ Published(q) /\ Guarded(q)
    BY DEF RInv, Runs
  <2>2. Copies(q)'
    BY <1>1, <1>2, <2>1 DEF CopyReset, Goto, With, TypeOK, Copies, Reset1, Built, Measured, Publishing, Ended, Tree
  <2>3. Published(q)'
    BY <1>1, <1>2, <2>1 DEF CopyReset, Goto, With, TypeOK, Copies, Published, Reset1, Built, Measured, Publishing, Ended
  <2>4. Guarded(q)'
    BY <1>1, <1>2, <2>1 DEF CopyReset, Goto, With, TypeOK, Guarded, Ended, RInv, TagRight, Tree
  <2> QED
    BY <2>2, <2>3, <2>4
<1>5. Attested' /\ ReleasedStays' /\ TagRight'
  BY <1>1, <1>2 DEF CopyReset, RInv, Attested, ReleasedStays, TagRight, Copies, Published, Guarded, Reset1, Built, Measured, Publishing, Ended
<1>6. Loud'
  BY <1>1 DEF CopyReset, RInv, Loud, Publishing, Ended, Goto, With, TypeOK, Copies, Reset1, Measured, Tree
<1> QED
  BY <1>3, <1>4, <1>5, <1>6 DEF RInv, Runs

LEMMA RenameNotesRight ==
  ASSUME RInv, NEW r \in Run, RenameNotes(r) PROVE RInv'
<1> USE DEF tree, scratch, history, count
<1>1. TypeOK /\ Copies(r) /\ Published(r) /\ Guarded(r)
  BY DEF RInv, Runs
<1>2. Tree' = Tree
  BY <1>1 DEF RenameNotes, Tree, Copies, Reset1, Measured, Publishing
<1>3. TypeOK'
  <2>1. staged[r] = Tree /\ Tree \in Tarball /\ notesTmp[r] \in {Placeholder, Tree}
    BY <1>1 DEF RenameNotes, Tree, Tarball, TypeOK, Copies, Reset1, Built, Measured, Publishing
  <2>2. body' \in Body /\ att' \in Tarball \cup {Placeholder}
    BY <1>1, <2>1 DEF RenameNotes, Tree, TypeOK
  <2>3. pc' \in [Run -> PC]
    BY <1>1 DEF RenameNotes, TypeOK, PC, Ended, Publishing, Goto, With
  <2>4. unfinished' \in BOOLEAN /\ restored' \in BOOLEAN
    BY <1>1 DEF RenameNotes, TypeOK
  <2>5. notesTmp' \in [Run -> Tarball \cup {Placeholder, Nil}]
    BY <1>1 DEF RenameNotes, TypeOK, With
  <2> QED
    BY <1>1, <2>2, <2>3, <2>4, <2>5 DEF RenameNotes, TypeOK
<1>4. ASSUME NEW q \in Run PROVE (Copies(q) /\ Published(q) /\ Guarded(q))'
  <2>1. Copies(q) /\ Published(q) /\ Guarded(q)
    BY DEF RInv, Runs
  <2>2. Copies(q)'
    BY <1>1, <1>2, <2>1 DEF RenameNotes, Goto, With, TypeOK, Copies, Reset1, Built, Measured, Publishing, Ended, Tree
  <2>3. Published(q)'
    BY <1>1, <1>2, <2>1 DEF RenameNotes, Goto, With, TypeOK, Copies, Published, Reset1, Built, Measured, Publishing, Ended
  <2>4. Guarded(q)'
    BY <1>1, <1>2, <2>1 DEF RenameNotes, Goto, With, TypeOK, Guarded, Ended, RInv, TagRight, Tree
  <2> QED
    BY <2>2, <2>3, <2>4
<1>5. Attested' /\ ReleasedStays' /\ TagRight'
  BY <1>1, <1>2 DEF RenameNotes, RInv, Attested, ReleasedStays, TagRight, Copies, Published, Guarded, Reset1, Built, Measured, Publishing, Ended
<1>6. Loud'
  <2>1. CASE pc[r] = "reset_mv"
    <3>1. pc'[r] = "out_mv"
      BY <1>1, <2>1 DEF RenameNotes, Goto, With, TypeOK
    <3> QED
      BY <3>1 DEF Loud, Publishing
  <2>2. CASE pc[r] = "stamp_mv"
    <3>1. att' = Tree /\ Tree \in Tarball
      BY <1>1, <2>2 DEF RenameNotes, Copies, Tree, Tarball, TypeOK
    <3> QED
      BY <3>1, ReleaseAssumption DEF Loud
  <2> QED
    BY <2>1, <2>2 DEF RenameNotes
<1> QED
  BY <1>3, <1>4, <1>5, <1>6 DEF RInv, Runs

LEMMA RenameOutRight ==
  ASSUME RInv, NEW r \in Run, RenameOut(r) PROVE RInv'
<1> USE DEF tree, scratch, history, count
<1>1. TypeOK /\ Copies(r) /\ Published(r) /\ Guarded(r)
  BY DEF RInv, Runs
<1>2. Tree' = Tree
  BY <1>1 DEF RenameOut, Tree, Copies, Reset1, Measured, Publishing
<1>3. TypeOK'
  BY <1>1 DEF RenameOut, TypeOK, PC, Ended, Publishing, Tarball, Goto, With, Copies, Reset1, Built, Measured, Tree
<1>4. ASSUME NEW q \in Run PROVE (Copies(q) /\ Published(q) /\ Guarded(q))'
  <2>1. Copies(q) /\ Published(q) /\ Guarded(q)
    BY DEF RInv, Runs
  <2>2. Copies(q)'
    BY <1>1, <1>2, <2>1 DEF RenameOut, Goto, With, TypeOK, Copies, Reset1, Built, Measured, Publishing, Ended, Tree
  <2>3. Published(q)'
    BY <1>1, <1>2, <2>1 DEF RenameOut, Goto, With, TypeOK, Copies, Published, Reset1, Built, Measured, Publishing, Ended
  <2>4. Guarded(q)'
    BY <1>1, <1>2, <2>1 DEF RenameOut, Goto, With, TypeOK, Guarded, Ended, RInv, TagRight, Tree
  <2> QED
    BY <2>2, <2>3, <2>4
<1>5. Attested' /\ ReleasedStays' /\ TagRight'
  BY <1>1, <1>2 DEF RenameOut, RInv, Attested, ReleasedStays, TagRight, Copies, Published, Guarded, Reset1, Built, Measured, Publishing, Ended
<1>6. Loud'
  BY <1>1 DEF RenameOut, RInv, Loud, Publishing, Ended, Goto, With, TypeOK, Copies, Reset1, Measured, Tree
<1> QED
  BY <1>3, <1>4, <1>5, <1>6 DEF RInv, Runs

LEMMA CopyStampedRight ==
  ASSUME RInv, NEW r \in Run, CopyStamped(r) PROVE RInv'
<1> USE DEF tree, scratch, history, count
<1>1. TypeOK /\ Copies(r) /\ Published(r) /\ Guarded(r)
  BY DEF RInv, Runs
<1>2. Tree' = Tree
  BY <1>1 DEF CopyStamped, Tree, Copies, Reset1, Measured, Publishing
<1>3. TypeOK'
  BY <1>1 DEF CopyStamped, TypeOK, PC, Ended, Publishing, Tarball, Goto, With, Copies, Reset1, Built, Measured, Tree
<1>4. ASSUME NEW q \in Run PROVE (Copies(q) /\ Published(q) /\ Guarded(q))'
  <2>1. Copies(q) /\ Published(q) /\ Guarded(q)
    BY DEF RInv, Runs
  <2>2. Copies(q)'
    BY <1>1, <1>2, <2>1 DEF CopyStamped, Goto, With, TypeOK, Copies, Reset1, Built, Measured, Publishing, Ended, Tree
  <2>3. Published(q)'
    BY <1>1, <1>2, <2>1 DEF CopyStamped, Goto, With, TypeOK, Copies, Published, Reset1, Built, Measured, Publishing, Ended
  <2>4. Guarded(q)'
    BY <1>1, <1>2, <2>1 DEF CopyStamped, Goto, With, TypeOK, Guarded, Ended, RInv, TagRight, Tree
  <2> QED
    BY <2>2, <2>3, <2>4
<1>5. Attested' /\ ReleasedStays' /\ TagRight'
  BY <1>1, <1>2 DEF CopyStamped, RInv, Attested, ReleasedStays, TagRight, Copies, Published, Guarded, Reset1, Built, Measured, Publishing, Ended
<1>6. Loud'
  BY <1>1 DEF CopyStamped, RInv, Loud, Publishing, Ended, Goto, With, TypeOK, Copies, Reset1, Measured, Tree
<1> QED
  BY <1>3, <1>4, <1>5, <1>6 DEF RInv, Runs

LEMMA TerminateRight ==
  ASSUME RInv, NEW r \in Run, Terminate(r) PROVE RInv'
<1> USE DEF tree, scratch, history, count
<1>1. TypeOK /\ Copies(r) /\ Published(r) /\ Guarded(r)
  BY DEF RInv, Runs
<1>2. Tree' = Tree
  BY <1>1 DEF Terminate, Cut, Tree, Copies, Reset1, Measured, Publishing
<1>3. TypeOK'
  BY <1>1 DEF Terminate, Cut, TypeOK, PC, Ended, Publishing, Tarball, Goto, With, Copies, Reset1, Built, Measured, Tree
<1>4. ASSUME NEW q \in Run PROVE (Copies(q) /\ Published(q) /\ Guarded(q))'
  <2>1. Copies(q) /\ Published(q) /\ Guarded(q)
    BY DEF RInv, Runs
  <2>2. Copies(q)'
    BY <1>1, <1>2, <2>1 DEF Terminate, Cut, Goto, With, TypeOK, Copies, Reset1, Built, Measured, Publishing, Ended, Tree
  <2>3. Published(q)'
    BY <1>1, <1>2, <2>1 DEF Terminate, Cut, Goto, With, TypeOK, Copies, Published, Reset1, Built, Measured, Publishing, Ended
  <2>4. Guarded(q)'
    BY <1>1, <1>2, <2>1 DEF Terminate, Cut, Goto, With, TypeOK, Guarded, Ended, RInv, TagRight, Tree
  <2> QED
    BY <2>2, <2>3, <2>4
<1>5. Attested' /\ ReleasedStays' /\ TagRight'
  BY <1>1, <1>2 DEF Terminate, Cut, RInv, Attested, ReleasedStays, TagRight, Copies, Published, Guarded, Reset1, Built, Measured, Publishing, Ended
<1>6. Loud'
  BY <1>1 DEF Terminate, Cut, RInv, Loud, Publishing, Ended, Goto, With, TypeOK, Copies, Reset1, Measured, Tree
<1> QED
  BY <1>3, <1>4, <1>5, <1>6 DEF RInv, Runs

LEMMA KillRight ==
  ASSUME RInv, NEW r \in Run, Kill(r) PROVE RInv'
<1> USE DEF tree, scratch, history, count
<1>1. TypeOK /\ Copies(r) /\ Published(r) /\ Guarded(r)
  BY DEF RInv, Runs
<1>2. Tree' = Tree
  BY <1>1 DEF Kill, Cut, Tree, Copies, Reset1, Measured, Publishing
<1>3. TypeOK'
  BY <1>1 DEF Kill, Cut, TypeOK, PC, Ended, Publishing, Tarball, Goto, With, Copies, Reset1, Built, Measured, Tree
<1>4. ASSUME NEW q \in Run PROVE (Copies(q) /\ Published(q) /\ Guarded(q))'
  <2>1. Copies(q) /\ Published(q) /\ Guarded(q)
    BY DEF RInv, Runs
  <2>2. Copies(q)'
    BY <1>1, <1>2, <2>1 DEF Kill, Cut, Goto, With, TypeOK, Copies, Reset1, Built, Measured, Publishing, Ended, Tree
  <2>3. Published(q)'
    BY <1>1, <1>2, <2>1 DEF Kill, Cut, Goto, With, TypeOK, Copies, Published, Reset1, Built, Measured, Publishing, Ended
  <2>4. Guarded(q)'
    BY <1>1, <1>2, <2>1 DEF Kill, Cut, Goto, With, TypeOK, Guarded, Ended, RInv, TagRight, Tree
  <2> QED
    BY <2>2, <2>3, <2>4
<1>5. Attested' /\ ReleasedStays' /\ TagRight'
  BY <1>1, <1>2 DEF Kill, Cut, RInv, Attested, ReleasedStays, TagRight, Copies, Published, Guarded, Reset1, Built, Measured, Publishing, Ended
<1>6. Loud'
  BY <1>1 DEF Kill, Cut, RInv, Loud, Publishing, Ended, Goto, With, TypeOK, Copies, Reset1, Measured, Tree
<1> QED
  BY <1>3, <1>4, <1>5, <1>6 DEF RInv, Runs

LEMMA CleanRight == ASSUME RInv, Clean PROVE RInv'
<1> USE DEF tree, scratch, history, count
<1>1. TypeOK' /\ Tree' = Tree
  BY DEF Clean, RInv, TypeOK, Tree
<1>2. Attested' /\ Loud' /\ ReleasedStays' /\ TagRight'
  BY DEF Clean, RInv, Attested, Loud, ReleasedStays, TagRight
<1>3. ASSUME NEW q \in Run PROVE (Copies(q) /\ Published(q) /\ Guarded(q))'
  <2>1. Copies(q) /\ Published(q) /\ Guarded(q)
    BY DEF RInv, Runs
  <2> QED
    BY <1>1, <2>1 DEF Clean, Copies, Published, Guarded, Built, Measured, Publishing, Reset1
<1> QED
  BY <1>1, <1>2, <1>3 DEF RInv, Runs

\* Nothing is claimed of a run that has ended.
LEMMA QuietRuns == Quiet => Runs
BY DEF Quiet, Runs, Copies, Published, Guarded, Built, Measured, Publishing, Reset1, Ended

LEMMA EditSourceRight == ASSUME RInv, NEW s \in Source, EditSource(s) PROVE RInv'
<1> USE DEF tree, scratch, history, count
<1>1. Quiet' /\ Quiet
  BY DEF EditSource, Quiet
<1>2. TypeOK'
  BY ReleaseAssumption DEF EditSource, RInv, TypeOK, Tree
<1>3. Attested' /\ Loud' /\ ReleasedStays' /\ TagRight'
  BY ReleaseAssumption DEF EditSource, RInv, TypeOK, Attested, Loud, ReleasedStays, TagRight, Tree, Tarball
<1>4. Runs'
  BY <1>1 DEF Quiet, Runs, Copies, Published, Guarded, Built, Measured, Publishing, Reset1, Ended
<1> QED
  BY <1>2, <1>3, <1>4 DEF RInv

LEMMA EditNotesRight == ASSUME RInv, NEW texts \in Body, EditNotes(texts) PROVE RInv'
<1> USE DEF tree, scratch, history, count
<1>1. Quiet' /\ Quiet
  BY DEF EditNotes, Quiet
<1>2. TypeOK'
  BY ReleaseAssumption DEF EditNotes, RInv, TypeOK, Tree
<1>3. Attested' /\ Loud' /\ ReleasedStays' /\ TagRight'
  BY ReleaseAssumption DEF EditNotes, RInv, TypeOK, Attested, Loud, ReleasedStays, TagRight, Tree, Tarball
<1>4. Runs'
  BY <1>1 DEF Quiet, Runs, Copies, Published, Guarded, Built, Measured, Publishing, Reset1, Ended
<1> QED
  BY <1>2, <1>3, <1>4 DEF RInv

LEMMA PutTagRight == ASSUME RInv, PutTag PROVE RInv'
<1> USE DEF tree, scratch, history, count
<1>1. Quiet' /\ Quiet
  BY DEF PutTag, Quiet
<1>2. TypeOK'
  BY ReleaseAssumption DEF PutTag, RInv, TypeOK, Tree
<1>3. Attested' /\ Loud' /\ ReleasedStays' /\ TagRight'
  BY ReleaseAssumption DEF PutTag, RInv, TypeOK, Attested, Loud, ReleasedStays, TagRight, Tree, Tarball
<1>4. Runs'
  BY <1>1 DEF Quiet, Runs, Copies, Published, Guarded, Built, Measured, Publishing, Reset1, Ended
<1> QED
  BY <1>2, <1>3, <1>4 DEF RInv

LEMMA CheckoutNotesRight == ASSUME RInv, CheckoutNotes PROVE RInv'
<1> USE DEF tree, scratch, history, count
<1>1. Quiet' /\ Quiet
  BY DEF CheckoutNotes, Quiet
<1>2. TypeOK'
  BY ReleaseAssumption DEF CheckoutNotes, RInv, TypeOK, Tree
<1>3. Attested' /\ Loud' /\ ReleasedStays' /\ TagRight'
  BY ReleaseAssumption DEF CheckoutNotes, RInv, TypeOK, Attested, Loud, ReleasedStays, TagRight, Tree, Tarball
<1>4. Runs'
  BY <1>1 DEF Quiet, Runs, Copies, Published, Guarded, Built, Measured, Publishing, Reset1, Ended
<1> QED
  BY <1>2, <1>3, <1>4 DEF RInv

LEMMA StepRight == ASSUME RInv, [Next]_vars PROVE RInv'
<1>1. CASE Next
  BY <1>1, BeginRight, StageRight, ResetRight, TarRight, MeasureRight, CopyResetRight,
     RenameNotesRight, RenameOutRight, CopyStampedRight, TerminateRight, KillRight,
     CleanRight, EditSourceRight, EditNotesRight, PutTagRight, CheckoutNotesRight
     DEF Next, RunStep, Author
<1>2. CASE UNCHANGED vars
  BY <1>2 DEF vars, tree, scratch, history, count, RInv, TypeOK, Attested, Loud, ReleasedStays,
     TagRight, Runs, Copies, Published, Guarded, Tree
<1> QED
  BY <1>1, <1>2

(* The invariant holds in every behaviour.                                 *)
THEOREM Invariance == Spec => []RInv
<1> QED
  BY InitRight, StepRight, PTL DEF Spec

(* For any number of runs, killed, refused or swept at any step, a stamp   *)
(* in the notes is that of the tarball beside them.                        *)
THEOREM AttestedSafety == Spec => []Attested
<1>1. RInv => Attested
  BY DEF RInv
<1> QED
  BY <1>1, Invariance, PTL

(* Placeholder notes are left only by a publish that is going on or died.  *)
THEOREM LoudSafety == Spec => []Loud
<1>1. RInv => Loud
  BY DEF RInv
<1> QED
  BY <1>1, Invariance, PTL

(* A released tarball changes only after a warning.                        *)
THEOREM ReleasedSafety == Spec => []ReleasedStays
<1>1. RInv => ReleasedStays
  BY DEF RInv
<1> QED
  BY <1>1, Invariance, PTL

(* A run that ends well leaves tree, tarball and Attestation in agreement. *)
THEOREM PublishedSafety == Spec => PublishedIsTree
<1>1. ASSUME RInv, [Next]_vars PROVE [PublishStep]_vars
  <2> SUFFICES ASSUME Next, NEW r \in Run, pc[r] # "done", pc'[r] = "done"
               PROVE  att' = out' /\ out' = Tree'
    BY <1>1 DEF PublishStep
  <2>1. TypeOK /\ Copies(r) /\ Published(r)
    BY <1>1 DEF RInv, Runs
  <2>2. PICK q \in Run : RunStep(q)
    BY <2>1 DEF Next, Author, Clean, EditSource, EditNotes, PutTag, CheckoutNotes
  <2>3. q = r /\ pc[r] = "stamp_mv" /\ RenameNotes(r)
    BY <2>1, <2>2 DEF RunStep, Begin, Stage, Reset, Tar, Measure, CopyReset, RenameNotes,
       RenameOut, CopyStamped, Terminate, Kill, Cut, Goto, With, TypeOK
  <2> QED
    BY <2>1, <2>3 DEF RenameNotes, Copies, Published, Tree, Reset1, Measured, Publishing
<1> QED
  BY <1>1, Invariance, PTL DEF Spec, PublishedIsTree

-----------------------------------------------------------------------------
(* What the scratch gate passes *)

\* Every tool has lines of its forms.
ToolsTyped ==
  /\ tools = [t \in DOMAIN Tools |-> tools[t]]
  /\ \A t \in DOMAIN Tools : tools[t] \in Seq(Written(t))

\* A tree that is left was made by a line of a tool that has passed.
LeftByTools ==
  \A l \in left :
    /\ scanned = "passed" /\ l.tool \in DOMAIN Tools
    /\ \E i \in DOMAIN tools[l.tool] : Makes(l.tool, i) /\ l.made = tools[l.tool][i]

\* A sweep leaves what no starred pattern matches.
SweptClean ==
  swept => \A l \in left : ~\E i \in DOMAIN trees :
                              trees[i].star /\ IsPrefix(trees[i].stem, l.made.prefix)

ScratchInv ==
  /\ ToolsTyped /\ LeftByTools /\ SweptClean
  /\ scanned = "passed" => Accepts

\* A line added, replaced or removed leaves a sequence of lines.
LEMMA EditedSequence ==
  ASSUME NEW S, NEW s \in Seq(S), NEW new \in {<<l>> : l \in S} \cup {<<>>},
         NEW over \in 0 .. 1, NEW at \in 1 .. Len(s) + 1 - over
  PROVE  SubSeq(s, 1, at - 1) \o new \o SubSeq(s, at + over, Len(s)) \in Seq(S)
<1>1. SubSeq(s, 1, at - 1) \in Seq(S)
  OBVIOUS
<1>2. SubSeq(s, at + over, Len(s)) \in Seq(S)
  OBVIOUS
<1>3. new \in Seq(S)
  <2>1. CASE new = <<>>
    BY <2>1
  <2>2. CASE new \in {<<l>> : l \in S}
    <3>1. PICK l \in S : new = <<l>>
      BY <2>2
    <3> QED
      BY <3>1
  <2> QED
    BY <2>1, <2>2
<1>4. SubSeq(s, 1, at - 1) \o new \in Seq(S)
  BY <1>1, <1>3
<1> QED
  BY <1>2, <1>4

LEMMA ScratchStart == ASSUME ScratchInit PROVE ScratchInv
<1>1. ToolsTyped
  BY ScratchAssumption DEF ScratchInit, ToolsTyped
<1> QED
  BY <1>1 DEF ScratchInit, ScratchInv, LeftByTools, SweptClean

\* The gate has not run while its sources are edited.
LEMMA ScratchEdits ==
  ASSUME ScratchInv, EditTool \/ EditTrees \/ NarrowPattern
  PROVE  ScratchInv'
<1>1. scanned = "none" /\ scanned' = "none" /\ UNCHANGED <<left, swept>>
  BY DEF EditTool, EditTrees, NarrowPattern
<1>2. left = {}
  BY <1>1 DEF ScratchInv, LeftByTools
<1>3. ToolsTyped'
  <2>1. CASE EditTrees \/ NarrowPattern
    BY <2>1 DEF ScratchInv, ToolsTyped, EditTrees, NarrowPattern
  <2>2. CASE EditTool
    <3>1. PICK t \in DOMAIN tools, over \in 0 .. 1 : \E at \in 1 .. Len(tools[t]) + 1 - over :
            \E new \in {<<l>> : l \in Lines[t]} \cup {<<>>} :
              tools' = [tools EXCEPT ![t] =
                          SubSeq(@, 1, at - 1) \o new \o SubSeq(@, at + over, Len(@))]
      BY <2>2 DEF EditTool
    <3>2. PICK at \in 1 .. Len(tools[t]) + 1 - over, new \in {<<l>> : l \in Lines[t]} \cup {<<>>} :
            tools' = [tools EXCEPT ![t] =
                        SubSeq(@, 1, at - 1) \o new \o SubSeq(@, at + over, Len(@))]
      BY <3>1
    <3>3. t \in DOMAIN Tools /\ tools[t] \in Seq(Written(t))
      BY DEF ScratchInv, ToolsTyped
    <3>4. new \in {<<l>> : l \in Written(t)} \cup {<<>>}
      BY DEF Written
    <3> DEFINE edited == SubSeq(tools[t], 1, at - 1) \o new \o SubSeq(tools[t], at + over, Len(tools[t]))
    <3>5. edited \in Seq(Written(t))
      BY <3>3, <3>4, EditedSequence
    <3>6. tools' = [tools EXCEPT ![t] = edited]
      BY <3>2
    <3> HIDE DEF edited
    <3> QED
      BY <3>3, <3>5, <3>6 DEF ScratchInv, ToolsTyped
  <2> QED
    BY <2>1, <2>2
<1> QED
  BY <1>1, <1>2, <1>3 DEF ScratchInv, LeftByTools, SweptClean

LEMMA ScratchRuns ==
  ASSUME ScratchInv, ScanTools \/ KillTool \/ SweepTrees \/ UNCHANGED scratchVars
  PROVE  ScratchInv'
<1>1. UNCHANGED <<tools, trees, narrowed>>
  BY DEF ScanTools, KillTool, SweepTrees, scratchVars
<1>2. ToolsTyped'
  BY <1>1 DEF ScratchInv, ToolsTyped
<1>3. scanned' = "passed" => Accepts'
  <2>1. Accepts' <=> Accepts
    BY <1>1 DEF Accepts, Control, Covered, Sites, NamesSeen, Assignments
  <2> QED
    BY <2>1 DEF ScratchInv, ScanTools, KillTool, SweepTrees, scratchVars
<1>4. ASSUME NEW t, NEW i PROVE Makes(t, i)' <=> Makes(t, i)
  BY <1>1 DEF Makes
<1>5. LeftByTools'
  <2>1. CASE ScanTools
    BY <1>1, <1>4, <2>1 DEF ScratchInv, LeftByTools, ScanTools
  <2>2. CASE KillTool
    <3>1. PICK t \in DOMAIN tools :
            left' = {[tool |-> t, made |-> tools[t][i]] : i \in {j \in DOMAIN tools[t] : Makes(t, j)}}
      BY <2>2 DEF KillTool
    <3>2. t \in DOMAIN Tools
      BY DEF ScratchInv, ToolsTyped
    <3>3. ASSUME NEW l \in left'
          PROVE  l.tool = t /\ \E i \in DOMAIN tools[t] : Makes(t, i) /\ l.made = tools[t][i]
      BY <3>1
    <3>4. scanned' = "passed"
      BY <2>2 DEF KillTool
    <3> QED
      BY <1>1, <1>4, <3>2, <3>3, <3>4 DEF LeftByTools
  <2>3. CASE SweepTrees
    BY <1>1, <1>4, <2>3 DEF ScratchInv, LeftByTools, SweepTrees
  <2>4. CASE UNCHANGED scratchVars
    BY <1>1, <1>4, <2>4 DEF ScratchInv, LeftByTools, scratchVars
  <2> QED
    BY <2>1, <2>2, <2>3, <2>4
<1>6. SweptClean'
  <2>1. CASE ScanTools \/ UNCHANGED scratchVars
    BY <1>1, <2>1 DEF ScratchInv, SweptClean, ScanTools, scratchVars
  <2>2. CASE KillTool
    BY <2>2 DEF SweptClean, KillTool
  <2>3. CASE SweepTrees
    BY <1>1, <2>3 DEF SweptClean, SweepTrees
  <2> QED
    BY <2>1, <2>2, <2>3
<1> QED
  BY <1>2, <1>3, <1>5, <1>6 DEF ScratchInv

\* What the gate accepted is swept, but for what it documents as hidden.
LEMMA ScratchHidden == ASSUME ScratchInv PROVE OnlyHiddenLeft
<1> SUFFICES ASSUME swept, narrowed \subseteq Fixtures, \A i \in DOMAIN trees : trees[i].star,
                    NEW l \in left, l.made.form # Elsewhere
             PROVE  l.made.form \notin Known /\ l.made.var \notin Expected[l.tool]
  BY DEF OnlyHiddenLeft
<1>1. Accepts
  BY DEF ScratchInv, LeftByTools
<1>2. narrowed = {}
  BY <1>1 DEF Accepts, Control
<1>3. PICK t \in DOMAIN Tools : t = l.tool
  BY DEF ScratchInv, LeftByTools
<1>4. PICK i \in DOMAIN tools[t] : Makes(t, i) /\ l.made = tools[t][i]
  BY <1>3 DEF ScratchInv, LeftByTools
<1>5. t \in DOMAIN tools /\ tools[t][i] \in Written(t)
  BY DEF ScratchInv, ToolsTyped
<1>6. l.made.form \in Forms(t) \ {Comment} \/ l.made.var = ""
  BY <1>4, <1>5, ScratchAssumption DEF Makes
<1>7. l.made.form \notin Known
  <2> SUFFICES ASSUME l.made.form \in Known PROVE FALSE
    OBVIOUS
  <2>1. i \in Sites(t)
    BY <1>2, <1>4 DEF Sites
  <2>2. Covered(l.made.prefix)
    BY <1>1, <1>4, <1>5, <2>1 DEF Accepts
  <2> QED
    BY <2>2 DEF Covered, ScratchInv, SweptClean
<1>8. l.made.var \notin Expected[t]
  <2> SUFFICES ASSUME l.made.var \in Expected[t] PROVE FALSE
    OBVIOUS
  <2>0. t \in DOMAIN Expected
    BY <1>3, ScratchAssumption
  <2>1. PICK j \in Sites(t) : Assignments(t, l.made.var) = {j}
    BY <1>1, <2>0 DEF Accepts
  <2>2. l.made.form \in Plainly \cup (IF Python(t) THEN {} ELSE Rebinding)
    BY <1>6, <1>7, ScratchAssumption DEF Forms
  <2>3. i \in Assignments(t, l.made.var)
    BY <1>2, <1>4, <2>2 DEF Assignments
  <2>4. tools[t][i].form \in Known
    BY <2>1, <2>3 DEF Sites
  <2> QED
    BY <1>4, <1>7, <2>4
<1> QED
  BY <1>3, <1>7, <1>8

(* What a killed tool leaves after `make clean' is hidden from the gate by *)
(* its form, for any tools, expected names, edits and patterns             *)
(* (check_scratch_prefix.py:101-123, 283-375).                             *)
THEOREM HiddenSafety == ScratchSpec => []OnlyHiddenLeft
<1>1. ASSUME ScratchInv, [ScratchNext]_scratchVars PROVE ScratchInv'
  BY <1>1, ScratchEdits, ScratchRuns DEF ScratchNext
<1> QED
  BY <1>1, ScratchStart, ScratchHidden, PTL DEF ScratchSpec

-----------------------------------------------------------------------------
(* What the validation of the reference vouches for *)

\* A set of naturals that is not empty has a least element.
LEMMA LeastPlace ==
  ASSUME NEW T, T \subseteq Nat, T # {}
  PROVE  Min(T) \in T
<1> DEFINE R == OpToRel(<, Nat)
<1>1. \A x \in Nat, y \in Nat : x < y => <<x, y>> \in R
  BY DEF OpToRel
<1>2. IsWellFoundedOn(R, Nat)
  BY NatLessThanWellFounded
<1> HIDE DEF R
<1>3. PICK m \in T : \A y \in T : ~ (<<y, m>> \in R)
  BY <1>2, WFMin
<1>4. \A n \in T : m \in Nat /\ n \in Nat /\ ~ (n < m)
  BY <1>1, <1>3
<1>5. \A n \in T : m =< n
  BY <1>4
<1> QED
  BY <1>3, <1>5 DEF Min

\* w has the elements of s, t and u, and no others.
Merges(w, s, t, u, S) ==
  /\ w \in Seq(S)
  /\ \A i \in DOMAIN t : \E k \in DOMAIN w : w[k] = t[i]
  /\ \A i \in DOMAIN u : \E k \in DOMAIN w : w[k] = u[i]
  /\ \A k \in DOMAIN w :
       \/ \E i \in DOMAIN s : w[k] = s[i]
       \/ \E i \in DOMAIN t : w[k] = t[i]
       \/ \E i \in DOMAIN u : w[k] = u[i]

LEMMA Concatenated ==
  ASSUME NEW S, NEW s \in Seq(S), NEW t \in Seq(S), NEW u \in Seq(S)
  PROVE  Merges(s \o t \o u, s, t, u, S)
<1> DEFINE w == s \o t \o u
<1>1. w \in Seq(S) /\ Len(w) = Len(s) + Len(t) + Len(u)
  OBVIOUS
<1>3. ASSUME NEW i \in DOMAIN t PROVE \E k \in DOMAIN w : w[k] = t[i]
  <2>1. Len(s) + i \in DOMAIN w /\ w[Len(s) + i] = t[i]
    OBVIOUS
  <2> QED
    BY <2>1
<1>4. ASSUME NEW i \in DOMAIN u PROVE \E k \in DOMAIN w : w[k] = u[i]
  <2>1. Len(s) + Len(t) + i \in DOMAIN w /\ w[Len(s) + Len(t) + i] = u[i]
    OBVIOUS
  <2> QED
    BY <2>1
<1>5. ASSUME NEW k \in DOMAIN w
      PROVE  \/ \E i \in DOMAIN s : w[k] = s[i]
             \/ \E i \in DOMAIN t : w[k] = t[i]
             \/ \E i \in DOMAIN u : w[k] = u[i]
  <2>1. CASE k \in 1 .. Len(s)
    BY <2>1
  <2>2. CASE k \in Len(s) + 1 .. Len(s) + Len(t)
    <3>1. k - Len(s) \in DOMAIN t /\ w[k] = t[k - Len(s)]
      BY <2>2
    <3> QED
      BY <3>1
  <2>3. CASE k \in Len(s) + Len(t) + 1 .. Len(w)
    <3>1. k - Len(s) - Len(t) \in DOMAIN u /\ w[k] = u[k - Len(s) - Len(t)]
      BY <1>1, <2>3
    <3> QED
      BY <3>1
  <2> QED
    BY <1>1, <2>1, <2>2, <2>3
<1> QED
  BY <1>1, <1>3, <1>4, <1>5 DEF Merges

Inputs == STRING \cup {"none", "random", "edge", "emptied"}
Pin == [input : Inputs, right : BOOLEAN]
Cases == [pt : Nat, aad : Nat, input : Inputs, pin : Pin]

\* What is left of the file are vectors, in places counted from 1.
FileTyped == DOMAIN vectors \subseteq Nat /\ \A i \in DOMAIN vectors : vectors[i] \in Vector

\* The picks are of the file.
LEMMA PicksRight ==
  ASSUME FileTyped
  PROVE  /\ RfcPicks \in Seq(Vector)
         /\ \A j \in DOMAIN RfcPicks : \E i \in DOMAIN vectors : RfcPicks[j] = vectors[i]
         /\ RfcPicks = <<>> => \A i \in DOMAIN vectors : vectors[i].pt > 0
         /\ RfcPicks # <<>> =>
              RfcPicks[1].pt = 0 \/ \A i \in DOMAIN vectors : vectors[i].pt > 0
<1> DEFINE E == {i \in DOMAIN vectors : vectors[i].pt = 0 /\ vectors[i].aad = 0}
           L == {i \in DOMAIN vectors : vectors[i].pt >= 8}
           One(T) == IF T = {} THEN <<>> ELSE <<vectors[Min(T)]>>
<1>1. RfcPicks = One(E) \o One(L)
  BY DEF RfcPicks, FirstWith
<1>2. E \subseteq DOMAIN vectors /\ L \subseteq DOMAIN vectors
  OBVIOUS
<1>3. ASSUME NEW i \in DOMAIN vectors, vectors[i].pt = 0 PROVE i \in E
  BY <1>3 DEF FileTyped, Vector
<1>4. ASSUME E # {} PROVE vectors[Min(E)].pt = 0 /\ Min(E) \in DOMAIN vectors
  BY <1>4, LeastPlace DEF FileTyped
<1>5. ASSUME L # {} PROVE Min(L) \in DOMAIN vectors
  BY <1>5, LeastPlace DEF FileTyped
<1>6. \A i \in DOMAIN vectors : vectors[i].pt \in Nat
  BY DEF FileTyped, Vector
<1>7. E = {} => \A i \in DOMAIN vectors : vectors[i].pt > 0
  BY <1>3, <1>6
<1> HIDE DEF E, L
<1>8. CASE E = {} /\ L = {}
  BY <1>1, <1>7, <1>8
<1>9. CASE E # {} /\ L = {}
  <2>1. RfcPicks = <<vectors[Min(E)]>>
    BY <1>1, <1>9
  <2> QED
    BY <1>4, <1>9, <2>1 DEF FileTyped
<1>10. CASE E = {} /\ L # {}
  <2>1. RfcPicks = <<vectors[Min(L)]>>
    BY <1>1, <1>10
  <2> QED
    BY <1>5, <1>7, <1>10, <2>1 DEF FileTyped
<1>11. CASE E # {} /\ L # {}
  <2>1. PICK x \in Vector : x = vectors[Min(E)]
    BY <1>4, <1>11 DEF FileTyped
  <2>2. PICK y \in Vector : y = vectors[Min(L)]
    BY <1>5, <1>11 DEF FileTyped
  <2>3. RfcPicks = <<x>> \o <<y>>
    BY <1>1, <1>11, <2>1, <2>2
  <2>4. /\ RfcPicks \in Seq(Vector) /\ DOMAIN RfcPicks = 1 .. 2
        /\ RfcPicks[1] = x /\ RfcPicks[2] = y
    BY <2>3
  <2> QED
    BY <1>4, <1>5, <1>11, <2>1, <2>2, <2>4
<1> QED
  BY <1>8, <1>9, <1>10, <1>11

AllCases == RfcCases \o RandomCases \o EdgeCases(RfcCases[1])

\* Kinds of input that some case has.
Tried == {<<"empty", "empty">>, <<"whole", "empty">>, <<"partial", "empty">>,
          <<"partial", "partial">>, <<"partial", "whole">>}

LEMMA LengthKindsRight ==
  /\ KindOfLength(0) = "empty" /\ KindOfLength(1) = "partial"
  /\ KindOfLength(16) = "whole" /\ KindOfLength(17) = "partial"
  /\ \A n \in Nat : KindOfLength(n) = "empty" <=> n = 0
<1>1. ASSUME NEW n \in Nat
      PROVE  /\ n = 0 => KindOfLength(n) = "empty"
             /\ n > 0 /\ n % 16 = 0 => KindOfLength(n) = "whole"
             /\ n > 0 /\ n % 16 # 0 => KindOfLength(n) = "partial"
  BY DEF KindOfLength
<1>2. 1 % 16 # 0 /\ 16 % 16 = 0 /\ 17 % 16 # 0
  OBVIOUS
<1>3. KindOfLength(0) = "empty"
  BY <1>1
<1>4. KindOfLength(1) = "partial"
  BY <1>1, <1>2
<1>5. KindOfLength(16) = "whole"
  BY <1>1, <1>2
<1>6. KindOfLength(17) = "partial"
  BY <1>1, <1>2
<1>7. \A n \in Nat : KindOfLength(n) = "empty" <=> n = 0
  BY <1>1
<1> QED
  BY <1>3, <1>4, <1>5, <1>6, <1>7

LEMMA CaseRight ==
  ASSUME NEW pt \in Nat, NEW aad \in Nat, NEW input \in Inputs, NEW pin \in Pin
  PROVE  /\ Case(pt, aad, input, pin) \in Cases
         /\ Case(pt, aad, input, pin).pt = pt /\ Case(pt, aad, input, pin).aad = aad
         /\ Case(pt, aad, input, pin).input = input /\ Case(pt, aad, input, pin).pin = pin
  BY DEF Case, Cases

LEMMA NoPinTyped == NoPin \in Pin
<1>1. "none" \in Inputs
  BY DEF Inputs
<1>2. FALSE \in BOOLEAN
  OBVIOUS
<1> QED
  BY <1>1, <1>2 DEF NoPin, Pin

\* The cases are of every kind that is tried; a case without text has a
\* pick's bytes, or no vector is without text.
LEMMA CasesRight ==
  ASSUME FileTyped, RfcPicks # <<>>
  PROVE  /\ RfcCases # <<>> /\ AllCases \in Seq(Cases)
         /\ \A d \in Tried : \E k \in DOMAIN AllCases :
              /\ KindOfLength(AllCases[k].pt) = d[1] /\ KindOfLength(AllCases[k].aad) = d[2]
              /\ d[1] = "empty" =>
                   \E i \in DOMAIN vectors : AllCases[k].pin.right = vectors[i].pinned
         /\ \A k \in DOMAIN AllCases : AllCases[k].pt = 0 =>
              \/ /\ AllCases[k].pin.input = AllCases[k].input
                 /\ \E i \in DOMAIN vectors : AllCases[k].pin.right = vectors[i].pinned
              \/ \A i \in DOMAIN vectors : vectors[i].pt > 0
<1> DEFINE r == RfcCases
           s == RandomCases
           e == EdgeCases(RfcCases[1])
<1>1. /\ RfcPicks \in Seq(Vector)
      /\ \A j \in DOMAIN RfcPicks : \E i \in DOMAIN vectors : RfcPicks[j] = vectors[i]
      /\ RfcPicks[1].pt = 0 \/ \A i \in DOMAIN vectors : vectors[i].pt > 0
  BY PicksRight
<1>2. PICK first \in Vector : first = RfcPicks[1] /\ \E i \in DOMAIN vectors : first = vectors[i]
  BY <1>1
<1>3. \A v \in Vector : /\ OfVector(v) \in Cases
                       /\ OfVector(v).pt = v.pt /\ OfVector(v).input = v.input
                       /\ OfVector(v).pin.input = v.input /\ OfVector(v).pin.right = v.pinned
  BY DEF OfVector, Case, Cases, Pin, Vector, Inputs
<1>4. /\ r \in Seq(Cases) /\ DOMAIN r = DOMAIN RfcPicks
      /\ \A j \in DOMAIN r : r[j] = OfVector(RfcPicks[j])
  BY <1>1, <1>3 DEF RfcCases
<1>5. 1 \in DOMAIN RfcPicks /\ r[1] = OfVector(first) /\ r # <<>>
  BY <1>1, <1>2, <1>4
<1>6. /\ s \in Seq(Cases) /\ DOMAIN s = DOMAIN RandomLengths
      /\ \A j \in DOMAIN s : s[j].pt = RandomLengths[j].pt /\ s[j].aad = RandomLengths[j].aad
                              /\ s[j].pt > 0
  <2>1. RandomLengths \in Seq([pt : Nat \ {0}, aad : Nat])
    BY SanityAssumption
  <2>2. \A j \in DOMAIN RandomLengths :
          /\ s[j] \in Cases /\ s[j].pt = RandomLengths[j].pt
          /\ s[j].aad = RandomLengths[j].aad /\ s[j].pt > 0
    <3>1. ASSUME NEW j \in DOMAIN RandomLengths
          PROVE  /\ s[j] \in Cases /\ s[j].pt = RandomLengths[j].pt
                 /\ s[j].aad = RandomLengths[j].aad /\ s[j].pt > 0
      <4>0. RandomLengths[j] \in [pt : Nat \ {0}, aad : Nat]
        <5> DEFINE T == [pt : Nat \ {0}, aad : Nat]
        <5>1. RandomLengths \in Seq(T) /\ j \in DOMAIN RandomLengths
          BY <2>1
        <5> HIDE DEF T
        <5>2. RandomLengths[j] \in T
          BY <5>1
        <5> QED
          BY <5>2 DEF T
      <4>1. PICK n \in Nat \ {0} : n = RandomLengths[j].pt
        BY <4>0
      <4>5. PICK more \in Nat : more = RandomLengths[j].aad
        BY <4>0
      <4>2. s[j] = Case(n, more, "random", NoPin)
        BY <4>1, <4>5 DEF RandomCases
      <4>3. PICK input \in Inputs : input = "random"
        BY DEF Inputs
      <4>4. s[j] = Case(n, more, input, NoPin)
        BY <4>2, <4>3
      <4> HIDE DEF s
      <4> QED
        BY <4>1, <4>4, <4>5, CaseRight, NoPinTyped
    <3> QED
      BY <3>1
  <2>3. /\ s = [j \in 1 .. Len(RandomLengths) |-> s[j]] /\ Len(RandomLengths) \in Nat
        /\ DOMAIN s = DOMAIN RandomLengths /\ DOMAIN s = 1 .. Len(RandomLengths)
    BY <2>1 DEF RandomCases
  <2> HIDE DEF s
  <2>4. \A j \in 1 .. Len(RandomLengths) : s[j] \in Cases
    BY <2>2, <2>3
  <2>5. s \in Seq(Cases)
    BY <2>3, <2>4
  <2> QED
    BY <2>2, <2>3, <2>5
<1>7. /\ e \in Seq(Cases) /\ DOMAIN e = 1 .. 4
      /\ e[1].pt = 0 /\ e[1].aad = 0 /\ e[1].pin = r[1].pin
      /\ r[1].pt = 0 => e[1].input = r[1].input
      /\ e[2].pt = 1 /\ e[2].aad = 0 /\ e[3].pt = 16 /\ e[3].aad = 0
      /\ e[4].pt = 17 /\ e[4].aad = 0
  <2>1. r[1] \in Cases
    BY <1>4, <1>5
  <2> DEFINE one == Case(0, 0, IF r[1].pt = 0 THEN r[1].input ELSE "emptied", r[1].pin)
             two == Case(1, 0, "edge", NoPin)
             three == Case(16, 0, "edge", NoPin)
             four == Case(17, 0, "edge", NoPin)
  <2>2. one \in Cases
    <3>1. r[1].input \in Inputs /\ r[1].pin \in Pin
      BY <2>1 DEF Cases
    <3>2. PICK input \in Inputs : input = IF r[1].pt = 0 THEN r[1].input ELSE "emptied"
      BY <3>1 DEF Inputs
    <3>3. one = Case(0, 0, input, r[1].pin)
      BY <3>2
    <3> HIDE DEF one, r, e
    <3> QED
      BY <3>1, <3>3, CaseRight
  <2>5. two \in Cases /\ three \in Cases /\ four \in Cases
    <3>1. PICK input \in Inputs : input = "edge"
      BY DEF Inputs
    <3>2. two = Case(1, 0, input, NoPin) /\ three = Case(16, 0, input, NoPin)
                                       /\ four = Case(17, 0, input, NoPin)
      BY <3>1
    <3> HIDE DEF two, three, four
    <3> QED
      BY <3>2, CaseRight, NoPinTyped
  <2>3. /\ one.pt = 0 /\ one.aad = 0 /\ one.pin = r[1].pin
        /\ r[1].pt = 0 => one.input = r[1].input
        /\ two.pt = 1 /\ two.aad = 0 /\ three.pt = 16 /\ three.aad = 0
        /\ four.pt = 17 /\ four.aad = 0
    BY DEF Case
  <2>4. e = <<one, two, three, four>>
    BY DEF EdgeCases
  <2> HIDE DEF one, two, three, four, e
  <2> QED
    BY <2>2, <2>3, <2>4, <2>5
<1> HIDE DEF r, s, e
<1>8. AllCases = r \o s \o e
  BY DEF AllCases, r, s, e
<1>9. /\ AllCases \in Seq(Cases)
      /\ \A i \in DOMAIN s : \E k \in DOMAIN AllCases : AllCases[k] = s[i]
      /\ \A i \in DOMAIN e : \E k \in DOMAIN AllCases : AllCases[k] = e[i]
      /\ \A k \in DOMAIN AllCases :
           \/ \E i \in DOMAIN r : AllCases[k] = r[i]
           \/ \E i \in DOMAIN s : AllCases[k] = s[i]
           \/ \E i \in DOMAIN e : AllCases[k] = e[i]
  <2>1. PICK x \in Seq(Cases) : x = r
    BY <1>4
  <2>2. PICK y \in Seq(Cases) : y = s
    BY <1>6
  <2>3. PICK z \in Seq(Cases) : z = e
    BY <1>7
  <2>4. Merges(x \o y \o z, x, y, z, Cases)
    BY Concatenated
  <2>5. Merges(AllCases, r, s, e, Cases)
    BY <1>8, <2>1, <2>2, <2>3, <2>4
  <2> QED
    BY <2>5 DEF Merges
<1>10. ASSUME NEW d \in Tried
       PROVE  \E k \in DOMAIN AllCases :
                /\ KindOfLength(AllCases[k].pt) = d[1] /\ KindOfLength(AllCases[k].aad) = d[2]
                /\ d[1] = "empty" =>
                     \E i \in DOMAIN vectors : AllCases[k].pin.right = vectors[i].pinned
  <2>1. CASE d = <<"empty", "empty">>
    <3>1. PICK k \in DOMAIN AllCases : AllCases[k] = e[1]
      BY <1>7, <1>9
    <3>2. AllCases[k].pin.right = first.pinned
      BY <1>3, <1>5, <1>7, <3>1
    <3> QED
      BY <1>2, <1>7, <2>1, <3>1, <3>2, LengthKindsRight
  <2>2. CASE d = <<"whole", "empty">>
    <3>1. PICK k \in DOMAIN AllCases : AllCases[k] = e[3]
      BY <1>7, <1>9
    <3> QED
      BY <1>7, <2>2, <3>1, LengthKindsRight
  <2>3. CASE d = <<"partial", "empty">>
    <3>1. PICK k \in DOMAIN AllCases : AllCases[k] = e[2]
      BY <1>7, <1>9
    <3> QED
      BY <1>7, <2>3, <3>1, LengthKindsRight
  <2>4. CASE d[1] = "partial" /\ d[2] \in {"partial", "whole"}
    <3>1. PICK i \in DOMAIN RandomLengths :
            KindOfLength(RandomLengths[i].pt) = "partial" /\ KindOfLength(RandomLengths[i].aad) = d[2]
      BY <2>4, SanityAssumption
    <3>2. PICK k \in DOMAIN AllCases : AllCases[k] = s[i]
      BY <1>6, <1>9
    <3> QED
      BY <1>6, <2>4, <3>1, <3>2
  <2> QED
    BY <2>1, <2>2, <2>3, <2>4 DEF Tried
<1>11. ASSUME NEW k \in DOMAIN AllCases, AllCases[k].pt = 0, NEW n \in DOMAIN vectors, vectors[n].pt = 0
       PROVE  /\ AllCases[k].pin.input = AllCases[k].input
              /\ \E i \in DOMAIN vectors : AllCases[k].pin.right = vectors[i].pinned
  <2>1. CASE \E i \in DOMAIN r : AllCases[k] = r[i]
    <3>1. PICK j \in DOMAIN r : AllCases[k] = r[j]
      BY <2>1
    <3>2. PICK i \in DOMAIN vectors : RfcPicks[j] = vectors[i]
      BY <1>1, <1>4
    <3>3. vectors[i] \in Vector
      BY DEF FileTyped
    <3> QED
      BY <1>3, <1>4, <3>1, <3>2, <3>3
  <2>2. CASE \E i \in DOMAIN s : AllCases[k] = s[i]
    BY <1>6, <1>11, <2>2
  <2>3. CASE \E i \in DOMAIN e : AllCases[k] = e[i]
    <3>1. AllCases[k] = e[1]
      BY <1>7, <1>11, <2>3
    <3>2. first.pt = 0
      BY <1>1, <1>2, <1>11
    <3>3. AllCases[k].pin.input = AllCases[k].input /\ AllCases[k].pin.right = first.pinned
      BY <1>3, <1>5, <1>7, <3>1, <3>2
    <3> QED
      BY <1>2, <3>3
  <2> QED
    BY <1>9, <2>1, <2>2, <2>3
<1>12. \A i \in DOMAIN vectors : vectors[i].pt \in Nat
  BY DEF FileTyped, Vector
<1> QED
  BY <1>5, <1>9, <1>10, <1>11, <1>12 DEF r
\* Once the cases are built, those before the next one agreed, but the last
\* one if the run died of it.
CasesHeld ==
  /\ RfcPicks # <<>> /\ cases = AllCases
  /\ \A k \in DOMAIN cases : k < next => Agreed(cases[k]) \/ (sane = "died" /\ k = next - 1)
  /\ sane = "passed" => next = Len(cases) + 1
  /\ sane = "died" => next - 1 \in DOMAIN cases /\ ~Agreed(cases[next - 1])

SanityInv ==
  /\ reference \subseteq Defects /\ external \subseteq Defects /\ FileTyped /\ next \in Nat
  /\ next = 0 => cases = <<>> /\ sane # "passed" /\ (sane = "died" => RfcPicks = <<>>)
  /\ next # 0 => CasesHeld

LEMMA SanityStart == ASSUME SanityInit PROVE SanityInv
<1>1. FileTyped
  BY SanityAssumption DEF SanityInit, FileTyped
<1> QED
  BY <1>1 DEF SanityInit, SanityInv

\* An edit of the file leaves vectors in it.
LEMMA FileEdited == ASSUME FileTyped, EditVectors PROVE FileTyped'
<1>1. PICK i \in DOMAIN vectors :
        vectors' \in {Restrict(vectors, DOMAIN vectors \ {i}),
                      Restrict(vectors, {j \in DOMAIN vectors : vectors[j].pt # vectors[i].pt}),
                      [vectors EXCEPT ![i].pinned = FALSE]}
  BY DEF EditVectors
<1>2. ASSUME NEW T, T \subseteq DOMAIN vectors, vectors' = Restrict(vectors, T)
      PROVE  FileTyped'
  BY <1>2 DEF FileTyped, Restrict
<1>3. CASE vectors' = [vectors EXCEPT ![i].pinned = FALSE]
  <2> DEFINE v == vectors[i]
             edited == [v EXCEPT !.pinned = FALSE]
  <2>1. v \in Vector
    BY DEF FileTyped
  <2>2. edited \in Vector
    BY <2>1 DEF Vector
  <2>3. vectors' = [vectors EXCEPT ![i] = edited]
    BY <1>3
  <2> HIDE DEF edited
  <2> QED
    BY <2>2, <2>3 DEF FileTyped
<1>4. CASE vectors' = Restrict(vectors, DOMAIN vectors \ {i})
  BY <1>2, <1>4
<1>5. CASE vectors' = Restrict(vectors, {j \in DOMAIN vectors : vectors[j].pt # vectors[i].pt})
  BY <1>2, <1>5
<1> QED
  BY <1>1, <1>3, <1>4, <1>5

LEMMA SanityFaults ==
  ASSUME SanityInv, BreakReference \/ BreakLibrary \/ EditVectors
  PROVE  SanityInv'
<1>1. next = 0 /\ next' = 0 /\ sane' = "none" /\ cases' = cases
  BY DEF BreakReference, BreakLibrary, EditVectors, Fault
<1>2. reference' \subseteq Defects /\ external' \subseteq Defects
  BY DEF SanityInv, BreakReference, BreakLibrary, EditVectors
<1>3. FileTyped'
  <2>1. CASE EditVectors
    BY <2>1, FileEdited DEF SanityInv
  <2>2. CASE BreakReference \/ BreakLibrary
    BY <2>2 DEF SanityInv, FileTyped, BreakReference, BreakLibrary
  <2> QED
    BY <2>1, <2>2
<1> QED
  BY <1>1, <1>2, <1>3 DEF SanityInv

LEMMA SanityRun ==
  ASSUME SanityInv, BuildCases \/ CheckCase \/ UNCHANGED sanityVars
  PROVE  SanityInv'
<1>1. UNCHANGED <<reference, external, vectors>>
  BY DEF BuildCases, CheckCase, sanityVars
<1>2. FileTyped' /\ RfcPicks' = RfcPicks /\ RfcCases' = RfcCases /\ AllCases' = AllCases
  <2>1. RfcPicks' = RfcPicks
    BY <1>1 DEF RfcPicks, FirstWith
  <2>2. RfcCases' = RfcCases
    BY <2>1 DEF RfcCases
  <2> QED
    BY <1>1, <2>1, <2>2 DEF SanityInv, FileTyped, AllCases
<1>3. ASSUME NEW c PROVE Agreed(c)' <=> Agreed(c)
  BY <1>1 DEF Agreed, Encrypted, Shows
<1>4. RfcCases = <<>> <=> RfcPicks = <<>>
  <2>1. RfcPicks = <<>> => RfcCases = <<>>
    BY DEF RfcCases
  <2> QED
    BY <2>1, CasesRight DEF SanityInv
<1>5. next' \in Nat
  BY DEF SanityInv, BuildCases, CheckCase, sanityVars
<1>6. CASE BuildCases
  <2>1. CASE RfcCases = <<>>
    BY <1>1, <1>2, <1>4, <1>5, <1>6, <2>1 DEF SanityInv, BuildCases
  <2>2. CASE RfcCases # <<>>
    <3>1. cases' = AllCases /\ next' = 1 /\ sane' = "none"
      BY <1>6, <2>2 DEF BuildCases, AllCases
    <3>2. AllCases \in Seq(Cases)
      BY <1>4, <2>2, CasesRight DEF SanityInv
    <3>3. \A k \in DOMAIN cases' : ~ (k < next')
      BY <3>1, <3>2
    <3>4. CasesHeld'
      BY <1>2, <1>4, <2>2, <3>1, <3>3 DEF CasesHeld
    <3> QED
      BY <1>1, <1>2, <1>5, <3>1, <3>4 DEF SanityInv
  <2> QED
    BY <2>1, <2>2
<1>7. CASE CheckCase
  <2>1. next \in DOMAIN cases /\ sane = "none" /\ next' = next + 1 /\ cases' = cases
    BY <1>7 DEF CheckCase
  <2>2. CASE next = 0
    BY <2>1, <2>2 DEF SanityInv
  <2>3. CASE next # 0
    <3>1. CasesHeld /\ cases \in Seq(Cases)
      BY <2>3, CasesRight DEF SanityInv, CasesHeld
    <3>2. next \in Nat /\ next + 1 - 1 = next
      BY DEF SanityInv
    <3>3. /\ sane' = "passed" => next = Len(cases) /\ Agreed(cases[next])
          /\ sane' = "died" <=> ~Agreed(cases[next])
      BY <1>7 DEF CheckCase
    <3>4. ASSUME NEW k \in DOMAIN cases, k < next + 1
          PROVE  Agreed(cases[k]) \/ (sane' = "died" /\ k = next)
      <4>1. k < next \/ k = next
        BY <3>1, <3>2, <3>4
      <4> QED
        BY <2>1, <3>1, <3>3, <4>1 DEF CasesHeld
    <3>5. CasesHeld'
      <4>1. RfcPicks' # <<>> /\ cases' = AllCases'
        BY <1>2, <2>1, <3>1 DEF CasesHeld
      <4>2. (\A k \in DOMAIN cases :
               k < next => Agreed(cases[k]) \/ (sane = "died" /\ k = next - 1))'
        BY <1>3, <2>1, <3>2, <3>4
      <4>3. (sane = "passed" => next = Len(cases) + 1)'
        BY <2>1, <3>3
      <4>4. (sane = "died" => next - 1 \in DOMAIN cases /\ ~Agreed(cases[next - 1]))'
        <5>1. cases'[next' - 1] = cases[next] /\ next' - 1 = next
          BY <2>1, <3>2
        <5>2. Agreed(cases[next - 1])' <=> Agreed(cases[next])
          BY <1>3, <5>1
        <5> QED
          BY <2>1, <3>3, <5>1, <5>2
      <4> QED
        BY <2>1, <4>1, <4>2, <4>3, <4>4 DEF CasesHeld
    <3> QED
      BY <1>1, <1>2, <1>5, <2>1, <3>2, <3>5 DEF SanityInv
  <2> QED
    BY <2>2, <2>3
<1>8. CASE UNCHANGED sanityVars
  BY <1>1, <1>2, <1>3, <1>8 DEF sanityVars, SanityInv, CasesHeld
<1> QED
  BY <1>6, <1>7, <1>8

\* What a run that passed says of a defect.
LEMMA PassedVouches ==
  ASSUME SanityInv, sane = "passed", NEW d \in reference
  PROVE  \/ d.part = "forged" \/ Untried(d)
         \/ d.part = "encrypt" /\ IF d.pt = "empty" THEN \E i \in DOMAIN vectors : ~vectors[i].pinned
                                                    ELSE d \in external
<1> SUFFICES ASSUME d.part # "forged", ~Untried(d)
             PROVE  d.part = "encrypt" /\ IF d.pt = "empty" THEN \E i \in DOMAIN vectors : ~vectors[i].pinned
                                                            ELSE d \in external
  OBVIOUS
<1>1. CasesHeld /\ next = Len(cases) + 1 /\ cases = AllCases
  BY DEF SanityInv, CasesHeld
<1>2. d \in Defects
  BY DEF SanityInv
<1>3. <<d.pt, d.aad>> \in Tried
  BY <1>2 DEF Defects, LengthKinds, Untried, Tried
<1>4. PICK k \in DOMAIN AllCases :
        /\ KindOfLength(AllCases[k].pt) = d.pt /\ KindOfLength(AllCases[k].aad) = d.aad
        /\ d.pt = "empty" => \E i \in DOMAIN vectors : AllCases[k].pin.right = vectors[i].pinned
  <2>1. PICK q \in Tried : q = <<d.pt, d.aad>> /\ q[1] = d.pt /\ q[2] = d.aad
    BY <1>3
  <2> QED
    BY <1>1, <2>1, CasesRight DEF SanityInv, CasesHeld
<1>5. AllCases \in Seq(Cases)
  BY <1>1, CasesRight DEF SanityInv, CasesHeld
<1>6. PICK c \in Cases : c = AllCases[k]
  BY <1>5
<1>7. Agreed(c)
  BY <1>1, <1>5, <1>6 DEF CasesHeld
<1>8. Shows(reference, d.part, c)
  <2>1. d = [part |-> d.part, pt |-> d.pt, aad |-> d.aad]
    BY <1>2 DEF Defects
  <2> QED
    BY <1>4, <1>6, <2>1 DEF Shows
<1>9. d.part = "encrypt"
  BY <1>2, <1>7, <1>8 DEF Agreed, Defects, Parts
<1>10. CASE d.pt = "empty"
  <2>1. c.pt = 0
    BY <1>4, <1>6, <1>10, LengthKindsRight DEF Cases
  <2>2. Encrypted(reference, c) = c.pin
    BY <1>7, <2>1 DEF Agreed
  <2>3. c.pin.right = FALSE
    <3>1. (~Shows(reference, "encrypt", c)) = FALSE
      BY <1>8, <1>9
    <3>2. c.pin = [input |-> c.input, right |-> FALSE]
      BY <2>2, <3>1 DEF Encrypted
    <3> QED
      BY <3>2
  <2>4. PICK i \in DOMAIN vectors : c.pin.right = vectors[i].pinned
    BY <1>4, <1>6, <1>10
  <2> QED
    BY <1>9, <1>10, <2>3, <2>4
<1>11. CASE d.pt # "empty"
  <2>1. c.pt > 0
    BY <1>4, <1>6, <1>11, LengthKindsRight DEF Cases
  <2>2. Encrypted(reference, c) = Encrypted(external, c)
    BY <1>7, <2>1 DEF Agreed
  <2>3. Shows(external, "encrypt", c)
    BY <1>8, <1>9, <2>2 DEF Encrypted
  <2>4. d = [part |-> "encrypt", pt |-> KindOfLength(c.pt), aad |-> KindOfLength(c.aad)]
    BY <1>2, <1>4, <1>6, <1>9 DEF Defects
  <2> QED
    BY <1>9, <1>11, <2>3, <2>4 DEF Shows
<1> QED
  BY <1>10, <1>11

\* What a run says that died although both implementations are right.
LEMMA DiedRightly ==
  ASSUME SanityInv, sane = "died", reference = {}, external = {}
  PROVE  \/ \E i \in DOMAIN vectors : ~vectors[i].pinned
         \/ \A i \in DOMAIN vectors : vectors[i].pt > 0
<1>1. CASE next = 0
  BY <1>1, PicksRight DEF SanityInv
<1>2. CASE next # 0
  <2>1. CasesHeld /\ cases = AllCases
    BY <1>2 DEF SanityInv, CasesHeld
  <2>2. PICK k \in DOMAIN AllCases : ~Agreed(AllCases[k])
    BY <2>1 DEF CasesHeld
  <2>3. AllCases \in Seq(Cases)
    BY <2>1, CasesRight DEF SanityInv, CasesHeld
  <2>4. PICK c \in Cases : c = AllCases[k]
    BY <2>3
  <2>5. ASSUME NEW part PROVE ~Shows(reference, part, c) /\ ~Shows(external, part, c)
    BY DEF Shows
  <2>6. c.pt = 0
    <3>1. Encrypted(reference, c) = Encrypted(external, c)
      BY DEF Encrypted, Shows
    <3>2. ~ (c.pt > 0)
      BY <2>2, <2>4, <2>5, <3>1 DEF Agreed
    <3> QED
      BY <3>2 DEF Cases
  <2>7. CASE c.pin.input = c.input /\ \E i \in DOMAIN vectors : c.pin.right = vectors[i].pinned
    <3>1. PICK i \in DOMAIN vectors : c.pin.right = vectors[i].pinned
      BY <2>7
    <3>2. CASE c.pin.right
      <4>1. c.pin \in Pin
        BY DEF Cases
      <4>2. c.pin.right = TRUE
        BY <3>2, <4>1 DEF Pin
      <4>3. c.pin = [input |-> c.input, right |-> TRUE]
        BY <2>7, <4>1, <4>2 DEF Pin
      <4>4. Encrypted(reference, c) = c.pin
        BY <2>5, <4>3 DEF Encrypted
      <4>5. c.pin # NoPin
        BY <4>2 DEF NoPin
      <4> QED
        BY <2>2, <2>4, <2>5, <2>6, <4>4, <4>5 DEF Agreed
    <3>3. CASE ~c.pin.right
      BY <3>1, <3>3
    <3> QED
      BY <3>2, <3>3
  <2> QED
    BY <2>1, <2>4, <2>6, <2>7, CasesRight DEF SanityInv, CasesHeld
<1> QED
  BY <1>1, <1>2

(* A check that passes vouches for the reference, and one that dies of     *)
(* right implementations says which vector is missing or mistyped, for any *)
(* vectors, edits and defects and for any lengths of the random cases that *)
(* have partial blocks (reference_sanity.py:53-87, 90-118, 140-178).       *)
THEOREM VouchedSafety == SanitySpec => []ReferenceVouched
<1>1. ASSUME SanityInv, [SanityNext]_sanityVars PROVE SanityInv'
  BY <1>1, SanityFaults, SanityRun DEF SanityNext
<1>2. ASSUME SanityInv PROVE ReferenceVouched
  BY <1>2, PassedVouches, DiedRightly DEF ReferenceVouched
<1> QED
  BY <1>1, <1>2, SanityStart, PTL DEF SanitySpec

-----------------------------------------------------------------------------
(* What a consumer of the composing build gets *)

Precalc == "precalc_manifest.o"

\* Arm i keeps its prefixed names and loses the others.
ArmSuppressed(i) ==
  \A o \in Objects : Suppressed(Exports(o, Arms[i], "default"), Exports(o, Arms[i], "nobare"))

\* The tables of arm i are described, with their values.
ArmTabled(i) ==
  LET dump == Exports(Precalc, Arms[i], "nobare")
  IN  dump.valued /\ dump.prefixed \subseteq Described

ArmLinks(i) == Arms[i].aead => ConsumerLinks(Arms[i])

\* Arms that are through each leg of the loop.
Through(steps) == IF stepOf \in steps THEN turn ELSE turn - 1
Compared == Through({"values", "link", "conclude"})
TabledArms == Through({"link", "conclude"})
Linked == Through({"conclude"})

Dumped(m) == snap[m] = [o \in Objects |-> Exports(o, Arms[turn], m)]

Looping == {"clean", "build", "dump", "compare", "values", "link", "conclude"}

\* The tree holds what was built last; the dumps are of this arm.
TreeHeld ==
  /\ stepOf = "build" => built = {}
  /\ stepOf = "dump" => \A q \in built : q.arm = Arms[turn] /\ q.buildMode = buildMode
  /\ stepOf \in {"compare", "values", "link"} =>
       buildMode = "default" /\ \A q \in built : q.arm = Arms[turn]
  /\ buildMode = "nobare" => Dumped("default")
  /\ stepOf \in {"compare", "values"} => Dumped("default") /\ Dumped("nobare")

LoopHeld ==
  /\ composed = "none" /\ Reconciled /\ turn \in DOMAIN Arms /\ buildMode \in Modes
  /\ DOMAIN snap = Modes /\ failures \in Nat
  /\ stepOf = "conclude" => turn = Len(Arms)
  /\ failures = 0 => \A i \in 1 .. Compared : ArmSuppressed(i)
  /\ perArm \in Seq(SUBSET Described) /\ Len(perArm) = TabledArms
  /\ \A i \in 1 .. TabledArms :
       ArmTabled(i) /\ perArm[i] = Exports(Precalc, Arms[i], "nobare").prefixed
  /\ \A i \in 1 .. Linked : ArmLinks(i)
  /\ TreeHeld

\* Every table is once in the manifest, and has one row.
Unique ==
  /\ \A u, v \in manifest : u.table = v.table => u = v
  /\ "rows" \in DOMAIN documents
  /\ \A q, r \in documents.rows : q.table = r.table => q = r

\* Nothing has been built.
Fresh ==
  /\ composed = "none" /\ buildMode = "default" /\ DOMAIN snap = Modes
  /\ perArm = <<>> /\ failures = 0

ComposingInv ==
  /\ Unique /\ stepOf \in {"start", "end"} \cup Looping
  /\ stepOf = "start" => Fresh
  /\ stepOf \in Looping => LoopHeld
  /\ ConsumerGetsDocumented /\ (composed = "passed" => stepOf = "end")

LEMMA ComposingStart == ASSUME ComposingInit PROVE ComposingInv
<1>1. Unique
  BY ComposingAssumption DEF ComposingInit, Unique
<1>2. Fresh /\ stepOf = "start"
  BY DEF ComposingInit, Fresh
<1> QED
  BY <1>1, <1>2 DEF ComposingInv, Fresh, ConsumerGetsDocumented, Looping

\* One side has moved before the gate started.
LEMMA ComposingDrifts ==
  ASSUME ComposingInv, DriftManifest \/ DriftBuild \/ DriftDocuments
  PROVE  ComposingInv'
<1>1. stepOf = "start" /\ stepOf' = "start" /\ UNCHANGED <<buildMode, snap, perArm, failures, composed>>
  BY DEF DriftManifest, DriftBuild, DriftDocuments, Drift
<1>2. Fresh'
  BY <1>1 DEF ComposingInv, Fresh
<1>3. Unique'
  <2>1. CASE DriftManifest
    <3>1. PICK t \in Tables, w \in {"always", "aes", "bare"} \cup Profiles, f \in Facts, keep \in BOOLEAN :
            manifest' = IF keep THEN {u \in manifest : u.table # t} \cup {[table |-> t, when |-> w, facts |-> f]}
                                ELSE {u \in manifest : u.table # t}
      BY <2>1 DEF DriftManifest
    <3>2. UNCHANGED documents
      BY <2>1 DEF DriftManifest
    <3>3. ASSUME NEW u \in manifest', NEW v \in manifest', u.table = v.table PROVE u = v
      <4> DEFINE added == [table |-> t, when |-> w, facts |-> f]
      <4>1. added.table = t
        OBVIOUS
      <4>2. (u \in manifest /\ u.table # t) \/ u = added
        BY <3>1
      <4>3. (v \in manifest /\ v.table # t) \/ v = added
        BY <3>1
      <4> HIDE DEF added
      <4> QED
        BY <3>3, <4>1, <4>2, <4>3 DEF ComposingInv, Unique
    <3> QED
      BY <3>2, <3>3 DEF ComposingInv, Unique
  <2>2. CASE DriftBuild
    BY <2>2 DEF ComposingInv, Unique, DriftBuild
  <2>3. CASE DriftDocuments
    <3>1. UNCHANGED manifest
      BY <2>3 DEF DriftDocuments
    <3>2. CASE \E t \in Tables, f \in Facts, p \in Specs, keep \in BOOLEAN :
                 LET rest == {r \in documents.rows : r.table # t}
                 IN  documents' = [documents EXCEPT !.rows =
                        IF keep THEN rest \cup {[table |-> t, facts |-> f, spec |-> p]} ELSE rest]
      <4>1. PICK t \in Tables, f \in Facts, p \in Specs, keep \in BOOLEAN :
              documents' = [documents EXCEPT !.rows =
                 IF keep THEN {r \in documents.rows : r.table # t} \cup {[table |-> t, facts |-> f, spec |-> p]}
                         ELSE {r \in documents.rows : r.table # t}]
        BY <3>2
      <4> DEFINE added == [table |-> t, facts |-> f, spec |-> p]
                 rows == IF keep THEN {r \in documents.rows : r.table # t} \cup {added}
                                 ELSE {r \in documents.rows : r.table # t}
      <4>2. documents' = [documents EXCEPT !.rows = rows]
        BY <4>1
      <4>3. added.table = t
        OBVIOUS
      <4>4. \A q \in rows : (q \in documents.rows /\ q.table # t) \/ q = added
        OBVIOUS
      <4> HIDE DEF added, rows
      <4>5. "rows" \in DOMAIN documents' /\ documents'.rows = rows
        BY <4>2 DEF ComposingInv, Unique
      <4>6. ASSUME NEW q \in rows, NEW r \in rows, q.table = r.table PROVE q = r
        BY <4>3, <4>4, <4>6 DEF ComposingInv, Unique
      <4> QED
        BY <3>1, <4>5, <4>6 DEF ComposingInv, Unique
    <3>3. CASE ~ \E t \in Tables, f \in Facts, p \in Specs, keep \in BOOLEAN :
                 LET rest == {r \in documents.rows : r.table # t}
                 IN  documents' = [documents EXCEPT !.rows =
                        IF keep THEN rest \cup {[table |-> t, facts |-> f, spec |-> p]} ELSE rest]
      <4>1. PICK x, y : documents' = [documents EXCEPT !.prose = x] \/ documents' = [documents EXCEPT !.braces = y]
        BY <2>3, <3>3 DEF DriftDocuments
      <4>2. "rows" \in DOMAIN documents' /\ documents'.rows = documents.rows
        BY <4>1 DEF ComposingInv, Unique
      <4> QED
        BY <3>1, <4>2 DEF ComposingInv, Unique
    <3> QED
      BY <3>2, <3>3
  <2> QED
    BY <2>1, <2>2, <2>3
<1> QED
  BY <1>1, <1>2, <1>3 DEF ComposingInv, Fresh, ConsumerGetsDocumented, Looping
\* What is built follows from the sources.
LEMMA SourcesStay ==
  ASSUME UNCHANGED sources
  PROVE  /\ \A i : (ArmSuppressed(i)' <=> ArmSuppressed(i)) /\ (ArmTabled(i)' <=> ArmTabled(i))
                   /\ (ArmLinks(i)' <=> ArmLinks(i))
         /\ \A o, x, m : Exports(o, x, m)' = Exports(o, x, m)
         /\ Described' = Described /\ (Reconciled' <=> Reconciled)
         /\ \A m : Arms'[turn'] = Arms[turn] /\ snap'[m] = snap[m] => (Dumped(m)' <=> Dumped(m))
<1>1. UNCHANGED <<manifest, defects, aliased, documents>>
  BY DEF sources
<1>2. ASSUME NEW o, NEW x, NEW m PROVE Exports(o, x, m)' = Exports(o, x, m)
  BY <1>1 DEF Exports, Defect
<1>3. Described' = Described
  BY <1>1 DEF Described
<1>4. Reconciled' <=> Reconciled
  BY <1>1, <1>3 DEF Reconciled, FactsOf, RowOf, ArmsOf
<1>5. ASSUME NEW i
      PROVE  /\ ArmSuppressed(i)' <=> ArmSuppressed(i)
             /\ ArmTabled(i)' <=> ArmTabled(i)
             /\ ArmLinks(i)' <=> ArmLinks(i)
  <2>1. ArmSuppressed(i)' <=> ArmSuppressed(i)
    BY <1>2 DEF ArmSuppressed, Suppressed
  <2>2. ArmTabled(i)' <=> ArmTabled(i)
    BY <1>2, <1>3 DEF ArmTabled
  <2>3. ArmLinks(i)' <=> ArmLinks(i)
    BY <1>1 DEF ArmLinks, ConsumerLinks, Defect
  <2> QED
    BY <2>1, <2>2, <2>3
<1>6. ASSUME NEW m, Arms'[turn'] = Arms[turn], snap'[m] = snap[m] PROVE Dumped(m)' <=> Dumped(m)
  BY <1>2, <1>6 DEF Dumped
<1> QED
  BY <1>2, <1>3, <1>4, <1>5, <1>6

\* What the documents say of what a consumer of any arm gets.
AsDocumented ==
  /\ \A x \in AllArms :
       /\ \A o \in Objects : LET n == Exports(o, x, "nobare") IN
            n.bare = {} /\ n.prefixed = Exports(o, x, "default").prefixed
       /\ Exports("precalc_manifest.o", x, "nobare").prefixed =
            {r.table : r \in {q \in documents.rows : x \in ArmsOf(q.spec)}}
       /\ Exports("precalc_manifest.o", x, "nobare").valued
       /\ x.aead => ConsumerLinks(x)
  /\ \A r \in documents.rows : FactsOf(r.table) = r.facts
  /\ \A i \in DOMAIN documents.braces :
       documents.braces[i].near => documents.braces[i].names = NoAesTargets

LEMMA DocumentedStays == ASSUME UNCHANGED sources, AsDocumented PROVE AsDocumented'
<1>1. UNCHANGED <<manifest, defects, aliased, documents>>
  BY DEF sources
<1>2. ASSUME NEW x PROVE ConsumerLinks(x)' <=> ConsumerLinks(x)
  BY <1>1 DEF ConsumerLinks, Defect
<1>3. ASSUME NEW t PROVE FactsOf(t)' = FactsOf(t)
  BY <1>1 DEF FactsOf
<1>4. ASSUME NEW s PROVE ArmsOf(s)' = ArmsOf(s)
  BY DEF ArmsOf
<1>5. \A o, x, m : Exports(o, x, m)' = Exports(o, x, m)
  BY SourcesStay
<1> QED
  BY <1>1, <1>2, <1>3, <1>4, <1>5 DEF AsDocumented, NoAesTargets

LEMMA DocumentedMeans == ConsumerGetsDocumented <=> (composed = "passed" => AsDocumented)
  BY DEF ConsumerGetsDocumented, AsDocumented

\* The steps of the loop leave the sources as they are.
LEMMA LoopSources ==
  ASSUME StartComposing \/ CleanMode \/ BuildArm \/ Dump \/ Compare \/ Values \/ LinkConsumer
           \/ Conclude \/ SweptMeanwhile
  PROVE  UNCHANGED sources
  BY DEF StartComposing, CleanMode, BuildArm, Dump, Compare, Values, LinkConsumer, Conclude,
         SweptMeanwhile

\* A step that goes on in the loop, or gives up.
LEMMA GoesOn ==
  ASSUME ComposingInv, UNCHANGED sources, stepOf \in {"start"} \cup Looping,
         \/ LoopHeld' /\ stepOf' \in Looping
         \/ stepOf' = "end" /\ composed' = "died"
  PROVE  ComposingInv'
<1>1. Unique'
  BY DEF ComposingInv, Unique, sources
<1>2. CASE stepOf' \in Looping
  BY <1>1, <1>2 DEF ComposingInv, LoopHeld, Looping, ConsumerGetsDocumented
<1>3. CASE stepOf' = "end" /\ composed' = "died"
  BY <1>1, <1>3 DEF ComposingInv, Looping, ConsumerGetsDocumented
<1> QED
  BY <1>2, <1>3 DEF Looping

LEMMA LoopStarts ==
  ASSUME ComposingInv, StartComposing
  PROVE  ComposingInv'
<1>1. CASE ~Reconciled
  BY <1>1, LoopSources, GoesOn DEF StartComposing, Fail
<1>2. CASE Reconciled
  <2>1. stepOf = "start" /\ stepOf' = "clean" /\ turn' = 1
        /\ UNCHANGED <<buildMode, built, snap, perArm, failures, composed>>
    BY <1>2 DEF StartComposing
  <2>2. Fresh /\ Unique
    BY <2>1 DEF ComposingInv
  <2>3. 1 \in DOMAIN Arms
    <3>1. AllArms # {}
      <4>1. PICK p \in Profiles : TRUE
        BY ComposingAssumption
      <4>2. [profile |-> p, aead |-> TRUE] \in AllArms
        BY DEF AllArms
      <4> QED
        BY <4>2
    <3>2. Arms \in Seq(AllArms) /\ DOMAIN Arms # {}
      BY <3>1, ComposingAssumption
    <3> QED
      BY <3>2
  <2>4. Reconciled'
    BY <1>2, LoopSources, SourcesStay
  <2>5. Compared' = 0 /\ TabledArms' = 0 /\ Linked' = 0
    BY <2>1 DEF Compared, TabledArms, Linked, Through
  <2>6. TreeHeld'
    BY <2>1, <2>2 DEF Fresh, TreeHeld
  <2>7. LoopHeld'
    BY <2>1, <2>2, <2>3, <2>4, <2>5, <2>6 DEF Fresh, LoopHeld, Modes
  <2> QED
    BY <2>1, <2>7, LoopSources, GoesOn DEF Looping
<1> QED
  BY <1>1, <1>2
\* A step that leaves the arms' results as they are.
LEMMA LoopSame ==
  ASSUME LoopHeld, UNCHANGED sources, UNCHANGED <<turn, perArm, failures, composed>>,
         Compared' = Compared, TabledArms' = TabledArms, Linked' = Linked,
         buildMode' \in Modes, DOMAIN snap' = Modes, stepOf' # "conclude", TreeHeld'
  PROVE  LoopHeld'
<1>1. /\ \A i : (ArmSuppressed(i)' <=> ArmSuppressed(i)) /\ (ArmTabled(i)' <=> ArmTabled(i))
                /\ (ArmLinks(i)' <=> ArmLinks(i))
      /\ \A o, x, m : Exports(o, x, m)' = Exports(o, x, m)
      /\ Described' = Described /\ (Reconciled' <=> Reconciled)
  BY SourcesStay
<1> QED
  BY <1>1 DEF LoopHeld

LEMMA LoopSwept ==
  ASSUME ComposingInv, SweptMeanwhile
  PROVE  ComposingInv'
<1>1. stepOf \in Looping /\ stepOf' = stepOf /\ built' = {}
      /\ UNCHANGED <<turn, buildMode, snap, perArm, failures, composed>>
  BY DEF ComposingInv, SweptMeanwhile, Drift
<1>2. LoopHeld /\ TreeHeld
  BY <1>1 DEF ComposingInv, LoopHeld
<1>3. Compared' = Compared /\ TabledArms' = TabledArms /\ Linked' = Linked
  BY <1>1 DEF Compared, TabledArms, Linked, Through
<1>4. TreeHeld'
  <2>1. \A m : Dumped(m)' <=> Dumped(m)
    BY <1>1, LoopSources, SourcesStay
  <2> QED
    BY <1>1, <1>2, <2>1 DEF TreeHeld
<1>5. buildMode' \in Modes /\ DOMAIN snap' = Modes /\ (stepOf' = "conclude" => turn = Len(Arms))
  BY <1>1, <1>2 DEF LoopHeld
<1>6. LoopHeld'
  <2>1. CASE stepOf # "conclude"
    BY <1>1, <1>2, <1>3, <1>4, <1>5, <2>1, LoopSources, LoopSame
  <2>2. CASE stepOf = "conclude"
    <3>1. /\ \A i : (ArmSuppressed(i)' <=> ArmSuppressed(i)) /\ (ArmTabled(i)' <=> ArmTabled(i))
                    /\ (ArmLinks(i)' <=> ArmLinks(i))
          /\ \A o, x, m : Exports(o, x, m)' = Exports(o, x, m)
          /\ Described' = Described /\ (Reconciled' <=> Reconciled)
      BY LoopSources, SourcesStay
    <3> QED
      BY <1>1, <1>2, <1>3, <1>4, <1>5, <3>1 DEF LoopHeld
  <2> QED
    BY <2>1, <2>2
<1> QED
  BY <1>1, <1>6, LoopSources, GoesOn

\* make clean, then make: the objects are those of the arm.
LEMMA LoopBuilds ==
  ASSUME ComposingInv, CleanMode \/ BuildArm
  PROVE  ComposingInv'
<1>1. /\ \/ stepOf = "clean" /\ stepOf' = "build" /\ built' = {}
         \/ /\ stepOf = "build" /\ stepOf' = "dump"
            /\ built' = built \cup {[object |-> o, arm |-> Arms[turn], buildMode |-> buildMode] :
                           o \in {p \in Objects \cup {"archive"} : \A q \in built : q.object # p}}
      /\ UNCHANGED <<turn, buildMode, snap, perArm, failures, composed>>
  BY DEF CleanMode, BuildArm
<1>2. LoopHeld /\ TreeHeld
  BY <1>1 DEF ComposingInv, LoopHeld, Looping
<1>3. Compared' = Compared /\ TabledArms' = TabledArms /\ Linked' = Linked
  BY <1>1 DEF Compared, TabledArms, Linked, Through
<1>4. TreeHeld'
  <2>1. \A m : Dumped(m)' <=> Dumped(m)
    BY <1>1, LoopSources, SourcesStay
  <2>2. stepOf = "build" => \A q \in built' : q.arm = Arms[turn] /\ q.buildMode = buildMode
    BY <1>1, <1>2 DEF TreeHeld
  <2> QED
    BY <1>1, <1>2, <2>1, <2>2 DEF TreeHeld
<1>5. buildMode' \in Modes /\ DOMAIN snap' = Modes /\ stepOf' # "conclude" /\ stepOf' \in Looping
      /\ stepOf \in Looping
  BY <1>1, <1>2 DEF LoopHeld, Looping
<1>6. LoopHeld'
  BY <1>1, <1>2, <1>3, <1>4, <1>5, LoopSources, LoopSame
<1> QED
  BY <1>5, <1>6, LoopSources, GoesOn

\* The dumps are those of the arm.
LEMMA LoopDumps ==
  ASSUME ComposingInv, Dump
  PROVE  ComposingInv'
<1> DEFINE Of(o) == CHOOSE q \in built : q.object = o
           dump == [o \in Objects |-> Exports(o, Of(o).arm, Of(o).buildMode)]
<1>1. stepOf = "dump" /\ stepOf \in Looping
  BY DEF Dump, Looping
<1>2. LoopHeld /\ TreeHeld
  BY <1>1 DEF ComposingInv, LoopHeld
<1>3. CASE ~ (Objects \subseteq {q.object : q \in built})
  BY <1>1, <1>3, LoopSources, GoesOn DEF Dump, Fail
<1>4. CASE Objects \subseteq {q.object : q \in built}
  <2>1. /\ snap' = [snap EXCEPT ![buildMode] = dump]
        /\ UNCHANGED <<turn, built, perArm, failures, composed>>
        /\ \/ buildMode = "default" /\ buildMode' = "nobare" /\ stepOf' = "clean"
           \/ buildMode # "default" /\ buildMode' = "default" /\ stepOf' = "compare"
    BY <1>4 DEF Dump
  <2>2. buildMode \in Modes /\ DOMAIN snap = Modes
    BY <1>2 DEF LoopHeld
  <2>3. dump = [o \in Objects |-> Exports(o, Arms[turn], buildMode)]
    <3>1. ASSUME NEW o \in Objects PROVE Of(o).arm = Arms[turn] /\ Of(o).buildMode = buildMode
      <4>1. \E q \in built : q.object = o
        BY <1>4
      <4>2. Of(o) \in built
        BY <4>1
      <4> QED
        BY <1>1, <1>2, <4>2 DEF TreeHeld
    <3> QED
      BY <3>1
  <2> HIDE DEF dump
  <2>4. DOMAIN snap' = Modes /\ snap'[buildMode] = dump
        /\ \A m \in Modes : m # buildMode => snap'[m] = snap[m]
    BY <2>1, <2>2
  <2>5. ASSUME NEW m, m = buildMode PROVE Dumped(m)'
    <3>1. \A o, x, n : Exports(o, x, n)' = Exports(o, x, n)
      BY LoopSources, SourcesStay
    <3> QED
      BY <2>1, <2>3, <2>4, <2>5, <3>1 DEF Dumped
  <2>6. TreeHeld' /\ stepOf' # "conclude" /\ stepOf' \in Looping /\ buildMode' \in Modes
    <3>1. CASE buildMode = "default"
      BY <2>1, <2>5, <3>1 DEF TreeHeld, Looping, Modes
    <3>2. CASE buildMode = "nobare"
      <4>1. Dumped("default")'
        <5>1. snap'["default"] = snap["default"]
          BY <2>4, <3>2 DEF Modes
        <5>2. Dumped("default")
          BY <1>2, <3>2 DEF TreeHeld
        <5> QED
          BY <2>1, <5>1, <5>2, LoopSources, SourcesStay
      <4>2. \A q \in built' : q.arm = Arms[turn]
        BY <1>1, <1>2, <2>1 DEF TreeHeld
      <4> QED
        BY <2>1, <2>5, <3>2, <4>1, <4>2 DEF TreeHeld, Looping, Modes
    <3> QED
      BY <2>2, <3>1, <3>2 DEF Modes
  <2>7. Compared' = Compared /\ TabledArms' = TabledArms /\ Linked' = Linked
    BY <1>1, <2>1 DEF Compared, TabledArms, Linked, Through
  <2>8. LoopHeld'
    BY <1>2, <2>1, <2>4, <2>6, <2>7, LoopSources, LoopSame
  <2> QED
    BY <1>1, <2>6, <2>8, LoopSources, GoesOn
<1> QED
  BY <1>3, <1>4

\* The comparison counts the objects whose names are not suppressed rightly.
LEMMA LoopCompares ==
  ASSUME ComposingInv, Compare
  PROVE  ComposingInv'
<1> DEFINE wrong == {o \in Objects : ~Suppressed(snap["default"][o], snap["nobare"][o])}
<1>1. /\ stepOf = "compare" /\ stepOf' = "values" /\ failures' = failures + Cardinality(wrong)
      /\ UNCHANGED <<turn, buildMode, built, snap, perArm, composed>>
  BY DEF Compare
<1>2. LoopHeld /\ TreeHeld
  BY <1>1 DEF ComposingInv, LoopHeld, Looping
<1>3. Cardinality(wrong) \in Nat /\ (Cardinality(wrong) = 0 => wrong = {})
  <2>1. IsFiniteSet(Objects)
    <3>1. IsFiniteSet({"lib_version.o"})
      BY FS_Singleton
    <3>2. IsFiniteSet({"lib_version.o"} \cup {"precalc_manifest.o"})
      BY <3>1, FS_AddElement
    <3>3. Objects = {"lib_version.o"} \cup {"precalc_manifest.o"}
      BY DEF Objects
    <3> QED
      BY <3>2, <3>3
  <2>2. IsFiniteSet(wrong)
    BY <2>1, FS_Subset
  <2> HIDE DEF wrong
  <2> QED
    BY <2>2, FS_CardinalityType, FS_EmptySet
<1>4. wrong = {} => ArmSuppressed(turn)
  BY <1>1, <1>2 DEF TreeHeld, Dumped, ArmSuppressed
<1> HIDE DEF wrong
<1>5. Compared = turn - 1 /\ Compared' = turn /\ TabledArms' = TabledArms /\ Linked' = Linked
  BY <1>1 DEF Compared, TabledArms, Linked, Through
<1>6. turn \in Nat /\ failures \in Nat
  BY <1>2, ComposingAssumption DEF LoopHeld
<1>7. failures' \in Nat /\ (failures' = 0 => \A i \in 1 .. turn : ArmSuppressed(i))
  <2>1. failures' = 0 => failures = 0 /\ wrong = {}
    BY <1>1, <1>3, <1>6
  <2>2. \A i \in 1 .. turn : i \in 1 .. turn - 1 \/ i = turn
    BY <1>6
  <2> QED
    BY <1>1, <1>2, <1>3, <1>4, <1>5, <1>6, <2>1, <2>2 DEF LoopHeld
<1>8. /\ \A i : (ArmSuppressed(i)' <=> ArmSuppressed(i)) /\ (ArmTabled(i)' <=> ArmTabled(i))
                /\ (ArmLinks(i)' <=> ArmLinks(i))
      /\ \A o, x, m : Exports(o, x, m)' = Exports(o, x, m)
      /\ Described' = Described /\ (Reconciled' <=> Reconciled)
      /\ \A m : Dumped(m)' <=> Dumped(m)
  BY <1>1, LoopSources, SourcesStay
<1>9. TreeHeld'
  BY <1>1, <1>2, <1>8 DEF TreeHeld
<1>10. LoopHeld'
  BY <1>1, <1>2, <1>5, <1>7, <1>8, <1>9 DEF LoopHeld
<1> QED
  BY <1>1, <1>10, LoopSources, GoesOn DEF Looping

\* The tables of the arm are added to those of the others.
LEMMA LoopValues ==
  ASSUME ComposingInv, Values
  PROVE  ComposingInv'
<1> DEFINE dump == snap["nobare"]["precalc_manifest.o"]
           seen == dump.prefixed
<1>1. stepOf = "values" /\ stepOf \in Looping
  BY DEF Values, Looping
<1>2. LoopHeld /\ TreeHeld
  BY <1>1 DEF ComposingInv, LoopHeld
<1>3. CASE ~dump.valued \/ \E t \in seen : t \notin Described \/ FactsOf(t) # RowOf(t).facts
  BY <1>1, <1>3, LoopSources, GoesOn DEF Values, Fail
<1>4. CASE ~ (~dump.valued \/ \E t \in seen : t \notin Described \/ FactsOf(t) # RowOf(t).facts)
  <2>1. /\ perArm' = Append(perArm, seen) /\ stepOf' = "link"
        /\ UNCHANGED <<turn, buildMode, built, snap, failures, composed>>
    BY <1>4 DEF Values
  <2>2. dump = Exports(Precalc, Arms[turn], "nobare")
    BY <1>1, <1>2 DEF TreeHeld, Dumped, Objects, Precalc
  <2>3. ArmTabled(turn) /\ seen \in SUBSET Described
    BY <1>4, <2>2 DEF ArmTabled
  <2>4. seen = Exports(Precalc, Arms[turn], "nobare").prefixed
    BY <2>2
  <2> HIDE DEF dump, seen
  <2>5. Compared' = Compared /\ TabledArms = turn - 1 /\ TabledArms' = turn /\ Linked' = Linked
    BY <1>1, <2>1 DEF Compared, TabledArms, Linked, Through
  <2>6. turn \in Nat \ {0}
    BY <1>2, ComposingAssumption DEF LoopHeld
  <2>7. perArm \in Seq(SUBSET Described) /\ Len(perArm) = turn - 1
    BY <1>2, <2>5 DEF LoopHeld
  <2>8. /\ perArm' \in Seq(SUBSET Described) /\ Len(perArm') = turn
        /\ perArm'[turn] = seen /\ \A i \in 1 .. turn - 1 : perArm'[i] = perArm[i]
    <3> DEFINE D == SUBSET Described
    <3>1. perArm \in Seq(D) /\ seen \in D
      BY <2>3, <2>7
    <3> HIDE DEF D
    <3>2. perArm' \in Seq(D) /\ Len(perArm') = Len(perArm) + 1 /\ perArm'[Len(perArm) + 1] = seen
          /\ \A i \in 1 .. Len(perArm) : perArm'[i] = perArm[i]
      BY <2>1, <3>1
    <3>3. Len(perArm) + 1 = turn
      BY <2>6, <2>7
    <3> QED
      BY <2>7, <3>2, <3>3 DEF D
  <2>9. \A i \in 1 .. turn : ArmTabled(i) /\ perArm'[i] = Exports(Precalc, Arms[i], "nobare").prefixed
    <3>1. \A i \in 1 .. turn - 1 : ArmTabled(i) /\ perArm[i] = Exports(Precalc, Arms[i], "nobare").prefixed
      BY <1>2, <2>5 DEF LoopHeld
    <3>2. \A i \in 1 .. turn : i \in 1 .. turn - 1 \/ i = turn
      BY <2>6
    <3> QED
      BY <2>3, <2>4, <2>8, <3>1, <3>2
  <2>10. /\ \A i : (ArmSuppressed(i)' <=> ArmSuppressed(i)) /\ (ArmTabled(i)' <=> ArmTabled(i))
                   /\ (ArmLinks(i)' <=> ArmLinks(i))
         /\ \A o, x, m : Exports(o, x, m)' = Exports(o, x, m)
         /\ Described' = Described /\ (Reconciled' <=> Reconciled)
         /\ \A m : Dumped(m)' <=> Dumped(m)
    BY <2>1, LoopSources, SourcesStay
  <2>11. TreeHeld'
    BY <1>1, <1>2, <2>1, <2>10 DEF TreeHeld
  <2>12. LoopHeld'
    BY <1>2, <2>1, <2>5, <2>8, <2>9, <2>10, <2>11 DEF LoopHeld
  <2> QED
    BY <1>1, <2>1, <2>12, LoopSources, GoesOn DEF Looping
<1> QED
  BY <1>3, <1>4

\* The archive that was linked is the arm's.
LEMMA LoopLinks ==
  ASSUME ComposingInv, LinkConsumer
  PROVE  ComposingInv'
<1> DEFINE linked == \E q \in built : q.object = "archive" /\ ConsumerLinks(q.arm)
<1>1. stepOf = "link" /\ stepOf \in Looping
  BY DEF LinkConsumer, Looping
<1>2. LoopHeld /\ TreeHeld
  BY <1>1 DEF ComposingInv, LoopHeld
<1>3. CASE Arms[turn].aead /\ ~linked
  BY <1>1, <1>3, LoopSources, GoesOn DEF LinkConsumer, Fail
<1>4. CASE ~ (Arms[turn].aead /\ ~linked)
  <2>1. /\ \/ turn < Len(Arms) /\ turn' = turn + 1 /\ stepOf' = "clean"
           \/ ~ (turn < Len(Arms)) /\ turn' = turn /\ stepOf' = "conclude"
        /\ UNCHANGED <<buildMode, built, snap, perArm, failures, composed>>
    BY <1>4 DEF LinkConsumer
  <2>2. ArmLinks(turn)
    BY <1>1, <1>2, <1>4 DEF ArmLinks, TreeHeld
  <2>3. turn \in 1 .. Len(Arms) /\ Len(Arms) \in Nat /\ DOMAIN Arms = 1 .. Len(Arms)
    BY <1>2, ComposingAssumption DEF LoopHeld
  <2>4. turn' \in DOMAIN Arms /\ (stepOf' = "conclude" => turn' = Len(Arms))
    BY <2>1, <2>3
  <2>5. Compared = turn /\ TabledArms = turn /\ Linked = turn - 1
    BY <1>1 DEF Compared, TabledArms, Linked, Through
  <2>6. Compared' = turn /\ TabledArms' = turn /\ Linked' = turn
    BY <2>1, <2>3 DEF Compared, TabledArms, Linked, Through
  <2>7. \A i \in 1 .. turn : ArmLinks(i)
    <3>1. \A i \in 1 .. turn : i \in 1 .. turn - 1 \/ i = turn
      BY <2>3
    <3> QED
      BY <1>2, <2>2, <2>5, <3>1 DEF LoopHeld
  <2>8. /\ \A i : (ArmSuppressed(i)' <=> ArmSuppressed(i)) /\ (ArmTabled(i)' <=> ArmTabled(i))
                  /\ (ArmLinks(i)' <=> ArmLinks(i))
        /\ \A o, x, m : Exports(o, x, m)' = Exports(o, x, m)
        /\ Described' = Described /\ (Reconciled' <=> Reconciled)
    BY LoopSources, SourcesStay
  <2>9. TreeHeld'
    BY <1>1, <1>2, <2>1 DEF TreeHeld
  <2>10. LoopHeld'
    BY <1>2, <2>1, <2>4, <2>5, <2>6, <2>7, <2>8, <2>9 DEF LoopHeld
  <2> QED
    BY <1>1, <2>1, <2>10, LoopSources, GoesOn DEF Looping
<1> QED
  BY <1>3, <1>4
\* A row is the only one of its table.
LEMMA RowFound ==
  ASSUME Unique, NEW t \in Described
  PROVE  /\ RowOf(t) \in documents.rows /\ RowOf(t).table = t
         /\ \A r \in documents.rows : r.table = t => r = RowOf(t)
<1>1. \E r \in documents.rows : r.table = t
  BY DEF Described
<1>2. RowOf(t) \in documents.rows /\ RowOf(t).table = t
  BY <1>1 DEF RowOf
<1> QED
  BY <1>2 DEF Unique

\* What the verdict of the last step says of every arm.
LEMMA ComposedRight ==
  ASSUME LoopHeld, Unique, stepOf = "conclude", failures = 0, ArmSets, BracesRight
  PROVE  AsDocumented
<1>1. turn = Len(Arms) /\ DOMAIN Arms = 1 .. turn /\ turn \in Nat
  BY ComposingAssumption DEF LoopHeld
<1>2. \A i \in DOMAIN Arms :
        /\ ArmSuppressed(i) /\ ArmLinks(i) /\ ArmTabled(i)
        /\ perArm[i] = Exports(Precalc, Arms[i], "nobare").prefixed
  BY <1>1 DEF LoopHeld, Compared, TabledArms, Linked, Through
<1>3. DOMAIN perArm = DOMAIN Arms
  BY <1>1 DEF LoopHeld, TabledArms, Through
<1>4. ASSUME NEW x \in AllArms
      PROVE  /\ \A o \in Objects : LET n == Exports(o, x, "nobare") IN
                  n.bare = {} /\ n.prefixed = Exports(o, x, "default").prefixed
             /\ Exports("precalc_manifest.o", x, "nobare").prefixed =
                  {r.table : r \in {q \in documents.rows : x \in ArmsOf(q.spec)}}
             /\ Exports("precalc_manifest.o", x, "nobare").valued
             /\ x.aead => ConsumerLinks(x)
  <2>1. PICK i \in DOMAIN Arms : Arms[i] = x
    BY ComposingAssumption
  <2>2. \A o \in Objects : LET n == Exports(o, x, "nobare") IN
          n.bare = {} /\ n.prefixed = Exports(o, x, "default").prefixed
    BY <1>2, <2>1 DEF ArmSuppressed, Suppressed
  <2>3. x.aead => ConsumerLinks(x)
    BY <1>2, <2>1 DEF ArmLinks
  <2> DEFINE dump == Exports(Precalc, x, "nobare")
             named == {r.table : r \in {q \in documents.rows : x \in ArmsOf(q.spec)}}
  <2>4. dump.valued /\ dump.prefixed \subseteq Described
    BY <1>2, <2>1 DEF ArmTabled
  <2>5. \A j \in DOMAIN Arms : Arms[j] = x => perArm[j] = dump.prefixed
    BY <1>2
  <2> HIDE DEF dump
  <2>6. ASSUME NEW t \in Described
        PROVE  t \in dump.prefixed <=> x \in ArmsOf(RowOf(t).spec)
    <3>1. x \in Exporting(t) <=> t \in dump.prefixed
      BY <1>3, <2>1, <2>5 DEF Exporting
    <3>2. Exporting(t) = ArmsOf(RowOf(t).spec)
      BY DEF ArmSets
    <3> QED
      BY <3>1, <3>2
  <2>7. ASSUME NEW t \in dump.prefixed PROVE t \in named
    BY <2>4, <2>6, RowFound
  <2>8. ASSUME NEW t \in named PROVE t \in dump.prefixed
    <3>1. PICK q \in documents.rows : x \in ArmsOf(q.spec) /\ q.table = t
      OBVIOUS
    <3>2. t \in Described
      BY <3>1 DEF Described
    <3> QED
      BY <2>6, <3>1, <3>2, RowFound
  <2>9. dump.prefixed = named
    BY <2>7, <2>8
  <2> QED
    BY <2>2, <2>3, <2>4, <2>9 DEF dump, Precalc
<1>5. ASSUME NEW r \in documents.rows PROVE FactsOf(r.table) = r.facts
  <2>1. r.table \in Described
    BY DEF Described
  <2>2. FactsOf(r.table) = RowOf(r.table).facts
    BY <2>1 DEF LoopHeld, Reconciled
  <2> QED
    BY <2>1, <2>2, RowFound
<1>6. \A i \in DOMAIN documents.braces :
        documents.braces[i].near => documents.braces[i].names = NoAesTargets
  BY DEF BracesRight, NearBraces
<1> QED
  BY <1>4, <1>5, <1>6 DEF AsDocumented

LEMMA LoopConcludes ==
  ASSUME ComposingInv, Conclude
  PROVE  ComposingInv'
<1>1. stepOf = "conclude" /\ stepOf' = "end"
  BY DEF Conclude
<1>2. LoopHeld /\ Unique
  BY <1>1 DEF ComposingInv, Looping
<1>3. CASE composed' = "died"
  BY <1>1, <1>3, LoopSources, GoesOn DEF Looping
<1>4. CASE composed' # "died"
  <2>1. composed' = "passed" /\ ArmSets /\ BracesRight /\ failures = 0
    BY <1>4 DEF Conclude
  <2>2. AsDocumented
    BY <1>1, <1>2, <2>1, ComposedRight
  <2>7. ConsumerGetsDocumented'
    <3>1. AsDocumented'
      BY <2>2, LoopSources, DocumentedStays
    <3> QED
      BY <3>1 DEF ConsumerGetsDocumented, AsDocumented
  <2>8. Unique'
    BY <1>2, LoopSources DEF Unique, sources
  <2> QED
    BY <1>1, <2>7, <2>8 DEF ComposingInv, Looping
<1> QED
  BY <1>3, <1>4

(* A consumer of any arm gets what the documents say once the gate has     *)
(* passed, for any profiles, tables, documents and drifts, the order of    *)
(* the arms, and a tree that is swept at any moment                        *)
(* (check_composing_mode.py:15-48, 512-568, 597-663, 689-701).             *)
THEOREM ComposingSafety == ComposingSpec => []ConsumerGetsDocumented
<1>1. ASSUME ComposingInv, ComposingNext PROVE ComposingInv'
  BY <1>1, ComposingDrifts, LoopSwept, LoopStarts, LoopBuilds, LoopDumps, LoopCompares, LoopValues,
     LoopLinks, LoopConcludes DEF ComposingNext
<1>2. ASSUME ComposingInv, UNCHANGED composingVars PROVE ComposingInv'
  <2>1. UNCHANGED sources /\ UNCHANGED <<turn, buildMode, stepOf, built, snap, perArm, failures, composed>>
    BY <1>2 DEF composingVars, sources
  <2>2. Unique' /\ Fresh' = Fresh
    BY <1>2, <2>1 DEF ComposingInv, Unique, Fresh, sources
  <2>3. ConsumerGetsDocumented'
    <3>1. composed = "passed" => AsDocumented
      BY <1>2, DocumentedMeans DEF ComposingInv
    <3>2. (composed = "passed" => AsDocumented)'
      BY <2>1, <3>1, DocumentedStays
    <3> QED
      BY <3>2 DEF ConsumerGetsDocumented, AsDocumented
  <2>4. CASE stepOf \notin Looping
    BY <1>2, <2>1, <2>2, <2>3, <2>4 DEF ComposingInv, Fresh
  <2>5. CASE stepOf \in Looping
    <3>1. /\ \A i : (ArmSuppressed(i)' <=> ArmSuppressed(i)) /\ (ArmTabled(i)' <=> ArmTabled(i))
                    /\ (ArmLinks(i)' <=> ArmLinks(i))
          /\ \A o, x, m : Exports(o, x, m)' = Exports(o, x, m)
          /\ Described' = Described /\ (Reconciled' <=> Reconciled)
          /\ \A m : Dumped(m)' <=> Dumped(m)
      BY <2>1, SourcesStay
    <3>2. Compared' = Compared /\ TabledArms' = TabledArms /\ Linked' = Linked
      BY <2>1 DEF Compared, TabledArms, Linked, Through
    <3>3. LoopHeld
      BY <1>2, <2>5 DEF ComposingInv
    <3>4. TreeHeld'
      BY <2>1, <3>1, <3>3 DEF LoopHeld, TreeHeld
    <3>5. LoopHeld'
      BY <2>1, <3>1, <3>2, <3>3, <3>4 DEF LoopHeld
    <3> QED
      BY <1>2, <2>1, <2>2, <2>3, <2>5, <3>5 DEF ComposingInv, Looping
  <2> QED
    BY <2>4, <2>5
<1>3. ComposingInv => ConsumerGetsDocumented
  BY DEF ComposingInv
<1> QED
  BY <1>1, <1>2, <1>3, ComposingStart, PTL DEF ComposingSpec

-----------------------------------------------------------------------------
(* The benchmark's timers *)

ShortPieces == {"short", "short_call", "short_low", "short_restore"}
Stopped == {"long_stop_b", "long_read", "long_restore"}
Counting == {"long_call", "long_stop_a"}
LongPieces == {"long", "long_start"} \cup Counting \cup Stopped

\* Timer A in mode m, where a connection that was lost may have stopped it.
OnOrLost(m) == m = "free" \/ (m = "stopped" /\ disturbed > 0)

TimersHeld ==
  /\ piece \in {"idle", "back", "printed"} =>
       irq /\ (mode = "free" \/ (OnOrLost(mode) /\ saved.mode = "stopped"))
  /\ piece \in {"long", "long_start"} => OnOrLost(mode)
  /\ piece \in Counting => mode = "free"
  /\ piece \in Stopped => mode = "stopped"
  /\ piece \in LongPieces \ {"long"} => OnOrLost(saved.mode)

TimerInv ==
  /\ piece \in {"idle", "back", "printed", "dead"} \cup ShortPieces \cup LongPieces
  /\ disturbed \in Nat /\ TimersHeld
  /\ piece \in ShortPieces => Wrapper = "short"
  /\ piece \in LongPieces => Wrapper = "long"

USE DEF ShortPieces, LongPieces, Counting, Stopped

LEMMA TimerStart == ASSUME BenchmarkInit PROVE TimerInv
  BY DEF BenchmarkInit, TimerInv, TimersHeld

\* The pieces of the short wrapper, which leaves the timer free-running.
LEMMA TimerShort ==
  ASSUME TimerInv, ShortStart \/ ShortCall \/ ShortLow \/ ShortRestore
  PROVE  TimerInv'
<1>1. UNCHANGED <<stage, session>>
  BY DEF ShortStart, ShortCall, ShortLow, ShortRestore, host
<1>2. Wrapper' = Wrapper
  BY <1>1 DEF Wrapper, KindOf
<1>3. disturbed' \in Nat
  BY DEF TimerInv, ShortStart, ShortCall, ShortLow, ShortRestore, Passes
<1> QED
  BY <1>2, <1>3 DEF TimerInv, TimersHeld, ShortStart, ShortCall, ShortLow, ShortRestore

\* The pieces of the long wrapper, which puts back what it saved.
LEMMA TimerLong ==
  ASSUME TimerInv,
         LongSave \/ LongStart \/ LongCall \/ LongStopA \/ LongStopB \/ LongRead \/ LongRestore
  PROVE  TimerInv'
<1>1. UNCHANGED <<stage, session>>
  BY DEF LongSave, LongStart, LongCall, LongStopA, LongStopB, LongRead, LongRestore, host
<1>2. Wrapper' = Wrapper
  BY <1>1 DEF Wrapper, KindOf
<1>3. CASE LongCall
  <2>1. disturbed' \in Nat /\ disturbed' >= disturbed
    BY <1>3 DEF TimerInv, LongCall, Passes
  <2>2. mode' = "free"
    BY <1>3 DEF TimerInv, TimersHeld, LongCall, Passes, StillOn
  <2> QED
    BY <1>2, <1>3, <2>1, <2>2 DEF TimerInv, TimersHeld, OnOrLost, LongCall
<1>4. CASE ~LongCall
  BY <1>2, <1>4 DEF TimerInv, TimersHeld, OnOrLost, LongSave, LongStart, LongStopA, LongStopB,
                    LongRead, LongRestore, timers
<1> QED
  BY <1>3, <1>4

\* The host between the pieces, and a connection lost inside a wrapper.
LEMMA TimerHost ==
  ASSUME TimerInv,
         Enter \/ Lost \/ TakeSample \/ Calibrated \/ Verified \/ Tabled \/ LongTabled \/ SweepRow
           \/ UNCHANGED benchmarkVars
  PROVE  TimerInv'
<1>1. CASE Enter \/ Lost
  <2>1. Wrapper' = Wrapper /\ Wrapper \in {"short", "long"}
    BY <1>1 DEF Enter, Lost, host, Wrapper, KindOf
  <2>2. CASE Enter
    BY <2>1, <2>2 DEF TimerInv, TimersHeld, OnOrLost, Enter, timers
  <2>3. CASE Lost
    <3>1. piece' \in {Wrapper, "dead"} /\ UNCHANGED <<mode, saved>>
      BY <2>3 DEF Lost, timers
    <3>2. disturbed' \in Nat /\ disturbed' > 0
      BY <2>3 DEF Lost, TimerInv
    <3>3. Wrapper = "long" => mode \in {"free", "stopped"}
      BY <2>3 DEF Lost, TimerInv, TimersHeld, OnOrLost
    <3> QED
      BY <2>1, <3>1, <3>2, <3>3 DEF TimerInv, TimersHeld, OnOrLost
  <2> QED
    BY <1>1, <2>2, <2>3
<1>2. CASE UNCHANGED benchmarkVars
  BY <1>2 DEF benchmarkVars, timers, host, TimerInv, TimersHeld, OnOrLost, Wrapper, KindOf
<1>3. CASE TakeSample \/ Calibrated \/ Verified \/ Tabled \/ LongTabled \/ SweepRow
  <2>1. piece = "back" /\ piece' \in {"idle", "back", "printed", "dead"}
    BY <1>3 DEF TakeSample, Calibrated, Verified, Tabled, LongTabled, SweepRow, EndStage
  <2>2. UNCHANGED <<timers, saved, disturbed>>
    BY <1>3 DEF TakeSample, Calibrated, Verified, Tabled, LongTabled, SweepRow, EndStage
  <2> QED
    BY <2>1, <2>2 DEF TimerInv, TimersHeld, OnOrLost, timers
<1> QED
  BY <1>1, <1>2, <1>3

(* Between measurements timer A runs on and interrupts are enabled, but for *)
(* a connection lost in the long wrapper, for any routines, numbers of      *)
(* samples and disturbances (benchmark_polyval.py:93, 137-138, 236-238).    *)
THEOREM TimerSafety == BenchmarkSpec => []TimerBack
<1>1. ASSUME TimerInv, [BenchmarkNext]_benchmarkVars PROVE TimerInv'
  BY <1>1, TimerShort, TimerLong, TimerHost DEF BenchmarkNext
<1>2. TimerInv => TimerBack
  BY DEF TimerInv, TimersHeld, OnOrLost, TimerBack
<1> QED
  BY <1>1, <1>2, TimerStart, PTL DEF BenchmarkSpec

-----------------------------------------------------------------------------
\* A set with 0 and the successor of each member has all naturals.
LEMMA Induct ==
  ASSUME NEW T, 0 \in T, \A n \in Nat : n \in T => n + 1 \in T
  PROVE  Nat \subseteq T
<1> SUFFICES ASSUME ~ (Nat \subseteq T) PROVE FALSE
  OBVIOUS
<1> DEFINE R == OpToRel(<, Nat)
<1>1. \A x \in Nat, y \in Nat : x < y => <<x, y>> \in R
  BY DEF OpToRel
<1>2. IsWellFoundedOn(R, Nat)
  BY NatLessThanWellFounded
<1> HIDE DEF R
<1>3. PICK m \in Nat \ T : \A y \in Nat \ T : ~ (<<y, m>> \in R)
  BY <1>2, WFMin
<1>4. m # 0 /\ m - 1 \in Nat /\ m - 1 < m
  BY <1>3
<1>5. m - 1 \in T
  BY <1>1, <1>3, <1>4
<1>6. (m - 1) + 1 = m
  BY <1>3
<1> QED
  BY <1>3, <1>4, <1>5, <1>6

-----------------------------------------------------------------------------
(* Sums over finite sets *)

First(s) == CHOOSE x \in s : TRUE

\* h is the sum of f over the subsets of S with at most n elements.
SumsUpTo(h, f, S, n) ==
  /\ h \in [SUBSET S -> Nat]
  /\ \A s \in SUBSET S : Cardinality(s) <= n =>
       h[s] = IF s = {} THEN 0 ELSE f[First(s)] + h[s \ {First(s)}]

\* h gives the sum of f over each subset of S, whichever element is taken first.
Sums(h, f, S) ==
  /\ h \in [SUBSET S -> Nat] /\ h[{}] = 0
  /\ \A s \in SUBSET S : \A x \in s : h[s] = f[x] + h[s \ {x}]

LEMMA FirstOf == ASSUME NEW s, s # {} PROVE First(s) \in s
BY DEF First

LEMMA SubsetSize ==
  ASSUME NEW S, IsFiniteSet(S), NEW s \in SUBSET S
  PROVE  /\ IsFiniteSet(s) /\ Cardinality(s) \in Nat
         /\ Cardinality(s) = 0 <=> s = {}
         /\ \A x \in s : s \ {x} \in SUBSET S /\ Cardinality(s \ {x}) = Cardinality(s) - 1
<1>1. IsFiniteSet(s)
  BY FS_Subset
<1>2. Cardinality(s) \in Nat /\ (Cardinality(s) = 0 <=> s = {})
  BY <1>1, FS_CardinalityType, FS_EmptySet
<1>3. \A x \in s : Cardinality(s \ {x}) = Cardinality(s) - 1
  BY <1>1, FS_RemoveElement
<1> QED
  BY <1>1, <1>2, <1>3

\* The sum exists.
LEMMA SumExists ==
  ASSUME NEW S, IsFiniteSet(S), NEW f, \A x \in S : f[x] \in Nat
  PROVE  \A n \in Nat : \E h : SumsUpTo(h, f, S, n)
<1> DEFINE T == {n \in Nat : \E h : SumsUpTo(h, f, S, n)}
<1>1. 0 \in T
  <2> DEFINE h == [s \in SUBSET S |-> 0]
  <2>1. \A s \in SUBSET S : Cardinality(s) <= 0 => s = {}
    BY SubsetSize
  <2>2. SumsUpTo(h, f, S, 0)
    BY <2>1 DEF SumsUpTo
  <2> QED
    BY <2>2
<1>2. ASSUME NEW n \in Nat, n \in T PROVE n + 1 \in T
  <2>1. PICK h : SumsUpTo(h, f, S, n)
    BY <1>2
  <2> DEFINE g == [s \in SUBSET S |-> IF Cardinality(s) = n + 1 THEN f[First(s)] + h[s \ {First(s)}] ELSE h[s]]
  <2>2. ASSUME NEW s \in SUBSET S, Cardinality(s) <= n + 1
        PROVE  g[s] \in Nat /\ g[s] = IF s = {} THEN 0 ELSE f[First(s)] + g[s \ {First(s)}]
    <3>1. CASE s = {}
      <4>1. Cardinality(s) = 0
        BY <3>1, SubsetSize
      <4>2. g[s] = h[s]
        BY <4>1
      <4> QED
        BY <2>1, <3>1, <4>1, <4>2 DEF SumsUpTo
    <3>2. CASE s # {}
      <4>1. First(s) \in s /\ s \ {First(s)} \in SUBSET S
            /\ Cardinality(s \ {First(s)}) = Cardinality(s) - 1 /\ Cardinality(s) \in Nat
        BY <3>2, FirstOf, SubsetSize
      <4>2. g[s \ {First(s)}] = h[s \ {First(s)}] /\ h[s \ {First(s)}] \in Nat
        BY <2>1, <2>2, <4>1 DEF SumsUpTo
      <4>3. g[s] = f[First(s)] + h[s \ {First(s)}]
        <5>1. CASE Cardinality(s) = n + 1
          BY <5>1
        <5>2. CASE Cardinality(s) # n + 1
          <6>1. Cardinality(s) <= n
            BY <2>2, <4>1, <5>2
          <6> QED
            BY <2>1, <3>2, <5>2, <6>1 DEF SumsUpTo
        <5> QED
          BY <5>1, <5>2
      <4>4. f[First(s)] \in Nat
        BY <4>1
      <4> QED
        BY <3>2, <4>2, <4>3, <4>4
    <3> QED
      BY <3>1, <3>2
  <2>3. ASSUME NEW s \in SUBSET S PROVE g[s] \in Nat
    <3>1. CASE Cardinality(s) = n + 1
      <4>1. Cardinality(s) <= n + 1
        BY <3>1
      <4> HIDE DEF g
      <4> QED
        BY <2>2, <4>1
    <3>2. CASE Cardinality(s) # n + 1
      BY <2>1, <3>2 DEF SumsUpTo
    <3> QED
      BY <3>1, <3>2
  <2>4. SumsUpTo(g, f, S, n + 1)
    <3>1. g \in [SUBSET S -> Nat]
      BY <2>3
    <3> HIDE DEF g
    <3> QED
      BY <2>2, <3>1 DEF SumsUpTo
  <2> HIDE DEF g
  <2> QED
    BY <2>4
<1> HIDE DEF T
<1>3. Nat \subseteq T
  BY <1>1, <1>2, Induct
<1> QED
  BY <1>3 DEF T


\* What satisfies the recursion has values in the naturals.
LEMMA SumUnique ==
  ASSUME NEW S, IsFiniteSet(S), NEW f, \A x \in S : f[x] \in Nat, NEW g,
         \A s \in SUBSET S : g[s] = IF s = {} THEN 0 ELSE f[First(s)] + g[s \ {First(s)}]
  PROVE  \A s \in SUBSET S : g[s] \in Nat
<1> DEFINE T == {n \in Nat : \A s \in SUBSET S : Cardinality(s) = n => g[s] \in Nat}
<1>1. 0 \in T
  <2>1. \A s \in SUBSET S : Cardinality(s) = 0 => g[s] = 0
    BY SubsetSize
  <2> QED
    BY <2>1
<1>2. ASSUME NEW n \in Nat, n \in T PROVE n + 1 \in T
  <2> SUFFICES ASSUME NEW s \in SUBSET S, Cardinality(s) = n + 1 PROVE g[s] \in Nat
    OBVIOUS
  <2>1. s # {}
    BY SubsetSize
  <2>2. First(s) \in s /\ s \ {First(s)} \in SUBSET S /\ Cardinality(s \ {First(s)}) = n
    BY <2>1, FirstOf, SubsetSize
  <2>3. g[s \ {First(s)}] \in Nat /\ f[First(s)] \in Nat
    BY <1>2, <2>2
  <2> QED
    BY <2>1, <2>3
<1> HIDE DEF T
<1>3. Nat \subseteq T
  BY <1>1, <1>2, Induct
<1>4. \A s \in SUBSET S : Cardinality(s) \in T
  BY <1>3, SubsetSize
<1> QED
  BY <1>4 DEF T

\* Total is that sum.
LEMMA TotalIs ==
  ASSUME NEW S, IsFiniteSet(S), NEW f, \A x \in S : f[x] \in Nat
  PROVE  \E h : SumsUpTo(h, f, S, Cardinality(S)) /\ Total(f, S) = h[S]
<1> DEFINE Fun(h) == h = [s \in SUBSET S |-> IF s = {} THEN 0 ELSE f[CHOOSE x \in s : TRUE] + h[s \ {CHOOSE x \in s : TRUE}]]
<1>1. PICK h : SumsUpTo(h, f, S, Cardinality(S))
  BY SumExists, FS_CardinalityType
<1>2. \A s \in SUBSET S : Cardinality(s) <= Cardinality(S)
  BY FS_Subset
<1>3. Fun(h)
  BY <1>1, <1>2 DEF SumsUpTo, First
<1> DEFINE it == CHOOSE g : Fun(g)
<1>4. Fun(it)
  <2> HIDE DEF Fun
  <2> QED
    BY <1>3
<1>5. Total(f, S) = it[S]
  BY DEF Total, MapThenSumSet, MapThenFoldSet
<1> HIDE DEF it
<1>6. \A s \in SUBSET S : it[s] = IF s = {} THEN 0 ELSE f[First(s)] + it[s \ {First(s)}]
  BY <1>4 DEF First
<1>7. \A s \in SUBSET S : it[s] \in Nat
  BY <1>6, SumUnique
<1>8. it = [s \in SUBSET S |-> it[s]]
  BY <1>4
<1>9. it \in [SUBSET S -> Nat]
  BY <1>7, <1>8
<1> QED
  BY <1>5, <1>6, <1>9 DEF SumsUpTo

\* Any element may be taken first.
LEMMA AnyFirst ==
  ASSUME NEW S, IsFiniteSet(S), NEW f, \A x \in S : f[x] \in Nat,
         NEW h, SumsUpTo(h, f, S, Cardinality(S))
  PROVE  Sums(h, f, S)
<1>1. h \in [SUBSET S -> Nat] /\ \A s \in SUBSET S : s # {} => h[s] = f[First(s)] + h[s \ {First(s)}]
  BY FS_Subset DEF SumsUpTo
<1>2. h[{}] = 0
  <2>1. {} \in SUBSET S /\ Cardinality({}) <= Cardinality(S)
    BY FS_Subset
  <2> QED
    BY <2>1 DEF SumsUpTo
<1> DEFINE Right(s) == \A x \in s : h[s] = f[x] + h[s \ {x}]
           T == {n \in Nat : \A s \in SUBSET S : Cardinality(s) = n => Right(s)}
<1>3. 0 \in T
  <2>1. \A s \in SUBSET S : Cardinality(s) = 0 => s = {}
    BY SubsetSize
  <2> QED
    BY <2>1
<1>4. ASSUME NEW n \in Nat, n \in T PROVE n + 1 \in T
  <2> SUFFICES ASSUME NEW s \in SUBSET S, Cardinality(s) = n + 1, NEW x \in s
               PROVE  h[s] = f[x] + h[s \ {x}]
    OBVIOUS
  <2>1. PICK y \in s : y = First(s)
    BY FirstOf
  <2>2. h[s] = f[y] + h[s \ {y}]
    BY <1>1, <2>1
  <2>3. CASE y = x
    BY <2>2, <2>3
  <2>4. CASE y # x
    <3>1. /\ s \ {x} \in SUBSET S /\ Cardinality(s \ {x}) = n
          /\ s \ {y} \in SUBSET S /\ Cardinality(s \ {y}) = n
      BY SubsetSize
    <3>2. y \in s \ {x} /\ x \in s \ {y} /\ (s \ {x}) \ {y} = (s \ {y}) \ {x}
      BY <2>4
    <3>3. Right(s \ {x}) /\ Right(s \ {y})
      BY <1>4, <3>1
    <3>4. h[s \ {y}] = f[x] + h[(s \ {y}) \ {x}] /\ h[s \ {x}] = f[y] + h[(s \ {y}) \ {x}]
      BY <3>2, <3>3
    <3>5. h[(s \ {y}) \ {x}] \in Nat /\ f[x] \in Nat /\ f[y] \in Nat
      BY <1>1
    <3> QED
      BY <2>2, <3>4, <3>5
  <2> QED
    BY <2>3, <2>4
<1> HIDE DEF T, Right
<1>5. Nat \subseteq T
  BY <1>3, <1>4, Induct
<1>6. ASSUME NEW s \in SUBSET S PROVE Right(s)
  <2>1. PICK n \in Nat : n = Cardinality(s)
    BY SubsetSize
  <2> QED
    BY <1>5, <2>1 DEF T
<1> QED
  BY <1>1, <1>2, <1>6 DEF Sums, Right

\* A sum is no smaller than one whose positive terms it has, each under a
\* place of its own.
LEMMA SumCovers ==
  ASSUME NEW S, IsFiniteSet(S), NEW f, \A x \in S : f[x] \in Nat, NEW h, Sums(h, f, S),
         NEW R, NEW g, \A y \in R : g[y] \in Nat, NEW k, Sums(k, g, R),
         NEW e, \A x \in S : f[x] > 0 => e[x] \in R /\ f[x] <= g[e[x]],
         \A x, y \in S : e[x] = e[y] => x = y
  PROVE  h[S] <= k[R]
<1> DEFINE Covers(s, r) == (\A x \in s : f[x] > 0 => e[x] \in r) => h[s] <= k[r]
           T == {n \in Nat : \A s \in SUBSET S : Cardinality(s) = n => \A r \in SUBSET R : Covers(s, r)}
<1>1. 0 \in T
  <2>1. \A s \in SUBSET S : Cardinality(s) = 0 => h[s] = 0
    BY SubsetSize DEF Sums
  <2>2. \A r \in SUBSET R : 0 <= k[r]
    BY DEF Sums
  <2> QED
    BY <2>1, <2>2
<1>2. ASSUME NEW n \in Nat, n \in T PROVE n + 1 \in T
  <2> SUFFICES ASSUME NEW s \in SUBSET S, Cardinality(s) = n + 1, NEW r \in SUBSET R,
                      \A x \in s : f[x] > 0 => e[x] \in r
               PROVE  h[s] <= k[r]
    OBVIOUS
  <2>1. PICK x \in s : TRUE
    BY SubsetSize
  <2>2. /\ h[s] = f[x] + h[s \ {x}] /\ h[s \ {x}] \in Nat /\ f[x] \in Nat
        /\ s \ {x} \in SUBSET S /\ Cardinality(s \ {x}) = n
    BY <2>1, SubsetSize DEF Sums
  <2>3. \A q \in SUBSET R : Covers(s \ {x}, q)
    BY <1>2, <2>2
  <2>4. CASE f[x] = 0
    <3>1. Covers(s \ {x}, r)
      BY <2>3
    <3> QED
      BY <2>2, <2>4, <3>1
  <2>5. CASE f[x] > 0
    <3>1. e[x] \in r /\ f[x] <= g[e[x]] /\ g[e[x]] \in Nat
      BY <2>1, <2>5
    <3>2. k[r] = g[e[x]] + k[r \ {e[x]}] /\ k[r \ {e[x]}] \in Nat
      BY <3>1 DEF Sums
    <3>3. \A y \in s \ {x} : f[y] > 0 => e[y] \in r \ {e[x]}
      BY <2>1
    <3>4. Covers(s \ {x}, r \ {e[x]})
      BY <2>3
    <3>5. h[s \ {x}] <= k[r \ {e[x]}]
      BY <3>3, <3>4
    <3> QED
      BY <2>2, <3>1, <3>2, <3>5
  <2> QED
    BY <2>2, <2>4, <2>5
<1> HIDE DEF T, Covers
<1>3. Nat \subseteq T
  BY <1>1, <1>2, Induct
<1>4. PICK n \in Nat : n = Cardinality(S)
  BY SubsetSize
<1>5. Covers(S, R)
  BY <1>3, <1>4 DEF T
<1> QED
  BY <1>5 DEF Covers

\* The same of Total.
LEMMA TotalCovers ==
  ASSUME NEW S, IsFiniteSet(S), NEW f, \A x \in S : f[x] \in Nat,
         NEW R, IsFiniteSet(R), NEW g, \A y \in R : g[y] \in Nat,
         NEW e, \A x \in S : f[x] > 0 => e[x] \in R /\ f[x] <= g[e[x]],
         \A x, y \in S : e[x] = e[y] => x = y
  PROVE  Total(f, S) <= Total(g, R)
<1>1. PICK h : SumsUpTo(h, f, S, Cardinality(S)) /\ Total(f, S) = h[S]
  BY TotalIs
<1>2. PICK k : SumsUpTo(k, g, R, Cardinality(R)) /\ Total(g, R) = k[R]
  BY TotalIs
<1>3. Sums(h, f, S) /\ Sums(k, g, R)
  BY <1>1, <1>2, AnyFirst
<1>4. h[S] <= k[R]
  BY <1>3, SumCovers
<1> QED
  BY <1>1, <1>2, <1>4

LEMMA TotalTyped ==
  ASSUME NEW S, IsFiniteSet(S), NEW f, \A x \in S : f[x] \in Nat
  PROVE  Total(f, S) \in Nat
<1>1. PICK h : SumsUpTo(h, f, S, Cardinality(S)) /\ Total(f, S) = h[S]
  BY TotalIs
<1> QED
  BY <1>1 DEF SumsUpTo

-----------------------------------------------------------------------------
(* What the manifests declare *)

InLoop == {"clean", "make", "emission", "declared", "measure"}
Filled == {"emission", "declared", "measure"}

\* What the members of a configuration come to in the tree.
TreeOf(x) == {[member |-> m, of |-> x] : m \in Members(x)}

\* The property, of one configuration.
Bounds(x) ==
  /\ library[x].resident >= Total(library[x].size, RoFloor)
  /\ library[x].size["CODE"] = 0
  /\ library[x].inner \/ library[x].coldBytes >= library[x].cold
  /\ library[x].coldBytes <= library[x].resident

SourcesTyped ==
  /\ library \in Libraries /\ targets \in Seq(DOMAIN Library)
  /\ targets = MakeTargets \/ Len(targets) < Len(MakeTargets)

\* What main established before the loop, and what the loop has so far.
LoopKnows ==
  /\ broken = {} /\ Classified /\ targets = MakeTargets
  /\ arm \in 1 .. Len(targets) /\ footed = "none" /\ refused \in Nat
  /\ refused = 0 => \A i \in 1 .. arm - 1 : Bounds(targets[i])

\* The arm in hand.
ArmKnows ==
  /\ phase = "make" => objects = {}
  /\ phase \in Filled => objects \subseteq TreeOf(targets[arm])
  /\ phase \in {"declared", "measure"} /\ refused = 0 => \A o \in objects : o.member # "CODE"
  /\ phase = "measure" =>
       declares = [resident |-> library[targets[arm]].resident,
                   coldBytes |-> library[targets[arm]].coldBytes]

FootprintInv ==
  /\ SourcesTyped
  /\ phase \in InLoop \cup {"start", "end"}
  /\ phase = "start" => footed = "none" /\ refused = 0
  /\ phase \in InLoop => LoopKnows
  /\ ArmKnows
  /\ footed = "passed" => targets = MakeTargets /\ \A i \in 1 .. Len(targets) : Bounds(targets[i])

\* A Makefile has an archive target.
LEMMA SomeArm == MakeTargets # <<>>
BY FootprintAssumption

LEMMA FootprintStart == ASSUME FootprintInit PROVE FootprintInv
<1>1. SourcesTyped
  BY FootprintAssumption DEF FootprintInit, SourcesTyped
<1>2. phase = "start" /\ footed = "none" /\ refused = 0
  BY DEF FootprintInit
<1> QED
  BY <1>1, <1>2 DEF FootprintInv, ArmKnows, InLoop, Filled

LEMMA LibraryGrows ==
  ASSUME library \in Libraries, Grow
  PROVE  library' \in Libraries
<1> DEFINE ArmRow == [size : [SegmentNames \cup {"CODE"} -> Nat], cold : Nat, inner : BOOLEAN,
                      resident : Int, coldBytes : Int]
<1>1. PICK x \in DOMAIN library :
       \/ \E m \in SegmentNames \cup {"CODE"} : library' = [library EXCEPT ![x].size[m] = @ + 1]
       \/ library' = [library EXCEPT ![x].size[ColdSegment] = @ + 1, ![x].cold = @ + 1]
       \/ library' = [library EXCEPT ![x].inner = TRUE]
       \/ library' = [library EXCEPT ![x].resident = @ - 1]
       \/ library' = [library EXCEPT ![x].coldBytes = @ + 2]
  BY DEF Grow
<1>2. library[x] \in ArmRow /\ x \in DOMAIN Library /\ library \in [DOMAIN Library -> ArmRow]
  BY <1>1 DEF Libraries
<1>3. ASSUME NEW m \in SegmentNames \cup {"CODE"} PROVE [library[x].size EXCEPT ![m] = @ + 1] \in [SegmentNames \cup {"CODE"} -> Nat]
  BY <1>2
<1>4. ColdSegment \in SegmentNames
  BY FootprintAssumption
<1>5. ASSUME NEW r \in ArmRow PROVE [library EXCEPT ![x] = r] \in [DOMAIN Library -> ArmRow]
  BY <1>2
<1>6. CASE \E m \in SegmentNames \cup {"CODE"} : library' = [library EXCEPT ![x].size[m] = @ + 1]
  <2>1. PICK m \in SegmentNames \cup {"CODE"} : library' = [library EXCEPT ![x].size[m] = @ + 1]
    BY <1>6
  <2>2. library' = [library EXCEPT ![x] = [library[x] EXCEPT !.size = [library[x].size EXCEPT ![m] = @ + 1]]]
    BY <2>1
  <2>3. [library[x] EXCEPT !.size = [library[x].size EXCEPT ![m] = @ + 1]] \in ArmRow
    BY <1>2, <1>3
  <2> QED
    BY <1>5, <2>2, <2>3 DEF Libraries
<1>7. CASE library' = [library EXCEPT ![x].size[ColdSegment] = @ + 1, ![x].cold = @ + 1]
  <2>1. library' = [library EXCEPT ![x] = [library[x] EXCEPT !.size = [library[x].size EXCEPT ![ColdSegment] = @ + 1], !.cold = library[x].cold + 1]]
    BY <1>2, <1>4, <1>7
  <2>2. [library[x] EXCEPT !.size = [library[x].size EXCEPT ![ColdSegment] = @ + 1], !.cold = library[x].cold + 1] \in ArmRow
    <3>1. [library[x].size EXCEPT ![ColdSegment] = @ + 1] \in [SegmentNames \cup {"CODE"} -> Nat]
      BY <1>3, <1>4
    <3>2. library[x].cold + 1 \in Nat
      BY <1>2
    <3> QED
      BY <1>2, <3>1, <3>2
  <2> QED
    BY <1>5, <2>1, <2>2 DEF Libraries
<1>8. CASE library' = [library EXCEPT ![x].inner = TRUE]
  BY <1>2, <1>8 DEF Libraries
<1>9. CASE library' = [library EXCEPT ![x].resident = @ - 1]
  <2>1. [library[x] EXCEPT !.resident = library[x].resident - 1] \in ArmRow
    BY <1>2
  <2>2. library' = [library EXCEPT ![x] = [library[x] EXCEPT !.resident = library[x].resident - 1]]
    BY <1>9
  <2> QED
    BY <1>5, <2>1, <2>2 DEF Libraries
<1>10. CASE library' = [library EXCEPT ![x].coldBytes = @ + 2]
  <2>1. [library[x] EXCEPT !.coldBytes = library[x].coldBytes + 2] \in ArmRow
    BY <1>2
  <2>2. library' = [library EXCEPT ![x] = [library[x] EXCEPT !.coldBytes = library[x].coldBytes + 2]]
    BY <1>10
  <2> QED
    BY <1>5, <2>1, <2>2 DEF Libraries
<1> QED
  BY <1>1, <1>6, <1>7, <1>8, <1>9, <1>10

LEMMA FootprintTweaks ==
  ASSUME FootprintInv, Retype \/ Reformat \/ BreakGate \/ DropTarget \/ Grow
  PROVE  FootprintInv'
<1>1. phase = "start" /\ UNCHANGED <<phase, objects, declares, refused, footed, arm>>
  BY DEF Retype, Reformat, BreakGate, DropTarget, Grow, Tweak
<1>2. SourcesTyped'
  <2>1. CASE Retype \/ Reformat \/ BreakGate
    BY <2>1 DEF FootprintInv, SourcesTyped, Retype, Reformat, BreakGate
  <2>2. CASE DropTarget
    BY <2>2, FootprintAssumption DEF FootprintInv, SourcesTyped, DropTarget, Tweak
  <2>3. CASE Grow
    BY <2>3, LibraryGrows DEF FootprintInv, SourcesTyped, Grow
  <2> QED
    BY <2>1, <2>2, <2>3
<1> QED
  BY <1>1, <1>2 DEF FootprintInv, ArmKnows, InLoop, Filled

\* Nothing a step of the gate leaves alone loosens a bound.
LEMMA BoundsStay == ASSUME UNCHANGED library, NEW x PROVE Bounds(x)' <=> Bounds(x)
BY DEF Bounds

\* The sum the gate takes has every byte that ships.
LEMMA ResidentSum ==
  ASSUME FootprintInv, phase = "measure", LinksWhole, Missed = {}
  PROVE  /\ Resident >= Total(library[targets[arm]].size, RoFloor)
         /\ Resident \in Int /\ Total(library[targets[arm]].size, RoFloor) \in Int
<1> DEFINE x == targets[arm]
           f == library[x].size
           e == [m \in RoFloor |-> [member |-> m, of |-> x]]
<1>1. x \in DOMAIN Library /\ RoFloor \subseteq Ro
  BY DEF FootprintInv, LoopKnows, InLoop, SourcesTyped, Classified
<1>2. f \in [SegmentNames \cup {"CODE"} -> Nat]
  BY <1>1 DEF FootprintInv, SourcesTyped, Libraries
<1>3. IsFiniteSet(SegmentNames) /\ RoFloor \subseteq SegmentNames
  BY FootprintAssumption
<1>4. IsFiniteSet(RoFloor) /\ \A m \in RoFloor : f[m] \in Nat
  BY <1>2, <1>3, FS_Subset
<1>5. objects \subseteq TreeOf(x)
  BY DEF FootprintInv, ArmKnows, Filled
<1>6. Hits \subseteq {o \in objects : o.member \in SegmentNames}
  BY DEF Hits, Rows
<1>7. IsFiniteSet(Hits)
  <2> DEFINE all == {[member |-> m, of |-> x] : m \in SegmentNames}
  <2>1. [m \in SegmentNames |-> [member |-> m, of |-> x]] \in Surjection(SegmentNames, all)
    BY DEF Surjection
  <2>2. IsFiniteSet(all)
    BY <1>3, <2>1, FS_Surjection
  <2>3. Hits \subseteq all
    BY <1>5, <1>6 DEF TreeOf
  <2> QED
    BY <2>2, <2>3, FS_Subset
<1>8. \A o \in Hits : Placed[o] = f[o.member] /\ Placed[o] \in Nat
  <2> SUFFICES ASSUME NEW o \in Hits PROVE Placed[o] = f[o.member] /\ Placed[o] \in Nat
    OBVIOUS
  <2>1. o \in objects /\ o.of = x /\ o.member \in SegmentNames
    BY <1>5, <1>6 DEF TreeOf
  <2> QED
    BY <1>2, <2>1 DEF Placed
<1>9. ASSUME NEW m \in RoFloor, f[m] > 0 PROVE e[m] \in Hits /\ f[m] <= Placed[e[m]]
  <2>1. m \in Members(x)
    BY <1>3, <1>9 DEF Members
  <2>2. PICK o \in objects : o.member = m
    BY <2>1 DEF LinksWhole
  <2>3. o = e[m]
    BY <1>5, <2>2 DEF TreeOf
  <2>4. o \in Hits
    BY <1>1, <2>2 DEF Missed, Hits
  <2>5. Placed[o] = f[m] /\ f[m] \in Nat
    BY <1>4, <1>8, <2>2, <2>4
  <2> QED
    BY <2>3, <2>4, <2>5
<1>10. \A m, n \in RoFloor : e[m] = e[n] => m = n
  <2> SUFFICES ASSUME NEW m \in RoFloor, NEW n \in RoFloor, e[m] = e[n] PROVE m = n
    OBVIOUS
  <2>1. e[m].member = m /\ e[n].member = n
    OBVIOUS
  <2> QED
    BY <2>1
<1>11. \A o \in Hits : Placed[o] \in Nat
  BY <1>8
<1> HIDE DEF e, f
<1>12. Total(f, RoFloor) <= Total(Placed, Hits)
  BY <1>4, <1>7, <1>9, <1>10, <1>11, TotalCovers
<1>13. Total(f, RoFloor) \in Nat /\ Total(Placed, Hits) \in Nat
  BY <1>4, <1>7, <1>11, TotalTyped
<1> QED
  BY <1>12, <1>13 DEF Resident, f

\* An arm for which the gate says ok is within its bounds.
LEMMA ArmRight ==
  ASSUME FootprintInv, phase = "measure", LinksWhole, Missed = {},
         NEW o \in objects, o.member = ColdSegment, refused = 0, ~FootprintFlags(Cold(o))
  PROVE  Bounds(targets[arm])
<1> DEFINE x == targets[arm]
<1>1. /\ x \in DOMAIN Library /\ broken = {}
      /\ objects \subseteq TreeOf(x) /\ \A y \in objects : y.member # "CODE"
      /\ declares = [resident |-> library[x].resident, coldBytes |-> library[x].coldBytes]
  BY DEF FootprintInv, LoopKnows, InLoop, SourcesTyped, ArmKnows, Filled
<1>2. /\ library[x].size \in [SegmentNames \cup {"CODE"} -> Nat]
      /\ library[x].inner \in BOOLEAN /\ library[x].cold \in Nat
      /\ library[x].resident \in Int /\ library[x].coldBytes \in Int
  BY <1>1 DEF FootprintInv, SourcesTyped, Libraries
<1>3. o.of = x
  BY <1>1 DEF TreeOf
<1>4. library[x].size["CODE"] = 0
  <2> SUFFICES ASSUME library[x].size["CODE"] > 0 PROVE FALSE
    BY <1>2
  <2>1. "CODE" \in Members(x)
    BY DEF Members
  <2>2. PICK y \in objects : y.member = "CODE"
    BY <2>1 DEF LinksWhole
  <2> QED
    BY <1>1, <2>2
<1>5. library[x].resident >= Resident
  <2>1. Resident \in Int
    BY ResidentSum
  <2>2. ~ (declares.resident < Resident)
    BY <1>1 DEF FootprintFlags
  <2> QED
    BY <1>1, <1>2, <2>1, <2>2
<1>6. library[x].coldBytes <= library[x].resident
  BY <1>1, <1>2 DEF FootprintFlags
<1>7. library[x].inner \/ library[x].coldBytes >= library[x].cold
  BY <1>1, <1>2, <1>3 DEF FootprintFlags, Cold
<1>8. Resident >= Total(library[x].size, RoFloor)
  BY ResidentSum
<1>9. Total(library[x].size, RoFloor) \in Int /\ Resident \in Int
  BY ResidentSum
<1>10. library[x].resident >= Total(library[x].size, RoFloor)
  BY <1>2, <1>5, <1>8, <1>9
<1> QED
  BY <1>4, <1>6, <1>7, <1>10 DEF Bounds

LEMMA FootprintStarts ==
  ASSUME FootprintInv, StartFootprints
  PROVE  FootprintInv'
<1>1. phase = "start" /\ UNCHANGED <<source, sweeps>> /\ footed = "none" /\ refused = 0
  BY DEF FootprintInv, StartFootprints
<1>2. SourcesTyped'
  BY <1>1 DEF FootprintInv, SourcesTyped, source
<1>3. CASE FixturesRight /\ Classified /\ ArmsFromMakefile
  <2>1. phase' = "clean" /\ arm' = 1 /\ UNCHANGED <<refused, footed>>
    BY <1>3 DEF StartFootprints
  <2>2. targets = MakeTargets
    BY <1>3, FootprintAssumption DEF FootprintInv, SourcesTyped, ArmsFromMakefile
  <2>3. 1 \in 1 .. Len(targets)
    BY <2>2, SomeArm
  <2>4. Classified'
    BY <1>1, <1>3 DEF Classified, Ro, source
  <2>5. LoopKnows'
    BY <1>1, <1>3, <2>1, <2>2, <2>3, <2>4 DEF LoopKnows, FixturesRight, source
  <2> QED
    BY <1>1, <1>2, <2>1, <2>5 DEF FootprintInv, ArmKnows, InLoop, Filled
<1>4. CASE ~(FixturesRight /\ Classified /\ ArmsFromMakefile)
  BY <1>1, <1>2, <1>4 DEF StartFootprints, Die, FootprintInv, ArmKnows, InLoop, Filled
<1> QED
  BY <1>3, <1>4

\* Within the loop the sources stay, and what is known of them.
LEMMA KnownStays ==
  ASSUME FootprintInv, phase \in InLoop, UNCHANGED <<source, arm, footed, refused>>
  PROVE  /\ SourcesTyped' /\ LoopKnows' /\ targets' = targets /\ library' = library
         /\ targets[arm] \in DOMAIN Library
<1>1. SourcesTyped' /\ UNCHANGED <<types, unparsed, broken, targets, library>>
  BY DEF FootprintInv, SourcesTyped, source
<1>2. Classified'
  BY <1>1 DEF FootprintInv, LoopKnows, Classified, Ro
<1>3. \A i \in 1 .. arm - 1 : Bounds(targets[i])' <=> Bounds(targets[i])
  BY <1>1, BoundsStay
<1> QED
  BY <1>1, <1>2, <1>3 DEF FootprintInv, SourcesTyped, LoopKnows

LEMMA FootprintBuilds ==
  ASSUME FootprintInv, CleanBuild \/ Make
  PROVE  FootprintInv'
<1>1. phase \in InLoop /\ phase' \in InLoop /\ UNCHANGED <<source, arm, footed, refused>>
  BY DEF CleanBuild, Make, InLoop
<1>2. SourcesTyped' /\ LoopKnows' /\ targets' = targets /\ library' = library
  BY <1>1, KnownStays
<1>3. ArmKnows'
  <2>1. CASE CleanBuild
    BY <2>1 DEF CleanBuild, ArmKnows, Filled
  <2>2. CASE Make
    <3>1. objects = {} /\ phase' = "emission"
      BY <2>2 DEF Make, FootprintInv, ArmKnows
    <3>2. Members(targets[arm])' = Members(targets[arm])
      BY <1>1, <1>2 DEF Members
    <3>3. objects' \subseteq TreeOf(targets[arm])
      BY <2>2, <3>1 DEF Make, TreeOf
    <3>4. TreeOf(targets[arm])' = TreeOf(targets[arm])
      BY <1>1, <1>2, <3>2 DEF TreeOf
    <3> QED
      BY <3>1, <3>3, <3>4 DEF ArmKnows, Filled
  <2> QED
    BY <2>1, <2>2
<1> QED
  BY <1>1, <1>2, <1>3 DEF FootprintInv, LoopKnows, InLoop

\* A tree in which members were built stays one of the arm.
LEMMA TreeStays ==
  ASSUME FootprintInv, phase \in Filled, UNCHANGED <<library, targets, arm>>
  PROVE  TreeOf(targets[arm])' = TreeOf(targets[arm]) /\ objects \subseteq TreeOf(targets[arm])
<1>1. Members(targets[arm])' = Members(targets[arm])
  BY DEF Members
<1> QED
  BY <1>1 DEF TreeOf, FootprintInv, ArmKnows

LEMMA FootprintEmission ==
  ASSUME FootprintInv, Emission
  PROVE  FootprintInv'
<1>1. /\ phase = "emission" /\ phase' = "declared"
      /\ UNCHANGED <<source, sweeps, arm, objects, declares, footed>>
  BY DEF Emission
<1>2. UNCHANGED <<types, unparsed, broken, targets, library>>
  BY <1>1 DEF source
<1>3. LoopKnows /\ SourcesTyped
  BY <1>1 DEF FootprintInv, InLoop
<1>4. refused' \in Nat /\ (refused' = 0 => refused = 0 /\ \A o \in objects : o.member # "CODE")
  BY <1>3 DEF Emission, LoopKnows
<1>5. SourcesTyped'
  BY <1>2, <1>3 DEF SourcesTyped
<1>6. LoopKnows'
  <2>1. Classified'
    BY <1>2, <1>3 DEF LoopKnows, Classified, Ro
  <2>2. \A i \in 1 .. arm - 1 : Bounds(targets[i])' <=> Bounds(targets[i])
    BY <1>2, BoundsStay
  <2> QED
    BY <1>1, <1>2, <1>3, <1>4, <2>1, <2>2 DEF LoopKnows
<1>7. ArmKnows'
  BY <1>1, <1>2, <1>4, TreeStays DEF ArmKnows, Filled
<1> QED
  BY <1>1, <1>5, <1>6, <1>7 DEF FootprintInv, LoopKnows, InLoop

LEMMA FootprintDeclared ==
  ASSUME FootprintInv, Declared
  PROVE  FootprintInv'
<1>1. phase = "declared" /\ UNCHANGED <<source, sweeps, arm, refused>>
  BY DEF Declared, Die
<1>2. CASE Die
  <2>1. SourcesTyped'
    BY <1>1 DEF FootprintInv, SourcesTyped, source
  <2> QED
    BY <1>2, <2>1 DEF Die, FootprintInv, ArmKnows, InLoop, Filled
<1>3. CASE ~Die
  <2>1. PICK o \in objects :
          /\ o.member = "manifest" /\ phase' = "measure"
          /\ declares' = [resident |-> library[o.of].resident, coldBytes |-> library[o.of].coldBytes]
          /\ UNCHANGED <<arm, objects, refused, footed>>
    BY <1>3 DEF Declared
  <2>2. SourcesTyped' /\ LoopKnows' /\ targets' = targets /\ library' = library
    BY <1>1, <2>1, KnownStays DEF InLoop
  <2>3. o.of = targets[arm]
    BY <1>1, <2>1 DEF FootprintInv, ArmKnows, Filled, TreeOf
  <2>4. ArmKnows'
    BY <1>1, <2>1, <2>2, <2>3, TreeStays DEF FootprintInv, ArmKnows, Filled
  <2> QED
    BY <2>1, <2>2, <2>4 DEF FootprintInv, LoopKnows, InLoop
<1> QED
  BY <1>2, <1>3

LEMMA FootprintMeasures ==
  ASSUME FootprintInv, MeasureArm
  PROVE  FootprintInv'
<1>1. phase = "measure" /\ UNCHANGED <<source, sweeps>>
  BY DEF MeasureArm
<1>2. UNCHANGED <<types, unparsed, broken, targets, library>>
  BY <1>1 DEF source
<1>3. LoopKnows /\ SourcesTyped
  BY <1>1 DEF FootprintInv, InLoop
<1>4. SourcesTyped'
  BY <1>2, <1>3 DEF SourcesTyped
<1>5. CASE Die
  BY <1>4, <1>5 DEF Die, FootprintInv, ArmKnows, InLoop, Filled
<1>6. CASE ~Die
  <2>1. LinksWhole /\ Missed = {} /\ \E x \in objects : x.member = ColdSegment
    BY <1>6 DEF MeasureArm
  <2>2. PICK o : o = CHOOSE x \in objects : x.member = ColdSegment
    OBVIOUS
  <2>3. o \in objects /\ o.member = ColdSegment
    BY <2>1, <2>2
  <2>4. /\ refused' = IF FootprintFlags(Cold(o)) THEN refused + 1 ELSE refused
        /\ IF arm < Len(targets) THEN phase' = "clean" /\ arm' = arm + 1 /\ UNCHANGED footed
           ELSE /\ phase' = "end" /\ UNCHANGED arm
                /\ footed' = IF refused' = 0 THEN "passed" ELSE "died"
    BY <1>6, <2>2 DEF MeasureArm
  <2>5. refused' \in Nat /\ (refused' = 0 => refused = 0 /\ ~FootprintFlags(Cold(o)))
    BY <1>3, <2>4 DEF LoopKnows
  <2>6. refused' = 0 => Bounds(targets[arm])
    BY <1>1, <2>1, <2>3, <2>5, ArmRight
  <2>7. arm \in 1 .. Len(targets) /\ Len(targets) \in Nat /\ targets = MakeTargets
    BY <1>3 DEF LoopKnows, SourcesTyped
  <2>8. refused' = 0 => \A i \in 1 .. arm : Bounds(targets[i])
    BY <1>3, <2>5, <2>6, <2>7 DEF LoopKnows
  <2>9. \A i \in 1 .. arm : Bounds(targets[i])' <=> Bounds(targets[i])
    BY <1>2, BoundsStay
  <2>10. CASE arm < Len(targets)
    <3>1. phase' = "clean" /\ arm' = arm + 1 /\ footed' = footed
      BY <2>4, <2>10
    <3>2. Classified'
      BY <1>2, <1>3 DEF LoopKnows, Classified, Ro
    <3>3. arm' \in 1 .. Len(targets) /\ arm' - 1 = arm
      BY <2>7, <2>10, <3>1
    <3>4. LoopKnows'
      BY <1>2, <1>3, <2>5, <2>7, <2>8, <2>9, <3>1, <3>2, <3>3 DEF LoopKnows
    <3> QED
      BY <1>4, <3>1, <3>4 DEF FootprintInv, ArmKnows, LoopKnows, InLoop, Filled
  <2>11. CASE ~(arm < Len(targets))
    <3>1. phase' = "end" /\ arm = Len(targets) /\ (footed' = "passed" => refused' = 0)
      BY <2>4, <2>7, <2>11
    <3>2. footed' = "passed" => targets' = MakeTargets /\ \A i \in 1 .. Len(targets') : Bounds(targets[i])'
      BY <1>2, <2>7, <2>8, <2>9, <3>1
    <3> QED
      BY <1>2, <1>4, <3>1, <3>2 DEF FootprintInv, ArmKnows, InLoop, Filled
  <2> QED
    BY <2>10, <2>11
<1> QED
  BY <1>5, <1>6

LEMMA FootprintSwept ==
  ASSUME FootprintInv, SweptByOthers
  PROVE  FootprintInv'
<1>1. /\ phase \in InLoop /\ objects' \subseteq objects
      /\ UNCHANGED <<source, arm, phase, declares, refused, footed>>
  BY DEF SweptByOthers, FootprintInv, InLoop
<1>2. SourcesTyped' /\ LoopKnows' /\ targets' = targets /\ library' = library
  BY <1>1, KnownStays
<1>3. ArmKnows'
  BY <1>1, <1>2, TreeStays DEF FootprintInv, ArmKnows, Filled
<1> QED
  BY <1>1, <1>2, <1>3 DEF FootprintInv, LoopKnows, InLoop

LEMMA FootprintSame ==
  ASSUME FootprintInv, UNCHANGED footprintVars
  PROVE  FootprintInv'
<1>1. UNCHANGED <<types, unparsed, broken, targets, library, arm, phase, objects, declares, refused, footed>>
  BY DEF footprintVars
<1>2. SourcesTyped' /\ (Classified' <=> Classified)
  BY <1>1 DEF FootprintInv, SourcesTyped, Classified, Ro
<1>3. \A x : Bounds(x)' <=> Bounds(x)
  BY <1>1, BoundsStay
<1>4. LoopKnows' <=> LoopKnows
  BY <1>1, <1>2, <1>3 DEF LoopKnows
<1>5. ArmKnows'
  BY <1>1, TreeStays DEF FootprintInv, ArmKnows, Filled
<1> QED
  BY <1>1, <1>2, <1>3, <1>4, <1>5 DEF FootprintInv

LEMMA FootprintMeans ==
  ASSUME FootprintInv
  PROVE  DeclaredBoundsPlaced
<1> SUFFICES ASSUME footed = "passed", NEW x \in DOMAIN library PROVE Bounds(x)
  BY DEF DeclaredBoundsPlaced, Bounds
<1>1. x \in DOMAIN Library /\ targets = MakeTargets
  BY DEF FootprintInv, SourcesTyped, Libraries
<1>2. PICK i \in DOMAIN MakeTargets : MakeTargets[i] = x
  BY <1>1, FootprintAssumption
<1>3. i \in 1 .. Len(targets)
  BY <1>1, <1>2, FootprintAssumption
<1> QED
  BY <1>1, <1>2, <1>3 DEF FootprintInv

(* A footprint gate that passed leaves every configuration within what its  *)
(* manifest declares, for any library, any segments and floor, any archive  *)
(* targets and any number of edits and sweeps                               *)
(* (check_footprints.py:43-50, 94-103, 193-198, 221-244, 360-367).          *)
THEOREM FootprintSafety == FootprintSpec => []DeclaredBoundsPlaced
<1>1. FootprintInit => FootprintInv
  BY FootprintStart
<1>2. FootprintInv /\ [FootprintNext]_footprintVars => FootprintInv'
  BY FootprintTweaks, FootprintStarts, FootprintBuilds, FootprintEmission, FootprintDeclared,
     FootprintMeasures, FootprintSwept, FootprintSame DEF FootprintNext
<1>3. FootprintInv => DeclaredBoundsPlaced
  BY FootprintMeans
<1> QED
  BY <1>1, <1>2, <1>3, PTL DEF FootprintSpec

-----------------------------------------------------------------------------
(* The median of samples of which most are the same *)

\* s has a largest value.
LEMMA LargestPlace ==
  ASSUME NEW n \in Nat, NEW s \in [1 .. n + 1 -> Int]
  PROVE  \E m \in 1 .. n + 1 : \A i \in 1 .. n + 1 : s[i] <= s[m]
<1> DEFINE Has(k) == k + 1 <= n + 1 => \E m \in 1 .. k + 1 : \A i \in 1 .. k + 1 : s[i] <= s[m]
           T == {k \in Nat : Has(k)}
<1>1. 0 \in T
  <2>1. 1 \in 1 .. 0 + 1 /\ (1 <= n + 1 => s[1] <= s[1])
    OBVIOUS
  <2>2. \A i \in 1 .. 0 + 1 : i = 1
    OBVIOUS
  <2> QED
    BY <2>1, <2>2
<1>2. ASSUME NEW k \in Nat, k \in T PROVE k + 1 \in T
  <2> SUFFICES ASSUME (k + 1) + 1 <= n + 1
               PROVE  \E m \in 1 .. (k + 1) + 1 : \A i \in 1 .. (k + 1) + 1 : s[i] <= s[m]
    OBVIOUS
  <2>1. PICK m \in 1 .. k + 1 : \A i \in 1 .. k + 1 : s[i] <= s[m]
    BY <1>2
  <2>2. s[m] \in Int /\ s[k + 2] \in Int /\ \A i \in 1 .. k + 2 : s[i] \in Int
    OBVIOUS
  <2>3. CASE s[k + 2] <= s[m]
    <3>1. \A i \in 1 .. (k + 1) + 1 : s[i] <= s[m]
      BY <2>1, <2>3
    <3> QED
      BY <3>1
  <2>4. CASE s[m] < s[k + 2]
    <3>1. \A i \in 1 .. (k + 1) + 1 : s[i] <= s[k + 2]
      BY <2>1, <2>2, <2>4
    <3> QED
      BY <3>1
  <2> QED
    BY <2>2, <2>3, <2>4
<1> HIDE DEF T
<1>3. Nat \subseteq T
  BY <1>1, <1>2, Induct
<1>4. n \in T
  BY <1>3
<1> QED
  BY <1>4 DEF T

\* p puts s in order.
Orders(p, s, n) ==
  /\ p \in Bijection(1 .. n, 1 .. n)
  /\ \A i, j \in 1 .. n : i < j => s[p[i]] <= s[p[j]]

LEMMA Ordered ==
  ASSUME NEW n \in Nat, NEW s \in [1 .. n -> Int]
  PROVE  \E p : Orders(p, s, n)
<1> DEFINE T == {k \in Nat : \A t \in [1 .. k -> Int] : \E p : Orders(p, t, k)}
<1>1. 0 \in T
  <2> SUFFICES ASSUME NEW t PROVE \E p : Orders(p, t, 0)
    OBVIOUS
  <2>1. Orders([i \in 1 .. 0 |-> i], t, 0)
    BY DEF Orders, Bijection, Injection, Surjection, IsInjective
  <2> QED
    BY <2>1
<1>2. ASSUME NEW k \in Nat, k \in T PROVE k + 1 \in T
  <2> SUFFICES ASSUME NEW t \in [1 .. k + 1 -> Int] PROVE \E p : Orders(p, t, k + 1)
    OBVIOUS
  <2>1. PICK m \in 1 .. k + 1 : \A i \in 1 .. k + 1 : t[i] <= t[m]
    BY LargestPlace
  <2> DEFINE u == [i \in 1 .. k |-> IF i = m THEN t[k + 1] ELSE t[i]]
  <2>2. u \in [1 .. k -> Int]
    OBVIOUS
  <2>3. PICK p : Orders(p, u, k)
    BY <1>2, <2>2
  <2>4. p \in [1 .. k -> 1 .. k] /\ \A i, j \in 1 .. k : p[i] = p[j] => i = j
    BY <2>3 DEF Orders, Bijection, Injection, IsInjective
  <2>5. \A j \in 1 .. k : \E i \in 1 .. k : p[i] = j
    BY <2>3 DEF Orders, Bijection, Surjection
  <2>6. \A i, j \in 1 .. k : i < j => u[p[i]] <= u[p[j]]
    BY <2>3 DEF Orders
  <2> DEFINE q == [i \in 1 .. k + 1 |-> IF i = k + 1 THEN m ELSE IF p[i] = m THEN k + 1 ELSE p[i]]
  <2>7. q \in [1 .. k + 1 -> 1 .. k + 1]
    <3> SUFFICES ASSUME NEW i \in 1 .. k + 1
                 PROVE  (IF i = k + 1 THEN m ELSE IF p[i] = m THEN k + 1 ELSE p[i]) \in 1 .. k + 1
      OBVIOUS
    <3>1. i = k + 1 \/ i \in 1 .. k
      OBVIOUS
    <3>2. i \in 1 .. k => p[i] \in 1 .. k
      BY <2>4
    <3> QED
      BY <3>1, <3>2
  <2>8. \A i \in 1 .. k : t[q[i]] = u[p[i]]
    <3> SUFFICES ASSUME NEW i \in 1 .. k PROVE t[q[i]] = u[p[i]]
      OBVIOUS
    <3>1. p[i] \in 1 .. k /\ i # k + 1 /\ i \in 1 .. k + 1
      BY <2>4
    <3>2. q[i] = IF p[i] = m THEN k + 1 ELSE p[i]
      BY <3>1
    <3>3. u[p[i]] = IF p[i] = m THEN t[k + 1] ELSE t[p[i]]
      BY <3>1
    <3> QED
      BY <3>2, <3>3
  <2>9. q[k + 1] = m
    OBVIOUS
  <2>10. \A i, j \in 1 .. k + 1 : q[i] = q[j] => i = j
    <3>1. \A i \in 1 .. k : q[i] # m
      <4> SUFFICES ASSUME NEW i \in 1 .. k PROVE q[i] # m
        OBVIOUS
      <4>1. p[i] \in 1 .. k /\ q[i] = IF p[i] = m THEN k + 1 ELSE p[i]
        BY <2>4
      <4> HIDE DEF q
      <4> QED
        BY <4>1
    <3>2. \A i, j \in 1 .. k : q[i] = q[j] => i = j
      <4> SUFFICES ASSUME NEW i \in 1 .. k, NEW j \in 1 .. k, q[i] = q[j] PROVE i = j
        OBVIOUS
      <4>1. p[i] \in 1 .. k /\ q[i] = IF p[i] = m THEN k + 1 ELSE p[i]
        BY <2>4
      <4>2. p[j] \in 1 .. k /\ q[j] = IF p[j] = m THEN k + 1 ELSE p[j]
        BY <2>4
      <4>3. p[i] = p[j]
        BY <4>1, <4>2
      <4> QED
        BY <2>4, <4>3
    <3> HIDE DEF q
    <3> QED
      BY <2>9, <3>1, <3>2
  <2>11. \A j \in 1 .. k + 1 : \E i \in 1 .. k + 1 : q[i] = j
    <3> SUFFICES ASSUME NEW j \in 1 .. k + 1 PROVE \E i \in 1 .. k + 1 : q[i] = j
      OBVIOUS
    <3>1. CASE j = m
      BY <3>1
    <3>2. CASE j = k + 1 /\ j # m
      <4>1. m \in 1 .. k
        BY <3>2
      <4>2. PICK i \in 1 .. k : p[i] = m
        BY <2>5, <4>1
      <4>3. q[i] = k + 1
        BY <4>2
      <4> QED
        BY <3>2, <4>3
    <3>3. CASE j # k + 1 /\ j # m
      <4>1. j \in 1 .. k
        BY <3>3
      <4>2. PICK i \in 1 .. k : p[i] = j
        BY <2>5, <4>1
      <4>3. q[i] = j
        BY <3>3, <4>2
      <4> QED
        BY <4>3
    <3> QED
      BY <3>1, <3>2, <3>3
  <2>12. q \in Bijection(1 .. k + 1, 1 .. k + 1)
    <3> HIDE DEF q
    <3>1. q \in Injection(1 .. k + 1, 1 .. k + 1)
      BY <2>7, <2>10 DEF Injection, IsInjective
    <3>2. q \in Surjection(1 .. k + 1, 1 .. k + 1)
      BY <2>7, <2>11 DEF Surjection
    <3> QED
      BY <3>1, <3>2 DEF Bijection
  <2>13. ASSUME NEW i \in 1 .. k + 1, NEW j \in 1 .. k + 1, i < j PROVE t[q[i]] <= t[q[j]]
    <3>1. CASE j = k + 1
      <4>1. q[i] \in 1 .. k + 1
        BY <2>7
      <4> HIDE DEF q
      <4> QED
        BY <2>1, <2>9, <3>1, <4>1
    <3>2. CASE j # k + 1
      <4>1. i \in 1 .. k /\ j \in 1 .. k
        BY <2>13, <3>2
      <4> HIDE DEF q, u
      <4> QED
        BY <2>6, <2>8, <2>13, <4>1
    <3> QED
      BY <3>1, <3>2
  <2> HIDE DEF q
  <2>14. Orders(q, t, k + 1)
    BY <2>12, <2>13 DEF Orders
  <2> QED
    BY <2>14
<1> HIDE DEF T
<1>3. Nat \subseteq T
  BY <1>1, <1>2, Induct
<1>4. n \in T
  BY <1>3
<1> QED
  BY <1>4 DEF T

\* Sorted has the samples, each once, and does not fall.
SortedBy(p) ==
  /\ p \in Bijection(DOMAIN samples, DOMAIN samples)
  /\ Sorted = [i \in DOMAIN samples |-> samples[p[i]]]
  /\ \A i, j \in DOMAIN samples : i < j => samples[p[i]] <= samples[p[j]]

LEMMA SortedSamples == ASSUME samples \in Seq(Int) PROVE \E p : SortedBy(p)
<1> DEFINE n == Len(samples)
           p == CHOOSE q \in Bijection(DOMAIN samples, DOMAIN samples) :
                  \A i, j \in DOMAIN samples : i < j => samples[q[i]] <= samples[q[j]]
<1>1. n \in Nat /\ samples \in [1 .. n -> Int] /\ DOMAIN samples = 1 .. n
  OBVIOUS
<1>2. \E q : Orders(q, samples, n)
  BY <1>1, Ordered
<1>3. \E q \in Bijection(DOMAIN samples, DOMAIN samples) :
        \A i, j \in DOMAIN samples : i < j => samples[q[i]] <= samples[q[j]]
  BY <1>1, <1>2 DEF Orders
<1>4. /\ p \in Bijection(DOMAIN samples, DOMAIN samples)
      /\ \A i, j \in DOMAIN samples : i < j => samples[p[i]] <= samples[p[j]]
  BY <1>3
<1>5. Sorted = [i \in DOMAIN samples |-> samples[p[i]]]
  BY DEF Sorted
<1> HIDE DEF p
<1>6. SortedBy(p)
  BY <1>4, <1>5 DEF SortedBy
<1> QED
  BY <1>6

\* No sample is before the first or after the last.
LEMMA SortedEnds ==
  ASSUME samples \in Seq(Int), samples # <<>>
  PROVE  /\ Sorted \in [DOMAIN samples -> Int] /\ 1 \in DOMAIN samples /\ Len(samples) \in DOMAIN samples
         /\ \A i \in DOMAIN samples : Sorted[1] <= samples[i] /\ samples[i] <= Sorted[Len(samples)]
         /\ \A k \in DOMAIN samples : \E i \in DOMAIN samples : Sorted[k] = samples[i]
<1>1. PICK p : SortedBy(p)
  BY SortedSamples
<1>2. p \in [DOMAIN samples -> DOMAIN samples] /\ \A j \in DOMAIN samples : \E i \in DOMAIN samples : p[i] = j
  BY <1>1 DEF SortedBy, Bijection, Surjection
<1>3. DOMAIN samples = 1 .. Len(samples) /\ Len(samples) \in Nat \ {0}
      /\ \A i \in DOMAIN samples : samples[i] \in Int
  OBVIOUS
<1>4. ASSUME NEW i \in DOMAIN samples PROVE Sorted[1] <= samples[i] /\ samples[i] <= Sorted[Len(samples)]
  <2>1. PICK k \in DOMAIN samples : p[k] = i
    BY <1>2
  <2> DEFINE n == Len(samples)
  <2>3. k = 1 \/ samples[p[1]] <= samples[p[k]]
    <3>1. 1 \in DOMAIN samples /\ (k = 1 \/ 1 < k)
      BY <1>3
    <3> QED
      BY <1>1, <3>1 DEF SortedBy
  <2>4. k = n \/ samples[p[k]] <= samples[p[n]]
    <3>1. n \in DOMAIN samples /\ (k = n \/ k < n)
      BY <1>3
    <3> QED
      BY <1>1, <3>1 DEF SortedBy
  <2>5. p[k] \in DOMAIN samples /\ samples[p[k]] \in Int
    BY <1>2, <1>3
  <2>2. samples[p[1]] <= samples[p[k]] /\ samples[p[k]] <= samples[p[n]]
    BY <2>3, <2>4, <2>5
  <2> QED
    BY <1>1, <1>3, <2>1, <2>2 DEF SortedBy
<1>5. Sorted = [i \in DOMAIN samples |-> samples[p[i]]]
  BY <1>1 DEF SortedBy
<1>6. \A i \in DOMAIN samples : Sorted[i] = samples[p[i]] /\ p[i] \in DOMAIN samples
  BY <1>2, <1>5
<1>7. Sorted \in [DOMAIN samples -> Int]
  BY <1>3, <1>5, <1>6
<1>8. 1 \in DOMAIN samples /\ Len(samples) \in DOMAIN samples
  BY <1>3
<1> QED
  BY <1>4, <1>6, <1>7, <1>8

\* The median is what more than half of the samples are.
LEMMA MedianRight ==
  ASSUME samples \in Seq(Int), NEW v,
         2 * Cardinality({i \in DOMAIN samples : samples[i] # v}) < Len(samples)
  PROVE  Median = v
<1> DEFINE others == {i \in DOMAIN samples : samples[i] # v}
<1>0. PICK n \in Nat : n = Len(samples)
  OBVIOUS
<1>1. DOMAIN samples = 1 .. n /\ n \in Nat /\ \A i \in 1 .. n : samples[i] \in Int
  BY <1>0
<1>2. IsFiniteSet(1 .. n)
  BY <1>1, FS_Interval
<1>3. IsFiniteSet(others) /\ Cardinality(others) \in Nat
  BY <1>1, <1>2, FS_Subset, FS_CardinalityType
<1>4. 2 * Cardinality(others) < n /\ n > 0
  BY <1>0, <1>3
<1>14. PICK k \in 1 .. n : k = n \div 2 + 1 /\ 2 * k > n /\ 2 * (k - 1) <= n
  BY <1>4
<1> HIDE DEF others
<1>5. PICK p : SortedBy(p)
  BY SortedSamples
<1>6. p \in [1 .. n -> 1 .. n] /\ \A i, j \in 1 .. n : p[i] = p[j] => i = j
  BY <1>1, <1>5 DEF SortedBy, Bijection, Injection, IsInjective
<1>16. \A i, j \in 1 .. n : i < j => samples[p[i]] <= samples[p[j]]
  BY <1>1, <1>5 DEF SortedBy
<1>15. \A i \in 1 .. n : samples[p[i]] \in Int
  <2> SUFFICES ASSUME NEW i \in 1 .. n PROVE samples[p[i]] \in Int
    OBVIOUS
  <2>1. p[i] \in 1 .. n
    BY <1>6
  <2> QED
    BY <1>1, <2>1
<1>7. Median = samples[p[k]]
  BY <1>0, <1>1, <1>5, <1>14 DEF SortedBy, Median
<1> SUFFICES ASSUME samples[p[k]] # v PROVE FALSE
  BY <1>7
\* As many places as these come before, or after, are not v.
<1>8. ASSUME NEW lo \in 1 .. n, NEW hi \in 1 .. n, \A i \in lo .. hi : samples[p[i]] # v
      PROVE  Cardinality(lo .. hi) <= Cardinality(others)
  <2> DEFINE f == [i \in lo .. hi |-> p[i]]
  <2>1. f \in Injection(lo .. hi, others)
    <3>1. f \in [lo .. hi -> others]
      <4> SUFFICES ASSUME NEW i \in lo .. hi PROVE p[i] \in others
        OBVIOUS
      <4>1. i \in 1 .. n
        OBVIOUS
      <4>2. p[i] \in 1 .. n /\ samples[p[i]] # v
        BY <1>6, <1>8, <4>1
      <4> QED
        BY <1>1, <4>2 DEF others
    <3>2. \A i, j \in lo .. hi : f[i] = f[j] => i = j
      BY <1>6
    <3> HIDE DEF f
    <3> QED
      BY <3>1, <3>2 DEF Injection, IsInjective
  <2> QED
    BY <1>3, <2>1, FS_Injection
<1>9. samples[p[k]] \in Int
  BY <1>15
<1>10. PICK x \in 1 .. n : samples[x] = v
  <2> SUFFICES ASSUME \A x \in 1 .. n : samples[x] # v PROVE FALSE
    OBVIOUS
  <2>1. others = 1 .. n
    BY <1>1 DEF others
  <2>2. Cardinality(1 .. n) = n
    BY <1>4, FS_Interval
  <2> QED
    BY <1>3, <1>4, <2>1, <2>2
<1>11. v \in Int
  BY <1>1, <1>10
<1>12. CASE samples[p[k]] < v
  <2>1. \A i \in 1 .. k : samples[p[i]] # v
    <3> SUFFICES ASSUME NEW i \in 1 .. k PROVE samples[p[i]] # v
      OBVIOUS
    <3>3. i \in 1 .. n /\ i \in Nat /\ k \in Nat
      BY <1>14
    <3>1. i = k \/ samples[p[i]] <= samples[p[k]]
      BY <1>16, <3>3
    <3>2. samples[p[i]] \in Int /\ samples[p[k]] \in Int
      BY <1>15, <3>3
    <3> QED
      BY <1>11, <1>12, <3>1, <3>2
  <2>2. Cardinality(1 .. k) <= Cardinality(others)
    BY <1>4, <1>8, <2>1
  <2>3. Cardinality(1 .. k) = k
    BY <1>4, FS_Interval
  <2> QED
    BY <1>3, <1>4, <1>14, <2>2, <2>3
<1>13. CASE samples[p[k]] > v
  <2>1. \A i \in k .. n : samples[p[i]] # v
    <3> SUFFICES ASSUME NEW i \in k .. n PROVE samples[p[i]] # v
      OBVIOUS
    <3>3. i \in 1 .. n /\ i \in Nat /\ k \in Nat
      BY <1>14
    <3>1. i = k \/ samples[p[k]] <= samples[p[i]]
      BY <1>16, <3>3
    <3>2. samples[p[i]] \in Int /\ samples[p[k]] \in Int
      BY <1>15, <3>3
    <3> QED
      BY <1>11, <1>13, <3>1, <3>2
  <2>2. Cardinality(k .. n) <= Cardinality(others)
    BY <1>4, <1>8, <2>1
  <2>3. Cardinality(k .. n) = n - k + 1
    BY <1>1, <1>4, FS_Interval
  <2> QED
    BY <1>3, <1>4, <1>14, <2>2, <2>3
<1> QED
  BY <1>9, <1>11, <1>12, <1>13

\* What a call in hand costs when its operands are fresh.
CleanCost ==
  IF stage <= 2 THEN 0
  ELSE IF stage = 3 THEN VerifyCycles
  ELSE IF stage = 4 THEN session.bench
  ELSE IF stage = 5 THEN session.long
  ELSE StubHead + Blocks(Size) * session.block

\* Timer A, n cycles after a start for one shot.
Ran(n) == IF n <= Top THEN Top - n ELSE Top

\* What it shows in its second reading.
LowRead(c) == IF ShortLead + c > Top THEN Top ELSE Ran(ShortLead + c + Gap)

\* What the wrappers show of c cycles.
ShortShown(c) == Top - (256 * (Ran(ShortLead + c) \div 256) + (LowRead(c) % 256))
LongShown(c) == LongLead + 6 + c
Shown(c) == IF Wrapper = "short" THEN ShortShown(c) ELSE LongShown(c)

\* Samples that are not those of an undisturbed call.
Dirty == {i \in DOMAIN samples : samples[i] # Shown(CleanCost) - overhead[Wrapper]}
\* One more may be.
Spare == Cardinality(Dirty) < hurt

Costs == CleanCost .. CleanCost + LongRange + 11

InShort == {"short", "short_call", "short_low", "short_restore"}
InLong == {"long", "long_start", "long_call", "long_stop_a", "long_stop_b", "long_read",
               "long_restore"}
Alive == {"idle", "back"} \cup (IF Wrapper = "short" THEN InShort ELSE InLong)

\* The counters of timers A and B, n cycles after they were started together.
CountsA(n) == a = Top - (n % Word)
CountsB(n) == b = Top - (n \div Word)

\* A call in hand of which something was counted.
Told == {"short_low", "short_restore", "long_stop_a", "long_stop_b", "long_read", "long_restore"}
ToldOne == piece \in Told \/ (piece = "back" /\ Len(samples) < Wanted)

\* What the timers hold of a call that costs c.
Counted(c) ==
  /\ piece = "short_low" =>
       /\ result[1] = Ran(ShortLead + c) \div 256 /\ a = Ran(ShortLead + c)
       /\ mode = IF ShortLead + c > Top THEN "stopped" ELSE "once"
  /\ piece = "long_stop_a" => CountsA(LongLead + c) /\ CountsB(LongLead + c) /\ mode = "free" /\ bRuns
  /\ piece \in {"long_stop_b", "long_read"} => CountsA(LongLead + 6 + c) /\ CountsB(LongLead + 6 + c)
  /\ piece \in {"short_restore", "long_restore", "back"} => Reading = Shown(c)

CallHeld ==
  /\ piece \in {"short", "short_call"} => fresh \/ Spare
  /\ piece = "short_call" => a = Top /\ mode = "once"
  /\ piece = "long_call" => a = Top /\ b = Top /\ mode = "free" /\ bRuns
  /\ ToldOne => \E c \in Costs : Counted(c) /\ (c # CleanCost => Spare)

SamplesHeld ==
  /\ samples \in Seq(Int) /\ Len(samples) <= Wanted /\ hurt \in Nat /\ Cardinality(Dirty) <= hurt
  /\ \A i \in DOMAIN samples : \E c \in Costs : samples[i] = Shown(c) - overhead[Wrapper]

BenchRows == [median : Int, warned : BOOLEAN, hurt : Nat]

\* A row of a routine that costs cycles, with the overhead off by error.
ShortRowSays(row, cycles, error) ==
  LET short == cycles - row.median - error
  IN  /\ MostlyClean(row) => row.warned \/ short = (IF Torn(cycles) THEN 256 ELSE 0)
      /\ row.warned => row.hurt > 0 \/ cycles < 260 \/ cycles > 64990
ShortRow == ShortRowSays(table[4], session.bench, ShortError)

\* A row of the sweep.
SweepRowSays(row, size, block, error) ==
  /\ size > 0
  /\ MostlyClean(row) => row.median = StubHead + Blocks(size) * block - error
SweepRowRight(i) == SweepRowSays(table[5 + i], session.sizes[i], session.block, LongError)

TableHeld ==
  /\ table \in Seq(BenchRows) /\ Len(table) = stage - 1
  /\ overhead \in [short : Int, long : Int]
  /\ stage = 1 => overhead.short = 0
  /\ stage <= 2 => overhead.long = 0
  /\ stage > 1 => ShortError \in 0 .. 4 /\ (table[1].hurt = 0 => ShortError = 0)
  /\ stage > 2 => LongError \in Nat /\ (table[2].hurt = 0 => LongError = 0)
  /\ stage > 3 => (table[3].hurt = 0 => LongError \in 0 .. 2)
  /\ stage > 4 => ShortRow
  /\ stage > 5 => (MostlyClean(table[5]) => table[5].median = session.long - LongError)
  /\ \A i \in 1 .. stage - 6 : SweepRowRight(i)

BenchInv ==
  /\ session \in Sessions
  /\ piece \in Alive => stage \in 1 .. Stages(session) /\ TableHeld /\ SamplesHeld /\ CallHeld
  /\ piece = "printed" =>
       /\ stage = Stages(session) + 1 /\ TableHeld
       /\ session.sizes # <<>> /\ Ascending => Rising(table)
  /\ piece \notin Alive => piece \in {"printed", "dead"}

-----------------------------------------------------------------------------
(* Numbers *)

LEMMA Numbers == Word = 65536 /\ Top = 65535 
BY DEF Word, Top

\* Quotient and remainder.
LEMMA Divided ==
  ASSUME NEW n \in Nat
  PROVE  \E q, r \in Nat : /\ q = n \div Word /\ r = n % Word
                           /\ r < 65536 /\ n = 65536 * q + r
<1>1. n \div 65536 \in Nat /\ n % 65536 \in Nat
  OBVIOUS
<1>2. n % 65536 < 65536 /\ n = 65536 * (n \div 65536) + (n % 65536)
  OBVIOUS
<1> QED
  BY <1>1, <1>2 DEF Word

LEMMA DividedBy ==
  ASSUME NEW n \in Nat, NEW q \in Nat, NEW r \in Nat, r < 65536, n = 65536 * q + r
  PROVE  n \div Word = q /\ n % Word = r
<1>1. n \div 65536 = q
  OBVIOUS
<1>2. n % 65536 = r
  OBVIOUS
<1> QED
  BY <1>1, <1>2 DEF Word

\* Timer A free-running, and what timer B counts of it.
LEMMA FreeRuns ==
  ASSUME NEW n \in Nat, NEW m \in Nat
  PROVE  /\ Free(Top - (n % Word), m) = Top - ((n + m) % Word)
         /\ Underflows(Top - (n % Word), m) = (n + m) \div Word - n \div Word
         /\ Underflows(Top - (n % Word), m) \in Nat
<1>1. PICK q \in Nat, r \in Nat : q = n \div Word /\ r = n % Word /\ r < 65536 /\ n = 65536 * q + r
  BY Divided
<1>2. CASE m <= 65535 - r
  <2>1. r + m < 65536 /\ n + m = 65536 * q + (r + m) /\ n + m \in Nat /\ r + m \in Nat
    BY <1>1, <1>2
  <2>2. (n + m) \div Word = q /\ (n + m) % Word = r + m
    BY <2>1, DividedBy
  <2>3. Free(Top - r, m) = (Top - r) - m /\ Underflows(Top - r, m) = 0
    BY <1>2, Numbers DEF Free, Underflows
  <2> QED
    BY <1>1, <2>2, <2>3, Numbers
<1>3. CASE m > 65535 - r
  <2>1. PICK k \in Nat : k = m - (65535 - r) - 1
    BY <1>1, <1>3
  <2>2. PICK d \in Nat, e \in Nat : d = k \div Word /\ e = k % Word /\ e < 65536 /\ k = 65536 * d + e
    BY Divided
  <2>3. n + m = 65536 * (q + d + 1) + e /\ q + d + 1 \in Nat
    BY <1>1, <2>1, <2>2
  <2>4. (n + m) \div Word = q + d + 1 /\ (n + m) % Word = e
    BY <2>2, <2>3, DividedBy
  <2>5. ~ (m <= Top - r) /\ m - (Top - r) - 1 = k
    BY <1>3, <2>1, Numbers
  <2>6. Free(Top - r, m) = Top - e /\ Underflows(Top - r, m) = d + 1
    BY <2>2, <2>5 DEF Free, Underflows
  <2> QED
    BY <1>1, <2>2, <2>4, <2>6
<1> QED
  BY <1>1, <1>2, <1>3

\* Both together, within 32 bits.
LEMMA LongRuns ==
  ASSUME NEW n \in Nat, NEW m \in Nat, (n + m) \div Word <= Top,
         CountsA(n), CountsB(n), mode = "free"
  PROVE  AAfter(m) = Top - ((n + m) % Word) /\ (bRuns => BAfter(m) = Top - ((n + m) \div Word))
<1>1. AAfter(m) = Top - ((n + m) % Word)
  BY FreeRuns DEF AAfter, CountsA
<1>2. PICK u \in Nat : u = Underflows(a, m) /\ u = (n + m) \div Word - n \div Word
  BY FreeRuns DEF CountsA
<1>3. PICK q \in Nat, r \in Nat : q = n \div Word /\ r = n % Word /\ r < 65536 /\ n = 65536 * q + r
  BY Divided
<1>4. PICK d \in Nat, e \in Nat : d = (n + m) \div Word /\ e = (n + m) % Word /\ e < 65536 /\ n + m = 65536 * d + e
  BY Divided
<1>5. d <= 65535
  BY <1>4, Numbers
<1>6. u = d - q
  BY <1>2, <1>3, <1>4
<1>7. u <= Top - q
  BY <1>5, <1>6, Numbers
<1>8. Free(Top - q, u) = Top - d
  BY <1>6, <1>7, Numbers DEF Free
<1> QED
  BY <1>1, <1>2, <1>3, <1>4, <1>8 DEF BAfter, CountsB

\* The reading of both timers is the cycles that passed.
LEMMA LongReads ==
  ASSUME NEW n \in Nat, CountsA(n), CountsB(n)
  PROVE  (Top - a) + (Top - b) * Word = n
<1>1. PICK q \in Nat, r \in Nat : q = n \div Word /\ r = n % Word /\ r < 65536 /\ n = 65536 * q + r
  BY Divided
<1>2. Top - a = r /\ Top - b = q
  BY <1>1, Numbers DEF CountsA, CountsB
<1>3. q * Word = 65536 * q
  BY Numbers
<1> QED
  BY <1>1, <1>2, <1>3

\* What the short wrapper shows.
LEMMA ShortShows ==
  ASSUME NEW c \in Nat
  PROVE  /\ ShortShown(c) \in Int
         /\ ShortLead + c > Top => ShortShown(c) = 0
         /\ ShortLead + c <= Top /\ ShortLead + c + Gap > Top => ShortShown(c) = 65280
         /\ ShortLead + c + Gap <= Top =>
              ShortShown(c) = IF Torn(c) THEN c + 21 - 256 ELSE c + 21
<1>1. CASE ShortLead + c > Top
  BY <1>1 DEF ShortShown, Ran, LowRead, ShortLead, Gap, Top, Word
<1>2. CASE ShortLead + c <= Top /\ ShortLead + c + Gap > Top
  BY <1>2 DEF ShortShown, Ran, LowRead, ShortLead, Gap, Top, Word
<1>3. CASE ShortLead + c + Gap <= Top
  <2>1. PICK x \in Nat : x = Top - (ShortLead + c) /\ x >= 8
    BY <1>3 DEF ShortLead, Gap, Top, Word
  <2>2. PICK q \in Nat, r \in Nat : x = 256 * q + r /\ r < 256 /\ q = x \div 256 /\ r = x % 256
    <3>1. x \div 256 \in Nat /\ x % 256 \in Nat /\ x % 256 < 256 /\ x = 256 * (x \div 256) + (x % 256)
      OBVIOUS
    <3> QED
      BY <3>1
  <2>3. ShortShown(c) = Top - (256 * q + ((x - 8) % 256))
    BY <1>3, <2>1, <2>2 DEF ShortShown, Ran, LowRead, ShortLead, Gap, Top, Word
  <2>4. (x - 8) % 256 = IF r < 8 THEN r + 248 ELSE r - 8
    BY <2>1, <2>2
  <2>5. Torn(c) <=> r < 8
    BY <2>1, <2>2 DEF Torn, Gap
  <2> QED
    BY <1>3, <2>1, <2>2, <2>3, <2>4, <2>5 DEF ShortLead, Gap, Top, Word
<1> QED
  BY <1>1, <1>2, <1>3 DEF ShortLead, Gap, Top, Word

\* An overhead of 10 to 25 cycles was read without a borrow.
LEMMA ShortCalibrates ==
  ASSUME NEW c \in Nat, ShortShown(c) \in 10 .. 25
  PROVE  ShortShown(c) = c + 21 /\ c \in 0 .. 4
<1>1. ShortLead + c + Gap <= Top
  BY ShortShows, Numbers DEF ShortLead, Gap
<1>2. ShortShown(c) = IF Torn(c) THEN c + 21 - 256 ELSE c + 21
  BY <1>1, ShortShows
<1>3. ~ Torn(c)
  <2> SUFFICES ASSUME Torn(c) PROVE FALSE
    OBVIOUS
  <2>1. c \in 245 .. 260
    BY <1>2
  <2> QED
    BY <2>1 DEF Torn, ShortLead, Gap, Top, Word
<1> QED
  BY <1>2, <1>3

-----------------------------------------------------------------------------
(* Stages *)

LEMMA StageIs ==
  ASSUME NEW i \in Nat, i > 0
  PROVE  /\ KindOf(i) = "calibrate" <=> i = 1
         /\ KindOf(i) = "calibrate_long" <=> i = 2
         /\ KindOf(i) = "verify" <=> i = 3
         /\ KindOf(i) = "bench" <=> i = 4
         /\ KindOf(i) = "long" <=> i = 5
         /\ KindOf(i) = "multi" <=> i > 5
<1>1. CASE i > 5
  BY <1>1 DEF KindOf
<1>2. CASE i = 1
  BY <1>2 DEF KindOf, Kind
<1>3. CASE i = 2
  BY <1>3 DEF KindOf, Kind
<1>4. CASE i = 3
  BY <1>4 DEF KindOf, Kind
<1>5. CASE i = 4
  BY <1>5 DEF KindOf, Kind
<1>6. CASE i = 5
  BY <1>6 DEF KindOf, Kind
<1> QED
  BY <1>1, <1>2, <1>3, <1>4, <1>5, <1>6

LEMMA StageMeans ==
  ASSUME stage \in Nat, stage > 0
  PROVE  /\ Wrapper = IF stage = 1 \/ stage = 4 THEN "short" ELSE "long"
         /\ Calibrates <=> stage <= 2
         /\ Wanted = IF stage <= 2 THEN 2 ELSE IF stage = 3 THEN 1 ELSE Samples
         /\ Wanted \in Nat /\ Wanted > 0
<1>1. Wrapper = IF stage = 1 \/ stage = 4 THEN "short" ELSE "long"
  BY StageIs DEF Wrapper
<1>2. Calibrates <=> stage <= 2
  BY StageIs DEF Calibrates
<1>3. Wanted = IF stage <= 2 THEN 2 ELSE IF stage = 3 THEN 1 ELSE Samples
  BY <1>2, StageIs DEF Wanted
<1> QED
  BY <1>1, <1>2, <1>3, SamplesAssumption

LEMMA CostIs ==
  ASSUME stage \in Nat, stage > 0
  PROVE  /\ Cost = CleanCost \/ (stage = 4 /\ ~fresh /\ Cost = CleanCost + 11)
<1>1. CASE stage <= 2
  BY <1>1, StageIs DEF Cost, CleanCost
<1>2. CASE stage = 3
  BY <1>2, StageIs DEF Cost, CleanCost
<1>3. CASE stage = 4
  BY <1>3, StageIs DEF Cost, CleanCost
<1>4. CASE stage = 5
  BY <1>4, StageIs DEF Cost, CleanCost
<1>5. CASE stage > 5
  BY <1>5, StageIs DEF Cost, CleanCost
<1> QED
  BY <1>1, <1>2, <1>3, <1>4, <1>5

LEMMA SessionIs ==
  ASSUME session \in Sessions
  PROVE  /\ session.bench \in Nat /\ session.long \in Nat /\ session.long <= LongRange
         /\ session.block \in Nat /\ 256 * session.block <= LongRange
         /\ session.sizes \in Seq(Nat)
         /\ Stages(session) = 5 + Len(session.sizes) /\ Stages(session) \in Nat
<1>1. /\ session.bench \in Nat /\ session.long \in 0 .. LongRange
      /\ session.block \in 0 .. LongRange \div 256 /\ session.sizes \in Seq(Nat)
  BY SessionAssumption
<1>2. LongRange \in Nat
  BY DEF LongRange, Word
<1>3. 256 * (LongRange \div 256) <= LongRange /\ LongRange \div 256 \in Nat
  BY <1>2
<1> QED
  BY <1>1, <1>2, <1>3 DEF Stages

\* A count of blocks is at most 256, and that many cost no more.
LEMMA BlocksCost ==
  ASSUME NEW n \in Nat, NEW m \in Nat
  PROVE  /\ Blocks(n) \in 1 .. 256 /\ Blocks(n) * m \in Nat /\ Blocks(n) * m <= 256 * m
         /\ n > 0 /\ n <= 256 => Blocks(n) = n
<1>1. n % 256 \in Nat /\ n % 256 < 256
  OBVIOUS
<1>2. PICK k \in 1 .. 256 : k = Blocks(n)
  BY <1>1 DEF Blocks
<1>3. k * m \in Nat /\ (256 - k) * m \in Nat /\ (256 - k) * m = 256 * m - k * m
  OBVIOUS
<1>4. n > 0 /\ n <= 256 => Blocks(n) = n
  <2>1. CASE n = 256
    BY <2>1 DEF Blocks
  <2>2. CASE n > 0 /\ n < 256
    <3>1. n % 256 = n
      BY <2>2
    <3> QED
      BY <2>2, <3>1 DEF Blocks
  <2> QED
    BY <2>1, <2>2
<1> QED
  BY <1>2, <1>3, <1>4

LEMMA CleanCostIs ==
  ASSUME session \in Sessions, stage \in 1 .. Stages(session)
  PROVE  /\ CleanCost \in Nat /\ (stage # 4 => CleanCost <= LongRange + 501)
         /\ stage > 5 => /\ stage - 5 \in DOMAIN session.sizes /\ Size = session.sizes[stage - 5]
                         /\ Size \in Nat /\ Blocks(Size) * session.block \in Nat
<1>1. LongRange \in Nat
  BY DEF LongRange, Word
<1>2. stage \in Nat /\ stage > 0
  BY SessionIs
<1>3. CASE stage <= 3
  BY <1>1, <1>2, <1>3 DEF CleanCost, VerifyCycles
<1>4. CASE stage = 4
  BY <1>4, SessionIs DEF CleanCost
<1>5. CASE stage = 5
  BY <1>1, <1>5, SessionIs DEF CleanCost
<1>6. CASE stage > 5
  <2>1. stage - 5 \in DOMAIN session.sizes /\ session.sizes[stage - 5] \in Nat
    BY <1>2, <1>6, SessionIs
  <2>2. Size \in Nat /\ Size = session.sizes[stage - 5]
    BY <2>1 DEF Size
  <2>3. PICK k \in Nat : k = Blocks(Size) * session.block /\ k <= 256 * session.block
    BY <2>2, SessionIs, BlocksCost
  <2>4. CleanCost = 20 + k
    BY <1>6, <2>3 DEF CleanCost, StubHead
  <2>5. k <= LongRange
    BY <1>1, <2>3, SessionIs
  <2> QED
    BY <1>1, <1>6, <2>1, <2>2, <2>3, <2>4, <2>5
<1> QED
  BY <1>2, <1>3, <1>4, <1>5, <1>6

\* The chained timers do not overflow.
LEMMA LongFits ==
  ASSUME session \in Sessions, stage \in 1 .. Stages(session), Wrapper = "long", NEW c \in Costs
  PROVE  c \in Nat /\ (LongLead + 6 + c) \div Word <= Top /\ (LongLead + c) \div Word <= Top
<1>1. stage \in Nat /\ stage > 0 /\ stage # 4
  BY SessionIs, StageMeans
<1>2. CleanCost \in Nat /\ CleanCost <= LongRange + 501 /\ LongRange \in Nat
  BY <1>1, CleanCostIs DEF LongRange, Word
<1>3. c \in Nat /\ c <= 2 * LongRange + 512
  BY <1>2 DEF Costs
<1>4. LongRange = 65536 * 16384
  BY DEF LongRange, Word
<1>5. LongLead + 6 + c <= 65536 * 32768 + 600 /\ LongLead + c <= 65536 * 32768 + 600
  BY <1>3, <1>4, SMT DEF LongLead
<1>6. ASSUME NEW n \in Nat, n <= 65536 * 32768 + 600
      PROVE  n \div Word <= Top
  <2>1. PICK q \in Nat, r \in Nat : q = n \div Word /\ r < 65536 /\ n = 65536 * q + r
    BY Divided
  <2>2. q <= 65535
    BY <1>6, <2>1, SMT
  <2> QED
    BY <2>1, <2>2, Numbers
<1>7. LongLead + 6 + c \in Nat /\ LongLead + c \in Nat
  BY <1>3 DEF LongLead
<1> QED
  BY <1>3, <1>5, <1>6, <1>7

LEMMA CostsTyped ==
  ASSUME session \in Sessions, stage \in 1 .. Stages(session)
  PROVE  CleanCost \in Costs /\ Costs \subseteq Nat /\ LongRange \in Nat
<1>1. CleanCost \in Nat /\ LongRange \in Nat
  BY CleanCostIs DEF LongRange, Word
<1> QED
  BY <1>1 DEF Costs

-----------------------------------------------------------------------------
(* A call, piece by piece *)

\* What an action of the wrappers leaves as it is.
Still ==
  /\ session' = session /\ stage' = stage /\ samples' = samples
  /\ overhead' = overhead /\ table' = table

LEMMA HostStays ==
  ASSUME Still
  PROVE  /\ Wrapper' = Wrapper /\ CleanCost' = CleanCost /\ Costs' = Costs /\ Dirty' = Dirty
         /\ Wanted' = Wanted /\ Alive' = Alive /\ \A c : Shown(c)' = Shown(c)
<1>1. Wrapper' = Wrapper
  BY DEF Still, Wrapper, KindOf
<1>2. CleanCost' = CleanCost
  BY DEF Still, CleanCost, Size, Blocks
<1>3. Wanted' = Wanted
  BY DEF Still, Wanted, Calibrates, KindOf
<1>4. \A c : Shown(c)' = Shown(c)
  BY <1>1 DEF Shown
<1>5. Dirty' = Dirty
  BY <1>1, <1>2, <1>4 DEF Still, Dirty
<1> QED
  BY <1>1, <1>2, <1>3, <1>4, <1>5 DEF Costs, Alive

LEMMA TableStays ==
  ASSUME Still, TableHeld
  PROVE  TableHeld'
<1>1. ShortError' = ShortError /\ LongError' = LongError
  BY DEF Still, ShortError, LongError
<1>2. ShortRow' <=> ShortRow
  BY <1>1 DEF Still, ShortRow
<1>3. \A i : SweepRowRight(i)' <=> SweepRowRight(i)
  BY <1>1 DEF Still, SweepRowRight
<1> QED
  BY <1>1, <1>2, <1>3 DEF Still, TableHeld, MostlyClean

LEMMA DirtyTyped ==
  ASSUME samples \in Seq(Int)
  PROVE  IsFiniteSet(Dirty) /\ Cardinality(Dirty) \in Nat
<1>1. DOMAIN samples = 1 .. Len(samples) /\ Len(samples) \in Nat
  OBVIOUS
<1>2. IsFiniteSet(DOMAIN samples)
  BY <1>1, FS_Interval
<1> QED
  BY <1>2, FS_Subset, FS_CardinalityType DEF Dirty

LEMMA CountStays ==
  ASSUME Still, SamplesHeld, hurt' = hurt \/ hurt' = hurt + 1
  PROVE  /\ SamplesHeld' /\ (Spare => Spare') /\ (hurt' = hurt + 1 => Spare')
<1>1. Cardinality(Dirty) \in Nat
  BY DirtyTyped DEF SamplesHeld
<1> QED
  BY <1>1, HostStays DEF Still, SamplesHeld, Spare

\* What is left to show of a step within a call.
LEMMA CallSteps ==
  ASSUME BenchInv, piece \in Alive, piece' \in Alive, Still, hurt' = hurt \/ hurt' = hurt + 1, CallHeld'
  PROVE  BenchInv'
<1>1. stage \in 1 .. Stages(session) /\ TableHeld /\ SamplesHeld
  BY DEF BenchInv
<1>2. TableHeld' /\ SamplesHeld' /\ Alive' = Alive
  BY <1>1, TableStays, CountStays, HostStays
<1>3. piece' # "printed"
  BY DEF Alive, InShort, InLong
<1> QED
  BY <1>1, <1>2, <1>3 DEF BenchInv, Still, Stages

\* What is known of a call in hand.
LEMMA CallIs ==
  ASSUME BenchInv, piece \in Alive
  PROVE  /\ session \in Sessions /\ stage \in 1 .. Stages(session) /\ stage \in Nat /\ stage > 0
         /\ TableHeld /\ SamplesHeld /\ CallHeld
         /\ piece \in InShort => Wrapper = "short"
         /\ piece \in InLong => Wrapper = "long"
<1>1. session \in Sessions /\ stage \in 1 .. Stages(session) /\ TableHeld /\ SamplesHeld /\ CallHeld
  BY DEF BenchInv
<1>2. stage \in Nat /\ stage > 0
  BY <1>1, SessionIs
<1>3. Wrapper = "short" \/ Wrapper = "long"
  BY <1>2, StageMeans
<1> QED
  BY <1>1, <1>2, <1>3 DEF Alive, InShort, InLong

LEMMA PieceAlive ==
  ASSUME BenchInv, piece \notin {"printed", "dead"}
  PROVE  piece \in Alive
BY DEF BenchInv

LEMMA ShortStarts == ASSUME BenchInv, ShortStart PROVE BenchInv'
<1>1. /\ piece = "short" /\ piece' = "short_call" /\ a' = Top /\ mode' = "once"
      /\ Still /\ hurt' = hurt /\ fresh' = fresh
  BY DEF ShortStart, host, Still
<1>2. piece \in Alive
  BY <1>1, PieceAlive
<1>3. SamplesHeld /\ CallHeld /\ Wrapper = "short"
  BY <1>1, <1>2, CallIs DEF InShort
<1>4. fresh \/ Spare
  BY <1>1, <1>3 DEF CallHeld
<1>5. CallHeld'
  BY <1>1, <1>3, <1>4, CountStays DEF CallHeld, ToldOne, Told
<1> QED
  BY <1>1, <1>2, <1>3, <1>5, CallSteps DEF Alive, InShort

\* The target runs.
LEMMA TargetRuns ==
  ASSUME BenchInv, piece \in {"short_call", "long_call"}, Still, NEW k \in Nat, Passes(k)
  PROVE  \E c \in Costs :
           /\ a' = AAfter(k + c) /\ b' = BAfter(k + c) /\ mode' = StillOn(k + c)
           /\ (c # CleanCost => Spare') /\ (hurt' = hurt \/ hurt' = hurt + 1)
<1>1. piece \in Alive
  BY PieceAlive
<1>2. /\ session \in Sessions /\ stage \in 1 .. Stages(session) /\ stage \in Nat /\ stage > 0
      /\ SamplesHeld /\ CallHeld
  BY <1>1, CallIs
<1>3. PICK s \in {0} \cup Stolen :
        /\ hurt' = IF s = 0 THEN hurt ELSE hurt + 1
        /\ a' = AAfter(k + Cost + s) /\ b' = BAfter(k + Cost + s) /\ mode' = StillOn(k + Cost + s)
  BY DEF Passes
<1>4. CleanCost \in Nat /\ LongRange \in Nat
  BY <1>2, CleanCostIs, CostsTyped
<1>5. s \in Nat /\ s <= LongRange
  BY <1>4, SessionAssumption
<1>6. Cost = CleanCost \/ (stage = 4 /\ ~fresh /\ Cost = CleanCost + 11)
  BY <1>2, CostIs
<1>7. PICK c \in Nat : c = Cost + s
  BY <1>4, <1>5, <1>6
<1>8. c \in Costs /\ k + Cost + s = k + c
  BY <1>4, <1>5, <1>6, <1>7 DEF Costs
<1>9. hurt' = hurt \/ hurt' = hurt + 1
  BY <1>3
<1>10. c # CleanCost => Spare'
  <2>1. CASE s = 0
    <3> SUFFICES ASSUME c # CleanCost PROVE Spare'
      OBVIOUS
    <3>1. stage = 4 /\ ~fresh
      BY <1>4, <1>6, <1>7, <2>1
    <3>2. Wrapper = "short"
      BY <1>2, <3>1, StageMeans
    <3>3. piece = "short_call"
      BY <1>1, <3>2 DEF Alive, InShort
    <3>4. Spare
      BY <1>2, <3>1, <3>3 DEF CallHeld
    <3> QED
      BY <1>2, <1>9, <3>4, CountStays
  <2>2. CASE s # 0
    BY <1>2, <1>3, <2>2, CountStays
  <2> QED
    BY <2>1, <2>2
<1> QED
  BY <1>3, <1>8, <1>9, <1>10

LEMMA ShortCalls == ASSUME BenchInv, ShortCall PROVE BenchInv'
<1>1. /\ piece = "short_call" /\ piece' = "short_low" /\ Passes(ShortLead) /\ Still
      /\ result' = <<a' \div 256, result[2]>>
  BY DEF ShortCall, host, Still
<1>2. piece \in Alive
  BY <1>1, PieceAlive
<1>3. /\ session \in Sessions /\ stage \in 1 .. Stages(session)
      /\ SamplesHeld /\ CallHeld /\ Wrapper = "short"
  BY <1>1, <1>2, CallIs DEF InShort
<1>4. PICK c \in Costs :
           /\ a' = AAfter(ShortLead + c) /\ mode' = StillOn(ShortLead + c)
           /\ (c # CleanCost => Spare') /\ (hurt' = hurt \/ hurt' = hurt + 1)
  BY <1>1, TargetRuns DEF ShortLead
<1>5. c \in Nat
  BY <1>3, CostsTyped
<1>6. a = Top /\ mode = "once"
  BY <1>1, <1>3 DEF CallHeld
<1>7. a' = Ran(ShortLead + c) /\ mode' = IF ShortLead + c > Top THEN "stopped" ELSE "once"
  BY <1>4, <1>5, <1>6, Numbers DEF AAfter, StillOn, Once, Ran, ShortLead
<1>8. Counted(c)'
  BY <1>1, <1>7 DEF Counted
<1>9. CallHeld'
  BY <1>1, <1>4, <1>8, HostStays DEF CallHeld
<1> QED
  BY <1>1, <1>2, <1>3, <1>4, <1>9, CallSteps DEF Alive, InShort

\* What a call in hand costs.
LEMMA CallCosts ==
  ASSUME BenchInv, piece \in Told
  PROVE  /\ \E c \in Costs : Counted(c) /\ (c # CleanCost => Spare)
         /\ Costs \subseteq Nat /\ piece \in Alive
<1>1. piece \in Alive
  BY PieceAlive DEF Told
<1>2. CallHeld /\ session \in Sessions /\ stage \in 1 .. Stages(session)
  BY <1>1, CallIs
<1> QED
  BY <1>1, <1>2, CostsTyped DEF CallHeld, ToldOne

\* A step that keeps the cost of the call in hand.
LEMMA CallGoesOn ==
  ASSUME BenchInv, piece \in Told, Still, hurt' = hurt, piece' \in Alive,
         piece' \in Told \cup {"back"},
         \A c \in Costs : Counted(c) => Counted(c)'
  PROVE  BenchInv'
<1>1. PICK c \in Costs : Counted(c) /\ (c # CleanCost => Spare)
  BY CallCosts
<1>2. piece \in Alive
  BY CallCosts
<1>3. SamplesHeld
  BY <1>2, CallIs
<1>4. Counted(c)' /\ (c # CleanCost' => Spare') /\ c \in Costs'
  BY <1>1, <1>3, HostStays, CountStays
<1>5. CallHeld'
  BY <1>4 DEF CallHeld, Told
<1> QED
  BY <1>2, <1>5, CallSteps

LEMMA ShortLows == ASSUME BenchInv, ShortLow PROVE BenchInv'
<1>1. /\ piece = "short_low" /\ piece' = "short_restore" /\ a' = AAfter(Gap)
      /\ result' = <<result[1], (a' % 256)>> /\ Still /\ hurt' = hurt
  BY DEF ShortLow, host, Still
<1>2. piece \in Alive /\ Costs \subseteq Nat
  BY <1>1, CallCosts DEF Told
<1>3. Wrapper = "short" /\ Wrapper' = "short"
  BY <1>1, <1>2, CallIs, HostStays DEF InShort
<1>4. ASSUME NEW c \in Costs, Counted(c) PROVE Counted(c)'
  <2>1. /\ result[1] = Ran(ShortLead + c) \div 256 /\ a = Ran(ShortLead + c)
        /\ mode = IF ShortLead + c > Top THEN "stopped" ELSE "once"
    BY <1>1, <1>4 DEF Counted
  <2>2. a' = LowRead(c)
    <3>1. CASE ShortLead + c > Top
      BY <1>1, <1>2, <2>1, <3>1, Numbers DEF AAfter, LowRead, Ran, ShortLead
    <3>2. CASE ShortLead + c <= Top
      BY <1>1, <1>2, <2>1, <3>2, Numbers DEF AAfter, Once, LowRead, Ran, ShortLead, Gap
    <3> QED
      BY <1>2, <3>1, <3>2, Numbers DEF ShortLead
  <2>3. Reading' = ShortShown(c)
    BY <1>1, <1>3, <2>1, <2>2 DEF Reading, ShortReading, ShortShown
  <2> QED
    BY <1>1, <1>3, <2>3 DEF Counted, Shown
<1> QED
  BY <1>1, <1>2, <1>3, <1>4, CallGoesOn DEF Told, Alive, InShort

\* What the host will read is not changed.
LEMMA Restores ==
  ASSUME BenchInv, piece \in {"short_restore", "long_restore"}, piece' = "back", Still, hurt' = hurt,
         result' = result
  PROVE  BenchInv'
<1>1. piece' \in Alive
  BY DEF Alive
<1>2. Reading' = Reading
  BY HostStays DEF Reading, ShortReading, LongReading
<1>3. ASSUME NEW c \in Costs, Counted(c) PROVE Counted(c)'
  <2>1. Reading = Shown(c)
    BY <1>3 DEF Counted
  <2>2. Reading' = Shown(c)'
    BY <1>2, <2>1, HostStays
  <2> QED
    BY <2>2 DEF Counted
<1> QED
  BY <1>1, <1>3, CallGoesOn DEF Told

LEMMA ShortRestores == ASSUME BenchInv, ShortRestore PROVE BenchInv'
BY Restores DEF ShortRestore, host, Still

LEMMA LongRestores == ASSUME BenchInv, LongRestore PROVE BenchInv'
BY Restores DEF LongRestore, host, Still

\* The pieces of the long wrapper before the call.
LEMMA LongStarts == ASSUME BenchInv, LongSave \/ LongStart PROVE BenchInv'
<1>1. /\ Still /\ hurt' = hurt
      /\ \/ piece = "long" /\ piece' = "long_start"
         \/ /\ piece = "long_start" /\ piece' = "long_call"
            /\ a' = Top /\ b' = Top /\ bRuns' = TRUE /\ mode' = "free"
  BY DEF LongSave, LongStart, host, Still
<1>2. piece \in Alive
  BY <1>1, PieceAlive
<1>3. Wrapper = "long"
  BY <1>1, <1>2, CallIs DEF InLong
<1>4. CallHeld'
  BY <1>1 DEF CallHeld, ToldOne, Told
<1> QED
  BY <1>1, <1>2, <1>3, <1>4, CallSteps DEF Alive, InLong

LEMMA LongCalls == ASSUME BenchInv, LongCall PROVE BenchInv'
<1>1. /\ piece = "long_call" /\ piece' = "long_stop_a" /\ Passes(LongLead) /\ Still /\ bRuns' = bRuns
  BY DEF LongCall, host, Still
<1>2. piece \in Alive
  BY <1>1, PieceAlive
<1>3. /\ session \in Sessions /\ stage \in 1 .. Stages(session)
      /\ SamplesHeld /\ CallHeld /\ Wrapper = "long"
  BY <1>1, <1>2, CallIs DEF InLong
<1>4. PICK c \in Costs :
           /\ a' = AAfter(LongLead + c) /\ b' = BAfter(LongLead + c) /\ mode' = StillOn(LongLead + c)
           /\ (c # CleanCost => Spare') /\ (hurt' = hurt \/ hurt' = hurt + 1)
  BY <1>1, TargetRuns DEF LongLead
<1>5. c \in Nat /\ (LongLead + c) \div Word <= Top
  BY <1>3, LongFits
<1>6. a = Top /\ b = Top /\ mode = "free" /\ bRuns
  BY <1>1, <1>3 DEF CallHeld
<1>7. CountsA(0) /\ CountsB(0)
  <2>1. 0 \div Word = 0 /\ 0 % Word = 0
    BY DividedBy
  <2> QED
    BY <1>6, <2>1, Numbers DEF CountsA, CountsB
<1>8. PICK n \in Nat : n = LongLead + c
  BY <1>5 DEF LongLead
<1>9. 0 + n = n
  OBVIOUS
<1>10. a' = Top - (n % Word) /\ b' = Top - (n \div Word)
  BY <1>4, <1>5, <1>6, <1>7, <1>8, <1>9, LongRuns
<1>11. mode' = "free"
  BY <1>4, <1>6 DEF StillOn
<1>12. Counted(c)'
  BY <1>1, <1>6, <1>8, <1>10, <1>11 DEF Counted, CountsA, CountsB
<1>13. CallHeld'
  BY <1>1, <1>4, <1>12, HostStays DEF CallHeld
<1> QED
  BY <1>1, <1>2, <1>3, <1>4, <1>13, CallSteps DEF Alive, InLong

LEMMA LongStopAs == ASSUME BenchInv, LongStopA PROVE BenchInv'
<1>1. /\ piece = "long_stop_a" /\ piece' = "long_stop_b" /\ Still /\ hurt' = hurt
      /\ a' = AAfter(6) /\ b' = BAfter(6)
  BY DEF LongStopA, host, Still
<1>2. piece \in Alive /\ Costs \subseteq Nat
  BY <1>1, CallCosts DEF Told
<1>3. session \in Sessions /\ stage \in 1 .. Stages(session) /\ Wrapper = "long"
  BY <1>1, <1>2, CallIs DEF InLong
<1>4. ASSUME NEW c \in Costs, Counted(c) PROVE Counted(c)'
  <2>1. CountsA(LongLead + c) /\ CountsB(LongLead + c) /\ mode = "free" /\ bRuns
    BY <1>1, <1>4 DEF Counted
  <2>2. PICK n \in Nat : n = LongLead + c
    BY <1>2 DEF LongLead
  <2>3. n + 6 = LongLead + 6 + c
    BY <1>2, <2>2 DEF LongLead
  <2>4. (n + 6) \div Word <= Top
    BY <1>3, <2>3, LongFits
  <2>5. a' = Top - ((n + 6) % Word) /\ b' = Top - ((n + 6) \div Word)
    BY <1>1, <2>1, <2>2, <2>4, LongRuns
  <2> QED
    BY <1>1, <2>3, <2>5 DEF Counted, CountsA, CountsB
<1> QED
  BY <1>1, <1>2, <1>3, <1>4, CallGoesOn DEF Told, Alive, InLong

LEMMA LongStopBs == ASSUME BenchInv, LongStopB PROVE BenchInv'
<1>1. /\ piece = "long_stop_b" /\ piece' = "long_read" /\ Still /\ hurt' = hurt /\ a' = a /\ b' = b
  BY DEF LongStopB, host, Still
<1>2. piece \in Alive
  BY <1>1, CallCosts DEF Told
<1>3. Wrapper = "long"
  BY <1>1, <1>2, CallIs DEF InLong
<1>4. ASSUME NEW c \in Costs, Counted(c) PROVE Counted(c)'
  BY <1>1, <1>4 DEF Counted, CountsA, CountsB
<1> QED
  BY <1>1, <1>2, <1>3, <1>4, CallGoesOn DEF Told, Alive, InLong

LEMMA LongReadings == ASSUME BenchInv, LongRead PROVE BenchInv'
<1>1. /\ piece = "long_read" /\ piece' = "long_restore" /\ Still /\ hurt' = hurt /\ result' = <<a, b>>
  BY DEF LongRead, host, Still
<1>2. piece \in Alive /\ Costs \subseteq Nat
  BY <1>1, CallCosts DEF Told
<1>3. Wrapper = "long" /\ Wrapper' = "long"
  BY <1>1, <1>2, CallIs, HostStays DEF InLong
<1>4. ASSUME NEW c \in Costs, Counted(c) PROVE Counted(c)'
  <2>1. CountsA(LongLead + 6 + c) /\ CountsB(LongLead + 6 + c)
    BY <1>1, <1>4 DEF Counted
  <2>2. LongLead + 6 + c \in Nat
    BY <1>2 DEF LongLead
  <2>3. (Top - a) + (Top - b) * Word = LongLead + 6 + c
    BY <2>1, <2>2, LongReads
  <2>4. result'[1] = a /\ result'[2] = b
    BY <1>1
  <2>5. LongReading' = (Top - a) + (Top - b) * Word
    BY <2>4 DEF LongReading
  <2>6. Reading' = LongShown(c)
    BY <1>3, <2>3, <2>5 DEF Reading, LongShown
  <2> QED
    BY <1>1, <1>3, <2>6 DEF Counted, Shown
<1> QED
  BY <1>1, <1>2, <1>3, <1>4, CallGoesOn DEF Told, Alive, InLong

LEMMA Enters == ASSUME BenchInv, Enter PROVE BenchInv'
<1>1. piece = "idle" /\ piece' = Wrapper /\ fresh' = TRUE /\ Still /\ hurt' = hurt
  BY DEF Enter, host, Still
<1>2. piece \in Alive
  BY <1>1, PieceAlive
<1>3. Wrapper = "short" \/ Wrapper = "long"
  BY <1>2, CallIs, StageMeans
<1>4. CallHeld'
  BY <1>1, <1>3 DEF CallHeld, ToldOne, Told
<1> QED
  BY <1>1, <1>2, <1>3, <1>4, CallSteps DEF Alive, InShort, InLong

LEMMA Losts == ASSUME BenchInv, Lost PROVE BenchInv'
<1>1. /\ piece \notin {"idle", "back", "printed", "dead"} /\ piece' \in {Wrapper, "dead"}
      /\ Still /\ hurt' = hurt + 1
  BY DEF Lost, host, Still
<1>2. piece \in Alive
  BY <1>1, PieceAlive
<1>3. SamplesHeld /\ session \in Sessions /\ (Wrapper = "short" \/ Wrapper = "long")
  BY <1>2, CallIs, StageMeans
<1>4. CASE piece' = "dead"
  BY <1>1, <1>3, <1>4 DEF BenchInv, Alive, InShort, InLong, Still
<1>5. CASE piece' = Wrapper
  <2>1. Spare'
    BY <1>1, <1>3, CountStays
  <2>2. CallHeld'
    BY <1>3, <1>5, <2>1 DEF CallHeld, ToldOne, Told
  <2>3. piece' \in Alive
    BY <1>3, <1>5 DEF Alive, InShort, InLong
  <2> QED
    BY <1>1, <1>2, <2>2, <2>3, CallSteps
<1> QED
  BY <1>1, <1>4, <1>5

-----------------------------------------------------------------------------
(* Samples and rows *)

\* What the overheads are.
LEMMA OverheadIs ==
  ASSUME BenchInv, piece \in Alive
  PROVE  /\ overhead \in [short : Int, long : Int] /\ overhead[Wrapper] \in Int
         /\ overhead[Wrapper] = IF stage = 1 \/ stage = 4 THEN overhead.short ELSE overhead.long
<1>1. overhead \in [short : Int, long : Int] /\ stage \in Nat /\ stage > 0
  BY CallIs DEF TableHeld
<1>2. Wrapper = IF stage = 1 \/ stage = 4 THEN "short" ELSE "long"
  BY <1>1, StageMeans
<1> QED
  BY <1>1, <1>2

LEMMA ShownTyped ==
  ASSUME NEW c \in Nat
  PROVE  Shown(c) \in Int
BY ShortShows DEF Shown, LongShown, LongLead

LEMMA SampleTaken == ASSUME BenchInv, TakeSample PROVE BenchInv'
<1> DEFINE cycles == Reading - overhead[Wrapper]
           due == Shown(CleanCost) - overhead[Wrapper]
<1>1. /\ piece = "back" /\ Len(samples) < Wanted /\ samples' = Append(samples, cycles)
      /\ piece' \in {"dead", "back", "idle"} /\ (piece' = "back" => Len(samples') = Wanted)
      /\ UNCHANGED <<session, stage, overhead, table, hurt>>
  BY DEF TakeSample
<1>2. piece \in Alive
  BY <1>1, PieceAlive
<1>3. /\ session \in Sessions /\ stage \in 1 .. Stages(session) /\ stage \in Nat /\ stage > 0
      /\ TableHeld /\ SamplesHeld /\ CallHeld
  BY <1>2, CallIs
<1>4. PICK c \in Costs : Counted(c) /\ (c # CleanCost => Spare)
  BY <1>1, <1>3 DEF CallHeld, ToldOne
<1>5. c \in Nat /\ CleanCost \in Nat
  BY <1>3, CostsTyped
<1>6. cycles = Shown(c) - overhead[Wrapper] /\ cycles \in Int
  BY <1>1, <1>2, <1>4, <1>5, ShownTyped, OverheadIs DEF Counted
<1>7. samples \in Seq(Int) /\ Wanted \in Nat
  BY <1>3, StageMeans DEF SamplesHeld
<1> DEFINE n == Len(samples)
<1>8. /\ samples' \in Seq(Int) /\ Len(samples') = n + 1 /\ n \in Nat
      /\ DOMAIN samples = 1 .. n /\ DOMAIN samples' = 1 .. n + 1
      /\ samples'[n + 1] = cycles /\ \A i \in 1 .. n : samples'[i] = samples[i]
  <2> HIDE DEF cycles
  <2> QED
    BY <1>1, <1>6, <1>7
<1> HIDE DEF cycles, n
<1>9. /\ Wrapper' = Wrapper /\ CleanCost' = CleanCost /\ Costs' = Costs
      /\ Wanted' = Wanted /\ Alive' = Alive
  <2>1. Wrapper' = Wrapper
    BY <1>1 DEF Wrapper, KindOf
  <2>2. CleanCost' = CleanCost
    BY <1>1 DEF CleanCost, Size, Blocks
  <2>3. Wanted' = Wanted
    BY <1>1 DEF Wanted, Calibrates, KindOf
  <2> QED
    BY <2>1, <2>2, <2>3 DEF Costs, Alive
<1>10. \A d : Shown(d)' = Shown(d)
  BY <1>9 DEF Shown
<1>11. \A i : i \in Dirty' <=> i \in 1 .. n + 1 /\ samples'[i] # due
  BY <1>1, <1>8, <1>9, <1>10 DEF Dirty
<1>12. \A i : i \in Dirty <=> i \in 1 .. n /\ samples[i] # due
  BY <1>8 DEF Dirty
<1>13. IsFiniteSet(Dirty) /\ Cardinality(Dirty) \in Nat /\ Cardinality(Dirty) <= hurt /\ hurt \in Nat
  BY <1>3, <1>7, DirtyTyped DEF SamplesHeld
<1>14. Cardinality(Dirty') <= hurt
  <2>1. CASE cycles = due
    <3>1. Dirty' = Dirty
      <4>1. \A i : i \in Dirty' <=> i \in Dirty
        BY <1>8, <1>11, <1>12, <2>1
      <4> QED
        BY <4>1
    <3> QED
      BY <1>13, <3>1
  <2>2. CASE cycles # due
    <3>1. Dirty' = Dirty \cup {n + 1} /\ n + 1 \notin Dirty
      <4>1. \A i : i \in Dirty' <=> i \in Dirty \/ i = n + 1
        BY <1>8, <1>11, <1>12, <2>2
      <4>2. n + 1 \notin Dirty
        BY <1>8, <1>12
      <4> QED
        BY <4>1, <4>2
    <3>2. Cardinality(Dirty') = Cardinality(Dirty) + 1
      BY <1>13, <3>1, FS_AddElement
    <3>3. c # CleanCost
      BY <1>6, <2>2
    <3>4. Cardinality(Dirty) < hurt
      BY <1>4, <3>3 DEF Spare
    <3> QED
      BY <1>13, <3>2, <3>4
  <2> QED
    BY <2>1, <2>2
<1>15. \A i \in DOMAIN samples' : \E d \in Costs : samples'[i] = Shown(d) - overhead[Wrapper]
  <2> SUFFICES ASSUME NEW i \in 1 .. n + 1
               PROVE  \E d \in Costs : samples'[i] = Shown(d) - overhead[Wrapper]
    BY <1>8
  <2>1. CASE i = n + 1
    BY <1>4, <1>6, <1>8, <2>1
  <2>2. CASE i # n + 1
    <3>1. i \in 1 .. n
      BY <1>8, <2>2
    <3>2. \E d \in Costs : samples[i] = Shown(d) - overhead[Wrapper]
      BY <1>3, <1>8, <3>1 DEF SamplesHeld
    <3> QED
      BY <1>8, <3>1, <3>2
  <2> QED
    BY <2>1, <2>2
<1>16. Len(samples') <= Wanted
  BY <1>1, <1>7, <1>8 DEF n
<1>17. SamplesHeld'
  BY <1>1, <1>8, <1>9, <1>10, <1>13, <1>14, <1>15, <1>16 DEF SamplesHeld
<1>18. CallHeld'
  BY <1>1, <1>7, <1>9, <1>16 DEF CallHeld, ToldOne, Told
<1>19. TableHeld'
  <2>1. ShortError' = ShortError /\ LongError' = LongError
    BY <1>1 DEF ShortError, LongError
  <2>2. ShortRow' <=> ShortRow
    BY <1>1, <2>1 DEF ShortRow
  <2>3. \A i : SweepRowRight(i)' <=> SweepRowRight(i)
    BY <1>1, <2>1 DEF SweepRowRight
  <2> QED
    BY <1>1, <1>3, <2>1, <2>2, <2>3 DEF TableHeld, MostlyClean
<1> QED
  BY <1>1, <1>3, <1>9, <1>17, <1>18, <1>19 DEF BenchInv, Alive, InShort, InLong, Stages

-----------------------------------------------------------------------------
(* The end of a stage *)

\* A row after the others.
LEMMA RowAdded ==
  ASSUME TableHeld, stage \in Nat, stage > 0, NEW row \in BenchRows, table' = Append(table, row)
  PROVE  /\ table' \in Seq(BenchRows) /\ Len(table') = stage /\ table'[stage] = row
         /\ \A i \in 1 .. stage - 1 : table'[i] = table[i] /\ table[i] \in BenchRows
<1>1. table \in Seq(BenchRows) /\ Len(table) = stage - 1
  BY DEF TableHeld
<1> QED
  BY <1>1

LEMMA RowTyped ==
  ASSUME NEW m \in Int, NEW w \in BOOLEAN, NEW h \in Nat
  PROVE  [median |-> m, warned |-> w, hurt |-> h] \in BenchRows
BY DEF BenchRows

\* The rows before the new one say what they said.
LEMMA RowsStay ==
  ASSUME TableHeld, stage \in Nat, stage > 0, \A i \in 1 .. stage - 1 : table'[i] = table[i],
         session' = session, ShortError' = ShortError \/ stage = 1, LongError' = LongError \/ stage <= 2,
         stage' = stage + 1
  PROVE  /\ stage > 1 => ShortError' \in 0 .. 4 /\ (table'[1].hurt = 0 => ShortError' = 0)
         /\ stage > 2 => LongError' \in Nat /\ (table'[2].hurt = 0 => LongError' = 0)
         /\ stage > 3 => (table'[3].hurt = 0 => LongError' \in 0 .. 2)
         /\ stage > 4 => ShortRow'
         /\ stage > 5 => (MostlyClean(table'[5]) => table'[5].median = session.long - LongError')
         /\ \A i \in 1 .. stage - 6 : SweepRowRight(i)'
<1>1. \A i \in 1 .. stage - 1 : table'[i] = table[i]
  OBVIOUS
<1>2. stage > 1 => ShortError' = ShortError
  OBVIOUS
<1>3. stage > 2 => LongError' = LongError
  OBVIOUS
<1>4. stage > 4 => ShortRow'
  <2> SUFFICES ASSUME stage > 4 PROVE ShortRow'
    OBVIOUS
  <2>1. ShortRow /\ table'[4] = table[4] /\ ShortError' = ShortError
    BY <1>1, <1>2 DEF TableHeld
  <2> QED
    BY <2>1 DEF ShortRow
<1>5. \A i \in 1 .. stage - 6 : SweepRowRight(i)'
  <2> SUFFICES ASSUME NEW i \in 1 .. stage - 6 PROVE SweepRowRight(i)'
    OBVIOUS
  <2>1. SweepRowRight(i) /\ table'[5 + i] = table[5 + i] /\ LongError' = LongError
    BY <1>1, <1>3 DEF TableHeld
  <2> QED
    BY <2>1 DEF SweepRowRight
<1> QED
  BY <1>1, <1>2, <1>3, <1>4, <1>5 DEF TableHeld, MostlyClean

\* What is left to show of a step that ends a stage.
LEMMA StageEnds ==
  ASSUME BenchInv, piece = "back", NEW ok, EndStage(ok),
         ok => TableHeld',
         ok /\ stage = Stages(session) => (session.sizes # <<>> /\ Ascending => Rising(table'))
  PROVE  BenchInv'
<1>1. /\ piece' = IF ~ok THEN "dead" ELSE IF stage = Stages(session) THEN "printed" ELSE "idle"
      /\ stage' = stage + 1 /\ samples' = <<>> /\ hurt' = 0 /\ session' = session
  BY DEF EndStage
<1>2. piece \in Alive
  BY DEF Alive
<1>3. session \in Sessions /\ stage \in 1 .. Stages(session) /\ stage \in Nat /\ Stages(session) \in Nat
  BY <1>2, CallIs, SessionIs
<1>4. CASE ~ok
  BY <1>1, <1>3, <1>4 DEF BenchInv, Alive, InShort, InLong
<1>5. CASE ok /\ stage = Stages(session)
  <2>1. piece' = "printed" /\ stage' = Stages(session') + 1 /\ session' \in Sessions /\ TableHeld'
    BY <1>1, <1>3, <1>5
  <2>2. (session.sizes # <<>> /\ Ascending => Rising(table))'
    BY <1>1, <1>5 DEF Ascending, Rising
  <2> QED
    BY <2>1, <2>2 DEF BenchInv, Alive, InShort, InLong
<1>6. CASE ok /\ stage # Stages(session)
  <2>1. piece' = "idle" /\ session' \in Sessions /\ TableHeld'
    BY <1>1, <1>3, <1>6
  <2>2. stage' \in 1 .. Stages(session')
    BY <1>1, <1>3, <1>6
  <2>3. CallHeld'
    BY <2>1 DEF CallHeld, ToldOne, Told
  <2>4. SamplesHeld'
    <3>1. Dirty' = {}
      BY <1>1 DEF Dirty
    <3>2. Cardinality({}) = 0
      BY FS_EmptySet
    <3>3. Wanted' \in Nat
      <4>1. stage' \in Nat /\ stage' > 0
        BY <1>1, <1>3
      <4>2. Wanted' = IF Calibrates' THEN 2 ELSE IF KindOf(stage') = "verify" THEN 1 ELSE Samples
        BY DEF Wanted, KindOf
      <4> QED
        BY <4>2, SamplesAssumption
    <3> QED
      BY <1>1, <3>1, <3>2, <3>3 DEF SamplesHeld
  <2> QED
    BY <2>1, <2>2, <2>3, <2>4 DEF BenchInv, Alive
<1> QED
  BY <1>4, <1>5, <1>6

\* The samples of a stage that is complete.
LEMMA Complete ==
  ASSUME BenchInv, piece = "back", Len(samples) = Wanted
  PROVE  /\ session \in Sessions /\ stage \in 1 .. Stages(session) /\ stage \in Nat /\ stage > 0
         /\ TableHeld /\ samples \in Seq(Int) /\ samples # <<>> /\ hurt \in Nat
         /\ samples[1] \in Int /\ Median \in Int /\ Spread \in Int
         /\ \E c \in Nat : samples[1] = Shown(c) - overhead[Wrapper]
         /\ CleanCost \in Nat
<1>1. piece \in Alive
  BY DEF Alive
<1>2. /\ session \in Sessions /\ stage \in 1 .. Stages(session) /\ stage \in Nat /\ stage > 0
      /\ TableHeld /\ SamplesHeld
  BY <1>1, CallIs
<1>3. Wanted \in Nat /\ Wanted > 0
  BY <1>2, StageMeans
<1>4. samples \in Seq(Int) /\ samples # <<>> /\ hurt \in Nat /\ 1 \in DOMAIN samples
  BY <1>2, <1>3 DEF SamplesHeld
<1>5. \E c \in Costs : samples[1] = Shown(c) - overhead[Wrapper]
  BY <1>2, <1>4 DEF SamplesHeld
<1>6. CleanCost \in Costs /\ Costs \subseteq Nat
  BY <1>2, CostsTyped
<1>7. /\ Sorted \in [DOMAIN samples -> Int] /\ Len(samples) \in DOMAIN samples
      /\ DOMAIN samples = 1 .. Len(samples) /\ Len(samples) \in Nat
  BY <1>4, SortedEnds
<1>8. Len(samples) \div 2 + 1 \in 1 .. Len(samples)
  BY <1>3, <1>7
<1>9. Median \in Int
  BY <1>7, <1>8 DEF Median
<1>10. Spread \in Int
  BY <1>4, <1>7 DEF Spread
<1> QED
  BY <1>2, <1>4, <1>5, <1>6, <1>9, <1>10

\* A stage with no disturbed call has the same samples throughout.
LEMMA Undisturbed ==
  ASSUME BenchInv, piece = "back", Len(samples) = Wanted, hurt = 0
  PROVE  \A i \in DOMAIN samples : samples[i] = Shown(CleanCost) - overhead[Wrapper]
<1>1. piece \in Alive
  BY DEF Alive
<1>2. samples \in Seq(Int) /\ Cardinality(Dirty) <= hurt
  BY <1>1, CallIs DEF SamplesHeld
<1>3. Dirty = {}
  BY <1>2, DirtyTyped, FS_EmptySet
<1> QED
  BY <1>3 DEF Dirty

\* The median of one with few is that of an undisturbed one.
LEMMA MostlyUndisturbed ==
  ASSUME BenchInv, piece = "back", Len(samples) = Wanted, stage > 3, 2 * hurt < Samples
  PROVE  Median = Shown(CleanCost) - overhead[Wrapper]
<1>1. piece \in Alive
  BY DEF Alive
<1>2. samples \in Seq(Int) /\ Cardinality(Dirty) <= hurt /\ hurt \in Nat
  BY <1>1, CallIs DEF SamplesHeld
<1>3. Cardinality(Dirty) \in Nat
  BY <1>2, DirtyTyped
<1>4. Len(samples) = Samples
  BY Complete, StageMeans
<1>5. 2 * Cardinality(Dirty) < Len(samples)
  BY <1>2, <1>3, <1>4, SamplesAssumption
<1> DEFINE v == Shown(CleanCost) - overhead[Wrapper]
<1>6. Dirty = {i \in DOMAIN samples : samples[i] # v}
  BY DEF Dirty
<1> HIDE DEF v
<1>7. Median = v
  BY <1>2, <1>5, <1>6, MedianRight
<1> QED
  BY <1>7 DEF v

LEMMA ShortCalibrated == ASSUME BenchInv, Calibrated, stage = 1 PROVE BenchInv'
<1> DEFINE row == [median |-> samples[1], warned |-> Spread # 0, hurt |-> hurt]
           ok == samples[1] \in 10 .. Limit[Wrapper]
<1>1. /\ piece = "back" /\ Len(samples) = Wanted /\ EndStage(ok)
      /\ overhead' = [overhead EXCEPT ![Wrapper] = samples[1]] /\ table' = Append(table, row)
  BY DEF Calibrated
<1>2. session' = session /\ stage' = stage + 1
  BY <1>1 DEF EndStage
<1>3. stage \in Nat /\ stage > 0 /\ TableHeld /\ samples[1] \in Int /\ hurt \in Nat
      /\ session \in Sessions /\ stage \in 1 .. Stages(session)
  BY <1>1, Complete
<1>4. Wrapper = "short"
  BY <1>3, StageMeans
<1>5. overhead \in [short : Int, long : Int] /\ overhead.short = 0 /\ overhead.long = 0
  BY <1>3 DEF TableHeld
<1>6. overhead' \in [short : Int, long : Int] /\ overhead'.short = samples[1] /\ overhead'.long = 0
  BY <1>1, <1>3, <1>4, <1>5
<1>7. row \in BenchRows /\ row.hurt = hurt
  BY <1>3, RowTyped
<1> HIDE DEF row
<1>8. table' \in Seq(BenchRows) /\ Len(table') = 1 /\ table'[1] = row
  BY <1>1, <1>3, <1>7, RowAdded
<1>9. \A c : Shown(c) = ShortShown(c)
  BY <1>4 DEF Shown
<1>10. PICK c \in Nat : samples[1] = ShortShown(c) - 0
  BY <1>1, <1>4, <1>5, <1>9, Complete
<1>11. ASSUME ok PROVE ShortError' \in 0 .. 4 /\ (hurt = 0 => ShortError' = 0)
  <2>1. samples[1] \in 10 .. 25
    BY <1>4, <1>11 DEF Limit
  <2>2. ShortShown(c) = samples[1]
    BY <1>10, ShortShows
  <2>3. samples[1] = c + 21 /\ c \in 0 .. 4
    BY <2>1, <2>2, ShortCalibrates
  <2>4. ShortError' = c
    BY <1>6, <2>3 DEF ShortError, ShortLead, Gap
  <2>5. ASSUME hurt = 0 PROVE c = 0
    <3>1. CleanCost = 0 /\ 1 \in DOMAIN samples
      BY <1>1, <1>3, Complete DEF CleanCost
    <3>2. samples[1] = ShortShown(0) - 0
      BY <1>1, <1>4, <1>5, <1>9, <2>5, <3>1, Undisturbed
    <3>3. ShortShown(0) \in 10 .. 25 /\ ShortShown(0) = samples[1]
      BY <2>1, <3>2, ShortShows
    <3>4. ShortShown(0) = 0 + 21
      BY <3>3, ShortCalibrates
    <3> QED
      BY <2>3, <3>3, <3>4
  <2> QED
    BY <2>3, <2>4, <2>5
<1> HIDE DEF ok
<1>12. ok => TableHeld'
  BY <1>2, <1>6, <1>7, <1>8, <1>11 DEF TableHeld
<1>13. ~ (stage = Stages(session))
  BY <1>3, SessionIs
<1> QED
  BY <1>1, <1>12, <1>13, StageEnds

LEMMA LongCalibrated == ASSUME BenchInv, Calibrated, stage = 2 PROVE BenchInv'
<1> DEFINE row == [median |-> samples[1], warned |-> Spread # 0, hurt |-> hurt]
           ok == samples[1] \in 10 .. Limit[Wrapper]
<1>1. /\ piece = "back" /\ Len(samples) = Wanted /\ EndStage(ok)
      /\ overhead' = [overhead EXCEPT ![Wrapper] = samples[1]] /\ table' = Append(table, row)
  BY DEF Calibrated
<1>2. session' = session /\ stage' = stage + 1
  BY <1>1 DEF EndStage
<1>3. stage \in Nat /\ stage > 0 /\ TableHeld /\ samples[1] \in Int /\ hurt \in Nat
      /\ session \in Sessions /\ stage \in 1 .. Stages(session)
  BY <1>1, Complete
<1>4. Wrapper = "long"
  BY <1>3, StageMeans
<1>5. overhead \in [short : Int, long : Int] /\ overhead.long = 0
  BY <1>3 DEF TableHeld
<1>6. overhead' \in [short : Int, long : Int] /\ overhead'.short = overhead.short /\ overhead'.long = samples[1]
  BY <1>1, <1>3, <1>4, <1>5
<1>7. row \in BenchRows /\ row.hurt = hurt
  BY <1>3, RowTyped
<1> HIDE DEF row
<1>8. table' \in Seq(BenchRows) /\ Len(table') = 2 /\ table'[2] = row
  BY <1>1, <1>3, <1>7, RowAdded
<1>9. \A c : Shown(c) = LongShown(c)
  BY <1>4 DEF Shown
<1>10. PICK c \in Nat : samples[1] = LongShown(c) - 0
  BY <1>1, <1>4, <1>5, <1>9, Complete
<1>11. LongError' = c
  BY <1>6, <1>10 DEF LongError, LongShown, LongLead
<1>12. ASSUME hurt = 0 PROVE c = 0
  <2>1. CleanCost = 0 /\ 1 \in DOMAIN samples
    BY <1>1, <1>3, Complete DEF CleanCost
  <2>2. samples[1] = LongShown(0) - 0
    BY <1>1, <1>4, <1>5, <1>9, <1>12, <2>1, Undisturbed
  <2> QED
    BY <1>10, <2>2 DEF LongShown, LongLead
<1> HIDE DEF ok
<1>13. ShortError' = ShortError
  BY <1>6 DEF ShortError
<1>14. ShortError' \in 0 .. 4 /\ (table'[1].hurt = 0 => ShortError' = 0)
  <2>1. \A i \in 1 .. stage - 1 : table'[i] = table[i]
    BY <1>1, <1>3, <1>7, RowAdded
  <2> QED
    BY <1>2, <1>3, <1>13, <2>1, RowsStay
<1>15. TableHeld'
  BY <1>2, <1>6, <1>7, <1>8, <1>11, <1>12, <1>14 DEF TableHeld
<1>16. ~ (stage = Stages(session))
  BY <1>3, SessionIs
<1> QED
  BY <1>1, <1>15, <1>16, StageEnds

\* A stage that leaves the overheads.
LEMMA TableGrows ==
  ASSUME BenchInv, piece = "back", Len(samples) = Wanted, stage > 2, overhead' = overhead,
         session' = session, stage' = stage + 1,
         NEW row \in BenchRows, table' = Append(table, row),
         stage = 3 => (row.hurt = 0 => LongError \in 0 .. 2),
         stage = 4 => ShortRow',
         stage = 5 => (MostlyClean(row) => row.median = session.long - LongError),
         stage > 5 => SweepRowSays(table'[stage], session.sizes[stage - 5], session.block, LongError)
  PROVE  TableHeld'
<1>1. stage \in Nat /\ stage > 0 /\ TableHeld
  BY Complete
<1>2. ShortError' = ShortError /\ LongError' = LongError
  BY DEF ShortError, LongError
<1>3. /\ table' \in Seq(BenchRows) /\ Len(table') = stage /\ table'[stage] = row
      /\ \A i \in 1 .. stage - 1 : table'[i] = table[i]
  BY <1>1, RowAdded
<1>4. /\ ShortError' \in 0 .. 4 /\ (table'[1].hurt = 0 => ShortError' = 0)
      /\ LongError' \in Nat /\ (table'[2].hurt = 0 => LongError' = 0)
      /\ stage > 3 => (table'[3].hurt = 0 => LongError' \in 0 .. 2)
      /\ stage > 4 => ShortRow'
      /\ stage > 5 => (MostlyClean(table'[5]) => table'[5].median = session.long - LongError')
      /\ \A i \in 1 .. stage - 6 : SweepRowRight(i)'
  <2>1. stage > 1
    BY <1>1
  <2> QED
    BY <1>1, <1>2, <1>3, <2>1, RowsStay, Zenon
<1>5. overhead' \in [short : Int, long : Int]
  BY <1>1 DEF TableHeld
<1>6. \A i \in 1 .. stage' - 6 : SweepRowRight(i)'
  <2> SUFFICES ASSUME NEW i \in 1 .. stage' - 6 PROVE SweepRowRight(i)'
    OBVIOUS
  <2>1. CASE i = stage - 5
    <3>1. stage > 5 /\ 5 + i = stage
      BY <1>1, <2>1
    <3>2. SweepRowSays(table'[5 + i], session'.sizes[i], session'.block, LongError')
      BY <1>2, <2>1, <3>1
    <3> QED
      BY <3>2 DEF SweepRowRight
  <2>2. CASE i # stage - 5
    <3>1. i \in 1 .. stage - 6
      BY <1>1, <2>2
    <3> QED
      BY <1>4, <3>1
  <2> QED
    BY <2>1, <2>2
<1>7. stage = 3 => (table'[3].hurt = 0 => LongError' \in 0 .. 2)
  BY <1>2, <1>3
<1>8. stage = 5 => (MostlyClean(table'[5]) => table'[5].median = session'.long - LongError')
  BY <1>2, <1>3
<1>9. stage' > 3 => (table'[3].hurt = 0 => LongError' \in 0 .. 2)
  BY <1>1, <1>4, <1>7
<1>10. stage' > 4 => ShortRow'
  BY <1>1, <1>4
<1>11. stage' > 5 => (MostlyClean(table'[5]) => table'[5].median = session'.long - LongError')
  <2> SUFFICES ASSUME stage' > 5
               PROVE  MostlyClean(table'[5]) => table'[5].median = session'.long - LongError'
    OBVIOUS
  <2>1. CASE stage = 5
    BY <1>8, <2>1, Zenon
  <2>2. CASE stage # 5
    <3>1. stage > 5 /\ session'.long = session.long
      BY <1>1, <2>2
    <3> QED
      BY <1>4, <3>1, Zenon
  <2> QED
    BY <2>1, <2>2
<1>12. Len(table') = stage' - 1 /\ ~(stage' = 1) /\ ~(stage' <= 2)
  BY <1>1, <1>3
<1>13. (\A i \in 1 .. stage - 6 : SweepRowRight(i))'
  BY <1>6
<1>14. MostlyClean(table[5])' <=> MostlyClean(table'[5])
  BY DEF MostlyClean
<1> QED
  BY <1>3, <1>4, <1>5, <1>9, <1>10, <1>11, <1>12, <1>13, <1>14 DEF TableHeld

LEMMA Verifies == ASSUME BenchInv, Verified PROVE BenchInv'
<1> DEFINE row == [median |-> samples[1], warned |-> FALSE, hurt |-> hurt]
           ok == samples[1] - VerifyCycles \in -2 .. 2
<1>1. /\ piece = "back" /\ Len(samples) = Wanted /\ EndStage(ok) /\ KindOf(stage) = "verify"
      /\ overhead' = overhead /\ table' = Append(table, row)
  BY DEF Verified
<1>2. session' = session /\ stage' = stage + 1
  BY <1>1 DEF EndStage
<1>3. stage = 3 /\ TableHeld /\ samples[1] \in Int /\ hurt \in Nat
      /\ session \in Sessions /\ stage \in 1 .. Stages(session)
  BY <1>1, Complete, StageIs
<1>4. Wrapper = "long"
  BY <1>3, StageMeans
<1>5. overhead \in [short : Int, long : Int] /\ LongError \in Nat
  BY <1>3 DEF TableHeld
<1>6. row \in BenchRows /\ row.hurt = hurt
  BY <1>3, RowTyped
<1>7. ASSUME ok, hurt = 0 PROVE LongError \in 0 .. 2
  <2>1. CleanCost = 501 /\ 1 \in DOMAIN samples
    BY <1>1, <1>3, Complete DEF CleanCost, VerifyCycles
  <2>2. samples[1] = Shown(501) - overhead.long
    BY <1>1, <1>4, <1>5, <1>7, <2>1, Undisturbed
  <2>3. samples[1] = 501 + 18 - overhead.long
    <3>1. Shown(501) = LongShown(501)
      BY <1>4 DEF Shown
    <3>2. LongShown(501) = 519
      BY DEF LongShown, LongLead
    <3> QED
      BY <1>5, <2>2, <3>1, <3>2
  <2> QED
    BY <1>5, <1>7, <2>3 DEF LongError, LongLead, VerifyCycles
<1> HIDE DEF row, ok
<1>8. ok => TableHeld'
  BY <1>1, <1>2, <1>3, <1>6, <1>7, TableGrows
<1>9. ~ (stage = Stages(session))
  BY <1>3, SessionIs
<1> QED
  BY <1>1, <1>8, <1>9, StageEnds

LEMMA RowIs ==
  ASSUME Median \in Int, hurt \in Nat, NEW w \in BOOLEAN
  PROVE  /\ Row(w) \in BenchRows /\ Row(w).hurt = hurt /\ Row(w).median = Median
         /\ Row(w).warned = w
BY DEF Row, BenchRows

LEMMA RoutineTables == ASSUME BenchInv, Tabled PROVE BenchInv'
<1> DEFINE warned == Spread > 0 \/ Wide
           row == Row(warned)
           v == ShortShown(session.bench) - overhead.short
<1>1. /\ piece = "back" /\ Len(samples) = Wanted /\ EndStage(TRUE) /\ KindOf(stage) = "bench"
      /\ overhead' = overhead /\ table' = Append(table, row)
  BY DEF Tabled
<1>2. session' = session /\ stage' = stage + 1
  BY <1>1 DEF EndStage
<1>3. stage = 4 /\ TableHeld /\ samples \in Seq(Int) /\ samples # <<>> /\ hurt \in Nat /\ Median \in Int
      /\ session \in Sessions /\ stage \in 1 .. Stages(session)
  BY <1>1, Complete, StageIs
<1>4. Wrapper = "short"
  BY <1>3, StageMeans
<1>5. overhead \in [short : Int, long : Int] /\ ShortError \in 0 .. 4
  BY <1>3 DEF TableHeld
<1>6. overhead.short \in 21 .. 25 /\ ShortError = overhead.short - 21
  BY <1>5 DEF ShortError, ShortLead, Gap
<1>7. session.bench \in Nat /\ CleanCost = session.bench
  BY <1>3, SessionIs DEF CleanCost
<1>8. Shown(CleanCost) - overhead[Wrapper] = v
  BY <1>4, <1>7 DEF Shown
<1>9. row \in BenchRows /\ row.hurt = hurt /\ row.median = Median /\ row.warned = warned
  BY <1>3, RowTyped DEF Row
<1>10. /\ Sorted \in [DOMAIN samples -> Int] /\ 1 \in DOMAIN samples /\ Len(samples) \in DOMAIN samples
       /\ \A i \in DOMAIN samples : Sorted[1] <= samples[i] /\ samples[i] <= Sorted[Len(samples)]
       /\ \A k \in DOMAIN samples : \E i \in DOMAIN samples : Sorted[k] = samples[i]
  BY <1>3, SortedEnds
<1>11. v \in Int
  BY <1>6, <1>7, ShortShows
\* What the samples say when one is below zero or beyond the range.
<1>12. ASSUME NEW i \in DOMAIN samples, samples[i] < 0 \/ samples[i] > 65000 PROVE Wide
  <2>1. Sorted[1] <= samples[i] /\ samples[i] <= Sorted[Len(samples)] /\ samples[i] \in Int
        /\ Sorted[1] \in Int /\ Sorted[Len(samples)] \in Int
    BY <1>3, <1>10
  <2> QED
    BY <1>12, <2>1 DEF Wide
<1>13. \E i \in DOMAIN samples : Median = samples[i]
  <2>1. Len(samples) \in Nat /\ Len(samples) > 0 /\ DOMAIN samples = 1 .. Len(samples)
    BY <1>3
  <2>2. Len(samples) \div 2 + 1 \in DOMAIN samples
    BY <2>1
  <2> QED
    BY <1>10, <2>2 DEF Median
<1>14. ASSUME 2 * hurt < Samples
       PROVE  \/ warned
              \/ session.bench - Median - ShortError = (IF Torn(session.bench) THEN 256 ELSE 0)
  <2>1. Median = v
    BY <1>1, <1>3, <1>8, <1>14, MostlyUndisturbed
  <2>2. CASE ShortLead + session.bench > Top
    <3>1. v < 0
      BY <1>6, <1>7, <2>2, ShortShows
    <3>2. PICK i \in DOMAIN samples : Median = samples[i]
      BY <1>13
    <3>3. samples[i] < 0 \/ samples[i] > 65000
      BY <2>1, <3>1, <3>2, SMT
    <3>4. Wide
      BY <1>12, <3>3
    <3> QED
      BY <3>4
  <2>3. CASE ShortLead + session.bench <= Top /\ ShortLead + session.bench + Gap > Top
    <3>1. v > 65000
      BY <1>6, <1>7, <2>3, ShortShows
    <3>2. PICK i \in DOMAIN samples : Median = samples[i]
      BY <1>13
    <3>3. samples[i] < 0 \/ samples[i] > 65000
      BY <2>1, <3>1, <3>2, SMT
    <3>4. Wide
      BY <1>12, <3>3
    <3> QED
      BY <3>4
  <2>4. CASE ShortLead + session.bench + Gap <= Top
    <3>1. v = (IF Torn(session.bench) THEN session.bench + 21 - 256 ELSE session.bench + 21) - overhead.short
      BY <1>7, <2>4, ShortShows
    <3> HIDE DEF v
    <3> QED
      BY <1>6, <1>7, <2>1, <3>1
  <2> QED
    BY <1>7, <2>2, <2>3, <2>4, Numbers DEF ShortLead, Gap
<1>15. ASSUME hurt = 0, session.bench >= 260, session.bench <= 64990 PROVE ~warned
  <2>1. \A i \in DOMAIN samples : samples[i] = v
    <3>1. \A i \in DOMAIN samples : samples[i] = Shown(CleanCost) - overhead[Wrapper]
      BY <1>1, <1>15, Undisturbed
    <3> QED
      BY <1>8, <3>1
  <2>2. \A k \in DOMAIN samples : Sorted[k] = v
    BY <1>10, <2>1
  <2>3. ShortLead + session.bench + Gap <= Top
    BY <1>7, <1>15, Numbers, SMT DEF ShortLead, Gap
  <2>4. v = (IF Torn(session.bench) THEN session.bench + 21 - 256 ELSE session.bench + 21) - overhead.short
    BY <1>7, <2>3, ShortShows
  <2>5. v >= 0 /\ v <= 65000
    <3> HIDE DEF v
    <3> QED
      BY <1>6, <1>7, <1>15, <2>4, SMT
  <2>6. Sorted[1] = v /\ Sorted[Len(samples)] = v
    BY <1>10, <2>2
  <2> HIDE DEF v
  <2> QED
    BY <1>11, <2>5, <2>6 DEF Spread, Wide
<1> HIDE DEF row, warned, v
<1>16. table'[4] = row
  BY <1>1, <1>3, <1>9, RowAdded
<1>17. ShortError' = ShortError
  BY <1>1 DEF ShortError
<1>18. ShortRow'
  <2>1. ASSUME MostlyClean(row)
        PROVE  \/ row.warned
               \/ session.bench - row.median - ShortError = (IF Torn(session.bench) THEN 256 ELSE 0)
    BY <1>9, <1>14, <2>1 DEF MostlyClean
  <2>2. row.warned => row.hurt > 0 \/ session.bench < 260 \/ session.bench > 64990
    <3>1. row.warned => warned
      BY <1>9
    <3>2. warned => hurt # 0 \/ session.bench < 260 \/ session.bench > 64990
      BY <1>7, <1>15, SMT
    <3> QED
      BY <1>3, <1>9, <3>1, <3>2, SMT
  <2>3. ShortRowSays(row, session.bench, ShortError)
    BY <2>1, <2>2, SMT DEF ShortRowSays
  <2> QED
    BY <1>2, <1>16, <1>17, <2>3 DEF ShortRow
<1>19. TableHeld'
  BY <1>1, <1>2, <1>3, <1>9, <1>18, TableGrows
<1>20. ~ (stage = Stages(session))
  BY <1>3, SessionIs
<1> QED
  BY <1>1, <1>19, <1>20, StageEnds

LEMMA LongTables == ASSUME BenchInv, LongTabled PROVE BenchInv'
<1> DEFINE w == Spread > 0
           row == Row(w)
<1>1. /\ piece = "back" /\ Len(samples) = Wanted /\ EndStage(TRUE) /\ KindOf(stage) = "long"
      /\ overhead' = overhead /\ table' = Append(table, row)
  BY DEF LongTabled
<1>2. session' = session /\ stage' = stage + 1
  BY <1>1 DEF EndStage
<1>3. stage = 5 /\ TableHeld /\ hurt \in Nat /\ Median \in Int
      /\ session \in Sessions /\ stage \in 1 .. Stages(session)
  BY <1>1, Complete, StageIs
<1>4. Wrapper = "long"
  BY <1>3, StageMeans
<1>5. overhead \in [short : Int, long : Int]
  BY <1>3 DEF TableHeld
<1>6. row \in BenchRows /\ row.hurt = hurt /\ row.median = Median
  <2>1. w \in BOOLEAN
    OBVIOUS
  <2> HIDE DEF w
  <2> QED
    BY <1>3, <2>1, RowIs
<1>7. ASSUME MostlyClean(row) PROVE row.median = session.long - LongError
  <2>1. Median = Shown(CleanCost) - overhead.long
    BY <1>1, <1>3, <1>4, <1>6, <1>7, MostlyUndisturbed DEF MostlyClean
  <2>2. CleanCost = session.long /\ session.long \in Nat
    BY <1>3, SessionIs DEF CleanCost
  <2>3. Shown(CleanCost) = 12 + 6 + session.long
    BY <1>4, <2>2 DEF Shown, LongShown, LongLead
  <2> QED
    BY <1>5, <1>6, <2>1, <2>2, <2>3 DEF LongError, LongLead
<1> HIDE DEF row
<1>8. TableHeld'
  BY <1>1, <1>2, <1>3, <1>6, <1>7, TableGrows
<1>9. stage = Stages(session) => session.sizes = <<>>
  BY <1>3, SessionIs
<1> QED
  BY <1>1, <1>8, <1>9, StageEnds

LEMMA Sweeps256 == ASSUME BenchInv, SweepRow PROVE BenchInv'
<1> DEFINE w == Spread > 0
           row == Row(w)
           refuses == \/ Size = 0
                      \/ stage = Stages(session) /\ Ascending /\ ~Rising(Append(table, row))
<1>1. /\ piece = "back" /\ Len(samples) = Wanted /\ EndStage(~refuses) /\ KindOf(stage) = "multi"
      /\ overhead' = overhead /\ table' = Append(table, row)
  BY DEF SweepRow
<1>2. session' = session /\ stage' = stage + 1
  BY <1>1 DEF EndStage
<1>3. stage > 5 /\ stage \in Nat /\ TableHeld /\ hurt \in Nat /\ Median \in Int
      /\ session \in Sessions /\ stage \in 1 .. Stages(session)
  BY <1>1, Complete, StageIs
<1>4. Wrapper = "long"
  BY <1>3, StageMeans
<1>5. overhead \in [short : Int, long : Int]
  BY <1>3 DEF TableHeld
<1>6. row \in BenchRows /\ row.hurt = hurt /\ row.median = Median
  <2>1. w \in BOOLEAN
    OBVIOUS
  <2> HIDE DEF w
  <2> QED
    BY <1>3, <2>1, RowIs
<1>7. /\ Size = session.sizes[stage - 5] /\ Size \in Nat
      /\ Blocks(Size) * session.block \in Nat
  BY <1>3, CleanCostIs
<1>8. ASSUME MostlyClean(row) PROVE row.median = StubHead + Blocks(Size) * session.block - LongError
  <2>1. Median = Shown(CleanCost) - overhead.long
    BY <1>1, <1>3, <1>4, <1>6, <1>8, MostlyUndisturbed DEF MostlyClean
  <2>2. PICK k \in Nat : k = Blocks(Size) * session.block
    BY <1>7
  <2>3. CleanCost = StubHead + k
    BY <1>3, <2>2 DEF CleanCost
  <2>4. Shown(CleanCost) = 12 + 6 + (StubHead + k)
    BY <1>4, <2>3 DEF Shown, LongShown, LongLead
  <2>5. row.median = StubHead + k - LongError
    BY <1>5, <1>6, <2>1, <2>2, <2>4 DEF LongError, LongLead, StubHead
  <2> QED
    BY <2>2, <2>5
<1> HIDE DEF row
<1>9. table'[stage] = row /\ LongError' = LongError
  BY <1>1, <1>3, <1>6, RowAdded DEF LongError
<1>10. ASSUME ~refuses PROVE TableHeld'
  <2>1. Size > 0
    BY <1>7, <1>10
  <2>2. SweepRowSays(row, Size, session.block, LongError)
    BY <1>8, <2>1 DEF SweepRowSays
  <2>3. SweepRowSays(table'[stage], session.sizes[stage - 5], session.block, LongError)
    BY <1>7, <1>9, <2>2
  <2> QED
    BY <1>1, <1>2, <1>3, <1>6, <2>3, TableGrows
<1>11. ~refuses /\ stage = Stages(session) => (Ascending => Rising(table'))
  BY <1>1
<1> HIDE DEF refuses
<1> QED
  BY <1>1, <1>10, <1>11, StageEnds

-----------------------------------------------------------------------------
(* The session *)

LEMMA BenchStart == ASSUME BenchmarkInit PROVE BenchInv
<1>1. /\ piece = "idle" /\ session \in Sessions /\ stage = 1 /\ samples = <<>> /\ table = <<>>
      /\ overhead = [short |-> 0, long |-> 0] /\ hurt = 0
  BY DEF BenchmarkInit
<1>2. stage \in 1 .. Stages(session)
  BY <1>1, SessionIs
<1>3. TableHeld
  <2>1. table \in Seq(BenchRows) /\ Len(table) = 0
    BY <1>1
  <2> QED
    BY <1>1, <2>1 DEF TableHeld
<1>4. SamplesHeld
  <2>1. Dirty = {} /\ Cardinality({}) = 0
    BY <1>1, FS_EmptySet DEF Dirty
  <2>2. Wanted \in Nat
    BY <1>1, StageMeans
  <2> QED
    BY <1>1, <2>1, <2>2 DEF SamplesHeld
<1>5. CallHeld
  BY <1>1 DEF CallHeld, ToldOne, Told
<1> QED
  BY <1>1, <1>2, <1>3, <1>4, <1>5 DEF BenchInv, Alive

LEMMA BenchStays == ASSUME BenchInv, UNCHANGED benchmarkVars PROVE BenchInv'
<1>1. /\ Still /\ hurt' = hurt /\ piece' = piece /\ fresh' = fresh /\ a' = a /\ b' = b
      /\ mode' = mode /\ bRuns' = bRuns /\ result' = result
      /\ session' = session /\ stage' = stage /\ samples' = samples /\ table' = table
  BY DEF benchmarkVars, timers, host, Still
<1>2. CASE piece \in Alive
  <2>1. Alive' = Alive /\ Wrapper' = Wrapper /\ CleanCost' = CleanCost /\ Wanted' = Wanted
        /\ Costs' = Costs /\ Dirty' = Dirty /\ \A c : Shown(c)' = Shown(c)
    BY <1>1, HostStays
  <2>2. Reading' = Reading
    BY <1>1, <2>1 DEF Reading, ShortReading, LongReading
  <2>3. \A c : Counted(c)' <=> Counted(c)
    BY <1>1, <2>1, <2>2 DEF Counted, CountsA, CountsB
  <2>4. (Spare' <=> Spare) /\ (ToldOne' <=> ToldOne)
    BY <1>1, <2>1 DEF Spare, ToldOne
  <2>5. CallHeld
    BY <1>2, CallIs
  <2>6. CallHeld'
    BY <1>1, <2>1, <2>3, <2>4, <2>5 DEF CallHeld
  <2> QED
    BY <1>1, <1>2, <2>1, <2>6, CallSteps
<1>3. CASE piece \notin Alive
  <2>1. session' \in Sessions /\ Alive' = Alive
    BY <1>1, HostStays DEF BenchInv
  <2>2. TableHeld => TableHeld'
    BY <1>1, TableStays
  <2>3. (Ascending' <=> Ascending) /\ (Rising(table)' <=> Rising(table))
    BY <1>1 DEF Ascending, Rising
  <2>4. Stages(session)' = Stages(session)
    BY <1>1 DEF Stages
  <2> QED
    BY <1>1, <1>3, <2>1, <2>2, <2>3, <2>4 DEF BenchInv
<1> QED
  BY <1>2, <1>3

LEMMA BenchSteps == ASSUME BenchInv, [BenchmarkNext]_benchmarkVars PROVE BenchInv'
<1>1. CASE ShortStart \/ ShortCall \/ ShortLow \/ ShortRestore
  BY <1>1, ShortStarts, ShortCalls, ShortLows, ShortRestores
<1>2. CASE LongSave \/ LongStart \/ LongCall \/ LongStopA \/ LongStopB \/ LongRead \/ LongRestore
  BY <1>2, LongStarts, LongCalls, LongStopAs, LongStopBs, LongReadings, LongRestores
<1>3. CASE Enter \/ Lost \/ TakeSample
  BY <1>3, Enters, Losts, SampleTaken
<1>4. CASE Calibrated
  <2>1. stage = 1 \/ stage = 2
    <3>1. Calibrates /\ stage \in Nat /\ stage > 0
      BY <1>4, Complete DEF Calibrated
    <3>2. stage <= 2
      BY <3>1, StageMeans
    <3> QED
      BY <3>1, <3>2
  <2> QED
    BY <1>4, <2>1, ShortCalibrated, LongCalibrated
<1>5. CASE Verified \/ Tabled \/ LongTabled \/ SweepRow
  BY <1>5, Verifies, RoutineTables, LongTables, Sweeps256
<1>6. CASE UNCHANGED benchmarkVars
  BY <1>6, BenchStays
<1> QED
  BY <1>1, <1>2, <1>3, <1>4, <1>5, <1>6 DEF BenchmarkNext

\* What a printed session says.
LEMMA BenchPrinted ==
  ASSUME BenchInv, piece = "printed"
  PROVE  /\ session \in Sessions /\ stage = 6 + Len(session.sizes) /\ Len(session.sizes) \in Nat
         /\ TableHeld /\ Len(table) = 5 + Len(session.sizes)
         /\ session.sizes # <<>> /\ Ascending => Rising(table)
<1>1. /\ session \in Sessions /\ stage = Stages(session) + 1 /\ TableHeld
      /\ session.sizes # <<>> /\ Ascending => Rising(table)
  BY DEF BenchInv
<1> QED
  BY <1>1, SessionIs DEF TableHeld

LEMMA ShortRowHolds == ASSUME BenchInv PROVE ShortRowAccounted
<1> SUFFICES ASSUME piece = "printed"
             PROVE  /\ ShortError \in 0 .. 4 /\ (table[1].hurt = 0 => ShortError = 0)
                    /\ ShortRowSays(table[4], session.bench, ShortError)
  BY DEF ShortRowAccounted, ShortRowSays
<1> QED
  BY BenchPrinted DEF TableHeld, ShortRow

LEMMA LongRowHolds == ASSUME BenchInv PROVE LongRowExact
BY BenchPrinted DEF TableHeld, LongRowExact

LEMMA RowIn ==
  ASSUME table \in Seq(BenchRows), NEW k \in 6 .. Len(table)
  PROVE  table[k].median \in Int /\ table[k].hurt \in Nat
<1>1. table[k] \in BenchRows
  OBVIOUS
<1> QED
  BY <1>1 DEF BenchRows

\* Rows that rise from one to the next rise.
LEMMA Climbs ==
  ASSUME table \in Seq(BenchRows), Rising(table),
         NEW j \in 6 .. Len(table), NEW i \in 6 .. Len(table), j < i
  PROVE  table[j].median < table[i].median
<1>1. \A k \in 6 .. Len(table) : table[k].median \in Int
  BY RowIn
<1> DEFINE T == {d \in Nat : j + 1 + d <= Len(table) => table[j].median < table[j + 1 + d].median}
<1>2. 0 \in T
  BY DEF Rising
<1>3. ASSUME NEW d \in Nat, d \in T PROVE d + 1 \in T
  <2> SUFFICES ASSUME j + 1 + (d + 1) <= Len(table)
               PROVE  table[j].median < table[j + 1 + (d + 1)].median
    OBVIOUS
  <2>1. table[j].median < table[j + 1 + d].median
    BY <1>3
  <2>2. j + 1 + d \in 6 .. Len(table) - 1 /\ (j + 1 + d) + 1 = j + 1 + (d + 1)
    OBVIOUS
  <2>3. table[j + 1 + d].median < table[j + 1 + (d + 1)].median
    BY <2>2 DEF Rising
  <2>4. j + 1 + (d + 1) \in 6 .. Len(table) /\ j + 1 + d \in 6 .. Len(table)
    OBVIOUS
  <2>5. /\ table[j].median \in Int /\ table[j + 1 + d].median \in Int
        /\ table[j + 1 + (d + 1)].median \in Int
    BY <1>1, <2>4
  <2> QED
    BY <2>1, <2>3, <2>5
<1> HIDE DEF T
<1>4. Nat \subseteq T
  BY <1>2, <1>3, Induct
<1>5. i - j - 1 \in T /\ j + 1 + (i - j - 1) = i
  BY <1>4
<1> QED
  BY <1>5 DEF T

LEMMA SweepHolds == ASSUME BenchInv PROVE SweepHonest
<1> SUFFICES ASSUME piece = "printed", NEW i \in 1 .. Len(session.sizes)
             PROVE  /\ session.sizes[i] > 0
                    /\ MostlyClean(table[5 + i]) /\ session.sizes[i] <= 256 =>
                         table[5 + i].median = StubHead + session.sizes[i] * session.block - LongError
                    /\ \A j \in 1 .. i - 1 :
                         (Ascending /\ session.sizes[j] = 256) => table[5 + i].hurt + table[5 + j].hurt > 0
  BY DEF SweepHonest
<1>1. /\ session \in Sessions /\ TableHeld /\ stage = 6 + Len(session.sizes)
      /\ Len(table) = 5 + Len(session.sizes) /\ Len(session.sizes) \in Nat
      /\ session.sizes # <<>> /\ Ascending => Rising(table)
  BY BenchPrinted
<1>2. session.sizes \in Seq(Nat) /\ session.block \in Nat
  BY <1>1, SessionIs
<1>3. \A k \in 1 .. Len(session.sizes) :
        SweepRowSays(table[5 + k], session.sizes[k], session.block, LongError)
  <2> SUFFICES ASSUME NEW k \in 1 .. Len(session.sizes)
               PROVE  SweepRowSays(table[5 + k], session.sizes[k], session.block, LongError)
    OBVIOUS
  <2>1. k \in 1 .. stage - 6
    BY <1>1
  <2> QED
    BY <1>1, <2>1 DEF TableHeld, SweepRowRight
<1>4. session.sizes[i] > 0 /\ session.sizes[i] \in Nat
  BY <1>2, <1>3 DEF SweepRowSays
<1>5. ASSUME MostlyClean(table[5 + i]), session.sizes[i] <= 256
      PROVE  table[5 + i].median = StubHead + session.sizes[i] * session.block - LongError
  <2>1. Blocks(session.sizes[i]) = session.sizes[i]
    BY <1>4, <1>5, <1>2, BlocksCost
  <2>2. table[5 + i].median = StubHead + Blocks(session.sizes[i]) * session.block - LongError
    BY <1>3, <1>5 DEF SweepRowSays
  <2> QED
    BY <2>1, <2>2
<1>6. ASSUME NEW j \in 1 .. i - 1, Ascending, session.sizes[j] = 256
      PROVE  table[5 + i].hurt + table[5 + j].hurt > 0
  <2>1. j \in 1 .. Len(session.sizes) /\ 5 + i \in 6 .. Len(table) /\ 5 + j \in 6 .. Len(table) /\ 5 + j < 5 + i
    BY <1>1
  <2>2. table \in Seq(BenchRows)
    BY <1>1 DEF TableHeld
  <2>3. session.sizes # <<>>
    BY <1>1, <1>2
  <2>4. table[5 + j].median < table[5 + i].median
    <3>1. Rising(table)
      BY <1>1, <1>6, <2>3
    <3>2. \A x, y \in 6 .. Len(table) : x < y => table[x].median < table[y].median
      BY <2>2, <3>1, Climbs
    <3> QED
      BY <2>1, <3>2
  <2>5. /\ table[5 + i].hurt \in Nat /\ table[5 + j].hurt \in Nat
        /\ table[5 + i].median \in Int /\ table[5 + j].median \in Int
    BY <2>1, <2>2, RowIn
  <2> SUFFICES ASSUME ~ (table[5 + i].hurt + table[5 + j].hurt > 0) PROVE FALSE
    OBVIOUS
  <2>6. table[5 + i].hurt = 0 /\ table[5 + j].hurt = 0
    BY <2>5
  <2>7. MostlyClean(table[5 + i]) /\ MostlyClean(table[5 + j])
    BY <2>6, SamplesAssumption DEF MostlyClean
  <2>8. PICK m \in Nat : m = Blocks(session.sizes[i]) * session.block /\ m <= 256 * session.block
    BY <1>2, <1>4, BlocksCost
  <2>9. Blocks(256) = 256
    BY BlocksCost
  <2>10. table[5 + i].median = StubHead + m - LongError
    BY <1>3, <2>7, <2>8 DEF SweepRowSays
  <2>11. table[5 + j].median = StubHead + 256 * session.block - LongError
    BY <1>3, <1>6, <2>1, <2>7, <2>9 DEF SweepRowSays
  <2>12. LongError \in Int
    BY <1>1 DEF TableHeld
  <2> QED
    BY <1>2, <2>4, <2>8, <2>10, <2>11, <2>12 DEF StubHead
<1> QED
  BY <1>4, <1>5, <1>6

LEMMA BenchSafe == BenchmarkSpec => []BenchInv
<1>1. BenchmarkInit => BenchInv
  BY BenchStart
<1>2. BenchInv /\ [BenchmarkNext]_benchmarkVars => BenchInv'
  BY BenchSteps
<1> QED
  BY <1>1, <1>2, PTL DEF BenchmarkSpec

\* The row of a single routine: for every session and whatever the video
\* chip takes, a printed median of samples most of which nothing disturbed is
\* warned about or short by the error of the calibration, and by one page more
\* exactly when the timer's two halves tear.
THEOREM ShortRowSafety == BenchmarkSpec => []ShortRowAccounted
<1>1. BenchInv => ShortRowAccounted
  BY ShortRowHolds
<1> QED
  BY <1>1, BenchSafe, PTL

\* The row of a long routine is right for any number of periods of timer A
\* that timer B can count.
THEOREM LongRowSafety == BenchmarkSpec => []LongRowExact
<1>1. BenchInv => LongRowExact
  BY LongRowHolds
<1> QED
  BY <1>1, BenchSafe, PTL

\* The rows of the sweep count the blocks they say, and a printed sweep that
\* ascends hides no wrapped count.
THEOREM SweepSafety == BenchmarkSpec => []SweepHonest
<1>1. BenchInv => SweepHonest
  BY SweepHolds
<1> QED
  BY <1>1, BenchSafe, PTL
=============================================================================
