------------------------------ MODULE Release ------------------------------
(***************************************************************************)
(* tools/build_release.sh for one tag: check the tree, build the tarball   *)
(* in scratch space, then publish notes and tarball by renames.  Runs may  *)
(* overlap, die at any step, and have their scratch files swept by `make   *)
(* clean` (src/Makefile).                                                  *)
(*                                                                         *)
(* A tarball is the tree it was built from, so its size and hash name it;  *)
(* the Attestation of the notes is Placeholder or such a name.  The author *)
(* edits, tags and checks out only while no run is going: the script takes *)
(* no lock and reads the tree at several moments.                          *)
(***************************************************************************)
EXTENDS Naturals

CONSTANTS
  Run,               \* runs that may overlap
  Source, Body,      \* what is staged besides the notes; texts of the notes
  Releasable,        \* sources whose VERSION is the tag's
  Dated,             \* notes with a release date
  OneRow,            \* notes with one Attestation row of each kind
  Placeholder, Nil,
  MaxRuns, MaxEdits  \* bounds

Tarball == [src : Source, body : Body, att : {Placeholder}]

ASSUME ReleaseAssumption ==
  /\ Releasable \subseteq Source /\ Dated \subseteq Body /\ OneRow \subseteq Body
  /\ Placeholder \notin Tarball /\ Nil \notin Tarball \cup {Placeholder}
  /\ Nil \notin [src : Source, body : Body, stamp : Tarball]
  /\ MaxRuns \in Nat /\ MaxEdits \in Nat

VARIABLES
  src, body, att,   \* the working tree: sources, notes and their Attestation
  out,              \* the tarball beside them
  tag,              \* what the tag names, Nil before there is one
  pc,               \* next step of a run
  staged,           \* STAGE_DIR of a run
  outTmp,           \* build-scratch.release.$$.tar.gz, Nil when absent
  stamp,            \* SIZE and SHA of a run
  notesTmp,         \* Attestation in build-scratch.release.$$.notes.md, or Nil
  overridden,       \* history: a run went on over a drifted tree, warned
  restored,         \* history: the notes are checked out from the tag
  unfinished,       \* history: notes never stamped, or a run died publishing
  begun, edits

tree == <<src, body, att, out, tag>>
scratch == <<staged, outTmp, stamp, notesTmp>>
history == <<overridden, restored, unfinished>>
count == <<begun, edits>>
vars == <<tree, pc, scratch, history, count>>

Ended == {"off", "done", "refused", "dead"}
Publishing == {"out_mv", "stamp_cp", "stamp_mv"}
PC == Ended \cup Publishing
        \cup {"stage", "reset", "tar", "measure", "reset_cp", "reset_mv"}

\* The tarball of the tree as it stands: the notes inside are unstamped.
Tree == [src |-> src, body |-> body, att |-> Placeholder]

\* No run is going.
Quiet == \A r \in Run : pc[r] \in Ended

With(f, r, v) == [q \in Run |-> IF q = r THEN v ELSE f[q]]

Goto(r, label) == pc' = With(pc, r, label)

-----------------------------------------------------------------------------
Init ==
  /\ src \in Releasable /\ body \in Dated \cap OneRow
  /\ att = Placeholder /\ out = Nil /\ tag = Nil
  /\ pc = [r \in Run |-> "off"]
  /\ staged = [r \in Run |-> Nil] /\ outTmp = [r \in Run |-> Nil]
  /\ stamp = [r \in Run |-> Nil] /\ notesTmp = [r \in Run |-> Nil]
  /\ overridden = FALSE /\ restored = FALSE /\ unfinished = TRUE
  /\ begun = 0 /\ edits = 0

\* Variant: sources that changed since the tag are not compared.
DriftedNotesOnly == body # tag.body \/ att # tag.stamp

\* git diff and ls-files over the staged paths, the notes among them.
Drifted == src # tag.src \/ body # tag.body \/ att # tag.stamp

\* Variant: a git that fails reads as no drift.
GuardFailOpen(git, allow) ==
  tag = Nil \/ git \in {"absent", "broken"} \/ ~Drifted \/ allow

\* The tag-drift guard.  Without git it is inactive, and says so.
Guard(git, allow) ==
  tag = Nil \/ git = "absent" \/ (git = "ok" /\ (~Drifted \/ allow))

\* Without git the guard warns that it is inactive, with ALLOW_TAG_DRIFT that it
\* is overridden.
Warns(git, allow) == git = "absent" \/ allow

\* Every check before the scratch directory is made.
Begin(r, git, allow) ==
  /\ pc[r] \in Ended
  /\ begun < MaxRuns
  /\ begun' = begun + 1
  /\ IF src \in Releasable /\ Guard(git, allow) /\ body \in Dated
     THEN /\ Goto(r, "stage")
          /\ overridden' = (overridden \/ (tag # Nil /\ Drifted /\ Warns(git, allow)))
     ELSE Goto(r, "refused") /\ UNCHANGED overridden
  /\ outTmp' = With(outTmp, r, Nil) /\ notesTmp' = With(notesTmp, r, Nil)
  /\ UNCHANGED <<tree, staged, stamp, restored, unfinished, edits>>

Stage(r) ==
  /\ pc[r] = "stage"
  /\ staged' = With(staged, r, [src |-> src, body |-> body, att |-> att])
  /\ Goto(r, "reset")
  /\ UNCHANGED <<tree, outTmp, stamp, notesTmp, history, count>>

\* Variant: the reset and its refusal work on the notes of the tree.
ResetInPlace(r) ==
  /\ pc[r] = "reset"
  /\ att' = Placeholder
  /\ staged' = With(staged, r, [src |-> staged[r].src,
                 body |-> staged[r].body, att |-> Placeholder])
  /\ Goto(r, IF staged[r].body \in OneRow THEN "tar" ELSE "refused")
  /\ UNCHANGED <<src, body, out, tag, outTmp, stamp, notesTmp, history, count>>

\* Variant: the stamp of the run before stays in the staged notes.
ResetMissed(r) ==
  /\ pc[r] = "reset"
  /\ Goto(r, IF staged[r].body \in OneRow THEN "tar" ELSE "refused")
  /\ UNCHANGED <<tree, scratch, history, count>>

\* The placeholder reset of the staged notes; refuses on a count other than 1.
Reset(r) ==
  /\ pc[r] = "reset"
  /\ IF staged[r].body \in OneRow
     THEN /\ staged' = With(staged, r, [src |-> staged[r].src,
                              body |-> staged[r].body, att |-> Placeholder])
          /\ Goto(r, "tar")
     ELSE Goto(r, "refused") /\ UNCHANGED staged
  /\ UNCHANGED <<tree, outTmp, stamp, notesTmp, history, count>>

Tar(r) ==
  /\ pc[r] = "tar"
  /\ outTmp' = With(outTmp, r, staged[r])
  /\ Goto(r, "measure")
  /\ UNCHANGED <<tree, staged, stamp, notesTmp, history, count>>

\* SIZE, SHA and the stamped copy of the notes.
Measure(r) ==
  /\ pc[r] = "measure" /\ outTmp[r] # Nil
  /\ stamp' = With(stamp, r, outTmp[r])
  /\ Goto(r, "reset_cp")
  /\ UNCHANGED <<tree, staged, outTmp, notesTmp, history, count>>

\* Variant: the stamped notes are published before the tarball.
CopyResetStamped(r) ==
  /\ pc[r] = "reset_cp"
  /\ notesTmp' = With(notesTmp, r, stamp[r])
  /\ Goto(r, "reset_mv")
  /\ UNCHANGED <<tree, staged, outTmp, stamp, history, count>>

CopyReset(r) ==
  /\ pc[r] = "reset_cp"
  /\ notesTmp' = With(notesTmp, r, Placeholder)
  /\ Goto(r, "reset_mv")
  /\ UNCHANGED <<tree, staged, outTmp, stamp, history, count>>

\* mv NOTES_TMP NOTES_REL, in its two places.
RenameNotes(r) ==
  /\ notesTmp[r] # Nil
  /\ \/ pc[r] = "reset_mv" /\ Goto(r, "out_mv") /\ UNCHANGED unfinished
     \/ pc[r] = "stamp_mv" /\ Goto(r, "done") /\ unfinished' = FALSE
  /\ body' = staged[r].body /\ att' = notesTmp[r]
  /\ notesTmp' = With(notesTmp, r, Nil)
  /\ restored' = FALSE
  /\ UNCHANGED <<src, out, tag, staged, outTmp, stamp, overridden, count>>

RenameOut(r) ==
  /\ pc[r] = "out_mv" /\ outTmp[r] # Nil
  /\ out' = outTmp[r]
  /\ outTmp' = With(outTmp, r, Nil)
  /\ Goto(r, "stamp_cp")
  /\ UNCHANGED <<src, body, att, tag, staged, stamp, notesTmp, history, count>>

CopyStamped(r) ==
  /\ pc[r] = "stamp_cp"
  /\ notesTmp' = With(notesTmp, r, stamp[r])
  /\ Goto(r, "stamp_mv")
  /\ UNCHANGED <<tree, staged, outTmp, stamp, history, count>>

\* Whatever ends a run early while it publishes leaves the notes unfinished.
Cut(r) ==
  /\ Goto(r, "dead")
  /\ unfinished' = (unfinished \/ pc[r] \in Publishing)
  /\ UNCHANGED <<tree, staged, stamp, overridden, restored, count>>

\* A scratch file was swept: wc, shasum or mv fails, and set -e ends the run;
\* or a signal does.  The traps clean up.
Terminate(r) ==
  /\ pc[r] \notin Ended
  /\ outTmp' = With(outTmp, r, Nil) /\ notesTmp' = With(notesTmp, r, Nil)
  /\ Cut(r)

\* SIGKILL.
Kill(r) == pc[r] \notin Ended /\ Cut(r) /\ UNCHANGED <<outTmp, notesTmp>>

\* make clean sweeps build-scratch.*, whoever uses it.
Clean ==
  /\ \E r \in Run : outTmp[r] # Nil \/ notesTmp[r] # Nil
  /\ outTmp' = [r \in Run |-> Nil] /\ notesTmp' = [r \in Run |-> Nil]
  /\ UNCHANGED <<tree, pc, staged, stamp, history, count>>

-----------------------------------------------------------------------------
(* The author, between runs *)

EditSource(s) ==
  /\ Quiet /\ edits < MaxEdits
  /\ src' = s /\ edits' = edits + 1
  /\ UNCHANGED <<body, att, out, tag, pc, scratch, history, begun>>

EditNotes(b) ==
  /\ Quiet /\ edits < MaxEdits
  /\ body' = b /\ edits' = edits + 1
  /\ UNCHANGED <<src, att, out, tag, pc, scratch, history, begun>>

\* The tag is put on what a run just published.
PutTag ==
  /\ Quiet /\ tag = Nil /\ out = Tree /\ att = out
  /\ tag' = [src |-> src, body |-> body, stamp |-> att]
  /\ UNCHANGED <<src, body, att, out, pc, scratch, history, count>>

\* git checkout TAG -- NOTES, the remedy the script prints.
CheckoutNotes ==
  /\ Quiet /\ tag # Nil /\ edits < MaxEdits
  /\ body' = tag.body /\ att' = tag.stamp
  /\ restored' = TRUE /\ edits' = edits + 1
  /\ UNCHANGED <<src, out, tag, pc, scratch, overridden, unfinished, begun>>

-----------------------------------------------------------------------------
RunStep(r) ==
  \/ \E git \in {"ok", "absent", "broken"}, allow \in BOOLEAN : Begin(r, git, allow)
  \/ Stage(r) \/ Reset(r) \/ Tar(r) \/ Measure(r)
  \/ CopyReset(r) \/ RenameNotes(r) \/ RenameOut(r) \/ CopyStamped(r)
  \/ Terminate(r) \/ Kill(r)

Author ==
  \/ \E s \in Source : EditSource(s)
  \/ \E b \in Body : EditNotes(b)
  \/ PutTag \/ CheckoutNotes

Next == (\E r \in Run : RunStep(r)) \/ Clean \/ Author

Spec == Init /\ [][Next]_vars

-----------------------------------------------------------------------------
(* Properties *)

(* The types of the working tree, the scratch files and the histories.     *)
TypeOK ==
  /\ src \in Source /\ body \in Body /\ att \in Tarball \cup {Placeholder}
  /\ out \in Tarball \cup {Nil}
  /\ tag \in [src : Source, body : Body, stamp : Tarball] \cup {Nil}
  /\ pc \in [Run -> PC]
  /\ staged \in [Run -> [src : Source, body : Body, att : Tarball \cup {Placeholder}]
                          \cup {Nil}]
  /\ outTmp \in [Run -> Tarball \cup {Nil}]
  /\ stamp \in [Run -> Tarball \cup {Nil}]
  /\ notesTmp \in [Run -> Tarball \cup {Placeholder, Nil}]
  /\ overridden \in BOOLEAN /\ restored \in BOOLEAN /\ unfinished \in BOOLEAN
  /\ begun \in 0 .. MaxRuns /\ edits \in 0 .. MaxEdits

(* Whatever is killed or swept when, notes that carry an Attestation carry *)
(* that of the tarball beside them, unless they were just checked out from *)
(* the tag (build_release.sh:510-561).                                     *)
Attested == att # Placeholder /\ ~restored => att = out

(* Placeholder notes mean something: no stamp yet, a publish going on, or  *)
(* one that died.  A refused or a finished run never leaves them           *)
(* (build_release.sh:59-69, 267-290).                                      *)
Loud == att = Placeholder => unfinished \/ \E r \in Run : pc[r] \in Publishing

(* The released tarball and its Attestation stay what they were when the   *)
(* tag was put, until a run goes on after the warning of tag drift         *)
(* (build_release.sh:110-244).                                             *)
ReleasedStays ==
  tag # Nil /\ ~overridden => out = tag.stamp /\ att \in {Placeholder, tag.stamp}

(* A run that ends well leaves the tarball of the tree as it is, whatever  *)
(* was stamped before, with its Attestation (build_release.sh:10-17, 67).  *)
PublishStep ==
  \A r \in Run : pc[r] # "done" /\ pc'[r] = "done" => att' = out' /\ out' = Tree'

PublishedIsTree == [][PublishStep]_vars
=============================================================================
