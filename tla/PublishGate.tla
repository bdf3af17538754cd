------------------------------ MODULE PublishGate ------------------------------
(***************************************************************************)
(* src/tools/check_publish_atomic.py: build_release.sh writes its two      *)
(* tracked files only by renaming a finished temp over them.               *)
(*                                                                         *)
(* A line is a sequence of shell tokens.  A line of the editor is built    *)
(* together with the commands the shell runs in it, so that what the gate  *)
(* reads out of the text can be held against what happens.  One token      *)
(* stands for the quoted name of a file; names of other commands and       *)
(* files, options and messages are left out.                               *)
(***************************************************************************)
EXTENDS Integers, Sequences, SequencesExt, FiniteSets

CONSTANTS
  Edits,      \* what an edit puts into the script: sequences of lines
  MaxEdits    \* bound on edits

VARIABLES
  script,     \* lines: [text, runs]
  edits,      \* edits made
  line,       \* the gate's next line; 0 before the gate starts
  heredoc,    \* in_heredoc, or 0
  renames,    \* counts
  examined,
  violations, \* number of violations
  published   \* the gate's verdict: "none", "passed", "died"

publishVars == <<script, edits, line, heredoc, renames, examined, violations, published>>

\* Quotes and operators; ";" stands for && || ; and | .
SQ == "'"
DQ == "\""
Openers == {"$(", ">(", "<("}
Notes == "$NOTES_REL"
BareNotes == "${NOTES_REL}"
Out == "$OUT"
Tracked == {Notes, BareNotes, Out}
Temp == "$STAMPED"
NotesTmp == "$NOTES_TMP"
OutTmp == "$OUT_TMP"
NotesRename == <<"mv", NotesTmp, Notes>>
OutRename == <<"mv", OutTmp, Out>>

-----------------------------------------------------------------------------
(* What the gate reads out of a line *)

\* segments: simple commands, split at unquoted operators outside [[ ]].
Segments(text) ==
  LET Step(s, c) ==
        LET sq == IF c = SQ /\ ~s.dq THEN ~s.sq ELSE s.sq
            dq == IF c = DQ /\ ~s.sq THEN ~s.dq ELSE s.dq
            bare == ~sq /\ ~dq
            depth == CASE bare /\ c = "[[" -> s.depth + 1
                       [] bare /\ c = "]]" /\ s.depth > 0 -> s.depth - 1
                       [] OTHER -> s.depth
            cut == c = ";" /\ bare /\ depth = 0
        IN  [sq |-> sq, dq |-> dq, depth |-> depth,
             out |-> IF cut THEN Append(s.out, s.buf) ELSE s.out,
             buf |-> IF cut THEN <<>> ELSE Append(s.buf, c)]
      end == FoldLeft(Step, [sq |-> FALSE, dq |-> FALSE, depth |-> 0, out |-> <<>>, buf |-> <<>>], text)
  IN  SelectSeq(Append(end.out, end.buf), LAMBDA s : s # <<>>)

\* Where the substitution open at i ends, or past the line if nothing ends it.
RECURSIVE ClosedAt(_, _, _, _, _)
ClosedAt(text, i, depth, sq, dq) ==
  IF i > Len(text) \/ depth = 0 THEN IF depth = 0 THEN i - 1 ELSE i
  ELSE LET c == text[i] IN
       ClosedAt(text, i + 1,
                CASE ~sq /\ c \in Openers -> depth + 1
                  [] ~sq /\ c = ")" -> depth - 1
                  [] OTHER -> depth,
                IF c = SQ /\ ~dq THEN ~sq ELSE sq,
                IF c = DQ /\ ~sq THEN ~dq ELSE dq)

\* Variant: a backquote hides the rest of the line.
BackquoteUnseen(text, i) == 0

\* The backquote that ends the run opened before token i, or 0.
Backquote(text, i) == SelectInSubSeq(text, i, Len(text), LAMBDA c : c = "tick")

\* command_substitutions, those directly in text from token i on.
RECURSIVE Substitutions(_, _, _, _)
Substitutions(text, i, sq, dq) ==
  IF i > Len(text) THEN <<>>
  ELSE LET c == text[i]
           tick == Backquote(text, i + 1)
       IN
       IF c = SQ /\ ~dq THEN Substitutions(text, i + 1, ~sq, dq)
       ELSE IF c = DQ /\ ~sq THEN Substitutions(text, i + 1, sq, ~dq)
       ELSE IF ~sq /\ c \in Openers
       THEN LET end == ClosedAt(text, i + 1, 1, FALSE, FALSE)
            IN  <<SubSeq(text, i + 1, end - 1)>> \o Substitutions(text, end + 1, sq, dq)
       ELSE IF ~sq /\ c = "tick"
       THEN IF tick = 0 THEN <<>>
            ELSE <<SubSeq(text, i + 1, tick - 1)>> \o Substitutions(text, tick + 1, sq, dq)
       ELSE Substitutions(text, i + 1, sq, dq)

\* deep_segments
RECURSIVE DeepSegments(_)
DeepSegments(text) ==
  LET Below(out, inner) == out \o DeepSegments(inner)
      Deep(out, seg) == FoldLeft(Below, Append(out, seg), Substitutions(seg, 1, FALSE, FALSE))
  IN  FoldLeft(Deep, <<>>, Segments(text))

Mentions(seg) == \E i \in DOMAIN seg : seg[i] \in Tracked

Redirects(seg) == \E i \in 1 .. Len(seg) - 1 : seg[i] = ">" /\ seg[i + 1] \in Tracked

\* ALLOWED, each shape for the whole segment.
Allowed(seg) ==
  \/ seg[1] \in {"echo", "printf"} /\ Len(seg) > 1
  \/ seg[1] = "grep" /\ Len(seg) > 1 /\ ~Contains(seg, ">")
  \/ seg[1] = "[[" /\ Last(seg) = "]]"
  \/ seg[1] = "RELEASE_DATE=" /\ SubSeq(seg, 2, 4) = <<DQ, "$(", "grep">> /\ ~Contains(seg, ">")
  \/ Len(seg) > 2 /\ seg[1] = "cp" /\ seg[2] = Notes
  \/ seg \in {NotesRename, OutRename}

Required == [notes |-> 2, out |-> 1]

\* The renames among the segments of a line.
Counts(segs) ==
  LET Times(r) == Cardinality({i \in DOMAIN segs : segs[i] = r})
  IN  [notes |-> Times(NotesRename), out |-> Times(OutRename)]

Violates(seg) == Mentions(seg) /\ (Redirects(seg) \/ ~Allowed(seg))

Opens(text) == text # <<>> /\ Last(text) \in {"<<'PY'", "<<PY"}

-----------------------------------------------------------------------------
(* The self-test's lines *)

MustFlag ==
  {<<"echo", DQ, "$(", "cp", Temp, Notes, ")", DQ>>,
   <<"printf", DQ, "$(", "tee", Notes, ")", DQ>>,
   <<"cp", Temp, BareNotes>>,
   <<"install", Temp, Notes>>,
   <<"tee", Notes>>,
   <<"grep", Notes, ";", "cp", Temp, Notes>>,
   <<"echo", "publishing", ";", "cp", Temp, Notes>>,
   <<"cp", Notes, NotesTmp, ";", "cp", Temp, Notes>>,
   <<"echo", "done", ">", Notes>>,
   <<"echo", DQ, SQ, "$(", "cp", Temp, Notes, ")", SQ, DQ>>,
   <<"echo", "x", ">", ">(", "tee", Notes, ")">>,
   <<"sed", Notes>>, <<"perl", Notes>>, <<"python3", Notes>>, <<"dd", Notes>>}

MustPass ==
  {NotesRename, OutRename, <<"cp", Notes, NotesTmp>>,
   <<"RELEASE_DATE=", DQ, "$(", "grep", Notes, ";", "head", ")", DQ>>}

Flagged(text) == \E i \in DOMAIN DeepSegments(text) : Violates(DeepSegments(text)[i])

Selftest ==
  /\ \A text \in MustFlag : Flagged(text)
  /\ \A text \in MustPass : ~Flagged(text)
  /\ Counts(DeepSegments(<<"echo", SQ>> \o NotesRename \o <<SQ, ">", "/dev/null">>)) = [notes |-> 0, out |-> 0]

-----------------------------------------------------------------------------
(* The script and the gate that reads it *)

Line(text, runs) == [text |-> text, runs |-> runs]
Plain(c) == Line(c, {c})
Inert(text) == Line(text, {})

\* The lines of build_release.sh that matter here.
ReleaseScript ==
  <<Plain(<<"python3", "<<'PY'">>), Inert(<<"body">>), Inert(<<"PY">>),
    Plain(<<"cp", Notes, NotesTmp>>), Plain(NotesRename),
    Plain(OutRename),
    Plain(<<"cp", Temp, NotesTmp>>), Plain(NotesRename)>>

PublishInit ==
  /\ script = ReleaseScript /\ edits = 0
  /\ line = 0 /\ heredoc = 0 /\ renames = [notes |-> 0, out |-> 0]
  /\ examined = 0 /\ violations = 0 /\ published = "none"

\* Someone inserts lines, or puts them in the place of one.
EditScript ==
  /\ line = 0 /\ edits < MaxEdits
  /\ edits' = edits + 1
  /\ \E at \in DOMAIN script, new \in Edits, over \in 0 .. 1 :
       script' = SubSeq(script, 1, at - 1) \o new \o SubSeq(script, at + over, Len(script))
  /\ UNCHANGED <<line, heredoc, renames, examined, violations, published>>

\* main up to its loop: a gate whose self-test fails does not start.
StartGate ==
  /\ line = 0 /\ Selftest /\ line' = 1
  /\ UNCHANGED <<script, edits, heredoc, renames, examined, violations, published>>

Text == script[line].text

\* A line of a heredoc's body.
ReadBody ==
  /\ line \in DOMAIN script /\ heredoc # 0
  /\ heredoc' = IF Text = <<"PY">> THEN 0 ELSE heredoc
  /\ violations' = IF Text # <<"PY">> /\ Mentions(Text) THEN violations + 1 ELSE violations
  /\ line' = line + 1
  /\ UNCHANGED <<script, edits, renames, examined, published>>

\* Any other line; comments and blank lines are passed over.
ReadLine ==
  /\ line \in DOMAIN script /\ heredoc = 0
  /\ line' = line + 1
  /\ IF Text = <<>> \/ Text[1] = "#"
     THEN UNCHANGED <<heredoc, renames, examined, violations>>
     ELSE LET segs == DeepSegments(Text)
              among == Counts(segs)
          IN  /\ renames' = [notes |-> renames.notes + among.notes, out |-> renames.out + among.out]
              /\ examined' = examined + Cardinality({i \in DOMAIN segs : Mentions(segs[i])})
              /\ violations' = violations + Cardinality({i \in DOMAIN segs : Violates(segs[i])})
              /\ heredoc' = IF Opens(Text) THEN line ELSE 0
  /\ UNCHANGED <<script, edits, published>>

Verdict ==
  /\ line = Len(script) + 1 /\ published = "none"
  /\ published' = IF heredoc = 0 /\ examined > 0 /\ violations = 0 /\ renames = Required
                  THEN "passed" ELSE "died"
  /\ UNCHANGED <<script, edits, line, heredoc, renames, examined, violations>>

PublishNext == EditScript \/ StartGate \/ ReadBody \/ ReadLine \/ Verdict

-----------------------------------------------------------------------------
\* What the shell does to a tracked file other than by a publish rename.
InPlace(c) ==
  \/ Redirects(c)
  \/ c[1] \in {"cp", "mv", "install"} /\ Last(c) \in Tracked /\ c \notin {NotesRename, OutRename}
  \/ c[1] \in {"tee", "sed", "perl", "python3", "dd"} /\ Mentions(c)

\* Lines outside heredoc bodies.
Commands == UNION {script[i].runs : i \in DOMAIN script}
Renames(c) == Cardinality({i \in DOMAIN script : c \in script[i].runs})

\* A process substitution in double quotes is text to the shell.
QuotedProcess ==
  \E i \in DOMAIN script : \E q, p \in DOMAIN script[i].text :
     q < p /\ script[i].text[q] = DQ /\ script[i].text[p] = ">("

(* A script that passes performs the three publish renames, and no command *)
(* in it, however it is quoted, nested or joined, writes a tracked file in *)
(* place; two things the gate takes on trust are left out, the destination *)
(* of a copy of the notes and a process substitution in double quotes,     *)
(* which it counts although the shell does not run it.  And the script as  *)
(* it is passes (check_publish_atomic.py:95-120, 160-251, 277-305).        *)
PublishesByRename ==
  /\ published = "passed" =>
       /\ \A c \in Commands : InPlace(c) => c[1] = "cp" /\ c[2] = Notes
       /\ QuotedProcess \/ (Renames(NotesRename) = 2 /\ Renames(OutRename) = 1)
  /\ edits = 0 => published # "died"
=============================================================================
