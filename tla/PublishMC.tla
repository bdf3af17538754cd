------------------------------ MODULE PublishMC ------------------------------
(* One edit: a command that writes or only mentions a tracked file, bare,   *)
(* in every nesting of quotes and substitutions two deep, joined to        *)
(* another, in a comment, in a heredoc, or split over two lines.           *)
EXTENDS PublishGate

Cmds == {<<"echo", Notes>>, <<"grep", Notes>>, <<"cp", Notes, NotesTmp>>, <<"cp", Temp, Notes>>,
         <<"cp", Notes, Out>>, <<"tee", BareNotes>>, <<"echo", "x", ">", Notes>>,
         NotesRename, OutRename, <<"make">>}
Quotes == {<<>>, <<DQ>>, <<SQ>>, <<DQ, SQ>>, <<SQ, DQ>>}
Runs(q) == q = <<>> \/ q[1] = DQ
InWord(q, open, close, l) ==
  Line(<<"echo">> \o q \o <<open>> \o l.text \o <<close>> \o Reverse(q),
       IF Runs(q) /\ (open = ">(" => q = <<>>) THEN l.runs \cup {<<"echo">>} ELSE {<<"echo">>})
Nested == {InWord(q, o[1], o[2], Plain(c)) : q \in Quotes, c \in Cmds,
           o \in {<<"$(", ")">>, <<"tick", "tick">>, <<">(", ")">>}}
Deeper == {InWord(q, "$(", ")", InWord(r, "$(", ")", Plain(c))) :
           q \in {<<>>, <<DQ>>}, r \in Quotes, c \in Cmds}
Joined == {Line(a \o <<";">> \o b, {a, b}) : a \in Cmds, b \in Cmds}
          \cup {Inert(<<"echo", DQ>> \o a \o <<";">> \o b \o <<DQ>>) : a \in Cmds, b \in Cmds}
          \cup {Line(<<"[[", Notes, ";", "x", "]]", ";">> \o a, {a}) : a \in Cmds}
MCEdits ==
  {<<>>} \cup {<<l>> : l \in {Plain(c) : c \in Cmds} \cup Nested \cup Deeper \cup Joined}
  \cup {<<Inert(<<"#">> \o c)>> : c \in Cmds}
  \cup {<<Plain(<<"python3", o>>), Inert(c), Inert(<<"PY">>)>> : o \in {"<<'PY'", "<<PY"}, c \in Cmds}
  \cup {<<Line(<<"echo", DQ, "$(", "cp", Temp>>, {<<"cp", Temp, Notes>>}), Inert(<<Notes, ")", DQ>>)>>}
=============================================================================
