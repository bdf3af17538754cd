------------------------------ MODULE ScratchGate ------------------------------
(***************************************************************************)
(* src/tools/check_scratch_prefix.py: every scratch tree a tool mints in   *)
(* the repository has a name that `make clean' sweeps.                     *)
(*                                                                         *)
(* A line of a tool that binds a variable to a scratch path, or makes a    *)
(* tree, is its form, the variable and the constant prefix of the path;    *)
(* the regular expressions of the gate are sets of forms.  A name is a     *)
(* sequence of parts, with a dot as a part of its own.  After the gate a   *)
(* run of a tool may be killed, and `make clean' sweeps.                   *)
(***************************************************************************)
EXTENDS Integers, Sequences, SequencesExt

CONSTANTS
  Expected,    \* EXPECTED_SITES: for each tool the names it binds
  Tools,       \* the lines of each tool to begin with
  Lines,       \* for each tool, lines an edit may add to it
  Patterns,    \* what an edit may make of SCRATCH_TREES
  MaxChanges   \* bound on edits

VARIABLES
  tools,       \* for each tool its lines
  trees,       \* SCRATCH_TREES: patterns [stem, star]
  narrowed,    \* forms that the gate's patterns no longer match
  changes,     \* edits made
  scanned,     \* the gate's verdict: "none", "passed", "died"
  left,        \* trees that killed runs left: [tool, made]
  swept        \* make clean ran after the last killed run

scratchVars == <<tools, trees, narrowed, changes, scanned, left, swept>>

\* Forms that bind at the start of a line, and those scan_text knows.
Known == {"mktemp -d", "mktemp -p", "mkdtemp", "ROOT /", "by hand", "local mktemp -d"}
Plainly == {"mktemp", "command"}
Rebinding == {"printf -v", "read", "eval", ":=", "mapfile"}
Comment == "comment"
Elsewhere == "elsewhere"    \* after a semicolon, `with ... as' and the like

Python(tool) == tool = "check_footprints.py"

\* Forms in which a tool's lines bind: what rebinds in a shell is no Python.
Forms(tool) ==
  Known \cup Plainly \cup {Comment, Elsewhere} \cup (IF Python(tool) THEN {} ELSE Rebinding)

\* Lines a tool may have: its own, and those an edit may add.
Written(tool) == Lines[tool] \cup {Tools[tool][i] : i \in DOMAIN Tools[tool]}

ASSUME ScratchAssumption ==
  /\ DOMAIN Expected = DOMAIN Tools
  /\ Tools = [tool \in DOMAIN Tools |-> Tools[tool]]
  /\ \A tool \in DOMAIN Tools :
       /\ Tools[tool] \in Seq(Written(tool)) /\ "" \notin Expected[tool]
       /\ \A line \in Written(tool) : line.form \in Forms(tool) \/ line.var = ""

\* scan_text: the sites of a tool, as indices of its lines.
Sites(tool) == {i \in DOMAIN tools[tool] : tools[tool][i].form \in Known \ narrowed}

\* _assigned: the name a site is seen to bind.
Assigned(site) == IF site.form = "local mktemp -d" THEN "" ELSE site.var

\* Variant: only plain assignments bind.
AssignmentsPlain(tool, name) ==
  {i \in DOMAIN tools[tool] : LET at == tools[tool][i] IN
     at.var = name /\ at.form \in Known \cup Plainly}

\* assignments: the lines that bind name.
Assignments(tool, name) ==
  {i \in DOMAIN tools[tool] : LET at == tools[tool][i] IN
     /\ at.var = name
     /\ at.form \in Known \cup Plainly \cup (IF Python(tool) THEN {} ELSE Rebinding \ narrowed)}

WithoutDot(prefix) == IF prefix # <<>> /\ Last(prefix) = "." THEN Front(prefix) ELSE prefix

\* covered
Covered(prefix) ==
  \E i \in DOMAIN trees : IF trees[i].star THEN IsPrefix(trees[i].stem, prefix)
                                           ELSE trees[i].stem = WithoutDot(prefix)

\* SELFTEST_FIXTURES and ASSIGN_FIXTURES: two forms have none.
Fixtures == (Known \cup Rebinding) \ {"ROOT /", "mapfile"}

\* selftest: every form of the fixtures is seen, an unswept prefix is not covered.
Control == narrowed \cap Fixtures = {} /\ ~Covered(<<"unswept-selftest", ".">>)

NamesSeen(tool) == {Assigned(tools[tool][i]) : i \in Sites(tool)}

Accepts ==
  /\ trees # <<>> /\ Control
  /\ \E tool \in DOMAIN tools : Sites(tool) # {}
  /\ \A tool \in DOMAIN Expected : \A name \in Expected[tool] :
       /\ name \in NamesSeen(tool)
       /\ \E i \in Sites(tool) :
            /\ Assignments(tool, name) = {i}
            /\ Assigned(tools[tool][i]) = name
  /\ \A tool \in DOMAIN tools : \A i \in Sites(tool) : Covered(tools[tool][i].prefix)

-----------------------------------------------------------------------------
ScratchInit ==
  /\ tools = Tools
  /\ trees = <<[stem |-> <<"build-scratch", ".">>, star |-> TRUE]>>
  /\ narrowed = {} /\ changes = 0 /\ scanned = "none" /\ left = {} /\ swept = FALSE

\* A line is added, or put in the place of another, or removed.
EditTool ==
  /\ scanned = "none" /\ changes < MaxChanges
  /\ changes' = changes + 1
  /\ \E tool \in DOMAIN tools, over \in 0 .. 1 : \E at \in 1 .. Len(tools[tool]) + 1 - over :
     \E new \in {<<l>> : l \in Lines[tool]} \cup {<<>>} :
       tools' = [tools EXCEPT ![tool] =
                   SubSeq(@, 1, at - 1) \o new \o SubSeq(@, at + over, Len(@))]
  /\ UNCHANGED <<trees, narrowed, scanned, left, swept>>

EditTrees ==
  /\ scanned = "none" /\ changes < MaxChanges
  /\ changes' = changes + 1 /\ trees' \in Patterns
  /\ UNCHANGED <<tools, narrowed, scanned, left, swept>>

\* A pattern of the gate itself is edited.
NarrowPattern ==
  /\ scanned = "none" /\ changes < MaxChanges
  /\ changes' = changes + 1
  /\ \E form \in Known \cup Rebinding : narrowed' = narrowed \cup {form}
  /\ UNCHANGED <<tools, trees, scanned, left, swept>>

\* check_scratch_prefix.py
ScanTools ==
  /\ scanned = "none"
  /\ scanned' = IF Accepts THEN "passed" ELSE "died"
  /\ UNCHANGED <<tools, trees, narrowed, changes, left, swept>>

\* mktemp and mkdtemp make a tree where they stand; a name made by hand is
\* used by what follows, with the value its variable was given last.
Makes(tool, i) ==
  LET at == tools[tool][i] IN
  /\ at.form # Comment
  /\ \/ at.form \in Known \ {"by hand", "ROOT /"} \/ at.form = "mktemp" \/ at.var = ""
     \/ \A j \in i + 1 .. Len(tools[tool]) :
          tools[tool][j].var # at.var \/ tools[tool][j].form = Comment

\* SIGKILL: no trap removes what the run has made.
KillTool ==
  /\ scanned = "passed" /\ left = {}
  /\ \E tool \in DOMAIN tools :
       left' = {[tool |-> tool, made |-> tools[tool][i]] :
                i \in {j \in DOMAIN tools[tool] : Makes(tool, j)}}
  /\ swept' = FALSE
  /\ UNCHANGED <<tools, trees, narrowed, changes, scanned>>

\* A per-run name is longer than its prefix, so only a starred pattern matches.
SweepTrees ==
  /\ left # {} /\ ~swept
  /\ left' = {l \in left : ~\E i \in DOMAIN trees :
                trees[i].star /\ IsPrefix(trees[i].stem, l.made.prefix)}
  /\ swept' = TRUE
  /\ UNCHANGED <<tools, trees, narrowed, changes, scanned>>

ScratchNext == EditTool \/ EditTrees \/ NarrowPattern \/ ScanTools \/ KillTool \/ SweepTrees

ScratchSpec == ScratchInit /\ [][ScratchNext]_scratchVars

-----------------------------------------------------------------------------
(* After the gate has passed, a killed run and `make clean', nothing of a  *)
(* site in a known form is left, and no variable the gate expects points   *)
(* at a tree that is left, whatever was rebound or put beside it as a      *)
(* decoy, and whatever pattern with a fixture was narrowed; except for a   *)
(* binding that is not at the start of its line, and if SCRATCH_TREES has  *)
(* a pattern without a star (check_scratch_prefix.py:101-123, 156-180,     *)
(* 210-214, 239, 283-322, 357-375).                                        *)
OnlyHiddenLeft ==
  (swept /\ narrowed \subseteq Fixtures /\ \A i \in DOMAIN trees : trees[i].star) =>
    \A l \in left :
      \/ l.made.form = Elsewhere
      \/ l.made.form \notin Known /\ l.made.var \notin Expected[l.tool]
=============================================================================
