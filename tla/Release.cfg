SPECIFICATION Spec
CONSTANTS
  r1 = r1
  r2 = r2
  Run = {r1, r2}
  Source = {now, changed, next}
  Body = {text, edited, undated, norow}
  Releasable = {now, changed}
  Dated = {text, edited, norow}
  OneRow = {text, edited, undated}
  Placeholder = Placeholder
  Nil = Nil
  MaxRuns = 3
  MaxEdits = 2
SYMMETRY RunSymmetry
INVARIANTS
  Attested
  Loud
  ReleasedStays
PROPERTIES
  PublishedIsTree
CHECK_DEADLOCK FALSE
