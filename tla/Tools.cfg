SPECIFICATION ToolsSpec
CONSTANTS
  Sessions <- MCSessions
  Samples = 3
  Stolen = {2, 40}
  MaxDisturbed = 2
  Edits <- MCEdits
  MaxEdits = 1
  Expected <- MCExpected
  Tools <- MCTools
  Lines <- MCLines
  Patterns <- MCPatterns
  MaxChanges = 2
  SegmentNames <- MCSegments
  RoFloor <- MCRoFloor
  Library <- MCLibrary
  MakeTargets <- MCMakeTargets
  ColdSegment = "PROFILE_CODE"
  Tweaks = 2
  Sweeps = 1
  Profiles = {"LONG", "SHORT"}
  Tables = {"htable", "aes_sbox", "reduce8"}
  Facts = {1, 2}
  Manifest <- MCManifest
  Documents <- MCDocuments
  Arms <- MCArms
  MaxDrifts = 1
  VectorFile <- MCVectorFile
  RandomLengths <- MCRandomLengths
  MaxFaults = 2
INVARIANTS
  ShortRowAccounted
  LongRowExact
  SweepHonest
  TimerBack
  PublishesByRename
  OnlyHiddenLeft
  DeclaredBoundsPlaced
  ConsumerGetsDocumented
  ReferenceVouched
CHECK_DEADLOCK FALSE
