SPECIFICATION FairSpec
CONSTANTS
  p1 = p1
  p2 = p2
  NoPid = NoPid
  Pids <- MCPids
  Modes <- ServedModes
  MaxCnt = 2
  MaxExecs = 3
INVARIANTS
  WrittenOffChildIsDead
  RunsOnlyWhenAsked
  TraceBelongsToTestcase
  TargetGoesOn
PROPERTIES
  ImplementsRunService
  TermHonoured
