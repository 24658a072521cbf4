SPECIFICATION Spec
CONSTANTS
  p1 = p1
  p2 = p2
  NoPid = NoPid
  Pids <- MCPids
  Modes <- AnyModes
  MaxCnt = 2
  MaxExecs = 3
INVARIANTS
  TypeOK
  OneChild
  WaitsForOwnChild
  OrphanCauses
  AnswersInStep
  MutualWaitCauses
PROPERTIES
  StrayKills
