SPECIFICATION Spec
CONSTANTS
  p1 = p1
  p2 = p2
  NoPid = NoPid
  Pids <- MCPids
  Modes <- SharedmemModes
  MaxCnt = 2
  MaxExecs = 3
INVARIANT HookReceivesCurrentTestcase
