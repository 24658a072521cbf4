SPECIFICATION Spec
CONSTANTS
  Address <- MCAddress
  Outside = Outside
  Cfgs <- MCCfgs
INVARIANTS
  TypeOK
  InOneGroup
  GroupsAreChains
  JumpsAreRecorded
  EveryBlockGroupedIfClosed
