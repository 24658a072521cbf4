SPECIFICATION FairSpec
CONSTANTS
  Counts <- MCCounts
  Modulus = 8
  Values <- MCValues
  Junk = Junk
  Confs <- AnyUse
  MaxBodies = 12
INVARIANTS
  TypeOK
  StackBalanced
  ExactlyCountIterations
  RegistersRestored
  CallerUndisturbed
  TracedWithinCount
PROPERTY
  Completes
