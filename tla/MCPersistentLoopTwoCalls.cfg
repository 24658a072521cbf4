SPECIFICATION Spec
CONSTANTS
  Counts <- MCCounts
  Modulus = 8
  Values <- MCValues
  Junk = Junk
  Confs <- TwoCalls
  MaxBodies = 12
INVARIANT CountHonoured
