SPECIFICATION Spec
CONSTANTS
  Width = 2
  Modulus = 8
  Tops <- MCTops
  MaxVisits = 4
INVARIANT FlagsPreserved
