SPECIFICATION Spec
CONSTANTS
  Options <- MCOptions
  Binaries <- MCBinaries
  Names <- MCNames
  Main <- MCMain
  DefaultCount = 10000
  Word = 65536
  None = None
INVARIANT AddressesHonoured
