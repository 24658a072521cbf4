SPECIFICATION Spec
CONSTANTS
  s1 = s1
  s2 = s2
  s3 = s3
  None = None
  Strings <- MCStrings
  Sources <- MCSources
  Plain <- MCPlain
  Newlines <- MCNewlines
  Escapes <- MCEscapes
  Width = 4
  TableSize = 12
  Base = 3
INVARIANTS
  TypeOK
  FilesAreFunctions
  InsertedInOrder
  StringsDefinedOnce
  MisalignmentCauses
