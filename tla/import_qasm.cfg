SPECIFICATION Spec
CONSTANTS
  Programs <- MCPrograms
  Versions2 <- MCVersions2
  Name <- MCName
  Keyword <- MCKeyword
  Whole = Whole
  Malformed = Malformed
  Wild = Wild
  Word = 8
  BodyLength = 2
INVARIANTS
  TypeOK
  RegistersTile
  StaysInsideAllocation
PROPERTIES
  ImplementsProgram
