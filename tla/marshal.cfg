SPECIFICATION Spec
CONSTANTS
  MaxCount = 3
  Throws = TRUE
INVARIANTS
  TypeOK
  FreesOwnCopies
  NothingLeft
  EngineOrException
