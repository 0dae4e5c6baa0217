SPECIFICATION Spec
CONSTANTS
  Calls = {"store", "update", "putMany"}
  Cap = 2
  MaxDocs = 2
  MaxItems = 5
  Throws = TRUE
INVARIANTS
  TypeOK
  NothingLeftByC
  AcceptedIsDecodable
  DocumentsAreAll
