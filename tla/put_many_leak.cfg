SPECIFICATION Spec
CONSTANTS
  Calls = {"putMany"}
  Cap = 2
  MaxDocs = 2
  MaxItems = 2
  Throws = FALSE
INVARIANTS
  NothingLeft
