SPECIFICATION Spec
CONSTANTS
  Ops = {"str", "row", "hit", "group", "field", "page", "scan", "update", "value"}
  MaxItems = 6
  MaxDepth = 3
  FrameSize = 5
  Throws = TRUE
INVARIANTS
  TypeOK
  NullMeansEnd
  GivenIsWhole
  NothingHeld
  RefsFit
