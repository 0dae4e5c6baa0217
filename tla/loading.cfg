SPECIFICATION Spec
CONSTANTS
  Jvm = {j1, j2}
  v1 = v1
  v2 = v2
  Version = {v1, v2}
  Size <- Lengths
  Abi <- SameAbi
  Links <- AllLink
  None = None
  Worlds <- AllWorlds
SYMMETRY Symmetry
INVARIANTS
  TypeOK
  OwnPairAlone
  ClasspathSuffices
PROPERTIES
  LoadAdvances
