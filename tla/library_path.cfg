SPECIFICATION Spec
CONSTANTS
  Jvm = {j1}
  v1 = v1
  v2 = v2
  Version = {v1}
  Size <- OneLength
  Abi <- SameAbi
  Links <- AllLink
  None = None
  Worlds <- Plain
SYMMETRY Symmetry
INVARIANTS
  PathSuffices
