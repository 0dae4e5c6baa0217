SPECIFICATION Spec
CONSTANTS
  Thread = {t1, t2}
  Object = {o1, o2, o3, o4}
  Addr = {a1, a2, a3}
  None = None
  Misuse = TRUE
  Throws = TRUE
SYMMETRY Symmetry
INVARIANTS
  TypeOK
  OwnersAreLive
  GuardedCallsCrossLive
  EngineHandlesAreOwned
  WalksHoldTheirCursor
PROPERTIES
  ImplementsLifecycle
  HandsLetGoReleased
