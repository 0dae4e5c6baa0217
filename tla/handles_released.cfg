SPECIFICATION FairSpec
CONSTANTS
  Thread = {t1, t2}
  Object = {o1, o2, o3}
  Addr = {a1, a2}
  None = None
  Misuse = FALSE
  Throws = TRUE
INVARIANTS
  PredicatesAreOwned
  CallsCrossLive
  SpentAreInHands
PROPERTIES
  SpentIsReleased
  WalkedIsFreed
