SPECIFICATION Spec
CONSTANTS
  Thread = {t1}
  Db = {d1, d2, d3}
  None = None
  MaxCalls = 3
  Ops = {"write", "conditional", "auto", "update", "scan", "schema"}
\* A thread stops after MaxCalls calls.
CHECK_DEADLOCK FALSE
INVARIANTS
  ThrowsOrWrites
  RaisedIsThrown
  ErrorIsOfThisCall
  AbortIsReadable
  CallbacksRunClean
  ReturnedIsThrown
