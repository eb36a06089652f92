\* One streamed answer, continued once, that may break off or be abandoned.
SPECIFICATION Spec
CONSTANTS
  MinSnapshot = 2
  Kinds = {"opening", "text", "unthink", "incomplete", "finished", "done", "replay"}
  MaxLines = 4
  MaxRounds = 1
  ScanCap = 1
  OutCap = 1
  MinChars = 2
  MaxKeepAliveNoInput = 1
  IdleTicks = 0
  ThinkingEnabled = TRUE
  MayFail = TRUE
  MayCancel = TRUE
INVARIANT DeliveredInOrder
INVARIANT StreamingMatchesCollect
INVARIANT EndIsToldAsItWas
PROPERTY EveryGoroutineEnds
