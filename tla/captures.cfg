SPECIFICATION Spec
CONSTANTS
  Chats = {c1, c2}
  Savers = {s1, s2}
  Names = {"n"}
  Limit = 2
  MaxBody = 1
  MaxCaptures = 3
  MaxClock = 1
  MaxCrashes = 1
SYMMETRY Symmetry
INVARIANT CapturedOnce
INVARIANT SamplesAreFaithful
PROPERTY SamplesStay
CHECK_DEADLOCK FALSE
