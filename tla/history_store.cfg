\* Failing file operations, and a crash between any two of them.
SPECIFICATION Spec
CONSTANTS
  Sessions = {r1, r2}
  Limits <- SmallLimits
  InitialLimit = 1
  Resolution = 2
  MaxEntries = 3
  MaxClock = 5
  MaxFailures = 2
  MaxCrashes = 2
  CrashesInSave = TRUE
INVARIANT NothingForgotten
INVARIANT OneEntryPerRequest
INVARIANT AckedIsDurable
PROPERTY TagNamesList
\* The bounds end every behaviour.
CHECK_DEADLOCK FALSE
