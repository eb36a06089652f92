\* Every surface; three parts over the attempts of an answer.
SPECIFICATION Spec
CONSTANTS
  SurfaceNames = {"chat", "responses", "claude", "gemini"}
  Kinds = {"thought", "plan", "text", "space", "held", "block", "head", "tail"}
  MaxParts = 3
  MaxLine = 2
  RetryMax = 1
INVARIANT EndIsRecorded
INVARIANT AnswerIsTold
INVARIANT FramingIsKept
INVARIANT RetriedOnlyIfEmpty
CHECK_DEADLOCK FALSE
