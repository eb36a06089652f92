\* One request, streamed or not, of which every operation may fail.
SPECIFICATION Spec
CONSTANTS
  Accounts = {a1, a2, a3}
  Direct = Direct
  Answers <- MCAnswers
  MaxAttempts = 2
  RetryMax = 1
  MaxPolls = 2
  InputFiles <- MCInputFiles
  AutoDeleteMode = "single"
INVARIANT OneOutcome
INVARIANT StaysWithItsAccount
PROPERTY OnlyEmptyAnswersRetried
PROPERTY RequestEnds
CHECK_DEADLOCK FALSE
