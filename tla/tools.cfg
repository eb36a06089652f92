SPECIFICATION Spec
CONSTANTS
  Invokes <- MCInvokes
  Texts <- MCTexts
  MaxChunk <- MCMaxChunk
INVARIANT StreamedCallsAreParsed
INVARIANT ExamplesStayText
INVARIANT HeldOnlyForMarkup
CHECK_DEADLOCK FALSE
