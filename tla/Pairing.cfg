SPECIFICATION FairSpec
CONSTANTS
  N = 2
CHECK_DEADLOCK FALSE
INVARIANTS
  PinMeansAgreed
  BothOrNeither
  AnswerMatchesPrompt
PROPERTIES
  PairingEnds
