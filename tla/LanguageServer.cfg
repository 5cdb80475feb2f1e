CONSTANTS
  u = u
  NoText = NoText  NoRange = NoRange
  Uris = {u}
  Messages <- WholeTexts
  MaxSent = 4
SPECIFICATION FairSpec
CHECK_DEADLOCK FALSE
INVARIANT AnswersAsOwed
INVARIANT DiagnosticsCurrent
INVARIANT ServesWhatItHeard
PROPERTY RequestsAnswered
PROPERTY ShutdownEnds
