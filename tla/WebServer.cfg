SPECIFICATION FairWebSpec
CONSTANTS
  Workers = {w1, w2}
  Requests = {r1, r2}
  MaxChanges = 2
  MaxFailures = 1
  None = None
\* The syncer may have panicked and every request been answered.
CHECK_DEADLOCK FALSE
INVARIANTS
  AnswersCoherent
PROPERTIES
  PoisonedAnswersNothing
  TakenAnswered
