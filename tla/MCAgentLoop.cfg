CONSTANTS
  KeepTail = 2
  MaxRounds = 2
  ContextLimit = 5
  Budget = 1
  EventCap = 1
  MaxRuns = 2
  MaxTurns = 3
  MaxCalls = 2
  MaxUsage = 1
  Sizes <- MCSizes
SPECIFICATION FairSpec
INVARIANTS TypeOK ResultsBacked OnlyAbandonedUnanswered CutExists RequestsFit RefusalsHold
PROPERTY CancelReturns
CHECK_DEADLOCK FALSE
