CONSTANTS
  KeepTail = 2
  MaxRounds = 2
  ContextLimit = 5
  Budget = 0
  EventCap = 1
  MaxRuns = 2
  MaxTurns = 2
  MaxCalls = 1
  MaxUsage = 0
  Sizes <- MCSizes
SPECIFICATION Spec
INVARIANT RequestsPaired
CHECK_DEADLOCK FALSE
