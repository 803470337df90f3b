CONSTANTS
  EventCap = 1
  MaxJobs = 2
  MaxRequests = 2
  MaxPicks = 1
  MaxPumps = 1
SPECIFICATION FairSpec
INVARIANT ShownUnanswered
PROPERTY InterruptReturns
CHECK_DEADLOCK FALSE
