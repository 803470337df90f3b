CONSTANTS
  EventCap = 2
  MaxJobs = 2
  MaxRequests = 0
  MaxPicks = 2
  MaxPumps = 1
SPECIFICATION Spec
INVARIANT OneRunAtATime
CHECK_DEADLOCK FALSE
