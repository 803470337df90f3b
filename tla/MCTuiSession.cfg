CONSTANTS
  EventCap = 1
  MaxJobs = 3
  MaxRequests = 1
  MaxPicks = 1
  MaxPumps = 2
SPECIFICATION Spec
INVARIANTS TypeOK NothingStranded EventsPumped
CHECK_DEADLOCK FALSE
