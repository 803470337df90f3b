CONSTANTS
  c1 = c1
  c2 = c2
  j1 = j1
  j2 = j2
  j3 = j3
  Clients <- MCClients
  Jobs <- MCJobs
  ClientOf <- MCClientOf
  MaxWorkers = 1
  RuntimeAccepts = TRUE
SPECIFICATION Spec
INVARIANTS TypeOK FileFollowsJobs KilledOnlyByRace LeakOnlyOnLostReply
PROPERTIES OrphansReclaimed
SYMMETRY MCSymmetry
CHECK_DEADLOCK FALSE
