CONSTANTS
  w1 = w1
  w2 = w2
  fa = fa
  fb = fb
  fs = fs
  Workers <- MCWorkers
  Files <- MCFiles
  Ignored <- MCIgnored
  Withheld = {}
  Writes <- MCWrites
  UserFiles <- MCUserFiles
  Faulty <- MCFaulty
  Home = "main"
  AcceptCmd = TRUE
SPECIFICATION Spec
INVARIANTS TypeOK HomeRestored OnlyAcceptedMerged SentFilesStay
PROPERTIES EditsKept
CHECK_DEADLOCK FALSE
