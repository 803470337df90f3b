CONSTANTS
  w1 = w1
  w2 = w2
  fa = fa
  fb = fb
  fs = fs
  Workers <- MCWorkers
  Files <- MCFiles
  Ignored <- MCIgnored
  Withheld = {}
  Writes <- MCWrites
  UserFiles <- MCUserFiles
  Faulty <- MCFaulty
  Home = "main"
  AcceptCmd = TRUE
SPECIFICATION Spec
PROPERTIES IgnoredKept
CHECK_DEADLOCK FALSE
