CONSTANTS
  a = a  b = b  c = c
  r = r  s = s  e = e  x = x
  NULL = NULL
  Tasks <- MCTwoTasks
  Threads <- FairThreads
  Calls <- FairCalls
  Joins <- NoJoins
  MaxPending = 1
  EarlyWake = TRUE
SPECIFICATION FairSpec
CHECK_DEADLOCK FALSE
PROPERTY BlockOnReturns
