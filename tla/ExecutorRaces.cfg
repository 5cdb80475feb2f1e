CONSTANTS
  a = a  b = b  c = c
  r = r  s = s  e = e  x = x
  NULL = NULL
  Tasks <- MCTasks
  Threads <- RacingThreads
  Calls <- RacingCalls
  Joins <- JoinA
  MaxPending = 1
  EarlyWake = TRUE
SPECIFICATION Spec
CHECK_DEADLOCK FALSE
INVARIANT HeldOnce
INVARIANT NoLostWakeup
PROPERTY CompletedStaysFinished
