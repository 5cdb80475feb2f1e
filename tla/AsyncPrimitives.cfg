CONSTANTS
  t1 = t1  t2 = t2  t3 = t3
  Tasks <- ThreeTasks
  MaxPermits = 1
  Rounds = 2
  Senders <- ThreeTasks
  None = None
SPECIFICATION FairBoth
CHECK_DEADLOCK FALSE
INVARIANT TypeOK
INVARIANT PermitsConserved
INVARIANT TakesAValue
PROPERTY EveryoneAcquires
PROPERTY ReceiverServed
