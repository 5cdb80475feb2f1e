CONSTANTS
  s1 = s1  s2 = s2  r1 = r1  r2 = r2  k = k
  Senders <- TwoSenders
  Receivers <- TwoReceivers
  Closers <- OneCloser
  Capacity = 2
  Sends <- MCSends
  Receives <- MCReceives
SPECIFICATION FairSpec
CHECK_DEADLOCK FALSE
INVARIANT TypeOK
INVARIANT FirstInFirstOut
INVARIANT NobodySleepsOnClosed
PROPERTY CloseReleasesAll
