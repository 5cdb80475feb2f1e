CONSTANTS
  g = g  h = h
  Grammars <- MCGrammars
  Helpers <- MCHelpers
  Tables <- MCTables
  MaxDepth = 3
  UsesAfterMove = FALSE
  MaxValues = 3
SPECIFICATION Spec
CHECK_DEADLOCK FALSE
INVARIANT FreedAtMostOnce
INVARIANT NoUseAfterFree
INVARIANT FlagMeansHeld
INVARIANT DominatorsCutPaths
INVARIANT LiveMeansUsedLater
INVARIANT MergesAsWritten
INVARIANT LinearValuesSpentOnce
PROPERTY ScopedFreedBeforeNext
