CONSTANTS
  f = f  g = g  read_file = read_file
  a = a  b = b  ops = ops  defaults = defaults  spare = spare  loader = loader
  Functions <- MCFunctions
  Unnamed <- MCUnnamed
  Callbacks <- MCCallbacks
  Aggregates <- MCAggregates
  Members <- MCMembers
  Languages <- MCBreaks
SPECIFICATION Spec
CHECK_DEADLOCK FALSE
INVARIANT EveryOriginRecorded
