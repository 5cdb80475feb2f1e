CONSTANTS
  m1 = m1  m2 = m2  f1 = f1  main = main  fn = fn
  Log = Log  Draw = Draw  log = log  draw = draw  clear = clear
  NULL = NULL
  Handlers <- MCHandlers
  Frames <- MCFrames
  Main = main
  Owner <- MCOwner
  Effects <- MCEffects
  EffectOf <- MCEffectOf
  OpsOf <- MCOpsOf
  ClauseOps <- MCClauseOps
  OpId <- MCOpId
  MainEffects <- MCEffects
  EarlyExits = FALSE
  OuterPerforms = FALSE
  Reenter = TRUE
SPECIFICATION FairSpec
CHECK_DEADLOCK FALSE
INVARIANT StackMirrorsActive
INVARIANT NoDanglingHandler
PROPERTY PerformEnds
PROPERTY ImplementsNestedHandlers
