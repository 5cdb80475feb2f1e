CONSTANTS
  m1 = m1  m2 = m2  f1 = f1  main = main  fn = fn
  Log = Log  Draw = Draw  log = log  draw = draw  clear = clear
  NULL = NULL
  Handlers <- MCHandlers
  Frames <- MCFrames
  Main = main
  Owner <- MCOwner
  Effects <- MCEffects
  EffectOf <- MCEffectOf
  OpsOf <- MCTwoOpsOf
  ClauseOps <- MCTwoClauseOps
  OpId <- MCOpId
  MainEffects <- MCEffects
  EarlyExits = TRUE
  OuterPerforms = TRUE
  Reenter = FALSE
SPECIFICATION Spec
CHECK_DEADLOCK FALSE
INVARIANT ActiveStaysOnStack
INVARIANT HandledNeverAborts
