CONSTANTS
  Types <- MCTypes
  Ground <- MCGround
  MaxCalls = 3
SPECIFICATION Spec
CHECK_DEADLOCK FALSE
INVARIANT SubstitutionEnds
INVARIANT AcceptedHold
INVARIANT LiteralsStayNumbers
INVARIANT MostGeneral
