SPECIFICATION FairSpec
CONSTANTS
  Half = 36
  Tol = 3
  MaxStep = 2
  ImuOpen = FALSE
PROPERTIES
  TurnReachesTarget
