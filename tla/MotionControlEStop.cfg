SPECIFICATION Spec
CONSTANTS
  StartDelay = 3
  U16Max = 5
  NearTicks = 2
  LookTicks = 1
  Turns = 2
  FullTurn = 2
  GoStraight = 1
  MaxStep = 1
INVARIANTS
  StopWithinTwoTicks
