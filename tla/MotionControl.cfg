SPECIFICATION FairSpec
CONSTANTS
  StartDelay = 1
  U16Max = 2
  NearTicks = 1
  LookTicks = 1
  Turns = 1
  FullTurn = 1
  GoStraight = 1
  MaxStep = 1
INVARIANTS
  TypeOK
  StopHolds
  BlindWindowBounded
  EndedFinderStopped
PROPERTIES
  FullTurnBeforeGivingUp
  LegCoversDistance
  EStopTakesEffect
  SearchEnds
