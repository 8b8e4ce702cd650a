SPECIFICATION FairSpec
CONSTANTS
  StartDelay = 1
  U16Max = 2
  NearTicks = 1
  LookTicks = 1
  Turns = 1
  FullTurn = 0
  GoStraight = 0
  MaxStep = 1
PROPERTIES
  SeekOffStopsSpin
