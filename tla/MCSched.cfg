SPECIFICATION SchedFairSpec
CONSTANTS
  Bits = 4
  PowerupTicks = 2
  StartTicks = 2
  IntervalTicks = 2
  TimeoutTicks = 2
  Types = 2
  Grain = 1
  MaxFlight = 2
  MaxReports = 1
  MaxChoices = 1
  MaxFaults = 0
INVARIANTS
  WholeFrame
  OneVerdict
PROPERTIES
  SensorRests
  SensorSampled
  DryGetsWater
  TypesConverge
