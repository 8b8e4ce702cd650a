SPECIFICATION Spec
CONSTANTS
  Types = 2
  Grain = 2
  MaxFlight = 2
  MaxReports = 1
  MaxChoices = 1
  MaxFaults = 1
INVARIANTS
  PumpAgrees
  WaterStopsInTime
