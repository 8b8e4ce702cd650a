SPECIFICATION FairSpec
CONSTANTS
  Types = 2
  Grain = 1
  MaxFlight = 2
  MaxReports = 1
  MaxChoices = 0
  MaxFaults = 1
PROPERTIES
  ShownPumpWaters
