SPECIFICATION Spec
CONSTANTS
  MaxFlight = 3
  MaxFaults = 1
PROPERTY
  StopIsNotLifted
