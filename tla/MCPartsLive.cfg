SPECIFICATION PartsFairSpec
CONSTANTS
  StartDelay = 2
  WindTick = 2
  UnwindTick = 4
  U16Max = 7
  Times = 3
  Wait = 2
  MaxRaces = 1
  VOTE_WINDOW = 3
  STABLE_FRAMES = 2
  MaxFaults = 1
  Copies = 2
  RX_BUFFER_MAX = 10
  MaxLine = 12
  MaxLosses = 1
  Capacity = 2
  MaxBytes = 4
  Quarter = 3
  Half = 24
  Tol = 3
  MaxStep = 2
  MaxFlight = 3
  MaxPanelFaults = 0
  Phone = {p1}
  Password = {w1}
  None = None
  Absent = Absent
  Cut = Cut
PROPERTIES
  InspectionEnds
  CameraFollowed
  RangingReceives
  OutputsFollow
  StopTakesEffect
