SPECIFICATION PartsSpec
CONSTANTS
  StartDelay = 2
  WindTick = 2
  UnwindTick = 4
  U16Max = 9
  Times = 10
  Wait = 4
  MaxRaces = 2
  VOTE_WINDOW = 5
  STABLE_FRAMES = 3
  MaxFaults = 0
  Copies = 3
  RX_BUFFER_MAX = 14
  MaxLine = 24
  MaxLosses = 1
  Capacity = 3
  MaxBytes = 6
  Quarter = 25
  Half = 180
  Tol = 5
  MaxStep = 4
  MaxFlight = 3
  MaxPanelFaults = 1
  Phone = {p1, p2}
  Password = {w1, w2}
  None = None
  Absent = Absent
  Cut = Cut
INVARIANTS
  NeverOverwound
  HomeWhenDone
  ModeUpToDate
  PortHandedOver
  PanelAgrees
PROPERTIES
  AlarmsHeard
  AnnouncedInTurn
  VerdictsVoted
  TurnsAsMeant
  AccountsDurable
