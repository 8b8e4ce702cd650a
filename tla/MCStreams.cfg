SPECIFICATION StreamsSpec
CONSTANTS
  Command = {"c1"}
  TimeBytes = 2
  Capacity = 3
  MaxLen = 9
  MaxDue = 2
  MaxDrops = 2
  \* coordinates that hold the values of a head and of a tail
  Low = {0, 163, 195}
  CameraCapacity = 8
  CameraMaxLen = 14
  MaxReports = 4
  MaxReportLosses = 1
  \* payloads that hold the values of a header and of a tail
  Payload = {7, 85, 170}
  MaxPackets = 3
  MaxBurst = 7
  MaxBursts = 1
  \* one digit and four; between readings, bytes of a head and of a tail
  Value = {7, 1205}
  Noise = {101, 58, 109}
  RangingCapacity = 16
  RangingMaxLen = 22
  MaxReadings = 2
  MaxReadingLosses = 2
  MaxNoise = 2
INVARIANTS
  CommandsInOrder
  ReportsInOrder
  PacketsInOrder
  ReadingsUsed
PROPERTIES
  LossesContained
CHECK_DEADLOCK FALSE
