SPECIFICATION FairSpec
CONSTANTS
  Byte = {0, 1}
  BufSz = 4
  MaxLen = 5
  SemMax = 2
INVARIANTS
  NeverAmbiguous
  NoLostWakeup
PROPERTIES
  ImplementsFifo
  IndicatedBytesAreParsed
