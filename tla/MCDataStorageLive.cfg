\* Exports and renderings go on although a flag is used the wrong way round.
CONSTANTS
  Workers = {w1, w2}
  None = None
  SerialMod = 4
  IdMod = 1
  SsePeriod = 1
  BlobPeriod = 1
  MaxPending = 3
  MaxPool = 1
SPECIFICATION Spec
PROPERTIES EventuallyExported WavesKeepFlowing
CHECK_DEADLOCK FALSE
