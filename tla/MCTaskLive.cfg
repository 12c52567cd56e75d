\* The daemon without GUI, killed and restarted at any point, up to twice: the
\* strand serves setups and temperature readings beside the acquisitions.
CONSTANTS
  Vals = {1, 2}
  Default = 1
  None = None
  NoMethod = NoMethod
  Absent = Absent
  Empty = Empty
  Torn = Torn
  HasGui = FALSE
  MaxEdits = 1
  MaxKills = 2
  MaxStrand = 3
SPECIFICATION Spec
INVARIANTS UninitializedOnlyAfterTornFile
PROPERTIES RestartRestores SetupApplied TemperatureReported AcquisitionContinues
CHECK_DEADLOCK FALSE
