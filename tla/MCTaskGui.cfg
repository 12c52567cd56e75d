\* The daemon with its GUI: two threads hand over settings; one restart.
CONSTANTS
  Vals = {1, 2}
  Default = 1
  None = None
  NoMethod = NoMethod
  Absent = Absent
  Empty = Empty
  Torn = Torn
  HasGui = TRUE
  MaxEdits = 2
  MaxKills = 1
  MaxStrand = 1
SPECIFICATION Spec
INVARIANTS TypeOK SetupBeforeAcquire LabelConsistent SingleAcquire SettingsAgree
PROPERTIES EditKeepsTheRest
CHECK_DEADLOCK FALSE
