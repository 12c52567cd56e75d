\* Edits, setups and acquisitions; up to one call of a setup is not done as asked.
CONSTANTS
  Delays = {5}
  Widths = {20}
  Rates = {500, 2000}
  Scales = {500}
  Offsets = {1}
  None = None
  DefaultInterval = 1000
  DefaultSamples = 1000
  Fronts <- MCFronts
  TimeBases <- MCTimeBases
  MaxOdd = 1
SPECIFICATION DriverSpec
INVARIANTS WaveCoversWidth WaveAsTaken BufferHoldsRead LevelUnderItsRange
