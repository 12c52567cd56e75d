\* The entries of the rate menu.
CONSTANTS
  Delays = {0, 5}
  Widths = {1, 5, 20}
  Rates = {500, 1000, 2000}
  Scales = {50, 500}
  Offsets = {0, 1}
  None = None
  DefaultInterval = 1000
  DefaultSamples = 1000
SPECIFICATION Spec
INVARIANTS RateMatchesMenu
