\* Two io threads, the strand's timer, and the window opening and closing.
CONSTANTS
  Workers = {t1, t2}
  None = None
  MaxAge = 3
  IdMod = 2
  DrawPeriod = 1
  MaxJobs = 2
  MaxRequests = 2
SPECIFICATION Spec
INVARIANTS EventsInOrder RequestFindsWaveform
PROPERTIES DrawingGoesOn
CHECK_DEADLOCK FALSE
