\* A request whose body comes in two pieces.
CONSTANTS
  Conns = {c1}
  Streams = {sse, blob}
  None = None
  EventMod = 3
  MaxOut = 2
SPECIFICATION Spec
INVARIANTS ContinuesToRead
CHECK_DEADLOCK FALSE
