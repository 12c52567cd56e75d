\* Two connections, requests of every kind, a signal at any point.
CONSTANTS
  Conns = {c1, c2}
  Streams = {sse, blob}
  None = None
  EventMod = 3
  MaxOut = 2
SYMMETRY Symmetry
SPECIFICATION Spec
INVARIANTS TypeOK OneOwner StreamIntact
PROPERTIES NoStartAfterStop
CHECK_DEADLOCK FALSE
