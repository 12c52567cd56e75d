\* Answers end and the streams of clients that left are dropped.
CONSTANTS
  Conns = {c1, c2}
  Streams = {sse}
  None = None
  EventMod = 1
  MaxOut = 2
SPECIFICATION Spec
PROPERTIES GoneClientDropped AnswerEndsConnection
CHECK_DEADLOCK FALSE
