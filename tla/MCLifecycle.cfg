\* Starts, ends and signals of four processes in any order.
CONSTANTS
  d1 = d1
  d2 = d2
  gui = gui
  debug = debug
  Process = {d1, d2, gui, debug}
  Pid <- MCPid
  Mode <- MCMode
  None = None
  Newline = 10
SPECIFICATION Spec
INVARIANTS TypeOK OneDaemon PidOfHolder
PROPERTIES StopFreesLock QuitEnds
CHECK_DEADLOCK FALSE
