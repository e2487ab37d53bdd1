SPECIFICATION Spec
CONSTANTS
  Jobs = {j1}
  StillClips = {j1}
  MDWorkers = {m1}
  OCWorkers = {o1}
  Requests = {r1}
  Disturbances = {}
  MaxDisturbances = 0
  NoMsg = NoMsg
CHECK_DEADLOCK FALSE
PROPERTY TerminalIsFinal
