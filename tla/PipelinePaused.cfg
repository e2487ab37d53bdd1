SPECIFICATION Spec
CONSTANTS
  Jobs = {j1}
  StillClips = {}
  MDWorkers = {m1}
  OCWorkers = {o1}
  Requests = {r1}
  Disturbances = {"pause"}
  MaxDisturbances = 1
  NoMsg = NoMsg
CHECK_DEADLOCK FALSE
PROPERTY PausedUntilResumed
