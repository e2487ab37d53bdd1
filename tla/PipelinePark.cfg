SPECIFICATION Spec
CONSTANTS
  Jobs = {j1}
  StillClips = {}
  MDWorkers = {m1}
  OCWorkers = {o1}
  Requests = {r1}
  Disturbances = {"md_crash"}
  MaxDisturbances = 1
  NoMsg = NoMsg
CHECK_DEADLOCK FALSE
INVARIANT ParkLosesNoWork
