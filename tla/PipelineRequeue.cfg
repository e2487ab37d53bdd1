SPECIFICATION FairSpec
CONSTANTS
  Jobs = {j1}
  StillClips = {}
  MDWorkers = {m1}
  OCWorkers = {o1}
  Requests = {r1}
  Disturbances = {"md_error", "requeue"}
  MaxDisturbances = 2
  NoMsg = NoMsg
CHECK_DEADLOCK FALSE
PROPERTY RequeuedIsReprocessed
