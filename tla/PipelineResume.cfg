SPECIFICATION FairSpec
CONSTANTS
  Jobs = {j1}
  StillClips = {}
  MDWorkers = {m1}
  OCWorkers = {o1}
  Requests = {r1, r2}
  Disturbances = {"pause", "resume", "cancel", "remove", "publish_error"}
  MaxDisturbances = 3
  NoMsg = NoMsg
CHECK_DEADLOCK FALSE
INVARIANTS
  NoSilentLoss
PROPERTIES
  EveryJobSettles
