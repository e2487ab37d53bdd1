SPECIFICATION FairSpec
CONSTANTS
  Jobs = {j1}
  StillClips = {}
  MDWorkers = {m1}
  OCWorkers = {o1, o2}
  Requests = {}
  Disturbances = {"oc_crash", "orch_crash", "conn_lost", "rename_error", "check_timeout"}
  MaxDisturbances = 2
  NoMsg = NoMsg
CHECK_DEADLOCK FALSE
PROPERTIES
  EveryJobRecorded
