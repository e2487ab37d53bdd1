SPECIFICATION FairSpec
CONSTANTS
  Jobs = {j1}
  StillClips = {}
  MDWorkers = {m1}
  OCWorkers = {o1, o2}
  Requests = {r1}
  Disturbances = {"pause", "cancel", "bulk_pause", "bulk_kill", "remove", "bulk_delete",
    "db_error", "md_error", "oc_error", "check_timeout", "publish_error", "rename_error",
    "requeue", "dlx_purge", "expiry"}
  MaxDisturbances = 3
  NoMsg = NoMsg
CHECK_DEADLOCK FALSE
PROPERTIES
  
  EveryJobSettles
