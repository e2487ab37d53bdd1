SPECIFICATION FairSpec
CONSTANTS
  Jobs = {j1, j2}
  StillClips = {j2}
  MDWorkers = {m1}
  OCWorkers = {o1}
  Requests = {r1}
  Disturbances = {"pause", "cancel", "bulk_pause", "bulk_kill", "remove", "bulk_delete",
    "db_error", "md_error", "oc_error", "check_timeout", "publish_error", "rename_error",
    "requeue", "dlx_purge", "expiry"}
  MaxDisturbances = 1
  NoMsg = NoMsg
CHECK_DEADLOCK FALSE
PROPERTIES
  
  EveryJobSettles
