SPECIFICATION Spec
CONSTANTS
  Jobs = {j1}
  StillClips = {}
  MDWorkers = {m1, m2}
  OCWorkers = {o1}
  Requests = {r1, r2}
  Disturbances = {"pause", "cancel", "resume", "bulk_resume", "bulk_pause", "bulk_kill",
    "remove", "bulk_delete", "md_crash", "oc_crash", "orch_crash", "db_error", "conn_lost",
    "md_error", "oc_error", "check_timeout", "publish_error", "recovery_error", "rename_error", "requeue",
    "dlx_purge", "expiry"}
  MaxDisturbances = 2
  NoMsg = NoMsg
SYMMETRY Symmetry
CHECK_DEADLOCK FALSE
INVARIANTS
  TypeOK
  NoSilentLoss
  CompletedHasRows
  StoredNameExists
  RecoveryKeepsWork
PROPERTIES
  RevivedOnlyByStaleWriter
