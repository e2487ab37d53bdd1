SPECIFICATION FairSpec
CONSTANTS
  CorePool = 10
  CoreCost <- MCCoreCost
  RamCost <- MCRamCost
  VramCost = 1
  MinWorkers <- MCMinWorkers
  MaxWorkers <- MCMaxWorkers
  Cooldown = 3
  TranscodeEnabled = TRUE
  DryRun = FALSE
  Rams = {7, 32}
  Vrams = {8}
  Depths = {0, 1, 2}
  MaxAdopted = 2
  Faults = {"create_error", "start_error", "park_error", "list_error", "exit", "restart"}
  MaxFaults = 2
INVARIANTS
  TypeOK
  CoresWithinPool
  OneTranscoder
PROPERTIES
  PressureIsRelieved
  PullersComeBack
