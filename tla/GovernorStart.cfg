SPECIFICATION FairSpec
CONSTANTS
  CorePool = 10
  CoreCost <- MCCoreCost
  RamCost <- MCRamCost
  VramCost = 1
  MinWorkers <- MCMinWorkers
  MaxWorkers <- MCMaxWorkers
  Cooldown = 3
  TranscodeEnabled = TRUE
  DryRun = FALSE
  Rams = {32}
  Vrams = {8}
  Depths = {0, 1}
  MaxAdopted = 1
  Faults = {"start_error"}
  MaxFaults = 1
PROPERTIES
  PullersRun
