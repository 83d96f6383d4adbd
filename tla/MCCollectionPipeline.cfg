SPECIFICATION PipelineFairSpec
CONSTANTS
  w1 = w1  r1 = r1  r2 = r2  c1 = c1  c2 = c2
  cpu1 = cpu1  cpu2 = cpu2  disk = disk  host = host
  NoRun = NoRun
  NoAsset = NoAsset
  Runs <- MCRuns
  Items <- MCItems
  Assets <- MCAssets
  Workers <- MCWorkers
  AssetFor <- MCAssetFor
  NoParser = {}
  Unreadable = {disk}
  Limit = 2
  Concurrency = 2
  MaxStamp = 0
  MaxFaults = 1
  Collectors <- MCCollectors
  Tools = {"lscpu", "lsblk", "nmap"}
  Allowlist = {"lscpu", "lsblk"}
  ToolOf <- MCToolOf
INVARIANTS
  PipelineTypeOK
  
  UploadedOnce
  StatusTellsArrival
PROPERTIES
  PipelineImplementsLifecycle
  ReportedIsNormalized
  PendingIsDrained
CHECK_DEADLOCK FALSE
