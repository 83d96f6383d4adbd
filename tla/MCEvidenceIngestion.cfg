SPECIFICATION FairSpec
CONSTANTS
  s1 = s1  s2 = s2  r1 = r1  r2 = r2  b1 = b1  b2 = b2
  i1 = i1  i2 = i2  i3 = i3
  NoRun = NoRun
  NoAsset = NoAsset
  NoBundle = NoBundle
  NoRequest = NoRequest
  Assets = {}
  Runs <- MCRuns
  Items <- MCItems
  Servers <- MCServers
  Bundles <- MCBundles
  Manifest <- MCManifest
  MaxClock = 1
  MaxUploads = 3
INVARIANTS
  TypeOK
  EvidenceHasRawObject
  BundleAllOrNothing
  EvidenceMovesRun
  
  NoWaitCycle
PROPERTIES FirstUploadWins EveryUploadEnds ImplementsLifecycle
CHECK_DEADLOCK FALSE
