SPECIFICATION AttributesSpec
CONSTANTS
  w1 = w1  w2 = w2  r1 = r1  r2 = r2
  cpu = cpu  probe = probe  host = host
  Absent = Absent
  NoRun = NoRun
  NoAsset = NoAsset
  Runs = {r1, r2}
  Items = {cpu, probe}
  Assets = {host}
  Workers = {w1, w2}
  AssetFor <- MCAssetFor
  NoParser = {}
  Unreadable = {}
  Keys = {"numa_nodes", "model", "l3"}
  Values = {"null", "2", "x", "16"}
  Hint <- MCHint
  Limit = 2
  Concurrency = 2
  MaxStamp = 0
  MaxFaults = 1
INVARIANTS
  ParsedHasItsAsset
  AssetRunHasEvidence
  OnceEachWorker
  NoMissedWakeup
  AttributesOfEvidence
PROPERTIES
  NormalizationFinal
  ImplementsLifecycle
