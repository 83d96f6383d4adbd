SPECIFICATION FairSpec
CONSTANTS
  w1 = w1  r1 = r1
  cpu = cpu  disk = disk  cloud = cloud  host = host
  NoRun = NoRun
  NoAsset = NoAsset
  Runs = {r1}
  Items = {cpu, disk, cloud}
  Assets = {host}
  Workers = {w1}
  AssetFor <- MCAssetFor
  NoParser = {cloud}
  Unreadable = {}
  Limit = 1
  Concurrency = 2
  MaxStamp = 1
  MaxFaults = 2
PROPERTY PendingIsDrained
