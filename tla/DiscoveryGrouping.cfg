SPECIFICATION Spec
CONSTANTS
  c1 = c1  c2 = c2  r1 = r1  r2 = r2
  cpu = cpu  port = port  pci = pci  route = route  host = host
  hardware = hardware  security = security
  NoRun = NoRun
  NoAsset = NoAsset
  NoAgent = NoAgent
  Unknown = Unknown
  Runs <- OneRun
  Items <- MCItems
  Assets <- MCAssets
  Categories <- MCCategories
  CategoryOf <- MCCategoryOf
  Agents <- MCAgents
  AgentFor <- MCAgentFor
  Registry <- MCAgents
  AssetFor <- MCAssetFor
  Clis <- OneCli
  MaxAnswer = 1
  MaxCommands = 2
INVARIANTS
  TypeOK
  AuditAccountsForRows
CHECK_DEADLOCK FALSE
