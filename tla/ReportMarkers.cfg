SPECIFICATION Spec
CONSTANTS
  c1 = c1  c2 = c2  r1 = r1  r2 = r2
  cpu = cpu  port = port  pci = pci  route = route  host = host
  hardware = hardware  security = security
  NoRun = NoRun
  NoAsset = NoAsset
  NoAgent = NoAgent
  Unknown = Unknown
  Runs <- TwoRuns
  Items <- TwoItems
  Assets <- MCAssets
  Categories <- MCCategories
  CategoryOf <- MCCategoryOf
  Agents <- MCAgents
  AgentFor <- MCAgentFor
  Registry <- MCAgents
  AssetFor <- MCAssetFor
  Clis <- TwoClis
  MaxAnswer = 1
  MaxCommands = 2
INVARIANT SectionsCiteFacts
CHECK_DEADLOCK FALSE
