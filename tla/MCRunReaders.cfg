SPECIFICATION ReadersSpec
CONSTANTS
  c1 = c1  c2 = c2  r1 = r1  cpu = cpu  host = host  hardware = hardware  p1 = p1
  NoRun = NoRun
  NoAsset = NoAsset
  NoAgent = NoAgent
  Unknown = Unknown
  Runs = {r1}
  Items = {cpu}
  Assets = {host}
  Categories = {"inventory"}
  CategoryOf <- MCCategoryOf
  Agents = {hardware}
  AgentFor <- MCAgentFor
  Registry = {hardware}
  AssetFor <- MCAssetFor
  Clis = {c1, c2}
  Readers = {p1}
  MaxAnswer = 1
  MaxCommands = 2
INVARIANTS
  CompleteAnswersShowFacts
  PointedFactsAreLoaded
CHECK_DEADLOCK FALSE
