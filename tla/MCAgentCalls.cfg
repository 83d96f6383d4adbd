SPECIFICATION CallsSpec
CONSTANTS
  haiku = haiku  mini = mini  flash = flash  llama = llama
  Unrecognised = Unrecognised
  NoTarget = NoTarget
  NoRequest = NoRequest
  Local = "local"
  Tasks <- MCTasks
  Budgets = {"low"}
  Targets <- MCTargets
  ProviderOf <- MCProviderOf
  Denied = {"google"}
  Table <- MCTable
  AirGapped <- MCAirGapped
  Price <- MCPrice
  Escalate = TRUE
  Calls <- MCCalls
  MaxTokens = 1
  Directories <- MCDirectories
  ValidTaskKinds <- MCTasks
  ValidBudgets = {"low"}
  ValidPrivacy = {"standard", "sensitive", "air_gapped"}
INVARIANTS
  GatewayTypeOK
  PrivacyHonoured
  FirstTierAnswers
  FailsExhausted
  CostIsLowerBound
  UsedContentIsValidated
  RegisteredAgentsAreServed
PROPERTY EveryCallEnds
CHECK_DEADLOCK FALSE
