SPECIFICATION FairSpec
CONSTANTS
  Tasks = {a, b, c}
  Tenants = {n}
  TenantOf <- OneTenant
  Gates = {g1}
  GateOf <- OneGate
  MaxTasks = 2
  MaxTokens = 2
  MaxRounds = 2
  MaxPeriod = 2
  WriteFaults = TRUE
  ReadFaults = FALSE
INVARIANTS WithinTaskLimit SeatsAreHeld
PROPERTIES EveryPromptJudged
