SPECIFICATION FairSpec
CONSTANTS
  Jobs = {"j1", "j2"}
  NoJob = NoJob
  Queues = {1, 2}
  Cap = 1
  MaxRequests = 3
  MaxJobFaults = 2
  MaxJobRestarts = 1
  Admins = {"m1", "m2"}
  Values = {1}
  MaxWrites = 5
  MaxSaveFaults = 1
  MaxDamage = 1
  Accounts = {"a1", "a2"}
  TenantOf <- OneTenant
  Founders = {"a1"}
  Writers = {"a2"}
  Limits = {0, 1}
  MaxCrypto = 1
  MaxChanges = 2
  Users = {"u1", "u2"}
  Workspaces = {"w1", "w2"}
  Resources = {"r1"}
  Ids = {1, 2, 3}
  Conns = {"c1"}
  MaxOut = 2
  MaxOfOne = 1
  MaxUncut = 1
  LocalCalls = {"k1", "k2", "k3"}
  NoCall = "none"
  TextSize = 2
  MaxTicks = 1
  MaxPageFaults = 1
  ModelCalls = {"k1", "k2", "k3"}
  Evaluated = {"k2"}
  MaxActive = 2
  Rpm = 2
  Tpm = 4
  Need = 2
  Budget = 3
  MaxRetries = 1
  MaxGateFaults = 1
  MaxGateRestarts = 1
  EvRuns = {"r1", "r2"}
  EvSize = 3
  EvWorkers = {"w1", "w2"}
  MaxEvFaults = 1
  MaxEvRestarts = 1
  SubSize = 3
  SubWorkers = {"w1", "w2"}
  Owners = {"o1", "o2"}
  Exts = {"x1", "x2"}
  Args = {"a1"}
  CmdTokens = {1, 2, 3}
  PerOwner = 2
  Total = 3
  MaxToggles = 1
  MaxCmdFaults = 1
  MaxCmdRestarts = 1
  States = {"t1", "t2"}
  Handlers = {"h1", "h2"}
  Subjects = {"s1"}
  Bindable = {"a1"}
  Issuers = {"i1", "i2"}
  Room = 1
  MaxEdits = 1
  MaxSsoRestarts = 1
INVARIANTS JobsSafe SettingsSafe IdentitySafe CallsSafe ModelsSafe
PROPERTIES PageTrue GrantsSafe WorkEnds
CHECK_DEADLOCK FALSE
