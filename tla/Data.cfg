SPECIFICATION DataSpec
CONSTANTS
  None = None
  Users = {"u1", "u2"}
  Docs = {"d1"}
  DocTexts = {"t1", "t2"}
  DocRequests = {"r1", "r2"}
  SpaceOf <- TwoSpaces
  MaxVersion = 2
  MaxDocWrites = 2
  MaxDocFaults = 1
  Convs = {"c1", "c2"}
  ConvTasks = {"k1", "k2"}
  Long = "long"
  MaxMemory = 1
  MaxEdits = 1
  MaxJobRestarts = 1
  FileNames = {"n1", "n2"}
  FileAdmins = {"u2"}
  Slots = {"s1"}
  FileTasks = {"k1"}
  MaxTexts = 2
  MaxCrashes = 1
  NetConns = {"s1", "s2"}
  Hosts = {"in", "out"}
  Allowed = {"in"}
  MaxConnections = 1
  MaxBytes = 1
  MaxRequests = 2
  Threshold = 1
  Pool = 1
  MIN_ITEMS_FOR_RATIO = 6
  MAX_INJECTED_LESSONS = 1
  Columns = {1, 2}
INVARIANTS KnowledgeSound GuardsSound FormsSound ReportsSound RoutesSound
PROPERTY StoresSafe
CHECK_DEADLOCK FALSE
