SPECIFICATION Spec
CONSTANTS
  a = a
  b = b
  c = c
  d = d
  k1 = k1
  v1 = v1
  NoKey = NoKey
  NoConv = NoConv
  Calls = {a, b, c}
  Keys = {k1}
  Convs = {v1}
  KeyOf <- QueueKey
  ConvOf <- QueueConv
  PayloadOf <- QueuePayload
  Limits = {1, 2}
  QueueCap = 1
  MaxApplies = 1
  MaxRestarts = 1
  ReceiptFaults = FALSE
  JobFaults = FALSE
INVARIANTS QueueSound PendingIsDriven
CHECK_DEADLOCK FALSE
