SPECIFICATION FairSpec
CONSTANTS
  a = a
  b = b
  c = c
  d = d
  k1 = k1
  v1 = v1
  NoKey = NoKey
  NoConv = NoConv
  Calls = {a, b, c, d}
  Keys = {k1}
  Convs = {v1}
  KeyOf <- RetryKey
  ConvOf <- RetryConv
  PayloadOf <- RetryPayload
  Limits = {1}
  QueueCap = 2
  MaxApplies = 0
  MaxRestarts = 1
  ReceiptFaults = TRUE
  JobFaults = TRUE
INVARIANTS KeysHonoured OneTaskPerConversation
PROPERTIES EverythingEnds
CHECK_DEADLOCK FALSE
