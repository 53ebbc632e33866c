SPECIFICATION FairSpec
CONSTANTS
  Actions = {a1, a2}
  Sessions = {a1}
  Requests = {r1, r2}
  SaveFaults = TRUE
  GrantFaults = TRUE
INVARIANTS Safe
PROPERTIES ImplementsDecision WaitSettles
CHECK_DEADLOCK FALSE
