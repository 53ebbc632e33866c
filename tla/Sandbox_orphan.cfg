SPECIFICATION Spec
CONSTANTS
  t1 = t1
  t2 = t2
  o1 = o1
  o2 = o2
  p1 = p1
  Tasks = {t1, t2}
  Leases = {l1, l2, l3}
  NoLease = NoLease
  Ops = {o1, p1, o2}
  TaskOf <- TaskOfOp
  Provisions = {p1}
  MaxConcurrent = 1
  MaxAsked = 1
INVARIANTS NoOrphan
CHECK_DEADLOCK FALSE
