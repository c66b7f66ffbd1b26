CONSTANTS
  c1 = c1
  c2 = c2
  o1 = o1
  o2 = o2
  NoOrder = NoOrder
  NoBid = NoBid
  Callers = {c1}
  Orders = {o1}
  Kinds = {"open"}
  Quantities = {2}
  Lot = 0
  MaxRetries = 0
  MaxPolls = 1
  MaxAge = 1
  IdempotentVenue = TRUE
  Faults = {}
  Tasks = {"reconcile"}
SPECIFICATION Spec
INVARIANT LedgerComplete
