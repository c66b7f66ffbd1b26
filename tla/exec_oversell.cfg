CONSTANTS
  c1 = c1
  c2 = c2
  o1 = o1
  o2 = o2
  NoOrder = NoOrder
  NoBid = NoBid
  Callers = {c1, c2}
  Orders = {o1, o2}
  Kinds = {"exit"}
  Quantities = {2}
  Lot = 2
  MaxRetries = 0
  MaxPolls = 1
  MaxAge = 0
  IdempotentVenue = TRUE
  Faults = {}
  Tasks = {}
SPECIFICATION Spec
INVARIANT NeverOversold
