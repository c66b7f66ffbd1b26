CONSTANTS
  c1 = c1
  c2 = c2
  o1 = o1
  o2 = o2
  NoOrder = NoOrder
  NoBid = NoBid
  Callers = {c1}
  Orders = {o1, o2}
  Kinds = {"flatten"}
  Quantities = {2}
  Lot = 2
  MaxRetries = 1
  MaxPolls = 1
  MaxAge = 2
  IdempotentVenue = TRUE
  Faults <- HonestFaults
  Tasks = {"reconcile"}
SPECIFICATION FairSpec
PROPERTIES CallsRunDown ExecuteReturns OpenRowSettles
