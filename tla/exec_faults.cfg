CONSTANTS
  c1 = c1
  c2 = c2
  o1 = o1
  o2 = o2
  NoOrder = NoOrder
  NoBid = NoBid
  Callers = {c1, c2}
  Orders = {o1, o2}
  Kinds = {"open", "exit"}
  Quantities = {2}
  Lot = 1
  MaxRetries = 1
  MaxPolls = 1
  MaxAge = 1
  IdempotentVenue = TRUE
  Faults <- LossyFaults
  Tasks = {"reconcile"}
SPECIFICATION Spec
SYMMETRY Twins
INVARIANTS TypeOK BookedOnlyWhatTraded OnePlacementPerClientId
PROPERTY BookingSpec
