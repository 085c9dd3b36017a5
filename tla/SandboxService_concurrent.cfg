\* Two callers of the controller beside the requests to checkout.
CONSTANTS
  o1 = o1
  o2 = o2
  none = none
  Service = "checkout"
  Operators <- TwoOperators
  Specs <- MildSpec
  NoFault = none
  SlowQueries = 2
  Injected <- CheckoutFaults
  MaxInjects = 2
  MaxRequests = 2
  MaxLosses = 1
  MaxCrashes = 0
SPECIFICATION Spec
INVARIANTS
  RestoredIsClean
SYMMETRY Interchangeable
CHECK_DEADLOCK FALSE
