\* One caller, mild and hard faults on the payment service, a reset that is lost and a
\* container that restarts.
CONSTANTS
  o1 = o1
  o2 = o2
  none = none
  Service = "payment"
  Operators <- OneOperator
  Specs <- BothSpecs
  NoFault = none
  SlowQueries = 2
  Injected <- PaymentFaults
  MaxInjects = 2
  MaxRequests = 3
  MaxLosses = 1
  MaxCrashes = 1
SPECIFICATION FairSpec
INVARIANTS
  FootprintBounded
PROPERTIES
  EventuallyClean
CHECK_DEADLOCK FALSE
