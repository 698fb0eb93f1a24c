SPECIFICATION FairSpec
CONSTANTS
  Symbols       = {s1}
  Pumps         = {p1}
  Contested     = {}
  Kinds         = {"good", "wide", "chased", "nostop"}
  Outcomes      = {"filled", "cancelled", "rejected", "expired"}
  AwaitableFeed = TRUE
  BrokerMayFail = FALSE
  StoreMayFail  = FALSE
  MaxPlans      = 1
  MaxPartials   = 1
  MaxRestarts   = 0
  s1            = s1
  p1            = p1
INVARIANTS
  BooksAreSound
PROPERTIES
  OrdersEnd
CHECK_DEADLOCK FALSE
