SPECIFICATION Spec
CONSTANTS
  Publishers = {b1, b2}
  NAgents = 2
  QueueSize = 1
  MaxMessages = 2
  Consumers = {c1, c2}
  Batch = 2
  MaxLen = 2
  MaxEntries = 4
  MaxOutages = 1
  RingSize = 2
  Undecodable = {2}
  Starts = 2
  MaxPublished = 6
  Callers = {k1, k2}
  MaxAttempts = 2
  MaxOut = 4
  MaxReplies = 1
  Timers = {"once", "daily"}
  Repeat <- MCRepeat
  Watched = {a1}
  StallLimit = 1
  Weekend = {1}
  MaxQuarter = 11
  MaxRegistered = 2
  MaxRaised = 1
  Totals = {4, 5}
  ChildSize = 2
  Duration = 3
  Profile <- MCProfile
  ISTimes = {0, 3}
  Brokers = {p1, p2}
  Preferred = p1
  Desks = {d1, d2, d3}
  Notionals = {2, 4, 5}
  Limit = 10
  HardLimit = 9
  Quantities = {0, 1, 2, 3}
  MaxQty = 2
  InternalizeArb = FALSE
  MaxOrders = 3
  MaxCommands = 3
INVARIANTS
  RingIsSound
  FixIsSound
  CreditIsSound
  CrossesWhatItHolds
PROPERTIES
  DeliveryIsSound
  EntriesAreHandled
  ClockIsSound
  SlicingIsSound
  PipelineIsSound
CHECK_DEADLOCK FALSE
