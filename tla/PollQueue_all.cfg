SPECIFICATION FairSpec
CONSTANTS
  c1 = c1
  c2 = c2
  w1 = w1
  w2 = w2
  p1 = p1
  NoClient = NoClient
  Clients <- MCClients
  PollWorkers <- TwoWorkers
  PushWorkers <- OnePusher
  PollQueueSize = 1
  PushQueueSize = 1
INVARIANTS
  TypeOK
  OneJobPerClient
  PushClosedAfterProducers
  StopDrains
PROPERTIES
  ImplementsSlots
  SlotReturns
  
CHECK_DEADLOCK FALSE
