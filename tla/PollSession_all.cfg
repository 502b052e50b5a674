SPECIFICATION FairSpec
CONSTANTS
  a1 = a1
  a2 = a2
  t1 = t1
  Accounts <- TwoAccounts
  Threads <- OneThread
  MaxCount = 1
  BreakerShift = 2
  BreakerMaxSkip = 3
  MaxFails = 3
INVARIANTS
  TypeOK
  ToldIsPrev
  Backoff
PROPERTIES
  
  CatchesUp
