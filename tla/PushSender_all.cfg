SPECIFICATION FairSpec
CONSTANTS
  w1 = w1
  w2 = w2
  t1 = t1
  t2 = t2
  favoritos = favoritos
  f1 = f1
  Favorites = favoritos
  Workers <- TwoWorkers
  Tokens <- TwoTokens
  Kinds <- OneKind
  Threads <- OneThread
  BadTags <- OneThread
  QueueSize = 1
  Concurrency = 1
  MaxRetries = 1
  MaxJobs = 2
INVARIANTS
  TypeOK
  NoneLeft
PROPERTIES
  OlderOnlyBeside
  
  OnlyOauthStops
CHECK_DEADLOCK FALSE
