SPECIFICATION FairServerSpec
CONSTANTS
  c1 = c1
  s1 = s1
  s2 = s2
  r1 = r1
  r2 = r2
  Clients <- OneClient
  Streams <- TwoStreams
  Owner <- AllOfOne
  Requests <- OneRequest
  Buffer = 1
  MaxEvents = 2
INVARIANTS
  ServerTypeOK
  Accounted
  LateWriters
PROPERTIES
  
  PublishEnds
  LookupEnds
CHECK_DEADLOCK FALSE
