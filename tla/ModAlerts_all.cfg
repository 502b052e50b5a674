SPECIFICATION Spec
CONSTANTS
  g1 = g1
  r1 = r1
  c1 = c1
  s1 = s1
  x1 = x1
  x2 = x2
  Slugs <- OneSlug
  Requests <- OneRequest
  Chats <- OneChat
  Savers <- OneSaver
  Reports <- TwoReports
  MaxChanges = 3
SYMMETRY Symmetric
INVARIANTS
  TypeOK
  
PROPERTY NoRepeat
CHECK_DEADLOCK FALSE
