SPECIFICATION Spec
CONSTANTS
  t1 = t1
  t2 = t2
  r1 = r1
  r2 = r2
  NoThread = NoThread
  Threads <- TwoThreads
  Requests <- TwoRequests
  BareAnswers = TRUE
  Renewals = TRUE
SYMMETRY Symmetric
INVARIANTS
  OneThreadPerPost
  LandsIfUndisturbed
  RepeatNeedsRenewal
