SPECIFICATION Spec
CONSTANTS
  api = api
  d1 = d1
  d2 = d2
  w1 = w1
  a1 = a1
  a2 = a2
  p1 = p1
  p2 = p2
  Api = api
  EnvAccount = a1
  None = None
  Devices <- ThreeTokens
  Watches <- OneWatch
  Accounts <- TwoAccounts
  Procs <- TwoProcs
  Ops <- AllOps
  Env <- AllFaults
  MaxChanges = 2
SYMMETRY Symmetric
INVARIANTS
  TypeOK
  OneSession
  RevokedStaysOut
PROPERTY AnswersOwn
