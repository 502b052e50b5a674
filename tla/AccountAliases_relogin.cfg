SPECIFICATION Spec
CONSTANTS
  api = api
  d1 = d1
  d2 = d2
  w1 = w1
  a1 = a1
  a2 = a2
  p1 = p1
  p2 = p2
  Api = api
  EnvAccount = a1
  None = None
  Devices <- NoApi
  Watches <- OneWatch
  Accounts <- TwoAccounts
  Procs <- OneProc
  Ops <- LoginOps
  Env <- NoFault
  MaxChanges = 2
INVARIANT LoginHolds
