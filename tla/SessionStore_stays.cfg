SPECIFICATION Spec
CONSTANTS
  a1 = a1
  a2 = a2
  r1 = r1
  r2 = r2
  c1 = c1
  c2 = c2
  Poll = poll
  Keep = keep
  NoOne = NoOne
  None = None
  Accounts <- OneAccount
  Requests <- TwoRequests
  Ops <- NoLogout
  Env <- Weather
  Cookies <- OneCookie
SYMMETRY Symmetric
INVARIANTS NoSpuriousLogout 
