---------------------------- MODULE MCSessionStore ----------------------------
(* SessionStore for one token with one or two accounts and requests.         *)
EXTENDS SessionStore, TLC

CONSTANTS a1, a2, r1, r2, c1, c2

OneAccount  == {a1}
TwoAccounts == {a1, a2}
OneRequest  == {r1}
TwoRequests == {r1, r2}
TwoCookies  == {c1, c2}
OneCookie   == {c1}

Symmetric   == Permutations(TwoRequests) \cup Permutations(TwoCookies)

NoLogout    == {"data", "login"}
NoData      == {"login", "logout"}

Weather     == {"guard", "read", "crash"}
Hardware    == {"age", "write"}
NoFault     == {}
OnlyAge     == {"age"}
AgedRestart == {"age", "crash"}

==============================================================================
