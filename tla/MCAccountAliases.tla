-------------------------- MODULE MCAccountAliases --------------------------
(* AccountAliases with the API token, two phones and a watch.               *)
EXTENDS AccountAliases, TLC

CONSTANTS api, d1, d2, w1, a1, a2, p1, p2

NoApi       == {d1}
ThreeTokens == {api, d1, d2}
OneWatch    == {w1}
TwoAccounts == {a1, a2}
OneProc     == {p1}
TwoProcs    == {p1, p2}

AllOps      == {"data", "logout", "pair", "revoke", "login"}
LoginOps    == {"data", "login"}
AllFaults   == {"read", "restore", "crash", "poll"}
NoFault     == {}
Symmetric   == Permutations({d1, d2}) \cup Permutations({p1, p2})

=============================================================================
