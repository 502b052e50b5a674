----------------------------- MODULE MCModAlerts -----------------------------
(* One subforum with two reports, subscribed and unsubscribed meanwhile, and *)
(* one chat.  A check takes the subforums one by one: a second adds nothing. *)
EXTENDS ModAlerts, TLC

CONSTANTS g1, r1, c1, s1, x1, x2

OneSlug    == {g1}
OneRequest == {r1}
OneChat    == {c1}
OneSaver   == {s1}
TwoReports == {x1, x2}
Symmetric  == Permutations({x1, x2})

==============================================================================
