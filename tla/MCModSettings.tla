---------------------------- MODULE MCModSettings ----------------------------
(* Two subforums with two requests, of the same or of different ones, and    *)
(* two chats, whose saves may overlap.                                       *)
EXTENDS ModSettings, TLC

CONSTANTS g1, g2, r1, r2, c1, c2, s1, s2

TwoSlugs    == {g1, g2}
TwoRequests == {r1, r2}
TwoChats    == {c1, c2}
TwoSavers   == {s1, s2}

==============================================================================
