------------------------------- MODULE MCServer -------------------------------
(* One client with two streams and one or two requests: streams of a client  *)
(* meet in the map, a lookup meets a login and the sweep.                    *)
EXTENDS Server, TLC

CONSTANTS c1, s1, s2, r1, r2

OneClient   == {c1}
TwoStreams  == {s1, s2}
OneStream   == {s1}
AllOfOne    == [s \in Streams |-> c1]
OneRequest  == {r1}
TwoRequests == {r1, r2}

==============================================================================
