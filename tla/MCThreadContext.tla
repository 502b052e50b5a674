--------------------------- MODULE MCThreadContext ---------------------------
(* ThreadContext with two threads, and one or two requests that share the    *)
(* scraper.                                                                  *)
EXTENDS ThreadContext, TLC

CONSTANTS t1, t2, r1, r2

TwoThreads  == {t1, t2}
OneRequest  == {r1}
TwoRequests == {r1, r2}
Symmetric   == Permutations(TwoThreads) \cup Permutations(TwoRequests)

==============================================================================
