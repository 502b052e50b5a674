---------------------------- MODULE MCPollSession ----------------------------
(* PollSession with two accounts, one favorite thread, counters up to one    *)
(* and a breaker whose windows grow once (2) and then reach their cap (3).   *)
EXTENDS PollSession, TLC

CONSTANTS a1, a2, t1

TwoAccounts == {a1, a2}
OneThread   == {t1}

==============================================================================
