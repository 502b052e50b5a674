----------------------------- MODULE MCPollQueue -----------------------------
(* PollQueue with two clients and, by the configuration, one or two workers: *)
(* with queues of one place, queues fill, jobs wait and jobs overlap.        *)
EXTENDS PollQueue, TLC

CONSTANTS c1, c2, w1, w2, p1

MCClients == {c1, c2}
TwoWorkers == {w1, w2}
OneWorker == {w1}
OnePusher == {p1}

==============================================================================
