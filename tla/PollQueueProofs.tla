--------------------------- MODULE PollQueueProofs ---------------------------
(***************************************************************************)
(* Proofs about PollQueue for any clients, workers and queue sizes.        *)
(***************************************************************************)
EXTENDS PollQueue, TLAPS

------------------------------------------------------------------------------
(* Taking the head of a queue without repetition removes just that element. *)
LEMMA TailRange ==
    ASSUME NEW S, NEW q \in Seq(S), q # <<>>
    PROVE  /\ Head(q) \in S
           /\ Tail(q) \in Seq(S)
           /\ Range(q) = Range(Tail(q)) \cup {Head(q)}
           /\ IsInjective(q) => IsInjective(Tail(q)) /\ Head(q) \notin Range(Tail(q))
<1>1. Len(q) \in Nat \ {0} /\ DOMAIN q = 1..Len(q) /\ Head(q) = q[1]
  OBVIOUS
<1>2. /\ Tail(q) \in Seq(S) /\ Len(Tail(q)) = Len(q) - 1
      /\ DOMAIN Tail(q) = 1..(Len(q) - 1)
  OBVIOUS
<1>3. \A i \in 1..(Len(q) - 1) : Tail(q)[i] = q[i + 1]
  OBVIOUS
<1>4. \A j \in 1..Len(q) : j = 1 \/ (j - 1 \in 1..(Len(q) - 1) /\ q[j] = Tail(q)[j - 1])
  BY <1>1, <1>3
<1>5. Range(q) = Range(Tail(q)) \cup {Head(q)}
  <2>1. ASSUME NEW j \in DOMAIN q PROVE q[j] \in Range(Tail(q)) \cup {Head(q)}
    <3>1. CASE j = 1
      BY <3>1, <1>1
    <3>2. CASE j - 1 \in DOMAIN Tail(q) /\ q[j] = Tail(q)[j - 1]
      BY <3>2 DEF Range
    <3>3. QED  BY <2>1, <3>1, <3>2, <1>1, <1>2, <1>4
  <2>2. ASSUME NEW j \in DOMAIN Tail(q) PROVE Tail(q)[j] \in Range(q)
    <3>1. j + 1 \in DOMAIN q /\ Tail(q)[j] = q[j + 1]
      BY <1>1, <1>2, <1>3
    <3>2. QED  BY <3>1 DEF Range
  <2>3. Head(q) \in Range(q)
    <3>1. 1 \in DOMAIN q
      BY <1>1
    <3>2. QED  BY <3>1, <1>1 DEF Range
  <2>4. QED  BY <2>1, <2>2, <2>3 DEF Range
<1>6. ASSUME IsInjective(q) PROVE IsInjective(Tail(q))
  <2>1. ASSUME NEW a \in 1..(Len(q) - 1), NEW b \in 1..(Len(q) - 1),
               Tail(q)[a] = Tail(q)[b]
        PROVE  a = b
    <3>1. q[a + 1] = q[b + 1] /\ a + 1 \in DOMAIN q /\ b + 1 \in DOMAIN q
      BY <1>1, <1>3, <2>1
    <3>2. a + 1 = b + 1
      BY <1>6, <3>1 DEF IsInjective
    <3>3. QED  BY <3>2
  <2>2. QED  BY <2>1, <1>2 DEF IsInjective
<1>7. ASSUME IsInjective(q) PROVE Head(q) \notin Range(Tail(q))
  <2>1. ASSUME NEW a \in 1..(Len(q) - 1), Tail(q)[a] = Head(q)
        PROVE  FALSE
    <3>1. q[a + 1] = q[1] /\ a + 1 \in DOMAIN q /\ 1 \in DOMAIN q
      BY <1>1, <1>3, <2>1
    <3>2. a + 1 = 1
      BY <1>7, <3>1 DEF IsInjective
    <3>3. QED  BY <3>2
  <2>2. QED  BY <2>1, <1>2 DEF Range
<1>8. QED  BY <1>1, <1>2, <1>5, <1>6, <1>7

(* Appending a new element adds just that element and keeps it unrepeated.  *)
LEMMA AppendRange ==
    ASSUME NEW S, NEW q \in Seq(S), NEW e \in S
    PROVE  /\ Append(q, e) \in Seq(S)
           /\ Append(q, e) # <<>>
           /\ Range(Append(q, e)) = Range(q) \cup {e}
           /\ IsInjective(q) /\ e \notin Range(q) => IsInjective(Append(q, e))
<1>1. /\ Append(q, e) \in Seq(S) /\ Len(Append(q, e)) = Len(q) + 1
      /\ DOMAIN Append(q, e) = 1..(Len(q) + 1) /\ DOMAIN q = 1..Len(q)
      /\ Len(q) \in Nat
  OBVIOUS
<1>2. /\ \A i \in 1..Len(q) : Append(q, e)[i] = q[i]
      /\ Append(q, e)[Len(q) + 1] = e
  OBVIOUS
<1>3. \A j \in 1..(Len(q) + 1) : j \in 1..Len(q) \/ j = Len(q) + 1
  BY <1>1
<1>4. Range(Append(q, e)) = Range(q) \cup {e}
  BY <1>1, <1>2, <1>3 DEF Range
<1>5. ASSUME IsInjective(q), e \notin Range(q)
      PROVE  IsInjective(Append(q, e))
  BY <1>1, <1>2, <1>3, <1>5 DEF Range, IsInjective
<1>6. QED  BY <1>1, <1>4, <1>5

(* The range of the empty queue is empty.                                   *)
LEMMA EmptyQueue ==
    /\ \A S : <<>> \in Seq(S)
    /\ Range(<<>>) = {} /\ IsInjective(<<>>)
BY DEF Range, IsInjective

------------------------------------------------------------------------------
(***************************************************************************)
(* The strengthening of the invariants.  Holders ties each job to the pc   *)
(* of the goroutine that holds it; Phases ties the channels and the        *)
(* workers to the place Stop has reached.                                  *)
(***************************************************************************)
Holders ==
    /\ pollPc = "send" <=> pending # NoClient
    /\ \A w \in PollWorkers : Busy(w) <=> wjob[w] # NoClient
    /\ \A v \in PushWorkers : Sending(v) <=> pjob[v] # NoClient

Phases ==
    /\ pollClosed => stage \notin {"new", "running", "closePoll"}
    /\ pushClosed => stage \in {"waitPush", "stopped"}
    /\ stage \in {"takePush", "closePush", "waitPush", "stopped"} => WaitPoll
    /\ stage = "stopped" => WaitPush
    /\ \A w \in PollWorkers : wpc[w] = "exit" => pollClosed /\ pollQ = <<>>
    /\ \A v \in PushWorkers : ppc[v] = "exit" => pushClosed /\ pushQ = <<>>
    /\ stage = "new" =>
           /\ pollPc = "none"
           /\ \A w \in PollWorkers : wpc[w] = "none"
           /\ \A v \in PushWorkers : ppc[v] = "none"

IInv == TypeOK /\ Holders /\ Phases /\ OneJobPerClient

(* Nothing is queued, held or promised before Start.                        *)
LEMMA InitIInv == Init => IInv
<1>1. SUFFICES ASSUME Init PROVE IInv
  OBVIOUS
<1>2. TypeOK
  <2>1. pollQ \in Seq(Clients) /\ pushQ \in Seq(Clients)
    BY <1>1, EmptyQueue DEF Init
  <2>2. wjob \in [PollWorkers -> Clients \cup {NoClient}]
    BY <1>1 DEF Init
  <2>3. pjob \in [PushWorkers -> Clients \cup {NoClient}]
    BY <1>1 DEF Init
  <2>4. QED
    BY <1>1, <2>1, <2>2, <2>3
       DEF Init, TypeOK, Stages, PollPcs, WorkPcs, PushPcs
<1>3. Holders
  BY <1>1 DEF Init, Holders, Busy, Sending
<1>4. Phases
  BY <1>1 DEF Init, Phases
<1>5. OneJobPerClient
  BY <1>1, EmptyQueue
     DEF Init, OneJobPerClient, Queued, Held, Claims, Busy
<1>6. QED  BY <1>2, <1>3, <1>4, <1>5 DEF IInv

(* Types are kept; what a job is rests on Holders. *)
LEMMA TypeStep == ASSUME IInv, Next PROVE TypeOK'
<1> USE DEF ByMain, StopStep, ByPoller, Tick, ByPollWorker, Work, Push,
            ClearInflight, tickVars, workVars, pushVars, chanVars
<1> USE QueueAssumption DEF IInv
<1>1. CASE Start
  BY <1>1 DEF Start, TypeOK, Stages, PollPcs, WorkPcs, PushPcs
<1>2. CASE StopFields
  BY <1>2 DEF StopFields, TypeOK, Stages, PollPcs, WorkPcs, PushPcs
<1>3. CASE StopClosePoll
  BY <1>3 DEF StopClosePoll, TypeOK, Stages, PollPcs, WorkPcs, PushPcs
<1>4. CASE StopWaitPoll
  BY <1>4 DEF StopWaitPoll, TypeOK, Stages, PollPcs, WorkPcs, PushPcs
<1>5. CASE StopTakePush
  BY <1>5 DEF StopTakePush, TypeOK, Stages, PollPcs, WorkPcs, PushPcs
<1>6. CASE StopClosePush
  BY <1>6 DEF StopClosePush, TypeOK, Stages, PollPcs, WorkPcs, PushPcs
<1>7. CASE StopWaitPush
  BY <1>7 DEF StopWaitPush, TypeOK, Stages, PollPcs, WorkPcs, PushPcs
<1>8. CASE Baseline
  BY <1>8 DEF Baseline, TypeOK, Stages, PollPcs, WorkPcs, PushPcs
<1>9. CASE EnterSelect
  BY <1>9 DEF EnterSelect, TypeOK, Stages, PollPcs, WorkPcs, PushPcs
<1>10. CASE SelectStop
  BY <1>10 DEF SelectStop, TypeOK, Stages, PollPcs, WorkPcs, PushPcs
<1>11. CASE SelectTick
  BY <1>11 DEF SelectTick, TypeOK, Stages, PollPcs, WorkPcs, PushPcs
<1>12. CASE CheckSnapshot
  BY <1>12 DEF CheckSnapshot, TypeOK, Stages, PollPcs, WorkPcs, PushPcs
<1>13. CASE CheckSessions
  BY <1>13 DEF CheckSessions, TypeOK, Stages, PollPcs, WorkPcs, PushPcs
<1>14. CASE Send
  <2>1. pending \in Clients
    BY <1>14 DEF Send, Holders, TypeOK
  <2>2. Append(pollQ, pending) \in Seq(Clients)
    BY <2>1, AppendRange DEF TypeOK
  <2>3. pollQ' \in Seq(Clients) /\ inflight' \subseteq Clients /\ panicked' \in BOOLEAN
    BY <1>14, <2>2 DEF Send, TypeOK
  <2>4. QED
    BY <1>14, <2>3 DEF Send, TypeOK, Stages, PollPcs, WorkPcs, PushPcs
<1>15. CASE FeedDone
  BY <1>15 DEF FeedDone, TypeOK, Stages, PollPcs, WorkPcs, PushPcs
<1>16. ASSUME NEW c \in Clients, Feed(c) PROVE TypeOK'
  BY <1>16 DEF Feed, MarkInflight, KeepsInflight,
     TypeOK, Stages, PollPcs, WorkPcs, PushPcs
<1>17. ASSUME NEW w \in PollWorkers, Recv(w) PROVE TypeOK'
  BY <1>17, TailRange DEF Recv, TypeOK, Stages, PollPcs, WorkPcs, PushPcs
<1>18. ASSUME NEW w \in PollWorkers, RecvClosed(w) PROVE TypeOK'
  BY <1>18 DEF RecvClosed, TypeOK, Stages, PollPcs, WorkPcs, PushPcs
<1>19. ASSUME NEW w \in PollWorkers, ReadLimiter(w) PROVE TypeOK'
  BY <1>19 DEF ReadLimiter, TypeOK, Stages, PollPcs, WorkPcs, PushPcs
<1>20. ASSUME NEW w \in PollWorkers, Discard(w) PROVE TypeOK'
  BY <1>20 DEF Discard, TypeOK, Stages, PollPcs, WorkPcs, PushPcs
<1>21. ASSUME NEW w \in PollWorkers, BeginScrape(w) PROVE TypeOK'
  BY <1>21 DEF BeginScrape, TypeOK, Stages, PollPcs, WorkPcs, PushPcs
<1>22. ASSUME NEW w \in PollWorkers, ScrapeQuiet(w) PROVE TypeOK'
  BY <1>22 DEF ScrapeQuiet, TypeOK, Stages, PollPcs, WorkPcs, PushPcs
<1>23. ASSUME NEW w \in PollWorkers, ScrapePush(w) PROVE TypeOK'
  BY <1>23 DEF ScrapePush, TypeOK, Stages, PollPcs, WorkPcs, PushPcs
<1>24. ASSUME NEW w \in PollWorkers, PushSend(w) PROVE TypeOK'
  <2>1. wjob[w] \in Clients
    BY <1>24 DEF PushSend, Holders, Busy, TypeOK
  <2>2. Append(pushQ, wjob[w]) \in Seq(Clients)
    BY <2>1, AppendRange DEF TypeOK
  <2>3. pushQ' \in Seq(Clients) /\ panicked' \in BOOLEAN
    BY <1>24, <2>2 DEF PushSend, TypeOK
  <2>4. QED
    BY <1>24, <2>3 DEF PushSend, TypeOK, Stages, PollPcs, WorkPcs, PushPcs
<1>25. ASSUME NEW w \in PollWorkers, JobDone(w) PROVE TypeOK'
  BY <1>25 DEF JobDone, TypeOK, Stages, PollPcs, WorkPcs, PushPcs
<1>26. ASSUME NEW v \in PushWorkers, PushRecv(v) PROVE TypeOK'
  BY <1>26, TailRange DEF PushRecv, TypeOK, Stages, PollPcs, WorkPcs, PushPcs
<1>27. ASSUME NEW v \in PushWorkers, PushRecvClosed(v) PROVE TypeOK'
  BY <1>27 DEF PushRecvClosed, TypeOK, Stages, PollPcs, WorkPcs, PushPcs
<1>28. ASSUME NEW v \in PushWorkers, Deliver(v) PROVE TypeOK'
  BY <1>28 DEF Deliver, TypeOK, Stages, PollPcs, WorkPcs, PushPcs
<1>29. QED
  BY <1>1, <1>2, <1>3, <1>4, <1>5, <1>6, <1>7, <1>8, <1>9, <1>10, <1>11, <1>12, <1>13, <1>14,
     <1>15, <1>16, <1>17, <1>18, <1>19, <1>20, <1>21, <1>22, <1>23, <1>24, <1>25, <1>26, <1>27, <1>28
     DEF Next, StopSteps, Poller, PollWorker, PushWorker

(* Each job stays with the goroutine that holds it. *)
LEMMA HoldersStep == ASSUME IInv, Next PROVE Holders'
<1> USE DEF ByMain, StopStep, ByPoller, Tick, ByPollWorker, Work, Push,
            ClearInflight, tickVars, workVars, pushVars, chanVars
<1> USE DEF IInv
<1>1. CASE Start
  BY <1>1 DEF Start, Phases, Holders, Busy, Sending, TypeOK
<1>2. CASE StopFields
  BY <1>2 DEF StopFields, Holders, Busy, Sending, TypeOK
<1>3. CASE StopClosePoll
  BY <1>3 DEF StopClosePoll, Holders, Busy, Sending, TypeOK
<1>4. CASE StopWaitPoll
  BY <1>4 DEF StopWaitPoll, Holders, Busy, Sending, TypeOK
<1>5. CASE StopTakePush
  BY <1>5 DEF StopTakePush, Holders, Busy, Sending, TypeOK
<1>6. CASE StopClosePush
  BY <1>6 DEF StopClosePush, Holders, Busy, Sending, TypeOK
<1>7. CASE StopWaitPush
  BY <1>7 DEF StopWaitPush, Holders, Busy, Sending, TypeOK
<1>8. CASE Baseline
  BY <1>8 DEF Baseline, Holders, Busy, Sending, TypeOK
<1>9. CASE EnterSelect
  BY <1>9 DEF EnterSelect, Holders, Busy, Sending, TypeOK
<1>10. CASE SelectStop
  BY <1>10 DEF SelectStop, Holders, Busy, Sending, TypeOK
<1>11. CASE SelectTick
  BY <1>11 DEF SelectTick, Holders, Busy, Sending, TypeOK
<1>12. CASE CheckSnapshot
  BY <1>12 DEF CheckSnapshot, Holders, Busy, Sending, TypeOK
<1>13. CASE CheckSessions
  BY <1>13 DEF CheckSessions, Holders, Busy, Sending, TypeOK
<1>14. CASE Send
  BY <1>14 DEF Send, Holders, Busy, Sending, TypeOK
<1>15. CASE FeedDone
  BY <1>15 DEF FeedDone, Holders, Busy, Sending, TypeOK
<1>16. ASSUME NEW c \in Clients, Feed(c) PROVE Holders'
  BY <1>16, QueueAssumption DEF Feed, MarkInflight, KeepsInflight, Holders, Busy, Sending, TypeOK
<1>17. ASSUME NEW w \in PollWorkers, Recv(w) PROVE Holders'
  BY <1>17, TailRange, QueueAssumption DEF Recv, Holders, Busy, Sending, TypeOK
<1>18. ASSUME NEW w \in PollWorkers, RecvClosed(w) PROVE Holders'
  BY <1>18 DEF RecvClosed, Holders, Busy, Sending, TypeOK
<1>19. ASSUME NEW w \in PollWorkers, ReadLimiter(w) PROVE Holders'
  BY <1>19 DEF ReadLimiter, Holders, Busy, Sending, TypeOK
<1>20. ASSUME NEW w \in PollWorkers, Discard(w) PROVE Holders'
  BY <1>20 DEF Discard, Holders, Busy, Sending, TypeOK
<1>21. ASSUME NEW w \in PollWorkers, BeginScrape(w) PROVE Holders'
  BY <1>21 DEF BeginScrape, Holders, Busy, Sending, TypeOK
<1>22. ASSUME NEW w \in PollWorkers, ScrapeQuiet(w) PROVE Holders'
  BY <1>22 DEF ScrapeQuiet, Holders, Busy, Sending, TypeOK
<1>23. ASSUME NEW w \in PollWorkers, ScrapePush(w) PROVE Holders'
  BY <1>23 DEF ScrapePush, Holders, Busy, Sending, TypeOK
<1>24. ASSUME NEW w \in PollWorkers, PushSend(w) PROVE Holders'
  BY <1>24 DEF PushSend, OneJobPerClient, Holders, Busy, Sending, TypeOK
<1>25. ASSUME NEW w \in PollWorkers, JobDone(w) PROVE Holders'
  BY <1>25 DEF JobDone, Holders, Busy, Sending, TypeOK
<1>26. ASSUME NEW v \in PushWorkers, PushRecv(v) PROVE Holders'
  BY <1>26, TailRange, QueueAssumption DEF PushRecv, Holders, Busy, Sending, TypeOK
<1>27. ASSUME NEW v \in PushWorkers, PushRecvClosed(v) PROVE Holders'
  BY <1>27 DEF PushRecvClosed, Holders, Busy, Sending, TypeOK
<1>28. ASSUME NEW v \in PushWorkers, Deliver(v) PROVE Holders'
  BY <1>28 DEF Deliver, Holders, Busy, Sending, TypeOK
<1>29. QED
  BY <1>1, <1>2, <1>3, <1>4, <1>5, <1>6, <1>7, <1>8, <1>9, <1>10, <1>11, <1>12, <1>13, <1>14,
     <1>15, <1>16, <1>17, <1>18, <1>19, <1>20, <1>21, <1>22, <1>23, <1>24, <1>25, <1>26, <1>27, <1>28
     DEF Next, StopSteps, Poller, PollWorker, PushWorker

(* The channels and the workers stay in step with Stop. *)
LEMMA PhasesStep == ASSUME IInv, Next PROVE Phases'
<1> USE DEF ByMain, StopStep, ByPoller, Tick, ByPollWorker, Work, Push,
            ClearInflight, tickVars, workVars, pushVars, chanVars
<1> USE DEF IInv
<1>1. CASE Start
  BY <1>1 DEF Start, Phases, WaitPoll, WaitPush, TypeOK
<1>2. CASE StopFields
  BY <1>2 DEF StopFields, Phases, WaitPoll, WaitPush, TypeOK
<1>3. CASE StopClosePoll
  BY <1>3 DEF StopClosePoll, Phases, WaitPoll, WaitPush, TypeOK
<1>4. CASE StopWaitPoll
  BY <1>4 DEF StopWaitPoll, Phases, WaitPoll, WaitPush, TypeOK
<1>5. CASE StopTakePush
  BY <1>5 DEF StopTakePush, Phases, WaitPoll, WaitPush, TypeOK
<1>6. CASE StopClosePush
  BY <1>6 DEF StopClosePush, Phases, WaitPoll, WaitPush, TypeOK
<1>7. CASE StopWaitPush
  BY <1>7 DEF StopWaitPush, Phases, WaitPoll, WaitPush, TypeOK
<1>8. CASE Baseline
  BY <1>8 DEF Baseline, Phases, WaitPoll, WaitPush, TypeOK
<1>9. CASE EnterSelect
  BY <1>9 DEF EnterSelect, Phases, WaitPoll, WaitPush, TypeOK
<1>10. CASE SelectStop
  BY <1>10 DEF SelectStop, Phases, WaitPoll, WaitPush, TypeOK
<1>11. CASE SelectTick
  BY <1>11 DEF SelectTick, Phases, WaitPoll, WaitPush, TypeOK
<1>12. CASE CheckSnapshot
  BY <1>12 DEF CheckSnapshot, Phases, WaitPoll, WaitPush, TypeOK
<1>13. CASE CheckSessions
  BY <1>13 DEF CheckSessions, Phases, WaitPoll, WaitPush, TypeOK
<1>14. CASE Send
  BY <1>14 DEF Send, Phases, WaitPoll, WaitPush
<1>15. CASE FeedDone
  BY <1>15 DEF FeedDone, Phases, WaitPoll, WaitPush, TypeOK
<1>16. ASSUME NEW c \in Clients, Feed(c) PROVE Phases'
  BY <1>16 DEF Feed, Phases, WaitPoll, WaitPush
<1>17. ASSUME NEW w \in PollWorkers, Recv(w) PROVE Phases'
  BY <1>17 DEF Recv, Phases, WaitPoll, WaitPush, TypeOK
<1>18. ASSUME NEW w \in PollWorkers, RecvClosed(w) PROVE Phases'
  BY <1>18 DEF RecvClosed, Phases, WaitPoll, WaitPush, TypeOK
<1>19. ASSUME NEW w \in PollWorkers, ReadLimiter(w) PROVE Phases'
  BY <1>19 DEF ReadLimiter, Phases, WaitPoll, WaitPush, TypeOK
<1>20. ASSUME NEW w \in PollWorkers, Discard(w) PROVE Phases'
  BY <1>20 DEF Discard, Phases, WaitPoll, WaitPush, TypeOK
<1>21. ASSUME NEW w \in PollWorkers, BeginScrape(w) PROVE Phases'
  BY <1>21 DEF BeginScrape, Phases, WaitPoll, WaitPush, TypeOK
<1>22. ASSUME NEW w \in PollWorkers, ScrapeQuiet(w) PROVE Phases'
  BY <1>22 DEF ScrapeQuiet, Phases, WaitPoll, WaitPush, TypeOK
<1>23. ASSUME NEW w \in PollWorkers, ScrapePush(w) PROVE Phases'
  BY <1>23 DEF ScrapePush, Phases, WaitPoll, WaitPush, TypeOK
<1>24. ASSUME NEW w \in PollWorkers, PushSend(w) PROVE Phases'
  BY <1>24, QueueAssumption DEF PushSend, Phases, WaitPoll, WaitPush, TypeOK
<1>25. ASSUME NEW w \in PollWorkers, JobDone(w) PROVE Phases'
  BY <1>25 DEF JobDone, Phases, WaitPoll, WaitPush, TypeOK
<1>26. ASSUME NEW v \in PushWorkers, PushRecv(v) PROVE Phases'
  BY <1>26 DEF PushRecv, Phases, WaitPoll, WaitPush, TypeOK
<1>27. ASSUME NEW v \in PushWorkers, PushRecvClosed(v) PROVE Phases'
  BY <1>27 DEF PushRecvClosed, Phases, WaitPoll, WaitPush, TypeOK
<1>28. ASSUME NEW v \in PushWorkers, Deliver(v) PROVE Phases'
  BY <1>28 DEF Deliver, Phases, WaitPoll, WaitPush, TypeOK
<1>29. QED
  BY <1>1, <1>2, <1>3, <1>4, <1>5, <1>6, <1>7, <1>8, <1>9, <1>10, <1>11, <1>12, <1>13, <1>14,
     <1>15, <1>16, <1>17, <1>18, <1>19, <1>20, <1>21, <1>22, <1>23, <1>24, <1>25, <1>26, <1>27, <1>28
     DEF Next, StopSteps, Poller, PollWorker, PushWorker

(* A claim moves from the tick to the queue to a worker, and ends once. *)
LEMMA JobsStep == ASSUME IInv, Next PROVE OneJobPerClient'
<1> USE DEF ByMain, StopStep, ByPoller, Tick, ByPollWorker, Work, Push,
            ClearInflight, tickVars, workVars, pushVars, chanVars
<1> USE DEF IInv
<1>1. CASE Start
  BY <1>1 DEF Start, Phases, OneJobPerClient, Queued, Held, Claims, Busy
<1>2. CASE StopFields
  BY <1>2 DEF StopFields, OneJobPerClient, Queued, Held, Claims, Busy
<1>3. CASE StopClosePoll
  BY <1>3 DEF StopClosePoll, OneJobPerClient, Queued, Held, Claims, Busy
<1>4. CASE StopWaitPoll
  BY <1>4 DEF StopWaitPoll, OneJobPerClient, Queued, Held, Claims, Busy
<1>5. CASE StopTakePush
  BY <1>5 DEF StopTakePush, OneJobPerClient, Queued, Held, Claims, Busy
<1>6. CASE StopClosePush
  BY <1>6 DEF StopClosePush, OneJobPerClient, Queued, Held, Claims, Busy
<1>7. CASE StopWaitPush
  BY <1>7 DEF StopWaitPush, OneJobPerClient, Queued, Held, Claims, Busy
<1>8. CASE Baseline
  BY <1>8 DEF Baseline, OneJobPerClient, Queued, Held, Claims, Busy
<1>9. CASE EnterSelect
  BY <1>9 DEF EnterSelect, OneJobPerClient, Queued, Held, Claims, Busy
<1>10. CASE SelectStop
  BY <1>10 DEF SelectStop, OneJobPerClient, Queued, Held, Claims, Busy
<1>11. CASE SelectTick
  BY <1>11 DEF SelectTick, OneJobPerClient, Queued, Held, Claims, Busy
<1>12. CASE CheckSnapshot
  BY <1>12 DEF CheckSnapshot, OneJobPerClient, Queued, Held, Claims, Busy
<1>13. CASE CheckSessions
  BY <1>13 DEF CheckSessions, OneJobPerClient, Queued, Held, Claims, Busy
<1>14. CASE Send
  <2>1. /\ Held' = Held /\ Claims = {pending} /\ Claims' = {}
        /\ pending \in Clients /\ ~panicked
        /\ \A x \in PollWorkers : (Busy(x)' <=> Busy(x)) /\ wjob'[x] = wjob[x]
    BY <1>14 DEF Send, Claims, Held, Busy, Holders, TypeOK
  <2>2. CASE pollClosed
    BY <1>14, <2>2 DEF Send, OneJobPerClient
  <2>3. CASE inflight' = inflight /\ pollQ' = Append(pollQ, pending)
    <3>1. /\ Queued' = Queued \cup {pending}
          /\ IsInjective(pollQ) /\ pending \notin Queued => IsInjective(pollQ')
      BY <2>1, <2>3, AppendRange DEF Queued, TypeOK
    <3>2. QED
      BY <2>1, <2>3, <3>1 DEF OneJobPerClient
  <2>4. CASE inflight' = inflight \ {pending} /\ pollQ' = pollQ
    BY <2>1, <2>4 DEF OneJobPerClient, Queued
  <2>5. QED
    BY <1>14, <2>2, <2>3, <2>4 DEF Send
<1>15. CASE FeedDone
  BY <1>15 DEF FeedDone, OneJobPerClient, Queued, Held, Claims, Busy
<1>16. ASSUME NEW c \in Clients, Feed(c) PROVE OneJobPerClient'
  <2>1. /\ pollQ' = pollQ /\ Queued' = Queued /\ Held' = Held
        /\ Claims = {} /\ ~panicked
        /\ \A x \in PollWorkers : (Busy(x)' <=> Busy(x)) /\ wjob'[x] = wjob[x]
    BY <1>16 DEF Feed, Claims, Queued, Held, Busy
  <2>2. CASE MarkInflight(c) /\ pollPc' = "send" /\ pending' = c
    BY <2>1, <2>2 DEF MarkInflight, OneJobPerClient, Claims
  <2>3. CASE KeepsInflight(c) /\ UNCHANGED <<pollPc, pending>>
    BY <2>1, <2>3 DEF KeepsInflight, OneJobPerClient, Claims
  <2>4. QED
    BY <1>16, <2>2, <2>3 DEF Feed
<1>17. ASSUME NEW w \in PollWorkers, Recv(w) PROVE OneJobPerClient'
  <2>1. /\ Head(pollQ) \in Clients
        /\ Queued = Queued' \cup {Head(pollQ)}
        /\ IsInjective(pollQ) => IsInjective(pollQ') /\ Head(pollQ) \notin Queued'
    BY <1>17, TailRange DEF Recv, Queued, TypeOK
  <2>2. /\ ~Busy(w) /\ Busy(w)' /\ wjob'[w] = Head(pollQ)
        /\ \A x \in PollWorkers \ {w} :
               (Busy(x)' <=> Busy(x)) /\ wjob'[x] = wjob[x]
    BY <1>17 DEF Recv, Busy, TypeOK
  <2>3. Held' = Held \cup {Head(pollQ)}
    BY <2>2 DEF Held
  <2>4. Claims' = Claims /\ inflight' = inflight /\ ~panicked /\ ~panicked'
    BY <1>17 DEF Recv, Claims
  <2>5. \A x \in PollWorkers : Busy(x) => wjob[x] \in Held
    BY DEF Held
  <2>6. QED
    BY <2>1, <2>2, <2>3, <2>4, <2>5 DEF OneJobPerClient
<1>18. ASSUME NEW w \in PollWorkers, RecvClosed(w) PROVE OneJobPerClient'
  <2>1. \A x \in PollWorkers : (Busy(x)' <=> Busy(x)) /\ wjob'[x] = wjob[x]
    BY <1>18 DEF RecvClosed, Busy, TypeOK
  <2>2. QED
    BY <1>18, <2>1 DEF RecvClosed, OneJobPerClient, Queued, Held, Claims
<1>19. ASSUME NEW w \in PollWorkers, ReadLimiter(w) PROVE OneJobPerClient'
  <2>1. \A x \in PollWorkers : (Busy(x)' <=> Busy(x)) /\ wjob'[x] = wjob[x]
    BY <1>19 DEF ReadLimiter, Busy, TypeOK
  <2>2. QED
    BY <1>19, <2>1 DEF ReadLimiter, OneJobPerClient, Queued, Held, Claims
<1>20. ASSUME NEW w \in PollWorkers, Discard(w) PROVE OneJobPerClient'
  <2>1. Busy(w) /\ wjob[w] \in Held
    BY <1>20 DEF Discard, Busy, Held
  <2>2. /\ ~Busy(w)'
        /\ \A x \in PollWorkers \ {w} :
               (Busy(x)' <=> Busy(x)) /\ wjob'[x] = wjob[x]
    BY <1>20 DEF Discard, Busy, TypeOK
  <2>3. Held' = Held \ {wjob[w]}
    BY <1>20, <2>1, <2>2 DEF Held, OneJobPerClient, Discard
  <2>4. /\ pollQ' = pollQ /\ Queued' = Queued /\ Claims' = Claims
        /\ inflight' = inflight \ {wjob[w]} /\ ~panicked /\ ~panicked'
    BY <1>20 DEF Discard, Claims, Queued
  <2>5. QED
    BY <2>1, <2>2, <2>3, <2>4 DEF OneJobPerClient
<1>21. ASSUME NEW w \in PollWorkers, BeginScrape(w) PROVE OneJobPerClient'
  <2>1. \A x \in PollWorkers : (Busy(x)' <=> Busy(x)) /\ wjob'[x] = wjob[x]
    BY <1>21 DEF BeginScrape, Busy, TypeOK
  <2>2. QED
    BY <1>21, <2>1 DEF BeginScrape, OneJobPerClient, Queued, Held, Claims
<1>22. ASSUME NEW w \in PollWorkers, ScrapeQuiet(w) PROVE OneJobPerClient'
  <2>1. \A x \in PollWorkers : (Busy(x)' <=> Busy(x)) /\ wjob'[x] = wjob[x]
    BY <1>22 DEF ScrapeQuiet, Busy, TypeOK
  <2>2. QED
    BY <1>22, <2>1 DEF ScrapeQuiet, OneJobPerClient, Queued, Held, Claims
<1>23. ASSUME NEW w \in PollWorkers, ScrapePush(w) PROVE OneJobPerClient'
  <2>1. \A x \in PollWorkers : (Busy(x)' <=> Busy(x)) /\ wjob'[x] = wjob[x]
    BY <1>23 DEF ScrapePush, Busy, TypeOK
  <2>2. QED
    BY <1>23, <2>1 DEF ScrapePush, OneJobPerClient, Queued, Held, Claims
<1>24. ASSUME NEW w \in PollWorkers, PushSend(w) PROVE OneJobPerClient'
  <2>1. \A x \in PollWorkers : (Busy(x)' <=> Busy(x)) /\ wjob'[x] = wjob[x]
    BY <1>24 DEF PushSend, Busy, TypeOK
  <2>2. QED
    BY <1>24, <2>1 DEF PushSend, OneJobPerClient, Queued, Held, Claims
<1>25. ASSUME NEW w \in PollWorkers, JobDone(w) PROVE OneJobPerClient'
  <2>1. Busy(w) /\ wjob[w] \in Held
    BY <1>25 DEF JobDone, Busy, Held
  <2>2. /\ ~Busy(w)'
        /\ \A x \in PollWorkers \ {w} :
               (Busy(x)' <=> Busy(x)) /\ wjob'[x] = wjob[x]
    BY <1>25 DEF JobDone, Busy, TypeOK
  <2>3. Held' = Held \ {wjob[w]}
    BY <1>25, <2>1, <2>2 DEF Held, OneJobPerClient, JobDone
  <2>4. /\ pollQ' = pollQ /\ Queued' = Queued /\ Claims' = Claims
        /\ inflight' = inflight \ {wjob[w]} /\ ~panicked /\ ~panicked'
    BY <1>25 DEF JobDone, Claims, Queued
  <2>5. QED
    BY <2>1, <2>2, <2>3, <2>4 DEF OneJobPerClient
<1>26. ASSUME NEW v \in PushWorkers, PushRecv(v) PROVE OneJobPerClient'
  BY <1>26 DEF PushRecv, OneJobPerClient, Queued, Held, Claims, Busy
<1>27. ASSUME NEW v \in PushWorkers, PushRecvClosed(v) PROVE OneJobPerClient'
  BY <1>27 DEF PushRecvClosed, OneJobPerClient, Queued, Held, Claims, Busy
<1>28. ASSUME NEW v \in PushWorkers, Deliver(v) PROVE OneJobPerClient'
  BY <1>28 DEF Deliver, OneJobPerClient, Queued, Held, Claims, Busy
<1>29. QED
  BY <1>1, <1>2, <1>3, <1>4, <1>5, <1>6, <1>7, <1>8, <1>9, <1>10, <1>11, <1>12, <1>13, <1>14,
     <1>15, <1>16, <1>17, <1>18, <1>19, <1>20, <1>21, <1>22, <1>23, <1>24, <1>25, <1>26, <1>27, <1>28
     DEF Next, StopSteps, Poller, PollWorker, PushWorker

(* The four parts of IInv are kept together by every step.                  *)
LEMMA IInvStep == IInv /\ [Next]_vars => IInv'
<1>1. SUFFICES ASSUME IInv, [Next]_vars PROVE IInv'
  OBVIOUS
<1>2. CASE Next
  BY <1>1, <1>2, TypeStep, HoldersStep, PhasesStep, JobsStep DEF IInv
<1>3. CASE UNCHANGED vars
  BY <1>1, <1>3
     DEF vars, tickVars, workVars, pushVars, chanVars, IInv, TypeOK, Holders,
         Phases, WaitPoll, WaitPush, OneJobPerClient, Queued, Held, Claims,
         Busy, Sending
<1>4. QED  BY <1>1, <1>2, <1>3

(* IInv holds in every reachable state.                                     *)
LEMMA Invariance == Spec => []IInv
<1>1. Init => IInv
  BY InitIInv
<1>2. IInv /\ [Next]_vars => IInv'
  BY IInvStep
<1>3. QED  BY <1>1, <1>2, PTL DEF Spec

------------------------------------------------------------------------------
(* Type correctness of the poller, for every queue size and worker count.   *)
THEOREM TypeCorrect == Spec => []TypeOK
<1>1. IInv => TypeOK
  BY DEF IInv
<1>2. QED  BY <1>1, Invariance, PTL

(* No client ever has two poll jobs, and no inflight mark is leaked         *)
(* (bubbles.go:284-351).                                                    *)
THEOREM OneJob == Spec => []OneJobPerClient
<1>1. IInv => OneJobPerClient
  BY DEF IInv
<1>2. QED  BY <1>1, Invariance, PTL

(* The push channel is closed only when no poll worker can send on it       *)
(* (bubbles.go:176-194).                                                    *)
THEOREM PushClose == Spec => []PushClosedAfterProducers
<1>1. IInv => PushClosedAfterProducers
  BY DEF IInv, Phases, WaitPoll, PushClosedAfterProducers
<1>2. QED  BY <1>1, Invariance, PTL

(* When Stop returns, no accepted job is left anywhere (bubbles.go:160-195).*)
THEOREM Drained == Spec => []StopDrains
<1>1. IInv => StopDrains
  BY QueueAssumption
     DEF IInv, Phases, WaitPoll, WaitPush, StopDrains, Held, Busy, Sending
<1>2. QED  BY <1>1, Invariance, PTL

------------------------------------------------------------------------------
(***************************************************************************)
(* The refinement: every step of the poller is a step of PollSlots or      *)
(* leaves every slot alone.                                                *)
(***************************************************************************)
slots == [c \in Clients |-> SlotOf(c)]
Scraping(w) == wpc[w] \in {"scrape", "push", "clear"}

(* A step that keeps the marks and what the workers scrape is a stutter.    *)
LEMMA SameSlots ==
    ASSUME inflight' = inflight, wjob' = wjob,
           \A x \in PollWorkers : Scraping(x)' <=> Scraping(x)
    PROVE  [Slots!Next]_slots
<1>1. \A c \in Clients : SlotOf(c)' = SlotOf(c)
  BY DEF SlotOf, Scraping
<1>2. QED  BY <1>1 DEF slots

(* Changing the slot of one client along an edge of PollSlots.              *)
LEMMA OneMoves ==
    ASSUME NEW c \in Clients, NEW from, NEW to,
           <<from, to>> \in {<<"free", "claimed">>, <<"claimed", "free">>,
                             <<"claimed", "scraping">>, <<"scraping", "free">>},
           SlotOf(c) = from, SlotOf(c)' = to,
           \A d \in Clients \ {c} : SlotOf(d)' = SlotOf(d)
    PROVE  [Slots!Next]_slots
<1>1. slots[c] = from /\ slots' = [slots EXCEPT ![c] = to]
  BY DEF slots
<1>2. Slots!Move(c, from, to)
  BY <1>1 DEF Slots!Move, slots
<1>3. QED
  BY <1>2 DEF Slots!Next, Slots!Claim, Slots!GiveBack, Slots!Scrape, Slots!Finish

(* Each action claims, gives back, scrapes, finishes, or leaves the slots. *)
LEMMA SlotStep == ASSUME IInv, Next PROVE [Slots!Next]_slots
<1> USE DEF ByMain, StopStep, ByPoller, Tick, ByPollWorker, Work, Push,
            ClearInflight, tickVars, workVars, pushVars, chanVars
<1> USE DEF IInv
<1>1. CASE Start
  <2>1. /\ inflight' = inflight /\ wjob' = wjob
        /\ \A x \in PollWorkers : Scraping(x)' <=> Scraping(x)
    BY <1>1 DEF Start, Phases, Scraping, TypeOK
  <2>2. QED
    BY <2>1, SameSlots
<1>2. CASE StopFields
  BY <1>2, SameSlots DEF StopFields, Scraping
<1>3. CASE StopClosePoll
  BY <1>3, SameSlots DEF StopClosePoll, Scraping
<1>4. CASE StopWaitPoll
  BY <1>4, SameSlots DEF StopWaitPoll, Scraping
<1>5. CASE StopTakePush
  BY <1>5, SameSlots DEF StopTakePush, Scraping
<1>6. CASE StopClosePush
  BY <1>6, SameSlots DEF StopClosePush, Scraping
<1>7. CASE StopWaitPush
  BY <1>7, SameSlots DEF StopWaitPush, Scraping
<1>8. CASE Baseline
  BY <1>8, SameSlots DEF Baseline, Scraping
<1>9. CASE EnterSelect
  BY <1>9, SameSlots DEF EnterSelect, Scraping
<1>10. CASE SelectStop
  BY <1>10, SameSlots DEF SelectStop, Scraping
<1>11. CASE SelectTick
  BY <1>11, SameSlots DEF SelectTick, Scraping
<1>12. CASE CheckSnapshot
  BY <1>12, SameSlots DEF CheckSnapshot, Scraping
<1>13. CASE CheckSessions
  BY <1>13, SameSlots DEF CheckSessions, Scraping
<1>14. CASE Send
  <2>1. /\ wjob' = wjob /\ ~panicked /\ pending \in Clients /\ Claims = {pending}
        /\ \A x \in PollWorkers : Scraping(x)' <=> Scraping(x)
    BY <1>14 DEF Send, Scraping, Claims, Holders, TypeOK
  <2>2. CASE inflight' = inflight
    BY <2>1, <2>2, SameSlots
  <2>3. ASSUME NEW p \in Clients, p = pending, inflight' = inflight \ {p}
        PROVE  [Slots!Next]_slots
    <3>1. p \in inflight /\ \A x \in PollWorkers : Scraping(x) => wjob[x] # p
      BY <2>1, <2>3 DEF OneJobPerClient, Held, Busy, Scraping
    <3>2. SlotOf(p) = "claimed" /\ SlotOf(p)' = "free"
      BY <2>1, <2>3, <3>1 DEF SlotOf, Scraping
    <3>3. \A d \in Clients \ {p} : SlotOf(d)' = SlotOf(d)
      BY <2>1, <2>3 DEF SlotOf, Scraping
    <3>4. QED
      BY <3>2, <3>3, OneMoves
  <2>4. QED
    BY <1>14, <2>1, <2>2, <2>3 DEF Send
<1>15. CASE FeedDone
  BY <1>15, SameSlots DEF FeedDone, Scraping
<1>16. ASSUME NEW c \in Clients, Feed(c) PROVE [Slots!Next]_slots
  <2>1. /\ wjob' = wjob /\ ~panicked
        /\ \A x \in PollWorkers : Scraping(x)' <=> Scraping(x)
    BY <1>16 DEF Feed, Scraping
  <2>2. CASE MarkInflight(c)
    <3>1. \A x \in PollWorkers : Scraping(x) => wjob[x] # c
      BY <2>1, <2>2 DEF MarkInflight, OneJobPerClient, Held, Busy, Scraping
    <3>2. SlotOf(c) = "free" /\ SlotOf(c)' = "claimed"
      BY <2>1, <2>2, <3>1 DEF MarkInflight, SlotOf, Scraping
    <3>3. \A d \in Clients \ {c} : SlotOf(d)' = SlotOf(d)
      BY <2>1, <2>2 DEF MarkInflight, SlotOf, Scraping
    <3>4. QED
      BY <3>2, <3>3, OneMoves
  <2>3. CASE KeepsInflight(c)
    BY <2>1, <2>3, SameSlots DEF KeepsInflight
  <2>4. QED
    BY <1>16, <2>2, <2>3 DEF Feed
<1>17. ASSUME NEW w \in PollWorkers, Recv(w) PROVE [Slots!Next]_slots
  <2>1. /\ inflight' = inflight /\ ~Scraping(w) /\ ~Scraping(w)'
        /\ \A x \in PollWorkers \ {w} :
               (Scraping(x)' <=> Scraping(x)) /\ wjob'[x] = wjob[x]
    BY <1>17 DEF Recv, Scraping, TypeOK
  <2>2. \A c \in Clients : SlotOf(c)' = SlotOf(c)
    BY <2>1 DEF SlotOf, Scraping
  <2>3. QED
    BY <2>2 DEF slots
<1>18. ASSUME NEW w \in PollWorkers, RecvClosed(w) PROVE [Slots!Next]_slots
  <2>1. /\ inflight' = inflight /\ wjob' = wjob
        /\ \A x \in PollWorkers : Scraping(x)' <=> Scraping(x)
    BY <1>18 DEF RecvClosed, Scraping, TypeOK
  <2>2. QED
    BY <2>1, SameSlots
<1>19. ASSUME NEW w \in PollWorkers, ReadLimiter(w) PROVE [Slots!Next]_slots
  <2>1. /\ inflight' = inflight /\ wjob' = wjob
        /\ \A x \in PollWorkers : Scraping(x)' <=> Scraping(x)
    BY <1>19 DEF ReadLimiter, Scraping, TypeOK
  <2>2. QED
    BY <2>1, SameSlots
<1>20. ASSUME NEW w \in PollWorkers, Discard(w) PROVE [Slots!Next]_slots
  <2>1. ASSUME NEW c \in Clients, c = wjob[w]
        PROVE  [Slots!Next]_slots
    <3>1. /\ Busy(w) /\ ~panicked /\ c \in inflight /\ inflight' = inflight \ {c}
          /\ (Scraping(w) <=> "claimed" = "scraping") /\ (Scraping(w)' <=> "free" = "scraping")
          /\ \A x \in PollWorkers \ {w} :
                 (Scraping(x)' <=> Scraping(x)) /\ wjob'[x] = wjob[x]
      BY <1>20, <2>1 DEF Discard, Busy, Scraping, OneJobPerClient, Held, TypeOK
    <3>2. \A x \in PollWorkers \ {w} : Scraping(x) => wjob[x] # c
      BY <2>1, <3>1 DEF OneJobPerClient, Busy, Scraping
    <3>3. SlotOf(c) = "claimed" /\ SlotOf(c)' = "free"
      BY <1>20, <2>1, <3>1, <3>2 DEF SlotOf, Scraping, Discard
    <3>4. \A d \in Clients \ {c} : SlotOf(d)' = SlotOf(d)
      BY <1>20, <2>1, <3>1 DEF SlotOf, Scraping, Discard, TypeOK
    <3>5. QED
      BY <3>3, <3>4, OneMoves
  <2>2. wjob[w] \in Clients
    BY <1>20 DEF Discard, Holders, Busy, TypeOK
  <2>3. QED
    BY <2>1, <2>2
<1>21. ASSUME NEW w \in PollWorkers, BeginScrape(w) PROVE [Slots!Next]_slots
  <2>1. ASSUME NEW c \in Clients, c = wjob[w]
        PROVE  [Slots!Next]_slots
    <3>1. /\ Busy(w) /\ ~panicked /\ c \in inflight /\ inflight' = inflight
          /\ (Scraping(w) <=> "claimed" = "scraping") /\ (Scraping(w)' <=> "scraping" = "scraping")
          /\ \A x \in PollWorkers \ {w} :
                 (Scraping(x)' <=> Scraping(x)) /\ wjob'[x] = wjob[x]
      BY <1>21, <2>1 DEF BeginScrape, Busy, Scraping, OneJobPerClient, Held, TypeOK
    <3>2. \A x \in PollWorkers \ {w} : Scraping(x) => wjob[x] # c
      BY <2>1, <3>1 DEF OneJobPerClient, Busy, Scraping
    <3>3. SlotOf(c) = "claimed" /\ SlotOf(c)' = "scraping"
      BY <1>21, <2>1, <3>1, <3>2 DEF SlotOf, Scraping, BeginScrape
    <3>4. \A d \in Clients \ {c} : SlotOf(d)' = SlotOf(d)
      BY <1>21, <2>1, <3>1 DEF SlotOf, Scraping, BeginScrape, TypeOK
    <3>5. QED
      BY <3>3, <3>4, OneMoves
  <2>2. wjob[w] \in Clients
    BY <1>21 DEF BeginScrape, Holders, Busy, TypeOK
  <2>3. QED
    BY <2>1, <2>2
<1>22. ASSUME NEW w \in PollWorkers, ScrapeQuiet(w) PROVE [Slots!Next]_slots
  <2>1. /\ inflight' = inflight /\ wjob' = wjob
        /\ \A x \in PollWorkers : Scraping(x)' <=> Scraping(x)
    BY <1>22 DEF ScrapeQuiet, Scraping, TypeOK
  <2>2. QED
    BY <2>1, SameSlots
<1>23. ASSUME NEW w \in PollWorkers, ScrapePush(w) PROVE [Slots!Next]_slots
  <2>1. /\ inflight' = inflight /\ wjob' = wjob
        /\ \A x \in PollWorkers : Scraping(x)' <=> Scraping(x)
    BY <1>23 DEF ScrapePush, Scraping, TypeOK
  <2>2. QED
    BY <2>1, SameSlots
<1>24. ASSUME NEW w \in PollWorkers, PushSend(w) PROVE [Slots!Next]_slots
  <2>1. /\ inflight' = inflight /\ wjob' = wjob
        /\ \A x \in PollWorkers : Scraping(x)' <=> Scraping(x)
    BY <1>24 DEF PushSend, Scraping, TypeOK
  <2>2. QED
    BY <2>1, SameSlots
<1>25. ASSUME NEW w \in PollWorkers, JobDone(w) PROVE [Slots!Next]_slots
  <2>1. ASSUME NEW c \in Clients, c = wjob[w]
        PROVE  [Slots!Next]_slots
    <3>1. /\ Busy(w) /\ ~panicked /\ c \in inflight /\ inflight' = inflight \ {c}
          /\ (Scraping(w) <=> "scraping" = "scraping") /\ (Scraping(w)' <=> "free" = "scraping")
          /\ \A x \in PollWorkers \ {w} :
                 (Scraping(x)' <=> Scraping(x)) /\ wjob'[x] = wjob[x]
      BY <1>25, <2>1 DEF JobDone, Busy, Scraping, OneJobPerClient, Held, TypeOK
    <3>2. \A x \in PollWorkers \ {w} : Scraping(x) => wjob[x] # c
      BY <2>1, <3>1 DEF OneJobPerClient, Busy, Scraping
    <3>3. SlotOf(c) = "scraping" /\ SlotOf(c)' = "free"
      BY <1>25, <2>1, <3>1, <3>2 DEF SlotOf, Scraping, JobDone
    <3>4. \A d \in Clients \ {c} : SlotOf(d)' = SlotOf(d)
      BY <1>25, <2>1, <3>1 DEF SlotOf, Scraping, JobDone, TypeOK
    <3>5. QED
      BY <3>3, <3>4, OneMoves
  <2>2. wjob[w] \in Clients
    BY <1>25 DEF JobDone, Holders, Busy, TypeOK
  <2>3. QED
    BY <2>1, <2>2
<1>26. ASSUME NEW v \in PushWorkers, PushRecv(v) PROVE [Slots!Next]_slots
  BY <1>26, SameSlots DEF PushRecv, Scraping
<1>27. ASSUME NEW v \in PushWorkers, PushRecvClosed(v) PROVE [Slots!Next]_slots
  BY <1>27, SameSlots DEF PushRecvClosed, Scraping
<1>28. ASSUME NEW v \in PushWorkers, Deliver(v) PROVE [Slots!Next]_slots
  BY <1>28, SameSlots DEF Deliver, Scraping
<1>29. QED
  BY <1>1, <1>2, <1>3, <1>4, <1>5, <1>6, <1>7, <1>8, <1>9, <1>10, <1>11, <1>12, <1>13, <1>14,
     <1>15, <1>16, <1>17, <1>18, <1>19, <1>20, <1>21, <1>22, <1>23, <1>24, <1>25, <1>26, <1>27, <1>28
     DEF Next, StopSteps, Poller, PollWorker, PushWorker

(* The poller implements one poll slot per client (bubbles.go:284-351).     *)
THEOREM Refinement == Spec => ImplementsSlots
<1>1. Init => Slots!Init
  BY DEF Init, Slots!Init, SlotOf
<1>2. ASSUME IInv, [Next]_vars PROVE [Slots!Next]_slots
  <2>1. CASE Next
    BY <1>2, <2>1, SlotStep
  <2>2. CASE UNCHANGED vars
    BY <2>2, SameSlots DEF vars, workVars, Scraping
  <2>3. QED  BY <1>2, <2>1, <2>2
<1>3. QED
  BY <1>1, <1>2, Invariance, PTL DEF Spec, ImplementsSlots, Slots!Spec, slots

==============================================================================
