------------------------------ MODULE PollQueue ------------------------------
(***************************************************************************)
(* The goroutines and channels of BubblesPoller (bubbles.go): the ticker   *)
(* goroutine poll(), the poll queue with its per-client inflight dedup,    *)
(* the poll workers, the push queue, the push workers, and Start / Stop.   *)
(* What a scrape does is PollSession.tla; here it only takes time and may  *)
(* enqueue one push.  A step is what happens between two points at which   *)
(* another goroutine can run: a critical section of bp.mu or inflightMu,   *)
(* a channel operation, an unlocked read of a shared field.                *)
(***************************************************************************)
EXTENDS Naturals, Sequences, Functions

CONSTANTS
    Clients,            \* client IDs with a session
    PollWorkers,        \* goroutines running pollWorker (pollWorkers)
    PushWorkers,        \* goroutines running pushWorker (pushWorkers)
    PollQueueSize,      \* capacity of pollCh (pollQueueSize)
    PushQueueSize,      \* capacity of pushCh (pushQueueSize)
    NoClient            \* no job

ASSUME QueueAssumption ==
    /\ PollQueueSize \in Nat /\ PushQueueSize \in Nat
    /\ NoClient \notin Clients
    /\ PollWorkers # {} /\ PushWorkers # {}

VARIABLES
    stage,              \* where the caller of Start and Stop is
    stopClosed,         \* the channel made by Start as stopCh is closed
    pollQ, pollClosed,  \* the channel made as pollCh: buffer, closed
    pushQ, pushClosed,  \* the channel made as pushCh
    inflight,           \* clients whose poll slot is claimed
    pollPc,             \* program counter of the goroutine running poll()
    pollSel,            \* the value of bp.stopCh its select evaluated
    todo,               \* sessions check() has not fed yet
    pending,            \* client marked inflight and not sent yet
    wpc, wjob, wlim,    \* poll workers: pc, job, the limiter channel read
    ppc, pjob,          \* push workers: pc, job
    panicked            \* a send on a closed channel killed the process

tickVars == <<pollPc, pollSel, todo, pending>>
workVars == <<wpc, wjob, wlim>>
pushVars == <<ppc, pjob>>
chanVars == <<stopClosed, pollClosed, pushClosed>>
vars == <<stage, pollQ, pushQ, inflight, panicked,
          tickVars, workVars, pushVars, chanVars>>

(***************************************************************************)
(* The fields bp.stopCh, bp.pollCh, bp.pollLimiter and bp.pushCh are nil   *)
(* before Start; Stop sets the first three to nil in one critical section  *)
(* and pushCh in a later one.  A goroutine that read a field earlier keeps *)
(* the channel it read.                                                    *)
(***************************************************************************)
PollFieldsNil == stage # "running"
PushFieldNil  == stage \notin {"running", "closePoll", "waitPoll", "takePush"}

PollPcs  == {"none", "baseline", "loop", "select", "check", "sessions",
             "feed", "send", "done"}
WorkPcs  == {"none", "recv", "pick", "wait", "scrape", "push", "clear", "exit"}
PushPcs  == {"none", "recv", "send", "exit"}
Stages   == {"new", "running", "closePoll", "waitPoll", "takePush",
             "closePush", "waitPush", "stopped"}

Init ==
    /\ stage = "new"
    /\ stopClosed = FALSE /\ pollClosed = FALSE /\ pushClosed = FALSE
    /\ pollQ = <<>> /\ pushQ = <<>> /\ inflight = {}
    /\ pollPc = "none" /\ pollSel = "nil" /\ todo = {} /\ pending = NoClient
    /\ wpc = [w \in PollWorkers |-> "none"]
    /\ wjob = [w \in PollWorkers |-> NoClient]
    /\ wlim = [w \in PollWorkers |-> "nil"]
    /\ ppc = [v \in PushWorkers |-> "none"]
    /\ pjob = [v \in PushWorkers |-> NoClient]
    /\ panicked = FALSE

------------------------------------------------------------------------------
(* What the caller of Start and Stop never touches.                        *)
ByMain ==
    /\ ~panicked
    /\ UNCHANGED <<pollQ, pushQ, inflight, panicked,
                   pollSel, todo, pending, wjob, wlim, pjob>>

(* Start: one critical section makes the channels and starts everything.   *)
Start ==
    /\ stage = "new" /\ stage' = "running"
    /\ pollPc' = "baseline"
    /\ wpc' = [w \in PollWorkers |-> "recv"]
    /\ ppc' = [v \in PushWorkers |-> "recv"]
    /\ UNCHANGED chanVars
    /\ ByMain

StopStep(from, to) ==
    /\ stage = from /\ stage' = to
    /\ UNCHANGED <<pollPc, wpc, ppc>>
    /\ ByMain

(* Stop, up to its first Unlock: close stopCh and nil the fields.          *)
StopFields ==
    /\ StopStep("running", "closePoll")
    /\ stopClosed' = TRUE
    /\ UNCHANGED <<pollClosed, pushClosed>>

(* Mutant: Stop forgets close(pollCh).                                     *)
StopKeepsPollOpen ==
    /\ StopStep("closePoll", "waitPoll") /\ UNCHANGED chanVars

StopClosePoll ==
    /\ StopStep("closePoll", "waitPoll")
    /\ pollClosed' = TRUE
    /\ UNCHANGED <<stopClosed, pushClosed>>

(* Mutant: Stop does not wait for a worker group.                          *)
NoWait == TRUE

(* pollWG.Wait: every poll worker has returned.                            *)
WaitPoll == \A w \in PollWorkers : wpc[w] = "exit"

StopWaitPoll ==
    /\ WaitPoll
    /\ StopStep("waitPoll", "takePush") /\ UNCHANGED chanVars

(* The second critical section takes pushCh; close comes after the Unlock. *)
StopTakePush == StopStep("takePush", "closePush") /\ UNCHANGED chanVars

StopClosePush ==
    /\ StopStep("closePush", "waitPush")
    /\ pushClosed' = TRUE
    /\ UNCHANGED <<stopClosed, pollClosed>>

WaitPush == \A v \in PushWorkers : ppc[v] = "exit"

StopWaitPush ==
    /\ WaitPush
    /\ StopStep("waitPush", "stopped") /\ UNCHANGED chanVars

------------------------------------------------------------------------------
(* poll(): the serial baseline, then the select loop.                      *)
ByPoller ==
    /\ ~panicked
    /\ UNCHANGED <<stage, pushQ, workVars, pushVars, chanVars>>

Tick(from, to) == ByPoller /\ pollPc = from /\ pollPc' = to

Baseline ==
    /\ Tick("baseline", "loop")
    /\ UNCHANGED <<pollSel, todo, pending, pollQ, inflight, panicked>>

(* The select evaluates the FIELD bp.stopCh, without bp.mu.                *)
EnterSelect ==
    /\ Tick("loop", "select")
    /\ pollSel' = IF PollFieldsNil THEN "nil" ELSE "chan"
    /\ UNCHANGED <<todo, pending, pollQ, inflight, panicked>>

SelectStop ==
    /\ Tick("select", "done")
    /\ pollSel = "chan" /\ stopClosed
    /\ UNCHANGED <<pollSel, todo, pending, pollQ, inflight, panicked>>

SelectTick ==
    /\ Tick("select", "check")
    /\ UNCHANGED <<pollSel, todo, pending, pollQ, inflight, panicked>>

(* check(): pollCh is read under bp.mu and used after the Unlock.          *)
CheckSnapshot ==
    /\ ByPoller /\ pollPc = "check"
    /\ pollPc' = IF PollFieldsNil THEN "loop" ELSE "sessions"
    /\ UNCHANGED <<pollSel, todo, pending, pollQ, inflight, panicked>>

(* Mutant: authedSessions lets sessions without a client through.          *)
AnySessions ==
    /\ Tick("sessions", "feed")
    /\ todo' \in SUBSET (Clients \cup {NoClient})
    /\ UNCHANGED <<pollSel, pending, pollQ, inflight, panicked>>

(* authedSessions: any set of clients may be authenticated at this moment. *)
CheckSessions ==
    /\ Tick("sessions", "feed")
    /\ todo' \in SUBSET Clients
    /\ UNCHANGED <<pollSel, pending, pollQ, inflight, panicked>>

(* Mutant: the claim does not look at the mark (no dedup).                 *)
MarkAlways(c) == inflight' = inflight \cup {c}

MarkInflight(c) ==
    /\ c \notin inflight
    /\ inflight' = inflight \cup {c}

(* No claim to release, as in a tick that leaves the slot to its owner.    *)
KeepsInflight(c) == c \in inflight /\ UNCHANGED inflight

Feed(c) ==
    /\ ByPoller /\ pollPc = "feed" /\ c \in todo
    /\ todo' = todo \ {c}
    /\ \/ MarkInflight(c) /\ pollPc' = "send" /\ pending' = c
       \/ KeepsInflight(c) /\ UNCHANGED <<pollPc, pending>>
    /\ UNCHANGED <<pollSel, pollQ, panicked>>

(* Mutant: a full queue drops the job and forgets clearInflight.           *)
SendLeaks ==
    /\ Tick("send", "feed")
    /\ pending' = NoClient
    /\ IF pollClosed
       THEN panicked' = TRUE /\ UNCHANGED pollQ
       ELSE /\ UNCHANGED panicked
            /\ pollQ' = IF Len(pollQ) < PollQueueSize
                        THEN Append(pollQ, pending) ELSE pollQ
    /\ UNCHANGED <<pollSel, todo, inflight>>

(* The non-blocking send: queued, given back when full, or a panic.        *)
Send ==
    /\ Tick("send", "feed")
    /\ pending' = NoClient
    /\ IF pollClosed
       THEN panicked' = TRUE /\ UNCHANGED <<pollQ, inflight>>
       ELSE /\ UNCHANGED panicked
            /\ \/ /\ Len(pollQ) < PollQueueSize
                  /\ pollQ' = Append(pollQ, pending)
                  /\ UNCHANGED inflight
               \/ /\ Len(pollQ) >= PollQueueSize
                  /\ inflight' = inflight \ {pending}
                  /\ UNCHANGED pollQ
    /\ UNCHANGED <<pollSel, todo>>

FeedDone ==
    /\ todo = {} /\ Tick("feed", "loop")
    /\ UNCHANGED <<pollSel, todo, pending, pollQ, inflight, panicked>>

Poller ==
    \/ Baseline \/ EnterSelect \/ SelectStop \/ SelectTick
    \/ CheckSnapshot \/ CheckSessions \/ Send \/ FeedDone
    \/ \E c \in Clients : Feed(c)

------------------------------------------------------------------------------
(* pollWorker                                                              *)
ByPollWorker ==
    /\ ~panicked
    /\ UNCHANGED <<stage, tickVars, pushVars, chanVars>>

Work(w, from, to) ==
    /\ ByPollWorker
    /\ wpc[w] = from /\ wpc' = [wpc EXCEPT ![w] = to]

(* Mutant: the slot is given back when the job leaves the queue.           *)
RecvReleases(w) ==
    /\ pollQ # <<>> /\ Work(w, "recv", "pick")
    /\ wjob' = [wjob EXCEPT ![w] = Head(pollQ)]
    /\ pollQ' = Tail(pollQ)
    /\ inflight' = inflight \ {Head(pollQ)}
    /\ UNCHANGED <<wlim, pushQ, panicked>>

Recv(w) ==
    /\ pollQ # <<>> /\ Work(w, "recv", "pick")
    /\ wjob' = [wjob EXCEPT ![w] = Head(pollQ)]
    /\ pollQ' = Tail(pollQ)
    /\ UNCHANGED <<wlim, inflight, pushQ, panicked>>

RecvClosed(w) ==
    /\ pollQ = <<>> /\ pollClosed /\ Work(w, "recv", "exit")
    /\ UNCHANGED <<wjob, wlim, pollQ, inflight, pushQ, panicked>>

(* The select evaluates pollLimiterC(): nil once Stop has run.             *)
ReadLimiter(w) ==
    /\ Work(w, "pick", "wait")
    /\ wlim' = [wlim EXCEPT ![w] = IF PollFieldsNil THEN "nil" ELSE "chan"]
    /\ UNCHANGED <<wjob, pollQ, inflight, pushQ, panicked>>

(* clearInflight, and back to the range over the channel.                  *)
ClearInflight(w) ==
    /\ inflight' = inflight \ {wjob[w]}
    /\ wjob' = [wjob EXCEPT ![w] = NoClient]

Discard(w) ==
    /\ stopClosed /\ Work(w, "wait", "recv")
    /\ ClearInflight(w)
    /\ UNCHANGED <<wlim, pollQ, pushQ, panicked>>

BeginScrape(w) ==
    /\ wlim[w] = "chan" /\ Work(w, "wait", "scrape")
    /\ UNCHANGED <<wjob, wlim, pollQ, inflight, pushQ, panicked>>

(* handlePollSession with nothing to push.                                 *)
ScrapeQuiet(w) ==
    /\ Work(w, "scrape", "clear")
    /\ UNCHANGED <<wjob, wlim, pollQ, inflight, pushQ, panicked>>

(* enqueuePush, first half: pushCh is read under bp.mu.                    *)
ScrapePush(w) ==
    /\ ByPollWorker
    /\ wpc[w] = "scrape"
    /\ wpc' = [wpc EXCEPT ![w] = IF PushFieldNil THEN "clear" ELSE "push"]
    /\ UNCHANGED <<wjob, wlim, pollQ, inflight, pushQ, panicked>>

(* enqueuePush, second half: the non-blocking send, after the Unlock.      *)
PushSend(w) ==
    /\ Work(w, "push", "clear")
    /\ IF pushClosed
       THEN panicked' = TRUE /\ UNCHANGED pushQ
       ELSE /\ UNCHANGED panicked
            /\ pushQ' = IF Len(pushQ) < PushQueueSize
                        THEN Append(pushQ, wjob[w]) ELSE pushQ
    /\ UNCHANGED <<wjob, wlim, pollQ, inflight>>

JobDone(w) ==
    /\ Work(w, "clear", "recv")
    /\ ClearInflight(w)
    /\ UNCHANGED <<wlim, pollQ, pushQ, panicked>>

PollWorker(w) ==
    \/ Recv(w) \/ RecvClosed(w) \/ ReadLimiter(w) \/ Discard(w)
    \/ BeginScrape(w) \/ ScrapeQuiet(w) \/ ScrapePush(w) \/ PushSend(w)
    \/ JobDone(w)

------------------------------------------------------------------------------
(* pushWorker: the webhook, ntfy and FCM sends of a job end with Deliver.  *)
Push(v, from, to) ==
    /\ ~panicked
    /\ ppc[v] = from /\ ppc' = [ppc EXCEPT ![v] = to]
    /\ UNCHANGED <<stage, pollQ, inflight, panicked,
                   tickVars, workVars, chanVars>>

PushRecv(v) ==
    /\ pushQ # <<>> /\ Push(v, "recv", "send")
    /\ pjob' = [pjob EXCEPT ![v] = Head(pushQ)]
    /\ pushQ' = Tail(pushQ)

PushRecvClosed(v) ==
    /\ pushQ = <<>> /\ pushClosed /\ Push(v, "recv", "exit")
    /\ UNCHANGED <<pjob, pushQ>>

Deliver(v) ==
    /\ Push(v, "send", "recv")
    /\ pjob' = [pjob EXCEPT ![v] = NoClient]
    /\ UNCHANGED pushQ

PushWorker(v) == PushRecv(v) \/ PushRecvClosed(v) \/ Deliver(v)

------------------------------------------------------------------------------
StopSteps == \/ StopClosePoll \/ StopWaitPoll \/ StopTakePush
             \/ StopClosePush \/ StopWaitPush

(* No action is enabled once a panic in any goroutine ended the process.   *)
Next ==
    \/ Start \/ StopFields \/ StopSteps \/ Poller
    \/ \E w \in PollWorkers : PollWorker(w)
    \/ \E v \in PushWorkers : PushWorker(v)

(* Goroutines are scheduled; a scrape and a send end (HTTP timeouts); the  *)
(* limiter and the ticker tick; once called, Stop runs.  Nothing obliges   *)
(* anyone to call Start or Stop.                                           *)
Fairness ==
    /\ WF_vars(Poller)
    /\ WF_vars(StopSteps)
    /\ \A w \in PollWorkers : WF_vars(PollWorker(w))
    /\ \A v \in PushWorkers : WF_vars(PushWorker(v))

Spec == Init /\ [][Next]_vars
FairSpec == Spec /\ Fairness

------------------------------------------------------------------------------
Busy(w) == wpc[w] \in {"pick", "wait", "scrape", "push", "clear"}
Sending(v) == ppc[v] = "send"

TypeOK ==
    /\ stage \in Stages
    /\ stopClosed \in BOOLEAN /\ pollClosed \in BOOLEAN /\ pushClosed \in BOOLEAN
    /\ pollQ \in Seq(Clients) /\ pushQ \in Seq(Clients)
    /\ inflight \subseteq Clients /\ todo \subseteq Clients
    /\ pollPc \in PollPcs /\ pollSel \in {"nil", "chan"}
    /\ pending \in Clients \cup {NoClient}
    /\ wpc \in [PollWorkers -> WorkPcs]
    /\ wjob \in [PollWorkers -> Clients \cup {NoClient}]
    /\ wlim \in [PollWorkers -> {"nil", "chan"}]
    /\ ppc \in [PushWorkers -> PushPcs]
    /\ pjob \in [PushWorkers -> Clients \cup {NoClient}]
    /\ panicked \in BOOLEAN

Queued == Range(pollQ)
Held   == {wjob[w] : w \in {x \in PollWorkers : Busy(x)}}
Claims == IF pollPc = "send" THEN {pending} ELSE {}

(***************************************************************************)
(* One job per client (bubbles.go:77-78, 284-287): a client holds at most  *)
(* one of: a queued job, a job in a worker, the claim of the tick that is  *)
(* about to send it; and its inflight mark is set exactly while it holds   *)
(* one, so a mark is never leaked, which would silence the client for good.*)
(***************************************************************************)
OneJobPerClient ==
    ~panicked =>
        /\ inflight = Queued \cup Held \cup Claims
        /\ IsInjective(pollQ)
        /\ \A w, x \in PollWorkers :
               w # x /\ Busy(w) /\ Busy(x) => wjob[w] # wjob[x]
        /\ Queued \cap Held = {}
        /\ Claims \cap (Queued \cup Held) = {}

(***************************************************************************)
(* "Now that no producer is left, close the push queue" (bubbles.go:187):  *)
(* once pushCh is closed no poll worker can still be between reading it    *)
(* and sending on it, so enqueuePush never sends on a closed channel.      *)
(***************************************************************************)
PushClosedAfterProducers ==
    pushClosed => \A w \in PollWorkers : wpc[w] \notin {"scrape", "push"}

(***************************************************************************)
(* Stop "drains the poll and push workers" (bubbles.go:160): when it       *)
(* returns, every accepted push has been sent and no worker holds a job.   *)
(***************************************************************************)
StopDrains ==
    stage = "stopped" =>
        /\ pollQ = <<>> /\ pushQ = <<>> /\ Held = {}
        /\ \A v \in PushWorkers : ~Sending(v)

(* The poll slots this queue implements.                                   *)
SlotOf(c) ==
    IF \E w \in PollWorkers :
           wjob[w] = c /\ wpc[w] \in {"scrape", "push", "clear"}
    THEN "scraping"
    ELSE IF c \in inflight THEN "claimed" ELSE "free"

Slots == INSTANCE PollSlots WITH slot <- [c \in Clients |-> SlotOf(c)]

(***************************************************************************)
(* The queue, its dedup and its workers implement one slot per client: no  *)
(* client is ever scraped by two workers, and a scrape starts only from a  *)
(* claim (bubbles.go:284-351).                                             *)
(***************************************************************************)
ImplementsSlots == Slots!Spec

(***************************************************************************)
(* A claimed slot comes back: no tick, worker, full queue or shutdown      *)
(* leaves a client marked inflight for ever (bubbles.go:328-351), unless   *)
(* the process dies.                                                       *)
(***************************************************************************)
SlotReturns == \A c \in Clients : c \in inflight ~> (c \notin inflight \/ panicked)

(***************************************************************************)
(* Stop returns (bubbles.go:162-195): no worker is left blocked on the     *)
(* nil limiter or on an empty channel while Stop waits for it.             *)
(***************************************************************************)
StopReturns == stage = "closePoll" ~> (stage = "stopped" \/ panicked)

(***************************************************************************)
(* "Stop stops the polling goroutine" (bubbles.go:160).                    *)
(***************************************************************************)
PollGoroutineStops == stage = "closePoll" ~> (pollPc = "done" \/ panicked)

(***************************************************************************)
(* Stop drains the workers (bubbles.go:160-161, 178-182); it does not kill *)
(* the process: nothing sends on a channel that Stop has closed.           *)
(***************************************************************************)
NoSendOnClosed == ~panicked

==============================================================================
