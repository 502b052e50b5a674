------------------------------ MODULE PushSender ------------------------------
(***************************************************************************)
(* What becomes of a push job of one client: the push workers              *)
(* (bubbles.go:197-223), the webhook and ntfy calls they make first, the   *)
(* fan-out to the client's FCM tokens with its retries and pruning         *)
(* (fcm.go:143-316), and the app that registers, unregisters and loses     *)
(* tokens meanwhile (api.go:265-294).  PollQueue has the end of the        *)
(* workers; here they run.                                                 *)
(*                                                                         *)
(* Jobs are numbered in the order the poller found the changes.  A device  *)
(* shows one notification per tag, the last it was sent.                   *)
(***************************************************************************)
EXTENDS Naturals, Sequences, FiniteSets

CONSTANTS
    Workers,            \* push workers
    Tokens,             \* FCM tokens of the client's devices
    Kinds,              \* counters: avisos, mensajes, favoritos
    Threads,            \* favorite threads
    Favorites,          \* the member of Kinds that threads stand for
    BadTags,            \* messages that FCM answers with 400
    QueueSize,          \* pushQueueSize
    Concurrency,        \* fcmMaxConcurrency
    MaxRetries,         \* fcmMaxRetries
    MaxJobs             \* bound: changes found

ASSUME PushAssumption ==
    /\ Kinds \cap Threads = {} /\ Favorites \in Kinds
    /\ QueueSize \in Nat /\ Concurrency \in Nat \ {0} /\ MaxRetries \in Nat /\ MaxJobs \in Nat

Tags == Kinds \cup Threads
Jobs == [n : 1..MaxJobs, up : SUBSET Kinds, fav : SUBSET Threads]
None == [n |-> 0, up |-> {}, fav |-> {}]
Pairs == Tags \X Tokens

VARIABLES
    found,              \* changes found so far
    queue,              \* bp.pushCh
    at, job,            \* worker -> where it is, with which job
    todo,               \* worker -> the pairs not handed out yet
    sends,              \* POSTs in progress, see Sends
    table,              \* fcm_tokens of the client
    alive,              \* tokens FCM knows
    tray                \* <<tag, token>> -> the job whose notification shows

\* What properties compare with.
VARIABLES
    due,                \* worker -> pairs not delivered, refused or given up yet
    beside              \* jobs that ran beside another job

workerVars == <<at, job, todo, sends, due>>
vars == <<found, queue, workerVars, table, alive, tray, beside>>

Sends == [w : Workers, n : 1..MaxJobs, pair : Pairs, try : 0..MaxRetries,
          at : {"token", "post", "wait"}]

Init ==
    /\ found = 0 /\ queue = <<>>
    /\ at = [w \in Workers |-> "idle"] /\ job = [w \in Workers |-> None]
    /\ todo = [w \in Workers |-> {}] /\ sends = {}
    /\ alive = Tokens /\ table \in SUBSET Tokens
    /\ tray = [p \in Pairs |-> 0]
    /\ due = [w \in Workers |-> {}] /\ beside = {}

------------------------------------------------------------------------------
(* enqueuePush: a full queue drops the job.  The counters may have fallen, *)
(* and then nothing is up.                                                 *)
Find(up, fav) ==
    LET j == [n |-> found + 1, up |-> up, fav |-> fav] IN
    /\ found < MaxJobs /\ found' = j.n
    /\ queue' = IF Len(queue) < QueueSize THEN Append(queue, j) ELSE queue
    /\ UNCHANGED <<workerVars, table, alive, tray, beside>>

(* POST and DELETE /push/register.  A write that fails is logged and       *)
(* answered like one that does not.                                        *)
Register(t) ==
    /\ t \in alive \ table /\ table' = table \cup {t}
    /\ UNCHANGED <<found, queue, workerVars, alive, tray, beside>>

Unregister(t) ==
    /\ t \in table /\ table' = table \ {t}
    /\ UNCHANGED <<found, queue, workerVars, alive, tray, beside>>

(* The app is removed, or FCM renews its token.                            *)
Expire(t) ==
    /\ t \in alive /\ alive' = alive \ {t}
    /\ UNCHANGED <<found, queue, workerVars, table, tray, beside>>

------------------------------------------------------------------------------
Goes(w, a, b) == at[w] = a /\ at' = [at EXCEPT ![w] = b]

Take(w) ==
    LET others == {v \in Workers : at[v] # "idle"} IN
    /\ queue # <<>> /\ Goes(w, "idle", "webhook")
    /\ queue' = Tail(queue) /\ job' = [job EXCEPT ![w] = Head(queue)]
    /\ beside' = IF others = {} THEN beside
                 ELSE beside \cup {Head(queue).n} \cup {job[v].n : v \in others}
    /\ UNCHANGED <<found, todo, sends, due, table, alive, tray>>

(* The webhook and ntfy first, one POST each or one per message, whose     *)
(* answers are logged.                                                     *)
SendWebhook(w) ==
    /\ Goes(w, "webhook", "ntfy")
    /\ UNCHANGED <<found, queue, job, todo, sends, due, table, alive, tray, beside>>

PublishNtfy(w) ==
    /\ Goes(w, "ntfy", "read")
    /\ UNCHANGED <<found, queue, job, todo, sends, due, table, alive, tray, beside>>

(* buildActivityPushes: threads when they are known, else the counter.     *)
Pushes(j) ==
    (j.up \ {Favorites}) \cup (IF j.fav # {} THEN j.fav ELSE j.up \cap {Favorites})

(* The tokens as they are now, none when they cannot be read.              *)
GetFCMTokens == {table, {}}

ReadTokens(w) ==
    /\ \E ts \in GetFCMTokens :
          LET all == Pushes(job[w]) \X ts IN
          /\ Goes(w, "read", IF all = {} THEN "idle" ELSE "fan")
          /\ todo' = [todo EXCEPT ![w] = all] /\ due' = [due EXCEPT ![w] = all]
    /\ UNCHANGED <<found, queue, job, sends, table, alive, tray, beside>>

Own(w) == {s \in sends : s.w = w}

(* Mutant: a pair that finds no goroutine free is dropped.                 *)
HandOrDrop(w) ==
    /\ at[w] = "fan"
    /\ \E p \in todo[w] :
          /\ todo' = [todo EXCEPT ![w] = @ \ {p}]
          /\ sends' = IF Cardinality(Own(w)) < Concurrency
                      THEN sends \cup {[w |-> w, n |-> job[w].n, pair |-> p, try |-> 0, at |-> "token"]}
                      ELSE sends
    /\ UNCHANGED <<found, queue, at, job, due, table, alive, tray, beside>>

(* The jobs channel has no buffer: a pair waits for a free goroutine.      *)
Hand(w) ==
    /\ at[w] = "fan" /\ Cardinality(Own(w)) < Concurrency
    /\ \E p \in todo[w] :
          /\ todo' = [todo EXCEPT ![w] = @ \ {p}]
          /\ sends' = sends \cup {[w |-> w, n |-> job[w].n, pair |-> p, try |-> 0, at |-> "token"]}
    /\ UNCHANGED <<found, queue, at, job, due, table, alive, tray, beside>>

(* Mutant: the worker does not wait for its goroutines.                    *)
FinishEarly(w) ==
    /\ todo[w] = {} /\ Goes(w, "fan", "idle")
    /\ UNCHANGED <<found, queue, job, todo, sends, due, table, alive, tray, beside>>

(* wg.Wait                                                                 *)
Finish(w) ==
    /\ todo[w] = {} /\ Own(w) = {} /\ Goes(w, "fan", "idle")
    /\ UNCHANGED <<found, queue, job, todo, sends, due, table, alive, tray, beside>>

------------------------------------------------------------------------------
(* One POST: an oauth token, whose source has no timeout, the POST, which  *)
(* has one, and what its answer leads to.                                  *)
Becomes(s, a, k) == sends' = (sends \ {s}) \cup {[s EXCEPT !.at = a, !.try = k]}

Ended(s) ==
    /\ sends' = sends \ {s}
    /\ due' = [due EXCEPT ![s.w] = @ \ {s.pair}]

Fetched(s) ==
    /\ s.at = "token"
    /\ \/ Becomes(s, "post", s.try) /\ UNCHANGED due
       \/ Ended(s)
    /\ UNCHANGED <<found, queue, at, job, todo, table, alive, tray, beside>>

(* Mutant: a message is posted once more than that.                        *)
GivesUpLate(s) == s.try > MaxRetries

GivesUp(s) == s.try >= MaxRetries

Again(s) ==
    IF GivesUp(s) THEN Ended(s) ELSE Becomes(s, "wait", s.try) /\ UNCHANGED due

Shows(s) == tray' = [tray EXCEPT ![s.pair] = s.n]

(* 200, or an answer that is lost and so asked for again.                  *)
Delivered(s) ==
    /\ s.at = "post" /\ s.pair[2] \in alive /\ s.pair[1] \notin BadTags
    /\ Shows(s) /\ (Ended(s) \/ Again(s))
    /\ UNCHANGED <<found, queue, at, job, todo, table, alive, beside>>

(* Mutant: every refusal prunes the token.                                 *)
PruneRefused(s) == TRUE

(* 404, and 400 whatever its reason.                                       *)
Stale(s) == s.pair[2] \notin alive \/ s.pair[1] \in BadTags

(* The network fails, or 429 or a 5xx; a refusal that is final; a prune,   *)
(* whose write may fail.                                                   *)
NotDelivered(s) ==
    /\ s.at = "post"
    /\ \/ Again(s) /\ UNCHANGED table
       \/ Ended(s) /\ UNCHANGED table
       \/ Stale(s) /\ Ended(s) /\ table' = table \ {s.pair[2]}
    /\ UNCHANGED <<found, queue, at, job, todo, alive, tray, beside>>

(* Mutant: the attempts are not counted.                                   *)
WaitedUncounted(s) ==
    /\ s.at = "wait" /\ Becomes(s, "token", s.try)
    /\ UNCHANGED <<found, queue, at, job, todo, due, table, alive, tray, beside>>

Waited(s) ==
    /\ s.at = "wait" /\ Becomes(s, "token", s.try + 1)
    /\ UNCHANGED <<found, queue, at, job, todo, due, table, alive, tray, beside>>

------------------------------------------------------------------------------
Work(w) == Take(w) \/ SendWebhook(w) \/ PublishNtfy(w) \/ ReadTokens(w) \/ Hand(w) \/ Finish(w)
Post(s) == Delivered(s) \/ NotDelivered(s) \/ Waited(s)
App(t)  == Register(t) \/ Unregister(t) \/ Expire(t)

Next ==
    \/ \E up \in SUBSET Kinds, fav \in SUBSET Threads : Find(up, fav)
    \/ \E t \in Tokens : App(t)
    \/ \E w \in Workers : Work(w)
    \/ \E s \in sends : Post(s) \/ Fetched(s)

Spec == Init /\ [][Next]_vars

(* Every call but the one for an oauth token has a timeout.                *)
Fairness ==
    \A w \in Workers :
        /\ WF_vars(Work(w))
        /\ WF_vars(\E s \in sends : s.w = w /\ Post(s))

FairSpec == Spec /\ Fairness

------------------------------------------------------------------------------
TypeOK ==
    /\ found \in 0..MaxJobs /\ queue \in Seq(Jobs) /\ Len(queue) <= QueueSize
    /\ at \in [Workers -> {"idle", "webhook", "ntfy", "read", "fan"}]
    /\ job \in [Workers -> Jobs \cup {None}]
    /\ todo \in [Workers -> SUBSET Pairs] /\ due \in [Workers -> SUBSET Pairs]
    /\ sends \subseteq Sends
    /\ \A w \in Workers : Cardinality(Own(w)) <= Concurrency
    /\ table \subseteq Tokens /\ alive \subseteq Tokens
    /\ tray \in [Pairs -> 0..MaxJobs] /\ beside \subseteq 1..MaxJobs

(***************************************************************************)
(* "The prev/current snapshot is carried with the job to avoid             *)
(* out-of-order/stale counts" (bubbles.go:198-199): a notification gives   *)
(* way to an older one only when the two jobs ran at the same time, never  *)
(* because of a retry of a job that its worker has left.                   *)
(***************************************************************************)
Replaced(p) == tray'[p] < tray[p]

OlderOnlyBeside == [][\A p \in Pairs : Replaced(p) => tray'[p] \in beside]_vars

(***************************************************************************)
(* A job ends when each of its messages was delivered to each token that   *)
(* it read, refused or given up (fcm.go:298-316), however many goroutines  *)
(* there are and whatever is pruned and registered meanwhile.              *)
(***************************************************************************)
NoneLeft == \A w \in Workers : at[w] = "idle" => due[w] = {}

(***************************************************************************)
(* "404 UNREGISTERED / 400 invalid token -> prune it" (fcm.go:210): a      *)
(* token that lives is forgotten only when the app says so or a message    *)
(* was answered with 400.                                                  *)
(***************************************************************************)
LiveTokensStay ==
    [][\A t \in Tokens : t \in (table \ table') \cap alive =>
          Unregister(t) \/ \E s \in sends : s.pair[2] = t /\ s.pair[1] \in BadTags]_vars

(***************************************************************************)
(* "A slow endpoint can never freeze the poll cycle" (bubbles.go:197-198): *)
(* a worker that never ends its job waits for an oauth token, not for      *)
(* retries, dead tokens or a crowd of messages.                            *)
(***************************************************************************)
OnlyOauthStops ==
    \A w \in Workers :
        <>[](at[w] # "idle") => <>[](\E s \in Own(w) : s.at = "token")

==============================================================================
