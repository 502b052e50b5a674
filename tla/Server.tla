-------------------------------- MODULE Server --------------------------------
(***************************************************************************)
(* The running server and its graceful end (main.go:171-249): the poll     *)
(* jobs that publish on the event hub, the keepalive sweep, the requests,  *)
(* the lock of the session store that they share, and the store they       *)
(* write.  Of a poll job, a sweep and a request there is what they lock,   *)
(* what they write and that they end; PollQueue, PollSession and           *)
(* SessionStore say what they do.                                          *)
(***************************************************************************)
EXTENDS EventHub

CONSTANTS Requests      \* goroutines of HTTP requests other than streams

VARIABLES
    main,               \* where main is
    timedOut,           \* srv.Shutdown gave up after its 25 s
    closed,             \* the store is closed
    job,                \* client -> its poll job
    keep, stopping,     \* the keepalive loop; its Stop was called
    req,                \* request -> where its handler is
    late                \* who wrote to the store after it was closed

serverVars == <<main, timedOut, closed, job, keep, stopping, req, late>>
vars == <<hubVars, serverVars>>

ServerInit ==
    /\ Init
    /\ main = "serving" /\ timedOut = FALSE /\ closed = FALSE
    /\ job = [c \in Clients |-> "idle"]
    /\ keep = "wait" /\ stopping = FALSE
    /\ req = [r \in Requests |-> "idle"] /\ late = {}

Running == ~panicked /\ main # "exited"
JobTo(c, a, b)  == Running /\ job[c] = a /\ job' = [job EXCEPT ![c] = b]
ReqTo(r, a, b)  == Running /\ req[r] = a /\ req' = [req EXCEPT ![r] = b]
KeepTo(from_, b) == Running /\ keep \in from_ /\ keep' = b
MainTo(a, b)    == Running /\ main = a /\ main' = b

sameMain == <<main, timedOut, closed>>
sameKeep == <<keep, stopping>>

(* A write to the store: once it is closed, an error that is logged.       *)
WriteStore(who) == late' = IF closed THEN late \cup {who} ELSE late

(* ss.mu, an RWMutex: a reader waits for a writer that has called Lock, a  *)
(* writer for the readers, of which only the sweep reads across other      *)
(* steps; the Unlock of a writer lets in those who wait to read.           *)
CanRead  == \A r \in Requests : req[r] # "lock"
CanWrite == keep # "visit"

------------------------------------------------------------------------------
(* Poll jobs.                                                              *)
JobBegin(c) ==
    /\ main = "serving" /\ JobTo(c, "idle", "lookup")
    /\ UNCHANGED <<hubVars, sameMain, sameKeep, req, late>>

JobLookup(c) ==
    /\ CanRead /\ JobTo(c, "lookup", "scrape")
    /\ UNCHANGED <<hubVars, sameMain, sameKeep, req, late>>

(* The periodic save of cookies.                                           *)
JobSave(c) ==
    /\ JobTo(c, "scrape", "scrape") /\ WriteStore("job")
    /\ UNCHANGED <<hubVars, sameMain, sameKeep, req>>

JobChanged(c) ==
    /\ JobTo(c, "scrape", "publish") /\ Publish(c)
    /\ UNCHANGED <<sameMain, sameKeep, req, late>>

JobSend(c) ==
    /\ Running /\ \E s \in Streams : Send(c, s)
    /\ UNCHANGED serverVars

JobPublished(c) ==
    /\ dest[c] = {} /\ JobTo(c, "publish", "idle") /\ WriteStore("job")
    /\ UNCHANGED <<hubVars, sameMain, sameKeep, req>>

(* Nothing changed, or the scrape failed, or the session is gone.          *)
JobQuiet(c) ==
    /\ JobTo(c, "scrape", "idle")
    /\ UNCHANGED <<hubVars, sameMain, sameKeep, req, late>>

------------------------------------------------------------------------------
(* The keepalive loop.  It selects on the field stopCh, which Stop closes  *)
(* and sets to nil: a loop that was in a sweep then waits on nil, and may  *)
(* tick again.                                                             *)
KeepTick ==
    /\ CanRead /\ KeepTo({"wait", "waitNil"}, "visit")
    /\ UNCHANGED <<hubVars, sameMain, stopping, job, req, late>>

KeepReturn ==
    /\ stopping /\ KeepTo({"wait"}, "gone")
    /\ UNCHANGED <<hubVars, sameMain, stopping, job, req, late>>

(* A session is valid or was logged in again, and is saved; on to the next. *)
KeepVisit ==
    /\ KeepTo({"visit"}, "visit") /\ WriteStore("keep")
    /\ UNCHANGED <<hubVars, sameMain, stopping, job, req>>

(* Mutant: the callback of ForEach looks its session up.                   *)
KeepLooksUp ==
    /\ CanRead /\ KeepTo({"visit"}, IF stopping THEN "waitNil" ELSE "wait")
    /\ UNCHANGED <<hubVars, sameMain, stopping, job, req, late>>

(* The last session was visited; ForEach releases the lock.                *)
KeepDone ==
    /\ KeepTo({"visit"}, IF stopping THEN "waitNil" ELSE "wait")
    /\ UNCHANGED <<hubVars, sameMain, stopping, job, req, late>>

------------------------------------------------------------------------------
(* Requests, until srv.Shutdown closes the listener.                       *)
Accepting == main \in {"serving", "poller", "keepalive", "hub"}

Arrive(r) ==
    /\ Accepting
    /\ ReqTo(r, "idle", "lookup") \/ ReqTo(r, "idle", "login")
    /\ UNCHANGED <<hubVars, sameMain, job, sameKeep, late>>

ReqLookup(r) ==
    /\ CanRead /\ ReqTo(r, "lookup", "work")
    /\ UNCHANGED <<hubVars, sameMain, job, sameKeep, late>>

(* A login saves the new session and sets it under the write lock.         *)
ReqLogin(r) ==
    /\ ReqTo(r, "login", "lock") /\ WriteStore("request")
    /\ UNCHANGED <<hubVars, sameMain, job, sameKeep>>

ReqSet(r) ==
    /\ Running /\ CanWrite /\ req[r] = "lock"
    /\ req' = [q \in Requests |-> IF q = r THEN "idle"
                                  ELSE IF req[q] = "lookup" THEN "work" ELSE req[q]]
    /\ job' = [c \in Clients |-> IF job[c] = "lookup" THEN "scrape" ELSE job[c]]
    /\ UNCHANGED <<hubVars, sameMain, sameKeep, late>>

(* The handler has its answer from the forum and saves the cookies.        *)
ReqAnswer(r) ==
    /\ ReqTo(r, "work", "idle")
    /\ WriteStore("request") \/ UNCHANGED late
    /\ UNCHANGED <<hubVars, sameMain, job, sameKeep>>

StreamOpens(s) ==
    /\ Running /\ Accepting /\ CanRead /\ Connect(s)
    /\ UNCHANGED serverVars

Stream(s) == Running /\ Serve(s) /\ UNCHANGED serverVars
StreamHangsUp(s) == Running /\ HangUp(s) /\ UNCHANGED serverVars

------------------------------------------------------------------------------
(* The signal, and main's way out.                                         *)
Signal ==
    /\ MainTo("serving", "poller")
    /\ UNCHANGED <<hubVars, timedOut, closed, job, sameKeep, req, late>>

(* Mutant: Stop returns while poll jobs are on their way.                  *)
JobsLeft == TRUE

(* poller.Stop waits for the jobs in flight (StopDrains of PollQueue).     *)
JobsEnded == \A c \in Clients : job[c] = "idle"

PollerStopped ==
    /\ JobsEnded /\ MainTo("poller", "keepalive")
    /\ UNCHANGED <<hubVars, timedOut, closed, job, sameKeep, req, late>>

(* keepAlive.Stop waits for nothing.                                       *)
KeepStop ==
    /\ MainTo("keepalive", "hub") /\ stopping' = TRUE
    /\ UNCHANGED <<hubVars, timedOut, closed, job, keep, req, late>>

HubShutdown ==
    /\ MainTo("hub", "drain") /\ Shutdown
    /\ UNCHANGED <<timedOut, closed, job, sameKeep, req, late>>

(* Mutant: only the streams are waited for.                                *)
StreamsEnded == \A s \in Streams : phase[s] \in {"off", "closed"}

HandlersEnded ==
    /\ \A r \in Requests : req[r] = "idle"
    /\ \A s \in Streams : phase[s] \in {"off", "closed"}

Drained ==
    /\ HandlersEnded /\ MainTo("drain", "close")
    /\ UNCHANGED <<hubVars, timedOut, closed, job, sameKeep, req, late>>

(* Mutant: Shutdown with a context that has no timeout.                    *)
DrainWaits == FALSE /\ UNCHANGED vars

DrainTimesOut ==
    /\ MainTo("drain", "close") /\ timedOut' = TRUE
    /\ UNCHANGED <<hubVars, closed, job, sameKeep, req, late>>

StoreClose ==
    /\ MainTo("close", "exit") /\ closed' = TRUE
    /\ UNCHANGED <<hubVars, timedOut, job, sameKeep, req, late>>

Exit ==
    /\ MainTo("exit", "exited")
    /\ UNCHANGED <<hubVars, timedOut, closed, job, sameKeep, req, late>>

------------------------------------------------------------------------------
JobStep(c) ==
    JobSave(c) \/ JobChanged(c) \/ JobSend(c) \/ JobPublished(c) \/ JobQuiet(c)
ReqStep(r) == ReqLookup(r) \/ ReqLogin(r) \/ ReqSet(r) \/ ReqAnswer(r)
MainStep ==
    \/ PollerStopped \/ KeepStop \/ HubShutdown \/ Drained \/ DrainTimesOut
    \/ StoreClose \/ Exit

ServerNext ==
    \/ \E c \in Clients : JobBegin(c) \/ JobLookup(c) \/ JobStep(c)
    \/ KeepTick \/ KeepReturn \/ KeepVisit \/ KeepDone
    \/ \E r \in Requests : Arrive(r) \/ ReqStep(r)
    \/ \E s \in Streams : StreamOpens(s) \/ Stream(s) \/ StreamHangsUp(s)
    \/ Signal \/ MainStep

ServerSpec == ServerInit /\ [][ServerNext]_vars

(***************************************************************************)
(* Jobs, sweeps and requests end, since every network call has a timeout   *)
(* and a sweep visits finitely many sessions.  Nothing makes a client read *)
(* its stream, and nobody has to send the signal.                          *)
(***************************************************************************)
Fairness ==
    /\ \A c \in Clients :
          WF_vars(JobLookup(c) \/ JobQuiet(c) \/ JobSend(c) \/ JobPublished(c))
    /\ WF_vars(KeepDone)
    /\ \A r \in Requests : WF_vars(ReqStep(r))
    /\ WF_vars(MainStep)

FairServerSpec == ServerSpec /\ Fairness

------------------------------------------------------------------------------
ServerTypeOK ==
    /\ TypeOK
    /\ main \in {"serving", "poller", "keepalive", "hub", "drain", "close", "exit",
                 "exited"}
    /\ timedOut \in BOOLEAN /\ closed \in BOOLEAN /\ stopping \in BOOLEAN
    /\ job \in [Clients -> {"idle", "lookup", "scrape", "publish"}]
    /\ keep \in {"wait", "visit", "waitNil", "gone"}
    /\ req \in [Requests -> {"idle", "lookup", "login", "lock", "work"}]
    /\ late \subseteq {"job", "keep", "request"}

(***************************************************************************)
(* "Stop the background loops first so they can't publish to SSE channels  *)
(* that are mid-drain" (main.go:230): once the streams are told to end, no *)
(* poll job is left that could publish.                                    *)
(***************************************************************************)
QuietDrain == done => \A c \in Clients : job[c] = "idle" /\ dest[c] = {}

(***************************************************************************)
(* After the store is closed only the sweep writes, which nobody waits     *)
(* for, or a request that outlived the 25 s of srv.Shutdown.               *)
(***************************************************************************)
LateWriters == "job" \notin late /\ ("request" \in late => timedOut)

(***************************************************************************)
(* "Close the store last, once nothing can write to it anymore"            *)
(* (main.go:246).                                                          *)
(***************************************************************************)
NothingWritesLate == late = {}

(***************************************************************************)
(* The signal ends the server (main.go:229-249), whoever holds or waits    *)
(* for the lock and though a client never reads its stream.                *)
(***************************************************************************)
SignalEnds == main = "poller" ~> main = "exited" \/ panicked

(***************************************************************************)
(* "A stuck client never blocks the poller" (events.go:59): a publish      *)
(* ends, though no stream has to write anything.                           *)
(***************************************************************************)
PublishEnds == \A c \in Clients : dest[c] # {} ~> dest[c] = {} \/ panicked

(***************************************************************************)
(* No poll job waits for ever for its session (session.go:61-66), though   *)
(* sweeps hold the lock over their network calls and logins queue behind   *)
(* them.                                                                   *)
(***************************************************************************)
LookupEnds ==
    \A c \in Clients : job[c] = "lookup" ~> job[c] # "lookup" \/ ~Running

==============================================================================
