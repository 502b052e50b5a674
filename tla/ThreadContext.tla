---------------------------- MODULE ThreadContext ----------------------------
(***************************************************************************)
(* The "current thread" of a scraper (scraper.go:60-135, 2200-2292), which *)
(* all requests of one device share, and the requests that read a thread,  *)
(* like, reply, edit or quote in it, or post a new thread or a private     *)
(* message (scraper.go:631-1005, 1982-2165), behind withRelogin            *)
(* (api.go:101-125).  A step ends at a network call or where s.mu is       *)
(* released.                                                               *)
(*                                                                         *)
(* A URL, an id and a CSRF token are the thread they belong to; forum id   *)
(* and page number are committed and read with the id and go with it.  The *)
(* forum answers a page request with the page of the thread, with one that *)
(* lacks some of its inputs (a closed thread, a 404, a guest's view: doGet *)
(* looks at no status), or not at all.                                     *)
(***************************************************************************)
EXTENDS Naturals, FiniteSets

CONSTANTS
    Threads, NoThread,
    Requests,
    BareAnswers,        \* whether the forum may answer with less than a whole page
    Renewals            \* whether other goroutines renew the session

ASSUME ThreadAssumption ==
    /\ NoThread \notin Threads
    /\ BareAnswers \in BOOLEAN /\ Renewals \in BOOLEAN

Current == Threads \cup {NoThread}

(* An operation is known by what it does with the current thread: a        *)
(* "post" is a reply, an edit or the source or quotes of a post, a "form" a *)
(* new thread or a message, with a page of its own.                        *)
Ops == {"read", "like", "post", "form"}

VARIABLES
    url, tid, token,    \* threadURL, threadID, csrfToken
    loggedIn,
    pc, op, want,       \* request -> where it is, what it does, its url field
    attempt,            \* request -> first or second run inside withRelogin
    snap                \* request -> id and token it is about to post

\* What properties compare with.
VARIABLES
    posts,              \* request -> threads its posts have reached
    count,              \* request -> how many posts have reached the forum
    renewed,            \* requests during which another one cleared loggedIn
    overlapped,         \* a load ran while another request relied on the fields
    bare                \* a page lacked an input

fields == <<url, tid, token, bare>>
task   == <<op, want, attempt>>
ghost  == <<posts, count, renewed>>
vars   == <<fields, loggedIn, pc, task, snap, ghost, overlapped>>

NoSnap == [tid |-> NoThread, token |-> NoThread]

Init ==
    /\ url = NoThread /\ tid = NoThread /\ token = NoThread /\ loggedIn = TRUE
    /\ pc = [r \in Requests |-> "idle"] /\ op = [r \in Requests |-> "read"]
    /\ want = [r \in Requests |-> NoThread] /\ attempt = [r \in Requests |-> 1]
    /\ snap = [r \in Requests |-> NoSnap]
    /\ posts = [r \in Requests |-> {}] /\ count = [r \in Requests |-> 0]
    /\ renewed = {} /\ overlapped = FALSE /\ bare = FALSE

------------------------------------------------------------------------------
(* A request relies on the fields from its first commit, or from the check *)
(* of the URL, until it has copied them.                                   *)
Relies(r) == pc[r] \in {"seturl", "page2"} \/ (pc[r] = "snapshot" /\ want[r] # NoThread)
Overlap   == \E r, q \in Requests : r # q /\ Relies(r) /\ Relies(q)
Noted     == overlapped' = (overlapped \/ Overlap')

GoTo(r, b) == pc' = [pc EXCEPT ![r] = b]
Go(r, a, b) == pc[r] = a /\ GoTo(r, b)

(* What the handlers of api.go ask of the scraper.                         *)
Begin(r, o, t) ==
    /\ Go(r, "idle", "start")
    /\ op' = [op EXCEPT ![r] = o] /\ want' = [want EXCEPT ![r] = t]
    /\ UNCHANGED <<fields, loggedIn, attempt, snap, ghost>>

AskThread(r)      == \E t \in Threads : Begin(r, "read", t)
AskLike(r)        == \E t \in Current : Begin(r, "like", t)
AskReply(r)       == \E t \in Current : Begin(r, "post", t)
AskEdit(r)        == \E t \in Current : Begin(r, "post", t)
AskSource(r)      == \E t \in Current : Begin(r, "post", t)
AskQuote(r)       == \E t \in Current : Begin(r, "post", t)
AskQuoted(r)      == \E t \in Current : Begin(r, "post", t)
AskCreate(r)      == Begin(r, "form", NoThread)
AskMessage(r)     == Begin(r, "form", NoThread)

(* A read or a like logs in first if need be; the others are refused.      *)
Start(r) ==
    /\ Go(r, "start",
          IF ~loggedIn THEN IF op[r] \in {"read", "like"} THEN "login" ELSE "failed"
          ELSE CASE op[r] = "read" -> "page1" [] op[r] = "form" -> "form"
                 [] OTHER -> "ensure")
    /\ UNCHANGED <<fields, loggedIn, task, snap, ghost>>

Login(r) ==
    /\ pc[r] = "login"
    /\ \/ GoTo(r, IF op[r] = "read" THEN "page1" ELSE "ensure") /\ loggedIn' = TRUE
       \/ GoTo(r, "failed") /\ UNCHANGED loggedIn
    /\ UNCHANGED <<fields, task, snap, ghost>>

(* Mutant: only a scraper that has no thread at all loads one.             *)
EnsureSome(r) ==
    /\ Go(r, "ensure", IF want[r] = NoThread \/ url # NoThread THEN "snapshot" ELSE "load")
    /\ UNCHANGED <<fields, loggedIn, task, snap, ghost>>

(* ensureThread: nothing to do without a URL, or with the current one.     *)
EnsureThread(r) ==
    /\ Go(r, "ensure", IF want[r] \in {NoThread, url} THEN "snapshot" ELSE "load")
    /\ UNCHANGED <<fields, loggedIn, task, snap, ghost>>

(* FetchThread on the way to a write.                                      *)
StartLoad(r) ==
    /\ pc[r] = "load"
    /\ \/ loggedIn /\ GoTo(r, "page1") /\ UNCHANGED loggedIn
       \/ ~loggedIn /\ GoTo(r, "page1") /\ loggedIn' = TRUE
       \/ ~loggedIn /\ GoTo(r, "failed") /\ UNCHANGED loggedIn
    /\ UNCHANGED <<fields, task, snap, ghost>>

Whole == {"tid", "token"}
Pages == IF BareAnswers THEN {Whole, {"tid"}, {}} ELSE {Whole}

(* Mutant: a token, once found, is kept.                                   *)
CommitKeeps(t, page) ==
    /\ tid' = IF "tid" \in page THEN t ELSE tid
    /\ token' = IF "token" \in page /\ token = NoThread THEN t ELSE token

(* extractMetadata: what the page has, under one lock.                     *)
Commit(t, page) ==
    /\ tid' = IF "tid" \in page THEN t ELSE tid
    /\ token' = IF "token" \in page THEN t ELSE token

Parse(r) ==
    \E page \in Pages : Commit(want[r], page) /\ bare' = (bare \/ page # Whole)

Page1(r) ==
    /\ \/ Go(r, "page1", "seturl") /\ Parse(r)
       \/ Go(r, "page1", "failed") /\ UNCHANGED <<tid, token, bare>>
    /\ UNCHANGED <<url, loggedIn, task, snap, ghost>>

Loaded(r) == IF op[r] = "read" THEN "answer" ELSE "snapshot"

(* The URL is set in a section of its own; the page wanted may be another. *)
SetURL(r) ==
    /\ Go(r, "seturl", Loaded(r)) \/ Go(r, "seturl", "page2")
    /\ url' = want[r]
    /\ UNCHANGED <<tid, token, bare, loggedIn, task, snap, ghost>>

Page2(r) ==
    /\ \/ Go(r, "page2", Loaded(r)) /\ Parse(r)
       \/ Go(r, "page2", "failed") /\ UNCHANGED <<tid, token, bare>>
    /\ UNCHANGED <<url, loggedIn, task, snap, ghost>>

(* The second snapshot, after ensureThread's own.                          *)
Snapshot(r) ==
    /\ IF NoThread \in {tid, token} THEN Go(r, "snapshot", "failed") /\ UNCHANGED snap
       ELSE /\ Go(r, "snapshot", "post")
            /\ snap' = [snap EXCEPT ![r] = [tid |-> tid, token |-> token]]
    /\ UNCHANGED <<fields, loggedIn, task, ghost>>

(* A new thread or message takes its token from the page of its own form,  *)
(* and touches no field of the current thread.                             *)
TakeForm(r) ==
    /\ Go(r, "form", "post") \/ Go(r, "form", "failed")
    /\ UNCHANGED <<fields, loggedIn, task, snap, ghost>>

FetchNewThreadPage(r) == TakeForm(r)
LoadConversation(r)   == TakeForm(r)

(* The request reaches the thread of its snapshot, or nobody.              *)
Reaches(r) ==
    \/ /\ posts' = [posts EXCEPT ![r] = @ \cup {snap[r].tid}]
       /\ count' = [count EXCEPT ![r] = @ + 1]
    \/ UNCHANGED <<posts, count>>

(* Whatever the forum did, the answer may be lost or be an error; and what *)
(* counts as success (a status below 400 or of 200, a body that is not a   *)
(* refusal in JSON) does not tell that it did it.                          *)
Post(r, o) ==
    /\ op[r] = o /\ (Go(r, "post", "answer") \/ Go(r, "post", "failed"))
    /\ Reaches(r) /\ snap' = [snap EXCEPT ![r] = NoSnap]
    /\ UNCHANGED <<fields, loggedIn, task, renewed>>

LikeMessage(r)   == Post(r, "like")
PostReply(r)     == Post(r, "post")
EditMessage(r)   == Post(r, "post")
GetPostSource(r) == Post(r, "post")
GetQuotedPost(r) == Post(r, "post")
GetPostQuoted(r) == Post(r, "post")
CreateThread(r)  == Post(r, "form")
SendPrivateMessage(r) == Post(r, "form")

------------------------------------------------------------------------------
(* withRelogin.                                                            *)
Others(r) == {q \in Requests \ {r} : pc[q] # "idle"}

(* Mutant: any failure is retried.                                         *)
RetriesAll(r) == attempt[r] = 1

(* No error of these operations is ErrSessionExpired: what is retried is   *)
(* one that finds the scraper not logged in.                               *)
Retries(r) == attempt[r] = 1 /\ ~loggedIn

SecondAttempt(r) == attempt' = [attempt EXCEPT ![r] = 2]

Retry(r) ==
    /\ Retries(r) /\ Go(r, "failed", "relogin")
    /\ loggedIn' = FALSE /\ renewed' = renewed \cup (IF loggedIn THEN Others(r) ELSE {})
    /\ UNCHANGED <<fields, task, snap, posts, count>>

Relogin(r) ==
    /\ pc[r] = "relogin"
    /\ \/ GoTo(r, "start") /\ loggedIn' = TRUE /\ SecondAttempt(r)
       \/ GoTo(r, "answer") /\ UNCHANGED <<loggedIn, attempt>>
    /\ UNCHANGED <<fields, op, want, snap, ghost>>

(* The handler answers, with the error or with success.                    *)
Answer(r) ==
    /\ \/ Go(r, "answer", "idle")
       \/ ~Retries(r) /\ Go(r, "failed", "idle")
    /\ op' = [op EXCEPT ![r] = "read"] /\ want' = [want EXCEPT ![r] = NoThread]
    /\ attempt' = [attempt EXCEPT ![r] = 1]
    /\ posts' = [posts EXCEPT ![r] = {}] /\ count' = [count EXCEPT ![r] = 0]
    /\ renewed' = renewed \ {r}
    /\ UNCHANGED <<fields, loggedIn, snap>>

(* The poll job, the sweep or another request finds the session expired    *)
(* and calls Relogin, which first clears loggedIn.                         *)
RenewBegins ==
    /\ Renewals /\ loggedIn' = FALSE
    /\ renewed' = {r \in Requests : pc[r] # "idle"}
    /\ UNCHANGED <<fields, pc, task, snap, posts, count, overlapped>>

RenewEnds ==
    /\ Renewals /\ ~loggedIn /\ loggedIn' = TRUE
    /\ UNCHANGED <<fields, pc, task, snap, ghost, overlapped>>

------------------------------------------------------------------------------
Ask(r) ==
    \/ AskThread(r) \/ AskLike(r) \/ AskReply(r) \/ AskEdit(r) \/ AskSource(r)
    \/ AskQuote(r) \/ AskQuoted(r) \/ AskCreate(r) \/ AskMessage(r)

Send(r) ==
    \/ LikeMessage(r) \/ PostReply(r) \/ EditMessage(r) \/ GetPostSource(r)
    \/ GetQuotedPost(r) \/ GetPostQuoted(r) \/ CreateThread(r) \/ SendPrivateMessage(r)

Step(r) ==
    \/ Ask(r) \/ Start(r) \/ Login(r) \/ EnsureThread(r) \/ StartLoad(r)
    \/ Page1(r) \/ SetURL(r) \/ Page2(r) \/ Snapshot(r)
    \/ FetchNewThreadPage(r) \/ LoadConversation(r) \/ Send(r)
    \/ Retry(r) \/ Relogin(r) \/ Answer(r)

Next ==
    \/ (\E r \in Requests : Step(r)) /\ Noted
    \/ RenewBegins \/ RenewEnds

Spec == Init /\ [][Next]_vars

------------------------------------------------------------------------------
Pcs == {"idle", "start", "login", "ensure", "load", "page1", "seturl", "page2",
        "snapshot", "form", "post", "failed", "relogin", "answer"}

TypeOK ==
    /\ url \in Current /\ tid \in Current /\ token \in Current /\ loggedIn \in BOOLEAN
    /\ pc \in [Requests -> Pcs] /\ op \in [Requests -> Ops]
    /\ want \in [Requests -> Current] /\ attempt \in [Requests -> {1, 2}]
    /\ snap \in [Requests -> [tid : Current, token : Current]]
    /\ posts \in [Requests -> SUBSET Current] /\ count \in [Requests -> {0, 1, 2}]
    /\ renewed \subseteq Requests /\ overlapped \in BOOLEAN /\ bare \in BOOLEAN

(***************************************************************************)
(* "A consistent copy of the thread-related fields" (scraper.go:110): the  *)
(* id and the token of a post are those of one thread, however the loads   *)
(* of other requests interleave, as long as no page lacked one of them.    *)
(***************************************************************************)
OneThreadPerPost == bare \/ \A r \in Requests : snap[r].tid = snap[r].token

(***************************************************************************)
(* A post reaches another thread than the one its request names            *)
(* (scraper.go:119-123) only after two loads have overlapped or a page had *)
(* no thread id: without these the URL kept is that of the id kept.        *)
(***************************************************************************)
LandsIfUndisturbed ==
    \/ overlapped \/ bare
    \/ \A r \in Requests : want[r] # NoThread => posts[r] \subseteq {want[r]}

(***************************************************************************)
(* A post whose answer is lost is not repeated (api.go:95-125), unless     *)
(* somebody was renewing the session meanwhile.                            *)
(***************************************************************************)
RepeatNeedsRenewal == \A r \in Requests : count[r] > 1 => r \in renewed

(***************************************************************************)
(* "The reply always lands in the thread the caller intends, regardless of *)
(* stale backend state" (scraper.go:943-944).                              *)
(***************************************************************************)
AlwaysLands ==
    \A r \in Requests : want[r] # NoThread => posts[r] \subseteq {want[r]}

==============================================================================
