----------------------------- MODULE SessionStore -----------------------------
(***************************************************************************)
(* The Mediavida session of one device token: the in-memory entry of       *)
(* SessionStore (session.go), the durable row of mv_sessions (store.go),   *)
(* the ForumScrapers that goroutines hold (scraper.go), and everything     *)
(* that writes them: lookups that restore, logins, logout, data requests   *)
(* with withRelogin (api.go), the poll job (bubbles.go), the keepalive     *)
(* sweep (keepalive.go), a crash and the next boot (main.go).              *)
(*                                                                         *)
(* Data: a cookie jar is NoCookie or the auth cookies of one login, an     *)
(* account with a value that differs from those the scraper had and last   *)
(* saved; credentials are the account; the forum takes or refuses any      *)
(* cookies at any time.  A step ends where another goroutine can run: a    *)
(* network call, a query, a lock.                                          *)
(***************************************************************************)
EXTENDS Naturals, FiniteSets

CONSTANTS
    Accounts,           \* MV accounts
    Requests,           \* HTTP handler goroutines
    Ops,                \* what clients ask for: subset of RequestOps
    Env,                \* what may go wrong around the code: subset of Faults
    Cookies,            \* values of auth cookies
    Poll, Keep,         \* the poll worker and the keepalive goroutine
    NoOne, None         \* no account, no cookie

RequestOps == {"data", "login", "logout"}
Faults     == {"guard", "age", "read", "write", "crash"}
Procs      == Requests \cup {Poll, Keep}
Unsettled  == "unsettled"

ASSUME StoreAssumption ==
    /\ Ops \subseteq RequestOps /\ Env \subseteq Faults
    /\ Poll # Keep /\ {Poll, Keep} \cap Requests = {}
    /\ NoOne \notin Accounts /\ Unsettled \notin Accounts /\ None \notin Cookies
    /\ IsFiniteSet(Requests)

Refs     == 1..(Cardinality(Procs) + 1)         \* scrapers alive
NoCookie == [acct |-> NoOne, val |-> None]
NoRow    == [acct |-> NoOne, jar |-> NoCookie, aged |-> FALSE]
Blank    == [acct |-> NoOne, jar |-> NoCookie, fp |-> {}, status |-> "none"]

VARIABLES
    up,                 \* the process runs
    mem,                \* sessions[token]: "absent", "nil" or "obj"
    cur,                \* its scraper, when mem = "obj"
    row,                \* the row of mv_sessions
    heap,               \* scraper -> account, jar, {jar last saved}, ...
    pc, ob, op,         \* goroutine -> pc, scraper it holds, what it does
    then,               \* goroutine -> where it goes on after a save
    want,               \* goroutine -> account of the login request
    page,               \* goroutine -> account whose guard page its user has
    got,                \* goroutine -> the row it is about to write
    intent,             \* account of the last login, NoOne after a logout,
                        \* Unsettled while one of them is on its way
    clean               \* requests no other login or logout overlapped so far

ghost  == <<intent, clean>>
wish   == <<want, page>>
procVars == <<pc, ob, op, then, wish, got>>
vars   == <<up, mem, cur, row, heap, procVars, ghost>>

Init ==
    /\ up = TRUE /\ mem = "absent" /\ cur = 0 /\ row = NoRow
    /\ heap = [o \in Refs |-> Blank]
    /\ pc = [p \in Procs |-> "idle"] /\ ob = [p \in Procs |-> 0]
    /\ op = [p \in Procs |-> "none"] /\ then = [p \in Procs |-> "done"]
    /\ want = [p \in Procs |-> NoOne] /\ page = [p \in Procs |-> NoOne]
    /\ got = [p \in Procs |-> NoRow]
    /\ intent = NoOne /\ clean = {}

------------------------------------------------------------------------------
(* Steps of a goroutine p.                                                 *)
At(p, from)   == up /\ pc[p] = from /\ UNCHANGED up
GoTo(p, to)   == pc' = [pc EXCEPT ![p] = to]
Go(p, from, to) == At(p, from) /\ GoTo(p, to)
Hold(p, o)    == ob' = [ob EXCEPT ![p] = o]
Continue(p, k) == then' = [then EXCEPT ![p] = k]

sameStore == <<mem, cur, row>>
sameTask  == <<op, then, wish, got>>

(* A scraper nobody refers to is collected.                                *)
Live(o) == o = cur \/ \E p \in Procs : ob[p] = o
Heap(h) == heap' = [o \in Refs |-> IF Live(o)' THEN h[o] ELSE Blank]
SameHeap == Heap(heap)
Fresh == CHOOSE o \in Refs : ~Live(o)

Usable(r) == r.jar # NoCookie
Loaded(r) == [acct |-> r.acct, jar |-> r.jar, fp |-> {r.jar}, status |-> "auth"]
LoggedOut(a) == [Blank EXCEPT !.acct = a, !.status = "auth"]

AuthOp(p) == op[p] \in {"login", "guard", "logout"} /\ pc[p] # "idle"

(* p is finished; a login or logout settles what the user asked for.       *)
Finish(p, result) ==
    /\ GoTo(p, "idle") /\ Hold(p, 0)
    /\ op' = [op EXCEPT ![p] = "none"] /\ Continue(p, "done")
    /\ want' = [want EXCEPT ![p] = NoOne] /\ page' = [page EXCEPT ![p] = NoOne]
    /\ got' = [got EXCEPT ![p] = NoRow]
    /\ clean' = clean \ {p}
    /\ intent' = IF p \notin clean THEN intent
                 ELSE IF op[p] \in {"login", "guard"} /\ result = "ok" THEN want[p]
                 ELSE IF op[p] = "logout" THEN NoOne
                 ELSE intent

(* The keepalive sweep holds the read lock across its network calls.       *)
CanWrite == pc[Keep] = "idle"

------------------------------------------------------------------------------
(* A request arrives; a tick queues a poll job; the sweep takes a session. *)
Arrive(p, o, a) ==
    /\ p \in Requests /\ o \in Ops
    /\ Go(p, "idle", IF o = "login" THEN "load" ELSE "lookup")
    /\ op' = [op EXCEPT ![p] = o]
    /\ want' = [want EXCEPT ![p] = IF o = "login" THEN a ELSE NoOne]
    /\ IF o = "data"
       THEN /\ clean' = IF intent \in Accounts THEN clean \cup {p} ELSE clean
            /\ UNCHANGED intent
       ELSE /\ clean' = IF \E q \in Procs : AuthOp(q) THEN {} ELSE {p}
            /\ intent' = Unsettled
    /\ UNCHANGED <<sameStore, heap, ob, then, page, got>>

Authed == mem = "obj" /\ heap[cur].status = "auth"

Tick ==
    /\ Authed /\ Go(Poll, "idle", "lookup")
    /\ op' = [op EXCEPT ![Poll] = "poll"]
    /\ UNCHANGED <<sameStore, heap, ghost, ob, then, wish, got>>

Sweep ==
    /\ Authed /\ Go(Keep, "idle", "validate")
    /\ op' = [op EXCEPT ![Keep] = "keep"] /\ Hold(Keep, cur)
    /\ UNCHANGED <<sameStore, heap, ghost, then, wish, got>>

(* Down: every goroutine and the map are gone; the rows stay.              *)
Down ==
    /\ up /\ up' = FALSE
    /\ mem' = "absent" /\ cur' = 0 /\ heap' = [o \in Refs |-> Blank]
    /\ pc' = [p \in Procs |-> "idle"] /\ ob' = [p \in Procs |-> 0]
    /\ op' = [p \in Procs |-> "none"] /\ then' = [p \in Procs |-> "done"]
    /\ want' = [p \in Procs |-> NoOne] /\ page' = [p \in Procs |-> NoOne]
    /\ got' = [p \in Procs |-> NoRow]
    /\ clean' = {}
    /\ UNCHANGED <<row, intent>>

Crash == "crash" \in Env /\ Down

(* The callbacks of ForEach (authedSessions on every tick, refreshAll)     *)
(* read s.Status of every entry: a nil entry is a nil dereference, which   *)
(* nothing recovers.                                                       *)
NilEntry == mem = "nil" /\ Down

------------------------------------------------------------------------------
(* Lookup and restoreSessionE.                                             *)
(* The session the caller got: handlePollSession and requireAuthenticated  *)
(* want it authenticated, logout and the guard login take any.             *)
Found(p, o) ==
    IF op[p] \in {"logout", "guard"} \/ heap[o].status = "auth"
    THEN /\ GoTo(p, IF op[p] = "logout" THEN "delete"
                    ELSE IF op[p] = "guard" THEN "submit" ELSE "use")
         /\ Hold(p, o) /\ UNCHANGED <<sameTask, ghost>>
    ELSE IF op[p] = "data"
    THEN GoTo(p, "refused") /\ Hold(p, 0) /\ UNCHANGED <<sameTask, ghost>>
    ELSE Finish(p, "gone")

(* No session: 401 for a data request, a no-op for the poll job, a nil     *)
(* dereference that net/http recovers for the guard login.                 *)
Missing(p) ==
    IF op[p] \in {"poll", "guard"} THEN Finish(p, "gone")
    ELSE /\ GoTo(p, IF op[p] = "data" THEN "refused" ELSE "setnil")
         /\ Hold(p, 0) /\ UNCHANGED <<sameTask, ghost>>

(* Mutant: a store that cannot be read is a device without a session.      *)
UnavailableIsMissing(p) == Missing(p)

(* errSessionStoreUnavailable: 503; Get collapses it to no session.        *)
Unavailable(p) == IF op[p] = "data" THEN Finish(p, "503") ELSE Missing(p)

Lookup(p) ==
    /\ At(p, "lookup")
    /\ IF mem = "obj" THEN Found(p, cur)
       ELSE GoTo(p, "row") /\ UNCHANGED <<ob, sameTask, ghost>>
    /\ UNCHANGED sameStore /\ SameHeap

ReadRow(p) ==
    /\ At(p, "row")
    /\ UNCHANGED sameStore
    /\ \/ "read" \in Env /\ Unavailable(p) /\ SameHeap
       \/ ~Usable(row) /\ Missing(p) /\ SameHeap
       \/ /\ Usable(row)
          /\ Hold(p, Fresh)
          /\ IF row.aged
             THEN /\ GoTo(p, "login") /\ Continue(p, "install")
                  /\ Heap([heap EXCEPT ![Fresh] = LoggedOut(row.acct)])
             ELSE /\ GoTo(p, "install") /\ UNCHANGED then
                  /\ Heap([heap EXCEPT ![Fresh] = Loaded(row)])
          /\ UNCHANGED <<op, wish, got, ghost>>

(* The installed session replaces whatever the map holds by now; Lookup    *)
(* reads the map again.                                                    *)
InstallRestored(p) ==
    /\ op[p] # "login" /\ CanWrite /\ Go(p, "install", "reread")
    /\ mem' = "obj" /\ cur' = ob[p]
    /\ Hold(p, 0) /\ UNCHANGED <<row, sameTask, ghost>> /\ SameHeap

Reread(p) ==
    /\ At(p, "reread")
    /\ IF mem = "obj" THEN Found(p, cur) ELSE Missing(p)
    /\ UNCHANGED sameStore /\ SameHeap

(* The 401 leaves; the app drops to its login screen.                      *)
Refuse(p) ==
    /\ At(p, "refused") /\ Finish(p, "401")
    /\ UNCHANGED sameStore /\ SameHeap

------------------------------------------------------------------------------
(* The operation, behind withRelogin or in checkOne, and the validation of *)
(* the keepalive sweep; Relogin never clears the session first.            *)

(* The forum answers; the handlers' AutoSave, the poll job on a change and *)
(* the sweep save the cookies.                                             *)
UseOk(p) ==
    /\ pc[p] \in {"use", "retry", "validate"} /\ up /\ UNCHANGED up
    /\ heap[ob[p]].jar # NoCookie
    /\ \/ GoTo(p, "save") /\ Continue(p, "done") /\ UNCHANGED <<ob, op, wish, got, ghost>>
       \/ pc[p] # "validate" /\ Finish(p, "ok")
    /\ UNCHANGED sameStore /\ SameHeap

(* The forum fails, or the second attempt does (502, recordFailure); or    *)
(* the poll job has nobody to tell.                                        *)
UseFails(p) ==
    /\ pc[p] \in {"use", "retry"} /\ up /\ UNCHANGED up
    /\ Finish(p, "502")
    /\ UNCHANGED sameStore /\ SameHeap

(* Mutant: Relogin begins with ClearSession, as it once did.               *)
ExpiredClears(p) ==
    /\ pc[p] \in {"use", "validate"} /\ up /\ UNCHANGED up
    /\ GoTo(p, "login") /\ row' = NoRow
    /\ Continue(p, IF pc[p] = "use" THEN "retry" ELSE "done")
    /\ UNCHANGED <<mem, cur, ob, op, wish, got, ghost>>
    /\ Heap([heap EXCEPT ![ob[p]].jar = NoCookie, ![ob[p]].fp = {}])

(* Expired, or so it looks (a challenge page), or isLoggedIn is false since *)
(* it last did: on to Relogin.                                             *)
UseExpired(p) ==
    /\ pc[p] \in {"use", "validate"} /\ up /\ UNCHANGED up
    /\ GoTo(p, "login")
    /\ Continue(p, IF pc[p] = "use" THEN "retry" ELSE "done")
    /\ UNCHANGED <<sameStore, ob, op, wish, got, ghost>> /\ SameHeap

(* checkOne's periodic save, before the scrape.                            *)
SaveFirst(p) ==
    /\ op[p] = "poll" /\ Go(p, "use", "save") /\ Continue(p, "use")
    /\ UNCHANGED <<sameStore, ob, op, wish, got, ghost>> /\ SameHeap

(* The forum grants scraper o a login of account a: new cookies.           *)
Granted(o, a) ==
    {[heap EXCEPT ![o].status = "auth", ![o].jar = j] :
       j \in [acct : {a}, val : Cookies] \ ({heap[o].jar} \cup heap[o].fp)}

LoginOk(p) ==
    /\ Go(p, "login", "save")
    /\ UNCHANGED <<sameStore, ob, sameTask, ghost>>
    /\ \E h \in Granted(ob[p], heap[ob[p]].acct) : Heap(h)

(* Login takes any cookie but "_l" for its proof, and Relogin kept the     *)
(* jar: the cookies of before are enough, as they are when ValidateSession *)
(* finds them still good.                                                  *)
KeepsCookies(p) ==
    /\ Go(p, "login", "save") /\ heap[ob[p]].jar # NoCookie
    /\ UNCHANGED <<sameStore, ob, sameTask, ghost>> /\ SameHeap

(* 503 for a request, 401 "login failed" for a login, and no session at    *)
(* all for a restore.                                                      *)
LoginFails(p) ==
    /\ At(p, "login")
    /\ IF then[p] = "install" /\ op[p] # "login"
       THEN Missing(p) ELSE Finish(p, "503")
    /\ UNCHANGED sameStore /\ SameHeap

(* The forum wants a guard code.  A login request parks its scraper in the *)
(* map and comes back, with the code for the guard page of that account.   *)
LoginGuarded(p) ==
    /\ "guard" \in Env /\ op[p] = "login" /\ CanWrite
    /\ Go(p, "login", "lookup")
    /\ mem' = "obj" /\ cur' = ob[p] /\ Hold(p, 0)
    /\ op' = [op EXCEPT ![p] = "guard"] /\ Continue(p, "done")
    /\ page' = [page EXCEPT ![p] = heap[ob[p]].acct]
    /\ UNCHANGED <<row, want, got, ghost>>
    /\ Heap([heap EXCEPT ![ob[p]].status = "guard"])

(* SubmitGuard on whatever session the map held by then.                   *)
Submit(p) ==
    /\ Go(p, "submit", "save")
    /\ UNCHANGED <<sameStore, ob, sameTask, ghost>>
    /\ \E h \in Granted(ob[p], page[p]) : Heap(h)

SubmitFails(p) ==
    /\ At(p, "submit") /\ Finish(p, "401")
    /\ UNCHANGED sameStore /\ SameHeap

------------------------------------------------------------------------------
(* SaveSession: nothing to do for unchanged auth cookies, else a new row.  *)
Saved(p) ==
    IF then[p] = "done" THEN Finish(p, "ok")
    ELSE /\ GoTo(p, then[p]) /\ Continue(p, "done")
         /\ got' = [got EXCEPT ![p] = NoRow] /\ UNCHANGED <<ob, op, wish, ghost>>

Unchanged(o) == heap[o].fp = {heap[o].jar}

SaveUnchanged(p) ==
    /\ At(p, "save") /\ Unchanged(ob[p])
    /\ Saved(p)
    /\ UNCHANGED sameStore /\ SameHeap

SaveChanged(p) ==
    /\ Go(p, "save", "put") /\ ~Unchanged(ob[p])
    /\ got' = [got EXCEPT ![p] = [acct |-> heap[ob[p]].acct, jar |-> heap[ob[p]].jar,
                                  aged |-> FALSE]]
    /\ UNCHANGED <<sameStore, ob, op, then, wish, ghost>> /\ SameHeap

PutSession(p) ==
    /\ At(p, "put") /\ Saved(p) /\ UNCHANGED <<mem, cur>>
    /\ \/ row' = got[p] /\ Heap([heap EXCEPT ![ob[p]].fp = {got[p].jar}])
       \/ "write" \in Env /\ UNCHANGED row /\ SameHeap

------------------------------------------------------------------------------
(* CreateFromCredentials.                                                  *)
(* Mutant: a stored session of another account keeps its cookies.          *)
LoadKeepsJar(p) ==
    /\ At(p, "load") /\ Hold(p, Fresh)
    /\ GoTo(p, "login") /\ Continue(p, "install")
    /\ UNCHANGED <<sameStore, op, wish, got, ghost>>
    /\ Heap([heap EXCEPT ![Fresh] = [LoggedOut(want[p]) EXCEPT !.jar = row.jar]])

(* LoadSession: the saved session of the same account is taken as it is.   *)
(* Cookies past their date load nothing, but leave their credentials in    *)
(* the scraper that logs in.                                               *)
Load(p) ==
    /\ At(p, "load") /\ Hold(p, Fresh)
    /\ UNCHANGED <<sameStore, op, wish, got, ghost>>
    /\ \/ /\ Usable(row) /\ ~row.aged /\ row.acct = want[p]
          /\ GoTo(p, "install") /\ UNCHANGED then
          /\ Heap([heap EXCEPT ![Fresh] = Loaded(row)])
       \/ /\ Usable(row) /\ row.aged
          /\ GoTo(p, "login") /\ Continue(p, "install")
          /\ Heap([heap EXCEPT ![Fresh] = LoggedOut(row.acct)])
       \/ /\ "read" \in Env \/ ~Usable(row) \/ (~row.aged /\ row.acct # want[p])
          /\ GoTo(p, "login") /\ Continue(p, "install")
          /\ Heap([heap EXCEPT ![Fresh] = LoggedOut(want[p])])

InstallLogin(p) ==
    /\ op[p] = "login" /\ CanWrite /\ At(p, "install")
    /\ mem' = "obj" /\ cur' = ob[p]
    /\ Finish(p, "ok")
    /\ UNCHANGED row /\ SameHeap

------------------------------------------------------------------------------
(* POST /auth/logout: ClearSession deletes the row, then resets the        *)
(* scraper; the handler then stores nil in the map.                        *)
DeleteRow(p) ==
    /\ Go(p, "delete", "clear")
    /\ row' = NoRow \/ ("write" \in Env /\ row' = row)
    /\ UNCHANGED <<mem, cur, ob, sameTask, ghost>> /\ SameHeap

ClearScraper(p) ==
    /\ Go(p, "clear", "setnil")
    /\ Hold(p, 0)
    /\ UNCHANGED <<sameStore, sameTask, ghost>>
    /\ Heap([heap EXCEPT ![ob[p]].jar = NoCookie, ![ob[p]].fp = {}])

(* Mutant: the entry is marked, its scraper stays.                         *)
MarkNil(p) ==
    /\ At(p, "setnil") /\ CanWrite
    /\ mem' = "nil"
    /\ Finish(p, "ok")
    /\ UNCHANGED <<cur, row>> /\ SameHeap

SetNil(p) ==
    /\ At(p, "setnil") /\ CanWrite
    /\ mem' = "nil" /\ cur' = 0
    /\ Finish(p, "ok")
    /\ UNCHANGED row /\ SameHeap

------------------------------------------------------------------------------
(* Boot: RestoreAll, before the server listens.                            *)
Restored(scraper) == mem' = "obj" /\ cur' = 1 /\ heap' = [heap EXCEPT ![1] = scraper]

Boot ==
    /\ ~up /\ up' = TRUE /\ UNCHANGED <<procVars, ghost>>
    /\ \/ /\ "read" \in Env \/ ~Usable(row) \/ row.aged
          /\ UNCHANGED <<sameStore, heap>>
       \/ Usable(row) /\ ~row.aged /\ Restored(Loaded(row)) /\ UNCHANGED row
       \/ /\ Usable(row) /\ row.aged
          /\ \E c \in Cookies :
                LET new == [row EXCEPT !.aged = FALSE, !.jar.val = c]
                IN  \/ row' = new /\ Restored(Loaded(new))
                    \/ /\ "write" \in Env /\ UNCHANGED row
                       /\ Restored([Loaded(new) EXCEPT !.fp = {}])

(* Cookies saved long ago pass their date.                                 *)
Age ==
    /\ "age" \in Env /\ Usable(row) /\ row' = [row EXCEPT !.aged = TRUE]
    /\ UNCHANGED <<up, mem, cur, heap, procVars, ghost>>

Next ==
    \/ \E p \in Requests, o \in Ops, a \in Accounts : Arrive(p, o, a)
    \/ Tick \/ Sweep \/ Crash \/ NilEntry \/ Boot \/ Age
    \/ \E p \in Procs :
          \/ Lookup(p) \/ ReadRow(p) \/ InstallRestored(p) \/ Reread(p) \/ Refuse(p)
          \/ UseOk(p) \/ UseFails(p) \/ UseExpired(p) \/ SaveFirst(p)
          \/ LoginOk(p) \/ KeepsCookies(p) \/ LoginFails(p) \/ LoginGuarded(p)
          \/ Submit(p) \/ SubmitFails(p)
          \/ SaveUnchanged(p) \/ SaveChanged(p) \/ PutSession(p)
          \/ Load(p) \/ InstallLogin(p)
          \/ DeleteRow(p) \/ ClearScraper(p) \/ SetNil(p)

Spec == Init /\ [][Next]_vars

------------------------------------------------------------------------------
Pcs == {"idle", "lookup", "row", "install", "reread", "refused", "use", "retry",
        "validate", "login", "submit", "save", "put", "load",
        "delete", "clear", "setnil"}
Jars == {NoCookie} \cup [acct : Accounts, val : Cookies]
People == Accounts \cup {NoOne}

TypeOK ==
    /\ up \in BOOLEAN /\ mem \in {"absent", "nil", "obj"}
    /\ cur \in Refs \cup {0} /\ (mem = "obj" <=> cur # 0)
    /\ row \in [acct : People, jar : Jars, aged : BOOLEAN]
    /\ heap \in [Refs -> [acct : People, jar : Jars, fp : {{}} \cup {{j} : j \in Jars},
                          status : {"none", "auth", "guard"}]]
    /\ pc \in [Procs -> Pcs] /\ ob \in [Procs -> Refs \cup {0}]
    /\ op \in [Procs -> RequestOps \cup {"none", "guard", "poll", "keep"}]
    /\ then \in [Procs -> {"done", "use", "retry", "install"}]
    /\ want \in [Procs -> People] /\ page \in [Procs -> People]
    /\ got \in [Procs -> [acct : People, jar : Jars, aged : BOOLEAN]]
    /\ intent \in People \cup {Unsettled} /\ clean \subseteq Requests

(***************************************************************************)
(* Cookies and credentials stay together (session.go:169-176): no row and  *)
(* no scraper in use pairs one account's credentials with cookies that the *)
(* forum issued to another.                                                *)
(***************************************************************************)
WholeRows ==
    LET Whole(r) == r.jar.acct \in {r.acct, NoOne}
    IN  Whole(row) /\ \A o \in Refs : Whole(heap[o])

(***************************************************************************)
(* No spurious logout (api.go:84-100, session.go:35-40): a data request    *)
(* during which the user stays logged in is never refused with a 401 for   *)
(* want of a session, whatever the store, the forum, the other goroutines  *)
(* and restarts do.                                                        *)
(***************************************************************************)
NoSpuriousLogout == \A p \in clean : pc[p] # "refused"

(***************************************************************************)
(* A login sticks (session.go:169-176, main.go:97-99): once a login was    *)
(* answered, the map serves that account and the row can restore it, until *)
(* the next login or logout.                                               *)
(***************************************************************************)
LoginSticks ==
    intent \in Accounts =>
        /\ row.acct = intent /\ Usable(row)
        /\ mem = "obj" => heap[cur].acct = intent

(***************************************************************************)
(* Logging out will "drop the backend session (and thus push)"             *)
(* (mobile/lib/screens/web_navigation.dart:18): once a logout was answered *)
(* no entry of the map and no row with cookies keeps the session.          *)
(***************************************************************************)
LogoutSticks == intent = NoOne => ~Usable(row) /\ mem # "obj"

(***************************************************************************)
(* "ForEach calls fn for each stored session" (session.go:276): every      *)
(* entry it passes is one, so that no callback brings the process down.    *)
(***************************************************************************)
OnlyCrashesStop == up \/ "crash" \in Env

==============================================================================
