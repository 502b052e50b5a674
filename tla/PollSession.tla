----------------------------- MODULE PollSession -----------------------------
(***************************************************************************)
(* One poll job of one client: BubblesPoller.checkOne (bubbles.go:379-491) *)
(* with enrichFavorites, the circuit breaker, the listener gate and the    *)
(* start-up baseline.  Everything checkOne keeps is keyed by client and    *)
(* PollQueue shows a client has one job at a time, so one client is enough.*)
(* Between the network calls of a job the forum's counters, the listeners  *)
(* and the account logged in under this client ID may all change.          *)
(*                                                                         *)
(* Data: the two counters that only ever go through the diff (messages and *)
(* notifications) are one counter "other"; a favorite thread has a badge:  *)
(* NoBadge, 0 (a badge without a number, parseUnread = 0) or its count.    *)
(***************************************************************************)
EXTENDS Integers, FiniteSets

CONSTANTS
    Accounts,           \* MV accounts that log in under the client ID
    Threads,            \* favorite threads
    MaxCount,           \* bound: largest counter on the forum
    BreakerShift,       \* the 4 of 1 << min(fails, 4)
    BreakerMaxSkip,     \* breakerMaxSkip
    MaxFails            \* bound: consecutive failures counted

ASSUME SessionAssumption ==
    /\ MaxCount \in Nat /\ BreakerShift \in Nat \ {0}
    /\ BreakerMaxSkip \in Nat \ {0} /\ MaxFails \in Nat \ {0}
    /\ IsFiniteSet(Threads)

NoBadge == -1
Badges  == [Threads -> NoBadge..MaxCount]
Bubbles == [other : 0..MaxCount, fav : 0..Cardinality(Threads)]
Unknown == [other |-> -1, fav |-> -1]           \* prev[clientID] == nil
Zero    == [other |-> 0, fav |-> 0]             \* &Bubbles{}

VARIABLES
    account,            \* the account of the client's session
    mv,                 \* account -> its counters on mediavida.com
    listeners,          \* who listens, see Kinds
    prev, prevFav,      \* bp.prev, bp.prevFav of the client
    gated,              \* bp.gated of the client
    fails, skip,        \* bp.breaker of the client
    pc, who, was, named \* the job: pc, scraper's account, prev, favThreads

(* What properties compare a notification with.                            *)
VARIABLES
    told,               \* counters of the last SSE event or silent baseline
    quiet,              \* jobs the breaker skipped since it was last set
    gap,                \* a job was gated since prev was scraped
    across              \* the job: the same of was

mvVars    == <<account, mv, listeners>>
keptVars  == <<prev, prevFav, gated, fails, skip>>
jobVars   == <<pc, who, was, named, across>>
ghostVars == <<told, quiet, gap>>
vars == <<mvVars, keptVars, jobVars, ghostVars>>

Kinds == {"fcm", "other"}            \* other: an SSE stream or a webhook

BubblesOf(a) ==
    [other |-> mv[a].other,
     fav |-> Cardinality({t \in Threads : mv[a].badge[t] # NoBadge})]

NoFavs == [t \in Threads |-> NoBadge]

Init ==
    /\ account \in Accounts
    /\ mv = [a \in Accounts |-> [other |-> 0, badge |-> NoFavs]]
    /\ listeners = {}
    /\ prev = Unknown /\ prevFav = NoFavs
    /\ gated = FALSE /\ fails = 0 /\ skip = 0
    /\ pc = "start" /\ who = account /\ was = Unknown /\ named = {}
    /\ told = Unknown /\ quiet = 0 /\ gap = FALSE /\ across = FALSE

------------------------------------------------------------------------------
(* The world around a job.                                                 *)
ByWorld == UNCHANGED <<keptVars, jobVars, ghostVars>>

Counter(a, n) ==
    /\ mv' = [mv EXCEPT ![a].other = n]
    /\ UNCHANGED <<account, listeners>> /\ ByWorld

Badge(a, t, n) ==
    /\ n # mv[a].badge[t]
    /\ mv' = [mv EXCEPT ![a].badge[t] = n]
    /\ UNCHANGED <<account, listeners>> /\ ByWorld

Listen(k) ==
    /\ listeners' = (listeners \cup {k}) \ (listeners \cap {k})
    /\ UNCHANGED <<account, mv>> /\ ByWorld

(* Logout, then a login as another account under the same client ID.       *)
SwitchAccount(a) ==
    /\ a # account /\ account' = a
    /\ UNCHANGED <<mv, listeners>> /\ ByWorld

World ==
    \/ \E a \in Accounts, n \in 0..MaxCount : Counter(a, n)
    \/ \E a \in Accounts, t \in Threads, n \in NoBadge..MaxCount : Badge(a, t, n)
    \/ \E a \in Accounts : SwitchAccount(a)
    \/ \E k \in Kinds : Listen(k)

------------------------------------------------------------------------------
(* The job.                                                                *)
Low(m, n) == IF m < n THEN m ELSE n

Step(from, to) == pc \in from /\ pc' = to /\ UNCHANGED mvVars

(* poll(): the baseline scrape of a client with a session at start-up.     *)
(* An error leaves a zero baseline; a client that logs in later has none.  *)
StartBaseline ==
    /\ Step({"start"}, "idle")
    /\ prev' \in {BubblesOf(account), Zero, prev}
    /\ told' = prev'
    /\ UNCHANGED <<prevFav, gated, fails, skip, who, was, named, across, quiet, gap>>

(* Mutant: a skipped job does not use up the window.                       *)
SkipForever ==
    /\ skip > 0 /\ Step({"idle"}, "idle")
    /\ quiet' = Low(quiet + 1, BreakerMaxSkip)
    /\ UNCHANGED <<keptVars, who, was, named, across, told, gap>>

(* The breaker test that opens checkOne.                                   *)
Skip ==
    /\ skip > 0 /\ Step({"idle"}, "idle")
    /\ skip' = skip - 1 /\ quiet' = quiet + 1
    /\ UNCHANGED <<prev, prevFav, gated, fails, who, was, named, across, told, gap>>

(* The periodic save and refresh of the cookies touch none of this state.  *)
Begin ==
    /\ skip = 0 /\ Step({"idle"}, "gate")
    /\ who' = account
    /\ UNCHANGED <<keptVars, was, named, across, ghostVars>>

(* Mutant: the gate forgets to mark the client.                            *)
GateUnmarked ==
    /\ listeners = {} /\ Step({"gate"}, "idle")
    /\ gap' = TRUE
    /\ UNCHANGED <<keptVars, who, was, named, across, told, quiet>>

(* shouldPoll: nobody listens, so no scrape, and the client is gated.      *)
Gate ==
    /\ listeners = {} /\ Step({"gate"}, "idle")
    /\ gated' = TRUE /\ gap' = TRUE
    /\ UNCHANGED <<prev, prevFav, fails, skip, who, was, named, across, told, quiet>>

Move(from, to) ==
    /\ Step(from, to)
    /\ UNCHANGED <<keptVars, who, was, named, across, ghostVars>>

PassGate == listeners # {} /\ Move({"gate"}, "fetch")

(* The scrape found the session expired; Relogin; scrape again.            *)
Expired  == Move({"fetch"}, "relogin")
Relogged == Move({"relogin"}, "refetch")

(* Mutant: the window has no cap.                                          *)
WindowUncapped(f) == 2 ^ Low(f, BreakerShift)

Window(f) ==
    LET w == 2 ^ Low(f, BreakerShift)
    IN  IF w \in 0..BreakerMaxSkip THEN w ELSE BreakerMaxSkip

(* Mutant: the window does not grow with the failures.                     *)
FailOnce ==
    /\ Step({"fetch", "relogin", "refetch"}, "idle")
    /\ fails' = Low(fails + 1, MaxFails)
    /\ skip' = Window(1)
    /\ quiet' = 0
    /\ UNCHANGED <<prev, prevFav, gated, who, was, named, across, told, gap>>

(* recordFailure after a failed scrape, re-login or second scrape.         *)
Fail ==
    /\ Step({"fetch", "relogin", "refetch"}, "idle")
    /\ fails' = Low(fails + 1, MaxFails)
    /\ skip' = Window(fails')
    /\ quiet' = 0
    /\ UNCHANGED <<prev, prevFav, gated, who, was, named, across, told, gap>>

(* First sight, or just resumed after gating.                              *)
FirstSight == prev = Unknown \/ gated

(* A scrape: recordSuccess, and the new prev under stateMu.                *)
Scraped ==
    /\ fails' = 0 /\ skip' = 0 /\ gated' = FALSE
    /\ prev' = BubblesOf(who) /\ gap' = FALSE /\ quiet' = 0
    /\ UNCHANGED <<prevFav, who, named>>

(* Rebaseline and stop.                                                    *)
Rebaseline ==
    /\ FirstSight /\ Step({"fetch", "refetch"}, "idle")
    /\ Scraped
    /\ told' = prev'
    /\ UNCHANGED <<was, across>>

Diff ==
    /\ ~FirstSight /\ Step({"fetch", "refetch"}, "favs")
    /\ Scraped
    /\ was' = prev /\ across' = gap
    /\ UNCHANGED told

(* Enrichment is for FCM clients, when fav rose or threads are tracked.    *)
Enriches ==
    /\ "fcm" \in listeners
    /\ prev.fav > was.fav \/ \E t \in Threads : prevFav[t] # NoBadge

SkipFavs == ~Enriches /\ Move({"favs"}, "tell")
FavsFail == Enriches /\ Move({"favs"}, "tell")

(* enrichFavorites: the threads whose badge is above the one kept.         *)
EnrichFavs ==
    /\ Enriches /\ Step({"favs"}, "tell")
    /\ prevFav' = mv[who].badge
    /\ named' = {t \in Threads : prevFav'[t] > prevFav[t]}
    /\ UNCHANGED <<prev, gated, fails, skip, who, was, across, ghostVars>>

(* Mutant: the comparison forgets the Favorites counter.                   *)
ChangedOther == prev.other # was.other

Changed == prev # was

(* SSE when a counter changed, and a push then or when threads are named.  *)
Tell ==
    /\ Step({"tell"}, "idle")
    /\ told' = IF Changed THEN prev ELSE told
    /\ was' = Unknown /\ named' = {} /\ across' = FALSE
    /\ UNCHANGED <<keptVars, who, quiet, gap>>

Pushes == pc = "tell" /\ pc' = "idle" /\ (Changed \/ named # {})

Job ==
    \/ StartBaseline \/ Skip \/ Begin \/ Gate \/ PassGate \/ Expired
    \/ Relogged \/ Fail \/ Rebaseline \/ Diff \/ SkipFavs \/ FavsFail
    \/ EnrichFavs \/ Tell

Next == World \/ Job

(* Ticks keep coming and a job runs to its end.  A forum that is scraped   *)
(* again and again answers now and then; nothing else is assumed of it.    *)
Answers == Rebaseline \/ Diff
Fairness == WF_vars(Job) /\ SF_vars(Answers)

Spec == Init /\ [][Next]_vars
FairSpec == Spec /\ Fairness

------------------------------------------------------------------------------
TypeOK ==
    /\ account \in Accounts /\ who \in Accounts
    /\ mv \in [Accounts -> [other : 0..MaxCount, badge : Badges]]
    /\ listeners \subseteq Kinds
    /\ prev \in Bubbles \cup {Unknown} /\ was \in Bubbles \cup {Unknown}
    /\ told \in Bubbles \cup {Unknown}
    /\ prevFav \in Badges /\ named \subseteq Threads
    /\ gated \in BOOLEAN
    /\ fails \in 0..MaxFails /\ skip \in 0..BreakerMaxSkip
    /\ quiet \in 0..BreakerMaxSkip
    /\ pc \in {"start", "idle", "gate", "fetch", "relogin", "refetch", "favs", "tell"}
    /\ {gap, across} \subseteq BOOLEAN

(***************************************************************************)
(* "Mark gated so we re-baseline (no spurious increase) when the session   *)
(* resumes" (bubbles.go:404-406): a change is announced only against a     *)
(* scrape with no gated job in between.                                    *)
(***************************************************************************)
NoIncreaseOnResume == [][Pushes /\ Changed => ~across]_vars

(***************************************************************************)
(* Nothing the diff swallows: between jobs, the counters the poller will   *)
(* diff against are exactly those the client was last told or silently     *)
(* baselined with, whatever gating, failures, re-logins and enrichment     *)
(* errors came in between (bubbles.go:435-488).                            *)
(***************************************************************************)
ToldIsPrev == pc = "idle" => told = prev

(***************************************************************************)
(* The circuit breaker (bubbles.go:42-47, 383-390, 541-555): after k       *)
(* failures in a row the next attempt comes after exactly the k-th backoff *)
(* window of skipped jobs, never sooner and never after more than          *)
(* breakerMaxSkip of them.                                                 *)
(***************************************************************************)
Backoff ==
    /\ pc \in {"gate", "fetch"} /\ fails > 0 => quiet = Window(fails)
    /\ quiet + skip <= BreakerMaxSkip

(***************************************************************************)
(* Polling catches up: if from some time on somebody listens and account a *)
(* stays logged in with counters b, the client ends up having been told b, *)
(* however the breaker and the gate stood before (bubbles.go:379-491).     *)
(***************************************************************************)
CatchesUp ==
    \A a \in Accounts, b \in Bubbles :
        <>[](account = a /\ BubblesOf(a) = b /\ listeners # {}) => <>[](told = b)

==============================================================================
