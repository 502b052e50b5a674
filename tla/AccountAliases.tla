---------------------------- MODULE AccountAliases ----------------------------
(***************************************************************************)
(* One Mediavida session per account, shared by several devices: the       *)
(* bearer middleware and POST /auth/app-login (auth.go:136-280), the two   *)
(* alias tables (alias.go, watch.go), the sessions they lead to            *)
(* (session.go) and the start of the process, which collapses duplicate    *)
(* sessions (main.go:97-136, session.go:328-382).                          *)
(*                                                                         *)
(* A device is its bearer token.  A session, in memory or as a row, is the *)
(* account it belongs to; SessionStore has its credentials and cookies.    *)
(* Every user gives the right password, and an account keeps its password. *)
(* A step ends at a network call, a query or a released lock.              *)
(***************************************************************************)
EXTENDS Naturals, FiniteSets

CONSTANTS
    Devices, Watches,   \* tokens of phones (and the API token), of watches
    Api,                \* the configured API token, one of Devices or not
    Accounts,
    EnvAccount,         \* MV_USERNAME
    None,
    Procs,              \* handler goroutines
    Ops,                \* what devices ask for
    Env,                \* subset of {"read", "restore", "crash", "poll"}
    MaxChanges          \* bound: logins, logouts and crashes

ASSUME AliasAssumption ==
    /\ EnvAccount \in Accounts /\ None \notin Accounts \cup Devices \cup Watches
    /\ Watches \cap (Devices \cup {Api}) = {} /\ MaxChanges \in Nat
    /\ Ops \subseteq {"data", "logout", "pair", "revoke", "login"}

Tokens  == Devices \cup Watches
NoEntry == [acct |-> None, auth |-> FALSE]
Session(a) == [acct |-> a, auth |-> TRUE]
Pending(a) == [acct |-> a, auth |-> FALSE]

VARIABLES
    phase,              \* "boot" or "up"
    mem,                \* ss.sessions: device -> session
    rows,               \* mv_sessions: device -> account
    alias, watch,       \* app_aliases, watch_tokens: token -> owner
    job,                \* goroutine -> the request it serves
    polling             \* what the poll job holds: device and account

\* What properties compare with, and the bound's counter.
VARIABLES
    mine,               \* token -> the account it logged in or was paired for,
                        \* and those it asked for since
    inn,                \* devices told "authenticated" and not logged out since
    moved,              \* devices that changed account or were logged out
    revoked,            \* watches revoked or replaced
    raced,              \* a login, a restore or a save overlapped a login
    hidden,             \* a login or a boot missed a session that was a row only
    changes

ghosts == <<mine, inn, moved, revoked, raced, hidden, changes>>
tables == <<alias, watch>>
vars   == <<phase, mem, rows, tables, job, polling, ghosts>>

Idle == [at |-> "idle", op |-> "data", tok |-> None, client |-> None,
         acct |-> None, got |-> None, stage |-> "own", late |-> FALSE]
NoJob == [tok |-> None, acct |-> None]

Init ==
    /\ phase = "up"
    /\ \E in \in SUBSET ({Api} \cap Devices) :   \* the login of the boot may fail
          /\ mem = [d \in Devices |-> IF d \in in THEN Session(EnvAccount) ELSE NoEntry]
          /\ rows = [d \in Devices |-> IF d \in in THEN EnvAccount ELSE None]
    /\ alias = [d \in Devices |-> None] /\ watch = [w \in Watches |-> None]
    /\ job = [p \in Procs |-> Idle] /\ polling = NoJob
    /\ mine = [t \in Tokens |-> IF t = Api THEN {EnvAccount} ELSE {}]
    /\ inn = {} /\ moved = {} /\ revoked = {}
    /\ raced = FALSE /\ hidden = FALSE /\ changes = 0

------------------------------------------------------------------------------
At(p, a)   == phase = "up" /\ job[p].at = a
To(p, a)   == job' = [job EXCEPT ![p].at = a]
Leave(p)   == job' = [job EXCEPT ![p] = Idle]
Resolve(p, c, s) == job' = [job EXCEPT ![p].at = "look", ![p].client = c, ![p].stage = s]
Hold(p, a, c) == job' = [job EXCEPT ![p].at = a, ![p].acct = c]

sameRest   == <<phase, polling>>
sameGhosts == <<mine, inn, moved, revoked, changes>>
Change     == changes < MaxChanges /\ changes' = changes + 1

(* A goroutine that logs a token in or out, or is about to install what it *)
(* read of a row.                                                          *)
Changing(p)  == (job[p].op = "login" /\ job[p].at # "idle") \/ job[p].at \in {"clear", "forget"}
Restoring(p) == job[p].at = "install"
Race == raced' = (raced \/ \E p, q \in Procs :
            p # q /\ Changing(p)' /\ (Changing(q)' \/ Restoring(q)'))

(* A request with a bearer token.  The API token needs no session.         *)
Request(p, t) ==
    /\ At(p, "idle")
    /\ \E o \in Ops \ {"login"} :
          /\ o # "data" => t \in Devices
          /\ IF o = "logout" THEN Change ELSE UNCHANGED changes
          /\ job' = [job EXCEPT ![p] = [Idle EXCEPT !.op = o, !.tok = t, !.client = t,
                 !.late = t \in revoked, !.stage = IF t = Api THEN "use" ELSE "own",
                 !.at = IF t \in Watches THEN "alias" ELSE "look"]]
    /\ UNCHANGED <<sameRest, mem, rows, tables, mine, inn, moved, revoked, hidden>>

------------------------------------------------------------------------------
(* Where a lookup leads, with a session and without one.                   *)
Found(p) ==
    LET s == job[p].stage  c == job[p].client IN
    IF s \in {"own", "owner"} THEN Resolve(p, c, "use")
    ELSE IF s = "canon"
    THEN To(p, IF mem[c] = Session(job[p].acct) THEN "drop" ELSE "create")
    ELSE IF job[p].op = "logout" THEN To(p, "clear")
    ELSE IF ~mem[c].auth THEN To(p, "refused")
    ELSE Hold(p, IF job[p].op = "data" THEN "answered" ELSE job[p].op, mem[c].acct)

Missing(p) ==
    LET s == job[p].stage IN
    IF s = "own" THEN To(p, "alias")
    ELSE IF s = "canon" THEN To(p, "create")
    ELSE IF s = "use" /\ job[p].op = "logout" THEN To(p, "forget")
    ELSE To(p, "refused")

(* Lookup: the map, then the row, restored with a re-login that may fail.  *)
LookMap(p) ==
    LET c == job[p].client IN
    /\ At(p, "look")
    /\ IF mem[c] # NoEntry THEN Found(p) ELSE To(p, "row")
    /\ UNCHANGED <<sameRest, mem, rows, tables, sameGhosts, hidden>>

ReadRow(p) ==
    LET c == job[p].client IN
    /\ At(p, "row")
    /\ \/ rows[c] = None /\ Missing(p)
       \/ /\ rows[c] # None
          /\ job' = [job EXCEPT ![p].at = "install", ![p].got = rows[c]]
       \/ rows[c] # None /\ "restore" \in Env /\ Missing(p)
       \/ "read" \in Env /\ IF job[p].stage = "canon" THEN Missing(p) ELSE Leave(p)
    /\ UNCHANGED <<sameRest, mem, rows, tables, sameGhosts, hidden>>

Install(p) ==
    LET c == job[p].client IN
    /\ At(p, "install") /\ To(p, "reread")
    /\ mem' = [mem EXCEPT ![c] = Session(job[p].got)]
    /\ UNCHANGED <<sameRest, rows, tables, sameGhosts, hidden>>

Reread(p) ==
    /\ At(p, "reread")
    /\ IF mem[job[p].client] # NoEntry THEN Found(p) ELSE Missing(p)
    /\ UNCHANGED <<sameRest, mem, rows, tables, sameGhosts, hidden>>

------------------------------------------------------------------------------
(* A token without a session of its own: one hop through the two tables.   *)
(* An owner that cannot be read is none.                                   *)
Owners(t) == {IF t \in Devices THEN alias[t] ELSE watch[t]}
             \cup (IF "read" \in Env THEN {None} ELSE {})

(* Mutant: an owner is followed whether there is one or not.               *)
HopsBlindly(p, c) == Resolve(p, c, "owner")

Hop(p, c) == IF c = None THEN To(p, "refused") ELSE Resolve(p, c, "owner")

ReadOwner(p) ==
    /\ At(p, "alias")
    /\ \/ \E c \in Owners(job[p].tok) : Hop(p, c)
       \/ "read" \in Env /\ Leave(p)
    /\ UNCHANGED <<sameRest, mem, rows, tables, sameGhosts, hidden>>

(* The answer: an account's data, or a 401.                                *)
Answer(p) ==
    /\ phase = "up" /\ job[p].at \in {"answered", "refused"} /\ Leave(p)
    /\ UNCHANGED <<sameRest, mem, rows, tables, sameGhosts, hidden>>

(* Logout goes through the middleware, and so ends the session of the      *)
(* owner: its row, then its entry.  The alias stays.                       *)
ClearRow(p) ==
    /\ At(p, "clear") /\ To(p, "forget")
    /\ rows' = [rows EXCEPT ![job[p].client] = None]
    /\ UNCHANGED <<sameRest, mem, tables, sameGhosts, hidden>>

Forget(p) ==
    /\ At(p, "forget") /\ Leave(p)
    /\ mem' = [mem EXCEPT ![job[p].client] = NoEntry]
    /\ inn' = inn \ {job[p].tok, job[p].client}
    /\ moved' = moved \cup {job[p].tok, job[p].client}
    /\ UNCHANGED <<sameRest, rows, tables, mine, revoked, changes, hidden>>

------------------------------------------------------------------------------
(* Watches.  A pairing mints a new token and then revokes the one it       *)
(* replaces, if that is the owner's.                                       *)
Pair(p, w) ==
    /\ At(p, "pair") /\ watch[w] = None /\ w \notin revoked
    /\ To(p, "replace")
    /\ watch' = [watch EXCEPT ![w] = job[p].client]
    /\ mine' = [mine EXCEPT ![w] = {job[p].acct}]
    /\ UNCHANGED <<sameRest, mem, rows, alias, inn, moved, revoked, changes, hidden>>

(* Mutant: the session of the watch is deleted, its row in the table not.  *)
RevokesNot(w) == UNCHANGED watch

Revokes(w) == watch' = [watch EXCEPT ![w] = None]

Replace(p) ==
    /\ At(p, "replace") /\ Leave(p)
    /\ \/ UNCHANGED <<watch, revoked>>
       \/ \E w \in Watches :
             /\ watch[w] = job[p].client /\ Revokes(w)
             /\ revoked' = revoked \cup {w}
    /\ UNCHANGED <<sameRest, mem, rows, alias, mine, inn, moved, changes, hidden>>

Revoke(p) ==
    /\ At(p, "revoke") /\ Leave(p)
    /\ \E w \in Watches :
          IF watch[w] = job[p].client
          THEN Revokes(w) /\ revoked' = revoked \cup {w}
          ELSE UNCHANGED <<watch, revoked>>
    /\ UNCHANGED <<sameRest, mem, rows, alias, mine, inn, moved, changes, hidden>>

------------------------------------------------------------------------------
(* POST /auth/app-login.                                                   *)
AppLogin(p, d, a) ==
    /\ At(p, "idle") /\ "login" \in Ops /\ d # Api /\ Change
    /\ job' = [job EXCEPT ![p] = [Idle EXCEPT !.at = "canon", !.op = "login",
           !.tok = d, !.client = d, !.acct = a]]
    /\ inn' = inn \ {d} /\ mine' = [mine EXCEPT ![d] = @ \cup {a}]
    /\ UNCHANGED <<sameRest, mem, rows, tables, moved, revoked, hidden>>

Serving(a) == {c \in Devices : mem[c] = Session(a)}

(* Mutant: sessions of devices are not looked at.                          *)
CanonicalApi(a) == Serving(a) \cap {Api}

(* The API token, or else the smallest token, which may be any.            *)
CanonicalForUser(a) == IF Api \in Serving(a) THEN {Api} ELSE Serving(a)

OnlyRow(d, a) == rows[d] = a /\ mem[d] # Session(a)

Canonical(p) ==
    LET a == job[p].acct  cs == CanonicalForUser(a) IN
    /\ At(p, "canon")
    /\ hidden' = (hidden \/ \E d \in Devices \ {job[p].tok} : OnlyRow(d, a))
    /\ IF cs = {} THEN To(p, "create") ELSE \E c \in cs : Resolve(p, c, "canon")
    /\ UNCHANGED <<sameRest, mem, rows, tables, sameGhosts>>

(* DropSession, the entry and then the row, and only then the alias.       *)
DropEntry(p) ==
    /\ At(p, "drop") /\ To(p, "droprow")
    /\ mem' = [mem EXCEPT ![job[p].tok] = NoEntry]
    /\ UNCHANGED <<sameRest, rows, tables, sameGhosts, hidden>>

DropsRow(d) == rows' = [rows EXCEPT ![d] = None]

DropRow(p) ==
    /\ At(p, "droprow") /\ To(p, "addalias") /\ DropsRow(job[p].tok)
    /\ UNCHANGED <<sameRest, mem, tables, sameGhosts, hidden>>

(* A device comes to have account a, in its row or in the map.             *)
Settle(d, a) == moved' = IF mine[d] \subseteq {a} THEN moved ELSE moved \cup {d}

Welcome(p) ==
    LET d == job[p].tok  a == job[p].acct IN
    /\ Leave(p) /\ Settle(d, a)
    /\ inn' = inn \cup {d} /\ mine' = [mine EXCEPT ![d] = {a}]

AddAlias(p) ==
    /\ At(p, "addalias") /\ Welcome(p)
    /\ alias' = [alias EXCEPT ![job[p].tok] = job[p].client]
    /\ UNCHANGED <<sameRest, mem, rows, watch, revoked, changes, hidden>>

(* CreateFromCredentials: the stored session of this account, or a login.  *)
(* Mutant: whatever session is stored is taken for this account's.         *)
ReusesAny(d, a) == rows[d] # None

Reuses(d, a) == rows[d] = a

Create(p) ==
    LET d == job[p].tok IN
    /\ At(p, "create")
    /\ IF Reuses(d, job[p].acct)
       THEN Welcome(p) /\ mem' = [mem EXCEPT ![d] = Session(rows[d])]
       ELSE To(p, "login") /\ UNCHANGED <<mem, mine, inn, moved>>
    /\ UNCHANGED <<sameRest, rows, tables, revoked, changes, hidden>>

Login(p) ==
    LET d == job[p].tok IN
    /\ At(p, "login")
    /\ \/ /\ To(p, "enter") /\ Settle(d, job[p].acct)
          /\ rows' = [rows EXCEPT ![d] = job[p].acct] /\ UNCHANGED mem
       \/ /\ Leave(p) \/ To(p, "guard")
          /\ mem' = [mem EXCEPT ![d] = Pending(job[p].acct)] /\ UNCHANGED <<rows, moved>>
       \/ Leave(p) /\ UNCHANGED <<mem, rows, moved>>
    /\ UNCHANGED <<sameRest, tables, mine, inn, revoked, changes, hidden>>

Enter(p) ==
    /\ At(p, "enter") /\ Welcome(p)
    /\ mem' = [mem EXCEPT ![job[p].tok] = Session(job[p].acct)]
    /\ UNCHANGED <<sameRest, rows, tables, revoked, changes, hidden>>

(* The code goes to whatever session the token has by then.                *)
SubmitGuard(p) ==
    LET d == job[p].tok IN
    /\ At(p, "guard")
    /\ \/ /\ mem[d] # NoEntry /\ Welcome(p)
          /\ mem' = [mem EXCEPT ![d].auth = TRUE] /\ rows' = [rows EXCEPT ![d] = mem[d].acct]
       \/ Leave(p) /\ UNCHANGED <<mem, rows, mine, inn, moved>>
    /\ UNCHANGED <<sameRest, tables, revoked, changes, hidden>>

------------------------------------------------------------------------------
(* The poll job holds a session, renews it and saves it, whatever has      *)
(* become of it.                                                           *)
PollTake(d) ==
    /\ "poll" \in Env /\ phase = "up" /\ polling = NoJob /\ mem[d].auth
    /\ polling' = [tok |-> d, acct |-> mem[d].acct]
    /\ UNCHANGED <<phase, mem, rows, tables, job, sameGhosts, raced, hidden>>

PollSave ==
    /\ phase = "up" /\ polling # NoJob /\ polling' = NoJob
    /\ rows' = [rows EXCEPT ![polling.tok] = polling.acct]
    /\ raced' = (raced \/ rows[polling.tok] # polling.acct)
    /\ UNCHANGED <<phase, mem, tables, job, sameGhosts, hidden>>

(* The process dies; the next one restores what it can, logs the API token *)
(* in if it has no session, ...                                            *)
Stored == {d \in Devices : rows[d] # None}

Crash ==
    /\ "crash" \in Env /\ Change /\ phase' = "boot"
    /\ job' = [p \in Procs |-> Idle] /\ polling' = NoJob
    /\ \E back \in SUBSET Stored :
          /\ "restore" \in Env \/ back = Stored
          /\ LET restored == [d \in Devices |-> IF d \in back THEN Session(rows[d]) ELSE NoEntry] IN
             \/ mem' = restored /\ UNCHANGED rows
             \/ /\ Api \in Devices \ back
                /\ mem' = [restored EXCEPT ![Api] = Session(EnvAccount)]
                /\ rows' = [rows EXCEPT ![Api] = EnvAccount]
    /\ UNCHANGED <<tables, mine, inn, moved, revoked, raced, hidden>>

(* ... and collapses the sessions of the API token's account onto it.      *)
Duplicates == {d \in Stored \ {Api} : Api \in Devices /\ mem[Api] = Session(rows[d])}

Collapse(d) ==
    /\ phase = "boot" /\ d \in Duplicates
    /\ alias' = [alias EXCEPT ![d] = Api]
    /\ mem' = [mem EXCEPT ![d] = NoEntry] /\ rows' = [rows EXCEPT ![d] = None]
    /\ UNCHANGED <<phase, watch, job, polling, ghosts>>

Serve ==
    /\ phase = "boot" /\ Duplicates = {} /\ phase' = "up"
    /\ hidden' = (hidden \/ (Api \in Devices /\ OnlyRow(Api, EnvAccount)))
    /\ UNCHANGED <<mem, rows, tables, job, polling, sameGhosts, raced>>

------------------------------------------------------------------------------
Handle(p) ==
    \/ \E t \in Tokens : Request(p, t)
    \/ LookMap(p) \/ ReadRow(p) \/ Install(p) \/ Reread(p) \/ ReadOwner(p) \/ Answer(p)
    \/ ClearRow(p) \/ Forget(p)
    \/ (\E w \in Watches : Pair(p, w)) \/ Replace(p) \/ Revoke(p)
    \/ \E d \in Devices, a \in Accounts : AppLogin(p, d, a)
    \/ Canonical(p) \/ DropEntry(p) \/ DropRow(p) \/ AddAlias(p)
    \/ Create(p) \/ Login(p) \/ Enter(p) \/ SubmitGuard(p)

Next ==
    \/ (\E p \in Procs : Handle(p)) /\ Race
    \/ \E d \in Devices : PollTake(d) \/ Collapse(d)
    \/ PollSave \/ Crash \/ Serve

Spec == Init /\ [][Next]_vars

------------------------------------------------------------------------------
Places == {"idle", "look", "row", "install", "reread", "alias", "answered", "refused",
           "clear", "forget", "pair", "replace", "revoke", "canon", "drop", "droprow",
           "addalias", "create", "login", "enter", "guard"}
Owned  == Devices \cup {None}
Known  == Accounts \cup {None}

TypeOK ==
    /\ phase \in {"boot", "up"}
    /\ mem \in [Devices -> [acct : Known, auth : BOOLEAN]] /\ rows \in [Devices -> Known]
    /\ alias \in [Devices -> Owned] /\ watch \in [Watches -> Owned]
    /\ job \in [Procs -> [at : Places, op : {"data", "logout", "pair", "revoke", "login"},
                          tok : Tokens \cup {None}, client : Tokens \cup {None}, acct : Known,
                          got : Known, stage : {"own", "owner", "use", "canon"}, late : BOOLEAN]]
    /\ \A p \in Procs : job[p].at \notin {"idle", "alias", "refused"} => job[p].client \in Devices
    /\ polling \in [tok : Owned, acct : Known]
    /\ mine \in [Tokens -> SUBSET Accounts] /\ inn \subseteq Devices /\ moved \subseteq Devices
    /\ revoked \subseteq Watches /\ {raced, hidden} \subseteq BOOLEAN
    /\ changes \in 0..MaxChanges

(***************************************************************************)
(* "One MV session per account" (auth.go:224-232, session.go:328-337),     *)
(* whatever devices log in, out, again or as somebody else, pair, restart  *)
(* or are restored: two sessions of an account in memory mean that a login *)
(* was overlapped, or that a login or a boot looked for the session of the *)
(* account while that was a row only, not restored or behind a guard code. *)
(***************************************************************************)
OneSession ==
    phase = "up" /\ ~raced /\ ~hidden =>
        \A c, d \in Devices : c # d /\ mem[c].auth => mem[d] # mem[c]

(***************************************************************************)
(* Aliasing "never leaks the account" (auth.go:230-231): a token is        *)
(* answered with the account it logged in or was paired for.  Except that  *)
(* a token which stands for another is answered with that one's account    *)
(* once either has changed account or been logged out.                     *)
(***************************************************************************)
Answers(p) == job[p].at # "answered" /\ job'[p].at = "answered"

AnswersOwn ==
    [][\A p \in Procs : Answers(p) =>
          \/ job'[p].acct \in mine[job[p].tok]
          \/ raced
          \/ job[p].client # job[p].tok /\ {job[p].tok, job[p].client} \cap moved # {}]_vars

(***************************************************************************)
(* A watch revoked or replaced (watch.go:99-108, 129-150) is not answered  *)
(* any more, whoever else pairs, revokes or restarts.                      *)
(***************************************************************************)
RevokedStaysOut == \A p \in Procs : job[p].late => job[p].at # "answered"

(***************************************************************************)
(* "Alias this device token onto it instead" (auth.go:224-226): a device   *)
(* told that it is logged in is not refused.                               *)
(***************************************************************************)
LoginHolds == \A p \in Procs : job[p].at = "refused" => job[p].tok \notin inn

==============================================================================
