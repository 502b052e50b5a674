------------------------ MODULE AccountAliasesProofs ------------------------
(***************************************************************************)
(* Proofs about AccountAliases: types; that a watch that was revoked or    *)
(* replaced is not answered any more; whose account a token is answered    *)
(* with; and that an account has one session.                              *)
(***************************************************************************)
EXTENDS AccountAliases, TLAPS

Task == [at : Places, op : {"data", "logout", "pair", "revoke", "login"},
         tok : Tokens \cup {None}, client : Tokens \cup {None}, acct : Known,
         got : Known, stage : {"own", "owner", "use", "canon"}, late : BOOLEAN]

LookingUp == {"look", "row", "install", "reread"}
LoggingIn == {"canon", "drop", "droprow", "addalias", "create", "login", "enter", "guard"}

(* What a request in flight brings to the place where it is: the device or  *)
(* the watch that asks, the account that logs in or was found.              *)
Formed(j) ==
    /\ j.at \notin {"idle", "alias", "refused"} => j.client \in Devices
    /\ j.at # "idle" => j.tok \in Tokens
    /\ j.at # "idle" /\ j.op # "data" => j.tok \in Devices
    /\ j.at = "install" => j.got \in Accounts
    /\ j.at = "pair" => j.op = "pair" /\ j.acct \in Accounts
    /\ j.at # "idle" /\ j.op = "login" => j.acct \in Accounts
    /\ j.at \in LookingUp => (j.op = "login" <=> j.stage = "canon")
    /\ j.at \in LoggingIn => j.op = "login"
    /\ j.at = "alias" => j.op # "login"
    /\ j.at \in {"clear", "forget"} => j.op = "logout"

(* A request of a watch that was out when it came gets no further than the  *)
(* table of watches.                                                        *)
Barred(j) == j.late => j.tok \in revoked /\ j.at \in {"alias", "refused"}

Real == \A d \in Devices : mem[d] # NoEntry => mem[d].acct \in Accounts
Out  == \A w \in revoked : watch[w] = None

IInv ==
    /\ TypeOK /\ Real /\ Out
    /\ \A p \in Procs : Formed(job[p]) /\ Barred(job[p])

(* The initial state satisfies the inductive invariant.                     *)
LEMMA InitIInv == Init => IInv
<1> SUFFICES ASSUME Init PROVE IInv
  OBVIOUS
<1> USE AliasAssumption DEF Init
<1>1. TypeOK
  <2>1. /\ mem \in [Devices -> [acct : Known, auth : BOOLEAN]] /\ rows \in [Devices -> Known]
    BY DEF Session, NoEntry, Known
  <2>2. job \in [Procs -> Task] /\ \A p \in Procs : job[p].at = "idle"
    BY DEF Idle, Task, Places, Known
  <2>3. mine \in [Tokens -> SUBSET Accounts] /\ polling \in [tok : Owned, acct : Known]
    BY DEF NoJob, Owned, Known
  <2>4. /\ alias \in [Devices -> Owned] /\ watch \in [Watches -> Owned] /\ changes \in 0..MaxChanges
        /\ inn \subseteq Devices /\ moved \subseteq Devices /\ revoked \subseteq Watches
        /\ phase \in {"boot", "up"}
    BY DEF Owned
  <2>5. {raced, hidden} \subseteq BOOLEAN
    BY Zenon
  <2>6. QED  BY <2>1, <2>2, <2>3, <2>4, <2>5 DEF TypeOK, Task
<1>2. Real /\ Out
  BY DEF Real, Out, Session, NoEntry
<1>3. \A p \in Procs : Formed(job[p]) /\ Barred(job[p])
  BY DEF Formed, Barred, Idle, LookingUp, LoggingIn
<1>4. QED  BY <1>1, <1>2, <1>3 DEF IInv

(* An idle goroutine is as good as any.                                     *)
LEMMA IdleFormed == Idle \in Task /\ Formed(Idle) /\ ~Idle.late
BY DEF Idle, Task, Places, Known, Formed, LookingUp, LoggingIn

(* The job of one goroutine changes, and the new one is as it should be.    *)
Moves(p) ==
    /\ \A q \in Procs : q # p => job'[q] = job[q]
    /\ DOMAIN job' = Procs /\ job' = [q \in Procs |-> job'[q]]
    /\ job'[p] \in Task /\ Formed(job'[p])
    /\ job'[p].late => job'[p].tok \in revoked /\ job'[p].at \in {"alias", "refused"}

(* A job that is as it should be, put in the place of another.              *)
LEMMA PutMoves ==
    ASSUME job \in [Procs -> Task], NEW p \in Procs, NEW j \in Task, job' = [job EXCEPT ![p] = j],
           Formed(j), j.late => j.tok \in revoked /\ j.at \in {"alias", "refused"}
    PROVE  Moves(p)
BY DEF Moves

(* Where a lookup leads.                                                    *)
LEMMA LookupMoves ==
    ASSUME IInv, NEW p \in Procs, job[p].at \in LookingUp \ {"install"},
           \/ Found(p) /\ mem[job[p].client] # NoEntry
           \/ Missing(p)
    PROVE  Moves(p)
<1> USE DEF IInv, TypeOK, Task, Moves
<1>1. /\ job[p].client \in Devices /\ mem[job[p].client] \in [acct : Known, auth : BOOLEAN]
      /\ job[p] \in Task /\ ~job[p].late /\ job[p].tok \in Tokens /\ Formed(job[p])
  BY DEF Formed, Barred, LookingUp
<1>2. CASE Found(p) /\ mem[job[p].client] # NoEntry
  <2>1. CASE job[p].stage \in {"own", "owner"}
    BY <1>1, <1>2, <2>1 DEF Found, Resolve, Formed, LookingUp, LoggingIn, Places
  <2>2. CASE job[p].stage = "canon"
    BY <1>1, <1>2, <2>2 DEF Found, To, Formed, LookingUp, LoggingIn, Places
  <2>3. CASE job[p].stage = "use"
    <3>1. mem[job[p].client].acct \in Accounts /\ job[p].op # "login"
      BY <1>1, <1>2, <2>3 DEF Real, Formed
    <3>2. CASE job[p].op = "logout"
      BY <1>1, <1>2, <2>3, <3>1, <3>2 DEF Found, To, Formed, LookingUp, LoggingIn, Places
    <3>3. CASE job[p].op # "logout" /\ ~mem[job[p].client].auth
      BY <1>1, <1>2, <2>3, <3>1, <3>3 DEF Found, To, Formed, LookingUp, LoggingIn, Places
    <3>4. CASE job[p].op # "logout" /\ mem[job[p].client].auth
      BY <1>1, <1>2, <2>3, <3>1, <3>4 DEF Found, Hold, Formed, LookingUp, LoggingIn, Places, Known
    <3>5. QED  BY <3>2, <3>3, <3>4
  <2>4. QED  BY <1>1, <2>1, <2>2, <2>3
<1>3. CASE Missing(p)
  <2>1. \/ To(p, "alias") /\ job[p].stage = "own"
        \/ To(p, "create") /\ job[p].stage = "canon"
        \/ To(p, "forget") /\ job[p].op = "logout"
        \/ To(p, "refused")
    BY <1>3, Zenon DEF Missing
  <2>2. CASE To(p, "alias") /\ job[p].stage = "own"
    BY <1>1, <2>2 DEF To, Formed, LookingUp, LoggingIn, Places
  <2>3. CASE To(p, "create") /\ job[p].stage = "canon"
    BY <1>1, <2>3 DEF To, Formed, LookingUp, LoggingIn, Places
  <2>4. CASE To(p, "forget") /\ job[p].op = "logout"
    BY <1>1, <2>4 DEF To, Formed, LookingUp, LoggingIn, Places
  <2>5. CASE To(p, "refused")
    BY <1>1, <2>5 DEF To, Formed, LookingUp, LoggingIn, Places
  <2>6. QED  BY <2>1, <2>2, <2>3, <2>4, <2>5
<1>4. QED  BY <1>2, <1>3

(* Every step of a handler leaves its goroutine with a job as it should be. *)
LEMMA HandleMoves ==
    ASSUME IInv, NEW p \in Procs, Handle(p)
    PROVE  Moves(p)
<1>1. /\ job \in [Procs -> Task] /\ job[p] \in Task /\ Formed(job[p]) /\ Barred(job[p])
      /\ mem \in [Devices -> [acct : Known, auth : BOOLEAN]] /\ rows \in [Devices -> Known]
      /\ alias \in [Devices -> Owned] /\ watch \in [Watches -> Owned] /\ revoked \subseteq Watches
  BY DEF IInv, TypeOK, Task
<1>2. Leave(p) => Moves(p)
  BY <1>1, IdleFormed DEF Leave, Moves
<1>3. CASE \E t \in Tokens : Request(p, t)
  <2>1. PICK t \in Tokens : Request(p, t)
    BY <1>3
  <2> DEFINE b == t \in revoked
  <2>2. PICK o \in Ops \ {"login"} :
            /\ o # "data" => t \in Devices
            /\ job' = [job EXCEPT ![p] = [Idle EXCEPT !.op = o, !.tok = t, !.client = t,
                   !.late = b, !.stage = IF t = Api THEN "use" ELSE "own",
                   !.at = IF t \in Watches THEN "alias" ELSE "look"]]
    BY <2>1 DEF Request
  <2> DEFINE k == [Idle EXCEPT !.op = o, !.tok = t, !.client = t]
             l == [k EXCEPT !.late = b]
             s == IF t = Api THEN "use" ELSE "own"
             a == IF t \in Watches THEN "alias" ELSE "look"
             j == [l EXCEPT !.stage = s, !.at = a]
  <2>3. o \in {"data", "logout", "pair", "revoke"} /\ b \in BOOLEAN /\ s \in {"own", "use"}
    BY AliasAssumption
  <2>4. job' = [job EXCEPT ![p] = j]
    BY <2>2
  <2>5. k \in Task /\ k.op = o /\ k.tok = t /\ k.client = t
    BY <2>1, <2>3 DEF Idle, Task, Places, Tokens, Known
  <2>6. l \in Task /\ l.op = o /\ l.tok = t /\ l.client = t /\ l.late = b
    <3> HIDE DEF k, b
    <3>1. QED  BY <2>3, <2>5 DEF Task
  <2>7. j \in Task /\ j.op = o /\ j.tok = t /\ j.client = t /\ j.late = b /\ j.stage = s /\ j.at = a
    <3>1. a \in Places
      BY DEF Places
    <3> HIDE DEF l, b, s, a
    <3>2. QED  BY <2>3, <2>6, <3>1 DEF Task
  <2>8. Formed(j) /\ (j.late => j.tok \in revoked /\ j.at \in {"alias", "refused"})
    <3>1. revoked \subseteq Watches
      BY <1>1
    <3> HIDE DEF j
    <3>2. Formed(j)
      BY <2>1, <2>2, <2>3, <2>7 DEF Formed, Tokens, LookingUp, LoggingIn
    <3>3. j.late => j.tok \in revoked /\ j.at \in {"alias", "refused"}
      BY <2>7, <3>1
    <3>4. QED  BY <3>2, <3>3
  <2>9. QED  BY <1>1, <2>4, <2>7, <2>8, PutMoves
<1>4. CASE LookMap(p)
  <2>1. CASE mem[job[p].client] # NoEntry
    BY <1>4, <2>1, LookupMoves DEF LookMap, At, LookingUp
  <2>2. CASE mem[job[p].client] = NoEntry
    BY <1>4, <1>1, <2>2 DEF LookMap, To, Formed, Barred, LookingUp, LoggingIn, Places, Moves, Task, At
  <2>3. QED  BY <2>1, <2>2
<1>5. CASE ReadRow(p)
  <2>1. CASE Missing(p)
    BY <1>5, <2>1, LookupMoves DEF ReadRow, At, LookingUp
  <2>2. CASE /\ rows[job[p].client] # None
             /\ job' = [job EXCEPT ![p].at = "install", ![p].got = rows[job[p].client]]
    BY <1>5, <1>1, <2>2 DEF ReadRow, Known, Formed, Barred, LookingUp, LoggingIn, Places, Moves, Task, At
  <2>3. QED  BY <1>5, <1>2, <2>1, <2>2 DEF ReadRow
<1>6. CASE Install(p)
  BY <1>6, <1>1 DEF Install, To, Formed, Barred, LookingUp, LoggingIn, Places, Moves, Task, At
<1>7. CASE Reread(p)
  BY <1>7, LookupMoves DEF Reread, At, LookingUp
<1>8. CASE ReadOwner(p)
  <2>1. CASE Leave(p)
    BY <2>1, <1>2
  <2>2. CASE \E c \in Owners(job[p].tok) : Hop(p, c)
    <3>1. PICK c \in Owners(job[p].tok) : Hop(p, c)
      BY <2>2
    <3>2. c \in Owned /\ (job[p].late => c = None)
      BY <1>8, <1>1, <3>1, AliasAssumption DEF Owners, Owned, ReadOwner, At, Formed, Barred, Tokens, Out, IInv
    <3>3. job[p].tok \in Tokens /\ job[p].op # "login" /\ (job[p].op # "data" => job[p].tok \in Devices)
      BY <1>8, <1>1 DEF ReadOwner, At, Formed
    <3>4. CASE c = None
      <4> DEFINE j == [job[p] EXCEPT !.at = "refused"]
      <4>1. j \in Task /\ Formed(j) /\ (j.late => j.tok \in revoked) /\ j.at = "refused"
        BY <1>1, <3>3 DEF Task, Places, Formed, Barred, LookingUp, LoggingIn
      <4>2. job' = [job EXCEPT ![p] = j]
        BY <1>1, <3>1, <3>4 DEF Hop, To
      <4>3. QED  BY <1>1, <4>1, <4>2, PutMoves
    <3>5. CASE c # None
      <4> DEFINE j == [job[p] EXCEPT !.at = "look", !.client = c, !.stage = "owner"]
      <4>1. c \in Devices /\ ~job[p].late
        BY <1>1, <3>2, <3>5 DEF Owned, Task
      <4>2. j \in Task /\ Formed(j) /\ ~j.late
        BY <1>1, <3>3, <4>1 DEF Task, Places, Tokens, Formed, LookingUp, LoggingIn
      <4>3. job' = [job EXCEPT ![p] = j]
        BY <1>1, <3>1, <3>5 DEF Hop, Resolve
      <4>4. QED  BY <1>1, <4>2, <4>3, PutMoves
    <3>6. QED  BY <3>4, <3>5
  <2>3. QED  BY <1>8, <2>1, <2>2 DEF ReadOwner
<1>9. CASE Answer(p)
  BY <1>9, <1>2 DEF Answer
<1>10. CASE ClearRow(p)
  BY <1>10, <1>1 DEF ClearRow, To, Formed, Barred, LookingUp, LoggingIn, Places, Moves, Task, At
<1>11. CASE Forget(p)
  BY <1>11, <1>2 DEF Forget
<1>12. CASE \E w \in Watches : Pair(p, w)
  <2>1. At(p, "pair") /\ To(p, "replace")
    BY <1>12 DEF Pair
  <2>2. QED  BY <1>1, <2>1 DEF To, Formed, Barred, LookingUp, LoggingIn, Places, Moves, Task, At
<1>13. CASE Replace(p)
  BY <1>13, <1>2 DEF Replace
<1>14. CASE Revoke(p)
  BY <1>14, <1>2 DEF Revoke
<1>15. CASE \E d \in Devices, a \in Accounts : AppLogin(p, d, a)
  <2>1. PICK d \in Devices, a \in Accounts : AppLogin(p, d, a)
    BY <1>15
  <2> DEFINE j == [Idle EXCEPT !.at = "canon", !.op = "login", !.tok = d, !.client = d, !.acct = a]
  <2>2. j \in Task /\ Formed(j) /\ ~j.late
    BY DEF Idle, Task, Places, Tokens, Known, Formed, LookingUp, LoggingIn
  <2>3. job' = [job EXCEPT ![p] = j]
    BY <2>1 DEF AppLogin
  <2>4. QED  BY <1>1, <2>2, <2>3, PutMoves
<1>16. CASE Canonical(p)
  <2>1. CanonicalForUser(job[p].acct) \subseteq Devices
    BY DEF CanonicalForUser, Serving
  <2>2. To(p, "create") \/ \E c \in Devices : Resolve(p, c, "canon")
    BY <1>16, <2>1 DEF Canonical
  <2>3. CASE To(p, "create")
    BY <1>16, <1>1, <2>3 DEF Canonical, To, Formed, Barred, LookingUp, LoggingIn, Places, Moves, Task, At
  <2>4. CASE \E c \in Devices : Resolve(p, c, "canon")
    <3>1. PICK c \in Devices : Resolve(p, c, "canon")
      BY <2>4
    <3> DEFINE j == [job[p] EXCEPT !.at = "look", !.client = c, !.stage = "canon"]
    <3>2. /\ job[p].op = "login" /\ job[p].tok \in Devices /\ job[p].acct \in Accounts /\ ~job[p].late
      BY <1>16, <1>1 DEF Canonical, At, Formed, Barred, LoggingIn
    <3>3. j \in Task /\ Formed(j) /\ ~j.late
      BY <1>1, <3>2 DEF Task, Places, Tokens, Formed, LookingUp, LoggingIn
    <3>4. job' = [job EXCEPT ![p] = j]
      BY <1>1, <3>1 DEF Resolve
    <3>5. QED  BY <1>1, <3>3, <3>4, PutMoves
  <2>5. QED  BY <2>2, <2>3, <2>4
<1>17. CASE DropEntry(p)
  BY <1>17, <1>1 DEF DropEntry, To, Formed, Barred, LookingUp, LoggingIn, Places, Moves, Task, At
<1>18. CASE DropRow(p)
  BY <1>18, <1>1 DEF DropRow, To, Formed, Barred, LookingUp, LoggingIn, Places, Moves, Task, At
<1>19. CASE AddAlias(p)
  BY <1>19, <1>2 DEF AddAlias, Welcome
<1>20. CASE Create(p)
  <2>1. CASE Leave(p)
    BY <2>1, <1>2
  <2>2. CASE \E a \in LoggingIn : To(p, a) /\ job[p].at \in LoggingIn
    <3>1. PICK a \in LoggingIn : To(p, a)
      BY <2>2
    <3>2. /\ job[p].op = "login" /\ job[p].tok \in Devices /\ job[p].acct \in Accounts
          /\ job[p].client \in Devices /\ ~job[p].late
      BY <1>1, <2>2 DEF Formed, Barred, LoggingIn
    <3> DEFINE j == [job[p] EXCEPT !.at = a]
    <3>3. j \in Task /\ Formed(j) /\ ~j.late
      BY <1>1, <3>1, <3>2 DEF Task, Places, Tokens, Formed, LookingUp, LoggingIn
    <3>4. job' = [job EXCEPT ![p] = j]
      BY <1>1, <3>1 DEF To
    <3>5. QED  BY <1>1, <3>3, <3>4, PutMoves
  <2>3. QED  BY <1>20, <2>1, <2>2 DEF Create, At, Welcome, LoggingIn
<1>21. CASE Login(p)
  <2>1. CASE Leave(p)
    BY <2>1, <1>2
  <2>2. CASE \E a \in LoggingIn : To(p, a) /\ job[p].at \in LoggingIn
    <3>1. PICK a \in LoggingIn : To(p, a)
      BY <2>2
    <3>2. /\ job[p].op = "login" /\ job[p].tok \in Devices /\ job[p].acct \in Accounts
          /\ job[p].client \in Devices /\ ~job[p].late
      BY <1>1, <2>2 DEF Formed, Barred, LoggingIn
    <3> DEFINE j == [job[p] EXCEPT !.at = a]
    <3>3. j \in Task /\ Formed(j) /\ ~j.late
      BY <1>1, <3>1, <3>2 DEF Task, Places, Tokens, Formed, LookingUp, LoggingIn
    <3>4. job' = [job EXCEPT ![p] = j]
      BY <1>1, <3>1 DEF To
    <3>5. QED  BY <1>1, <3>3, <3>4, PutMoves
  <2>3. QED  BY <1>21, <2>1, <2>2 DEF Login, At, Welcome, LoggingIn
<1>22. CASE Enter(p)
  BY <1>22, <1>2 DEF Enter, Welcome
<1>23. CASE SubmitGuard(p)
  BY <1>23, <1>2 DEF SubmitGuard, Welcome
<1>24. QED
  BY <1>3, <1>4, <1>5, <1>6, <1>7, <1>8, <1>9, <1>10, <1>11, <1>12, <1>13, <1>14, <1>15, <1>16, <1>17, <1>18, <1>19, <1>20, <1>21, <1>22, <1>23 DEF Handle

(* The tables of sessions and rows keep their types, and a session has an   *)
(* account.                                                                 *)
SessionTypes ==
    /\ phase \in {"boot", "up"}
    /\ mem \in [Devices -> [acct : Known, auth : BOOLEAN]] /\ rows \in [Devices -> Known]
    /\ alias \in [Devices -> Owned] /\ watch \in [Watches -> Owned]
    /\ polling \in [tok : Owned, acct : Known]

GhostTypes ==
    /\ mine \in [Tokens -> SUBSET Accounts] /\ inn \subseteq Devices /\ moved \subseteq Devices
    /\ revoked \subseteq Watches /\ {raced, hidden} \subseteq BOOLEAN
    /\ changes \in 0..MaxChanges

LEMMA TypeParts ==
    TypeOK <=> /\ SessionTypes /\ GhostTypes /\ job \in [Procs -> Task]
               /\ \A p \in Procs : job[p].at \notin {"idle", "alias", "refused"} => job[p].client \in Devices
BY DEF TypeOK, SessionTypes, GhostTypes, Task

(* A session that waits for its guard code is signed in.                    *)
LEMMA SignedIn ==
    ASSUME NEW m \in [Devices -> [acct : Known, auth : BOOLEAN]], NEW d \in Devices
    PROVE  LET n == [m EXCEPT ![d].auth = TRUE] IN
           /\ n \in [Devices -> [acct : Known, auth : BOOLEAN]]
           /\ n[d].auth /\ n[d].acct = m[d].acct
           /\ \A e \in Devices \ {d} : n[e] = m[e]
<1>1. [m[d] EXCEPT !.auth = TRUE] \in [acct : Known, auth : BOOLEAN]
  OBVIOUS
<1>2. [m[d] EXCEPT !.auth = TRUE].auth /\ [m[d] EXCEPT !.auth = TRUE].acct = m[d].acct
  OBVIOUS
<1>3. QED  BY <1>1, <1>2

(* A handler keeps the types of the tables, and an account in each session. *)
LEMMA HandleSessions ==
    ASSUME IInv, NEW p \in Procs, Handle(p)
    PROVE  SessionTypes' /\ Real'
<1>1. /\ job[p] \in Task /\ Formed(job[p]) /\ Barred(job[p]) /\ SessionTypes /\ GhostTypes /\ Real /\ Out
  BY TypeParts DEF IInv, Task
<1>0. job[p].at \in LoggingIn => job[p].tok \in Devices /\ job[p].acct \in Accounts
  BY <1>1 DEF Formed, LoggingIn
<1> USE <1>1, AliasAssumption DEF sameRest, sameGhosts, tables, At, Formed, Real, SessionTypes, Task, LoggingIn, LookingUp
<1>2. CASE \E t \in Tokens : Request(p, t)
  BY <1>2 DEF Request
<1>3. CASE LookMap(p)
  BY <1>3 DEF LookMap
<1>4. CASE ReadRow(p)
  BY <1>4 DEF ReadRow
<1>5. CASE Install(p)
  BY <1>5 DEF Install, Session, Pending, NoEntry, Known
<1>6. CASE Reread(p)
  BY <1>6 DEF Reread
<1>7. CASE ReadOwner(p)
  BY <1>7 DEF ReadOwner
<1>8. CASE Answer(p)
  BY <1>8 DEF Answer
<1>9. CASE ClearRow(p)
  BY <1>9 DEF ClearRow, Known
<1>10. CASE Forget(p)
  BY <1>10 DEF Forget, Session, Pending, NoEntry, Known
<1>11. CASE \E w \in Watches : Pair(p, w)
  BY <1>11 DEF Pair, Owned
<1>12. CASE Replace(p)
  BY <1>12 DEF Replace, Revokes, Owned
<1>13. CASE Revoke(p)
  BY <1>13 DEF Revoke, Revokes, Owned
<1>14. CASE \E d \in Devices, a \in Accounts : AppLogin(p, d, a)
  BY <1>14 DEF AppLogin
<1>15. CASE Canonical(p)
  BY <1>15 DEF Canonical
<1>16. CASE DropEntry(p)
  BY <1>16 DEF DropEntry, Session, Pending, NoEntry, Known
<1>17. CASE DropRow(p)
  BY <1>17 DEF DropRow, Known, DropsRow
<1>18. CASE AddAlias(p)
  BY <1>18 DEF AddAlias, Owned
<1>19. CASE Create(p)
  <2>1. job[p].tok \in Devices /\ job[p].acct \in Accounts
    BY <1>19, <1>0 DEF Create, At, LoggingIn
  <2>2. /\ Session(job[p].acct) \in [acct : Known, auth : BOOLEAN] /\ Session(job[p].acct).acct = job[p].acct
        /\ Pending(job[p].acct) \in [acct : Known, auth : BOOLEAN] /\ Pending(job[p].acct).acct = job[p].acct
    BY <2>1 DEF Session, Pending, Known
  <2>3. mem' \in [Devices -> [acct : Known, auth : BOOLEAN]] /\ rows' \in [Devices -> Known]
    BY <1>19, <1>1, <2>1, <2>2 DEF Create, SessionTypes, Known, Reuses
  <2>4. Real'
    BY <1>19, <1>1, <2>1, <2>2 DEF Create, SessionTypes, Real, Reuses
  <2>5. QED  BY <1>19, <1>1, <2>3, <2>4 DEF Create, sameRest, tables, SessionTypes
<1>20. CASE Login(p)
  <2>1. job[p].tok \in Devices /\ job[p].acct \in Accounts
    BY <1>20, <1>0 DEF Login, At, LoggingIn
  <2>2. /\ Session(job[p].acct) \in [acct : Known, auth : BOOLEAN] /\ Session(job[p].acct).acct = job[p].acct
        /\ Pending(job[p].acct) \in [acct : Known, auth : BOOLEAN] /\ Pending(job[p].acct).acct = job[p].acct
    BY <2>1 DEF Session, Pending, Known
  <2>3. mem' \in [Devices -> [acct : Known, auth : BOOLEAN]] /\ rows' \in [Devices -> Known]
    BY <1>20, <1>1, <2>1, <2>2 DEF Login, SessionTypes, Known
  <2>4. Real'
    BY <1>20, <1>1, <2>1, <2>2 DEF Login, SessionTypes, Real
  <2>5. QED  BY <1>20, <1>1, <2>3, <2>4 DEF Login, sameRest, tables, SessionTypes
<1>21. CASE Enter(p)
  BY <1>21 DEF Enter, Session, Pending, NoEntry, Known
<1>22. CASE SubmitGuard(p)
  <2>1. job[p].tok \in Devices /\ job[p].acct \in Accounts
    BY <1>22, <1>0 DEF SubmitGuard, At, LoggingIn
  <2>2. /\ Session(job[p].acct) \in [acct : Known, auth : BOOLEAN] /\ Session(job[p].acct).acct = job[p].acct
        /\ Pending(job[p].acct) \in [acct : Known, auth : BOOLEAN] /\ Pending(job[p].acct).acct = job[p].acct
    BY <2>1 DEF Session, Pending, Known
  <2>3. mem' \in [Devices -> [acct : Known, auth : BOOLEAN]] /\ rows' \in [Devices -> Known]
    <3>1. CASE UNCHANGED <<mem, rows>>
      BY <1>1, <3>1 DEF SessionTypes
    <3>2. CASE mem' = [mem EXCEPT ![job[p].tok].auth = TRUE]
               /\ rows' = [rows EXCEPT ![job[p].tok] = mem[job[p].tok].acct]
      BY <2>1, <3>2, SignedIn
    <3>3. QED  BY <1>22, <3>1, <3>2 DEF SubmitGuard
  <2>4. Real'
    BY <1>22, <1>1, <2>1, <2>2 DEF SubmitGuard, SessionTypes, Real
  <2>5. QED  BY <1>22, <1>1, <2>3, <2>4 DEF SubmitGuard, sameRest, tables, SessionTypes
<1>23. QED
  BY <1>2, <1>3, <1>4, <1>5, <1>6, <1>7, <1>8, <1>9, <1>10, <1>11, <1>12, <1>13, <1>14, <1>15, <1>16, <1>17, <1>18, <1>19, <1>20, <1>21, <1>22 DEF Handle

(* A handler keeps the types of what is only compared with, and watches that*)
(* were revoked out of the table.                                           *)
LEMMA HandleGhosts ==
    ASSUME IInv, NEW p \in Procs, Handle(p)
    PROVE  /\ revoked \subseteq revoked' /\ Out'
           /\ mine' \in [Tokens -> SUBSET Accounts] /\ inn' \subseteq Devices /\ moved' \subseteq Devices
           /\ revoked' \subseteq Watches /\ hidden' \in BOOLEAN /\ changes' \in 0..MaxChanges
<1>1. /\ job[p] \in Task /\ Formed(job[p]) /\ Barred(job[p]) /\ SessionTypes /\ GhostTypes /\ Real /\ Out
  BY TypeParts DEF IInv, Task
<1> USE <1>1, AliasAssumption DEF sameRest, sameGhosts, tables, At, Formed, Out, GhostTypes, SessionTypes, Task, LoggingIn, LookingUp
<1>2. CASE \E t \in Tokens : Request(p, t)
  BY <1>2 DEF Request, Change, Tokens
<1>3. CASE LookMap(p)
  BY <1>3 DEF LookMap
<1>4. CASE ReadRow(p)
  BY <1>4 DEF ReadRow
<1>5. CASE Install(p)
  BY <1>5 DEF Install
<1>6. CASE Reread(p)
  BY <1>6 DEF Reread
<1>7. CASE ReadOwner(p)
  BY <1>7 DEF ReadOwner
<1>8. CASE Answer(p)
  BY <1>8 DEF Answer
<1>9. CASE ClearRow(p)
  BY <1>9 DEF ClearRow
<1>10. CASE Forget(p)
  BY <1>10 DEF Forget, Change, Tokens
<1>11. CASE \E w \in Watches : Pair(p, w)
  BY <1>11 DEF Pair, Revokes, Tokens
<1>12. CASE Replace(p)
  BY <1>12 DEF Replace, Revokes, Tokens
<1>13. CASE Revoke(p)
  BY <1>13 DEF Revoke, Revokes, Tokens
<1>14. CASE \E d \in Devices, a \in Accounts : AppLogin(p, d, a)
  BY <1>14 DEF AppLogin, Change, Tokens
<1>15. CASE Canonical(p)
  BY <1>15 DEF Canonical
<1>16. CASE DropEntry(p)
  BY <1>16 DEF DropEntry
<1>17. CASE DropRow(p)
  BY <1>17 DEF DropRow
<1>18. CASE AddAlias(p)
  BY <1>18 DEF AddAlias, Welcome, Settle, Tokens
<1>19. CASE Create(p)
  BY <1>19 DEF Create, Welcome, Settle, Tokens
<1>20. CASE Login(p)
  BY <1>20 DEF Login, Settle
<1>21. CASE Enter(p)
  BY <1>21 DEF Enter, Welcome, Settle, Tokens
<1>22. CASE SubmitGuard(p)
  BY <1>22 DEF SubmitGuard, Welcome, Settle, Tokens
<1>23. QED
  BY <1>2, <1>3, <1>4, <1>5, <1>6, <1>7, <1>8, <1>9, <1>10, <1>11, <1>12, <1>13, <1>14, <1>15, <1>16, <1>17, <1>18, <1>19, <1>20, <1>21, <1>22 DEF Handle

(* Every step keeps the inductive invariant.                                *)
LEMMA NextIInv == IInv /\ [Next]_vars => IInv'
<1> SUFFICES ASSUME IInv, [Next]_vars PROVE IInv'
  OBVIOUS
<1>1. /\ SessionTypes /\ GhostTypes /\ job \in [Procs -> Task]
      /\ Real /\ Out /\ \A p \in Procs : Formed(job[p]) /\ Barred(job[p])
  BY TypeParts DEF IInv
<1>2. ASSUME NEW p \in Procs, Handle(p), Race PROVE IInv'
  <2>1. Moves(p)
    BY <1>2, HandleMoves
  <2>2. SessionTypes' /\ Real'
    BY <1>2, HandleSessions
  <2>3. revoked \subseteq revoked' /\ Out' /\ GhostTypes'
    BY <1>1, <1>2, HandleGhosts DEF Race, GhostTypes
  <2>4. job' \in [Procs -> Task]
    BY <1>1, <2>1 DEF Moves
  <2>5. \A q \in Procs : Formed(job'[q]) /\ Barred(job[q])'
    BY <1>1, <2>1, <2>3 DEF Moves, Barred
  <2>6. \A q \in Procs : Formed(job[q])'
    BY <2>5 DEF Formed
  <2>7. TypeOK'
    BY <2>2, <2>3, <2>4, <2>6, TypeParts DEF TypeOK, SessionTypes, GhostTypes, Task, Formed
  <2>8. QED  BY <2>2, <2>3, <2>5, <2>6, <2>7 DEF IInv
<1> DEFINE Rest == SessionTypes' /\ GhostTypes' /\ Real' /\ Out' /\ revoked' = revoked
<1>3. CASE \E d \in Devices : PollTake(d)
  <2>1. Rest /\ job' = job
    BY <1>1, <1>3 DEF PollTake, tables, sameGhosts, SessionTypes, GhostTypes, Real, Out, Owned, Known
  <2>2. QED  BY <1>1, <2>1 DEF IInv, TypeOK, SessionTypes, GhostTypes, Task, Formed, Barred
<1>4. CASE \E d \in Devices : Collapse(d)
  <2>1. Rest /\ job' = job
    <3>1. PICK d \in Devices : Collapse(d)
      BY <1>4
    <3>2. Api \in Devices /\ UNCHANGED <<phase, watch, job, polling, mine, inn, moved, revoked, raced, hidden, changes>>
      BY <3>1 DEF Collapse, Duplicates, ghosts
    <3>3. alias' \in [Devices -> Owned] /\ rows' \in [Devices -> Known]
      BY <1>1, <3>1, <3>2 DEF Collapse, SessionTypes, Owned, Known
    <3>4. mem' \in [Devices -> [acct : Known, auth : BOOLEAN]] /\ Real'
      BY <1>1, <3>1 DEF Collapse, SessionTypes, Real, NoEntry, Known
    <3>5. QED  BY <1>1, <3>2, <3>3, <3>4 DEF SessionTypes, GhostTypes, Out
  <2>2. QED  BY <1>1, <2>1 DEF IInv, TypeOK, SessionTypes, GhostTypes, Task, Formed, Barred
<1>5. CASE PollSave
  <2>1. Rest /\ job' = job
    BY <1>1, <1>5 DEF PollSave, NoJob, tables, sameGhosts, SessionTypes, GhostTypes, Real, Out, Owned, Known
  <2>2. QED  BY <1>1, <2>1 DEF IInv, TypeOK, SessionTypes, GhostTypes, Task, Formed, Barred
<1>6. CASE Crash
  <2>1. Rest /\ job' = [p \in Procs |-> Idle]
    <3>1. \A d \in Stored : Session(rows[d]) \in [acct : Known, auth : BOOLEAN] /\ Session(rows[d]).acct \in Accounts
      BY <1>1 DEF Stored, Session, SessionTypes, Known
    <3>2. /\ NoEntry \in [acct : Known, auth : BOOLEAN] /\ Session(EnvAccount).acct \in Accounts
          /\ Session(EnvAccount) \in [acct : Known, auth : BOOLEAN] /\ EnvAccount \in Known
      BY AliasAssumption DEF NoEntry, Session, Known
    <3>3. PICK back \in SUBSET Stored :
             LET restored == [d \in Devices |-> IF d \in back THEN Session(rows[d]) ELSE NoEntry] IN
             \/ mem' = restored /\ UNCHANGED rows
             \/ /\ Api \in Devices \ back
                /\ mem' = [restored EXCEPT ![Api] = Session(EnvAccount)]
                /\ rows' = [rows EXCEPT ![Api] = EnvAccount]
      BY <1>6 DEF Crash
    <3>4. /\ mem' \in [Devices -> [acct : Known, auth : BOOLEAN]] /\ rows' \in [Devices -> Known]
          /\ \A d \in Devices : mem'[d] = NoEntry \/ mem'[d].acct \in Accounts
      <4> DEFINE restored == [d \in Devices |-> IF d \in back THEN Session(rows[d]) ELSE NoEntry]
      <4>1. /\ restored \in [Devices -> [acct : Known, auth : BOOLEAN]]
            /\ \A d \in Devices : restored[d] = NoEntry \/ restored[d].acct \in Accounts
        BY <3>1, <3>2
      <4>2. CASE mem' = restored /\ UNCHANGED rows
        BY <1>1, <4>1, <4>2 DEF SessionTypes
      <4>3. CASE /\ Api \in Devices \ back
                 /\ mem' = [restored EXCEPT ![Api] = Session(EnvAccount)]
                 /\ rows' = [rows EXCEPT ![Api] = EnvAccount]
        <5>1. Api \in Devices
          BY <4>3
        <5>2. rows' \in [Devices -> Known]
          BY <1>1, <3>2, <4>3, <5>1 DEF SessionTypes
        <5>3. mem' \in [Devices -> [acct : Known, auth : BOOLEAN]]
          BY <3>2, <4>1, <4>3, <5>1
        <5>4. \A d \in Devices : mem'[d] = IF d = Api THEN Session(EnvAccount) ELSE restored[d]
          BY <4>1, <4>3, <5>1
        <5>5. QED  BY <3>2, <4>1, <5>2, <5>3, <5>4
      <4>4. QED  BY <3>3, <4>2, <4>3
    <3>5. /\ phase' = "boot" /\ polling' = NoJob /\ changes' \in 0..MaxChanges
          /\ UNCHANGED <<alias, watch, mine, inn, moved, revoked, raced, hidden>>
      BY <1>1, <1>6, AliasAssumption DEF Crash, Change, tables, GhostTypes
    <3>6. SessionTypes' /\ Real'
      BY <1>1, <3>4, <3>5 DEF SessionTypes, Real, NoJob, Owned, Known
    <3>7. GhostTypes' /\ Out' /\ revoked' = revoked /\ job' = [p \in Procs |-> Idle]
      BY <1>1, <1>6, <3>5 DEF Crash, GhostTypes, Out
    <3>8. QED  BY <3>6, <3>7
  <2>2. job' \in [Procs -> Task] /\ \A p \in Procs : job'[p].at = "idle" /\ ~job'[p].late
    BY <2>1, IdleFormed DEF Idle
  <2>3. \A p \in Procs : Formed(job[p])' /\ Barred(job[p])'
    BY <2>2 DEF Formed, Barred, LookingUp, LoggingIn
  <2>4. QED  BY <2>1, <2>2, <2>3 DEF IInv, TypeOK, SessionTypes, GhostTypes, Task
<1>7. CASE Serve
  <2>1. Rest /\ job' = job
    BY <1>1, <1>7 DEF Serve, tables, sameGhosts, SessionTypes, GhostTypes, Real, Out, Owned, Known
  <2>2. QED  BY <1>1, <2>1 DEF IInv, TypeOK, SessionTypes, GhostTypes, Task, Formed, Barred
<1>8. CASE UNCHANGED vars
  BY <1>8 DEF vars, ghosts, tables, IInv, TypeOK, Real, Out, Formed, Barred
<1>9. QED
  BY <1>2, <1>3, <1>4, <1>5, <1>6, <1>7, <1>8 DEF Next

LEMMA Inductive == Spec => []IInv
<1>1. QED  BY InitIInv, NextIInv, PTL DEF Spec

(* Every variable keeps its type.                                           *)
THEOREM TypeCorrect == Spec => []TypeOK
<1>1. IInv => TypeOK
  BY DEF IInv
<1>2. QED  BY <1>1, Inductive, PTL

(* A watch revoked or replaced is not answered any more (watch.go:99-108,   *)
(* 129-150), whatever else devices and the process do.                      *)
THEOREM RevokedOut == Spec => []RevokedStaysOut
<1>1. IInv => RevokedStaysOut
  BY DEF IInv, Barred, RevokedStaysOut
<1>2. QED  BY <1>1, Inductive, PTL

------------------------------------------------------------------------------
(* Whose account a token is answered with, as long as no login, restore or  *)
(* save overlapped a login.                                                 *)
Owner(t) == IF t \in Devices THEN alias[t] ELSE watch[t]

(* Device c has accounts of S only, in memory and in its row, and will not  *)
(* come to have another without moving.                                     *)
Bound(c, S) ==
    c \in moved \/ /\ mem[c].auth => mem[c].acct \in S
                   /\ rows[c] # None => rows[c] \in S
                   /\ mine[c] \cap S # {}

Alone   == \A p, q \in Procs : p # q /\ Changing(p) => ~Changing(q) /\ ~Restoring(q)
Booting == phase = "boot" => \A p \in Procs : job[p].at = "idle"

Asked ==
    /\ Api \in Devices => mine[Api] = {EnvAccount}
    /\ \A w \in Watches : watch[w] = None /\ w \notin revoked => mine[w] = {}

Own ==
    \A d \in Devices :
        /\ mem[d] # NoEntry => mem[d].acct \in mine[d]
        /\ rows[d] # None => rows[d] \in mine[d]
        /\ d \notin moved /\ mem[d].auth /\ rows[d] # None => rows[d] = mem[d].acct

Linked ==
    \A t \in Tokens : Owner(t) \notin {None, t} => t \in moved \/ Bound(Owner(t), mine[t])

(* What a request in flight found still holds.                              *)
Carries(j) ==
    /\ j.op = "login" /\ j.at # "idle" => j.tok # Api /\ j.acct \in mine[j.tok]
    /\ j.at = "install" => j.got = rows[j.client]
    /\ j.op # "login" /\ j.at \in LookingUp /\ j.client # j.tok =>
          j.tok \in moved \/ Bound(j.client, mine[j.tok])
    /\ j.op = "login" /\ j.at \in LookingUp => j.at = "look" /\ mem[j.client] = Session(j.acct)
    /\ j.at = "pair" => Bound(j.client, {j.acct})
    /\ j.at = "drop" => mem[j.client] = Session(j.acct)
    /\ j.at \in {"droprow", "addalias"} =>
          mem[j.tok] = NoEntry /\ (j.client = j.tok \/ mem[j.client] = Session(j.acct))
    /\ j.at = "addalias" => rows[j.tok] = None
    /\ j.at = "enter" => rows[j.tok] = j.acct
    /\ j.at = "guard" => mem[j.tok] = Pending(j.acct)

Calm == Alone /\ Booting /\ Asked /\ Own /\ Linked /\ \A p \in Procs : Carries(job[p])

(* The steps of a handler that change what the invariant speaks of.         *)
Still == UNCHANGED <<mem, rows, alias, watch, mine, moved, revoked>>

LEMMA Effects ==
    ASSUME NEW p \in Procs, Handle(p)
    PROVE  \/ Still
           \/ Install(p) \/ ClearRow(p) \/ Forget(p)
           \/ (\E w \in Watches : Pair(p, w)) \/ Replace(p) \/ Revoke(p)
           \/ \E d \in Devices, a \in Accounts : AppLogin(p, d, a)
           \/ DropEntry(p) \/ DropRow(p) \/ AddAlias(p)
           \/ Create(p) \/ Login(p) \/ Enter(p) \/ SubmitGuard(p)
BY DEF Handle, Request, LookMap, ReadRow, Reread, ReadOwner, Answer, Canonical, Still, tables, sameGhosts

(* What p brings to a step, and the types it needs.                         *)
LEMMA Brings ==
    ASSUME IInv, Calm, NEW p \in Procs
    PROVE  /\ mem \in [Devices -> [acct : Known, auth : BOOLEAN]] /\ rows \in [Devices -> Known]
           /\ alias \in [Devices -> Owned] /\ watch \in [Watches -> Owned]
           /\ mine \in [Tokens -> SUBSET Accounts] /\ moved \subseteq Devices
           /\ job \in [Procs -> Task] /\ job[p] \in Task
           /\ Formed(job[p]) /\ Barred(job[p]) /\ Carries(job[p])
           /\ Devices \subseteq Tokens /\ Devices \cap Watches = {} /\ None \notin Tokens \cup Accounts
           /\ job[p].at \in LoggingIn =>
                 /\ job[p].tok \in Devices /\ job[p].acct \in Accounts /\ job[p].op = "login"
                 /\ job[p].tok # Api /\ job[p].acct \in mine[job[p].tok]
           /\ ~NoEntry.auth /\ NoEntry.acct = None
           /\ \A a : /\ Session(a).acct = a /\ Session(a).auth
                     /\ Pending(a).acct = a /\ ~Pending(a).auth
BY TypeParts, AliasAssumption
   DEF IInv, Calm, SessionTypes, GhostTypes, Task, Formed, Carries, LoggingIn, Tokens,
       NoEntry, Session, Pending

(* How a device may change in one step.                                     *)
Turn(d) ==
    /\ mem'[d].auth => \/ mem[d].auth /\ mem'[d].acct = mem[d].acct
                       \/ rows[d] # None /\ mem'[d].acct = rows[d]
                       \/ mine[d] = {mem'[d].acct}
                       \/ d \in moved'
    /\ rows'[d] # None => rows'[d] = rows[d] \/ mine[d] = {rows'[d]} \/ d \in moved'

Grows == moved \subseteq moved' /\ \A t \in Tokens : t \in moved' \/ mine[t] \subseteq mine'[t]

Stays(c, S) ==
    c \in moved' \/ /\ mem'[c].auth => mem'[c].acct \in S
                    /\ rows'[c] # None => rows'[c] \in S
                    /\ mine'[c] \cap S # {}

LEMMA BoundStays ==
    ASSUME NEW c \in Devices, Devices \subseteq Tokens, Turn(c), Grows
    PROVE  \A S, R : Bound(c, S) /\ S \subseteq R => Stays(c, R)
BY DEF Bound, Stays, Turn, Grows

LEMMA HandleTurns ==
    ASSUME IInv, Calm, NEW p \in Procs, Handle(p)
    PROVE  Grows /\ \A d \in Devices : Turn(d)
<1> DEFINE j == job[p]
<1>1. /\ mem \in [Devices -> [acct : Known, auth : BOOLEAN]] /\ rows \in [Devices -> Known]
      /\ mine \in [Tokens -> SUBSET Accounts] /\ moved \subseteq Devices
      /\ Devices \subseteq Tokens /\ None \notin Accounts
      /\ j.at \in LoggingIn => j.tok \in Devices /\ j.acct \in Accounts /\ j.acct \in mine[j.tok]
      /\ ~NoEntry.auth
      /\ \A a : Session(a).acct = a /\ Session(a).auth /\ ~Pending(a).auth
  BY Brings
<1>2. Asked /\ Own /\ Formed(j) /\ Carries(j)
  BY Brings DEF Calm
<1>3. CASE UNCHANGED <<mem, rows, mine, moved>>
  BY <1>3 DEF Turn, Grows
<1>4. ASSUME NEW d \in Devices, NEW a \in mine[d], Settle(d, a),
             mine' = mine \/ mine' = [mine EXCEPT ![d] = {a}],
             mem' = mem \/ \E m : m.acct = a /\ mem' = [mem EXCEPT ![d] = m],
             rows' = rows \/ rows' = [rows EXCEPT ![d] = a]
      PROVE  Grows /\ \A e \in Devices : Turn(e)
  <2>1. d \in moved' \/ mine[d] = {a}
    BY <1>4 DEF Settle
  <2>2. Grows
    BY <1>1, <1>4, <2>1 DEF Settle, Grows
  <2>3. ASSUME NEW e \in Devices PROVE Turn(e)
    BY <1>1, <1>4, <2>1 DEF Turn
  <2>4. QED  BY <2>2, <2>3
<1>5. CASE Install(p)
  BY <1>1, <1>2, <1>5 DEF Install, At, Carries, Formed, Turn, Grows, sameGhosts
<1>6. CASE ClearRow(p) \/ Forget(p) \/ DropEntry(p) \/ DropRow(p)
  BY <1>1, <1>6 DEF ClearRow, Forget, DropEntry, DropRow, DropsRow, Turn, Grows, sameGhosts
<1>7. CASE \E w \in Watches : Pair(p, w)
  BY <1>1, <1>2, <1>7 DEF Pair, Asked, Turn, Grows
<1>8. CASE Replace(p) \/ Revoke(p)
  BY <1>3, <1>8 DEF Replace, Revoke
<1>9. CASE \E d \in Devices, a \in Accounts : AppLogin(p, d, a)
  BY <1>1, <1>9 DEF AppLogin, Turn, Grows
<1>10. CASE AddAlias(p)
  BY <1>1, <1>4, <1>10 DEF AddAlias, Welcome, At, LoggingIn
<1>11. CASE Create(p)
  BY <1>1, <1>3, <1>4, <1>11 DEF Create, Reuses, Welcome, At, LoggingIn
<1>12. CASE Login(p)
  <2>1. j.tok \in Devices /\ j.acct \in mine[j.tok]
    BY <1>1, <1>12 DEF Login, At, LoggingIn
  <2>2. CASE mem' = [mem EXCEPT ![j.tok] = Pending(j.acct)] /\ UNCHANGED <<rows, moved, mine>>
    BY <1>1, <2>1, <2>2 DEF Turn, Grows
  <2>3. CASE Settle(j.tok, j.acct) /\ rows' = [rows EXCEPT ![j.tok] = j.acct] /\ UNCHANGED <<mem, mine>>
    BY <1>4, <2>1, <2>3
  <2>4. QED  BY <1>3, <1>12, <2>2, <2>3 DEF Login
<1>13. CASE Enter(p)
  BY <1>1, <1>4, <1>13 DEF Enter, Welcome, At, LoggingIn
<1>14. CASE SubmitGuard(p)
  <2>1. j.tok \in Devices /\ j.acct \in mine[j.tok] /\ mem[j.tok] = Pending(j.acct)
    BY <1>1, <1>2, <1>14 DEF SubmitGuard, At, LoggingIn, Carries
  <2>2. /\ [mem EXCEPT ![j.tok].auth = TRUE] = [mem EXCEPT ![j.tok] = [mem[j.tok] EXCEPT !.auth = TRUE]]
        /\ [mem[j.tok] EXCEPT !.auth = TRUE].acct = mem[j.tok].acct
    BY <1>1, <2>1
  <2>3. mem[j.tok].acct = j.acct
    BY <2>1 DEF Pending
  <2>4. QED  BY <1>3, <1>4, <1>14, <2>1, <2>2, <2>3 DEF SubmitGuard, Welcome
<1>15. QED
  BY <1>3, <1>5, <1>6, <1>7, <1>8, <1>9, <1>10, <1>11, <1>12, <1>13, <1>14, Effects DEF Still

LEMMA HandleOwn ==
    ASSUME IInv, Calm, NEW p \in Procs, Handle(p)
    PROVE  Own'
<1> DEFINE j == job[p]
<1>1. /\ mem \in [Devices -> [acct : Known, auth : BOOLEAN]] /\ rows \in [Devices -> Known]
      /\ mine \in [Tokens -> SUBSET Accounts] /\ moved \subseteq Devices
      /\ Devices \subseteq Tokens /\ None \notin Accounts /\ Devices \cap Watches = {}
      /\ j.at \in LoggingIn => j.tok \in Devices /\ j.acct \in Accounts /\ j.acct \in mine[j.tok]
      /\ ~NoEntry.auth
      /\ \A a : /\ Session(a).acct = a /\ Session(a).auth
                /\ Pending(a).acct = a /\ ~Pending(a).auth
  BY Brings
<1>2. Own /\ Formed(j) /\ Carries(j)
  BY Brings DEF Calm
<1>3. CASE UNCHANGED <<mem, rows, moved>> /\ \A d \in Devices : mine[d] \subseteq mine'[d]
  BY <1>1, <1>2, <1>3 DEF Own
<1>4. ASSUME NEW d \in Devices, NEW a \in mine[d], Settle(d, a),
             mem' \in [Devices -> [acct : Known, auth : BOOLEAN]], rows' \in [Devices -> Known],
             \A e \in Devices \ {d} : mem'[e] = mem[e] /\ rows'[e] = rows[e] /\ mine'[e] = mine[e],
             \/ /\ mine'[d] = {a}
                /\ mem'[d] # NoEntry => mem'[d].acct = a
                /\ rows'[d] # None => rows'[d] = a
             \/ mine'[d] = mine[d] /\ mem'[d] = mem[d] /\ rows'[d] = a
      PROVE  Own'
  <2>1. moved \subseteq moved' /\ (d \in moved' \/ mine[d] = {a})
    BY <1>4 DEF Settle
  <2> DEFINE Fine(e) == /\ mem'[e] # NoEntry => mem'[e].acct \in mine'[e]
                        /\ rows'[e] # None => rows'[e] \in mine'[e]
                        /\ e \notin moved' /\ mem'[e].auth /\ rows'[e] # None => rows'[e] = mem'[e].acct
  <2>2. ASSUME NEW e \in Devices \ {d} PROVE Fine(e)
    BY <1>2, <1>4, <2>1, <2>2 DEF Own
  <2>3. ASSUME /\ mine'[d] = {a}
               /\ mem'[d] # NoEntry => mem'[d].acct = a
               /\ rows'[d] # None => rows'[d] = a
        PROVE  Fine(d)
    BY <1>1, <2>3
  <2>4. ASSUME mine'[d] = mine[d] /\ mem'[d] = mem[d] /\ rows'[d] = a
        PROVE  Fine(d)
    BY <1>1, <1>2, <2>1, <2>4 DEF Own
  <2>5. QED  BY <1>4, <2>2, <2>3, <2>4 DEF Own
<1>5. CASE Install(p)
  <2>1. j.client \in Devices /\ j.got = rows[j.client] /\ j.got \in Accounts
    BY <1>2, <1>5 DEF Install, At, Formed, Carries
  <2>2. mem' = [mem EXCEPT ![j.client] = Session(j.got)] /\ UNCHANGED <<rows, mine, moved>>
    BY <1>5 DEF Install, sameGhosts
  <2>3. QED  BY <1>1, <1>2, <2>1, <2>2 DEF Own
<1>6. CASE ClearRow(p) \/ Forget(p) \/ DropEntry(p) \/ DropRow(p)
  BY <1>1, <1>2, <1>6 DEF ClearRow, Forget, DropEntry, DropRow, DropsRow, Own, sameGhosts
<1>7. CASE \E w \in Watches : Pair(p, w)
  <2>1. \A d \in Devices : mine'[d] = mine[d]
    BY <1>1, <1>7 DEF Pair
  <2>2. QED  BY <1>3, <1>7, <2>1 DEF Pair
<1>8. CASE Replace(p) \/ Revoke(p)
  BY <1>3, <1>8 DEF Replace, Revoke
<1>9. CASE \E d \in Devices, a \in Accounts : AppLogin(p, d, a)
  BY <1>1, <1>3, <1>9 DEF AppLogin
<1>10. CASE AddAlias(p)
  <2>1. j.tok \in Devices /\ j.acct \in mine[j.tok] /\ mem[j.tok] = NoEntry /\ rows[j.tok] = None
    BY <1>1, <1>2, <1>10 DEF AddAlias, At, LoggingIn, Carries
  <2>2. /\ Settle(j.tok, j.acct) /\ mine' = [mine EXCEPT ![j.tok] = {j.acct}] /\ UNCHANGED <<mem, rows>>
    BY <1>10 DEF AddAlias, Welcome
  <2>3. QED  BY <1>1, <1>4, <2>1, <2>2
<1>11. CASE Create(p)
  <2>1. j.tok \in Devices /\ j.acct \in mine[j.tok] /\ j.acct \in Known
    BY <1>1, <1>11 DEF Create, At, LoggingIn, Known
  <2>2. CASE rows[j.tok] = j.acct
    <3>1. /\ Settle(j.tok, j.acct) /\ mine' = [mine EXCEPT ![j.tok] = {j.acct}] /\ UNCHANGED rows
          /\ mem' = [mem EXCEPT ![j.tok] = Session(j.acct)]
      BY <1>11, <2>2 DEF Create, Reuses, Welcome
    <3>2. Session(j.acct) \in [acct : Known, auth : BOOLEAN]
      BY <2>1 DEF Session
    <3>3. QED  BY <1>1, <1>4, <2>1, <2>2, <3>1, <3>2
  <2>3. QED  BY <1>3, <1>11, <2>2 DEF Create, Reuses
<1>12. CASE Login(p)
  <2>1. j.tok \in Devices /\ j.acct \in mine[j.tok] /\ j.acct \in Known
    BY <1>1, <1>12 DEF Login, At, LoggingIn, Known
  <2>2. CASE mem' = [mem EXCEPT ![j.tok] = Pending(j.acct)] /\ UNCHANGED <<rows, moved, mine>>
    BY <1>1, <1>2, <2>1, <2>2 DEF Own
  <2>3. CASE Settle(j.tok, j.acct) /\ rows' = [rows EXCEPT ![j.tok] = j.acct] /\ UNCHANGED <<mem, mine>>
    BY <1>1, <1>4, <2>1, <2>3
  <2>4. QED  BY <1>3, <1>12, <2>2, <2>3 DEF Login
<1>13. CASE Enter(p)
  <2>1. j.tok \in Devices /\ j.acct \in mine[j.tok] /\ j.acct \in Known /\ rows[j.tok] = j.acct
    BY <1>1, <1>2, <1>13 DEF Enter, At, LoggingIn, Known, Carries
  <2>2. /\ Settle(j.tok, j.acct) /\ mine' = [mine EXCEPT ![j.tok] = {j.acct}] /\ UNCHANGED rows
        /\ mem' = [mem EXCEPT ![j.tok] = Session(j.acct)]
    BY <1>13 DEF Enter, Welcome
  <2>3. Session(j.acct) \in [acct : Known, auth : BOOLEAN]
    BY <2>1 DEF Session
  <2>4. QED  BY <1>1, <1>4, <2>1, <2>2, <2>3
<1>14. CASE SubmitGuard(p)
  <2>1. j.tok \in Devices /\ j.acct \in mine[j.tok] /\ mem[j.tok].acct = j.acct /\ j.acct \in Known
    BY <1>1, <1>2, <1>14 DEF SubmitGuard, At, LoggingIn, Carries, Known
  <2>2. CASE /\ Settle(j.tok, j.acct) /\ mine' = [mine EXCEPT ![j.tok] = {j.acct}]
             /\ mem' = [mem EXCEPT ![j.tok].auth = TRUE] /\ rows' = [rows EXCEPT ![j.tok] = j.acct]
    <3>1. /\ mem' \in [Devices -> [acct : Known, auth : BOOLEAN]] /\ mem'[j.tok].acct = j.acct
          /\ \A e \in Devices \ {j.tok} : mem'[e] = mem[e]
      BY <1>1, <2>1, <2>2, SignedIn
    <3>2. /\ rows' \in [Devices -> Known] /\ rows'[j.tok] = j.acct /\ mine'[j.tok] = {j.acct}
          /\ \A e \in Devices \ {j.tok} : rows'[e] = rows[e] /\ mine'[e] = mine[e]
      BY <1>1, <2>1, <2>2
    <3>3. QED  BY <1>4, <2>1, <2>2, <3>1, <3>2
  <2>3. QED  BY <1>3, <1>14, <2>1, <2>2 DEF SubmitGuard, Welcome
<1>15. QED
  BY <1>3, <1>5, <1>6, <1>7, <1>8, <1>9, <1>10, <1>11, <1>12, <1>13, <1>14, Effects DEF Still

(* An alias or a watch that is made leads to a session of its account.      *)
LEMMA HandleLinked ==
    ASSUME IInv, Calm, NEW p \in Procs, Handle(p)
    PROVE  Linked' /\ Asked'
<1> DEFINE j == job[p]
<1>1. /\ mem \in [Devices -> [acct : Known, auth : BOOLEAN]] /\ rows \in [Devices -> Known]
      /\ alias \in [Devices -> Owned] /\ watch \in [Watches -> Owned]
      /\ mine \in [Tokens -> SUBSET Accounts] /\ moved \subseteq Devices
      /\ Devices \subseteq Tokens /\ None \notin Tokens \cup Accounts /\ Devices \cap Watches = {}
      /\ j.at \in LoggingIn =>
            j.tok \in Devices /\ j.acct \in Accounts /\ j.acct \in mine[j.tok] /\ j.tok # Api
      /\ \A a : Session(a).acct = a /\ Session(a).auth
  BY Brings
<1>2. Asked /\ Own /\ Linked /\ Formed(j) /\ Carries(j) /\ Own'
  BY Brings, HandleOwn DEF Calm
<1>3. Grows /\ \A d \in Devices : Turn(d)
  BY HandleTurns
<1>4. ASSUME NEW t \in Tokens, NEW c \in Devices, t \in moved \/ Bound(c, mine[t])
      PROVE  t \in moved' \/ Stays(c, mine'[t])
  BY <1>1, <1>3, <1>4, BoundStays DEF Grows
<1>5. ASSUME NEW t \in Tokens, UNCHANGED <<alias, watch>> \/ Owner(t)' = Owner(t)
      PROVE  Owner(t)' \notin {None, t} => t \in moved' \/ Stays(Owner(t)', mine'[t])
  <2>1. Owner(t)' = Owner(t) /\ Owner(t) \in Owned
    BY <1>1, <1>5 DEF Owner, Tokens
  <2>2. QED  BY <1>2, <1>4, <2>1 DEF Linked, Owned
<1>6. CASE AddAlias(p)
  <2>1. /\ j.tok \in Devices /\ j.acct \in mine[j.tok] /\ j.client \in Devices /\ j.tok # Api
        /\ j.acct \in Accounts
        /\ mem[j.tok] = NoEntry /\ (j.client = j.tok \/ mem[j.client] = Session(j.acct))
    BY <1>1, <1>2, <1>6 DEF AddAlias, At, LoggingIn, Carries, Formed
  <2>2. /\ Settle(j.tok, j.acct) /\ mine' = [mine EXCEPT ![j.tok] = {j.acct}]
        /\ alias' = [alias EXCEPT ![j.tok] = j.client] /\ UNCHANGED <<mem, rows, watch, revoked>>
    BY <1>6 DEF AddAlias, Welcome
  <2>3. ASSUME NEW t \in Tokens, t # j.tok, Owner(t)' \notin {None, t}
        PROVE  t \in moved' \/ Stays(Owner(t)', mine'[t])
    <3>1. Owner(t)' = Owner(t)
      BY <1>1, <2>1, <2>2, <2>3 DEF Owner
    <3>2. QED  BY <1>5, <2>3, <3>1
  <2>4. ASSUME j.client # j.tok PROVE Stays(j.client, {j.acct})
    <3>1. mem[j.client].auth /\ mem[j.client].acct = j.acct /\ mem[j.client] # NoEntry
      BY <1>1, <2>1, <2>4 DEF NoEntry
    <3>2. Bound(j.client, {j.acct})
      BY <1>1, <1>2, <2>1, <3>1 DEF Own, Bound
    <3>3. QED  BY <1>1, <1>3, <2>1, <3>2, BoundStays
  <2>5. Linked'
    <3>1. \A t \in Tokens : t = j.tok => Owner(t)' = j.client /\ mine'[t] = {j.acct}
      BY <1>1, <2>1, <2>2 DEF Owner
    <3>2. QED  BY <2>3, <2>4, <3>1 DEF Linked, Bound, Stays
  <2>6. Asked'
    BY <1>1, <1>2, <2>1, <2>2 DEF Asked
  <2>7. QED  BY <2>5, <2>6
<1>7. CASE \E w \in Watches : Pair(p, w)
  <2>1. PICK w \in Watches : Pair(p, w)
    BY <1>7
  <2>2. j.client \in Devices /\ Bound(j.client, {j.acct})
    BY <1>2, <2>1 DEF Pair, At, Formed, Carries
  <2>3. /\ watch' = [watch EXCEPT ![w] = j.client] /\ mine' = [mine EXCEPT ![w] = {j.acct}]
        /\ UNCHANGED <<alias, revoked>>
    BY <2>1 DEF Pair
  <2>4. Stays(j.client, {j.acct})
    BY <1>1, <1>3, <2>2, BoundStays
  <2>5. ASSUME NEW t \in Tokens, t # w, Owner(t)' \notin {None, t}
        PROVE  t \in moved' \/ Stays(Owner(t)', mine'[t])
    <3>1. Owner(t)' = Owner(t)
      BY <1>1, <2>3, <2>5 DEF Owner, Tokens
    <3>2. QED  BY <1>5, <2>5, <3>1
  <2>6. Owner(w)' = j.client /\ mine'[w] = {j.acct}
    BY <1>1, <2>3 DEF Owner, Tokens
  <2>7. Linked'
    BY <2>4, <2>5, <2>6 DEF Linked, Bound, Stays
  <2>8. Asked'
    BY <1>1, <1>2, <2>2, <2>3 DEF Asked
  <2>9. QED  BY <2>7, <2>8
<1>8. CASE Replace(p) \/ Revoke(p)
  <2>1. /\ UNCHANGED <<mem, rows, alias, mine, moved>>
        /\ \/ UNCHANGED <<watch, revoked>>
           \/ \E w \in Watches : watch' = [watch EXCEPT ![w] = None] /\ revoked' = revoked \cup {w}
    BY <1>8 DEF Replace, Revoke, Revokes
  <2>2. \A t \in Tokens : Owner(t)' # None => Owner(t)' = Owner(t)
    BY <1>1, <2>1 DEF Owner, Tokens
  <2>3. Linked'
    BY <1>5, <2>2 DEF Linked, Bound, Stays
  <2>4. Asked'
    BY <1>1, <1>2, <2>1 DEF Asked
  <2>5. QED  BY <2>3, <2>4
<1>9. CASE UNCHANGED <<alias, watch>>
  <2>1. Linked'
    BY <1>5, <1>9 DEF Linked, Bound, Stays
  <2>2. CASE UNCHANGED <<mine, revoked>>
    BY <1>2, <1>9, <2>1, <2>2 DEF Asked
  <2>3. CASE \E d \in Devices \ {Api} : \E S : mine' = [mine EXCEPT ![d] = S] /\ revoked' = revoked
    <3>1. \A w \in Watches : mine'[w] = mine[w]
      BY <1>1, <2>3
    <3>2. Api \in Devices => mine'[Api] = mine[Api]
      BY <1>1, <2>3
    <3>3. QED  BY <1>2, <1>9, <2>1, <2>3, <3>1, <3>2 DEF Asked
  <2>4. CASE Still \/ Install(p) \/ ClearRow(p) \/ Forget(p) \/ DropEntry(p) \/ DropRow(p) \/ Login(p)
    BY <2>2, <2>4 DEF Still, Install, ClearRow, Forget, DropEntry, DropRow, Login, sameGhosts
  <2>5. CASE \E d \in Devices, a \in Accounts : AppLogin(p, d, a)
    BY <2>3, <2>5 DEF AppLogin
  <2>6. CASE Create(p) \/ Enter(p) \/ SubmitGuard(p)
    <3>1. j.tok \in Devices \ {Api} /\ revoked' = revoked
      BY <1>1, <2>6 DEF Create, Enter, SubmitGuard, At, LoggingIn
    <3>2. mine' = mine \/ mine' = [mine EXCEPT ![j.tok] = {j.acct}]
      BY <2>6 DEF Create, Enter, SubmitGuard, Welcome
    <3>3. QED  BY <2>2, <2>3, <3>1, <3>2
  <2>7. CASE AddAlias(p) \/ (\E w \in Watches : Pair(p, w)) \/ Replace(p) \/ Revoke(p)
    BY <1>6, <1>7, <1>8, <2>7
  <2>8. QED  BY <2>4, <2>5, <2>6, <2>7, Effects
<1>10. QED
  BY <1>6, <1>7, <1>8, <1>9, Effects DEF Still, Install, ClearRow, Forget, AppLogin, DropEntry,
     DropRow, Create, Login, Enter, SubmitGuard, tables

(* A lookup of p leads somewhere without any change.                        *)
LEMMA LookupCarries ==
    ASSUME IInv, Calm, NEW p \in Procs, job[p].at \in {"look", "row", "reread"}, Still,
           \/ Found(p) /\ mem[job[p].client] # NoEntry
           \/ Missing(p)
    PROVE  Carries(job[p])'
<1> DEFINE j == job[p]
<1>1. /\ mem \in [Devices -> [acct : Known, auth : BOOLEAN]] /\ mine \in [Tokens -> SUBSET Accounts]
      /\ job \in [Procs -> Task] /\ j \in Task /\ Formed(j) /\ Carries(j) /\ Own
      /\ Devices \subseteq Tokens /\ j.client \in Devices
      /\ ~NoEntry.auth
  BY Brings DEF Calm, Formed
<1>2. UNCHANGED <<mem, rows, mine, moved>>
  BY DEF Still
<1>3. j.op = "login" <=> j.stage = "canon"
  BY <1>1 DEF Formed, LookingUp
<1>4. CASE Found(p) /\ mem[j.client] # NoEntry
  <2>1. CASE j.stage \in {"own", "owner"}
    <3>1. job' = [job EXCEPT ![p].at = "look", ![p].client = j.client, ![p].stage = "use"]
      BY <1>4, <2>1 DEF Found, Resolve
    <3>2. /\ job'[p].at = "look" /\ job'[p].client = j.client /\ job'[p].tok = j.tok
          /\ job'[p].op = j.op /\ job'[p].acct = j.acct
      BY <1>1, <3>1 DEF Task
    <3>3. QED  BY <1>1, <1>2, <1>3, <2>1, <3>2 DEF Carries, Bound, LookingUp
  <2>2. CASE j.stage = "canon"
    <3>1. To(p, "drop") /\ mem[j.client] = Session(j.acct) /\ j.op = "login"
      BY <1>1, <1>3, <1>4, <2>2 DEF Found, Carries, LookingUp
    <3>2. /\ job'[p].at = "drop" /\ job'[p].client = j.client /\ job'[p].tok = j.tok
          /\ job'[p].op = j.op /\ job'[p].acct = j.acct
      BY <1>1, <3>1 DEF Task, To
    <3>3. QED  BY <1>1, <1>2, <3>1, <3>2 DEF Carries, LookingUp
  <2>3. CASE j.stage = "use"
    <3>1. j.op # "login"
      BY <1>3, <2>3
    <3>2. CASE \E a \in {"clear", "refused"} : To(p, a)
      BY <1>1, <3>1, <3>2 DEF To, Task, Carries, LookingUp
    <3>3. CASE mem[j.client].auth /\ Hold(p, IF j.op = "data" THEN "answered" ELSE j.op, mem[j.client].acct)
      <4>1. Bound(j.client, {mem[j.client].acct})
        BY <1>1, <3>3 DEF Own, Bound
      <4>2. /\ job'[p].at \in {"answered", "logout", "pair", "revoke"} /\ job'[p].client = j.client
            /\ job'[p].op = j.op /\ job'[p].acct = mem[j.client].acct
        BY <1>1, <3>1, <3>3 DEF Hold, Task
      <4>3. QED  BY <1>2, <3>1, <4>1, <4>2 DEF Carries, Bound, LookingUp
    <3>4. QED  BY <1>4, <2>3, <3>2, <3>3 DEF Found
  <2>4. QED  BY <1>1, <2>1, <2>2, <2>3 DEF Task
<1>5. CASE Missing(p)
  <2>1. \E a \in {"alias", "create", "forget", "refused"} : To(p, a)
    BY <1>5, Zenon DEF Missing
  <2>2. QED  BY <1>1, <1>2, <2>1 DEF To, Task, Carries, LookingUp
<1>6. QED  BY <1>4, <1>5

(* What p itself carries on from a step of its own.                         *)
LEMMA HandleCarries ==
    ASSUME IInv, Calm, NEW p \in Procs, Handle(p)
    PROVE  Carries(job[p])'
<1> DEFINE j == job[p]
<1>1. /\ mem \in [Devices -> [acct : Known, auth : BOOLEAN]] /\ rows \in [Devices -> Known]
      /\ mine \in [Tokens -> SUBSET Accounts] /\ moved \subseteq Devices
      /\ job \in [Procs -> Task] /\ j \in Task /\ Formed(j) /\ Carries(j)
      /\ Devices \subseteq Tokens /\ Devices \cap Watches = {}
      /\ j.at \in LoggingIn =>
            /\ j.tok \in Devices /\ j.acct \in Accounts /\ j.op = "login"
            /\ j.tok # Api /\ j.acct \in mine[j.tok]
  BY Brings
<1>2. Leave(p) => Carries(job[p])'
  BY <1>1 DEF Leave, Carries, Idle, LookingUp
<1> USE <1>1 DEF At, To, Task, Carries, LookingUp
<1>3. CASE \E t \in Tokens : Request(p, t)
  <2>1. PICK t \in Tokens : Request(p, t)
    BY <1>3
  <2>2. job'[p].op # "login" /\ job'[p].at \in {"alias", "look"} /\ job'[p].client = job'[p].tok
    BY <2>1 DEF Request, Idle
  <2>3. QED  BY <2>2
<1>4. CASE LookMap(p) \/ ReadRow(p) \/ Reread(p)
  <2>1. Still
    BY <1>4 DEF LookMap, ReadRow, Reread, Still, tables, sameGhosts
  <2>2. CASE (Found(p) /\ mem[j.client] # NoEntry) \/ Missing(p)
    BY <1>4, <2>1, <2>2, LookupCarries DEF LookMap, ReadRow, Reread
  <2>3. CASE LookMap(p) /\ mem[j.client] = NoEntry
    <3>1. j.op # "login"
      <4>1. \A a : NoEntry # Session(a)
        BY DEF NoEntry, Session
      <4>2. QED  BY <2>3, <4>1 DEF LookMap
    <3>2. To(p, "row") /\ UNCHANGED <<mem, rows, mine, moved>>
      BY <2>1, <2>3 DEF LookMap, Still
    <3>3. QED  BY <2>3, <3>1, <3>2 DEF LookMap, Bound
  <2>4. CASE ReadRow(p) /\ job' = [job EXCEPT ![p].at = "install", ![p].got = rows[j.client]]
    <3>1. UNCHANGED <<mem, rows, mine, moved>> /\ j.at = "row"
      BY <2>1, <2>4 DEF Still, ReadRow
    <3>2. QED  BY <2>4, <3>1 DEF Bound
  <2>5. QED  BY <1>2, <1>4, <2>2, <2>3, <2>4 DEF LookMap, ReadRow, Reread
<1>5. CASE Install(p)
  <2>1. j.client \in Devices /\ j.op # "login" /\ j.tok \in Tokens /\ UNCHANGED <<mine, moved>>
    BY <1>5 DEF Install, Formed, sameGhosts
  <2>2. j.client # j.tok => j.tok \in moved' \/ Stays(j.client, mine'[j.tok])
    BY <1>5, <2>1, HandleTurns, BoundStays DEF Install
  <2>3. QED  BY <1>5, <2>1, <2>2 DEF Install, Bound, Stays
<1>6. CASE ReadOwner(p)
  <2>1. UNCHANGED <<mem, rows, mine, moved>> /\ j.op # "login" /\ j.tok \in Tokens
    BY <1>6 DEF ReadOwner, Formed, sameGhosts
  <2>2. CASE To(p, "refused")
    BY <2>1, <2>2
  <2>3. CASE \E c \in Owners(j.tok) : c # None /\ Resolve(p, c, "owner")
    <3>1. PICK c \in Owners(j.tok) : c # None /\ Resolve(p, c, "owner")
      BY <2>3
    <3>2. c = Owner(j.tok)
      BY <3>1 DEF Owners, Owner
    <3>3. c # j.tok => j.tok \in moved \/ Bound(c, mine[j.tok])
      BY <2>1, <3>1, <3>2 DEF Calm, Linked
    <3>4. /\ job'[p].at = "look" /\ job'[p].client = c /\ job'[p].tok = j.tok /\ job'[p].op = j.op
      BY <3>1 DEF Resolve
    <3>5. QED  BY <2>1, <3>3, <3>4 DEF Bound
  <2>4. QED  BY <1>2, <1>6, <2>2, <2>3 DEF ReadOwner, Hop
<1>7. CASE Answer(p) \/ Forget(p) \/ Replace(p) \/ Revoke(p) \/ AddAlias(p) \/ Enter(p) \/ SubmitGuard(p)
  BY <1>2, <1>7 DEF Answer, Forget, Replace, Revoke, AddAlias, Enter, SubmitGuard, Welcome
<1>8. CASE ClearRow(p)
  BY <1>8 DEF ClearRow, sameGhosts
<1>9. CASE \E w \in Watches : Pair(p, w)
  <2>1. To(p, "replace") /\ j.at = "pair" /\ j.op # "login"
    BY <1>9 DEF Pair, Formed, LoggingIn
  <2>2. QED  BY <2>1
<1>10. CASE \E d \in Devices, a \in Accounts : AppLogin(p, d, a)
  <2>1. PICK d \in Devices, a \in Accounts : AppLogin(p, d, a)
    BY <1>10
  <2>2. /\ job'[p].at = "canon" /\ job'[p].op = "login" /\ job'[p].tok = d /\ job'[p].acct = a
        /\ d # Api /\ a \in mine'[d]
    BY <2>1 DEF AppLogin, Idle
  <2>3. QED  BY <2>2
<1>11. CASE Canonical(p)
  <2>1. UNCHANGED <<mem, mine>> /\ j.op = "login" /\ j.tok # Api /\ j.acct \in mine[j.tok]
    BY <1>11 DEF Canonical, sameGhosts, LoggingIn
  <2>2. CASE To(p, "create")
    BY <2>1, <2>2
  <2>3. CASE \E c \in CanonicalForUser(j.acct) : Resolve(p, c, "canon")
    <3>1. PICK c \in CanonicalForUser(j.acct) : Resolve(p, c, "canon")
      BY <2>3
    <3>2. mem[c] = Session(j.acct)
      BY <3>1 DEF CanonicalForUser, Serving
    <3>3. /\ job'[p].at = "look" /\ job'[p].client = c /\ job'[p].tok = j.tok /\ job'[p].op = j.op
          /\ job'[p].acct = j.acct
      BY <3>1 DEF Resolve
    <3>4. QED  BY <2>1, <3>2, <3>3
  <2>4. QED  BY <1>11, <2>2, <2>3 DEF Canonical
<1>12. CASE DropEntry(p)
  BY <1>12 DEF DropEntry, sameGhosts, LoggingIn, Formed
<1>13. CASE DropRow(p)
  BY <1>13 DEF DropRow, DropsRow, sameGhosts, LoggingIn, Formed
<1>14. CASE Create(p)
  BY <1>2, <1>14 DEF Create, Welcome, LoggingIn
<1>15. CASE Login(p)
  <2>1. /\ j.op = "login" /\ j.tok \in Devices /\ j.tok # Api /\ j.acct \in mine[j.tok] /\ UNCHANGED mine
    BY <1>15 DEF Login, LoggingIn
  <2>2. CASE To(p, "enter") /\ rows' = [rows EXCEPT ![j.tok] = j.acct]
    BY <2>1, <2>2
  <2>3. CASE To(p, "guard") /\ mem' = [mem EXCEPT ![j.tok] = Pending(j.acct)]
    BY <2>1, <2>3
  <2>4. QED  BY <1>2, <1>15, <2>2, <2>3 DEF Login
<1>16. QED
  BY <1>3, <1>4, <1>5, <1>6, <1>7, <1>8, <1>9, <1>10, <1>11, <1>12, <1>13, <1>14, <1>15 DEF Handle

(* What another goroutine carries outlasts a step of p that overlaps no     *)
(* login.                                                                   *)
LEMMA OthersCarry ==
    ASSUME IInv, Calm, NEW p \in Procs, Handle(p), Alone', NEW q \in Procs \ {p}
    PROVE  Carries(job[q])'
<1> DEFINE j == job[q]
<1>1. job'[q] = j /\ j \in Task
  BY HandleMoves, Brings DEF Moves
<1>2. /\ mine \in [Tokens -> SUBSET Accounts] /\ moved \subseteq Devices
      /\ Devices \subseteq Tokens /\ Devices \cap Watches = {}
      /\ Formed(j) /\ Carries(j) /\ job[p] \in Task /\ Formed(job[p]) /\ job \in [Procs -> Task]
  BY Brings
<1>3. Grows /\ \A d \in Devices : Turn(d)
  BY HandleTurns
<1>4. /\ Changing(q) => ~Changing(p) /\ ~Restoring(p)
      /\ Restoring(q) => ~Changing(p)
      /\ Changing(q)' => ~Changing(p)'
  BY DEF Calm, Alone
<1>5. Changing(q)' <=> Changing(q)
  BY <1>1 DEF Changing
<1>6. rows' # rows => Changing(p)
  BY <1>2, Effects DEF Still, Install, ClearRow, Forget, Pair, Replace, Revoke, AppLogin, DropEntry,
     DropRow, AddAlias, Create, Login, Enter, SubmitGuard, Changing, At, Formed, LoggingIn
<1>7. mem' # mem => Changing(p) \/ Restoring(p)
  BY <1>2, Effects DEF Still, Install, ClearRow, Forget, Pair, Replace, Revoke, AppLogin, DropEntry,
     DropRow, AddAlias, Create, Login, Enter, SubmitGuard, Changing, Restoring, At, Formed, LoggingIn
<1>8. ~Changing(p) /\ ~Changing(p)' => \A d \in Devices : mine'[d] = mine[d]
  <2>1. SUFFICES ASSUME ~Changing(p), ~Changing(p)' PROVE \A d \in Devices : mine'[d] = mine[d]
    OBVIOUS
  <2>2. CASE \E w \in Watches : Pair(p, w)
    BY <1>2, <2>2 DEF Pair
  <2>3. ASSUME NEW d \in Devices, NEW a \in Accounts, AppLogin(p, d, a) PROVE FALSE
    <3>1. job'[p].at = "canon" /\ job'[p].op = "login"
      BY <1>2, <2>3 DEF AppLogin, Idle
    <3>2. QED  BY <2>1, <3>1 DEF Changing
  <2>4. job[p].at \notin LoggingIn /\ job[p].at \notin {"clear", "forget"}
    BY <1>2, <2>1 DEF Changing, Formed, LoggingIn
  <2>5. QED  BY <2>2, <2>3, <2>4, Effects DEF Still, Install, ClearRow, Forget, Replace, Revoke,
     DropEntry, DropRow, AddAlias, Create, Login, Enter, SubmitGuard, At, LoggingIn, sameGhosts
<1>9. CASE Changing(q)
  <2>1. ~Changing(p) /\ ~Restoring(p) /\ ~Changing(p)'
    BY <1>4, <1>5, <1>9
  <2>2. UNCHANGED <<mem, rows>> /\ \A d \in Devices : mine'[d] = mine[d]
    BY <1>6, <1>7, <1>8, <2>1
  <2>3. CASE j.op = "login" /\ j.at # "idle"
    <3>1. j.tok \in Devices /\ j.at \notin {"install", "pair"}
      BY <1>2, <2>3 DEF Formed, Carries, LookingUp
    <3>2. QED  BY <1>1, <1>2, <2>2, <2>3, <3>1 DEF Carries
  <2>4. CASE j.at \in {"clear", "forget"}
    BY <1>1, <1>2, <2>4 DEF Carries, Formed, LookingUp
  <2>5. QED  BY <1>9, <2>3, <2>4 DEF Changing
<1>10. CASE ~Changing(q)
  <2>1. (j.op # "login" \/ j.at = "idle") /\ j.at \notin LoggingIn
    BY <1>2, <1>10 DEF Changing, Formed, LoggingIn
  <2>2. j.at = "install" => j.got = rows'[j.client]
    BY <1>2, <1>4, <1>6 DEF Restoring, Carries
  <2>3. j.at \in LookingUp /\ j.client # j.tok => j.tok \in moved' \/ Stays(j.client, mine'[j.tok])
    <3>1. SUFFICES ASSUME j.at \in LookingUp, j.client # j.tok
                   PROVE  j.tok \in moved' \/ Stays(j.client, mine'[j.tok])
      OBVIOUS
    <3>2. j.client \in Devices /\ j.tok \in Tokens /\ j.op # "login"
      BY <1>2, <2>1, <3>1 DEF Formed, LookingUp
    <3>3. j.tok \in moved \/ Bound(j.client, mine[j.tok])
      BY <1>2, <3>1, <3>2 DEF Carries
    <3>4. QED  BY <1>2, <1>3, <3>2, <3>3, BoundStays DEF Grows
  <2>4. j.at = "pair" => Stays(j.client, {j.acct})
    <3>1. j.at = "pair" => j.client \in Devices /\ Bound(j.client, {j.acct})
      BY <1>2 DEF Formed, Carries
    <3>2. QED  BY <1>2, <1>3, <3>1, BoundStays
  <2>5. j.at \notin {"drop", "droprow", "addalias", "enter", "guard"}
    BY <2>1 DEF LoggingIn
  <2>6. QED  BY <1>1, <2>1, <2>2, <2>3, <2>4, <2>5 DEF Carries, Bound, Stays, LookingUp
<1>11. QED  BY <1>9, <1>10

(* A step of a handler that overlaps no login keeps all of it.              *)
LEMMA HandleCalm ==
    ASSUME IInv, Calm, NEW p \in Procs, Handle(p), Race, ~raced'
    PROVE  Calm'
<1>1. Alone'
  BY DEF Race, Alone
<1>2. Booting'
  <2>1. phase = "up" /\ phase' = phase
    BY DEF Handle, Request, LookMap, ReadRow, Install, Reread, ReadOwner, Answer, ClearRow, Forget, Pair,
       Replace, Revoke, AppLogin, Canonical, DropEntry, DropRow, AddAlias, Create, Login, Enter,
       SubmitGuard, At, sameRest
  <2>2. QED  BY <2>1 DEF Booting
<1>3. \A q \in Procs : Carries(job[q])'
  BY <1>1, HandleCarries, OthersCarry
<1>4. QED  BY <1>1, <1>2, <1>3, HandleOwn, HandleLinked DEF Calm

(* A goroutine that is idle carries nothing and overlaps nobody.            *)
LEMMA IdleCarries ==
    /\ (\A p \in Procs : job[p].at = "idle") => Alone /\ Booting /\ \A p \in Procs : Carries(job[p])
    /\ (\A p \in Procs : job'[p].at = "idle") => Alone' /\ Booting' /\ \A p \in Procs : Carries(job[p])'
BY DEF Alone, Booting, Changing, Restoring, Carries, LookingUp

(* A start of the process restores what the rows say, and logs the API      *)
(* token in with its own account.                                           *)
LEMMA CrashCalm == IInv /\ Calm /\ Crash => Calm'
<1> SUFFICES ASSUME IInv, Calm, Crash PROVE Calm'
  OBVIOUS
<1>1. /\ mem \in [Devices -> [acct : Known, auth : BOOLEAN]] /\ rows \in [Devices -> Known]
      /\ alias \in [Devices -> Owned] /\ watch \in [Watches -> Owned]
      /\ mine \in [Tokens -> SUBSET Accounts] /\ Asked /\ Own /\ Linked
      /\ None \notin Accounts /\ EnvAccount \in Accounts /\ Devices \subseteq Tokens
  BY TypeParts, AliasAssumption DEF IInv, Calm, SessionTypes, GhostTypes, Tokens
<1>2. UNCHANGED <<alias, watch, mine, moved, revoked>>
  BY DEF Crash, tables
<1>3. ASSUME NEW d \in Devices
      PROVE  \/ rows'[d] = rows[d] /\ mem'[d] = NoEntry /\ ~mem'[d].auth
             \/ rows'[d] = rows[d] /\ rows[d] # None /\ mem'[d].acct = rows[d]
             \/ d = Api /\ rows'[d] = EnvAccount /\ mem'[d].acct = EnvAccount
  <2>1. PICK back \in SUBSET Stored :
           LET restored == [e \in Devices |-> IF e \in back THEN Session(rows[e]) ELSE NoEntry] IN
           \/ mem' = restored /\ UNCHANGED rows
           \/ /\ Api \in Devices \ back
              /\ mem' = [restored EXCEPT ![Api] = Session(EnvAccount)]
              /\ rows' = [rows EXCEPT ![Api] = EnvAccount]
    BY DEF Crash
  <2>2. d \in back => rows[d] # None
    BY DEF Stored
  <2>3. ~NoEntry.auth /\ \A a : Session(a).acct = a
    BY DEF NoEntry, Session
  <2>4. QED  BY <1>1, <2>1, <2>2, <2>3
<1>4. Own'
  <2>1. SUFFICES ASSUME NEW d \in Devices
                 PROVE  /\ mem'[d] # NoEntry => mem'[d].acct \in mine[d]
                        /\ rows'[d] # None => rows'[d] \in mine[d]
                        /\ mem'[d].auth /\ rows'[d] # None => rows'[d] = mem'[d].acct
    BY <1>2 DEF Own
  <2>2. rows[d] # None => rows[d] \in mine[d]
    BY <1>1 DEF Own
  <2>3. d = Api => mine[d] = {EnvAccount}
    BY <1>1 DEF Asked
  <2>4. QED  BY <1>3, <2>2, <2>3
<1>5. ASSUME NEW c \in Devices, NEW S, Bound(c, S)
      PROVE  c \in moved \/ /\ mem'[c].auth => mem'[c].acct \in S
                            /\ rows'[c] # None => rows'[c] \in S
                            /\ mine[c] \cap S # {}
  <2>1. c = Api => mine[c] = {EnvAccount}
    BY <1>1 DEF Asked
  <2>2. QED  BY <1>3, <1>5, <2>1 DEF Bound
<1>6. Linked'
  <2>1. SUFFICES ASSUME NEW t \in Tokens, Owner(t) \notin {None, t}
                 PROVE  \/ t \in moved
                        \/ Owner(t) \in moved
                        \/ /\ mem'[Owner(t)].auth => mem'[Owner(t)].acct \in mine[t]
                           /\ rows'[Owner(t)] # None => rows'[Owner(t)] \in mine[t]
                           /\ mine[Owner(t)] \cap mine[t] # {}
    BY <1>2 DEF Linked, Bound, Owner
  <2>2. Owner(t) \in Devices
    BY <1>1, <2>1 DEF Owner, Owned, Tokens
  <2>3. t \in moved \/ Bound(Owner(t), mine[t])
    BY <1>1, <2>1 DEF Linked
  <2>4. QED  BY <1>5, <2>2, <2>3
<1>7. Asked'
  BY <1>1, <1>2 DEF Asked
<1>8. \A p \in Procs : job'[p].at = "idle"
  BY DEF Crash, Idle
<1>9. QED  BY <1>4, <1>6, <1>7, <1>8, IdleCarries DEF Calm

(* The start of the process gives the API token the devices of its account. *)
LEMMA CollapseCalm == ASSUME IInv, Calm, NEW d \in Devices, Collapse(d) PROVE Calm'
<1>1. /\ mem \in [Devices -> [acct : Known, auth : BOOLEAN]] /\ rows \in [Devices -> Known]
      /\ alias \in [Devices -> Owned] /\ watch \in [Watches -> Owned]
      /\ mine \in [Tokens -> SUBSET Accounts] /\ Asked /\ Own /\ Linked /\ Booting
      /\ None \notin Accounts /\ EnvAccount \in Accounts /\ Devices \subseteq Tokens
  BY TypeParts, AliasAssumption DEF IInv, Calm, SessionTypes, GhostTypes, Tokens
<1>2. /\ UNCHANGED <<phase, watch, job, mine, moved, revoked>> /\ phase = "boot"
      /\ alias' = [alias EXCEPT ![d] = Api]
      /\ mem' = [mem EXCEPT ![d] = NoEntry] /\ rows' = [rows EXCEPT ![d] = None]
      /\ d # Api /\ Api \in Devices /\ rows[d] # None /\ mem[Api] = Session(rows[d])
  BY DEF Collapse, Duplicates, Stored, ghosts
<1>3. Own'
  BY <1>1, <1>2 DEF Own, NoEntry
<1>4. ASSUME NEW c \in Devices, NEW S, Bound(c, S)
      PROVE  c \in moved \/ /\ mem'[c].auth => mem'[c].acct \in S
                            /\ rows'[c] # None => rows'[c] \in S
                            /\ mine[c] \cap S # {}
  BY <1>1, <1>2, <1>4 DEF Bound, NoEntry
<1>5. Bound(Api, mine[d])
  <2>1. rows[d] \in mine[d] /\ mine[Api] = {EnvAccount} /\ mem[Api].acct = rows[d] /\ mem[Api] # NoEntry
    BY <1>1, <1>2 DEF Own, Asked, Session, NoEntry
  <2>2. mem[Api].acct \in mine[Api] /\ (rows[Api] # None => rows[Api] \in mine[Api])
    BY <1>1, <1>2, <2>1 DEF Own
  <2>3. QED  BY <2>1, <2>2 DEF Bound
<1>6. Linked'
  <2>1. ASSUME NEW t \in Tokens, t # d, Owner(t)' \notin {None, t}
        PROVE  t \in moved' \/ Stays(Owner(t)', mine'[t])
    <3>1. Owner(t)' = Owner(t) /\ Owner(t) \in Owned
      BY <1>1, <1>2, <2>1 DEF Owner, Tokens
    <3>2. t \in moved \/ Bound(Owner(t), mine[t])
      BY <1>1, <2>1, <3>1 DEF Linked
    <3>3. QED  BY <1>2, <1>4, <2>1, <3>1, <3>2 DEF Stays, Owned
  <2>2. Owner(d)' = Api /\ Stays(Api, mine'[d])
    BY <1>1, <1>2, <1>4, <1>5 DEF Owner, Stays
  <2>3. QED  BY <2>1, <2>2 DEF Linked, Bound, Stays
<1>7. Asked'
  BY <1>1, <1>2 DEF Asked
<1>8. \A p \in Procs : job'[p].at = "idle"
  BY <1>1, <1>2 DEF Booting
<1>9. QED  BY <1>3, <1>6, <1>7, <1>8, IdleCarries DEF Calm

(* Whatever no step overlapped a login in holds what Calm says.             *)
Kept == raced \/ Calm

LEMMA InitKept == Init => Kept
<1> SUFFICES ASSUME Init PROVE Calm
  BY DEF Kept
<1>1. /\ \A p \in Procs : job[p].at = "idle"
      /\ \A t \in Tokens : Owner(t) = None
  BY DEF Init, Idle, Owner, Tokens
<1>2. Asked
  BY AliasAssumption DEF Init, Asked, Tokens
<1>3. Own
  BY DEF Init, Own, Session, NoEntry, Tokens
<1>4. QED  BY <1>1, <1>2, <1>3, IdleCarries DEF Calm, Linked

LEMMA NextKept == IInv /\ Kept /\ [Next]_vars => Kept'
<1> SUFFICES ASSUME IInv, Kept, [Next]_vars, ~raced' PROVE Calm'
  BY DEF Kept
<1>1. raced => raced'
  BY DEF Next, Race, PollTake, PollSave, Collapse, Crash, Serve, vars, ghosts
<1>2. Calm
  BY <1>1 DEF Kept
<1>3. ASSUME NEW p \in Procs, Handle(p), Race PROVE Calm'
  BY <1>2, <1>3, HandleCalm
<1>4. CASE UNCHANGED <<mem, rows, alias, watch, mine, moved, revoked, job>> /\ phase' \in {phase, "up"}
  BY <1>2, <1>4 DEF Calm, Alone, Booting, Asked, Own, Linked, Owner, Bound, Carries, Changing, Restoring
<1>5. CASE \E d \in Devices : PollTake(d)
  BY <1>4, <1>5 DEF PollTake, tables, sameGhosts
<1>6. CASE \E d \in Devices : Collapse(d)
  BY <1>2, <1>6, CollapseCalm
<1>7. CASE PollSave
  <2>1. rows' = rows
    BY <1>7 DEF PollSave, IInv, TypeOK
  <2>2. QED  BY <1>4, <1>7, <2>1 DEF PollSave, tables, sameGhosts
<1>8. CASE Crash
  BY <1>2, <1>8, CrashCalm
<1>9. CASE Serve
  BY <1>4, <1>9 DEF Serve, tables, sameGhosts
<1>10. CASE UNCHANGED vars
  BY <1>4, <1>10 DEF vars, tables, ghosts
<1>11. QED  BY <1>3, <1>5, <1>6, <1>7, <1>8, <1>9, <1>10 DEF Next

LEMMA KeptHolds == Spec => []Kept
<1>1. QED  BY InitKept, NextKept, Inductive, PTL DEF Spec

(* Only a request for data that found a session is answered, with the       *)
(* account of that session.                                                 *)
LEMMA AnswersFound ==
    ASSUME IInv, Next, NEW p \in Procs, Answers(p)
    PROVE  /\ job[p].at \in {"look", "reread"} /\ job[p].op = "data"
           /\ mem[job[p].client].auth /\ mem[job[p].client] # NoEntry
           /\ job'[p].acct = mem[job[p].client].acct
<1> DEFINE j == job[p]
<1>1. j \in Task /\ job \in [Procs -> Task] /\ Formed(j)
  BY DEF IInv, TypeOK, Task
<1>2. job'[p] # j /\ job'[p].at # j.at
  BY DEF Answers
<1>3. Handle(p)
  <2>1. PICK q \in Procs : Handle(q)
    BY <1>1, <1>2 DEF Next, PollTake, Collapse, PollSave, Crash, Serve, Answers, Idle
  <2>2. p = q
    BY <1>2, <2>1, HandleMoves DEF Moves
  <2>3. QED  BY <2>1, <2>2
<1>4. ~Leave(p)
  BY <1>1 DEF Leave, Idle, Answers
<1>5. ASSUME NEW a, To(p, a) PROVE a = "answered"
  BY <1>1, <1>5 DEF To, Answers, Task
<1>6. ASSUME NEW c, NEW s, Resolve(p, c, s) PROVE FALSE
  BY <1>1, <1>6 DEF Resolve, Answers, Task
<1>7. ~Missing(p)
  BY <1>5 DEF Missing
<1>8. CASE Found(p) /\ mem[j.client] # NoEntry /\ j.at \in {"look", "reread"}
  <2>1. ~To(p, "drop") /\ ~To(p, "create") /\ ~To(p, "clear") /\ ~To(p, "refused")
    BY <1>5
  <2>2. /\ Hold(p, IF j.op = "data" THEN "answered" ELSE j.op, mem[j.client].acct)
        /\ mem[j.client].auth
    BY <1>6, <1>8, <2>1 DEF Found
  <2>3. job'[p].acct = mem[j.client].acct /\ (j.op # "data" => job'[p].at = j.op)
    BY <1>1, <2>2 DEF Hold, Task
  <2>4. QED  BY <1>1, <1>8, <2>2, <2>3 DEF Answers, Task
<1>9. CASE \E t \in Tokens : Request(p, t)
  BY <1>1, <1>9 DEF Request, Idle, Answers
<1>10. CASE ReadRow(p) \/ LookMap(p) \/ Reread(p)
  <2>1. ~(ReadRow(p) /\ job' = [job EXCEPT ![p].at = "install", ![p].got = rows[j.client]])
    BY <1>1 DEF Answers, Task
  <2>2. ~To(p, "row")
    BY <1>5
  <2>3. QED  BY <1>4, <1>7, <1>8, <1>10, <2>1, <2>2 DEF ReadRow, LookMap, Reread, At
<1>11. CASE ReadOwner(p)
  BY <1>4, <1>5, <1>6, <1>11 DEF ReadOwner, Hop
<1>12. CASE \E d \in Devices, a \in Accounts : AppLogin(p, d, a)
  BY <1>1, <1>12 DEF AppLogin, Idle, Answers
<1>13. QED
  BY <1>3, <1>4, <1>5, <1>6, <1>9, <1>10, <1>11, <1>12 DEF Handle, Install, Answer, ClearRow, Forget,
     Pair, Replace, Revoke, Canonical, DropEntry, DropRow, AddAlias, Create, Login, Enter, SubmitGuard,
     Welcome

(* Aliasing "never leaks the account" (auth.go:230-231): a token is answered*)
(* with the account it logged in or was paired for, unless a login was      *)
(* overlapped, or the token stands for another and one of them changed      *)
(* account or was logged out.                                               *)
THEOREM AnswersTheirOwn == Spec => AnswersOwn
<1>1. IInv /\ Kept /\ [Next]_vars =>
         [\A p \in Procs : Answers(p) =>
             \/ job'[p].acct \in mine[job[p].tok]
             \/ raced
             \/ job[p].client # job[p].tok /\ {job[p].tok, job[p].client} \cap moved # {}]_vars
  <2>1. SUFFICES ASSUME IInv, Calm, Next, NEW p \in Procs, Answers(p)
                 PROVE  \/ job'[p].acct \in mine[job[p].tok]
                        \/ job[p].client # job[p].tok /\ {job[p].tok, job[p].client} \cap moved # {}
    BY DEF Kept
  <2> DEFINE j == job[p]
  <2>2. /\ j.at \in {"look", "reread"} /\ j.op = "data" /\ mem[j.client].auth
        /\ mem[j.client] # NoEntry /\ job'[p].acct = mem[j.client].acct
    BY <2>1, AnswersFound
  <2>3. j.client \in Devices /\ Carries(j) /\ Own
    BY <2>1, <2>2, Brings DEF Formed, Calm
  <2>4. mem[j.client].acct \in mine[j.client]
    BY <2>2, <2>3 DEF Own
  <2>5. j.client # j.tok => j.tok \in moved \/ Bound(j.client, mine[j.tok])
    BY <2>2, <2>3 DEF Carries, LookingUp
  <2>6. QED  BY <2>2, <2>4, <2>5 DEF Bound
<1>2. QED  BY <1>1, Inductive, KeptHolds, PTL DEF Spec, AnswersOwn

------------------------------------------------------------------------------
(* One session per account, in memory or as a row, as long as no login, no  *)
(* restore and no save overlapped a login and none missed a row.            *)
Has(d, a) == (mem[d].auth /\ mem[d].acct = a) \/ rows[d] = a

(* While the process starts, the session of the API token may be one more,  *)
(* and what is in memory is what was stored.                                *)
Apart(D) == \A c, d \in D : \A a \in Accounts : c # d => ~(Has(c, a) /\ Has(d, a))

One ==
    /\ phase = "up" => Apart(Devices)
    /\ phase = "boot" =>
          /\ Apart(Devices \ {Api})
          /\ \A d \in Devices \ {Api} : mem[d].auth => rows[d] = mem[d].acct

(* A login that found nobody to share with may go on.                       *)
Making == {"create", "login", "enter", "guard"}
Free(j) == j.at \in Making => \A e \in Devices \ {j.tok} : ~Has(e, j.acct)

Single == raced \/ hidden \/ (One /\ \A p \in Procs : Free(job[p]))

LEMMA SessionIs ==
    ASSUME NEW m \in [acct : Known, auth : BOOLEAN], NEW a
    PROVE  m = Session(a) <=> m.auth /\ m.acct = a
BY DEF Session

(* A handler gives nobody an account but the one that logs in.              *)
LEMMA HandleHas ==
    ASSUME IInv, Calm, NEW p \in Procs, Handle(p), NEW d \in Devices, NEW a \in Accounts, Has(d, a)'
    PROVE  Has(d, a) \/ (d = job[p].tok /\ a = job[p].acct /\ job[p].at \in {"login", "guard"})
<1> DEFINE j == job[p]
<1>1. /\ mem \in [Devices -> [acct : Known, auth : BOOLEAN]] /\ rows \in [Devices -> Known]
      /\ Formed(j) /\ Carries(j) /\ None \notin Accounts
      /\ ~NoEntry.auth
      /\ \A b : Session(b).acct = b /\ Session(b).auth /\ Pending(b).acct = b /\ ~Pending(b).auth
  BY Brings DEF Tokens
<1>2. CASE UNCHANGED <<mem, rows>>
  BY <1>2 DEF Has
<1>3. CASE Install(p)
  BY <1>1, <1>3 DEF Install, At, Carries, Has
<1>4. CASE ClearRow(p) \/ Forget(p) \/ DropEntry(p) \/ DropRow(p)
  BY <1>1, <1>4 DEF ClearRow, Forget, DropEntry, DropRow, DropsRow, Has
<1>5. CASE Create(p)
  BY <1>1, <1>2, <1>5 DEF Create, Reuses, Has
<1>6. CASE Login(p)
  <2>1. \/ rows' = [rows EXCEPT ![j.tok] = j.acct] /\ UNCHANGED mem
        \/ mem' = [mem EXCEPT ![j.tok] = Pending(j.acct)] /\ UNCHANGED rows
        \/ UNCHANGED <<mem, rows>>
    BY <1>6 DEF Login
  <2>2. j.at = "login"
    BY <1>6 DEF Login, At
  <2>3. QED  BY <1>1, <2>1, <2>2 DEF Has
<1>7. CASE Enter(p)
  BY <1>1, <1>7 DEF Enter, At, Carries, Has
<1>8. CASE SubmitGuard(p)
  <2>1. j.at = "guard" /\ mem[j.tok].acct = j.acct
    BY <1>1, <1>8 DEF SubmitGuard, At, Carries
  <2>2. CASE /\ mem' = [mem EXCEPT ![j.tok].auth = TRUE] /\ rows' = [rows EXCEPT ![j.tok] = mem[j.tok].acct]
    BY <1>1, <2>1, <2>2 DEF Has
  <2>3. QED  BY <1>2, <1>8, <2>2 DEF SubmitGuard
<1>9. QED
  BY <1>2, <1>3, <1>4, <1>5, <1>6, <1>7, <1>8, Effects
     DEF Still, Pair, Replace, Revoke, AppLogin, AddAlias

(* A session is made only where no session of the account was found.        *)
LEMMA HandleMakes ==
    ASSUME IInv, Calm, NEW p \in Procs, Handle(p), job'[p].at \in Making
    PROVE  /\ job'[p].tok = job[p].tok /\ job'[p].acct = job[p].acct
           /\ \/ job[p].at \in Making
              \/ Canonical(p) /\ CanonicalForUser(job[p].acct) = {}
<1> DEFINE j == job[p]
<1>1. /\ j \in Task /\ job \in [Procs -> Task] /\ Formed(j) /\ Carries(j)
      /\ \A a : Session(a) # NoEntry
  BY Brings
<1>2. ~Leave(p)
  BY <1>1 DEF Leave, Idle, Making
<1>3. ASSUME NEW a, To(p, a)
      PROVE  a \in Making /\ job'[p].tok = j.tok /\ job'[p].acct = j.acct
  BY <1>1, <1>3 DEF To, Task
<1>4. ASSUME NEW c, NEW s PROVE ~Resolve(p, c, s)
  BY <1>1 DEF Resolve, Task, Making
<1>5. ~\E t \in Tokens : Request(p, t)
  <2>1. SUFFICES ASSUME NEW t \in Tokens, Request(p, t) PROVE FALSE
    OBVIOUS
  <2>2. job'[p].at \in {"alias", "look"}
    BY <1>1, <2>1 DEF Request, Idle
  <2>3. QED  BY <2>2 DEF Making
<1>6. ~\E d \in Devices, a \in Accounts : AppLogin(p, d, a)
  BY <1>1 DEF AppLogin, Idle, Making
<1>7. CASE LookMap(p) \/ ReadRow(p) \/ Reread(p)
  <2>1. j.op = "login" <=> j.stage = "canon"
    BY <1>1, <1>7 DEF LookMap, ReadRow, Reread, At, Formed, LookingUp
  <2>2. j.op = "login" => j.at = "look" /\ mem[j.client] = Session(j.acct)
    BY <1>1, <1>7 DEF LookMap, ReadRow, Reread, At, Carries, LookingUp
  <2>3. ~To(p, "row") /\ ~To(p, "drop") /\ ~To(p, "clear") /\ ~To(p, "forget")
        /\ ~To(p, "refused") /\ ~To(p, "alias")
    BY <1>3 DEF Making
  <2>4. ~(job' = [job EXCEPT ![p].at = "install", ![p].got = rows[j.client]])
    BY <1>1 DEF Making, Task
  <2>5. ASSUME NEW a PROVE ~Hold(p, IF j.op = "data" THEN "answered" ELSE j.op, a) \/ j.op = "login"
    BY <1>1 DEF Hold, Making, Task
  <2>6. ~Found(p)
    BY <1>4, <2>1, <2>2, <2>3, <2>5 DEF Found
  <2>7. j.op # "login" => ~Missing(p)
    BY <2>1, <2>3 DEF Missing
  <2>8. QED  BY <1>1, <1>2, <1>7, <2>2, <2>3, <2>4, <2>6, <2>7 DEF LookMap, ReadRow, Reread, At
<1>8. CASE Canonical(p)
  BY <1>3, <1>4, <1>8 DEF Canonical
<1>9. CASE Create(p) \/ Login(p) \/ Enter(p) \/ SubmitGuard(p)
  BY <1>2, <1>3, <1>9 DEF Create, Login, Enter, SubmitGuard, Welcome, At, Making
<1>10. QED
  BY <1>2, <1>3, <1>4, <1>5, <1>6, <1>7, <1>8, <1>9 DEF Handle, Install, ReadOwner, Hop, Answer,
     ClearRow, Forget, Pair, Replace, Revoke, DropEntry, DropRow, AddAlias, Welcome, Making

(* A handler that overlaps no login and misses no row keeps accounts apart. *)
LEMMA HandleApart ==
    ASSUME IInv, Calm, One, \A q \in Procs : Free(job[q]), NEW p \in Procs, Handle(p), ~hidden'
    PROVE  One' /\ \A q \in Procs : Free(job[q])'
<1> DEFINE j == job[p]
<1>1. phase = "up" /\ phase' = phase
  BY DEF Handle, Request, LookMap, ReadRow, Install, Reread, ReadOwner, Answer, ClearRow, Forget, Pair,
     Replace, Revoke, AppLogin, Canonical, DropEntry, DropRow, AddAlias, Create, Login, Enter,
     SubmitGuard, At, sameRest
<1>2. Apart(Devices) /\ Free(j)
  BY <1>1 DEF One
<1>3. Apart(Devices)'
  <2>1. SUFFICES ASSUME NEW c \in Devices, NEW d \in Devices, NEW a \in Accounts, c # d,
                        Has(c, a)', Has(d, a)'
                 PROVE  FALSE
    BY DEF Apart
  <2>2. Has(c, a) \/ (c = j.tok /\ a = j.acct /\ j.at \in {"login", "guard"})
    BY <2>1, HandleHas
  <2>3. Has(d, a) \/ (d = j.tok /\ a = j.acct /\ j.at \in {"login", "guard"})
    BY <2>1, HandleHas
  <2>4. QED  BY <1>2, <2>1, <2>2, <2>3 DEF Apart, Free, Making
<1>4. ASSUME NEW q \in Procs \ {p} PROVE Free(job[q])'
  <2>1. job'[q] = job[q]
    BY HandleMoves DEF Moves
  <2>2. SUFFICES ASSUME job[q].at \in Making, NEW e \in Devices \ {job[q].tok}, Has(e, job[q].acct)'
                 PROVE  FALSE
    BY <2>1 DEF Free, Has
  <2>3. job[q].op = "login" /\ job[q].acct \in Accounts /\ job[q].at # "idle"
    BY <2>2, Brings DEF Making, LoggingIn
  <2>4. j.at \in {"login", "guard"} => j.op = "login" /\ j.at # "idle"
    BY Brings DEF LoggingIn
  <2>5. j.at \notin {"login", "guard"}
    BY <2>3, <2>4 DEF Calm, Alone, Changing
  <2>6. Has(e, job[q].acct)
    <3>1. \A a \in Accounts : a = job[q].acct => Has(e, a)'
      BY <2>1, <2>2 DEF Has
    <3>2. QED  BY <2>3, <2>5, <3>1, HandleHas
  <2>7. QED  BY <2>2, <2>6 DEF Free
<1>5. Free(job[p])'
  <2>1. SUFFICES ASSUME job'[p].at \in Making, NEW e \in Devices \ {job'[p].tok}, Has(e, job[p].acct)'
                 PROVE  FALSE
    BY DEF Free, Has
  <2>2. job'[p].tok = j.tok /\ job'[p].acct = j.acct
    BY <2>1, HandleMakes
  <2>3. j.acct \in Accounts /\ j.at \in Making \cup {"canon"}
    <3>1. j.at \in Making \cup {"canon"}
      BY <2>1, HandleMakes DEF Canonical, At
    <3>2. QED  BY <3>1, Brings DEF Making, LoggingIn
  <2>4. Has(e, j.acct)
    <3>1. \A a \in Accounts : a = j.acct => Has(e, a)'
      BY <2>1, <2>2 DEF Has
    <3>2. QED  BY <2>1, <2>2, <2>3, <3>1, HandleHas
  <2>5. j.at \notin Making
    BY <1>2, <2>1, <2>2, <2>4 DEF Free
  <2>6. Canonical(p) /\ CanonicalForUser(j.acct) = {}
    BY <2>1, <2>5, HandleMakes
  <2>7. mem[e] # Session(j.acct) /\ rows[e] # j.acct
    BY <2>1, <2>2, <2>6 DEF Canonical, OnlyRow, CanonicalForUser, Serving
  <2>8. QED  BY <2>4, <2>7, Brings, SessionIs DEF Has
<1>6. QED  BY <1>1, <1>3, <1>4, <1>5 DEF One

(* The process serves requests once the devices of the API token's account  *)
(* have become its aliases.                                                 *)
LEMMA ServeApart == IInv /\ Calm /\ One /\ Serve /\ ~hidden' => One'
<1> SUFFICES ASSUME IInv, Calm, One, Serve, ~hidden' PROVE One'
  OBVIOUS
<1>1. /\ mem \in [Devices -> [acct : Known, auth : BOOLEAN]] /\ rows \in [Devices -> Known]
      /\ Own /\ Asked /\ None \notin Accounts /\ EnvAccount \in Accounts
  BY TypeParts, AliasAssumption DEF IInv, Calm, SessionTypes
<1>2. phase = "boot" /\ phase' = "up" /\ UNCHANGED <<mem, rows>> /\ Duplicates = {}
  BY DEF Serve
<1>3. ASSUME NEW d \in Devices \ {Api}, NEW a \in Accounts, Has(d, a), Api \in Devices, Has(Api, a)
      PROVE  FALSE
  <2>1. mem[Api].auth => mem[Api] # NoEntry
    BY DEF NoEntry
  <2>2. a = EnvAccount
    BY <1>1, <1>3, <2>1 DEF Own, Asked, Has
  <2>3. mem[Api] = Session(a)
    <3>1. rows[Api] = a => mem[Api] = Session(a)
      BY <1>3, <2>2 DEF Serve, OnlyRow
    <3>2. QED  BY <1>1, <1>3, <3>1, SessionIs DEF Has
  <2>4. rows[d] = a
    BY <1>2, <1>3 DEF One, Has
  <2>5. QED  BY <1>1, <1>2, <1>3, <2>3, <2>4 DEF Duplicates, Stored
<1>4. Apart(Devices \ {Api})
  BY <1>2 DEF One
<1>5. Apart(Devices)
  BY <1>3, <1>4 DEF Apart
<1>6. QED  BY <1>2, <1>5 DEF One, Apart, Has

(* A start restores rows only, of which no two devices have one account.    *)
LEMMA CrashApart == IInv /\ One /\ Crash => One'
<1> SUFFICES ASSUME IInv, One, Crash PROVE One'
  OBVIOUS
<1>1. rows \in [Devices -> Known] /\ None \notin Accounts /\ phase \in {"boot", "up"}
  BY TypeParts, AliasAssumption DEF IInv, SessionTypes
<1>2. phase' = "boot"
  BY DEF Crash
<1>3. ASSUME NEW d \in Devices \ {Api}
      PROVE  rows'[d] = rows[d] /\ (mem'[d].auth => rows[d] = mem'[d].acct)
  <2>1. PICK back \in SUBSET Stored :
           LET restored == [e \in Devices |-> IF e \in back THEN Session(rows[e]) ELSE NoEntry] IN
           \/ mem' = restored /\ UNCHANGED rows
           \/ /\ Api \in Devices \ back
              /\ mem' = [restored EXCEPT ![Api] = Session(EnvAccount)]
              /\ rows' = [rows EXCEPT ![Api] = EnvAccount]
    BY DEF Crash
  <2>2. ~NoEntry.auth /\ \A a : Session(a).acct = a
    BY DEF NoEntry, Session
  <2>3. QED  BY <1>1, <2>1, <2>2
<1>4. \A d \in Devices \ {Api}, a \in Accounts : Has(d, a)' => Has(d, a)
  BY <1>3 DEF Has
<1>5. Apart(Devices \ {Api})
  BY <1>1 DEF One, Apart
<1>6. Apart(Devices \ {Api})'
  BY <1>4, <1>5 DEF Apart
<1>7. QED  BY <1>2, <1>3, <1>6 DEF One

LEMMA InitSingle == Init => Single
<1> SUFFICES ASSUME Init PROVE One /\ \A p \in Procs : Free(job[p])
  BY DEF Single
<1>1. \A d \in Devices \ {Api}, a \in Accounts : ~Has(d, a)
  BY AliasAssumption DEF Init, Has, NoEntry
<1>2. QED  BY <1>1 DEF Init, One, Apart, Free, Making, Idle

LEMMA NextSingle == IInv /\ Kept /\ Single /\ [Next]_vars => Single'
<1> SUFFICES ASSUME IInv, Kept, Single, [Next]_vars, ~raced', ~hidden'
             PROVE  One' /\ \A p \in Procs : Free(job[p])'
  BY DEF Single
<1>1. raced => raced'
  BY DEF Next, Race, PollTake, PollSave, Collapse, Crash, Serve, vars, ghosts
<1>2. hidden => hidden'
  BY DEF Next, Handle, Request, LookMap, ReadRow, Install, Reread, ReadOwner, Answer, ClearRow, Forget,
     Pair, Replace, Revoke, AppLogin, Canonical, DropEntry, DropRow, AddAlias, Create, Login, Enter,
     SubmitGuard, PollTake, PollSave, Collapse, Crash, Serve, vars, ghosts
<1>3. Calm /\ One /\ \A p \in Procs : Free(job[p])
  BY <1>1, <1>2 DEF Kept, Single
<1>4. ASSUME NEW p \in Procs, Handle(p)
      PROVE  One' /\ \A q \in Procs : Free(job[q])'
  BY <1>3, <1>4, HandleApart
<1>5. CASE UNCHANGED <<mem, rows, job, phase>>
  BY <1>3, <1>5 DEF One, Apart, Has, Free
<1>6. CASE \E d \in Devices : PollTake(d)
  BY <1>5, <1>6 DEF PollTake
<1>7. CASE \E d \in Devices : Collapse(d)
  <2>1. PICK d \in Devices : Collapse(d)
    BY <1>7
  <2>2. /\ phase = "boot" /\ UNCHANGED <<phase, job>> /\ \A p \in Procs : job'[p].at = "idle"
    BY <1>3, <2>1 DEF Collapse, Calm, Booting
  <2>3. \A e \in Devices : (mem'[e] = mem[e] /\ rows'[e] = rows[e]) \/ (~mem'[e].auth /\ rows'[e] = None)
    <3>1. /\ mem' = [mem EXCEPT ![d] = NoEntry] /\ rows' = [rows EXCEPT ![d] = None]
          /\ mem \in [Devices -> [acct : Known, auth : BOOLEAN]] /\ rows \in [Devices -> Known]
      BY <2>1, TypeParts DEF Collapse, IInv, SessionTypes
    <3>2. ~NoEntry.auth
      BY DEF NoEntry
    <3>3. QED  BY <3>1, <3>2
  <2>4. \A e \in Devices, a \in Accounts : Has(e, a)' => Has(e, a)
    BY <2>3, AliasAssumption DEF Has
  <2>5. QED  BY <1>3, <2>2, <2>3, <2>4 DEF One, Apart, Free, Making
<1>8. CASE PollSave
  <2>1. rows' = rows
    BY <1>8 DEF PollSave, IInv, TypeOK
  <2>2. QED  BY <1>5, <1>8, <2>1 DEF PollSave
<1>9. CASE Crash
  <2>1. \A p \in Procs : job'[p].at = "idle"
    BY <1>9 DEF Crash, Idle
  <2>2. QED  BY <1>3, <1>9, <2>1, CrashApart DEF Free, Making
<1>10. CASE Serve
  <2>1. UNCHANGED <<mem, rows, job>>
    BY <1>10 DEF Serve
  <2>2. QED  BY <1>3, <1>10, <2>1, ServeApart DEF Free, Has
<1>11. CASE UNCHANGED vars
  BY <1>5, <1>11 DEF vars
<1>12. QED  BY <1>4, <1>6, <1>7, <1>8, <1>9, <1>10, <1>11 DEF Next

(* "One MV session per account" (auth.go:224-232, session.go:328-337): two  *)
(* sessions of an account in memory mean that a login was overlapped, or    *)
(* that a login or a start missed a session that was a row only.            *)
THEOREM OneSessionEach == Spec => []OneSession
<1>1. IInv /\ Single => OneSession
  <2>1. SUFFICES ASSUME IInv, phase = "up", One, NEW c \in Devices, NEW d \in Devices, c # d,
                        mem[c].auth, mem[d] = mem[c]
                 PROVE  FALSE
    BY DEF Single, OneSession
  <2>2. mem[c].acct \in Accounts
    BY <2>1 DEF IInv, Real, NoEntry
  <2>3. QED  BY <2>1, <2>2 DEF One, Apart, Has
<1>2. Spec => []Single
  BY InitSingle, NextSingle, Inductive, KeptHolds, PTL DEF Spec
<1>3. QED  BY <1>1, <1>2, Inductive, PTL

=============================================================================
