-------------------------- MODULE SessionStoreProofs --------------------------
(***************************************************************************)
(* What SessionStore promises, for every number of accounts, requests and  *)
(* cookies: its types whatever happens, whole rows while the forum asks    *)
(* for no guard code, and that a user who stays logged in is not thrown    *)
(* out, through failing reads, guard codes and crashes.                    *)
(***************************************************************************)
EXTENDS SessionStore, FiniteSetTheorems, TLAPS

------------------------------------------------------------------------------
(* A goroutine's step.                                                      *)
Step(p) ==
    \/ Lookup(p) \/ ReadRow(p) \/ InstallRestored(p) \/ Reread(p) \/ Refuse(p)
    \/ UseOk(p) \/ UseFails(p) \/ UseExpired(p) \/ SaveFirst(p)
    \/ LoginOk(p) \/ KeepsCookies(p) \/ LoginFails(p) \/ LoginGuarded(p)
    \/ Submit(p) \/ SubmitFails(p)
    \/ SaveUnchanged(p) \/ SaveChanged(p) \/ PutSession(p)
    \/ Load(p) \/ InstallLogin(p)
    \/ DeleteRow(p) \/ ClearScraper(p) \/ SetNil(p)

Record  == [acct : People, jar : Jars, aged : BOOLEAN]
Scraper == [acct : People, jar : Jars, fp : {{}} \cup {{j} : j \in Jars},
            status : {"none", "auth", "guard"}]
Thens   == {"done", "use", "retry", "install"}
Opers   == RequestOps \cup {"none", "guard", "poll", "keep"}

(* Where a goroutine holds a scraper.                                       *)
Holding == {"install", "use", "retry", "validate", "login", "submit", "save", "put",
            "delete", "clear"}

StoreTypes ==
    /\ up \in BOOLEAN /\ mem \in {"absent", "nil", "obj"}
    /\ cur \in Refs \cup {0} /\ (mem = "obj" <=> cur # 0)
    /\ row \in Record /\ heap \in [Refs -> Scraper]

TaskTypes ==
    /\ pc \in [Procs -> Pcs] /\ ob \in [Procs -> Refs \cup {0}]
    /\ op \in [Procs -> Opers] /\ then \in [Procs -> Thens]
    /\ want \in [Procs -> People] /\ page \in [Procs -> People]

GhostTypes == intent \in People \cup {Unsettled} /\ clean \subseteq Requests

Held == \A p \in Procs : ob[p] # 0 <=> pc[p] \in Holding

(* Whoever logs in does so as somebody.                                     *)
Somebody ==
    \A p \in Procs :
        /\ op[p] = "login" => want[p] \in Accounts
        /\ op[p] = "guard" => want[p] \in Accounts /\ page[p] \in Accounts
        /\ pc[p] = "load" => op[p] = "login"
        /\ pc[p] = "submit" => op[p] = "guard"

Credentials ==
    /\ Usable(row) => row.acct \in Accounts
    /\ \A p \in Procs : Usable(got[p]) => got[p].acct \in Accounts
    /\ \A o \in Refs : Live(o) => heap[o].acct \in Accounts

TypeInv ==
    /\ StoreTypes /\ TaskTypes /\ got \in [Procs -> Record] /\ GhostTypes
    /\ Held /\ Somebody /\ Credentials

LEMMA FiniteProcs == IsFiniteSet(Procs) /\ Cardinality(Procs) \in Nat
<1>1. IsFiniteSet((Requests \cup {Poll}) \cup {Keep})
  BY StoreAssumption, FS_AddElement
<1>2. (Requests \cup {Poll}) \cup {Keep} = Procs
  BY DEF Procs
<1>3. QED  BY <1>1, <1>2, FS_CardinalityType

LEMMA NoZero == 0 \notin Refs
BY DEF Refs

(* A scraper is free for a goroutine that holds none.                       *)
LEMMA FreshFree ==
    ASSUME TypeInv, NEW p \in Procs, ob[p] = 0
    PROVE  Fresh \in Refs /\ ~Live(Fresh)
<1> DEFINE N == Cardinality(Procs)
           f == [o \in Refs |-> IF o = cur THEN p ELSE CHOOSE q \in Procs : ob[q] = o]
<1>1. IsFiniteSet(Procs) /\ N \in Nat
  BY FiniteProcs
<1>2. IsFiniteSet(Refs) /\ Cardinality(Refs) = N + 1
  BY <1>1, FS_Interval DEF Refs
<1>3. SUFFICES ASSUME \A o \in Refs : Live(o) PROVE FALSE
  BY DEF Fresh
<1>4. \A o \in Refs : o # cur => f[o] \in Procs /\ ob[f[o]] = o
  BY <1>3 DEF Live
<1>5. f \in [Refs -> Procs]
  BY <1>4
<1>6. PICK x, y \in Refs : x # y /\ f[x] = f[y]
  <2>1. Cardinality(Procs) < Cardinality(Refs)
    BY <1>1, <1>2
  <2> HIDE DEF f
  <2>2. QED  BY <1>1, <1>2, <1>5, <2>1, FS_PigeonHole
<1>7. 0 \notin Refs
  BY NoZero
<1>8. \A o \in Refs : f[o] = p => o = cur
  BY <1>4, <1>7
<1>9. QED  BY <1>4, <1>6, <1>8

LEMMA Blanks == Blank \in Scraper /\ NoRow \in Record /\ NoCookie \in Jars
BY DEF Blank, NoRow, NoCookie, Scraper, Record, Jars, People

LEMMA TaskStep ==
    ASSUME TypeInv, NEW p \in Procs, Step(p)
    PROVE  TaskTypes' /\ Held' /\ Somebody'
<1>0. /\ TaskTypes /\ Held /\ Somebody /\ StoreTypes /\ (ob[p] = 0 => Fresh \in Refs) /\ 0 \notin Refs
      /\ \A o \in Refs : Live(o) => heap[o].acct \in Accounts
  BY FreshFree, NoZero DEF TypeInv, Credentials
<1> USE DEF At, Go, GoTo, Hold, Continue, sameStore, sameTask, wish, Finish, TaskTypes, Held, Somebody, Pcs, Opers, Thens, RequestOps, Holding, People
<1>1. CASE Lookup(p)
  BY <1>0, <1>1 DEF Lookup, Found, StoreTypes
<1>2. CASE ReadRow(p)
  BY <1>0, <1>2 DEF ReadRow, Missing, Unavailable
<1>3. CASE InstallRestored(p)
  BY <1>0, <1>3 DEF InstallRestored
<1>4. CASE Reread(p)
  BY <1>0, <1>4 DEF Reread, Found, Missing, StoreTypes
<1>5. CASE Refuse(p)
  BY <1>0, <1>5 DEF Refuse
<1>6. CASE UseOk(p)
  BY <1>0, <1>6 DEF UseOk
<1>7. CASE UseFails(p)
  BY <1>0, <1>7 DEF UseFails
<1>8. CASE UseExpired(p)
  BY <1>0, <1>8 DEF UseExpired
<1>9. CASE SaveFirst(p)
  BY <1>0, <1>9 DEF SaveFirst
<1>10. CASE LoginOk(p)
  BY <1>0, <1>10 DEF LoginOk
<1>11. CASE KeepsCookies(p)
  BY <1>0, <1>11 DEF KeepsCookies
<1>12. CASE LoginFails(p)
  BY <1>0, <1>12 DEF LoginFails, Missing
<1>13. CASE LoginGuarded(p)
  BY <1>0, <1>13 DEF LoginGuarded, Live
<1>14. CASE Submit(p)
  BY <1>0, <1>14 DEF Submit
<1>15. CASE SubmitFails(p)
  BY <1>0, <1>15 DEF SubmitFails
<1>16. CASE SaveUnchanged(p)
  BY <1>0, <1>16 DEF SaveUnchanged, Saved
<1>17. CASE SaveChanged(p)
  BY <1>0, <1>17 DEF SaveChanged
<1>18. CASE PutSession(p)
  BY <1>0, <1>18 DEF PutSession, Saved
<1>19. CASE Load(p)
  BY <1>0, <1>19 DEF Load
<1>20. CASE InstallLogin(p)
  BY <1>0, <1>20 DEF InstallLogin
<1>21. CASE DeleteRow(p)
  BY <1>0, <1>21 DEF DeleteRow
<1>22. CASE ClearScraper(p)
  BY <1>0, <1>22 DEF ClearScraper
<1>23. CASE SetNil(p)
  BY <1>0, <1>23 DEF SetNil
<1>24. QED
  BY <1>1, <1>2, <1>3, <1>4, <1>5, <1>6, <1>7, <1>8, <1>9, <1>10, <1>11, <1>12, <1>13, <1>14, <1>15, <1>16, <1>17, <1>18, <1>19, <1>20, <1>21, <1>22, <1>23 DEF Step

(* What p refers to and the map may come to refer to.                       *)
Refers(p) ==
    /\ \E x \in {0, cur, ob[p]} \cup (IF pc[p] \in {"row", "load"} THEN {Fresh} ELSE {}) :
          ob' = [ob EXCEPT ![p] = x]
    /\ cur' \in {cur, 0, ob[p]}

LEMMA StepRefers == ASSUME TypeInv, NEW p \in Procs, Step(p) PROVE Refers(p)
<1>0. ob = [ob EXCEPT ![p] = ob[p]] /\ ob \in [Procs -> Refs \cup {0}]
  BY DEF TypeInv, TaskTypes
<1> USE DEF At, Go, Hold, sameStore, sameTask, Finish, Missing, Refers
<1>1. CASE Lookup(p) \/ Reread(p)
  BY <1>0, <1>1 DEF Lookup, Reread, Found
<1>2. CASE ReadRow(p) \/ Load(p)
  BY <1>0, <1>2 DEF ReadRow, Load, Unavailable
<1>3. CASE InstallRestored(p) \/ LoginGuarded(p) \/ InstallLogin(p)
  BY <1>0, <1>3 DEF InstallRestored, LoginGuarded, InstallLogin
<1>4. CASE Refuse(p) \/ UseOk(p) \/ UseFails(p) \/ UseExpired(p) \/ SaveFirst(p)
  BY <1>0, <1>4 DEF Refuse, UseOk, UseFails, UseExpired, SaveFirst
<1>5. CASE LoginOk(p) \/ KeepsCookies(p) \/ LoginFails(p) \/ Submit(p) \/ SubmitFails(p)
  BY <1>0, <1>5 DEF LoginOk, KeepsCookies, LoginFails, Submit, SubmitFails
<1>6. CASE SaveUnchanged(p) \/ SaveChanged(p) \/ PutSession(p)
  BY <1>0, <1>6 DEF SaveUnchanged, SaveChanged, PutSession, Saved
<1>7. CASE DeleteRow(p) \/ ClearScraper(p) \/ SetNil(p)
  BY <1>0, <1>7 DEF DeleteRow, ClearScraper, SetNil
<1>8. QED  BY <1>1, <1>2, <1>3, <1>4, <1>5, <1>6, <1>7 DEF Step

(* Scrapers that somebody refers to after a step were so before, but for    *)
(* the one that the step makes.                                             *)
LEMMA NewlyLive ==
    ASSUME TypeInv, NEW p \in Procs, Step(p)
    PROVE  \A o \in Refs : Live(o)' => Live(o) \/ (o = Fresh /\ pc[p] \in {"row", "load"})
<1>1. Refers(p) /\ ob \in [Procs -> Refs \cup {0}] /\ 0 \notin Refs
  BY StepRefers, NoZero DEF TypeInv, TaskTypes
<1>2. QED  BY <1>1 DEF Refers, Live

(* The heap after a step is h, where somebody refers to it.                 *)
LEMMA Collects ==
    ASSUME NEW h \in [Refs -> Scraper], Heap(h)
    PROVE  /\ heap' \in [Refs -> Scraper]
           /\ \A o \in Refs : Live(o)' => heap'[o] = h[o]
           /\ \A o \in Refs : ~Live(o)' => heap'[o] = Blank
BY Blanks DEF Heap

Stocked(h) == h \in [Refs -> Scraper] /\ \A o \in Refs : Live(o)' => h[o].acct \in Accounts

LEMMA HeapStep ==
    ASSUME TypeInv, NEW p \in Procs, Step(p)
    PROVE  \E h : Heap(h) /\ Stocked(h)
<1>1. /\ StoreTypes /\ TaskTypes /\ Held /\ Somebody /\ Credentials /\ got \in [Procs -> Record]
      /\ ob[p] = 0 => Fresh \in Refs
      /\ \A o \in Refs : Live(o)' => Live(o) \/ (o = Fresh /\ pc[p] \in {"row", "load"})
  BY FreshFree, NewlyLive DEF TypeInv
<1>2. heap \in [Refs -> Scraper] /\ row \in Record
  BY <1>1 DEF StoreTypes
<1>3. pc[p] \in Holding => ob[p] \in Refs /\ heap[ob[p]] \in Scraper /\ heap[ob[p]].acct \in Accounts
  BY <1>1, <1>2 DEF Held, TaskTypes, Credentials, Live
<1>4. pc[p] \notin {"row", "load"} => Stocked(heap)
  BY <1>1, <1>2 DEF Stocked, Credentials
<1>5. CASE Lookup(p) \/ Reread(p) \/ InstallRestored(p) \/ InstallLogin(p) \/ Refuse(p)
  BY <1>4, <1>5 DEF Lookup, Reread, InstallRestored, InstallLogin, Refuse, SameHeap, At, Go
<1>6. CASE UseOk(p) \/ UseFails(p) \/ UseExpired(p) \/ SaveFirst(p)
  BY <1>4, <1>6 DEF UseOk, UseFails, UseExpired, SaveFirst, SameHeap, At, Go
<1>7. CASE KeepsCookies(p) \/ LoginFails(p) \/ SubmitFails(p)
  BY <1>4, <1>7 DEF KeepsCookies, LoginFails, SubmitFails, SameHeap, At, Go
<1>8. CASE SaveUnchanged(p) \/ SaveChanged(p) \/ DeleteRow(p) \/ SetNil(p)
  BY <1>4, <1>8 DEF SaveUnchanged, SaveChanged, DeleteRow, SetNil, SameHeap, At, Go
<1>9. ASSUME NEW s \in Scraper, s.acct \in Accounts, NEW o \in Refs,
             o = Fresh \/ pc[p] \notin {"row", "load"}
      PROVE  Stocked([heap EXCEPT ![o] = s])
  BY <1>1, <1>2, <1>9 DEF Stocked, Credentials
<1>10. Usable(row) => Loaded(row) \in Scraper /\ Loaded(row).acct \in Accounts
  BY <1>1, <1>2 DEF Loaded, Scraper, Record, Credentials
<1>11. \A a \in Accounts : LoggedOut(a) \in Scraper /\ LoggedOut(a).acct \in Accounts
  BY Blanks DEF LoggedOut, Scraper, Blank, People
<1>12. CASE ReadRow(p)
  <2>1. pc[p] = "row" /\ ob[p] = 0
    BY <1>1, <1>12 DEF ReadRow, At, Held, Holding
  <2>2. CASE SameHeap /\ ob' \in {ob, [ob EXCEPT ![p] = 0]} /\ cur' = cur
    <3>1. \A o \in Refs : Live(o)' => Live(o)
      BY <1>1, <2>2, NoZero DEF Live, TaskTypes
    <3>2. QED  BY <1>1, <1>2, <2>2, <3>1 DEF SameHeap, Stocked, Credentials
  <2>3. CASE Usable(row) /\ row.aged /\ Heap([heap EXCEPT ![Fresh] = LoggedOut(row.acct)])
    BY <1>1, <1>9, <1>11, <2>1, <2>3 DEF Credentials
  <2>4. CASE Usable(row) /\ Heap([heap EXCEPT ![Fresh] = Loaded(row)])
    BY <1>1, <1>9, <1>10, <2>1, <2>4
  <2>5. QED
    BY <1>12, <2>2, <2>3, <2>4 DEF ReadRow, Missing, Unavailable, Finish, Hold, sameStore
<1>13. CASE Load(p)
  <2>1. pc[p] = "load" /\ ob[p] = 0 /\ want[p] \in Accounts
    BY <1>1, <1>13 DEF Load, At, Held, Holding, Somebody
  <2>2. CASE Usable(row) /\ Heap([heap EXCEPT ![Fresh] = LoggedOut(row.acct)])
    BY <1>1, <1>9, <1>11, <2>1, <2>2 DEF Credentials
  <2>3. CASE Usable(row) /\ Heap([heap EXCEPT ![Fresh] = Loaded(row)])
    BY <1>1, <1>9, <1>10, <2>1, <2>3
  <2>4. CASE Heap([heap EXCEPT ![Fresh] = LoggedOut(want[p])])
    BY <1>1, <1>9, <1>11, <2>1, <2>4
  <2>5. QED
    BY <1>13, <2>2, <2>3, <2>4 DEF Load
<1>14. \A a \in Accounts : pc[p] \in Holding \ {"row", "load"} =>
          \A h \in Granted(ob[p], a) : Stocked(h)
  <2> SUFFICES ASSUME NEW a \in Accounts, pc[p] \in Holding \ {"row", "load"},
                      NEW j \in [acct : {a}, val : Cookies]
               PROVE  Stocked([heap EXCEPT ![ob[p]].status = "auth", ![ob[p]].jar = j])
    BY DEF Granted
  <2> DEFINE s == [heap[ob[p]] EXCEPT !.status = "auth", !.jar = j]
  <2>1. j \in Jars
    BY DEF Jars
  <2>2. s \in Scraper /\ s.acct \in Accounts
    BY <1>3, <2>1 DEF Scraper
  <2>3. [heap EXCEPT ![ob[p]].status = "auth", ![ob[p]].jar = j] = [heap EXCEPT ![ob[p]] = s]
    BY <1>2, <1>3
  <2>4. QED  BY <1>3, <1>9, <2>2, <2>3
<1>15. CASE LoginOk(p) \/ Submit(p)
  BY <1>1, <1>3, <1>14, <1>15 DEF LoginOk, Submit, Go, At, Holding, Somebody
<1>16. CASE LoginGuarded(p)
  BY <1>2, <1>3, <1>9, <1>16 DEF LoginGuarded, Go, At, Holding, Scraper
<1>17. CASE PutSession(p)
  BY <1>1, <1>2, <1>3, <1>4, <1>9, <1>17 DEF PutSession, SameHeap, At, Holding, Scraper, Record
<1>18. CASE ClearScraper(p)
  BY <1>2, <1>3, <1>9, <1>18, Blanks DEF ClearScraper, Go, At, Holding, Scraper
<1>19. QED
  BY <1>5, <1>6, <1>7, <1>8, <1>12, <1>13, <1>15, <1>16, <1>17, <1>18 DEF Step

(* What p writes to the row, or will.                                       *)
Copied(o) == [acct |-> heap[o].acct, jar |-> heap[o].jar, aged |-> FALSE]

LEMMA RowStep ==
    ASSUME TypeInv, NEW p \in Procs, Step(p)
    PROVE  /\ \/ row' = row
              \/ pc[p] = "delete" /\ row' = NoRow
              \/ pc[p] = "put" /\ row' = got[p]
           /\ \/ got' = got \/ got' = [got EXCEPT ![p] = NoRow]
              \/ pc[p] = "save" /\ got' = [got EXCEPT ![p] = Copied(ob[p])]
           /\ got' \in [Procs -> Record]
           /\ \A q \in Procs : Usable(got[q])' => got'[q].acct \in Accounts
<1>1. /\ StoreTypes /\ TaskTypes /\ Held /\ Credentials /\ got \in [Procs -> Record]
      /\ heap \in [Refs -> Scraper]
  BY DEF TypeInv, StoreTypes
<1>2. pc[p] \in Holding => Copied(ob[p]) \in Record /\ Copied(ob[p]).acct \in Accounts
  BY <1>1 DEF Copied, Held, TaskTypes, Credentials, Live, Scraper, Record
<1>3. /\ \/ row' = row
         \/ pc[p] = "delete" /\ row' = NoRow
         \/ pc[p] = "put" /\ row' = got[p]
      /\ \/ got' = got \/ got' = [got EXCEPT ![p] = NoRow]
         \/ pc[p] = "save" /\ got' = [got EXCEPT ![p] = Copied(ob[p])]
  <2> USE DEF At, Go, sameStore, sameTask, Finish, Missing
  <2>1. CASE Lookup(p) \/ Reread(p) \/ ReadRow(p) \/ Load(p)
    BY <2>1 DEF Lookup, Reread, ReadRow, Load, Found, Unavailable
  <2>2. CASE InstallRestored(p) \/ InstallLogin(p) \/ Refuse(p) \/ UseOk(p) \/ UseFails(p)
    BY <2>2 DEF InstallRestored, InstallLogin, Refuse, UseOk, UseFails
  <2>3. CASE UseExpired(p) \/ SaveFirst(p) \/ LoginOk(p) \/ KeepsCookies(p) \/ LoginFails(p)
    BY <2>3 DEF UseExpired, SaveFirst, LoginOk, KeepsCookies, LoginFails
  <2>4. CASE LoginGuarded(p) \/ Submit(p) \/ SubmitFails(p) \/ SaveUnchanged(p) \/ PutSession(p)
    BY <2>4 DEF LoginGuarded, Submit, SubmitFails, SaveUnchanged, PutSession, Saved
  <2>5. CASE SaveChanged(p)
    BY <2>5 DEF SaveChanged, Copied
  <2>6. CASE DeleteRow(p) \/ ClearScraper(p) \/ SetNil(p)
    BY <2>6 DEF DeleteRow, ClearScraper, SetNil
  <2>7. QED  BY <2>1, <2>2, <2>3, <2>4, <2>5, <2>6 DEF Step
<1>4. ~Usable(NoRow)
  BY DEF Usable, NoRow
<1>5. QED  BY <1>1, <1>2, <1>3, <1>4, Blanks DEF Credentials, Usable, Holding

(* A step of a goroutine keeps the types.                                   *)
LEMMA StepTypes == ASSUME TypeInv, NEW p \in Procs, Step(p) PROVE TypeInv'
<1>1. TaskTypes' /\ Held' /\ Somebody' /\ got' \in [Procs -> Record]
  BY TaskStep, RowStep
<1>2. /\ StoreTypes /\ TaskTypes /\ Held /\ Somebody /\ GhostTypes /\ got \in [Procs -> Record]
  BY DEF TypeInv
<1>3. heap' \in [Refs -> Scraper] /\ \A o \in Refs : Live(o)' => heap'[o].acct \in Accounts
  BY HeapStep, Collects DEF Stocked
<1>4. row' \in Record /\ (Usable(row)' => row'.acct \in Accounts)
  <2>1. /\ row \in Record /\ got[p] \in Record /\ ~Usable(NoRow)
        /\ Usable(row) => row.acct \in Accounts
        /\ Usable(got[p]) => got[p].acct \in Accounts
    BY <1>2 DEF StoreTypes, TypeInv, Credentials, Usable, NoRow
  <2>2. CASE row' = row
    BY <2>1, <2>2 DEF Usable
  <2>3. CASE row' = NoRow
    BY <2>1, <2>3, Blanks DEF Usable
  <2>4. CASE row' = got[p]
    BY <2>1, <2>4 DEF Usable
  <2>5. QED  BY <2>2, <2>3, <2>4, RowStep
<1>5. Credentials'
  BY <1>3, <1>4, RowStep DEF Credentials, Live
<1>6. /\ up' \in BOOLEAN /\ mem' \in {"absent", "nil", "obj"}
      /\ cur' \in Refs \cup {0} /\ (mem' = "obj" <=> cur' # 0)
  <2> USE DEF At, Go, sameStore
  <2>0. (pc[p] \in Holding => ob[p] \in Refs /\ ob[p] # 0) /\ 0 \notin Refs
    BY <1>2, NoZero DEF Held, TaskTypes
  <2>1. CASE InstallRestored(p) \/ InstallLogin(p) \/ LoginGuarded(p) \/ SetNil(p)
    BY <1>2, <2>0, <2>1 DEF StoreTypes, InstallRestored, InstallLogin, LoginGuarded, SetNil, Holding
  <2>2. CASE UNCHANGED <<up, mem, cur>>
    BY <1>2, <2>2 DEF StoreTypes
  <2>3. QED
    BY <2>1, <2>2 DEF Step, Lookup, ReadRow, Reread, Refuse, UseOk, UseFails, UseExpired, SaveFirst,
       LoginOk, KeepsCookies, LoginFails, Submit, SubmitFails, SaveUnchanged, SaveChanged,
       PutSession, Load, DeleteRow, ClearScraper
<1>7. GhostTypes'
  <2>1. CASE UNCHANGED ghost
    BY <1>2, <2>1 DEF ghost, GhostTypes
  <2>2. CASE \E result \in {"ok", "gone", "503", "401", "502"} : Finish(p, result)
    BY <1>2, <2>2 DEF Finish, GhostTypes, TaskTypes, People
  <2> USE DEF Missing
  <2>3. CASE Lookup(p) \/ Reread(p) \/ ReadRow(p) \/ Load(p) \/ Refuse(p) \/ UseOk(p) \/ UseFails(p)
    BY <2>1, <2>2, <2>3 DEF Lookup, Reread, ReadRow, Load, Found, Unavailable, Refuse, UseOk, UseFails
  <2>4. CASE InstallRestored(p) \/ InstallLogin(p) \/ UseExpired(p) \/ SaveFirst(p) \/ LoginOk(p)
             \/ KeepsCookies(p) \/ LoginFails(p) \/ LoginGuarded(p)
    BY <2>1, <2>2, <2>4 DEF InstallRestored, InstallLogin, UseExpired, SaveFirst, LoginOk,
       KeepsCookies, LoginFails, LoginGuarded
  <2>5. CASE Submit(p) \/ SubmitFails(p) \/ SaveUnchanged(p) \/ SaveChanged(p) \/ PutSession(p)
             \/ DeleteRow(p) \/ ClearScraper(p) \/ SetNil(p)
    BY <2>1, <2>2, <2>5 DEF Submit, SubmitFails, SaveUnchanged, SaveChanged, PutSession, Saved,
       DeleteRow, ClearScraper, SetNil
  <2>6. QED  BY <2>3, <2>4, <2>5 DEF Step
<1>8. QED  BY <1>1, <1>3, <1>4, <1>5, <1>6, <1>7 DEF TypeInv, StoreTypes

(* The process and the outside keep the types.                              *)
LEMMA OtherTypes ==
    ASSUME TypeInv,
           \/ \E p \in Requests, o \in Ops, a \in Accounts : Arrive(p, o, a)
           \/ Tick \/ Sweep \/ Crash \/ NilEntry \/ Boot \/ Age
    PROVE  TypeInv'
<1>1. /\ StoreTypes /\ TaskTypes /\ Held /\ Somebody /\ Credentials /\ GhostTypes
      /\ got \in [Procs -> Record] /\ 0 \notin Refs
  BY NoZero DEF TypeInv
<1>2. ASSUME UNCHANGED <<mem, cur, row, ob, got>>, heap' = heap
      PROVE  Credentials' /\ got' \in [Procs -> Record]
             /\ (up' \in BOOLEAN => StoreTypes')
  BY <1>1, <1>2 DEF Credentials, Live, StoreTypes, Usable
<1>3. ASSUME NEW p \in Requests, NEW o \in Ops, NEW a \in Accounts, Arrive(p, o, a)
      PROVE  TypeInv'
  <2>1. o \in RequestOps /\ p \in Procs
    BY StoreAssumption DEF Procs
  <2>2. TaskTypes'
    BY <1>1, <1>3, <2>1 DEF Arrive, Go, At, GoTo, TaskTypes, Pcs, Opers, wish, People
  <2>3. Held' /\ Somebody'
    BY <1>1, <1>3, <2>1 DEF Arrive, Go, At, GoTo, TaskTypes, Held, Somebody, Holding, wish, RequestOps
  <2>4. GhostTypes'
    BY <1>1, <1>3 DEF Arrive, GhostTypes
  <2>5. Credentials' /\ got' \in [Procs -> Record] /\ StoreTypes'
    BY <1>1, <1>2, <1>3 DEF Arrive, sameStore, Go, At, StoreTypes
  <2>6. QED  BY <2>2, <2>3, <2>4, <2>5 DEF TypeInv
<1>4. CASE Tick
  <2>1. Poll \in Procs
    BY DEF Procs
  <2>2. TaskTypes'
    BY <1>1, <1>4, <2>1 DEF Tick, Go, At, GoTo, TaskTypes, Pcs, Opers, wish
  <2>3. Held' /\ Somebody'
    BY <1>1, <1>4, <2>1 DEF Tick, Go, At, GoTo, TaskTypes, Held, Somebody, Holding, wish
  <2>4. Credentials' /\ got' \in [Procs -> Record] /\ StoreTypes' /\ GhostTypes'
    BY <1>1, <1>2, <1>4 DEF Tick, sameStore, Go, At, StoreTypes, ghost, GhostTypes
  <2>5. QED  BY <2>2, <2>3, <2>4 DEF TypeInv
<1>5. CASE Sweep
  <2>1. Keep \in Procs /\ cur \in Refs /\ mem = "obj"
    BY <1>1, <1>5 DEF Procs, Sweep, Authed, StoreTypes
  <2>2. TaskTypes'
    BY <1>1, <1>5, <2>1 DEF Sweep, Go, At, GoTo, Hold, TaskTypes, Pcs, Opers, wish
  <2>3. Held' /\ Somebody'
    BY <1>1, <1>5, <2>1 DEF Sweep, Go, At, GoTo, Hold, TaskTypes, Held, Somebody, Holding, wish
  <2>4. Credentials'
    BY <1>1, <1>5, <2>1 DEF Sweep, Hold, sameStore, Credentials, Live, Usable, TaskTypes
  <2>5. got' \in [Procs -> Record] /\ StoreTypes' /\ GhostTypes'
    BY <1>1, <1>5 DEF Sweep, sameStore, Go, At, StoreTypes, ghost, GhostTypes
  <2>6. QED  BY <2>2, <2>3, <2>4, <2>5 DEF TypeInv
<1>6. CASE Crash \/ NilEntry
  <2>1. Down
    BY <1>6 DEF Crash, NilEntry
  <2>2. TaskTypes' /\ Held' /\ Somebody' /\ GhostTypes' /\ got' \in [Procs -> Record]
    BY <1>1, <2>1, Blanks DEF Down, TaskTypes, Held, Somebody, Holding, GhostTypes, Pcs, Opers, Thens, People
  <2>3. StoreTypes'
    BY <1>1, <2>1, Blanks DEF Down, StoreTypes
  <2>4. Credentials'
    BY <1>1, <2>1 DEF Down, Credentials, Live, Usable, NoRow
  <2>5. QED  BY <2>2, <2>3, <2>4 DEF TypeInv
<1>7. CASE Age
  <2>1. row' \in Record /\ row'.acct = row.acct /\ row'.jar = row.jar
    BY <1>1, <1>7 DEF Age, StoreTypes, Record
  <2>2. StoreTypes' /\ Credentials'
    BY <1>1, <1>7, <2>1 DEF Age, StoreTypes, Credentials, Live, Usable, procVars
  <2>3. QED
    BY <1>1, <1>7, <2>2 DEF Age, procVars, wish, ghost, TypeInv, TaskTypes, Held, Somebody, GhostTypes
<1>8. CASE Boot
  <2>1. UNCHANGED <<procVars, ghost>> /\ up' = TRUE
    BY <1>8 DEF Boot
  <2>2. TaskTypes' /\ Held' /\ Somebody' /\ GhostTypes' /\ got' \in [Procs -> Record]
    BY <1>1, <2>1 DEF procVars, wish, ghost, TaskTypes, Held, Somebody, GhostTypes
  <2>3. CASE UNCHANGED <<sameStore, heap>>
    BY <1>1, <1>2, <2>1, <2>2, <2>3 DEF sameStore, TypeInv, procVars
  <2>4. 1 \in Refs
    BY FiniteProcs DEF Refs
  <2>5. ASSUME NEW s \in Scraper, s.acct \in Accounts, Restored(s),
               row' \in Record, row'.acct \in Accounts
        PROVE  TypeInv'
    BY <1>1, <2>1, <2>2, <2>4, <2>5
       DEF Restored, TypeInv, StoreTypes, Credentials, Live, Usable, procVars
  <2>6. CASE Usable(row) /\ ~row.aged /\ Restored(Loaded(row)) /\ UNCHANGED row
    <3>1. Loaded(row) \in Scraper /\ Loaded(row).acct \in Accounts /\ row' \in Record
          /\ row'.acct \in Accounts
      BY <1>1, <2>6 DEF Loaded, StoreTypes, Credentials, Scraper, Record
    <3>2. QED  BY <2>5, <2>6, <3>1
  <2>7. ASSUME Usable(row), NEW c \in Cookies
        PROVE  LET new == [row EXCEPT !.aged = FALSE, !.jar.val = c] IN
               /\ new \in Record /\ new.acct \in Accounts
               /\ Loaded(new) \in Scraper /\ Loaded(new).acct \in Accounts
               /\ [Loaded(new) EXCEPT !.fp = {}] \in Scraper
               /\ [Loaded(new) EXCEPT !.fp = {}].acct \in Accounts
    <3> DEFINE new == [row EXCEPT !.aged = FALSE, !.jar.val = c]
    <3>1. row \in Record /\ row.acct \in Accounts /\ row.jar \in [acct : Accounts, val : Cookies]
      BY <1>1, <2>7 DEF StoreTypes, Credentials, Usable, Record, Jars
    <3>2. new.jar \in Jars /\ new.acct = row.acct
      BY <3>1 DEF Jars, Record
    <3>3. new \in Record
      BY <3>1, <3>2 DEF Record
    <3> HIDE DEF new
    <3>4. Loaded(new) \in Scraper /\ Loaded(new).acct \in Accounts
      BY <3>1, <3>2, <3>3 DEF Loaded, Scraper, Record
    <3>5. /\ [Loaded(new) EXCEPT !.fp = {}] \in Scraper
          /\ [Loaded(new) EXCEPT !.fp = {}].acct \in Accounts
      BY <3>4 DEF Scraper
    <3>6. QED  BY <3>1, <3>2, <3>3, <3>4, <3>5 DEF new
  <2>8. CASE /\ Usable(row) /\ row.aged
             /\ \E c \in Cookies :
                   LET new == [row EXCEPT !.aged = FALSE, !.jar.val = c]
                   IN  \/ row' = new /\ Restored(Loaded(new))
                       \/ /\ "write" \in Env /\ UNCHANGED row
                          /\ Restored([Loaded(new) EXCEPT !.fp = {}])
    <3>1. row \in Record /\ row.acct \in Accounts
      BY <1>1, <2>8 DEF StoreTypes, Credentials
    <3>2. QED  BY <2>5, <2>7, <2>8, <3>1
  <2>9. QED  BY <1>8, <2>3, <2>6, <2>8 DEF Boot
<1>9. QED
  BY <1>3, <1>4, <1>5, <1>6, <1>7, <1>8

LEMMA InitTypes == Init => TypeInv
<1> SUFFICES ASSUME Init PROVE TypeInv
  OBVIOUS
<1>1. 0 \notin Refs
  BY NoZero
<1>2. StoreTypes
  BY <1>1, Blanks DEF Init, StoreTypes
<1>3. TaskTypes /\ Held /\ Somebody /\ GhostTypes /\ got \in [Procs -> Record]
  BY <1>1, Blanks DEF Init, TaskTypes, Held, Holding, Somebody, GhostTypes, Pcs, Opers, Thens, People
<1>4. Credentials
  BY <1>1 DEF Init, Credentials, Live, Usable, NoRow
<1>5. QED  BY <1>2, <1>3, <1>4 DEF TypeInv

LEMMA NextTypes == TypeInv /\ [Next]_vars => TypeInv'
<1> SUFFICES ASSUME TypeInv, [Next]_vars PROVE TypeInv'
  OBVIOUS
<1>1. CASE \E p \in Procs : Step(p)
  BY <1>1, StepTypes
<1>2. CASE UNCHANGED vars
  BY <1>2 DEF vars, procVars, wish, ghost, TypeInv, StoreTypes, TaskTypes, Held, Somebody,
              GhostTypes, Credentials, Live, Usable
<1>3. QED  BY <1>1, <1>2, OtherTypes DEF Next, Step

LEMMA TypesHold == Spec => []TypeInv
<1>1. QED  BY InitTypes, NextTypes, PTL DEF Spec

(* Every variable keeps its type, whatever clients ask for and whatever     *)
(* goes wrong; in particular every scraper in use has an account.           *)
THEOREM TypeCorrect == Spec => []TypeOK
<1>1. TypeInv => TypeOK
  BY DEF TypeInv, StoreTypes, TaskTypes, GhostTypes, Record, Scraper, Thens, Opers, TypeOK
<1>2. QED  BY <1>1, TypesHold, PTL

------------------------------------------------------------------------------
(* Without guard codes, cookies go with the credentials they were issued to *)
(* in the row, in every scraper and on the way from one to the other.       *)
Whole(r) == r.jar.acct \in {r.acct, NoOne}

WholeInv ==
    /\ Whole(row) /\ \A o \in Refs : Whole(heap[o])
    /\ \A p \in Procs : op[p] # "guard" /\ Whole(got[p])

LEMMA StepWhole ==
    ASSUME "guard" \notin Env, TypeInv, WholeInv, NEW p \in Procs, Step(p)
    PROVE  WholeInv'
<1>1. /\ TaskTypes /\ Held /\ Somebody /\ got \in [Procs -> Record] /\ heap \in [Refs -> Scraper]
      /\ row \in Record /\ (ob[p] = 0 => Fresh \in Refs)
  BY FreshFree DEF TypeInv, StoreTypes
<1>2. Whole(Blank) /\ Whole(NoRow) /\ \A a : Whole(LoggedOut(a))
  BY DEF Whole, Blank, NoRow, NoCookie, LoggedOut
<1>3. pc[p] \in Holding => ob[p] \in Refs /\ heap[ob[p]] \in Scraper
  BY <1>1 DEF Held, TaskTypes
<1>4. op[p] # "guard" /\ pc[p] # "submit" /\ ~Submit(p) /\ ~LoginGuarded(p)
  BY DEF WholeInv, TypeInv, Somebody, Submit, LoginGuarded, Go, At
<1>5. \A q \in Procs : op'[q] # "guard"
  <2> USE <1>1, <1>4 DEF WholeInv, TaskTypes, At, Go, sameTask, Finish, Missing
  <2>1. CASE Lookup(p) \/ Reread(p) \/ ReadRow(p) \/ Load(p)
    BY <2>1 DEF Lookup, Reread, ReadRow, Load, Found, Unavailable
  <2>2. CASE InstallRestored(p) \/ InstallLogin(p) \/ Refuse(p) \/ UseOk(p) \/ UseFails(p)
    BY <2>2 DEF InstallRestored, InstallLogin, Refuse, UseOk, UseFails
  <2>3. CASE UseExpired(p) \/ SaveFirst(p) \/ LoginOk(p) \/ KeepsCookies(p) \/ LoginFails(p)
    BY <2>3 DEF UseExpired, SaveFirst, LoginOk, KeepsCookies, LoginFails
  <2>4. CASE SubmitFails(p) \/ SaveUnchanged(p) \/ SaveChanged(p) \/ PutSession(p)
    BY <2>4 DEF SubmitFails, SaveUnchanged, SaveChanged, PutSession, Saved
  <2>5. CASE DeleteRow(p) \/ ClearScraper(p) \/ SetNil(p)
    BY <2>5 DEF DeleteRow, ClearScraper, SetNil
  <2>6. QED  BY <2>1, <2>2, <2>3, <2>4, <2>5 DEF Step
<1>6. ASSUME NEW h \in [Refs -> Scraper], Heap(h), \A o \in Refs : Whole(h[o])
      PROVE  \A o \in Refs : Whole(heap[o])'
  BY <1>2, <1>6, Collects DEF Whole
<1>7. SameHeap => \A o \in Refs : Whole(heap[o])'
  BY <1>1, <1>6 DEF SameHeap, WholeInv
<1>8. \A o \in Refs : Whole(heap[o])'
  <2>1. ASSUME NEW o \in Refs, NEW s \in Scraper, Whole(s), Heap([heap EXCEPT ![o] = s])
        PROVE  \A x \in Refs : Whole(heap[x])'
    BY <1>1, <1>6, <2>1 DEF WholeInv
  <2>2. CASE ReadRow(p) \/ Load(p)
    <3>1. Usable(row) => Loaded(row) \in Scraper /\ Whole(Loaded(row))
      BY <1>1 DEF Loaded, Scraper, Record, Whole, WholeInv
    <3>2. \A a \in People : LoggedOut(a) \in Scraper
      BY Blanks DEF LoggedOut, Scraper, Blank
    <3>3. ob[p] = 0 /\ row.acct \in People /\ want[p] \in People
      BY <1>1, <2>2 DEF ReadRow, Load, At, Held, Holding, Record, TaskTypes
    <3>4. QED  BY <1>1, <1>2, <1>7, <2>1, <2>2, <3>1, <3>2, <3>3 DEF ReadRow, Load
  <2>3. CASE LoginOk(p)
    <3>1. PICK j \in [acct : {heap[ob[p]].acct}, val : Cookies] :
             Heap([heap EXCEPT ![ob[p]].status = "auth", ![ob[p]].jar = j])
      BY <2>3 DEF LoginOk, Granted
    <3> DEFINE s == [heap[ob[p]] EXCEPT !.status = "auth", !.jar = j]
    <3>2. ob[p] \in Refs /\ heap[ob[p]] \in Scraper /\ heap[ob[p]].acct \in Accounts
      BY <1>3, <2>3 DEF LoginOk, Go, At, Holding, TypeInv, Credentials, Live
    <3>3. s \in Scraper /\ Whole(s)
      BY <3>2 DEF Scraper, Jars, Whole
    <3>4. [heap EXCEPT ![ob[p]].status = "auth", ![ob[p]].jar = j] = [heap EXCEPT ![ob[p]] = s]
      BY <1>1, <3>2
    <3>5. QED  BY <2>1, <3>1, <3>2, <3>3, <3>4
  <2>4. CASE PutSession(p)
    BY <1>1, <1>3, <1>7, <2>1, <2>4 DEF PutSession, At, Holding, Scraper, Record, Whole, WholeInv
  <2>5. CASE ClearScraper(p)
    BY <1>3, <2>1, <2>5, Blanks DEF ClearScraper, Go, At, Holding, Scraper, Whole, NoCookie
  <2>6. QED
    BY <1>4, <1>7, <2>2, <2>3, <2>4, <2>5
       DEF Step, Lookup, InstallRestored, Reread, Refuse, UseOk, UseFails, UseExpired, SaveFirst,
           KeepsCookies, LoginFails, SubmitFails, SaveUnchanged, SaveChanged, InstallLogin,
           DeleteRow, SetNil
<1>9. Whole(row)' /\ \A q \in Procs : Whole(got[q])'
  <2>1. Whole(row)'
    BY <1>2, RowStep DEF Whole, WholeInv
  <2>2. pc[p] = "save" => Whole(Copied(ob[p]))
    BY <1>3 DEF Copied, Whole, WholeInv, Holding
  <2>3. \A q \in Procs : Whole(got'[q])
    BY <1>1, <1>2, <2>2, RowStep DEF WholeInv
  <2>4. QED  BY <2>1, <2>3 DEF Whole
<1>10. QED  BY <1>5, <1>8, <1>9 DEF WholeInv

LEMMA NextWhole ==
    ASSUME "guard" \notin Env, TypeInv, WholeInv, [Next]_vars
    PROVE  WholeInv'
<1>1. /\ op \in [Procs -> Opers] /\ row \in Record /\ "guard" \notin RequestOps
      /\ heap \in [Refs -> Scraper]
  BY DEF TypeInv, StoreTypes, TaskTypes, RequestOps
<1>2. Whole(Blank) /\ Whole(NoRow)
  BY DEF Whole, Blank, NoRow, NoCookie
<1>3. CASE \E p \in Requests, o \in Ops, a \in Accounts : Arrive(p, o, a)
  BY <1>1, <1>3, StoreAssumption DEF Arrive, sameStore, WholeInv, Whole
<1>4. CASE Tick
  BY <1>1, <1>4 DEF Tick, sameStore, WholeInv, Whole
<1>5. CASE Sweep
  BY <1>1, <1>5 DEF Sweep, sameStore, WholeInv, Whole
<1>6. CASE Crash \/ NilEntry
  BY <1>1, <1>2, <1>6 DEF Crash, NilEntry, Down, WholeInv, Whole
<1>7. CASE Age
  BY <1>1, <1>7 DEF Age, procVars, WholeInv, Whole, Record
<1>8. CASE Boot
  <2>1. /\ row'.jar.acct = row.jar.acct /\ row'.acct = row.acct
        /\ \/ heap' = heap
           \/ \E s : heap' = [heap EXCEPT ![1] = s] /\ s.jar.acct = row.jar.acct /\ s.acct = row.acct
    <3>1. \A c \in Cookies : LET new == [row EXCEPT !.aged = FALSE, !.jar.val = c] IN
             new.jar.acct = row.jar.acct /\ new.acct = row.acct
      <4>1. row.jar \in Jars
        BY <1>1 DEF Record
      <4>2. \A c : [row.jar EXCEPT !.val = c].acct = row.jar.acct
        BY <4>1 DEF Jars, NoCookie
      <4>3. QED  BY <1>1, <4>2 DEF Record
    <3>2. \A r : /\ Loaded(r).jar.acct = r.jar.acct /\ Loaded(r).acct = r.acct
                 /\ [Loaded(r) EXCEPT !.fp = {}].jar.acct = r.jar.acct
                 /\ [Loaded(r) EXCEPT !.fp = {}].acct = r.acct
      BY DEF Loaded
    <3>3. CASE UNCHANGED <<sameStore, heap>>
      BY <3>3 DEF sameStore
    <3>4. CASE Restored(Loaded(row)) /\ UNCHANGED row
      BY <3>2, <3>4 DEF Restored
    <3>5. ASSUME NEW c \in Cookies,
                 LET new == [row EXCEPT !.aged = FALSE, !.jar.val = c]
                 IN  \/ row' = new /\ Restored(Loaded(new))
                     \/ UNCHANGED row /\ Restored([Loaded(new) EXCEPT !.fp = {}])
          PROVE  /\ row'.jar.acct = row.jar.acct /\ row'.acct = row.acct
                 /\ \E s : heap' = [heap EXCEPT ![1] = s] /\ s.jar.acct = row.jar.acct /\ s.acct = row.acct
      <4> DEFINE new == [row EXCEPT !.aged = FALSE, !.jar.val = c]
      <4>1. new.jar.acct = row.jar.acct /\ new.acct = row.acct
        BY <3>1
      <4> HIDE DEF new
      <4> DEFINE plain == Loaded(new)
                 unsaved == [Loaded(new) EXCEPT !.fp = {}]
      <4>2. /\ plain.jar.acct = row.jar.acct /\ plain.acct = row.acct
            /\ unsaved.jar.acct = row.jar.acct /\ unsaved.acct = row.acct
        BY <3>2, <4>1
      <4> HIDE DEF plain, unsaved
      <4>3. CASE row' = new /\ Restored(plain)
        BY <4>2, <4>1, <4>3 DEF Restored
      <4>4. CASE UNCHANGED row /\ Restored(unsaved)
        BY <4>2, <4>1, <4>4 DEF Restored
      <4>5. QED  BY <3>5, <4>3, <4>4 DEF new, plain, unsaved
    <3>6. QED  BY <1>8, <3>3, <3>4, <3>5 DEF Boot
  <2>2. QED  BY <1>1, <1>8, <2>1 DEF Boot, procVars, WholeInv, Whole
<1>9. CASE UNCHANGED vars
  BY <1>9 DEF vars, procVars, WholeInv, Whole
<1>10. QED
  BY <1>3, <1>4, <1>5, <1>6, <1>7, <1>8, <1>9, StepWhole DEF Next, Step

(* While the forum asks for no guard code, no row and no scraper pairs one  *)
(* account's credentials with cookies issued to another                     *)
(* (session.go:169-176), through logouts, aging and failing writes.         *)
THEOREM RowsWhole == ASSUME "guard" \notin Env PROVE Spec => []WholeRows
<1>1. Init => WholeInv
  BY DEF Init, WholeInv, Whole, NoRow, Blank, NoCookie
<1>2. TypeInv /\ WholeInv /\ [Next]_vars => WholeInv'
  BY NextWhole
<1>3. WholeInv => WholeRows
  BY DEF WholeInv, Whole, WholeRows
<1>4. QED  BY <1>1, <1>2, <1>3, TypesHold, PTL DEF Spec

------------------------------------------------------------------------------
(* A user who stays logged in: nobody logs out, no cookies pass their date, *)
(* no write fails.  Guard codes, failing reads and crashes may come.        *)
Staying == "logout" \notin Ops /\ "age" \notin Env /\ "write" \notin Env

(* What goroutines are up to then.                                          *)
Tasks ==
    \A p \in Procs :
        /\ op[p] = "none" <=> pc[p] = "idle"
        /\ op[p] # "logout"
        /\ pc[p] \notin {"delete", "clear", "setnil"}
        /\ pc[p] \in {"lookup", "row", "reread"} => op[p] \in {"data", "poll", "guard"}
        /\ pc[p] = "install" => op[p] \in {"data", "poll", "guard", "login"}
        /\ pc[p] \in {"use", "retry"} => op[p] \in {"data", "poll"}
        /\ pc[p] = "validate" => op[p] = "keep"
        /\ then[p] \in {"use", "retry"} => op[p] \in {"data", "poll"}
        /\ then[p] = "install" => op[p] = "login"
        /\ pc[p] = "login" => op[p] # "guard"
        /\ op[p] = "login" /\ pc[p] \in {"login", "save", "put"} => then[p] = "install"

(* The map holds no nil, and an entry stays.                                *)
Entry ==
    /\ mem # "nil"
    /\ \A p \in Procs : pc[p] = "reread" => mem = "obj"

(* Cookies once saved stay in the row, and every scraper in use has some.   *)
Stored ==
    /\ ~row.aged /\ \A p \in Procs : ~got[p].aged
    /\ \A o \in Refs : heap[o].fp # {} => Usable(row)
    /\ mem = "obj" /\ heap[cur].status = "auth" => heap[cur].jar # NoCookie
    /\ \A p \in Procs :
          /\ pc[p] \in {"use", "retry", "validate", "save", "put", "install"} =>
                heap[ob[p]].jar # NoCookie
          /\ pc[p] = "put" => Usable(got[p])
          /\ pc[p] = "install" => heap[ob[p]].fp # {}

(* A login keeps its scraper to itself until the map has it.                *)
Exclusive ==
    \A p \in Procs :
        /\ op[p] = "login" /\ ob[p] # 0 =>
              ob[p] # cur /\ heap[ob[p]].status = "auth" /\ \A q \in Procs \ {p} : ob[q] # ob[p]
        /\ pc[p] = "install" => heap[ob[p]].status = "auth"

(* A request that nothing overlapped is one of a settled user, or the only  *)
(* login; a settled user is logging in nowhere.                             *)
LoginClean(p) ==
    /\ op[p] \in {"login", "guard"} /\ intent = Unsettled /\ clean = {p}
    /\ \A q \in Procs \ {p} : ~AuthOp(q)

Undisturbed ==
    /\ \A p \in clean : (op[p] = "data" /\ intent \in Accounts) \/ LoginClean(p)
    /\ intent \in Accounts => \A q \in Procs : ~AuthOp(q)

(* What a login was answered with lasts; a code that was submitted counts   *)
(* for the session that the map has by then.                                *)
Settled ==
    /\ intent \in Accounts => Usable(row) /\ (mem = "obj" => heap[cur].status = "auth")
    /\ \A p \in clean :
          /\ op[p] = "guard" /\ pc[p] = "submit" =>
                mem = "obj" /\ (cur = ob[p] \/ heap[cur].status = "auth")
          /\ op[p] = "guard" /\ pc[p] \in {"save", "put"} =>
                mem = "obj" /\ heap[cur].status = "auth"

Asleep == ~up => mem = "absent" /\ \A p \in Procs : pc[p] = "idle"

KeepInv ==
    /\ Asleep /\ Tasks /\ Entry /\ Stored /\ Exclusive
    /\ Undisturbed /\ Settled /\ NoSpuriousLogout

LEMMA KeepTasks ==
    ASSUME Staying, TypeInv, KeepInv, NEW p \in Procs, Step(p)
    PROVE  Tasks' /\ Entry'
<1>1. /\ StoreTypes /\ TaskTypes /\ Somebody /\ Tasks /\ Entry /\ Stored
      /\ ~DeleteRow(p) /\ ~ClearScraper(p) /\ ~SetNil(p)
  BY DEF TypeInv, KeepInv, Tasks, DeleteRow, ClearScraper, SetNil, Go, At
<1> USE <1>1 DEF At, Go, GoTo, Hold, Continue, sameStore, sameTask, Finish, Missing, Tasks, Entry, TaskTypes
<1>2. CASE Lookup(p) \/ Reread(p)
  BY <1>2 DEF Lookup, Reread, Found
<1>3. CASE ReadRow(p)
  BY <1>3 DEF ReadRow, Unavailable, Stored
<1>4. CASE Load(p)
  BY <1>4 DEF Load, Somebody
<1>5. CASE InstallRestored(p)
  BY <1>5 DEF InstallRestored
<1>6. CASE InstallLogin(p) \/ Refuse(p) \/ UseOk(p) \/ UseFails(p)
  BY <1>6 DEF InstallLogin, Refuse, UseOk, UseFails
<1>7. CASE UseExpired(p) \/ SaveFirst(p) \/ LoginOk(p) \/ KeepsCookies(p) \/ LoginFails(p)
  BY <1>7 DEF UseExpired, SaveFirst, LoginOk, KeepsCookies, LoginFails
<1>8. CASE LoginGuarded(p)
  BY <1>8 DEF LoginGuarded
<1>9. CASE Submit(p) \/ SubmitFails(p) \/ SaveChanged(p)
  BY <1>9 DEF Submit, SubmitFails, SaveChanged, Somebody
<1>10. CASE SaveUnchanged(p) \/ PutSession(p)
  BY <1>10 DEF SaveUnchanged, PutSession, Saved, Thens
<1>11. QED
  BY <1>2, <1>3, <1>4, <1>5, <1>6, <1>7, <1>8, <1>9, <1>10 DEF Step

(* What a step does to scrapers: p signs its own in, parks it for a guard   *)
(* code, marks it saved, makes one, or does nothing to any.                 *)
Signs(p) ==
    \A o \in Refs : o = ob[p] /\ Live(o)' =>
        heap'[o].jar # NoCookie /\ heap'[o].status = "auth" /\ heap'[o].fp = heap[o].fp
Parks(p) ==
    \A o \in Refs : o = ob[p] /\ Live(o)' => heap'[o] = [heap[o] EXCEPT !.status = "guard"]
Marks(p) ==
    \A o \in Refs : o = ob[p] /\ Live(o)' => heap'[o] = [heap[o] EXCEPT !.fp = {got[p].jar}]
Makes(p) ==
    \/ Usable(row) /\ ob'[p] = Fresh /\ heap'[Fresh] = Loaded(row)
    \/ op[p] = "login" /\ ob'[p] = Fresh /\ \E a \in Accounts : heap'[Fresh] = LoggedOut(a)

LEMMA HeapMoves ==
    ASSUME Staying, TypeInv, KeepInv, NEW p \in Procs, Step(p)
    PROVE  /\ \A o \in Refs : Live(o)' => \/ heap'[o] = heap[o] \/ o = ob[p]
                                          \/ o = Fresh /\ pc[p] \in {"row", "load"}
           /\ \A o \in Refs : ~Live(o)' => heap'[o] = Blank
           /\ LoginOk(p) \/ Submit(p) => Signs(p)
           /\ LoginGuarded(p) => Parks(p)
           /\ PutSession(p) => row' = got[p] /\ Marks(p)
           /\ Load(p) => Makes(p)
           /\ \/ (LoginOk(p) \/ Submit(p)) /\ Signs(p)
              \/ LoginGuarded(p) /\ Parks(p)
              \/ PutSession(p) /\ row' = got[p] /\ Marks(p)
              \/ (ReadRow(p) \/ Load(p)) /\ Makes(p)
              \/ \A o \in Refs : Live(o)' => heap'[o] = heap[o]
<1>1. /\ TaskTypes /\ Held /\ Somebody /\ heap \in [Refs -> Scraper] /\ 0 \notin Refs
      /\ ~DeleteRow(p) /\ ~ClearScraper(p) /\ ~SetNil(p) /\ ~row.aged
      /\ ob[p] = 0 => Fresh \in Refs
  BY FreshFree, NoZero DEF TypeInv, StoreTypes, KeepInv, Tasks, Stored, DeleteRow, ClearScraper, SetNil, Go, At
<1>2. /\ pc[p] \in Holding => ob[p] \in Refs /\ heap[ob[p]] \in Scraper
      /\ pc[p] \notin Holding => ob[p] = 0
  BY <1>1 DEF Held, TaskTypes
<1>3. \A o \in Refs : ~Live(o)' => heap'[o] = Blank
  BY HeapStep, Collects DEF Stocked
<1>4. SameHeap => \A o \in Refs : Live(o)' => heap'[o] = heap[o]
  BY <1>1, Collects DEF SameHeap
<1>5. ASSUME NEW o \in Refs, NEW s, Heap([heap EXCEPT ![o] = s])
      PROVE  \A x \in Refs : Live(x)' => heap'[x] = IF x = o THEN s ELSE heap[x]
  BY <1>1, <1>5 DEF Heap
<1>6. ASSUME ReadRow(p), ~SameHeap
      PROVE  Makes(p) /\ \A o \in Refs : Live(o)' => heap'[o] = heap[o] \/ o = Fresh
  <2>1. pc[p] = "row" /\ ob[p] = 0 /\ Fresh \in Refs
    BY <1>1, <1>2, <1>6 DEF ReadRow, At, Holding
  <2>2. Usable(row) /\ ob' = [ob EXCEPT ![p] = Fresh] /\ Heap([heap EXCEPT ![Fresh] = Loaded(row)])
    BY <1>1, <1>6 DEF ReadRow, Hold
  <2>3. ob'[p] = Fresh /\ \A o \in Refs : o = Fresh => Live(o)'
    BY <1>1, <2>2 DEF Live, TaskTypes
  <2>4. QED  BY <1>5, <2>1, <2>2, <2>3 DEF Makes
<1>7. ASSUME Load(p)
      PROVE  Makes(p) /\ \A o \in Refs : Live(o)' => heap'[o] = heap[o] \/ o = Fresh
  <2>1. pc[p] = "load" /\ ob[p] = 0 /\ Fresh \in Refs /\ op[p] = "login" /\ want[p] \in Accounts
    BY <1>1, <1>2, <1>7 DEF Load, At, Holding, Somebody
  <2>2. ob'[p] = Fresh /\ \A o \in Refs : o = Fresh => Live(o)'
    BY <1>1, <1>7, <2>1 DEF Load, Hold, Live, TaskTypes
  <2>3. CASE Usable(row) /\ Heap([heap EXCEPT ![Fresh] = Loaded(row)])
    BY <1>5, <2>1, <2>2, <2>3 DEF Makes
  <2>4. CASE Heap([heap EXCEPT ![Fresh] = LoggedOut(want[p])])
    BY <1>5, <2>1, <2>2, <2>4 DEF Makes
  <2>5. QED  BY <1>1, <1>7, <2>3, <2>4 DEF Load
<1>8. ASSUME LoginOk(p) \/ Submit(p)
      PROVE  Signs(p) /\ \A o \in Refs : Live(o)' => heap'[o] = heap[o] \/ o = ob[p]
  <2>1. PICK a, j : j \in [acct : {a}, val : Cookies] /\
           Heap([heap EXCEPT ![ob[p]].status = "auth", ![ob[p]].jar = j])
    BY <1>8 DEF LoginOk, Submit, Granted
  <2> DEFINE s == [heap[ob[p]] EXCEPT !.status = "auth", !.jar = j]
  <2>2. ob[p] \in Refs /\ heap[ob[p]] \in Scraper
    BY <1>2, <1>8 DEF LoginOk, Submit, Go, At, Holding
  <2>3. j # NoCookie
    BY <2>1, StoreAssumption DEF NoCookie
  <2>4. s.jar # NoCookie /\ s.status = "auth" /\ s.fp = heap[ob[p]].fp
    BY <2>2, <2>3 DEF Scraper
  <2>5. [heap EXCEPT ![ob[p]].status = "auth", ![ob[p]].jar = j] = [heap EXCEPT ![ob[p]] = s]
    BY <1>1, <2>2
  <2> HIDE DEF s
  <2>6. \A x \in Refs : Live(x)' => heap'[x] = IF x = ob[p] THEN s ELSE heap[x]
    BY <1>5, <2>1, <2>2, <2>5
  <2>7. QED  BY <2>2, <2>4, <2>6 DEF Signs
<1>9. ASSUME LoginGuarded(p)
      PROVE  Parks(p) /\ \A o \in Refs : Live(o)' => heap'[o] = heap[o] \/ o = ob[p]
  <2>1. ob[p] \in Refs
    BY <1>2, <1>9 DEF LoginGuarded, Go, At, Holding
  <2>2. [heap EXCEPT ![ob[p]].status = "guard"] = [heap EXCEPT ![ob[p]] = [heap[ob[p]] EXCEPT !.status = "guard"]]
    BY <1>1, <2>1
  <2>3. QED  BY <1>5, <1>9, <2>1, <2>2 DEF LoginGuarded, Parks
<1>10. ASSUME PutSession(p)
       PROVE  /\ row' = got[p] /\ Marks(p)
              /\ \A o \in Refs : Live(o)' => heap'[o] = heap[o] \/ o = ob[p]
  <2>1. ob[p] \in Refs
    BY <1>2, <1>10 DEF PutSession, At, Holding
  <2>2. [heap EXCEPT ![ob[p]].fp = {got[p].jar}] = [heap EXCEPT ![ob[p]] = [heap[ob[p]] EXCEPT !.fp = {got[p].jar}]]
    BY <1>1, <2>1
  <2>3. QED  BY <1>5, <1>10, <2>1, <2>2 DEF PutSession, Marks, Staying
<1>11. QED
  <2>1. ReadRow(p) => pc[p] = "row"
    BY DEF ReadRow, At
  <2>2. Load(p) => pc[p] = "load"
    BY DEF Load, At
  <2>3. QED
    BY <1>1, <1>3, <1>4, <1>6, <1>7, <1>8, <1>9, <1>10, <2>1, <2>2
     DEF Step, Lookup, InstallRestored, Reread, Refuse, UseOk, UseFails, UseExpired, SaveFirst,
         KeepsCookies, LoginFails, SubmitFails, SaveUnchanged, SaveChanged, InstallLogin

(* A step of p moves no other goroutine.                                    *)
LEMMA OthersWait ==
    ASSUME TypeInv, NEW p \in Procs, Step(p), NEW q \in Procs \ {p}
    PROVE  pc'[q] = pc[q] /\ ob'[q] = ob[q] /\ got'[q] = got[q] /\ op'[q] = op[q]
<1>1. TaskTypes /\ got \in [Procs -> Record]
  BY DEF TypeInv
<1>2. pc'[q] = pc[q] /\ op'[q] = op[q]
  BY <1>1 DEF Step, Lookup, ReadRow, InstallRestored, Reread, Refuse, UseOk, UseFails,
     UseExpired, SaveFirst, LoginOk, KeepsCookies, LoginFails, LoginGuarded, Submit, SubmitFails,
     SaveUnchanged, SaveChanged, PutSession, Load, InstallLogin, DeleteRow, ClearScraper, SetNil,
     Go, GoTo, Found, Missing, Unavailable, Finish, Saved, TaskTypes, sameTask
<1>3. ob'[q] = ob[q]
  BY <1>1, StepRefers DEF Refers, TaskTypes
<1>4. got'[q] = got[q]
  BY <1>1, RowStep
<1>5. QED  BY <1>2, <1>3, <1>4

(* Scrapers in use keep their cookies and that those were saved; only a     *)
(* guard page takes an authenticated one back.                              *)
LEMMA ScrapersKept ==
    ASSUME Staying, TypeInv, KeepInv, NEW p \in Procs, Step(p), NEW o \in Refs, Live(o), Live(o)'
    PROVE  /\ heap[o].jar # NoCookie => heap'[o].jar # NoCookie
           /\ heap[o].fp # {} => heap'[o].fp # {}
           /\ \/ heap[o].status = "auth" => heap'[o].status = "auth"
              \/ LoginGuarded(p) /\ o = ob[p]
<1>1. heap[o] \in Scraper /\ (ob[p] = 0 => o # Fresh) /\ Held
  BY FreshFree DEF TypeInv, StoreTypes
<1>2. pc[p] \in {"row", "load"} => ob[p] = 0
  BY <1>1 DEF Held, Holding
<1>3. heap'[o] = heap[o] \/ o = ob[p]
  BY <1>1, <1>2, HeapMoves
<1>4. CASE heap'[o] = heap[o]
  BY <1>4
<1>5. CASE o = ob[p] /\ heap'[o] # heap[o]
  <2>1. ~ReadRow(p) /\ ~Load(p)
    BY <1>5, <1>2, NoZero DEF ReadRow, Load, Go, At
  <2>2. CASE Signs(p)
    BY <1>5, <2>2 DEF Signs
  <2>3. CASE LoginGuarded(p) /\ Parks(p)
    BY <1>1, <1>5, <2>3 DEF Parks, Scraper
  <2>4. CASE Marks(p)
    <3>1. heap'[o] = [heap[o] EXCEPT !.fp = {got[p].jar}]
      BY <1>5, <2>4 DEF Marks
    <3>2. /\ heap'[o].jar = heap[o].jar /\ heap'[o].status = heap[o].status
          /\ heap'[o].fp = {got[p].jar}
      BY <1>1, <3>1 DEF Scraper
    <3>3. QED  BY <3>2
  <2>5. QED  BY <1>5, <2>1, <2>2, <2>3, <2>4, HeapMoves
<1>6. QED  BY <1>3, <1>4, <1>5

(* The row stays usable once it is.                                         *)
LEMMA RowKept ==
    ASSUME Staying, TypeInv, KeepInv, NEW p \in Procs, Step(p)
    PROVE  /\ Usable(row) => Usable(row)'
           /\ ~row'.aged /\ \A q \in Procs : ~got'[q].aged
<1>1. /\ Tasks /\ Stored /\ got \in [Procs -> Record]
  BY DEF TypeInv, KeepInv
<1>2. ~NoRow.aged /\ ~Copied(ob[p]).aged
  BY DEF NoRow, Copied
<1>3. QED  BY <1>1, <1>2, RowStep DEF Tasks, Stored, Usable

(* A scraper made to be installed has the row.                              *)
LEMMA Installs ==
    ASSUME Staying, TypeInv, KeepInv, NEW p \in Procs, ReadRow(p) \/ Load(p), pc'[p] = "install"
    PROVE  Usable(row) /\ ob'[p] = Fresh /\ heap'[ob'[p]] = Loaded(row)
<1>1. TaskTypes /\ Held /\ 0 \notin Refs /\ ~row.aged
  BY NoZero DEF TypeInv, KeepInv, Stored
<1>2. ob[p] = 0 /\ Fresh \in Refs
  BY <1>1, FreshFree DEF ReadRow, Load, Held, Holding, Go, At
<1>3. Usable(row) /\ ob'[p] = Fresh /\ Heap([heap EXCEPT ![Fresh] = Loaded(row)])
  BY <1>1, <1>2 DEF ReadRow, Load, Missing, Unavailable, Finish, At, Go, GoTo, Hold, TaskTypes
<1>4. \A o \in Refs : o = Fresh => Live(o)'
  BY <1>3 DEF Live
<1>5. heap \in [Refs -> Scraper]
  BY DEF TypeInv, StoreTypes
<1>6. QED  BY <1>2, <1>3, <1>4, <1>5 DEF Heap

LEMMA KeepStored ==
    ASSUME Staying, TypeInv, KeepInv, NEW p \in Procs, Step(p)
    PROVE  Stored'
<1>1. /\ StoreTypes /\ TaskTypes /\ Held /\ Stored /\ Tasks /\ 0 \notin Refs
      /\ TaskTypes' /\ Held' /\ StoreTypes'
      /\ heap \in [Refs -> Scraper] /\ heap' \in [Refs -> Scraper]
  BY NoZero, StepTypes DEF TypeInv, KeepInv, StoreTypes
<1>2. ~row'.aged /\ \A q \in Procs : ~got'[q].aged
  BY RowKept
<1>3. \A o \in Refs : heap'[o].fp # {} => Usable(row)'
  <2>1. Blank.fp = {} /\ \A a : LoggedOut(a).fp = {}
    BY DEF Blank, LoggedOut
  <2>2. ASSUME NEW o \in Refs, heap'[o] = heap[o] PROVE heap'[o].fp # {} => Usable(row)'
    BY <1>1, <2>2, RowKept DEF Stored
  <2>3. CASE PutSession(p)
    <3>1. CASE row' = got[p]
      BY <1>1, <2>3, <3>1 DEF PutSession, At, Stored, Usable
    <3>2. CASE SameHeap
      <4>1. \A o \in Refs : heap'[o] = heap[o] \/ heap'[o] = Blank
        BY <3>2 DEF SameHeap, Heap
      <4>2. QED  BY <2>1, <2>2, <4>1
    <3>3. QED  BY <2>3, <3>1, <3>2 DEF PutSession
  <2>4. ASSUME NEW o \in Refs, Live(o)', heap'[o] # heap[o], ~PutSession(p)
        PROVE  heap'[o].fp # {} => Usable(row)'
    <3>1. CASE Signs(p) /\ o = ob[p]
      BY <1>1, <2>4, <3>1, RowKept DEF Signs, Stored
    <3>2. CASE Parks(p) /\ o = ob[p]
      BY <1>1, <2>4, <3>2, RowKept DEF Parks, Stored, Scraper
    <3>3. CASE (ReadRow(p) \/ Load(p)) /\ Makes(p)
      <4>1. o = Fresh
        BY <1>1, <2>4, <3>3, HeapMoves DEF ReadRow, Load, Go, At, Held, Holding
      <4>2. QED  BY <2>1, <3>3, <4>1, RowKept DEF Makes
    <3>4. QED
      BY <2>4, <3>1, <3>2, <3>3, HeapMoves DEF LoginOk, Submit, LoginGuarded, Go, At, Held, Holding
  <2>5. QED  BY <2>1, <2>2, <2>3, <2>4, HeapMoves
<1>4. mem' = "obj" /\ heap'[cur'].status = "auth" => heap'[cur'].jar # NoCookie
  <2> SUFFICES ASSUME mem' = "obj", NEW o \in Refs, o = cur', heap'[o].status = "auth"
               PROVE  heap'[o].jar # NoCookie
    BY <1>1 DEF StoreTypes
  <2>1. Live(o)'
    BY DEF Live
  <2>2. CASE InstallRestored(p) \/ InstallLogin(p)
    <3>1. o = ob[p] /\ Live(o) /\ heap[o].jar # NoCookie
      BY <1>1, <2>2 DEF InstallRestored, InstallLogin, Go, At, Stored, Live
    <3>2. QED  BY <2>1, <3>1, ScrapersKept
  <2>3. CASE LoginGuarded(p)
    <3>1. heap'[o] = [heap EXCEPT ![ob[p]].status = "guard"][o] /\ o = ob[p]
      BY <2>1, <2>3 DEF LoginGuarded, Heap
    <3>2. heap'[o].status = "guard"
      BY <1>1, <3>1 DEF Scraper
    <3>3. QED  BY <3>2
  <2>4. CASE UNCHANGED <<mem, cur>> /\ ~LoginGuarded(p)
    <3>1. Live(o) /\ o = cur /\ mem = "obj"
      BY <2>4 DEF Live
    <3>2. CASE heap[o].status = "auth"
      BY <1>1, <2>1, <3>1, <3>2, ScrapersKept DEF Stored
    <3>3. CASE heap[o].status # "auth"
      <4>1. heap'[o] # heap[o] /\ ~(o = Fresh /\ pc[p] \in {"row", "load"})
        BY <1>1, <3>1, <3>3, FreshFree DEF Held, Holding
      <4>2. o = ob[p] /\ heap[o] \in Scraper
        BY <1>1, <2>1, <4>1, HeapMoves
      <4>3. ~Marks(p)
        BY <2>1, <3>3, <4>2 DEF Marks, Scraper
      <4>4. ~ReadRow(p) /\ ~Load(p)
        BY <1>1, <4>2 DEF ReadRow, Load, Go, At, Held, Holding
      <4>5. Signs(p)
        BY <2>1, <2>4, <4>1, <4>3, <4>4, HeapMoves
      <4>6. QED  BY <2>1, <4>2, <4>5 DEF Signs
    <3>4. QED  BY <3>2, <3>3
  <2>5. QED
    BY <1>1, <2>2, <2>3, <2>4
       DEF Step, Lookup, ReadRow, Reread, Refuse, UseOk, UseFails, UseExpired, SaveFirst, LoginOk,
           KeepsCookies, LoginFails, Submit, SubmitFails, SaveUnchanged, SaveChanged, PutSession,
           Load, DeleteRow, ClearScraper, SetNil, sameStore, Go, At, Tasks
<1>5. ASSUME NEW q \in Procs \ {p}
      PROVE  /\ pc'[q] \in {"use", "retry", "validate", "save", "put", "install"} =>
                    heap'[ob'[q]].jar # NoCookie
             /\ pc'[q] = "install" => heap'[ob'[q]].fp # {}
             /\ pc'[q] = "put" => Usable(got'[q])
  <2>1. pc[q] \in Holding => ob[q] \in Refs
    BY <1>1 DEF Held, TaskTypes
  <2>2. ASSUME NEW o \in Refs, o = ob[q] PROVE Live(o) /\ Live(o)'
    BY <1>5, <2>2, OthersWait DEF Live
  <2>3. QED  BY <1>1, <1>5, <2>1, <2>2, OthersWait, ScrapersKept DEF Stored, Holding
<1>6. /\ pc'[p] \in {"use", "retry", "validate", "save", "put", "install"} =>
             heap'[ob'[p]].jar # NoCookie
      /\ pc'[p] = "install" => heap'[ob'[p]].fp # {}
      /\ pc'[p] = "put" => Usable(got'[p])
  <2>1. pc[p] \in Holding => ob[p] \in Refs
    BY <1>1 DEF Held, TaskTypes
  <2>2. ASSUME NEW o \in Refs, o = ob[p], ob'[p] = ob[p] PROVE Live(o) /\ Live(o)'
    BY <2>2 DEF Live
  <2>3. ob'[p] = ob[p] /\ pc[p] \in Holding =>
           /\ heap[ob[p]].jar # NoCookie => heap'[ob'[p]].jar # NoCookie
           /\ heap[ob[p]].fp # {} => heap'[ob'[p]].fp # {}
    BY <2>1, <2>2, ScrapersKept
  <2> USE <1>1 DEF At, Go, GoTo, Hold, Continue, sameStore, sameTask, TaskTypes
  <2>4. CASE pc'[p] \in {"idle", "row", "reread", "refused", "setnil", "login", "lookup", "submit", "delete"}
    BY <2>4
  <2>5. CASE Lookup(p) \/ Reread(p)
    <3>1. pc'[p] = "use" => heap'[ob'[p]].jar # NoCookie
      <4> SUFFICES ASSUME pc'[p] = "use" PROVE heap'[ob'[p]].jar # NoCookie
        OBVIOUS
      <4>1. mem = "obj" /\ ob'[p] = cur /\ heap[cur].status = "auth" /\ SameHeap
        BY <2>5 DEF Lookup, Reread, Found, Missing, Finish
      <4>2. cur \in Refs /\ heap[cur].jar # NoCookie
        BY <4>1 DEF Stored, StoreTypes
      <4>3. \A o \in Refs : o = cur => Live(o)'
        BY <4>1 DEF Live
      <4>4. QED  BY <4>1, <4>2, <4>3 DEF SameHeap, Heap
    <3>2. QED  BY <2>4, <2>5, <3>1 DEF Lookup, Reread, Found, Missing, Finish
  <2>6. CASE ReadRow(p) \/ Load(p)
    <3>1. pc'[p] = "install" => heap'[ob'[p]].jar # NoCookie /\ heap'[ob'[p]].fp # {}
      <4>1. Usable(row) => Loaded(row).jar # NoCookie /\ Loaded(row).fp # {}
        BY DEF Loaded, Usable
      <4>2. QED  BY <2>6, <4>1, Installs
    <3>2. pc'[p] \in {"install", "login", "refused", "idle", "setnil"}
      BY <2>6 DEF ReadRow, Load, Missing, Unavailable, Finish
    <3>3. QED  BY <2>4, <3>1, <3>2
  <2>7. CASE LoginOk(p) \/ Submit(p)
    <3>1. pc'[p] = "save" /\ ob'[p] = ob[p] /\ pc[p] \in Holding
      BY <2>7 DEF LoginOk, Submit, Holding
    <3>2. heap'[ob'[p]].jar # NoCookie
      BY <2>1, <2>2, <2>7, <3>1, HeapMoves DEF Signs
    <3>3. QED  BY <3>1, <3>2
  <2>8. CASE SaveUnchanged(p) \/ PutSession(p)
    <3>1. pc[p] \in {"save", "put"} /\ pc'[p] \in {"idle", "use", "retry", "install"}
          /\ (pc'[p] # "idle" => ob'[p] = ob[p])
      BY <2>8 DEF SaveUnchanged, PutSession, Saved, Finish, Thens
    <3>2. pc'[p] # "idle" => heap'[ob'[p]].jar # NoCookie
      BY <2>3, <3>1 DEF Stored, Holding
    <3>3. pc'[p] # "idle" => heap'[ob'[p]].fp # {}
      <4>1. CASE SaveUnchanged(p)
        BY <2>3, <3>1, <4>1 DEF SaveUnchanged, Unchanged, Holding
      <4>2. CASE PutSession(p)
        <5>1. Marks(p)
          BY <4>2, HeapMoves
        <5>2. pc'[p] # "idle" => heap'[ob[p]] = [heap[ob[p]] EXCEPT !.fp = {got[p].jar}]
          BY <2>1, <2>2, <3>1, <5>1 DEF Marks, Holding
        <5>3. QED  BY <2>1, <3>1, <5>2 DEF Scraper, Holding
      <4>3. QED  BY <2>8, <4>1, <4>2
    <3>4. QED  BY <3>1, <3>2, <3>3
  <2>9. CASE SaveChanged(p)
    <3>1. pc[p] = "save" /\ pc'[p] = "put" /\ ob'[p] = ob[p] /\ got'[p].jar = heap[ob[p]].jar
      BY <2>9 DEF SaveChanged, TypeInv
    <3>2. QED  BY <2>3, <3>1 DEF Stored, Usable, Holding
  <2>10. CASE UseOk(p) \/ SaveFirst(p) \/ KeepsCookies(p)
    BY <2>3, <2>4, <2>10 DEF UseOk, SaveFirst, KeepsCookies, Stored, Holding, Finish
  <2>11. CASE InstallRestored(p) \/ Refuse(p) \/ UseFails(p) \/ UseExpired(p) \/ LoginFails(p)
              \/ LoginGuarded(p) \/ SubmitFails(p) \/ InstallLogin(p) \/ SetNil(p)
    BY <2>4, <2>11 DEF InstallRestored, Refuse, UseFails, UseExpired, LoginFails, LoginGuarded,
       SubmitFails, InstallLogin, SetNil, Missing, Finish
  <2>12. QED
    BY <2>5, <2>6, <2>7, <2>8, <2>9, <2>10, <2>11 DEF Step, DeleteRow, ClearScraper, Tasks
<1>7. QED  BY <1>2, <1>3, <1>4, <1>5, <1>6 DEF Stored, Usable

(* The operation of p goes on, ends, or asks for a guard code; only its end *)
(* settles anything.                                                        *)
Ends(p) ==
    /\ op' = [op EXCEPT ![p] = "none"] /\ pc' = [pc EXCEPT ![p] = "idle"]
    /\ clean' = clean \ {p}

LEMMA OpMoves ==
    ASSUME Staying, TypeInv, KeepInv, NEW p \in Procs, Step(p)
    PROVE  /\ pc[p] # "idle"
           /\ \/ op' = op /\ UNCHANGED ghost
              \/ op[p] = "login" /\ op' = [op EXCEPT ![p] = "guard"] /\ UNCHANGED ghost
              \/ Ends(p) /\ intent' = intent
              \/ /\ Ends(p) /\ p \in clean /\ op[p] \in {"login", "guard"} /\ intent' \in Accounts
                 /\ \/ InstallLogin(p)
                    \/ op[p] = "guard" /\ (SaveUnchanged(p) \/ PutSession(p))
<1>1. /\ TaskTypes /\ Somebody /\ Tasks
      /\ ~DeleteRow(p) /\ ~ClearScraper(p) /\ ~SetNil(p) /\ ~row.aged
  BY DEF TypeInv, KeepInv, Stored, Tasks, DeleteRow, ClearScraper, SetNil, Go, At
<1> USE <1>1 DEF At, Go, GoTo, sameTask, Finish, Missing, Tasks, TaskTypes, Ends, ghost, Somebody
<1>2. CASE Lookup(p) \/ Reread(p)
  BY <1>2 DEF Lookup, Reread, Found
<1>3. CASE ReadRow(p)
  BY <1>3 DEF ReadRow, Unavailable
<1>4. CASE Load(p) \/ InstallRestored(p) \/ InstallLogin(p)
  BY <1>4 DEF Load, InstallRestored, InstallLogin
<1>5. CASE Refuse(p) \/ UseOk(p) \/ UseFails(p)
  BY <1>5 DEF Refuse, UseOk, UseFails
<1>6. CASE UseExpired(p) \/ SaveFirst(p) \/ LoginOk(p) \/ KeepsCookies(p) \/ LoginFails(p)
  BY <1>6 DEF UseExpired, SaveFirst, LoginOk, KeepsCookies, LoginFails
<1>7. CASE LoginGuarded(p)
  BY <1>7 DEF LoginGuarded
<1>8. CASE Submit(p) \/ SubmitFails(p) \/ SaveChanged(p)
  BY <1>8 DEF Submit, SubmitFails, SaveChanged
<1>9. CASE SaveUnchanged(p) \/ PutSession(p)
  BY <1>9 DEF SaveUnchanged, PutSession, Saved
<1>10. QED
  BY <1>2, <1>3, <1>4, <1>5, <1>6, <1>7, <1>8, <1>9 DEF Step

LEMMA KeepExclusive ==
    ASSUME Staying, TypeInv, KeepInv, NEW p \in Procs, Step(p)
    PROVE  Exclusive'
<1>1. /\ StoreTypes /\ TaskTypes /\ Held /\ Tasks /\ Exclusive /\ TaskTypes' /\ 0 \notin Refs
      /\ ob[p] = 0 => Fresh \in Refs /\ ~Live(Fresh)
  BY NoZero, FreshFree, StepTypes DEF TypeInv, KeepInv
<1>2. pc[p] \in {"row", "load"} => ob[p] = 0
  BY <1>1 DEF Held, Holding
<1>3. Refers(p) /\ \A o \in Refs : o = Fresh /\ pc[p] \in {"row", "load"} => ~Live(o)
  BY <1>1, <1>2, StepRefers
<1>4. LoginGuarded(p) => op[p] = "login" /\ ob[p] # 0
  BY <1>1 DEF LoginGuarded, Go, At, Held, Holding
<1>5. cur' = ob[p] => \/ cur = ob[p] \/ op[p] # "login" \/ op'[p] # "login"
  BY <1>1 DEF Step, Lookup, ReadRow, InstallRestored, Reread, Refuse, UseOk, UseFails, UseExpired,
     SaveFirst, LoginOk, KeepsCookies, LoginFails, LoginGuarded, Submit, SubmitFails,
     SaveUnchanged, SaveChanged, PutSession, Load, InstallLogin, DeleteRow, ClearScraper, SetNil,
     sameStore, Finish, TaskTypes, Tasks, Go, At
<1>6. ASSUME NEW q \in Procs \ {p}, op'[q] = "login", ob'[q] # 0
      PROVE  /\ ob'[q] # cur' /\ heap'[ob'[q]].status = "auth"
             /\ \A r \in Procs \ {q} : ob'[r] # ob'[q]
  <2>1. /\ ob'[q] = ob[q] /\ op[q] = "login" /\ ob[q] \in Refs
        /\ ob[q] # cur /\ heap[ob[q]].status = "auth"
        /\ \A r \in Procs \ {q} : ob[r] # ob[q]
    BY <1>1, <1>6, OthersWait DEF Exclusive, TaskTypes
  <2>2. ASSUME NEW o \in Refs, o = ob[q] PROVE Live(o) /\ Live(o)'
    BY <1>6, <2>1, <2>2 DEF Live
  <2>3. \A r \in Procs \ {q} : ob'[r] # ob[q]
    BY <1>1, <1>3, <2>1, <2>2, OthersWait DEF Refers, TaskTypes
  <2>4. ob[q] # cur'
    BY <1>1, <1>3, <1>6, <2>1 DEF Refers
  <2>5. heap'[ob[q]].status = "auth"
    BY <1>6, <2>1, <2>2, ScrapersKept
  <2>6. QED  BY <2>1, <2>3, <2>4, <2>5
<1>7. ASSUME op'[p] = "login", ob'[p] # 0
      PROVE  /\ ob'[p] # cur' /\ heap'[ob'[p]].status = "auth"
             /\ \A r \in Procs \ {p} : ob'[r] # ob'[p]
  <2>1. op[p] = "login" /\ pc[p] \notin {"lookup", "row", "reread"}
    BY <1>1, <1>7, OpMoves DEF Tasks, TaskTypes, Ends
  <2>2. CASE Load(p)
    <3>1. ob'[p] = Fresh /\ cur' = cur /\ ob[p] = 0
      BY <1>1, <1>2, <2>2 DEF Load, Hold, TaskTypes, sameStore, Go, At
    <3>2. heap'[Fresh].status = "auth"
      <4>1. \A a : LoggedOut(a).status = "auth" /\ Loaded(a).status = "auth"
        BY DEF LoggedOut, Loaded, Blank
      <4>2. QED  BY <2>2, <3>1, <4>1, HeapMoves DEF Makes
    <3>3. \A r \in Procs \ {p} : ob'[r] # Fresh
      BY <1>1, <3>1, OthersWait DEF Live
    <3>4. QED  BY <1>1, <3>1, <3>2, <3>3 DEF Live
  <2>3. CASE ~Load(p)
    <3>1. ob'[p] = ob[p] /\ ob[p] # 0
      BY <1>1, <1>7, <2>1, <2>3, NoZero
         DEF Step, Lookup, ReadRow, InstallRestored, Reread, Refuse, UseOk, UseFails, UseExpired,
             SaveFirst, LoginOk, KeepsCookies, LoginFails, LoginGuarded, Submit, SubmitFails,
             SaveUnchanged, SaveChanged, PutSession, Saved, InstallLogin, DeleteRow, ClearScraper, SetNil,
             Finish, Missing, TaskTypes, Hold, Go, At, sameTask
    <3>2. ob[p] \in Refs /\ ob[p] # cur /\ heap[ob[p]].status = "auth"
          /\ \A r \in Procs \ {p} : ob[r] # ob[p]
      BY <1>1, <2>1, <3>1 DEF Exclusive, TaskTypes
    <3>3. ASSUME NEW o \in Refs, o = ob[p] PROVE Live(o) /\ Live(o)'
      BY <3>1, <3>3 DEF Live
    <3>4. ~LoginGuarded(p)
      BY <1>1, <1>7 DEF LoginGuarded, TaskTypes
    <3>5. heap'[ob[p]].status = "auth"
      BY <3>2, <3>3, <3>4, ScrapersKept
    <3>6. ob[p] # cur'
      BY <1>3, <1>5, <1>7, <2>1, <3>1, <3>2 DEF Refers
    <3>7. QED  BY <3>1, <3>2, <3>5, <3>6, OthersWait
  <2>4. QED  BY <2>2, <2>3
<1>8. ASSUME NEW q \in Procs, pc'[q] = "install" PROVE heap'[ob'[q]].status = "auth"
  <2>1. CASE q # p
    <3>1. ob'[q] = ob[q] /\ pc[q] = "install" /\ ob[q] \in Refs /\ heap[ob[q]].status = "auth"
      BY <1>1, <1>8, <2>1, OthersWait DEF Exclusive, Held, Holding, TaskTypes
    <3>2. ASSUME NEW o \in Refs, o = ob[q] PROVE Live(o) /\ Live(o)'
      BY <3>1, <3>2 DEF Live
    <3>3. LoginGuarded(p) => ob[p] # ob[q]
      BY <1>1, <1>4, <2>1 DEF Exclusive
    <3>4. QED  BY <3>1, <3>2, <3>3, ScrapersKept
  <2>2. CASE q = p /\ (ReadRow(p) \/ Load(p))
    BY <1>8, <2>2, Installs DEF Loaded
  <2>3. CASE q = p /\ ~ReadRow(p) /\ ~Load(p)
    <3>1. pc[p] \in {"save", "put"} /\ then[p] = "install" /\ op' = op /\ ob' = ob
      BY <1>1, <1>8, <2>3
         DEF Step, Lookup, InstallRestored, Reread, Refuse, UseOk, UseFails, UseExpired,
             SaveFirst, LoginOk, KeepsCookies, LoginFails, LoginGuarded, Submit, SubmitFails,
             SaveUnchanged, SaveChanged, PutSession, Saved, InstallLogin, DeleteRow, ClearScraper, SetNil,
             Found, Finish, Missing, TaskTypes, GoTo, Go, At
    <3>2. op'[p] = "login" /\ ob'[p] # 0
      BY <1>1, <3>1, NoZero DEF Tasks, Held, Holding
    <3>3. QED  BY <1>7, <2>3, <3>2
  <2>4. QED  BY <2>1, <2>2, <2>3
<1>9. QED  BY <1>6, <1>7, <1>8 DEF Exclusive

LEMMA KeepUndisturbed ==
    ASSUME Staying, TypeInv, KeepInv, NEW p \in Procs, Step(p)
    PROVE  Undisturbed' /\ Asleep'
<1>1. /\ TaskTypes /\ Tasks /\ Undisturbed /\ clean \subseteq Procs
  BY DEF TypeInv, KeepInv, GhostTypes, Procs
<1>2. Asleep'
  BY DEF Asleep, Step, Lookup, ReadRow, InstallRestored, Reread, Refuse, UseOk, UseFails, UseExpired,
     SaveFirst, LoginOk, KeepsCookies, LoginFails, LoginGuarded, Submit, SubmitFails,
     SaveUnchanged, SaveChanged, PutSession, Load, InstallLogin, DeleteRow, ClearScraper, SetNil, Go, At
<1>3. \A q \in Procs : AuthOp(q)' => AuthOp(q)
  BY <1>1, OpMoves, OthersWait DEF AuthOp, Ends, TaskTypes
<1>4. \A q \in Procs \ {p} : op'[q] = op[q]
  BY OthersWait
<1>5. CASE UNCHANGED ghost /\ ~Ends(p)
  <2>1. \A q \in clean : (op[q] = "data" <=> op'[q] = "data")
                      /\ (op[q] \in {"login", "guard"} => op'[q] \in {"login", "guard"})
    BY <1>1, <1>4, <1>5, OpMoves DEF TaskTypes
  <2>2. clean' = clean /\ intent' = intent
    BY <1>5 DEF ghost
  <2>3. ASSUME NEW q \in clean PROVE (op'[q] = "data" /\ intent' \in Accounts) \/ LoginClean(q)'
    BY <1>1, <1>3, <2>1, <2>2, <2>3 DEF Undisturbed, LoginClean
  <2>4. QED  BY <1>1, <1>2, <1>3, <2>2, <2>3 DEF Undisturbed
<1>6. CASE Ends(p) /\ intent' = intent
  <2>1. clean' = clean \ {p}
    BY <1>6 DEF Ends
  <2>2. ASSUME NEW q \in clean \ {p}
        PROVE  (op'[q] = "data" /\ intent' \in Accounts) \/ LoginClean(q)'
    <3>1. op'[q] = op[q]
      BY <1>1, <1>4, <2>2
    <3>2. clean = {q} => clean' = {q}
      BY <2>1, <2>2
    <3>3. QED  BY <1>1, <1>3, <1>6, <2>2, <3>1, <3>2 DEF Undisturbed, LoginClean
  <2>3. QED  BY <1>1, <1>2, <1>3, <1>6, <2>1, <2>2 DEF Undisturbed
<1>7. CASE Ends(p) /\ p \in clean /\ op[p] \in {"login", "guard"} /\ intent' \in Accounts
  <2>1. clean = {p} /\ \A q \in Procs \ {p} : ~AuthOp(q)
    BY <1>1, <1>7 DEF Undisturbed, LoginClean
  <2>2. clean' = {} /\ ~AuthOp(p)'
    BY <1>1, <1>7, <2>1 DEF Ends, AuthOp, TaskTypes
  <2>3. QED  BY <1>3, <2>1, <2>2, <1>2 DEF Undisturbed
<1>8. UNCHANGED ghost /\ Ends(p) => intent' = intent
  BY DEF ghost
<1>9. QED  BY <1>2, <1>5, <1>6, <1>7, <1>8, OpMoves

LEMMA KeepSettled ==
    ASSUME Staying, TypeInv, KeepInv, NEW p \in Procs, Step(p)
    PROVE  Settled'
<1>1. /\ StoreTypes /\ TaskTypes /\ Held /\ Tasks /\ Stored /\ Exclusive
      /\ Undisturbed /\ Settled /\ 0 \notin Refs /\ clean \subseteq Procs /\ Somebody
      /\ ~DeleteRow(p) /\ ~ClearScraper(p) /\ ~SetNil(p)
      /\ pc[p] # "idle" /\ heap \in [Refs -> Scraper]
  BY NoZero, OpMoves DEF TypeInv, KeepInv, GhostTypes, Procs, StoreTypes, Tasks, DeleteRow,
     ClearScraper, SetNil, Go, At
<1>2. ASSUME InstallRestored(p) \/ InstallLogin(p)
      PROVE  mem' = "obj" /\ heap'[cur'].status = "auth"
  <2>1. /\ mem' = "obj" /\ cur' = ob[p] /\ ob[p] \in Refs /\ heap[ob[p]].status = "auth" /\ SameHeap
    BY <1>1, <1>2 DEF InstallRestored, InstallLogin, Go, At, Exclusive, Held, Holding, TaskTypes
  <2>2. \A o \in Refs : o = ob[p] => Live(o)'
    BY <2>1 DEF Live
  <2>3. QED  BY <2>1, <2>2 DEF SameHeap, Heap
<1>3. ~InstallRestored(p) /\ ~InstallLogin(p) /\ ~LoginGuarded(p) => UNCHANGED <<mem, cur>>
  BY <1>1 DEF Step, Lookup, ReadRow, Reread, Refuse, UseOk, UseFails, UseExpired, SaveFirst,
     LoginOk, KeepsCookies, LoginFails, Submit, SubmitFails, SaveUnchanged, SaveChanged,
     PutSession, Load, sameStore
<1>4. ASSUME UNCHANGED <<mem, cur>>, ~LoginGuarded(p), mem = "obj"
      PROVE  heap[cur].status = "auth" => heap'[cur].status = "auth"
  <2>1. cur \in Refs /\ \A o \in Refs : o = cur => Live(o) /\ Live(o)'
    BY <1>1, <1>4 DEF StoreTypes, Live
  <2>2. QED  BY <1>4, <2>1, ScrapersKept
<1>5. ~AuthOp(p) => ~LoginGuarded(p) /\ ~InstallLogin(p) /\ ~Submit(p)
  BY <1>1 DEF AuthOp, LoginGuarded, InstallLogin, Submit, Somebody, Go, At
<1>6. intent' \in Accounts => Usable(row)' /\ (mem' = "obj" => heap'[cur'].status = "auth")
  <2>1. CASE intent' = intent /\ intent \in Accounts
    <3>1. ~AuthOp(p) /\ Usable(row) /\ (mem = "obj" => heap[cur].status = "auth")
      BY <1>1, <2>1 DEF Undisturbed, Settled
    <3>2. QED  BY <1>2, <1>3, <1>4, <1>5, <3>1, RowKept
  <2>2. CASE InstallLogin(p)
    <3>1. Usable(row)
      BY <1>1, <2>2 DEF InstallLogin, At, Stored, Held, Holding, TaskTypes
    <3>2. QED  BY <1>2, <2>2, <3>1, RowKept
  <2>3. CASE p \in clean /\ op[p] = "guard" /\ (SaveUnchanged(p) \/ PutSession(p))
    <3>1. /\ UNCHANGED <<mem, cur>> /\ ~LoginGuarded(p) /\ pc[p] \in {"save", "put"}
      BY <2>3 DEF SaveUnchanged, PutSession, sameStore, LoginGuarded, At
    <3>2. mem = "obj" /\ heap[cur].status = "auth" /\ ob[p] \in Refs
      BY <1>1, <2>3, <3>1 DEF Settled, Held, Holding, TaskTypes
    <3>3. Usable(row)'
      <4>1. CASE SaveUnchanged(p)
        <5>1. heap[ob[p]].fp # {}
          BY <4>1 DEF SaveUnchanged, Unchanged
        <5>2. QED  BY <1>1, <3>2, <5>1, RowKept DEF Stored
      <4>2. CASE PutSession(p)
        BY <1>1, <4>2, HeapMoves DEF PutSession, At, Stored, Usable
      <4>3. QED  BY <2>3, <4>1, <4>2
    <3>4. QED  BY <1>4, <3>1, <3>2, <3>3
  <2>4. QED  BY <2>1, <2>2, <2>3, OpMoves DEF ghost
<1>7. ASSUME NEW q \in clean', q # p, op'[q] = "guard", pc'[q] \in {"submit", "save", "put"}
      PROVE  /\ pc'[q] = "submit" => mem' = "obj" /\ (cur' = ob'[q] \/ heap'[cur'].status = "auth")
             /\ pc'[q] \in {"save", "put"} => mem' = "obj" /\ heap'[cur'].status = "auth"
  <2>1. q \in clean /\ q \in Procs \ {p}
    BY <1>1, <1>7, OpMoves DEF Ends, ghost
  <2>2. pc'[q] = pc[q] /\ op'[q] = op[q] /\ ob'[q] = ob[q]
    BY <2>1, OthersWait
  <2>3. ~AuthOp(p)
    BY <1>1, <1>7, <2>1, <2>2 DEF Undisturbed, LoginClean
  <2>4. /\ pc[q] = "submit" => mem = "obj" /\ (cur = ob[q] \/ heap[cur].status = "auth")
        /\ pc[q] \in {"save", "put"} => mem = "obj" /\ heap[cur].status = "auth"
    BY <1>1, <1>7, <2>1, <2>2 DEF Settled
  <2>5. QED  BY <1>2, <1>3, <1>4, <1>5, <1>7, <2>2, <2>3, <2>4
<1>8. ASSUME p \in clean', op'[p] = "guard", pc'[p] \in {"submit", "save", "put"}
      PROVE  /\ pc'[p] = "submit" => mem' = "obj" /\ (cur' = ob'[p] \/ heap'[cur'].status = "auth")
             /\ pc'[p] \in {"save", "put"} => mem' = "obj" /\ heap'[cur'].status = "auth"
  <2>1. p \in clean /\ op[p] = "guard" /\ op' = op
    <3>1. ~Ends(p)
      BY <1>1, <1>8 DEF Ends
    <3>2. op[p] = "login" /\ op'[p] = "guard" => LoginGuarded(p) /\ pc'[p] = "lookup"
      BY <1>1 DEF Step, Lookup, ReadRow, InstallRestored, Reread, Refuse, UseOk, UseFails, UseExpired,
         SaveFirst, LoginOk, KeepsCookies, LoginFails, LoginGuarded, Submit, SubmitFails,
         SaveUnchanged, SaveChanged, PutSession, Saved, Load, InstallLogin, Found, Missing, Unavailable,
         Finish, sameTask, TaskTypes, GoTo, Go, At
    <3>3. QED  BY <1>1, <1>8, <3>1, <3>2, OpMoves DEF ghost, TaskTypes
  <2>2. Lookup(p) \/ Reread(p) \/ Submit(p) \/ SaveChanged(p)
    BY <1>1, <1>8, <2>1
       DEF Step, ReadRow, InstallRestored, Refuse, UseOk, UseFails, UseExpired, SaveFirst, LoginOk,
           KeepsCookies, LoginFails, LoginGuarded, SubmitFails, SaveUnchanged, PutSession, Saved,
           Load, InstallLogin, Missing, Unavailable, Finish, Thens, TaskTypes, Tasks, GoTo, Go, At
  <2>3. CASE Lookup(p) \/ Reread(p)
    BY <1>1, <1>8, <2>1, <2>3
       DEF Lookup, Reread, Found, Missing, Finish, TaskTypes, GoTo, Hold, sameStore, At
  <2>4. CASE Submit(p)
    <3>1. UNCHANGED <<mem, cur, ob>> /\ pc[p] = "submit" /\ pc'[p] = "save" /\ ~LoginGuarded(p)
      BY <1>1, <2>1, <2>4 DEF Submit, sameStore, LoginGuarded, TaskTypes, GoTo, Go, At
    <3>2. mem = "obj" /\ (cur = ob[p] \/ heap[cur].status = "auth")
      BY <1>1, <2>1, <3>1 DEF Settled
    <3>3. cur = ob[p] => heap'[cur].status = "auth"
      <4>1. cur \in Refs /\ \A o \in Refs : o = cur => Live(o)'
        BY <1>1, <3>1, <3>2 DEF StoreTypes, Live
      <4>2. QED  BY <2>4, <4>1, HeapMoves DEF Signs
    <3>4. QED  BY <1>4, <3>1, <3>2, <3>3
  <2>5. CASE SaveChanged(p)
    <3>1. UNCHANGED <<mem, cur>> /\ pc[p] = "save" /\ pc'[p] = "put" /\ ~LoginGuarded(p)
      BY <1>1, <2>5 DEF SaveChanged, sameStore, LoginGuarded, TaskTypes, GoTo, Go, At
    <3>2. mem = "obj" /\ heap[cur].status = "auth"
      BY <1>1, <2>1, <3>1 DEF Settled
    <3>3. QED  BY <1>4, <3>1, <3>2
  <2>6. QED  BY <2>2, <2>3, <2>4, <2>5
<1>9. QED
  BY <1>6, <1>7, <1>8 DEF Settled

(* A 401 for want of a session meets nobody who is logged in.               *)
LEMMA KeepServed ==
    ASSUME Staying, TypeInv, KeepInv, NEW p \in Procs, Step(p)
    PROVE  NoSpuriousLogout'
<1>1. /\ StoreTypes /\ TaskTypes /\ Tasks /\ Entry /\ Undisturbed /\ Settled /\ NoSpuriousLogout
      /\ clean \subseteq Procs
      /\ ~DeleteRow(p) /\ ~ClearScraper(p) /\ ~SetNil(p)
  BY DEF TypeInv, KeepInv, GhostTypes, Procs, Tasks, DeleteRow, ClearScraper, SetNil, Go, At
<1>2. clean' \subseteq clean
  BY OpMoves DEF Ends, ghost
<1>3. ASSUME p \in clean', pc'[p] = "refused" PROVE FALSE
  <2>1. /\ op[p] = "data"
        /\ \/ mem = "obj" /\ heap[cur].status # "auth"
           \/ ~Usable(row)
    BY <1>1, <1>3
       DEF Step, Lookup, ReadRow, Reread, InstallRestored, Refuse, UseOk, UseFails, UseExpired, SaveFirst,
           LoginOk, KeepsCookies, LoginFails, LoginGuarded, Submit, SubmitFails, SaveUnchanged,
           SaveChanged, PutSession, Saved, Load, InstallLogin, Found, Missing, Unavailable, Finish,
           Thens, TaskTypes, Tasks, Entry, GoTo, Go, At
  <2>2. intent \in Accounts
    BY <1>1, <1>2, <1>3, <2>1 DEF Undisturbed, LoginClean
  <2>3. QED  BY <1>1, <2>1, <2>2 DEF Settled
<1>4. ASSUME NEW q \in clean', q # p PROVE pc'[q] # "refused"
  BY <1>1, <1>2, <1>4, OthersWait DEF NoSpuriousLogout
<1>5. QED  BY <1>3, <1>4 DEF NoSpuriousLogout

LEMMA StepKeeps ==
    ASSUME Staying, TypeInv, KeepInv, NEW p \in Procs, Step(p)
    PROVE  KeepInv'
BY KeepTasks, KeepStored, KeepExclusive, KeepUndisturbed, KeepSettled, KeepServed DEF KeepInv

LEMMA ArriveKeeps ==
    ASSUME Staying, TypeInv, KeepInv,
           NEW p \in Requests, NEW o \in Ops, NEW a \in Accounts, Arrive(p, o, a)
    PROVE  KeepInv'
<1>1. /\ TaskTypes /\ Held /\ Tasks /\ Entry /\ Stored /\ Exclusive /\ Asleep /\ StoreTypes
      /\ Undisturbed /\ Settled /\ NoSpuriousLogout /\ clean \subseteq Procs
      /\ Unsettled \notin Accounts
      /\ p \in Procs /\ o \in {"data", "login"}
  BY StoreAssumption DEF TypeInv, KeepInv, GhostTypes, Procs, Staying, RequestOps
<1>2. /\ pc[p] = "idle" /\ op[p] = "none" /\ ob[p] = 0 /\ then[p] \notin {"use", "retry", "install"}
      /\ pc' = [pc EXCEPT ![p] = IF o = "login" THEN "load" ELSE "lookup"]
      /\ op' = [op EXCEPT ![p] = o]
      /\ UNCHANGED <<up, mem, cur, row, heap, ob, then, got>>
  BY <1>1 DEF Arrive, Go, GoTo, At, Tasks, Held, Holding, TaskTypes, sameStore
<1>3. /\ o = "data" => /\ clean' = IF intent \in Accounts THEN clean \cup {p} ELSE clean
                       /\ intent' = intent
      /\ o = "login" => /\ clean' = IF \E q \in Procs : AuthOp(q) THEN {} ELSE {p}
                        /\ intent' = Unsettled
  BY DEF Arrive
<1>4. Tasks' /\ Entry'
  BY <1>1, <1>2 DEF Tasks, Entry, TaskTypes
<1>5. Stored'
  BY <1>1, <1>2 DEF Stored, TaskTypes, Usable
<1>6. Exclusive'
  BY <1>1, <1>2 DEF Exclusive, TaskTypes
<1>7. p \notin clean
  BY <1>1, <1>2 DEF Undisturbed, LoginClean
<1>8. \A q \in Procs \ {p} : op'[q] = op[q] /\ pc'[q] = pc[q] /\ (AuthOp(q)' <=> AuthOp(q))
  BY <1>1, <1>2 DEF AuthOp, TaskTypes
<1>9. Undisturbed'
  <2>1. CASE o = "data"
    <3>1. ~AuthOp(p)' /\ op'[p] = "data" /\ intent' = intent
      BY <1>1, <1>2, <1>3, <2>1 DEF AuthOp, TaskTypes
    <3>2. intent' \in Accounts => \A q \in Procs : ~AuthOp(q)'
      BY <1>1, <1>8, <3>1 DEF Undisturbed
    <3>3. ASSUME NEW q \in clean
          PROVE  (op'[q] = "data" /\ intent' \in Accounts) \/ LoginClean(q)'
      BY <1>1, <1>3, <1>7, <1>8, <2>1, <3>1, <3>3 DEF Undisturbed, LoginClean
    <3>4. QED  BY <1>3, <2>1, <3>1, <3>2, <3>3 DEF Undisturbed
  <2>2. CASE o = "login"
    <3>1. clean' # {} => clean' = {p} /\ op'[p] = "login" /\ \A q \in Procs \ {p} : ~AuthOp(q)'
      BY <1>1, <1>2, <1>3, <1>8, <2>2 DEF TaskTypes
    <3>2. ASSUME NEW q \in clean' PROVE LoginClean(q)'
      BY <1>3, <2>2, <3>1, <3>2 DEF LoginClean
    <3>3. QED  BY <1>1, <1>3, <2>2, <3>2 DEF Undisturbed
  <2>3. QED  BY <1>1, <2>1, <2>2
<1>10. Settled'
  <2>1. intent' \in Accounts => intent' = intent
    BY <1>1, <1>3
  <2>2. \A q \in clean' : op'[q] = "guard" => q \in clean /\ op'[q] = op[q] /\ pc'[q] = pc[q]
    BY <1>1, <1>2, <1>3, <1>8 DEF TaskTypes
  <2>3. QED  BY <1>1, <1>2, <2>1, <2>2 DEF Settled, Usable
<1>11. NoSpuriousLogout' /\ Asleep'
  <2>1. \A q \in clean' : q = p \/ (q \in clean /\ q # p)
    BY <1>1, <1>3, <1>7
  <2>2. pc'[p] # "refused"
    BY <1>1, <1>2 DEF TaskTypes
  <2>3. QED  BY <1>1, <1>2, <1>8, <2>1, <2>2 DEF NoSpuriousLogout, Asleep, Arrive, Go, At
<1>12. QED  BY <1>4, <1>5, <1>6, <1>9, <1>10, <1>11 DEF KeepInv

(* A tick or a sweep begins a job that is nobody's login.                   *)
LEMMA JobKeeps == ASSUME Staying, TypeInv, KeepInv, Tick \/ Sweep PROVE KeepInv'
<1>1. /\ TaskTypes /\ Held /\ Tasks /\ Entry /\ Stored /\ Exclusive /\ Asleep /\ StoreTypes
      /\ Undisturbed /\ Settled /\ NoSpuriousLogout /\ clean \subseteq Requests /\ clean \subseteq Procs
  BY DEF TypeInv, KeepInv, GhostTypes, Procs
<1>2. PICK k \in {Poll, Keep} :
         /\ pc[k] = "idle" /\ up /\ Authed
         /\ \/ /\ pc' = [pc EXCEPT ![k] = "lookup"] /\ op' = [op EXCEPT ![k] = "poll"] /\ ob' = ob
            \/ /\ pc' = [pc EXCEPT ![k] = "validate"] /\ op' = [op EXCEPT ![k] = "keep"]
               /\ ob' = [ob EXCEPT ![k] = cur]
         /\ UNCHANGED <<up, mem, cur, row, heap, then, got, ghost>>
  BY DEF Tick, Sweep, Go, GoTo, At, Hold, sameStore
<1>3. /\ k \in Procs /\ k \notin clean /\ op[k] = "none" /\ ob[k] = 0
      /\ then[k] \notin {"use", "retry", "install"}
  BY <1>1, <1>2, StoreAssumption DEF Procs, Tasks, Held, Holding
<1>4. mem = "obj" /\ cur \in Refs /\ heap[cur].status = "auth" /\ heap[cur].jar # NoCookie
  BY <1>1, <1>2 DEF Authed, StoreTypes, Stored
<1>5. Tasks' /\ Entry'
  BY <1>1, <1>2, <1>3 DEF Tasks, Entry, TaskTypes
<1>6. Stored'
  BY <1>1, <1>2, <1>3, <1>4 DEF Stored, TaskTypes, Usable
<1>7. Exclusive'
  BY <1>1, <1>2, <1>3 DEF Exclusive, TaskTypes
<1>8. \A q \in Procs \ {k} : op'[q] = op[q] /\ pc'[q] = pc[q] /\ ob'[q] = ob[q]
  BY <1>1, <1>2 DEF TaskTypes
<1>9. \A q \in Procs : AuthOp(q)' => AuthOp(q)
  BY <1>1, <1>2, <1>8 DEF AuthOp, TaskTypes
<1>10. Undisturbed'
  BY <1>1, <1>2, <1>3, <1>8, <1>9 DEF Undisturbed, LoginClean, ghost
<1>11. Settled' /\ NoSpuriousLogout' /\ Asleep'
  BY <1>1, <1>2, <1>3, <1>8 DEF Settled, NoSpuriousLogout, Asleep, Usable, ghost
<1>12. QED  BY <1>5, <1>6, <1>7, <1>10, <1>11 DEF KeepInv

(* The process stops with the map empty, and starts with what the row has.  *)
LEMMA ProcessKeeps == ASSUME Staying, TypeInv, KeepInv, Crash \/ Boot PROVE KeepInv'
<1>1. /\ TaskTypes /\ Tasks /\ Entry /\ Stored /\ Exclusive /\ Asleep /\ StoreTypes
      /\ Undisturbed /\ Settled /\ NoSpuriousLogout /\ 0 \notin Refs /\ clean \subseteq Procs
  BY NoZero DEF TypeInv, KeepInv, GhostTypes, Procs
<1>2. CASE Crash
  <2>1. Down
    BY <1>2 DEF Crash
  <2>2. \A p \in Procs : pc'[p] = "idle" /\ op'[p] = "none" /\ then'[p] = "done" /\ ob'[p] = 0
                         /\ got'[p] = NoRow
    BY <2>1 DEF Down
  <2>3. /\ up' = FALSE /\ mem' = "absent" /\ clean' = {} /\ row' = row /\ intent' = intent
        /\ \A o \in Refs : heap'[o].fp = {}
    BY <2>1 DEF Down, Blank
  <2>4. Tasks' /\ Entry' /\ Exclusive'
    BY <2>2, <2>3 DEF Tasks, Entry, Exclusive
  <2>5. Stored'
    BY <1>1, <2>2, <2>3 DEF Stored, NoRow
  <2>6. Undisturbed'
    BY <2>2, <2>3 DEF Undisturbed, AuthOp
  <2>7. Settled' /\ NoSpuriousLogout' /\ Asleep'
    BY <1>1, <2>2, <2>3 DEF Settled, NoSpuriousLogout, Asleep, Usable
  <2>8. QED  BY <2>4, <2>5, <2>6, <2>7 DEF KeepInv
<1>3. CASE Boot
  <2>1. /\ mem = "absent" /\ up' = TRUE /\ UNCHANGED <<procVars, ghost>>
        /\ \A p \in Procs : pc[p] = "idle" /\ op[p] = "none" /\ pc'[p] = "idle" /\ op'[p] = "none"
    BY <1>1, <1>3 DEF Boot, Asleep, Tasks, procVars
  <2>2. /\ row' = row
        /\ \/ UNCHANGED <<mem, cur, heap>>
           \/ Usable(row) /\ Restored(Loaded(row))
    BY <1>1, <1>3 DEF Boot, Stored, sameStore
  <2>3. mem' # "nil" /\ (mem' = "obj" => Usable(row) /\ Restored(Loaded(row)))
    BY <2>1, <2>2 DEF Restored
  <2>4. Tasks' /\ Entry' /\ Exclusive'
    BY <1>1, <2>1, <2>3 DEF Tasks, Entry, Exclusive, procVars
  <2>5. Undisturbed' /\ NoSpuriousLogout' /\ Asleep'
    BY <1>1, <2>1 DEF Undisturbed, LoginClean, AuthOp, NoSpuriousLogout, Asleep, procVars, ghost
  <2>6. Usable(row) => Loaded(row).status = "auth" /\ Loaded(row).jar # NoCookie
    BY DEF Loaded, Usable
  <2>7. mem' = "obj" => heap'[cur'].status = "auth" /\ heap'[cur'].jar # NoCookie
    <3>1. 1 \in Refs /\ heap \in [Refs -> Scraper]
      BY <1>1, FiniteProcs DEF Refs, StoreTypes
    <3>2. QED  BY <2>3, <2>6, <3>1 DEF Restored
  <2>8. \A o \in Refs : heap'[o] = heap[o] \/ Usable(row)
    BY <2>2
  <2>9. Stored'
    BY <1>1, <2>1, <2>2, <2>7, <2>8 DEF Stored, procVars, Usable
  <2>10. Settled'
    BY <1>1, <2>1, <2>2, <2>7 DEF Settled, Usable, ghost
  <2>11. QED  BY <2>4, <2>5, <2>9, <2>10 DEF KeepInv
<1>4. QED  BY <1>2, <1>3

LEMMA InitKeeps == Init => KeepInv
<1> SUFFICES ASSUME Init PROVE KeepInv
  OBVIOUS
<1>1. Tasks /\ Entry /\ Exclusive /\ Asleep
  BY NoZero DEF Init, Tasks, Entry, Exclusive, Asleep
<1>2. Stored
  BY DEF Init, Stored, NoRow, Blank
<1>3. Undisturbed /\ Settled /\ NoSpuriousLogout
  BY StoreAssumption DEF Init, Undisturbed, Settled, NoSpuriousLogout
<1>4. QED  BY <1>1, <1>2, <1>3 DEF KeepInv

LEMMA NextKeeps == ASSUME Staying, TypeInv, KeepInv, [Next]_vars PROVE KeepInv'
<1>1. CASE UNCHANGED vars
  BY <1>1 DEF vars, procVars, wish, ghost, KeepInv, Asleep, Tasks, Entry, Stored, Exclusive,
     Undisturbed, LoginClean, AuthOp, Settled, NoSpuriousLogout, Usable
<1>2. ~NilEntry /\ ~Age
  BY DEF NilEntry, Age, Staying, KeepInv, Entry
<1>3. QED
  BY <1>1, <1>2, StepKeeps, ArriveKeeps, JobKeeps, ProcessKeeps DEF Next, Step

LEMMA KeepsHold == ASSUME Staying PROVE Spec => []KeepInv
<1>1. Init => KeepInv
  BY InitKeeps
<1>2. TypeInv /\ KeepInv /\ [Next]_vars => KeepInv'
  BY NextKeeps
<1>3. QED  BY <1>1, <1>2, TypesHold, PTL DEF Spec

(* While nobody logs out, no cookies pass their date and writes succeed, no *)
(* data request of a user who stays logged in is refused with a 401 for     *)
(* want of a session (api.go:84-100, session.go:35-40): for any number of   *)
(* accounts and requests, whatever the forum answers, through guard codes,  *)
(* failing reads and crashes.                                               *)
THEOREM NotLoggedOut == ASSUME Staying PROVE Spec => []NoSpuriousLogout
<1>1. KeepInv => NoSpuriousLogout
  BY DEF KeepInv
<1>2. QED  BY <1>1, KeepsHold, PTL

(* On a device with one account, a login that was answered lasts, in the    *)
(* row and in the map, until the next login or logout (session.go:169-176,  *)
(* main.go:97-99), in the same environments.                                *)
THEOREM LoginStays ==
    ASSUME Staying, \E a : Accounts = {a}
    PROVE  Spec => []LoginSticks
<1>1. TypeInv /\ KeepInv => LoginSticks
  <2> SUFFICES ASSUME TypeInv, KeepInv, intent \in Accounts
               PROVE  /\ row.acct = intent /\ Usable(row)
                      /\ mem = "obj" => heap[cur].acct = intent
    BY DEF LoginSticks
  <2>1. Usable(row) /\ row.acct \in Accounts
    BY DEF KeepInv, Settled, TypeInv, Credentials
  <2>2. mem = "obj" => heap[cur].acct \in Accounts
    BY DEF TypeInv, StoreTypes, Credentials, Live
  <2>3. QED  BY <2>1, <2>2
<1>2. QED  BY <1>1, TypesHold, KeepsHold, PTL

==============================================================================
