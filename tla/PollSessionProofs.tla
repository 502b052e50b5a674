-------------------------- MODULE PollSessionProofs --------------------------
(***************************************************************************)
(* What PollSession promises, for every number of accounts, threads,       *)
(* counters and every breaker setting: its types, what the client was told *)
(* last, the silent resume, and the backoff windows.                       *)
(***************************************************************************)
EXTENDS PollSession, FiniteSetTheorems, TLAPS

------------------------------------------------------------------------------
(* The skipped jobs and those still to skip make up the window in force.   *)
Budget ==
    /\ IF fails > 0 THEN quiet + skip = Window(fails) ELSE quiet = 0 /\ skip = 0
    /\ pc # "idle" => skip = 0

(* A scrape older than a gated job is not a basis of comparison any more.  *)
Gaps ==
    /\ gap => gated
    /\ pc \in {"favs", "tell"} => ~across

(* The client was told prev, or, while a job compares, what prev was.      *)
Told == told = IF pc \in {"favs", "tell"} THEN was ELSE prev

IInv == TypeOK /\ Budget /\ Gaps /\ Told

(* A window is a number of jobs up to breakerMaxSkip (bubbles.go:550-553).  *)
LEMMA WindowType == \A f : Window(f) \in 0..BreakerMaxSkip
BY SessionAssumption DEF Window

(* What a scrape returns is a value of the counters (bubbles.go:1463).      *)
LEMMA ScrapeType ==
    ASSUME TypeOK, NEW a \in Accounts
    PROVE  BubblesOf(a) \in Bubbles
<1> DEFINE F == {t \in Threads : mv[a].badge[t] # NoBadge}
<1>1. IsFiniteSet(F) /\ Cardinality(F) <= Cardinality(Threads)
  BY FS_Subset, SessionAssumption
<1>2. Cardinality(F) \in Nat /\ Cardinality(Threads) \in Nat
  BY <1>1, FS_CardinalityType, SessionAssumption
<1>3. mv[a].other \in 0..MaxCount
  BY DEF TypeOK
<1>4. QED  BY <1>1, <1>2, <1>3 DEF BubblesOf, Bubbles

(* The zero baseline is a value of the counters (bubbles.go:252).           *)
LEMMA ZeroType == Zero \in Bubbles
<1>1. Cardinality({}) <= Cardinality(Threads)
  BY FS_Subset, SessionAssumption
<1>2. Cardinality({}) = 0 /\ Cardinality(Threads) \in Nat
  BY FS_EmptySet, FS_CardinalityType, SessionAssumption
<1>3. QED  BY <1>1, <1>2, SessionAssumption DEF Zero, Bubbles

(* The initial state satisfies the inductive invariant.                     *)
LEMMA InitIInv == Init => IInv
<1> SUFFICES ASSUME Init PROVE IInv
  OBVIOUS
<1>1. [t \in Threads |-> NoBadge] \in Badges /\ 0 \in 0..MaxCount
  BY SessionAssumption DEF NoBadge, Badges
<1>2. TypeOK
  <2>1. mv \in [Accounts -> [other : 0..MaxCount, badge : Badges]]
    BY <1>1 DEF Init, NoFavs
  <2>2. prevFav \in Badges
    BY <1>1 DEF Init, NoFavs
  <2>3. {gap, across} \subseteq BOOLEAN
    BY DEF Init
  <2>4. 0 \in 0..MaxFails /\ 0 \in 0..BreakerMaxSkip
    BY SessionAssumption
  <2>5. /\ account \in Accounts /\ who \in Accounts /\ listeners \subseteq Kinds
        /\ named \subseteq Threads /\ gated \in BOOLEAN
        /\ prev = Unknown /\ was = Unknown /\ told = Unknown
        /\ fails = 0 /\ skip = 0 /\ quiet = 0 /\ pc = "start"
    BY DEF Init
  <2>6. QED  BY <2>1, <2>2, <2>3, <2>4, <2>5 DEF TypeOK
<1>3. QED
  BY <1>2 DEF IInv, Init, Budget, Gaps, Told

------------------------------------------------------------------------------
(* Every action keeps the types.                                            *)
LEMMA TypeStep == ASSUME IInv, Next PROVE TypeOK'
<1>1. ASSUME NEW a \in Accounts, NEW n \in 0..MaxCount, Counter(a, n)
      PROVE  TypeOK'
  BY <1>1
     DEF IInv, TypeOK, Counter, ByWorld, keptVars, jobVars, ghostVars
<1>2. ASSUME NEW a \in Accounts, NEW t \in Threads, NEW n \in NoBadge..MaxCount,
              Badge(a, t, n)
      PROVE  TypeOK'
  <2> USE <1>2 DEF Badge, ByWorld, keptVars, jobVars, ghostVars
  <2>1. mv' \in [Accounts -> [other : 0..MaxCount, badge : Badges]]
    <3>1. mv[a].badge \in Badges /\ [mv[a].badge EXCEPT ![t] = n] \in Badges
      BY DEF IInv, TypeOK, Badges
    <3>2. [mv[a] EXCEPT !.badge = [mv[a].badge EXCEPT ![t] = n]]
              \in [other : 0..MaxCount, badge : Badges]
      BY <3>1 DEF IInv, TypeOK
    <3>3. mv' = [mv EXCEPT ![a] = [mv[a] EXCEPT !.badge =
                                      [mv[a].badge EXCEPT ![t] = n]]]
      OBVIOUS
    <3>4. QED  BY <3>2, <3>3 DEF IInv, TypeOK
  <2>2. {gap', across'} \subseteq BOOLEAN
    BY DEF IInv, TypeOK
  <2>3. QED  BY <2>1, <2>2 DEF IInv, TypeOK
<1>3. ASSUME NEW a \in Accounts, SwitchAccount(a)
      PROVE  TypeOK'
  BY <1>3
     DEF IInv, TypeOK, SwitchAccount, ByWorld, keptVars, jobVars, ghostVars
<1>4. ASSUME NEW k \in Kinds, Listen(k)
      PROVE  TypeOK'
  BY <1>4
     DEF IInv, TypeOK, Listen, ByWorld, keptVars, jobVars, ghostVars
<1>5. CASE StartBaseline
  <2>1. BubblesOf(account) \in Bubbles
    BY ScrapeType DEF IInv, TypeOK
  <2>2. {gap', across'} \subseteq BOOLEAN
    BY <1>5 DEF IInv, TypeOK, StartBaseline
  <2>3. /\ prev' \in Bubbles \cup {Unknown} /\ was' \in Bubbles \cup {Unknown}
        /\ told' \in Bubbles \cup {Unknown}
    BY <1>5, <2>1, ZeroType DEF IInv, TypeOK, StartBaseline, Step, mvVars
  <2>4. QED
    BY <1>5, <2>2, <2>3, SessionAssumption DEF IInv, TypeOK, StartBaseline, Step, mvVars
<1>6. CASE Skip
  BY <1>6, WindowType, SessionAssumption
     DEF IInv, TypeOK, Skip, Step, mvVars, Budget
<1>7. CASE Begin
  BY <1>7, SessionAssumption
     DEF IInv, TypeOK, Begin, Step, mvVars, keptVars, ghostVars
<1>8. CASE Gate
  BY <1>8, SessionAssumption
     DEF IInv, TypeOK, Gate, Step, mvVars
<1>9. CASE PassGate
  BY <1>9, SessionAssumption
     DEF IInv, TypeOK, PassGate, Step, mvVars, Move, keptVars, ghostVars
<1>10. CASE Expired
  BY <1>10, SessionAssumption
     DEF IInv, TypeOK, Expired, Step, mvVars, Move, keptVars, ghostVars
<1>11. CASE Relogged
  BY <1>11, SessionAssumption
     DEF IInv, TypeOK, Relogged, Step, mvVars, Move, keptVars, ghostVars
<1>12. CASE Fail
  BY <1>12, WindowType, SessionAssumption
     DEF IInv, TypeOK, Fail, Step, mvVars, Low
<1>13. CASE Rebaseline
  <2>1. BubblesOf(who) \in Bubbles
    BY ScrapeType DEF IInv, TypeOK
  <2>2. {gap', across'} \subseteq BOOLEAN
    BY <1>13 DEF IInv, TypeOK, Rebaseline, Step, mvVars, Scraped, FirstSight
  <2>3. /\ prev' \in Bubbles \cup {Unknown} /\ was' \in Bubbles \cup {Unknown}
        /\ told' \in Bubbles \cup {Unknown}
    BY <1>13, <2>1, ZeroType DEF IInv, TypeOK, Rebaseline, Step, mvVars, Scraped, FirstSight
  <2>4. /\ fails' = 0 /\ skip' = 0 /\ quiet' = 0 /\ gated' = FALSE
        /\ pc' \in {"idle", "favs"}
        /\ UNCHANGED <<account, who, mv, listeners, prevFav, named>>
    BY <1>13 DEF Rebaseline, Step, mvVars, Scraped
  <2>5. 0 \in 0..MaxFails /\ 0 \in 0..BreakerMaxSkip
    BY SessionAssumption
  <2>6. QED  BY <2>2, <2>3, <2>4, <2>5 DEF IInv, TypeOK
<1>14. CASE Diff
  <2>1. BubblesOf(who) \in Bubbles
    BY ScrapeType DEF IInv, TypeOK
  <2>2. {gap', across'} \subseteq BOOLEAN
    BY <1>14 DEF IInv, TypeOK, Diff, Step, mvVars, Scraped, FirstSight
  <2>3. /\ prev' \in Bubbles \cup {Unknown} /\ was' \in Bubbles \cup {Unknown}
        /\ told' \in Bubbles \cup {Unknown}
    BY <1>14, <2>1, ZeroType DEF IInv, TypeOK, Diff, Step, mvVars, Scraped, FirstSight
  <2>4. /\ fails' = 0 /\ skip' = 0 /\ quiet' = 0 /\ gated' = FALSE
        /\ pc' \in {"idle", "favs"}
        /\ UNCHANGED <<account, who, mv, listeners, prevFav, named>>
    BY <1>14 DEF Diff, Step, mvVars, Scraped
  <2>5. 0 \in 0..MaxFails /\ 0 \in 0..BreakerMaxSkip
    BY SessionAssumption
  <2>6. QED  BY <2>2, <2>3, <2>4, <2>5 DEF IInv, TypeOK
<1>15. CASE SkipFavs
  BY <1>15, SessionAssumption
     DEF IInv, TypeOK, SkipFavs, Step, mvVars, Move, keptVars, ghostVars
<1>16. CASE FavsFail
  BY <1>16, SessionAssumption
     DEF IInv, TypeOK, FavsFail, Step, mvVars, Move, keptVars, ghostVars
<1>17. CASE EnrichFavs
  <2>1. mv[who].badge \in Badges
    BY DEF IInv, TypeOK
  <2>2. QED  BY <1>17, <2>1 DEF IInv, TypeOK, EnrichFavs, Step, mvVars, ghostVars
<1>18. CASE Tell
  BY <1>18, SessionAssumption
     DEF IInv, TypeOK, Tell, Step, mvVars, keptVars
<1>19. QED
  BY <1>1, <1>2, <1>3, <1>4, <1>5, <1>6, <1>7, <1>8, <1>9, <1>10,
     <1>11, <1>12, <1>13, <1>14, <1>15, <1>16, <1>17, <1>18
     DEF Next, World, Job

(* The breaker: skips use up the window, failures open it, success ends it. *)
LEMMA BudgetStep == ASSUME IInv, Next PROVE Budget'
<1>1. ASSUME NEW a \in Accounts, NEW n \in 0..MaxCount, Counter(a, n)
      PROVE  Budget'
  BY <1>1
     DEF IInv, TypeOK, Budget, Counter, ByWorld, keptVars, jobVars, ghostVars
<1>2. ASSUME NEW a \in Accounts, NEW t \in Threads, NEW n \in NoBadge..MaxCount,
              Badge(a, t, n)
      PROVE  Budget'
  BY <1>2
     DEF IInv, TypeOK, Budget, Badge, ByWorld, keptVars, jobVars, ghostVars
<1>3. ASSUME NEW a \in Accounts, SwitchAccount(a)
      PROVE  Budget'
  BY <1>3
     DEF IInv, TypeOK, Budget, SwitchAccount, ByWorld, keptVars, jobVars, ghostVars
<1>4. ASSUME NEW k \in Kinds, Listen(k)
      PROVE  Budget'
  BY <1>4
     DEF IInv, TypeOK, Budget, Listen, ByWorld, keptVars, jobVars, ghostVars
<1>5. CASE StartBaseline
  BY <1>5, SessionAssumption
     DEF IInv, TypeOK, Budget, StartBaseline, Step, mvVars
<1>6. CASE Skip
  BY <1>6, WindowType, SessionAssumption
     DEF IInv, TypeOK, Budget, Skip, Step, mvVars
<1>7. CASE Begin
  BY <1>7, SessionAssumption
     DEF IInv, TypeOK, Budget, Begin, Step, mvVars, keptVars, ghostVars
<1>8. CASE Gate
  BY <1>8, SessionAssumption
     DEF IInv, TypeOK, Budget, Gate, Step, mvVars
<1>9. CASE PassGate
  BY <1>9, SessionAssumption
     DEF IInv, TypeOK, Budget, PassGate, Step, mvVars, Move, keptVars, ghostVars
<1>10. CASE Expired
  BY <1>10, SessionAssumption
     DEF IInv, TypeOK, Budget, Expired, Step, mvVars, Move, keptVars, ghostVars
<1>11. CASE Relogged
  BY <1>11, SessionAssumption
     DEF IInv, TypeOK, Budget, Relogged, Step, mvVars, Move, keptVars, ghostVars
<1>12. CASE Fail
  BY <1>12, WindowType, SessionAssumption
     DEF IInv, TypeOK, Budget, Fail, Step, mvVars, Low
<1>13. CASE Rebaseline
  BY <1>13, SessionAssumption
     DEF IInv, TypeOK, Budget, Rebaseline, Step, mvVars, Scraped, FirstSight
<1>14. CASE Diff
  BY <1>14, SessionAssumption
     DEF IInv, TypeOK, Budget, Diff, Step, mvVars, Scraped, FirstSight
<1>15. CASE SkipFavs
  BY <1>15, SessionAssumption
     DEF IInv, TypeOK, Budget, SkipFavs, Step, mvVars, Move, keptVars, ghostVars
<1>16. CASE FavsFail
  BY <1>16, SessionAssumption
     DEF IInv, TypeOK, Budget, FavsFail, Step, mvVars, Move, keptVars, ghostVars
<1>17. CASE EnrichFavs
  BY <1>17, SessionAssumption
     DEF IInv, TypeOK, Budget, EnrichFavs, Step, mvVars, ghostVars
<1>18. CASE Tell
  BY <1>18, SessionAssumption
     DEF IInv, TypeOK, Budget, Tell, Step, mvVars, keptVars
<1>19. QED
  BY <1>1, <1>2, <1>3, <1>4, <1>5, <1>6, <1>7, <1>8, <1>9, <1>10,
     <1>11, <1>12, <1>13, <1>14, <1>15, <1>16, <1>17, <1>18
     DEF Next, World, Job

(* The gate marks the client before the gap can be compared across.         *)
LEMMA GapsStep == ASSUME IInv, Next PROVE Gaps'
<1>1. ASSUME NEW a \in Accounts, NEW n \in 0..MaxCount, Counter(a, n)
      PROVE  Gaps'
  BY <1>1
     DEF IInv, TypeOK, Gaps, Counter, ByWorld, keptVars, jobVars, ghostVars
<1>2. ASSUME NEW a \in Accounts, NEW t \in Threads, NEW n \in NoBadge..MaxCount,
              Badge(a, t, n)
      PROVE  Gaps'
  BY <1>2
     DEF IInv, TypeOK, Gaps, Badge, ByWorld, keptVars, jobVars, ghostVars
<1>3. ASSUME NEW a \in Accounts, SwitchAccount(a)
      PROVE  Gaps'
  BY <1>3
     DEF IInv, TypeOK, Gaps, SwitchAccount, ByWorld, keptVars, jobVars, ghostVars
<1>4. ASSUME NEW k \in Kinds, Listen(k)
      PROVE  Gaps'
  BY <1>4
     DEF IInv, TypeOK, Gaps, Listen, ByWorld, keptVars, jobVars, ghostVars
<1>5. CASE StartBaseline
  BY <1>5
     DEF IInv, TypeOK, Gaps, StartBaseline, Step, mvVars
<1>6. CASE Skip
  BY <1>6
     DEF IInv, TypeOK, Gaps, Skip, Step, mvVars
<1>7. CASE Begin
  BY <1>7
     DEF IInv, TypeOK, Gaps, Begin, Step, mvVars, keptVars, ghostVars
<1>8. CASE Gate
  BY <1>8
     DEF IInv, TypeOK, Gaps, Gate, Step, mvVars
<1>9. CASE PassGate
  BY <1>9
     DEF IInv, TypeOK, Gaps, PassGate, Step, mvVars, Move, keptVars, ghostVars
<1>10. CASE Expired
  BY <1>10
     DEF IInv, TypeOK, Gaps, Expired, Step, mvVars, Move, keptVars, ghostVars
<1>11. CASE Relogged
  BY <1>11
     DEF IInv, TypeOK, Gaps, Relogged, Step, mvVars, Move, keptVars, ghostVars
<1>12. CASE Fail
  BY <1>12
     DEF IInv, TypeOK, Gaps, Fail, Step, mvVars
<1>13. CASE Rebaseline
  BY <1>13
     DEF IInv, TypeOK, Gaps, Rebaseline, Step, mvVars, Scraped, FirstSight
<1>14. CASE Diff
  BY <1>14
     DEF IInv, TypeOK, Gaps, Diff, Step, mvVars, Scraped, FirstSight
<1>15. CASE SkipFavs
  BY <1>15
     DEF IInv, TypeOK, Gaps, SkipFavs, Step, mvVars, Move, keptVars, ghostVars
<1>16. CASE FavsFail
  BY <1>16
     DEF IInv, TypeOK, Gaps, FavsFail, Step, mvVars, Move, keptVars, ghostVars
<1>17. CASE EnrichFavs
  BY <1>17
     DEF IInv, TypeOK, Gaps, EnrichFavs, Step, mvVars, ghostVars
<1>18. CASE Tell
  BY <1>18
     DEF IInv, TypeOK, Gaps, Tell, Step, mvVars, keptVars
<1>19. QED
  BY <1>1, <1>2, <1>3, <1>4, <1>5, <1>6, <1>7, <1>8, <1>9, <1>10,
     <1>11, <1>12, <1>13, <1>14, <1>15, <1>16, <1>17, <1>18
     DEF Next, World, Job

(* Silent baselines and announced changes keep told in step with prev.      *)
LEMMA ToldStep == ASSUME IInv, Next PROVE Told'
<1>1. ASSUME NEW a \in Accounts, NEW n \in 0..MaxCount, Counter(a, n)
      PROVE  Told'
  BY <1>1
     DEF IInv, Told, Counter, ByWorld, keptVars, jobVars, ghostVars
<1>2. ASSUME NEW a \in Accounts, NEW t \in Threads, NEW n \in NoBadge..MaxCount,
              Badge(a, t, n)
      PROVE  Told'
  BY <1>2
     DEF IInv, Told, Badge, ByWorld, keptVars, jobVars, ghostVars
<1>3. ASSUME NEW a \in Accounts, SwitchAccount(a)
      PROVE  Told'
  BY <1>3
     DEF IInv, Told, SwitchAccount, ByWorld, keptVars, jobVars, ghostVars
<1>4. ASSUME NEW k \in Kinds, Listen(k)
      PROVE  Told'
  BY <1>4
     DEF IInv, Told, Listen, ByWorld, keptVars, jobVars, ghostVars
<1>5. CASE StartBaseline
  BY <1>5
     DEF IInv, Told, StartBaseline, Step, mvVars
<1>6. CASE Skip
  BY <1>6
     DEF IInv, Told, Skip, Step, mvVars
<1>7. CASE Begin
  BY <1>7
     DEF IInv, Told, Begin, Step, mvVars, keptVars, ghostVars
<1>8. CASE Gate
  BY <1>8
     DEF IInv, Told, Gate, Step, mvVars
<1>9. CASE PassGate
  BY <1>9
     DEF IInv, Told, PassGate, Step, mvVars, Move, keptVars, ghostVars
<1>10. CASE Expired
  BY <1>10
     DEF IInv, Told, Expired, Step, mvVars, Move, keptVars, ghostVars
<1>11. CASE Relogged
  BY <1>11
     DEF IInv, Told, Relogged, Step, mvVars, Move, keptVars, ghostVars
<1>12. CASE Fail
  BY <1>12
     DEF IInv, Told, Fail, Step, mvVars
<1>13. CASE Rebaseline
  BY <1>13
     DEF IInv, Told, Rebaseline, Step, mvVars, Scraped, FirstSight
<1>14. CASE Diff
  BY <1>14
     DEF IInv, Told, Diff, Step, mvVars, Scraped, FirstSight
<1>15. CASE SkipFavs
  BY <1>15
     DEF IInv, Told, SkipFavs, Step, mvVars, Move, keptVars, ghostVars
<1>16. CASE FavsFail
  BY <1>16
     DEF IInv, Told, FavsFail, Step, mvVars, Move, keptVars, ghostVars
<1>17. CASE EnrichFavs
  BY <1>17
     DEF IInv, Told, EnrichFavs, Step, mvVars, ghostVars
<1>18. CASE Tell
  BY <1>18
     DEF IInv, Told, Tell, Step, mvVars, keptVars, Changed
<1>19. QED
  BY <1>1, <1>2, <1>3, <1>4, <1>5, <1>6, <1>7, <1>8, <1>9, <1>10,
     <1>11, <1>12, <1>13, <1>14, <1>15, <1>16, <1>17, <1>18
     DEF Next, World, Job

(* The inductive invariant is kept by every step.                           *)
LEMMA IInvStep == IInv /\ [Next]_vars => IInv'
<1> SUFFICES ASSUME IInv, [Next]_vars PROVE IInv'
  OBVIOUS
<1>1. CASE Next
  BY <1>1, TypeStep, BudgetStep, GapsStep, ToldStep DEF IInv
<1>2. CASE UNCHANGED vars
  BY <1>2 DEF IInv, TypeOK, Budget, Gaps, Told, vars, mvVars, keptVars,
              jobVars, ghostVars
<1>3. QED  BY <1>1, <1>2

(* The inductive invariant holds in every behaviour.                        *)
LEMMA Invariance == Spec => []IInv
BY InitIInv, IInvStep, PTL DEF Spec

------------------------------------------------------------------------------
(* Type correctness of the poll job.                                        *)
THEOREM TypeCorrect == Spec => []TypeOK
<1>1. IInv => TypeOK
  BY DEF IInv
<1>2. QED  BY <1>1, Invariance, PTL

(* Between jobs prev is what the client was told (bubbles.go:435-488).      *)
THEOREM ToldLast == Spec => []ToldIsPrev
<1>1. IInv => ToldIsPrev
  BY DEF IInv, Told, ToldIsPrev
<1>2. QED  BY <1>1, Invariance, PTL

(* The breaker retries after exactly its window (bubbles.go:383-390,        *)
(* 541-555).                                                                *)
THEOREM BackoffHolds == Spec => []Backoff
<1>1. IInv => Backoff
  BY WindowType, SessionAssumption DEF IInv, TypeOK, Budget, Backoff
<1>2. QED  BY <1>1, Invariance, PTL

(* No change is announced across a gated job (bubbles.go:404-412, 437-447). *)
THEOREM SilentResume == Spec => NoIncreaseOnResume
<1>1. IInv /\ [Next]_vars => [Pushes /\ Changed => ~across]_vars
  BY DEF IInv, Gaps, Pushes
<1>2. QED  BY <1>1, Invariance, PTL DEF Spec, NoIncreaseOnResume

==============================================================================
