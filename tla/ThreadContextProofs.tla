------------------------- MODULE ThreadContextProofs -------------------------
(***************************************************************************)
(* What ThreadContext promises, for every number of requests and threads,  *)
(* with bare pages and renewals or without: its types, one thread per      *)
(* post, and when a post may go astray or be repeated.                     *)
(***************************************************************************)
EXTENDS ThreadContext, TLAPS

------------------------------------------------------------------------------
(* As long as no page was bare, id and token were committed together.      *)
Paired == bare \/ tid = token

(* Overlapping loads are noticed.                                          *)
Noticed == Overlap => overlapped

(* The URL is that of the id, but for a load between its two sections; and *)
(* a request that relies on the fields finds its own thread there.         *)
Matched ==
    overlapped \/ bare \/
        /\ (\A r \in Requests : pc[r] # "seturl") => url = tid
        /\ \A r \in Requests :
              /\ pc[r] = "seturl" => tid = want[r]
              /\ pc[r] = "page2" => url = want[r]
              /\ pc[r] = "snapshot" /\ want[r] # NoThread => url = want[r]
              /\ pc[r] = "post" /\ want[r] # NoThread => snap[r].tid = want[r]
              /\ want[r] # NoThread => posts[r] \subseteq {want[r]}

(* What an operation wants, and where that leads it.                       *)
Kept ==
    \A r \in Requests :
        /\ op[r] = "form" => want[r] = NoThread
        /\ op[r] = "read" /\ pc[r] # "idle" => want[r] # NoThread
        /\ pc[r] = "form" => want[r] = NoThread
        /\ op[r] = "form" => pc[r] \notin {"login", "ensure", "load"}
        /\ pc[r] \in {"page1", "seturl", "page2", "load"} => want[r] # NoThread
        /\ pc[r] = "idle" => attempt[r] = 1 /\ count[r] = 0 /\ r \notin renewed /\ posts[r] = {}

(* Between the check of loggedIn and the post.                             *)
Working == {"ensure", "load", "page1", "seturl", "page2", "snapshot", "form", "post"}

(* A request that nobody renewed the session of posts once.                *)
Once ==
    \A r \in Requests :
        /\ attempt[r] = 1 => /\ count[r] <= 1
                             /\ pc[r] \notin {"answer", "failed", "relogin"} => count[r] = 0
        /\ attempt[r] = 2 /\ pc[r] \notin {"answer", "failed"} => count[r] <= 1
        /\ r \notin renewed =>
              /\ pc[r] \in Working => loggedIn
              /\ attempt[r] = 1 /\ count[r] >= 1 /\ pc[r] = "failed" => loggedIn
              /\ attempt[r] = 1 /\ pc[r] = "relogin" => count[r] = 0
              /\ attempt[r] = 2 /\ pc[r] \notin {"answer", "failed"} => count[r] = 0
              /\ count[r] <= 1

IInv == TypeOK /\ Paired /\ OneThreadPerPost /\ Noticed /\ Matched /\ Kept /\ Once

(* The initial state satisfies the inductive invariant.                     *)
LEMMA InitIInv == Init => IInv
<1> SUFFICES ASSUME Init PROVE IInv
  OBVIOUS
<1> USE DEF Init
<1>1. TypeOK
  BY DEF TypeOK, Current, Pcs, Ops, NoSnap
<1>2. Paired /\ OneThreadPerPost /\ Kept
  BY DEF Paired, OneThreadPerPost, Kept, NoSnap
<1>3. Noticed /\ Matched
  BY DEF Noticed, Overlap, Relies, Matched
<1>4. Once
  BY DEF Once, Working
<1>5. QED  BY <1>1, <1>2, <1>3, <1>4 DEF IInv

------------------------------------------------------------------------------
(* What the requests ask for, and what they post, has few forms.            *)
LEMMA AskForms ==
    ASSUME NEW r \in Requests, Ask(r)
    PROVE  \E o \in Ops, t \in Current :
              /\ Begin(r, o, t) /\ (o = "form" => t = NoThread) /\ (o = "read" => t # NoThread)
<1> USE ThreadAssumption DEF Ops, Current
<1>1. CASE AskThread(r)
  BY <1>1 DEF AskThread
<1>2. CASE AskLike(r)
  BY <1>2 DEF AskLike
<1>3. CASE AskReply(r) \/ AskEdit(r) \/ AskSource(r) \/ AskQuote(r) \/ AskQuoted(r)
  BY <1>3 DEF AskReply, AskEdit, AskSource, AskQuote, AskQuoted
<1>4. CASE AskCreate(r) \/ AskMessage(r)
  BY <1>4 DEF AskCreate, AskMessage
<1>5. QED  BY <1>1, <1>2, <1>3, <1>4 DEF Ask

LEMMA SendForms ==
    ASSUME NEW r \in Requests, Send(r)
    PROVE  \E o \in {"like", "post", "form"} : Post(r, o)
BY DEF Send, LikeMessage, PostReply, EditMessage, GetPostSource, GetQuotedPost,
       GetPostQuoted, CreateThread, SendPrivateMessage

(* A commit takes id and token from one page or has seen a bare one.        *)
LEMMA ParseKeeps ==
    ASSUME NEW r \in Requests, TypeOK, want[r] # NoThread, Parse(r)
    PROVE  /\ tid' \in Current /\ token' \in Current /\ bare' \in BOOLEAN
           /\ bare => bare'
           /\ ~bare' => tid' = want[r] /\ token' = want[r]
<1>1. PICK page \in Pages : Commit(want[r], page) /\ bare' = (bare \/ page # Whole)
  BY DEF Parse
<1>2. want[r] \in Current
  BY DEF TypeOK
<1>3. QED  BY <1>1, <1>2 DEF Commit, Whole, TypeOK
------------------------------------------------------------------------------
(* Every action keeps the types.                                            *)
LEMMA TypeStep ==
    ASSUME TypeOK, Kept, Once, [Next]_vars
    PROVE  TypeOK'
<1> USE DEF TypeOK, Kept, Pcs, Go, GoTo, fields, task, ghost, Noted
<1>1. ASSUME NEW r \in Requests, NEW o \in Ops, NEW t \in Current, Begin(r, o, t),
              o = "form" => t = NoThread, o = "read" => t # NoThread, Noted
      PROVE  TypeOK'
  BY <1>1 DEF Begin
<1>2. ASSUME NEW r \in Requests, Start(r), Noted PROVE TypeOK'
  BY <1>2 DEF Start, Ops
<1>3. ASSUME NEW r \in Requests, Login(r), Noted PROVE TypeOK'
  BY <1>3 DEF Login
<1>4. ASSUME NEW r \in Requests, EnsureThread(r), Noted PROVE TypeOK'
  BY <1>4 DEF EnsureThread
<1>5. ASSUME NEW r \in Requests, StartLoad(r), Noted PROVE TypeOK'
  BY <1>5 DEF StartLoad
<1>6. ASSUME NEW r \in Requests, Page1(r), Noted PROVE TypeOK'
  BY <1>6, ParseKeeps DEF Page1
<1>7. ASSUME NEW r \in Requests, SetURL(r), Noted PROVE TypeOK'
  BY <1>7 DEF SetURL, Loaded
<1>8. ASSUME NEW r \in Requests, Page2(r), Noted PROVE TypeOK'
  BY <1>8, ParseKeeps DEF Page2, Loaded
<1>9. ASSUME NEW r \in Requests, Snapshot(r), Noted PROVE TypeOK'
  <2>1. snap' \in [Requests -> [tid : Current, token : Current]]
    BY <1>9 DEF Snapshot
  <2>2. QED  BY <1>9, <2>1 DEF Snapshot
<1>10. ASSUME NEW r \in Requests, TakeForm(r), Noted PROVE TypeOK'
  BY <1>10 DEF TakeForm
<1>11. ASSUME NEW r \in Requests, Retry(r), Noted PROVE TypeOK'
  BY <1>11 DEF Retry, Others
<1>12. ASSUME NEW r \in Requests, Relogin(r), Noted PROVE TypeOK'
  BY <1>12 DEF Relogin, SecondAttempt
<1>13. ASSUME NEW r \in Requests, Answer(r), Noted PROVE TypeOK'
  BY <1>13 DEF Answer, Ops, Current
<1>14. ASSUME NEW r \in Requests, NEW o \in {"like", "post", "form"}, Post(r, o), Noted
      PROVE  TypeOK'
  <2>1. count[r] + 1 \in {0, 1, 2} /\ r \in Requests
    BY <1>14 DEF Post, Once
  <2>2. NoSnap \in [tid : Current, token : Current] /\ snap[r].tid \in Current
    BY DEF NoSnap, Current
  <2>3. count' \in [Requests -> {0, 1, 2}]
    BY <1>14, <2>1 DEF Post, Reaches
  <2>4. posts' \in [Requests -> SUBSET Current]
    <3>1. posts[r] \cup {snap[r].tid} \in SUBSET Current
      BY <2>2
    <3>2. QED  BY <1>14, <3>1 DEF Post, Reaches
  <2>5. QED  BY <1>14, <2>2, <2>3, <2>4 DEF Post
<1>15. CASE RenewBegins
  BY <1>15 DEF RenewBegins
<1>16. CASE RenewEnds
  BY <1>16 DEF RenewEnds
<1>17. CASE UNCHANGED vars
  BY <1>17 DEF vars
<1>18. ASSUME NEW r \in Requests, Step(r), Noted PROVE TypeOK'
  <2>1. CASE Ask(r)
    BY <2>1, <1>18, <1>1, AskForms
  <2>2. CASE Send(r)
    BY <2>2, <1>18, <1>14, SendForms
  <2>3. QED
    BY <2>1, <2>2, <1>18, <1>2, <1>3, <1>4, <1>5, <1>6, <1>7, <1>8, <1>9, <1>10, <1>11, <1>12, <1>13
       DEF Step, FetchNewThreadPage, LoadConversation
<1>19. QED  BY <1>15, <1>16, <1>17, <1>18 DEF Next

(* What is asked for stays so until the answer.                             *)
LEMMA KeptStep ==
    ASSUME TypeOK, Kept, [Next]_vars
    PROVE  Kept'
<1> USE DEF TypeOK, Go, GoTo, fields, task, ghost, Kept
<1>1. ASSUME NEW r \in Requests, NEW o \in Ops, NEW t \in Current, Begin(r, o, t),
              o = "form" => t = NoThread, o = "read" => t # NoThread, Noted
      PROVE  Kept'
  BY <1>1 DEF Begin
<1>2. ASSUME NEW r \in Requests, Start(r), Noted PROVE Kept'
  BY <1>2 DEF Start
<1>3. ASSUME NEW r \in Requests, Login(r), Noted PROVE Kept'
  BY <1>3 DEF Login
<1>4. ASSUME NEW r \in Requests, EnsureThread(r), Noted PROVE Kept'
  BY <1>4 DEF EnsureThread
<1>5. ASSUME NEW r \in Requests, StartLoad(r), Noted PROVE Kept'
  BY <1>5 DEF StartLoad
<1>6. ASSUME NEW r \in Requests, Page1(r), Noted PROVE Kept'
  BY <1>6 DEF Page1
<1>7. ASSUME NEW r \in Requests, SetURL(r), Noted PROVE Kept'
  BY <1>7 DEF SetURL, Loaded
<1>8. ASSUME NEW r \in Requests, Page2(r), Noted PROVE Kept'
  BY <1>8 DEF Page2, Loaded
<1>9. ASSUME NEW r \in Requests, Snapshot(r), Noted PROVE Kept'
  BY <1>9 DEF Snapshot
<1>10. ASSUME NEW r \in Requests, TakeForm(r), Noted PROVE Kept'
  BY <1>10 DEF TakeForm
<1>11. ASSUME NEW r \in Requests, Retry(r), Noted PROVE Kept'
  BY <1>11 DEF Retry, Others
<1>12. ASSUME NEW r \in Requests, Relogin(r), Noted PROVE Kept'
  BY <1>12 DEF Relogin, SecondAttempt
<1>13. ASSUME NEW r \in Requests, Answer(r), Noted PROVE Kept'
  BY <1>13 DEF Answer
<1>14. ASSUME NEW r \in Requests, NEW o \in {"like", "post", "form"}, Post(r, o), Noted
      PROVE  Kept'
  BY <1>14 DEF Post, Reaches
<1>15. CASE RenewBegins
  BY <1>15 DEF RenewBegins
<1>16. CASE RenewEnds
  BY <1>16 DEF RenewEnds
<1>17. CASE UNCHANGED vars
  BY <1>17 DEF vars
<1>18. ASSUME NEW r \in Requests, Step(r), Noted PROVE Kept'
  <2>1. CASE Ask(r)
    BY <2>1, <1>18, <1>1, AskForms
  <2>2. CASE Send(r)
    BY <2>2, <1>18, <1>14, SendForms
  <2>3. QED
    BY <2>1, <2>2, <1>18, <1>2, <1>3, <1>4, <1>5, <1>6, <1>7, <1>8, <1>9, <1>10, <1>11, <1>12, <1>13
       DEF Step, FetchNewThreadPage, LoadConversation
<1>19. QED  BY <1>15, <1>16, <1>17, <1>18 DEF Next

(* A post is repeated only when the session was renewed meanwhile.          *)
LEMMA OnceStep ==
    ASSUME TypeOK, Kept, Once, [Next]_vars
    PROVE  Once'
<1> USE DEF TypeOK, Go, GoTo, fields, task, ghost, Kept, Once, Working
<1>1. ASSUME NEW r \in Requests, NEW o \in Ops, NEW t \in Current, Begin(r, o, t),
              o = "form" => t = NoThread, o = "read" => t # NoThread, Noted
      PROVE  Once'
  BY <1>1 DEF Begin
<1>2. ASSUME NEW r \in Requests, Start(r), Noted PROVE Once'
  BY <1>2 DEF Start
<1>3. ASSUME NEW r \in Requests, Login(r), Noted PROVE Once'
  BY <1>3 DEF Login
<1>4. ASSUME NEW r \in Requests, EnsureThread(r), Noted PROVE Once'
  BY <1>4 DEF EnsureThread
<1>5. ASSUME NEW r \in Requests, StartLoad(r), Noted PROVE Once'
  BY <1>5 DEF StartLoad
<1>6. ASSUME NEW r \in Requests, Page1(r), Noted PROVE Once'
  BY <1>6 DEF Page1
<1>7. ASSUME NEW r \in Requests, SetURL(r), Noted PROVE Once'
  BY <1>7 DEF SetURL, Loaded
<1>8. ASSUME NEW r \in Requests, Page2(r), Noted PROVE Once'
  BY <1>8 DEF Page2, Loaded
<1>9. ASSUME NEW r \in Requests, Snapshot(r), Noted PROVE Once'
  BY <1>9 DEF Snapshot
<1>10. ASSUME NEW r \in Requests, TakeForm(r), Noted PROVE Once'
  BY <1>10 DEF TakeForm
<1>11. ASSUME NEW r \in Requests, Retry(r), Noted PROVE Once'
  BY <1>11 DEF Retry, Retries, Others
<1>12. ASSUME NEW r \in Requests, Relogin(r), Noted PROVE Once'
  BY <1>12 DEF Relogin, SecondAttempt
<1>13. ASSUME NEW r \in Requests, Answer(r), Noted PROVE Once'
  BY <1>13 DEF Answer, Retries
<1>14. ASSUME NEW r \in Requests, NEW o \in {"like", "post", "form"}, Post(r, o), Noted
      PROVE  Once'
  BY <1>14 DEF Post, Reaches
<1>15. CASE RenewBegins
  BY <1>15 DEF RenewBegins
<1>16. CASE RenewEnds
  BY <1>16 DEF RenewEnds
<1>17. CASE UNCHANGED vars
  BY <1>17 DEF vars
<1>18. ASSUME NEW r \in Requests, Step(r), Noted PROVE Once'
  <2>1. CASE Ask(r)
    BY <2>1, <1>18, <1>1, AskForms
  <2>2. CASE Send(r)
    BY <2>2, <1>18, <1>14, SendForms
  <2>3. QED
    BY <2>1, <2>2, <1>18, <1>2, <1>3, <1>4, <1>5, <1>6, <1>7, <1>8, <1>9, <1>10, <1>11, <1>12, <1>13
       DEF Step, FetchNewThreadPage, LoadConversation
<1>19. QED  BY <1>15, <1>16, <1>17, <1>18 DEF Next

(* Id and token are set together and copied together.                       *)
LEMMA PairedStep ==
    ASSUME TypeOK, Kept, Paired, OneThreadPerPost, [Next]_vars
    PROVE  (Paired /\ OneThreadPerPost)'
<1> USE DEF TypeOK, Go, GoTo, fields, task, ghost, Kept, Paired, OneThreadPerPost
<1>1. ASSUME NEW r \in Requests, NEW o \in Ops, NEW t \in Current, Begin(r, o, t),
              o = "form" => t = NoThread, o = "read" => t # NoThread, Noted
      PROVE  (Paired /\ OneThreadPerPost)'
  BY <1>1 DEF Begin
<1>2. ASSUME NEW r \in Requests, Start(r), Noted PROVE (Paired /\ OneThreadPerPost)'
  BY <1>2 DEF Start
<1>3. ASSUME NEW r \in Requests, Login(r), Noted PROVE (Paired /\ OneThreadPerPost)'
  BY <1>3 DEF Login
<1>4. ASSUME NEW r \in Requests, EnsureThread(r), Noted PROVE (Paired /\ OneThreadPerPost)'
  BY <1>4 DEF EnsureThread
<1>5. ASSUME NEW r \in Requests, StartLoad(r), Noted PROVE (Paired /\ OneThreadPerPost)'
  BY <1>5 DEF StartLoad
<1>6. ASSUME NEW r \in Requests, Page1(r), Noted PROVE (Paired /\ OneThreadPerPost)'
  BY <1>6, ParseKeeps DEF Page1
<1>7. ASSUME NEW r \in Requests, SetURL(r), Noted PROVE (Paired /\ OneThreadPerPost)'
  BY <1>7 DEF SetURL
<1>8. ASSUME NEW r \in Requests, Page2(r), Noted PROVE (Paired /\ OneThreadPerPost)'
  BY <1>8, ParseKeeps DEF Page2
<1>9. ASSUME NEW r \in Requests, Snapshot(r), Noted PROVE (Paired /\ OneThreadPerPost)'
  BY <1>9 DEF Snapshot
<1>10. ASSUME NEW r \in Requests, TakeForm(r), Noted PROVE (Paired /\ OneThreadPerPost)'
  BY <1>10 DEF TakeForm
<1>11. ASSUME NEW r \in Requests, Retry(r), Noted PROVE (Paired /\ OneThreadPerPost)'
  BY <1>11 DEF Retry
<1>12. ASSUME NEW r \in Requests, Relogin(r), Noted PROVE (Paired /\ OneThreadPerPost)'
  BY <1>12 DEF Relogin
<1>13. ASSUME NEW r \in Requests, Answer(r), Noted PROVE (Paired /\ OneThreadPerPost)'
  BY <1>13 DEF Answer
<1>14. ASSUME NEW r \in Requests, NEW o \in {"like", "post", "form"}, Post(r, o), Noted
      PROVE  (Paired /\ OneThreadPerPost)'
  BY <1>14 DEF Post, Reaches, NoSnap
<1>15. CASE RenewBegins
  BY <1>15 DEF RenewBegins
<1>16. CASE RenewEnds
  BY <1>16 DEF RenewEnds
<1>17. CASE UNCHANGED vars
  BY <1>17 DEF vars
<1>18. ASSUME NEW r \in Requests, Step(r), Noted PROVE (Paired /\ OneThreadPerPost)'
  <2>1. CASE Ask(r)
    BY <2>1, <1>18, <1>1, AskForms
  <2>2. CASE Send(r)
    BY <2>2, <1>18, <1>14, SendForms
  <2>3. QED
    BY <2>1, <2>2, <1>18, <1>2, <1>3, <1>4, <1>5, <1>6, <1>7, <1>8, <1>9, <1>10, <1>11, <1>12, <1>13
       DEF Step, FetchNewThreadPage, LoadConversation
<1>19. QED  BY <1>15, <1>16, <1>17, <1>18 DEF Next

(* Overlapping loads are noticed when the second begins.                    *)
LEMMA NoticedStep == ASSUME Noticed, [Next]_vars PROVE Noticed'
<1>1. CASE \E r \in Requests : Step(r) /\ Noted
  BY <1>1 DEF Noticed, Noted
<1>2. CASE RenewBegins \/ RenewEnds \/ UNCHANGED vars
  BY <1>2 DEF Noticed, Overlap, Relies, RenewBegins, RenewEnds, vars, task, fields
<1>3. QED  BY <1>1, <1>2 DEF Next

(* While loads do not overlap, the URL follows the id.                      *)
LEMMA MatchedStep ==
    ASSUME TypeOK, Kept, Noticed, Matched, [Next]_vars
    PROVE  Matched'
<1> USE DEF TypeOK, Go, GoTo, fields, task, ghost, Kept, Noticed, Matched, Noted, Overlap, Relies
<1>1. ASSUME NEW r \in Requests, NEW o \in Ops, NEW t \in Current, Begin(r, o, t),
              o = "form" => t = NoThread, o = "read" => t # NoThread, Noted
      PROVE  Matched'
  BY <1>1 DEF Begin
<1>2. ASSUME NEW r \in Requests, Start(r), Noted PROVE Matched'
  BY <1>2 DEF Start
<1>3. ASSUME NEW r \in Requests, Login(r), Noted PROVE Matched'
  BY <1>3 DEF Login
<1>4. ASSUME NEW r \in Requests, EnsureThread(r), Noted PROVE Matched'
  BY <1>4 DEF EnsureThread
<1>5. ASSUME NEW r \in Requests, StartLoad(r), Noted PROVE Matched'
  BY <1>5 DEF StartLoad
<1>6. ASSUME NEW r \in Requests, Page1(r), Noted PROVE Matched'
  <2> SUFFICES ASSUME ~overlapped', ~bare' PROVE Matched'
    BY DEF Matched
  <2>1. CASE Go(r, "page1", "seturl") /\ Parse(r)
    <3>1. tid' = want[r] /\ ~bare /\ ~overlapped
      BY <2>1, <1>6, ParseKeeps DEF Page1
    <3>2. pc'[r] = "seturl" /\ \A q \in Requests \ {r} : pc'[q] = pc[q]
      BY <2>1
    <3>3. \A q \in Requests \ {r} :
             pc[q] \notin {"seturl", "page2"} /\ ~(pc[q] = "snapshot" /\ want[q] # NoThread)
      <4>1. want' = want /\ overlapped' = (overlapped \/ Overlap')
        BY <1>6 DEF Page1
      <4>2. \A q \in Requests \ {r} : ~(pc'[q] \in {"seturl", "page2"}
                                         \/ (pc'[q] = "snapshot" /\ want[q] # NoThread))
        BY <3>2, <4>1
      <4>3. QED  BY <3>2, <4>2
    <3>4. QED  BY <1>6, <3>1, <3>2, <3>3 DEF Page1
  <2>2. CASE Go(r, "page1", "failed") /\ UNCHANGED <<tid, token, bare>>
    BY <2>2, <1>6 DEF Page1
  <2>3. QED  BY <2>1, <2>2, <1>6 DEF Page1
<1>7. ASSUME NEW r \in Requests, SetURL(r), Noted PROVE Matched'
  BY <1>7 DEF SetURL, Loaded
<1>8. ASSUME NEW r \in Requests, Page2(r), Noted PROVE Matched'
  BY <1>8, ParseKeeps DEF Page2, Loaded
<1>9. ASSUME NEW r \in Requests, Snapshot(r), Noted PROVE Matched'
  BY <1>9 DEF Snapshot
<1>10. ASSUME NEW r \in Requests, TakeForm(r), Noted PROVE Matched'
  BY <1>10 DEF TakeForm
<1>11. ASSUME NEW r \in Requests, Retry(r), Noted PROVE Matched'
  BY <1>11 DEF Retry
<1>12. ASSUME NEW r \in Requests, Relogin(r), Noted PROVE Matched'
  BY <1>12 DEF Relogin, SecondAttempt
<1>13. ASSUME NEW r \in Requests, Answer(r), Noted PROVE Matched'
  BY <1>13 DEF Answer
<1>14. ASSUME NEW r \in Requests, NEW o \in {"like", "post", "form"}, Post(r, o), Noted
      PROVE  Matched'
  BY <1>14 DEF Post, Reaches
<1>15. CASE RenewBegins
  BY <1>15 DEF RenewBegins
<1>16. CASE RenewEnds
  BY <1>16 DEF RenewEnds
<1>17. CASE UNCHANGED vars
  BY <1>17 DEF vars
<1>18. ASSUME NEW r \in Requests, Step(r), Noted PROVE Matched'
  <2>1. CASE Ask(r)
    BY <2>1, <1>18, <1>1, AskForms
  <2>2. CASE Send(r)
    BY <2>2, <1>18, <1>14, SendForms
  <2>3. QED
    BY <2>1, <2>2, <1>18, <1>2, <1>3, <1>4, <1>5, <1>6, <1>7, <1>8, <1>9, <1>10, <1>11, <1>12, <1>13
       DEF Step, FetchNewThreadPage, LoadConversation
<1>19. QED  BY <1>15, <1>16, <1>17, <1>18 DEF Next

------------------------------------------------------------------------------
(* Every step keeps the inductive invariant.                                *)
LEMMA NextIInv == IInv /\ [Next]_vars => IInv'
<1> SUFFICES ASSUME IInv, [Next]_vars PROVE IInv'
  OBVIOUS
<1>1. TypeOK'
  BY TypeStep DEF IInv
<1>2. Kept' /\ Once'
  BY KeptStep, OnceStep DEF IInv
<1>3. Paired' /\ OneThreadPerPost'
  BY PairedStep DEF IInv
<1>4. Noticed' /\ Matched'
  BY NoticedStep, MatchedStep DEF IInv
<1>5. QED  BY <1>1, <1>2, <1>3, <1>4 DEF IInv

LEMMA Inductive == Spec => []IInv
<1>1. QED  BY InitIInv, NextIInv, PTL DEF Spec

(* Every variable keeps its type.                                           *)
THEOREM TypeCorrect == Spec => []TypeOK
<1>1. IInv => TypeOK
  BY DEF IInv
<1>2. QED  BY <1>1, Inductive, PTL

(* The id and the token of a post are those of one thread, however many     *)
(* requests load threads through the scraper (scraper.go:110-135).          *)
THEOREM OneThread == Spec => []OneThreadPerPost
<1>1. IInv => OneThreadPerPost
  BY DEF IInv
<1>2. QED  BY <1>1, Inductive, PTL

(* A post reaches the thread its request names, unless loads overlapped or  *)
(* a page was bare (scraper.go:2200-2292).                                  *)
THEOREM Lands == Spec => []LandsIfUndisturbed
<1>1. IInv => LandsIfUndisturbed
  BY DEF IInv, Matched, LandsIfUndisturbed
<1>2. QED  BY <1>1, Inductive, PTL

(* A post is repeated only if the session was being renewed meanwhile       *)
(* (api.go:95-125).                                                         *)
THEOREM Repeats == Spec => []RepeatNeedsRenewal
<1>1. IInv => RepeatNeedsRenewal
  BY DEF IInv, Once, RepeatNeedsRenewal, TypeOK
<1>2. QED  BY <1>1, Inductive, PTL

==============================================================================
