--------------------------- MODULE PushSenderProofs ---------------------------
(***************************************************************************)
(* What PushSender promises, for every number of workers, tokens, counters *)
(* and threads, every queue size, concurrency and number of retries: its   *)
(* types, that a job leaves nothing behind, which notification replaces    *)
(* which, and that live tokens stay.                                       *)
(***************************************************************************)
EXTENDS PushSender, FiniteSetTheorems, TLAPS

------------------------------------------------------------------------------
(* A POST that waits has attempts left.                                     *)
Waits == IsFiniteSet(sends) /\ \A s \in sends : s.at = "wait" => s.try < MaxRetries

(* What is due is still to hand out or on its way, and only a worker that   *)
(* fans out has any.                                                        *)
OnItsWay ==
    \A w \in Workers :
        /\ \A p \in due[w] : p \in todo[w] \/ \E s \in Own(w) : s.pair = p
        /\ at[w] # "fan" => todo[w] = {} /\ Own(w) = {}

(* Jobs are taken in the order they were found, and a POST is of the job    *)
(* its worker holds.                                                        *)
Numbered ==
    /\ \A i \in 1..Len(queue) : queue[i].n <= found
    /\ \A i, j \in 1..Len(queue) : i < j => queue[i].n < queue[j].n
    /\ \A w \in Workers : at[w] # "idle" =>
          job[w] \in Jobs /\ job[w].n <= found
          /\ \A i \in 1..Len(queue) : job[w].n < queue[i].n
    /\ \A p \in Pairs : tray[p] <= found /\ \A i \in 1..Len(queue) : tray[p] < queue[i].n
    /\ \A s \in sends : s.n = job[s.w].n /\ at[s.w] # "idle"

(* Who holds a job beside another is known, and so is one whose             *)
(* notifications a later job has replaced.                                  *)
Beside ==
    /\ \A v, w \in Workers : v # w /\ at[v] # "idle" /\ at[w] # "idle" => job[v].n \in beside
    /\ \A w \in Workers, p \in Pairs :
          at[w] # "idle" /\ tray[p] > job[w].n => job[w].n \in beside

IInv == TypeOK /\ Waits /\ OnItsWay /\ Numbered /\ Beside

(* The initial state satisfies the inductive invariant.                     *)
LEMMA InitIInv == Init => IInv
<1> SUFFICES ASSUME Init PROVE IInv
  OBVIOUS
<1> USE PushAssumption DEF Init
<1>1. \A w \in Workers : Own(w) = {} /\ Cardinality(Own(w)) = 0
  BY FS_EmptySet DEF Own
<1>2. TypeOK
  BY <1>1 DEF TypeOK
<1>3. Waits
  BY FS_EmptySet DEF Waits
<1>4. OnItsWay
  BY <1>1 DEF OnItsWay
<1>5. Numbered /\ Beside
  BY DEF Numbered, Beside
<1>6. QED  BY <1>2, <1>3, <1>4, <1>5 DEF IInv

------------------------------------------------------------------------------
(* What becomes of a POST.                                                  *)
GoesOn(s) == \E a \in {"token", "post", "wait"}, k \in 0..MaxRetries :
               Becomes(s, a, k) /\ (a = "wait" => k < MaxRetries)

LEMMA PostForms ==
    ASSUME TypeOK, Waits, NEW s \in sends, Post(s) \/ Fetched(s)
    PROVE  /\ (GoesOn(s) /\ UNCHANGED due) \/ Ended(s)
           /\ UNCHANGED <<found, queue, at, job, todo, alive, beside>>
           /\ UNCHANGED tray \/ Shows(s)
           /\ table' \subseteq table
<1> USE PushAssumption DEF GoesOn
<1>1. s.try \in 0..MaxRetries /\ MaxRetries \in Nat
  BY DEF TypeOK, Sends
<1>2. Again(s) => (GoesOn(s) /\ UNCHANGED due) \/ Ended(s)
  BY <1>1 DEF Again, GivesUp
<1>3. CASE Delivered(s)
  BY <1>2, <1>3 DEF Delivered
<1>4. CASE NotDelivered(s)
  BY <1>2, <1>4 DEF NotDelivered
<1>5. CASE Waited(s)
  <2>1. s.try + 1 \in 0..MaxRetries
    BY <1>1, <1>5 DEF Waited, Waits
  <2>2. QED  BY <1>5, <2>1 DEF Waited
<1>6. CASE Fetched(s)
  BY <1>1, <1>6 DEF Fetched
<1>7. QED  BY <1>3, <1>4, <1>5, <1>6 DEF Post

(* The POSTs of a worker, when one of them ends or goes on.                 *)
LEMMA OwnPosts ==
    ASSUME TypeOK, Waits, NEW s \in sends, GoesOn(s) \/ Ended(s)
    PROVE  /\ sends' \subseteq Sends /\ IsFiniteSet(sends')
           /\ \A w \in Workers : Cardinality(Own(w)') <= Concurrency
           /\ \A t \in sends' : t.at = "wait" => t.try < MaxRetries
           /\ \A t \in sends' \ sends : t.w = s.w /\ t.n = s.n /\ t.pair = s.pair
           /\ \A t \in sends \ sends' : t = s
           /\ GoesOn(s) => \E t \in sends' : t.w = s.w /\ t.pair = s.pair
<1>1. s \in Sends
  BY DEF TypeOK
<1>2. \A w \in Workers : IsFiniteSet(Own(w)) /\ Cardinality(Own(w)) \in Nat
  BY FS_Subset, FS_CardinalityType DEF Waits, Own
<1>3. ASSUME NEW a \in {"token", "post", "wait"}, NEW k \in 0..MaxRetries,
             Becomes(s, a, k), a = "wait" => k < MaxRetries
      PROVE  /\ sends' \subseteq Sends /\ IsFiniteSet(sends')
             /\ \A w \in Workers : Cardinality(Own(w)') <= Concurrency
             /\ \A t \in sends' : t.at = "wait" => t.try < MaxRetries
             /\ \A t \in sends' \ sends : t.w = s.w /\ t.n = s.n /\ t.pair = s.pair
             /\ \A t \in sends \ sends' : t = s
             /\ \E t \in sends' : t.w = s.w /\ t.pair = s.pair
  <2> DEFINE u == [s EXCEPT !.at = a, !.try = k]
  <2>1. /\ sends' = (sends \ {s}) \cup {u}
        /\ u \in Sends /\ u.w = s.w /\ u.n = s.n /\ u.pair = s.pair /\ u.at = a /\ u.try = k
    BY <1>1, <1>3 DEF Becomes, Sends
  <2> HIDE DEF u
  <2>2. IsFiniteSet(sends \ {s}) /\ IsFiniteSet(sends')
    BY <2>1, FS_RemoveElement, FS_AddElement DEF Waits
  <2>3. ASSUME NEW w \in Workers PROVE Cardinality(Own(w)') <= Concurrency
    <3>1. CASE w = s.w
      <4>1. Own(w)' = (Own(w) \ {s}) \cup {u} /\ s \in Own(w)
        BY <2>1, <3>1 DEF Own
      <4>2. IsFiniteSet(Own(w) \ {s}) /\ Cardinality(Own(w) \ {s}) = Cardinality(Own(w)) - 1
        BY <1>2, <4>1, FS_RemoveElement
      <4>3. Cardinality((Own(w) \ {s}) \cup {u}) \in {Cardinality(Own(w) \ {s}), Cardinality(Own(w) \ {s}) + 1}
        BY <4>2, FS_AddElement
      <4>4. Cardinality(Own(w)) <= Concurrency /\ Concurrency \in Nat
        BY PushAssumption DEF TypeOK
      <4>5. Cardinality(Own(w)') \in {Cardinality(Own(w)) - 1, Cardinality(Own(w))}
        BY <1>2, <4>1, <4>2, <4>3
      <4>6. QED  BY <1>2, <4>4, <4>5
    <3>2. CASE w # s.w
      <4>1. Own(w)' = Own(w)
        BY <2>1, <3>2 DEF Own
      <4>2. QED  BY <4>1 DEF TypeOK
    <3>3. QED  BY <3>1, <3>2
  <2>4. QED  BY <1>3, <2>1, <2>2, <2>3 DEF TypeOK, Waits
<1>4. CASE Ended(s)
  <2>1. sends' = sends \ {s} /\ IsFiniteSet(sends')
    BY <1>4, FS_RemoveElement DEF Ended, Waits
  <2>2. ASSUME NEW w \in Workers PROVE Cardinality(Own(w)') <= Concurrency
    <3>1. Own(w)' \subseteq Own(w)
      BY <2>1 DEF Own
    <3>2. Cardinality(Own(w)') <= Cardinality(Own(w)) /\ Cardinality(Own(w)') \in Nat
      BY <1>2, <3>1, FS_Subset, FS_CardinalityType
    <3>3. QED  BY <1>2, <3>2, PushAssumption DEF TypeOK
  <2>3. GoesOn(s) => \E t \in sends' : t.w = s.w /\ t.pair = s.pair
    BY <1>3 DEF GoesOn
  <2>4. QED  BY <2>1, <2>2, <2>3 DEF TypeOK, Waits
<1>5. QED  BY <1>3, <1>4 DEF GoesOn

(* Every action keeps the types.                                            *)
LEMMA TypeStep ==
    ASSUME TypeOK, Waits, OnItsWay, Numbered, [Next]_vars
    PROVE  (TypeOK /\ Waits)'
<1> USE DEF TypeOK, Waits
<1>1. ASSUME NEW up \in SUBSET Kinds, NEW fav \in SUBSET Threads, Find(up, fav)
      PROVE  (TypeOK /\ Waits)'
  <2> DEFINE j == [n |-> found + 1, up |-> up, fav |-> fav]
  <2>1. j \in Jobs /\ j.n = found + 1 /\ found + 1 \in 0..MaxJobs
    BY <1>1, PushAssumption DEF Find, Jobs
  <2> HIDE DEF j
  <2>2. found' = j.n /\ queue' = IF Len(queue) < QueueSize THEN Append(queue, j) ELSE queue
    BY <1>1 DEF Find, j
  <2>3. queue' \in Seq(Jobs) /\ Len(queue') <= QueueSize
    BY <2>1, <2>2, PushAssumption
  <2>4. QED  BY <1>1, <2>1, <2>2, <2>3 DEF Find, workerVars, Own
<1>2. ASSUME NEW t \in Tokens, App(t) PROVE (TypeOK /\ Waits)'
  BY <1>2 DEF App, Register, Unregister, Expire, workerVars, Own
<1>3. ASSUME NEW w \in Workers, Take(w) PROVE (TypeOK /\ Waits)'
  <2>1. Head(queue) \in Jobs /\ Tail(queue) \in Seq(Jobs) /\ Len(Tail(queue)) <= QueueSize
    BY <1>3, PushAssumption DEF Take
  <2>2. at' \in [Workers -> {"idle", "webhook", "ntfy", "read", "fan"}]
    BY <1>3 DEF Take, Goes
  <2>3. \A j \in Jobs : j.n \in 1..MaxJobs
    BY DEF Jobs
  <2>4. \A v \in Workers : at[v] # "idle" => job[v].n \in 1..MaxJobs
    BY <2>3 DEF Numbered
  <2>5. beside' \subseteq 1..MaxJobs
    BY <1>3, <2>1, <2>3, <2>4 DEF Take
  <2>6. job' \in [Workers -> Jobs \cup {None}]
    BY <1>3, <2>1 DEF Take
  <2>7. QED  BY <1>3, <2>1, <2>2, <2>5, <2>6 DEF Take, Own
<1>4. ASSUME NEW w \in Workers, SendWebhook(w) PROVE (TypeOK /\ Waits)'
  BY <1>4 DEF SendWebhook, Goes, Own
<1>5. ASSUME NEW w \in Workers, PublishNtfy(w) PROVE (TypeOK /\ Waits)'
  BY <1>5 DEF PublishNtfy, Goes, Own
<1>6. ASSUME NEW w \in Workers, ReadTokens(w) PROVE (TypeOK /\ Waits)'
  <2>1. PICK ts \in GetFCMTokens :
           LET all == Pushes(job[w]) \X ts IN
           /\ Goes(w, "read", IF all = {} THEN "idle" ELSE "fan")
           /\ todo' = [todo EXCEPT ![w] = all] /\ due' = [due EXCEPT ![w] = all]
    BY <1>6 DEF ReadTokens
  <2>2. job[w].up \subseteq Kinds /\ job[w].fav \subseteq Threads
    BY <1>6 DEF Jobs, None
  <2>3. Pushes(job[w]) \X ts \in SUBSET Pairs
    BY <2>1, <2>2 DEF Pushes, Pairs, Tags, GetFCMTokens
  <2>4. todo' \in [Workers -> SUBSET Pairs] /\ due' \in [Workers -> SUBSET Pairs]
    BY <2>1, <2>3
  <2>5. at' \in [Workers -> {"idle", "webhook", "ntfy", "read", "fan"}]
    BY <2>1 DEF Goes
  <2>6. QED  BY <1>6, <2>4, <2>5 DEF ReadTokens, Own
<1>7. ASSUME NEW w \in Workers, Hand(w) PROVE (TypeOK /\ Waits)'
  <2>1. PICK p \in todo[w] :
           /\ todo' = [todo EXCEPT ![w] = @ \ {p}]
           /\ sends' = sends \cup {[w |-> w, n |-> job[w].n, pair |-> p, try |-> 0, at |-> "token"]}
    BY <1>7 DEF Hand
  <2> DEFINE u == [w |-> w, n |-> job[w].n, pair |-> p, try |-> 0, at |-> "token"]
  <2>2. u \in Sends /\ u.w = w /\ u.at = "token"
    <3>1. job[w].n \in 1..MaxJobs
      BY <1>7 DEF Hand, Numbered, Jobs
    <3>2. p \in Pairs /\ 0 \in 0..MaxRetries
      BY <2>1, PushAssumption
    <3>3. QED  BY <3>1, <3>2 DEF Sends
  <2> HIDE DEF u
  <2>3. sends' = sends \cup {u} /\ IsFiniteSet(sends')
    BY <2>1, FS_AddElement DEF u
  <2>4. ASSUME NEW v \in Workers PROVE Cardinality(Own(v)') <= Concurrency
    <3>1. CASE v = w
      <4>1. Own(v)' = Own(v) \cup {u} /\ IsFiniteSet(Own(v))
        BY <2>2, <2>3, <3>1, FS_Subset DEF Own
      <4>2. Cardinality(Own(v)) \in Nat /\ Cardinality(Own(v)) < Concurrency /\ Concurrency \in Nat
        BY <1>7, <3>1, <4>1, FS_CardinalityType, PushAssumption DEF Hand
      <4>3. Cardinality(Own(v) \cup {u}) \in {Cardinality(Own(v)), Cardinality(Own(v)) + 1}
        BY <4>1, FS_AddElement
      <4>4. QED  BY <4>1, <4>2, <4>3
    <3>2. CASE v # w
      <4>1. Own(v)' = Own(v)
        BY <2>2, <2>3, <3>2 DEF Own
      <4>2. QED  BY <4>1
    <3>3. QED  BY <3>1, <3>2
  <2>5. todo' \in [Workers -> SUBSET Pairs]
    BY <2>1
  <2>6. QED  BY <1>7, <2>2, <2>3, <2>4, <2>5 DEF Hand
<1>8. ASSUME NEW w \in Workers, Finish(w) PROVE (TypeOK /\ Waits)'
  BY <1>8 DEF Finish, Goes, Own
<1>9. ASSUME NEW s \in sends, Post(s) \/ Fetched(s) PROVE (TypeOK /\ Waits)'
  <2>1. /\ (GoesOn(s) /\ UNCHANGED due) \/ Ended(s)
        /\ UNCHANGED <<found, queue, at, job, todo, alive, beside>>
        /\ UNCHANGED tray \/ Shows(s)
        /\ table' \subseteq table
    BY <1>9, PostForms
  <2>2. /\ sends' \subseteq Sends /\ IsFiniteSet(sends')
        /\ \A w \in Workers : Cardinality(Own(w)') <= Concurrency
        /\ \A t \in sends' : t.at = "wait" => t.try < MaxRetries
    BY <2>1, OwnPosts
  <2>3. due' \in [Workers -> SUBSET Pairs]
    BY <2>1 DEF Ended
  <2>4. tray' \in [Pairs -> 0..MaxJobs]
    <3>1. s.n \in 0..MaxJobs
      BY PushAssumption DEF Sends
    <3>2. QED  BY <2>1, <3>1 DEF Shows
  <2>5. QED  BY <2>1, <2>2, <2>3, <2>4
<1>10. CASE UNCHANGED vars
  BY <1>10 DEF vars, workerVars, Own
<1>11. QED
  BY <1>1, <1>2, <1>3, <1>4, <1>5, <1>6, <1>7, <1>8, <1>9, <1>10 DEF Next, Work

(* What is due is never left behind.                                        *)
LEMMA OnItsWayStep ==
    ASSUME TypeOK, Waits, OnItsWay, [Next]_vars
    PROVE  OnItsWay'
<1> USE DEF OnItsWay, Own
<1>1. ASSUME NEW up \in SUBSET Kinds, NEW fav \in SUBSET Threads, Find(up, fav)
      PROVE  OnItsWay'
  BY <1>1 DEF Find, workerVars
<1>2. ASSUME NEW t \in Tokens, App(t) PROVE OnItsWay'
  BY <1>2 DEF App, Register, Unregister, Expire, workerVars
<1>3. ASSUME NEW w \in Workers, Take(w) PROVE OnItsWay'
  BY <1>3 DEF Take, Goes
<1>4. ASSUME NEW w \in Workers, SendWebhook(w) PROVE OnItsWay'
  BY <1>4 DEF SendWebhook, Goes, TypeOK
<1>5. ASSUME NEW w \in Workers, PublishNtfy(w) PROVE OnItsWay'
  BY <1>5 DEF PublishNtfy, Goes, TypeOK
<1>6. ASSUME NEW w \in Workers, ReadTokens(w) PROVE OnItsWay'
  <2>1. PICK ts \in GetFCMTokens :
           LET all == Pushes(job[w]) \X ts IN
           /\ Goes(w, "read", IF all = {} THEN "idle" ELSE "fan")
           /\ todo' = [todo EXCEPT ![w] = all] /\ due' = [due EXCEPT ![w] = all]
    BY <1>6 DEF ReadTokens
  <2>2. sends' = sends /\ at \in [Workers -> {"idle", "webhook", "ntfy", "read", "fan"}] /\ todo \in [Workers -> SUBSET Pairs]
        /\ due \in [Workers -> SUBSET Pairs]
    BY <1>6 DEF ReadTokens, TypeOK
  <2>3. QED  BY <2>1, <2>2 DEF Goes
<1>7. ASSUME NEW w \in Workers, Hand(w) PROVE OnItsWay'
  <2>1. PICK p \in todo[w] :
           /\ todo' = [todo EXCEPT ![w] = @ \ {p}]
           /\ sends' = sends \cup {[w |-> w, n |-> job[w].n, pair |-> p, try |-> 0, at |-> "token"]}
    BY <1>7 DEF Hand
  <2> DEFINE u == [w |-> w, n |-> job[w].n, pair |-> p, try |-> 0, at |-> "token"]
  <2>2. u.w = w /\ u.pair = p
    OBVIOUS
  <2> HIDE DEF u
  <2>3. sends' = sends \cup {u}
    BY <2>1 DEF u
  <2>4. todo \in [Workers -> SUBSET Pairs] /\ at' = at /\ due' = due /\ at[w] = "fan"
    BY <1>7 DEF Hand, TypeOK
  <2>5. ASSUME NEW v \in Workers
        PROVE  todo'[v] = IF v = w THEN todo[v] \ {p} ELSE todo[v]
    BY <2>1, <2>4
  <2>6. ASSUME NEW v \in Workers
        PROVE  Own(v)' = IF v = w THEN Own(v) \cup {u} ELSE Own(v)
    BY <2>2, <2>3
  <2>7. ASSUME NEW v \in Workers, NEW q \in due'[v]
        PROVE  q \in todo'[v] \/ \E t \in Own(v)' : t.pair = q
    <3>1. q \in todo[v] \/ \E t \in Own(v) : t.pair = q
      BY <2>4, <2>7
    <3>2. CASE q \in todo[v] /\ (v # w \/ q # p)
      <4>1. q \in todo[v] \ {p} \/ (v # w /\ q \in todo[v])
        BY <3>2
      <4>2. q \in todo'[v]
        BY <2>5, <4>1
      <4>3. QED  BY <4>2
    <3>3. CASE v = w /\ q = p
      BY <2>2, <2>6, <3>3
    <3>4. CASE \E t \in Own(v) : t.pair = q
      BY <2>6, <3>4
    <3>5. QED  BY <3>1, <3>2, <3>3, <3>4
  <2>8. ASSUME NEW v \in Workers, at'[v] # "fan" PROVE todo'[v] = {} /\ Own(v)' = {}
    BY <2>4, <2>5, <2>6, <2>8
  <2>9. QED  BY <2>7, <2>8
<1>8. ASSUME NEW w \in Workers, Finish(w) PROVE OnItsWay'
  BY <1>8 DEF Finish, Goes, TypeOK, Own
<1>9. ASSUME NEW s \in sends, Post(s) \/ Fetched(s) PROVE OnItsWay'
  <2>1. /\ (GoesOn(s) /\ UNCHANGED due) \/ Ended(s)
        /\ UNCHANGED <<found, queue, at, job, todo, alive, beside>>
        /\ UNCHANGED tray \/ Shows(s)
    BY <1>9, PostForms
  <2>2. /\ \A t \in sends' \ sends : t.w = s.w /\ t.n = s.n /\ t.pair = s.pair
        /\ \A t \in sends \ sends' : t = s
        /\ GoesOn(s) => \E t \in sends' : t.w = s.w /\ t.pair = s.pair
    BY <2>1, OwnPosts
  <2>3. s.w \in Workers /\ s.pair \in Pairs /\ s.n \in Nat
    BY DEF TypeOK, Sends
  <2>4. ASSUME NEW w \in Workers, NEW p \in due'[w]
        PROVE  p \in todo'[w] \/ \E t \in Own(w)' : t.pair = p
    <3>1. p \in due[w]
      BY <2>1, <2>4 DEF Ended, TypeOK
    <3>2. CASE p \in todo[w]
      BY <2>1, <3>2
    <3>3. ASSUME NEW t \in Own(w), t.pair = p
          PROVE  \E u \in Own(w)' : u.pair = p
      <4>1. CASE t \in sends'
        BY <3>3, <4>1
      <4>2. CASE t = s /\ GoesOn(s)
        BY <2>2, <3>3, <4>2
      <4>3. CASE t = s /\ Ended(s)
        BY <2>3, <2>4, <3>3, <4>3 DEF Ended, TypeOK
      <4>4. QED  BY <2>1, <2>2, <4>1, <4>2, <4>3
    <3>4. QED  BY <3>1, <3>2, <3>3
  <2>5. ASSUME NEW w \in Workers, at'[w] # "fan"
        PROVE  todo'[w] = {} /\ Own(w)' = {}
    <3>1. at[w] # "fan" /\ todo'[w] = {} /\ Own(w) = {}
      BY <2>1, <2>5
    <3>2. s.w # w
      BY <3>1
    <3>3. QED  BY <2>2, <3>1, <3>2
  <2>6. QED  BY <2>4, <2>5
<1>10. CASE UNCHANGED vars
  BY <1>10 DEF vars, workerVars
<1>11. QED
  BY <1>1, <1>2, <1>3, <1>4, <1>5, <1>6, <1>7, <1>8, <1>9, <1>10 DEF Next, Work

(* Jobs stay in order, from the queue to the notifications.                 *)
LEMMA NumberedStep ==
    ASSUME TypeOK, Waits, OnItsWay, Numbered, [Next]_vars
    PROVE  Numbered'
<1> USE DEF Numbered
<1>1. ASSUME NEW up \in SUBSET Kinds, NEW fav \in SUBSET Threads, Find(up, fav)
      PROVE  Numbered'
  <2> DEFINE j == [n |-> found + 1, up |-> up, fav |-> fav]
  <2>1. j \in Jobs /\ j.n = found + 1 /\ found \in Nat
    BY <1>1, PushAssumption DEF Find, Jobs, TypeOK
  <2> HIDE DEF j
  <2>2. /\ found' = j.n /\ queue' \in {queue, Append(queue, j)}
        /\ UNCHANGED <<at, job, sends, tray>>
    BY <1>1 DEF Find, j, workerVars
  <2>3. queue \in Seq(Jobs) /\ (\A k \in Jobs : k.n \in Nat) /\ tray \in [Pairs -> 0..MaxJobs]
    BY PushAssumption DEF TypeOK, Jobs
  <2>4. CASE queue' = queue
    BY <2>1, <2>2, <2>3, <2>4
  <2>5. CASE queue' = Append(queue, j)
    <3>1. /\ Len(queue') = Len(queue) + 1 /\ Len(queue) \in Nat /\ queue'[Len(queue) + 1] = j
          /\ \A i \in 1..Len(queue) : queue'[i] = queue[i] /\ queue[i].n \in Nat
      BY <2>1, <2>3, <2>5
    <3>2. /\ \A i \in 1..Len(queue') : queue'[i].n <= found'
          /\ \A i, k \in 1..Len(queue') : i < k => queue'[i].n < queue'[k].n
      BY <2>1, <2>2, <3>1
    <3>3. ASSUME NEW n \in Nat, n <= found, \A i \in 1..Len(queue) : n < queue[i].n
          PROVE  n <= found' /\ \A i \in 1..Len(queue') : n < queue'[i].n
      BY <2>1, <2>2, <3>1, <3>3
    <3>4. QED  BY <2>2, <2>3, <3>2, <3>3, PushAssumption
  <2>6. QED  BY <2>2, <2>4, <2>5
<1>2. ASSUME NEW t \in Tokens, App(t) PROVE Numbered'
  BY <1>2 DEF App, Register, Unregister, Expire, workerVars
<1>3. ASSUME NEW w \in Workers, Take(w) PROVE Numbered'
  <2>1. /\ queue \in Seq(Jobs) /\ queue # <<>> /\ (\A k \in Jobs : k.n \in Nat) /\ found \in Nat
        /\ tray \in [Pairs -> 0..MaxJobs] /\ job \in [Workers -> Jobs \cup {None}]
        /\ at \in [Workers -> {"idle", "webhook", "ntfy", "read", "fan"}]
    BY <1>3, PushAssumption DEF Take, TypeOK, Jobs
  <2>2. /\ queue' = Tail(queue) /\ job' = [job EXCEPT ![w] = queue[1]]
        /\ at' = [at EXCEPT ![w] = "webhook"]
        /\ UNCHANGED <<found, sends, tray>>
    BY <1>3 DEF Take, Goes
  <2>3. /\ Len(queue') = Len(queue) - 1 /\ Len(queue) \in Nat \ {0}
        /\ \A i \in 1..Len(queue') : i + 1 \in 1..Len(queue) /\ queue'[i] = queue[i + 1]
    BY <2>1, <2>2
  <2>4. /\ \A i \in 1..Len(queue) : queue[i] \in Jobs /\ queue[i].n \in Nat
        /\ 1 \in 1..Len(queue)
    BY <2>1, <2>3
  <2>5. /\ \A i \in 1..Len(queue') : queue'[i].n <= found'
        /\ \A i, k \in 1..Len(queue') : i < k => queue'[i].n < queue'[k].n
        /\ \A i \in 1..Len(queue') : queue[1].n < queue'[i].n
    BY <2>2, <2>3, <2>4
  <2>6. \A v \in Workers : at'[v] # "idle" =>
           job'[v] \in Jobs /\ job'[v].n <= found'
           /\ \A i \in 1..Len(queue') : job'[v].n < queue'[i].n
    BY <2>1, <2>2, <2>3, <2>4, <2>5
  <2>7. \A p \in Pairs : tray'[p] <= found' /\ \A i \in 1..Len(queue') : tray'[p] < queue'[i].n
    BY <2>2, <2>3
  <2>8. \A s \in sends' : s.n = job'[s.w].n /\ at'[s.w] # "idle"
    <3>1. \A s \in sends : s.w \in Workers /\ s.w # w
      BY <1>3 DEF Take, Goes, TypeOK, Sends
    <3>2. QED  BY <2>1, <2>2, <3>1
  <2>9. QED  BY <2>5, <2>6, <2>7, <2>8
<1>4. ASSUME NEW w \in Workers, SendWebhook(w) PROVE Numbered'
  BY <1>4 DEF SendWebhook, Goes, TypeOK
<1>5. ASSUME NEW w \in Workers, PublishNtfy(w) PROVE Numbered'
  BY <1>5 DEF PublishNtfy, Goes, TypeOK
<1>6. ASSUME NEW w \in Workers, ReadTokens(w) PROVE Numbered'
  <2>1. /\ at[w] = "read" /\ (\A v \in Workers : v # w => at'[v] = at[v])
        /\ UNCHANGED <<found, queue, job, sends, tray>>
    BY <1>6 DEF ReadTokens, Goes, TypeOK
  <2>2. \A s \in sends : s.w \in Workers /\ s.w # w
    BY <2>1 DEF OnItsWay, Own, TypeOK, Sends
  <2>3. QED  BY <2>1, <2>2
<1>7. ASSUME NEW w \in Workers, Hand(w) PROVE Numbered'
  <2>1. PICK p \in todo[w] :
           sends' = sends \cup {[w |-> w, n |-> job[w].n, pair |-> p, try |-> 0, at |-> "token"]}
    BY <1>7 DEF Hand
  <2>2. at[w] = "fan" /\ UNCHANGED <<found, queue, at, job, tray>>
    BY <1>7 DEF Hand
  <2>3. QED  BY <2>1, <2>2
<1>8. ASSUME NEW w \in Workers, Finish(w) PROVE Numbered'
  <2>1. /\ at[w] = "fan" /\ (\A v \in Workers : v # w => at'[v] = at[v])
        /\ at'[w] = "idle" /\ UNCHANGED <<found, queue, job, sends, tray>>
    BY <1>8 DEF Finish, Goes, TypeOK
  <2>2. \A s \in sends : s.w \in Workers /\ s.w # w
    BY <1>8 DEF Finish, Own, TypeOK, Sends
  <2>3. QED  BY <2>1, <2>2
<1>9. ASSUME NEW s \in sends, Post(s) \/ Fetched(s) PROVE Numbered'
  <2>1. /\ (GoesOn(s) /\ UNCHANGED due) \/ Ended(s)
        /\ UNCHANGED <<found, queue, at, job, todo, alive, beside>>
        /\ UNCHANGED tray \/ Shows(s)
    BY <1>9, PostForms
  <2>2. /\ \A t \in sends' \ sends : t.w = s.w /\ t.n = s.n /\ t.pair = s.pair
        /\ \A t \in sends \ sends' : t = s
        /\ GoesOn(s) => \E t \in sends' : t.w = s.w /\ t.pair = s.pair
    BY <2>1, OwnPosts
  <2>3. s.w \in Workers /\ s.pair \in Pairs /\ s.n \in Nat
    BY DEF TypeOK, Sends
  <2>4. \A t \in sends' : t.n = job[t.w].n /\ at[t.w] # "idle"
    BY <2>2
  <2>5. \A p \in Pairs : tray'[p] \in {tray[p], s.n}
    BY <2>1, <2>3 DEF Shows, TypeOK
  <2>6. s.n <= found /\ \A i \in 1..Len(queue) : s.n < queue[i].n
    BY <2>3
  <2>7. QED  BY <2>1, <2>4, <2>5, <2>6
<1>10. CASE UNCHANGED vars
  BY <1>10 DEF vars, workerVars
<1>11. QED
  BY <1>1, <1>2, <1>3, <1>4, <1>5, <1>6, <1>7, <1>8, <1>9, <1>10 DEF Next, Work

(* A later job replaces a notification only of one that it ran beside.      *)
LEMMA BesideStep ==
    ASSUME TypeOK, Waits, Numbered, Beside, [Next]_vars
    PROVE  Beside'
<1> USE DEF Beside
<1>1. ASSUME NEW up \in SUBSET Kinds, NEW fav \in SUBSET Threads, Find(up, fav)
      PROVE  Beside'
  BY <1>1 DEF Find, workerVars
<1>2. ASSUME NEW t \in Tokens, App(t) PROVE Beside'
  BY <1>2 DEF App, Register, Unregister, Expire, workerVars
<1>3. ASSUME NEW w \in Workers, Take(w) PROVE Beside'
  <2>1. /\ queue \in Seq(Jobs) /\ queue # <<>> /\ job \in [Workers -> Jobs \cup {None}]
        /\ at \in [Workers -> {"idle", "webhook", "ntfy", "read", "fan"}] /\ at[w] = "idle" /\ tray \in [Pairs -> 0..MaxJobs]
        /\ \A k \in Jobs : k.n \in Nat
    BY <1>3 DEF Take, Goes, TypeOK, Jobs
  <2>2. /\ job' = [job EXCEPT ![w] = queue[1]] /\ at' = [at EXCEPT ![w] = "webhook"]
        /\ UNCHANGED tray
    BY <1>3 DEF Take, Goes
  <2>3. 1 \in 1..Len(queue) /\ queue[1] \in Jobs
    BY <2>1
  <2>4. \A v \in Workers : v # w /\ at[v] # "idle" => {job[v].n, queue[1].n} \subseteq beside'
    BY <1>3, <2>1 DEF Take
  <2>5. beside \subseteq beside'
    BY <1>3 DEF Take
  <2>6. \A v \in Workers : v # w => job'[v] = job[v] /\ at'[v] = at[v]
    BY <2>1, <2>2
  <2>7. job'[w] = queue[1] /\ \A p \in Pairs : ~(tray'[p] > queue[1].n)
    BY <2>1, <2>2, <2>3 DEF Numbered
  <2>8. QED  BY <2>2, <2>4, <2>5, <2>6, <2>7
<1>4. ASSUME NEW w \in Workers, SendWebhook(w) PROVE Beside'
  BY <1>4 DEF SendWebhook, Goes, TypeOK
<1>5. ASSUME NEW w \in Workers, PublishNtfy(w) PROVE Beside'
  BY <1>5 DEF PublishNtfy, Goes, TypeOK
<1>6. ASSUME NEW w \in Workers, ReadTokens(w) PROVE Beside'
  BY <1>6 DEF ReadTokens, Goes, TypeOK
<1>7. ASSUME NEW w \in Workers, Hand(w) PROVE Beside'
  BY <1>7 DEF Hand, Goes
<1>8. ASSUME NEW w \in Workers, Finish(w) PROVE Beside'
  BY <1>8 DEF Finish, Goes, TypeOK, Own
<1>9. ASSUME NEW s \in sends, Post(s) \/ Fetched(s) PROVE Beside'
  <2>1. /\ (GoesOn(s) /\ UNCHANGED due) \/ Ended(s)
        /\ UNCHANGED <<found, queue, at, job, todo, alive, beside>>
        /\ UNCHANGED tray \/ Shows(s)
    BY <1>9, PostForms
  <2>2. /\ \A t \in sends' \ sends : t.w = s.w /\ t.n = s.n /\ t.pair = s.pair
        /\ \A t \in sends \ sends' : t = s
        /\ GoesOn(s) => \E t \in sends' : t.w = s.w /\ t.pair = s.pair
    BY <2>1, OwnPosts
  <2>3. s.w \in Workers /\ s.pair \in Pairs /\ s.n \in Nat
    BY DEF TypeOK, Sends
  <2>4. \A p \in Pairs : tray'[p] \in {tray[p], s.n}
    BY <2>1, <2>3 DEF Shows, TypeOK
  <2>5. s.n = job[s.w].n /\ at[s.w] # "idle"
    BY DEF Numbered
  <2>6. ASSUME NEW w \in Workers, at[w] # "idle", s.n > job[w].n PROVE job[w].n \in beside
    <3>1. w # s.w
      <4>1. job[w].n \in Nat
        BY <2>6 DEF Numbered, Jobs
      <4>2. QED  BY <2>3, <2>5, <2>6, <4>1
    <3>2. QED  BY <2>3, <2>5, <2>6, <3>1
  <2>7. QED  BY <2>1, <2>4, <2>6
<1>10. CASE UNCHANGED vars
  BY <1>10 DEF vars, workerVars
<1>11. QED
  BY <1>1, <1>2, <1>3, <1>4, <1>5, <1>6, <1>7, <1>8, <1>9, <1>10 DEF Next, Work

------------------------------------------------------------------------------
(* Every step keeps the inductive invariant.                                *)
LEMMA NextIInv == IInv /\ [Next]_vars => IInv'
BY TypeStep, OnItsWayStep, NumberedStep, BesideStep DEF IInv

LEMMA Inductive == FairSpec => []IInv
<1>1. QED  BY InitIInv, NextIInv, PTL DEF FairSpec, Spec

(* Every variable keeps its type, and no job has more POSTs than goroutines.*)
THEOREM TypeCorrect == FairSpec => []TypeOK
<1>1. IInv => TypeOK
  BY DEF IInv
<1>2. QED  BY <1>1, Inductive, PTL

(* A job ends with nothing left to deliver (fcm.go:298-316).                *)
THEOREM NothingLeft == FairSpec => []NoneLeft
<1>1. IInv => NoneLeft
  BY DEF IInv, OnItsWay, NoneLeft
<1>2. QED  BY <1>1, Inductive, PTL

(* An older notification replaces a newer one only if the two jobs ran at   *)
(* the same time (bubbles.go:197-223).                                      *)
THEOREM OlderReplaces == FairSpec => OlderOnlyBeside
<1>1. IInv /\ [Next]_vars => [\A p \in Pairs : Replaced(p) => tray'[p] \in beside]_vars
  <2> SUFFICES ASSUME IInv, Next, NEW p \in Pairs, Replaced(p)
               PROVE  tray'[p] \in beside
    BY DEF Replaced, vars
  <2>1. tray[p] \in Nat /\ tray'[p] < tray[p]
    BY PushAssumption DEF IInv, TypeOK, Replaced
  <2>2. PICK s \in sends : Post(s) \/ Fetched(s)
    <3>1. ~\E w \in Workers : Work(w)
      BY <2>1 DEF Work, Take, SendWebhook, PublishNtfy, ReadTokens, Hand, Finish
    <3>2. ~\E t \in Tokens : App(t)
      BY <2>1 DEF App, Register, Unregister, Expire
    <3>3. ~\E up \in SUBSET Kinds, fav \in SUBSET Threads : Find(up, fav)
      <4> SUFFICES ASSUME NEW up \in SUBSET Kinds, NEW fav \in SUBSET Threads, Find(up, fav)
                   PROVE  FALSE
        OBVIOUS
      <4>1. tray' = tray
        BY DEF Find
      <4>2. QED  BY <2>1, <4>1
    <3>4. QED  BY <3>1, <3>2, <3>3 DEF Next
  <2>3. Shows(s) /\ s.pair = p
    BY <2>1, <2>2, PostForms DEF Shows, IInv, TypeOK
  <2>4. /\ tray'[p] = s.n /\ s.n = job[s.w].n /\ at[s.w] # "idle" /\ s.w \in Workers
    BY <2>3 DEF Shows, IInv, TypeOK, Numbered, Sends
  <2>5. QED  BY <2>1, <2>4 DEF IInv, Beside
<1>2. QED  BY <1>1, Inductive, PTL DEF OlderOnlyBeside, FairSpec, Spec

(* A live token is forgotten only by the app or after a message that was    *)
(* refused with 400 (fcm.go:210-225).                                       *)
THEOREM LiveTokens == FairSpec => LiveTokensStay
<1> DEFINE A == \A t \in Tokens : t \in (table \ table') \cap alive =>
                   Unregister(t) \/ \E s \in sends : s.pair[2] = t /\ s.pair[1] \in BadTags
<1>1. [Next]_vars => [A]_vars
  <2> SUFFICES ASSUME Next, NEW t \in Tokens, t \in (table \ table') \cap alive
               PROVE  Unregister(t) \/ \E s \in sends : s.pair[2] = t /\ s.pair[1] \in BadTags
    BY DEF vars
  <2>1. CASE \E u \in Tokens : App(u)
    BY <2>1 DEF App, Register, Unregister, Expire
  <2>2. ASSUME NEW s \in sends, Post(s) \/ Fetched(s)
        PROVE  s.pair[2] = t /\ s.pair[1] \in BadTags
    BY <2>2 DEF Post, Delivered, NotDelivered, Waited, Fetched, Stale
  <2>3. CASE \E w \in Workers : Work(w)
    BY <2>3 DEF Work, Take, SendWebhook, PublishNtfy, ReadTokens, Hand, Finish
  <2>4. CASE \E up \in SUBSET Kinds, fav \in SUBSET Threads : Find(up, fav)
    BY <2>4 DEF Find
  <2>5. QED  BY <2>1, <2>2, <2>3, <2>4 DEF Next
<1>2. QED  BY <1>1, PTL DEF LiveTokensStay, FairSpec, Spec

==============================================================================
