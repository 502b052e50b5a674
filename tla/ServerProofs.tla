----------------------------- MODULE ServerProofs -----------------------------
(***************************************************************************)
(* What the server and its event hub promise, for every number of clients, *)
(* streams and requests and every buffer: their types, that a stream loses *)
(* no event but from a full buffer, and who writes to the store late.      *)
(***************************************************************************)
EXTENDS Server, TLAPS

------------------------------------------------------------------------------
(* The event hub on its own: who is listed, who is sent to, and what is    *)
(* being written.                                                          *)
Sending == \A c \in Clients : dest[c] \subseteq {s \in Streams : Owner[s] = c}
Written0 == \A s \in Streams : phase[s] # "writing" => writing[s] = 0
HubInv  == TypeOK /\ ListedWhileServed /\ Sending /\ Written0 /\ Accounted

(* A channel gains what is appended and loses what is taken.                *)
LEMMA RangeAppend ==
    ASSUME NEW b \in Seq(Nat), NEW e \in Nat
    PROVE  Range(Append(b, e)) = Range(b) \cup {e}
<1>1. /\ DOMAIN Append(b, e) = 1..(Len(b) + 1) /\ DOMAIN b = 1..Len(b) /\ Len(b) \in Nat
      /\ Append(b, e)[Len(b) + 1] = e /\ \A i \in 1..Len(b) : Append(b, e)[i] = b[i]
  OBVIOUS
<1>2. QED  BY <1>1 DEF Range

LEMMA RangeTail ==
    ASSUME NEW b \in Seq(Nat), b # <<>>
    PROVE  Range(b) \subseteq {Head(b)} \cup Range(Tail(b))
<1>1. /\ DOMAIN b = 1..Len(b) /\ DOMAIN Tail(b) = 1..(Len(b) - 1) /\ Len(b) \in Nat \ {0}
      /\ Head(b) = b[1] /\ \A i \in 1..(Len(b) - 1) : Tail(b)[i] = b[i + 1]
  OBVIOUS
<1>2. \A i \in 1..Len(b) : i = 1 \/ (i - 1 \in 1..(Len(b) - 1) /\ b[i] = Tail(b)[i - 1])
  BY <1>1
<1>3. \A i \in 1..(Len(b) - 1) : Tail(b)[i] \in Range(Tail(b))
  BY <1>1 DEF Range
<1>4. \A i \in 1..Len(b) : b[i] \in {Head(b)} \cup Range(Tail(b))
  BY <1>1, <1>2, <1>3
<1>5. QED  BY <1>1, <1>4 DEF Range

(* The initial state satisfies the hub's invariant.                         *)
LEMMA HubInit == Init => HubInv
<1> SUFFICES ASSUME Init PROVE HubInv
  OBVIOUS
<1> USE HubAssumption DEF Init
<1>1. TypeOK
  <2>1. <<>> \in Seq(Nat) /\ Len(<<>>) <= Buffer
    OBVIOUS
  <2>2. buf \in [Streams -> Seq(Nat)] /\ \A s \in Streams : Len(buf[s]) <= Buffer
    BY <2>1
  <2>3. "off" \in Phases
    BY DEF Phases
  <2>4. QED  BY <2>2, <2>3 DEF TypeOK
<1>2. ListedWhileServed /\ Sending /\ Written0
  BY DEF ListedWhileServed, Sending, Written0, Listed, Listening
<1>3. Accounted
  BY DEF Accounted, Listening
<1>4. QED  BY <1>1, <1>2, <1>3 DEF HubInv

(* Every action of the hub keeps the types.                                 *)
LEMMA HubTypeStep ==
    ASSUME TypeOK, Sending, [Next]_hubVars
    PROVE  TypeOK'
<1> USE HubAssumption DEF TypeOK, Phases, Listed, Listening, samePublish
<1>1. ASSUME NEW s \in Streams, Connect(s) PROVE TypeOK'
  BY <1>1 DEF Connect, Move
<1>2. ASSUME NEW s \in Streams, HangUp(s) PROVE TypeOK'
  BY <1>2 DEF HangUp
<1>3. ASSUME NEW s \in Streams, Subscribe(s) PROVE TypeOK'
  BY <1>3 DEF Subscribe, Move
<1>4. ASSUME NEW s \in Streams, Return(s) PROVE TypeOK'
  BY <1>4 DEF Return, Leave, Move
<1>5. ASSUME NEW s \in Streams, Ping(s) PROVE TypeOK'
  BY <1>5 DEF Ping, Move
<1>6. ASSUME NEW s \in Streams, Take(s) PROVE TypeOK'
  BY <1>6 DEF Take, Move
<1>7. ASSUME NEW s \in Streams, Written(s) PROVE TypeOK'
  BY <1>7 DEF Written, Move
<1>8. ASSUME NEW s \in Streams, WriteFails(s) PROVE TypeOK'
  BY <1>8 DEF WriteFails, Leave, Move
<1>9. ASSUME NEW s \in Streams, Unsubscribe(s) PROVE TypeOK'
  BY <1>9 DEF Unsubscribe, Unlist, Move
<1>10. ASSUME NEW s \in Streams, CloseChannel(s) PROVE TypeOK'
  BY <1>10 DEF CloseChannel, Move
<1>11. ASSUME NEW c \in Clients, Publish(c) PROVE TypeOK'
  BY <1>11 DEF Publish
<1>12. ASSUME NEW c \in Clients, NEW s \in Streams, Send(c, s) PROVE TypeOK'
  <2>1. /\ dest' \in [Clients -> SUBSET Streams] /\ panicked' \in BOOLEAN
        /\ UNCHANGED <<phase, gone, subs, writing, sent, done, from>>
    BY <1>12 DEF Send
  <2>2. /\ buf' \in [Streams -> Seq(Nat)] /\ \A t \in Streams : Len(buf'[t]) <= Buffer
        /\ had' \in [Streams -> SUBSET Nat]
    <3>1. CASE phase[s] = "closed"
      BY <1>12, <3>1 DEF Send
    <3>2. CASE Offer(c, s) /\ Len(buf[s]) < Buffer
      <4>1. buf' = [buf EXCEPT ![s] = Append(@, sent[c])] /\ had' = had
        BY <3>2 DEF Offer
      <4>2. Append(buf[s], sent[c]) \in Seq(Nat) /\ Len(Append(buf[s], sent[c])) <= Buffer
        BY <3>2
      <4>3. QED  BY <4>1, <4>2
    <3>3. CASE Offer(c, s) /\ ~(Len(buf[s]) < Buffer)
      <4>1. buf' = buf /\ had' = [had EXCEPT ![s] = IF phase[s] \in Listening
                                                     THEN had[s] \cup {sent[c]} ELSE had[s]]
        BY <3>3 DEF Offer
      <4>2. {had[s], had[s] \cup {sent[c]}} \subseteq SUBSET Nat
        OBVIOUS
      <4>3. QED  BY <4>1, <4>2
    <3>4. QED  BY <1>12, <3>1, <3>2, <3>3 DEF Send
  <2>3. QED  BY <2>1, <2>2
<1>13. CASE Shutdown
  BY <1>13 DEF Shutdown
<1>14. CASE UNCHANGED hubVars
  BY <1>14 DEF hubVars
<1>15. QED
  BY <1>1, <1>2, <1>3, <1>4, <1>5, <1>6, <1>7, <1>8, <1>9, <1>10, <1>11, <1>12, <1>13,
     <1>14 DEF Next, Serve

(* The streams listed and sent to are those served.                         *)
LEMMA ListedStep ==
    ASSUME TypeOK, ListedWhileServed, Sending, Written0, [Next]_hubVars
    PROVE  (ListedWhileServed /\ Sending /\ Written0)'
<1> USE HubAssumption DEF TypeOK, ListedWhileServed, Sending, Written0, Listed, Listening, samePublish
<1>1. ASSUME NEW s \in Streams, Connect(s) PROVE (ListedWhileServed /\ Sending /\ Written0)'
  BY <1>1 DEF Connect, Move
<1>2. ASSUME NEW s \in Streams, HangUp(s) PROVE (ListedWhileServed /\ Sending /\ Written0)'
  BY <1>2 DEF HangUp
<1>3. ASSUME NEW s \in Streams, Subscribe(s) PROVE (ListedWhileServed /\ Sending /\ Written0)'
  BY <1>3 DEF Subscribe, Move
<1>4. ASSUME NEW s \in Streams, Return(s) PROVE (ListedWhileServed /\ Sending /\ Written0)'
  BY <1>4 DEF Return, Leave, Move
<1>5. ASSUME NEW s \in Streams, Ping(s) PROVE (ListedWhileServed /\ Sending /\ Written0)'
  BY <1>5 DEF Ping, Move
<1>6. ASSUME NEW s \in Streams, Take(s) PROVE (ListedWhileServed /\ Sending /\ Written0)'
  BY <1>6 DEF Take, Move
<1>7. ASSUME NEW s \in Streams, Written(s) PROVE (ListedWhileServed /\ Sending /\ Written0)'
  BY <1>7 DEF Written, Move
<1>8. ASSUME NEW s \in Streams, WriteFails(s) PROVE (ListedWhileServed /\ Sending /\ Written0)'
  BY <1>8 DEF WriteFails, Leave, Move
<1>9. ASSUME NEW s \in Streams, Unsubscribe(s) PROVE (ListedWhileServed /\ Sending /\ Written0)'
  BY <1>9 DEF Unsubscribe, Unlist, Move
<1>10. ASSUME NEW s \in Streams, CloseChannel(s) PROVE (ListedWhileServed /\ Sending /\ Written0)'
  BY <1>10 DEF CloseChannel, Move
<1>11. ASSUME NEW c \in Clients, Publish(c) PROVE (ListedWhileServed /\ Sending /\ Written0)'
  BY <1>11 DEF Publish
<1>12. ASSUME NEW c \in Clients, NEW s \in Streams, Send(c, s) PROVE (ListedWhileServed /\ Sending /\ Written0)'
  BY <1>12 DEF Send, Offer
<1>13. CASE Shutdown
  BY <1>13 DEF Shutdown
<1>14. CASE UNCHANGED hubVars
  BY <1>14 DEF hubVars
<1>15. QED
  BY <1>1, <1>2, <1>3, <1>4, <1>5, <1>6, <1>7, <1>8, <1>9, <1>10, <1>11, <1>12, <1>13,
     <1>14 DEF Next, Serve

(* No event is lost on its way.                                             *)
LEMMA AccountedStep ==
    ASSUME HubInv, [Next]_hubVars
    PROVE  Accounted'
<1> USE HubAssumption DEF HubInv, TypeOK, ListedWhileServed, Sending, Written0, Accounted, Listed, Listening, samePublish
<1>1. ASSUME NEW s \in Streams, Connect(s) PROVE Accounted'
  BY <1>1 DEF Connect, Move
<1>2. ASSUME NEW s \in Streams, HangUp(s) PROVE Accounted'
  BY <1>2 DEF HangUp
<1>3. ASSUME NEW s \in Streams, Subscribe(s) PROVE Accounted'
  BY <1>3 DEF Subscribe, Move
<1>4. ASSUME NEW s \in Streams, Return(s) PROVE Accounted'
  BY <1>4 DEF Return, Leave, Move
<1>5. ASSUME NEW s \in Streams, Ping(s) PROVE Accounted'
  BY <1>5 DEF Ping, Move
<1>6. ASSUME NEW s \in Streams, Take(s) PROVE Accounted'
  BY <1>6, RangeTail DEF Take, Move
<1>7. ASSUME NEW s \in Streams, Written(s) PROVE Accounted'
  BY <1>7 DEF Written, Move
<1>8. ASSUME NEW s \in Streams, WriteFails(s) PROVE Accounted'
  BY <1>8 DEF WriteFails, Leave, Move
<1>9. ASSUME NEW s \in Streams, Unsubscribe(s) PROVE Accounted'
  BY <1>9 DEF Unsubscribe, Unlist, Move
<1>10. ASSUME NEW s \in Streams, CloseChannel(s) PROVE Accounted'
  BY <1>10 DEF CloseChannel, Move
<1>11. ASSUME NEW c \in Clients, Publish(c) PROVE Accounted'
  <2> SUFFICES ASSUME NEW s \in Streams, phase'[s] \in Listening,
                      NEW e \in (from'[s] + 1)..sent'[Owner[s]]
               PROVE  \/ e \in had'[s] \cup Range(buf'[s]) \cup {writing'[s]}
                      \/ e = sent'[Owner[s]] /\ s \in dest'[Owner[s]]
    OBVIOUS
  <2>1. /\ UNCHANGED <<phase, from, had, buf, writing, subs>> /\ dest[c] = {}
        /\ sent' = [sent EXCEPT ![c] = sent[c] + 1] /\ dest' = [dest EXCEPT ![c] = subs[c]]
    BY <1>11 DEF Publish
  <2>2. CASE Owner[s] # c
    BY <2>1, <2>2
  <2>3. CASE Owner[s] = c /\ e = sent[c] + 1
    BY <2>1, <2>3
  <2>4. CASE Owner[s] = c /\ e # sent[c] + 1
    <3>1. e \in (from[s] + 1)..sent[c]
      BY <2>1, <2>4
    <3>2. QED  BY <2>1, <2>4, <3>1
  <2>5. QED  BY <2>2, <2>3, <2>4
<1>12. ASSUME NEW c \in Clients, NEW s \in Streams, Send(c, s) PROVE Accounted'
  <2> SUFFICES ASSUME NEW t \in Streams, phase'[t] \in Listening,
                      NEW e \in (from'[t] + 1)..sent'[Owner[t]]
               PROVE  \/ e \in had'[t] \cup Range(buf'[t]) \cup {writing'[t]}
                      \/ e = sent'[Owner[t]] /\ t \in dest'[Owner[t]]
    OBVIOUS
  <2>1. /\ UNCHANGED <<phase, from, writing, subs, sent>> /\ s \in dest[c] /\ Owner[s] = c
        /\ dest' = [dest EXCEPT ![c] = dest[c] \ {s}]
    BY <1>12 DEF Send
  <2>2. \/ e \in had[t] \cup Range(buf[t]) \cup {writing[t]}
        \/ e = sent[Owner[t]] /\ t \in dest[Owner[t]]
    BY <2>1
  <2>3. CASE t # s
    <3>1. had'[t] = had[t] /\ buf'[t] = buf[t]
      BY <1>12, <2>3 DEF Send, Offer
    <3>2. t \in dest[Owner[t]] => t \in dest'[Owner[t]]
      BY <2>1, <2>3
    <3>3. QED  BY <2>1, <2>2, <3>1, <3>2
  <2>4. CASE t = s
    <3>1. phase[s] # "closed" /\ Offer(c, s)
      BY <1>12, <2>1, <2>4 DEF Send
    <3>2. CASE buf' = [buf EXCEPT ![s] = Append(buf[s], sent[c])] /\ had' = had
      <4>1. Range(buf'[s]) = Range(buf[s]) \cup {sent[c]}
        BY <3>2, RangeAppend
      <4>2. QED  BY <2>1, <2>2, <2>4, <3>2, <4>1
    <3>3. CASE had'[s] = had[s] \cup {sent[c]} /\ buf' = buf
      BY <2>1, <2>2, <2>4, <3>3
    <3>4. QED  BY <2>1, <2>4, <3>1, <3>2, <3>3 DEF Offer
  <2>5. QED  BY <2>3, <2>4
<1>13. CASE Shutdown
  BY <1>13 DEF Shutdown
<1>14. CASE UNCHANGED hubVars
  BY <1>14 DEF hubVars
<1>15. QED
  BY <1>1, <1>2, <1>3, <1>4, <1>5, <1>6, <1>7, <1>8, <1>9, <1>10, <1>11, <1>12, <1>13,
     <1>14 DEF Next, Serve

(* Every step of the hub keeps its invariant.                               *)
LEMMA HubStep == HubInv /\ [Next]_hubVars => HubInv'
BY HubTypeStep, ListedStep, AccountedStep DEF HubInv

------------------------------------------------------------------------------
(* The jobs are over before the streams are told to end, and the requests   *)
(* before the store is closed, unless the 25 s were up; only a job          *)
(* publishes.                                                               *)
After == {"keepalive", "hub", "drain", "close", "exit", "exited"}

Ending ==
    /\ main \in After => \A c \in Clients : job[c] = "idle"
    /\ main \in {"close", "exit", "exited"} /\ ~timedOut => \A r \in Requests : req[r] = "idle"
    /\ closed => main \in {"exit", "exited"}
    /\ done => main \in {"drain", "close", "exit", "exited"}
    /\ \A c \in Clients : dest[c] # {} => job[c] = "publish"

IInv == ServerTypeOK /\ HubInv /\ Ending /\ LateWriters

(* The initial state satisfies the inductive invariant.                     *)
LEMMA InitIInv == ServerInit => IInv
<1> SUFFICES ASSUME ServerInit PROVE IInv
  OBVIOUS
<1>1. HubInv
  BY HubInit DEF ServerInit
<1>2. ServerTypeOK
  BY <1>1 DEF HubInv, ServerTypeOK, ServerInit
<1>3. Ending /\ LateWriters
  BY DEF Ending, LateWriters, After, ServerInit, Init
<1>4. QED  BY <1>1, <1>2, <1>3 DEF IInv

(* Every step of the server is one of the hub, or leaves it alone.          *)
LEMMA StepOfHub == [ServerNext]_vars => [Next]_hubVars
<1> SUFFICES ASSUME [ServerNext]_vars PROVE [Next]_hubVars
  OBVIOUS
<1>1. CASE \E c \in Clients : JobBegin(c) \/ JobLookup(c) \/ JobStep(c)
  BY <1>1 DEF JobBegin, JobLookup, JobStep, JobSave, JobChanged, JobSend, JobPublished, JobQuiet, Next
<1>2. CASE KeepTick \/ KeepReturn \/ KeepVisit \/ KeepDone
  BY <1>2 DEF KeepTick, KeepReturn, KeepVisit, KeepDone
<1>3. CASE \E r \in Requests : Arrive(r) \/ ReqStep(r)
  BY <1>3 DEF Arrive, ReqStep, ReqLookup, ReqLogin, ReqSet, ReqAnswer
<1>4. CASE \E s \in Streams : StreamOpens(s) \/ Stream(s) \/ StreamHangsUp(s)
  BY <1>4 DEF StreamOpens, Stream, StreamHangsUp, Next
<1>5. CASE Signal \/ MainStep
  BY <1>5 DEF Signal, MainStep, PollerStopped, KeepStop, HubShutdown, Drained, DrainTimesOut,
              StoreClose, Exit, Next
<1>6. CASE UNCHANGED vars
  BY <1>6 DEF vars
<1>7. QED  BY <1>1, <1>2, <1>3, <1>4, <1>5, <1>6 DEF ServerNext

(* Every action keeps the types.                                            *)
LEMMA ServerTypeStep ==
    ASSUME ServerTypeOK, TypeOK', [ServerNext]_vars
    PROVE  ServerTypeOK'
<1> USE DEF ServerTypeOK, sameMain, sameKeep, WriteStore, serverVars
<1>1. ASSUME NEW c \in Clients, JobBegin(c) PROVE ServerTypeOK'
  BY <1>1 DEF JobBegin, JobTo
<1>2. ASSUME NEW c \in Clients, JobLookup(c) PROVE ServerTypeOK'
  BY <1>2 DEF JobLookup, JobTo
<1>3. ASSUME NEW c \in Clients, JobSave(c) PROVE ServerTypeOK'
  BY <1>3 DEF JobSave, JobTo
<1>4. ASSUME NEW c \in Clients, JobChanged(c) PROVE ServerTypeOK'
  BY <1>4 DEF JobChanged, JobTo, Publish
<1>5. ASSUME NEW c \in Clients, JobSend(c) PROVE ServerTypeOK'
  BY <1>5 DEF JobSend, Send
<1>6. ASSUME NEW c \in Clients, JobPublished(c) PROVE ServerTypeOK'
  BY <1>6 DEF JobPublished, JobTo
<1>7. ASSUME NEW c \in Clients, JobQuiet(c) PROVE ServerTypeOK'
  BY <1>7 DEF JobQuiet, JobTo
<1>8. CASE KeepTick
  BY <1>8 DEF KeepTick, KeepTo
<1>9. CASE KeepReturn
  BY <1>9 DEF KeepReturn, KeepTo
<1>10. CASE KeepVisit
  BY <1>10 DEF KeepVisit, KeepTo
<1>11. CASE KeepDone
  BY <1>11 DEF KeepDone, KeepTo
<1>12. ASSUME NEW r \in Requests, Arrive(r) PROVE ServerTypeOK'
  BY <1>12 DEF Arrive, ReqTo, Accepting
<1>13. ASSUME NEW r \in Requests, ReqLookup(r) PROVE ServerTypeOK'
  BY <1>13 DEF ReqLookup, ReqTo
<1>14. ASSUME NEW r \in Requests, ReqLogin(r) PROVE ServerTypeOK'
  BY <1>14 DEF ReqLogin, ReqTo
<1>15. ASSUME NEW r \in Requests, ReqSet(r) PROVE ServerTypeOK'
  BY <1>15 DEF ReqSet
<1>16. ASSUME NEW r \in Requests, ReqAnswer(r) PROVE ServerTypeOK'
  BY <1>16 DEF ReqAnswer, ReqTo
<1>17. ASSUME NEW s \in Streams, StreamOpens(s) PROVE ServerTypeOK'
  BY <1>17 DEF StreamOpens, Connect
<1>18. ASSUME NEW s \in Streams, Stream(s) PROVE ServerTypeOK'
  BY <1>18 DEF Stream
<1>19. ASSUME NEW s \in Streams, StreamHangsUp(s) PROVE ServerTypeOK'
  BY <1>19 DEF StreamHangsUp, HangUp
<1>20. CASE Signal
  BY <1>20 DEF Signal, MainTo
<1>21. CASE PollerStopped
  BY <1>21 DEF PollerStopped, MainTo, JobsEnded
<1>22. CASE KeepStop
  BY <1>22 DEF KeepStop, MainTo
<1>23. CASE HubShutdown
  BY <1>23 DEF HubShutdown, MainTo, Shutdown, samePublish
<1>24. CASE Drained
  BY <1>24 DEF Drained, MainTo, HandlersEnded
<1>25. CASE DrainTimesOut
  BY <1>25 DEF DrainTimesOut, MainTo
<1>26. CASE StoreClose
  BY <1>26 DEF StoreClose, MainTo
<1>27. CASE Exit
  BY <1>27 DEF Exit, MainTo
<1>28. CASE UNCHANGED vars
  BY <1>28 DEF vars, serverVars
<1>29. QED
  BY <1>1, <1>2, <1>3, <1>4, <1>5, <1>6, <1>7, <1>8, <1>9, <1>10, <1>11, <1>12,
     <1>13, <1>14, <1>15, <1>16, <1>17, <1>18, <1>19, <1>20, <1>21, <1>22, <1>23, <1>24,
     <1>25, <1>26, <1>27, <1>28
     DEF ServerNext, JobStep, ReqStep, MainStep

(* The order in which a signal ends the parts.                              *)
LEMMA EndingStep ==
    ASSUME ServerTypeOK, Ending, LateWriters, [ServerNext]_vars
    PROVE  (Ending /\ LateWriters)'
<1> USE DEF ServerTypeOK, TypeOK, Ending, LateWriters, After, hubVars, sameMain, sameKeep, WriteStore, serverVars
<1>1. ASSUME NEW c \in Clients, JobBegin(c) PROVE (Ending /\ LateWriters)'
  BY <1>1 DEF JobBegin, JobTo
<1>2. ASSUME NEW c \in Clients, JobLookup(c) PROVE (Ending /\ LateWriters)'
  BY <1>2 DEF JobLookup, JobTo
<1>3. ASSUME NEW c \in Clients, JobSave(c) PROVE (Ending /\ LateWriters)'
  BY <1>3 DEF JobSave, JobTo
<1>4. ASSUME NEW c \in Clients, JobChanged(c) PROVE (Ending /\ LateWriters)'
  BY <1>4 DEF JobChanged, JobTo, Publish
<1>5. ASSUME NEW c \in Clients, JobSend(c) PROVE (Ending /\ LateWriters)'
  <2>1. PICK s \in Streams : Send(c, s)
    BY <1>5 DEF JobSend
  <2>2. /\ UNCHANGED <<main, timedOut, closed, job, req, late, done>>
        /\ dest' = [dest EXCEPT ![c] = dest[c] \ {s}]
    BY <1>5, <2>1 DEF JobSend, Send
  <2>3. \A d \in Clients : dest'[d] # {} => dest[d] # {}
    BY <2>2
  <2>4. QED  BY <2>2, <2>3
<1>6. ASSUME NEW c \in Clients, JobPublished(c) PROVE (Ending /\ LateWriters)'
  BY <1>6 DEF JobPublished, JobTo
<1>7. ASSUME NEW c \in Clients, JobQuiet(c) PROVE (Ending /\ LateWriters)'
  BY <1>7 DEF JobQuiet, JobTo
<1>8. CASE KeepTick
  BY <1>8 DEF KeepTick, KeepTo
<1>9. CASE KeepReturn
  BY <1>9 DEF KeepReturn, KeepTo
<1>10. CASE KeepVisit
  BY <1>10 DEF KeepVisit, KeepTo
<1>11. CASE KeepDone
  BY <1>11 DEF KeepDone, KeepTo
<1>12. ASSUME NEW r \in Requests, Arrive(r) PROVE (Ending /\ LateWriters)'
  BY <1>12 DEF Arrive, ReqTo, Accepting
<1>13. ASSUME NEW r \in Requests, ReqLookup(r) PROVE (Ending /\ LateWriters)'
  BY <1>13 DEF ReqLookup, ReqTo
<1>14. ASSUME NEW r \in Requests, ReqLogin(r) PROVE (Ending /\ LateWriters)'
  BY <1>14 DEF ReqLogin, ReqTo
<1>15. ASSUME NEW r \in Requests, ReqSet(r) PROVE (Ending /\ LateWriters)'
  BY <1>15 DEF ReqSet
<1>16. ASSUME NEW r \in Requests, ReqAnswer(r) PROVE (Ending /\ LateWriters)'
  BY <1>16 DEF ReqAnswer, ReqTo
<1>17. ASSUME NEW s \in Streams, StreamOpens(s) PROVE (Ending /\ LateWriters)'
  BY <1>17 DEF StreamOpens, Connect, samePublish, Move
<1>18. ASSUME NEW s \in Streams, Stream(s) PROVE (Ending /\ LateWriters)'
  <2>1. UNCHANGED <<main, timedOut, closed, job, req, late, dest, done>>
    BY <1>18 DEF Stream, Serve, Subscribe, Return, Ping, Take, Written, WriteFails, Unsubscribe,
              CloseChannel, Leave, samePublish
  <2>2. QED  BY <2>1
<1>19. ASSUME NEW s \in Streams, StreamHangsUp(s) PROVE (Ending /\ LateWriters)'
  BY <1>19 DEF StreamHangsUp, HangUp, samePublish
<1>20. CASE Signal
  BY <1>20 DEF Signal, MainTo
<1>21. CASE PollerStopped
  BY <1>21 DEF PollerStopped, MainTo, JobsEnded
<1>22. CASE KeepStop
  BY <1>22 DEF KeepStop, MainTo
<1>23. CASE HubShutdown
  BY <1>23 DEF HubShutdown, MainTo, Shutdown, samePublish
<1>24. CASE Drained
  BY <1>24 DEF Drained, MainTo, HandlersEnded
<1>25. CASE DrainTimesOut
  BY <1>25 DEF DrainTimesOut, MainTo
<1>26. CASE StoreClose
  BY <1>26 DEF StoreClose, MainTo
<1>27. CASE Exit
  BY <1>27 DEF Exit, MainTo
<1>28. CASE UNCHANGED vars
  BY <1>28 DEF vars, serverVars
<1>29. QED
  BY <1>1, <1>2, <1>3, <1>4, <1>5, <1>6, <1>7, <1>8, <1>9, <1>10, <1>11, <1>12,
     <1>13, <1>14, <1>15, <1>16, <1>17, <1>18, <1>19, <1>20, <1>21, <1>22, <1>23, <1>24,
     <1>25, <1>26, <1>27, <1>28
     DEF ServerNext, JobStep, ReqStep, MainStep

------------------------------------------------------------------------------
(* Every step keeps the inductive invariant.                                *)
LEMMA NextIInv == IInv /\ [ServerNext]_vars => IInv'
<1> SUFFICES ASSUME IInv, [ServerNext]_vars PROVE IInv'
  OBVIOUS
<1>1. HubInv' /\ TypeOK'
  BY StepOfHub, HubStep DEF IInv, HubInv
<1>2. ServerTypeOK'
  BY <1>1, ServerTypeStep DEF IInv
<1>3. Ending' /\ LateWriters'
  BY EndingStep DEF IInv
<1>4. QED  BY <1>1, <1>2, <1>3 DEF IInv

LEMMA Inductive == FairServerSpec => []IInv
<1>1. QED  BY InitIInv, NextIInv, PTL DEF FairServerSpec, ServerSpec

(* The server runs the event hub as it is alone.                            *)
THEOREM ServerRunsHub == FairServerSpec => Spec
<1>1. ServerInit => Init
  BY DEF ServerInit
<1>2. QED  BY <1>1, StepOfHub, PTL DEF FairServerSpec, ServerSpec, Spec

(* Every variable keeps its type, and no channel has more than its places.  *)
THEOREM TypeCorrect == FairServerSpec => []ServerTypeOK
<1>1. IInv => ServerTypeOK
  BY DEF IInv
<1>2. QED  BY <1>1, Inductive, PTL

(* A stream loses no event but from a full buffer (events.go:41-67).        *)
THEOREM NothingLost == FairServerSpec => []Accounted
<1>1. IInv => Accounted
  BY DEF IInv, HubInv
<1>2. QED  BY <1>1, Inductive, PTL

(* The streams listed are those served (events.go:26-57).                   *)
THEOREM ListedAreServed == FairServerSpec => []ListedWhileServed
<1>1. IInv => ListedWhileServed
  BY DEF IInv, HubInv
<1>2. QED  BY <1>1, Inductive, PTL

(* Of those that write to the store only the sweep does so after it was     *)
(* closed, and requests past their 25 s (main.go:229-249).                  *)
THEOREM LateOnes == FairServerSpec => []LateWriters
<1>1. IInv => LateWriters
  BY DEF IInv
<1>2. QED  BY <1>1, Inductive, PTL

(* Nobody publishes once the streams are told to end (main.go:230).         *)
THEOREM QuietWhileDraining == FairServerSpec => []QuietDrain
<1>1. IInv => QuietDrain
  BY DEF IInv, Ending, After, QuietDrain
<1>2. QED  BY <1>1, Inductive, PTL

==============================================================================
