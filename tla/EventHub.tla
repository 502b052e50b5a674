------------------------------- MODULE EventHub -------------------------------
(***************************************************************************)
(* The SSE streams of the app and the hub that feeds them (events.go).     *)
(* A stream is one connection of GET /events, from the answered headers to *)
(* the close of its channel.  The poller publishes to a client from its    *)
(* poll job only, and PollQueue shows that a client has one such job: the  *)
(* publishes of one client do not overlap.  An event is its number among   *)
(* those of its client.                                                    *)
(***************************************************************************)
EXTENDS Naturals, Sequences, Functions

CONSTANTS
    Clients, Streams,
    Owner,              \* stream -> the client that opened it
    Buffer,             \* places in a stream's channel (16)
    MaxEvents           \* bound: events published per client

ASSUME HubAssumption ==
    /\ Owner \in [Streams -> Clients]
    /\ Buffer \in Nat \ {0} /\ MaxEvents \in Nat

VARIABLES
    phase,              \* stream -> where its handler is
    gone,               \* streams whose client has hung up
    subs,               \* subscribers: client -> streams
    buf,                \* stream -> events in its channel
    writing,            \* stream -> the event being written, 0 for a ping
    sent,               \* client -> events published
    dest,               \* client -> channels its publish has still to send to
    done,               \* Shutdown has closed h.done
    panicked            \* a send on a closed channel brought the process down

\* What properties compare with.
VARIABLES
    from,               \* stream -> events published before it subscribed
    had                 \* stream -> events written to it or skipped

hubVars == <<phase, gone, subs, buf, writing, sent, dest, done, panicked, from, had>>

Init ==
    /\ phase = [s \in Streams |-> "off"] /\ gone = {}
    /\ subs = [c \in Clients |-> {}]
    /\ buf = [s \in Streams |-> <<>>] /\ writing = [s \in Streams |-> 0]
    /\ sent = [c \in Clients |-> 0] /\ dest = [c \in Clients |-> {}]
    /\ done = FALSE /\ panicked = FALSE
    /\ from = [s \in Streams |-> 0] /\ had = [s \in Streams |-> {}]

------------------------------------------------------------------------------
(* ServeSSE.                                                               *)
Move(s, a, b) == ~panicked /\ phase[s] = a /\ phase' = [phase EXCEPT ![s] = b]
samePublish   == <<sent, dest, panicked>>

(* ": connected" is out, the stream not yet subscribed.                    *)
Connect(s) ==
    /\ Move(s, "off", "connected")
    /\ UNCHANGED <<gone, subs, buf, writing, done, samePublish, from, had>>

Subscribe(s) ==
    /\ Move(s, "connected", "open")
    /\ subs' = [subs EXCEPT ![Owner[s]] = @ \cup {s}]
    /\ from' = [from EXCEPT ![s] = sent[Owner[s]]]
    /\ UNCHANGED <<gone, buf, writing, done, samePublish, had>>

(* The client hangs up: the context is done, and writes fail.  Before the  *)
(* loop and after it, it makes no difference.                              *)
Listening == {"open", "writing"}

HangUp(s) ==
    /\ ~panicked /\ phase[s] \in Listening /\ gone' = gone \cup {s}
    /\ UNCHANGED <<phase, subs, buf, writing, done, samePublish, from, had>>

(* Nothing is due any more to a stream that leaves the loop.               *)
Leave(s, a) ==
    /\ Move(s, a, "leaving")
    /\ writing' = [writing EXCEPT ![s] = 0]
    /\ from' = [from EXCEPT ![s] = 0] /\ had' = [had EXCEPT ![s] = {}]
    /\ UNCHANGED <<gone, subs, buf, done, samePublish>>

Return(s) == (s \in gone \/ done) /\ Leave(s, "open")

Ping(s) ==
    /\ Move(s, "open", "writing") /\ writing' = [writing EXCEPT ![s] = 0]
    /\ UNCHANGED <<gone, subs, buf, done, samePublish, from, had>>

Take(s) ==
    /\ buf[s] # <<>> /\ Move(s, "open", "writing")
    /\ writing' = [writing EXCEPT ![s] = Head(buf[s])]
    /\ buf' = [buf EXCEPT ![s] = Tail(@)]
    /\ UNCHANGED <<gone, subs, done, samePublish, from, had>>

(* A write to a client that reads; one that does not may block it for ever. *)
Written(s) ==
    /\ Move(s, "writing", "open")
    /\ had' = [had EXCEPT ![s] = @ \cup ({writing[s]} \ {0})]
    /\ writing' = [writing EXCEPT ![s] = 0]
    /\ UNCHANGED <<gone, subs, buf, done, samePublish, from>>

WriteFails(s) == s \in gone /\ Leave(s, "writing")

(* Mutant: unsub removes the client, though it has another stream.         *)
UnlistClient(s) == subs' = [subs EXCEPT ![Owner[s]] = {}]

Unlist(s) == subs' = [subs EXCEPT ![Owner[s]] = @ \ {s}]

(* unsub: out of the map under the lock, the channel closed after it.      *)
Unsubscribe(s) ==
    /\ Move(s, "leaving", "unlisted")
    /\ Unlist(s)
    /\ UNCHANGED <<gone, buf, writing, done, samePublish, from, had>>

CloseChannel(s) ==
    /\ Move(s, "unlisted", "closed")
    /\ buf' = [buf EXCEPT ![s] = <<>>] /\ gone' = gone \ {s}
    /\ UNCHANGED <<subs, writing, done, samePublish, from, had>>

------------------------------------------------------------------------------
(* Publish.                                                                *)
HasSubscribers(c) == subs[c] # {}

(* The channels are copied under the read lock ...                         *)
Publish(c) ==
    /\ ~panicked /\ dest[c] = {} /\ sent[c] < MaxEvents
    /\ sent' = [sent EXCEPT ![c] = @ + 1]
    /\ dest' = [dest EXCEPT ![c] = subs[c]]
    /\ UNCHANGED <<phase, gone, subs, buf, writing, done, panicked, from, had>>

(* Mutant: a send that waits for room, as it would without the default.    *)
OfferBlocks(c, s) ==
    /\ Len(buf[s]) < Buffer
    /\ buf' = [buf EXCEPT ![s] = Append(@, sent[c])] /\ UNCHANGED had

(* Mutant: a send that never looks whether there is room.                  *)
OfferAlways(c, s) == buf' = [buf EXCEPT ![s] = Append(@, sent[c])] /\ UNCHANGED had

(* A full buffer skips the event.                                          *)
Offer(c, s) ==
    \/ /\ Len(buf[s]) < Buffer
       /\ buf' = [buf EXCEPT ![s] = Append(@, sent[c])] /\ UNCHANGED had
    \/ /\ Len(buf[s]) >= Buffer
       /\ had' = [had EXCEPT ![s] = IF phase[s] \in Listening THEN @ \cup {sent[c]} ELSE @]
       /\ UNCHANGED buf

(* ... and sent to one after the other without it.                         *)
Send(c, s) ==
    /\ ~panicked /\ s \in dest[c]
    /\ dest' = [dest EXCEPT ![c] = @ \ {s}]
    /\ IF phase[s] = "closed"
       THEN panicked' = TRUE /\ UNCHANGED <<buf, had>>
       ELSE Offer(c, s) /\ UNCHANGED panicked
    /\ UNCHANGED <<phase, gone, subs, writing, sent, done, from>>

Shutdown ==
    /\ ~panicked /\ done' = TRUE
    /\ UNCHANGED <<phase, gone, subs, buf, writing, samePublish, from, had>>

------------------------------------------------------------------------------
Serve(s) ==
    \/ Subscribe(s) \/ Return(s) \/ Ping(s) \/ Take(s) \/ Written(s)
    \/ WriteFails(s) \/ Unsubscribe(s) \/ CloseChannel(s)

Next ==
    \/ \E s \in Streams : Connect(s) \/ HangUp(s) \/ Serve(s)
    \/ \E c \in Clients : Publish(c) \/ \E s \in Streams : Send(c, s)
    \/ Shutdown

Spec == Init /\ [][Next]_hubVars

------------------------------------------------------------------------------
Listed    == Listening \cup {"leaving"}
Phases    == Listed \cup {"off", "connected", "unlisted", "closed"}

TypeOK ==
    /\ phase \in [Streams -> Phases] /\ gone \subseteq Streams
    /\ subs \in [Clients -> SUBSET Streams]
    /\ buf \in [Streams -> Seq(Nat)] /\ (\A s \in Streams : Len(buf[s]) <= Buffer)
    /\ writing \in [Streams -> Nat]
    /\ sent \in [Clients -> Nat] /\ dest \in [Clients -> SUBSET Streams]
    /\ done \in BOOLEAN /\ panicked \in BOOLEAN
    /\ from \in [Streams -> Nat] /\ had \in [Streams -> SUBSET Nat]

(***************************************************************************)
(* Nothing is lost but what a full buffer skips (events.go:58-59): each    *)
(* event of a client since one of its streams subscribed has been written  *)
(* to that stream or skipped for it, is being written, is in its channel,  *)
(* or is about to be sent, whatever the other streams of the client do.    *)
(***************************************************************************)
Accounted ==
    \A s \in Streams : phase[s] \in Listening =>
        \A e \in (from[s] + 1)..sent[Owner[s]] :
            \/ e \in had[s] \cup Range(buf[s]) \cup {writing[s]}
            \/ e = sent[Owner[s]] /\ s \in dest[Owner[s]]

(***************************************************************************)
(* The poller polls for a client while one of its streams is open, and not *)
(* for one that has none (HasSubscribers, bubbles.go:566-574): the streams *)
(* listed for a client are those whose handlers have not returned.         *)
(***************************************************************************)
ListedWhileServed ==
    \A c \in Clients :
        subs[c] = {s \in Streams : Owner[s] = c /\ phase[s] \in Listed}

(***************************************************************************)
(* "A stuck client never blocks the poller" (events.go:59), nor does one   *)
(* that leaves bring it down: no publish sends on a closed channel.        *)
(***************************************************************************)
NoSendOnClosed == ~panicked

==============================================================================
