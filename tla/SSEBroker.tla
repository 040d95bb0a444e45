------------------------------ MODULE SSEBroker ------------------------------
(***************************************************************************)
(* internal/api/sse.go: the broker goroutine fans attack events out to the *)
(* HTTP clients of GET /api/events. A handler hands its channel to the     *)
(* broker through `subscribe`, streams what the broker puts into it until  *)
(* the client disconnects or the channel is closed, and then hands it back *)
(* through `unsubscribe`. serve.go runs the broker (a panic is recovered   *)
(* and logged, nothing restarts it) and shuts the HTTP server down: no new *)
(* connections, then at most 30 s for the handlers to return.              *)
(*                                                                         *)
(* A heartbeat is an event with number 0; every client connects once.      *)
(***************************************************************************)
EXTENDS Integers, Sequences, FiniteSets, Functions

CONSTANTS
  Clients,    \* the connections to /api/events
  QueueCap,   \* capacity of subscribe and unsubscribe (4)
  BufferCap,  \* capacity of a client's channel (16)
  MaxEvents   \* bound on the number of attack events

ASSUME BrokerAssumption ==
  QueueCap \in Nat \ {0} /\ BufferCap \in Nat \ {0} /\ MaxEvents \in Nat

VARIABLES
  canceled,     \* the daemon's context is canceled
  broker,       \* Broker.Run: "select", "returned" or "panicked"
  subscribe,    \* the channels between handlers and broker
  unsubscribe,
  clients,      \* the broker's map
  handler,      \* [Clients -> where its Handler is]
  gone,         \* the clients that have disconnected
  ch,           \* [Clients -> the buffer of its channel]
  closed,       \* the closed client channels
  early,        \* history: the clients taken out before they were taken in
  event,        \* number of attack events so far
  streamed,     \* history: [Clients -> events written to the client]
  skipped,      \* history: [Clients -> events dropped at its full buffer]
  server        \* the HTTP server: "open", "draining", "closed", "timedOut"

queueVars == <<subscribe, unsubscribe>>
clientVars == <<handler, gone, streamed>>
channelVars == <<ch, closed, early, skipped>>
vars == <<canceled, broker, queueVars, clients, clientVars, channelVars, event,
          server>>

Heartbeat == 0

-----------------------------------------------------------------------------
(* Handler, one per connection.                                            *)

Goto(c, pc) == handler' = [handler EXCEPT ![c] = pc]

\* A writer that is no Flusher is answered 500 "streaming unsupported": that
\* handler returns and the broker never hears of it.
Connect(c) ==
  /\ handler[c] = "none" /\ server = "open"
  /\ \E flusher \in BOOLEAN : Goto(c, IF flusher THEN "subscribing" ELSE "returned")
  /\ UNCHANGED <<canceled, broker, queueVars, clients, gone, streamed,
                 channelVars, event, server>>

\* b.subscribe <- ch, which waits for room whatever happens to the client.
Subscribe(c) ==
  /\ handler[c] = "subscribing"
  /\ Len(subscribe) < QueueCap
  /\ subscribe' = Append(subscribe, c)
  /\ Goto(c, "streaming")
  /\ UNCHANGED <<canceled, broker, unsubscribe, clients, gone, streamed,
                 channelVars, event, server>>

Disconnect(c) ==
  /\ handler[c] # "none"
  /\ c \notin gone
  /\ gone' = gone \cup {c}
  /\ UNCHANGED <<canceled, broker, queueVars, clients, handler, streamed,
                 channelVars, event, server>>

Stream(c) ==
  /\ handler[c] = "streaming"
  /\ ch[c] # <<>>
  /\ ch' = [ch EXCEPT ![c] = Tail(@)]
  /\ streamed' = [streamed EXCEPT ![c] =
                    IF Head(ch[c]) = Heartbeat THEN @ ELSE Append(@, Head(ch[c]))]
  /\ UNCHANGED <<canceled, broker, queueVars, clients, handler, gone, closed,
                 early, skipped, event, server>>

\* Mutant: the handler does not watch the request's context.
StreamEndClosedOnly(c) ==
  /\ handler[c] = "streaming"
  /\ ch[c] = <<>> /\ c \in closed
  /\ Goto(c, "leaving")
  /\ UNCHANGED <<canceled, broker, queueVars, clients, gone, streamed,
                 channelVars, event, server>>

\* The client is gone, or the channel is closed and drained.
StreamEnd(c) ==
  /\ handler[c] = "streaming"
  /\ c \in gone \/ (ch[c] = <<>> /\ c \in closed)
  /\ Goto(c, "leaving")
  /\ UNCHANGED <<canceled, broker, queueVars, clients, gone, streamed,
                 channelVars, event, server>>

\* The deferred b.unsubscribe <- ch, which waits for room as well.
Unsubscribe(c) ==
  /\ handler[c] = "leaving"
  /\ Len(unsubscribe) < QueueCap
  /\ unsubscribe' = Append(unsubscribe, c)
  /\ Goto(c, "returned")
  /\ UNCHANGED <<canceled, broker, subscribe, clients, gone, streamed,
                 channelVars, event, server>>

-----------------------------------------------------------------------------
(* Broker.Run: one action per case of its select.                          *)

\* Mutant: a client that subscribes replaces the previous one.
TakeSubscribeOnly ==
  /\ broker = "select"
  /\ subscribe # <<>>
  /\ subscribe' = Tail(subscribe)
  /\ clients' = {Head(subscribe)}
  /\ UNCHANGED <<canceled, broker, unsubscribe, clientVars, channelVars, event,
                 server>>

TakeSubscribe ==
  /\ broker = "select"
  /\ subscribe # <<>>
  /\ subscribe' = Tail(subscribe)
  /\ clients' = clients \cup {Head(subscribe)}
  /\ UNCHANGED <<canceled, broker, unsubscribe, clientVars, channelVars, event,
                 server>>

\* Mutant: the client stays in the map.
TakeUnsubscribeKept ==
  /\ broker = "select"
  /\ unsubscribe # <<>>
  /\ unsubscribe' = Tail(unsubscribe)
  /\ closed' = closed \cup {Head(unsubscribe)}
  /\ early' = early \cup ({Head(unsubscribe)} \cap Range(subscribe))
  /\ UNCHANGED <<canceled, broker, subscribe, clients, clientVars, ch, skipped,
                 event, server>>

\* delete and close; a handler unsubscribes once and only the broker closes,
\* so the channel is not closed yet. Its subscription may still be waiting.
TakeUnsubscribe ==
  /\ broker = "select"
  /\ unsubscribe # <<>>
  /\ unsubscribe' = Tail(unsubscribe)
  /\ clients' = clients \ {Head(unsubscribe)}
  /\ closed' = closed \cup {Head(unsubscribe)}
  /\ early' = early \cup ({Head(unsubscribe)} \cap Range(subscribe))
  /\ UNCHANGED <<canceled, broker, subscribe, clientVars, ch, skipped, event,
                 server>>

\* Mutant: the payload overtakes what is buffered.
PutFirst(e, to) ==
  /\ ch' = [c \in Clients |->
              IF c \in to /\ Len(ch[c]) < BufferCap THEN <<e>> \o ch[c] ELSE ch[c]]
  /\ skipped' = [c \in Clients |->
                   IF c \in to /\ Len(ch[c]) = BufferCap /\ e # Heartbeat
                   THEN skipped[c] \cup {e} ELSE skipped[c]]

\* Mutant: the send does not look at the capacity.
PutUnbounded(e, to) ==
  /\ ch' = [c \in Clients |-> IF c \in to THEN Append(ch[c], e) ELSE ch[c]]
  /\ skipped' = skipped

\* The non-blocking sends of a payload: dropped where the buffer is full.
Put(e, to) ==
  /\ ch' = [c \in Clients |->
              IF c \in to /\ Len(ch[c]) < BufferCap THEN Append(ch[c], e) ELSE ch[c]]
  /\ skipped' = [c \in Clients |->
                   IF c \in to /\ Len(ch[c]) = BufferCap /\ e # Heartbeat
                   THEN skipped[c] \cup {e} ELSE skipped[c]]

\* Mutant: a client whose buffer is full is disconnected.
FanOutClosingSlow(e) ==
  /\ broker = "select"
  /\ LET slow == {c \in clients : Len(ch[c]) = BufferCap}
     IN  /\ clients' = clients \ slow
         /\ closed' = closed \cup slow
         /\ Put(e, clients)
  /\ UNCHANGED <<canceled, broker, queueVars, clientVars, early, server>>

\* The loop over the clients; a send on a closed channel panics, after any of
\* the others (the map has no order).
FanOut(e) ==
  /\ broker = "select"
  /\ IF clients \cap closed = {}
     THEN Put(e, clients) /\ broker' = broker
     ELSE /\ broker' = "panicked"
          /\ \E reached \in SUBSET (clients \ closed) : Put(e, reached)
  /\ UNCHANGED <<canceled, queueVars, clients, clientVars, closed, early, server>>

AttackEvent ==
  /\ event < MaxEvents
  /\ event' = event + 1
  /\ FanOut(event + 1)

HeartbeatTick == FanOut(Heartbeat) /\ UNCHANGED event

\* Mutant: the broker returns without closing what its clients read from.
StopSilent ==
  /\ broker = "select" /\ canceled
  /\ broker' = "returned"
  /\ UNCHANGED <<canceled, queueVars, clients, clientVars, channelVars, event, server>>

\* A canceled context (or the bus closing the broker's channel) closes every
\* client's channel; closing a closed one panics, after any of the others.
Stop ==
  /\ broker = "select" /\ canceled
  /\ IF clients \cap closed = {}
     THEN broker' = "returned" /\ closed' = closed \cup clients
     ELSE /\ broker' = "panicked"
          /\ \E reached \in SUBSET (clients \ closed) : closed' = closed \cup reached
  /\ UNCHANGED <<canceled, queueVars, clients, clientVars, ch, early, skipped, event,
                 server>>

-----------------------------------------------------------------------------
(* The daemon: srv.Shutdown and its 30 s deadline.                         *)

Cancel ==
  /\ ~canceled
  /\ canceled' = TRUE
  /\ UNCHANGED <<broker, queueVars, clients, clientVars, channelVars, event, server>>

Shutdown ==
  /\ canceled /\ server = "open"
  /\ server' = "draining"
  /\ UNCHANGED <<canceled, broker, queueVars, clients, clientVars, channelVars, event>>

Finished(c) == handler[c] \in {"none", "returned"}

AllReturned ==
  /\ server = "draining"
  /\ \A c \in Clients : Finished(c)
  /\ server' = "closed"
  /\ UNCHANGED <<canceled, broker, queueVars, clients, clientVars, channelVars, event>>

\* A handler that can only wait for a broker that is gone, or for its client.
Stuck(c) ==
  \/ handler[c] = "subscribing" /\ Len(subscribe) = QueueCap
  \/ handler[c] = "streaming" /\ c \notin gone \cup closed /\ ch[c] = <<>>
  \/ handler[c] = "leaving" /\ Len(unsubscribe) = QueueCap

\* The deadline: 30 s are enough for everything that does not wait.
ShutdownTimeout ==
  /\ server = "draining"
  /\ broker # "select"
  /\ \A c \in Clients : Finished(c) \/ Stuck(c)
  /\ \E c \in Clients : Stuck(c)
  /\ server' = "timedOut"
  /\ UNCHANGED <<canceled, broker, queueVars, clients, clientVars, channelVars, event>>

-----------------------------------------------------------------------------
Init ==
  /\ canceled = FALSE /\ broker = "select" /\ server = "open"
  /\ subscribe = <<>> /\ unsubscribe = <<>>
  /\ clients = {} /\ gone = {} /\ closed = {} /\ early = {}
  /\ handler = [c \in Clients |-> "none"]
  /\ ch = [c \in Clients |-> <<>>]
  /\ streamed = [c \in Clients |-> <<>>]
  /\ skipped = [c \in Clients |-> {}]
  /\ event = 0

Handler(c) == Subscribe(c) \/ Stream(c) \/ StreamEnd(c) \/ Unsubscribe(c)

Next ==
  \/ \E c \in Clients : Connect(c) \/ Disconnect(c) \/ Handler(c)
  \/ TakeSubscribe \/ TakeUnsubscribe \/ AttackEvent \/ HeartbeatTick \/ Stop
  \/ Cancel \/ Shutdown \/ AllReturned \/ ShutdownTimeout

Spec == Init /\ [][Next]_vars

\* Goroutines run, and Go's select takes every case that stays ready sooner or
\* later. Clients, attacks and the operator owe nothing.
Fairness ==
  /\ \A c \in Clients :
       /\ WF_vars(Subscribe(c)) /\ WF_vars(Stream(c))
       /\ WF_vars(StreamEnd(c)) /\ WF_vars(Unsubscribe(c))
  /\ WF_vars(TakeSubscribe) /\ WF_vars(TakeUnsubscribe) /\ WF_vars(Stop)

FairSpec == Spec /\ Fairness

-----------------------------------------------------------------------------
(* Properties.                                                             *)

TypeOK ==
  /\ canceled \in BOOLEAN
  /\ broker \in {"select", "returned", "panicked"}
  /\ subscribe \in Seq(Clients) /\ Len(subscribe) <= QueueCap
  /\ unsubscribe \in Seq(Clients) /\ Len(unsubscribe) <= QueueCap
  /\ clients \subseteq Clients /\ gone \subseteq Clients
  /\ closed \subseteq Clients /\ early \subseteq closed
  /\ handler \in [Clients -> {"none", "subscribing", "streaming", "leaving", "returned"}]
  /\ ch \in [Clients -> Seq(0 .. MaxEvents)]
  /\ \A c \in Clients : Len(ch[c]) <= BufferCap
  /\ event \in 0 .. MaxEvents
  /\ streamed \in [Clients -> Seq(1 .. MaxEvents)]
  /\ skipped \in [Clients -> SUBSET (1 .. MaxEvents)]
  /\ server \in {"open", "draining", "closed", "timedOut"}

\* The events a client has got, or has in its buffer.
Got(c) == Range(streamed[c]) \cup (Range(ch[c]) \ {Heartbeat})

Ascending(q) ==
  \A i, j \in DOMAIN q :
    i < j /\ q[i] # Heartbeat /\ q[j] # Heartbeat => q[i] < q[j]

\* No client ever gets events out of order or twice, counting those that are
\* still in its buffer, also when the broker panics half way through a fan-out.
StreamInOrder ==
  \A c \in Clients :
    /\ Ascending(streamed[c]) /\ Ascending(ch[c])
    /\ \A e \in Range(streamed[c]), f \in Range(ch[c]) \ {Heartbeat} : e < f

\* Once it is registered, a connected client gets every event or has it
\* dropped at its own full buffer: nothing is lost between the broker's map,
\* the buffer and the stream, whatever other clients do.
NoGap ==
  \A c \in Clients :
    broker = "select" /\ handler[c] = "streaming" =>
      \A first \in Got(c) : first .. event \subseteq Got(c) \cup skipped[c]

\* The broker never closes the channel of a client that is still connected
\* and reading, unless the daemon is going down.
OpenWhileStreaming ==
  \A c \in Clients : handler[c] = "streaming" /\ ~canceled => c \notin closed

\* Of the handlers that the shutdown waits for until its deadline, none is one
\* that streamed: after the broker has returned a connected client is let go,
\* unless nobody has taken its subscription. (The others wait to hand their
\* channel to a broker that is gone, and there is room for four.)
ShutdownReleases ==
  broker = "returned" =>
    \A c \in Clients :
      handler[c] = "streaming" => c \in closed \/ c \in Range(subscribe)

\* What a handler relies on: bounded channels, its own open until it leaves, and
\* let go when the broker is gone (Run and Handler).
BrokerSafe == TypeOK /\ OpenWhileStreaming /\ ShutdownReleases

\* No handler goroutine is leaked while the broker lives: once its client has
\* disconnected a handler returns, whatever it was waiting for and however
\* many payloads keep coming.
HandlersReturn ==
  \A c \in Clients :
    (c \in gone) ~> (handler[c] = "returned" \/ broker # "select")

\* "streams events until the client disconnects" (Handler): a connected client
\* has a running broker until the daemon is shut down, but for one case. Subscribe
\* and unsubscribe are two channels; who leaves at once may be taken out before it
\* is taken in, and the next payload or close then meets its closed channel.
StreamsUntilDisconnect ==
  \A c \in Clients :
    handler[c] = "streaming" /\ c \notin gone /\ ~canceled =>
      broker = "select" \/ clients \cap early # {}
=============================================================================
