----------------------------- MODULE ApiProofs ------------------------------
(***************************************************************************)
(* Proofs about what the daemon's API keeps for its clients: the streams   *)
(* of SSEBroker, for every set of clients, all capacities and any number   *)
(* of attack events, and the sessions of WebSession, for any number of     *)
(* tabs and accounts.                                                      *)
(***************************************************************************)
EXTENDS SSEBroker, WebSession, FiniteSetTheorems, TLAPS

-----------------------------------------------------------------------------
(* The streams.                                                            *)

\* Whoever has handed its channel back has returned, and only the daemon's end
\* closes a channel that was not handed back.
HandedBack ==
  \A c \in Clients :
    /\ c \in Range(unsubscribe) => handler[c] = "returned"
    /\ c \in closed => handler[c] = "returned" \/ canceled

\* A client is unknown to the broker until it subscribes; while it streams the
\* broker knows it, or will, and does if it has got anything; and a broker that
\* has returned has closed the channels it knew.
Registered ==
  /\ \A c \in Clients : handler[c] \in {"none", "subscribing"} =>
       c \notin Range(subscribe) \cup clients /\ Got(c) = {}
  /\ \A c \in Clients : handler[c] = "streaming" =>
       c \in clients \/ (c \in Range(subscribe) /\ Got(c) = {})
  /\ broker = "returned" => clients \subseteq closed

\* No client has got an event that has not happened.
Happened == \A c \in Clients : \A e \in Got(c) : e <= event

\* While the broker lives only a client's own return has closed its channel, and
\* who is registered, or will be, on a closed channel was taken out too early;
\* only such a client ends the broker before the daemon does.
TakenOutEarly ==
  /\ broker = "select" => \A c \in closed :
       /\ handler[c] = "returned"
       /\ c \in Range(subscribe) \cup clients => c \in early
  /\ broker = "panicked" => clients \cap early # {}
  /\ broker = "returned" => canceled

BrokerInv ==
  TypeOK /\ HandedBack /\ Registered /\ Happened /\ StreamInOrder /\ NoGap

-----------------------------------------------------------------------------
(* Lemmas about the operators.                                             *)

\* The head of a channel is taken out of it, and what is left is in order and
\* after the head.
LEMMA TakeHead ==
  ASSUME NEW S, NEW q \in Seq(S), q # <<>>
  PROVE  /\ Head(q) \in S
         /\ Tail(q) \in Seq(S) /\ Len(Tail(q)) = Len(q) - 1
         /\ Range(q) = {Head(q)} \cup Range(Tail(q))
         /\ Ascending(q) =>
              /\ Ascending(Tail(q))
              /\ Head(q) # Heartbeat =>
                   \A e \in Range(Tail(q)) \ {Heartbeat} : Head(q) < e
  <1>1. /\ Len(q) \in Nat \ {0} /\ DOMAIN q = 1 .. Len(q)
        /\ Head(q) = q[1] /\ Head(q) \in S
        /\ Tail(q) \in Seq(S) /\ Len(Tail(q)) = Len(q) - 1
        /\ DOMAIN Tail(q) = 1 .. Len(q) - 1
        /\ \A i \in 1 .. Len(q) - 1 : Tail(q)[i] = q[i + 1]
    OBVIOUS
  <1>2. \A i \in DOMAIN Tail(q) : i \in Nat /\ i + 1 \in DOMAIN q /\ Tail(q)[i] = q[i + 1]
    BY <1>1
  <1>3. \A i \in DOMAIN q : i = 1 \/ (i - 1 \in DOMAIN Tail(q) /\ Tail(q)[i - 1] = q[i])
    BY <1>1
  <1>4. 1 \in DOMAIN q /\ \A i \in DOMAIN Tail(q) : 1 < i + 1
    BY <1>1
  <1>5. Range(q) = {Head(q)} \cup Range(Tail(q))
    <2>1. Range(q) \subseteq {Head(q)} \cup Range(Tail(q))
      BY <1>1, <1>3 DEF Range
    <2>2. Head(q) \in Range(q) /\ Range(Tail(q)) \subseteq Range(q)
      BY <1>1, <1>2, <1>4 DEF Range
    <2>3. QED
      BY <2>1, <2>2
  <1>6. ASSUME Ascending(q) PROVE Ascending(Tail(q))
    <2>1. ASSUME NEW i \in DOMAIN Tail(q), NEW j \in DOMAIN Tail(q), i < j
          PROVE  i + 1 \in DOMAIN q /\ j + 1 \in DOMAIN q /\ i + 1 < j + 1
                 /\ Tail(q)[i] = q[i + 1] /\ Tail(q)[j] = q[j + 1]
      BY <1>2, <2>1
    <2>2. QED
      BY <1>6, <2>1 DEF Ascending
  <1>7. ASSUME Ascending(q), Head(q) # Heartbeat, NEW e \in Range(Tail(q)) \ {Heartbeat}
        PROVE  Head(q) < e
    <2>1. PICK i \in DOMAIN Tail(q) : e = Tail(q)[i]
      BY <1>7 DEF Range
    <2>2. QED
      BY <1>1, <1>2, <1>4, <1>7, <2>1 DEF Ascending
  <1>8. QED
    BY <1>1, <1>5, <1>6, <1>7

\* Putting something at the end of a channel adds it and nothing else.
LEMMA PutLast ==
  ASSUME NEW S, NEW q \in Seq(S), NEW x \in S
  PROVE  /\ Append(q, x) \in Seq(S) /\ Len(Append(q, x)) = Len(q) + 1
         /\ Range(Append(q, x)) = Range(q) \cup {x}
  <1>1. /\ Append(q, x) \in Seq(S) /\ Len(Append(q, x)) = Len(q) + 1
        /\ Len(q) \in Nat /\ DOMAIN q = 1 .. Len(q)
        /\ DOMAIN Append(q, x) = 1 .. Len(q) + 1
        /\ Append(q, x)[Len(q) + 1] = x
        /\ \A i \in 1 .. Len(q) : Append(q, x)[i] = q[i]
    OBVIOUS
  <1>2. QED
    BY <1>1 DEF Range

\* A heartbeat, or something later than what is in a channel, keeps its order.
LEMMA PutInOrder ==
  ASSUME NEW S, NEW q \in Seq(S), NEW x \in S, Ascending(q),
         x = Heartbeat \/ \A e \in Range(q) \ {Heartbeat} : e < x
  PROVE  Ascending(Append(q, x))
  <1>1. /\ Len(q) \in Nat /\ DOMAIN q = 1 .. Len(q)
        /\ DOMAIN Append(q, x) = 1 .. Len(q) + 1
        /\ Append(q, x)[Len(q) + 1] = x
        /\ \A i \in 1 .. Len(q) : Append(q, x)[i] = q[i]
    OBVIOUS
  <1> SUFFICES ASSUME NEW i \in DOMAIN Append(q, x), NEW j \in DOMAIN Append(q, x), i < j,
                      Append(q, x)[i] # Heartbeat, Append(q, x)[j] # Heartbeat
               PROVE  Append(q, x)[i] < Append(q, x)[j]
    BY DEF Ascending
  <1>2. i \in DOMAIN q /\ Append(q, x)[i] = q[i]
    BY <1>1
  <1>3. CASE j \in DOMAIN q
    BY <1>1, <1>2, <1>3 DEF Ascending
  <1>4. CASE j = Len(q) + 1
    <2>1. q[i] \in Range(q) \ {Heartbeat}
      BY <1>2 DEF Range
    <2>2. QED
      BY <1>1, <1>2, <1>4, <2>1
  <1>5. QED
    BY <1>1, <1>3, <1>4

\* A channel holds what its type says.
LEMMA RangeIn == ASSUME NEW S, NEW q \in Seq(S) PROVE Range(q) \subseteq S
  <1>1. \A i \in DOMAIN q : q[i] \in S
    OBVIOUS
  <1>2. QED
    BY <1>1 DEF Range

\* The empty channel.
LEMMA NothingThere == ASSUME NEW S PROVE <<>> \in Seq(S) /\ Range(<<>>) = {} /\ Ascending(<<>>) /\ Len(<<>>) = 0
  BY DEF Range, Ascending

\* A payload reaches the end of the buffers with room of some clients, and is
\* noted for the others; what was there stays, in order (Run's fan-out).
LEMMA PutFacts ==
  ASSUME TypeOK, StreamInOrder, Happened, streamed' = streamed,
         NEW e \in 0 .. MaxEvents, e = Heartbeat \/ e = event + 1,
         NEW to \in SUBSET Clients, Put(e, to)
  PROVE  /\ ch' \in [Clients -> Seq(0 .. MaxEvents)]
         /\ \A c \in Clients : Len(ch'[c]) <= BufferCap
         /\ skipped' \in [Clients -> SUBSET (1 .. MaxEvents)]
         /\ StreamInOrder'
         /\ \A c \in Clients :
              /\ Got(c) \subseteq Got(c)' /\ Got(c)' \subseteq Got(c) \cup ({e} \ {Heartbeat})
              /\ skipped[c] \subseteq skipped'[c]
              /\ c \notin to => Got(c)' = Got(c)
              /\ c \in to /\ e # Heartbeat => e \in Got(c)' \cup skipped'[c]
  <1>1. /\ ch' = [c \in Clients |->
                    IF c \in to /\ Len(ch[c]) < BufferCap THEN Append(ch[c], e) ELSE ch[c]]
        /\ skipped' = [c \in Clients |->
                         IF c \in to /\ Len(ch[c]) = BufferCap /\ e # Heartbeat
                         THEN skipped[c] \cup {e} ELSE skipped[c]]
    BY DEF Put
  <1>2. /\ ch \in [Clients -> Seq(0 .. MaxEvents)] /\ event \in 0 .. MaxEvents
        /\ skipped \in [Clients -> SUBSET (1 .. MaxEvents)]
        /\ streamed \in [Clients -> Seq(1 .. MaxEvents)]
        /\ \A c \in Clients : Len(ch[c]) <= BufferCap
    BY DEF TypeOK
  <1>3. ASSUME NEW c \in Clients
        PROVE  /\ ch'[c] \in Seq(0 .. MaxEvents) /\ Len(ch'[c]) <= BufferCap
               /\ skipped'[c] \in SUBSET (1 .. MaxEvents)
               /\ Got(c) \subseteq Got(c)' /\ Got(c)' \subseteq Got(c) \cup ({e} \ {Heartbeat})
               /\ skipped[c] \subseteq skipped'[c]
               /\ c \notin to => Got(c)' = Got(c)
               /\ c \in to /\ e # Heartbeat => e \in Got(c)' \cup skipped'[c]
               /\ Ascending(streamed[c]) /\ Ascending(ch'[c])
               /\ \A d \in Range(streamed[c]), f \in Range(ch'[c]) \ {Heartbeat} : d < f
    <2> DEFINE q == ch[c]
    <2>1. /\ Ascending(streamed[c]) /\ Ascending(q)
          /\ \A d \in Range(streamed[c]), f \in Range(q) \ {Heartbeat} : d < f
      BY DEF StreamInOrder
    <2>2. Got(c) = Range(streamed[c]) \cup (Range(q) \ {Heartbeat})
      BY DEF Got
    <2>3. Got(c)' = Range(streamed[c]) \cup (Range(ch'[c]) \ {Heartbeat})
      BY DEF Got
    <2>4. q \in Seq(0 .. MaxEvents) /\ Len(q) \in Nat /\ Len(q) <= BufferCap
      BY <1>2
    <2>5. CASE c \in to /\ Len(q) < BufferCap
      <3>1. ch'[c] = Append(q, e) /\ skipped'[c] = skipped[c]
        BY <1>1, <2>4, <2>5, BrokerAssumption
      <3>2. \A d \in Range(streamed[c]) \cup (Range(q) \ {Heartbeat}) : e # Heartbeat => d < e
        <4>1. \A d \in Got(c) : d \in Int /\ d <= event
          <5>1. Range(streamed[c]) \subseteq 1 .. MaxEvents
            BY <1>2, RangeIn
          <5>2. Range(q) \subseteq 0 .. MaxEvents
            BY <2>4, RangeIn
          <5>3. QED
            BY <2>2, <5>1, <5>2 DEF Happened
        <4>2. QED
          BY <1>2, <2>2, <4>1 DEF Heartbeat
      <3>3. /\ Append(q, e) \in Seq(0 .. MaxEvents) /\ Len(Append(q, e)) = Len(q) + 1
            /\ Range(Append(q, e)) = Range(q) \cup {e}
            /\ Ascending(Append(q, e))
        <4>1. e = Heartbeat \/ \A d \in Range(q) \ {Heartbeat} : d < e
          BY <3>2
        <4>2. Ascending(q)
          BY <2>1
        <4> DEFINE S == 0 .. MaxEvents
        <4>3. q \in Seq(S) /\ e \in S
          BY <2>4
        <4> HIDE DEF q, S
        <4>4. /\ Append(q, e) \in Seq(S) /\ Len(Append(q, e)) = Len(q) + 1
              /\ Range(Append(q, e)) = Range(q) \cup {e}
              /\ Ascending(Append(q, e))
          BY <4>1, <4>2, <4>3, PutLast, PutInOrder
        <4>5. QED
          BY <4>4 DEF S
      <3>4. \A d \in Range(streamed[c]), f \in Range(ch'[c]) \ {Heartbeat} : d < f
        BY <2>1, <3>1, <3>2, <3>3
      <3>5. Len(ch'[c]) <= BufferCap
        BY <2>4, <2>5, <3>1, <3>3, BrokerAssumption
      <3>6. QED
        BY <1>2, <2>1, <2>2, <2>3, <2>5, <3>1, <3>3, <3>4, <3>5
    <2>6. CASE ~(c \in to /\ Len(q) < BufferCap)
      <3>1. ch'[c] = q
        BY <1>1, <2>6
      <3>2. c \in to => Len(q) = BufferCap
        BY <2>4, <2>6, BrokerAssumption
      <3>3. /\ skipped'[c] \in SUBSET (1 .. MaxEvents) /\ skipped[c] \subseteq skipped'[c]
            /\ c \in to /\ e # Heartbeat => e \in skipped'[c]
        <4>1. e # Heartbeat => e \in 1 .. MaxEvents
          BY DEF Heartbeat
        <4>2. skipped'[c] = IF c \in to /\ Len(ch[c]) = BufferCap /\ e # Heartbeat
                            THEN skipped[c] \cup {e} ELSE skipped[c]
          BY <1>1
        <4>3. QED
          BY <1>2, <3>2, <4>1, <4>2
      <3>4. QED
        BY <2>1, <2>2, <2>3, <2>4, <3>1, <3>3
    <2>7. QED
      BY <2>5, <2>6
  <1>4. ch' \in [Clients -> Seq(0 .. MaxEvents)]
    BY <1>1, <1>3
  <1>5. skipped' \in [Clients -> SUBSET (1 .. MaxEvents)]
    BY <1>1, <1>3
  <1>6. StreamInOrder'
    BY <1>3 DEF StreamInOrder
  <1>7. QED
    BY <1>3, <1>4, <1>5, <1>6

\* What a client has got does not change when its handler writes it out.
LEMMA StreamFacts ==
  ASSUME TypeOK, StreamInOrder, NEW c \in Clients, Stream(c)
  PROVE  /\ ch' \in [Clients -> Seq(0 .. MaxEvents)]
         /\ \A d \in Clients : Len(ch'[d]) <= BufferCap
         /\ streamed' \in [Clients -> Seq(1 .. MaxEvents)]
         /\ StreamInOrder'
         /\ \A d \in Clients : Got(d)' = Got(d)
  <1> DEFINE q == ch[c]
             x == Head(ch[c])
             s == streamed[c]
  <1>1. /\ ch' = [ch EXCEPT ![c] = Tail(@)] /\ q # <<>>
        /\ streamed' = [streamed EXCEPT ![c] = IF x = Heartbeat THEN @ ELSE Append(@, x)]
    BY DEF Stream
  <1>2. /\ ch \in [Clients -> Seq(0 .. MaxEvents)]
        /\ streamed \in [Clients -> Seq(1 .. MaxEvents)]
        /\ \A d \in Clients : Len(ch[d]) <= BufferCap
    BY DEF TypeOK
  <1>3. /\ q \in Seq(0 .. MaxEvents) /\ s \in Seq(1 .. MaxEvents)
        /\ ch'[c] = Tail(q) /\ streamed'[c] = IF x = Heartbeat THEN s ELSE Append(s, x)
    BY <1>1, <1>2
  <1>4. \A d \in Clients \ {c} : ch'[d] = ch[d] /\ streamed'[d] = streamed[d]
    BY <1>1, <1>2
  <1>5. /\ Ascending(s) /\ Ascending(q)
        /\ \A e \in Range(s), f \in Range(q) \ {Heartbeat} : e < f
    BY DEF StreamInOrder
  <1>6. /\ x \in 0 .. MaxEvents
        /\ Tail(q) \in Seq(0 .. MaxEvents) /\ Len(Tail(q)) = Len(q) - 1
        /\ Range(q) = {x} \cup Range(Tail(q))
        /\ Ascending(Tail(q))
        /\ x # Heartbeat => \A e \in Range(Tail(q)) \ {Heartbeat} : x < e
    BY <1>1, <1>3, <1>5, TakeHead
  <1>7. /\ streamed'[c] \in Seq(1 .. MaxEvents) /\ Ascending(streamed'[c])
        /\ Range(streamed'[c]) = Range(s) \cup ({x} \ {Heartbeat})
    <2>1. CASE x = Heartbeat
      BY <1>3, <1>5, <2>1
    <2>2. CASE x # Heartbeat
      <3>1. x \in 1 .. MaxEvents
        BY <1>6, <2>2 DEF Heartbeat
      <3>2. \A e \in Range(s) \ {Heartbeat} : e < x
        BY <1>5, <1>6, <2>2
      <3>3. s \in Seq(1 .. MaxEvents) /\ Ascending(s)
        BY <1>3, <1>5
      <3>4. streamed'[c] = Append(s, x) /\ {x} \ {Heartbeat} = {x}
        BY <1>3, <2>2
      <3> DEFINE S == 1 .. MaxEvents
      <3>5. s \in Seq(S) /\ x \in S /\ Ascending(s)
        BY <3>1, <3>3
      <3> HIDE DEF s, x, S
      <3>6. /\ Append(s, x) \in Seq(S) /\ Ascending(Append(s, x))
            /\ Range(Append(s, x)) = Range(s) \cup {x}
        BY <3>2, <3>5, PutLast, PutInOrder
      <3>7. QED
        BY <3>4, <3>6 DEF S
    <2>3. QED
      BY <2>1, <2>2
  <1>8. Got(c)' = Got(c)
    <2>1. Got(c) = Range(s) \cup (Range(q) \ {Heartbeat})
      BY DEF Got
    <2>2. Got(c)' = Range(streamed'[c]) \cup (Range(ch'[c]) \ {Heartbeat})
      BY DEF Got
    <2>3. QED
      BY <1>3, <1>6, <1>7, <2>1, <2>2
  <1>9. \A e \in Range(streamed'[c]), f \in Range(ch'[c]) \ {Heartbeat} : e < f
    BY <1>3, <1>5, <1>6, <1>7
  <1>10. ch' \in [Clients -> Seq(0 .. MaxEvents)] /\ \A d \in Clients : Len(ch'[d]) <= BufferCap
    <2>1. Len(ch'[c]) <= BufferCap
      <3>1. Len(q) \in Nat /\ Len(q) <= BufferCap
        BY <1>2, <1>3
      <3>2. QED
        BY <1>3, <1>6, <3>1, BrokerAssumption
    <2>2. QED
      BY <1>1, <1>2, <1>3, <1>4, <1>6, <2>1
  <1>11. streamed' \in [Clients -> Seq(1 .. MaxEvents)]
    BY <1>1, <1>2, <1>7
  <1>12. StreamInOrder'
    BY <1>3, <1>4, <1>6, <1>7, <1>9 DEF StreamInOrder
  <1>13. \A d \in Clients : Got(d)' = Got(d)
    BY <1>4, <1>8 DEF Got
  <1>14. QED
    BY <1>10, <1>11, <1>12, <1>13

\* Whoever leaves the buffers and the streams alone changes nothing that the
\* clients have got.
LEMMA SameGot ==
  ASSUME UNCHANGED <<ch, streamed>>
  PROVE  /\ \A c : Got(c)' = Got(c)
         /\ StreamInOrder => StreamInOrder'
  BY DEF Got, StreamInOrder

-----------------------------------------------------------------------------
(* The invariant.                                                          *)

\* The broker starts with nobody registered and nothing sent.
LEMMA InitInv == Init => BrokerInv
  <1> SUFFICES ASSUME Init PROVE BrokerInv
    OBVIOUS
  <1>1. /\ canceled = FALSE /\ broker = "select" /\ server = "open"
        /\ subscribe = <<>> /\ unsubscribe = <<>>
        /\ clients = {} /\ gone = {} /\ closed = {} /\ early = {}
        /\ handler = [c \in Clients |-> "none"]
        /\ ch = [c \in Clients |-> <<>>]
        /\ streamed = [c \in Clients |-> <<>>]
        /\ skipped = [c \in Clients |-> {}]
        /\ event = 0
    BY DEF Init
  <1>2. \A S : <<>> \in Seq(S) /\ Range(<<>>) = {} /\ Ascending(<<>>) /\ Len(<<>>) = 0
    BY NothingThere
  <1>3. \A c \in Clients : Got(c) = {}
    BY <1>1, <1>2 DEF Got
  <1>4. TypeOK
    <2>1. /\ <<>> \in Seq(Clients) /\ <<>> \in Seq(0 .. MaxEvents) /\ <<>> \in Seq(1 .. MaxEvents)
          /\ Len(<<>>) <= QueueCap /\ Len(<<>>) <= BufferCap
      BY <1>2, BrokerAssumption
    <2>2. /\ ch \in [Clients -> Seq(0 .. MaxEvents)] /\ streamed \in [Clients -> Seq(1 .. MaxEvents)]
          /\ skipped \in [Clients -> SUBSET (1 .. MaxEvents)]
          /\ handler \in [Clients -> {"none", "subscribing", "streaming", "leaving", "returned"}]
          /\ \A c \in Clients : Len(ch[c]) <= BufferCap
      BY <1>1, <2>1
    <2>3. event \in 0 .. MaxEvents
      BY <1>1, BrokerAssumption
    <2>4. QED
      BY <1>1, <2>1, <2>2, <2>3 DEF TypeOK
  <1>5. HandedBack /\ Registered
    BY <1>1, <1>2, <1>3 DEF HandedBack, Registered
  <1>6. Happened /\ StreamInOrder /\ NoGap
    BY <1>1, <1>2, <1>3 DEF Happened, StreamInOrder, NoGap
  <1>7. QED
    BY <1>4, <1>5, <1>6 DEF BrokerInv

\* Handlers: a client connects, hands its channel over, goes away, and its
\* handler leaves, handing the channel back (all of Handler but the stream).
LEMMA HandlerInv ==
  ASSUME BrokerInv, NEW c \in Clients,
         Connect(c) \/ Subscribe(c) \/ Disconnect(c) \/ StreamEnd(c) \/ Unsubscribe(c)
  PROVE  BrokerInv'
  <1> USE DEF queueVars, clientVars, channelVars, Goto
  <1>1. TypeOK /\ HandedBack /\ Registered /\ Happened /\ StreamInOrder /\ NoGap
    BY DEF BrokerInv
  <1>2. UNCHANGED <<canceled, broker, clients, streamed, ch, closed, early, skipped, event,
                    server>>
    BY DEF Connect, Subscribe, Disconnect, StreamEnd, Unsubscribe
  <1>3. (\A d : Got(d)' = Got(d)) /\ StreamInOrder'
    BY <1>1, <1>2, SameGot
  <1>4. Happened'
    BY <1>1, <1>2, <1>3 DEF Happened
  <1>5. handler \in [Clients -> {"none", "subscribing", "streaming", "leaving", "returned"}]
    BY <1>1 DEF TypeOK
  <1>6. CASE Connect(c)
    <2>1. PICK pc \in {"subscribing", "returned"} :
            /\ UNCHANGED <<subscribe, unsubscribe, gone>>
            /\ handler[c] = "none"
            /\ handler' = [handler EXCEPT ![c] = pc]
      BY <1>6 DEF Connect
    <2>2. TypeOK'
      BY <1>1, <1>2, <2>1 DEF TypeOK
    <2>3. HandedBack'
      BY <1>1, <1>2, <1>5, <2>1 DEF HandedBack
    <2>4. Registered'
      BY <1>1, <1>2, <1>3, <1>5, <2>1 DEF Registered
    <2>5. NoGap'
      BY <1>1, <1>2, <1>3, <1>5, <2>1 DEF NoGap
    <2>6. QED
      BY <1>3, <1>4, <2>2, <2>3, <2>4, <2>5 DEF BrokerInv
  <1>7. CASE Subscribe(c)
    <2>1. /\ UNCHANGED <<unsubscribe, gone>>
          /\ handler[c] = "subscribing" /\ Len(subscribe) < QueueCap
          /\ handler' = [handler EXCEPT ![c] = "streaming"]
          /\ subscribe' = Append(subscribe, c)
      BY <1>7 DEF Subscribe
    <2>2. /\ subscribe' \in Seq(Clients) /\ Len(subscribe') = Len(subscribe) + 1
          /\ Range(subscribe') = Range(subscribe) \cup {c}
      BY <1>1, <2>1, PutLast DEF TypeOK
    <2>3. TypeOK'
      <3>1. Len(subscribe') <= QueueCap
        BY <1>1, <2>1, <2>2, BrokerAssumption DEF TypeOK
      <3>2. QED
        BY <1>1, <1>2, <2>1, <2>2, <3>1 DEF TypeOK
    <2>4. HandedBack'
      BY <1>1, <1>2, <1>5, <2>1 DEF HandedBack
    <2>5. Registered'
      BY <1>1, <1>2, <1>3, <1>5, <2>1, <2>2 DEF Registered
    <2>6. NoGap'
      <3>1. Got(c) = {}
        BY <1>1, <2>1 DEF Registered
      <3>2. QED
        BY <1>1, <1>2, <1>3, <1>5, <2>1, <3>1 DEF NoGap
    <2>7. QED
      BY <1>3, <1>4, <2>3, <2>4, <2>5, <2>6 DEF BrokerInv
  <1>8. CASE Disconnect(c)
    <2>1. UNCHANGED <<subscribe, unsubscribe, handler>> /\ gone' = gone \cup {c}
      BY <1>8 DEF Disconnect
    <2>2. TypeOK'
      BY <1>1, <1>2, <2>1 DEF TypeOK
    <2>3. HandedBack' /\ Registered' /\ NoGap'
      BY <1>1, <1>2, <1>3, <2>1 DEF HandedBack, Registered, NoGap
    <2>4. QED
      BY <1>3, <1>4, <2>2, <2>3 DEF BrokerInv
  <1>9. CASE StreamEnd(c)
    <2>1. /\ UNCHANGED <<subscribe, unsubscribe, gone>>
          /\ handler[c] = "streaming"
          /\ handler' = [handler EXCEPT ![c] = "leaving"]
      BY <1>9 DEF StreamEnd
    <2>2. TypeOK'
      BY <1>1, <1>2, <2>1 DEF TypeOK
    <2>3. HandedBack'
      BY <1>1, <1>2, <1>5, <2>1 DEF HandedBack
    <2>4. Registered'
      BY <1>1, <1>2, <1>3, <1>5, <2>1 DEF Registered
    <2>5. NoGap'
      BY <1>1, <1>2, <1>3, <1>5, <2>1 DEF NoGap
    <2>6. QED
      BY <1>3, <1>4, <2>2, <2>3, <2>4, <2>5 DEF BrokerInv
  <1>10. CASE Unsubscribe(c)
    <2>1. /\ UNCHANGED <<subscribe, gone>>
          /\ handler[c] = "leaving" /\ Len(unsubscribe) < QueueCap
          /\ handler' = [handler EXCEPT ![c] = "returned"]
          /\ unsubscribe' = Append(unsubscribe, c)
      BY <1>10 DEF Unsubscribe
    <2>2. /\ unsubscribe' \in Seq(Clients) /\ Len(unsubscribe') = Len(unsubscribe) + 1
          /\ Range(unsubscribe') = Range(unsubscribe) \cup {c}
      BY <1>1, <2>1, PutLast DEF TypeOK
    <2>3. TypeOK'
      <3>1. Len(unsubscribe') <= QueueCap
        BY <1>1, <2>1, <2>2, BrokerAssumption DEF TypeOK
      <3>2. QED
        BY <1>1, <1>2, <2>1, <2>2, <3>1 DEF TypeOK
    <2>4. HandedBack'
      BY <1>1, <1>2, <1>5, <2>1, <2>2 DEF HandedBack
    <2>5. Registered'
      BY <1>1, <1>2, <1>3, <1>5, <2>1 DEF Registered
    <2>6. NoGap'
      BY <1>1, <1>2, <1>3, <1>5, <2>1 DEF NoGap
    <2>7. QED
      BY <1>3, <1>4, <2>3, <2>4, <2>5, <2>6 DEF BrokerInv
  <1>11. QED
    BY <1>6, <1>7, <1>8, <1>9, <1>10

\* The stream: a handler writes out what is in its channel.
LEMMA StreamInv ==
  ASSUME BrokerInv, NEW c \in Clients, Stream(c)
  PROVE  BrokerInv'
  <1>1. TypeOK /\ HandedBack /\ Registered /\ Happened /\ StreamInOrder /\ NoGap
    BY DEF BrokerInv
  <1>2. UNCHANGED <<canceled, broker, subscribe, unsubscribe, clients, handler, gone, closed,
                    early, skipped, event, server>>
    BY DEF Stream, queueVars
  <1>3. /\ ch' \in [Clients -> Seq(0 .. MaxEvents)]
        /\ \A d \in Clients : Len(ch'[d]) <= BufferCap
        /\ streamed' \in [Clients -> Seq(1 .. MaxEvents)]
        /\ StreamInOrder'
        /\ \A d \in Clients : Got(d)' = Got(d)
    BY <1>1, StreamFacts
  <1>4. TypeOK'
    BY <1>1, <1>2, <1>3 DEF TypeOK
  <1>5. HandedBack' /\ Registered' /\ Happened' /\ NoGap'
    BY <1>1, <1>2, <1>3 DEF HandedBack, Registered, Happened, NoGap
  <1>6. QED
    BY <1>3, <1>4, <1>5 DEF BrokerInv

\* Run registers a client and lets one go, and it closes all at its end.
LEMMA RegistryInv ==
  ASSUME BrokerInv, TakeSubscribe \/ TakeUnsubscribe \/ Stop
  PROVE  BrokerInv'
  <1> USE DEF queueVars, clientVars, channelVars
  <1>1. TypeOK /\ HandedBack /\ Registered /\ Happened /\ StreamInOrder /\ NoGap
    BY DEF BrokerInv
  <1>2. /\ UNCHANGED <<canceled, handler, gone, streamed, ch, skipped, event, server>>
        /\ broker = "select"
    BY DEF TakeSubscribe, TakeUnsubscribe, Stop
  <1>3. (\A d : Got(d)' = Got(d)) /\ StreamInOrder'
    BY <1>1, <1>2, SameGot
  <1>4. Happened' /\ NoGap'
    BY <1>1, <1>2, <1>3 DEF Happened, NoGap
  <1>5. CASE TakeSubscribe
    <2> DEFINE c == Head(subscribe)
    <2>1. /\ UNCHANGED <<broker, unsubscribe, closed, early>>
          /\ subscribe # <<>> /\ subscribe' = Tail(subscribe)
          /\ clients' = clients \cup {c}
      BY <1>5 DEF TakeSubscribe
    <2>2. /\ c \in Clients
          /\ subscribe' \in Seq(Clients) /\ Len(subscribe') = Len(subscribe) - 1
          /\ Range(subscribe) = {c} \cup Range(subscribe')
      BY <1>1, <2>1, TakeHead DEF TypeOK
    <2>3. TypeOK'
      <3>1. Len(subscribe') <= QueueCap
        BY <1>1, <2>2, BrokerAssumption DEF TypeOK
      <3>2. QED
        BY <1>1, <1>2, <2>1, <2>2, <3>1 DEF TypeOK
    <2>4. HandedBack'
      BY <1>1, <1>2, <2>1 DEF HandedBack
    <2>5. Registered'
      BY <1>1, <1>2, <1>3, <2>1, <2>2 DEF Registered
    <2>6. QED
      BY <1>3, <1>4, <2>3, <2>4, <2>5 DEF BrokerInv
  <1>6. CASE TakeUnsubscribe
    <2> DEFINE c == Head(unsubscribe)
    <2>1. /\ UNCHANGED <<broker, subscribe>>
          /\ unsubscribe # <<>> /\ unsubscribe' = Tail(unsubscribe)
          /\ clients' = clients \ {c} /\ closed' = closed \cup {c}
          /\ early' = early \cup ({c} \cap Range(subscribe))
      BY <1>6 DEF TakeUnsubscribe
    <2>2. /\ c \in Clients
          /\ unsubscribe' \in Seq(Clients) /\ Len(unsubscribe') = Len(unsubscribe) - 1
          /\ Range(unsubscribe) = {c} \cup Range(unsubscribe')
      BY <1>1, <2>1, TakeHead DEF TypeOK
    <2>3. handler[c] = "returned"
      BY <1>1, <2>2 DEF HandedBack
    <2>4. TypeOK'
      <3>1. Len(unsubscribe') <= QueueCap
        BY <1>1, <2>2, BrokerAssumption DEF TypeOK
      <3>2. QED
        BY <1>1, <1>2, <2>1, <2>2, <3>1 DEF TypeOK
    <2>5. HandedBack'
      BY <1>1, <1>2, <2>1, <2>2, <2>3 DEF HandedBack
    <2>6. Registered'
      BY <1>1, <1>2, <1>3, <2>1, <2>3 DEF Registered
    <2>7. QED
      BY <1>3, <1>4, <2>4, <2>5, <2>6 DEF BrokerInv
  <1>7. CASE Stop
    <2>1. UNCHANGED <<subscribe, unsubscribe, clients, early>> /\ canceled
      BY <1>7 DEF Stop
    <2>2. \/ broker' = "returned" /\ closed' = closed \cup clients
          \/ /\ broker' = "panicked"
             /\ \E reached \in SUBSET (clients \ closed) : closed' = closed \cup reached
      BY <1>7 DEF Stop
    <2>3. closed \subseteq closed' /\ closed' \subseteq closed \cup clients /\ broker' \in {"returned", "panicked"}
      BY <2>2
    <2>4. TypeOK'
      BY <1>1, <1>2, <2>1, <2>3 DEF TypeOK
    <2>5. HandedBack'
      BY <1>1, <1>2, <2>1 DEF HandedBack
    <2>6. Registered'
      BY <1>1, <1>2, <1>3, <2>1, <2>2 DEF Registered
    <2>7. QED
      BY <1>3, <1>4, <2>4, <2>5, <2>6 DEF BrokerInv
  <1>8. QED
    BY <1>5, <1>6, <1>7

\* Run fans a payload out, and may panic half way through.
LEMMA FanOutInv ==
  ASSUME BrokerInv, AttackEvent \/ HeartbeatTick
  PROVE  BrokerInv'
  <1> USE DEF queueVars, clientVars
  <1>1. TypeOK /\ HandedBack /\ Registered /\ Happened /\ StreamInOrder /\ NoGap
    BY DEF BrokerInv
  <1>2. PICK e : /\ FanOut(e)
                 /\ \/ e = event + 1 /\ event < MaxEvents /\ event' = event + 1
                    \/ e = Heartbeat /\ event' = event
    BY DEF AttackEvent, HeartbeatTick
  <1>3. /\ UNCHANGED <<canceled, subscribe, unsubscribe, clients, handler, gone, streamed,
                       closed, early, server>>
        /\ broker = "select"
    BY <1>2 DEF FanOut
  <1>4. PICK to \in SUBSET Clients :
          /\ Put(e, to) /\ to \subseteq clients
          /\ broker' = "panicked" \/ (broker' = "select" /\ to = clients)
    <2>1. CASE clients \cap closed = {}
      BY <1>1, <1>2, <1>3, <2>1 DEF FanOut, TypeOK
    <2>2. CASE clients \cap closed # {}
      <3>1. PICK reached \in SUBSET (clients \ closed) : Put(e, reached)
        BY <1>2, <2>2 DEF FanOut
      <3>2. broker' = "panicked"
        BY <1>2, <2>2 DEF FanOut
      <3>3. reached \in SUBSET Clients /\ reached \subseteq clients
        BY <1>1 DEF TypeOK
      <3>4. QED
        BY <3>1, <3>2, <3>3
    <2>3. QED
      BY <2>1, <2>2
  <1>5. /\ e \in 0 .. MaxEvents /\ event' \in 0 .. MaxEvents /\ event \in 0 .. MaxEvents
        /\ e = Heartbeat \/ e = event + 1
        /\ {e} \ {Heartbeat} \subseteq {event'} /\ event <= event'
        /\ event' = event \/ (event' = event + 1 /\ e = event' /\ e # Heartbeat)
    BY <1>1, <1>2, BrokerAssumption DEF TypeOK, Heartbeat
  <1>6. /\ ch' \in [Clients -> Seq(0 .. MaxEvents)]
        /\ \A c \in Clients : Len(ch'[c]) <= BufferCap
        /\ skipped' \in [Clients -> SUBSET (1 .. MaxEvents)]
        /\ StreamInOrder'
        /\ \A c \in Clients :
             /\ Got(c) \subseteq Got(c)' /\ Got(c)' \subseteq Got(c) \cup ({e} \ {Heartbeat})
             /\ skipped[c] \subseteq skipped'[c]
             /\ c \notin to => Got(c)' = Got(c)
             /\ c \in to /\ e # Heartbeat => e \in Got(c)' \cup skipped'[c]
    BY <1>1, <1>3, <1>4, <1>5, PutFacts
  <1>7. TypeOK'
    BY <1>1, <1>3, <1>4, <1>5, <1>6 DEF TypeOK
  <1>8. HandedBack'
    BY <1>1, <1>3 DEF HandedBack
  <1>9. Registered'
    BY <1>1, <1>3, <1>4, <1>6 DEF Registered
  <1>10. \A c \in Clients : Got(c) \subseteq Int
    <2>1. \A c \in Clients : Range(streamed[c]) \subseteq 1 .. MaxEvents /\ Range(ch[c]) \subseteq 0 .. MaxEvents
      BY <1>1, RangeIn DEF TypeOK
    <2>2. QED
      BY <2>1 DEF Got
  <1>11. Happened'
    <2> SUFFICES ASSUME NEW c \in Clients, NEW d \in Got(c)' PROVE d <= event'
      BY DEF Happened
    <2>1. CASE d \in Got(c)
      <3>1. d <= event /\ d \in Int
        BY <1>1, <1>10, <2>1 DEF Happened
      <3>2. QED
        BY <1>5, <3>1
    <2>2. CASE d \notin Got(c)
      <3>1. d = event'
        BY <1>5, <1>6, <2>2
      <3>2. QED
        BY <1>5, <3>1
    <2>3. QED
      BY <2>1, <2>2
  <1>12. NoGap'
    <2> SUFFICES ASSUME NEW c \in Clients, broker' = "select", handler'[c] = "streaming",
                        NEW first \in Got(c)', NEW n \in first .. event'
                 PROVE  n \in Got(c)' \cup skipped'[c]
      BY DEF NoGap
    <2>1. to = clients /\ handler[c] = "streaming"
      BY <1>3, <1>4
    <2>2. c \in to
      <3>1. CASE c \in clients
        BY <2>1, <3>1
      <3>2. CASE c \notin clients
        BY <1>1, <1>6, <2>1, <3>2 DEF Registered
      <3>3. QED
        BY <3>1, <3>2
    <2>3. CASE first \in Got(c) /\ n <= event
      <3>1. first \in Int /\ n \in first .. event
        BY <1>5, <1>10, <2>3
      <3>2. n \in Got(c) \cup skipped[c]
        BY <1>1, <1>3, <2>1, <2>3, <3>1 DEF NoGap
      <3>3. QED
        BY <1>6, <3>2
    <2>4. CASE n > event /\ first \in Got(c)
      <3>1. n = event' /\ e = event' /\ e # Heartbeat
        BY <1>5, <1>10, <2>4
      <3>2. QED
        BY <1>6, <2>2, <3>1
    <2>5. CASE first \notin Got(c)
      <3>1. first = e /\ e = event' /\ e # Heartbeat
        BY <1>5, <1>6, <2>5
      <3>2. n = e
        BY <1>5, <3>1
      <3>3. QED
        BY <1>6, <2>2, <3>1, <3>2
    <2>6. QED
      <3>1. first \in Got(c) => n \in Int /\ event \in Int
        BY <1>5, <1>10
      <3>2. QED
        BY <2>3, <2>4, <2>5, <3>1
  <1>13. QED
    BY <1>6, <1>7, <1>8, <1>9, <1>11, <1>12 DEF BrokerInv

\* The shutdown of the server waits and gives up; it touches no channel.
LEMMA ServerInv ==
  ASSUME BrokerInv, Cancel \/ Shutdown \/ AllReturned \/ ShutdownTimeout \/ UNCHANGED vars
  PROVE  BrokerInv'
  <1>1. TypeOK /\ HandedBack /\ Registered /\ Happened /\ StreamInOrder /\ NoGap
    BY DEF BrokerInv
  <1>2. /\ UNCHANGED <<broker, subscribe, unsubscribe, clients, handler, gone, streamed,
                       ch, closed, early, skipped, event>>
        /\ canceled' = canceled \/ canceled' = TRUE
        /\ server' \in {server, "draining", "closed", "timedOut"}
    BY DEF Cancel, Shutdown, AllReturned, ShutdownTimeout, vars, queueVars, clientVars, channelVars
  <1>3. (\A d : Got(d)' = Got(d)) /\ StreamInOrder'
    BY <1>1, <1>2, SameGot
  <1>4. TypeOK'
    BY <1>1, <1>2 DEF TypeOK
  <1>5. HandedBack' /\ Registered' /\ Happened' /\ NoGap'
    BY <1>1, <1>2, <1>3 DEF HandedBack, Registered, Happened, NoGap
  <1>6. QED
    BY <1>3, <1>4, <1>5 DEF BrokerInv

\* The invariant holds in every state of the broker, its handlers and the
\* shutdown.
THEOREM Invariance == Spec => []BrokerInv
  <1>1. Init => BrokerInv
    BY InitInv
  <1>2. ASSUME BrokerInv, [Next]_vars PROVE BrokerInv'
    <2>1. CASE \E c \in Clients : Connect(c) \/ Disconnect(c) \/ Handler(c)
      <3>1. PICK c \in Clients : Connect(c) \/ Disconnect(c) \/ Handler(c)
        BY <2>1
      <3>2. CASE Stream(c)
        BY <1>2, <3>2, StreamInv
      <3>3. CASE Connect(c) \/ Subscribe(c) \/ Disconnect(c) \/ StreamEnd(c) \/ Unsubscribe(c)
        BY <1>2, <3>3, HandlerInv
      <3>4. QED
        BY <3>1, <3>2, <3>3 DEF Handler
    <2>2. CASE TakeSubscribe \/ TakeUnsubscribe \/ Stop
      BY <1>2, <2>2, RegistryInv
    <2>3. CASE AttackEvent \/ HeartbeatTick
      BY <1>2, <2>3, FanOutInv
    <2>4. CASE Cancel \/ Shutdown \/ AllReturned \/ ShutdownTimeout \/ UNCHANGED vars
      BY <1>2, <2>4, ServerInv
    <2>5. QED
      BY <1>2, <2>1, <2>2, <2>3, <2>4 DEF Next
  <1>3. QED
    BY <1>1, <1>2, PTL DEF Spec

\* Taking out early is the only way for the broker to know a closed channel: a
\* handler hands its channel back after it has handed it over, and the broker
\* closes what it takes out.
LEMMA EarlyInv ==
  ASSUME BrokerInv, TakenOutEarly, [Next]_vars
  PROVE  TakenOutEarly'
  <1> USE DEF queueVars, clientVars, channelVars, Goto
  <1>1. TypeOK /\ HandedBack
    BY DEF BrokerInv
  <1>2. handler \in [Clients -> {"none", "subscribing", "streaming", "leaving", "returned"}]
    BY <1>1 DEF TypeOK
  <1>3. ASSUME NEW c \in Clients,
               Connect(c) \/ Disconnect(c) \/ Stream(c) \/ StreamEnd(c) \/ Unsubscribe(c)
        PROVE  TakenOutEarly'
    <2>1. /\ UNCHANGED <<canceled, broker, subscribe, clients, closed, early>>
          /\ \A d \in Clients : handler[d] = "returned" => handler'[d] = "returned"
      BY <1>2, <1>3 DEF Connect, Disconnect, Stream, StreamEnd, Unsubscribe
    <2>2. QED
      BY <1>1, <2>1 DEF TakenOutEarly, TypeOK
  <1>4. ASSUME NEW c \in Clients, Subscribe(c) PROVE TakenOutEarly'
    <2>1. /\ UNCHANGED <<canceled, broker, clients, closed, early>>
          /\ handler[c] = "subscribing" /\ handler' = [handler EXCEPT ![c] = "streaming"]
          /\ subscribe' = Append(subscribe, c)
      BY <1>4 DEF Subscribe
    <2>2. Range(subscribe') = Range(subscribe) \cup {c}
      BY <1>1, <2>1, PutLast DEF TypeOK
    <2>3. broker = "select" => c \notin closed
      BY <2>1 DEF TakenOutEarly
    <2>4. QED
      BY <1>1, <1>2, <2>1, <2>2, <2>3 DEF TakenOutEarly, TypeOK
  <1>5. CASE TakeSubscribe
    <2>1. /\ UNCHANGED <<canceled, broker, handler, closed, early>> /\ subscribe # <<>>
          /\ subscribe' = Tail(subscribe) /\ clients' = clients \cup {Head(subscribe)}
          /\ broker = "select"
      BY <1>5 DEF TakeSubscribe
    <2>2. Range(subscribe) = {Head(subscribe)} \cup Range(subscribe')
      BY <1>1, <2>1, TakeHead DEF TypeOK
    <2>3. QED
      BY <2>1, <2>2 DEF TakenOutEarly
  <1>6. CASE TakeUnsubscribe
    <2> DEFINE c == Head(unsubscribe)
    <2>1. /\ UNCHANGED <<canceled, broker, handler, subscribe>> /\ unsubscribe # <<>>
          /\ clients' = clients \ {c} /\ closed' = closed \cup {c}
          /\ early' = early \cup ({c} \cap Range(subscribe))
          /\ broker = "select"
      BY <1>6 DEF TakeUnsubscribe
    <2>2. c \in Clients /\ c \in Range(unsubscribe)
      BY <1>1, <2>1, TakeHead DEF TypeOK
    <2>3. handler[c] = "returned"
      BY <1>1, <2>2 DEF HandedBack
    <2>4. QED
      BY <2>1, <2>3 DEF TakenOutEarly
  <1>7. CASE Stop
    <2>1. /\ UNCHANGED <<canceled, clients, early>> /\ canceled /\ broker = "select"
          /\ broker' = "returned" \/ (broker' = "panicked" /\ clients \cap closed # {})
      BY <1>7 DEF Stop
    <2>2. QED
      BY <2>1 DEF TakenOutEarly
  <1>8. CASE AttackEvent \/ HeartbeatTick
    <2>1. PICK e : FanOut(e)
      BY <1>8 DEF AttackEvent, HeartbeatTick
    <2>2. /\ UNCHANGED <<canceled, handler, subscribe, clients, closed, early>>
          /\ broker = "select"
          /\ broker' = broker \/ (broker' = "panicked" /\ clients \cap closed # {})
      BY <2>1 DEF FanOut
    <2>3. QED
      BY <2>2 DEF TakenOutEarly
  <1>9. CASE Cancel \/ Shutdown \/ AllReturned \/ ShutdownTimeout \/ UNCHANGED vars
    <2>1. /\ UNCHANGED <<broker, handler, subscribe, clients, closed, early>>
          /\ canceled' = canceled \/ canceled' = TRUE
      BY <1>9 DEF Cancel, Shutdown, AllReturned, ShutdownTimeout, vars
    <2>2. QED
      BY <2>1 DEF TakenOutEarly
  <1>10. QED
    BY <1>3, <1>4, <1>5, <1>6, <1>7, <1>8, <1>9 DEF Next, Handler

-----------------------------------------------------------------------------
(* The theorems.                                                           *)

\* The channels stay within their capacities, and the channel of a client that
\* is still being streamed to is open until the daemon goes down; once the broker
\* has returned, a handler still streaming has a closed channel to drain or was
\* never taken in (Run, Handler).
THEOREM BrokerIsSafe == Spec => []BrokerSafe
  <1>1. BrokerInv => BrokerSafe
    BY DEF BrokerInv, BrokerSafe, HandedBack, Registered, OpenWhileStreaming,
           ShutdownReleases
  <1>2. QED
    BY <1>1, Invariance, PTL

\* Every client gets the attack events in order and none of them twice.
THEOREM StreamsAreInOrder == Spec => []StreamInOrder
  <1>1. BrokerInv => StreamInOrder
    BY DEF BrokerInv
  <1>2. QED
    BY <1>1, Invariance, PTL

\* From its first event on, a client that is still streaming misses only what
\* was dropped at its own full buffer.
THEOREM StreamsHaveNoGap == Spec => []NoGap
  <1>1. BrokerInv => NoGap
    BY DEF BrokerInv
  <1>2. QED
    BY <1>1, Invariance, PTL

\* As long as the daemon runs, a client that is connected has a broker to stream
\* from, unless somebody's channel was taken out before it was taken in: nothing
\* else makes the broker send on, or close, a closed channel (Run, Handler).
THEOREM StreamsLast == Spec => []StreamsUntilDisconnect
  <1>1. Init => TakenOutEarly
    BY DEF Init, TakenOutEarly
  <1>2. BrokerInv /\ TakenOutEarly /\ [Next]_vars => TakenOutEarly'
    BY EarlyInv
  <1>3. BrokerInv /\ TakenOutEarly => StreamsUntilDisconnect
    BY DEF BrokerInv, TypeOK, TakenOutEarly, StreamsUntilDisconnect
  <1>4. QED
    BY <1>1, <1>2, <1>3, Invariance, PTL DEF Spec

-----------------------------------------------------------------------------
(* Login and session: what is known in each tab.                           *)

\* A request that is out; an answer with a cookie; one with a cookie of its own,
\* which a session made for it has; one that the browser takes for up to date.
Flying(s) == leg[s] \in {"sent", "loaded", "answered"}
Brings(s) == leg[s] = "answered" /\ answer[s].sets
BringsNew(s) == Brings(s) /\ answer[s].cookie # NoCookie /\ answer[s].cookie # sent[s]
InTime(s) == Brings(s) /\ sent[s] = cookie

Live(i) == sessions[i].is = "live"
LoggedIn(i) == sessions[i].is = "live" /\ sessions[i].user # Nobody

\* The operations, request by request.
Steps(t) ==
  /\ op[t] = "none" <=> leg[t] = "none"
  /\ op[t] = "guard" => at[t] = "me"
  /\ at[t] = "csrf" => op[t] \in {"login", "logout", "write"}
  /\ at[t] = "post" => op[t] \in {"login", "logout", "write"} /\ csrfToken[t] # NoToken
  /\ at[t] = "me" => op[t] \in {"login", "guard"}
  /\ op[t] # "none" => at[t] # "none"
  /\ loading[t] => op[t] = "login"
  /\ user[t] # Nobody => loaded[t] \/ op[t] = "guard"

\* A request, leg by leg.
Legs(t) ==
  /\ ~Flying(t) => sent[t] = NoCookie
  /\ leg[t] # "loaded" => held[t] = NoRow
  /\ held[t] = NoRow \/ (Found(t) /\ sent[t] # NoCookie)
  /\ leg[t] \notin {"answered", "received"} => answer[t] = NoAnswer
  /\ leg[t] # "answered" => ~answer[t].sets
  /\ ~answer[t].sets => answer[t].cookie = NoCookie
  /\ at[t] = "csrf" /\ answer[t].status = "ok" => answer[t].token # NoToken

\* What an answer tells, it tells of the session whose cookie it brings.
Telling(t) ==
  /\ answer[t].token # NoToken =>
       /\ at[t] = "csrf"
       /\ Flying(t) => Brings(t) /\ answer[t].cookie # NoCookie
       /\ BringsNew(t) => sessions[answer[t].cookie].csrf = answer[t].token
  /\ answer[t].user # Nobody /\ Flying(t) =>
       Brings(t) /\ answer[t].cookie = sent[t] /\ sent[t] # NoCookie
  /\ answer[t].status = "forbidden" => past[t] # "calm"

\* All names and tokens there are have been made.
AllMade ==
  /\ sessions[NoCookie] = NoRow /\ cookie <= made
  /\ \A i \in Numbers : /\ sessions[i].csrf <= made
                        /\ sessions[i].is # "over" => i <= made
                        /\ sessions[i].is # "live" => sessions[i].csrf = NoToken
  /\ \A t \in Tabs : /\ csrfToken[t] <= made /\ answer[t].token <= made
                     /\ held[t].csrf <= made /\ sent[t] <= made /\ answer[t].cookie <= made

\* Nobody else knows the name of a session that was made for an answer.
Fresh(s) ==
  BringsNew(s) =>
    /\ Live(answer[s].cookie) /\ cookie # answer[s].cookie
    /\ \A x \in Tabs : sent[x] # answer[s].cookie
    /\ \A x \in Tabs \ {s} : answer[x].cookie # answer[s].cookie

\* Nor the token of one that was made for a request without a cookie.
Private(s) ==
  BringsNew(s) /\ sent[s] = NoCookie =>
    LET k == sessions[answer[s].cookie].csrf
    IN  k # NoToken =>
          /\ \A x \in Tabs : csrfToken[x] # k /\ held[x].csrf # k
          /\ \A x \in Tabs \ {s} : answer[x].token # k
          /\ \A i \in Numbers \ {answer[s].cookie} : sessions[i].csrf # k

\* A request that nobody disturbed has the cookie and the session of now.
Calm(s) ==
  Flying(s) /\ ~upset[s] =>
    /\ sent[s] = cookie
    /\ leg[s] = "loaded" => held[s] = IF Live(cookie) THEN sessions[cookie] ELSE NoRow
    /\ Brings(s) /\ answer[s].cookie # sent[s] => ~Live(cookie)

\* A login that has been accepted, and was not disturbed since, finds its user.
Landing(t) ==
  ~upset[t] =>
    /\ (op[t] = "login" /\ at[t] = "me") \/ (op[t] = "guard" /\ user[t] # Nobody) =>
         /\ LoggedIn(cookie)
         /\ leg[t] \in {"answered", "received"} => answer[t].status = "ok" /\ answer[t].user # Nobody
         /\ Brings(t) => answer[t].cookie = cookie
    /\ op[t] = "login" /\ at[t] = "post" /\ answer[t].status = "ok" =>
         /\ leg[t] = "received" => LoggedIn(cookie)
         /\ leg[t] = "answered" => Brings(t) /\ LoggedIn(answer[t].cookie)

\* Requests keep apart: one with another cookie than the browser's has no session,
\* and an answer that will change the cookie leaves none behind.
KeepApart ==
  \A s \in Tabs :
    /\ Flying(s) /\ sent[s] # cookie => ~Live(sent[s])
    /\ InTime(s) /\ answer[s].cookie # cookie => ~Live(cookie)

\* The session i has the token k, or has been renewed; it has the user u, or had
\* two; and so has every session that the cookie may come to name unnoticed.
HasToken(i, k) == sessions[i].is = "renewed" \/ (Live(i) /\ sessions[i].csrf = k)
HasUser(i, u) == sessions[i].is = "renewed" \/ (Live(i) /\ (sessions[i].user = u \/ sessions[i].twice))
TokenStays(k) == HasToken(cookie, k) /\ \A s \in Tabs : InTime(s) => HasToken(answer[s].cookie, k)
UserStays(u) == HasUser(cookie, u) /\ \A s \in Tabs : InTime(s) => HasUser(answer[s].cookie, u)
TokenGone(k) ==
  sessions[cookie].csrf # k /\ \A s \in Tabs : InTime(s) => sessions[answer[s].cookie].csrf # k

\* What the tab has been told, once its cookie is the browser's.
HasTold(t) == Flying(t) => InTime(t) /\ answer[t].cookie = cookie

\* While requests keep apart, a tab's token and user are those of the session, until
\* one ends; from then on, no session has the token.
Agreed(t) ==
  past[t] # "mixed" =>
    /\ KeepApart
    /\ past[t] = "calm" =>
         /\ csrfToken[t] # NoToken => TokenStays(csrfToken[t])
         /\ answer[t].token # NoToken /\ HasTold(t) => TokenStays(answer[t].token)
         /\ user[t] # Nobody => UserStays(user[t])
         /\ answer[t].user # Nobody /\ HasTold(t) => UserStays(answer[t].user)
    /\ past[t] = "stale" /\ csrfToken[t] # NoToken => TokenGone(csrfToken[t])

\* The inductive invariant of the sessions.
SessionInv ==
  /\ SessionTypeOK /\ AllMade
  /\ \A t \in Tabs : /\ Steps(t) /\ Legs(t) /\ Telling(t) /\ Fresh(t)
                     /\ Private(t) /\ Calm(t) /\ Landing(t) /\ Agreed(t)

-----------------------------------------------------------------------------
(* Types.                                                                  *)

Ops == {"none", "guard", "login", "logout", "write"}

\* The names are numbers.
LEMMA NumbersAre ==
  MaxMade \in Nat /\ Numbers = 0 .. MaxMade /\ NoCookie = 0 /\ NoToken = 0
  /\ 0 \in Numbers
  <1>1. Cardinality(Tabs) \in Nat
    BY SessionAssumption, FS_CardinalityType
  <1>2. MaxMade \in Nat
    BY <1>1, SessionAssumption DEF MaxMade
  <1>3. QED
    BY <1>2 DEF Numbers, NoCookie, NoToken

\* The next name.
LEMMA NextName ==
  ASSUME made \in Numbers, made < MaxMade
  PROVE  made + 1 \in Numbers /\ made + 1 # NoCookie /\ made + 1 > made
  BY NumbersAre

\* The rows a handler makes, of one that it has.
LEMMA RowsMade ==
  ASSUME NEW h \in Row
  PROVE  /\ NoRow \in Row /\ [NoRow EXCEPT !.is = "renewed"] \in Row
         /\ NoRow.is = "over" /\ NoRow.csrf = NoToken /\ NoRow.user = Nobody
         /\ [NoRow EXCEPT !.is = "renewed"].is = "renewed"
         /\ [NoRow EXCEPT !.is = "renewed"].csrf = NoToken
         /\ \A k \in Numbers :
              LET r == [h EXCEPT !.is = "live", !.csrf = k]
              IN  /\ r \in Row /\ r.is = "live" /\ r.csrf = k /\ r.user = h.user
                  /\ r.twice = h.twice
         /\ \A u \in Users \cup {Nobody} :
              LET r == [h EXCEPT !.is = "live", !.user = u,
                                 !.twice = @ \/ h.user # Nobody]
              IN  /\ r \in Row /\ r.is = "live" /\ r.csrf = h.csrf /\ r.user = u
                  /\ r.twice = (h.twice \/ h.user # Nobody)
  BY NumbersAre DEF Row, NoRow, NoToken

\* The answers there are.
LEMMA Answers ==
  /\ NoAnswer \in Answer /\ NoAnswer.status = "none" /\ NoAnswer.user = Nobody
  /\ NoAnswer.token = NoToken /\ NoAnswer.sets = FALSE /\ NoAnswer.cookie = NoCookie
  /\ \A s \in {"ok", "unauthorized", "forbidden", "lost"} :
       /\ Reply(s) \in Answer /\ Reply(s).status = s
       /\ Reply(s).user = Nobody /\ Reply(s).token = NoToken
       /\ Reply(s).sets = FALSE /\ Reply(s).cookie = NoCookie
  /\ \A u \in Users \cup {Nobody} :
       LET a == [Reply("ok") EXCEPT !.user = u]
       IN  /\ a \in Answer /\ a.status = "ok" /\ a.user = u /\ a.token = NoToken
           /\ a.sets = FALSE /\ a.cookie = NoCookie
  /\ \A k \in Numbers :
       LET a == [Reply("ok") EXCEPT !.token = k]
       IN  /\ a \in Answer /\ a.status = "ok" /\ a.user = Nobody /\ a.token = k
           /\ a.sets = FALSE /\ a.cookie = NoCookie
  BY NumbersAre DEF NoAnswer, Reply, Answer, NoToken, NoCookie

\* An answer with a cookie.
LEMMA CookieAnswers ==
  ASSUME NEW a \in Answer, NEW i \in Numbers
  PROVE  LET b == WithCookie(a, i)
         IN  /\ b \in Answer /\ b.status = a.status /\ b.user = a.user /\ b.token = a.token
             /\ b.sets = TRUE /\ b.cookie = i
  BY DEF WithCookie, Answer

\* The type invariant by its parts.
TableTyped == sessions \in [Numbers -> Row] /\ made \in Numbers /\ cookie \in Numbers
StoreTyped ==
  /\ user \in [Tabs -> Users \cup {Nobody}] /\ loaded \in [Tabs -> BOOLEAN]
  /\ page \in [Tabs -> {"blank", "login", "app"}] /\ loading \in [Tabs -> BOOLEAN]
TokenTyped == csrfToken \in [Tabs -> Numbers]
RequestTyped ==
  /\ op \in [Tabs -> Ops] /\ at \in [Tabs -> {"none", "csrf", "post", "me"}]
  /\ leg \in [Tabs -> {"none", "sent", "loaded", "answered", "received"}]
  /\ sent \in [Tabs -> Numbers] /\ held \in [Tabs -> Row] /\ answer \in [Tabs -> Answer]
  /\ as \in [Tabs -> Users \cup {Nobody}]
PastTyped == past \in [Tabs -> {"calm", "stale", "late", "mixed"}]
UpsetTyped == upset \in [Tabs -> BOOLEAN]

\* The type invariant is that of its parts.
LEMMA Typed ==
  /\ SessionTypeOK <=> /\ TableTyped /\ StoreTyped /\ TokenTyped /\ RequestTyped
                /\ PastTyped /\ UpsetTyped /\ spent \in 0 .. Budget
  /\ SessionTypeOK' <=> /\ TableTyped' /\ StoreTyped' /\ TokenTyped' /\ RequestTyped'
                 /\ PastTyped' /\ UpsetTyped' /\ spent' \in 0 .. Budget
  BY DEF SessionTypeOK, TableTyped, StoreTyped, TokenTyped, RequestTyped, PastTyped, UpsetTyped, Ops

\* A tab asks.
LEMMA AskTyped ==
  ASSUME SessionTypeOK, NEW t \in Tabs, NEW o \in Ops, NEW r \in {"none", "csrf", "post", "me"},
         Ask(t, o, r), as' \in [Tabs -> Users \cup {Nobody}]
  PROVE  RequestTyped' /\ TableTyped'
  <1>0. TableTyped /\ RequestTyped
    BY Typed
  <1>1. TableTyped'
    BY <1>0 DEF Ask, tableVars, TableTyped
  <1>2. op' \in [Tabs -> Ops] /\ at' \in [Tabs -> {"none", "csrf", "post", "me"}]
    BY <1>0 DEF Ask, RequestTyped
  <1>3. leg' \in [Tabs -> {"none", "sent", "loaded", "answered", "received"}]
    BY <1>0 DEF Ask, RequestTyped
  <1>4. sent' \in [Tabs -> Numbers]
    <2>1. PICK c \in Numbers : c = IF r = "none" THEN NoCookie ELSE cookie
      BY <1>0, NumbersAre DEF TableTyped
    <2>2. sent' = [sent EXCEPT ![t] = c]
      BY <2>1 DEF Ask
    <2>3. QED
      BY <1>0, <2>2 DEF RequestTyped
  <1>5. held' \in [Tabs -> Row]
    BY <1>0 DEF Ask, RequestTyped
  <1>6. answer' \in [Tabs -> Answer]
    BY <1>0, Answers DEF Ask, RequestTyped
  <1>7. QED
    BY <1>1, <1>2, <1>3, <1>4, <1>5, <1>6 DEF RequestTyped

\* A request that an operation sends.
LEMMA SendTyped ==
  ASSUME SessionTypeOK, NEW t \in Tabs, NEW o \in Ops, NEW r \in {"none", "csrf", "post", "me"},
         Send(t, o, r)
  PROVE  RequestTyped' /\ TableTyped' /\ UpsetTyped'
  <1>1. as' \in [Tabs -> Users \cup {Nobody}] /\ UpsetTyped'
    BY Typed DEF Send, RequestTyped, UpsetTyped
  <1>2. QED
    BY <1>1, AskTyped DEF Send

\* It ends.
LEMMA FinishTyped ==
  ASSUME SessionTypeOK, NEW t \in Tabs, Finish(t)
  PROVE  RequestTyped' /\ TableTyped' /\ UpsetTyped'
  <1>1. as' \in [Tabs -> Users \cup {Nobody}] /\ UpsetTyped'
    BY Typed DEF Finish, RequestTyped, UpsetTyped
  <1>2. "none" \in Ops
    BY DEF Ops
  <1>3. QED
    BY <1>1, <1>2, AskTyped DEF Finish

\* A request that fails.
LEMMA FailsTyped ==
  ASSUME SessionTypeOK, NEW t \in Tabs, Fails(t)
  PROVE  RequestTyped' /\ TableTyped' /\ UpsetTyped' /\ StoreTyped'
  <1>1. RequestTyped' /\ TableTyped' /\ UpsetTyped'
    BY FinishTyped DEF Fails
  <1>2. StoreTyped'
    BY Typed DEF Fails, StoreTyped
  <1>3. QED
    BY <1>1, <1>2

\* The guard of the start page, which lets the tab in or sends it to the form.
LEMMA GuardTyped ==
  ASSUME SessionTypeOK, NEW t \in Tabs, NEW u, Guard(t, u)
  PROVE  /\ RequestTyped' /\ TableTyped' /\ UpsetTyped'
         /\ page' \in [Tabs -> {"blank", "login", "app"}] /\ loading' \in [Tabs -> BOOLEAN]
  <1>1. "guard" \in Ops
    BY DEF Ops
  <1>2. RequestTyped' /\ TableTyped' /\ UpsetTyped'
    BY <1>1, FinishTyped, SendTyped DEF Guard
  <1>3. PICK p \in {"blank", "login", "app"} : Go(t, p)
    <2>1. page[t] \in {"blank", "login", "app"}
      BY Typed DEF StoreTyped
    <2>2. QED
      BY <2>1 DEF Guard
  <1>4. QED
    BY <1>2, <1>3, Typed DEF Go, StoreTyped

\* The first request of a write.
LEMMA FirstTyped ==
  ASSUME NEW t \in Tabs
  PROVE  FirstOfWrite(t) \in {"none", "csrf", "post", "me"} \ {"none", "me"}
  BY DEF FirstOfWrite

\* What is spent is within the budget.
LEMMA SpendTyped ==
  ASSUME SessionTypeOK, Spend
  PROVE  spent' \in 0 .. Budget
  BY SessionAssumption DEF SessionTypeOK, Spend

\* What a tab does of itself keeps the types.
LEMMA ActTyped ==
  ASSUME SessionTypeOK, NEW t \in Tabs, Act(t)
  PROVE  SessionTypeOK'
  <1>0. /\ TableTyped /\ StoreTyped /\ TokenTyped /\ RequestTyped
        /\ PastTyped /\ UpsetTyped /\ spent \in 0 .. Budget
        /\ "guard" \in Ops /\ "login" \in Ops /\ "logout" \in Ops /\ "write" \in Ops
    BY Typed DEF Ops
  <1>f. FirstOfWrite(t) \in {"none", "csrf", "post", "me"}
    BY FirstTyped
  <1> SUFFICES /\ TableTyped' /\ StoreTyped' /\ TokenTyped' /\ RequestTyped'
               /\ PastTyped' /\ UpsetTyped' /\ spent' \in 0 .. Budget
    BY Typed
  <1>1. CASE Reload(t)
    <2>1. RequestTyped' /\ TableTyped' /\ UpsetTyped'
      BY <1>0, <1>1, SendTyped DEF Reload
    <2>2. StoreTyped'
      BY <1>0, <1>1 DEF Reload, Go, StoreTyped
    <2>3. TokenTyped' /\ PastTyped'
      BY <1>0, <1>1, NumbersAre DEF Reload, TokenTyped, PastTyped, NoToken
    <2>4. spent' \in 0 .. Budget
      BY <1>0, <1>1, SpendTyped DEF Reload
    <2>5. QED
      BY <2>1, <2>2, <2>3, <2>4
  <1>2. CASE Navigate(t)
    <2>1. /\ RequestTyped' /\ TableTyped' /\ UpsetTyped'
          /\ page' \in [Tabs -> {"blank", "login", "app"}] /\ loading' \in [Tabs -> BOOLEAN]
      BY <1>2, GuardTyped DEF Navigate
    <2>2. QED
      BY <1>0, <1>2, <2>1 DEF Navigate, StoreTyped, TokenTyped, PastTyped
  <1>3. CASE GoToLogin(t)
    <2>1. StoreTyped'
      BY <1>0, <1>3 DEF GoToLogin, Go, StoreTyped
    <2>2. spent' \in 0 .. Budget
      BY <1>3, SpendTyped DEF GoToLogin
    <2>3. QED
      BY <1>0, <1>3, <2>1, <2>2
         DEF GoToLogin, tableVars, requestVars, histVars, TableTyped, TokenTyped, RequestTyped,
             PastTyped, UpsetTyped
  <1>4. CASE Submit(t)
    <2>1. as' \in [Tabs -> Users \cup {Nobody}]
      BY <1>0, <1>4 DEF Submit, RequestTyped
    <2>2. RequestTyped' /\ TableTyped'
      BY <1>0, <1>f, <1>4, <2>1, AskTyped DEF Submit
    <2>3. spent' \in 0 .. Budget
      BY <1>4, SpendTyped DEF Submit
    <2>4. QED
      BY <1>0, <1>4, <2>2, <2>3
         DEF Submit, StoreTyped, histVars, TokenTyped, PastTyped, UpsetTyped
  <1>5. CASE ClickLogout(t)
    <2>1. RequestTyped' /\ TableTyped' /\ UpsetTyped'
      BY <1>0, <1>f, <1>5, SendTyped DEF ClickLogout
    <2>2. spent' \in 0 .. Budget
      BY <1>5, SpendTyped DEF ClickLogout
    <2>3. QED
      BY <1>0, <1>5, <2>1, <2>2 DEF ClickLogout, storeVars, StoreTyped, TokenTyped, PastTyped
  <1>6. CASE Write(t)
    <2>1. RequestTyped' /\ TableTyped' /\ UpsetTyped'
      BY <1>0, <1>f, <1>6, SendTyped DEF Write
    <2>2. spent' \in 0 .. Budget
      BY <1>6, SpendTyped DEF Write
    <2>3. QED
      BY <1>0, <1>6, <2>1, <2>2 DEF Write, storeVars, StoreTyped, TokenTyped, PastTyped
  <1>7. QED
    BY <1>1, <1>2, <1>3, <1>4, <1>5, <1>6 DEF Act

\* An answer to a request, with what its handler made of the rows.
LEMMA AnsweredTyped ==
  ASSUME SessionTypeOK, NEW t \in Tabs, NEW table \in [Numbers -> Row], NEW a \in Answer,
         Answered(t, table, a), made' \in Numbers
  PROVE  SessionTypeOK'
  <1>0. /\ TableTyped /\ StoreTyped /\ TokenTyped /\ RequestTyped
        /\ PastTyped /\ UpsetTyped /\ spent \in 0 .. Budget
    BY Typed
  <1>1. TableTyped'
    BY <1>0 DEF Answered, TableTyped
  <1>2. RequestTyped'
    BY <1>0, RowsMade DEF Answered, RequestTyped, NoRow, Row
  <1>3. PastTyped'
    <2>1. \A s \in Tabs : past[s] \in {"calm", "stale", "late", "mixed"}
      BY <1>0 DEF PastTyped
    <2>2. Mixed \in [Tabs -> {"calm", "stale", "late", "mixed"}]
      BY DEF Mixed
    <2>3. Ended \in [Tabs -> {"calm", "stale", "late", "mixed"}]
      BY <2>1 DEF Ended
    <2>4. past' \in {Mixed, Ended, past}
      BY DEF Answered
    <2>5. QED
      BY <1>0, <2>2, <2>3, <2>4 DEF PastTyped
  <1>4. UpsetTyped'
    BY <1>0 DEF Answered, UpsetTyped
  <1>5. StoreTyped' /\ TokenTyped' /\ spent' \in 0 .. Budget
    BY <1>0 DEF Answered, storeVars, StoreTyped, TokenTyped
  <1>6. QED
    BY <1>1, <1>2, <1>3, <1>4, <1>5, Typed

\* One that leaves the session alone.
LEMMA AnsweredOnlyTyped ==
  ASSUME SessionTypeOK, NEW t \in Tabs, NEW a \in Answer, AnsweredOnly(t, a)
  PROVE  SessionTypeOK'
  <1>0. TableTyped /\ RequestTyped /\ made' \in Numbers
    BY Typed DEF AnsweredOnly, TableTyped
  <1>1. held[t] \in Row /\ sent[t] \in Numbers
    BY <1>0 DEF RequestTyped
  <1>2. [sessions EXCEPT ![sent[t]] = held[t]] \in [Numbers -> Row]
    BY <1>0, <1>1 DEF TableTyped
  <1>3. WithCookie(a, sent[t]) \in Answer
    BY <1>1, CookieAnswers
  <1>4. CASE Found(t)
    BY <1>0, <1>2, <1>3, <1>4, AnsweredTyped DEF AnsweredOnly
  <1>5. CASE ~Found(t)
    BY <1>0, <1>5, AnsweredTyped DEF AnsweredOnly, TableTyped
  <1>6. QED
    BY <1>4, <1>5

\* What a handler does, by the rows and the answer it makes. Other rows stay.
Elsewhere(t, table) ==
  \A i \in Numbers :
    i # sent[t] /\ (made' # made => i # made + 1) => table[i] = sessions[i]

\* It finds a session and leaves it alone.
SessionKept(t, table, a) ==
  /\ Found(t) /\ made' = made /\ table[sent[t]] = held[t]
  /\ a.sets /\ a.cookie = sent[t] /\ a.token = NoToken
  /\ at[t] # "csrf" /\ a.user \in {Nobody, held[t].user}
  /\ at[t] = "me" /\ held[t].user # Nobody => a.status = "ok" /\ a.user # Nobody
  /\ at[t] = "post" /\ op[t] = "login" => a.status # "ok"
  /\ a.status = "forbidden" =>
       at[t] = "post" /\ held[t].user # Nobody /\ csrfToken[t] # held[t].csrf

\* It finds none and makes none.
NoSession(t, table, a) ==
  /\ ~Found(t) /\ made' = made /\ table = sessions
  /\ ~a.sets /\ a.cookie = NoCookie /\ a.token = NoToken /\ a.user = Nobody
  /\ a.status = "unauthorized"

\* It gives the session a token unless it has one.
TokenGiven(t, table, a) ==
  /\ Found(t) /\ at[t] = "csrf"
  /\ a.sets /\ a.cookie = sent[t] /\ a.user = Nobody /\ a.status = "ok" /\ a.token # NoToken
  /\ table[sent[t]].is = "live" /\ table[sent[t]].csrf = a.token
  /\ table[sent[t]].user = held[t].user /\ table[sent[t]].twice = held[t].twice
  /\ \/ made' = made /\ a.token = held[t].csrf
     \/ /\ made' = made + 1 /\ made' \in Numbers /\ held[t].csrf = NoToken /\ a.token = made + 1
        /\ table[made + 1] = sessions[made + 1]

\* It makes a session for the token.
SessionMade(t, table, a) ==
  /\ ~Found(t) /\ at[t] = "csrf" /\ made' = made + 1 /\ made' \in Numbers
  /\ a.sets /\ a.cookie = made + 1 /\ a.user = Nobody /\ a.status = "ok" /\ a.token = made + 1
  /\ table[sent[t]] = sessions[sent[t]]
  /\ table[made + 1].is = "live" /\ table[made + 1].csrf = made + 1

\* It logs somebody in, with a session of a new name.
SessionRenewed(t, table, a) ==
  /\ at[t] = "post" /\ op[t] = "login" /\ made' = made + 1 /\ made' \in Numbers
  /\ a.sets /\ a.cookie = made + 1 /\ a.user = Nobody /\ a.status = "ok" /\ a.token = NoToken
  /\ table[made + 1].is = "live" /\ table[made + 1].csrf = held[t].csrf
  /\ table[made + 1].user # Nobody
  /\ table[made + 1].twice = (held[t].twice \/ held[t].user # Nobody)
  /\ Found(t) => table[sent[t]].is = "renewed" /\ table[sent[t]].csrf = NoToken
  /\ ~Found(t) => table[sent[t]] = sessions[sent[t]]

\* It ends the session.
SessionEnded(t, table, a) ==
  /\ Found(t) /\ at[t] = "post" /\ op[t] = "logout" /\ made' = made
  /\ a.sets /\ a.cookie = NoCookie /\ a.user = Nobody /\ a.status = "ok" /\ a.token = NoToken
  /\ table[sent[t]] = NoRow

\* One of these is what it does.
HandlerDoes(t, table, a) ==
  /\ Elsewhere(t, table)
  /\ \/ SessionKept(t, table, a) \/ NoSession(t, table, a) \/ TokenGiven(t, table, a)
     \/ SessionMade(t, table, a) \/ SessionRenewed(t, table, a) \/ SessionEnded(t, table, a)

\* A handler runs.
HandlerDid(t, table, a) ==
  /\ Asked(t, at[t]) /\ Answered(t, table, a) /\ HandlerDoes(t, table, a)

\* A request with no session has no rows to work on.
LEMMA NotFound ==
  ASSUME NEW t \in Tabs, Legs(t), ~Found(t)
  PROVE  held[t] = NoRow /\ held[t].csrf = NoToken /\ held[t].user = Nobody
  BY DEF Legs, NoRow

\* Whoever leaves the session alone.
LEMMA AnsweredOnlyHandles ==
  ASSUME SessionTypeOK, NEW t \in Tabs, Legs(t), NEW a \in Answer, AnsweredOnly(t, a),
         ~a.sets, a.cookie = NoCookie, a.token = NoToken, a.user \in {Nobody, held[t].user},
         at[t] # "csrf",
         Found(t) \/ a.status = "unauthorized",
         at[t] = "me" /\ held[t].user # Nobody => a.status = "ok" /\ a.user # Nobody,
         at[t] = "post" /\ op[t] = "login" => a.status # "ok",
         a.status = "forbidden" =>
           at[t] = "post" /\ held[t].user # Nobody /\ csrfToken[t] # held[t].csrf
  PROVE  \E table \in [Numbers -> Row], b \in Answer :
           Answered(t, table, b) /\ HandlerDoes(t, table, b) /\ made' \in Numbers
  <1>0. TableTyped /\ RequestTyped /\ made' \in Numbers /\ made' = made
    BY Typed DEF AnsweredOnly, TableTyped
  <1>1. held[t] \in Row /\ sent[t] \in Numbers
    BY <1>0 DEF RequestTyped
  <1>2. CASE Found(t)
    <2>1. PICK table : table = [sessions EXCEPT ![sent[t]] = held[t]]
      OBVIOUS
    <2>2. PICK b \in Answer : b = WithCookie(a, sent[t])
      BY <1>1, CookieAnswers
    <2>3. table \in [Numbers -> Row] /\ table[sent[t]] = held[t]
          /\ \A i \in Numbers : i # sent[t] => table[i] = sessions[i]
      BY <1>0, <1>1, <2>1 DEF TableTyped
    <2>4. b.status = a.status /\ b.user = a.user /\ b.token = a.token /\ b.sets /\ b.cookie = sent[t]
      BY <1>1, <2>2, CookieAnswers, ZenonT(120)
    <2>5. SessionKept(t, table, b) /\ Elsewhere(t, table)
      BY <1>0, <1>2, <2>3, <2>4 DEF SessionKept, Elsewhere
    <2>6. Answered(t, table, b)
      BY <1>2, <2>1, <2>2 DEF AnsweredOnly
    <2>7. QED
      BY <1>0, <2>3, <2>5, <2>6 DEF HandlerDoes
  <1>3. CASE ~Found(t)
    <2>1. NoSession(t, sessions, a) /\ Elsewhere(t, sessions)
      BY <1>0, <1>3, NotFound DEF NoSession, Elsewhere
    <2>2. Answered(t, sessions, a) /\ sessions \in [Numbers -> Row]
      BY <1>0, <1>3 DEF AnsweredOnly, TableTyped
    <2>3. QED
      BY <1>0, <2>1, <2>2 DEF HandlerDoes
  <1>4. QED
    BY <1>2, <1>3

\* What a handler has.
LEMMA NextTyped ==
  ASSUME SessionTypeOK, NEW t \in Tabs
  PROVE  /\ sessions \in [Numbers -> Row] /\ made \in Numbers /\ held[t] \in Row
         /\ sent[t] \in Numbers /\ held[t].csrf \in Numbers
         /\ as[t] \in Users \cup {Nobody}
         /\ (made < MaxMade => made + 1 \in Numbers /\ made + 1 # made)
  <1>1. /\ sessions \in [Numbers -> Row] /\ made \in Numbers /\ held[t] \in Row
        /\ sent[t] \in Numbers /\ as[t] \in Users \cup {Nobody}
    BY Typed DEF TableTyped, RequestTyped
  <1>2. held[t].csrf \in Numbers
    BY <1>1 DEF Row
  <1>3. made < MaxMade => made + 1 \in Numbers /\ made + 1 # made
    BY <1>1, NumbersAre
  <1>4. QED
    BY <1>1, <1>2, <1>3

\* The rows of a table, pointwise.
LEMMA RowPut ==
  ASSUME NEW f, f \in [Numbers -> Row], NEW i \in Numbers, NEW r \in Row
  PROVE  /\ [f EXCEPT ![i] = r] \in [Numbers -> Row]
         /\ [f EXCEPT ![i] = r][i] = r
         /\ \A j \in Numbers : j # i => [f EXCEPT ![i] = r][j] = f[j]
  OBVIOUS

\* No cookie carries the next name.
LEMMA SentMade ==
  ASSUME SessionTypeOK, AllMade, NEW t \in Tabs
  PROVE  sent[t] \in Numbers /\ sent[t] # made + 1
  <1>1. sent[t] \in Numbers /\ sent[t] <= made /\ made \in Numbers
    BY Typed DEF TableTyped, RequestTyped, AllMade
  <1>2. QED
    BY <1>1, NumbersAre

\* The token is asked for.
LEMMA CsrfHandles ==
  ASSUME SessionTypeOK, AllMade, NEW t \in Tabs, Legs(t), ServeCsrf(t)
  PROVE  \E table \in [Numbers -> Row], a \in Answer :
           HandlerDid(t, table, a) /\ made' \in Numbers
  <1>0. /\ sessions \in [Numbers -> Row] /\ made \in Numbers /\ held[t] \in Row
        /\ sent[t] \in Numbers /\ held[t].csrf \in Numbers
        /\ (made < MaxMade => made + 1 \in Numbers /\ made + 1 # made)
    BY NextTyped
  <1>1. /\ Asked(t, "csrf") /\ Asked(t, at[t])
        /\ held[t].csrf # NoToken \/ made < MaxMade
        /\ made' = IF held[t].csrf = NoToken THEN made + 1 ELSE made
    BY DEF ServeCsrf, Asked
  <1>n. held[t].csrf = NoToken => made < MaxMade /\ made + 1 \in Numbers /\ made + 1 # NoToken
    BY <1>0, <1>1, NextName DEF NoToken, NoCookie
  <1>2. PICK k \in Numbers : k = IF held[t].csrf = NoToken THEN made + 1 ELSE held[t].csrf
    BY <1>0, <1>n
  <1>3. PICK i \in Numbers : i = IF Found(t) THEN sent[t] ELSE made + 1
    BY <1>0, <1>n, NotFound
  <1>4. PICK r : r = [held[t] EXCEPT !.is = "live", !.csrf = k]
    OBVIOUS
  <1>4r. /\ r \in Row /\ r.is = "live" /\ r.csrf = k /\ r.user = held[t].user
         /\ r.twice = held[t].twice
    BY <1>0, <1>4, RowsMade, ZenonT(120)
  <1>5. PICK b \in Answer : /\ b = [Reply("ok") EXCEPT !.token = k] /\ b.status = "ok"
                            /\ b.token = k /\ b.user = Nobody
    BY Answers
  <1>6. PICK a : a = WithCookie(b, i)
    OBVIOUS
  <1>6a. /\ a \in Answer /\ a.status = "ok" /\ a.token = k
         /\ a.user = Nobody /\ a.sets /\ a.cookie = i
    BY <1>5, <1>6, CookieAnswers
  <1>7. PICK table : table = [sessions EXCEPT ![i] = r]
    OBVIOUS
  <1>7t. /\ table \in [Numbers -> Row] /\ table[i] = r
         /\ \A j \in Numbers : j # i => table[j] = sessions[j]
    BY <1>0, <1>4r, <1>7, RowPut
  <1>8. Answered(t, table, a)
    <2>1. Answered(t, [sessions EXCEPT ![i] = r], WithCookie(b, i))
      BY <1>2, <1>3, <1>4, <1>4r, <1>5 DEF ServeCsrf
    <2>2. QED
      BY <2>1, <1>6, <1>6a, <1>7, <1>7t
  <1>9. made' \in Numbers
    BY <1>0, <1>1, <1>n
  <1>10. HandlerDoes(t, table, a)
    <2>1. CASE Found(t)
      <3>1. i = sent[t] /\ Elsewhere(t, table)
        BY <1>3, <1>7, <1>7t, <2>1 DEF Elsewhere
      <3>2. (made' = made /\ k = held[t].csrf /\ k # NoToken)
            \/ (/\ made' = made + 1 /\ held[t].csrf = NoToken /\ k = made + 1
                /\ table[made + 1] = sessions[made + 1])
        BY <1>1, <1>2, <1>n, <1>7t, <3>1, SentMade
      <3>3. TokenGiven(t, table, a)
        BY <1>1, <1>n, <1>4, <1>4r, <1>6, <1>6a, <1>7, <1>7t, <1>9, <2>1, <3>1, <3>2 DEF TokenGiven, Asked
      <3>4. QED
        BY <3>1, <3>3 DEF HandlerDoes
    <2>2. CASE ~Found(t)
      <3>1. i = made + 1 /\ made' = made + 1 /\ k = made + 1
        BY <1>1, <1>2, <1>3, <2>2, NotFound
      <3>2. Elsewhere(t, table)
        BY <1>0, <1>n, <1>7, <1>7t, <2>2, <3>1, NotFound DEF Elsewhere
      <3>3. sent[t] # made + 1
        BY <1>0, SentMade
      <3>4. SessionMade(t, table, a)
        BY <1>0, <1>1, <1>4, <1>4r, <1>6, <1>6a, <1>7, <1>7t, <1>9, <2>2, <3>1, <3>3 DEF SessionMade, Asked
      <3>5. QED
        BY <3>2, <3>4 DEF HandlerDoes
    <2>3. QED
      BY <2>1, <2>2
  <1>11. QED
    BY <1>1, <1>6a, <1>7t, <1>8, <1>9, <1>10 DEF HandlerDid

\* Somebody logs in.
LEMMA LoginHandles ==
  ASSUME SessionTypeOK, AllMade, NEW t \in Tabs, Legs(t), ServeLogin(t)
  PROVE  \E table \in [Numbers -> Row], a \in Answer :
           HandlerDid(t, table, a) /\ made' \in Numbers
  <1>0. /\ sessions \in [Numbers -> Row] /\ made \in Numbers /\ held[t] \in Row
        /\ sent[t] \in Numbers /\ held[t].csrf \in Numbers /\ as[t] \in Users \cup {Nobody}
        /\ (made < MaxMade => made + 1 \in Numbers /\ made + 1 # made)
    BY NextTyped
  <1>1. Asked(t, "post") /\ op[t] = "login" /\ Asked(t, at[t])
    BY DEF ServeLogin, Asked
  <1>2. CASE as[t] = Nobody
    <2>1. PICK a \in Answer : /\ a = Reply("unauthorized") /\ a.status = "unauthorized"
                              /\ a.user = Nobody /\ a.token = NoToken /\ ~a.sets
                              /\ a.cookie = NoCookie
      BY Answers
    <2>2. AnsweredOnly(t, a)
      BY <1>2, <2>1 DEF ServeLogin
    <2>3. at[t] = "post"
      BY <1>1 DEF Asked
    <2>4. QED
      BY <1>1, <2>1, <2>2, <2>3, AnsweredOnlyHandles DEF HandlerDid
  <1>3. CASE as[t] # Nobody
    <2>1. made < MaxMade /\ made' = made + 1 /\ made + 1 \in Numbers
      BY <1>0, <1>3 DEF ServeLogin
    <2>2. PICK r : r = [held[t] EXCEPT !.is = "live", !.user = as[t],
                                       !.twice = @ \/ held[t].user # Nobody]
      OBVIOUS
    <2>2r. /\ r \in Row /\ r.is = "live" /\ r.csrf = held[t].csrf /\ r.user = as[t]
           /\ r.twice = (held[t].twice \/ held[t].user # Nobody)
      BY <1>0, <2>2, RowsMade, ZenonT(120)
    <2>3. PICK b \in Answer : /\ b = Reply("ok") /\ b.status = "ok" /\ b.token = NoToken
                              /\ b.user = Nobody
      BY Answers
    <2>4. PICK a : a = WithCookie(b, made + 1)
      OBVIOUS
    <2>4a. /\ a \in Answer /\ a.status = "ok" /\ a.token = NoToken /\ a.user = Nobody
           /\ a.sets /\ a.cookie = made + 1
      BY <2>1, <2>3, <2>4, CookieAnswers
    <2>5. sent[t] # made + 1
      BY <1>0, SentMade
    <2>6. PICK base \in [Numbers -> Row] :
            /\ base = Renewed(t)
            /\ Found(t) => base[sent[t]].is = "renewed" /\ base[sent[t]].csrf = NoToken
            /\ ~Found(t) => base = sessions
            /\ \A j \in Numbers : j # sent[t] => base[j] = sessions[j]
      <3>1. PICK q \in Row : q = [NoRow EXCEPT !.is = "renewed"] /\ q.is = "renewed" /\ q.csrf = NoToken
        BY <1>0, RowsMade
      <3>2. CASE Found(t)
        <4>1. Renewed(t) = [sessions EXCEPT ![sent[t]] = q]
          BY <3>1, <3>2 DEF Renewed
        <4>2. QED
          <5>1. PICK base : base = [sessions EXCEPT ![sent[t]] = q]
            OBVIOUS
          <5>2. /\ base \in [Numbers -> Row] /\ base[sent[t]] = q
                /\ \A j \in Numbers : j # sent[t] => base[j] = sessions[j]
            BY <1>0, <3>1, <5>1, RowPut
          <5>3. QED
            BY <3>1, <3>2, <4>1, <5>1, <5>2
      <3>3. CASE ~Found(t)
        BY <1>0, <3>3 DEF Renewed
      <3>4. QED
        BY <3>2, <3>3
    <2>7. PICK table : table = [base EXCEPT ![made + 1] = r]
      OBVIOUS
    <2>7t. /\ table \in [Numbers -> Row] /\ table[made + 1] = r
           /\ \A j \in Numbers : j # made + 1 => table[j] = base[j]
      BY <2>1, <2>2r, <2>7, RowPut
    <2>8. Answered(t, table, a)
      BY <1>3, <2>2, <2>2r, <2>3, <2>4, <2>4a, <2>6, <2>7, <2>7t DEF ServeLogin
    <2>9. Elsewhere(t, table)
      BY <1>0, <2>1, <2>6, <2>7, <2>7t DEF Elsewhere
    <2>10. SessionRenewed(t, table, a)
      BY <1>0, <1>1, <1>3, <2>1, <2>2, <2>2r, <2>4, <2>4a, <2>5, <2>6, <2>7, <2>7t DEF SessionRenewed, Asked
    <2>11. made' \in Numbers
      BY <2>1
    <2>12. QED
      BY <1>1, <2>4a, <2>7t, <2>8, <2>9, <2>10, <2>11 DEF HandlerDid, HandlerDoes
  <1>4. QED
    BY <1>2, <1>3

\* Somebody logs out.
LEMMA LogoutHandles ==
  ASSUME SessionTypeOK, NEW t \in Tabs, Legs(t), ServeLogout(t)
  PROVE  \E table \in [Numbers -> Row], a \in Answer :
           HandlerDid(t, table, a) /\ made' \in Numbers
  <1>0. /\ sessions \in [Numbers -> Row] /\ made \in Numbers /\ sent[t] \in Numbers /\ NoRow \in Row
        /\ held[t] \in Row /\ NoCookie \in Numbers
    BY Typed, RowsMade, NumbersAre DEF TableTyped, RequestTyped
  <1>1. Asked(t, "post") /\ op[t] = "logout" /\ Asked(t, at[t]) /\ made' = made /\ at[t] = "post"
    BY DEF ServeLogout, Asked
  <1>2. Found(t)
    <2>1. held[t].user # Nobody
      BY DEF ServeLogout, Refusal
    <2>2. QED
      BY <2>1, NotFound
  <1>3. PICK b \in Answer : /\ b = Reply("ok") /\ b.status = "ok" /\ b.token = NoToken
                            /\ b.user = Nobody
    BY Answers
  <1>4. PICK a : a = WithCookie(b, NoCookie)
    OBVIOUS
  <1>4a. /\ a \in Answer /\ a.status = "ok" /\ a.token = NoToken
         /\ a.user = Nobody /\ a.sets /\ a.cookie = NoCookie
    BY <1>0, <1>3, <1>4, CookieAnswers
  <1>5. PICK table : table = [sessions EXCEPT ![sent[t]] = NoRow]
    OBVIOUS
  <1>5t. /\ table \in [Numbers -> Row] /\ table[sent[t]] = NoRow
         /\ \A j \in Numbers : j # sent[t] => table[j] = sessions[j]
    BY <1>0, <1>5, RowPut
  <1>6. Answered(t, table, a)
    BY <1>3, <1>4, <1>4a, <1>5, <1>5t DEF ServeLogout
  <1>7. Elsewhere(t, table) /\ SessionEnded(t, table, a)
    BY <1>1, <1>2, <1>4, <1>4a, <1>5, <1>5t DEF Elsewhere, SessionEnded
  <1>8. QED
    BY <1>0, <1>1, <1>4a, <1>5t, <1>6, <1>7 DEF HandlerDid, HandlerDoes

\* What the daemon does is to load a session or to run a handler.
LEMMA ServeHandles ==
  ASSUME SessionTypeOK, AllMade, NEW t \in Tabs, Steps(t), Legs(t), Serve(t), ~Load(t)
  PROVE  \E table \in [Numbers -> Row], a \in Answer :
           HandlerDid(t, table, a) /\ made' \in Numbers
  <1>0. held[t].user \in Users \cup {Nobody}
    BY Typed DEF RequestTyped, Row
  <1>1. CASE ServeMe(t)
    <2>1. PICK a \in Answer :
            /\ a = (IF held[t].user = Nobody THEN Reply("unauthorized")
                    ELSE [Reply("ok") EXCEPT !.user = held[t].user])
            /\ a.token = NoToken /\ ~a.sets /\ a.cookie = NoCookie /\ a.user = held[t].user
            /\ a.status = IF held[t].user = Nobody THEN "unauthorized" ELSE "ok"
      <3>1. CASE held[t].user = Nobody
        BY <3>1, Answers
      <3>2. CASE held[t].user # Nobody
        <4>1. PICK a : a = [Reply("ok") EXCEPT !.user = held[t].user]
          OBVIOUS
        <4>2. /\ a \in Answer /\ a.status = "ok" /\ a.user = held[t].user
              /\ a.token = NoToken /\ ~a.sets /\ a.cookie = NoCookie
          BY <1>0, <4>1, Answers
        <4>3. QED
          BY <3>2, <4>1, <4>2
      <3>3. QED
        BY <3>1, <3>2
    <2>2. AnsweredOnly(t, a) /\ at[t] = "me" /\ Asked(t, at[t])
      BY <1>1, <2>1 DEF ServeMe, Asked
    <2>3. Found(t) \/ a.status = "unauthorized"
      BY <2>1, NotFound
    <2>4. a.status = "forbidden" => FALSE
      BY <2>1
    <2>5. QED
      BY <2>1, <2>2, <2>3, <2>4, AnsweredOnlyHandles DEF HandlerDid
  <1>2. CASE ServeRefused(t)
    <2>1. /\ at[t] = "post" /\ Asked(t, at[t]) /\ op[t] # "login"
      BY <1>2 DEF ServeRefused, Asked
    <2>2. PICK s \in Refusal(t) : AnsweredOnly(t, Reply(s))
      BY <1>2 DEF ServeRefused
    <2>3. /\ s \in {"unauthorized", "forbidden"}
          /\ s = "forbidden" => /\ held[t].user # Nobody
                                /\ held[t].csrf = NoToken \/ csrfToken[t] # held[t].csrf
      BY <2>2 DEF Refusal
    <2>4. PICK a \in Answer : /\ a = Reply(s) /\ a.status = s /\ a.user = Nobody
                              /\ a.token = NoToken /\ ~a.sets /\ a.cookie = NoCookie
      BY <2>3, Answers
    <2>5. csrfToken[t] # NoToken
      BY <2>1 DEF Steps
    <2>6. Found(t) \/ a.status = "unauthorized"
      BY <2>3, <2>4, NotFound
    <2>7. a.status = "forbidden" => held[t].user # Nobody /\ csrfToken[t] # held[t].csrf
      BY <2>3, <2>4, <2>5
    <2>8. QED
      BY <2>1, <2>2, <2>4, <2>6, <2>7, AnsweredOnlyHandles DEF HandlerDid
  <1>3. CASE ServeWrite(t)
    <2>1. at[t] = "post" /\ Asked(t, at[t]) /\ op[t] = "write" /\ held[t].user # Nobody
      BY <1>3 DEF ServeWrite, Asked, Refusal
    <2>2. PICK a \in Answer : /\ a = Reply("ok") /\ a.status = "ok" /\ a.user = Nobody
                              /\ a.token = NoToken /\ ~a.sets /\ a.cookie = NoCookie
      BY Answers
    <2>3. AnsweredOnly(t, a)
      BY <1>3, <2>2 DEF ServeWrite
    <2>4. Found(t)
      BY <2>1, NotFound
    <2>5. QED
      BY <2>1, <2>2, <2>3, <2>4, AnsweredOnlyHandles DEF HandlerDid
  <1>4. QED
    BY <1>1, <1>2, <1>3, CsrfHandles, LoginHandles, LogoutHandles DEF Serve

\* What the daemon does keeps the types.
LEMMA ServeTyped ==
  ASSUME SessionTypeOK, AllMade, NEW t \in Tabs, Steps(t), Legs(t), Serve(t)
  PROVE  SessionTypeOK'
  <1>1. CASE Load(t)
    <2>0. TableTyped /\ RequestTyped /\ sent[t] \in Numbers /\ sessions[sent[t]] \in Row
      BY Typed DEF RequestTyped, TableTyped
    <2>1. PICK r \in Row : held' = [held EXCEPT ![t] = r]
      <3>1. NoRow \in Row
        BY <2>0, RowsMade
      <3>2. QED
        BY <1>1, <2>0, <3>1 DEF Load
    <2>2. RequestTyped'
      BY <2>0, <1>1, <2>1 DEF Load, RequestTyped
    <2>3. QED
      BY <1>1, <2>2, Typed
         DEF Load, tableVars, storeVars, histVars, TableTyped, StoreTyped, TokenTyped,
             PastTyped, UpsetTyped
  <1>2. CASE ~Load(t)
    <2>1. PICK table \in [Numbers -> Row], a \in Answer :
            HandlerDid(t, table, a) /\ made' \in Numbers
      BY <1>2, ServeHandles
    <2>2. QED
      BY <2>1, AnsweredTyped DEF HandlerDid
  <1>3. QED
    BY <1>1, <1>2

\* A lost request keeps the types.
LEMMA LoseTyped ==
  ASSUME SessionTypeOK, NEW t \in Tabs, Lose(t)
  PROVE  SessionTypeOK'
  <1>0. /\ TableTyped /\ StoreTyped /\ TokenTyped /\ RequestTyped /\ PastTyped /\ UpsetTyped
        /\ Reply("lost") \in Answer /\ NoCookie \in Numbers
    BY Typed, Answers, NumbersAre
  <1>1. RequestTyped'
    BY <1>0 DEF Lose, RequestTyped
  <1>2. TableTyped' /\ StoreTyped' /\ TokenTyped' /\ PastTyped' /\ UpsetTyped'
    BY <1>0 DEF Lose, tableVars, storeVars, TableTyped, StoreTyped, TokenTyped, PastTyped,
                UpsetTyped
  <1>3. spent' \in 0 .. Budget
    BY SpendTyped DEF Lose
  <1>4. QED
    BY <1>1, <1>2, <1>3, Typed

\* An answer that comes keeps the types.
LEMMA ReceiveTyped ==
  ASSUME SessionTypeOK, NEW t \in Tabs, Receive(t)
  PROVE  SessionTypeOK'
  <1>0. /\ TableTyped /\ StoreTyped /\ TokenTyped /\ RequestTyped /\ PastTyped /\ UpsetTyped
        /\ answer[t] \in Answer /\ NoCookie \in Numbers /\ spent \in 0 .. Budget
    BY Typed, NumbersAre DEF RequestTyped
  <1>1. PICK b \in Answer : b = [answer[t] EXCEPT !.sets = FALSE, !.cookie = NoCookie]
    BY <1>0 DEF Answer
  <1>2. answer' = [answer EXCEPT ![t] = b]
    BY <1>1 DEF Receive
  <1>3. RequestTyped'
    BY <1>0, <1>2, ZenonT(120) DEF Receive, RequestTyped
  <1>4. cookie' \in Numbers
    BY <1>0 DEF Receive, TableTyped, Answer
  <1>5. PastTyped'
    BY <1>0 DEF Receive, PastTyped, Mixed
  <1>6. UpsetTyped'
    BY <1>0 DEF Receive, UpsetTyped
  <1>7. TableTyped' /\ StoreTyped' /\ TokenTyped' /\ spent' \in 0 .. Budget
    BY <1>0, <1>4 DEF Receive, tableVars, storeVars, TableTyped, StoreTyped, TokenTyped
  <1>8. QED
    BY <1>3, <1>5, <1>6, <1>7, Typed

\* A session that expires keeps the types.
LEMMA ExpireTyped ==
  ASSUME SessionTypeOK, Expire
  PROVE  SessionTypeOK'
  <1>0. /\ TableTyped /\ StoreTyped /\ TokenTyped /\ RequestTyped /\ PastTyped /\ UpsetTyped
        /\ NoRow \in Row
    <2>1. NoRow \in Row
      BY NumbersAre DEF Row, NoRow, NoToken
    <2>2. QED
      BY <2>1, Typed
  <1>1. TableTyped'
    BY <1>0 DEF Expire, TableTyped
  <1>2. PastTyped'
    <2>1. \A s \in Tabs : past[s] \in {"calm", "stale", "late", "mixed"}
      BY <1>0 DEF PastTyped
    <2>2. QED
      BY <2>1 DEF Expire, Ended, PastTyped
  <1>3. UpsetTyped'
    BY <1>0 DEF Expire, UpsetTyped
  <1>4. RequestTyped' /\ StoreTyped' /\ TokenTyped'
    BY <1>0 DEF Expire, storeVars, requestVars, RequestTyped, StoreTyped, TokenTyped
  <1>5. spent' \in 0 .. Budget
    BY SpendTyped DEF Expire
  <1>6. QED
    BY <1>1, <1>2, <1>3, <1>4, <1>5, Typed

\* What a tab does with an answer keeps the types.
LEMMA ContinueTyped ==
  ASSUME SessionTypeOK, NEW t \in Tabs, Continue(t)
  PROVE  SessionTypeOK'
  <1>0. /\ TableTyped /\ StoreTyped /\ TokenTyped /\ RequestTyped /\ PastTyped /\ UpsetTyped
        /\ answer[t] \in Answer /\ spent \in 0 .. Budget /\ op[t] \in Ops
        /\ "guard" \in Ops /\ "login" \in Ops /\ "logout" \in Ops /\ "write" \in Ops
    BY Typed DEF RequestTyped, Ops
  <1>r. answer[t].token \in Numbers /\ answer[t].user \in Users \cup {Nobody}
    BY <1>0 DEF Answer
  <1> DEFINE Rest == TokenTyped' /\ PastTyped' /\ spent' \in 0 .. Budget
  <1> SUFFICES ASSUME ~Receive(t)
               PROVE  /\ RequestTyped' /\ TableTyped' /\ UpsetTyped' /\ StoreTyped' /\ Rest
    BY ReceiveTyped, Typed
  <1>1. CASE TokenArrives(t)
    <2>1. CASE answer[t].status = "ok"
      <3>1. Send(t, op[t], "post") /\ UNCHANGED storeVars
        BY <1>1, <2>1 DEF TokenArrives
      <3>2. RequestTyped' /\ TableTyped' /\ UpsetTyped'
        BY <1>0, <3>1, SendTyped
      <3>3. StoreTyped'
        BY <1>0, <3>1 DEF storeVars, StoreTyped
      <3>4. TokenTyped'
        BY <1>0, <1>r, <1>1, <2>1 DEF TokenArrives, TokenTyped
      <3>5. PastTyped' /\ spent' \in 0 .. Budget
        BY <1>0, <1>1, <2>1 DEF TokenArrives, PastTyped
      <3>6. QED
        BY <3>2, <3>3, <3>4, <3>5
    <2>2. CASE answer[t].status # "ok"
      BY <1>0, <1>1, <2>2, FailsTyped DEF TokenArrives, TokenTyped, PastTyped
    <2>3. QED
      BY <2>1, <2>2
  <1>2. CASE PostArrives(t)
    <2>1. Rest
      BY <1>0, <1>2 DEF PostArrives, TokenTyped, PastTyped
    <2>2. CASE Fails(t)
      BY <2>1, <2>2, FailsTyped
    <2>3. CASE Send(t, "login", "me") /\ UNCHANGED storeVars
      BY <1>0, <2>1, <2>3, SendTyped DEF storeVars, StoreTyped
    <2>4. CASE /\ Finish(t)
               /\ user' = [user EXCEPT ![t] = Nobody]
               /\ loaded' = [loaded EXCEPT ![t] = FALSE]
               /\ Go(t, "login")
      <3>1. RequestTyped' /\ TableTyped' /\ UpsetTyped'
        BY <2>4, FinishTyped
      <3>2. StoreTyped'
        BY <1>0, <2>4 DEF Go, StoreTyped
      <3>3. QED
        BY <2>1, <3>1, <3>2
    <2>5. CASE Finish(t) /\ UNCHANGED storeVars
      BY <1>0, <2>1, <2>5, FinishTyped DEF storeVars, StoreTyped
    <2>6. QED
      BY <1>2, <2>2, <2>3, <2>4, <2>5 DEF PostArrives
  <1>3. CASE LoginDone(t)
    <2>1. Rest
      BY <1>0, <1>3 DEF LoginDone, TokenTyped, PastTyped
    <2>2. CASE answer[t].status = "ok"
      <3>1. Guard(t, answer[t].user) /\ user' = [user EXCEPT ![t] = answer[t].user]
            /\ loaded' = loaded
        BY <1>3, <2>2 DEF LoginDone
      <3>2. /\ RequestTyped' /\ TableTyped' /\ UpsetTyped'
            /\ page' \in [Tabs -> {"blank", "login", "app"}] /\ loading' \in [Tabs -> BOOLEAN]
        BY <3>1, GuardTyped
      <3>3. StoreTyped'
        BY <1>0, <1>r, <3>1, <3>2 DEF StoreTyped
      <3>4. QED
        BY <2>1, <3>2, <3>3
    <2>3. CASE answer[t].status # "ok"
      BY <1>3, <2>1, <2>3, FailsTyped DEF LoginDone
    <2>4. QED
      BY <2>2, <2>3
  <1>4. CASE GuardDone(t)
    <2>1. Rest
      BY <1>0, <1>4 DEF GuardDone, TokenTyped, PastTyped
    <2>2. RequestTyped' /\ TableTyped' /\ UpsetTyped'
      BY <1>4, FinishTyped DEF GuardDone
    <2>3. PICK u \in Users \cup {Nobody} :
            /\ u = IF answer[t].status = "ok" THEN answer[t].user ELSE Nobody
      BY <1>r
    <2>4. user' = [user EXCEPT ![t] = u]
          /\ Go(t, IF u = Nobody THEN "login" ELSE "app")
      BY <1>4, <2>3 DEF GuardDone
    <2>5. StoreTyped'
      BY <1>0, <1>4, <2>4 DEF GuardDone, Go, StoreTyped
    <2>6. QED
      BY <2>1, <2>2, <2>5
  <1>5. QED
    BY <1>1, <1>2, <1>3, <1>4 DEF Continue

\* Every step keeps the types.
LEMMA NextTypes ==
  ASSUME SessionTypeOK, AllMade, \A t \in Tabs : Steps(t) /\ Legs(t), SessionNext
  PROVE  SessionTypeOK'
  BY ExpireTyped, ActTyped, ServeTyped, LoseTyped, ContinueTyped DEF SessionNext

-----------------------------------------------------------------------------
(* Steps, by what they do to the requests.                                 *)

\* The tab s has no part in the step.
Kept(s) ==
  /\ csrfToken'[s] = csrfToken[s] /\ user'[s] = user[s] /\ loaded'[s] = loaded[s]
  /\ loading'[s] = loading[s] /\ op'[s] = op[s] /\ at'[s] = at[s] /\ leg'[s] = leg[s]
  /\ sent'[s] = sent[s] /\ held'[s] = held[s] /\ answer'[s] = answer[s]

\* The tab goes on by itself, to a new request or to none.
Asking(t) ==
  /\ sessions' = sessions /\ made' = made /\ cookie' = cookie
  /\ held'[t] = held[t] /\ answer'[t] = NoAnswer
  /\ ~Flying(t)
  /\ \/ leg'[t] = "none" /\ sent'[t] = NoCookie
     \/ leg'[t] = "sent" /\ sent'[t] = cookie

\* Its token and its user.
Learning(t) ==
  \/ /\ csrfToken'[t] = csrfToken[t] /\ past'[t] = past[t]
     /\ user'[t] \in {user[t], Nobody, answer[t].user}
  \/ /\ csrfToken'[t] = answer[t].token /\ answer[t].token # NoToken /\ user'[t] = user[t]
     /\ past'[t] = IF past[t] = "stale" THEN "late" ELSE past[t]
  \/ /\ csrfToken'[t] = NoToken /\ user'[t] = Nobody /\ leg[t] = "none"
     /\ past'[t] = IF \E s \in Tabs \ {t} : upset[s] THEN "mixed" ELSE "calm"

\* A step of its script.
Scripted(t) ==
  /\ Asking(t) /\ Learning(t)
  /\ \A s \in Tabs \ {t} : Kept(s) /\ past'[s] = past[s] /\ upset'[s] = upset[s]

\* A new request, or none.
LEMMA AskKeeps ==
  ASSUME SessionTypeOK, NEW t \in Tabs, NEW o, NEW r \in {"none", "csrf", "post", "me"},
         Ask(t, o, r), ~Flying(t)
  PROVE  /\ Asking(t) /\ op'[t] = o /\ at'[t] = r
         /\ leg'[t] = IF r = "none" THEN "none" ELSE "sent"
         /\ \A s \in Tabs \ {t} : /\ op'[s] = op[s] /\ at'[s] = at[s] /\ leg'[s] = leg[s]
                                  /\ sent'[s] = sent[s] /\ held'[s] = held[s]
                                  /\ answer'[s] = answer[s]
  <1>0. /\ op \in [Tabs -> Ops] /\ at \in [Tabs -> {"none", "csrf", "post", "me"}]
        /\ leg \in [Tabs -> {"none", "sent", "loaded", "answered", "received"}]
        /\ sent \in [Tabs -> Numbers] /\ answer \in [Tabs -> Answer]
    BY Typed DEF RequestTyped
  <1>1. sessions' = sessions /\ made' = made /\ cookie' = cookie /\ held' = held
    BY DEF Ask, tableVars
  <1>2. op'[t] = o /\ \A s \in Tabs \ {t} : op'[s] = op[s]
    BY <1>0 DEF Ask
  <1>3. at'[t] = r /\ \A s \in Tabs \ {t} : at'[s] = at[s]
    BY <1>0 DEF Ask
  <1>4. leg'[t] = (IF r = "none" THEN "none" ELSE "sent") /\ \A s \in Tabs \ {t} : leg'[s] = leg[s]
    BY <1>0 DEF Ask
  <1>5. sent'[t] = (IF r = "none" THEN NoCookie ELSE cookie) /\ \A s \in Tabs \ {t} : sent'[s] = sent[s]
    BY <1>0 DEF Ask
  <1>6. answer'[t] = NoAnswer /\ \A s \in Tabs \ {t} : answer'[s] = answer[s]
    BY <1>0 DEF Ask
  <1>7. Asking(t)
    BY <1>1, <1>4, <1>5, <1>6 DEF Asking
  <1>8. QED
    BY <1>1, <1>2, <1>3, <1>4, <1>5, <1>6, <1>7

\* One of an operation that goes on leaves the history of its requests; the last
\* step of an operation clears it.
Asked2(t, o, r) ==
  /\ Asking(t) /\ op'[t] = o /\ at'[t] = r
  /\ leg'[t] = IF r = "none" THEN "none" ELSE "sent"
  /\ \A s \in Tabs \ {t} : /\ op'[s] = op[s] /\ at'[s] = at[s] /\ leg'[s] = leg[s]
                           /\ sent'[s] = sent[s] /\ held'[s] = held[s]
                           /\ answer'[s] = answer[s] /\ upset'[s] = upset[s]
  /\ upset'[t] = IF o = "none" THEN FALSE ELSE upset[t]

\* A request that an operation sends.
LEMMA SendKeeps ==
  ASSUME SessionTypeOK, NEW t \in Tabs, NEW o \in Ops \ {"none"}, NEW r \in {"csrf", "post", "me"},
         Send(t, o, r), ~Flying(t)
  PROVE  Asked2(t, o, r)
  <1>1. Ask(t, o, r) /\ upset' = upset /\ o # "none"
    BY DEF Send
  <1>2. QED
    BY <1>1, AskKeeps DEF Asked2

\* The end of an operation.
LEMMA FinishKeeps ==
  ASSUME SessionTypeOK, NEW t \in Tabs, Finish(t), ~Flying(t)
  PROVE  Asked2(t, "none", "none")
  <1>1. Ask(t, "none", "none") /\ upset' = [upset EXCEPT ![t] = FALSE]
    BY DEF Finish
  <1>2. upset'[t] = FALSE /\ \A s \in Tabs \ {t} : upset'[s] = upset[s]
    BY <1>1, Typed DEF UpsetTyped
  <1>3. QED
    BY <1>1, <1>2, AskKeeps DEF Asked2

\* The page and the form belong to one tab.
LEMMA GoKeeps ==
  ASSUME SessionTypeOK, NEW t \in Tabs, NEW p, Go(t, p)
  PROVE  /\ page'[t] = p /\ loading'[t] = FALSE
         /\ \A s \in Tabs \ {t} : page'[s] = page[s] /\ loading'[s] = loading[s]
  BY Typed DEF StoreTyped, Go

\* Scripted, from the parts.
LEMMA ScriptedBy ==
  ASSUME NEW t \in Tabs, NEW o, NEW r, Asked2(t, o, r), Learning(t),
         \A s \in Tabs \ {t} : /\ csrfToken'[s] = csrfToken[s] /\ user'[s] = user[s]
                               /\ loaded'[s] = loaded[s] /\ loading'[s] = loading[s]
                               /\ past'[s] = past[s]
  PROVE  Scripted(t)
  BY DEF Scripted, Asked2, Kept

\* A request that fails.
LEMMA FailsKeeps ==
  ASSUME SessionTypeOK, NEW t \in Tabs, Fails(t), ~Flying(t), csrfToken' = csrfToken, past' = past
  PROVE  /\ Asked2(t, "none", "none") /\ Scripted(t) /\ loading'[t] = FALSE /\ page' = page
         /\ user'[t] = user[t] \/ user'[t] = Nobody
         /\ user'[t] # Nobody => loaded'[t] = loaded[t]
  <1>1. Asked2(t, "none", "none") /\ page' = page
    BY FinishKeeps DEF Fails
  <1>2. /\ loading'[t] = FALSE
        /\ user'[t] = user[t] \/ user'[t] = Nobody
        /\ user'[t] # Nobody => loaded'[t] = loaded[t]
        /\ \A s \in Tabs \ {t} : user'[s] = user[s] /\ loaded'[s] = loaded[s] /\ loading'[s] = loading[s]
    BY Typed DEF Fails, StoreTyped
  <1>3. Learning(t)
    BY <1>2 DEF Learning
  <1>4. QED
    BY <1>1, <1>2, <1>3, ScriptedBy

\* The guard of a page.
LEMMA GuardKeeps ==
  ASSUME SessionTypeOK, NEW t \in Tabs, NEW u, Guard(t, u), ~Flying(t)
  PROVE  /\ \/ loaded[t] /\ Asked2(t, "none", "none")
               /\ page'[t] = IF u = Nobody THEN "login" ELSE "app"
            \/ ~loaded[t] /\ Asked2(t, "guard", "me")
         /\ loading'[t] = FALSE
         /\ \A s \in Tabs \ {t} : page'[s] = page[s] /\ loading'[s] = loading[s]
  <1>1. CASE loaded[t]
    <2>1. Finish(t) /\ Go(t, IF u = Nobody THEN "login" ELSE "app")
      BY <1>1 DEF Guard
    <2>2. QED
      BY <1>1, <2>1, FinishKeeps, GoKeeps
  <1>2. CASE ~loaded[t]
    <2>1. Send(t, "guard", "me") /\ Go(t, page[t]) /\ "guard" \in Ops \ {"none"}
      BY <1>2 DEF Guard, Ops
    <2>2. Asked2(t, "guard", "me")
      BY <2>1, SendKeeps
    <2>3. QED
      BY <1>2, <2>1, <2>2, GoKeeps
  <1>3. QED
    BY <1>1, <1>2

\* What is left to show of an operation's next request.
LEMMA LandingAsked ==
  ASSUME SessionTypeOK, NEW t \in Tabs, NEW o, NEW r, Asked2(t, o, r),
         ~upset'[t] /\ ((o = "login" /\ r = "me") \/ (o = "guard" /\ user'[t] # Nobody)) =>
           LoggedIn(cookie)
  PROVE  Landing(t)'
  <1>1. /\ sessions' = sessions /\ cookie' = cookie /\ op'[t] = o /\ at'[t] = r
        /\ leg'[t] \notin {"answered", "received"}
        /\ answer'[t].status = "none" /\ answer'[t].user = Nobody
    BY Answers DEF Asked2, Asking
  <1>2. LoggedIn(cookie)' <=> LoggedIn(cookie)
    BY <1>1 DEF LoggedIn
  <1>3. QED
    BY <1>1, <1>2 DEF Landing, Brings

\* What the steps of a tab's script do.
TabMoves(t) == Scripted(t) /\ Steps(t)' /\ Landing(t)'

\* A page load.
LEMMA ReloadMoves ==
  ASSUME SessionTypeOK, NEW t \in Tabs, Steps(t), Reload(t)
  PROVE  TabMoves(t)
  <1>1. /\ op[t] = "none" /\ leg[t] = "none" /\ ~Flying(t)
    BY DEF Reload, Steps, Flying
  <1>2. Asked2(t, "guard", "me")
    <2>1. Send(t, "guard", "me") /\ "guard" \in Ops \ {"none"}
      BY DEF Reload, Ops
    <2>2. QED
      BY <1>1, <2>1, SendKeeps
  <1>3. /\ csrfToken'[t] = NoToken /\ \A s \in Tabs \ {t} : csrfToken'[s] = csrfToken[s]
    BY Typed DEF Reload, TokenTyped
  <1>4. /\ user'[t] = Nobody /\ \A s \in Tabs \ {t} : user'[s] = user[s]
        /\ \A s \in Tabs \ {t} : loaded'[s] = loaded[s]
    BY Typed DEF Reload, StoreTyped
  <1>5. loading'[t] = FALSE /\ \A s \in Tabs \ {t} : loading'[s] = loading[s]
    BY GoKeeps DEF Reload
  <1>6. /\ past'[t] = IF \E s \in Tabs \ {t} : upset[s] THEN "mixed" ELSE "calm"
        /\ \A s \in Tabs \ {t} : past'[s] = past[s]
    BY Typed DEF Reload, PastTyped
  <1>7. Learning(t)
    BY <1>1, <1>3, <1>4, <1>6 DEF Learning
  <1>8. Scripted(t)
    BY <1>2, <1>3, <1>4, <1>5, <1>6, <1>7, ScriptedBy
  <1>9. Steps(t)'
    BY <1>2, <1>4, <1>5 DEF Asked2, Steps
  <1>10. Landing(t)'
    BY <1>2, <1>4, LandingAsked
  <1>11. QED
    BY <1>8, <1>9, <1>10 DEF TabMoves

\* The guard asks, or lets in.
LEMMA NavigateMoves ==
  ASSUME SessionTypeOK, NEW t \in Tabs, Steps(t), Navigate(t)
  PROVE  TabMoves(t)
  <1>1. /\ op[t] = "none" /\ leg[t] = "none" /\ ~Flying(t) /\ Guard(t, user[t])
        /\ csrfToken' = csrfToken /\ user' = user /\ loaded' = loaded /\ past' = past
        /\ user[t] # Nobody => loaded[t]
    BY DEF Navigate, Idle, Steps, Flying
  <1>2. /\ \/ loaded[t] /\ Asked2(t, "none", "none")
           \/ ~loaded[t] /\ Asked2(t, "guard", "me")
        /\ loading'[t] = FALSE /\ \A s \in Tabs \ {t} : loading'[s] = loading[s]
    BY <1>1, GuardKeeps
  <1>3. Learning(t)
    BY <1>1 DEF Learning
  <1>4. PICK o \in {"none", "guard"}, r \in {"none", "me"} :
          Asked2(t, o, r) /\ (o = "none" <=> r = "none") /\ (o = "guard" => ~loaded[t])
    BY <1>2
  <1>5. Scripted(t)
    BY <1>1, <1>2, <1>3, <1>4, ScriptedBy
  <1>6. Steps(t)'
    BY <1>1, <1>2, <1>4 DEF Asked2, Steps
  <1>7. Landing(t)'
    BY <1>1, <1>4, LandingAsked
  <1>8. QED
    BY <1>5, <1>6, <1>7 DEF TabMoves

\* The login page.
LEMMA GoToLoginMoves ==
  ASSUME SessionTypeOK, NEW t \in Tabs, Steps(t), Legs(t), GoToLogin(t)
  PROVE  TabMoves(t)
  <1>1. /\ op[t] = "none" /\ leg[t] = "none" /\ ~Flying(t)
        /\ sent[t] = NoCookie /\ answer[t] = NoAnswer
    BY DEF GoToLogin, Idle, Steps, Legs, Flying
  <1>2. /\ sessions' = sessions /\ made' = made /\ cookie' = cookie /\ csrfToken' = csrfToken
        /\ user' = user /\ loaded' = loaded /\ op' = op /\ at' = at /\ leg' = leg /\ sent' = sent
        /\ held' = held /\ answer' = answer /\ past' = past /\ upset' = upset
    BY DEF GoToLogin, tableVars, requestVars, histVars
  <1>3. loading'[t] = FALSE /\ \A s \in Tabs \ {t} : loading'[s] = loading[s]
    BY GoKeeps DEF GoToLogin
  <1>4. Scripted(t)
    BY <1>1, <1>2, <1>3 DEF Scripted, Asking, Learning, Kept
  <1>5. Steps(t)'
    BY <1>2, <1>3 DEF Steps
  <1>6. Landing(t)'
    BY <1>1, <1>2, Answers DEF Landing, Brings
  <1>7. QED
    BY <1>4, <1>5, <1>6 DEF TabMoves

\* The login form is sent.
LEMMA SubmitMoves ==
  ASSUME SessionTypeOK, NEW t \in Tabs, Steps(t), Submit(t)
  PROVE  TabMoves(t)
  <1>1. /\ op[t] = "none" /\ leg[t] = "none" /\ ~Flying(t)
        /\ csrfToken' = csrfToken /\ user' = user /\ loaded' = loaded
        /\ past' = past /\ upset' = upset
        /\ user[t] # Nobody => loaded[t]
    BY DEF Submit, Idle, Steps, Flying, histVars
  <1>2. PICK r \in {"csrf", "post"} : r = FirstOfWrite(t)
    BY DEF FirstOfWrite
  <1>3. Asked2(t, "login", r) /\ (r = "post" => csrfToken[t] # NoToken)
    <2>1. Ask(t, "login", r)
      BY <1>2 DEF Submit
    <2>2. QED
      BY <1>1, <1>2, <2>1, AskKeeps DEF Asked2, FirstOfWrite
  <1>4. loading'[t] = TRUE /\ \A s \in Tabs \ {t} : loading'[s] = loading[s]
    BY Typed DEF Submit, StoreTyped
  <1>5. Learning(t)
    BY <1>1 DEF Learning
  <1>6. Scripted(t)
    BY <1>1, <1>3, <1>4, <1>5, ScriptedBy
  <1>7. Steps(t)'
    BY <1>1, <1>3 DEF Asked2, Steps
  <1>8. Landing(t)'
    BY <1>3, LandingAsked
  <1>9. QED
    BY <1>6, <1>7, <1>8 DEF TabMoves

\* A logout, or another write, begins.
LEMMA WriteMoves ==
  ASSUME SessionTypeOK, NEW t \in Tabs, Steps(t), ClickLogout(t) \/ Write(t)
  PROVE  TabMoves(t)
  <1>1. /\ op[t] = "none" /\ leg[t] = "none" /\ ~Flying(t)
        /\ csrfToken' = csrfToken /\ user' = user /\ loaded' = loaded /\ loading' = loading
        /\ past' = past
        /\ user[t] # Nobody => loaded[t]
        /\ ~loading[t]
    BY DEF ClickLogout, Write, Idle, Steps, Flying, storeVars
  <1>2. PICK r \in {"csrf", "post"} : r = FirstOfWrite(t)
    BY DEF FirstOfWrite
  <1>3. PICK o \in {"logout", "write"} : Send(t, o, r)
    BY <1>2 DEF ClickLogout, Write
  <1>4. Asked2(t, o, r) /\ (r = "post" => csrfToken[t] # NoToken)
    <2>1. o \in Ops \ {"none"}
      BY DEF Ops
    <2>2. QED
      BY <1>1, <1>2, <1>3, <2>1, SendKeeps DEF FirstOfWrite
  <1>5. Learning(t)
    BY <1>1 DEF Learning
  <1>6. Scripted(t)
    BY <1>1, <1>4, <1>5, ScriptedBy
  <1>7. Steps(t)'
    BY <1>1, <1>4 DEF Asked2, Steps
  <1>8. Landing(t)'
    BY <1>4, LandingAsked
  <1>9. QED
    BY <1>6, <1>7, <1>8 DEF TabMoves

\* What a tab begins.
LEMMA ActMoves ==
  ASSUME SessionTypeOK, NEW t \in Tabs, Steps(t), Legs(t), Act(t)
  PROVE  TabMoves(t)
  BY ReloadMoves, NavigateMoves, GoToLoginMoves, SubmitMoves, WriteMoves DEF Act

\* A request that failed ends its operation.
LEMMA FailsMoves ==
  ASSUME SessionTypeOK, NEW t \in Tabs, Steps(t), leg[t] = "received", op[t] # "guard", Fails(t),
         csrfToken' = csrfToken, past' = past
  PROVE  TabMoves(t)
  <1>1. ~Flying(t) /\ (user[t] # Nobody => loaded[t])
    BY DEF Flying, Steps
  <1>2. /\ Asked2(t, "none", "none") /\ Scripted(t) /\ loading'[t] = FALSE
        /\ user'[t] = user[t] \/ user'[t] = Nobody
        /\ user'[t] # Nobody => loaded'[t] = loaded[t]
    BY <1>1, FailsKeeps
  <1>3. Steps(t)'
    BY <1>1, <1>2 DEF Asked2, Steps
  <1>4. Landing(t)'
    BY <1>2, LandingAsked
  <1>5. QED
    BY <1>2, <1>3, <1>4 DEF TabMoves

\* The token arrives.
LEMMA TokenMoves ==
  ASSUME SessionTypeOK, NEW t \in Tabs, Steps(t), Legs(t), TokenArrives(t)
  PROVE  TabMoves(t)
  <1>1. /\ at[t] = "csrf" /\ leg[t] = "received" /\ ~Flying(t)
        /\ op[t] \in {"login", "logout", "write"} /\ (user[t] # Nobody => loaded[t])
        /\ loading[t] => op[t] = "login"
    BY DEF TokenArrives, Arrives, Steps, Flying
  <1>2. CASE answer[t].status # "ok"
    BY <1>1, <1>2, FailsMoves DEF TokenArrives
  <1>3. CASE answer[t].status = "ok"
    <2>1. Send(t, op[t], "post") /\ op[t] \in Ops \ {"none"} /\ UNCHANGED storeVars
      BY <1>1, <1>3 DEF TokenArrives, Ops
    <2>2. Asked2(t, op[t], "post")
      BY <1>1, <2>1, SendKeeps
    <2>3. /\ csrfToken'[t] = answer[t].token /\ answer[t].token # NoToken
          /\ \A s \in Tabs \ {t} : csrfToken'[s] = csrfToken[s]
      BY <1>1, <1>3, Typed DEF TokenArrives, TokenTyped, Legs
    <2>4. /\ past'[t] = (IF past[t] = "stale" THEN "late" ELSE past[t])
          /\ \A s \in Tabs \ {t} : past'[s] = past[s]
      BY <1>3, Typed DEF TokenArrives, PastTyped
    <2>5. user' = user /\ loaded' = loaded /\ loading' = loading
      BY <2>1 DEF storeVars
    <2>6. Learning(t)
      BY <2>3, <2>4, <2>5 DEF Learning
    <2>7. Scripted(t)
      BY <2>2, <2>3, <2>4, <2>5, <2>6, ScriptedBy
    <2>8. Steps(t)'
      BY <1>1, <2>2, <2>3, <2>5 DEF Asked2, Steps
    <2>9. Landing(t)'
      BY <1>1, <2>2, LandingAsked
    <2>10. QED
      BY <2>7, <2>8, <2>9 DEF TabMoves
  <1>4. QED
    BY <1>2, <1>3

\* The write is answered.
LEMMA PostMoves ==
  ASSUME SessionTypeOK, NEW t \in Tabs, Steps(t), Legs(t), Landing(t), PostArrives(t)
  PROVE  TabMoves(t)
  <1>1. /\ at[t] = "post" /\ leg[t] = "received" /\ ~Flying(t)
        /\ op[t] \in {"login", "logout", "write"} /\ (user[t] # Nobody => loaded[t])
        /\ loading[t] => op[t] = "login"
        /\ csrfToken' = csrfToken /\ past' = past
    BY DEF PostArrives, Arrives, Steps, Flying
  <1>2. CASE answer[t].status # "ok"
    BY <1>1, <1>2, FailsMoves DEF PostArrives
  <1>3. CASE answer[t].status = "ok" /\ op[t] = "login"
    <2>1. Send(t, "login", "me") /\ "login" \in Ops \ {"none"} /\ UNCHANGED storeVars
      BY <1>3 DEF PostArrives, Ops
    <2>2. Asked2(t, "login", "me")
      BY <1>1, <2>1, SendKeeps
    <2>3. user' = user /\ loaded' = loaded /\ loading' = loading
      BY <2>1 DEF storeVars
    <2>4. Scripted(t)
      BY <1>1, <2>2, <2>3, ScriptedBy DEF Learning
    <2>5. Steps(t)'
      BY <1>1, <2>2, <2>3 DEF Asked2, Steps
    <2>6. ~upset'[t] => LoggedIn(cookie)
      <3>1. upset'[t] = upset[t]
        BY <2>2 DEF Asked2
      <3>2. QED
        BY <1>1, <1>3, <3>1 DEF Landing
    <2>7. Landing(t)'
      BY <2>2, <2>6, LandingAsked
    <2>8. QED
      BY <2>4, <2>5, <2>7 DEF TabMoves
  <1>4. CASE answer[t].status = "ok" /\ op[t] # "login"
    <2>1. Finish(t)
      BY <1>4 DEF PostArrives
    <2>2. Asked2(t, "none", "none")
      BY <1>1, <2>1, FinishKeeps
    <2>3. /\ (user'[t] = user[t] /\ loaded'[t] = loaded[t]) \/ user'[t] = Nobody
          /\ loading'[t] = FALSE
          /\ \A s \in Tabs \ {t} : user'[s] = user[s] /\ loaded'[s] = loaded[s] /\ loading'[s] = loading[s]
      <3>1. CASE op[t] = "logout"
        <4>1. Go(t, "login") /\ user' = [user EXCEPT ![t] = Nobody]
              /\ loaded' = [loaded EXCEPT ![t] = FALSE]
          BY <1>4, <3>1 DEF PostArrives
        <4>2. user'[t] = Nobody
              /\ \A s \in Tabs \ {t} : user'[s] = user[s] /\ loaded'[s] = loaded[s]
          BY <4>1, Typed DEF StoreTyped
        <4>3. QED
          BY <4>1, <4>2, GoKeeps
      <3>2. CASE op[t] # "logout"
        <4>1. ~loading[t] /\ loading[t] \in BOOLEAN
          BY <1>1, <1>4, Typed DEF StoreTyped
        <4>2. QED
          BY <1>4, <3>2, <4>1 DEF PostArrives, storeVars
      <3>3. QED
        BY <3>1, <3>2
    <2>4. Scripted(t)
      BY <1>1, <2>2, <2>3, ScriptedBy DEF Learning
    <2>5. Steps(t)'
      BY <1>1, <2>2, <2>3 DEF Asked2, Steps
    <2>6. Landing(t)'
      BY <2>2, LandingAsked
    <2>7. QED
      BY <2>4, <2>5, <2>6 DEF TabMoves
  <1>5. QED
    BY <1>2, <1>3, <1>4

\* The login knows its user.
LEMMA LoginMoves ==
  ASSUME SessionTypeOK, NEW t \in Tabs, Steps(t), Legs(t), Landing(t), LoginDone(t)
  PROVE  TabMoves(t)
  <1>1. /\ at[t] = "me" /\ op[t] = "login" /\ leg[t] = "received" /\ ~Flying(t)
        /\ csrfToken' = csrfToken /\ past' = past
    BY DEF LoginDone, Arrives, Flying
  <1>2. CASE answer[t].status # "ok"
    BY <1>1, <1>2, FailsMoves DEF LoginDone
  <1>3. CASE answer[t].status = "ok"
    <2>1. /\ Guard(t, answer[t].user) /\ loaded' = loaded
          /\ user'[t] = answer[t].user /\ \A s \in Tabs \ {t} : user'[s] = user[s]
      BY <1>3, Typed DEF LoginDone, StoreTyped
    <2>2. /\ \/ loaded[t] /\ Asked2(t, "none", "none")
             \/ ~loaded[t] /\ Asked2(t, "guard", "me")
          /\ loading'[t] = FALSE /\ \A s \in Tabs \ {t} : loading'[s] = loading[s]
      BY <1>1, <2>1, GuardKeeps
    <2>3. Learning(t)
      BY <1>1, <2>1 DEF Learning
    <2>4. PICK o \in {"none", "guard"}, r \in {"none", "me"} :
            Asked2(t, o, r) /\ (o = "none" <=> r = "none") /\ (o = "none" => loaded[t])
      BY <2>2
    <2>5. Scripted(t)
      BY <1>1, <2>1, <2>2, <2>3, <2>4, ScriptedBy
    <2>6. Steps(t)'
      BY <2>1, <2>2, <2>4 DEF Asked2, Steps
    <2>7. o = "guard" => upset'[t] = upset[t]
      BY <2>4 DEF Asked2
    <2>8. ~upset[t] => LoggedIn(cookie)
      BY <1>1 DEF Landing
    <2>9. Landing(t)'
      BY <2>4, <2>7, <2>8, LandingAsked
    <2>10. QED
      BY <2>5, <2>6, <2>9 DEF TabMoves
  <1>4. QED
    BY <1>2, <1>3

\* The store knows its user.
LEMMA GuardMoves ==
  ASSUME SessionTypeOK, NEW t \in Tabs, Steps(t), Legs(t), GuardDone(t)
  PROVE  TabMoves(t)
  <1>1. /\ at[t] = "me" /\ op[t] = "guard" /\ leg[t] = "received" /\ ~Flying(t)
        /\ csrfToken' = csrfToken /\ past' = past
    BY DEF GuardDone, Arrives, Flying
  <1>2. Asked2(t, "none", "none")
    BY <1>1, FinishKeeps DEF GuardDone
  <1>3. /\ user'[t] \in {Nobody, answer[t].user} /\ \A s \in Tabs \ {t} : user'[s] = user[s]
        /\ loaded'[t] = TRUE /\ \A s \in Tabs \ {t} : loaded'[s] = loaded[s]
    BY Typed DEF GuardDone, StoreTyped
  <1>4. loading'[t] = FALSE /\ \A s \in Tabs \ {t} : loading'[s] = loading[s]
    BY GoKeeps DEF GuardDone
  <1>5. Scripted(t)
    BY <1>1, <1>2, <1>3, <1>4, ScriptedBy DEF Learning
  <1>6. Steps(t)'
    BY <1>2, <1>3, <1>4 DEF Asked2, Steps
  <1>7. Landing(t)'
    BY <1>2, LandingAsked
  <1>8. QED
    BY <1>5, <1>6, <1>7 DEF TabMoves

\* What a tab does by itself.
LEMMA ScriptMoves ==
  ASSUME SessionTypeOK, NEW t \in Tabs, Steps(t), Legs(t), Landing(t), Act(t) \/ Continue(t), ~Receive(t)
  PROVE  TabMoves(t)
  BY ActMoves, TokenMoves, PostMoves, LoginMoves, GuardMoves DEF Continue

\* The facts of the types that are wanted pointwise.
LEMMA Points ==
  ASSUME SessionTypeOK
  PROVE  /\ made \in Nat /\ cookie \in Nat /\ 0 \in Numbers /\ NoCookie = 0 /\ NoToken = 0
         /\ \A i \in Numbers : i \in Nat /\ sessions[i] \in Row /\ sessions[i].csrf \in Nat
         /\ \A s \in Tabs : /\ csrfToken[s] \in Numbers /\ sent[s] \in Numbers
                            /\ held[s] \in Row /\ held[s].csrf \in Nat
                            /\ answer[s] \in Answer
                            /\ answer[s].token \in Numbers /\ answer[s].cookie \in Numbers
                            /\ leg[s] \in {"none", "sent", "loaded", "answered", "received"}
                            /\ past[s] \in {"calm", "stale", "late", "mixed"}
                            /\ upset[s] \in BOOLEAN /\ answer[s].sets \in BOOLEAN
  <1>1. /\ sessions \in [Numbers -> Row] /\ made \in Numbers /\ cookie \in Numbers
        /\ \A i \in Numbers : i \in Nat
    BY Typed, NumbersAre DEF TableTyped
  <1>2. \A i \in Numbers : sessions[i] \in Row /\ sessions[i].csrf \in Nat
    BY <1>1 DEF Row
  <1>3. \A s \in Tabs : /\ csrfToken[s] \in Numbers /\ sent[s] \in Numbers
                        /\ held[s] \in Row /\ answer[s] \in Answer
                        /\ leg[s] \in {"none", "sent", "loaded", "answered", "received"}
    BY Typed DEF TokenTyped, RequestTyped
  <1>4. \A s \in Tabs : held[s].csrf \in Nat
    BY <1>1, <1>3 DEF Row
  <1>5. \A s \in Tabs : answer[s].token \in Numbers /\ answer[s].cookie \in Numbers
                        /\ answer[s].sets \in BOOLEAN
    BY <1>3 DEF Answer
  <1>6. \A s \in Tabs : past[s] \in {"calm", "stale", "late", "mixed"} /\ upset[s] \in BOOLEAN
    BY Typed DEF PastTyped, UpsetTyped
  <1>7. QED
    BY <1>1, <1>2, <1>3, <1>4, <1>5, <1>6, NumbersAre

\* A tab that has no part in a step is what it was.
LEMMA KeptIs ==
  ASSUME NEW s \in Tabs, Kept(s)
  PROVE  /\ Steps(s) => Steps(s)'
         /\ Legs(s) => Legs(s)'
         /\ Flying(s)' = Flying(s) /\ Brings(s)' = Brings(s) /\ BringsNew(s)' = BringsNew(s)
  <1>1. /\ csrfToken'[s] = csrfToken[s] /\ user'[s] = user[s] /\ loaded'[s] = loaded[s]
        /\ loading'[s] = loading[s] /\ op'[s] = op[s] /\ at'[s] = at[s] /\ leg'[s] = leg[s]
        /\ sent'[s] = sent[s] /\ held'[s] = held[s] /\ answer'[s] = answer[s]
    BY DEF Kept
  <1>2. Steps(s) => Steps(s)'
    BY <1>1 DEF Steps
  <1>3. Legs(s) => Legs(s)'
    BY <1>1 DEF Legs, Flying, Found
  <1>4. Flying(s)' = Flying(s) /\ Brings(s)' = Brings(s) /\ BringsNew(s)' = BringsNew(s)
    BY <1>1 DEF Flying, Brings, BringsNew
  <1>5. QED
    BY <1>2, <1>3, <1>4

-----------------------------------------------------------------------------
(* Steps of a script.                                                      *)

\* What a script leaves of the requests.
LEMMA ScriptIs ==
  ASSUME NEW t \in Tabs, Scripted(t)
  PROVE  /\ sessions' = sessions /\ made' = made /\ cookie' = cookie
         /\ ~Flying(t) /\ ~Brings(t)' /\ ~BringsNew(t)' /\ ~InTime(t)' /\ ~InTime(t)
         /\ held'[t] = held[t] /\ answer'[t].token = NoToken /\ answer'[t].cookie = NoCookie
         /\ answer'[t].user = Nobody /\ ~answer'[t].sets /\ answer'[t] = NoAnswer
         /\ leg'[t] \in {"none", "sent"} /\ sent'[t] \in {NoCookie, cookie}
         /\ Flying(t)' => leg'[t] = "sent" /\ sent'[t] = cookie
         /\ leg'[t] = "none" => sent'[t] = NoCookie
         /\ \A s \in Tabs \ {t} : /\ Kept(s) /\ Flying(s)' = Flying(s) /\ Brings(s)' = Brings(s)
                                  /\ BringsNew(s)' = BringsNew(s) /\ InTime(s)' = InTime(s)
                                  /\ past'[s] = past[s] /\ upset'[s] = upset[s]
  <1>1. /\ sessions' = sessions /\ made' = made /\ cookie' = cookie
        /\ held'[t] = held[t] /\ answer'[t] = NoAnswer /\ ~Flying(t)
        /\ leg'[t] \in {"none", "sent"} /\ sent'[t] \in {NoCookie, cookie}
        /\ leg'[t] = "sent" => sent'[t] = cookie
        /\ leg'[t] = "none" => sent'[t] = NoCookie
    BY DEF Scripted, Asking
  <1>2. /\ answer'[t].token = NoToken /\ answer'[t].cookie = NoCookie
        /\ answer'[t].user = Nobody /\ ~answer'[t].sets
    BY <1>1, Answers
  <1>3. ~Brings(t)' /\ ~BringsNew(t)' /\ ~InTime(t)' /\ ~InTime(t)
        /\ (Flying(t)' => leg'[t] = "sent")
    BY <1>1, <1>2 DEF Flying, Brings, BringsNew, InTime
  <1>4. \A s \in Tabs \ {t} : /\ Kept(s) /\ past'[s] = past[s] /\ upset'[s] = upset[s]
    BY DEF Scripted
  <1>5. \A s \in Tabs \ {t} : Flying(s)' = Flying(s) /\ Brings(s)' = Brings(s)
                              /\ BringsNew(s)' = BringsNew(s)
    BY <1>4, KeptIs
  <1>6. \A s \in Tabs \ {t} : InTime(s)' = InTime(s)
    BY <1>1, <1>4, <1>5 DEF InTime, Kept
  <1>7. QED
    BY <1>1, <1>2, <1>3, <1>4, <1>5, <1>6

\* A script makes no names.
LEMMA ScriptCounted ==
  ASSUME SessionTypeOK, AllMade, NEW t \in Tabs, Scripted(t)
  PROVE  AllMade'
  <1>1. /\ sessions' = sessions /\ made' = made /\ cookie' = cookie
        /\ held'[t] = held[t] /\ answer'[t].token = NoToken /\ answer'[t].cookie = NoCookie
        /\ sent'[t] \in {NoCookie, cookie}
        /\ \A s \in Tabs \ {t} : Kept(s)
    BY ScriptIs
  <1>2. csrfToken'[t] \in {csrfToken[t], answer[t].token, NoToken}
    BY DEF Scripted, Learning
  <1>3. NoToken <= made /\ NoCookie <= made
    BY Points
  <1>4. /\ csrfToken'[t] <= made' /\ answer'[t].token <= made'
        /\ held'[t].csrf <= made' /\ sent'[t] <= made' /\ answer'[t].cookie <= made'
    BY <1>1, <1>2, <1>3 DEF AllMade
  <1>5. \A s \in Tabs \ {t} :
          /\ csrfToken'[s] <= made' /\ answer'[s].token <= made'
          /\ held'[s].csrf <= made' /\ sent'[s] <= made' /\ answer'[s].cookie <= made'
    BY <1>1 DEF AllMade, Kept
  <1>6. QED
    BY <1>1, <1>4, <1>5 DEF AllMade

\* A script leaves the requests of others alone.
LEMMA ScriptRequests ==
  ASSUME SessionTypeOK, NEW t \in Tabs, Scripted(t), NEW s \in Tabs,
         \A x \in Tabs : Legs(x) /\ Telling(x) /\ Fresh(x) /\ Private(x) /\ Calm(x)
  PROVE  Legs(s)' /\ Telling(s)' /\ Fresh(s)' /\ Private(s)' /\ Calm(s)'
  <1>0. /\ sessions' = sessions /\ made' = made /\ cookie' = cookie
        /\ ~Flying(t) /\ ~Brings(t)' /\ ~BringsNew(t)'
        /\ held'[t] = held[t] /\ answer'[t].token = NoToken /\ answer'[t].cookie = NoCookie
        /\ answer'[t].user = Nobody /\ ~answer'[t].sets /\ answer'[t] = NoAnswer
        /\ leg'[t] \in {"none", "sent"} /\ sent'[t] \in {NoCookie, cookie}
        /\ Flying(t)' => leg'[t] = "sent" /\ sent'[t] = cookie
        /\ leg'[t] = "none" => sent'[t] = NoCookie
    BY ScriptIs
  <1>k. \A x \in Tabs \ {t} : /\ Kept(x) /\ Flying(x)' = Flying(x) /\ Brings(x)' = Brings(x)
                              /\ BringsNew(x)' = BringsNew(x)
                              /\ past'[x] = past[x] /\ upset'[x] = upset[x]
    BY ScriptIs
  <1>c. csrfToken'[t] \in {csrfToken[t], answer[t].token, NoToken}
    BY DEF Scripted, Learning
  <1>1. CASE s = t
    <2>1. Legs(t)'
      <3>1. held[t] = NoRow
        BY <1>0 DEF Legs, Flying
      <3>2. ~Flying(t)' => leg'[t] = "none"
        BY <1>0 DEF Flying
      <3>3. answer'[t].status # "ok"
        BY <1>0, Answers
      <3>4. QED
        BY <1>0, <3>1, <3>2, <3>3 DEF Legs
    <2>2. Telling(t)'
      <3>1. answer'[t].status = "none"
        BY <1>0, Answers
      <3>2. QED
        BY <1>0, <3>1 DEF Telling
    <2>3. Fresh(t)' /\ Private(t)'
      BY <1>0 DEF Fresh, Private
    <2>4. Calm(t)'
      BY <1>0 DEF Calm
    <2>5. QED
      BY <1>1, <2>1, <2>2, <2>3, <2>4
  <1>2. CASE s # t
    <2>0. /\ Kept(s) /\ Flying(s)' = Flying(s) /\ Brings(s)' = Brings(s)
          /\ BringsNew(s)' = BringsNew(s) /\ past'[s] = past[s] /\ upset'[s] = upset[s]
          /\ at'[s] = at[s] /\ sent'[s] = sent[s] /\ held'[s] = held[s] /\ leg'[s] = leg[s]
          /\ answer'[s] = answer[s]
      BY <1>k, <1>2 DEF Kept
    <2>1. Legs(s)'
      BY <2>0, KeptIs
    <2>2. Telling(s)'
      BY <1>0, <2>0 DEF Telling
    <2>3. Fresh(s)'
      <3>1. CASE ~BringsNew(s)
        BY <2>0, <3>1 DEF Fresh
      <3>2. CASE BringsNew(s)
        <4>1. /\ Live(answer[s].cookie) /\ cookie # answer[s].cookie /\ answer[s].cookie # NoCookie
              /\ \A x \in Tabs : sent[x] # answer[s].cookie
              /\ \A x \in Tabs \ {s} : answer[x].cookie # answer[s].cookie
          BY <3>2 DEF Fresh, BringsNew
        <4>2. \A x \in Tabs : sent'[x] # answer[s].cookie
          BY <1>0, <1>k, <4>1 DEF Kept
        <4>3. \A x \in Tabs \ {s} : answer'[x].cookie # answer[s].cookie
          BY <1>0, <1>k, <4>1 DEF Kept
        <4>4. Live(answer[s].cookie)'
          BY <1>0, <2>0, <4>1 DEF Live
        <4>5. QED
          BY <1>0, <2>0, <4>1, <4>2, <4>3, <4>4 DEF Fresh
      <3>3. QED
        BY <3>1, <3>2
    <2>4. Private(s)'
      <3>1. CASE ~(BringsNew(s) /\ sent[s] = NoCookie /\ sessions[answer[s].cookie].csrf # NoToken)
        BY <1>0, <2>0, <3>1 DEF Private
      <3>2. CASE BringsNew(s) /\ sent[s] = NoCookie /\ sessions[answer[s].cookie].csrf # NoToken
        <4>1. PICK k : k = sessions[answer[s].cookie].csrf
          OBVIOUS
        <4>2. /\ k # NoToken
              /\ \A x \in Tabs : csrfToken[x] # k /\ held[x].csrf # k
              /\ \A x \in Tabs \ {s} : answer[x].token # k
              /\ \A i \in Numbers \ {answer[s].cookie} : sessions[i].csrf # k
          BY <3>2, <4>1 DEF Private
        <4>3. answer[t].token # k
          BY <1>2, <4>2
        <4>4. \A x \in Tabs : csrfToken'[x] # k /\ held'[x].csrf # k
          BY <1>0, <1>k, <1>c, <4>2, <4>3 DEF Kept
        <4>5. \A x \in Tabs \ {s} : answer'[x].token # k
          BY <1>0, <1>k, <4>2 DEF Kept
        <4>6. k = sessions'[answer'[s].cookie].csrf
          BY <1>0, <2>0, <4>1
        <4>7. QED
          BY <1>0, <2>0, <4>2, <4>4, <4>5, <4>6 DEF Private
      <3>3. QED
        BY <3>1, <3>2
    <2>5. Calm(s)'
      BY <1>0, <2>0 DEF Calm, Live
    <2>6. QED
      BY <2>1, <2>2, <2>3, <2>4, <2>5
  <1>3. QED
    BY <1>1, <1>2

\* A script keeps requests apart.
LEMMA ScriptApart ==
  ASSUME NEW t \in Tabs, Scripted(t), KeepApart
  PROVE  KeepApart'
  <1>1. /\ sessions' = sessions /\ cookie' = cookie /\ ~InTime(t)'
        /\ Flying(t)' => sent'[t] = cookie
        /\ \A s \in Tabs \ {t} : /\ Kept(s) /\ Flying(s)' = Flying(s) /\ InTime(s)' = InTime(s)
    BY ScriptIs
  <1>2. \A s \in Tabs \ {t} :
          /\ Flying(s)' /\ sent'[s] # cookie' => ~Live(sent[s])'
          /\ InTime(s)' /\ answer'[s].cookie # cookie' => ~Live(cookie)'
    BY <1>1 DEF KeepApart, Live, Kept
  <1>3. QED
    BY <1>1, <1>2 DEF KeepApart

\* Undisturbed requests keep apart.
LEMMA CalmApart ==
  ASSUME NEW t \in Tabs, Scripted(t), \A s \in Tabs \ {t} : ~upset[s] /\ Calm(s)
  PROVE  KeepApart'
  <1>1. /\ sessions' = sessions /\ cookie' = cookie /\ ~InTime(t)'
        /\ Flying(t)' => sent'[t] = cookie
        /\ \A s \in Tabs \ {t} : /\ Kept(s) /\ Flying(s)' = Flying(s) /\ InTime(s)' = InTime(s)
    BY ScriptIs
  <1>2. \A s \in Tabs \ {t} :
          /\ Flying(s)' /\ sent'[s] # cookie' => ~Live(sent[s])'
          /\ InTime(s)' /\ answer'[s].cookie # cookie' => ~Live(cookie)'
    <2>1. TAKE s \in Tabs \ {t}
    <2>2. Flying(s) => sent[s] = cookie
      BY DEF Calm
    <2>3. InTime(s) /\ answer[s].cookie # cookie => ~Live(cookie)
      BY DEF Calm, InTime, Brings, Flying
    <2>4. Kept(s) /\ Flying(s)' = Flying(s) /\ InTime(s)' = InTime(s)
      BY <1>1
    <2>5. QED
      BY <1>1, <2>2, <2>3, <2>4 DEF Live, Kept
  <1>3. QED
    BY <1>1, <1>2 DEF KeepApart

\* What the sessions are to a token or a user, they stay.
LEMMA ScriptStays ==
  ASSUME NEW t \in Tabs, Scripted(t)
  PROVE  /\ \A k : TokenStays(k) => TokenStays(k)'
         /\ \A u : UserStays(u) => UserStays(u)'
         /\ \A k : TokenGone(k) => TokenGone(k)'
         /\ \A s \in Tabs \ {t} : HasTold(s)' = HasTold(s)
  <1>1. /\ sessions' = sessions /\ cookie' = cookie
        /\ \A s \in Tabs : InTime(s)' => InTime(s) /\ answer'[s] = answer[s]
    BY ScriptIs DEF Kept
  <1>2. \A i, k : HasToken(i, k)' = HasToken(i, k) /\ HasUser(i, k)' = HasUser(i, k)
    BY <1>1 DEF HasToken, HasUser, Live
  <1>3. \A k : TokenStays(k) => TokenStays(k)'
    BY <1>1, <1>2 DEF TokenStays, HasToken, Live
  <1>4. \A u : UserStays(u) => UserStays(u)'
    BY <1>1, <1>2 DEF UserStays, HasUser, Live
  <1>5. \A k : TokenGone(k) => TokenGone(k)'
    BY <1>1 DEF TokenGone
  <1>6. \A s \in Tabs \ {t} : HasTold(s)' = HasTold(s)
    <2>1. TAKE s \in Tabs \ {t}
    <2>2. Kept(s) /\ Flying(s)' = Flying(s) /\ InTime(s)' = InTime(s)
      BY ScriptIs
    <2>3. QED
      BY <1>1, <2>2 DEF HasTold, Kept
  <1>7. QED
    BY <1>3, <1>4, <1>5, <1>6

\* What is known of a tab's token and user, put together.
LEMMA SortedBy ==
  ASSUME NEW s \in Tabs, NEW k, NEW u, NEW l, NEW v,
         csrfToken'[s] = k, user'[s] = u, answer'[s].token = l, answer'[s].user = v,
         past'[s] # "mixed" => KeepApart',
         past'[s] = "calm" =>
           /\ k # NoToken => TokenStays(k)'
           /\ l # NoToken /\ HasTold(s)' => TokenStays(l)'
           /\ u # Nobody => UserStays(u)'
           /\ v # Nobody /\ HasTold(s)' => UserStays(v)',
         past'[s] = "stale" /\ k # NoToken => TokenGone(k)'
  PROVE  Agreed(s)'
  BY DEF Agreed, TokenStays, UserStays, TokenGone

\* And taken apart.
LEMMA SortedIs ==
  ASSUME NEW s \in Tabs, Agreed(s), past[s] # "mixed"
  PROVE  /\ KeepApart
         /\ past[s] = "calm" /\ csrfToken[s] # NoToken => TokenStays(csrfToken[s])
         /\ past[s] = "calm" /\ answer[s].token # NoToken /\ HasTold(s) =>
              TokenStays(answer[s].token)
         /\ past[s] = "calm" /\ user[s] # Nobody => UserStays(user[s])
         /\ past[s] = "calm" /\ answer[s].user # Nobody /\ HasTold(s) =>
              UserStays(answer[s].user)
         /\ past[s] = "stale" /\ csrfToken[s] # NoToken => TokenGone(csrfToken[s])
  BY DEF Agreed

\* So what a tab's token and its user are to the session, as long as it may be told.
LEMMA ScriptSorted ==
  ASSUME SessionTypeOK, NEW t \in Tabs, Scripted(t), NEW s \in Tabs,
         \A x \in Tabs : Calm(x) /\ Agreed(x)
  PROVE  Agreed(s)'
  <1>1. CASE s # t
    <2>1. /\ past'[s] = past[s] /\ csrfToken'[s] = csrfToken[s] /\ user'[s] = user[s]
          /\ answer'[s] = answer[s] /\ HasTold(s)' = HasTold(s)
      BY <1>1, ScriptIs, ScriptStays DEF Kept
    <2>2. PICK k, u, l, v : /\ k = csrfToken[s] /\ u = user[s]
                            /\ l = answer[s].token /\ v = answer[s].user
      OBVIOUS
    <2>3. past[s] # "mixed" => KeepApart'
      BY ScriptApart, SortedIs
    <2>4. past[s] = "calm" =>
            /\ k # NoToken => TokenStays(k)'
            /\ l # NoToken /\ HasTold(s) => TokenStays(l)'
            /\ u # Nobody => UserStays(u)'
            /\ v # Nobody /\ HasTold(s) => UserStays(v)'
      BY <2>2, ScriptStays, SortedIs
    <2>5. past[s] = "stale" /\ k # NoToken => TokenGone(k)'
      BY <2>2, ScriptStays, SortedIs
    <2>6. QED
      BY <2>1, <2>2, <2>3, <2>4, <2>5, SortedBy
  <1>2. CASE s = t
    <2>1. /\ answer'[t].token = NoToken /\ answer'[t].user = Nobody /\ ~Flying(t)
      BY ScriptIs
    <2>2. HasTold(t)
      BY <2>1 DEF HasTold
    <2>3. PICK k, u : k = csrfToken'[t] /\ u = user'[t]
      OBVIOUS
    <2>4. CASE /\ csrfToken'[t] = csrfToken[t] /\ past'[t] = past[t]
               /\ user'[t] \in {user[t], Nobody, answer[t].user}
      <3>1. past[t] # "mixed" => KeepApart'
        BY ScriptApart, SortedIs
      <3>2. past[t] = "calm" => (k # NoToken => TokenStays(k)') /\ (u # Nobody => UserStays(u)')
        BY <2>2, <2>3, <2>4, ScriptStays, SortedIs
      <3>3. past[t] = "stale" /\ k # NoToken => TokenGone(k)'
        BY <2>3, <2>4, ScriptStays, SortedIs
      <3>4. QED
        BY <1>2, <2>1, <2>3, <2>4, <3>1, <3>2, <3>3, SortedBy
    <2>5. CASE /\ csrfToken'[t] = answer[t].token /\ answer[t].token # NoToken /\ user'[t] = user[t]
               /\ past'[t] = IF past[t] = "stale" THEN "late" ELSE past[t]
      <3>1. past[t] # "mixed" => KeepApart'
        BY ScriptApart, SortedIs
      <3>2. past[t] = "calm" => (k # NoToken => TokenStays(k)') /\ (u # Nobody => UserStays(u)')
        BY <2>2, <2>3, <2>5, ScriptStays, SortedIs
      <3>3. /\ past'[t] # "stale" /\ (past'[t] = "calm" => past[t] = "calm")
            /\ (past'[t] # "mixed" => past[t] # "mixed")
        BY <2>5
      <3>4. QED
        BY <1>2, <2>1, <2>3, <3>1, <3>2, <3>3, SortedBy
    <2>6. CASE /\ csrfToken'[t] = NoToken /\ user'[t] = Nobody /\ leg[t] = "none"
               /\ past'[t] = IF \E x \in Tabs \ {t} : upset[x] THEN "mixed" ELSE "calm"
      <3>1. past'[t] # "mixed" => KeepApart'
        BY <2>6, CalmApart
      <3>2. past'[t] # "stale" /\ k = NoToken /\ u = Nobody
        BY <2>3, <2>6
      <3>3. QED
        BY <1>2, <2>1, <2>3, <3>1, <3>2, SortedBy
    <2>7. QED
      BY <2>4, <2>5, <2>6 DEF Scripted, Learning
  <1>3. QED
    BY <1>1, <1>2

-----------------------------------------------------------------------------
(* The session is loaded, or the request is lost.                          *)

\* A step that changes no session and tells no tab anything.
Idles(t) ==
  /\ sessions' = sessions /\ made' = made /\ cookie' = cookie
  /\ csrfToken' = csrfToken /\ user' = user /\ past' = past
  /\ \A s \in Tabs \ {t} : Kept(s) /\ upset'[s] = upset[s]
  /\ leg[t] # "none" /\ leg'[t] # "none" /\ op'[t] = op[t] /\ at'[t] = at[t]
  /\ loading'[t] = loading[t] /\ loaded'[t] = loaded[t]
  /\ \/ /\ leg'[t] = "received" /\ answer'[t] = Reply("lost") /\ sent'[t] = NoCookie
        /\ held'[t] = held[t] /\ leg[t] # "loaded" /\ upset'[t]
     \/ /\ leg[t] = "sent" /\ leg'[t] = "loaded" /\ answer'[t] = answer[t] /\ sent'[t] = sent[t]
        /\ held'[t] = (IF Live(sent[t]) THEN sessions[sent[t]] ELSE NoRow) /\ upset'[t] = upset[t]

\* A load is such a step.
LEMMA LoadQuiet ==
  ASSUME SessionTypeOK, NEW t \in Tabs, Load(t)
  PROVE  Idles(t)
  <1>1. /\ sessions' = sessions /\ made' = made /\ cookie' = cookie
        /\ csrfToken' = csrfToken /\ user' = user /\ past' = past /\ upset' = upset
        /\ loaded' = loaded /\ loading' = loading /\ op' = op /\ at' = at /\ sent' = sent
        /\ answer' = answer /\ leg[t] = "sent"
    BY DEF Load, tableVars, storeVars, histVars
  <1>2. leg'[t] = "loaded" /\ \A s \in Tabs \ {t} : leg'[s] = leg[s]
    BY Typed DEF Load, RequestTyped
  <1>3. /\ held'[t] = IF Live(sent[t]) THEN sessions[sent[t]] ELSE NoRow
        /\ \A s \in Tabs \ {t} : held'[s] = held[s]
    BY Typed DEF Load, RequestTyped, Live
  <1>4. QED
    BY <1>1, <1>2, <1>3 DEF Idles, Kept

\* And a loss.
LEMMA LoseQuiet ==
  ASSUME SessionTypeOK, NEW t \in Tabs, Lose(t)
  PROVE  Idles(t)
  <1>1. /\ sessions' = sessions /\ made' = made /\ cookie' = cookie
        /\ csrfToken' = csrfToken /\ user' = user /\ past' = past
        /\ loaded' = loaded /\ loading' = loading /\ op' = op /\ at' = at /\ held' = held
        /\ leg[t] \in {"sent", "answered", "received"}
    BY DEF Lose, tableVars, storeVars
  <1>2. leg'[t] = "received" /\ \A s \in Tabs \ {t} : leg'[s] = leg[s]
    BY Typed DEF Lose, RequestTyped
  <1>3. answer'[t] = Reply("lost") /\ \A s \in Tabs \ {t} : answer'[s] = answer[s]
    BY Typed DEF Lose, RequestTyped
  <1>4. sent'[t] = NoCookie /\ \A s \in Tabs \ {t} : sent'[s] = sent[s]
    BY Typed DEF Lose, RequestTyped
  <1>5. upset'[t] /\ \A s \in Tabs \ {t} : upset'[s] = upset[s]
    BY Typed DEF Lose, UpsetTyped
  <1>6. QED
    BY <1>1, <1>2, <1>3, <1>4, <1>5 DEF Idles, Kept

\* What such a step leaves of the requests.
LEMMA QuietIs ==
  ASSUME NEW t \in Tabs, Idles(t), Legs(t)
  PROVE  /\ sessions' = sessions /\ made' = made /\ cookie' = cookie
         /\ csrfToken' = csrfToken /\ user' = user /\ past' = past
         /\ ~Brings(t)' /\ ~BringsNew(t)' /\ ~InTime(t)' /\ HasTold(t)' = ~Flying(t)'
         /\ answer'[t].cookie = NoCookie /\ ~answer'[t].sets
         /\ answer'[t].status # "ok" /\ answer'[t].status # "forbidden"
         /\ answer'[t].token = NoToken /\ answer'[t].user = Nobody
         /\ Flying(t)' => Flying(t) /\ sent'[t] = sent[t]
         /\ sent'[t] \in {NoCookie, sent[t]}
         /\ \A s \in Tabs \ {t} : /\ Kept(s) /\ Flying(s)' = Flying(s) /\ Brings(s)' = Brings(s)
                                  /\ BringsNew(s)' = BringsNew(s) /\ InTime(s)' = InTime(s)
                                  /\ HasTold(s)' = HasTold(s) /\ upset'[s] = upset[s]
  <1>1. /\ sessions' = sessions /\ made' = made /\ cookie' = cookie
        /\ csrfToken' = csrfToken /\ user' = user /\ past' = past
    BY DEF Idles
  <1>2. \/ /\ leg'[t] = "received" /\ answer'[t] = Reply("lost") /\ sent'[t] = NoCookie
        \/ /\ leg'[t] = "loaded" /\ leg[t] = "sent" /\ answer'[t] = NoAnswer /\ answer[t] = NoAnswer
           /\ sent'[t] = sent[t]
    BY DEF Idles, Legs
  <1>3. /\ answer'[t].token = NoToken /\ answer'[t].user = Nobody
        /\ answer'[t].cookie = NoCookie /\ ~answer'[t].sets
        /\ answer'[t].status # "ok" /\ answer'[t].status # "forbidden"
    BY <1>2, Answers
  <1>5. /\ ~Brings(t)' /\ ~BringsNew(t)' /\ ~InTime(t)' /\ HasTold(t)' = ~Flying(t)'
        /\ (Flying(t)' => Flying(t) /\ sent'[t] = sent[t])
    BY <1>2, <1>3 DEF Brings, BringsNew, InTime, HasTold, Flying
  <1>6. \A s \in Tabs \ {t} : Kept(s) /\ upset'[s] = upset[s]
    BY DEF Idles
  <1>7. \A s \in Tabs \ {t} : /\ Flying(s)' = Flying(s) /\ Brings(s)' = Brings(s)
                              /\ BringsNew(s)' = BringsNew(s)
    BY <1>6, KeptIs
  <1>8. \A s \in Tabs \ {t} : InTime(s)' = InTime(s) /\ HasTold(s)' = HasTold(s)
    BY <1>1, <1>6, <1>7 DEF InTime, HasTold, Kept
  <1>9. QED
    BY <1>1, <1>2, <1>3, <1>5, <1>6, <1>7, <1>8

\* It makes no names.
LEMMA QuietCounted ==
  ASSUME SessionTypeOK, AllMade, NEW t \in Tabs, Legs(t), Idles(t)
  PROVE  AllMade'
  <1>1. /\ sessions' = sessions /\ made' = made /\ cookie' = cookie /\ csrfToken' = csrfToken
        /\ answer'[t].token = NoToken /\ answer'[t].cookie = NoCookie
        /\ sent'[t] \in {NoCookie, sent[t]}
        /\ \A s \in Tabs \ {t} : Kept(s)
    BY QuietIs
  <1>2. held'[t].csrf <= made
    <2>1. held'[t] \in {held[t], sessions[sent[t]], NoRow}
      BY DEF Idles
    <2>2. NoRow.csrf = 0 /\ sent[t] \in Numbers /\ 0 <= made
      BY Points DEF NoRow, NoToken
    <2>3. QED
      BY <2>1, <2>2 DEF AllMade
  <1>3. NoToken <= made /\ NoCookie <= made
    BY Points
  <1>4. \A s \in Tabs \ {t} :
          /\ csrfToken'[s] <= made' /\ answer'[s].token <= made'
          /\ held'[s].csrf <= made' /\ sent'[s] <= made' /\ answer'[s].cookie <= made'
    BY <1>1 DEF AllMade, Kept
  <1>5. /\ csrfToken'[t] <= made' /\ answer'[t].token <= made'
        /\ held'[t].csrf <= made' /\ sent'[t] <= made' /\ answer'[t].cookie <= made'
    BY <1>1, <1>2, <1>3 DEF AllMade
  <1>6. QED
    BY <1>1, <1>4, <1>5 DEF AllMade

\* It leaves the requests of others alone.
LEMMA QuietRequests ==
  ASSUME SessionTypeOK, AllMade, NEW t \in Tabs, Idles(t), NEW s \in Tabs,
         \A x \in Tabs : /\ Steps(x) /\ Legs(x) /\ Telling(x) /\ Fresh(x) /\ Private(x)
                         /\ Calm(x) /\ Landing(x)
  PROVE  /\ Steps(s)' /\ Legs(s)' /\ Telling(s)' /\ Fresh(s)' /\ Private(s)'
         /\ Calm(s)' /\ Landing(s)'
  <1>0. /\ sessions' = sessions /\ made' = made /\ cookie' = cookie
        /\ csrfToken' = csrfToken /\ user' = user /\ past' = past
        /\ ~Brings(t)' /\ ~BringsNew(t)'
        /\ answer'[t].cookie = NoCookie /\ ~answer'[t].sets
        /\ answer'[t].status # "ok" /\ answer'[t].status # "forbidden"
        /\ answer'[t].token = NoToken /\ answer'[t].user = Nobody
        /\ Flying(t)' => Flying(t) /\ sent'[t] = sent[t]
        /\ sent'[t] \in {NoCookie, sent[t]}
    BY QuietIs
  <1>k. \A x \in Tabs \ {t} : /\ Kept(x) /\ Flying(x)' = Flying(x) /\ Brings(x)' = Brings(x)
                              /\ BringsNew(x)' = BringsNew(x) /\ upset'[x] = upset[x]
    BY QuietIs
  <1>q. /\ leg[t] # "none" /\ leg'[t] # "none" /\ op'[t] = op[t] /\ at'[t] = at[t]
        /\ loading'[t] = loading[t] /\ loaded'[t] = loaded[t]
        /\ \/ /\ leg'[t] = "received" /\ sent'[t] = NoCookie
              /\ held'[t] = held[t] /\ leg[t] # "loaded" /\ upset'[t]
           \/ /\ leg[t] = "sent" /\ leg'[t] = "loaded" /\ answer'[t] = answer[t]
              /\ sent'[t] = sent[t] /\ answer[t] = NoAnswer /\ upset'[t] = upset[t]
              /\ held'[t] = (IF Live(sent[t]) THEN sessions[sent[t]] ELSE NoRow)
    BY DEF Idles, Legs
  <1>1. CASE s = t
    <2>1. Steps(t)'
      BY <1>0, <1>q DEF Steps
    <2>2. Legs(t)'
      <3>1. CASE leg'[t] = "received"
        <4>1. held'[t] = NoRow /\ sent'[t] = NoCookie /\ ~Flying(t)'
          BY <1>q, <3>1 DEF Legs, Flying
        <4>2. QED
          BY <1>0, <3>1, <4>1 DEF Legs
      <3>2. CASE leg'[t] = "loaded"
        <4>1. sent[t] = NoCookie => ~Live(sent[t])
          BY DEF AllMade, Live, NoRow
        <4>2. held'[t] = NoRow \/ (held'[t].is = "live" /\ sent'[t] # NoCookie)
          BY <1>q, <3>2, <4>1 DEF Live
        <4>3. Flying(t)' /\ answer'[t] = NoAnswer
          BY <1>q, <3>2 DEF Flying
        <4>4. QED
          BY <1>0, <3>2, <4>2, <4>3 DEF Legs, Found
      <3>3. QED
        BY <1>q, <3>1, <3>2
    <2>3. Telling(t)'
      BY <1>0 DEF Telling
    <2>4. Fresh(t)' /\ Private(t)'
      BY <1>0 DEF Fresh, Private
    <2>5. Calm(t)'
      <3>1. CASE leg'[t] = "received"
        BY <3>1 DEF Calm, Flying
      <3>2. CASE leg'[t] = "loaded"
        BY <1>0, <1>q, <3>2 DEF Calm, Flying, Live
      <3>3. QED
        BY <1>q, <3>1, <3>2
    <2>6. Landing(t)'
      <3>1. CASE upset'[t]
        BY <3>1 DEF Landing
      <3>2. CASE leg'[t] = "loaded" /\ upset'[t] = upset[t]
        BY <1>0, <1>q, <3>2 DEF Landing, LoggedIn
      <3>3. QED
        BY <1>q, <3>1, <3>2
    <2>7. QED
      BY <1>1, <2>1, <2>2, <2>3, <2>4, <2>5, <2>6
  <1>2. CASE s # t
    <2>0. /\ Kept(s) /\ Flying(s)' = Flying(s) /\ Brings(s)' = Brings(s)
          /\ BringsNew(s)' = BringsNew(s) /\ upset'[s] = upset[s]
          /\ at'[s] = at[s] /\ sent'[s] = sent[s] /\ held'[s] = held[s] /\ leg'[s] = leg[s]
          /\ answer'[s] = answer[s] /\ op'[s] = op[s] /\ user'[s] = user[s]
      BY <1>k, <1>2 DEF Kept
    <2>1. Steps(s)' /\ Legs(s)'
      BY <2>0, KeptIs
    <2>2. Telling(s)'
      BY <1>0, <2>0 DEF Telling
    <2>3. Fresh(s)'
      <3>1. CASE ~BringsNew(s)
        BY <2>0, <3>1 DEF Fresh
      <3>2. CASE BringsNew(s)
        <4>1. /\ Live(answer[s].cookie) /\ cookie # answer[s].cookie /\ answer[s].cookie # NoCookie
              /\ \A x \in Tabs : sent[x] # answer[s].cookie
              /\ \A x \in Tabs \ {s} : answer[x].cookie # answer[s].cookie
          BY <3>2 DEF Fresh, BringsNew
        <4>2. \A x \in Tabs : sent'[x] # answer[s].cookie
          BY <1>0, <1>k, <4>1 DEF Kept
        <4>3. \A x \in Tabs \ {s} : answer'[x].cookie # answer[s].cookie
          BY <1>0, <1>k, <4>1 DEF Kept
        <4>4. Live(answer[s].cookie)'
          BY <1>0, <2>0, <4>1 DEF Live
        <4>5. QED
          BY <1>0, <2>0, <4>1, <4>2, <4>3, <4>4 DEF Fresh
      <3>3. QED
        BY <3>1, <3>2
    <2>4. Private(s)'
      <3>1. CASE ~(BringsNew(s) /\ sent[s] = NoCookie /\ sessions[answer[s].cookie].csrf # NoToken)
        BY <1>0, <2>0, <3>1 DEF Private
      <3>2. CASE BringsNew(s) /\ sent[s] = NoCookie /\ sessions[answer[s].cookie].csrf # NoToken
        <4>1. PICK k : k = sessions[answer[s].cookie].csrf
          OBVIOUS
        <4>2. /\ k # NoToken
              /\ \A x \in Tabs : csrfToken[x] # k /\ held[x].csrf # k
              /\ \A x \in Tabs \ {s} : answer[x].token # k
              /\ \A i \in Numbers \ {answer[s].cookie} : sessions[i].csrf # k
          BY <3>2, <4>1 DEF Private
        <4>3. sessions[sent[t]].csrf # k
          <5>1. sent[t] \in Numbers /\ sent[t] # answer[s].cookie
            BY <3>2, Points DEF Fresh
          <5>2. QED
            BY <4>2, <5>1
        <4>4. held'[t].csrf # k
          <5>1. held'[t] \in {held[t], sessions[sent[t]], NoRow} /\ NoRow.csrf = NoToken
            BY <1>q DEF NoRow
          <5>2. QED
            BY <4>2, <4>3, <5>1
        <4>5. \A x \in Tabs : csrfToken'[x] # k /\ held'[x].csrf # k
          BY <1>0, <1>k, <4>2, <4>4 DEF Kept
        <4>6. \A x \in Tabs \ {s} : answer'[x].token # k
          BY <1>0, <1>k, <4>2 DEF Kept
        <4>7. k = sessions'[answer'[s].cookie].csrf
          BY <1>0, <2>0, <4>1
        <4>8. QED
          BY <1>0, <2>0, <4>2, <4>5, <4>6, <4>7 DEF Private
      <3>3. QED
        BY <3>1, <3>2
    <2>5. Calm(s)'
      BY <1>0, <2>0 DEF Calm, Live
    <2>6. Landing(s)'
      BY <1>0, <2>0 DEF Landing, LoggedIn
    <2>7. QED
      BY <2>1, <2>2, <2>3, <2>4, <2>5, <2>6
  <1>3. QED
    BY <1>1, <1>2

\* And what the tabs know.
LEMMA QuietSorted ==
  ASSUME SessionTypeOK, NEW t \in Tabs, Legs(t), Idles(t), NEW s \in Tabs, Agreed(s)
  PROVE  Agreed(s)'
  <1>0. /\ sessions' = sessions /\ cookie' = cookie /\ csrfToken' = csrfToken /\ user' = user /\ past' = past
        /\ \A x \in Tabs : InTime(x)' => InTime(x) /\ answer'[x] = answer[x]
        /\ \A x \in Tabs : Flying(x)' => Flying(x) /\ sent'[x] = sent[x]
        /\ answer'[s].token = NoToken \/ (answer'[s] = answer[s] /\ HasTold(s)' = HasTold(s))
        /\ answer'[s].user = Nobody \/ (answer'[s] = answer[s] /\ HasTold(s)' = HasTold(s))
    BY QuietIs DEF Kept
  <1>1. \A i, k : HasToken(i, k)' = HasToken(i, k) /\ HasUser(i, k)' = HasUser(i, k)
    BY <1>0 DEF HasToken, HasUser, Live
  <1>2. \A k : TokenStays(k) => TokenStays(k)'
    BY <1>0, <1>1 DEF TokenStays, HasToken, Live
  <1>3. \A u : UserStays(u) => UserStays(u)'
    BY <1>0, <1>1 DEF UserStays, HasUser, Live
  <1>4. \A k : TokenGone(k) => TokenGone(k)'
    BY <1>0 DEF TokenGone
  <1>5. KeepApart => KeepApart'
    BY <1>0 DEF KeepApart, Live
  <1>6. PICK k, u, l, v : /\ k = csrfToken[s] /\ u = user[s]
                          /\ l = answer'[s].token /\ v = answer'[s].user
    OBVIOUS
  <1>7. past[s] = "calm" =>
          /\ k # NoToken => TokenStays(k)'
          /\ u # Nobody => UserStays(u)'
    BY <1>2, <1>3, <1>6, SortedIs
  <1>8. past[s] = "calm" =>
          /\ l # NoToken /\ HasTold(s)' => TokenStays(l)'
          /\ v # Nobody /\ HasTold(s)' => UserStays(v)'
    BY <1>0, <1>2, <1>3, <1>6, SortedIs
  <1>9. past[s] = "stale" /\ k # NoToken => TokenGone(k)'
    BY <1>4, <1>6, SortedIs
  <1>10. past[s] # "mixed" => KeepApart'
    BY <1>5, SortedIs
  <1>11. QED
    BY <1>0, <1>6, <1>7, <1>8, <1>9, <1>10, SortedBy

-----------------------------------------------------------------------------
(* The answer comes, with its cookie.                                      *)

\* What it leaves of the requests.
LEMMA ReceiveIs ==
  ASSUME SessionTypeOK, NEW t \in Tabs, Receive(t)
  PROVE  /\ sessions' = sessions /\ made' = made /\ csrfToken' = csrfToken /\ user' = user
         /\ cookie' = (IF answer[t].sets THEN answer[t].cookie ELSE cookie)
         /\ leg[t] = "answered" /\ leg'[t] = "received" /\ sent'[t] = NoCookie
         /\ op'[t] = op[t] /\ at'[t] = at[t] /\ held'[t] = held[t] /\ loading'[t] = loading[t]
         /\ loaded'[t] = loaded[t] /\ upset'[t] = upset[t]
         /\ answer'[t].status = answer[t].status /\ answer'[t].user = answer[t].user
         /\ answer'[t].token = answer[t].token
         /\ ~answer'[t].sets /\ answer'[t].cookie = NoCookie
         /\ Flying(t) /\ (Brings(t) <=> answer[t].sets)
         /\ ~Flying(t)' /\ ~Brings(t)' /\ ~BringsNew(t)' /\ ~InTime(t)'
         /\ \A s \in Tabs : past'[s] = IF Brings(t) /\ ~InTime(t) THEN "mixed" ELSE past[s]
         /\ \A s \in Tabs \ {t} :
              /\ Kept(s) /\ Flying(s)' = Flying(s) /\ Brings(s)' = Brings(s)
              /\ BringsNew(s)' = BringsNew(s)
              /\ upset'[s] = (upset[s] \/ (op[s] # "none" /\ cookie' # cookie))
  <1>1. /\ sessions' = sessions /\ made' = made /\ csrfToken' = csrfToken /\ user' = user
        /\ cookie' = (IF answer[t].sets THEN answer[t].cookie ELSE cookie)
        /\ op' = op /\ at' = at /\ held' = held /\ loading' = loading /\ loaded' = loaded
        /\ leg[t] = "answered"
    BY DEF Receive, tableVars, storeVars
  <1>2. leg'[t] = "received" /\ \A s \in Tabs \ {t} : leg'[s] = leg[s]
    BY Typed DEF Receive, RequestTyped
  <1>3. sent'[t] = NoCookie /\ \A s \in Tabs \ {t} : sent'[s] = sent[s]
    BY Typed DEF Receive, RequestTyped
  <1>4. /\ answer'[t].status = answer[t].status /\ answer'[t].user = answer[t].user
        /\ answer'[t].token = answer[t].token
        /\ ~answer'[t].sets /\ answer'[t].cookie = NoCookie
        /\ \A s \in Tabs \ {t} : answer'[s] = answer[s]
    <2>1. answer[t] \in Answer /\ answer \in [Tabs -> Answer]
      BY Typed DEF RequestTyped
    <2>2. PICK b : b = [answer[t] EXCEPT !.sets = FALSE, !.cookie = NoCookie]
      OBVIOUS
    <2>3. /\ b.status = answer[t].status /\ b.user = answer[t].user /\ b.token = answer[t].token
          /\ b.sets = FALSE /\ b.cookie = NoCookie
      BY <2>1, <2>2 DEF Answer
    <2>4. answer' = [answer EXCEPT ![t] = b]
      BY <2>2 DEF Receive
    <2>5. QED
      BY <2>1, <2>3, <2>4
  <1>5. \A s \in Tabs \ {t} : upset'[s] = (upset[s] \/ (op[s] # "none" /\ cookie' # cookie))
    BY <1>1, Typed DEF Receive, UpsetTyped
  <1>6. upset'[t] = upset[t]
    BY Typed DEF Receive, UpsetTyped
  <1>7. /\ Flying(t) /\ (Brings(t) <=> answer[t].sets) /\ (InTime(t) <=> Brings(t) /\ sent[t] = cookie)
        /\ ~Flying(t)' /\ ~Brings(t)' /\ ~BringsNew(t)' /\ ~InTime(t)'
    BY <1>1, <1>2 DEF Flying, Brings, BringsNew, InTime
  <1>8. \A s \in Tabs : past'[s] = IF Brings(t) /\ ~InTime(t) THEN "mixed" ELSE past[s]
    BY <1>7, Typed DEF Receive, PastTyped, Mixed
  <1>9. \A s \in Tabs \ {t} : Kept(s)
    BY <1>1, <1>2, <1>3, <1>4 DEF Kept
  <1>10. \A s \in Tabs \ {t} : /\ Flying(s)' = Flying(s) /\ Brings(s)' = Brings(s)
                               /\ BringsNew(s)' = BringsNew(s)
    BY <1>9, KeptIs
  <1>11. QED
    BY <1>1, <1>2, <1>3, <1>4, <1>5, <1>6, <1>7, <1>8, <1>9, <1>10

\* It makes no names.
LEMMA ReceiveCounted ==
  ASSUME SessionTypeOK, AllMade, NEW t \in Tabs, Receive(t)
  PROVE  AllMade'
  <1>1. /\ sessions' = sessions /\ made' = made /\ csrfToken' = csrfToken
        /\ cookie' \in {answer[t].cookie, cookie}
        /\ answer'[t].token = answer[t].token /\ answer'[t].cookie = NoCookie
        /\ sent'[t] = NoCookie /\ held'[t] = held[t]
        /\ \A s \in Tabs \ {t} : Kept(s)
    BY ReceiveIs
  <1>2. NoCookie <= made
    BY Points
  <1>3. \A s \in Tabs \ {t} :
          /\ csrfToken'[s] <= made' /\ answer'[s].token <= made'
          /\ held'[s].csrf <= made' /\ sent'[s] <= made' /\ answer'[s].cookie <= made'
    BY <1>1 DEF AllMade, Kept
  <1>4. /\ csrfToken'[t] <= made' /\ answer'[t].token <= made' /\ cookie' <= made'
        /\ held'[t].csrf <= made' /\ sent'[t] <= made' /\ answer'[t].cookie <= made'
    BY <1>1, <1>2 DEF AllMade
  <1>5. QED
    BY <1>1, <1>3, <1>4 DEF AllMade

\* The requests go on, or know that they were disturbed.
LEMMA ReceiveRequests ==
  ASSUME SessionTypeOK, AllMade, NEW t \in Tabs, Receive(t), NEW s \in Tabs,
         \A x \in Tabs : /\ Steps(x) /\ Legs(x) /\ Telling(x) /\ Fresh(x) /\ Private(x)
                         /\ Calm(x) /\ Landing(x)
  PROVE  /\ Steps(s)' /\ Legs(s)' /\ Telling(s)' /\ Fresh(s)' /\ Private(s)'
         /\ Calm(s)' /\ Landing(s)'
  <1>0. /\ sessions' = sessions /\ made' = made /\ csrfToken' = csrfToken /\ user' = user
        /\ cookie' = (IF answer[t].sets THEN answer[t].cookie ELSE cookie)
        /\ leg[t] = "answered" /\ leg'[t] = "received" /\ sent'[t] = NoCookie
        /\ op'[t] = op[t] /\ at'[t] = at[t] /\ held'[t] = held[t] /\ loading'[t] = loading[t]
        /\ loaded'[t] = loaded[t] /\ upset'[t] = upset[t]
        /\ answer'[t].status = answer[t].status /\ answer'[t].user = answer[t].user
        /\ answer'[t].token = answer[t].token
        /\ ~answer'[t].sets /\ answer'[t].cookie = NoCookie
        /\ Flying(t) /\ (Brings(t) <=> answer[t].sets)
        /\ ~Flying(t)' /\ ~Brings(t)' /\ ~BringsNew(t)' /\ ~InTime(t)'
    BY ReceiveIs
  <1>p. \A x \in Tabs : past'[x] \in {past[x], "mixed"}
    BY ReceiveIs
  <1>k. \A x \in Tabs \ {t} :
          /\ Kept(x) /\ Flying(x)' = Flying(x) /\ Brings(x)' = Brings(x)
          /\ BringsNew(x)' = BringsNew(x)
          /\ upset'[x] = (upset[x] \/ (op[x] # "none" /\ cookie' # cookie))
    BY ReceiveIs
  <1>1. CASE s = t
    <2>1. Steps(t)'
      BY <1>0 DEF Steps
    <2>2. Legs(t)'
      BY <1>0 DEF Legs
    <2>3. Telling(t)'
      BY <1>0, <1>p DEF Telling
    <2>4. Fresh(t)' /\ Private(t)' /\ Calm(t)'
      BY <1>0 DEF Fresh, Private, Calm
    <2>5. Landing(t)'
      <3>1. CASE upset[t]
        BY <1>0, <3>1 DEF Landing
      <3>2. CASE ~upset[t] /\ ((op[t] = "login" /\ at[t] = "me") \/ (op[t] = "guard" /\ user[t] # Nobody))
        <4>1. /\ LoggedIn(cookie) /\ answer[t].status = "ok" /\ answer[t].user # Nobody
              /\ Brings(t) => answer[t].cookie = cookie
          BY <1>0, <3>2 DEF Landing
        <4>2. cookie' = cookie
          BY <1>0, <4>1
        <4>3. LoggedIn(cookie)'
          BY <1>0, <4>1, <4>2 DEF LoggedIn
        <4>4. at[t] # "post"
          BY <3>2 DEF Steps
        <4>5. QED
          BY <1>0, <4>1, <4>3, <4>4 DEF Landing
      <3>3. CASE ~upset[t] /\ op[t] = "login" /\ at[t] = "post" /\ answer[t].status = "ok"
        <4>1. Brings(t) /\ LoggedIn(answer[t].cookie)
          BY <1>0, <3>3 DEF Landing
        <4>2. cookie' = answer[t].cookie
          BY <1>0, <4>1
        <4>3. LoggedIn(cookie)'
          BY <1>0, <4>1, <4>2 DEF LoggedIn
        <4>4. QED
          BY <1>0, <3>3, <4>3 DEF Landing
      <3>4. QED
        BY <1>0, <3>1, <3>2, <3>3 DEF Landing
    <2>6. QED
      BY <1>1, <2>1, <2>2, <2>3, <2>4, <2>5
  <1>2. CASE s # t
    <2>0. /\ Kept(s) /\ Flying(s)' = Flying(s) /\ Brings(s)' = Brings(s)
          /\ BringsNew(s)' = BringsNew(s)
          /\ upset'[s] = (upset[s] \/ (op[s] # "none" /\ cookie' # cookie))
          /\ at'[s] = at[s] /\ sent'[s] = sent[s] /\ held'[s] = held[s] /\ leg'[s] = leg[s]
          /\ answer'[s] = answer[s] /\ op'[s] = op[s] /\ user'[s] = user[s]
      BY <1>k, <1>2 DEF Kept
    <2>c. ~upset'[s] /\ op[s] # "none" => cookie' = cookie /\ ~upset[s]
      BY <2>0
    <2>1. Steps(s)' /\ Legs(s)'
      BY <2>0, KeptIs
    <2>2. Telling(s)'
      BY <1>0, <1>p, <2>0 DEF Telling
    <2>3. Fresh(s)'
      <3>1. CASE ~BringsNew(s)
        BY <2>0, <3>1 DEF Fresh
      <3>2. CASE BringsNew(s)
        <4>1. /\ Live(answer[s].cookie) /\ cookie # answer[s].cookie /\ answer[s].cookie # NoCookie
              /\ \A x \in Tabs : sent[x] # answer[s].cookie
              /\ \A x \in Tabs \ {s} : answer[x].cookie # answer[s].cookie
          BY <3>2 DEF Fresh, BringsNew
        <4>2. \A x \in Tabs : sent'[x] # answer[s].cookie
          BY <1>0, <1>k, <4>1 DEF Kept
        <4>3. \A x \in Tabs \ {s} : answer'[x].cookie # answer[s].cookie
          BY <1>0, <1>k, <4>1 DEF Kept
        <4>4. Live(answer[s].cookie)'
          BY <1>0, <2>0, <4>1 DEF Live
        <4>5. cookie' # answer[s].cookie
          BY <1>0, <1>2, <4>1
        <4>6. QED
          BY <1>0, <2>0, <4>1, <4>2, <4>3, <4>4, <4>5 DEF Fresh
      <3>3. QED
        BY <3>1, <3>2
    <2>4. Private(s)'
      <3>1. CASE ~(BringsNew(s) /\ sent[s] = NoCookie /\ sessions[answer[s].cookie].csrf # NoToken)
        BY <1>0, <2>0, <3>1 DEF Private
      <3>2. CASE BringsNew(s) /\ sent[s] = NoCookie /\ sessions[answer[s].cookie].csrf # NoToken
        <4>1. PICK k : k = sessions[answer[s].cookie].csrf
          OBVIOUS
        <4>2. /\ k # NoToken
              /\ \A x \in Tabs : csrfToken[x] # k /\ held[x].csrf # k
              /\ \A x \in Tabs \ {s} : answer[x].token # k
              /\ \A i \in Numbers \ {answer[s].cookie} : sessions[i].csrf # k
          BY <3>2, <4>1 DEF Private
        <4>5. \A x \in Tabs : csrfToken'[x] # k /\ held'[x].csrf # k
          BY <1>0, <1>k, <4>2 DEF Kept
        <4>6. \A x \in Tabs \ {s} : answer'[x].token # k
          BY <1>0, <1>k, <4>2 DEF Kept
        <4>7. k = sessions'[answer'[s].cookie].csrf
          BY <1>0, <2>0, <4>1
        <4>8. QED
          BY <1>0, <2>0, <4>2, <4>5, <4>6, <4>7 DEF Private
      <3>3. QED
        BY <3>1, <3>2
    <2>5. Calm(s)'
      <3>1. Flying(s) => op[s] # "none"
        BY DEF Steps, Flying
      <3>2. QED
        BY <1>0, <2>0, <2>c, <3>1 DEF Calm, Live
    <2>6. Landing(s)'
      BY <1>0, <2>0, <2>c DEF Landing, LoggedIn
    <2>7. QED
      BY <2>1, <2>2, <2>3, <2>4, <2>5, <2>6
  <1>3. QED
    BY <1>1, <1>2

\* Whose answer is up to date with a new cookie had none.
LEMMA ReceiveInTime ==
  ASSUME SessionTypeOK, NEW t \in Tabs, Receive(t), Fresh(t), Brings(t) => InTime(t),
         NEW s \in Tabs, InTime(s)'
  PROVE  /\ s # t /\ Brings(s) /\ sent[s] = cookie' /\ answer'[s] = answer[s]
         /\ \/ cookie' = cookie /\ InTime(s)
            \/ cookie' # cookie /\ cookie' = NoCookie
  <1>1. s # t /\ Brings(s) /\ sent[s] = cookie' /\ answer'[s] = answer[s]
    <2>1. s # t
      BY ReceiveIs
    <2>2. Kept(s) /\ Brings(s)' = Brings(s)
      BY <2>1, ReceiveIs
    <2>3. QED
      BY <2>1, <2>2 DEF InTime, Kept
  <1>2. CASE cookie' = cookie
    BY <1>1, <1>2 DEF InTime
  <1>3. CASE cookie' # cookie /\ cookie' # NoCookie
    <2>1. Brings(t) /\ answer[t].cookie = cookie' /\ sent[t] = cookie
      BY <1>3, ReceiveIs DEF InTime
    <2>2. BringsNew(t)
      BY <1>3, <2>1 DEF BringsNew
    <2>3. sent[s] # answer[t].cookie
      BY <2>2 DEF Fresh
    <2>4. QED
      BY <1>1, <2>1, <2>3
  <1>4. QED
    BY <1>1, <1>2, <1>3

\* The new cookie's session is what the old one's was.
LEMMA ReceiveStays ==
  ASSUME SessionTypeOK, AllMade, NEW t \in Tabs, Receive(t), Fresh(t), Brings(t) => InTime(t)
  PROVE  /\ KeepApart => KeepApart'
         /\ \A k : TokenStays(k) => TokenStays(k)'
         /\ \A u : UserStays(u) => UserStays(u)'
  <1>0. /\ sessions' = sessions
        /\ cookie' = (IF answer[t].sets THEN answer[t].cookie ELSE cookie)
        /\ Brings(t) <=> answer[t].sets
        /\ ~Flying(t)'
        /\ \A s \in Tabs \ {t} : Kept(s) /\ Flying(s)' = Flying(s)
    BY ReceiveIs
  <1>1. \A i, k : HasToken(i, k)' = HasToken(i, k) /\ HasUser(i, k)' = HasUser(i, k)
    BY <1>0 DEF HasToken, HasUser, Live
  <1>2. \A k : ~HasToken(NoCookie, k) /\ ~HasUser(NoCookie, k)
    <2>1. sessions[NoCookie].is = "over"
      BY DEF AllMade, NoRow
    <2>2. QED
      BY <2>1 DEF HasToken, HasUser, Live
  <1>3. \A s \in Tabs : InTime(s)' =>
          /\ s # t /\ Brings(s) /\ sent[s] = cookie' /\ answer'[s] = answer[s]
          /\ \/ cookie' = cookie /\ InTime(s)
             \/ cookie' # cookie /\ cookie' = NoCookie
    BY ReceiveInTime
  <1>4. ASSUME NEW k, TokenStays(k)
        PROVE  TokenStays(k)'
    <2>1. HasToken(cookie', k)
      BY <1>0, <1>4 DEF TokenStays
    <2>2. cookie' # NoCookie
      BY <1>2, <2>1
    <2>3. \A s \in Tabs : InTime(s)' => HasToken(answer[s].cookie, k) /\ answer'[s] = answer[s]
      BY <1>3, <1>4, <2>2 DEF TokenStays
    <2>4. QED
      BY <1>0, <1>1, <2>1, <2>3 DEF TokenStays, HasToken, Live
  <1>5. ASSUME NEW k, UserStays(k)
        PROVE  UserStays(k)'
    <2>1. HasUser(cookie', k)
      BY <1>0, <1>5 DEF UserStays
    <2>2. cookie' # NoCookie
      BY <1>2, <2>1
    <2>3. \A s \in Tabs : InTime(s)' => HasUser(answer[s].cookie, k) /\ answer'[s] = answer[s]
      BY <1>3, <1>5, <2>2 DEF UserStays
    <2>4. QED
      BY <1>0, <1>1, <2>1, <2>3 DEF UserStays, HasUser, Live
  <1>6. ASSUME KeepApart
        PROVE  KeepApart'
    <2>1. \A i : Live(i)' = Live(i)
      BY <1>0 DEF Live
    <2>2. cookie' # cookie => ~Live(cookie)
      BY <1>0, <1>6 DEF KeepApart
    <2>3. \A s \in Tabs : Flying(s)' /\ sent'[s] # cookie' => ~Live(sent'[s])
      <3>1. TAKE s \in Tabs
      <3>2. HAVE Flying(s)' /\ sent'[s] # cookie'
      <3>3. s # t /\ sent'[s] = sent[s] /\ Flying(s)
        BY <1>0, <3>2 DEF Kept
      <3>4. CASE sent[s] # cookie
        BY <1>6, <3>3, <3>4 DEF KeepApart
      <3>5. CASE sent[s] = cookie
        BY <2>2, <3>2, <3>3, <3>5
      <3>6. QED
        BY <3>4, <3>5
    <2>4. \A s \in Tabs : InTime(s)' /\ answer'[s].cookie # cookie' => ~Live(cookie')
      <3>1. TAKE s \in Tabs
      <3>2. HAVE InTime(s)' /\ answer'[s].cookie # cookie'
      <3>3. CASE cookie' = cookie /\ InTime(s)
        BY <1>3, <1>6, <3>2, <3>3 DEF KeepApart
      <3>4. CASE cookie' # cookie /\ cookie' = NoCookie
        BY <3>4 DEF AllMade, NoRow, Live
      <3>5. QED
        BY <1>3, <3>2, <3>3, <3>4
    <2>5. QED
      BY <2>1, <2>3, <2>4 DEF KeepApart, Live
  <1>7. QED
    BY <1>4, <1>5, <1>6

\* A token that was gone does not come back.
LEMMA ReceiveGone ==
  ASSUME SessionTypeOK, AllMade, NEW t \in Tabs, Receive(t), Fresh(t), Brings(t) => InTime(t),
         \A x \in Tabs : Private(x),
         NEW s \in Tabs, csrfToken[s] # NoToken, TokenGone(csrfToken[s])
  PROVE  TokenGone(csrfToken[s])'
  <1>0. /\ sessions' = sessions /\ csrfToken' = csrfToken
        /\ cookie' = (IF answer[t].sets THEN answer[t].cookie ELSE cookie)
        /\ Brings(t) <=> answer[t].sets
    BY ReceiveIs
  <1>1. sessions[cookie'].csrf # csrfToken[s]
    BY <1>0 DEF TokenGone
  <1>2. ASSUME NEW x \in Tabs, InTime(x)'
        PROVE  sessions[answer[x].cookie].csrf # csrfToken[s] /\ answer'[x] = answer[x]
    <2>1. /\ Brings(x) /\ sent[x] = cookie' /\ answer'[x] = answer[x]
          /\ \/ cookie' = cookie /\ InTime(x)
             \/ cookie' # cookie /\ cookie' = NoCookie
      BY <1>2, ReceiveInTime
    <2>2. CASE InTime(x)
      BY <2>1, <2>2 DEF TokenGone
    <2>3. CASE sent[x] = NoCookie
      <3>1. CASE answer[x].cookie = NoCookie
        <4>1. sessions[NoCookie].csrf = NoToken
          BY DEF AllMade, NoRow
        <4>2. QED
          BY <2>1, <3>1, <4>1
      <3>2. CASE answer[x].cookie # NoCookie
        <4>1. BringsNew(x)
          BY <2>1, <2>3, <3>2 DEF BringsNew
        <4>2. QED
          BY <2>1, <2>3, <4>1 DEF Private
      <3>3. QED
        BY <3>1, <3>2
    <2>4. QED
      BY <2>1, <2>2, <2>3
  <1>3. QED
    BY <1>0, <1>1, <1>2 DEF TokenGone

\* What the tabs know, they still do.
LEMMA ReceiveSorted ==
  ASSUME SessionTypeOK, AllMade, NEW t \in Tabs, Receive(t), NEW s \in Tabs, Agreed(s),
         \A x \in Tabs : Legs(x) /\ Telling(x) /\ Fresh(x) /\ Private(x)
  PROVE  Agreed(s)'
  <1>0. /\ sessions' = sessions /\ csrfToken' = csrfToken /\ user' = user
        /\ past'[s] = (IF Brings(t) /\ ~InTime(t) THEN "mixed" ELSE past[s])
        /\ answer'[s].token = answer[s].token /\ answer'[s].user = answer[s].user
    BY ReceiveIs DEF Kept
  <1>k. PICK k, u, l, v : /\ k = csrfToken[s] /\ u = user[s]
                          /\ l = answer[s].token /\ v = answer[s].user
    OBVIOUS
  <1>1. CASE Brings(t) /\ ~InTime(t)
    BY <1>0, <1>1 DEF Agreed
  <1>2. CASE Brings(t) => InTime(t)
    <2>1. past'[s] = past[s]
      BY <1>0, <1>2
    <2>2. past[s] # "mixed" => KeepApart'
      BY <1>2, ReceiveStays, SortedIs
    <2>3. past[s] = "calm" => (k # NoToken => TokenStays(k)') /\ (u # Nobody => UserStays(u)')
      BY <1>2, <1>k, ReceiveStays, SortedIs
    <2>4. past[s] = "stale" /\ k # NoToken => TokenGone(k)'
      <3>1. HAVE past[s] = "stale" /\ k # NoToken
      <3>2. TokenGone(csrfToken[s])'
        BY <1>2, <1>k, <3>1, ReceiveGone, SortedIs
      <3>3. QED
        BY <1>0, <1>k, <3>2 DEF TokenGone
    <2>5. HasTold(s)' /\ (l # NoToken \/ v # Nobody) =>
            \/ HasTold(s)
            \/ /\ s = t /\ BringsNew(t) /\ InTime(t) /\ v = Nobody
               /\ cookie' = answer[t].cookie
      <3>1. HAVE HasTold(s)' /\ (l # NoToken \/ v # Nobody)
      <3>2. CASE s = t
        <4>1. Flying(t) /\ cookie' = (IF answer[t].sets THEN answer[t].cookie ELSE cookie)
              /\ (Brings(t) <=> answer[t].sets)
          BY ReceiveIs
        <4>2. Brings(t) /\ answer[t].cookie # NoCookie
              /\ (v # Nobody => answer[t].cookie = sent[t])
          BY <1>k, <3>1, <3>2, <4>1 DEF Telling
        <4>3. CASE answer[t].cookie = sent[t]
          BY <1>2, <3>2, <4>2, <4>3 DEF HasTold, InTime
        <4>4. CASE answer[t].cookie # sent[t]
          BY <1>2, <3>2, <4>1, <4>2, <4>4 DEF BringsNew
        <4>5. QED
          BY <4>3, <4>4
      <3>3. CASE s # t
        <4>1. Kept(s) /\ Flying(s)' = Flying(s)
          BY <3>3, ReceiveIs
        <4>2. CASE ~Flying(s)
          BY <4>2 DEF HasTold
        <4>3. CASE Flying(s)
          <5>1. InTime(s)' /\ answer'[s].cookie = cookie'
            BY <3>1, <4>1, <4>3 DEF HasTold
          <5>2. /\ Brings(s) /\ sent[s] = cookie' /\ answer'[s] = answer[s]
                /\ \/ cookie' = cookie /\ InTime(s)
                   \/ cookie' # cookie /\ cookie' = NoCookie
            BY <1>2, <5>1, ReceiveInTime
          <5>3. answer[s].cookie # NoCookie
            BY <1>k, <3>1, <4>3 DEF Telling
          <5>4. QED
            BY <5>1, <5>2, <5>3 DEF HasTold
        <4>4. QED
          BY <4>2, <4>3
      <3>4. QED
        BY <3>2, <3>3
    <2>6. past[s] = "calm" => (v # Nobody /\ HasTold(s)' => UserStays(v)')
      BY <1>2, <1>k, <2>5, ReceiveStays, SortedIs
    <2>7. past[s] = "calm" => (l # NoToken /\ HasTold(s)' => TokenStays(l)')
      <3>1. HAVE past[s] = "calm"
      <3>2. HAVE l # NoToken /\ HasTold(s)'
      <3>3. CASE HasTold(s)
        BY <1>2, <1>k, <3>1, <3>2, <3>3, ReceiveStays, SortedIs
      <3>4. CASE /\ s = t /\ BringsNew(t) /\ InTime(t) /\ cookie' = answer[t].cookie
        <4>1. sessions[answer[t].cookie].csrf = l /\ Live(answer[t].cookie)
          BY <1>k, <3>2, <3>4 DEF Telling, Fresh
        <4>2. cookie' # cookie /\ cookie' # NoCookie
          BY <3>4 DEF BringsNew, InTime
        <4>3. \A x \in Tabs : ~InTime(x)'
          BY <1>2, <4>2, ReceiveInTime
        <4>4. sessions'[cookie'].csrf = l /\ sessions'[cookie'].is = "live"
          BY <1>0, <3>4, <4>1 DEF Live
        <4>5. QED
          BY <4>3, <4>4 DEF TokenStays, HasToken, Live
      <3>5. QED
        BY <2>5, <3>2, <3>3, <3>4
    <2>8. QED
      BY <1>0, <1>k, <2>1, <2>2, <2>3, <2>4, <2>6, <2>7, SortedBy
  <1>3. QED
    BY <1>1, <1>2

-----------------------------------------------------------------------------
(* A session expires.                                                      *)

\* What it leaves.
LEMMA ExpireIs ==
  ASSUME SessionTypeOK, AllMade, Expire
  PROVE  /\ Live(cookie) /\ cookie # NoCookie /\ made' = made /\ cookie' = cookie
         /\ sessions'[cookie] = NoRow /\ NoRow.csrf = NoToken /\ NoRow.is = "over"
         /\ \A i \in Numbers : i # cookie => sessions'[i] = sessions[i]
         /\ csrfToken' = csrfToken
         /\ \A s \in Tabs : /\ Kept(s) /\ past'[s] = (IF past[s] = "calm" THEN "stale" ELSE past[s])
                            /\ upset'[s] = (upset[s] \/ op[s] # "none")
                            /\ Flying(s)' = Flying(s) /\ Brings(s)' = Brings(s)
                            /\ BringsNew(s)' = BringsNew(s) /\ InTime(s)' = InTime(s)
  <1>1. /\ sessions[cookie].is = "live" /\ made' = made /\ cookie' = cookie /\ csrfToken' = csrfToken
        /\ user' = user /\ loaded' = loaded /\ loading' = loading /\ op' = op /\ at' = at /\ leg' = leg
        /\ sent' = sent /\ held' = held /\ answer' = answer
        /\ sessions' = [sessions EXCEPT ![cookie] = NoRow] /\ past' = Ended
        /\ upset' = [t \in Tabs |-> upset[t] \/ op[t] # "none"]
    BY DEF Expire, storeVars, requestVars
  <1>2. NoRow.csrf = NoToken /\ NoRow.is = "over"
    BY DEF NoRow
  <1>3. Live(cookie) /\ cookie # NoCookie
    BY <1>1, <1>2 DEF Live, AllMade
  <1>4. sessions'[cookie] = NoRow /\ \A i \in Numbers : i # cookie => sessions'[i] = sessions[i]
    BY <1>1, Typed DEF TableTyped
  <1>5. \A s \in Tabs : Kept(s)
    BY <1>1 DEF Kept
  <1>6. \A s \in Tabs : /\ past'[s] = (IF past[s] = "calm" THEN "stale" ELSE past[s])
                        /\ upset'[s] = (upset[s] \/ op[s] # "none")
    BY <1>1 DEF Ended
  <1>7. \A s \in Tabs : /\ Flying(s)' = Flying(s) /\ Brings(s)' = Brings(s)
                        /\ BringsNew(s)' = BringsNew(s) /\ InTime(s)' = InTime(s)
    BY <1>1 DEF Flying, Brings, BringsNew, InTime
  <1>8. QED
    BY <1>1, <1>2, <1>3, <1>4, <1>5, <1>6, <1>7

\* No name is made.
LEMMA ExpireCounted ==
  ASSUME SessionTypeOK, AllMade, Expire
  PROVE  AllMade'
  <1>0. /\ cookie # NoCookie /\ made' = made /\ cookie' = cookie
        /\ sessions'[cookie] = NoRow /\ NoRow.csrf = NoToken /\ NoRow.is = "over"
        /\ \A i \in Numbers : i # cookie => sessions'[i] = sessions[i]
        /\ csrfToken' = csrfToken /\ \A s \in Tabs : Kept(s)
    BY ExpireIs
  <1>1. NoCookie \in Numbers /\ NoToken <= made
    BY Points
  <1>2. \A i \in Numbers : /\ sessions'[i].csrf <= made
                           /\ sessions'[i].is # "over" => i <= made
                           /\ sessions'[i].is # "live" => sessions'[i].csrf = NoToken
    <2>1. TAKE i \in Numbers
    <2>2. CASE i = cookie
      BY <1>0, <1>1, <2>2
    <2>3. CASE i # cookie
      BY <1>0, <2>3 DEF AllMade
    <2>4. QED
      BY <2>2, <2>3
  <1>3. \A s \in Tabs :
          /\ csrfToken'[s] <= made' /\ answer'[s].token <= made'
          /\ held'[s].csrf <= made' /\ sent'[s] <= made' /\ answer'[s].cookie <= made'
    BY <1>0 DEF AllMade, Kept
  <1>4. sessions'[NoCookie] = NoRow /\ cookie' <= made'
    BY <1>0, <1>1 DEF AllMade
  <1>5. QED
    BY <1>0, <1>2, <1>3, <1>4 DEF AllMade

\* The requests know that they were disturbed.
LEMMA ExpireRequests ==
  ASSUME SessionTypeOK, AllMade, Expire, NEW s \in Tabs,
         \A x \in Tabs : /\ Steps(x) /\ Legs(x) /\ Telling(x) /\ Fresh(x) /\ Private(x)
  PROVE  /\ Steps(s)' /\ Legs(s)' /\ Telling(s)' /\ Fresh(s)' /\ Private(s)'
         /\ Calm(s)' /\ Landing(s)'
  <1>0. /\ cookie # NoCookie /\ made' = made /\ cookie' = cookie
        /\ sessions'[cookie] = NoRow /\ NoRow.csrf = NoToken /\ NoRow.is = "over"
        /\ \A i \in Numbers : i # cookie => sessions'[i] = sessions[i]
        /\ csrfToken' = csrfToken /\ \A x \in Tabs : Kept(x)
    BY ExpireIs
  <1>1. /\ Kept(s) /\ past'[s] # "calm" /\ upset'[s] = (upset[s] \/ op[s] # "none")
        /\ Flying(s)' = Flying(s) /\ Brings(s)' = Brings(s)
        /\ BringsNew(s)' = BringsNew(s)
        /\ at'[s] = at[s] /\ sent'[s] = sent[s] /\ held'[s] = held[s] /\ leg'[s] = leg[s]
        /\ answer'[s] = answer[s] /\ op'[s] = op[s] /\ answer[s].cookie \in Numbers
    BY ExpireIs, Points DEF Kept
  <1>2. Steps(s)' /\ Legs(s)'
    BY <1>1, KeptIs
  <1>3. BringsNew(s) => /\ answer[s].cookie # cookie /\ Live(answer[s].cookie)
                        /\ \A x \in Tabs : sent[x] # answer[s].cookie
                        /\ \A x \in Tabs \ {s} : answer[x].cookie # answer[s].cookie
    BY DEF Fresh
  <1>4. BringsNew(s) => sessions'[answer[s].cookie] = sessions[answer[s].cookie]
    BY <1>0, <1>1, <1>3
  <1>5. Telling(s)'
    BY <1>1, <1>4 DEF Telling
  <1>6. Fresh(s)'
    BY <1>0, <1>1, <1>3, <1>4 DEF Fresh, Kept, Live
  <1>7. Private(s)'
    <2>1. CASE ~(BringsNew(s) /\ sent[s] = NoCookie /\ sessions[answer[s].cookie].csrf # NoToken)
      BY <1>1, <1>4, <2>1 DEF Private
    <2>2. CASE BringsNew(s) /\ sent[s] = NoCookie /\ sessions[answer[s].cookie].csrf # NoToken
      <3>1. PICK k : k = sessions[answer[s].cookie].csrf
        OBVIOUS
      <3>2. /\ k # NoToken
            /\ \A x \in Tabs : csrfToken[x] # k /\ held[x].csrf # k
            /\ \A x \in Tabs \ {s} : answer[x].token # k
            /\ \A i \in Numbers \ {answer[s].cookie} : sessions[i].csrf # k
        BY <2>2, <3>1 DEF Private
      <3>3. \A x \in Tabs : csrfToken'[x] # k /\ held'[x].csrf # k
        BY <1>0, <3>2 DEF Kept
      <3>4. \A x \in Tabs \ {s} : answer'[x].token # k
        BY <1>0, <3>2 DEF Kept
      <3>5. \A i \in Numbers \ {answer[s].cookie} : sessions'[i].csrf # k
        BY <1>0, <3>2
      <3>6. k = sessions'[answer'[s].cookie].csrf
        BY <1>1, <1>4, <2>2, <3>1
      <3>7. QED
        BY <1>1, <3>2, <3>3, <3>4, <3>5, <3>6 DEF Private
    <2>3. QED
      BY <2>1, <2>2
  <1>8. Calm(s)'
    <2>1. Flying(s) => op[s] # "none"
      BY DEF Steps, Flying
    <2>2. QED
      BY <1>1, <2>1 DEF Calm
  <1>9. Landing(s)'
    BY <1>1 DEF Landing
  <1>10. QED
    BY <1>2, <1>5, <1>6, <1>7, <1>8, <1>9

\* And the tabs have the token of no session.
LEMMA ExpireSorted ==
  ASSUME SessionTypeOK, AllMade, Expire, NEW s \in Tabs, Agreed(s)
  PROVE  Agreed(s)'
  <1>0. /\ Live(cookie) /\ cookie # NoCookie /\ cookie' = cookie
        /\ sessions'[cookie] = NoRow /\ NoRow.csrf = NoToken /\ NoRow.is = "over"
        /\ \A i \in Numbers : i # cookie => sessions'[i] = sessions[i]
        /\ past'[s] = (IF past[s] = "calm" THEN "stale" ELSE past[s])
        /\ csrfToken' = csrfToken
        /\ \A x \in Tabs : /\ InTime(x)' = InTime(x) /\ Flying(x)' = Flying(x)
                           /\ answer'[x] = answer[x] /\ sent'[x] = sent[x]
    BY ExpireIs DEF Kept
  <1>1. \A i \in Numbers : Live(i)' => Live(i)
    BY <1>0 DEF Live
  <1>n. \A x \in Tabs : sent[x] \in Numbers
    BY Points
  <1>2. past[s] # "mixed" => KeepApart'
    <2>1. HAVE past[s] # "mixed"
    <2>2. KeepApart
      BY <2>1, SortedIs
    <2>3. \A x \in Tabs : Flying(x)' /\ sent'[x] # cookie' => ~Live(sent[x])'
      BY <1>0, <1>1, <1>n, <2>2 DEF KeepApart, Live
    <2>4. ~Live(cookie)'
      BY <1>0 DEF Live
    <2>5. QED
      BY <2>3, <2>4 DEF KeepApart
  <1>3. ASSUME past'[s] = "stale", csrfToken[s] # NoToken
        PROVE  TokenGone(csrfToken[s])'
    <2>1. KeepApart
      BY <1>0, <1>3, SortedIs
    <2>2. \A x \in Tabs : InTime(x) => answer[x].cookie = cookie
      BY <1>0, <2>1 DEF KeepApart
    <2>3. QED
      BY <1>0, <1>3, <2>2 DEF TokenGone
  <1>4. PICK k, u, l, v : /\ k = csrfToken'[s] /\ u = user'[s]
                          /\ l = answer'[s].token /\ v = answer'[s].user
    OBVIOUS
  <1>5. past'[s] = "stale" /\ k # NoToken => TokenGone(k)'
    BY <1>0, <1>3, <1>4 DEF TokenGone
  <1>6. past'[s] # "calm" /\ (past'[s] # "mixed" => past[s] # "mixed")
    BY <1>0
  <1>7. QED
    BY <1>2, <1>4, <1>5, <1>6, SortedBy

-----------------------------------------------------------------------------
(* A handler runs.                                                         *)

\* What the rows and the answer may be.
LEMMA HandlesIs ==
  ASSUME SessionTypeOK, AllMade, NEW t \in Tabs, Legs(t), NEW table, NEW a,
         HandlerDoes(t, table, a), made' \in Numbers
  PROVE  /\ made' \in {made, made + 1} /\ made + 1 # made
         /\ table[sent[t]].csrf \in {sessions[sent[t]].csrf, held[t].csrf, NoToken, made + 1}
         /\ table[sent[t]].csrf = made + 1 => made' = made + 1
         /\ table[sent[t]].is # "live" => table[sent[t]].csrf = NoToken
         /\ Found(t) \/ table[sent[t]] = sessions[sent[t]]
         /\ made' # made => \/ table[made + 1] = sessions[made + 1]
                            \/ /\ table[made + 1].is = "live"
                               /\ table[made + 1].csrf \in {held[t].csrf, made + 1}
         /\ a.token \in {NoToken, held[t].csrf, made + 1} /\ (a.token = made + 1 => made' = made + 1)
         /\ a.cookie \in {NoCookie, sent[t], made + 1} /\ (a.cookie = made + 1 => made' = made + 1)
         /\ ~a.sets => a.cookie = NoCookie /\ ~Found(t)
  <1>0. made \in Nat /\ made + 1 # made
    BY Points
  <1>n. /\ NoRow.csrf = NoToken /\ NoRow.is = "over"
        /\ sent[t] \in Numbers /\ (sessions[sent[t]].is # "live" => sessions[sent[t]].csrf = NoToken)
        /\ held[t].csrf <= made /\ sessions[sent[t]].csrf <= made /\ sent[t] <= made
        /\ held[t].csrf \in Nat /\ sessions[sent[t]].csrf \in Nat /\ sent[t] \in Nat
        /\ NoToken = 0 /\ NoCookie = 0
    BY Points DEF NoRow, AllMade
  <1>a. held[t].csrf # made + 1 /\ sessions[sent[t]].csrf # made + 1 /\ sent[t] # made + 1
        /\ NoToken # made + 1 /\ NoCookie # made + 1
    BY <1>0, <1>n
  <1>f. Found(t) => held[t].is = "live"
    BY DEF Found
  <1>1. CASE SessionKept(t, table, a)
    BY <1>0, <1>a, <1>f, <1>1 DEF SessionKept
  <1>2. CASE NoSession(t, table, a)
    BY <1>0, <1>a, <1>n, <1>2 DEF NoSession
  <1>3. CASE TokenGiven(t, table, a)
    <2>1. /\ a.sets /\ a.cookie = sent[t] /\ table[sent[t]].is = "live"
          /\ table[sent[t]].csrf = a.token /\ Found(t)
          /\ \/ made' = made /\ a.token = held[t].csrf
             \/ made' = made + 1 /\ a.token = made + 1
      BY <1>3 DEF TokenGiven
    <2>2. CASE made' = made /\ a.token = held[t].csrf
      BY <1>0, <1>a, <2>1, <2>2
    <2>3. CASE made' = made + 1 /\ a.token = made + 1
      <3>1. table[made + 1] = sessions[made + 1]
        BY <1>0, <1>3, <2>3 DEF TokenGiven
      <3>2. QED
        BY <1>0, <1>a, <2>1, <2>3, <3>1
    <2>4. QED
      BY <2>1, <2>2, <2>3
  <1>4. CASE SessionMade(t, table, a)
    BY <1>0, <1>a, <1>n, <1>4 DEF SessionMade
  <1>5. CASE SessionRenewed(t, table, a)
    BY <1>0, <1>a, <1>n, <1>5 DEF SessionRenewed
  <1>6. CASE SessionEnded(t, table, a)
    BY <1>0, <1>a, <1>n, <1>6 DEF SessionEnded
  <1>7. QED
    BY <1>1, <1>2, <1>3, <1>4, <1>5, <1>6 DEF HandlerDoes

\* What the handler leaves of the requests.
LEMMA HandledIs ==
  ASSUME SessionTypeOK, NEW t \in Tabs, NEW table, NEW a, HandlerDid(t, table, a)
  PROVE  /\ sessions' = table /\ cookie' = cookie /\ csrfToken' = csrfToken /\ user' = user
         /\ leg[t] = "loaded" /\ leg'[t] = "answered" /\ answer'[t] = a /\ held'[t] = NoRow
         /\ sent'[t] = sent[t] /\ op'[t] = op[t] /\ at'[t] = at[t] /\ loading'[t] = loading[t]
         /\ loaded'[t] = loaded[t] /\ upset'[t] = upset[t]
         /\ Flying(t) /\ Flying(t)' /\ ~Brings(t) /\ ~BringsNew(t) /\ ~InTime(t)
         /\ (Brings(t)' <=> a.sets)
         /\ \A s \in Tabs : past'[s] = CASE a.sets /\ Overtaken(t) -> "mixed"
                                         [] a.sets /\ ~Overtaken(t) /\ a.cookie = NoCookie ->
                                              IF past[s] = "calm" THEN "stale" ELSE past[s]
                                         [] OTHER -> past[s]
         /\ \A s \in Tabs \ {t} :
              /\ Kept(s) /\ Flying(s)' = Flying(s) /\ Brings(s)' = Brings(s)
              /\ BringsNew(s)' = BringsNew(s) /\ InTime(s)' = InTime(s)
              /\ upset'[s] = (upset[s] \/ (op[s] # "none" /\ sessions' # sessions))
  <1>1. /\ sessions' = table /\ cookie' = cookie /\ csrfToken' = csrfToken /\ user' = user
        /\ op' = op /\ at' = at /\ sent' = sent /\ loading' = loading /\ loaded' = loaded
        /\ leg[t] = "loaded"
    BY DEF HandlerDid, Asked, Answered, storeVars
  <1>2. leg'[t] = "answered" /\ \A s \in Tabs \ {t} : leg'[s] = leg[s]
    BY Typed DEF HandlerDid, Answered, RequestTyped
  <1>3. answer'[t] = a /\ \A s \in Tabs \ {t} : answer'[s] = answer[s]
    BY Typed DEF HandlerDid, Answered, RequestTyped
  <1>4. held'[t] = NoRow /\ \A s \in Tabs \ {t} : held'[s] = held[s]
    BY Typed DEF HandlerDid, Answered, RequestTyped
  <1>5. upset' = [s \in Tabs |-> upset[s] \/ (s # t /\ op[s] # "none" /\ sessions' # sessions)]
    BY <1>1 DEF HandlerDid, Answered
  <1>6. /\ upset'[t] = upset[t]
        /\ \A s \in Tabs \ {t} : upset'[s] = (upset[s] \/ (op[s] # "none" /\ sessions' # sessions))
    BY <1>5, Points
  <1>7. \A s \in Tabs : past'[s] = CASE a.sets /\ Overtaken(t) -> "mixed"
                                     [] a.sets /\ ~Overtaken(t) /\ a.cookie = NoCookie ->
                                          IF past[s] = "calm" THEN "stale" ELSE past[s]
                                     [] OTHER -> past[s]
    BY DEF HandlerDid, Answered, Mixed, Ended
  <1>8. \A s \in Tabs \ {t} : Kept(s)
    BY <1>1, <1>2, <1>3, <1>4 DEF Kept
  <1>9. \A s \in Tabs \ {t} : /\ Flying(s)' = Flying(s) /\ Brings(s)' = Brings(s)
                              /\ BringsNew(s)' = BringsNew(s)
    BY <1>8, KeptIs
  <1>10. \A s \in Tabs \ {t} : InTime(s)' = InTime(s)
    BY <1>1, <1>8, <1>9 DEF InTime, Kept
  <1>11. /\ Flying(t) /\ Flying(t)' /\ ~Brings(t) /\ ~BringsNew(t) /\ ~InTime(t)
         /\ (Brings(t)' <=> a.sets)
    BY <1>1, <1>2, <1>3 DEF Flying, Brings, BringsNew, InTime
  <1>12. QED
    BY <1>1, <1>2, <1>3, <1>4, <1>6, <1>7, <1>8, <1>9, <1>10, <1>11

\* Its rows.
LEMMA HandledRows ==
  ASSUME NEW t \in Tabs, NEW table, NEW a, HandlerDid(t, table, a)
  PROVE  \A i \in Numbers :
           i # sent[t] /\ (made' # made => i # made + 1) => sessions'[i] = sessions[i]
  BY DEF HandlerDid, HandlerDoes, Elsewhere, Answered

\* All names and tokens have been made.
LEMMA HandledCounted ==
  ASSUME SessionTypeOK, AllMade, NEW t \in Tabs, Legs(t), NEW table, NEW a,
         HandlerDid(t, table, a), made' \in Numbers
  PROVE  AllMade'
  <1>h. /\ sessions' = table /\ cookie' = cookie /\ csrfToken' = csrfToken
        /\ answer'[t] = a /\ held'[t] = NoRow /\ sent'[t] = sent[t]
        /\ \A s \in Tabs \ {t} : Kept(s)
    BY HandledIs
  <1>i. /\ made' \in {made, made + 1} /\ made + 1 # made
        /\ table[sent[t]].csrf \in {sessions[sent[t]].csrf, held[t].csrf, NoToken, made + 1}
        /\ table[sent[t]].csrf = made + 1 => made' = made + 1
        /\ table[sent[t]].is # "live" => table[sent[t]].csrf = NoToken
        /\ Found(t) \/ table[sent[t]] = sessions[sent[t]]
        /\ made' # made => \/ table[made + 1] = sessions[made + 1]
                           \/ /\ table[made + 1].is = "live"
                              /\ table[made + 1].csrf \in {held[t].csrf, made + 1}
        /\ a.token \in {NoToken, held[t].csrf, made + 1} /\ (a.token = made + 1 => made' = made + 1)
        /\ a.cookie \in {NoCookie, sent[t], made + 1} /\ (a.cookie = made + 1 => made' = made + 1)
    <2>1. HandlerDoes(t, table, a)
      BY DEF HandlerDid
    <2>2. QED
      BY <2>1, HandlesIs
  <1>p. /\ made \in Nat /\ NoCookie = 0 /\ NoToken = 0 /\ 0 \in Numbers /\ sent[t] \in Numbers
        /\ made <= made' /\ cookie \in Nat /\ sent[t] \in Nat
        /\ \A i \in Numbers : i \in Nat /\ sessions[i].csrf \in Nat
        /\ \A s \in Tabs : /\ csrfToken[s] \in Nat /\ sent[s] \in Nat /\ held[s].csrf \in Nat
                           /\ answer[s].token \in Nat /\ answer[s].cookie \in Nat
    <2>1. made \in Nat /\ cookie \in Nat
      BY Points
    <2>2. made <= made'
      BY <1>i, <2>1
    <2>3. QED
      BY <2>1, <2>2, Points
  <1>c. /\ \A i \in Numbers : /\ sessions[i].csrf <= made
                              /\ sessions[i].is # "over" => i <= made
                              /\ sessions[i].is # "live" => sessions[i].csrf = NoToken
        /\ \A s \in Tabs : /\ csrfToken[s] <= made /\ answer[s].token <= made
                           /\ held[s].csrf <= made /\ sent[s] <= made /\ answer[s].cookie <= made
        /\ sessions[NoCookie] = NoRow /\ cookie <= made
    BY DEF AllMade
  <1>1. \A i \in Numbers : /\ sessions'[i].csrf <= made'
                           /\ sessions'[i].is # "over" => i <= made'
                           /\ sessions'[i].is # "live" => sessions'[i].csrf = NoToken
    <2>1. TAKE i \in Numbers
    <2>2. CASE i = sent[t]
      <3>1. sessions'[i] = table[sent[t]] /\ i <= made'
        BY <1>h, <1>p, <1>c, <2>2
      <3>2. sessions'[i].csrf <= made'
        <4>1. sessions[sent[t]].csrf <= made' /\ held[t].csrf <= made' /\ NoToken <= made'
          BY <1>i, <1>p, <1>c
        <4>2. QED
          BY <1>i, <1>p, <3>1, <4>1
      <3>3. QED
        BY <1>i, <3>1, <3>2
    <2>3. CASE i # sent[t] /\ made' # made /\ i = made + 1
      <3>1. sessions'[i] = table[made + 1] /\ made' = made + 1
        BY <1>h, <1>i, <2>3
      <3>2. held[t].csrf <= made'
        BY <1>i, <1>p, <1>c
      <3>3. CASE table[made + 1] = sessions[made + 1]
        BY <1>c, <1>p, <2>3, <3>1, <3>3
      <3>4. CASE table[made + 1].is = "live" /\ table[made + 1].csrf \in {held[t].csrf, made + 1}
        BY <1>p, <2>3, <3>1, <3>2, <3>4
      <3>5. QED
        BY <1>i, <2>3, <3>3, <3>4
    <2>4. CASE i # sent[t] /\ (made' # made => i # made + 1)
      <3>1. sessions'[i] = sessions[i]
        BY <2>4, HandledRows
      <3>2. sessions[i].csrf <= made' /\ (sessions[i].is # "over" => i <= made')
        BY <1>i, <1>p, <1>c
      <3>3. QED
        BY <1>c, <3>1, <3>2
    <2>5. QED
      BY <2>2, <2>3, <2>4
  <1>2. \A s \in Tabs \ {t} :
          /\ csrfToken'[s] <= made' /\ answer'[s].token <= made'
          /\ held'[s].csrf <= made' /\ sent'[s] <= made' /\ answer'[s].cookie <= made'
    <2>1. TAKE s \in Tabs \ {t}
    <2>2. Kept(s)
      BY <1>h
    <2>3. /\ csrfToken[s] <= made' /\ answer[s].token <= made'
          /\ held[s].csrf <= made' /\ sent[s] <= made' /\ answer[s].cookie <= made'
      BY <1>i, <1>p, <1>c
    <2>4. QED
      BY <2>2, <2>3 DEF Kept
  <1>3. /\ csrfToken'[t] <= made' /\ answer'[t].token <= made'
        /\ held'[t].csrf <= made' /\ sent'[t] <= made' /\ answer'[t].cookie <= made'
    <2>1. csrfToken[t] <= made' /\ sent[t] <= made' /\ held[t].csrf <= made' /\ 0 <= made'
      BY <1>i, <1>p, <1>c
    <2>2. NoRow.csrf = NoToken
      BY DEF NoRow
    <2>3. a.token <= made'
      BY <1>i, <1>p, <2>1
    <2>4. a.cookie <= made'
      BY <1>i, <1>p, <2>1
    <2>5. QED
      BY <1>h, <1>p, <2>1, <2>2, <2>3, <2>4
  <1>4. sessions'[NoCookie] = NoRow
    <2>1. CASE sent[t] = NoCookie
      <3>1. ~Found(t)
        BY <2>1 DEF Legs, Found, NoRow
      <3>2. QED
        BY <1>c, <1>h, <1>i, <2>1, <3>1
    <2>2. CASE sent[t] # NoCookie
      <3>1. NoCookie # made + 1
        BY <1>p
      <3>2. QED
        BY <1>c, <1>p, <2>2, <3>1, HandledRows
    <2>3. QED
      BY <2>1, <2>2
  <1>5. cookie' <= made'
    BY <1>h, <1>i, <1>p, <1>c
  <1>6. QED
    BY <1>1, <1>2, <1>3, <1>4, <1>5 DEF AllMade

\* The request's own handler.
LEMMA HandledOwn ==
  ASSUME SessionTypeOK, AllMade, NEW t \in Tabs, NEW table, NEW a,
         HandlerDid(t, table, a), made' \in Numbers,
         Steps(t), Legs(t), Calm(t), Landing(t), Agreed(t)
  PROVE  /\ Steps(t)' /\ Legs(t)' /\ Telling(t)' /\ Fresh(t)' /\ Private(t)'
         /\ Calm(t)' /\ Landing(t)'
  <1>h. /\ sessions' = table /\ cookie' = cookie /\ csrfToken' = csrfToken /\ user' = user
        /\ leg[t] = "loaded" /\ leg'[t] = "answered" /\ answer'[t] = a /\ held'[t] = NoRow
        /\ sent'[t] = sent[t] /\ op'[t] = op[t] /\ at'[t] = at[t] /\ loading'[t] = loading[t]
        /\ loaded'[t] = loaded[t] /\ upset'[t] = upset[t]
        /\ Flying(t) /\ Flying(t)' /\ ~Brings(t) /\ (Brings(t)' <=> a.sets)
        /\ \A s \in Tabs \ {t} : Kept(s)
    BY HandledIs
  <1>p. /\ made \in Nat /\ NoCookie = 0 /\ NoToken = 0 /\ cookie \in Nat /\ sent[t] \in Nat
        /\ cookie <= made /\ sent[t] <= made /\ cookie # made + 1 /\ sent[t] # made + 1
        /\ made + 1 # made /\ made + 1 # 0 /\ sent[t] \in Numbers /\ cookie \in Numbers
    <2>1. cookie <= made /\ sent[t] <= made
      BY DEF AllMade
    <2>2. /\ made \in Nat /\ NoCookie = 0 /\ NoToken = 0 /\ cookie \in Nat /\ sent[t] \in Nat
          /\ sent[t] \in Numbers /\ cookie \in Numbers
      BY Points, Typed DEF TableTyped
    <2>3. QED
      BY <2>1, <2>2
  <1>g. HandlerDoes(t, table, a) /\ (Found(t) => sent[t] # NoCookie)
        /\ (~Found(t) => held[t].csrf = NoToken /\ held[t].user = Nobody)
    BY NotFound DEF HandlerDid, Legs, Found, NoRow
  <1>n. BringsNew(t)' => SessionMade(t, table, a) \/ SessionRenewed(t, table, a)
    BY <1>g, <1>h
       DEF BringsNew, HandlerDoes, SessionKept, NoSession, TokenGiven, SessionEnded
  <1>m. SessionMade(t, table, a) \/ SessionRenewed(t, table, a) =>
          /\ a.sets /\ a.cookie = made + 1 /\ a.cookie \in Numbers /\ made' = made + 1
          /\ sessions'[made + 1].is = "live"
    BY <1>h DEF SessionMade, SessionRenewed
  <1>1. Steps(t)'
    BY <1>h DEF Steps
  <1>2. Legs(t)'
    <2>1. ~a.sets => a.cookie = NoCookie
      BY <1>g DEF HandlerDoes, SessionKept, NoSession, TokenGiven, SessionMade, SessionRenewed, SessionEnded
    <2>2. at[t] = "csrf" /\ a.status = "ok" => a.token # NoToken
      BY <1>g, <1>p
         DEF HandlerDoes, SessionKept, NoSession, TokenGiven, SessionMade, SessionRenewed, SessionEnded
    <2>3. QED
      BY <1>h, <2>1, <2>2 DEF Legs
  <1>3. Telling(t)'
    <2>1. a.token # NoToken =>
            /\ at[t] = "csrf" /\ a.sets /\ a.cookie # NoCookie
            /\ BringsNew(t)' => sessions'[a.cookie].csrf = a.token
      <3>1. CASE TokenGiven(t, table, a)
        BY <1>g, <1>h, <3>1 DEF TokenGiven, BringsNew
      <3>2. CASE SessionMade(t, table, a)
        BY <1>h, <1>p, <3>2 DEF SessionMade
      <3>3. QED
        BY <1>g, <3>1, <3>2 DEF HandlerDoes, SessionKept, NoSession, SessionRenewed, SessionEnded
    <2>2. a.user # Nobody => a.sets /\ a.cookie = sent[t] /\ sent[t] # NoCookie
      BY <1>g DEF HandlerDoes, SessionKept, NoSession, TokenGiven, SessionMade, SessionRenewed, SessionEnded
    <2>3. a.status = "forbidden" => past'[t] # "calm"
      <3>1. HAVE a.status = "forbidden"
      <3>2. SessionKept(t, table, a)
        BY <1>g, <3>1 DEF HandlerDoes, NoSession, TokenGiven, SessionMade, SessionRenewed, SessionEnded
      <3>3. /\ Found(t) /\ a.sets /\ a.cookie = sent[t] /\ at[t] = "post"
            /\ csrfToken[t] # held[t].csrf
        BY <3>1, <3>2 DEF SessionKept
      <3>4. csrfToken[t] # NoToken
        BY <3>3 DEF Steps
      <3>5. CASE Overtaken(t)
        BY <3>3, <3>5, HandledIs
      <3>6. CASE ~Overtaken(t)
        <4>1. sessions[sent[t]] = held[t] /\ Live(sent[t])
          BY <3>3, <3>6 DEF Overtaken, Live, Found
        <4>2. past[t] # "calm"
          <5>1. SUFFICES ASSUME past[t] = "calm"
                         PROVE  FALSE
            OBVIOUS
          <5>2. KeepApart /\ TokenStays(csrfToken[t])
            BY <3>4, <5>1, SortedIs
          <5>3. sent[t] = cookie
            BY <1>h, <4>1, <5>2 DEF KeepApart
          <5>4. HasToken(sent[t], csrfToken[t])
            BY <5>2, <5>3 DEF TokenStays
          <5>5. QED
            BY <3>3, <4>1, <5>4 DEF HasToken, Live
        <4>3. past'[t] = past[t] \/ past'[t] = "stale"
          BY <3>6, <4>2, HandledIs
        <4>4. QED
          BY <4>2, <4>3
      <3>7. QED
        BY <3>5, <3>6
    <2>4. QED
      BY <1>h, <2>1, <2>2, <2>3 DEF Telling
  <1>4. Fresh(t)'
    <2>1. SUFFICES ASSUME BringsNew(t)'
                   PROVE  /\ Live(a.cookie)' /\ cookie' # a.cookie
                          /\ \A x \in Tabs : sent'[x] # a.cookie
                          /\ \A x \in Tabs \ {t} : answer'[x].cookie # a.cookie
      BY <1>h DEF Fresh, Live
    <2>2. a.cookie = made + 1 /\ sessions'[made + 1].is = "live"
      BY <1>n, <1>m, <2>1
    <2>3. \A x \in Tabs : sent[x] # made + 1 /\ answer[x].cookie # made + 1
      <3>1. TAKE x \in Tabs
      <3>2. sent[x] <= made /\ answer[x].cookie <= made
        BY DEF AllMade
      <3>3. sent[x] \in Nat /\ answer[x].cookie \in Nat
        BY Points
      <3>4. QED
        BY <1>p, <3>2, <3>3
    <2>4. \A x \in Tabs : sent'[x] # a.cookie
      BY <1>h, <2>2, <2>3 DEF Kept
    <2>5. \A x \in Tabs \ {t} : answer'[x].cookie # a.cookie
      BY <1>h, <2>2, <2>3 DEF Kept
    <2>6. Live(a.cookie)'
      BY <1>h, <2>2 DEF Live
    <2>7. cookie' # a.cookie
      BY <1>h, <1>p, <2>2
    <2>8. QED
      BY <2>4, <2>5, <2>6, <2>7
  <1>5. Private(t)'
    <2>1. CASE ~(BringsNew(t)' /\ sent[t] = NoCookie)
      BY <1>h, <2>1 DEF Private
    <2>2. CASE BringsNew(t)' /\ sent[t] = NoCookie
      <3>1. ~Found(t) /\ held[t].csrf = NoToken
        BY <1>g, <2>2
      <3>2. CASE SessionRenewed(t, table, a)
        <4>1. sessions'[answer'[t].cookie].csrf = NoToken
          BY <1>h, <3>1, <3>2 DEF SessionRenewed
        <4>2. QED
          BY <4>1 DEF Private
      <3>3. CASE SessionMade(t, table, a)
        <4>1. /\ a.cookie = made + 1 /\ sessions'[made + 1].csrf = made + 1
              /\ sessions'[sent[t]] = sessions[sent[t]]
          BY <1>h, <3>3 DEF SessionMade
        <4>2. \A x \in Tabs : csrfToken[x] # made + 1 /\ held[x].csrf # made + 1
                              /\ answer[x].token # made + 1
          <5>1. TAKE x \in Tabs
          <5>2. csrfToken[x] <= made /\ held[x].csrf <= made /\ answer[x].token <= made
            BY DEF AllMade
          <5>3. csrfToken[x] \in Nat /\ held[x].csrf \in Nat /\ answer[x].token \in Nat
            BY Points
          <5>4. QED
            BY <1>p, <5>2, <5>3
        <4>3. \A i \in Numbers : sessions[i].csrf # made + 1
          <5>1. TAKE i \in Numbers
          <5>2. sessions[i].csrf <= made /\ sessions[i].csrf \in Nat
            BY Points DEF AllMade
          <5>3. QED
            BY <1>p, <5>2
        <4>4. NoRow.csrf = 0
          BY <1>p DEF NoRow
        <4>5. \A x \in Tabs : csrfToken'[x] # made + 1 /\ held'[x].csrf # made + 1
          BY <1>h, <1>p, <4>2, <4>4 DEF Kept
        <4>6. \A x \in Tabs \ {t} : answer'[x].token # made + 1
          BY <1>h, <4>2 DEF Kept
        <4>7. \A i \in Numbers \ {made + 1} : sessions'[i].csrf # made + 1
          BY <4>1, <4>3, HandledRows
        <4>8. QED
          BY <1>h, <4>1, <4>5, <4>6, <4>7 DEF Private
      <3>4. QED
        BY <1>n, <2>2, <3>2, <3>3
    <2>3. QED
      BY <2>1, <2>2
  <1>6. Calm(t)'
    <2>1. SUFFICES ASSUME ~upset[t]
                   PROVE  /\ sent[t] = cookie
                          /\ a.sets /\ a.cookie # sent[t] => ~Live(cookie)'
      BY <1>h DEF Calm, Live
    <2>2. sent[t] = cookie /\ held[t] = IF Live(cookie) THEN sessions[cookie] ELSE NoRow
      BY <1>h, <2>1 DEF Calm
    <2>3. ~Found(t) => ~Live(cookie)
      BY <2>2 DEF Live, Found
    <2>4. a.sets /\ a.cookie # sent[t] => ~Live(cookie)'
      <3>1. HAVE a.sets /\ a.cookie # sent[t]
      <3>2. CASE SessionMade(t, table, a)
        BY <1>h, <2>2, <2>3, <3>2 DEF SessionMade, Live
      <3>3. CASE SessionRenewed(t, table, a)
        BY <1>h, <2>2, <2>3, <3>3 DEF SessionRenewed, Live
      <3>4. CASE SessionEnded(t, table, a)
        BY <1>h, <2>2, <3>4 DEF SessionEnded, Live, NoRow
      <3>5. QED
        BY <1>g, <3>1, <3>2, <3>3, <3>4 DEF HandlerDoes, SessionKept, NoSession, TokenGiven
    <2>5. QED
      BY <2>2, <2>4
  <1>7. Landing(t)'
    <2>1. CASE upset[t]
      BY <1>h, <2>1 DEF Landing
    <2>2. CASE ~upset[t] /\ at[t] = "me"
      <3>1. SUFFICES ASSUME (op[t] = "login" /\ at[t] = "me") \/ (op[t] = "guard" /\ user[t] # Nobody)
                     PROVE  LoggedIn(cookie)' /\ a.status = "ok" /\ a.user # Nobody
                            /\ (a.sets => a.cookie = cookie)
        BY <1>h, <2>2 DEF Landing
      <3>2. LoggedIn(cookie)
        BY <2>2, <3>1 DEF Landing
      <3>3. sent[t] = cookie /\ held[t] = sessions[cookie] /\ Found(t) /\ held[t].user # Nobody
        BY <1>h, <2>2, <3>2 DEF Calm, LoggedIn, Live, Found
      <3>4. SessionKept(t, table, a)
        BY <1>g, <2>2, <3>3 DEF HandlerDoes, NoSession, TokenGiven, SessionMade, SessionRenewed, SessionEnded
      <3>5. table[cookie] = sessions[cookie] /\ a.status = "ok" /\ a.user # Nobody /\ a.cookie = cookie
        BY <2>2, <3>3, <3>4 DEF SessionKept
      <3>6. QED
        BY <1>h, <3>2, <3>5 DEF LoggedIn
    <2>3. CASE ~upset[t] /\ at[t] # "me"
      <3>1. SUFFICES ASSUME op[t] = "login" /\ at[t] = "post" /\ a.status = "ok"
                     PROVE  a.sets /\ LoggedIn(a.cookie)'
        BY <1>h, <2>3 DEF Landing, Steps, LoggedIn
      <3>2. SessionRenewed(t, table, a)
        BY <1>g, <3>1 DEF HandlerDoes, SessionKept, NoSession, TokenGiven, SessionMade, SessionEnded
      <3>3. /\ a.sets /\ a.cookie = made + 1 /\ table[made + 1].is = "live"
            /\ table[made + 1].user # Nobody
        BY <3>2 DEF SessionRenewed
      <3>4. QED
        BY <1>h, <3>3 DEF LoggedIn
    <2>4. QED
      BY <2>1, <2>2, <2>3
  <1>8. QED
    BY <1>1, <1>2, <1>3, <1>4, <1>5, <1>6, <1>7

\* The requests of others.
LEMMA HandledOthers ==
  ASSUME SessionTypeOK, AllMade, NEW t \in Tabs, NEW table, NEW a,
         HandlerDid(t, table, a), made' \in Numbers, Legs(t), NEW s \in Tabs \ {t},
         Steps(s), Legs(s), Telling(s), Fresh(s), Private(s), Calm(s), Landing(s)
  PROVE  /\ Steps(s)' /\ Legs(s)' /\ Telling(s)' /\ Fresh(s)' /\ Private(s)'
         /\ Calm(s)' /\ Landing(s)'
  <1>h. /\ sessions' = table /\ cookie' = cookie /\ csrfToken' = csrfToken
        /\ answer'[t] = a /\ held'[t] = NoRow /\ sent'[t] = sent[t]
        /\ \A x \in Tabs \ {t} : Kept(x)
    BY HandledIs
  <1>k. /\ Kept(s) /\ Flying(s)' = Flying(s) /\ Brings(s)' = Brings(s)
        /\ BringsNew(s)' = BringsNew(s)
        /\ upset'[s] = (upset[s] \/ (op[s] # "none" /\ sessions' # sessions))
        /\ at'[s] = at[s] /\ sent'[s] = sent[s] /\ held'[s] = held[s] /\ leg'[s] = leg[s]
        /\ answer'[s] = answer[s] /\ op'[s] = op[s] /\ user'[s] = user[s]
    BY HandledIs DEF Kept
  <1>c. ~upset'[s] /\ op[s] # "none" => sessions' = sessions /\ ~upset[s]
    BY <1>k
  <1>q. past[s] # "calm" => past'[s] # "calm"
    BY HandledIs
  <1>i. /\ made' \in {made, made + 1}
        /\ table[sent[t]].csrf \in {sessions[sent[t]].csrf, held[t].csrf, NoToken, made + 1}
        /\ made' # made => \/ table[made + 1] = sessions[made + 1]
                           \/ /\ table[made + 1].is = "live"
                              /\ table[made + 1].csrf \in {held[t].csrf, made + 1}
        /\ a.token \in {NoToken, held[t].csrf, made + 1}
        /\ a.cookie \in {NoCookie, sent[t], made + 1}
    <2>1. HandlerDoes(t, table, a)
      BY DEF HandlerDid
    <2>2. QED
      BY <2>1, HandlesIs
  <1>m. /\ answer[s].cookie # made + 1 /\ answer[s].cookie \in Numbers
        /\ \A i \in Numbers : sessions[i].csrf # made + 1
    <2>1. made \in Nat /\ answer[s].cookie \in Nat /\ answer[s].cookie \in Numbers
          /\ \A i \in Numbers : sessions[i].csrf \in Nat
      BY Points
    <2>2. answer[s].cookie <= made /\ \A i \in Numbers : sessions[i].csrf <= made
      BY DEF AllMade
    <2>3. QED
      BY <2>1, <2>2
  <1>n. BringsNew(s) =>
          /\ Live(answer[s].cookie) /\ cookie # answer[s].cookie /\ answer[s].cookie # NoCookie
          /\ \A x \in Tabs : sent[x] # answer[s].cookie
          /\ \A x \in Tabs \ {s} : answer[x].cookie # answer[s].cookie
          /\ sessions'[answer[s].cookie] = sessions[answer[s].cookie]
    <2>1. HAVE BringsNew(s)
    <2>2. /\ Live(answer[s].cookie) /\ cookie # answer[s].cookie /\ answer[s].cookie # NoCookie
          /\ \A x \in Tabs : sent[x] # answer[s].cookie
          /\ \A x \in Tabs \ {s} : answer[x].cookie # answer[s].cookie
      BY <2>1 DEF Fresh, BringsNew
    <2>3. sessions'[answer[s].cookie] = sessions[answer[s].cookie]
      BY <1>m, <2>2, HandledRows
    <2>4. QED
      BY <2>2, <2>3
  <1>1. Steps(s)' /\ Legs(s)'
    BY <1>k, KeptIs
  <1>2. Telling(s)'
    BY <1>k, <1>n, <1>q DEF Telling
  <1>3. Fresh(s)'
    <2>1. CASE ~BringsNew(s)
      BY <1>k, <2>1 DEF Fresh
    <2>2. CASE BringsNew(s)
      <3>1. \A x \in Tabs : sent'[x] # answer[s].cookie
        BY <1>h, <1>n, <2>2 DEF Kept
      <3>2. \A x \in Tabs \ {s} : answer'[x].cookie # answer[s].cookie
        <4>1. a.cookie # answer[s].cookie
          BY <1>i, <1>m, <1>n, <2>2
        <4>2. QED
          BY <1>h, <1>n, <2>2, <4>1 DEF Kept
      <3>3. Live(answer[s].cookie)'
        BY <1>k, <1>n, <2>2 DEF Live
      <3>4. QED
        BY <1>h, <1>k, <1>n, <2>2, <3>1, <3>2, <3>3 DEF Fresh
    <2>3. QED
      BY <2>1, <2>2
  <1>4. Private(s)'
    <2>1. CASE ~(BringsNew(s) /\ sent[s] = NoCookie /\ sessions[answer[s].cookie].csrf # NoToken)
      BY <1>k, <1>n, <2>1 DEF Private
    <2>2. CASE BringsNew(s) /\ sent[s] = NoCookie /\ sessions[answer[s].cookie].csrf # NoToken
      <3>1. PICK k : k = sessions[answer[s].cookie].csrf
        OBVIOUS
      <3>2. /\ k # NoToken /\ k # made + 1
            /\ \A x \in Tabs : csrfToken[x] # k /\ held[x].csrf # k
            /\ \A x \in Tabs \ {s} : answer[x].token # k
            /\ \A i \in Numbers \ {answer[s].cookie} : sessions[i].csrf # k
        BY <1>m, <2>2, <3>1 DEF Private
      <3>3. held[t].csrf # k /\ NoRow.csrf # k
        BY <3>2 DEF NoRow
      <3>4. \A x \in Tabs : csrfToken'[x] # k /\ held'[x].csrf # k
        BY <1>h, <3>2, <3>3 DEF Kept
      <3>5. \A x \in Tabs \ {s} : answer'[x].token # k
        <4>1. a.token # k
          BY <1>i, <3>2, <3>3
        <4>2. QED
          BY <1>h, <3>2, <4>1 DEF Kept
      <3>6. \A i \in Numbers \ {answer[s].cookie} : sessions'[i].csrf # k
        <4>1. TAKE i \in Numbers \ {answer[s].cookie}
        <4>2. CASE i = sent[t]
          <5>1. sessions[sent[t]].csrf # k
            BY <3>2, <4>2
          <5>2. QED
            BY <1>h, <1>i, <3>2, <3>3, <4>2, <5>1
        <4>3. CASE i # sent[t] /\ made' # made /\ i = made + 1
          BY <1>h, <1>i, <3>2, <3>3, <4>3
        <4>4. CASE i # sent[t] /\ (made' # made => i # made + 1)
          BY <3>2, <4>4, HandledRows
        <4>5. QED
          BY <4>2, <4>3, <4>4
      <3>7. k = sessions'[answer'[s].cookie].csrf
        BY <1>k, <1>n, <2>2, <3>1
      <3>8. QED
        BY <1>k, <3>2, <3>4, <3>5, <3>6, <3>7 DEF Private
    <2>3. QED
      BY <2>1, <2>2
  <1>5. Calm(s)'
    <2>1. Flying(s) => op[s] # "none"
      BY DEF Steps, Flying
    <2>2. QED
      BY <1>h, <1>k, <1>c, <2>1 DEF Calm, Live
  <1>6. Landing(s)'
    BY <1>h, <1>k, <1>c DEF Landing, LoggedIn
  <1>7. QED
    BY <1>1, <1>2, <1>3, <1>4, <1>5, <1>6

\* A handler that works on the session of now: the session it finds is the one the
\* browser's cookie names, and what it makes of the rows and the cookie.
LEMMA HandledApart ==
  ASSUME SessionTypeOK, AllMade, NEW t \in Tabs, NEW table, NEW a,
         HandlerDid(t, table, a), made' \in Numbers, Legs(t),
         KeepApart, a.sets => ~Overtaken(t)
  PROVE  /\ KeepApart'
         /\ Found(t) => sent[t] = cookie /\ sessions[cookie] = held[t] /\ Live(cookie)
                        /\ \A x \in Tabs : InTime(x) => answer[x].cookie = cookie
         /\ ~Found(t) /\ a.sets => sessions[sent[t]].is = "over"
         /\ \A i \in Numbers : Live(i)' => Live(i) \/ i = made + 1
         /\ \A i \in Numbers : i # sent[t] /\ i # made + 1 => sessions'[i] = sessions[i]
         /\ ~Found(t) => sessions'[sent[t]] = sessions[sent[t]]
  <1>h. /\ sessions' = table /\ cookie' = cookie
        /\ answer'[t] = a /\ sent'[t] = sent[t]
        /\ Flying(t) /\ (Brings(t)' <=> a.sets)
        /\ \A x \in Tabs \ {t} : Kept(x) /\ Flying(x)' = Flying(x) /\ InTime(x)' = InTime(x)
    BY HandledIs
  <1>i. /\ Found(t) \/ table[sent[t]] = sessions[sent[t]]
        /\ ~a.sets => ~Found(t)
    <2>1. HandlerDoes(t, table, a)
      BY DEF HandlerDid
    <2>2. QED
      BY <2>1, HandlesIs
  <1>1. Found(t) => Live(sent[t]) /\ sessions[sent[t]] = held[t]
    BY <1>i DEF Overtaken, Live, Found
  <1>2. Found(t) => sent[t] = cookie /\ \A x \in Tabs : InTime(x) => answer[x].cookie = cookie
    BY <1>h, <1>1 DEF KeepApart
  <1>3. \A i \in Numbers : i # sent[t] /\ i # made + 1 => sessions'[i] = sessions[i]
    BY HandledRows
  <1>4. \A i \in Numbers : Live(i)' => Live(i) \/ i = made + 1
    <2>1. TAKE i \in Numbers
    <2>2. CASE i = sent[t]
      BY <1>h, <1>i, <1>1, <2>2 DEF Live
    <2>3. CASE i # sent[t]
      BY <1>3, <2>3 DEF Live
    <2>4. QED
      BY <2>2, <2>3
  <1>5. ~Found(t) /\ a.sets => sessions[sent[t]].is = "over"
    BY DEF Overtaken
  <1>n. cookie # made + 1 /\ cookie \in Numbers
        /\ \A x \in Tabs : sent[x] # made + 1 /\ sent[x] \in Numbers
    <2>1. cookie \in Nat /\ made \in Nat /\ cookie \in Numbers
          /\ \A x \in Tabs : sent[x] \in Nat /\ sent[x] \in Numbers
      BY Points, Typed DEF TableTyped
    <2>2. cookie <= made /\ \A x \in Tabs : sent[x] <= made
      BY DEF AllMade
    <2>3. QED
      BY <2>1, <2>2
  <1>6. \A x \in Tabs : Flying(x)' /\ sent'[x] # cookie' => ~Live(sent[x])' /\ sent'[x] = sent[x]
    <2>1. TAKE x \in Tabs
    <2>2. HAVE Flying(x)' /\ sent'[x] # cookie'
    <2>3. Flying(x) /\ sent'[x] = sent[x]
      BY <1>h, <2>2 DEF Kept
    <2>4. ~Live(sent[x])
      BY <1>h, <2>2, <2>3 DEF KeepApart
    <2>5. sessions'[sent[x]].is # "live"
      BY <1>4, <1>n, <2>4 DEF Live
    <2>6. QED
      BY <2>3, <2>5 DEF Live, Kept
  <1>7. \A x \in Tabs : InTime(x)' /\ answer'[x].cookie # cookie' => ~Live(cookie)'
    <2>1. TAKE x \in Tabs
    <2>2. HAVE InTime(x)' /\ answer'[x].cookie # cookie'
    <2>3. CASE x # t
      <3>1. InTime(x) /\ answer[x].cookie # cookie
        BY <1>h, <2>2, <2>3 DEF Kept
      <3>2. ~Live(cookie)
        BY <3>1 DEF KeepApart
      <3>3. QED
        BY <1>4, <1>h, <1>n, <3>2 DEF Live
    <2>4. CASE x = t
      <3>1. a.sets /\ sent[t] = cookie /\ a.cookie # sent[t]
        BY <1>h, <2>2, <2>4 DEF InTime
      <3>2. CASE Found(t)
        <4>1. SessionRenewed(t, table, a) \/ SessionEnded(t, table, a)
          BY <3>1, <3>2 DEF HandlerDid, HandlerDoes, SessionKept, NoSession, TokenGiven, SessionMade
        <4>2. table[sent[t]].is # "live"
          BY <3>2, <4>1 DEF SessionRenewed, SessionEnded, NoRow
        <4>3. QED
          BY <1>h, <3>1, <4>2 DEF Live
      <3>3. CASE ~Found(t)
        BY <1>5, <1>h, <1>i, <3>1, <3>3 DEF Live
      <3>4. QED
        BY <3>2, <3>3
    <2>5. QED
      BY <2>3, <2>4
  <1>8. KeepApart'
    BY <1>6, <1>7 DEF KeepApart, Live
  <1>9. QED
    BY <1>1, <1>2, <1>3, <1>4, <1>5, <1>8, <1>h, <1>i

\* What such a handler leaves of the session, and of one it makes of it.
LEMMA HandledSession ==
  ASSUME SessionTypeOK, AllMade, NEW t \in Tabs, NEW table, NEW a,
         HandlerDid(t, table, a), made' \in Numbers, Legs(t),
         KeepApart, a.sets => ~Overtaken(t), ~(a.sets /\ a.cookie = NoCookie)
  PROVE  /\ \A k : k # NoToken /\ HasToken(cookie, k) => HasToken(cookie, k)'
         /\ \A u : u # Nobody /\ HasUser(cookie, u) => HasUser(cookie, u)'
         /\ \A k : k # NoToken /\ HasToken(cookie, k) /\ a.sets /\ sent[t] = cookie =>
              HasToken(a.cookie, k)'
         /\ \A u : u # Nobody /\ HasUser(cookie, u) /\ a.sets /\ sent[t] = cookie =>
              HasUser(a.cookie, u)'
  <1>a. /\ Found(t) => sent[t] = cookie /\ sessions[cookie] = held[t] /\ Live(cookie)
        /\ ~Found(t) /\ a.sets => sessions[sent[t]].is = "over"
        /\ \A i \in Numbers : i # sent[t] /\ i # made + 1 => sessions'[i] = sessions[i]
        /\ ~Found(t) => sessions'[sent[t]] = sessions[sent[t]]
    BY HandledApart
  <1>h. sessions' = table /\ cookie' = cookie /\ HandlerDoes(t, table, a)
    BY HandledIs DEF HandlerDid
  <1>n. cookie # made + 1 /\ cookie \in Numbers
    <2>1. cookie \in Nat /\ made \in Nat /\ cookie <= made /\ cookie \in Numbers
      BY Points, Typed DEF TableTyped, AllMade
    <2>2. QED
      BY <2>1
  <1>1. CASE ~Found(t)
    <2>1. sessions'[cookie] = sessions[cookie]
      BY <1>a, <1>n, <1>1
    <2>2. a.sets /\ sent[t] = cookie =>
            /\ \A k : ~HasToken(cookie, k)
            /\ \A u : ~HasUser(cookie, u)
      BY <1>a, <1>1 DEF HasToken, HasUser, Live
    <2>3. QED
      BY <1>h, <2>1, <2>2 DEF HasToken, HasUser, Live
  <1>2. CASE Found(t)
    <2>0. /\ sent[t] = cookie /\ held[t].is = "live" /\ sessions[cookie] = held[t]
      BY <1>a, <1>2 DEF Found
    <2>k. \A k : HasToken(cookie, k) => held[t].csrf = k
      BY <2>0 DEF HasToken, Live
    <2>u. \A u : HasUser(cookie, u) => held[t].user = u \/ held[t].twice
      BY <2>0 DEF HasUser, Live
    <2>1. CASE SessionKept(t, table, a)
      <3>1. sessions'[cookie] = sessions[cookie] /\ a.cookie = cookie
        BY <1>h, <2>0, <2>1 DEF SessionKept
      <3>2. QED
        BY <1>h, <3>1 DEF HasToken, HasUser, Live
    <2>2. CASE TokenGiven(t, table, a)
      <3>1. /\ sessions'[cookie].is = "live" /\ a.cookie = cookie
            /\ sessions'[cookie].user = held[t].user /\ sessions'[cookie].twice = held[t].twice
            /\ held[t].csrf = NoToken \/ sessions'[cookie].csrf = held[t].csrf
        BY <1>h, <2>0, <2>2 DEF TokenGiven
      <3>2. \A k : k # NoToken /\ HasToken(cookie, k) => HasToken(cookie, k)'
        BY <1>h, <2>k, <3>1 DEF HasToken, Live
      <3>3. \A u : HasUser(cookie, u) => HasUser(cookie, u)'
        BY <1>h, <2>u, <3>1 DEF HasUser, Live
      <3>4. QED
        BY <1>h, <3>1, <3>2, <3>3 DEF HasToken, HasUser, Live
    <2>3. CASE SessionRenewed(t, table, a)
      <3>1. /\ sessions'[cookie].is = "renewed" /\ a.cookie = made + 1
            /\ sessions'[made + 1].is = "live" /\ sessions'[made + 1].csrf = held[t].csrf
            /\ sessions'[made + 1].twice = (held[t].twice \/ held[t].user # Nobody)
        BY <1>h, <1>2, <2>0, <2>3 DEF SessionRenewed
      <3>2. /\ \A k : HasToken(cookie, k)'
            /\ \A u : HasUser(cookie, u)'
        BY <1>h, <3>1 DEF HasToken, HasUser
      <3>3. \A k : HasToken(cookie, k) => HasToken(a.cookie, k)'
        BY <1>h, <2>k, <3>1 DEF HasToken, Live
      <3>4. \A u : u # Nobody /\ HasUser(cookie, u) => HasUser(a.cookie, u)'
        BY <1>h, <2>u, <3>1 DEF HasUser, Live
      <3>5. QED
        BY <3>2, <3>3, <3>4
    <2>4. QED
      BY <1>2, <1>h, <2>1, <2>2, <2>3 DEF HandlerDoes, NoSession, SessionMade, SessionEnded
  <1>3. QED
    BY <1>1, <1>2

\* So a token and a user stay.
LEMMA HandledStays ==
  ASSUME SessionTypeOK, AllMade, NEW t \in Tabs, NEW table, NEW a,
         HandlerDid(t, table, a), made' \in Numbers, Legs(t),
         KeepApart, a.sets => ~Overtaken(t), ~(a.sets /\ a.cookie = NoCookie)
  PROVE  /\ \A k : k # NoToken /\ TokenStays(k) => TokenStays(k)'
         /\ \A u : u # Nobody /\ UserStays(u) => UserStays(u)'
  <1>h. /\ cookie' = cookie /\ answer'[t] = a /\ sent'[t] = sent[t] /\ (Brings(t)' <=> a.sets)
        /\ \A x \in Tabs \ {t} : Kept(x) /\ InTime(x)' = InTime(x)
    BY HandledIs
  <1>a. /\ Found(t) => \A x \in Tabs : InTime(x) => answer[x].cookie = cookie
        /\ \A i \in Numbers : i # sent[t] /\ i # made + 1 => sessions'[i] = sessions[i]
        /\ ~Found(t) => sessions'[sent[t]] = sessions[sent[t]]
    BY HandledApart
  <1>n. \A x \in Tabs : answer[x].cookie # made + 1 /\ answer[x].cookie \in Numbers
    <2>1. TAKE x \in Tabs
    <2>2. answer[x].cookie \in Nat /\ made \in Nat /\ answer[x].cookie <= made
          /\ answer[x].cookie \in Numbers
      BY Points DEF AllMade
    <2>3. QED
      BY <2>2
  <1>t. InTime(t)' => a.sets /\ sent[t] = cookie
    BY <1>h DEF InTime
  <1>o. ~Found(t) => \A x \in Tabs : sessions'[answer[x].cookie] = sessions[answer[x].cookie]
    BY <1>a, <1>n
  <1>1. ASSUME NEW k, k # NoToken, TokenStays(k)
        PROVE  TokenStays(k)'
    <2>1. HasToken(cookie, k)
      BY <1>1 DEF TokenStays
    <2>2. HasToken(cookie, k)' /\ (InTime(t)' => HasToken(a.cookie, k)')
      BY <1>1, <1>t, <2>1, HandledSession
    <2>3. \A x \in Tabs \ {t} : InTime(x)' => HasToken(answer[x].cookie, k)' /\ answer'[x] = answer[x]
      <3>1. TAKE x \in Tabs \ {t}
      <3>2. HAVE InTime(x)'
      <3>3. InTime(x) /\ answer'[x] = answer[x] /\ HasToken(answer[x].cookie, k)
        BY <1>1, <1>h, <3>2 DEF Kept, TokenStays
      <3>4. CASE Found(t)
        BY <1>a, <1>h, <2>2, <3>3, <3>4 DEF HasToken, Live
      <3>5. CASE ~Found(t)
        BY <1>o, <3>3, <3>5 DEF HasToken, Live
      <3>6. QED
        BY <3>4, <3>5
    <2>4. QED
      BY <1>h, <2>2, <2>3 DEF TokenStays, HasToken, Live
  <1>2. ASSUME NEW k, k # Nobody, UserStays(k)
        PROVE  UserStays(k)'
    <2>1. HasUser(cookie, k)
      BY <1>2 DEF UserStays
    <2>2. HasUser(cookie, k)' /\ (InTime(t)' => HasUser(a.cookie, k)')
      BY <1>2, <1>t, <2>1, HandledSession
    <2>3. \A x \in Tabs \ {t} : InTime(x)' => HasUser(answer[x].cookie, k)' /\ answer'[x] = answer[x]
      <3>1. TAKE x \in Tabs \ {t}
      <3>2. HAVE InTime(x)'
      <3>3. InTime(x) /\ answer'[x] = answer[x] /\ HasUser(answer[x].cookie, k)
        BY <1>2, <1>h, <3>2 DEF Kept, UserStays
      <3>4. CASE Found(t)
        BY <1>a, <1>h, <2>2, <3>3, <3>4 DEF HasUser, Live
      <3>5. CASE ~Found(t)
        BY <1>o, <3>3, <3>5 DEF HasUser, Live
      <3>6. QED
        BY <3>4, <3>5
    <2>4. QED
      BY <1>h, <2>2, <2>3 DEF UserStays, HasUser, Live
  <1>3. QED
    BY <1>1, <1>2

\* And one that is gone does not come back; a logout takes the session's away.
LEMMA HandledGone ==
  ASSUME SessionTypeOK, AllMade, AllMade', NEW t \in Tabs, NEW table, NEW a,
         HandlerDid(t, table, a), made' \in Numbers, Legs(t),
         KeepApart, a.sets => ~Overtaken(t), NEW s \in Tabs, NEW k, k = csrfToken[s], k # NoToken,
         TokenGone(k) \/ (a.sets /\ a.cookie = NoCookie)
  PROVE  TokenGone(k)'
  <1>h. /\ sessions' = table /\ cookie' = cookie /\ answer'[t] = a /\ sent'[t] = sent[t]
        /\ (Brings(t)' <=> a.sets)
        /\ \A x \in Tabs \ {t} : Kept(x) /\ InTime(x)' = InTime(x)
    BY HandledIs
  <1>a. /\ Found(t) => sent[t] = cookie /\ sessions[cookie] = held[t]
                       /\ \A x \in Tabs : InTime(x) => answer[x].cookie = cookie
        /\ \A i \in Numbers : i # sent[t] /\ i # made + 1 => sessions'[i] = sessions[i]
        /\ ~Found(t) => sessions'[sent[t]] = sessions[sent[t]]
    BY HandledApart
  <1>i. /\ made' \in {made, made + 1}
        /\ table[sent[t]].csrf \in {sessions[sent[t]].csrf, held[t].csrf, NoToken, made + 1}
        /\ made' # made => \/ table[made + 1] = sessions[made + 1]
                           \/ /\ table[made + 1].is = "live"
                              /\ table[made + 1].csrf \in {held[t].csrf, made + 1}
        /\ a.cookie \in {NoCookie, sent[t], made + 1} /\ (a.cookie = made + 1 => made' = made + 1)
        /\ made + 1 # made
    <2>1. HandlerDoes(t, table, a)
      BY DEF HandlerDid
    <2>2. QED
      BY <2>1, HandlesIs
  <1>n. /\ \A x \in Tabs : answer[x].cookie # made + 1 /\ answer[x].cookie \in Numbers
        /\ k # made + 1 /\ cookie # made + 1 /\ cookie \in Numbers
    <2>1. \A x \in Tabs : /\ answer[x].cookie \in Nat /\ answer[x].cookie <= made
                          /\ answer[x].cookie \in Numbers
      BY Points DEF AllMade
    <2>2. /\ made \in Nat /\ cookie \in Nat /\ cookie <= made /\ cookie \in Numbers
          /\ csrfToken[s] \in Nat /\ csrfToken[s] <= made
      BY Points, Typed DEF TableTyped, AllMade
    <2>3. QED
      BY <2>1, <2>2
  <1>z. sessions'[NoCookie].csrf = NoToken
    BY DEF AllMade, NoRow
  <1>1. CASE a.sets /\ a.cookie = NoCookie
    <2>1. SessionEnded(t, table, a)
      <3>1. Found(t) => sent[t] # NoCookie
        BY DEF Legs, Found, NoRow
      <3>2. made + 1 # NoCookie
        BY Points
      <3>3. QED
        BY <1>1, <3>1, <3>2
           DEF HandlerDid, HandlerDoes, SessionKept, NoSession, TokenGiven, SessionMade, SessionRenewed
    <2>2. Found(t) /\ sessions'[cookie].csrf = NoToken
      BY <1>a, <1>h, <2>1 DEF SessionEnded, NoRow
    <2>3. \A x \in Tabs : InTime(x)' => answer'[x].cookie \in {cookie, NoCookie}
      BY <1>1, <1>a, <1>h, <2>2 DEF Kept
    <2>4. QED
      BY <1>h, <1>z, <2>2, <2>3 DEF TokenGone
  <1>2. CASE TokenGone(k)
    <2>1. sessions[cookie].csrf # k /\ \A x \in Tabs : InTime(x) => sessions[answer[x].cookie].csrf # k
      BY <1>2 DEF TokenGone
    <2>2. sessions'[cookie].csrf # k
      <3>1. CASE Found(t)
        BY <1>a, <1>h, <1>i, <1>n, <2>1, <3>1
      <3>2. CASE ~Found(t)
        BY <1>a, <1>n, <2>1, <3>2
      <3>3. QED
        BY <3>1, <3>2
    <2>3. \A x \in Tabs \ {t} : InTime(x)' => sessions'[answer'[x].cookie].csrf # k
      <3>1. TAKE x \in Tabs \ {t}
      <3>2. HAVE InTime(x)'
      <3>3. InTime(x) /\ answer'[x] = answer[x]
        BY <1>h, <3>2 DEF Kept
      <3>4. CASE Found(t)
        BY <1>a, <2>2, <3>3, <3>4
      <3>5. CASE ~Found(t)
        BY <1>a, <1>n, <2>1, <3>3, <3>5
      <3>6. QED
        BY <3>4, <3>5
    <2>4. InTime(t)' => sessions'[a.cookie].csrf # k
      <3>1. HAVE InTime(t)'
      <3>2. sent[t] = cookie
        BY <1>h, <3>1 DEF InTime
      <3>3. CASE a.cookie = made + 1
        <4>1. held[t].csrf # k
          <5>1. CASE Found(t)
            BY <1>a, <2>1, <5>1
          <5>2. CASE ~Found(t)
            BY <5>2, NotFound
          <5>3. QED
            BY <5>1, <5>2
        <4>2. sessions[made + 1].csrf # k
          <5>1. made + 1 \in Numbers /\ made \in Nat
            BY <1>i, <3>3, Points
          <5>2. ~(made + 1 <= made)
            BY <5>1
          <5>3. sessions[made + 1].is # "live"
            BY <5>1, <5>2 DEF AllMade
          <5>4. sessions[made + 1].csrf = NoToken
            BY <5>1, <5>3 DEF AllMade
          <5>5. QED
            BY <5>4
        <4>3. QED
          BY <1>h, <1>i, <1>n, <3>3, <4>1, <4>2
      <3>4. CASE a.cookie # made + 1
        BY <1>i, <1>z, <2>2, <3>2, <3>4
      <3>5. QED
        BY <3>3, <3>4
    <2>5. QED
      BY <1>h, <2>2, <2>3, <2>4 DEF TokenGone
  <1>3. QED
    BY <1>1, <1>2

\* What the tabs know of the session they still do.
LEMMA HandledSorted ==
  ASSUME SessionTypeOK, AllMade, AllMade', NEW t \in Tabs, NEW table, NEW a,
         HandlerDid(t, table, a), made' \in Numbers, Legs(t), NEW s \in Tabs, Agreed(s)
  PROVE  Agreed(s)'
  <1>h. /\ sessions' = table /\ cookie' = cookie /\ csrfToken' = csrfToken /\ user' = user
        /\ answer'[t] = a /\ sent'[t] = sent[t] /\ Flying(t)' /\ (Brings(t)' <=> a.sets)
        /\ \A x \in Tabs \ {t} : Kept(x) /\ Flying(x)' = Flying(x) /\ InTime(x)' = InTime(x)
        /\ past'[s] = CASE a.sets /\ Overtaken(t) -> "mixed"
                        [] a.sets /\ ~Overtaken(t) /\ a.cookie = NoCookie ->
                             IF past[s] = "calm" THEN "stale" ELSE past[s]
                        [] OTHER -> past[s]
    BY HandledIs
  <1>1. CASE past'[s] = "mixed"
    BY <1>1 DEF Agreed
  <1>2. CASE past'[s] # "mixed"
    <2>1. /\ a.sets => ~Overtaken(t)
          /\ past[s] # "mixed" /\ (past'[s] = "calm" => past[s] = "calm" /\ ~(a.sets /\ a.cookie = NoCookie))
          /\ past'[s] = "stale" => past[s] = "stale" \/ (a.sets /\ a.cookie = NoCookie)
      BY <1>h, <1>2
    <2>2. KeepApart
      BY <2>1, SortedIs
    <2>a. /\ KeepApart'
          /\ Found(t) => sent[t] = cookie /\ sessions[cookie] = held[t] /\ Live(cookie)
                         /\ \A x \in Tabs : InTime(x) => answer[x].cookie = cookie
      BY <2>1, <2>2, HandledApart
    <2>k. PICK k, u, l, v : /\ k = csrfToken[s] /\ u = user[s]
                            /\ l = answer'[s].token /\ v = answer'[s].user
      OBVIOUS
    <2>3. past'[s] = "stale" /\ k # NoToken => TokenGone(k)'
      <3>1. HAVE past'[s] = "stale" /\ k # NoToken
      <3>2. TokenGone(k) \/ (a.sets /\ a.cookie = NoCookie)
        BY <2>1, <2>k, <3>1, SortedIs
      <3>3. QED
        BY <2>1, <2>2, <2>k, <3>1, <3>2, HandledGone
    <2>4. past'[s] = "calm" => (k # NoToken => TokenStays(k)') /\ (u # Nobody => UserStays(u)')
      BY <2>1, <2>2, <2>k, HandledStays, SortedIs
    <2>5. past'[s] = "calm" =>
            /\ l # NoToken /\ HasTold(s)' => TokenStays(l)'
            /\ v # Nobody /\ HasTold(s)' => UserStays(v)'
      <3>1. HAVE past'[s] = "calm"
      <3>2. CASE s # t
        <4>1. answer'[s] = answer[s] /\ HasTold(s)' = HasTold(s)
          BY <1>h, <3>2 DEF Kept, HasTold
        <4>2. /\ l # NoToken /\ HasTold(s) => TokenStays(l)
              /\ v # Nobody /\ HasTold(s) => UserStays(v)
          BY <2>1, <2>k, <3>1, <4>1, SortedIs
        <4>3. QED
          BY <2>1, <2>2, <3>1, <4>1, <4>2, HandledStays
      <3>3. CASE s = t /\ HasTold(t)'
        <4>1. a.sets /\ sent[t] = cookie /\ a.cookie = cookie
          BY <1>h, <3>3 DEF HasTold, InTime
        <4>n. cookie # made + 1
          <5>1. cookie \in Nat /\ made \in Nat /\ cookie <= made
            BY Points DEF AllMade
          <5>2. QED
            BY <5>1
        <4>2. /\ SessionKept(t, table, a) \/ TokenGiven(t, table, a)
              /\ Found(t)
          BY <2>1, <3>1, <4>1, <4>n
             DEF HandlerDid, HandlerDoes, SessionKept, NoSession, TokenGiven, SessionMade,
                 SessionRenewed, SessionEnded
        <4>3. \A x \in Tabs : InTime(x)' => answer'[x].cookie = cookie
          BY <1>h, <2>a, <4>1, <4>2 DEF Kept
        <4>4. l # NoToken => sessions'[cookie].is = "live" /\ sessions'[cookie].csrf = l
          BY <1>h, <2>k, <3>3, <4>1, <4>2 DEF SessionKept, TokenGiven
        <4>5. v # Nobody => sessions'[cookie].is = "live" /\ sessions'[cookie].user = v
          BY <1>h, <2>k, <3>3, <4>1, <4>2 DEF SessionKept, TokenGiven, Found
        <4>6. l # NoToken => TokenStays(l)'
          BY <1>h, <4>3, <4>4 DEF TokenStays, HasToken, Live
        <4>7. v # Nobody => UserStays(v)'
          BY <1>h, <4>3, <4>5 DEF UserStays, HasUser, Live
        <4>8. QED
          BY <3>3, <4>6, <4>7
      <3>4. QED
        BY <3>2, <3>3
    <2>6. QED
      BY <1>h, <2>k, <2>a, <2>3, <2>4, <2>5, SortedBy
  <1>3. QED
    BY <1>1, <1>2

\* The rest of the invariant of one tab.
TabInv(t) ==
  /\ Steps(t) /\ Legs(t) /\ Telling(t) /\ Fresh(t)
  /\ Private(t) /\ Calm(t) /\ Landing(t) /\ Agreed(t)

\* The invariant, part by part.
LEMMA SessionParts ==
  /\ SessionInv <=> SessionTypeOK /\ AllMade /\ \A t \in Tabs : TabInv(t)
  /\ SessionInv' <=> SessionTypeOK' /\ AllMade' /\ \A t \in Tabs : TabInv(t)'
  BY DEF SessionInv, TabInv

\* What a tab was told of a login stays true while another one goes on.
LEMMA LandingKept ==
  ASSUME NEW s \in Tabs, Kept(s), sessions' = sessions, cookie' = cookie, upset'[s] = upset[s], Landing(s)
  PROVE  Landing(s)'
  <1>1. Brings(s)' = Brings(s)
    BY KeptIs
  <1>2. QED
    BY <1>1 DEF Landing, LoggedIn, Kept

\* A step of a tab's script.
LEMMA ScriptKeeps ==
  ASSUME SessionInv, SessionTypeOK', NEW t \in Tabs, Act(t) \/ Continue(t), ~Receive(t)
  PROVE  SessionInv'
  <1>1. SessionTypeOK /\ AllMade /\ \A s \in Tabs : TabInv(s)
    BY SessionParts
  <1>2. \A s \in Tabs : /\ Steps(s) /\ Legs(s) /\ Telling(s) /\ Fresh(s)
                        /\ Private(s) /\ Calm(s) /\ Landing(s) /\ Agreed(s)
    BY <1>1 DEF TabInv
  <1>3. TabMoves(t)
    BY <1>1, <1>2, ScriptMoves
  <1>4. Scripted(t) /\ Steps(t)' /\ Landing(t)'
    BY <1>3 DEF TabMoves
  <1>5. AllMade'
    BY <1>1, <1>4, ScriptCounted
  <1>6. ASSUME NEW s \in Tabs
        PROVE  TabInv(s)'
    <2>1. Legs(s)' /\ Telling(s)' /\ Fresh(s)' /\ Private(s)' /\ Calm(s)'
      BY <1>1, <1>2, <1>4, ScriptRequests
    <2>2. Agreed(s)'
      BY <1>1, <1>2, <1>4, ScriptSorted
    <2>3. Steps(s)' /\ Landing(s)'
      <3>1. CASE s = t
        BY <1>4, <3>1
      <3>2. CASE s # t
        <4>1. Kept(s) /\ upset'[s] = upset[s] /\ sessions' = sessions /\ cookie' = cookie
          BY <1>4, <3>2, ScriptIs
        <4>2. QED
          BY <1>2, <4>1, KeptIs, LandingKept
      <3>3. QED
        BY <3>1, <3>2
    <2>4. QED
      BY <2>1, <2>2, <2>3 DEF TabInv
  <1>7. QED
    BY <1>5, <1>6, SessionParts

\* A request that is loaded or lost, or the answer that is received.
LEMMA RequestKeeps ==
  ASSUME SessionInv, SessionTypeOK', NEW t \in Tabs, Load(t) \/ Lose(t) \/ Receive(t)
  PROVE  SessionInv'
  <1>1. SessionTypeOK /\ AllMade /\ \A s \in Tabs : TabInv(s)
    BY SessionParts
  <1>2. \A s \in Tabs : /\ Steps(s) /\ Legs(s) /\ Telling(s) /\ Fresh(s)
                        /\ Private(s) /\ Calm(s) /\ Landing(s) /\ Agreed(s)
    BY <1>1 DEF TabInv
  <1>3. CASE Load(t) \/ Lose(t)
    <2>1. Idles(t)
      BY <1>1, <1>3, LoadQuiet, LoseQuiet
    <2>2. AllMade'
      BY <1>1, <1>2, <2>1, QuietCounted
    <2>3. ASSUME NEW s \in Tabs
          PROVE  TabInv(s)'
      <3>1. /\ Steps(s)' /\ Legs(s)' /\ Telling(s)' /\ Fresh(s)' /\ Private(s)'
            /\ Calm(s)' /\ Landing(s)'
        BY <1>1, <1>2, <2>1, QuietRequests
      <3>2. Agreed(s)'
        BY <1>1, <1>2, <2>1, QuietSorted
      <3>3. QED
        BY <3>1, <3>2 DEF TabInv
    <2>4. QED
      BY <2>2, <2>3, SessionParts
  <1>4. CASE Receive(t)
    <2>1. AllMade'
      BY <1>1, <1>4, ReceiveCounted
    <2>2. ASSUME NEW s \in Tabs
          PROVE  TabInv(s)'
      <3>1. /\ Steps(s)' /\ Legs(s)' /\ Telling(s)' /\ Fresh(s)' /\ Private(s)'
            /\ Calm(s)' /\ Landing(s)'
        BY <1>1, <1>2, <1>4, ReceiveRequests
      <3>2. Agreed(s)'
        BY <1>1, <1>2, <1>4, ReceiveSorted
      <3>3. QED
        BY <3>1, <3>2 DEF TabInv
    <2>3. QED
      BY <2>1, <2>2, SessionParts
  <1>5. QED
    BY <1>3, <1>4

\* A handler.
LEMMA HandlerKeeps ==
  ASSUME SessionInv, SessionTypeOK', NEW t \in Tabs, Serve(t), ~Load(t)
  PROVE  SessionInv'
  <1>1. SessionTypeOK /\ AllMade /\ \A s \in Tabs : TabInv(s)
    BY SessionParts
  <1>2. \A s \in Tabs : /\ Steps(s) /\ Legs(s) /\ Telling(s) /\ Fresh(s)
                        /\ Private(s) /\ Calm(s) /\ Landing(s) /\ Agreed(s)
    BY <1>1 DEF TabInv
  <1>3. PICK table, a : HandlerDid(t, table, a) /\ made' \in Numbers
    BY <1>1, <1>2, ServeHandles
  <1>4. AllMade'
    BY <1>1, <1>2, <1>3, HandledCounted
  <1>5. ASSUME NEW s \in Tabs
        PROVE  TabInv(s)'
    <2>1. /\ Steps(s)' /\ Legs(s)' /\ Telling(s)' /\ Fresh(s)' /\ Private(s)'
          /\ Calm(s)' /\ Landing(s)'
      <3>1. CASE s = t
        BY <1>1, <1>2, <1>3, <3>1, HandledOwn
      <3>2. CASE s # t
        <4>1. s \in Tabs \ {t} /\ Legs(t)
          BY <1>2, <3>2
        <4>2. /\ Steps(s) /\ Legs(s) /\ Telling(s) /\ Fresh(s)
              /\ Private(s) /\ Calm(s) /\ Landing(s)
          BY <1>2
        <4>3. QED
          BY <1>1, <1>3, <4>1, <4>2, HandledOthers
      <3>3. QED
        BY <3>1, <3>2
    <2>2. Agreed(s)'
      BY <1>1, <1>2, <1>3, <1>4, HandledSorted
    <2>3. QED
      BY <2>1, <2>2 DEF TabInv
  <1>6. QED
    BY <1>4, <1>5, SessionParts

\* The end of a session by time.
LEMMA ExpireKeeps ==
  ASSUME SessionInv, SessionTypeOK', Expire
  PROVE  SessionInv'
  <1>1. SessionTypeOK /\ AllMade /\ \A s \in Tabs : TabInv(s)
    BY SessionParts
  <1>2. \A s \in Tabs : /\ Steps(s) /\ Legs(s) /\ Telling(s) /\ Fresh(s)
                        /\ Private(s) /\ Calm(s) /\ Landing(s) /\ Agreed(s)
    BY <1>1 DEF TabInv
  <1>3. AllMade'
    BY <1>1, ExpireCounted
  <1>4. ASSUME NEW s \in Tabs
        PROVE  TabInv(s)'
    <2>1. /\ Steps(s)' /\ Legs(s)' /\ Telling(s)' /\ Fresh(s)' /\ Private(s)'
          /\ Calm(s)' /\ Landing(s)'
      BY <1>1, <1>2, ExpireRequests
    <2>2. Agreed(s)'
      BY <1>1, <1>2, ExpireSorted
    <2>3. QED
      BY <2>1, <2>2 DEF TabInv
  <1>5. QED
    BY <1>3, <1>4, SessionParts

\* Every step keeps the invariant.
LEMMA SessionGoesOn ==
  ASSUME SessionInv, SessionNext
  PROVE  SessionInv'
  <1>1. SessionTypeOK'
    <2>1. SessionTypeOK /\ AllMade /\ \A s \in Tabs : Steps(s) /\ Legs(s)
      BY SessionParts DEF TabInv
    <2>2. QED
      BY <2>1, NextTypes
  <1>2. CASE Expire
    BY <1>1, <1>2, ExpireKeeps
  <1>3. ASSUME NEW t \in Tabs, Act(t) \/ Serve(t) \/ Lose(t) \/ Continue(t)
        PROVE  SessionInv'
    <2>1. CASE (Act(t) \/ Continue(t)) /\ ~Receive(t)
      BY <1>1, <2>1, ScriptKeeps
    <2>2. CASE Load(t) \/ Lose(t) \/ Receive(t)
      BY <1>1, <2>2, RequestKeeps
    <2>3. CASE Serve(t) /\ ~Load(t)
      BY <1>1, <2>3, HandlerKeeps
    <2>4. QED
      BY <1>3, <2>1, <2>2, <2>3
  <1>4. QED
    BY <1>2, <1>3 DEF SessionNext

\* At the beginning nobody has asked for anything.
LEMMA SessionStarts ==
  ASSUME SessionInit
  PROVE  SessionInv
  <1>1. /\ 0 \in Numbers /\ NoToken = 0 /\ NoCookie = 0 /\ NoRow \in Row /\ NoAnswer \in Answer
        /\ NoRow.is = "over" /\ NoRow.csrf = NoToken /\ NoAnswer.status = "none"
        /\ NoAnswer.token = NoToken /\ NoAnswer.user = Nobody /\ NoAnswer.cookie = NoCookie
        /\ ~NoAnswer.sets
    <2>1. NoRow \in Row
      BY NumbersAre DEF NoRow, Row, NoToken
    <2>2. QED
      BY <2>1, NumbersAre, RowsMade, Answers
  <1>2. /\ sessions = [i \in Numbers |-> NoRow] /\ made = 0 /\ cookie = 0
        /\ \A t \in Tabs : /\ csrfToken[t] = 0 /\ user[t] = Nobody /\ loaded[t] = FALSE
                           /\ upset[t] = FALSE /\ loading[t] = FALSE
                           /\ op[t] = "none" /\ at[t] = "none" /\ leg[t] = "none"
                           /\ sent[t] = 0 /\ held[t] = NoRow /\ answer[t] = NoAnswer
    BY <1>1 DEF SessionInit
  <1>3. SessionTypeOK
    <2>1. TableTyped /\ TokenTyped
      BY <1>1 DEF SessionInit, TableTyped, TokenTyped
    <2>2. StoreTyped
      BY DEF SessionInit, StoreTyped
    <2>3. RequestTyped
      BY <1>1 DEF SessionInit, RequestTyped, Ops
    <2>4. PastTyped /\ UpsetTyped
      BY DEF SessionInit, PastTyped, UpsetTyped
    <2>5. spent \in 0 .. Budget
      BY SessionAssumption DEF SessionInit
    <2>6. QED
      BY <2>1, <2>2, <2>3, <2>4, <2>5, Typed
  <1>4. AllMade
    <2>1. \A i \in Numbers : sessions[i] = NoRow
      BY <1>2
    <2>2. sessions[NoCookie] = NoRow /\ cookie <= made
      BY <1>1, <1>2, <2>1
    <2>3. \A i \in Numbers : /\ sessions[i].csrf <= made
                             /\ sessions[i].is # "over" => i <= made
                             /\ sessions[i].is # "live" => sessions[i].csrf = NoToken
      BY <1>1, <1>2, <2>1
    <2>4. \A t \in Tabs : /\ csrfToken[t] <= made /\ answer[t].token <= made
                          /\ held[t].csrf <= made /\ sent[t] <= made /\ answer[t].cookie <= made
      BY <1>1, <1>2
    <2>5. QED
      BY <2>2, <2>3, <2>4 DEF AllMade
  <1>5. ASSUME NEW t \in Tabs
        PROVE  TabInv(t)
    <2>1. \A s \in Tabs : ~Flying(s) /\ ~Brings(s) /\ ~BringsNew(s) /\ ~InTime(s)
      BY <1>2 DEF Flying, Brings, BringsNew, InTime
    <2>2. Steps(t) /\ Legs(t)
      BY <1>1, <1>2, <2>1 DEF Steps, Legs
    <2>3. Telling(t) /\ Fresh(t) /\ Private(t) /\ Calm(t)
      BY <1>1, <1>2, <2>1 DEF Telling, Fresh, Private, Calm
    <2>4. Landing(t)
      BY <1>2 DEF Landing
    <2>5. Agreed(t)
      BY <1>1, <1>2, <2>1 DEF Agreed, KeepApart
    <2>6. QED
      BY <2>2, <2>3, <2>4, <2>5 DEF TabInv
  <1>6. QED
    BY <1>3, <1>4, <1>5, SessionParts

\* A step that changes nothing.
LEMMA SessionStays ==
  ASSUME SessionInv, UNCHANGED sessionVars
  PROVE  SessionInv'
  <1>1. /\ sessions' = sessions /\ made' = made /\ cookie' = cookie /\ csrfToken' = csrfToken
        /\ user' = user /\ loaded' = loaded /\ page' = page /\ loading' = loading
        /\ op' = op /\ as' = as /\ at' = at /\ leg' = leg /\ sent' = sent /\ held' = held
        /\ answer' = answer /\ spent' = spent /\ past' = past /\ upset' = upset
    BY DEF sessionVars, tableVars, storeVars, requestVars, histVars
  <1>2. SessionTypeOK' = SessionTypeOK
    BY <1>1 DEF SessionTypeOK
  <1>3. AllMade' = AllMade
    BY <1>1 DEF AllMade
  <1>4. ASSUME NEW t \in Tabs
        PROVE  TabInv(t)' = TabInv(t)
    <2>1. /\ Steps(t)' = Steps(t) /\ Legs(t)' = Legs(t) /\ Telling(t)' = Telling(t)
          /\ Fresh(t)' = Fresh(t) /\ Private(t)' = Private(t)
      BY <1>1 DEF Steps, Legs, Found, Telling, Fresh, Private, Flying, Brings, BringsNew, Live
    <2>2. Calm(t)' = Calm(t) /\ Landing(t)' = Landing(t)
      BY <1>1 DEF Calm, Landing, Flying, Brings, Live, LoggedIn
    <2>3. Agreed(t)' = Agreed(t)
      BY <1>1 DEF Agreed, KeepApart, TokenStays, UserStays, TokenGone, HasToken, HasUser, HasTold,
                  Flying, Brings, InTime, Live
    <2>4. QED
      BY <2>1, <2>2, <2>3 DEF TabInv
  <1>5. QED
    BY <1>2, <1>3, <1>4, SessionParts

\* The invariant of the sessions.
LEMMA SessionInvariant == SessionSpec => []SessionInv
  <1>1. SessionInit => SessionInv
    BY SessionStarts
  <1>2. SessionInv /\ [SessionNext]_sessionVars => SessionInv'
    BY SessionGoesOn, SessionStays
  <1>3. QED
    BY <1>1, <1>2, PTL DEF SessionSpec

\* For any number of tabs and accounts: a write or a logout is refused for its
\* token only in a tab that was open when a session ended, or when requests of
\* several tabs got into each other's way; else never (csrf.go, client.ts).
THEOREM SessionIsSafe == SessionSpec => []SessionSafe
  <1>1. SessionInv => SessionSafe
    BY DEF SessionInv, SessionSafe, RefusalExplained, Telling
  <1>2. QED
    BY <1>1, SessionInvariant, PTL

\* A write that is carried out, is so by the session of the cookie, with the
\* token of the tab.
LEMMA WriteFinds ==
  ASSUME SessionTypeOK, NEW t \in Tabs, Legs(t), ServeWrite(t)
  PROVE  /\ Found(t) /\ Flying(t) /\ held[t].csrf = csrfToken[t] /\ csrfToken[t] # NoToken
         /\ sent[t] # NoCookie
         /\ past'[t] = "mixed" \/ (past'[t] = past[t] /\ sessions[sent[t]] = held[t])
  <1>1. leg[t] = "loaded" /\ Refusal(t) = {} /\ AnsweredOnly(t, Reply("ok"))
    BY DEF ServeWrite, Asked
  <1>2. held[t].user # Nobody /\ held[t].csrf = csrfToken[t] /\ csrfToken[t] # NoToken
    BY <1>1 DEF Refusal
  <1>3. Found(t) /\ sent[t] # NoCookie
    BY <1>2, NotFound DEF Legs, NoRow
  <1>4. PICK a : /\ a = WithCookie(Reply("ok"), sent[t])
                 /\ Answered(t, [sessions EXCEPT ![sent[t]] = held[t]], a)
    BY <1>1, <1>3 DEF AnsweredOnly
  <1>5. a.cookie = sent[t]
    <2>1. Reply("ok") \in Answer /\ sent[t] \in Numbers
      BY Answers, NextTyped
    <2>2. QED
      BY <1>4, <2>1, CookieAnswers
  <1>6. past' = Mixed \/ (past' = past /\ ~Overtaken(t)) \/ (past' = past /\ ~a.sets)
    BY <1>3, <1>4, <1>5 DEF Answered
  <1>7. a.sets
    BY <1>4, Answers, CookieAnswers, NextTyped
  <1>8. past'[t] = "mixed" \/ (past'[t] = past[t] /\ ~Overtaken(t))
    BY <1>6, <1>7 DEF Mixed
  <1>9. QED
    BY <1>1, <1>2, <1>3, <1>8 DEF Flying, Overtaken

\* For any number of tabs and accounts: a write is carried out as the user the tab
\* shows, but for the three exceptions the property names (csrfMiddleware).
THEOREM WrittenIsShown == SessionSpec => WrittenAsShown
  <1>1. ASSUME SessionInv, NEW t \in Tabs, ServeWrite(t)
        PROVE  user[t] \in {Nobody, held[t].user} \/ held[t].twice
               \/ past'[t] \in {"late", "mixed"}
    <2>1. SessionTypeOK /\ Legs(t) /\ Agreed(t)
      BY <1>1 DEF SessionInv
    <2>2. /\ Found(t) /\ Flying(t) /\ held[t].csrf = csrfToken[t] /\ csrfToken[t] # NoToken
          /\ sent[t] # NoCookie
          /\ past'[t] = "mixed" \/ (past'[t] = past[t] /\ sessions[sent[t]] = held[t])
      BY <1>1, <2>1, WriteFinds
    <2>3. CASE past'[t] = past[t] /\ sessions[sent[t]] = held[t] /\ past[t] \in {"calm", "stale"}
      <3>1. /\ KeepApart
            /\ past[t] = "calm" /\ user[t] # Nobody => UserStays(user[t])
            /\ past[t] = "stale" => TokenGone(csrfToken[t])
        BY <2>1, <2>2, <2>3, SortedIs
      <3>2. sent[t] = cookie /\ sessions[cookie] = held[t]
        BY <2>2, <2>3, <3>1 DEF KeepApart, Live, Found
      <3>3. past[t] # "stale"
        BY <2>2, <3>1, <3>2 DEF TokenGone
      <3>4. user[t] # Nobody => HasUser(cookie, user[t])
        BY <2>3, <3>1, <3>3 DEF UserStays
      <3>5. QED
        BY <2>2, <3>2, <3>4 DEF HasUser, Live, Found
    <2>4. CASE past'[t] = past[t] /\ past[t] \in {"late", "mixed"}
      BY <2>4
    <2>5. past[t] \in {"calm", "stale", "late", "mixed"}
      BY <2>1, Points
    <2>6. QED
      BY <2>2, <2>3, <2>4, <2>5
  <1>2. SessionInv => [\A t \in Tabs :
          ServeWrite(t) =>
            user[t] \in {Nobody, held[t].user} \/ held[t].twice
            \/ past'[t] \in {"late", "mixed"}]_sessionVars
    BY <1>1
  <1>3. QED
    BY <1>2, SessionInvariant, PTL DEF WrittenAsShown

\* A login that nobody disturbed gets its user in.
LEMMA GuardLands ==
  ASSUME SessionInv, NEW t \in Tabs, GuardDone(t), user[t] # Nobody
  PROVE  page'[t] = "app" \/ upset[t]
  <1>1. SessionTypeOK /\ Landing(t)
    BY DEF SessionInv
  <1>2. op[t] = "guard" /\ leg[t] = "received"
    BY DEF GuardDone, Arrives
  <1>3. ASSUME ~upset[t]
        PROVE  answer[t].status = "ok" /\ answer[t].user # Nobody
    BY <1>1, <1>2, <1>3 DEF Landing
  <1>4. ASSUME ~upset[t]
        PROVE  page'[t] = "app"
    <2>1. Go(t, "app")
      BY <1>3, <1>4 DEF GuardDone
    <2>2. QED
      BY <1>1, <2>1, GoKeeps
  <1>5. QED
    BY <1>4

\* How much of a login is to come, of another request or leg.
LEMMA Coming ==
  ASSUME NEW t \in Tabs
  PROVE  /\ at[t] = "csrf" /\ leg[t] = "received" => ToCome(t) = 8
         /\ at[t] = "post" /\ leg[t] = "received" => ToCome(t) = 4
         /\ at'[t] = "post" /\ leg'[t] = "sent" => ToCome(t)' = 7
         /\ at'[t] = "me" /\ leg'[t] = "sent" => ToCome(t)' = 3
         /\ /\ at'[t] = at[t]
            /\ \/ leg[t] = "sent" /\ leg'[t] \in {"loaded", "received"}
               \/ leg[t] = "loaded" /\ leg'[t] = "answered"
               \/ leg[t] = "answered" /\ leg'[t] = "received"
            => ToCome(t)' < ToCome(t)
  <1>1. PICK n \in {0, 1, 2} : n = CASE at[t] = "csrf" -> 2 [] at[t] = "post" -> 1 [] OTHER -> 0
    OBVIOUS
  <1>2. PICK m \in {0, 1, 2, 3} : m = CASE leg[t] = "sent" -> 3 [] leg[t] = "loaded" -> 2
                                       [] leg[t] = "answered" -> 1 [] OTHER -> 0
    OBVIOUS
  <1>3. PICK n1 \in {0, 1, 2} :
          n1 = CASE at'[t] = "csrf" -> 2 [] at'[t] = "post" -> 1 [] OTHER -> 0
    OBVIOUS
  <1>4. PICK m1 \in {0, 1, 2, 3} :
          m1 = CASE leg'[t] = "sent" -> 3 [] leg'[t] = "loaded" -> 2
                 [] leg'[t] = "answered" -> 1 [] OTHER -> 0
    OBVIOUS
  <1>5. ToCome(t) = 4 * n + m /\ ToCome(t)' = 4 * n1 + m1
    BY <1>1, <1>2, <1>3, <1>4 DEF ToCome
  <1>6. /\ at[t] = "csrf" => n = 2
        /\ at[t] = "post" => n = 1
        /\ at'[t] = "post" => n1 = 1
        /\ at'[t] = "me" => n1 = 0
        /\ at'[t] = at[t] => n1 = n
    BY <1>1, <1>3
  <1>7. /\ leg[t] = "received" => m = 0
        /\ leg[t] = "sent" => m = 3
        /\ leg[t] = "loaded" => m = 2
        /\ leg[t] = "answered" => m = 1
        /\ leg'[t] = "sent" => m1 = 3
        /\ leg'[t] = "loaded" => m1 = 2
        /\ leg'[t] = "answered" => m1 = 1
        /\ leg'[t] = "received" => m1 = 0
    BY <1>2, <1>4
  <1>8. QED
    BY <1>5, <1>6, <1>7

\* A step frees the login form, or leaves less of its login to come.
ComesBack(t) ==
  loading'[t] => \/ at'[t] = at[t] /\ leg'[t] = leg[t]
              \/ ToCome(t)' < ToCome(t)

\* So does an answer that goes to a waiting form.
LEMMA AnswerComesBack ==
  ASSUME SessionTypeOK, NEW t \in Tabs, op[t] = "login", Continue(t), ~Receive(t)
  PROVE  ComesBack(t)
  <1>0. leg[t] = "received" /\ ~Flying(t)
    BY DEF Continue, TokenArrives, PostArrives, LoginDone, GuardDone, Arrives, Flying
  <1>f. Fails(t) => loading'[t] = FALSE
    BY Typed DEF Fails, StoreTyped
  <1>o. "login" \in Ops \ {"none"}
    BY DEF Ops
  <1>1. CASE TokenArrives(t)
    <2>1. at[t] = "csrf" /\ (Fails(t) \/ Send(t, "login", "post"))
      BY <1>1 DEF TokenArrives, Arrives
    <2>2. CASE Send(t, "login", "post")
      <3>1. at'[t] = "post" /\ leg'[t] = "sent"
        BY <1>0, <1>o, <2>2, SendKeeps DEF Asked2
      <3>2. ToCome(t) = 8 /\ ToCome(t)' = 7
        BY <1>0, <2>1, <3>1, Coming
      <3>3. QED
        BY <3>2 DEF ComesBack
    <2>3. QED
      BY <1>f, <2>1, <2>2 DEF ComesBack
  <1>2. CASE PostArrives(t)
    <2>1. at[t] = "post" /\ (Fails(t) \/ Send(t, "login", "me"))
      BY <1>2 DEF PostArrives, Arrives
    <2>2. CASE Send(t, "login", "me")
      <3>1. at'[t] = "me" /\ leg'[t] = "sent"
        BY <1>0, <1>o, <2>2, SendKeeps DEF Asked2
      <3>2. ToCome(t) = 4 /\ ToCome(t)' = 3
        BY <1>0, <2>1, <3>1, Coming
      <3>3. QED
        BY <3>2 DEF ComesBack
    <2>3. QED
      BY <1>f, <2>1, <2>2 DEF ComesBack
  <1>3. CASE LoginDone(t)
    <2>1. PICK u : Guard(t, u) \/ Fails(t)
      BY <1>3 DEF LoginDone
    <2>2. Guard(t, u) => loading'[t] = FALSE
      BY <1>0, GuardKeeps
    <2>3. QED
      BY <1>f, <2>1, <2>2 DEF ComesBack
  <1>4. ~GuardDone(t)
    BY DEF GuardDone
  <1>5. QED
    BY <1>1, <1>2, <1>3, <1>4 DEF Continue

\* Every step does.
LEMMA NextComesBack ==
  ASSUME SessionInv, SessionNext, NEW t \in Tabs, loading[t]
  PROVE  ComesBack(t)
  <1>1. SessionTypeOK /\ AllMade /\ \A s \in Tabs : Steps(s) /\ Legs(s) /\ Landing(s)
    BY DEF SessionInv
  <1>2. op[t] = "login" /\ op[t] # "none"
    BY <1>1 DEF Steps
  <1>k. Kept(t) => ComesBack(t)
    BY DEF Kept, ComesBack
  <1>3. CASE Expire
    BY <1>1, <1>3, <1>k, ExpireIs
  <1>4. ASSUME NEW s \in Tabs, Act(s) \/ Serve(s) \/ Lose(s) \/ Continue(s), s # t
        PROVE  ComesBack(t)
    <2>1. CASE (Act(s) \/ Continue(s)) /\ ~Receive(s)
      <3>1. Scripted(s)
        BY <1>1, <2>1, ScriptMoves DEF TabMoves
      <3>2. QED
        BY <1>4, <1>k, <3>1 DEF Scripted
    <2>2. CASE Load(s) \/ Lose(s)
      <3>1. Idles(s)
        BY <1>1, <2>2, LoadQuiet, LoseQuiet
      <3>2. QED
        BY <1>4, <1>k, <3>1 DEF Idles
    <2>3. CASE Receive(s)
      BY <1>1, <1>4, <1>k, <2>3, ReceiveIs
    <2>4. CASE Serve(s) /\ ~Load(s)
      <3>1. PICK table, a : HandlerDid(s, table, a)
        BY <1>1, <2>4, ServeHandles
      <3>2. QED
        BY <1>1, <1>4, <1>k, <3>1, HandledIs
    <2>5. QED
      BY <1>4, <2>1, <2>2, <2>3, <2>4
  <1>5. CASE Act(t)
    BY <1>1, <1>2, <1>5
       DEF Act, Reload, Navigate, GoToLogin, Submit, ClickLogout, Write, Idle
  <1>6. CASE Load(t) \/ Lose(t)
    <2>1. /\ Idles(t)
          /\ leg[t] \in {"none", "sent", "loaded", "answered", "received"}
      BY <1>1, <1>6, LoadQuiet, LoseQuiet, Points
    <2>2. /\ at'[t] = at[t]
          /\ \/ leg[t] = "sent" /\ leg'[t] \in {"loaded", "received"}
             \/ leg[t] = "answered" /\ leg'[t] = "received"
             \/ leg[t] = "received" /\ leg'[t] = "received"
      BY <2>1 DEF Idles
    <2>3. QED
      BY <2>2, Coming DEF ComesBack
  <1>7. CASE Receive(t)
    <2>1. at'[t] = at[t] /\ leg[t] = "answered" /\ leg'[t] = "received"
      BY <1>1, <1>7, ReceiveIs
    <2>2. QED
      BY <2>1, Coming DEF ComesBack
  <1>8. CASE Serve(t) /\ ~Load(t)
    <2>1. PICK table, a : HandlerDid(t, table, a)
      BY <1>1, <1>8, ServeHandles
    <2>2. at'[t] = at[t] /\ leg[t] = "loaded" /\ leg'[t] = "answered"
      BY <1>1, <2>1, HandledIs
    <2>3. QED
      BY <2>2, Coming DEF ComesBack
  <1>9. CASE Continue(t) /\ ~Receive(t)
    BY <1>1, <1>2, <1>9, AnswerComesBack
  <1>10. QED
    BY <1>3, <1>4, <1>5, <1>6, <1>7, <1>8, <1>9 DEF SessionNext

\* For any number of tabs and accounts: a login that nobody disturbs gets its user
\* in, and a form that waits has less and less to wait for (LoginView.vue, the guard).
THEOREM LoginsSettle == SessionSpec => LoginSettles
  <1>1. SessionInv => [\A t \in Tabs :
          GuardDone(t) /\ user[t] # Nobody => page'[t] = "app" \/ upset[t]]_sessionVars
    BY GuardLands
  <1>2. SessionInv /\ [SessionNext]_sessionVars => [\A t \in Tabs :
          /\ loading[t] => op[t] = "login" /\ leg[t] # "none"
          /\ loading[t] /\ loading'[t] =>
               \/ UNCHANGED <<at[t], leg[t]>>
               \/ ToCome(t)' < ToCome(t)]_sessionVars
    <2>1. SUFFICES ASSUME SessionInv, SessionNext, NEW t \in Tabs, loading[t]
                   PROVE  /\ op[t] = "login" /\ leg[t] # "none"
                          /\ loading'[t] => \/ UNCHANGED <<at[t], leg[t]>>
                                         \/ ToCome(t)' < ToCome(t)
      OBVIOUS
    <2>2. op[t] = "login" /\ leg[t] # "none"
      BY <2>1 DEF SessionInv, Steps
    <2>3. QED
      BY <2>1, <2>2, NextComesBack DEF ComesBack
  <1>3. SessionSpec => LoginLands
    BY <1>1, SessionInvariant, PTL DEF LoginLands
  <1>4. SessionSpec => FormComesBack
    BY <1>2, SessionInvariant, PTL DEF SessionSpec, FormComesBack
  <1>5. QED
    BY <1>3, <1>4 DEF LoginSettles
=============================================================================
