------------------------ MODULE TelegramSenderProofs ------------------------
(***************************************************************************)
(* Proofs about TelegramSender, for any number of chats and events, every  *)
(* capacity of the queue and every bound on the retries.                   *)
(***************************************************************************)
EXTENDS TelegramSender, FiniteSetTheorems, TLAPS

At(q, M) == {i \in DOMAIN q : q[i] \in M}
Mine(q, c, e) == {i \in DOMAIN q : q[i].ev = e /\ q[i].chat = c}

\* The five places of a message, each with the number of times it is there.
ToQueue(c, e) ==
  IF run.ev = e /\ \E i \in DOMAIN run.todo : run.todo[i] = c THEN 1 ELSE 0
Queued(c, e) == Cardinality(Mine(queue, c, e))
Handed(c, e) ==
  IF worker.out # NoMessage /\ worker.out.ev = e /\ worker.out.chat = c THEN 1 ELSE 0
Arrived(c, e) == Cardinality({i \in DOMAIN delivered[c] : delivered[c][i] = e})
Given(c, e) == Cardinality({d \in dropped : d.ev = e /\ d.chat = c})

\* The goroutines hold an event, or a message, exactly where their code does.
InHand ==
  /\ run.pc = "fan" => run.ev \in Events /\ next = run.ev + 1
  /\ run.pc # "fan" => run.todo = <<>> /\ run.ev = 0
  /\ \A i, j \in DOMAIN run.todo : run.todo[i] = run.todo[j] => i = j
  /\ worker.pc \in {"send", "backoff"} => worker.out \in Message
  /\ worker.pc \notin {"send", "backoff"} => worker.out = NoMessage
  /\ IsFiniteSet(dropped)

Fresh(m) == posted[m.chat][m.ev] = 0

\* A message that has never been sent is later than all that went before it: the
\* chat's messages ahead of it in the queue, with the worker, and delivered.
FreshIsLater ==
  /\ \A j \in DOMAIN queue : Fresh(queue[j]) =>
       /\ \A i \in DOMAIN queue :
            i < j /\ queue[i].chat = queue[j].chat => queue[i].ev < queue[j].ev
       /\ worker.pc \in {"send", "backoff"} /\ worker.out.chat = queue[j].chat =>
            worker.out.ev < queue[j].ev
       /\ \A i \in DOMAIN delivered[queue[j].chat] :
            delivered[queue[j].chat][i] < queue[j].ev
  /\ worker.pc = "send" /\ Fresh(worker.out) =>
       \A i \in DOMAIN delivered[worker.out.chat] :
         delivered[worker.out.chat][i] < worker.out.ev
  /\ worker.pc = "backoff" => ~Fresh(worker.out)

SenderInv == TypeOK /\ InHand /\ EachMessageOnce /\ FreshIsLater /\ LateOnlyIfRetried

-----------------------------------------------------------------------------
(* Counting in a queue.                                                    *)

\* Putting something at the end of a queue, and taking what is at its front.
LEMMA QueueMoves ==
  ASSUME NEW S, NEW q \in Seq(S)
  PROVE  /\ Len(q) \in Nat /\ DOMAIN q = 1 .. Len(q)
         /\ \A x \in S : /\ Append(q, x) \in Seq(S) /\ Len(Append(q, x)) = Len(q) + 1
                        /\ DOMAIN Append(q, x) = 1 .. Len(q) + 1
                        /\ Append(q, x)[Len(q) + 1] = x
                        /\ \A i \in 1 .. Len(q) : Append(q, x)[i] = q[i]
         /\ q # <<>> => /\ Len(q) # 0 /\ Head(q) = q[1] /\ Head(q) \in S
                        /\ Tail(q) \in Seq(S) /\ Len(Tail(q)) = Len(q) - 1
                        /\ DOMAIN Tail(q) = 1 .. Len(q) - 1
                        /\ \A i \in 1 .. Len(q) - 1 : Tail(q)[i] = q[i + 1]
  OBVIOUS

\* How often a queue holds something is a number, zero if it is not there.
LEMMA CountIs ==
  ASSUME NEW S, NEW q \in Seq(S), NEW M
  PROVE  /\ IsFiniteSet(At(q, M)) /\ Cardinality(At(q, M)) \in Nat
         /\ Cardinality(At(q, M)) = 0 => \A i \in DOMAIN q : q[i] \notin M
  <1>1. Len(q) \in Nat /\ DOMAIN q = 1 .. Len(q)
    OBVIOUS
  <1>2. IsFiniteSet(1 .. Len(q)) /\ At(q, M) \in SUBSET (1 .. Len(q))
    BY <1>1, FS_Interval DEF At
  <1>3. IsFiniteSet(At(q, M))
    BY <1>2, FS_Subset
  <1>4. Cardinality(At(q, M)) \in Nat
    BY <1>3, FS_CardinalityType
  <1>5. Cardinality(At(q, M)) = 0 => At(q, M) = {}
    BY <1>3, FS_EmptySet
  <1>6. At(q, M) = {} => \A i \in DOMAIN q : q[i] \notin M
    BY DEF At
  <1>7. QED
    BY <1>3, <1>4, <1>5, <1>6

\* A message that is put at the end is counted once more.
LEMMA CountPut ==
  ASSUME NEW S, NEW q \in Seq(S), NEW x \in S, NEW M
  PROVE  Cardinality(At(Append(q, x), M)) =
           Cardinality(At(q, M)) + IF x \in M THEN 1 ELSE 0
  <1>1. /\ Len(q) \in Nat /\ DOMAIN q = 1 .. Len(q)
        /\ DOMAIN Append(q, x) = 1 .. Len(q) + 1
        /\ Append(q, x)[Len(q) + 1] = x
        /\ \A i \in 1 .. Len(q) : Append(q, x)[i] = q[i]
    OBVIOUS
  <1>2. IsFiniteSet(At(q, M)) /\ Cardinality(At(q, M)) \in Nat
    BY CountIs
  <1>3. Len(q) + 1 \notin At(q, M)
    BY <1>1 DEF At
  <1>4. CASE x \in M
    <2>1. At(Append(q, x), M) = At(q, M) \cup {Len(q) + 1}
      BY <1>1, <1>4 DEF At
    <2>2. Cardinality(At(q, M) \cup {Len(q) + 1}) = Cardinality(At(q, M)) + 1
      BY <1>2, <1>3, FS_AddElement
    <2>3. QED
      BY <1>4, <2>1, <2>2
  <1>5. CASE x \notin M
    <2>1. At(Append(q, x), M) = At(q, M)
      BY <1>1, <1>5 DEF At
    <2>2. QED
      BY <1>2, <1>5, <2>1
  <1>6. QED
    BY <1>4, <1>5

\* The message that is taken from the front is counted once less.
LEMMA CountTake ==
  ASSUME NEW S, NEW q \in Seq(S), q # <<>>, NEW M
  PROVE  Cardinality(At(q, M)) =
           Cardinality(At(Tail(q), M)) + IF Head(q) \in M THEN 1 ELSE 0
  <1>1. /\ Len(q) \in Nat \ {0} /\ DOMAIN q = 1 .. Len(q) /\ Head(q) = q[1]
        /\ Tail(q) \in Seq(S) /\ DOMAIN Tail(q) = 1 .. Len(q) - 1
        /\ \A i \in 1 .. Len(q) - 1 : Tail(q)[i] = q[i + 1]
    OBVIOUS
  <1>2. /\ IsFiniteSet(At(q, M)) /\ Cardinality(At(q, M)) \in Nat
        /\ IsFiniteSet(At(Tail(q), M)) /\ Cardinality(At(Tail(q), M)) \in Nat
    BY <1>1, CountIs
  <1> DEFINE B == At(Tail(q), M)
             C == At(q, M) \ {1}
             f == [i \in B |-> i + 1]
  <1>3. \A i \in B : i \in Nat /\ i + 1 \in C
    BY <1>1 DEF At
  <1>4. \A j \in C : j - 1 \in B /\ (j - 1) + 1 = j
    BY <1>1 DEF At
  <1>5. f \in Bijection(B, C)
    <2>1. f \in [B -> C]
      BY <1>3
    <2>2. \A a, b \in B : f[a] = f[b] => a = b
      BY <1>3
    <2>3. \A j \in C : \E i \in B : f[i] = j
      <3>1. \A j \in C : f[j - 1] = j
        BY <1>4
      <3>2. QED
        BY <1>4, <3>1
    <2>4. QED
      BY <2>1, <2>2, <2>3 DEF Bijection, Injection, Surjection, IsInjective
  <1>6. Cardinality(C) = Cardinality(B)
    BY <1>2, <1>5, FS_Bijection DEF ExistsBijection
  <1>7. Cardinality(C) = IF 1 \in At(q, M) THEN Cardinality(At(q, M)) - 1
                                           ELSE Cardinality(At(q, M))
    BY <1>2, FS_RemoveElement
  <1>8. 1 \in At(q, M) <=> Head(q) \in M
    BY <1>1 DEF At
  <1>9. QED
    BY <1>2, <1>6, <1>7, <1>8

\* The positions of a chat's messages of an event, as a set of messages.
LEMMA MineAt ==
  ASSUME NEW q \in Seq(Message), NEW c, NEW e
  PROVE  Mine(q, c, e) = At(q, {m \in Message : m.ev = e /\ m.chat = c})
  <1>1. \A i \in DOMAIN q : q[i] \in Message
    OBVIOUS
  <1>2. QED
    BY <1>1 DEF Mine, At

\* Two facts about the messages of a queue: what is put at its end, and taken from
\* its front.
LEMMA MineMoves ==
  ASSUME NEW q \in Seq(Message), NEW c, NEW e
  PROVE  /\ Cardinality(Mine(q, c, e)) \in Nat
         /\ \A m \in Message :
              Cardinality(Mine(Append(q, m), c, e)) =
                Cardinality(Mine(q, c, e)) + IF m.ev = e /\ m.chat = c THEN 1 ELSE 0
         /\ q # <<>> =>
              Cardinality(Mine(q, c, e)) =
                Cardinality(Mine(Tail(q), c, e))
                + IF Head(q).ev = e /\ Head(q).chat = c THEN 1 ELSE 0
         /\ Cardinality(Mine(q, c, e)) = 0 =>
              \A i \in DOMAIN q : ~(q[i].ev = e /\ q[i].chat = c)
  <1> DEFINE M == {m \in Message : m.ev = e /\ m.chat = c}
  <1>0. \A w \in Seq(Message) : Mine(w, c, e) = At(w, M)
    BY MineAt
  <1>1. Mine(q, c, e) = At(q, M)
    BY MineAt
  <1>2. \A m \in Message : m \in M <=> m.ev = e /\ m.chat = c
    OBVIOUS
  <1> HIDE DEF M
  <1>3. Cardinality(Mine(q, c, e)) \in Nat
    BY <1>1, CountIs
  <1>4. ASSUME NEW m \in Message
        PROVE  Cardinality(Mine(Append(q, m), c, e)) =
                 Cardinality(Mine(q, c, e)) + IF m.ev = e /\ m.chat = c THEN 1 ELSE 0
    <2>1. Append(q, m) \in Seq(Message)
      OBVIOUS
    <2>2. Mine(Append(q, m), c, e) = At(Append(q, m), M)
      BY <1>0, <2>1
    <2>3. Cardinality(At(Append(q, m), M)) =
            Cardinality(At(q, M)) + IF m \in M THEN 1 ELSE 0
      BY CountPut
    <2>4. QED
      BY <1>1, <1>2, <2>2, <2>3
  <1>5. ASSUME q # <<>>
        PROVE  Cardinality(Mine(q, c, e)) =
                 Cardinality(Mine(Tail(q), c, e))
                 + IF Head(q).ev = e /\ Head(q).chat = c THEN 1 ELSE 0
    <2>1. Tail(q) \in Seq(Message) /\ Head(q) \in Message
      BY <1>5
    <2>2. Mine(Tail(q), c, e) = At(Tail(q), M)
      BY <1>0, <2>1
    <2>3. Cardinality(At(q, M)) =
            Cardinality(At(Tail(q), M)) + IF Head(q) \in M THEN 1 ELSE 0
      BY <1>5, CountTake
    <2>4. QED
      BY <1>1, <1>2, <2>1, <2>2, <2>3
  <1>6. ASSUME Cardinality(Mine(q, c, e)) = 0, NEW i \in DOMAIN q
        PROVE  ~(q[i].ev = e /\ q[i].chat = c)
    <2>1. q[i] \in Message
      OBVIOUS
    <2>2. q[i] \notin M
      BY <1>1, <1>6, CountIs
    <2>3. QED
      BY <1>2, <2>1, <2>2
  <1>7. QED
    BY <1>3, <1>4, <1>5, <1>6

\* A message that was never dropped is dropped once, and no other.
LEMMA DropFacts ==
  ASSUME IsFiniteSet(dropped), NEW m \in Message, NEW reason, Drop(m, reason)
  PROVE  /\ IsFiniteSet(dropped')
         /\ Given(m.chat, m.ev) = 0 =>
              \A c, e : Given(c, e)' = Given(c, e) + IF m.ev = e /\ m.chat = c THEN 1 ELSE 0
         /\ \A c, e : Given(c, e) \in Nat
  <1> DEFINE d == [chat |-> m.chat, ev |-> m.ev, why |-> reason]
             Of(c, e) == {x \in dropped : x.ev = e /\ x.chat = c}
  <1>1. dropped' = dropped \cup {d} /\ d.ev = m.ev /\ d.chat = m.chat
    BY DEF Drop
  <1> HIDE DEF d
  <1>2. IsFiniteSet(dropped')
    BY <1>1, FS_AddElement
  <1>3. ASSUME NEW c, NEW e
        PROVE  IsFiniteSet(Of(c, e)) /\ Given(c, e) = Cardinality(Of(c, e)) /\ Given(c, e) \in Nat
    <2>1. Of(c, e) \in SUBSET dropped
      OBVIOUS
    <2>2. IsFiniteSet(Of(c, e))
      BY <2>1, FS_Subset
    <2>3. Given(c, e) = Cardinality(Of(c, e))
      BY DEF Given
    <2>4. QED
      BY <2>2, <2>3, FS_CardinalityType
  <1>4. ASSUME Given(m.chat, m.ev) = 0, NEW c, NEW e
        PROVE  Given(c, e)' = Given(c, e) + IF m.ev = e /\ m.chat = c THEN 1 ELSE 0
    <2>1. Given(c, e)' = Cardinality({x \in dropped' : x.ev = e /\ x.chat = c})
      BY DEF Given
    <2>2. CASE m.ev = e /\ m.chat = c
      <3>1. Of(c, e) = {}
        <4>1. PICK T : T = Of(c, e)
          OBVIOUS
        <4>2. IsFiniteSet(T) /\ Cardinality(T) = 0
          BY <1>3, <1>4, <2>2, <4>1
        <4>3. QED
          BY <4>1, <4>2, FS_EmptySet
      <3>2. {x \in dropped' : x.ev = e /\ x.chat = c} = {d}
        BY <1>1, <2>2, <3>1
      <3>3. Cardinality({d}) = 1
        BY FS_Singleton
      <3>4. QED
        BY <1>4, <2>1, <2>2, <3>2, <3>3
    <2>3. CASE ~(m.ev = e /\ m.chat = c)
      <3>1. {x \in dropped' : x.ev = e /\ x.chat = c} = Of(c, e)
        BY <1>1, <2>3
      <3>2. QED
        BY <1>3, <2>1, <2>3, <3>1
    <2>4. QED
      BY <2>2, <2>3
  <1>5. QED
    BY <1>2, <1>3, <1>4

\* The places of a message are numbers, and add up.
LEMMA Parts ==
  ASSUME TypeOK, InHand, NEW c \in Chat, NEW e \in Events
  PROVE  /\ ToQueue(c, e) \in {0, 1} /\ Queued(c, e) \in Nat /\ Handed(c, e) \in {0, 1}
         /\ Arrived(c, e) \in Nat /\ Given(c, e) \in Nat
         /\ Places(c, e) = ToQueue(c, e) + Queued(c, e) + Handed(c, e) + Arrived(c, e)
                           + Given(c, e)
  <1>1. ToQueue(c, e) \in {0, 1} /\ Handed(c, e) \in {0, 1}
    BY DEF ToQueue, Handed
  <1>2. Queued(c, e) \in Nat
    BY MineMoves DEF Queued, TypeOK
  <1>3. Arrived(c, e) \in Nat
    <2>1. delivered[c] \in Seq(Events)
      BY DEF TypeOK
    <2>2. {i \in DOMAIN delivered[c] : delivered[c][i] = e} = At(delivered[c], {e})
      BY DEF At
    <2>3. QED
      BY <2>1, <2>2, CountIs DEF Arrived
  <1>4. Given(c, e) \in Nat
    <2>1. {d \in dropped : d.ev = e /\ d.chat = c} \in SUBSET dropped
      OBVIOUS
    <2>2. IsFiniteSet({d \in dropped : d.ev = e /\ d.chat = c})
      BY <2>1, FS_Subset DEF InHand
    <2>3. QED
      BY <2>2, FS_CardinalityType DEF Given
  <1>5. Places(c, e) = ToQueue(c, e) + Queued(c, e) + Handed(c, e) + Arrived(c, e) + Given(c, e)
    BY DEF Places, ToQueue, Queued, Mine, Handed, Arrived, Given
  <1>6. QED
    BY <1>1, <1>2, <1>3, <1>4, <1>5

-----------------------------------------------------------------------------
(* Types, and what the goroutines hold.                                    *)

\* A message with the worker is not dropped yet.
LEMMA DropTyped ==
  ASSUME TypeOK, InHand, NEW m \in Message,
         NEW reason \in {"queue full", "canceled", "error", "retries"}, Drop(m, reason)
  PROVE  /\ dropped' \subseteq [chat : Chat, ev : Events,
                                why : {"queue full", "canceled", "error", "retries"}]
         /\ IsFiniteSet(dropped')
  <1>1. [chat |-> m.chat, ev |-> m.ev, why |-> reason]
          \in [chat : Chat, ev : Events, why : {"queue full", "canceled", "error", "retries"}]
    BY DEF Message
  <1>2. QED
    BY <1>1, DropFacts DEF Drop, TypeOK, InHand

\* A call of the API is counted, up to the bound of the history.
LEMMA PostedTyped ==
  ASSUME TypeOK, NEW m \in Message, Posted(m)
  PROVE  /\ posted' \in [Chat -> [Events -> 0 .. maxRetries + 1]]
         /\ posted'[m.chat][m.ev] # 0
         /\ posted[m.chat][m.ev] # 0 => posted'[m.chat][m.ev] > 1
         /\ \A c \in Chat, e \in Events :
              /\ posted'[c][e] >= posted[c][e]
              /\ ~(c = m.chat /\ e = m.ev) => posted'[c][e] = posted[c][e]
  <1>1. m.chat \in Chat /\ m.ev \in Events /\ maxRetries \in Nat \ {0}
    BY SenderAssumption DEF Message
  <1>2. posted[m.chat] \in [Events -> 0 .. maxRetries + 1]
    BY <1>1 DEF TypeOK
  <1>3. PICK n \in 0 .. maxRetries + 1 : n = posted[m.chat][m.ev]
    BY <1>1, <1>2
  <1>4. PICK k \in 0 .. maxRetries + 1 : k = IF n > maxRetries THEN n ELSE n + 1
    <2>1. (IF n > maxRetries THEN n ELSE n + 1) \in 0 .. maxRetries + 1
      BY <1>1
    <2>2. QED
      BY <2>1
  <1>5. posted' = [posted EXCEPT ![m.chat] = [posted[m.chat] EXCEPT ![m.ev] = k]]
    BY <1>3, <1>4 DEF Posted
  <1>6. [posted[m.chat] EXCEPT ![m.ev] = k] \in [Events -> 0 .. maxRetries + 1]
    BY <1>1, <1>2
  <1>7. posted' \in [Chat -> [Events -> 0 .. maxRetries + 1]]
    BY <1>5, <1>6 DEF TypeOK
  <1>8. posted'[m.chat][m.ev] = k
    BY <1>1, <1>2, <1>5 DEF TypeOK
  <1>9. \A c \in Chat, e \in Events : ~(c = m.chat /\ e = m.ev) => posted'[c][e] = posted[c][e]
    BY <1>1, <1>2, <1>5 DEF TypeOK
  <1>10. k # 0 /\ k >= n /\ (n # 0 => k > 1)
    BY <1>1, <1>4
  <1>11. \A c \in Chat, e \in Events : posted[c][e] \in 0 .. maxRetries + 1
    BY DEF TypeOK
  <1>12. \A c \in Chat, e \in Events : posted'[c][e] >= posted[c][e]
    <2> TAKE c \in Chat, e \in Events
    <2>1. CASE c = m.chat /\ e = m.ev
      BY <1>3, <1>8, <1>10, <2>1
    <2>2. CASE ~(c = m.chat /\ e = m.ev)
      BY <1>1, <1>9, <1>11, <2>2
    <2>3. QED
      BY <2>1, <2>2
  <1>13. QED
    BY <1>3, <1>7, <1>8, <1>9, <1>10, <1>12

\* The non-blocking send: a message is put into the queue, or dropped if it is full.
Enqueue(m) ==
  \/ Len(queue) < QueueCap /\ queue' = Append(queue, m) /\ dropped' = dropped
  \/ queue' = queue /\ Drop(m, "queue full")

\* Either way the queue and the record of drops keep their types.
LEMMA EnqueueTyped ==
  ASSUME TypeOK, InHand, NEW m \in Message, Enqueue(m)
  PROVE  /\ queue' \in Seq(Message) /\ Len(queue') <= QueueCap
         /\ dropped' \subseteq [chat : Chat, ev : Events,
                                why : {"queue full", "canceled", "error", "retries"}]
         /\ IsFiniteSet(dropped')
  <1>0. queue \in Seq(Message) /\ Len(queue) <= QueueCap
    BY DEF TypeOK
  <1>1. /\ queue \in Seq(Message) /\ Len(queue) \in Nat /\ Len(queue) <= QueueCap
        /\ QueueCap \in Nat
    BY <1>0, SenderAssumption, QueueMoves
  <1>2. Append(queue, m) \in Seq(Message) /\ Len(Append(queue, m)) = Len(queue) + 1
    BY <1>1, QueueMoves
  <1>3. CASE Len(queue) < QueueCap /\ queue' = Append(queue, m) /\ dropped' = dropped
    <2>1. queue' \in Seq(Message) /\ Len(queue') <= QueueCap
      BY <1>1, <1>2, <1>3
    <2>2. QED
      BY <1>3, <2>1 DEF TypeOK, InHand
  <1>4. CASE queue' = queue /\ Drop(m, "queue full")
    BY <1>1, <1>4, DropTyped
  <1>5. QED
    BY <1>3, <1>4 DEF Enqueue

\* Every step keeps the types, and each goroutine's event and message with its
\* place in the code.
LEMMA TypeStep ==
  ASSUME TypeOK, InHand, [Next]_vars PROVE TypeOK' /\ InHand'
  <1> DEFINE Reasons == {"queue full", "canceled", "error", "retries"}
             Runs == [pc : {"select", "fan", "returned"}, ev : 0 .. MaxEvents, todo : Seq(Chat)]
             Workers == [pc : {"select", "send", "backoff", "returned"},
                         out : Message \cup {NoMessage}]
  <1>1. CASE UNCHANGED vars
    BY <1>1 DEF vars, TypeOK, InHand
  <1>2. CASE RunTake
    <2>0. MaxEvents \in Nat /\ next \in 1 .. MaxEvents + 1 /\ next <= MaxEvents
      BY <1>2, SenderAssumption DEF RunTake, TypeOK
    <2>1. next \in Events /\ next \in 0 .. MaxEvents /\ next + 1 \in 1 .. MaxEvents + 1
      BY <2>0 DEF Events
    <2>2. Chats \in Seq(Chat)
      BY SenderAssumption
    <2>3. run' = [pc |-> "fan", ev |-> next, todo |-> Chats] /\ next' = next + 1
      BY <1>2 DEF RunTake
    <2>4. run' \in Runs
      BY <2>1, <2>2, <2>3
    <2>5. /\ canceled' = canceled /\ queue' = queue /\ worker' = worker
          /\ delivered' = delivered /\ posted' = posted /\ dropped' = dropped
      BY <1>2 DEF RunTake
    <2>6. TypeOK'
      BY <2>1, <2>3, <2>4, <2>5 DEF TypeOK
    <2>7. InHand'
      BY <2>1, <2>3, <2>5, SenderAssumption DEF InHand
    <2>8. QED
      BY <2>6, <2>7
  <1>3. CASE RunEnqueue
    <2>1. run.todo \in Seq(Chat) /\ run.todo # <<>> /\ run.pc = "fan" /\ run.ev \in Events
      BY <1>3 DEF RunEnqueue, TypeOK, InHand
    <2>2. PICK q \in Seq(Chat) : q = run.todo
      BY <2>1
    <2>3. /\ Head(q) \in Chat /\ Tail(q) \in Seq(Chat) /\ q # <<>> /\ Len(q) \in Nat
          /\ DOMAIN q = 1 .. Len(q) /\ DOMAIN Tail(q) = 1 .. Len(q) - 1
          /\ \A i \in 1 .. Len(q) - 1 : Tail(q)[i] = q[i + 1]
      BY <2>1, <2>2, QueueMoves
    <2>4. [chat |-> Head(q), ev |-> run.ev, attempts |-> 0] \in Message
      BY <2>1, <2>3, SenderAssumption DEF Message
    <2>5. PICK m \in Message : m = [chat |-> Head(q), ev |-> run.ev, attempts |-> 0]
      BY <2>4
    <2>6. Enqueue(m)
      BY <1>3, <2>2, <2>5 DEF RunEnqueue, Enqueue
    <2>7. /\ queue' \in Seq(Message) /\ Len(queue') <= QueueCap
          /\ dropped' \subseteq [chat : Chat, ev : Events, why : Reasons]
          /\ IsFiniteSet(dropped')
      BY <2>6, EnqueueTyped
    <2>8. PICK w \in Seq(Chat) : w = Tail(q)
      BY <2>3
    <2>9. run' = [pc |-> "fan", ev |-> run.ev, todo |-> w]
      BY <1>3, <2>1, <2>2, <2>8 DEF RunEnqueue, TypeOK
    <2>10. run' \in Runs
      BY <2>1, <2>9, SenderAssumption DEF Events
    <2>11. /\ canceled' = canceled /\ next' = next /\ worker' = worker
           /\ delivered' = delivered /\ posted' = posted
      BY <1>3 DEF RunEnqueue
    <2>12. TypeOK'
      BY <2>7, <2>10, <2>11 DEF TypeOK
    <2>13. ASSUME NEW i \in DOMAIN w, NEW j \in DOMAIN w, w[i] = w[j] PROVE i = j
      <3>1. i + 1 \in DOMAIN q /\ j + 1 \in DOMAIN q /\ q[i + 1] = q[j + 1]
            /\ i \in Nat /\ j \in Nat
        BY <2>3, <2>8, <2>13
      <3>2. i + 1 = j + 1
        BY <2>2, <3>1 DEF InHand
      <3>3. QED
        BY <3>1, <3>2
    <2>14. InHand'
      BY <2>1, <2>7, <2>9, <2>11, <2>13 DEF InHand
    <2>15. QED
      BY <2>12, <2>14
  <1>4. CASE RunFanned \/ RunReturn
    <2>1. run' = Reading \/ run' = [pc |-> "returned", ev |-> 0, todo |-> <<>>]
      BY <1>4 DEF RunFanned, RunReturn, Reading
    <2>2. <<>> \in Seq(Chat) /\ DOMAIN <<>> = {} /\ 0 \in 0 .. MaxEvents
      BY SenderAssumption
    <2>3. run' \in Runs /\ run'.pc # "fan" /\ run'.todo = <<>> /\ run'.ev = 0
      <3>1. PICK p \in {"select", "returned"} : run' = [pc |-> p, ev |-> 0, todo |-> <<>>]
        BY <2>1 DEF Reading
      <3>2. [pc |-> p, ev |-> 0, todo |-> <<>>] \in Runs
        BY <2>2
      <3>3. QED
        BY <3>1, <3>2
    <2>4. /\ canceled' = canceled /\ next' = next /\ queue' = queue /\ worker' = worker
          /\ delivered' = delivered /\ posted' = posted /\ dropped' = dropped
      BY <1>4 DEF RunFanned, RunReturn
    <2>5. TypeOK'
      BY <2>3, <2>4 DEF TypeOK
    <2>6. InHand'
      BY <2>2, <2>3, <2>4 DEF InHand
    <2>7. QED
      BY <2>5, <2>6
  <1>5. CASE WorkerTake
    <2>1. queue \in Seq(Message) /\ queue # <<>> /\ Len(queue) <= QueueCap /\ QueueCap \in Nat
      BY <1>5, SenderAssumption DEF WorkerTake, TypeOK
    <2>2. /\ Head(queue) \in Message /\ Tail(queue) \in Seq(Message)
          /\ Len(Tail(queue)) = Len(queue) - 1 /\ Len(queue) \in Nat
      BY <2>1, QueueMoves
    <2>3. PICK m \in Message : m = Head(queue)
      BY <2>2
    <2>4. /\ worker' = [pc |-> "send", out |-> m] /\ queue' = Tail(queue)
          /\ canceled' = canceled /\ run' = run /\ next' = next
          /\ delivered' = delivered /\ posted' = posted /\ dropped' = dropped
      BY <1>5, <2>3 DEF WorkerTake
    <2>5. worker' \in Workers
      BY <2>4
    <2>6. Len(queue') <= QueueCap
      BY <2>1, <2>2, <2>4
    <2>7. TypeOK'
      BY <2>2, <2>4, <2>5, <2>6 DEF TypeOK
    <2>8. InHand'
      BY <2>4 DEF InHand
    <2>9. QED
      BY <2>7, <2>8
  <1>6. Waiting \in Workers /\ Waiting.pc = "select" /\ Waiting.out = NoMessage
    BY DEF Waiting
  <1>7. CASE SendCanceled \/ SendOK \/ SendError
    <2>1. PICK m \in Message : m = worker.out
      BY <1>7 DEF SendCanceled, SendOK, SendError, InHand
    <2>2. /\ worker' = Waiting /\ canceled' = canceled /\ run' = run /\ next' = next
          /\ queue' = queue
      BY <1>7 DEF SendCanceled, SendOK, SendError
    <2>3. posted' \in [Chat -> [Events -> 0 .. maxRetries + 1]]
      <3>1. posted' = posted \/ Posted(m)
        BY <1>7, <2>1 DEF SendCanceled, SendOK, SendError
      <3>2. QED
        BY <3>1, PostedTyped DEF TypeOK
    <2>4. /\ dropped' \subseteq [chat : Chat, ev : Events, why : Reasons]
          /\ IsFiniteSet(dropped')
      <3>1. dropped' = dropped \/ Drop(m, "canceled") \/ Drop(m, "error")
        BY <1>7, <2>1 DEF SendCanceled, SendOK, SendError
      <3>2. CASE dropped' = dropped
        BY <3>2 DEF TypeOK, InHand
      <3>3. QED
        BY <3>1, <3>2, DropTyped
    <2>5. delivered' \in [Chat -> Seq(Events)]
      <3>1. CASE delivered' = delivered
        BY <3>1 DEF TypeOK
      <3>2. CASE delivered' = [delivered EXCEPT ![m.chat] = Append(delivered[m.chat], m.ev)]
        <4>1. m.chat \in Chat /\ m.ev \in Events /\ delivered[m.chat] \in Seq(Events)
          BY DEF Message, TypeOK
        <4>2. Append(delivered[m.chat], m.ev) \in Seq(Events)
          BY <4>1, QueueMoves
        <4>3. QED
          BY <3>2, <4>2 DEF TypeOK
      <3>3. QED
        BY <1>7, <2>1, <3>1, <3>2 DEF SendCanceled, SendOK, SendError
    <2>6. TypeOK'
      BY <1>6, <2>2, <2>3, <2>4, <2>5 DEF TypeOK
    <2>7. InHand'
      BY <1>6, <2>2, <2>4 DEF InHand
    <2>8. QED
      BY <2>6, <2>7
  <1>8. CASE SendTooMany
    <2>1. PICK m \in Message : m = worker.out
      BY <1>8 DEF SendTooMany, InHand
    <2>2. /\ worker' = [pc |-> "backoff", out |-> m]
          /\ canceled' = canceled /\ run' = run /\ next' = next /\ queue' = queue
          /\ delivered' = delivered /\ dropped' = dropped
      BY <1>8, <2>1 DEF SendTooMany, TypeOK
    <2>3. posted' \in [Chat -> [Events -> 0 .. maxRetries + 1]]
      BY <1>8, <2>1, PostedTyped DEF SendTooMany
    <2>4. worker' \in Workers
      BY <2>2
    <2>5. TypeOK'
      BY <2>2, <2>3, <2>4 DEF TypeOK
    <2>6. InHand'
      BY <2>2 DEF InHand
    <2>7. QED
      BY <2>5, <2>6
  <1>9. CASE Retry
    <2>1. PICK o \in Message : o = worker.out
      BY <1>9 DEF Retry, InHand
    <2>2. PICK n \in Nat : n = o.attempts + 1
      BY SenderAssumption DEF Message
    <2>3. PICK m : m = [worker.out EXCEPT !.attempts = @ + 1]
      OBVIOUS
    <2>4. m = [chat |-> o.chat, ev |-> o.ev, attempts |-> n]
      BY <2>1, <2>2, <2>3 DEF Message
    <2>5. n < maxRetries => m \in Message
      <3>1. n < maxRetries => n \in 0 .. maxRetries - 1
        BY SenderAssumption
      <3>2. QED
        BY <2>4, <3>1 DEF Message
    <2>6. /\ worker' = Waiting /\ canceled' = canceled /\ run' = run /\ next' = next
          /\ delivered' = delivered /\ posted' = posted
          /\ \/ n >= maxRetries /\ queue' = queue /\ Drop(m, "retries")
             \/ n < maxRetries /\ Enqueue(m)
      <3>1. m.attempts = n /\ maxRetries \in Nat
        BY <2>4, SenderAssumption
      <3>2. CASE n >= maxRetries
        BY <1>9, <2>3, <3>1, <3>2 DEF Retry
      <3>3. CASE n < maxRetries
        <4>1. ~(m.attempts >= maxRetries)
          BY <3>1, <3>3
        <4>2. IF Len(queue) < QueueCap
              THEN queue' = Append(queue, m) /\ dropped' = dropped
              ELSE queue' = queue /\ Drop(m, "queue full")
          BY <1>9, <2>3, <4>1 DEF Retry
        <4>3. Enqueue(m)
          BY <4>2 DEF Enqueue
        <4>4. QED
          BY <1>9, <3>3, <4>3 DEF Retry
      <3>4. QED
        BY <3>1, <3>2, <3>3
    <2>7. /\ queue' \in Seq(Message) /\ Len(queue') <= QueueCap
          /\ dropped' \subseteq [chat : Chat, ev : Events, why : Reasons]
          /\ IsFiniteSet(dropped')
      <3>1. CASE n >= maxRetries /\ queue' = queue /\ Drop(m, "retries")
        <4>1. Drop(o, "retries")
          BY <2>4, <3>1 DEF Drop
        <4>2. QED
          BY <3>1, <4>1, DropTyped DEF TypeOK
      <3>2. CASE n < maxRetries /\ Enqueue(m)
        BY <2>5, <3>2, EnqueueTyped
      <3>3. QED
        BY <2>6, <3>1, <3>2
    <2>8. TypeOK'
      BY <1>6, <2>6, <2>7 DEF TypeOK
    <2>9. InHand'
      BY <1>6, <2>6, <2>7 DEF InHand
    <2>10. QED
      BY <2>8, <2>9
  <1>10. CASE WorkerReturn \/ Cancel
    <2>1. worker' = worker \/ worker' = [pc |-> "returned", out |-> NoMessage]
      BY <1>10 DEF WorkerReturn, Cancel, Waiting
    <2>2. /\ canceled' \in BOOLEAN /\ run' = run /\ next' = next /\ queue' = queue
          /\ delivered' = delivered /\ posted' = posted /\ dropped' = dropped
      BY <1>10 DEF WorkerReturn, Cancel, TypeOK
    <2>3. worker' \in Workers
      <3>1. worker \in Workers /\ [pc |-> "returned", out |-> NoMessage] \in Workers
        BY DEF TypeOK
      <3>2. QED
        BY <2>1, <3>1
    <2>4. TypeOK'
      BY <2>2, <2>3 DEF TypeOK
    <2>5. InHand'
      BY <2>1, <2>2 DEF InHand
    <2>6. QED
      BY <2>4, <2>5
  <1>11. QED
    BY <1>1, <1>2, <1>3, <1>4, <1>5, <1>7, <1>8, <1>9, <1>10 DEF Next, Run, Worker

-----------------------------------------------------------------------------
(* One place for every message.                                            *)

\* One if the message is the one of an event for a chat.
Is(m, c, e) == IF m.ev = e /\ m.chat = c THEN 1 ELSE 0

\* Who sends without blocking a message that is nowhere else finds it afterwards
\* once, in the queue or among the dropped.
LEMMA EnqueueOnce ==
  ASSUME TypeOK, InHand, NEW m \in Message, Enqueue(m), Given(m.chat, m.ev) = 0,
         NEW c \in Chat, NEW e \in Events
  PROVE  /\ Queued(c, e)' \in Nat /\ Given(c, e)' \in Nat
         /\ Queued(c, e)' + Given(c, e)' = Queued(c, e) + Given(c, e) + Is(m, c, e)
  <1>1. Queued(c, e) \in Nat /\ Given(c, e) \in Nat
    BY Parts
  <1>2. Is(m, c, e) \in {0, 1}
    BY DEF Is
  <1>3. CASE queue' = Append(queue, m) /\ dropped' = dropped
    <2>1. queue \in Seq(Message)
      BY DEF TypeOK
    <2>2. Cardinality(Mine(Append(queue, m), c, e)) = Cardinality(Mine(queue, c, e)) + Is(m, c, e)
      BY <2>1, MineMoves DEF Is
    <2>3. Queued(c, e)' = Queued(c, e) + Is(m, c, e)
      BY <1>3, <2>2 DEF Queued
    <2>4. Given(c, e)' = Given(c, e)
      BY <1>3 DEF Given
    <2>5. QED
      BY <1>1, <1>2, <2>3, <2>4
  <1>4. CASE queue' = queue /\ Drop(m, "queue full")
    <2>1. IsFiniteSet(dropped) /\ Drop(m, "queue full")
      BY <1>4 DEF InHand
    <2>2. Given(c, e)' = Given(c, e) + IF m.ev = e /\ m.chat = c THEN 1 ELSE 0
      BY <2>1, DropFacts
    <2>3. Given(c, e)' = Given(c, e) + Is(m, c, e)
      BY <2>2 DEF Is
    <2>4. Queued(c, e)' = Queued(c, e)
      BY <1>4 DEF Queued
    <2>5. QED
      BY <1>1, <1>2, <2>3, <2>4
  <1>5. QED
    BY <1>3, <1>4 DEF Enqueue

\* The message with the worker is nowhere else.
LEMMA AtWorker ==
  ASSUME TypeOK, InHand, EachMessageOnce, NEW m \in Message, m = worker.out
  PROVE  /\ \A c, e : Handed(c, e) = Is(m, c, e)
         /\ Given(m.chat, m.ev) = 0 /\ Queued(m.chat, m.ev) = 0
         /\ Arrived(m.chat, m.ev) = 0 /\ ToQueue(m.chat, m.ev) = 0
  <1>1. m.chat \in Chat /\ m.ev \in Events /\ m.ev # 0
    BY DEF Message, Events
  <1>2. m # NoMessage
    BY <1>1 DEF NoMessage
  <1>3. \A c, e : Handed(c, e) = Is(m, c, e)
    BY <1>2 DEF Handed, Is
  <1>4. Places(m.chat, m.ev) \in {0, 1}
    BY <1>1 DEF EachMessageOnce
  <1>5. Handed(m.chat, m.ev) = 1
    BY <1>3 DEF Is
  <1>6. PICK c \in Chat, e \in Events : c = m.chat /\ e = m.ev
    BY <1>1
  <1>7. /\ ToQueue(c, e) \in {0, 1} /\ Queued(c, e) \in Nat
        /\ Arrived(c, e) \in Nat /\ Given(c, e) \in Nat
        /\ Places(c, e) = ToQueue(c, e) + Queued(c, e) + Handed(c, e) + Arrived(c, e)
                          + Given(c, e)
    BY Parts
  <1>8. QED
    BY <1>3, <1>4, <1>5, <1>6, <1>7

\* The message that Run is about to queue is nowhere else.
LEMMA AtRun ==
  ASSUME TypeOK, InHand, EachMessageOnce, run.pc = "fan", run.todo # <<>>,
         NEW c \in Chat, c = Head(run.todo)
  PROVE  /\ ToQueue(c, run.ev) = 1 /\ Given(c, run.ev) = 0 /\ Queued(c, run.ev) = 0
         /\ Arrived(c, run.ev) = 0 /\ Handed(c, run.ev) = 0
  <1>1. run.todo \in Seq(Chat) /\ run.todo # <<>> /\ run.ev \in Events
    BY DEF TypeOK, InHand
  <1>2. 1 \in DOMAIN run.todo /\ run.todo[1] = c
    BY <1>1, QueueMoves
  <1>3. ToQueue(c, run.ev) = 1
    BY <1>2 DEF ToQueue
  <1>4. PICK e \in Events : e = run.ev
    BY <1>1
  <1>5. /\ Queued(c, e) \in Nat /\ Handed(c, e) \in {0, 1}
        /\ Arrived(c, e) \in Nat /\ Given(c, e) \in Nat
        /\ Places(c, e) = ToQueue(c, e) + Queued(c, e) + Handed(c, e) + Arrived(c, e)
                          + Given(c, e)
    BY Parts
  <1>6. Places(c, e) \in {0, 1}
    BY DEF EachMessageOnce
  <1>7. QED
    BY <1>3, <1>4, <1>5, <1>6

\* Every step moves at most one message, from one place to another.
LEMMA OnceStep ==
  ASSUME TypeOK, InHand, EachMessageOnce, [Next]_vars PROVE EachMessageOnce'
  <1> SUFFICES ASSUME NEW c \in Chat, NEW e \in Events
               PROVE  Places(c, e)' = IF e < next' THEN 1 ELSE 0
    BY DEF EachMessageOnce
  <1>1. Places(c, e)' = ToQueue(c, e)' + Queued(c, e)' + Handed(c, e)' + Arrived(c, e)'
                        + Given(c, e)'
    BY DEF Places, ToQueue, Queued, Mine, Handed, Arrived, Given
  <1>2. /\ ToQueue(c, e) \in {0, 1} /\ Queued(c, e) \in Nat /\ Handed(c, e) \in {0, 1}
        /\ Arrived(c, e) \in Nat /\ Given(c, e) \in Nat
        /\ Places(c, e) = ToQueue(c, e) + Queued(c, e) + Handed(c, e) + Arrived(c, e)
                          + Given(c, e)
    BY Parts
  <1>3. Places(c, e) = IF e < next THEN 1 ELSE 0
    BY DEF EachMessageOnce
  <1>4. \A m : Is(m, c, e) \in {0, 1}
    BY DEF Is
  <1>5. run.todo = <<>> => ToQueue(c, e) = 0
    <2>1. run.todo = <<>> => DOMAIN run.todo = {}
      OBVIOUS
    <2>2. QED
      BY <2>1 DEF ToQueue
  <1>6. run'.todo = <<>> => ToQueue(c, e)' = 0
    <2>1. run'.todo = <<>> => DOMAIN run'.todo = {}
      OBVIOUS
    <2>2. QED
      BY <2>1 DEF ToQueue
  <1>7. worker'.out = NoMessage => Handed(c, e)' = 0
    BY DEF Handed
  <1>8. CASE RunTake
    <2>1. /\ run' = [pc |-> "fan", ev |-> next, todo |-> Chats] /\ next' = next + 1
          /\ queue' = queue /\ worker' = worker /\ delivered' = delivered
          /\ dropped' = dropped
      BY <1>8 DEF RunTake
    <2>2. run'.ev = next /\ run'.todo = Chats
      BY <2>1
    <2>3. \E i \in DOMAIN Chats : Chats[i] = c
      BY DEF Chat
    <2>4. ToQueue(c, e)' = IF e = next THEN 1 ELSE 0
      BY <2>2, <2>3 DEF ToQueue
    <2>5. ToQueue(c, e) = 0
      BY <1>5, <1>8 DEF RunTake, InHand
    <2>6. /\ Queued(c, e)' = Queued(c, e) /\ Handed(c, e)' = Handed(c, e)
          /\ Arrived(c, e)' = Arrived(c, e) /\ Given(c, e)' = Given(c, e)
      BY <2>1 DEF Queued, Handed, Arrived, Given
    <2>7. next \in Nat /\ e \in Nat
      <3>1. next \in 1 .. MaxEvents + 1 /\ MaxEvents \in Nat
        BY SenderAssumption DEF TypeOK
      <3>2. QED
        BY <3>1 DEF Events
    <2>8. QED
      BY <1>1, <1>2, <1>3, <2>1, <2>4, <2>5, <2>6, <2>7
  <1>9. CASE RunEnqueue
    <2>1. run.todo \in Seq(Chat) /\ run.todo # <<>> /\ run.pc = "fan" /\ run.ev \in Events
      BY <1>9 DEF RunEnqueue, TypeOK, InHand
    <2>2. PICK q \in Seq(Chat) : q = run.todo
      BY <2>1
    <2>3. /\ Head(q) \in Chat /\ q # <<>> /\ Len(q) \in Nat \ {0} /\ Head(q) = q[1]
          /\ DOMAIN q = 1 .. Len(q) /\ DOMAIN Tail(q) = 1 .. Len(q) - 1
          /\ \A i \in 1 .. Len(q) - 1 : Tail(q)[i] = q[i + 1]
      BY <2>1, <2>2, QueueMoves
    <2>4. [chat |-> Head(q), ev |-> run.ev, attempts |-> 0] \in Message
      BY <2>1, <2>3, SenderAssumption DEF Message
    <2>5. PICK m \in Message : m = [chat |-> Head(q), ev |-> run.ev, attempts |-> 0]
      BY <2>4
    <2>6. m.chat = Head(q) /\ m.ev = run.ev
      BY <2>5
    <2>7. Given(m.chat, m.ev) = 0
      BY <2>1, <2>2, <2>3, <2>6, AtRun
    <2>8. Enqueue(m)
      BY <1>9, <2>2, <2>5 DEF RunEnqueue, Enqueue
    <2>9. /\ Queued(c, e)' \in Nat /\ Given(c, e)' \in Nat
          /\ Queued(c, e)' + Given(c, e)' = Queued(c, e) + Given(c, e) + Is(m, c, e)
      BY <2>7, <2>8, EnqueueOnce
    <2>10. /\ Handed(c, e)' = Handed(c, e) /\ Arrived(c, e)' = Arrived(c, e) /\ next' = next
      BY <1>9 DEF RunEnqueue, Handed, Arrived
    <2>11. run'.ev = run.ev /\ run'.todo = Tail(q)
      BY <1>9, <2>2 DEF RunEnqueue, TypeOK
    <2>12. \A i, j \in DOMAIN q : q[i] = q[j] => i = j
      BY <2>2 DEF InHand
    <2>13. (\E i \in DOMAIN q : q[i] = c)
             <=> c = q[1] \/ \E i \in DOMAIN Tail(q) : Tail(q)[i] = c
      <3>1. \A i \in DOMAIN Tail(q) : i + 1 \in DOMAIN q /\ Tail(q)[i] = q[i + 1]
        BY <2>3
      <3>2. \A i \in DOMAIN q \ {1} : i - 1 \in DOMAIN Tail(q) /\ Tail(q)[i - 1] = q[i]
        BY <2>3
      <3>3. 1 \in DOMAIN q
        BY <2>3
      <3>4. QED
        BY <3>1, <3>2, <3>3
    <2>14. c = q[1] => ~\E i \in DOMAIN Tail(q) : Tail(q)[i] = c
      <3>1. \A i \in DOMAIN Tail(q) : i + 1 \in DOMAIN q /\ Tail(q)[i] = q[i + 1] /\ i + 1 # 1
        BY <2>3
      <3>2. 1 \in DOMAIN q
        BY <2>3
      <3>3. QED
        BY <2>12, <3>1, <3>2
    <2>15. ToQueue(c, e) = ToQueue(c, e)' + Is(m, c, e)
      BY <2>2, <2>3, <2>6, <2>11, <2>13, <2>14 DEF ToQueue, Is
    <2>16. ToQueue(c, e)' \in {0, 1}
      BY DEF ToQueue
    <2>17. Is(m, c, e) \in {0, 1}
      BY DEF Is
    <2>18. Places(c, e)' = Places(c, e)
      <3>1. PICK a \in Nat, b \in Nat, h \in Nat, r \in Nat, t \in Nat :
              /\ a = Queued(c, e)' /\ b = Given(c, e)' /\ h = Handed(c, e) /\ r = Arrived(c, e)
              /\ t = ToQueue(c, e)'
        BY <1>2, <2>9, <2>16
      <3>2. PICK k \in Nat, l \in Nat, i \in Nat :
              k = Queued(c, e) /\ l = Given(c, e) /\ i = Is(m, c, e)
        BY <1>2, <2>17
      <3>3. Places(c, e)' = t + a + h + r + b /\ Places(c, e) = (t + i) + k + h + r + l
        BY <1>1, <1>2, <2>10, <2>15, <3>1, <3>2
      <3>4. a + b = k + l + i
        BY <2>9, <3>1, <3>2
      <3>5. QED
        BY <3>3, <3>4
    <2>19. QED
      BY <1>3, <2>10, <2>18
  <1>10. CASE RunFanned \/ RunReturn \/ WorkerReturn \/ Cancel \/ SendTooMany \/ UNCHANGED vars
    <2>1. next' = next /\ queue' = queue /\ delivered' = delivered /\ dropped' = dropped
      BY <1>10 DEF RunFanned, RunReturn, WorkerReturn, Cancel, SendTooMany, vars
    <2>2. worker'.out = worker.out
      <3>1. CASE WorkerReturn
        BY <3>1 DEF WorkerReturn, Waiting, InHand
      <3>2. CASE SendTooMany
        BY <3>2 DEF SendTooMany, TypeOK
      <3>3. QED
        BY <1>10, <3>1, <3>2 DEF RunFanned, RunReturn, Cancel, vars
    <2>3. ToQueue(c, e)' = ToQueue(c, e)
      <3>1. CASE run' = run
        BY <3>1 DEF ToQueue
      <3>2. CASE run.todo = <<>> /\ run'.todo = <<>>
        BY <1>5, <1>6, <3>2
      <3>3. QED
        BY <1>10, <3>1, <3>2 DEF RunFanned, RunReturn, WorkerReturn, Cancel, SendTooMany, vars,
                                 Reading, InHand
    <2>4. /\ Queued(c, e)' = Queued(c, e) /\ Handed(c, e)' = Handed(c, e)
          /\ Arrived(c, e)' = Arrived(c, e) /\ Given(c, e)' = Given(c, e)
      BY <2>1, <2>2 DEF Queued, Handed, Arrived, Given
    <2>5. QED
      BY <1>1, <1>2, <1>3, <2>1, <2>3, <2>4
  <1>11. CASE WorkerTake
    <2>1. queue \in Seq(Message) /\ queue # <<>> /\ worker.out = NoMessage
      BY <1>11 DEF WorkerTake, TypeOK, InHand
    <2>2. PICK m \in Message : m = Head(queue)
      BY <2>1, QueueMoves
    <2>3. /\ worker'.out = m /\ queue' = Tail(queue) /\ run' = run /\ next' = next
          /\ delivered' = delivered /\ dropped' = dropped
      BY <1>11, <2>2 DEF WorkerTake
    <2>4. m # NoMessage
      BY DEF Message, Events, NoMessage
    <2>5. Handed(c, e) = 0 /\ Handed(c, e)' = Is(m, c, e)
      BY <2>1, <2>3, <2>4 DEF Handed, Is
    <2>6. Cardinality(Mine(queue, c, e)) = Cardinality(Mine(Tail(queue), c, e)) + Is(m, c, e)
      BY <2>1, <2>2, MineMoves DEF Is
    <2>7. Tail(queue) \in Seq(Message)
      BY <2>1, QueueMoves
    <2>8. Cardinality(Mine(Tail(queue), c, e)) \in Nat
      BY <2>7, MineMoves
    <2>9. Queued(c, e) = Queued(c, e)' + Is(m, c, e) /\ Queued(c, e)' \in Nat
      BY <2>3, <2>6, <2>8 DEF Queued
    <2>10. /\ ToQueue(c, e)' = ToQueue(c, e) /\ Arrived(c, e)' = Arrived(c, e)
           /\ Given(c, e)' = Given(c, e)
      BY <2>3 DEF ToQueue, Arrived, Given
    <2>11. QED
      BY <1>1, <1>2, <1>3, <1>4, <2>3, <2>5, <2>9, <2>10
  <1>12. CASE SendOK
    <2>1. PICK m \in Message : m = worker.out
      BY <1>12 DEF SendOK, InHand
    <2>2. m.chat \in Chat /\ m.ev \in Events /\ delivered[m.chat] \in Seq(Events)
      BY DEF Message, TypeOK
    <2>3. /\ worker'.out = NoMessage /\ queue' = queue /\ run' = run /\ next' = next
          /\ delivered' = [delivered EXCEPT ![m.chat] = Append(delivered[m.chat], m.ev)]
          /\ dropped' = dropped
      BY <1>12, <2>1 DEF SendOK, Waiting
    <2>4. Handed(c, e) = Is(m, c, e) /\ Handed(c, e)' = 0
      BY <1>7, <2>1, <2>3, AtWorker
    <2>5. Arrived(c, e)' = Arrived(c, e) + Is(m, c, e)
      <3>1. CASE c = m.chat
        <4>1. delivered'[c] = Append(delivered[c], m.ev) /\ delivered[c] \in Seq(Events)
          BY <2>2, <2>3, <3>1 DEF TypeOK
        <4>2. PICK q \in Seq(Events) : q = delivered[c]
          BY <4>1
        <4>3. Cardinality(At(Append(q, m.ev), {e}))
                = Cardinality(At(q, {e})) + IF m.ev \in {e} THEN 1 ELSE 0
          BY <2>2, CountPut
        <4>4. Arrived(c, e) = Cardinality(At(q, {e}))
          <5>1. {i \in DOMAIN q : q[i] = e} = At(q, {e})
            BY DEF At
          <5>2. QED
            BY <4>2, <5>1 DEF Arrived
        <4>5. Arrived(c, e)' = Cardinality(At(Append(q, m.ev), {e}))
          <5>1. {i \in DOMAIN Append(q, m.ev) : Append(q, m.ev)[i] = e} = At(Append(q, m.ev), {e})
            BY DEF At
          <5>2. Arrived(c, e)' = Cardinality({i \in DOMAIN delivered'[c] : delivered'[c][i] = e})
            BY DEF Arrived
          <5>3. QED
            BY <4>1, <4>2, <5>1, <5>2
        <4>6. QED
          BY <3>1, <4>3, <4>4, <4>5 DEF Is
      <3>2. CASE c # m.chat
        <4>1. delivered'[c] = delivered[c] /\ Is(m, c, e) = 0
          BY <2>3, <3>2 DEF TypeOK, Is
        <4>2. Arrived(c, e)' = Arrived(c, e)
          BY <4>1 DEF Arrived
        <4>3. QED
          BY <1>2, <4>1, <4>2
      <3>3. QED
        BY <3>1, <3>2
    <2>6. /\ ToQueue(c, e)' = ToQueue(c, e) /\ Queued(c, e)' = Queued(c, e)
          /\ Given(c, e)' = Given(c, e)
      BY <2>3 DEF ToQueue, Queued, Given
    <2>7. QED
      BY <1>1, <1>2, <1>3, <1>4, <2>3, <2>4, <2>5, <2>6
  <1>13. CASE SendCanceled \/ SendError
    <2>1. PICK m \in Message : m = worker.out
      BY <1>13 DEF SendCanceled, SendError, InHand
    <2>2. PICK why : Drop(m, why)
      BY <1>13, <2>1 DEF SendCanceled, SendError
    <2>3. /\ worker'.out = NoMessage /\ queue' = queue /\ run' = run /\ next' = next
          /\ delivered' = delivered
      BY <1>13 DEF SendCanceled, SendError, Waiting
    <2>4. Handed(c, e) = Is(m, c, e) /\ Handed(c, e)' = 0 /\ Given(m.chat, m.ev) = 0
      BY <1>7, <2>1, <2>3, AtWorker
    <2>5. Given(c, e)' = Given(c, e) + Is(m, c, e)
      BY <2>2, <2>4, DropFacts DEF InHand, Is
    <2>6. /\ ToQueue(c, e)' = ToQueue(c, e) /\ Queued(c, e)' = Queued(c, e)
          /\ Arrived(c, e)' = Arrived(c, e)
      BY <2>3 DEF ToQueue, Queued, Arrived
    <2>7. QED
      BY <1>1, <1>2, <1>3, <1>4, <2>3, <2>4, <2>5, <2>6
  <1>14. CASE Retry
    <2>1. PICK m \in Message : m = worker.out
      BY <1>14 DEF Retry, InHand
    <2>2. PICK again : again = [worker.out EXCEPT !.attempts = @ + 1]
      OBVIOUS
    <2>3. again.chat = m.chat /\ again.ev = m.ev /\ again.attempts = m.attempts + 1
      BY <2>1, <2>2 DEF Message
    <2>4. Handed(c, e) = Is(m, c, e) /\ Given(m.chat, m.ev) = 0
      BY <2>1, AtWorker
    <2>5. /\ worker'.out = NoMessage /\ run' = run /\ next' = next /\ delivered' = delivered
      BY <1>14 DEF Retry, Waiting
    <2>6. Handed(c, e)' = 0
      BY <1>7, <2>5
    <2>7. /\ ToQueue(c, e)' = ToQueue(c, e) /\ Arrived(c, e)' = Arrived(c, e)
      BY <2>5 DEF ToQueue, Arrived
    <2>8. /\ Queued(c, e)' \in Nat /\ Given(c, e)' \in Nat
          /\ Queued(c, e)' + Given(c, e)' = Queued(c, e) + Given(c, e) + Is(m, c, e)
      <3>1. CASE again.attempts >= maxRetries
        <4>1. queue' = queue /\ Drop(again, "retries")
          BY <1>14, <2>2, <3>1 DEF Retry
        <4>2. Drop(m, "retries")
          BY <2>3, <4>1 DEF Drop
        <4>3. Given(c, e)' = Given(c, e) + Is(m, c, e)
          BY <2>4, <4>2, DropFacts DEF InHand, Is
        <4>4. Queued(c, e)' = Queued(c, e)
          BY <4>1 DEF Queued
        <4>5. QED
          BY <1>2, <1>4, <4>3, <4>4
      <3>2. CASE ~(again.attempts >= maxRetries)
        <4>1. again \in Message
          <5>1. m.attempts + 1 \in 0 .. maxRetries - 1
            BY <2>3, <3>2, SenderAssumption DEF Message
          <5>2. again = [chat |-> m.chat, ev |-> m.ev, attempts |-> m.attempts + 1]
            BY <2>1, <2>2 DEF Message
          <5>3. QED
            BY <5>1, <5>2 DEF Message
        <4>2. IF Len(queue) < QueueCap
              THEN queue' = Append(queue, again) /\ dropped' = dropped
              ELSE queue' = queue /\ Drop(again, "queue full")
          BY <1>14, <2>2, <3>2 DEF Retry
        <4>3. Enqueue(again)
          BY <4>2 DEF Enqueue
        <4>4. /\ Queued(c, e)' \in Nat /\ Given(c, e)' \in Nat
              /\ Queued(c, e)' + Given(c, e)' = Queued(c, e) + Given(c, e) + Is(again, c, e)
          BY <2>3, <2>4, <4>1, <4>3, EnqueueOnce
        <4>5. QED
          BY <2>3, <4>4 DEF Is
      <3>3. QED
        BY <3>1, <3>2
    <2>9. QED
      BY <1>1, <1>2, <1>3, <1>4, <2>4, <2>5, <2>6, <2>7, <2>8
  <1>15. QED
    BY <1>8, <1>9, <1>10, <1>11, <1>12, <1>13, <1>14 DEF Next, Run, Worker

-----------------------------------------------------------------------------
(* The order of a chat.                                                    *)

\* The message is later than everything its chat has got, and than everything of the
\* chat that is queued or with the worker.
Latest(m) ==
  /\ \A i \in DOMAIN queue : queue[i].chat = m.chat => queue[i].ev < m.ev
  /\ worker.pc \in {"send", "backoff"} /\ worker.out.chat = m.chat => worker.out.ev < m.ev
  /\ \A i \in DOMAIN delivered[m.chat] : delivered[m.chat][i] < m.ev

\* A message that is in a place belongs to an event that Run has taken.
LEMMA Somewhere ==
  ASSUME TypeOK, InHand, EachMessageOnce, NEW c \in Chat, NEW e \in Events,
         \/ \E i \in DOMAIN queue : queue[i].ev = e /\ queue[i].chat = c
         \/ worker.pc \in {"send", "backoff"} /\ worker.out.ev = e /\ worker.out.chat = c
         \/ \E i \in DOMAIN delivered[c] : delivered[c][i] = e
  PROVE  Queued(c, e) + Handed(c, e) + Arrived(c, e) > 0 /\ e < next
  <1>1. /\ ToQueue(c, e) \in {0, 1} /\ Queued(c, e) \in Nat /\ Handed(c, e) \in {0, 1}
        /\ Arrived(c, e) \in Nat /\ Given(c, e) \in Nat
        /\ Places(c, e) = ToQueue(c, e) + Queued(c, e) + Handed(c, e) + Arrived(c, e)
                          + Given(c, e)
    BY Parts
  <1>2. Places(c, e) = IF e < next THEN 1 ELSE 0
    BY DEF EachMessageOnce
  <1>3. Queued(c, e) + Handed(c, e) + Arrived(c, e) > 0
    <2>1. CASE \E i \in DOMAIN queue : queue[i].ev = e /\ queue[i].chat = c
      <3>1. queue \in Seq(Message)
        BY DEF TypeOK
      <3>2. Queued(c, e) # 0
        BY <2>1, <3>1, MineMoves DEF Queued
      <3>3. QED
        BY <1>1, <3>2
    <2>2. CASE worker.pc \in {"send", "backoff"} /\ worker.out.ev = e /\ worker.out.chat = c
      <3>1. worker.out # NoMessage
        BY <2>2 DEF NoMessage, InHand, Message, Events
      <3>2. Handed(c, e) = 1
        BY <2>2, <3>1 DEF Handed
      <3>3. QED
        BY <1>1, <3>2
    <2>3. CASE \E i \in DOMAIN delivered[c] : delivered[c][i] = e
      <3>1. delivered[c] \in Seq(Events)
        BY DEF TypeOK
      <3>2. PICK q \in Seq(Events) : q = delivered[c]
        BY <3>1
      <3>3. Cardinality(At(q, {e})) # 0
        BY <2>3, <3>2, CountIs
      <3>4. {i \in DOMAIN q : q[i] = e} = At(q, {e})
        BY DEF At
      <3>5. Arrived(c, e) # 0
        BY <3>2, <3>3, <3>4 DEF Arrived
      <3>6. QED
        BY <1>1, <3>5
    <2>4. QED
      BY <2>1, <2>2, <2>3
  <1>4. QED
    BY <1>1, <1>2, <1>3

\* The message that Run puts into the queue is the latest of its chat.
LEMMA RunIsLatest ==
  ASSUME TypeOK, InHand, EachMessageOnce, run.pc = "fan", run.todo # <<>>,
         NEW m \in Message, m.chat = Head(run.todo), m.ev = run.ev
  PROVE  Latest(m)
  <1>1. PICK c \in Chat, e \in Events : c = m.chat /\ e = m.ev
    BY DEF Message
  <1>2. Queued(c, e) = 0 /\ Arrived(c, e) = 0 /\ Handed(c, e) = 0
    BY <1>1, AtRun
  <1>3. next = e + 1 /\ e \in Nat /\ Events \subseteq Nat
    <2>1. MaxEvents \in Nat
      BY SenderAssumption
    <2>2. QED
      BY <1>1, <2>1 DEF InHand, Events
  <1>4. ASSUME NEW f \in Events,
               \/ \E i \in DOMAIN queue : queue[i].ev = f /\ queue[i].chat = c
               \/ worker.pc \in {"send", "backoff"} /\ worker.out.ev = f /\ worker.out.chat = c
               \/ \E i \in DOMAIN delivered[c] : delivered[c][i] = f
        PROVE  f < e
    <2>1. Queued(c, f) + Handed(c, f) + Arrived(c, f) > 0 /\ f < next
      BY <1>4, Somewhere
    <2>2. f # e
      BY <1>2, <2>1
    <2>3. QED
      BY <1>3, <2>1, <2>2
  <1>5. ASSUME NEW i \in DOMAIN queue, queue[i].chat = m.chat PROVE queue[i].ev < m.ev
    <2>1. queue[i].ev \in Events
      <3>1. queue \in Seq(Message)
        BY DEF TypeOK
      <3>2. queue[i] \in Message
        BY <3>1
      <3>3. QED
        BY <3>2 DEF Message
    <2>2. QED
      BY <1>1, <1>4, <1>5, <2>1
  <1>6. ASSUME worker.pc \in {"send", "backoff"}, worker.out.chat = m.chat
        PROVE  worker.out.ev < m.ev
    <2>1. worker.out.ev \in Events
      BY <1>6 DEF InHand, Message
    <2>2. QED
      BY <1>1, <1>4, <1>6, <2>1
  <1>7. ASSUME NEW i \in DOMAIN delivered[m.chat] PROVE delivered[m.chat][i] < m.ev
    <2>1. delivered[c] \in Seq(Events)
      BY DEF TypeOK
    <2>2. delivered[c][i] \in Events
      BY <1>1, <2>1
    <2>3. QED
      BY <1>1, <1>4, <2>2
  <1>8. QED
    BY <1>5, <1>6, <1>7 DEF Latest

\* Calls are only ever added to the history, so no message becomes fresh.
LEMMA CallsGrow ==
  ASSUME TypeOK, InHand, [Next]_vars
  PROVE  /\ \A c \in Chat, e \in Events :
              posted[c][e] \in Nat /\ posted'[c][e] \in Nat /\ posted'[c][e] >= posted[c][e]
         /\ \A m \in Message : Fresh(m)' => Fresh(m)
  <1>1. TypeOK' /\ maxRetries \in Nat
    BY TypeStep, SenderAssumption
  <1>2. \A c \in Chat, e \in Events : posted[c][e] \in Nat /\ posted'[c][e] \in Nat
    <2>1. /\ posted \in [Chat -> [Events -> 0 .. maxRetries + 1]]
          /\ posted' \in [Chat -> [Events -> 0 .. maxRetries + 1]]
      BY <1>1 DEF TypeOK
    <2>2. \A c \in Chat, e \in Events : posted[c][e] \in 0 .. maxRetries + 1
      BY <2>1
    <2>3. \A c \in Chat, e \in Events : posted'[c][e] \in 0 .. maxRetries + 1
      BY <2>1
    <2>4. QED
      BY <1>1, <2>2, <2>3
  <1>3. \A c \in Chat, e \in Events : posted'[c][e] >= posted[c][e]
    <2>0. \A n \in Nat : n >= n
      OBVIOUS
    <2>1. CASE posted' = posted
      BY <1>2, <2>0, <2>1
    <2>2. CASE SendOK \/ SendError \/ SendTooMany
      <3>1. worker.out \in Message /\ Posted(worker.out)
        BY <2>2 DEF SendOK, SendError, SendTooMany, InHand
      <3>2. PICK m \in Message : m = worker.out
        BY <3>1
      <3>3. QED
        BY <3>1, <3>2, PostedTyped
    <2>3. CASE RunTake \/ RunEnqueue \/ RunFanned \/ RunReturn \/ WorkerTake \/ WorkerReturn
      BY <2>1, <2>3 DEF RunTake, RunEnqueue, RunFanned, RunReturn, WorkerTake, WorkerReturn
    <2>4. CASE SendCanceled \/ Retry \/ Cancel \/ UNCHANGED vars
      BY <2>1, <2>4 DEF SendCanceled, Retry, Cancel, vars
    <2>5. QED
      BY <2>2, <2>3, <2>4 DEF Next, Run, Worker
  <1>4. \A m \in Message : Fresh(m)' => Fresh(m)
    <2> TAKE m \in Message
    <2>1. m.chat \in Chat /\ m.ev \in Events
      BY DEF Message
    <2>2. QED
      BY <1>2, <1>3, <2>1 DEF Fresh
  <1>5. QED
    BY <1>2, <1>3, <1>4

\* Steps that neither queue, take, nor deliver leave the order as it is: the worker keeps
\* its message or lets go of it, and calls are only added.
LEMMA FreshQuiet ==
  ASSUME TypeOK, InHand, FreshIsLater, [Next]_vars, queue' = queue, delivered' = delivered,
         \/ worker' = worker /\ posted' = posted
         \/ worker'.pc \notin {"send", "backoff"}
         \/ worker'.pc = "backoff" /\ worker.pc = "send" /\ worker'.out = worker.out
              /\ ~Fresh(worker.out)'
  PROVE  FreshIsLater'
  <1>1. ASSUME NEW j \in DOMAIN queue, Fresh(queue[j])'
        PROVE  /\ \A i \in DOMAIN queue :
                    i < j /\ queue[i].chat = queue[j].chat => queue[i].ev < queue[j].ev
               /\ worker'.pc \in {"send", "backoff"} /\ worker'.out.chat = queue[j].chat =>
                    worker'.out.ev < queue[j].ev
               /\ \A i \in DOMAIN delivered[queue[j].chat] :
                    delivered[queue[j].chat][i] < queue[j].ev
    <2>1. queue \in Seq(Message)
      BY DEF TypeOK
    <2>2. queue[j] \in Message
      BY <2>1
    <2>3. Fresh(queue[j])
      BY <1>1, <2>2, CallsGrow DEF Fresh
    <2>4. QED
      BY <2>3 DEF FreshIsLater
  <1>2. ASSUME worker'.pc = "send", Fresh(worker.out)'
        PROVE  \A i \in DOMAIN delivered[worker'.out.chat] :
                 delivered[worker'.out.chat][i] < worker'.out.ev
    <2>1. worker' = worker /\ posted' = posted
      BY <1>2
    <2>2. worker.pc = "send" /\ Fresh(worker.out)
      BY <1>2, <2>1 DEF Fresh
    <2>3. QED
      BY <2>1, <2>2 DEF FreshIsLater
  <1>3. ASSUME worker'.pc = "backoff" PROVE ~Fresh(worker.out)'
    <2>1. CASE worker' = worker /\ posted' = posted
      BY <1>3, <2>1 DEF FreshIsLater, Fresh
    <2>2. QED
      BY <1>3, <2>1
  <1>4. QED
    BY <1>1, <1>2, <1>3 DEF FreshIsLater, Fresh

\* A message may be put at the end of the queue if it is the latest of its chat, or has
\* been refused before.
LEMMA FreshPut ==
  ASSUME TypeOK, InHand, FreshIsLater, NEW m \in Message, Fresh(m) => Latest(m),
         queue' = Append(queue, m), delivered' = delivered, posted' = posted,
         worker' = worker \/ worker'.pc \notin {"send", "backoff"}
  PROVE  FreshIsLater'
  <1>1. queue \in Seq(Message)
    BY DEF TypeOK
  <1>2. PICK q \in Seq(Message) : q = queue
    BY <1>1
  <1>3. PICK w \in Seq(Message) : w = Append(q, m)
    BY <1>2, QueueMoves
  <1>4. /\ Len(q) \in Nat /\ DOMAIN q = 1 .. Len(q) /\ DOMAIN w = 1 .. Len(q) + 1
        /\ w[Len(q) + 1] = m /\ \A i \in 1 .. Len(q) : w[i] = q[i]
    BY <1>2, <1>3, QueueMoves
  <1>5. queue' = w
    BY <1>2, <1>3
  <1>6. ASSUME NEW j \in DOMAIN w, Fresh(w[j])
        PROVE  /\ \A i \in DOMAIN w : i < j /\ w[i].chat = w[j].chat => w[i].ev < w[j].ev
               /\ worker'.pc \in {"send", "backoff"} /\ worker'.out.chat = w[j].chat =>
                    worker'.out.ev < w[j].ev
               /\ \A i \in DOMAIN delivered[w[j].chat] : delivered[w[j].chat][i] < w[j].ev
    <2>1. CASE j = Len(q) + 1
      <3>1. Latest(m) /\ w[j] = m
        BY <1>4, <1>6, <2>1
      <3>2. \A i \in DOMAIN w : i < j => i \in DOMAIN queue /\ w[i] = queue[i]
        BY <1>2, <1>4, <2>1
      <3>3. QED
        BY <3>1, <3>2 DEF Latest
    <2>2. CASE j # Len(q) + 1
      <3>1. j \in DOMAIN queue /\ w[j] = queue[j]
        BY <1>2, <1>4, <2>2
      <3>2. \A i \in DOMAIN w : i < j => i \in DOMAIN queue /\ w[i] = queue[i]
        BY <1>2, <1>4, <2>2
      <3>3. /\ \A i \in DOMAIN queue :
                 i < j /\ queue[i].chat = queue[j].chat => queue[i].ev < queue[j].ev
            /\ worker.pc \in {"send", "backoff"} /\ worker.out.chat = queue[j].chat =>
                 worker.out.ev < queue[j].ev
            /\ \A i \in DOMAIN delivered[queue[j].chat] :
                 delivered[queue[j].chat][i] < queue[j].ev
        BY <1>6, <3>1 DEF FreshIsLater
      <3>4. QED
        BY <3>1, <3>2, <3>3
    <2>3. QED
      BY <2>1, <2>2
  <1>7. \A x : Fresh(x)' <=> Fresh(x)
    BY DEF Fresh
  <1>8. ASSUME NEW j \in DOMAIN queue', Fresh(queue[j])'
        PROVE  /\ \A i \in DOMAIN queue' :
                    i < j /\ queue'[i].chat = queue'[j].chat => queue'[i].ev < queue'[j].ev
               /\ worker'.pc \in {"send", "backoff"} /\ worker'.out.chat = queue'[j].chat =>
                    worker'.out.ev < queue'[j].ev
               /\ \A i \in DOMAIN delivered'[queue'[j].chat] :
                    delivered'[queue'[j].chat][i] < queue'[j].ev
    <2>1. j \in DOMAIN w /\ Fresh(w[j])
      BY <1>5, <1>8 DEF Fresh
    <2>2. QED
      BY <1>5, <1>6, <2>1
  <1>9. /\ worker'.pc = "send" /\ Fresh(worker.out)' =>
             \A i \in DOMAIN delivered'[worker'.out.chat] :
               delivered'[worker'.out.chat][i] < worker'.out.ev
        /\ worker'.pc = "backoff" => ~Fresh(worker.out)'
    <2>1. CASE worker' = worker
      BY <2>1 DEF FreshIsLater, Fresh
    <2>2. CASE worker'.pc \notin {"send", "backoff"}
      BY <2>2
    <2>3. QED
      BY <2>1, <2>2
  <1>10. QED
    BY <1>8, <1>9 DEF FreshIsLater, Fresh

\* Every step keeps the order of the fresh messages.
LEMMA FreshStep ==
  ASSUME TypeOK, InHand, EachMessageOnce, FreshIsLater, [Next]_vars PROVE FreshIsLater'
  <1>0. queue \in Seq(Message)
    BY DEF TypeOK
  <1>1. CASE RunTake \/ RunFanned \/ RunReturn
    BY <1>1, FreshQuiet DEF RunTake, RunFanned, RunReturn
  <1>2. CASE WorkerReturn \/ Cancel \/ UNCHANGED vars
    <2>1. /\ queue' = queue /\ delivered' = delivered
          /\ (worker' = worker /\ posted' = posted) \/ worker'.pc \notin {"send", "backoff"}
      BY <1>2 DEF WorkerReturn, Cancel, vars, Waiting
    <2>2. QED
      BY <2>1, FreshQuiet
  <1>3. CASE SendCanceled \/ SendError
    <2>1. queue' = queue /\ delivered' = delivered /\ worker'.pc \notin {"send", "backoff"}
      BY <1>3 DEF SendCanceled, SendError, Waiting
    <2>2. QED
      BY <2>1, FreshQuiet
  <1>4. CASE RunEnqueue
    <2>1. run.todo \in Seq(Chat) /\ run.todo # <<>> /\ run.pc = "fan" /\ run.ev \in Events
      BY <1>4 DEF RunEnqueue, TypeOK, InHand
    <2>2. Head(run.todo) \in Chat
      BY <2>1, QueueMoves
    <2>3. [chat |-> Head(run.todo), ev |-> run.ev, attempts |-> 0] \in Message
      BY <2>1, <2>2, SenderAssumption DEF Message
    <2>4. PICK m \in Message : m = [chat |-> Head(run.todo), ev |-> run.ev, attempts |-> 0]
      BY <2>3
    <2>5. m.chat = Head(run.todo) /\ m.ev = run.ev
      BY <2>4
    <2>6. Latest(m)
      BY <2>1, <2>5, RunIsLatest
    <2>7. /\ worker' = worker /\ delivered' = delivered /\ posted' = posted
          /\ queue' = Append(queue, m) \/ queue' = queue
      BY <1>4, <2>4 DEF RunEnqueue
    <2>8. QED
      BY <2>6, <2>7, FreshPut, FreshQuiet
  <1>5. CASE Retry
    <2>1. PICK m \in Message : m = worker.out
      BY <1>5 DEF Retry, InHand
    <2>2. PICK again : again = [worker.out EXCEPT !.attempts = @ + 1]
      OBVIOUS
    <2>3. again = [chat |-> m.chat, ev |-> m.ev, attempts |-> m.attempts + 1]
      BY <2>1, <2>2 DEF Message
    <2>4. ~Fresh(m)
      BY <1>5, <2>1 DEF Retry, FreshIsLater
    <2>5. ~Fresh(again)
      BY <2>3, <2>4 DEF Fresh
    <2>6. /\ worker'.pc \notin {"send", "backoff"} /\ delivered' = delivered /\ posted' = posted
      BY <1>5 DEF Retry, Waiting
    <2>7. CASE queue' = queue
      BY <2>6, <2>7, FreshQuiet
    <2>8. CASE queue' # queue
      <3>1. ~(again.attempts >= maxRetries) /\ queue' = Append(queue, again)
        BY <1>5, <2>2, <2>8 DEF Retry
      <3>2. m.attempts + 1 \in 0 .. maxRetries - 1
        BY <2>3, <3>1, SenderAssumption DEF Message
      <3>3. again \in Message
        BY <2>3, <3>2 DEF Message
      <3>4. QED
        BY <2>5, <2>6, <3>1, <3>3, FreshPut
    <2>9. QED
      BY <2>7, <2>8
  <1>6. CASE SendTooMany
    <2>1. PICK m \in Message : m = worker.out
      BY <1>6 DEF SendTooMany, InHand
    <2>2. /\ worker'.pc = "backoff" /\ worker.pc = "send" /\ worker'.out = worker.out
          /\ queue' = queue /\ delivered' = delivered /\ Posted(m)
      BY <1>6, <2>1 DEF SendTooMany, TypeOK
    <2>3. posted'[m.chat][m.ev] # 0
      BY <2>2, PostedTyped
    <2>4. ~Fresh(worker.out)'
      BY <2>1, <2>2, <2>3 DEF Fresh
    <2>5. QED
      BY <2>2, <2>4, FreshQuiet
  <1>7. CASE WorkerTake
    <2>1. PICK q \in Seq(Message) : q = queue
      BY <1>0
    <2>2. q # <<>>
      BY <1>7, <2>1 DEF WorkerTake
    <2>3. PICK t \in Seq(Message) : t = Tail(q)
      BY <2>2, QueueMoves
    <2>4. /\ Len(q) \in Nat \ {0} /\ DOMAIN q = 1 .. Len(q) /\ Head(q) = q[1]
          /\ DOMAIN t = 1 .. Len(q) - 1 /\ \A i \in 1 .. Len(q) - 1 : t[i] = q[i + 1]
      BY <2>2, <2>3, QueueMoves
    <2>5. /\ worker' = [pc |-> "send", out |-> q[1]] /\ queue' = t
          /\ delivered' = delivered /\ posted' = posted
      BY <1>7, <2>1, <2>3, <2>4 DEF WorkerTake
    <2>6. /\ 1 \in DOMAIN q
          /\ \A i \in DOMAIN t : i + 1 \in DOMAIN q /\ t[i] = q[i + 1] /\ 1 < i + 1
      BY <2>4
    <2>7. \A i, j \in DOMAIN t : i < j => i + 1 < j + 1
      BY <2>4
    <2>8. \A x : Fresh(x)' <=> Fresh(x)
      BY <2>5 DEF Fresh
    <2>9. \A j \in DOMAIN q : Fresh(q[j]) =>
            /\ \A i \in DOMAIN q : i < j /\ q[i].chat = q[j].chat => q[i].ev < q[j].ev
            /\ \A i \in DOMAIN delivered[q[j].chat] : delivered[q[j].chat][i] < q[j].ev
      BY <2>1 DEF FreshIsLater
    <2>10. ASSUME NEW j \in DOMAIN t, Fresh(t[j])
           PROVE  /\ \A i \in DOMAIN t : i < j /\ t[i].chat = t[j].chat => t[i].ev < t[j].ev
                  /\ q[1].chat = t[j].chat => q[1].ev < t[j].ev
                  /\ \A i \in DOMAIN delivered[t[j].chat] : delivered[t[j].chat][i] < t[j].ev
      <3>1. PICK k \in DOMAIN q : k = j + 1
        BY <2>6
      <3>2. t[j] = q[k] /\ 1 < k /\ Fresh(q[k])
        BY <2>6, <2>10, <3>1
      <3>3. \A i \in DOMAIN t : i < j => \E h \in DOMAIN q : t[i] = q[h] /\ h < k
        BY <2>6, <2>7, <3>1
      <3>4. QED
        BY <2>6, <2>9, <3>2, <3>3
    <2>11. Fresh(q[1]) => \A i \in DOMAIN delivered[q[1].chat] : delivered[q[1].chat][i] < q[1].ev
      BY <2>6, <2>9
    <2>12. worker'.pc = "send" /\ worker'.out = q[1]
      BY <2>5
    <2>13. QED
      BY <2>5, <2>8, <2>10, <2>11, <2>12 DEF FreshIsLater, Fresh
  <1>8. CASE SendOK
    <2>1. PICK m \in Message : m = worker.out
      BY <1>8 DEF SendOK, InHand
    <2>2. /\ worker.pc = "send" /\ queue' = queue /\ worker'.pc = "select"
          /\ delivered' = [delivered EXCEPT ![m.chat] = Append(delivered[m.chat], m.ev)]
      BY <1>8, <2>1 DEF SendOK, Waiting
    <2>3. ASSUME NEW j \in DOMAIN queue, Fresh(queue[j])'
          PROVE  /\ \A i \in DOMAIN queue :
                      i < j /\ queue[i].chat = queue[j].chat => queue[i].ev < queue[j].ev
                 /\ \A i \in DOMAIN delivered'[queue[j].chat] :
                      delivered'[queue[j].chat][i] < queue[j].ev
      <3>1. queue[j] \in Message
        BY <1>0
      <3>2. PICK f \in Message : f = queue[j]
        BY <3>1
      <3>3. Fresh(f)
        BY <2>2, <2>3, <3>2, CallsGrow DEF Fresh
      <3>4. /\ \A i \in DOMAIN queue : i < j /\ queue[i].chat = f.chat => queue[i].ev < f.ev
            /\ m.chat = f.chat => m.ev < f.ev
            /\ \A i \in DOMAIN delivered[f.chat] : delivered[f.chat][i] < f.ev
        BY <2>1, <2>2, <3>2, <3>3 DEF FreshIsLater
      <3>5. \A i \in DOMAIN delivered'[f.chat] : delivered'[f.chat][i] < f.ev
        <4>1. CASE f.chat = m.chat
          <5>1. m.chat \in Chat /\ m.ev \in Events /\ delivered[m.chat] \in Seq(Events)
            BY DEF Message, TypeOK
          <5>2. PICK d \in Seq(Events) : d = delivered[m.chat]
            BY <5>1
          <5>3. delivered'[m.chat] = Append(d, m.ev)
            BY <2>2, <5>1, <5>2 DEF TypeOK
          <5>4. /\ Len(d) \in Nat /\ DOMAIN d = 1 .. Len(d)
                /\ DOMAIN Append(d, m.ev) = 1 .. Len(d) + 1
                /\ Append(d, m.ev)[Len(d) + 1] = m.ev
                /\ \A i \in 1 .. Len(d) : Append(d, m.ev)[i] = d[i]
            BY <5>1, QueueMoves
          <5>5. \A i \in 1 .. Len(d) + 1 : i = Len(d) + 1 \/ i \in 1 .. Len(d)
            BY <5>4
          <5>6. QED
            BY <3>4, <4>1, <5>2, <5>3, <5>4, <5>5
        <4>2. CASE f.chat # m.chat
          <5>1. f.chat \in Chat
            BY DEF Message
          <5>2. delivered'[f.chat] = delivered[f.chat]
            BY <2>2, <4>2, <5>1 DEF TypeOK
          <5>3. QED
            BY <3>4, <5>2
        <4>3. QED
          BY <4>1, <4>2
      <3>6. QED
        BY <3>2, <3>4, <3>5
    <2>4. QED
      BY <2>2, <2>3 DEF FreshIsLater, Fresh
  <1>9. QED
    BY <1>1, <1>2, <1>3, <1>4, <1>5, <1>6, <1>7, <1>8 DEF Next, Run, Worker

\* What a chat gets after a later message has been refused before: the only steps that
\* add to what a chat has got send a message that is fresh, and so the latest, or not.
LEMMA LateStep ==
  ASSUME TypeOK, InHand, FreshIsLater, LateOnlyIfRetried, [Next]_vars
  PROVE  LateOnlyIfRetried'
  <1> SUFFICES ASSUME NEW c \in Chat, NEW i \in DOMAIN delivered'[c], NEW j \in DOMAIN delivered'[c],
                      i < j, delivered'[c][i] > delivered'[c][j]
               PROVE  posted'[c][delivered'[c][j]] > 1
    BY DEF LateOnlyIfRetried
  <1>1. delivered[c] \in Seq(Events)
    BY DEF TypeOK
  <1>2. PICK d \in Seq(Events) : d = delivered[c]
    BY <1>1
  <1>3. Len(d) \in Nat /\ DOMAIN d = 1 .. Len(d) /\ Events \subseteq Nat
    BY <1>2, QueueMoves, SenderAssumption DEF Events
  <1>4. ASSUME i \in DOMAIN d, j \in DOMAIN d, d[i] > d[j] PROVE posted'[c][d[j]] > 1
    <2>1. posted[c][d[j]] > 1
      BY <1>2, <1>4 DEF LateOnlyIfRetried
    <2>2. PICK e \in Events : e = d[j]
      BY <1>4
    <2>3. posted[c][e] \in Nat /\ posted'[c][e] \in Nat /\ posted'[c][e] >= posted[c][e]
      BY CallsGrow
    <2>4. QED
      BY <2>1, <2>2, <2>3
  <1>5. CASE delivered'[c] = delivered[c]
    BY <1>2, <1>4, <1>5
  <1>6. CASE SendOK /\ worker.out.chat = c
    <2>1. PICK m \in Message : m = worker.out
      BY <1>6 DEF SendOK, InHand
    <2>2. m.chat = c /\ m.ev \in Events
      BY <1>6, <2>1 DEF Message
    <2>3. worker.pc = "send" /\ Posted(m) /\ delivered'[c] = Append(d, m.ev)
      BY <1>2, <1>6, <2>1 DEF SendOK, TypeOK
    <2>4. /\ DOMAIN Append(d, m.ev) = 1 .. Len(d) + 1 /\ Append(d, m.ev)[Len(d) + 1] = m.ev
          /\ \A k \in 1 .. Len(d) : Append(d, m.ev)[k] = d[k]
      BY <2>2, QueueMoves
    <2>5. i \in DOMAIN d
      BY <1>3, <2>3, <2>4
    <2>6. CASE j \in DOMAIN d
      BY <1>3, <1>4, <2>3, <2>4, <2>5, <2>6
    <2>7. CASE j = Len(d) + 1
      <3>1. d[i] > m.ev
        BY <1>3, <2>3, <2>4, <2>5, <2>7
      <3>2. ~Fresh(m)
        <4>1. Fresh(m) => d[i] < m.ev
          BY <1>2, <2>1, <2>2, <2>3, <2>5 DEF FreshIsLater
        <4>2. d[i] \in Nat /\ m.ev \in Nat
          <5>1. d[i] \in Events
            BY <2>5
          <5>2. QED
            BY <1>3, <2>2, <5>1
        <4>3. QED
          BY <3>1, <4>1, <4>2
      <3>3. posted'[m.chat][m.ev] > 1
        BY <2>3, <3>2, PostedTyped DEF Fresh
      <3>4. QED
        BY <2>2, <2>3, <2>4, <2>7, <3>3
    <2>8. QED
      BY <1>3, <2>3, <2>4, <2>6, <2>7
  <1>7. delivered'[c] = delivered[c] \/ (SendOK /\ worker.out.chat = c)
    <2>1. CASE SendOK
      BY <2>1 DEF SendOK, TypeOK
    <2>2. CASE RunTake \/ RunEnqueue \/ RunFanned \/ RunReturn \/ WorkerTake \/ WorkerReturn
      BY <2>2 DEF RunTake, RunEnqueue, RunFanned, RunReturn, WorkerTake, WorkerReturn
    <2>3. CASE SendError \/ SendTooMany \/ SendCanceled \/ Retry \/ Cancel \/ UNCHANGED vars
      BY <2>3 DEF SendError, SendTooMany, SendCanceled, Retry, Cancel, vars
    <2>4. QED
      BY <2>1, <2>2, <2>3 DEF Next, Run, Worker
  <1>8. QED
    BY <1>5, <1>6, <1>7

-----------------------------------------------------------------------------
\* Nothing is anywhere at the start.
LEMMA InitInv == Init => SenderInv
  <1> SUFFICES ASSUME Init PROVE SenderInv
    OBVIOUS
  <1>1. /\ MaxEvents \in Nat /\ maxRetries \in Nat \ {0} /\ QueueCap \in Nat \ {0}
    BY SenderAssumption
  <1>2. /\ DOMAIN <<>> = {} /\ <<>> \in Seq(Chat) /\ <<>> \in Seq(Message) /\ Len(<<>>) = 0
        /\ <<>> \in Seq(Events)
    OBVIOUS
  <1>3. /\ run = [pc |-> "select", ev |-> 0, todo |-> <<>>]
        /\ worker = [pc |-> "select", out |-> NoMessage]
        /\ canceled = FALSE /\ next = 1 /\ queue = <<>> /\ dropped = {}
        /\ delivered = [c \in Chat |-> <<>>]
        /\ posted = [c \in Chat |-> [e \in Events |-> 0]]
    BY DEF Init, Reading, Waiting
  <1>4. TypeOK
    <2>1. run \in [pc : {"select", "fan", "returned"}, ev : 0 .. MaxEvents, todo : Seq(Chat)]
      BY <1>1, <1>2, <1>3
    <2>2. worker \in [pc : {"select", "send", "backoff", "returned"}, out : Message \cup {NoMessage}]
      BY <1>3
    <2>3. [e \in Events |-> 0] \in [Events -> 0 .. maxRetries + 1]
      BY <1>1
    <2>4. /\ canceled \in BOOLEAN /\ next \in 1 .. MaxEvents + 1
          /\ queue \in Seq(Message) /\ Len(queue) <= QueueCap
      <3>1. canceled \in BOOLEAN /\ queue \in Seq(Message)
        BY <1>2, <1>3
      <3>2. 1 \in 1 .. MaxEvents + 1 /\ 0 <= QueueCap
        BY <1>1
      <3>3. QED
        BY <1>2, <1>3, <3>1, <3>2
    <2>5. delivered \in [Chat -> Seq(Events)] /\ posted \in [Chat -> [Events -> 0 .. maxRetries + 1]]
      BY <1>2, <1>3, <2>3
    <2>6. QED
      BY <1>3, <2>1, <2>2, <2>4, <2>5 DEF TypeOK
  <1>5. InHand
    BY <1>2, <1>3, FS_EmptySet DEF InHand
  <1>6. EachMessageOnce
    <2> SUFFICES ASSUME NEW c \in Chat, NEW e \in Events PROVE Places(c, e) = IF e < next THEN 1 ELSE 0
      BY DEF EachMessageOnce
    <2>1. Cardinality({}) = 0
      BY FS_EmptySet
    <2>2. ToQueue(c, e) = 0 /\ Handed(c, e) = 0
      BY <1>2, <1>3 DEF ToQueue, Handed
    <2>3. Mine(queue, c, e) = {} /\ {i \in DOMAIN delivered[c] : delivered[c][i] = e} = {}
          /\ {d \in dropped : d.ev = e /\ d.chat = c} = {}
      BY <1>2, <1>3 DEF Mine
    <2>4. Queued(c, e) = 0 /\ Arrived(c, e) = 0 /\ Given(c, e) = 0
      BY <2>1, <2>3 DEF Queued, Arrived, Given
    <2>5. Places(c, e) = ToQueue(c, e) + Queued(c, e) + Handed(c, e) + Arrived(c, e) + Given(c, e)
      BY <1>4, <1>5, Parts
    <2>6. ~(e < next)
      BY <1>1, <1>3 DEF Events
    <2>7. QED
      BY <2>2, <2>4, <2>5, <2>6
  <1>7. FreshIsLater
    BY <1>2, <1>3 DEF FreshIsLater
  <1>8. LateOnlyIfRetried
    BY <1>2, <1>3 DEF LateOnlyIfRetried
  <1>9. QED
    BY <1>4, <1>5, <1>6, <1>7, <1>8 DEF SenderInv

\* The invariant of the sender.
LEMMA SenderInvariant == Spec => []SenderInv
  <1>1. SenderInv /\ [Next]_vars => SenderInv'
    BY TypeStep, OnceStep, FreshStep, LateStep DEF SenderInv
  <1>2. QED
    BY InitInv, <1>1, PTL DEF Spec

\* For any number of chats and events, every capacity of the queue and every bound on the
\* retries: an event is, for every chat, in exactly one place, so that no retry sends a
\* message twice over or forgets it (Run, worker, and the re-queue after a 429), and only a
\* message that was refused before reaches its chat after a later one.
THEOREM MessagesAreOnce == Spec => []SenderSafe
  <1>1. SenderInv => SenderSafe
    BY DEF SenderInv, SenderSafe
  <1>2. QED
    BY SenderInvariant, <1>1, PTL

=============================================================================
