-------------------------- MODULE FlowIngestProofs --------------------------
(***************************************************************************)
(* Proofs about FlowIngest, for every inventory, every number of listeners *)
(* and every capacity, window and delay the assumptions allow.             *)
(***************************************************************************)
EXTENDS FlowIngest, TLAPS

\* No datagram comes from the future, and none waits longer than MaxDelay.
Waiting ==
  \A l \in Listeners : \A i \in DOMAIN queue[l] :
    queue[l][i].at <= clock /\ clock - queue[l][i].at <= MaxDelay

\* What is observed was accepted before, and what is accepted is observed or is
\* about to be; the tracker's last second is that of a record it has observed,
\* and the newest one while the stamps come in order.
Reported ==
  /\ \A l \in sent : Next1(l).at \in accepted[Next1(l).from]
  /\ \A e \in Exporters :
       /\ \A t \in Times : observed[e][t] > 0 => t \in accepted[e] /\ t <= clock /\ e \in seen
       /\ \A t \in accepted[e] :
            observed[e][t] > 0 \/ \E l \in sent : Next1(l).from = e /\ Next1(l).at = t
       /\ e \in seen => observed[e][lastSeen[e]] > 0
       /\ lastBucketSec[e] = lastSeen[e]
       /\ e \notin seen => \A i \in Slots : buckets[e][i] = 0
       /\ e \notin late => \A t \in Times : observed[e][t] > 0 => t <= lastSeen[e]

\* The ring holds the last records, each at its place.
Buffered ==
  /\ head = Len(applied) % RecentCap
  /\ full <=> Len(applied) >= RecentCap
  /\ \A k \in 1 .. Len(applied) :
       Len(applied) - k < RecentCap => ring[(k - 1) % RecentCap] = applied[k]

IngestInv == TypeOK /\ Waiting /\ Reported /\ RateTrue /\ Buffered

-----------------------------------------------------------------------------
(* Lemmas about the operators.                                             *)

\* The head of a queue, and what is left of it.
LEMMA TakeHead ==
  ASSUME NEW S, NEW q \in Seq(S), q # <<>>
  PROVE  /\ 1 \in DOMAIN q /\ Head(q) = q[1] /\ Head(q) \in S
         /\ Tail(q) \in Seq(S) /\ Len(Tail(q)) = Len(q) - 1
         /\ \A i \in DOMAIN Tail(q) : i + 1 \in DOMAIN q /\ Tail(q)[i] = q[i + 1]
  OBVIOUS

\* What is in a queue is of its type.
LEMMA InQueue == ASSUME NEW S, NEW q \in Seq(S), NEW i \in DOMAIN q PROVE q[i] \in S
  OBVIOUS

\* What is put at the end of a queue comes after everything that is in it.
LEMMA PutLast ==
  ASSUME NEW S, NEW q \in Seq(S), NEW x \in S
  PROVE  /\ Append(q, x) \in Seq(S) /\ Len(Append(q, x)) = Len(q) + 1
         /\ Append(q, x) # <<>>
         /\ DOMAIN Append(q, x) = DOMAIN q \cup {Len(q) + 1}
         /\ Append(q, x)[Len(q) + 1] = x
         /\ \A i \in DOMAIN q : Append(q, x)[i] = q[i]
         /\ q # <<>> => Head(Append(q, x)) = Head(q)
  OBVIOUS

\* Every second has a bucket.
LEMMA SlotInWindow == ASSUME NEW s \in Int PROVE Slot(s) \in Slots
  BY IngestAssumption DEF Slot, Slots

\* The remainder of a quotient, as a multiple and a rest.
LEMMA Remainder ==
  ASSUME NEW n \in Nat \ {0}, NEW a \in Int
  PROVE  /\ a % n \in 0 .. n - 1
         /\ \E p \in Int : a = n * p + (a % n)
  <1>1. a \div n \in Int /\ a = n * (a \div n) + (a % n) /\ a % n \in 0 .. n - 1
    BY Z3
  <1>2. QED
    BY <1>1

\* Two numbers with the same remainder are a multiple of n apart.
LEMMA SameRemainder ==
  ASSUME NEW n \in Nat \ {0}, NEW a \in Int, NEW b \in Int, a < b, a % n = b % n
  PROVE  b - a >= n
  <1>1. PICK p \in Int : a = n * p + (a % n)
    BY Remainder
  <1>2. PICK q \in Int : b = n * q + (b % n)
    BY Remainder
  <1>3. a % n \in Int /\ b - a = n * (q - p)
    BY <1>1, <1>2, Remainder
  <1>4. q - p >= 1
    BY <1>3
  <1>5. n * (q - p) >= n
    BY <1>4
  <1>6. QED
    BY <1>3, <1>5

\* Two remainders are not a multiple of n apart, unless they are the same.
LEMMA OneRest ==
  ASSUME NEW n \in Nat \ {0}, NEW x \in 0 .. n - 1, NEW y \in 0 .. n - 1, NEW k \in Int,
         n * k = y - x
  PROVE  x = y
  <1>1. CASE k >= 1
    <2>1. n * k >= n
      BY <1>1
    <2>2. QED
      BY <2>1
  <1>2. CASE k <= -1
    <2>1. n * k <= -n
      BY <1>2
    <2>2. QED
      BY <2>1
  <1>3. CASE k = 0
    BY <1>3
  <1>4. QED
    BY <1>1, <1>2, <1>3

\* Numbers that are a multiple of n apart have the same remainder.
LEMMA Apart ==
  ASSUME NEW n \in Nat \ {0}, NEW a \in Int, NEW b \in Int, NEW p \in Int, a = b + n * p
  PROVE  a % n = b % n
  <1> DEFINE x == a % n
             y == b % n
  <1>1. x \in 0 .. n - 1 /\ y \in 0 .. n - 1
    BY Remainder
  <1>2. PICK q \in Int : a = n * q + x
    BY Remainder
  <1>3. PICK r \in Int : b = n * r + y
    BY Remainder
  <1> HIDE DEF x, y
  <1>4. n * (q - r - p) = y - x
    BY <1>1, <1>2, <1>3
  <1>5. x = y
    BY <1>1, <1>4, OneRest
  <1>6. QED
    BY <1>5 DEF x, y

\* Going back from a remainder is going back from the number.
LEMMA BackFrom ==
  ASSUME NEW n \in Nat \ {0}, NEW a \in Int, NEW i \in Int
  PROVE  ((a % n) - i) % n = (a - i) % n
  <1> DEFINE x == a % n
  <1>1. x \in Int
    BY Remainder
  <1>2. PICK p \in Int : a = n * p + x
    BY Remainder
  <1> HIDE DEF x
  <1>3. a - i \in Int /\ x - i \in Int /\ a - i = (x - i) + n * p
    BY <1>1, <1>2
  <1>4. (a - i) % n = (x - i) % n
    BY <1>3, Apart
  <1>5. QED
    BY <1>4 DEF x

\* The place after a remainder is that of the next number.
LEMMA NextPlace ==
  ASSUME NEW n \in Nat \ {0}, NEW a \in Int
  PROVE  ((a % n) + 1) % n = (a + 1) % n
  <1> DEFINE x == a % n
  <1>1. x \in Int
    BY Remainder
  <1>2. PICK p \in Int : a = n * p + x
    BY Remainder
  <1> HIDE DEF x
  <1>3. a + 1 \in Int /\ x + 1 \in Int /\ a + 1 = (x + 1) + n * p
    BY <1>1, <1>2
  <1>4. (a + 1) % n = (x + 1) % n
    BY <1>3, Apart
  <1>5. QED
    BY <1>4 DEF x

\* Two seconds of one window have buckets of their own.
LEMMA OwnSlot ==
  ASSUME NEW s \in Int, NEW t \in Int, s # t, s < t + RateWindow, t < s + RateWindow
  PROVE  Slot(s) # Slot(t)
  <1>1. RateWindow \in Nat \ {0}
    BY IngestAssumption
  <1> DEFINE n == RateWindow
  <1> SUFFICES ASSUME s % n = t % n PROVE FALSE
    BY DEF Slot
  <1> HIDE DEF n
  <1>2. n \in Nat \ {0} /\ s < t + n /\ t < s + n
    BY <1>1 DEF n
  <1>3. CASE s < t
    <2>1. t - s >= n
      BY <1>2, <1>3, SameRemainder
    <2>2. QED
      BY <1>2, <2>1
  <1>4. CASE t < s
    <2>1. s - t >= n
      BY <1>2, <1>4, SameRemainder
    <2>2. QED
      BY <1>2, <2>1
  <1>5. QED
    BY <1>3, <1>4
-----------------------------------------------------------------------------
(* The invariant.                                                          *)

\* Nothing has been received, and the buffers are empty.
LEMMA InitInv == Init => IngestInv
  <1> SUFFICES ASSUME Init PROVE IngestInv
    OBVIOUS
  <1> USE IngestAssumption DEF Init
  <1>1. TypeOK
    <2>1. <<>> \in Seq(Flow) /\ <<>> \in Seq([from : Exporters \cup Strangers, at : Times])
          /\ Len(<<>>) = 0
      OBVIOUS
    <2>2. 0 \in Times /\ clock \in RateWindow .. MaxTime /\ received \in 0 .. MaxFlows
          /\ 0 \in 0 .. RecentCap - 1
      BY DEF Times
    <2>3. /\ lastSeen \in [Exporters -> Times] /\ lastBucketSec \in [Exporters -> Times]
          /\ buckets \in [Exporters -> [Slots -> Nat]]
          /\ accepted \in [Exporters -> SUBSET Times]
          /\ observed \in [Exporters -> [Times -> Nat]]
      BY <2>2
    <2>4. ring \in [0 .. RecentCap - 1 -> Flow \cup {NoFlow}]
      OBVIOUS
    <2>5. queue \in [Listeners -> Seq([from : Exporters \cup Strangers, at : Times])]
      BY <2>1
    <2>6. /\ head \in 0 .. RecentCap - 1 /\ full \in BOOLEAN /\ drops \in Nat
          /\ sent = {} /\ seen = {} /\ late = {}
      BY <2>2
    <2>7. out \in Seq(Flow) /\ Len(out) <= OutCap /\ applied \in Seq(Flow)
      BY <2>1
    <2>8. QED
      BY <2>2, <2>3, <2>4, <2>5, <2>6, <2>7 DEF TypeOK
  <1>2. Waiting /\ Reported
    BY DEF Waiting, Reported
  <1>3. RateTrue
    BY DEF RateTrue, InWindow
  <1>4. Buffered
    <2>1. RecentCap \in Nat \ {0} /\ Len(applied) = 0
      OBVIOUS
    <2>2. 0 % RecentCap = 0
      BY <2>1, Z3
    <2>3. QED
      BY <2>1, <2>2 DEF Buffered
  <1>5. QED
    BY <1>1, <1>2, <1>3, <1>4 DEF IngestInv

\* A listener stamps what it receives with the current second, and time passes
\* only while no datagram waits too long.
LEMMA ListenerInv ==
  ASSUME IngestInv,
         \/ \E l \in Listeners, a \in Exporters \cup Strangers : Receive(l, a)
         \/ Second \/ UNCHANGED vars
  PROVE  IngestInv'
  <1> USE DEF flowVars, healthVars, writerVars, Next1
  <1>1. TypeOK /\ Waiting /\ Reported /\ RateTrue /\ Buffered
    BY DEF IngestInv
  <1>2. UNCHANGED <<sent, out, drops, accepted, seen, lastSeen, lastBucketSec, buckets,
                    observed, late, ring, head, full, applied>>
    BY DEF Receive, Second, vars
  <1>3. RateTrue' /\ Buffered'
    BY <1>1, <1>2 DEF RateTrue, InWindow, Buffered
  <1>4. clock \in Nat /\ clock <= MaxTime /\ RateWindow \in Nat /\ MaxTime \in Nat /\ MaxDelay \in Nat
        /\ RateWindow <= clock
    BY <1>1, IngestAssumption DEF TypeOK
  <1>5. ASSUME NEW l \in Listeners, NEW a \in Exporters \cup Strangers, Receive(l, a)
        PROVE  IngestInv'
    <2> DEFINE S == [from : Exporters \cup Strangers, at : Times]
               x == [from |-> a, at |-> clock]
               q == queue[l]
    <2>1. /\ clock' = clock /\ received < MaxFlows /\ received' = received + 1
          /\ queue' = [queue EXCEPT ![l] = Append(q, x)]
      BY <1>5 DEF Receive
    <2>2. clock \in Times /\ queue \in [Listeners -> Seq(S)]
      <3>1. clock \in Times
        BY <1>4 DEF Times
      <3>2. queue \in [Listeners -> Seq(S)]
        BY <1>1 DEF TypeOK
      <3>3. QED
        BY <3>1, <3>2
    <2>3. x \in S /\ x.at = clock
      BY <2>2
    <2> HIDE DEF x, S
    <2>4. q \in Seq(S) /\ Append(q, x) \in Seq(S)
      BY <2>2, <2>3, PutLast
    <2>5. /\ queue' \in [Listeners -> Seq(S)] /\ queue'[l] = Append(q, x)
          /\ \A k \in Listeners \ {l} : queue'[k] = queue[k]
      BY <2>1, <2>2, <2>4
    <2>6. /\ queue'[l] # <<>>
          /\ DOMAIN queue'[l] = DOMAIN q \cup {Len(q) + 1}
          /\ queue'[l][Len(q) + 1] = x
          /\ \A i \in DOMAIN q : queue'[l][i] = q[i]
          /\ q # <<>> => Head(queue'[l]) = Head(q)
      BY <2>5, <2>3, <2>4, PutLast
    <2>7. \A k \in sent : queue'[k] # <<>> /\ Head(queue'[k]) = Head(queue[k])
      BY <1>1, <2>5, <2>6 DEF TypeOK
    <2>8. TypeOK'
      <3>1. received' \in 0 .. MaxFlows
        BY <1>1, <2>1, IngestAssumption DEF TypeOK
      <3>2. sent' \subseteq {k \in Listeners : queue'[k] # <<>> /\ Head(queue'[k]).from \in Exporters}
        BY <1>1, <1>2, <2>7 DEF TypeOK
      <3>3. queue' \in [Listeners -> Seq([from : Exporters \cup Strangers, at : Times])]
        BY <2>5 DEF S
      <3>4. QED
        BY <1>1, <1>2, <2>1, <3>1, <3>2, <3>3 DEF TypeOK
    <2>9. Waiting'
      BY <1>1, <1>4, <2>1, <2>3, <2>5, <2>6 DEF Waiting
    <2>10. Reported'
      BY <1>1, <1>2, <2>1, <2>7 DEF Reported
    <2>11. QED
      BY <1>3, <2>8, <2>9, <2>10 DEF IngestInv
  <1>6. CASE Second
    <2>1. /\ clock < MaxTime /\ clock' = clock + 1 /\ UNCHANGED <<queue, received>>
          /\ \A l \in Listeners : \A i \in DOMAIN queue[l] : clock - queue[l][i].at < MaxDelay
      BY <1>6 DEF Second
    <2>2. \A l \in Listeners : \A i \in DOMAIN queue[l] : queue[l][i].at \in Nat
      <3> SUFFICES ASSUME NEW l \in Listeners, NEW i \in DOMAIN queue[l]
                   PROVE  queue[l][i].at \in Nat
        OBVIOUS
      <3> DEFINE S == [from : Exporters \cup Strangers, at : Times]
      <3>1. queue[l] \in Seq(S)
        BY <1>1 DEF TypeOK
      <3> HIDE DEF S
      <3>2. queue[l][i] \in S
        BY <3>1, InQueue
      <3>3. QED
        BY <3>2 DEF S, Times
    <2>3. TypeOK'
      <3>1. clock' \in RateWindow .. MaxTime
        BY <1>4, <2>1
      <3>2. QED
        BY <1>1, <1>2, <2>1, <3>1 DEF TypeOK
    <2>4. Waiting'
      BY <1>1, <1>4, <2>1, <2>2 DEF Waiting
    <2>5. Reported'
      <3>1. \A t \in Times : t <= clock => t <= clock'
        BY <1>4, <2>1 DEF Times
      <3>2. QED
        BY <1>1, <1>2, <2>1, <3>1 DEF Reported
    <2>6. QED
      BY <1>3, <2>3, <2>4, <2>5 DEF IngestInv
  <1>7. CASE UNCHANGED vars
    <2>1. UNCHANGED <<clock, queue, received>>
      BY <1>7 DEF vars
    <2>2. TypeOK'
      BY <1>1, <1>2, <2>1 DEF TypeOK
    <2>3. Waiting' /\ Reported'
      BY <1>1, <1>2, <2>1 DEF Waiting, Reported
    <2>4. QED
      BY <1>3, <2>2, <2>3 DEF IngestInv
  <1>8. QED
    BY <1>5, <1>6, <1>7


\* What a worker has at the head of its queue.
LEMMA HeadFacts ==
  ASSUME TypeOK, Waiting, NEW l \in Listeners, queue[l] # <<>>
  PROVE  /\ Next1(l) \in [from : Exporters \cup Strangers, at : Times]
         /\ Next1(l).at \in Nat /\ Next1(l).at <= clock /\ clock - Next1(l).at <= MaxDelay
         /\ Next1(l).from \in Exporters => Next1(l) \in Flow
  <1> DEFINE S == [from : Exporters \cup Strangers, at : Times]
  <1>1. queue[l] \in Seq(S)
    BY DEF TypeOK
  <1> HIDE DEF S
  <1>2. 1 \in DOMAIN queue[l] /\ Next1(l) = queue[l][1] /\ Next1(l) \in S
    BY <1>1, TakeHead DEF Next1
  <1>3. Next1(l).at <= clock /\ clock - Next1(l).at <= MaxDelay
    BY <1>2 DEF Waiting
  <1>4. Next1(l).at \in Nat /\ (Next1(l).from \in Exporters => Next1(l) \in Flow)
    BY <1>2 DEF S, Flow, Times
  <1>5. QED
    BY <1>2, <1>3, <1>4 DEF S

\* A worker that is done with a datagram changes no other queue.
LEMMA DoneFacts ==
  ASSUME TypeOK, Waiting, NEW l \in Listeners, queue[l] # <<>>, Done(l), clock' = clock
  PROVE  /\ queue' \in [Listeners -> Seq([from : Exporters \cup Strangers, at : Times])]
         /\ \A k \in Listeners \ {l} : queue'[k] = queue[k]
         /\ Waiting'
  <1> DEFINE S == [from : Exporters \cup Strangers, at : Times]
  <1>1. queue \in [Listeners -> Seq(S)] /\ queue' = [queue EXCEPT ![l] = Tail(@)]
    BY DEF TypeOK, Done
  <1> HIDE DEF S
  <1>2. /\ queue[l] \in Seq(S) /\ Tail(queue[l]) \in Seq(S)
        /\ \A i \in DOMAIN Tail(queue[l]) :
             i + 1 \in DOMAIN queue[l] /\ Tail(queue[l])[i] = queue[l][i + 1]
    BY <1>1, TakeHead
  <1>3. /\ queue' \in [Listeners -> Seq(S)] /\ queue'[l] = Tail(queue[l])
        /\ \A k \in Listeners \ {l} : queue'[k] = queue[k]
    BY <1>1, <1>2
  <1>4. Waiting'
    <2> SUFFICES ASSUME NEW k \in Listeners, NEW i \in DOMAIN queue'[k]
                 PROVE  queue'[k][i].at <= clock /\ clock - queue'[k][i].at <= MaxDelay
      BY DEF Waiting
    <2>1. CASE k = l
      <3>1. i + 1 \in DOMAIN queue[l] /\ queue'[l][i] = queue[l][i + 1]
        BY <1>2, <1>3, <2>1
      <3>2. queue[l][i + 1].at <= clock /\ clock - queue[l][i + 1].at <= MaxDelay
        BY <3>1 DEF Waiting
      <3>3. QED
        BY <2>1, <3>1, <3>2
    <2>2. CASE k # l
      BY <1>3, <2>2 DEF Waiting
    <2>3. QED
      BY <2>1, <2>2
  <1>5. QED
    BY <1>3, <1>4 DEF S

\* Produce: what the channel takes is accepted and about to be observed; what is
\* refused, or comes from a stranger, leaves no trace but the count of drops.
LEMMA ProduceInv ==
  ASSUME IngestInv, NEW l \in Listeners, ProduceUnknown(l) \/ Produce(l)
  PROVE  IngestInv'
  <1> USE DEF flowVars, healthVars, writerVars
  <1>1. TypeOK /\ Waiting /\ Reported /\ RateTrue /\ Buffered
    BY DEF IngestInv
  <1>2. /\ UNCHANGED <<clock, received, seen, lastSeen, lastBucketSec, buckets, observed, late,
                       ring, head, full, applied>>
        /\ queue[l] # <<>> /\ l \notin sent
    BY <1>1 DEF ProduceUnknown, Produce, TypeOK
  <1>3. RateTrue' /\ Buffered'
    BY <1>1, <1>2 DEF RateTrue, InWindow, Buffered
  <1> DEFINE x == Next1(l)
  <1>4. /\ x \in [from : Exporters \cup Strangers, at : Times]
        /\ x.from \in Exporters => x \in Flow
    BY <1>1, <1>2, HeadFacts
  <1>5. CASE Done(l) /\ drops' \in Nat /\ UNCHANGED <<sent, out, accepted>>
    <2>1. /\ queue' \in [Listeners -> Seq([from : Exporters \cup Strangers, at : Times])]
          /\ \A k \in Listeners \ {l} : queue'[k] = queue[k]
          /\ Waiting'
      BY <1>1, <1>2, <1>5, DoneFacts
    <2>2. \A k \in sent : queue'[k] = queue[k]
      BY <1>1, <1>2, <2>1 DEF TypeOK
    <2>3. TypeOK'
      <3>1. sent' \subseteq {k \in Listeners : queue'[k] # <<>> /\ Head(queue'[k]).from \in Exporters}
        BY <1>1, <1>5, <2>2 DEF TypeOK, Next1
      <3>2. QED
        BY <1>1, <1>2, <1>5, <2>1, <3>1 DEF TypeOK, Next1
    <2>4. Reported'
      BY <1>1, <1>2, <1>5, <2>2 DEF Reported, Next1
    <2>5. QED
      BY <1>3, <2>1, <2>3, <2>4 DEF IngestInv
  <1>6. CASE /\ x.from \in Exporters /\ Len(out) < OutCap
             /\ out' = Append(out, x)
             /\ accepted' = [accepted EXCEPT ![x.from] = @ \cup {x.at}]
             /\ sent' = sent \cup {l} /\ UNCHANGED <<queue, drops>>
    <2>1. out' \in Seq(Flow) /\ Len(out') <= OutCap
      <3>1. x \in Flow /\ out \in Seq(Flow)
        BY <1>1, <1>4, <1>6 DEF TypeOK
      <3>2. Append(out, x) \in Seq(Flow) /\ Len(Append(out, x)) = Len(out) + 1 /\ Len(out) \in Nat
        BY <3>1, PutLast
      <3>3. QED
        BY <1>6, <3>2, IngestAssumption
    <2>2. /\ accepted' \in [Exporters -> SUBSET Times]
          /\ accepted'[x.from] = accepted[x.from] \cup {x.at}
          /\ \A e \in Exporters \ {x.from} : accepted'[e] = accepted[e]
      <3>1. x.at \in Times /\ accepted \in [Exporters -> SUBSET Times]
        BY <1>1, <1>4 DEF TypeOK
      <3>2. QED
        BY <1>6, <3>1
    <2>3. TypeOK'
      BY <1>1, <1>2, <1>6, <2>1, <2>2 DEF TypeOK, Next1
    <2>4. Waiting'
      BY <1>1, <1>2, <1>6 DEF Waiting
    <2>5. Reported'
      <3>1. \A k \in Listeners : Next1(k)' = Next1(k)
        BY <1>6 DEF Next1
      <3>2. \A k \in sent' : k \in Listeners /\ Next1(k).from \in Exporters
        BY <1>1, <1>6 DEF TypeOK
      <3> HIDE DEF x
      <3>3. x = Next1(l)
        BY DEF x
      <3>4. \A k \in sent' : Next1(k)'.at \in accepted'[Next1(k)'.from]
        BY <1>1, <1>6, <2>2, <3>1, <3>2, <3>3 DEF Reported
      <3>5. \A e \in Exporters : \A t \in accepted'[e] :
              observed'[e][t] > 0 \/ \E k \in sent' : Next1(k)'.from = e /\ Next1(k)'.at = t
        <4> SUFFICES ASSUME NEW e \in Exporters, NEW t \in accepted'[e]
                     PROVE  observed'[e][t] > 0 \/ \E k \in sent' : Next1(k)'.from = e /\ Next1(k)'.at = t
          OBVIOUS
        <4>1. CASE t \in accepted[e]
          BY <1>1, <1>2, <1>6, <3>1, <3>2, <4>1 DEF Reported
        <4>2. CASE t \notin accepted[e]
          BY <1>6, <2>2, <3>1, <3>3, <4>2
        <4>3. QED
          BY <4>1, <4>2
      <3>6. QED
        BY <1>1, <1>2, <1>6, <2>2, <3>4, <3>5 DEF Reported
    <2>6. QED
      BY <1>3, <2>3, <2>4, <2>5 DEF IngestInv
  <1>7. QED
    <2>1. CASE ProduceUnknown(l)
      BY <1>1, <1>5, <2>1 DEF ProduceUnknown, TypeOK
    <2>2. CASE Produce(l)
      BY <1>1, <1>5, <1>6, <2>2 DEF Produce, TypeOK
    <2>3. QED
      BY <2>1, <2>2


\* The writer puts a record in the place of the oldest one (Push).
LEMMA WriteInv ==
  ASSUME IngestInv, Write
  PROVE  IngestInv'
  <1> DEFINE x == Head(out)
  <1>1. TypeOK /\ Waiting /\ Reported /\ RateTrue /\ Buffered
    BY DEF IngestInv
  <1>2. UNCHANGED <<clock, queue, sent, drops, accepted, seen, lastSeen, lastBucketSec, buckets,
                    observed, late, received>>
    BY DEF Write, healthVars
  <1>3. /\ out # <<>> /\ out' = Tail(out) /\ applied' = Append(applied, x)
        /\ ring' = [ring EXCEPT ![head] = x]
        /\ head' = (head + 1) % RecentCap
        /\ full' = (full \/ head + 1 = RecentCap)
    BY DEF Write, Push
  <1>4. /\ out \in Seq(Flow) /\ Len(out) <= OutCap /\ applied \in Seq(Flow)
        /\ ring \in [0 .. RecentCap - 1 -> Flow \cup {NoFlow}]
        /\ head \in 0 .. RecentCap - 1
    BY <1>1 DEF TypeOK
  <1>5. RecentCap \in Nat \ {0} /\ OutCap \in Nat
    BY IngestAssumption
  <1>6. x \in Flow /\ out' \in Seq(Flow) /\ Len(out') = Len(out) - 1 /\ Len(out) \in Nat
    BY <1>3, <1>4, TakeHead
  <1>7. /\ applied' \in Seq(Flow) /\ Len(applied') = Len(applied) + 1 /\ Len(applied) \in Nat
        /\ DOMAIN applied = 1 .. Len(applied)
        /\ applied'[Len(applied) + 1] = x
        /\ \A k \in 1 .. Len(applied) : applied'[k] = applied[k]
    <2>1. DOMAIN applied = 1 .. Len(applied) /\ Len(applied) \in Nat
      BY <1>4
    <2> HIDE DEF x
    <2>2. QED
      BY <1>3, <1>4, <1>6, <2>1, PutLast
  <1>8. head' \in 0 .. RecentCap - 1
    <2> DEFINE a == head + 1
    <2>1. a \in Int
      BY <1>4, <1>5
    <2> HIDE DEF a
    <2>2. a % RecentCap \in 0 .. RecentCap - 1
      BY <1>5, <2>1, Remainder
    <2>3. QED
      BY <1>3, <2>2 DEF a
  <1>9. TypeOK'
    <2>1. ring' \in [0 .. RecentCap - 1 -> Flow \cup {NoFlow}]
      BY <1>3, <1>4, <1>6
    <2>2. Len(out') <= OutCap /\ full' \in BOOLEAN
      BY <1>3, <1>4, <1>5, <1>6
    <2>3. QED
      BY <1>1, <1>2, <1>6, <1>7, <1>8, <2>1, <2>2 DEF TypeOK, Next1
  <1>10. Waiting' /\ Reported' /\ RateTrue'
    BY <1>1, <1>2 DEF Waiting, Reported, Next1, RateTrue, InWindow
  <1>11. Buffered'
    <2> DEFINE n == RecentCap
               m == Len(applied)
    <2>1. head = m % n /\ m \in Nat /\ n \in Nat \ {0} /\ Len(applied') = m + 1
      BY <1>1, <1>5, <1>7 DEF Buffered
    <2> HIDE DEF n, m
    <2>2. head' = (m + 1) % n
      <3>1. m \in Int
        BY <2>1
      <3>2. ((m % n) + 1) % n = (m + 1) % n
        BY <2>1, <3>1, NextPlace
      <3>3. head' = (head + 1) % n
        BY <1>3 DEF n
      <3>4. QED
        BY <2>1, <3>2, <3>3
    <2>3. full' <=> m + 1 >= n
      <3>1. CASE m < n
        <4>1. m % n = m
          BY <2>1, <3>1, Z3
        <4>2. head = m /\ ~(m >= n)
          BY <2>1, <3>1, <4>1
        <4>3. full <=> m >= n
          BY <1>1 DEF Buffered, n, m
        <4>4. full' <=> (full \/ head + 1 = n)
          BY <1>3 DEF n
        <4>5. full' <=> head + 1 = n
          BY <4>2, <4>3, <4>4
        <4>6. head + 1 = n <=> m + 1 >= n
          BY <2>1, <3>1, <4>2
        <4>7. QED
          BY <4>5, <4>6
      <3>2. CASE m >= n
        <4>1. full <=> m >= n
          BY <1>1 DEF Buffered, n, m
        <4>2. full' <=> (full \/ head + 1 = n)
          BY <1>3 DEF n
        <4>3. full'
          BY <3>2, <4>1, <4>2
        <4>4. m + 1 >= n
          BY <2>1, <3>2
        <4>5. QED
          BY <4>3, <4>4
      <3>3. QED
        BY <2>1, <3>1, <3>2
    <2>4. ASSUME NEW k \in 1 .. m + 1, (m + 1) - k < n
          PROVE  ring'[(k - 1) % n] = applied'[k]
      <3> DEFINE j == k - 1
      <3>1. j \in Int /\ j <= m /\ m - j < n
        BY <2>1, <2>4
      <3> HIDE DEF j
      <3>2. j % n \in 0 .. n - 1
        BY <2>1, <3>1, Remainder
      <3>3. CASE j = m
        <4>1. j % n = head /\ k = m + 1
          BY <2>1, <3>3 DEF j
        <4>2. QED
          BY <1>3, <1>4, <1>7, <4>1 DEF j, m
      <3>4. CASE j < m
        <4>1. j % n # m % n
          <5> SUFFICES ASSUME j % n = m % n PROVE FALSE
            OBVIOUS
          <5>1. m \in Int
            BY <2>1
          <5>2. m - j >= n
            BY <2>1, <3>1, <3>4, <5>1, SameRemainder
          <5>3. QED
            BY <2>1, <3>1, <5>2
        <4>2. ring'[j % n] = ring[j % n]
          BY <1>3, <1>4, <2>1, <3>2, <4>1 DEF n
        <4>3. k \in 1 .. m
          BY <2>1, <3>4 DEF j
        <4>4. ring[j % n] = applied[k]
          BY <1>1, <2>1, <3>1, <4>3 DEF Buffered, j, n, m
        <4>5. QED
          BY <1>7, <4>2, <4>3, <4>4 DEF j, m
      <3>5. QED
        BY <3>1, <3>3, <3>4, <2>1
    <2>5. QED
      BY <2>1, <2>2, <2>3, <2>4 DEF Buffered, n
  <1>12. QED
    BY <1>9, <1>10, <1>11 DEF IngestInv


\* What is left in the buckets when a record of second s is observed: those of
\* the seconds since the last one are empty, the others are as they were.
LEMMA ExpiredFacts ==
  ASSUME NEW b \in [Slots -> Nat], NEW last \in Nat, NEW s \in Nat
  PROVE  /\ Expired(b, last, s) \in [Slots -> Nat]
         /\ \A i \in Slots : Expired(b, last, s)[i] <= b[i]
         /\ \A t \in Nat : last < t /\ t <= s => Expired(b, last, s)[Slot(t)] = 0
         /\ \A t \in Nat : t <= last /\ s < t + RateWindow =>
              Expired(b, last, s)[Slot(t)] = b[Slot(t)]
  <1>1. RateWindow \in Nat
    BY IngestAssumption
  <1>2. \A t \in Nat : Slot(t) \in Slots
    BY SlotInWindow
  <1>3. Expired(b, last, s) \in [Slots -> Nat] /\ \A i \in Slots : Expired(b, last, s)[i] <= b[i]
    BY DEF Expired
  <1>4. ASSUME NEW t \in Nat, last < t, t <= s PROVE Expired(b, last, s)[Slot(t)] = 0
    <2>1. t \in last + 1 .. s
      BY <1>4
    <2>2. QED
      BY <1>2, <2>1 DEF Expired
  <1>5. ASSUME NEW t \in Nat, t <= last, s < t + RateWindow
        PROVE  Expired(b, last, s)[Slot(t)] = b[Slot(t)]
    <2>1. ~(s - last >= RateWindow)
      BY <1>1, <1>5
    <2>2. \A u \in last + 1 .. s : Slot(u) # Slot(t)
      BY <1>1, <1>5, OwnSlot
    <2>3. QED
      BY <1>2, <2>1, <2>2 DEF Expired
  <1>6. QED
    BY <1>3, <1>4, <1>5

\* What the tracker does with a record of exporter e, stamped s.
Tracks(e, s) ==
  /\ s \in Nat /\ s <= clock /\ clock < s + RateWindow
  /\ s \in accepted[e] /\ lastSeen[e] \in Nat /\ lastBucketSec[e] = lastSeen[e]
  /\ seen' = seen \cup {e}
  /\ lastSeen' = [lastSeen EXCEPT ![e] = s]
  /\ lastBucketSec' = [lastBucketSec EXCEPT ![e] = s]
  /\ buckets' = [buckets EXCEPT ![e] =
       [Expired(buckets[e], lastSeen[e], s) EXCEPT ![Slot(s)] = @ + 1]]
  /\ buckets' \in [Exporters -> [Slots -> Nat]]
  /\ observed' \in [Exporters -> [Times -> Nat]]
  /\ observed'[e][s] = observed[e][s] + 1
  /\ \A t \in Times \ {s} : observed'[e][t] = observed[e][t]
  /\ \A d \in Exporters \ {e} : observed'[d] = observed[d]
  /\ late' = IF s < lastSeen[e] THEN late \cup {e} ELSE late

\* Observe tracks the record at the head of the worker's queue.
LEMMA ObserveFacts ==
  ASSUME IngestInv, NEW l \in Listeners, Observe(l)
  PROVE  \E e \in Exporters, s \in Times :
           e = Next1(l).from /\ s = Next1(l).at /\ Tracks(e, s)
  <1>1. PICK e, s : e = Next1(l).from /\ s = Next1(l).at
    OBVIOUS
  <1>2. TypeOK /\ Waiting /\ Reported
    BY DEF IngestInv
  <1>3. l \in sent /\ queue[l] # <<>> /\ e \in Exporters
    BY <1>1, <1>2 DEF Observe, TypeOK
  <1>4. s \in Times /\ s \in Nat /\ s <= clock /\ clock - s <= MaxDelay
    BY <1>1, <1>2, <1>3, HeadFacts
  <1>5. clock < s + RateWindow
    BY <1>2, <1>4, IngestAssumption DEF TypeOK
  <1>6. s \in accepted[e] /\ lastBucketSec[e] = lastSeen[e]
    BY <1>1, <1>2, <1>3 DEF Reported
  <1>7. /\ lastSeen[e] \in Nat
        /\ buckets \in [Exporters -> [Slots -> Nat]] /\ observed \in [Exporters -> [Times -> Nat]]
    BY <1>2, <1>3 DEF TypeOK, Times
  <1>8. /\ seen' = seen \cup {e}
        /\ lastSeen' = [lastSeen EXCEPT ![e] = s]
        /\ lastBucketSec' = [lastBucketSec EXCEPT ![e] = s]
        /\ buckets' = [buckets EXCEPT ![e] =
             [Expired(buckets[e], lastBucketSec[e], s) EXCEPT ![Slot(s)] = @ + 1]]
        /\ observed' = [observed EXCEPT ![e][s] = @ + 1]
        /\ late' = IF s < lastSeen[e] THEN late \cup {e} ELSE late
    BY <1>1 DEF Observe
  <1>9. /\ buckets' = [buckets EXCEPT ![e] =
             [Expired(buckets[e], lastSeen[e], s) EXCEPT ![Slot(s)] = @ + 1]]
        /\ buckets' \in [Exporters -> [Slots -> Nat]]
    <2> DEFINE b == Expired(buckets[e], lastSeen[e], s)
    <2>1. b \in [Slots -> Nat]
      BY <1>3, <1>4, <1>7, ExpiredFacts
    <2>2. buckets' = [buckets EXCEPT ![e] = [b EXCEPT ![Slot(s)] = @ + 1]]
      <3>1. b = Expired(buckets[e], lastBucketSec[e], s)
        BY <1>6
      <3> HIDE DEF b
      <3>2. QED
        BY <1>3, <1>7, <1>8, <3>1
    <2> HIDE DEF b
    <2>3. [b EXCEPT ![Slot(s)] = @ + 1] \in [Slots -> Nat]
      BY <1>4, <2>1, SlotInWindow
    <2>4. buckets' \in [Exporters -> [Slots -> Nat]]
      BY <1>7, <2>2, <2>3
    <2>5. QED
      BY <2>2, <2>4 DEF b
  <1>10. /\ observed' \in [Exporters -> [Times -> Nat]]
        /\ observed'[e][s] = observed[e][s] + 1
        /\ \A t \in Times \ {s} : observed'[e][t] = observed[e][t]
        /\ \A d \in Exporters \ {e} : observed'[d] = observed[d]
    BY <1>3, <1>4, <1>7, <1>8
  <1>11. QED
    <2>1. Tracks(e, s)
      BY <1>4, <1>5, <1>6, <1>7, <1>8, <1>9, <1>10 DEF Tracks
    <2>2. QED
      BY <1>1, <1>3, <1>4, <2>1


\* A bucket that is in the window before and after keeps its flows; one that
\* enters it has been emptied.
LEMMA RateInv ==
  ASSUME IngestInv, NEW e \in Exporters, NEW s \in Times, Tracks(e, s)
  PROVE  RateTrue'
  <1>1. TypeOK /\ Reported /\ RateTrue
    BY DEF IngestInv
  <1>2. PICK last : last = lastSeen[e]
    OBVIOUS
  <1>3. PICK W : W = RateWindow
    OBVIOUS
  <1> DEFINE b == Expired(buckets[e], last, s)
  <1>4. /\ e \in Exporters /\ s \in Times /\ s \in Nat /\ s <= clock /\ clock < s + W
        /\ last \in Nat
        /\ buckets' = [buckets EXCEPT ![e] = [b EXCEPT ![Slot(s)] = @ + 1]]
        /\ observed'[e][s] = observed[e][s] + 1
        /\ \A t \in Times \ {s} : observed'[e][t] = observed[e][t]
        /\ \A d \in Exporters \ {e} : observed'[d] = observed[d]
        /\ late' = IF s < last THEN late \cup {e} ELSE late
    BY <1>2, <1>3 DEF Tracks
  <1>5. buckets \in [Exporters -> [Slots -> Nat]] /\ observed \in [Exporters -> [Times -> Nat]]
         /\ clock \in Nat
    BY <1>1, IngestAssumption DEF TypeOK
  <1>6. /\ buckets[e] \in [Slots -> Nat] /\ W \in Nat
        /\ \A t \in Times : t \in Nat /\ Slot(t) \in Slots
    <2>1. buckets[e] \in [Slots -> Nat] /\ W \in Nat
      BY <1>4, <1>3, <1>5, IngestAssumption
    <2>2. \A t \in Times : t \in Nat /\ t \in Int
      BY IngestAssumption DEF Times
    <2>3. QED
      BY <2>1, <2>2, SlotInWindow
  <1>7. /\ b \in [Slots -> Nat]
        /\ \A i \in Slots : b[i] <= buckets[e][i]
        /\ \A t \in Nat : last < t /\ t <= s => b[Slot(t)] = 0
        /\ \A t \in Nat : t <= last /\ s < t + W => b[Slot(t)] = buckets[e][Slot(t)]
    <2>1. /\ b \in [Slots -> Nat]
          /\ \A i \in Slots : b[i] <= buckets[e][i]
          /\ \A t \in Nat : last < t /\ t <= s => b[Slot(t)] = 0
          /\ \A t \in Nat : t <= last /\ s < t + RateWindow =>
               b[Slot(t)] = buckets[e][Slot(t)]
      <3> DEFINE c == buckets[e]
      <3>1. c \in [Slots -> Nat] /\ last \in Nat /\ s \in Nat
        BY <1>4, <1>6
      <3> HIDE DEF c
      <3>2. /\ Expired(c, last, s) \in [Slots -> Nat]
            /\ \A i \in Slots : Expired(c, last, s)[i] <= c[i]
            /\ \A t \in Nat : last < t /\ t <= s => Expired(c, last, s)[Slot(t)] = 0
            /\ \A t \in Nat : t <= last /\ s < t + RateWindow =>
                 Expired(c, last, s)[Slot(t)] = c[Slot(t)]
        BY <3>1, ExpiredFacts
      <3>3. QED
        BY <3>2 DEF c
    <2>2. QED
      BY <1>3, <2>1
  <1>8. /\ \A t \in Times : observed[e][t] > 0 => t <= clock /\ e \in seen
        /\ e \in seen => last \in Times /\ observed[e][last] > 0
        /\ e \notin seen => \A i \in Slots : buckets[e][i] = 0
        /\ e \notin late => \A t \in Times : observed[e][t] > 0 => t <= last
    BY <1>1, <1>4, <1>2 DEF Reported, TypeOK
  <1>9. \A t \in Times : InWindow(e, t) =>
          /\ buckets[e][Slot(t)] <= observed[e][t]
          /\ e \notin late => buckets[e][Slot(t)] = observed[e][t]
    BY <1>1, <1>4 DEF RateTrue
  <1> HIDE DEF b
  <1>10. /\ buckets'[e][Slot(s)] = b[Slot(s)] + 1
        /\ \A t \in Times : Slot(t) # Slot(s) => buckets'[e][Slot(t)] = b[Slot(t)]
        /\ \A d \in Exporters \ {e} : buckets'[d] = buckets[d]
    BY <1>4, <1>6, <1>7, <1>5
  <1>11. ASSUME NEW t \in Times, InWindow(e, t)'
        PROVE  /\ buckets'[e][Slot(t)] <= observed'[e][t]
               /\ e \notin late' => buckets'[e][Slot(t)] = observed'[e][t]
    <2>1. /\ s < t + W
          /\ \A u \in Times : observed[e][u] > 0 => u < t + W
          /\ t <= s \/ \E u \in Times : observed[e][u] > 0 /\ t <= u
      <3>1. \A u \in Times : observed[e][u] > 0 => observed'[e][u] > 0
        <4> SUFFICES ASSUME NEW u \in Times, observed[e][u] > 0 PROVE observed'[e][u] > 0
          OBVIOUS
        <4>1. observed[e][u] \in Nat
          BY <1>4, <1>5
        <4>2. CASE u = s
          BY <1>4, <4>1, <4>2
        <4>3. CASE u # s
          BY <1>4, <4>3
        <4>4. QED
          BY <4>2, <4>3
      <3>2. observed'[e][s] > 0
        BY <1>4, <1>5
      <3>3. \A u \in Times : observed'[e][u] > 0 => u = s \/ observed[e][u] > 0
        BY <1>4
      <3>4. QED
        BY <1>4, <1>11, <1>3, <3>1, <3>2, <3>3 DEF InWindow
    <2>2. t \in Nat /\ Slot(t) \in Slots /\ b[Slot(t)] \in Nat /\ observed[e][t] \in Nat
          /\ b[Slot(t)] <= buckets[e][Slot(t)] /\ buckets[e][Slot(t)] \in Nat
      BY <1>4, <1>6, <1>7, <1>5
    <2>3. t < s + W
      <3>1. t <= clock
        BY <1>4, <1>6, <1>8, <1>5, <2>1, <2>2
      <3>2. QED
        BY <1>4, <1>6, <1>5, <2>2, <3>1
    <2>4. t # s => Slot(t) # Slot(s)
      BY <1>4, <1>3, <2>1, <2>2, <2>3, OwnSlot
    <2>5. e \notin late' => e \notin late /\ last <= s
      BY <1>4
    <2>6. /\ b[Slot(t)] <= observed[e][t]
          /\ e \notin late' => b[Slot(t)] = observed[e][t]
      <3>1. CASE \E u \in Times : observed[e][u] > 0 /\ t <= u
        <4>1. InWindow(e, t)
          BY <2>1, <1>3, <3>1 DEF InWindow
        <4>2. /\ buckets[e][Slot(t)] <= observed[e][t]
              /\ e \notin late => buckets[e][Slot(t)] = observed[e][t]
          BY <1>9, <4>1
        <4>3. e \notin late => t <= last
          BY <1>4, <1>6, <1>8, <2>2, <3>1
        <4>4. e \notin late' => b[Slot(t)] = buckets[e][Slot(t)]
          BY <1>7, <2>1, <2>2, <2>5, <4>3
        <4>5. QED
          BY <2>2, <2>5, <4>2, <4>4
      <3>2. CASE ~(\E u \in Times : observed[e][u] > 0 /\ t <= u)
        <4>1. t <= s /\ observed[e][t] = 0
          BY <2>1, <2>2, <3>2
        <4>2. b[Slot(t)] = 0
          <5>1. CASE e \in seen
            <6>1. last < t
              BY <1>4, <1>8, <2>2, <3>2, <5>1
            <6>2. QED
              BY <1>7, <2>2, <4>1, <6>1
          <5>2. CASE e \notin seen
            BY <1>8, <2>2, <5>2
          <5>3. QED
            BY <5>1, <5>2
        <4>3. QED
          BY <4>1, <4>2
      <3>3. QED
        BY <3>1, <3>2
    <2>7. CASE t = s
      BY <1>4, <1>10, <2>2, <2>6, <2>7
    <2>8. CASE t # s
      <3>1. buckets'[e][Slot(t)] = b[Slot(t)] /\ observed'[e][t] = observed[e][t]
        BY <1>4, <1>10, <2>4, <2>8
      <3>2. QED
        BY <2>6, <3>1
    <2>9. QED
      BY <2>7, <2>8
  <1>12. ASSUME NEW d \in Exporters, d # e, NEW t \in Times, InWindow(d, t)'
        PROVE  /\ buckets'[d][Slot(t)] <= observed'[d][t]
               /\ d \notin late' => buckets'[d][Slot(t)] = observed'[d][t]
    <2>1. buckets'[d] = buckets[d] /\ observed'[d] = observed[d] /\ (d \in late' <=> d \in late)
      BY <1>4, <1>10, <1>12
    <2>2. InWindow(d, t)
      BY <1>12, <2>1 DEF InWindow
    <2>3. QED
      BY <1>1, <2>1, <2>2 DEF RateTrue
  <1>13. QED
    BY <1>11, <1>12 DEF RateTrue

\* Observe is the last thing a worker does with a record.
LEMMA ObserveInv ==
  ASSUME IngestInv, NEW l \in Listeners, Observe(l)
  PROVE  IngestInv'
  <1>1. TypeOK /\ Waiting /\ Reported /\ Buffered
    BY DEF IngestInv
  <1>2. PICK e \in Exporters, s \in Times :
           e = Next1(l).from /\ s = Next1(l).at /\ Tracks(e, s)
    BY ObserveFacts
  <1>3. /\ UNCHANGED <<clock, out, drops, accepted, ring, head, full, applied, received>>
        /\ l \in sent /\ sent' = sent \ {l} /\ Done(l) /\ queue[l] # <<>>
    BY <1>1 DEF Observe, flowVars, writerVars, TypeOK
  <1>4. /\ queue' \in [Listeners -> Seq([from : Exporters \cup Strangers, at : Times])]
        /\ \A k \in Listeners \ {l} : queue'[k] = queue[k]
        /\ Waiting'
    BY <1>1, <1>3, DoneFacts
  <1>5. RateTrue'
    BY <1>2, RateInv
  <1>6. Buffered'
    BY <1>1, <1>3 DEF Buffered
  <1>7. /\ e \in Exporters /\ s \in Times /\ s \in Nat /\ s <= clock
        /\ s \in accepted[e] /\ lastSeen[e] \in Nat
        /\ seen' = seen \cup {e}
        /\ lastSeen' = [lastSeen EXCEPT ![e] = s]
        /\ lastBucketSec' = [lastBucketSec EXCEPT ![e] = s]
        /\ buckets' = [buckets EXCEPT ![e] =
             [Expired(buckets[e], lastSeen[e], s) EXCEPT ![Slot(s)] = @ + 1]]
        /\ buckets' \in [Exporters -> [Slots -> Nat]]
        /\ observed' \in [Exporters -> [Times -> Nat]]
        /\ observed'[e][s] = observed[e][s] + 1
        /\ \A t \in Times \ {s} : observed'[e][t] = observed[e][t]
        /\ \A d \in Exporters \ {e} : observed'[d] = observed[d]
        /\ late' = IF s < lastSeen[e] THEN late \cup {e} ELSE late
    BY <1>2 DEF Tracks
  <1>8. /\ observed \in [Exporters -> [Times -> Nat]] /\ lastSeen \in [Exporters -> Times]
        /\ lastBucketSec \in [Exporters -> Times] /\ seen \subseteq Exporters /\ late \subseteq Exporters
        /\ \A k \in sent : k \in Listeners /\ queue[k] # <<>> /\ Next1(k).from \in Exporters
    BY <1>1 DEF TypeOK
  <1>9. \A k \in sent' : k \in sent /\ k \in Listeners \ {l} /\ queue'[k] = queue[k] /\ Next1(k)' = Next1(k)
    BY <1>3, <1>4, <1>8 DEF Next1
  <1>10. \A d \in Exporters \ {e} : buckets'[d] = buckets[d]
    BY <1>1, <1>7 DEF TypeOK
  <1>11. e = Next1(l).from /\ s = Next1(l).at
    BY <1>2
  <1>12. TypeOK'
    <2>1. sent' \subseteq {k \in Listeners : queue'[k] # <<>> /\ Next1(k)'.from \in Exporters}
      BY <1>8, <1>9
    <2>2. /\ lastSeen' \in [Exporters -> Times] /\ lastBucketSec' \in [Exporters -> Times]
          /\ seen' \subseteq Exporters /\ late' \subseteq Exporters
      BY <1>7, <1>8
    <2>3. QED
      BY <1>1, <1>3, <1>4, <1>7, <2>1, <2>2 DEF TypeOK
  <1>13. Reported'
    <2>1. \A k \in sent' : Next1(k)'.at \in accepted'[Next1(k)'.from]
      BY <1>1, <1>3, <1>9 DEF Reported
    <2>2. ASSUME NEW d \in Exporters
          PROVE  /\ \A t \in Times : observed'[d][t] > 0 => t \in accepted'[d] /\ t <= clock' /\ d \in seen'
                 /\ \A t \in accepted'[d] :
                      observed'[d][t] > 0 \/ \E k \in sent' : Next1(k)'.from = d /\ Next1(k)'.at = t
                 /\ d \in seen' => observed'[d][lastSeen'[d]] > 0
                 /\ lastBucketSec'[d] = lastSeen'[d]
                 /\ d \notin seen' => \A i \in Slots : buckets'[d][i] = 0
                 /\ d \notin late' => \A t \in Times : observed'[d][t] > 0 => t <= lastSeen'[d]
      <3>1. /\ \A t \in Times : observed[d][t] > 0 => t \in accepted[d] /\ t <= clock /\ d \in seen
            /\ \A t \in accepted[d] :
                 observed[d][t] > 0 \/ \E k \in sent : Next1(k).from = d /\ Next1(k).at = t
            /\ d \in seen => observed[d][lastSeen[d]] > 0
            /\ lastBucketSec[d] = lastSeen[d]
            /\ d \notin seen => \A i \in Slots : buckets[d][i] = 0
            /\ d \notin late => \A t \in Times : observed[d][t] > 0 => t <= lastSeen[d]
        BY <1>1 DEF Reported
      <3>2. accepted[d] \subseteq Times
        BY <1>1 DEF TypeOK
      <3>3. CASE d = e
        <4>1. /\ lastSeen'[d] = s /\ lastBucketSec'[d] = s /\ d \in seen' /\ observed'[d][s] > 0
          BY <1>7, <1>8, <3>3
        <4>2. \A t \in Times : observed[d][t] > 0 => observed'[d][t] > 0
          BY <1>7, <1>8, <3>3
        <4>3. \A t \in Times : observed'[d][t] > 0 => t = s \/ observed[d][t] > 0
          BY <1>7, <3>3
        <4>4. \A t \in accepted'[d] :
                observed'[d][t] > 0 \/ \E k \in sent' : Next1(k)'.from = d /\ Next1(k)'.at = t
          <5> SUFFICES ASSUME NEW t \in accepted[d], ~(observed'[d][t] > 0)
                       PROVE  \E k \in sent' : Next1(k)'.from = d /\ Next1(k)'.at = t
            BY <1>3
          <5>1. ~(observed[d][t] > 0) /\ t # s
            BY <3>2, <4>1, <4>2
          <5>2. PICK k \in sent : Next1(k).from = d /\ Next1(k).at = t
            BY <3>1, <5>1
          <5>3. k # l
            BY <1>11, <5>1, <5>2
          <5>4. QED
            BY <1>3, <1>9, <5>2, <5>3
        <4>5. d \notin late' => \A t \in Times : observed'[d][t] > 0 => t <= s
          <5>1. d \notin late' => d \notin late /\ lastSeen[d] <= s
            BY <1>7, <3>3
          <5>2. \A t \in Times : t \in Nat
            BY IngestAssumption DEF Times
          <5>3. QED
            BY <1>7, <3>1, <3>3, <4>3, <5>1, <5>2
        <4>6. QED
          BY <1>3, <1>7, <3>1, <3>3, <4>1, <4>3, <4>4, <4>5
      <3>4. CASE d # e
        <4>1. /\ observed'[d] = observed[d] /\ lastSeen'[d] = lastSeen[d] /\ buckets'[d] = buckets[d]
              /\ lastBucketSec'[d] = lastBucketSec[d]
              /\ (d \in seen' <=> d \in seen) /\ (d \in late' <=> d \in late)
          BY <1>7, <1>8, <1>10, <3>4
        <4>2. \A t \in accepted'[d] :
                observed'[d][t] > 0 \/ \E k \in sent' : Next1(k)'.from = d /\ Next1(k)'.at = t
          BY <1>3, <1>9, <1>11, <3>1, <3>4, <4>1
        <4>3. QED
          BY <1>3, <3>1, <4>1, <4>2
      <3>5. QED
        BY <3>3, <3>4
    <2>3. QED
      BY <2>1, <2>2 DEF Reported
  <1>14. QED
    BY <1>4, <1>5, <1>6, <1>12, <1>13 DEF IngestInv

\* The invariant holds whatever the listeners receive and however slow their
\* workers are within MaxDelay.
THEOREM Invariance == Spec => []IngestInv
  <1>1. Init => IngestInv
    BY InitInv
  <1>2. ASSUME IngestInv, [Next]_vars PROVE IngestInv'
    <2>1. CASE \E l \in Listeners : \/ \E a \in Exporters \cup Strangers : Receive(l, a)
                                    \/ ProduceUnknown(l) \/ Produce(l) \/ Observe(l)
      BY <1>2, <2>1, ListenerInv, ProduceInv, ObserveInv
    <2>2. CASE Write
      BY <1>2, <2>2, WriteInv
    <2>3. CASE Second \/ UNCHANGED vars
      BY <1>2, <2>3, ListenerInv
    <2>4. QED
      BY <1>2, <2>1, <2>2, <2>3 DEF Next
  <1>3. QED
    BY <1>1, <1>2, PTL DEF Spec

-----------------------------------------------------------------------------
(* The theorems.                                                           *)

\* An exporter is shown online exactly if the channel took a record of it that
\* was received less than StaleAfter ago; only a slower listener that reports an
\* older record later can make it look older (Produce, Observe, Snapshot).
THEOREM StatusIsTrue == Spec => []IngestSafe
  <1>1. ASSUME IngestInv PROVE IngestSafe
    <2>1. TypeOK /\ Reported
      BY <1>1 DEF IngestInv
    <2> SUFFICES ASSUME NEW e \in Exporters
                 PROVE  LET fresh == \E s \in accepted[e] : clock - s < StaleAfter
                        IN  /\ Status(e) = "online" => fresh
                            /\ fresh /\ Settled(e) /\ e \notin late => Status(e) = "online"
      BY <2>1 DEF IngestSafe, StatusTrue
    <2>2. clock \in Nat /\ lastSeen[e] \in Nat /\ lastSeen[e] \in Times /\ accepted[e] \subseteq Times
          /\ StaleAfter \in Nat
      BY <2>1, IngestAssumption DEF TypeOK, Times
    <2>3. Status(e) = "online" <=> e \in seen /\ clock - lastSeen[e] < StaleAfter
      BY <2>2 DEF Status
    <2>4. ASSUME e \in seen, clock - lastSeen[e] < StaleAfter
          PROVE  \E s \in accepted[e] : clock - s < StaleAfter
      BY <2>1, <2>2, <2>4 DEF Reported
    <2>5. ASSUME NEW s \in accepted[e], clock - s < StaleAfter, Settled(e), e \notin late
          PROVE  e \in seen /\ clock - lastSeen[e] < StaleAfter
      <3>1. s \in Times /\ s \in Nat /\ observed[e][s] > 0
        BY <2>1, <2>2, <2>5, IngestAssumption DEF Reported, Settled, Times
      <3>2. e \in seen /\ s <= lastSeen[e]
        BY <2>1, <2>5, <3>1 DEF Reported
      <3>3. QED
        BY <2>2, <2>5, <3>1, <3>2
    <2>6. QED
      BY <2>3, <2>4, <2>5
  <1>2. QED
    BY <1>1, Invariance, PTL

\* However the stamps of an exporter are disordered, a bucket of the current
\* window never counts a flow of another second, and it counts all of its own
\* while they are in order (Observe).
THEOREM RateIsTrue == Spec => []RateTrue
  <1>1. IngestInv => RateTrue
    BY DEF IngestInv
  <1>2. QED
    BY <1>1, Invariance, PTL

\* The dashboard's list is the last records the writer took, the newest first,
\* for every number it asks for (Push, Snapshot).
THEOREM RecentIsTrue == Spec => []RecentTrue
  <1>1. ASSUME IngestInv PROVE RecentTrue
    <2> DEFINE c == RecentCap
               m == Len(applied)
               size == IF m < c THEN m ELSE c
    <2>1. TypeOK /\ Buffered
      BY <1>1 DEF IngestInv
    <2>2. c \in Nat \ {0} /\ m \in Nat /\ size \in Nat /\ size <= m /\ size <= c
      BY <2>1, IngestAssumption DEF TypeOK
    <2>3. head = m % c
      BY <2>1 DEF Buffered
    <2>4. size = IF full THEN c ELSE head
      <3>1. m < c => m % c = m
        BY <2>2, Z3
      <3>2. full <=> m >= c
        BY <2>1 DEF Buffered
      <3>3. QED
        BY <2>2, <2>3, <3>1, <3>2
    <2>5. ASSUME NEW i \in 1 .. size PROVE ring[(head - i) % c] = applied[m - i + 1]
      <3>1. i \in Int /\ m \in Int
        BY <2>2
      <3> HIDE DEF m, c, size
      <3>2. ((m % c) - i) % c = (m - i) % c
        BY <2>2, <3>1, BackFrom
      <3> DEFINE k == m - i + 1
      <3>3. k \in 1 .. m /\ m - k < c /\ k - 1 = m - i
        BY <2>2
      <3>4. ring[(k - 1) % c] = applied[k]
        BY <2>1, <3>3 DEF Buffered, m, c
      <3>5. QED
        BY <2>3, <3>2, <3>3, <3>4
    <2>6. ASSUME NEW n \in 0 .. RecentCap + 1
          PROVE  Recent(n) = [i \in 1 .. (IF n \in 1 .. size THEN n ELSE size) |->
                                applied[Len(applied) - i + 1]]
      <3> DEFINE z == IF n <= 0 \/ n > size THEN size ELSE n
      <3>1. Recent(n) = [i \in 1 .. z |-> ring[(head - i) % c]]
        BY <2>4 DEF Recent
      <3>2. z = (IF n \in 1 .. size THEN n ELSE size) /\ z \in Nat /\ z <= size
        BY <2>2, <2>6
      <3> HIDE DEF z, size
      <3>3. \A i \in 1 .. z : ring[(head - i) % c] = applied[m - i + 1]
        BY <2>2, <2>5, <3>2
      <3>4. QED
        BY <3>1, <3>2, <3>3
    <2>7. QED
      BY <2>6 DEF RecentTrue
  <1>2. QED
    BY <1>1, Invariance, PTL

=============================================================================
