----------------------------- MODULE FlowIngest -----------------------------
(***************************************************************************)
(* internal/ingest, internal/flow and the flow writer of serve.go: three   *)
(* listeners, each with its own worker, hand the records of known          *)
(* exporters to one bounded flow channel and note the sign of life; the    *)
(* writer takes the records out (the store is AggregateStore) and keeps    *)
(* the newest for the dashboard; handlers read status and rate.            *)
(*                                                                         *)
(* A record is stamped when its datagram is received, observed when its    *)
(* worker gets to it, and an exporter may reach several listeners: the     *)
(* tracker sees the stamps out of order. A datagram of several records is  *)
(* several entries of a listener's queue with one stamp.                   *)
(***************************************************************************)
EXTENDS Integers, Sequences

CONSTANTS
  Exporters,     \* the inventory, read once at the start
  Strangers,     \* source addresses outside the inventory
  Listeners,     \* netflow, ipfix, sflow
  OutCap,        \* capacity of the flow channel (8192)
  RecentCap,     \* capacity of the buffer of recent flows (500)
  RateWindow,    \* the tracker's one-second buckets (60)
  StaleAfter, OfflineAfter,  \* 60 s, 300 s
  MaxDelay,      \* bound: seconds a datagram waits for its worker
  MaxFlows,      \* bound on the datagrams
  MaxTime        \* bound on the modelled time

ASSUME IngestAssumption ==
  /\ OutCap \in Nat \ {0} /\ RecentCap \in Nat \ {0}
  /\ RateWindow \in Nat \ {0} /\ StaleAfter \in Nat \ {0} /\ OfflineAfter \in Nat
  /\ StaleAfter < OfflineAfter
  /\ MaxDelay \in Nat /\ MaxDelay < RateWindow
  /\ MaxFlows \in Nat /\ MaxTime \in Nat /\ RateWindow <= MaxTime
  /\ Exporters \cap Strangers = {}

VARIABLES
  clock,      \* the current second; the epoch is RateWindow or more behind
  queue,      \* [Listeners -> the datagrams its worker has not done with]
  sent,       \* the listeners whose worker has yet to observe what it sent
  out,        \* the flow channel
  drops,      \* ChannelProducer.drops
  seen,       \* the keys of HealthTracker.state
  lastSeen, lastBucketSec, buckets,   \* its values, per exporter
  ring, head, full,                   \* RecentBuffer
  received,   \* history: number of datagrams
  accepted,   \* history: [Exporters -> stamps of the records the channel took]
  observed,   \* history: [Exporters -> [second -> records observed]]
  late,       \* history: exporters with a stamp observed after a later one
  applied     \* history: what the writer has taken

flowVars == <<out, drops, accepted>>
healthVars == <<seen, lastSeen, lastBucketSec, buckets, observed, late>>
writerVars == <<ring, head, full, applied>>
vars == <<clock, queue, sent, flowVars, healthVars, writerVars, received>>

Times == 0 .. MaxTime
Slots == 0 .. RateWindow - 1
Slot(s) == s % RateWindow
Flow == [from : Exporters, at : Times]
NoFlow == [from |-> "none", at |-> 0]

-----------------------------------------------------------------------------
(* Listeners: the receiver stamps and queues, the worker calls Produce.    *)

Receive(l, a) ==
  /\ received < MaxFlows
  /\ received' = received + 1
  /\ queue' = [queue EXCEPT ![l] = Append(@, [from |-> a, at |-> clock])]
  /\ UNCHANGED <<clock, sent, flowVars, healthVars, writerVars>>

Next1(l) == Head(queue[l])
Done(l) == queue' = [queue EXCEPT ![l] = Tail(@)]

\* Produce of a datagram whose source Lookup does not find.
ProduceUnknown(l) ==
  /\ queue[l] # <<>> /\ Next1(l).from \notin Exporters
  /\ Done(l)
  /\ UNCHANGED <<clock, sent, flowVars, healthVars, writerVars, received>>

\* Mutant: a dropped record counts as a sign of life.
ProduceSeenAnyway(l) ==
  /\ queue[l] # <<>> /\ l \notin sent /\ Next1(l).from \in Exporters
  /\ IF Len(out) < OutCap
     THEN /\ out' = Append(out, Next1(l))
          /\ accepted' = [accepted EXCEPT ![Next1(l).from] = @ \cup {Next1(l).at}]
          /\ drops' = drops
     ELSE drops' = drops + 1 /\ UNCHANGED <<out, accepted>>
  /\ sent' = sent \cup {l}
  /\ UNCHANGED <<clock, queue, healthVars, writerVars, received>>

\* Produce: the non-blocking send, dropped where the channel is full.
Produce(l) ==
  /\ queue[l] # <<>> /\ l \notin sent /\ Next1(l).from \in Exporters
  /\ IF Len(out) < OutCap
     THEN /\ out' = Append(out, Next1(l))
          /\ accepted' = [accepted EXCEPT ![Next1(l).from] = @ \cup {Next1(l).at}]
          /\ sent' = sent \cup {l}
          /\ UNCHANGED <<queue, drops>>
     ELSE /\ drops' = drops + 1
          /\ Done(l)
          /\ UNCHANGED <<sent, out, accepted>>
  /\ UNCHANGED <<clock, healthVars, writerVars, received>>

\* Mutant: only the slot that is written next is cleared.
ExpiredOneOnly(b, last, s) ==
  IF s = last THEN b ELSE [b EXCEPT ![Slot(s)] = 0]

\* Observe zeroes the slots between the last second seen and a new one, which
\* are none when the new one is earlier.
Expired(b, last, s) ==
  [i \in Slots |->
     IF s - last >= RateWindow \/ \E t \in last + 1 .. s : Slot(t) = i
     THEN 0 ELSE b[i]]

\* Mutant: the tracker takes the time of the call for the time of the flow.
ObserveNow(l) ==
  /\ l \in sent
  /\ sent' = sent \ {l}
  /\ Done(l)
  /\ LET e == Next1(l).from
         s == Next1(l).at
         b == Expired(buckets[e], lastBucketSec[e], s)
     IN  /\ seen' = seen \cup {e}
         /\ lastSeen' = [lastSeen EXCEPT ![e] = clock]
         /\ buckets' = [buckets EXCEPT ![e] = [b EXCEPT ![Slot(s)] = @ + 1]]
         /\ lastBucketSec' = [lastBucketSec EXCEPT ![e] = s]
         /\ observed' = [observed EXCEPT ![e][s] = @ + 1]
         /\ late' = IF s < lastSeen[e] THEN late \cup {e} ELSE late
  /\ UNCHANGED <<clock, flowVars, writerVars, received>>

\* health.Observe, under the tracker's lock, after the send.
Observe(l) ==
  /\ l \in sent
  /\ sent' = sent \ {l}
  /\ Done(l)
  /\ LET e == Next1(l).from
         s == Next1(l).at
         b == Expired(buckets[e], lastBucketSec[e], s)
     IN  /\ seen' = seen \cup {e}
         /\ lastSeen' = [lastSeen EXCEPT ![e] = s]
         /\ buckets' = [buckets EXCEPT ![e] = [b EXCEPT ![Slot(s)] = @ + 1]]
         /\ lastBucketSec' = [lastBucketSec EXCEPT ![e] = s]
         /\ observed' = [observed EXCEPT ![e][s] = @ + 1]
         /\ late' = IF s < lastSeen[e] THEN late \cup {e} ELSE late
  /\ UNCHANGED <<clock, flowVars, writerVars, received>>

-----------------------------------------------------------------------------
(* The writer, and what the handlers read.                                 *)

\* Mutant: the buffer is full one record too late.
PushLate(r) ==
  /\ ring' = [ring EXCEPT ![head] = r]
  /\ head' = (head + 1) % RecentCap
  /\ full' = (full \/ head + 1 > RecentCap)

Push(r) ==
  /\ ring' = [ring EXCEPT ![head] = r]
  /\ head' = (head + 1) % RecentCap
  /\ full' = (full \/ head + 1 = RecentCap)

Write ==
  /\ out # <<>>
  /\ out' = Tail(out)
  /\ Push(Head(out))
  /\ applied' = Append(applied, Head(out))
  /\ UNCHANGED <<clock, queue, sent, drops, accepted, healthVars, received>>

\* RecentBuffer.Snapshot(n): newest first, all for n <= 0.
Recent(n) ==
  LET size == IF full THEN RecentCap ELSE head
  IN  [i \in 1 .. (IF n <= 0 \/ n > size THEN size ELSE n) |->
         ring[(head - i) % RecentCap]]

\* HealthTracker.Snapshot, at the current time.
Status(e) ==
  CASE e \notin seen                         -> "offline"
    [] e \in seen /\ clock - lastSeen[e] < StaleAfter -> "online"
    [] e \in seen /\ clock - lastSeen[e] \in StaleAfter .. OfflineAfter - 1 -> "stale"
    [] OTHER                                 -> "offline"

-----------------------------------------------------------------------------
\* A second passes; no datagram has waited longer than MaxDelay by then.
Second ==
  /\ clock < MaxTime
  /\ \A l \in Listeners : \A i \in DOMAIN queue[l] : clock - queue[l][i].at < MaxDelay
  /\ clock' = clock + 1
  /\ UNCHANGED <<queue, sent, flowVars, healthVars, writerVars, received>>

Init ==
  /\ clock = RateWindow
  /\ queue = [l \in Listeners |-> <<>>] /\ sent = {}
  /\ out = <<>> /\ drops = 0
  /\ seen = {} /\ late = {}
  /\ lastSeen = [e \in Exporters |-> 0]
  /\ lastBucketSec = [e \in Exporters |-> 0]
  /\ buckets = [e \in Exporters |-> [i \in Slots |-> 0]]
  /\ ring = [i \in 0 .. RecentCap - 1 |-> NoFlow] /\ head = 0 /\ full = FALSE
  /\ received = 0 /\ applied = <<>>
  /\ accepted = [e \in Exporters |-> {}]
  /\ observed = [e \in Exporters |-> [s \in Times |-> 0]]

Next ==
  \/ \E l \in Listeners :
       \/ \E a \in Exporters \cup Strangers : Receive(l, a)
       \/ ProduceUnknown(l) \/ Produce(l) \/ Observe(l)
  \/ Write \/ Second

Spec == Init /\ [][Next]_vars

-----------------------------------------------------------------------------
(* Properties.                                                             *)

TypeOK ==
  /\ clock \in RateWindow .. MaxTime
  /\ queue \in [Listeners -> Seq([from : Exporters \cup Strangers, at : Times])]
  /\ sent \subseteq {l \in Listeners : queue[l] # <<>> /\ Next1(l).from \in Exporters}
  /\ out \in Seq(Flow) /\ Len(out) <= OutCap
  /\ drops \in Nat /\ received \in 0 .. MaxFlows
  /\ seen \subseteq Exporters /\ late \subseteq Exporters
  /\ lastSeen \in [Exporters -> Times] /\ lastBucketSec \in [Exporters -> Times]
  /\ buckets \in [Exporters -> [Slots -> Nat]]
  /\ ring \in [0 .. RecentCap - 1 -> Flow \cup {NoFlow}]
  /\ head \in 0 .. RecentCap - 1 /\ full \in BOOLEAN
  /\ applied \in Seq(Flow)
  /\ accepted \in [Exporters -> SUBSET Times]
  /\ observed \in [Exporters -> [Times -> Nat]]

\* An exporter is still being dealt with while one of its records is sent and
\* not yet observed.
Settled(e) == \A l \in sent : Next1(l).from # e

\* An exporter is online only if the flow channel took a record that was
\* received less than StaleAfter ago, and it is online if it did, unless a
\* slower listener has reported an older one since.
StatusTrue ==
  \A e \in Exporters :
    LET fresh == \E s \in accepted[e] : clock - s < StaleAfter
    IN  /\ Status(e) = "online" => fresh
        /\ fresh /\ Settled(e) /\ e \notin late => Status(e) = "online"

\* What the list of exporters answers from: the types and the status (Produce,
\* Observe, Snapshot).
IngestSafe == TypeOK /\ StatusTrue

\* The dashboard lists the last records the writer took, newest first, for
\* every number it asks for.
RecentTrue ==
  \A n \in 0 .. RecentCap + 1 :
    LET size == IF Len(applied) < RecentCap THEN Len(applied) ELSE RecentCap
    IN  Recent(n) = [i \in 1 .. (IF n \in 1 .. size THEN n ELSE size) |->
                       applied[Len(applied) - i + 1]]

\* The second is in the last RateWindow seconds up to the newest one observed.
InWindow(e, s) ==
  /\ \E t \in Times : observed[e][t] > 0 /\ s <= t
  /\ \A t \in Times : observed[e][t] > 0 => t < s + RateWindow

\* No bucket holds more than the flows of its second, however the listeners
\* disorder the stamps, so the rate (Snapshot adds the buckets up) is never too
\* high for the minute up to the newest flow; and while the stamps come in order
\* it is exact.
RateTrue ==
  \A e \in Exporters, s \in Times :
    InWindow(e, s) =>
      /\ buckets[e][Slot(s)] <= observed[e][s]
      /\ e \notin late => buckets[e][Slot(s)] = observed[e][s]
=============================================================================
