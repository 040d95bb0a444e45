--------------------------- MODULE AggregateStore ---------------------------
(***************************************************************************)
(* internal/aggregate: the sharded per-host ring of one-second buckets.    *)
(* The flow writer calls Update, the detector calls Tick once per tick and *)
(* then reads Snapshot and ActiveHosts; every access to a host happens     *)
(* under the lock of its shard, so one shard's part of Tick is one action  *)
(* and Updates interleave between the shards.                              *)
(*                                                                         *)
(* The environment: wall-clock seconds, the 1 Hz ticker, and flow records  *)
(* stamped with the second they were received in, applied to the store up  *)
(* to MaxLag seconds later (they wait in the flow channel).                *)
(***************************************************************************)
EXTENDS Integers, Sequences

CONSTANTS
  Hosts,       \* destination addresses
  NumShards,   \* number of shards
  ShardOf,     \* [Hosts -> 1 .. NumShards], shardFor
  WindowSize,  \* buckets per ring
  Records,     \* flow records: [proto, packets, bytes]
  MaxLag,      \* bound: seconds between receiving and applying a record
  MaxPackets,  \* bound: packets applied per host and second
  MaxTime      \* bound on the modelled time

Protos == {"udp", "icmp", "other"}

ASSUME StoreAssumption ==
  /\ NumShards \in Nat \ {0}
  /\ ShardOf \in [Hosts -> 1 .. NumShards]
  /\ WindowSize \in Nat /\ WindowSize >= 2
  /\ MaxLag \in Nat /\ MaxLag <= WindowSize - 2
  /\ MaxTime \in Nat
  /\ MaxPackets \in Nat

ASSUME RecordsAssumption ==
  Records \subseteq [proto : {"udp", "icmp", "icmpv6", "tcp"},
                     packets : Nat, bytes : Nat]

VARIABLES
  clock,     \* the current wall-clock second
  known,     \* the hosts that have a ring
  lastSec,   \* [Hosts -> LastSec of the ring]
  ring,      \* [Hosts -> [0 .. WindowSize - 1 -> Bucket]]
  tickNow,   \* the second of the last tick begun
  sweep,     \* the next shard Tick will visit; NumShards + 1 between ticks
  lastTick,  \* history: [shards -> the last second Tick visited the shard for]
  onTime,    \* history: [shards -> the seconds in which Tick visited it for them]
  applied    \* history: [Hosts -> [0 .. MaxTime -> everything applied]]

storeVars == <<clock, known, lastSec, ring, tickNow, sweep, lastTick, onTime,
               applied>>

Shards == 1 .. NumShards
Slots == 0 .. WindowSize - 1

Bucket ==
  [Pps : Nat, Bps : Nat, PpsOf : [Protos -> Nat], BpsOf : [Protos -> Nat]]

NoTraffic == [p \in Protos |-> 0]
EmptyBucket == [Pps |-> 0, Bps |-> 0, PpsOf |-> NoTraffic, BpsOf |-> NoTraffic]
EmptyRing == [i \in Slots |-> EmptyBucket]

-----------------------------------------------------------------------------
(* Operators of the store.                                                 *)

\* The switch of Update on r.Proto.
ProtoClass(proto) ==
  CASE proto = "udp" -> "udp"
    [] proto \in {"icmp", "icmpv6"} -> "icmp"
    [] OTHER -> "other"

AddRecord(b, r) ==
  [Pps |-> b.Pps + r.packets,
   Bps |-> b.Bps + r.bytes,
   PpsOf |-> [b.PpsOf EXCEPT ![ProtoClass(r.proto)] = @ + r.packets],
   BpsOf |-> [b.BpsOf EXCEPT ![ProtoClass(r.proto)] = @ + r.bytes]]

Slot(sec) == sec % WindowSize

\* The last `window` buckets of h, newest first; empty for an unknown host.
Snapshot(h, sec, window) ==
  IF h \notin known THEN <<>>
  ELSE [i \in 1 .. (IF window > WindowSize THEN WindowSize ELSE window) |->
          ring[h][Slot(sec - (i - 1))]]

ActiveHosts(sec) == {h \in known : sec - lastSec[h] <= WindowSize}

-----------------------------------------------------------------------------
(* The writer and the ticker.                                              *)

StoreInit ==
  /\ clock = 0
  /\ known = {}
  /\ lastSec = [h \in Hosts |-> 0]
  /\ ring = [h \in Hosts |-> EmptyRing]
  /\ tickNow = 0
  /\ sweep = NumShards + 1
  /\ lastTick = [sh \in Shards |-> 0]
  /\ onTime = [sh \in Shards |-> {0}]
  /\ applied = [h \in Hosts |-> [s \in 0 .. MaxTime |-> EmptyBucket]]

\* Mutant: a late record moves LastSec back.
StoreUpdateLastWins(h, sec, r) ==
  /\ sec \in 0 .. clock /\ clock - sec <= MaxLag
  /\ applied[h][sec].Pps + r.packets <= MaxPackets
  /\ known' = known \cup {h}
  /\ lastSec' = [lastSec EXCEPT ![h] = sec]
  /\ ring' = [ring EXCEPT ![h][Slot(sec)] = AddRecord(@, r)]
  /\ applied' = [applied EXCEPT ![h][sec] = AddRecord(@, r)]
  /\ UNCHANGED <<clock, tickNow, sweep, lastTick, onTime>>

\* store.Update(r.DstIP, r.Received.Unix(), r), called by the writer goroutine.
StoreUpdate(h, sec, r) ==
  /\ sec \in 0 .. clock /\ clock - sec <= MaxLag
  /\ applied[h][sec].Pps + r.packets <= MaxPackets
  /\ known' = known \cup {h}
  /\ lastSec' = [lastSec EXCEPT ![h] = IF sec > @ THEN sec ELSE @]
  /\ ring' = [ring EXCEPT ![h][Slot(sec)] = AddRecord(@, r)]
  /\ applied' = [applied EXCEPT ![h][sec] = AddRecord(@, r)]
  /\ UNCHANGED <<clock, tickNow, sweep, lastTick, onTime>>

\* Mutant: the ticker runs one second ahead of the writer.
TickBeginAhead ==
  /\ sweep = NumShards + 1
  /\ tickNow < clock
  /\ tickNow' = clock + 1
  /\ sweep' = 1
  /\ UNCHANGED <<clock, known, lastSec, ring, lastTick, onTime, applied>>

\* The ticker fires and the detector calls store.Tick for the current second.
TickBegin ==
  /\ sweep = NumShards + 1
  /\ tickNow < clock
  /\ tickNow' = clock
  /\ sweep' = 1
  /\ UNCHANGED <<clock, known, lastSec, ring, lastTick, onTime, applied>>

\* A host is cold when it has not been seen for more than WindowSize seconds.
Cold(h) == tickNow - lastSec[h] > WindowSize

\* The rings of the shard being visited.
Mine == {h \in known : ShardOf[h] = sweep}

SweepDone ==
  /\ lastTick' = [lastTick EXCEPT ![sweep] = tickNow]
  /\ onTime' = [onTime EXCEPT ![sweep] = @ \cup ({tickNow} \cap {clock})]
  /\ sweep' = sweep + 1
  /\ UNCHANGED <<clock, tickNow, applied>>

\* Mutant: Tick evicts but does not expire buckets.
TickShardNoExpiry ==
  /\ sweep \in Shards
  /\ known' = known \ {h \in Mine : Cold(h)}
  /\ ring' = [h \in Hosts |-> IF h \in Mine /\ Cold(h) THEN EmptyRing ELSE ring[h]]
  /\ lastSec' = [h \in Hosts |-> IF h \in Mine /\ Cold(h) THEN 0 ELSE lastSec[h]]
  /\ SweepDone

\* Mutant: Tick clears one slot too far ahead.
TickShardTooFar ==
  /\ sweep \in Shards
  /\ known' = known \ {h \in Mine : Cold(h)}
  /\ ring' = [h \in Hosts |->
                IF h \notin Mine THEN ring[h]
                ELSE IF Cold(h) THEN EmptyRing
                ELSE [ring[h] EXCEPT ![Slot(tickNow + 2)] = EmptyBucket]]
  /\ lastSec' = [h \in Hosts |-> IF h \in Mine /\ Cold(h) THEN 0 ELSE lastSec[h]]
  /\ SweepDone

\* One shard's part of Tick: evict the cold hosts (a new ring starts empty),
\* zero the next second's slot of the others.
TickShard ==
  /\ sweep \in Shards
  /\ known' = known \ {h \in Mine : Cold(h)}
  /\ ring' = [h \in Hosts |->
                IF h \notin Mine THEN ring[h]
                ELSE IF Cold(h) THEN EmptyRing
                ELSE [ring[h] EXCEPT ![Slot(tickNow + 1)] = EmptyBucket]]
  /\ lastSec' = [h \in Hosts |-> IF h \in Mine /\ Cold(h) THEN 0 ELSE lastSec[h]]
  /\ SweepDone

\* A second passes after the tick of the current one has swept every shard: the
\* ticker of a daemon that keeps up.
Second ==
  /\ \A sh \in Shards : lastTick[sh] = clock
  /\ clock < MaxTime
  /\ clock' = clock + 1
  /\ UNCHANGED <<known, lastSec, ring, tickNow, sweep, lastTick, onTime, applied>>

\* A second passes: also without its tick, or while Tick is still sweeping;
\* time.Ticker drops ticks for a slow receiver, and two ticks of a jittered
\* ticker may lie on both sides of a whole second.
SecondUnticked ==
  /\ clock < MaxTime
  /\ clock' = clock + 1
  /\ UNCHANGED <<known, lastSec, ring, tickNow, sweep, lastTick, onTime, applied>>

Tick == TickBegin \/ TickShard

Write == \E h \in Hosts, sec \in 0 .. MaxTime, r \in Records : StoreUpdate(h, sec, r)

\* With the ticker as the Go runtime provides it.
StoreNext == Write \/ Tick \/ SecondUnticked

StoreSpec == StoreInit /\ [][StoreNext]_storeVars

-----------------------------------------------------------------------------
(* Properties.                                                             *)

StoreTypeOK ==
  /\ clock \in 0 .. MaxTime
  /\ known \subseteq Hosts
  /\ lastSec \in [Hosts -> 0 .. MaxTime]
  /\ ring \in [Hosts -> [Slots -> Bucket]]
  /\ tickNow \in 0 .. clock
  /\ sweep \in 1 .. NumShards + 1
  /\ lastTick \in [Shards -> 0 .. MaxTime]
  /\ onTime \in [Shards -> SUBSET (0 .. clock)]
  /\ applied \in [Hosts -> [0 .. MaxTime -> Bucket]]

\* The slot of a second was cleared in the second before it (the first ones
\* are clean from the start).
Cleared(h, sec) == sec = 0 \/ sec - 1 \in onTime[ShardOf[h]]

\* Sliding window by overwrite-next-slot: at a tick, every bucket a Snapshot
\* of less than WindowSize seconds returns holds exactly what was applied for
\* its second, no older second's traffic and nothing zeroed too late (until
\* the next second is over, when the next tick is due), but for the one second
\* that follows a missed or late tick: the damage does not spread. A host
\* without a ring (never seen, or evicted) has lost no traffic of the window.
SnapshotExact ==
  \A h \in Hosts :
    LET sec == lastTick[ShardOf[h]]
        snap == Snapshot(h, sec, WindowSize - 1)
    IN  \A i \in 1 .. WindowSize - 1 :
          clock - sec <= 1 /\ sec - (i - 1) >= 0 /\ Cleared(h, sec - (i - 1)) =>
            applied[h][sec - (i - 1)] =
              IF h \in known THEN snap[i] ELSE EmptyBucket

\* The slot of the second that follows a tick made in time is as clean as the
\* window: no flow of that second is added to traffic of WindowSize seconds ago.
NextSlotExact ==
  \A h \in known :
    LET sec == lastTick[ShardOf[h]] + 1
    IN  sec <= MaxTime /\ Cleared(h, sec) /\ clock <= sec =>
          ring[h][Slot(sec)] = applied[h][sec]

\* The sliding window, over its whole extent: the seconds a detector reads and
\* the one that is being written next (Tick, Update and Snapshot).
WindowExact == SnapshotExact /\ NextSlotExact

\* Every host with traffic in the window of the current tick is evaluated.
ActiveHostsComplete ==
  \A h \in Hosts, s \in 0 .. MaxTime :
    /\ applied[h][s] # EmptyBucket
    /\ tickNow - s <= WindowSize
    => h \in ActiveHosts(tickNow)

\* What the detector relies on when it asks for the hosts to evaluate: the types,
\* and no eviction of a host that has traffic in its window (Tick, ActiveHosts).
StoreSafe == StoreTypeOK /\ ActiveHostsComplete
=============================================================================
