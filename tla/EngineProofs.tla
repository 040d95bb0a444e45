---------------------------- MODULE EngineProofs ----------------------------
(***************************************************************************)
(* Proofs about AggregateStore, for every set of hosts, number of shards,  *)
(* ring size and lag the assumptions allow, and a ticker that may miss any *)
(* second or be late by any time, and about Engine, which reads the store, *)
(* for every catalog of thresholds and channel capacity. The engine's      *)
(* reuse the invariants of the store and of the state machines.            *)
(***************************************************************************)
EXTENDS Engine, SequenceTheorems, WellFoundedInduction, TLAPS

-----------------------------------------------------------------------------
(*                               The store                                 *)

\* A host without a ring starts with an empty one, and nothing has been applied
\* for a second that has not come yet.
Blank ==
  /\ \A h \in Hosts : h \notin known => ring[h] = EmptyRing
  /\ \A h \in Hosts, s \in 0 .. MaxTime : s > clock => applied[h][s] = EmptyBucket

\* A sweep visits every shard once per tick, in order; what it has cleared in
\* time, it has visited.
Sweeping ==
  /\ \A sh \in Shards : /\ sh < sweep => lastTick[sh] = tickNow
                        /\ sh >= sweep => lastTick[sh] < tickNow
  /\ \A sh \in Shards : \A s \in onTime[sh] : s <= lastTick[sh]

\* A host is seen as long as it has traffic in the window of the last tick.
Seen ==
  \A h \in Hosts, s \in 0 .. MaxTime :
    applied[h][s] # EmptyBucket /\ tickNow - s <= WindowSize
      => h \in known /\ s <= lastSec[h]

\* The one second a slot stands for: from the moment it was cleared for it
\* until it is cleared, or may be written, for the second WindowSize later.
Stands(h, s) ==
  /\ Cleared(h, s)
  /\ lastTick[ShardOf[h]] + 2 - WindowSize <= s
  /\ s <= lastTick[ShardOf[h]] + 1
  /\ clock < s + WindowSize

\* Such a slot holds what was applied for that second.
Holds ==
  \A h \in Hosts, s \in 0 .. MaxTime :
    Stands(h, s) => ring[h][Slot(s)] = applied[h][s]

StoreInv == StoreTypeOK /\ Blank /\ Sweeping /\ Seen /\ Holds

-----------------------------------------------------------------------------
(* Lemmas about the operators.                                             *)

\* Every second has a slot of the ring.
LEMMA SlotInRing ==
  ASSUME NEW s \in Int
  PROVE  Slot(s) \in Slots
  BY StoreAssumption DEF Slot, Slots

\* Two seconds that share a slot are a whole round of the ring apart.
LEMMA SameSlot ==
  ASSUME NEW s \in Nat, NEW t \in Nat, s < t, Slot(s) = Slot(t)
  PROVE  t >= s + WindowSize
  <1> DEFINE p == s \div WindowSize
             q == t \div WindowSize
  <1>1. WindowSize \in Nat /\ WindowSize > 0
    BY StoreAssumption
  <1>2. p \in Int /\ q \in Int /\ s = WindowSize * p + Slot(s) /\ t = WindowSize * q + Slot(t) /\ Slot(s) \in Int
    BY <1>1, Z3 DEF Slot
  <1>3. t - s = WindowSize * (q - p)
    BY <1>1, <1>2
  <1>4. q - p >= 1
    BY <1>1, <1>2, <1>3
  <1>5. WindowSize * (q - p) >= WindowSize
    BY <1>1, <1>2, <1>4
  <1>6. QED
    BY <1>1, <1>2, <1>3, <1>5

\* Adding a record to a bucket yields a bucket that is not empty if the record
\* has packets or bytes; its type is kept.
LEMMA AddRecordType ==
  ASSUME NEW b \in Bucket, NEW r \in Records
  PROVE  AddRecord(b, r) \in Bucket
  BY RecordsAssumption DEF AddRecord, Bucket, ProtoClass, Protos

\* A cleared slot and the ring of a new host are of their types.
LEMMA EmptyTypes == EmptyBucket \in Bucket /\ EmptyRing \in [Slots -> Bucket]
  BY DEF EmptyBucket, EmptyRing, Bucket, NoTraffic

-----------------------------------------------------------------------------
(* The invariant.                                                          *)

\* A new store knows no host, and nothing has been received.
LEMMA InitInv == StoreInit => StoreInv
  <1> SUFFICES ASSUME StoreInit PROVE StoreInv
    OBVIOUS
  <1> USE StoreAssumption, EmptyTypes
  <1>1. StoreTypeOK
    BY DEF StoreInit, StoreTypeOK, Shards
  <1>2. Blank
    BY DEF StoreInit, Blank
  <1>3. Sweeping
    BY DEF StoreInit, Sweeping, Shards
  <1>4. Seen
    BY DEF StoreInit, Seen
  <1>5. Holds
    BY SlotInRing DEF StoreInit, Holds, EmptyRing
  <1>6. QED
    BY <1>1, <1>2, <1>3, <1>4, <1>5 DEF StoreInv

\* A record is applied to the host's ring and to the history in the same second;
\* a slot that stands for another second is not touched, since no record is late
\* enough to reach it.
LEMMA UpdateInv ==
  ASSUME StoreInv, NEW h \in Hosts, NEW sec \in 0 .. MaxTime, NEW r \in Records,
         StoreUpdate(h, sec, r)
  PROVE  StoreInv'
  <1> USE StoreAssumption DEF StoreInv
  <1>1. /\ sec \in 0 .. clock /\ clock - sec <= MaxLag
        /\ known' = known \cup {h}
        /\ lastSec' = [lastSec EXCEPT ![h] = IF sec > @ THEN sec ELSE @]
        /\ ring' = [ring EXCEPT ![h][Slot(sec)] = AddRecord(@, r)]
        /\ applied' = [applied EXCEPT ![h][sec] = AddRecord(@, r)]
        /\ UNCHANGED <<clock, tickNow, sweep, lastTick, onTime>>
    BY DEF StoreUpdate
  <1>2. /\ Slot(sec) \in Slots
        /\ ring \in [Hosts -> [Slots -> Bucket]]
        /\ applied \in [Hosts -> [0 .. MaxTime -> Bucket]]
        /\ clock \in 0 .. MaxTime /\ lastSec \in [Hosts -> 0 .. MaxTime]
    BY SlotInRing DEF StoreTypeOK
  <1>3. /\ AddRecord(ring[h][Slot(sec)], r) \in Bucket
        /\ AddRecord(applied[h][sec], r) \in Bucket
    BY <1>2, AddRecordType
  <1>4. StoreTypeOK'
    <2>1. ring' \in [Hosts -> [Slots -> Bucket]]
      BY <1>1, <1>2, <1>3
    <2>2. applied' \in [Hosts -> [0 .. MaxTime -> Bucket]]
      BY <1>1, <1>2, <1>3
    <2>3. lastSec' \in [Hosts -> 0 .. MaxTime] /\ known' \subseteq Hosts
      BY <1>1, <1>2 DEF StoreTypeOK
    <2>4. QED
      BY <1>1, <2>1, <2>2, <2>3 DEF StoreTypeOK
  <1>5. Blank'
    BY <1>1, <1>2 DEF Blank
  <1>6. Sweeping'
    BY <1>1 DEF Sweeping
  <1>7. Seen'
    <2> SUFFICES ASSUME NEW g \in Hosts, NEW s \in 0 .. MaxTime,
                        applied'[g][s] # EmptyBucket, tickNow - s <= WindowSize
                 PROVE  g \in known' /\ s <= lastSec'[g]
      BY <1>1 DEF Seen
    <2>1. CASE g = h /\ s = sec
      BY <1>1, <1>2, <2>1
    <2>2. CASE ~(g = h /\ s = sec)
      <3>1. applied[g][s] # EmptyBucket
        BY <1>1, <1>2, <2>2
      <3>2. g \in known /\ s <= lastSec[g]
        BY <3>1 DEF Seen
      <3>3. QED
        BY <1>1, <1>2, <3>2
    <2>3. QED
      BY <2>1, <2>2
  <1>8. Holds'
    <2> SUFFICES ASSUME NEW g \in Hosts, NEW s \in 0 .. MaxTime, Stands(g, s)'
                 PROVE  ring'[g][Slot(s)] = applied'[g][s]
      BY DEF Holds
    <2>1. Stands(g, s)
      BY <1>1 DEF Stands, Cleared
    <2>2. ring[g][Slot(s)] = applied[g][s]
      BY <2>1 DEF Holds
    <2>3. Slot(s) \in Slots
      BY SlotInRing
    <2>4. CASE g = h /\ s = sec
      BY <1>1, <1>2, <2>2, <2>4
    <2>5. CASE g = h /\ s # sec
      <3>1. Slot(s) # Slot(sec)
        <4>1. ASSUME s < sec, Slot(s) = Slot(sec) PROVE FALSE
          BY <1>1, <1>2, <2>1, <4>1, SameSlot DEF Stands
        <4>2. ASSUME sec < s, Slot(s) = Slot(sec) PROVE FALSE
          <5>1. s >= sec + WindowSize
            BY <4>2, SameSlot
          <5>2. s - 1 \in 0 .. clock
            BY <1>1, <1>2, <2>1, <4>2 DEF Stands, Cleared, StoreTypeOK, Shards
          <5>3. QED
            BY <1>1, <1>2, <5>1, <5>2
        <4>3. QED
          BY <2>5, <4>1, <4>2
      <3>2. QED
        BY <1>1, <1>2, <2>2, <2>3, <2>5, <3>1
    <2>6. CASE g # h
      BY <1>1, <1>2, <2>2, <2>6
    <2>7. QED
      BY <2>4, <2>5, <2>6
  <1>9. QED
    BY <1>4, <1>5, <1>6, <1>7, <1>8

\* A new tick looks at a later window, of which less has to be known.
LEMMA TickBeginInv == StoreInv /\ TickBegin => StoreInv'
  <1> SUFFICES ASSUME StoreInv, TickBegin PROVE StoreInv'
    OBVIOUS
  <1> USE StoreAssumption DEF StoreInv, TickBegin
  <1>1. StoreTypeOK'
    BY DEF StoreTypeOK
  <1>2. Blank'
    BY DEF Blank
  <1>3. Sweeping'
    BY DEF Sweeping, Shards, StoreTypeOK
  <1>4. Seen'
    BY DEF Seen, StoreTypeOK
  <1>5. Holds'
    BY DEF Holds, Stands, Cleared
  <1>6. QED
    BY <1>1, <1>2, <1>3, <1>4, <1>5

\* A second passes: fewer slots stand for their second.
LEMMA SecondInv == StoreInv /\ SecondUnticked => StoreInv'
  <1> SUFFICES ASSUME StoreInv, SecondUnticked PROVE StoreInv'
    OBVIOUS
  <1> USE StoreAssumption DEF StoreInv, SecondUnticked
  <1>1. StoreTypeOK'
    BY DEF StoreTypeOK
  <1>2. Blank'
    BY DEF Blank, StoreTypeOK
  <1>3. Sweeping'
    BY DEF Sweeping
  <1>4. Seen'
    BY DEF Seen
  <1>5. Holds'
    BY DEF Holds, Stands, Cleared, StoreTypeOK
  <1>6. QED
    BY <1>1, <1>2, <1>3, <1>4, <1>5

\* Tick visits a shard: of the seconds whose slot stands, the next one is new, and
\* has been cleared; the others stood before, and their slots are other ones. A
\* host that is evicted had no traffic in any of them.
LEMMA TickShardInv == StoreInv /\ TickShard => StoreInv'
  <1> SUFFICES ASSUME StoreInv, TickShard PROVE StoreInv'
    OBVIOUS
  <1> USE StoreAssumption DEF StoreInv
  <1>1. /\ sweep \in Shards
        /\ known' = known \ {h \in Mine : Cold(h)}
        /\ ring' = [h \in Hosts |->
                      IF h \notin Mine THEN ring[h]
                      ELSE IF Cold(h) THEN EmptyRing
                      ELSE [ring[h] EXCEPT ![Slot(tickNow + 1)] = EmptyBucket]]
        /\ lastSec' = [h \in Hosts |-> IF h \in Mine /\ Cold(h) THEN 0 ELSE lastSec[h]]
        /\ lastTick' = [lastTick EXCEPT ![sweep] = tickNow]
        /\ onTime' = [onTime EXCEPT ![sweep] = @ \cup ({tickNow} \cap {clock})]
        /\ sweep' = sweep + 1
        /\ UNCHANGED <<clock, tickNow, applied>>
    BY DEF TickShard, SweepDone
  <1>2. /\ ring \in [Hosts -> [Slots -> Bucket]]
        /\ applied \in [Hosts -> [0 .. MaxTime -> Bucket]]
        /\ clock \in 0 .. MaxTime /\ tickNow \in 0 .. clock
        /\ lastSec \in [Hosts -> 0 .. MaxTime]
        /\ lastTick \in [Shards -> 0 .. MaxTime]
        /\ onTime \in [Shards -> SUBSET (0 .. clock)]
        /\ Slot(tickNow + 1) \in Slots
        /\ Shards \subseteq Nat
    BY SlotInRing DEF StoreTypeOK, Shards
  <1>3. StoreTypeOK'
    <2>1. ring' \in [Hosts -> [Slots -> Bucket]]
      BY <1>1, <1>2, EmptyTypes
    <2>2. lastSec' \in [Hosts -> 0 .. MaxTime] /\ known' \subseteq Hosts
      BY <1>1, <1>2 DEF StoreTypeOK
    <2>3. lastTick' \in [Shards -> 0 .. MaxTime]
      BY <1>1, <1>2
    <2>4. onTime' \in [Shards -> SUBSET (0 .. clock)]
      BY <1>1, <1>2
    <2>5. sweep' \in 1 .. NumShards + 1
      BY <1>1 DEF Shards
    <2>6. QED
      BY <1>1, <2>1, <2>2, <2>3, <2>4, <2>5 DEF StoreTypeOK
  <1>4. Blank'
    BY <1>1, <1>2 DEF Blank, Mine, StoreTypeOK
  <1>5. Sweeping'
    BY <1>1, <1>2 DEF Sweeping
  <1>6. Seen'
    BY <1>1, <1>2 DEF Seen, Cold
  <1>7. Holds'
    <2> SUFFICES ASSUME NEW h \in Hosts, NEW s \in 0 .. MaxTime, Stands(h, s)'
                 PROVE  ring'[h][Slot(s)] = applied[h][s]
      BY <1>1 DEF Holds
    <2>1. ShardOf[h] \in Shards /\ Slot(s) \in Slots
      BY SlotInRing DEF Shards
    <2>2. CASE ShardOf[h] # sweep
      <3>1. Stands(h, s)
        BY <1>1, <1>2, <2>1, <2>2 DEF Stands, Cleared
      <3>2. ring'[h] = ring[h]
        BY <1>1, <2>2 DEF Mine
      <3>3. QED
        BY <3>1, <3>2 DEF Holds
    <2>3. CASE ShardOf[h] = sweep /\ s = tickNow + 1
      <3>1. tickNow = clock
        <4>1. tickNow \in onTime'[sweep]
          BY <1>1, <1>2, <2>3 DEF Stands, Cleared
        <4>2. tickNow \in onTime[sweep] \/ tickNow = clock
          BY <1>1, <1>2, <4>1
        <4>3. \A n \in onTime[sweep] : n <= lastTick[sweep]
          BY <1>1 DEF Sweeping
        <4>4. lastTick[sweep] < tickNow /\ lastTick[sweep] \in Nat
          BY <1>1, <1>2 DEF Sweeping
        <4>5. QED
          BY <1>2, <4>2, <4>3, <4>4
      <3>2. applied[h][s] = EmptyBucket
        BY <1>2, <2>3, <3>1 DEF Blank
      <3>3. ring'[h][Slot(s)] = EmptyBucket
        BY <1>1, <1>2, <2>1, <2>3 DEF Mine, Blank, EmptyRing
      <3>4. QED
        BY <3>2, <3>3
    <2>4. CASE ShardOf[h] = sweep /\ s # tickNow + 1
      <3>1. /\ tickNow + 2 - WindowSize <= s /\ s <= tickNow
            /\ clock < s + WindowSize
        <4>1. lastTick'[sweep] = tickNow /\ clock' = clock
          BY <1>1, <1>2
        <4>2. /\ lastTick'[ShardOf[h]] + 2 - WindowSize <= s
              /\ s <= lastTick'[ShardOf[h]] + 1
              /\ clock' < s + WindowSize
          BY DEF Stands
        <4>3. tickNow + 2 - WindowSize <= s /\ s <= tickNow + 1 /\ clock < s + WindowSize
          BY <2>4, <4>1, <4>2
        <4>4. s <= tickNow
          BY <1>2, <2>4, <4>3
        <4>5. QED
          BY <4>3, <4>4
      <3>2. Stands(h, s)
        <4>1. lastTick[sweep] \in 0 .. MaxTime /\ lastTick[sweep] < tickNow
          BY <1>1, <1>2 DEF Sweeping
        <4>2. s = 0 \/ s - 1 \in onTime'[sweep]
          BY <2>4 DEF Stands, Cleared
        <4>3. onTime'[sweep] = onTime[sweep] \cup ({tickNow} \cap {clock})
          BY <1>1, <1>2
        <4>4. s = 0 \/ s - 1 \in onTime[sweep]
          BY <1>2, <2>4, <4>2, <4>3
        <4>5. \A n \in onTime[sweep] : n <= lastTick[sweep]
          BY <1>1 DEF Sweeping
        <4>6. s <= lastTick[sweep] + 1
          BY <4>1, <4>4, <4>5
        <4>7. Cleared(h, s)
          BY <2>4, <4>4 DEF Cleared
        <4>8. lastTick[sweep] + 2 - WindowSize <= s
          BY <1>2, <3>1, <4>1
        <4>9. QED
          BY <2>4, <3>1, <4>6, <4>7, <4>8 DEF Stands
      <3>3. ring[h][Slot(s)] = applied[h][s]
        BY <3>2 DEF Holds
      <3>4. Slot(s) # Slot(tickNow + 1)
        BY <1>2, <3>1, SameSlot
      <3>5. CASE h \in Mine /\ Cold(h)
        <4>1. applied[h][s] = EmptyBucket
          BY <1>2, <3>1, <3>5 DEF Seen, Cold
        <4>2. QED
          BY <1>1, <2>1, <3>5, <4>1 DEF EmptyRing
      <3>6. CASE ~(h \in Mine /\ Cold(h))
        BY <1>1, <1>2, <2>1, <3>3, <3>4, <3>6
      <3>7. QED
        BY <3>5, <3>6
    <2>5. QED
      BY <2>2, <2>3, <2>4
  <1>8. QED
    BY <1>3, <1>4, <1>5, <1>6, <1>7

\* Every operation of the store and every second keeps the invariant.
LEMMA NextInv == StoreInv /\ [StoreNext]_storeVars => StoreInv'
  <1> SUFFICES ASSUME StoreInv, [StoreNext]_storeVars PROVE StoreInv'
    OBVIOUS
  <1>1. CASE Write
    BY <1>1, UpdateInv DEF Write
  <1>2. CASE Tick
    BY <1>2, TickBeginInv, TickShardInv DEF Tick
  <1>3. CASE SecondUnticked
    BY <1>3, SecondInv
  <1>4. CASE UNCHANGED storeVars
    BY <1>4 DEF storeVars, StoreInv, StoreTypeOK, Blank, Sweeping, Seen, Holds, Stands, Cleared
  <1>5. QED
    BY <1>1, <1>2, <1>3, <1>4 DEF StoreNext

\* The inductive invariant holds in every reachable state.
THEOREM Invariance == StoreSpec => []StoreInv
  BY InitInv, NextInv, PTL DEF StoreSpec

-----------------------------------------------------------------------------
(* What it implies.                                                        *)

\* What the store knows of each host is what its slots hold for their seconds.
LEMMA SafeFromInv == StoreInv => StoreSafe
  <1> SUFFICES ASSUME StoreInv PROVE StoreSafe
    OBVIOUS
  <1>1. ActiveHostsComplete
    BY StoreAssumption DEF StoreInv, StoreTypeOK, Seen, ActiveHostsComplete, ActiveHosts
  <1>2. QED
    BY <1>1 DEF StoreInv, StoreSafe

\* The window that is read is made of slots that stand for their second.
LEMMA WindowFromInv == StoreInv => WindowExact
  <1> SUFFICES ASSUME StoreInv PROVE WindowExact
    OBVIOUS
  <1> USE StoreAssumption DEF StoreInv
  <1>1. SnapshotExact
    <2> SUFFICES ASSUME NEW h \in Hosts, NEW i \in 1 .. WindowSize - 1,
                        clock - lastTick[ShardOf[h]] <= 1,
                        lastTick[ShardOf[h]] - (i - 1) >= 0,
                        Cleared(h, lastTick[ShardOf[h]] - (i - 1))
                 PROVE  applied[h][lastTick[ShardOf[h]] - (i - 1)]
                          = IF h \in known
                            THEN Snapshot(h, lastTick[ShardOf[h]], WindowSize - 1)[i]
                            ELSE EmptyBucket
      BY DEF SnapshotExact
    <2> DEFINE s == lastTick[ShardOf[h]] - (i - 1)
    <2>1. lastTick[ShardOf[h]] \in 0 .. MaxTime /\ clock \in 0 .. MaxTime
      BY DEF StoreTypeOK, Shards
    <2>2. s \in 0 .. MaxTime /\ Stands(h, s)
      BY <2>1 DEF Stands
    <2>3. ring[h][Slot(s)] = applied[h][s]
      BY <2>2 DEF Holds
    <2>4. CASE h \in known
      <3>1. Snapshot(h, lastTick[ShardOf[h]], WindowSize - 1)[i] = ring[h][Slot(s)]
        BY <2>4 DEF Snapshot
      <3>2. QED
        BY <2>3, <2>4, <3>1
    <2>5. CASE h \notin known
      <3>1. ring[h][Slot(s)] = EmptyBucket
        BY <2>2, <2>5, SlotInRing DEF Blank, EmptyRing
      <3>2. QED
        BY <2>3, <2>5, <3>1
    <2>6. QED
      BY <2>4, <2>5
  <1>2. NextSlotExact
    <2> SUFFICES ASSUME NEW h \in known,
                        lastTick[ShardOf[h]] + 1 <= MaxTime,
                        Cleared(h, lastTick[ShardOf[h]] + 1),
                        clock <= lastTick[ShardOf[h]] + 1
                 PROVE  ring[h][Slot(lastTick[ShardOf[h]] + 1)]
                          = applied[h][lastTick[ShardOf[h]] + 1]
      BY DEF NextSlotExact
    <2> DEFINE s == lastTick[ShardOf[h]] + 1
    <2>1. h \in Hosts /\ lastTick[ShardOf[h]] \in 0 .. MaxTime /\ clock \in 0 .. MaxTime
      BY DEF StoreTypeOK, Shards
    <2>2. s \in 0 .. MaxTime /\ Stands(h, s)
      BY <2>1 DEF Stands
    <2>3. QED
      BY <2>1, <2>2 DEF Holds
  <1>3. QED
    BY <1>1, <1>2 DEF WindowExact

\* The types hold, and the detector is told of every host that has traffic in
\* the window of the current tick (Tick, Update, ActiveHosts of store.go).
THEOREM StoreIsSafe == StoreSpec => []StoreSafe
  BY Invariance, SafeFromInv, PTL

\* The sliding window is exact for every size of the ring, also after a missed
\* or late tick, but for the second whose slot was not cleared in time.
THEOREM WindowIsExact == StoreSpec => []WindowExact
  BY Invariance, WindowFromInv, PTL
-----------------------------------------------------------------------------
(*                               The engine                                *)

\* The proofs about the state machines, for the machines of the engine.
SP == INSTANCE StateMachineProofs WITH
  Rates        <- [pps : Nat, bps : Nat],
  MinWindowSec <- [k \in Keys |-> IF k \in WatchedKeys
                                  THEN Thresholds[k].MinWindowSec ELSE 1],
  GraceSec     <- [k \in Keys |-> IF k \in WatchedKeys
                                  THEN Thresholds[k].GraceSec ELSE 0],
  MaxStreak    <- MaxTime,
  now          <- tickNow

-----------------------------------------------------------------------------
(* Sums. A set of naturals that contains 0 and is closed under successor   *)
(* is Nat; what Total computes follows by this form of induction.          *)

\* Induction over the natural numbers, for a set.
LEMMA SetInduction ==
  ASSUME NEW T \in SUBSET Nat, 0 \in T, \A n \in T : n + 1 \in T
  PROVE  T = Nat
  <1> DEFINE U == Nat \ T
  <1>1. ASSUME U # {} PROVE FALSE
    <2>1. IsWellFoundedOn(OpToRel(<, Nat), Nat)
      BY NatLessThanWellFounded
    <2>2. PICK x \in U : \A y \in U : <<y, x>> \notin OpToRel(<, Nat)
      BY <1>1, <2>1, WFMin
    <2>3. \A y \in U : ~(y < x)
      BY <2>2 DEF OpToRel
    <2>4. QED
      BY <2>3
  <1>2. QED
    BY <1>1

\* The partial sums exist: the recursion of Total defines a function.
SumsOf(ns, n) ==
  {g \in [0 .. n -> Nat] :
     \A m \in 0 .. n : g[m] = IF m = 0 THEN 0 ELSE g[m - 1] + ns[m]}

\* The sums up to every n exist.
LEMMA SumsExist ==
  ASSUME NEW n \in Nat, NEW ns \in [1 .. n -> Nat]
  PROVE  SumsOf(ns, n) # {}
  <1> DEFINE T == {m \in Nat : m <= n => SumsOf(ns, m) # {}}
  <1>1. 0 \in T
    <2>1. [m \in 0 .. 0 |-> 0] \in SumsOf(ns, 0)
      BY DEF SumsOf
    <2>2. QED
      BY <2>1
  <1>2. ASSUME NEW m \in T PROVE m + 1 \in T
    <2> SUFFICES ASSUME m + 1 <= n PROVE SumsOf(ns, m + 1) # {}
      OBVIOUS
    <2>1. PICK g : g \in SumsOf(ns, m)
      OBVIOUS
    <2>2. m \in Nat /\ m + 1 \in 1 .. n /\ ns[m + 1] \in Nat
      OBVIOUS
    <2>3. /\ g \in [0 .. m -> Nat]
          /\ \A l \in 0 .. m : g[l] = IF l = 0 THEN 0 ELSE g[l - 1] + ns[l]
      BY <2>1 DEF SumsOf
    <2> DEFINE h == [l \in 0 .. m + 1 |-> IF l = m + 1 THEN g[m] + ns[m + 1] ELSE g[l]]
    <2>4. h \in [0 .. m + 1 -> Nat]
      BY <2>2, <2>3
    <2>5. ASSUME NEW l \in 0 .. m + 1
          PROVE  h[l] = IF l = 0 THEN 0 ELSE h[l - 1] + ns[l]
      <3>1. CASE l = m + 1
        <4>1. l # 0 /\ l - 1 = m /\ m \in 0 .. m + 1 /\ m # m + 1
          BY <2>2, <3>1
        <4>2. h[l - 1] = g[m] /\ h[l] = g[m] + ns[m + 1]
          BY <3>1, <4>1
        <4>3. QED
          BY <3>1, <4>1, <4>2
      <3>2. CASE l # m + 1
        <4>1. l \in 0 .. m
          BY <2>2, <3>2
        <4>2. h[l] = g[l] /\ (l # 0 => h[l - 1] = g[l - 1])
          BY <2>2, <4>1
        <4>3. QED
          BY <2>3, <4>1, <4>2
      <3>3. QED
        BY <3>1, <3>2
    <2>6. h \in SumsOf(ns, m + 1)
      BY <2>4, <2>5 DEF SumsOf
    <2>7. QED
      BY <2>6
  <1> HIDE DEF T
  <1>3. T = Nat
    BY <1>1, <1>2, SetInduction DEF T
  <1>4. QED
    BY <1>3 DEF T

\* Total is the last of the partial sums.
LEMMA TotalIsSum ==
  ASSUME NEW n \in Nat, NEW ns \in [1 .. n -> Nat]
  PROVE  \E g \in SumsOf(ns, n) : Total(ns, n) = g[n]
  <1> DEFINE Sums(g) == g = [m \in 0 .. n |-> IF m = 0 THEN 0 ELSE g[m - 1] + ns[m]]
             s == CHOOSE g : Sums(g)
  <1>1. PICK g : g \in SumsOf(ns, n)
    BY SumsExist
  <1>2. Sums(g)
    BY <1>1 DEF SumsOf
  <1>3. Sums(s)
    BY <1>2
  <1>4. Total(ns, n) = s[n]
    BY DEF Total
  <1> HIDE DEF s
  <1> DEFINE T == {m \in Nat : m <= n => s[m] = g[m]}
  <1>5. 0 \in T
    BY <1>1, <1>3 DEF SumsOf
  <1>6. ASSUME NEW m \in T PROVE m + 1 \in T
    <2> SUFFICES ASSUME m + 1 <= n PROVE s[m + 1] = g[m + 1]
      OBVIOUS
    <2>1. m + 1 \in 0 .. n /\ m + 1 # 0 /\ (m + 1) - 1 = m /\ s[m] = g[m]
      OBVIOUS
    <2>2. s[m + 1] = s[m] + ns[m + 1]
      BY <1>3, <2>1
    <2>3. g[m + 1] = g[m] + ns[m + 1]
      BY <1>1, <2>1 DEF SumsOf
    <2>4. QED
      BY <2>1, <2>2, <2>3
  <1> HIDE DEF T
  <1>7. n \in T
    BY <1>5, <1>6, SetInduction DEF T
  <1>8. QED
    BY <1>1, <1>4, <1>7 DEF T

\* A sum of naturals is a natural.
LEMMA TotalType ==
  ASSUME NEW n \in Nat, NEW ns \in [1 .. n -> Nat]
  PROVE  Total(ns, n) \in Nat
  BY TotalIsSum DEF SumsOf

\* Larger terms have no smaller sum.
LEMMA TotalMonotone ==
  ASSUME NEW n \in Nat, NEW ns \in [1 .. n -> Nat], NEW ms \in [1 .. n -> Nat],
         \A i \in 1 .. n : ns[i] <= ms[i]
  PROVE  Total(ns, n) <= Total(ms, n)
  <1>1. PICK g : g \in SumsOf(ns, n) /\ Total(ns, n) = g[n]
    BY TotalIsSum
  <1>2. PICK h : h \in SumsOf(ms, n) /\ Total(ms, n) = h[n]
    BY TotalIsSum
  <1>3. g \in [0 .. n -> Nat] /\ h \in [0 .. n -> Nat]
    BY <1>1, <1>2 DEF SumsOf
  <1> DEFINE T == {m \in Nat : m <= n => g[m] <= h[m]}
  <1>4. 0 \in T
    BY <1>1, <1>2 DEF SumsOf
  <1>5. ASSUME NEW m \in T PROVE m + 1 \in T
    <2> SUFFICES ASSUME m + 1 <= n PROVE g[m + 1] <= h[m + 1]
      OBVIOUS
    <2>1. /\ m \in 0 .. n /\ m + 1 \in 0 .. n /\ m + 1 \in 1 .. n /\ m + 1 # 0
          /\ (m + 1) - 1 = m /\ g[m] <= h[m]
      OBVIOUS
    <2>2. g[m + 1] = g[m] + ns[m + 1]
      BY <1>1, <2>1 DEF SumsOf
    <2>3. h[m + 1] = h[m] + ms[m + 1]
      BY <1>2, <2>1 DEF SumsOf
    <2>4. /\ g[m] \in Nat /\ h[m] \in Nat /\ ns[m + 1] \in Nat /\ ms[m + 1] \in Nat
          /\ ns[m + 1] <= ms[m + 1]
      BY <1>3, <2>1
    <2>5. QED
      BY <2>1, <2>2, <2>3, <2>4
  <1> HIDE DEF T
  <1>6. n \in T
    BY <1>4, <1>5, SetInduction DEF T
  <1>7. QED
    BY <1>1, <1>2, <1>6 DEF T

\* A last term of zero adds nothing.
LEMMA TotalLastZero ==
  ASSUME NEW n \in Nat, NEW ns \in [1 .. n -> Nat], NEW ms \in [1 .. n + 1 -> Nat],
         \A i \in 1 .. n : ms[i] = ns[i], ms[n + 1] = 0
  PROVE  Total(ms, n + 1) = Total(ns, n)
  <1>1. PICK g : g \in SumsOf(ns, n) /\ Total(ns, n) = g[n]
    BY TotalIsSum
  <1>2. PICK h : h \in SumsOf(ms, n + 1) /\ Total(ms, n + 1) = h[n + 1]
    BY TotalIsSum
  <1>3. g \in [0 .. n -> Nat] /\ h \in [0 .. n + 1 -> Nat]
    BY <1>1, <1>2 DEF SumsOf
  <1> DEFINE T == {m \in Nat : m <= n => g[m] = h[m]}
  <1>4. 0 \in T
    BY <1>1, <1>2 DEF SumsOf
  <1>5. ASSUME NEW m \in T PROVE m + 1 \in T
    <2> SUFFICES ASSUME m + 1 <= n PROVE g[m + 1] = h[m + 1]
      OBVIOUS
    <2>1. /\ m + 1 \in 0 .. n /\ m + 1 \in 0 .. n + 1 /\ m + 1 \in 1 .. n
          /\ m + 1 # 0 /\ (m + 1) - 1 = m /\ g[m] = h[m]
      OBVIOUS
    <2>2. g[m + 1] = g[m] + ns[m + 1]
      BY <1>1, <2>1 DEF SumsOf
    <2>3. h[m + 1] = h[m] + ms[m + 1]
      BY <1>2, <2>1 DEF SumsOf
    <2>4. QED
      BY <2>1, <2>2, <2>3
  <1> HIDE DEF T
  <1>6. n \in T
    BY <1>4, <1>5, SetInduction DEF T
  <1>7. g[n] = h[n] /\ h[n] \in Nat
    BY <1>3, <1>6 DEF T
  <1>8. h[n + 1] = h[n] + ms[n + 1]
    <2>1. n + 1 \in 0 .. n + 1 /\ n + 1 # 0 /\ (n + 1) - 1 = n
      OBVIOUS
    <2>2. QED
      BY <1>2, <2>1 DEF SumsOf
  <1>9. QED
    BY <1>1, <1>2, <1>7, <1>8

-----------------------------------------------------------------------------
(* The catalog and the instances.                                          *)

\* A watched key has a threshold with a positive window.
LEMMA CatalogTypes ==
  ASSUME NEW k \in WatchedKeys
  PROVE  /\ k \in Keys
         /\ Thresholds[k] \in Threshold
         /\ Thresholds[k].MinWindowSec \in Nat \ {0}
         /\ Thresholds[k].PPS \in Nat
         /\ Thresholds[k].BPS \in Nat
  BY CatalogAssumption DEF WatchedKeys, Threshold

\* One of two numbers is the larger.
LEMMA PairMax ==
  ASSUME NEW a \in Nat, NEW b \in Nat
  PROVE  \E w \in {a, b} : \A v \in {a, b} : v <= w
  <1>1. CASE a <= b
    BY <1>1
  <1>2. CASE b <= a
    BY <1>2
  <1>3. QED
    BY <1>1, <1>2

\* MaxWindow is at least as wide as the window of every threshold of the host,
\* and the window of one of them.
LEMMA MaxWindowIsMax ==
  ASSUME NEW h \in Hosts, Watched(h)
  PROVE  /\ MaxWindow(h) \in Nat \ {0}
         /\ \A k \in WatchedKeys : k[1] = h => Thresholds[k].MinWindowSec <= MaxWindow(h)
  <1> DEFINE u == <<h, "udp_flood">>
             c == <<h, "icmp_flood">>
             windows == {Thresholds[k].MinWindowSec : k \in {x \in WatchedKeys : x[1] = h}}
             IsMax(w) == w \in windows /\ \A v \in windows : v <= w
  <1>1. \A k \in WatchedKeys : k[1] = h => k \in {u, c}
    BY CatalogTypes DEF Keys, Vectors
  <1>2. u[1] = h /\ c[1] = h
    OBVIOUS
  <1>3. u \in WatchedKeys \/ c \in WatchedKeys
    BY DEF Watched, Vectors
  <1>4. windows \subseteq Nat \ {0}
    BY CatalogTypes
  <1>5. \E w : IsMax(w)
    <2>1. PICK k \in WatchedKeys, l \in WatchedKeys :
             {x \in WatchedKeys : x[1] = h} = {k, l}
      <3>1. CASE u \in WatchedKeys /\ c \notin WatchedKeys
        BY <1>1, <1>2, <3>1
      <3>2. CASE u \notin WatchedKeys /\ c \in WatchedKeys
        BY <1>1, <1>2, <3>2
      <3>3. CASE u \in WatchedKeys /\ c \in WatchedKeys
        BY <1>1, <1>2, <3>3
      <3>4. QED
        BY <1>3, <3>1, <3>2, <3>3
    <2>2. windows = {Thresholds[k].MinWindowSec, Thresholds[l].MinWindowSec}
      BY <2>1
    <2> HIDE DEF windows
    <2>3. Thresholds[k].MinWindowSec \in Nat /\ Thresholds[l].MinWindowSec \in Nat
      BY CatalogTypes
    <2>4. \E w \in windows : \A v \in windows : v <= w
      BY <2>2, <2>3, PairMax
    <2>5. QED
      BY <2>4
  <1> HIDE DEF windows
  <1>6. IsMax(MaxWindow(h))
    <2>1. MaxWindow(h) = CHOOSE w \in windows : \A v \in windows : v <= w
      BY DEF MaxWindow, windows
    <2>2. QED
      BY <1>5, <2>1
  <1>7. \A k \in WatchedKeys : k[1] = h => Thresholds[k].MinWindowSec \in windows
    BY DEF windows
  <1>8. QED
    BY <1>4, <1>6, <1>7

\* The assumptions of StateMachine hold of the engine's machines.
LEMMA MachineAssumptions ==
  SP!RatesAssumption /\ SP!ThresholdAssumption /\ SP!TimingAssumption
  <1>1. SP!RatesAssumption
    BY DEF SP!RatesAssumption
  <1>2. \A k \in Keys : k \in WatchedKeys =>
          Thresholds[k].MinWindowSec \in Int /\ Thresholds[k].GraceSec \in Int
    BY CatalogTypes DEF Threshold
  <1>3. SP!ThresholdAssumption
    BY <1>2 DEF SP!ThresholdAssumption
  <1>4. SP!TimingAssumption
    BY EngineTimingAssumption, StoreAssumption DEF SP!TimingAssumption
  <1>5. QED
    BY <1>1, <1>3, <1>4

\* Both instances name the same machines: the state, a step, the types and the
\* promise.
LEMMA SameNames ==
  /\ SP!NoEvent = SM!NoEvent
  /\ SP!NoIncident = SM!NoIncident
  /\ SP!ZeroTime = SM!ZeroTime
  /\ SP!smVars = SM!smVars
  /\ SP!Event = SM!Event
  /\ SP!Incident = SM!Incident
  /\ SP!Input = SM!Input
  BY DEF SP!NoEvent, SM!NoEvent, SP!NoIncident, SM!NoIncident, SP!ZeroTime,
         SM!ZeroTime, SP!smVars, SM!smVars, SP!Event, SM!Event, SP!Incident,
         SM!Incident, SP!Input, SM!Input

\* Both instances take the same step of a key.
LEMMA SameStep ==
  ASSUME NEW k \in Keys, NEW in
  PROVE  SP!Step(k, in) <=> SM!Step(k, in)
  BY DEF SP!Step, SM!Step,
         SP!StepIdle, SM!StepIdle, SP!StepStart, SM!StepStart, SP!StepViolating,
         SM!StepViolating, SP!StepGrace, SM!StepGrace, SP!StepEnd, SM!StepEnd,
         SP!StepCooldown, SM!StepCooldown, SP!NoEvent, SM!NoEvent,
         SP!NoIncident, SM!NoIncident, SP!NewIncident, SM!NewIncident,
         SP!AttackEvent, SM!AttackEvent, SP!Violated, SM!Violated, SP!Quiet,
         SM!Quiet, SP!peakDoubled, SM!peakDoubled, SP!graceTicks, SM!graceTicks,
         SP!RaisePeak, SM!RaisePeak, SP!Larger, SM!Larger

\* Both instances take the same steps of all keys.
LEMMA SameNext == SP!SMNext <=> SM!SMNext
  BY SameStep, SameNames
  DEF SP!SMNext, SM!SMNext, SP!SMTick, SM!SMTick, SP!SMStep, SM!SMStep

\* Both instances begin alike.
LEMMA SameInit == SP!SMInit <=> SM!SMInit
  BY SameNames DEF SP!SMInit, SM!SMInit

\* Both instances have the same types.
LEMMA SameTypes == SP!SMTypeOK <=> SM!SMTypeOK
  BY SameNames DEF SP!SMTypeOK, SM!SMTypeOK

\* Both instances promise the same life cycle.
LEMMA SameLifecycle ==
  /\ UNCHANGED SP!Lifecycle!lifecycleVars <=> UNCHANGED SM!Lifecycle!lifecycleVars
  /\ SP!Lifecycle!LifecycleInit <=> SM!Lifecycle!LifecycleInit
  /\ SP!Lifecycle!LifecycleNext <=> SM!Lifecycle!LifecycleNext
  <1>1. /\ SP!Lifecycle!Never = SM!Lifecycle!Never
        /\ \A k \in Keys : SP!graceTicks(k) = SM!graceTicks(k)
    BY DEF SP!Lifecycle!Never, SM!Lifecycle!Never, SP!graceTicks, SM!graceTicks
  <1>2. UNCHANGED SP!Lifecycle!lifecycleVars <=> UNCHANGED SM!Lifecycle!lifecycleVars
    BY DEF SP!Lifecycle!lifecycleVars, SM!Lifecycle!lifecycleVars, SP!ZeroTime, SM!ZeroTime
  <1>3. SP!Lifecycle!LifecycleInit <=> SM!Lifecycle!LifecycleInit
    BY <1>1, SameNames DEF SP!Lifecycle!LifecycleInit, SM!Lifecycle!LifecycleInit
  <1>4. SP!Lifecycle!LifecycleNext <=> SM!Lifecycle!LifecycleNext
    BY <1>1, SameNames
    DEF SP!Lifecycle!LifecycleNext, SM!Lifecycle!LifecycleNext,
        SP!Lifecycle!Pass, SM!Lifecycle!Pass, SP!Lifecycle!Start,
        SM!Lifecycle!Start, SP!Lifecycle!Update, SM!Lifecycle!Update,
        SP!Lifecycle!End, SM!Lifecycle!End, SP!Lifecycle!Observe,
        SM!Lifecycle!Observe
  <1>5. QED
    BY <1>2, <1>3, <1>4

-----------------------------------------------------------------------------
(* The invariant.                                                          *)

\* The types of the engine's own variables; the channel within its capacity.
EngineTypes ==
  /\ collected \in 0 .. tickNow
  /\ toEval \subseteq Hosts
  /\ streak \in [Keys -> Nat]
  /\ out \in Seq(SM!Event)
  /\ Len(out) <= OutCapacity
  /\ dropped \in Nat

\* In the first round of the ring, the slots ahead of the clock are empty; and
\* once a shard has been swept in the current second, so is the slot of the next.
SlotsAhead ==
  \A h \in Hosts :
    /\ \A s \in Slots : s > clock => ring[h][s] = EmptyBucket
    /\ lastTick[ShardOf[h]] = clock => ring[h][Slot(clock + 1)] = EmptyBucket

\* The engine keeps up: it is at most one second behind the clock, and only
\* between two ticks; hosts are evaluated after the sweep of their tick, in the
\* second of the tick, and every second so far has had its sweep in time.
KeepsUp ==
  /\ tickNow < clock => tickNow = clock - 1 /\ TickDone
  /\ collected = tickNow => sweep = NumShards + 1
  /\ toEval # {} => collected = tickNow /\ tickNow > 0
  /\ \A sh \in Shards : /\ onTime[sh] = 0 .. lastTick[sh]
                        /\ lastTick[sh] >= tickNow - 1

\* A machine was stepped in this tick only if its host has been evaluated.
SteppedOnce ==
  \A k \in stepped : collected = tickNow /\ k[1] \notin toEval

\* A streak is no longer than the number of ticks there were to build it.
StreakBounded ==
  \A k \in Keys :
    streak[k] <= IF k \in stepped \/ tickNow = 0 THEN tickNow ELSE tickNow - 1

\* The inductive invariant.
EngineInv ==
  /\ StoreInv
  /\ SP!SMInv
  /\ EngineTypes
  /\ SlotsAhead
  /\ KeepsUp
  /\ SteppedOnce
  /\ StreakBounded

-----------------------------------------------------------------------------
(* What an evaluation reads.                                               *)

\* The numbers the evaluation takes from a bucket.
LEMMA BucketNumbers ==
  ASSUME NEW b \in Bucket
  PROVE  Pps(b) \in Nat /\ Bps(b) \in Nat /\ UDP(b) \in Nat /\ ICMP(b) \in Nat
  BY DEF Bucket, Protos, Pps, Bps, UDP, ICMP

\* The sequence of n buckets has length n.
LEMMA BucketsLen ==
  ASSUME NEW n \in Nat, NEW b \in [1 .. n -> Bucket]
  PROVE  Len(b) = n
  <1>1. b \in Seq(Bucket)
    OBVIOUS
  <1>2. QED
    BY <1>1, LenProperties

\* Nothing is classified without data.
LEMMA NothingClassified == Classify(<<>>) = "none"
  <1>1. Len(<<>>) = 0
    OBVIOUS
  <1>2. ASSUME NEW ns \in [1 .. 0 -> Nat] PROVE Total(ns, 0) = 0
    <2>1. PICK g \in SumsOf(ns, 0) : Total(ns, 0) = g[0]
      BY TotalIsSum
    <2>2. 0 \in 0 .. 0
      OBVIOUS
    <2>3. QED
      BY <2>1, <2>2 DEF SumsOf
  <1>3. /\ Total([i \in 1 .. 0 |-> Pps(<<>>[i])], 0) = 0
        /\ Total([i \in 1 .. 0 |-> UDP(<<>>[i])], 0) = 0
        /\ Total([i \in 1 .. 0 |-> ICMP(<<>>[i])], 0) = 0
    <2>1. /\ [i \in 1 .. 0 |-> Pps(<<>>[i])] \in [1 .. 0 -> Nat]
          /\ [i \in 1 .. 0 |-> UDP(<<>>[i])] \in [1 .. 0 -> Nat]
          /\ [i \in 1 .. 0 |-> ICMP(<<>>[i])] \in [1 .. 0 -> Nat]
      OBVIOUS
    <2>2. QED
      BY <1>2, <2>1
  <1>4. /\ SumOf(Pps, <<>>, Len(<<>>)) = 0
        /\ SumOf(UDP, <<>>, Len(<<>>)) = 0
        /\ SumOf(ICMP, <<>>, Len(<<>>)) = 0
    BY <1>1, <1>3 DEF SumOf
  <1>5. QED
    BY <1>4 DEF Classify

\* A second and the one a whole round of the ring earlier share a slot.
LEMMA RoundSlot ==
  ASSUME NEW s \in Int
  PROVE  Slot(s - WindowSize) = Slot(s)
  <1> USE StoreAssumption DEF Slot
  <1> DEFINE p == s \div WindowSize
             q == (s - WindowSize) \div WindowSize
  <1>1. /\ p \in Int /\ q \in Int
        /\ Slot(s) \in 0 .. WindowSize - 1 /\ Slot(s - WindowSize) \in 0 .. WindowSize - 1
        /\ s = WindowSize * p + Slot(s)
        /\ s - WindowSize = WindowSize * q + Slot(s - WindowSize)
    BY Z3
  <1> HIDE DEF p, q, Slot
  <1>2. WindowSize * (p - q - 1) = Slot(s - WindowSize) - Slot(s)
    <2> DEFINE a == WindowSize * p
               b == WindowSize * q
    <2>1. WindowSize * (p - q - 1) = a - b - WindowSize
      BY <1>1
    <2>2. /\ a \in Int /\ b \in Int /\ Slot(s) \in Int /\ Slot(s - WindowSize) \in Int
          /\ s = a + Slot(s) /\ s - WindowSize = b + Slot(s - WindowSize)
      BY <1>1
    <2> HIDE DEF a, b
    <2>3. a - b - WindowSize = Slot(s - WindowSize) - Slot(s)
      BY <2>2
    <2>4. QED
      BY <2>1, <2>3
  <1>3. ~(p - q - 1 >= 1)
    <2>1. p - q - 1 >= 1 => WindowSize * (p - q - 1) >= WindowSize
      BY <1>1
    <2>2. QED
      BY <1>1, <1>2, <2>1
  <1>4. ~(p - q - 1 <= -1)
    <2>1. p - q - 1 <= -1 => WindowSize * (p - q - 1) <= -WindowSize
      BY <1>1
    <2>2. QED
      BY <1>1, <1>2, <2>1
  <1>5. p - q - 1 = 0
    BY <1>1, <1>3, <1>4
  <1>6. QED
    BY <1>1, <1>2, <1>5

\* The number of buckets evalHost asks for, as far as the ring reaches.
Window(h) == Smaller(MaxWindow(h), WindowSize)

\* The buckets an evaluation reads are, newest first, what was applied for the
\* seconds of the window; the slot of the WindowSize-th is the next second's.
LEMMA EvalReads ==
  ASSUME EngineInv, NEW h \in toEval, Watched(h), Classified(h) \in WatchedKeys
  PROVE  /\ h \in known /\ h \in Hosts
         /\ tickNow = clock /\ tickNow \in 1 .. MaxTime
         /\ Classified(h) \in Keys /\ Classified(h)[1] = h
         /\ Classified(h) \notin stepped
         /\ Window(h) \in Nat \ {0}
         /\ Window(h) = IF MaxWindow(h) > WindowSize THEN WindowSize ELSE MaxWindow(h)
         /\ Buckets(h) \in [1 .. Window(h) -> Bucket]
         /\ \A i \in 1 .. Window(h) :
              Buckets(h)[i] = IF i < WindowSize THEN AppliedAt(h, tickNow - (i - 1))
                                                ELSE EmptyBucket
  <1> USE StoreAssumption DEF EngineInv, StoreInv
  <1>1. /\ h \in Hosts
        /\ collected = tickNow /\ tickNow > 0 /\ sweep = NumShards + 1
        /\ toEval # {}
    BY DEF EngineTypes, KeepsUp
  <1>2. tickNow = clock /\ tickNow \in 1 .. MaxTime
    BY <1>1 DEF KeepsUp, TickDone, StoreTypeOK
  <1>3. Classified(h) \in Keys /\ Classified(h)[1] = h
    BY CatalogTypes DEF Classified
  <1>4. Classified(h) \notin stepped
    BY <1>3 DEF SteppedOnce
  <1>5. h \in known
    <2> SUFFICES ASSUME h \notin known PROVE FALSE
      OBVIOUS
    <2>1. Classified(h) = <<h, "none">>
      BY NothingClassified DEF Classified, Buckets, Snapshot
    <2>2. QED
      BY <1>3, <2>1 DEF Keys, Vectors
  <1>6. /\ Window(h) \in Nat \ {0} /\ Window(h) <= WindowSize
        /\ Window(h) = IF MaxWindow(h) > WindowSize THEN WindowSize ELSE MaxWindow(h)
    BY <1>1, MaxWindowIsMax DEF Window, Smaller
  <1>7. Buckets(h) = [i \in 1 .. Window(h) |-> ring[h][Slot(tickNow - (i - 1))]]
    BY <1>5, <1>6 DEF Buckets, Snapshot
  <1>8. ring[h] \in [Slots -> Bucket] /\ ShardOf[h] \in Shards
    BY <1>1 DEF StoreTypeOK, Shards
  <1>9. \A i \in 1 .. Window(h) : Slot(tickNow - (i - 1)) \in Slots
    BY <1>2, SlotInRing
  <1>10. Buckets(h) \in [1 .. Window(h) -> Bucket]
    BY <1>7, <1>8, <1>9
  <1>11. /\ lastTick[ShardOf[h]] = tickNow
         /\ onTime[ShardOf[h]] = 0 .. tickNow
    BY <1>1, <1>2, <1>8 DEF Sweeping, KeepsUp, Shards
  <1>12. ASSUME NEW i \in 1 .. Window(h)
         PROVE  Buckets(h)[i] = IF i < WindowSize THEN AppliedAt(h, tickNow - (i - 1))
                                                  ELSE EmptyBucket
    <2> DEFINE s == tickNow - (i - 1)
    <2>1. Buckets(h)[i] = ring[h][Slot(s)] /\ s \in Int /\ i \in 1 .. WindowSize
      BY <1>2, <1>6, <1>7
    <2>2. CASE i < WindowSize /\ s >= 0
      <3>1. s \in 0 .. MaxTime /\ Cleared(h, s)
        BY <1>2, <1>11, <2>1, <2>2 DEF Cleared
      <3>2. Stands(h, s)
        BY <1>2, <1>11, <2>1, <2>2, <3>1 DEF Stands
      <3>3. QED
        BY <1>1, <2>1, <2>2, <3>1, <3>2 DEF Holds, AppliedAt
    <2>3. CASE i < WindowSize /\ s < 0
      <3>1. Slot(s) = s + WindowSize /\ s + WindowSize \in Slots /\ s + WindowSize > clock
        <4>1. s + WindowSize \in 0 .. WindowSize - 1 /\ s + WindowSize > clock
          BY <1>2, <2>1, <2>3
        <4>2. s % WindowSize = s + WindowSize
          BY <2>1, <4>1, Z3
        <4>3. QED
          BY <4>1, <4>2 DEF Slot, Slots
      <3>2. QED
        BY <1>1, <2>1, <2>3, <3>1 DEF SlotsAhead, AppliedAt
    <2>4. CASE i = WindowSize
      <3>1. Slot(s) = Slot(clock + 1)
        <4>1. s = (clock + 1) - WindowSize
          BY <1>2, <2>1, <2>4
        <4>2. QED
          BY <1>2, <4>1, RoundSlot
      <3>2. ring[h][Slot(clock + 1)] = EmptyBucket
        BY <1>1, <1>2, <1>11 DEF SlotsAhead
      <3>3. QED
        BY <2>1, <2>4, <3>1, <3>2
    <2>5. QED
      BY <2>1, <2>2, <2>3, <2>4
  <1>13. QED
    BY <1>2, <1>1, <1>3, <1>4, <1>5, <1>6, <1>10, <1>12

-----------------------------------------------------------------------------
(* The engine drives the store and the state machines as they expect.      *)

\* The input of the state machine at the evaluation of h.
Bad(h) == Violating(Buckets(h), Thresholds[Classified(h)])

InputOf(h) ==
  [current |-> [pps |-> Buckets(h)[1].Pps, bps |-> Buckets(h)[1].Bps],
   violating |-> Bad(h),
   durationViolated |-> streak'[Classified(h)]]

\* An evaluation is a step of one machine that was not stepped in this tick,
\* with an input of the expected range.
LEMMA EvalStepsMachine ==
  ASSUME EngineInv, NEW h \in Hosts, EvalStep(h)
  PROVE  /\ InputOf(h) \in SM!Input
         /\ SM!SMStep(Classified(h), InputOf(h))
         /\ streak' = [streak EXCEPT ![Classified(h)] = IF Bad(h) THEN @ + 1 ELSE 0]
         /\ streak'[Classified(h)] <= tickNow
  <1> DEFINE k == Classified(h)
  <1>1. /\ h \in toEval /\ Watched(h) /\ k \in WatchedKeys
        /\ streak' = [streak EXCEPT ![k] = IF Bad(h) THEN @ + 1 ELSE 0]
        /\ SM!Step(k, InputOf(h))
        /\ stepped' = stepped \cup {k}
        /\ UNCHANGED storeVars
    BY DEF EvalStep, InputOf, Bad
  <1>2. /\ k \in Keys /\ k \notin stepped /\ tickNow \in 1 .. MaxTime
        /\ Buckets(h)[1] \in Bucket
    <2>1. Window(h) \in Nat \ {0} /\ Buckets(h) \in [1 .. Window(h) -> Bucket]
      BY <1>1, EvalReads
    <2>2. Buckets(h)[1] \in Bucket
      BY <2>1
    <2>3. QED
      BY <1>1, <2>2, EvalReads
  <1> HIDE DEF k
  <1>3. streak \in [Keys -> Nat] /\ streak[k] <= tickNow - 1
    BY <1>2 DEF EngineInv, EngineTypes, StreakBounded
  <1>4. streak'[k] \in 0 .. MaxTime /\ streak'[k] <= tickNow
    BY <1>1, <1>2, <1>3, StoreAssumption
  <1>5. Bad(h) \in BOOLEAN
    BY DEF Bad, Violating
  <1>6. [pps |-> Buckets(h)[1].Pps, bps |-> Buckets(h)[1].Bps] \in [pps : Nat, bps : Nat]
    BY <1>2 DEF Bucket
  <1>7. InputOf(h) \in SM!Input
    BY <1>4, <1>5, <1>6 DEF InputOf, SM!Input, k
  <1>8. tickNow' = tickNow
    BY <1>1 DEF storeVars
  <1>9. SM!SMStep(k, InputOf(h))
    BY <1>1, <1>2, <1>8 DEF SM!SMStep
  <1>10. QED
    BY <1>1, <1>4, <1>7, <1>9 DEF k

\* The begin of a tick is the tick of the machines, an evaluation the step of
\* one of them; nothing else touches them.
LEMMA DrivesMachines ==
  EngineInv /\ [EngineNext]_vars => [SM!SMNext]_(SM!smVars)
  <1> SUFFICES ASSUME EngineInv, [EngineNext]_vars
               PROVE  [SM!SMNext]_(SM!smVars)
    OBVIOUS
  <1>1. CASE EngineTickBegin
    <2>1. /\ tickNow' = clock /\ tickNow < clock
          /\ clock \in 0 .. MaxTime /\ tickNow \in 0 .. clock
          /\ stepped' = {} /\ ev' = SM!NoEvent
          /\ UNCHANGED <<state, inc, cooldownUntil, ulids, lastViolation>>
      BY <1>1 DEF EngineTickBegin, TickBegin, EngineInv, StoreInv, StoreTypeOK
    <2>2. tickNow' \in (tickNow + 1) .. MaxTime
      BY <2>1, StoreAssumption
    <2>3. SM!SMTick
      BY <2>1, <2>2 DEF SM!SMTick
    <2>4. QED
      BY <2>3 DEF SM!SMNext
  <1>2. ASSUME NEW h \in Hosts, EvalStep(h) PROVE SM!SMNext
    <2>1. Classified(h) \in Keys
      BY <1>2, CatalogTypes DEF EvalStep
    <2>2. QED
      BY <1>2, <2>1, EvalStepsMachine DEF SM!SMNext
  <1>3. CASE \/ EngineTickShard \/ ListActiveHosts \/ EngineWrite
             \/ BusReceive \/ EngineSecond \/ \E h \in Hosts : EvalSkip(h)
             \/ UNCHANGED vars
    <2>1. UNCHANGED <<tickNow, smState>>
      BY <1>3
      DEF EngineTickShard, TickShard, SweepDone, ListActiveHosts, EngineWrite,
          Write, StoreUpdate, BusReceive, EngineSecond, Second, EvalSkip, vars,
          storeVars
    <2>2. QED
      BY <2>1 DEF smState, SM!smVars
  <1>4. QED
    BY <1>1, <1>2, <1>3 DEF EngineNext

\* The engine's actions on the store are the store's.
LEMMA DrivesStore == [EngineNext]_vars => [StoreNext]_storeVars
  <1> SUFFICES ASSUME [EngineNext]_vars PROVE [StoreNext]_storeVars
    OBVIOUS
  <1>1. CASE EngineTickBegin
    BY <1>1 DEF EngineTickBegin, StoreNext, Tick
  <1>2. CASE EngineTickShard
    BY <1>2 DEF EngineTickShard, StoreNext, Tick
  <1>3. CASE EngineWrite
    BY <1>3 DEF EngineWrite, StoreNext
  <1>4. CASE EngineSecond
    BY <1>4 DEF EngineSecond, Second, SecondUnticked, StoreNext
  <1>5. CASE \/ ListActiveHosts \/ BusReceive
             \/ \E h \in Hosts : EvalSkip(h) \/ EvalStep(h)
             \/ UNCHANGED vars
    BY <1>5 DEF ListActiveHosts, BusReceive, EvalSkip, EvalStep, vars
  <1>6. QED
    BY <1>1, <1>2, <1>3, <1>4, <1>5 DEF EngineNext

-----------------------------------------------------------------------------
(* The invariant is inductive.                                             *)

\* A new engine has evaluated nothing.
LEMMA EngineInitInv == EngineInit => EngineInv
  <1> SUFFICES ASSUME EngineInit PROVE EngineInv
    OBVIOUS
  <1> USE StoreAssumption DEF EngineInit
  <1>1. StoreInv
    BY InitInv
  <1>2. SP!SMInv
    <2>1. SM!SMInit
      BY DEF SM!SMInit, StoreInit
    <2>2. QED
      BY <2>1, SameInit, MachineAssumptions, SP!InitInv
  <1>3. EngineTypes
    BY CatalogAssumption DEF EngineTypes, StoreInit
  <1>4. SlotsAhead
    <2>1. clock = 0 /\ ring = [h \in Hosts |-> EmptyRing]
      BY DEF StoreInit
    <2>2. Slot(clock + 1) \in Slots
      BY <2>1, SlotInRing
    <2>3. QED
      BY <2>1, <2>2 DEF SlotsAhead, EmptyRing
  <1>5. KeepsUp
    BY DEF KeepsUp, StoreInit, TickDone, Shards
  <1>6. SteppedOnce /\ StreakBounded
    BY DEF SteppedOnce, StreakBounded, StoreInit
  <1>7. QED
    BY <1>1, <1>2, <1>3, <1>4, <1>5, <1>6 DEF EngineInv

\* A record is written to a slot of the window, never to one ahead of the clock.
LEMMA WriteKeepsAhead ==
  ASSUME StoreInv, SlotsAhead, NEW h \in Hosts, NEW sec \in 0 .. MaxTime,
         NEW r \in Records, StoreUpdate(h, sec, r)
  PROVE  SlotsAhead'
  <1> USE StoreAssumption
  <1>1. /\ sec \in 0 .. clock /\ clock - sec <= MaxLag
        /\ ring' = [ring EXCEPT ![h][Slot(sec)] = AddRecord(@, r)]
        /\ UNCHANGED <<clock, lastTick>>
        /\ clock \in 0 .. MaxTime
        /\ ring \in [Hosts -> [Slots -> Bucket]]
    BY DEF StoreUpdate, StoreInv, StoreTypeOK
  <1>2. /\ Slot(sec) \in Slots /\ Slot(clock + 1) \in Slots
        /\ Slot(sec) # Slot(clock + 1)
    BY <1>1, SlotInRing, SameSlot
  <1>3. ASSUME NEW s \in Slots, s > clock PROVE Slot(sec) # s
    <2>1. sec \in 0 .. WindowSize - 1 /\ sec < s
      BY <1>1, <1>3 DEF Slots
    <2>2. Slot(sec) = sec
      BY <2>1, Z3 DEF Slot
    <2>3. QED
      BY <2>1, <2>2
  <1>4. QED
    BY <1>1, <1>2, <1>3 DEF SlotsAhead

\* A sweep empties the slot of the next second and writes nothing.
LEMMA SweepKeepsAhead == StoreInv /\ SlotsAhead /\ TickShard => SlotsAhead'
  <1> SUFFICES ASSUME StoreInv, SlotsAhead, TickShard PROVE SlotsAhead'
    OBVIOUS
  <1> USE StoreAssumption DEF StoreInv
  <1>1. /\ sweep \in Shards
        /\ ring' = [h \in Hosts |->
                      IF h \notin Mine THEN ring[h]
                      ELSE IF Cold(h) THEN EmptyRing
                      ELSE [ring[h] EXCEPT ![Slot(tickNow + 1)] = EmptyBucket]]
        /\ lastTick' = [lastTick EXCEPT ![sweep] = tickNow]
        /\ UNCHANGED <<clock, tickNow>>
        /\ clock \in 0 .. MaxTime /\ tickNow \in 0 .. clock
        /\ ring \in [Hosts -> [Slots -> Bucket]]
        /\ lastTick \in [Shards -> 0 .. MaxTime]
    BY DEF TickShard, SweepDone, StoreTypeOK
  <1>2. Slot(clock + 1) \in Slots /\ Slot(tickNow + 1) \in Slots
    BY <1>1, SlotInRing
  <1>3. ASSUME NEW h \in Hosts, NEW s \in Slots, ring[h][s] = EmptyBucket
        PROVE  ring'[h][s] = EmptyBucket
    BY <1>1, <1>2, <1>3 DEF EmptyRing
  <1>4. ASSUME NEW h \in Hosts, lastTick'[ShardOf[h]] = clock
        PROVE  ring'[h][Slot(clock + 1)] = EmptyBucket
    <2>1. ShardOf[h] \in Shards
      BY DEF Shards
    <2>2. CASE ShardOf[h] # sweep
      BY <1>1, <1>2, <1>3, <1>4, <2>1, <2>2 DEF SlotsAhead
    <2>3. CASE ShardOf[h] = sweep /\ h \in known
      <3>1. tickNow = clock /\ h \in Mine
        BY <1>1, <1>4, <2>1, <2>3 DEF Mine
      <3>2. QED
        BY <1>1, <1>2, <3>1 DEF EmptyRing
    <2>4. CASE h \notin known
      <3>1. ring[h][Slot(clock + 1)] = EmptyBucket
        BY <1>2, <2>4 DEF Blank, EmptyRing
      <3>2. QED
        BY <1>2, <1>3, <3>1
    <2>5. QED
      BY <2>2, <2>3, <2>4
  <1>5. QED
    BY <1>1, <1>3, <1>4 DEF SlotsAhead

\* Every step keeps the slots ahead empty.
LEMMA NextKeepsAhead == EngineInv /\ [EngineNext]_vars => SlotsAhead'
  <1> SUFFICES ASSUME EngineInv, [EngineNext]_vars PROVE SlotsAhead'
    OBVIOUS
  <1> USE DEF EngineInv
  <1>1. CASE Write
    BY <1>1, WriteKeepsAhead DEF Write
  <1>2. CASE TickShard
    BY <1>2, SweepKeepsAhead
  <1>3. CASE TickBegin
    BY <1>3 DEF TickBegin, SlotsAhead
  <1>4. CASE SecondUnticked
    <2>1. /\ clock' = clock + 1 /\ clock \in 0 .. MaxTime
          /\ UNCHANGED <<ring, lastTick>>
      BY <1>4 DEF SecondUnticked, StoreInv, StoreTypeOK
    <2>2. ASSUME NEW h \in Hosts PROVE lastTick[ShardOf[h]] # clock + 1
      <3>1. /\ ShardOf[h] \in Shards /\ ShardOf[h] \in Nat /\ sweep \in Nat
            /\ lastTick[ShardOf[h]] \in Nat /\ tickNow \in 0 .. clock
        BY StoreAssumption DEF StoreInv, StoreTypeOK, Shards
      <3>2. lastTick[ShardOf[h]] <= tickNow
        BY <3>1 DEF StoreInv, Sweeping
      <3>3. QED
        BY <2>1, <3>1, <3>2
    <2>3. QED
      BY <2>1, <2>2, StoreAssumption DEF SlotsAhead, Slots
  <1>5. CASE UNCHANGED storeVars
    BY <1>5 DEF storeVars, SlotsAhead
  <1>6. QED
    BY <1>1, <1>2, <1>3, <1>4, <1>5, DrivesStore DEF StoreNext, Tick

\* The actions that leave the engine's own variables alone: the begin of a
\* tick, a sweep, a record and a second; and no step at all.
StoreMoves ==
  EngineTickBegin \/ EngineTickShard \/ EngineWrite \/ EngineSecond \/ UNCHANGED vars

\* None of them touches the engine, and only the begin of a tick resets stepped.
LEMMA StoreMovesQuiet ==
  StoreMoves => UNCHANGED engineVars /\ (EngineTickBegin \/ UNCHANGED stepped)
  BY DEF StoreMoves, EngineTickBegin, EngineTickShard, EngineWrite, EngineSecond,
         vars, smState

\* Time does not run backwards.
LEMMA TicksForward ==
  EngineInv /\ [EngineNext]_vars =>
    /\ tickNow \in Nat /\ tickNow' \in Nat
    /\ tickNow' = tickNow \/ (EngineTickBegin /\ tickNow' = clock /\ tickNow' > tickNow)
  <1> SUFFICES ASSUME EngineInv, [EngineNext]_vars
               PROVE  /\ tickNow \in Nat /\ tickNow' \in Nat
                      /\ \/ tickNow' = tickNow
                         \/ EngineTickBegin /\ tickNow' = clock /\ tickNow' > tickNow
    OBVIOUS
  <1>1. tickNow \in 0 .. clock /\ clock \in Nat
    BY StoreAssumption DEF EngineInv, StoreInv, StoreTypeOK
  <1>2. CASE EngineTickBegin
    BY <1>1, <1>2 DEF EngineTickBegin, TickBegin
  <1>3. CASE ~EngineTickBegin
    <2>1. tickNow' = tickNow
      BY <1>3
      DEF EngineNext, EngineTickShard, TickShard, SweepDone, ListActiveHosts,
          EvalSkip, EvalStep, EngineWrite, Write, StoreUpdate, BusReceive,
          EngineSecond, Second, vars, storeVars
    <2>2. QED
      BY <1>1, <2>1
  <1>4. QED
    BY <1>2, <1>3

\* A send keeps the channel within its capacity, full or not.
LEMMA SendTypes ==
  ASSUME EngineInv, NEW e \in SM!Event, Send(e)
  PROVE  /\ out' \in Seq(SM!Event)
         /\ Len(out') <= OutCapacity
         /\ dropped' \in Nat
  <1> DEFINE E == SM!Event
  <1>1. out \in Seq(E) /\ Len(out) <= OutCapacity /\ dropped \in Nat /\ e \in E
    BY DEF EngineInv, EngineTypes
  <1> HIDE DEF E
  <1>2. Append(out, e) \in Seq(E) /\ Len(Append(out, e)) = Len(out) + 1 /\ Len(out) \in Nat
    BY <1>1, AppendProperties
  <1>3. CASE Len(out) < OutCapacity
    BY <1>1, <1>2, <1>3, CatalogAssumption DEF Send, E
  <1>4. CASE ~(Len(out) < OutCapacity)
    BY <1>1, <1>4 DEF Send, E
  <1>5. QED
    BY <1>3, <1>4

\* Every step keeps the types of the engine's variables.
LEMMA NextTypes == EngineInv /\ SP!SMInv' /\ [EngineNext]_vars => EngineTypes'
  <1> SUFFICES ASSUME EngineInv, SP!SMInv', [EngineNext]_vars PROVE EngineTypes'
    OBVIOUS
  <1>1. /\ EngineTypes
        /\ tickNow \in Nat /\ tickNow' \in Nat /\ tickNow' >= tickNow
    BY TicksForward DEF EngineInv
  <1>2. CASE StoreMoves
    <2>1. UNCHANGED <<collected, toEval, streak, out, dropped>>
      BY <1>2, StoreMovesQuiet DEF engineVars
    <2>2. QED
      BY <1>1, <2>1 DEF EngineTypes
  <1>3. CASE ListActiveHosts
    <2>1. /\ tickNow' = tickNow /\ collected' = tickNow
          /\ toEval' \subseteq known
          /\ UNCHANGED <<streak, out, dropped>>
      BY <1>3 DEF ListActiveHosts, storeVars, ActiveHosts
    <2>2. known \subseteq Hosts
      BY DEF EngineInv, StoreInv, StoreTypeOK
    <2>3. QED
      BY <1>1, <2>1, <2>2 DEF EngineTypes
  <1>4. ASSUME NEW h \in Hosts, EvalSkip(h) PROVE EngineTypes'
    <2>1. /\ tickNow' = tickNow /\ collected' = collected
          /\ toEval' \subseteq toEval
          /\ UNCHANGED <<streak, out, dropped>>
      BY <1>4 DEF EvalSkip, storeVars
    <2>2. QED
      BY <1>1, <2>1 DEF EngineTypes
  <1>5. ASSUME NEW h \in Hosts, EvalStep(h) PROVE EngineTypes'
    <2>1. /\ tickNow' = tickNow /\ collected' = collected
          /\ toEval' \subseteq toEval
          /\ ev' = SM!NoEvent => UNCHANGED <<out, dropped>>
          /\ ev' # SM!NoEvent => Send(ev')
      BY <1>5 DEF EvalStep, storeVars
    <2>2. streak' \in [Keys -> Nat]
      BY <1>1, <1>5, EvalStepsMachine DEF EngineTypes
    <2>3. ev' \in SM!Event \cup {SM!NoEvent}
      BY SameNames DEF SP!SMInv, SP!SMTypeOK
    <2>4. /\ out' \in Seq(SM!Event)
          /\ Len(out') <= OutCapacity
          /\ dropped' \in Nat
      <3>1. CASE ev' = SM!NoEvent
        BY <1>1, <2>1, <3>1 DEF EngineTypes
      <3>2. CASE ev' # SM!NoEvent
        BY <2>1, <2>3, <3>2, SendTypes
      <3>3. QED
        BY <3>1, <3>2
    <2>5. QED
      BY <1>1, <2>1, <2>2, <2>4 DEF EngineTypes
  <1>6. CASE BusReceive
    <2>1. /\ UNCHANGED <<tickNow, collected, toEval, streak, dropped>>
          /\ out # <<>> /\ out' = Tail(out)
      BY <1>6 DEF BusReceive, storeVars
    <2> DEFINE E == SM!Event
    <2>2. out \in Seq(E) /\ Len(out) <= OutCapacity
      BY <1>1 DEF EngineTypes
    <2> HIDE DEF E
    <2>3. out' \in Seq(E) /\ Len(out') = Len(out) - 1 /\ Len(out) \in Nat
      BY <2>1, <2>2, HeadTailProperties, LenProperties
    <2>4. Len(out') <= OutCapacity
      BY <2>2, <2>3, CatalogAssumption
    <2>5. QED
      BY <1>1, <2>1, <2>3, <2>4 DEF EngineTypes, E
  <1>7. QED
    BY <1>2, <1>3, <1>4, <1>5, <1>6 DEF EngineNext, StoreMoves

\* The engine is done with a second before the clock moves on, and sweeps every
\* shard in the second of the tick.
LEMMA NextKeepsUp == EngineInv /\ [EngineNext]_vars => KeepsUp'
  <1> SUFFICES ASSUME EngineInv, [EngineNext]_vars PROVE KeepsUp'
    OBVIOUS
  <1> USE StoreAssumption DEF EngineInv, StoreInv
  <1>1. /\ KeepsUp /\ Sweeping
        /\ tickNow \in 0 .. clock /\ clock \in Nat /\ collected \in 0 .. tickNow
        /\ sweep \in 1 .. NumShards + 1
        /\ lastTick \in [Shards -> 0 .. MaxTime]
        /\ onTime \in [Shards -> SUBSET (0 .. clock)]
        /\ Shards \subseteq Nat
    BY DEF EngineTypes, StoreTypeOK, Shards
  <1>2. CASE EngineTickBegin
    <2>1. /\ TickDone /\ sweep = NumShards + 1 /\ tickNow < clock
          /\ tickNow' = clock /\ sweep' = 1
          /\ UNCHANGED <<clock, lastTick, onTime, collected, toEval>>
      BY <1>2 DEF EngineTickBegin, TickBegin, engineVars
    <2>2. \A sh \in Shards : lastTick[sh] = tickNow
      BY <1>1, <2>1 DEF Sweeping, Shards
    <2>3. tickNow = clock - 1 /\ collected = tickNow /\ toEval = {}
      BY <1>1, <2>1 DEF KeepsUp, TickDone
    <2>4. QED
      BY <1>1, <2>1, <2>2, <2>3 DEF KeepsUp
  <1>3. CASE EngineTickShard
    <2>1. /\ sweep \in Shards
          /\ lastTick' = [lastTick EXCEPT ![sweep] = tickNow]
          /\ onTime' = [onTime EXCEPT ![sweep] = @ \cup ({tickNow} \cap {clock})]
          /\ sweep' = sweep + 1
          /\ UNCHANGED <<clock, tickNow, collected, toEval>>
      BY <1>3 DEF EngineTickShard, TickShard, SweepDone, engineVars
    <2>2. collected # tickNow /\ toEval = {} /\ tickNow = clock
      BY <1>1, <2>1 DEF KeepsUp, TickDone, Shards
    <2>3. /\ lastTick[sweep] = tickNow - 1 /\ tickNow > 0
          /\ onTime[sweep] = 0 .. lastTick[sweep]
      BY <1>1, <2>1 DEF KeepsUp, Sweeping
    <2>4. onTime'[sweep] = 0 .. tickNow
      BY <1>1, <2>1, <2>2, <2>3
    <2>5. \A sh \in Shards : /\ onTime'[sh] = 0 .. lastTick'[sh]
                             /\ lastTick'[sh] >= tickNow - 1
      BY <1>1, <2>1, <2>4 DEF KeepsUp
    <2>6. /\ ~(tickNow' < clock') /\ collected' # tickNow' /\ toEval' = {}
          /\ tickNow' = tickNow
      BY <1>1, <2>1, <2>2
    <2>7. QED
      BY <2>5, <2>6 DEF KeepsUp
  <1>4. CASE ListActiveHosts
    <2>1. /\ sweep = NumShards + 1 /\ collected # tickNow
          /\ collected' = tickNow
          /\ UNCHANGED <<clock, tickNow, sweep, lastTick, onTime>>
      BY <1>4 DEF ListActiveHosts, storeVars
    <2>2. tickNow = clock /\ tickNow > 0
      BY <1>1, <2>1 DEF KeepsUp, TickDone
    <2>3. QED
      BY <1>1, <2>1, <2>2 DEF KeepsUp
  <1>5. CASE EngineSecond
    <2>1. /\ TickDone /\ \A sh \in Shards : lastTick[sh] = clock
          /\ clock' = clock + 1
          /\ UNCHANGED <<tickNow, sweep, lastTick, onTime, collected, toEval>>
      BY <1>5 DEF EngineSecond, Second, engineVars
    <2>2. tickNow = clock
      <3>1. 1 \in Shards
        BY DEF Shards
      <3>2. lastTick[1] <= tickNow
        BY <1>1, <3>1 DEF Sweeping
      <3>3. QED
        BY <1>1, <2>1, <3>1, <3>2
    <2>3. QED
      BY <1>1, <2>1, <2>2 DEF KeepsUp, TickDone
  <1>6. CASE \E h \in Hosts : EvalSkip(h) \/ EvalStep(h)
    <2>1. /\ toEval' \subseteq toEval /\ toEval # {}
          /\ UNCHANGED <<clock, tickNow, sweep, lastTick, onTime, collected>>
      BY <1>6 DEF EvalSkip, EvalStep, storeVars
    <2>2. collected = tickNow /\ tickNow > 0 /\ sweep = NumShards + 1
      BY <1>1, <2>1 DEF KeepsUp
    <2>3. ~(tickNow < clock)
      BY <1>1, <2>1 DEF KeepsUp, TickDone
    <2>4. \A sh \in Shards : onTime[sh] = 0 .. lastTick[sh] /\ lastTick[sh] >= tickNow - 1
      BY <1>1 DEF KeepsUp
    <2>5. QED
      BY <2>1, <2>2, <2>3, <2>4 DEF KeepsUp
  <1>7. CASE EngineWrite \/ BusReceive \/ UNCHANGED vars
    <2>1. UNCHANGED <<clock, tickNow, sweep, lastTick, onTime, collected, toEval>>
      BY <1>7 DEF EngineWrite, Write, StoreUpdate, BusReceive, vars, storeVars, engineVars
    <2>2. QED
      BY <1>1, <2>1 DEF KeepsUp, TickDone
  <1>8. QED
    BY <1>2, <1>3, <1>4, <1>5, <1>6, <1>7 DEF EngineNext

\* A host leaves the list of a tick with its evaluation.
LEMMA NextSteppedOnce == EngineInv /\ [EngineNext]_vars => SteppedOnce'
  <1> SUFFICES ASSUME EngineInv, [EngineNext]_vars PROVE SteppedOnce'
    OBVIOUS
  <1>1. SteppedOnce /\ KeepsUp
    BY DEF EngineInv
  <1>2. CASE EngineTickBegin
    BY <1>2 DEF EngineTickBegin, SteppedOnce
  <1>3. CASE ListActiveHosts
    <2>1. collected # tickNow /\ stepped' = stepped
      BY <1>3 DEF ListActiveHosts, smState
    <2>2. QED
      BY <1>1, <2>1 DEF SteppedOnce
  <1>4. ASSUME NEW h \in Hosts, EvalSkip(h) PROVE SteppedOnce'
    <2>1. toEval' \subseteq toEval /\ UNCHANGED <<stepped, collected, tickNow>>
      BY <1>4 DEF EvalSkip, smState, storeVars
    <2>2. QED
      BY <1>1, <2>1 DEF SteppedOnce
  <1>5. ASSUME NEW h \in Hosts, EvalStep(h) PROVE SteppedOnce'
    <2>1. /\ h \in toEval /\ toEval' = toEval \ {h}
          /\ stepped' = stepped \cup {Classified(h)}
          /\ UNCHANGED <<collected, tickNow>>
      BY <1>5 DEF EvalStep, storeVars
    <2>2. Classified(h)[1] = h /\ collected = tickNow
      BY <1>1, <2>1 DEF Classified, KeepsUp
    <2>3. QED
      BY <1>1, <2>1, <2>2 DEF SteppedOnce
  <1>6. CASE EngineTickShard \/ EngineWrite \/ BusReceive \/ EngineSecond \/ UNCHANGED vars
    <2>1. UNCHANGED <<stepped, collected, toEval, tickNow>>
      BY <1>6
      DEF EngineTickShard, TickShard, SweepDone, EngineWrite, Write, StoreUpdate,
          BusReceive, EngineSecond, Second, vars, engineVars, smState, storeVars
    <2>2. QED
      BY <1>1, <2>1 DEF SteppedOnce
  <1>7. QED
    BY <1>2, <1>3, <1>4, <1>5, <1>6 DEF EngineNext

\* A streak grows by one per tick at most.
LEMMA NextStreakBounded == EngineInv /\ [EngineNext]_vars => StreakBounded'
  <1> SUFFICES ASSUME EngineInv, [EngineNext]_vars PROVE StreakBounded'
    OBVIOUS
  <1>1. /\ StreakBounded /\ streak \in [Keys -> Nat]
        /\ tickNow \in Nat /\ tickNow' \in Nat
        /\ tickNow' = tickNow \/ (EngineTickBegin /\ tickNow' > tickNow)
    BY TicksForward DEF EngineInv, EngineTypes
  <1>2. CASE EngineTickBegin
    <2>1. streak' = streak /\ stepped' = {}
      BY <1>2 DEF EngineTickBegin, engineVars
    <2>2. CASE tickNow' = tickNow
      <3>1. FALSE
        BY <1>2, <2>2 DEF EngineTickBegin, TickBegin, EngineInv, StoreInv, StoreTypeOK
      <3>2. QED
        BY <3>1
    <2>3. CASE tickNow' > tickNow
      BY <1>1, <2>1, <2>3 DEF StreakBounded
    <2>4. QED
      BY <1>1, <2>2, <2>3
  <1>3. ASSUME NEW h \in Hosts, EvalStep(h) PROVE StreakBounded'
    <2>1. /\ Classified(h) \in Keys
          /\ streak' = [streak EXCEPT ![Classified(h)] = IF Bad(h) THEN @ + 1 ELSE 0]
          /\ streak'[Classified(h)] <= tickNow
      BY <1>3, EvalStepsMachine, CatalogTypes DEF EvalStep
    <2>2. tickNow' = tickNow /\ stepped' = stepped \cup {Classified(h)}
      BY <1>3 DEF EvalStep, storeVars
    <2> DEFINE c == Classified(h)
    <2> HIDE DEF c
    <2>3. QED
      BY <1>1, <2>1, <2>2 DEF StreakBounded
  <1>4. CASE ~EngineTickBegin /\ ~\E h \in Hosts : EvalStep(h)
    <2>1. UNCHANGED <<streak, stepped>>
      BY <1>4
      DEF EngineNext, EngineTickShard, EngineWrite, BusReceive, EngineSecond,
          EvalSkip, ListActiveHosts, vars, engineVars, smState
    <2>2. QED
      BY <1>1, <1>4, <2>1 DEF StreakBounded
  <1>5. QED
    BY <1>2, <1>3, <1>4

\* Every step of the engine keeps the invariant.
LEMMA EngineNextInv == EngineInv /\ [EngineNext]_vars => EngineInv'
  <1> SUFFICES ASSUME EngineInv, [EngineNext]_vars PROVE EngineInv'
    OBVIOUS
  <1>1. StoreInv'
    BY DrivesStore, NextInv DEF EngineInv
  <1>2. SP!SMInv'
    <2>1. [SP!SMNext]_(SP!smVars)
      BY DrivesMachines, SameNext DEF SP!smVars, SM!smVars
    <2>2. QED
      BY <2>1, MachineAssumptions, SP!NextInv DEF EngineInv
  <1>3. QED
    BY <1>1, <1>2, NextTypes, NextKeepsAhead, NextKeepsUp, NextSteppedOnce,
       NextStreakBounded DEF EngineInv

\* The inductive invariant holds in every reachable state.
THEOREM EngineInvariance == EngineSpec => []EngineInv
  BY EngineInitInv, EngineNextInv, PTL DEF EngineSpec

-----------------------------------------------------------------------------
(* The engine implements the machines, and their promise.                  *)

\* The engine steps its state machines in the only way StateMachine allows:
\* at most once per key and tick, with increasing ticks and streaks no longer
\* than the ticks (Tick, evalHost and the single goroutine of Run).
THEOREM EngineDrivesMachines == EngineSpec => SM!SMSpec
  <1>1. EngineInit => SM!SMInit
    BY DEF EngineInit, StoreInit, SM!SMInit
  <1>2. QED
    BY <1>1, EngineInvariance, DrivesMachines, PTL DEF EngineSpec, SM!SMSpec

\* Every step of the engine is a step of the life cycle of every key, or none.
LEMMA EngineRefinesNext ==
  EngineInv /\ [EngineNext]_vars
    => [SM!Lifecycle!LifecycleNext]_(SM!Lifecycle!lifecycleVars)
  <1> SUFFICES ASSUME EngineInv, [EngineNext]_vars
               PROVE  [SM!Lifecycle!LifecycleNext]_(SM!Lifecycle!lifecycleVars)
    OBVIOUS
  <1>1. [SP!SMNext]_(SP!smVars)
    BY DrivesMachines, SameNext DEF SP!smVars, SM!smVars
  <1>2. [SP!Lifecycle!LifecycleNext]_(SP!Lifecycle!lifecycleVars)
    BY <1>1, MachineAssumptions, SP!RefinesNext DEF EngineInv
  <1>3. QED
    BY <1>2, SameLifecycle

\* Per key, the events of the engine keep the promise of IncidentLifecycle: a
\* start, at most one update, an end after a full grace period without violation,
\* no new start during the cooldown (Engine.Tick over StateMachine.Step).
THEOREM EngineKeepsLifecycle == EngineSpec => EngineImplementsLifecycle
  <1>1. EngineInit => SM!Lifecycle!LifecycleInit
    <2>1. EngineInit => SP!SMInit
      BY SameInit DEF EngineInit, StoreInit, SM!SMInit
    <2>2. QED
      BY <2>1, MachineAssumptions, SP!RefinesInit, SameLifecycle
  <1>2. QED
    BY <1>1, EngineInvariance, EngineRefinesNext, PTL
    DEF EngineSpec, EngineImplementsLifecycle, SM!ImplementsLifecycle,
        SM!Lifecycle!LifecycleSpec

-----------------------------------------------------------------------------
(* Peaks.                                                                  *)

\* How a key can be active after a step: its incident was not touched, its peak
\* was raised by an evaluation, or it was started by one.
Untouched(k) ==
  /\ state[k] = "active"
  /\ inc'[k].startedAt = inc[k].startedAt
  /\ inc'[k].peak = inc[k].peak

Raised(k, h) ==
  /\ EvalStep(h)
  /\ k = Classified(h)
  /\ state[k] = "active"
  /\ inc'[k].startedAt = inc[k].startedAt
  /\ inc'[k].peak = SM!RaisePeak(inc[k].peak, InputOf(h).current)

Started(k, h) ==
  /\ EvalStep(h)
  /\ k = Classified(h)
  /\ state[k] = "idle"
  /\ Bad(h)
  /\ inc'[k].startedAt = tickNow
  /\ inc'[k].peak = InputOf(h).current

\* An evaluated key that is active was raised or started.
LEMMA EvalActive ==
  ASSUME EngineInv, NEW h \in Hosts, EvalStep(h), state'[Classified(h)] = "active"
  PROVE  Raised(Classified(h), h) \/ Started(Classified(h), h)
  <1> DEFINE k == Classified(h)
             in == InputOf(h)
  <1>1. /\ k \in Keys
        /\ SM!Step(k, in)
        /\ in.violating = Bad(h)
        /\ state \in [Keys -> {"idle", "active", "cooldown"}]
        /\ inc \in [Keys -> SM!Incident \cup {SM!NoIncident}]
    BY EvalStepsMachine, CatalogTypes, SameNames
    DEF SM!SMStep, EvalStep, InputOf, EngineInv, SP!SMInv, SP!SMTypeOK
  <1>2. state[k] = "active" => inc[k] \in SM!Incident
    BY <1>1, SameNames DEF EngineInv, SP!SMInv, SP!IncidentIffActive
  <1> HIDE DEF k, in
  <1>3. CASE SM!StepStart(k, in)
    BY <1>1, <1>3 DEF SM!StepStart, SM!NewIncident, Started, k, in
  <1>4. CASE SM!StepViolating(k, in)
    <2>1. /\ state[k] = "active"
          /\ \E u : inc' = [inc EXCEPT ![k] =
                              [SM!Violated(inc[k], in) EXCEPT !.updateEmitted = u]]
      BY <1>4 DEF SM!StepViolating
    <2>2. /\ inc'[k].startedAt = inc[k].startedAt
          /\ inc'[k].peak = SM!RaisePeak(inc[k].peak, in.current)
      BY <1>1, <1>2, <2>1 DEF SM!Violated, SM!Incident
    <2>3. QED
      BY <2>1, <2>2 DEF Raised, k, in
  <1>5. CASE SM!StepGrace(k, in)
    <2>1. /\ state[k] = "active"
          /\ inc' = [inc EXCEPT ![k] = SM!Quiet(inc[k], in)]
      BY <1>5 DEF SM!StepGrace
    <2>2. /\ inc'[k].startedAt = inc[k].startedAt
          /\ inc'[k].peak = SM!RaisePeak(inc[k].peak, in.current)
      BY <1>1, <1>2, <2>1 DEF SM!Quiet, SM!Incident
    <2>3. QED
      BY <2>1, <2>2 DEF Raised, k, in
  <1>6. CASE SM!StepIdle(k, in) \/ SM!StepEnd(k, in) \/ SM!StepCooldown(k, in)
    <2>1. state'[k] # "active"
      BY <1>1, <1>6 DEF SM!StepIdle, SM!StepEnd, SM!StepCooldown
    <2>2. QED
      BY <2>1 DEF k
  <1>7. QED
    BY <1>1, <1>3, <1>4, <1>5, <1>6 DEF SM!Step

\* A key is active after a step in one of those three ways.
LEMMA ActiveAfter ==
  ASSUME EngineInv, [EngineNext]_vars, NEW k \in Keys, state'[k] = "active"
  PROVE  Untouched(k) \/ \E h \in Hosts : Raised(k, h) \/ Started(k, h)
  <1>1. ASSUME NEW h \in Hosts, EvalStep(h), k # Classified(h) PROVE Untouched(k)
    <2> DEFINE c == Classified(h)
               in == InputOf(h)
    <2>1. /\ c \in Keys /\ k # c /\ SM!Step(c, in)
          /\ state \in [Keys -> {"idle", "active", "cooldown"}]
          /\ DOMAIN inc = Keys
      BY <1>1, EvalStepsMachine, CatalogTypes
      DEF SM!SMStep, EvalStep, EngineInv, SP!SMInv, SP!SMTypeOK
    <2> HIDE DEF c, in
    <2>2. state'[k] = state[k] /\ inc'[k] = inc[k]
      BY <2>1
      DEF SM!Step, SM!StepIdle, SM!StepStart, SM!StepViolating, SM!StepGrace,
          SM!StepEnd, SM!StepCooldown
    <2>3. QED
      BY <2>2 DEF Untouched
  <1>2. ASSUME NEW h \in Hosts, EvalStep(h), k = Classified(h)
        PROVE  Raised(k, h) \/ Started(k, h)
    BY <1>2, EvalActive
  <1>3. CASE ~\E h \in Hosts : EvalStep(h)
    <2>1. UNCHANGED <<state, inc>>
      BY <1>3
      DEF EngineNext, EngineTickBegin, EngineTickShard, EngineWrite, BusReceive,
          EngineSecond, EvalSkip, ListActiveHosts, vars, smState
    <2>2. QED
      BY <2>1 DEF Untouched
  <1>4. QED
    BY <1>1, <1>2, <1>3

\* What was applied for a second is never taken back.
LEMMA AppliedGrows ==
  ASSUME EngineInv, [EngineNext]_vars, NEW h \in Hosts, NEW s \in 0 .. MaxTime
  PROVE  /\ applied[h][s] \in Bucket /\ applied'[h][s] \in Bucket
         /\ applied[h][s].Pps <= applied'[h][s].Pps
         /\ applied[h][s].Bps <= applied'[h][s].Bps
  <1>1. applied \in [Hosts -> [0 .. MaxTime -> Bucket]]
    BY DEF EngineInv, StoreInv, StoreTypeOK
  <1>2. ASSUME NEW b \in Bucket, NEW r \in Records
        PROVE  /\ AddRecord(b, r) \in Bucket
               /\ b.Pps <= AddRecord(b, r).Pps /\ b.Bps <= AddRecord(b, r).Bps
    <2>1. b.Pps \in Nat /\ b.Bps \in Nat /\ r.packets \in Nat /\ r.bytes \in Nat
      BY RecordsAssumption DEF Bucket
    <2>2. QED
      BY <2>1, AddRecordType DEF AddRecord
  <1>3. CASE Write
    <2>1. PICK g \in Hosts, t \in 0 .. MaxTime, r \in Records : StoreUpdate(g, t, r)
      BY <1>3 DEF Write
    <2>2. applied' = [applied EXCEPT ![g][t] = AddRecord(@, r)]
      BY <2>1 DEF StoreUpdate
    <2>3. CASE g = h /\ t = s
      BY <1>1, <1>2, <2>2, <2>3
    <2>4. CASE ~(g = h /\ t = s)
      <3>1. applied'[h][s] = applied[h][s] /\ applied[h][s] \in Bucket
        BY <1>1, <2>2, <2>4
      <3>2. QED
        BY <3>1 DEF Bucket
    <2>5. QED
      BY <2>3, <2>4
  <1>4. CASE UNCHANGED applied
    <2>1. applied[h][s] \in Bucket
      BY <1>1
    <2>2. QED
      BY <1>4, <2>1 DEF Bucket
  <1>5. QED
    BY <1>3, <1>4, DrivesStore
    DEF StoreNext, Tick, TickBegin, TickShard, SweepDone, SecondUnticked, storeVars

\* The newest bucket an evaluation reads is what was applied for its second.
LEMMA CurrentIsReal ==
  ASSUME EngineInv, NEW h \in Hosts, EvalStep(h)
  PROVE  /\ Buckets(h)[1] = applied[h][tickNow]
         /\ InputOf(h).current.pps = applied[h][tickNow].Pps
         /\ InputOf(h).current.bps = applied[h][tickNow].Bps
         /\ tickNow \in 0 .. MaxTime
  <1>1. h \in toEval /\ Watched(h) /\ Classified(h) \in WatchedKeys
    BY DEF EvalStep
  <1>2. /\ Window(h) \in Nat \ {0} /\ 1 < WindowSize
        /\ tickNow \in 0 .. MaxTime
        /\ \A i \in 1 .. Window(h) :
             Buckets(h)[i] = IF i < WindowSize THEN AppliedAt(h, tickNow - (i - 1))
                                               ELSE EmptyBucket
    BY <1>1, EvalReads, StoreAssumption
  <1>3. 1 \in 1 .. Window(h) /\ tickNow - (1 - 1) = tickNow
    BY <1>2
  <1>4. Buckets(h)[1] = applied[h][tickNow]
    BY <1>2, <1>3 DEF AppliedAt
  <1>5. QED
    BY <1>2, <1>4 DEF InputOf

\* Peaks that were real stay real, and a raised one is: it was just received.
LEMMA PeaksStayReal ==
  EngineInv /\ EngineInv' /\ PeakReal /\ [EngineNext]_vars => PeakReal'
  <1> SUFFICES ASSUME EngineInv, EngineInv', PeakReal, [EngineNext]_vars,
                      NEW k \in Keys, state'[k] = "active"
               PROVE  /\ \E s \in 0 .. tickNow' : applied'[k[1]][s].Pps >= inc'[k].peak.pps
                      /\ \E s \in 0 .. tickNow' : applied'[k[1]][s].Bps >= inc'[k].peak.bps
    BY DEF PeakReal
  <1>1. /\ k[1] \in Hosts
        /\ tickNow \in Nat /\ tickNow' \in Nat /\ tickNow <= tickNow' /\ tickNow <= MaxTime
        /\ MaxTime \in Nat
    <2>1. tickNow \in Nat /\ tickNow' \in Nat /\ tickNow <= tickNow'
      BY TicksForward
    <2>2. tickNow <= MaxTime /\ MaxTime \in Nat
      BY StoreAssumption DEF EngineInv, StoreInv, StoreTypeOK
    <2>3. QED
      BY <2>1, <2>2 DEF Keys
  <1>2. inc'[k].peak.pps \in Nat /\ inc'[k].peak.bps \in Nat
    <2>1. SP!SMTypeOK' /\ SP!IncidentIffActive'
      BY DEF EngineInv, SP!SMInv
    <2>2. inc'[k] \in SP!Incident
      BY <2>1 DEF SP!SMTypeOK, SP!IncidentIffActive
    <2>3. QED
      BY <2>2 DEF SP!Incident
  \* A witness before the step is one after it.
  <1>3. ASSUME NEW s \in 0 .. tickNow
        PROVE  /\ s \in 0 .. tickNow'
               /\ applied[k[1]][s].Pps \in Nat /\ applied[k[1]][s].Bps \in Nat
               /\ applied'[k[1]][s].Pps \in Nat /\ applied'[k[1]][s].Bps \in Nat
               /\ applied[k[1]][s].Pps <= applied'[k[1]][s].Pps
               /\ applied[k[1]][s].Bps <= applied'[k[1]][s].Bps
    <2>1. s \in 0 .. MaxTime /\ s \in 0 .. tickNow'
      BY <1>1
    <2>2. QED
      BY <1>1, <2>1, AppliedGrows DEF Bucket
  <1>4. CASE Untouched(k)
    <2>1. PICK s \in 0 .. tickNow : applied[k[1]][s].Pps >= inc[k].peak.pps
      BY <1>4 DEF PeakReal, Untouched
    <2>2. PICK t \in 0 .. tickNow : applied[k[1]][t].Bps >= inc[k].peak.bps
      BY <1>4 DEF PeakReal, Untouched
    <2>3. inc'[k].peak = inc[k].peak
      BY <1>4 DEF Untouched
    <2>4. applied'[k[1]][s].Pps >= inc'[k].peak.pps
      BY <1>2, <1>3, <2>1, <2>3
    <2>5. applied'[k[1]][t].Bps >= inc'[k].peak.bps
      BY <1>2, <1>3, <2>2, <2>3
    <2>6. QED
      BY <1>3, <2>4, <2>5
  <1>5. ASSUME NEW h \in Hosts, Raised(k, h) \/ Started(k, h)
        PROVE  /\ \E s \in 0 .. tickNow' : applied'[k[1]][s].Pps >= inc'[k].peak.pps
               /\ \E s \in 0 .. tickNow' : applied'[k[1]][s].Bps >= inc'[k].peak.bps
    <2> DEFINE c == InputOf(h).current
    <2>1. /\ EvalStep(h) /\ k[1] = h
          /\ c.pps = applied[k[1]][tickNow].Pps /\ c.bps = applied[k[1]][tickNow].Bps
          /\ tickNow \in 0 .. tickNow
      BY <1>1, <1>5, CurrentIsReal DEF Raised, Started, Classified
    <2>2. \/ inc'[k].peak = c
          \/ /\ state[k] = "active"
             /\ inc'[k].peak = [pps |-> SM!Larger(c.pps, inc[k].peak.pps),
                                bps |-> SM!Larger(c.bps, inc[k].peak.bps)]
      BY <1>5 DEF Raised, Started, SM!RaisePeak
    <2> HIDE DEF c
    <2>3. inc'[k].peak.pps = c.pps
            \/ (state[k] = "active" /\ inc'[k].peak.pps = inc[k].peak.pps)
      BY <2>2 DEF SM!Larger
    <2>4. inc'[k].peak.bps = c.bps
            \/ (state[k] = "active" /\ inc'[k].peak.bps = inc[k].peak.bps)
      BY <2>2 DEF SM!Larger
    <2>5. PICK s \in 0 .. tickNow : applied[k[1]][s].Pps >= inc'[k].peak.pps
      <3>1. CASE inc'[k].peak.pps = c.pps
        BY <1>1, <1>2, <1>3, <2>1, <3>1
      <3>2. CASE state[k] = "active" /\ inc'[k].peak.pps = inc[k].peak.pps
        BY <3>2 DEF PeakReal
      <3>3. QED
        BY <2>3, <3>1, <3>2
    <2>6. PICK t \in 0 .. tickNow : applied[k[1]][t].Bps >= inc'[k].peak.bps
      <3>1. CASE inc'[k].peak.bps = c.bps
        BY <1>1, <1>2, <1>3, <2>1, <3>1
      <3>2. CASE state[k] = "active" /\ inc'[k].peak.bps = inc[k].peak.bps
        BY <3>2 DEF PeakReal
      <3>3. QED
        BY <2>4, <3>1, <3>2
    <2>7. applied'[k[1]][s].Pps >= inc'[k].peak.pps
      BY <1>2, <1>3, <2>5
    <2>8. applied'[k[1]][t].Bps >= inc'[k].peak.bps
      BY <1>2, <1>3, <2>6
    <2>9. QED
      BY <1>3, <2>7, <2>8
  <1>6. QED
    BY <1>4, <1>5, ActiveAfter

\* The types hold, the channel stays within its capacity, and the peaks an open
\* incident reports really happened in some second (evalHost, Step and send).
THEOREM EngineIsSafe == EngineSpec => []EngineSafe
  <1>1. EngineInit => PeakReal
    BY DEF EngineInit, PeakReal
  <1>2. EngineInv => EngineTypeOK
    BY SameTypes DEF EngineInv, EngineTypeOK, EngineTypes, StoreInv, SP!SMInv
  <1>3. QED
    BY <1>1, <1>2, EngineInitInv, EngineNextInv, PeaksStayReal, PTL
    DEF EngineSpec, EngineSafe

-----------------------------------------------------------------------------
(* Starts.                                                                 *)

\* A larger dividend has no smaller quotient.
LEMMA DivMonotone ==
  ASSUME NEW a \in Nat, NEW b \in Nat, NEW w \in Nat \ {0}, a <= b
  PROVE  a \div w <= b \div w
  <1> DEFINE p == a \div w
             q == b \div w
  <1>1. /\ p \in Int /\ q \in Int
        /\ w * p <= a /\ b < w * q + w
    BY Z3
  <1> HIDE DEF p, q
  <1>2. ~(p >= q + 1)
    <2>1. p >= q + 1 => w * p >= w * q + w
      BY <1>1
    <2>2. w * p \in Int /\ w * q \in Int
      BY <1>1
    <2>3. QED
      BY <1>1, <2>1, <2>2
  <1>3. QED
    BY <1>1, <1>2 DEF p, q

\* What was applied for a second, or for one before the first, is a bucket.
LEMMA AppliedAtType ==
  ASSUME EngineInv, NEW h \in Hosts, NEW s \in Int, s <= MaxTime
  PROVE  AppliedAt(h, s) \in Bucket
  <1>1. applied[h] \in [0 .. MaxTime -> Bucket] /\ MaxTime \in Nat
    BY StoreAssumption DEF EngineInv, StoreInv, StoreTypeOK
  <1>2. QED
    BY <1>1, EmptyTypes DEF AppliedAt

\* The totals received up to a second, as sums of numbers.
PpsOver(h, s, w) == [i \in 1 .. w |-> Pps(AppliedAt(h, s - (i - 1)))]
BpsOver(h, s, w) == [i \in 1 .. w |-> Bps(AppliedAt(h, s - (i - 1)))]

AreTotals ==
  \A h \in Hosts, s \in 0 .. MaxTime, w \in Nat :
    /\ PpsOver(h, s, w) \in [1 .. w -> Nat]
    /\ BpsOver(h, s, w) \in [1 .. w -> Nat]
    /\ Received(Pps, h, s, w) = Total(PpsOver(h, s, w), w)
    /\ Received(Bps, h, s, w) = Total(BpsOver(h, s, w), w)

\* What Received computes are those sums.
LEMMA ReceivedTotals == EngineInv => AreTotals
  <1> SUFFICES ASSUME EngineInv, NEW h \in Hosts, NEW s \in 0 .. MaxTime, NEW w \in Nat
               PROVE  /\ PpsOver(h, s, w) \in [1 .. w -> Nat]
                      /\ BpsOver(h, s, w) \in [1 .. w -> Nat]
                      /\ Received(Pps, h, s, w) = Total(PpsOver(h, s, w), w)
                      /\ Received(Bps, h, s, w) = Total(BpsOver(h, s, w), w)
    BY DEF AreTotals
  <1>1. ASSUME NEW i \in 1 .. w PROVE AppliedAt(h, s - (i - 1)) \in Bucket
    <2>1. s - (i - 1) \in Int /\ s - (i - 1) <= MaxTime
      BY StoreAssumption
    <2>2. QED
      BY <2>1, AppliedAtType
  <1> DEFINE b == [i \in 1 .. w |-> AppliedAt(h, s - (i - 1))]
  <1>2. \A i \in 1 .. w : b[i] = AppliedAt(h, s - (i - 1))
    OBVIOUS
  <1>3. /\ Received(Pps, h, s, w) = Total([i \in 1 .. w |-> Pps(b[i])], w)
        /\ Received(Bps, h, s, w) = Total([i \in 1 .. w |-> Bps(b[i])], w)
    BY DEF Received, SumOf
  <1> HIDE DEF b
  <1>4. /\ [i \in 1 .. w |-> Pps(b[i])] = PpsOver(h, s, w)
        /\ [i \in 1 .. w |-> Bps(b[i])] = BpsOver(h, s, w)
    BY <1>2 DEF PpsOver, BpsOver
  <1>5. PpsOver(h, s, w) \in [1 .. w -> Nat] /\ BpsOver(h, s, w) \in [1 .. w -> Nat]
    BY <1>1, BucketNumbers DEF PpsOver, BpsOver
  <1>6. QED
    BY <1>3, <1>4, <1>5

\* The totals received up to a second only grow.
LEMMA ReceivedGrows ==
  ASSUME EngineInv, EngineInv', [EngineNext]_vars,
         NEW h \in Hosts, NEW s \in 0 .. MaxTime, NEW w \in Nat
  PROVE  /\ Received(Pps, h, s, w) \in Nat /\ Received(Bps, h, s, w) \in Nat
         /\ Received(Pps, h, s, w)' \in Nat /\ Received(Bps, h, s, w)' \in Nat
         /\ Received(Pps, h, s, w) <= Received(Pps, h, s, w)'
         /\ Received(Bps, h, s, w) <= Received(Bps, h, s, w)'
  <1> DEFINE P == PpsOver(h, s, w)
             B == BpsOver(h, s, w)
  <1>1. /\ P \in [1 .. w -> Nat] /\ B \in [1 .. w -> Nat]
        /\ Received(Pps, h, s, w) = Total(P, w) /\ Received(Bps, h, s, w) = Total(B, w)
    BY ReceivedTotals DEF AreTotals
  <1>2. /\ P' \in [1 .. w -> Nat] /\ B' \in [1 .. w -> Nat]
        /\ Received(Pps, h, s, w)' = Total(P', w) /\ Received(Bps, h, s, w)' = Total(B', w)
    <2>1. AreTotals'
      BY ReceivedTotals, PTL
    <2>2. QED
      BY <2>1 DEF AreTotals
  <1>3. ASSUME NEW i \in 1 .. w PROVE P[i] <= P'[i] /\ B[i] <= B'[i]
    <2> DEFINE t == s - (i - 1)
    <2>1. t \in Int /\ t <= MaxTime
      BY StoreAssumption
    <2>2. /\ P[i] = Pps(AppliedAt(h, t)) /\ P'[i] = Pps(AppliedAt(h, t)')
          /\ B[i] = Bps(AppliedAt(h, t)) /\ B'[i] = Bps(AppliedAt(h, t)')
      BY DEF PpsOver, BpsOver
    <2>3. CASE t >= 0
      <3>1. t \in 0 .. MaxTime
        BY <2>1, <2>3
      <3>2. /\ applied[h][t].Pps <= applied'[h][t].Pps
            /\ applied[h][t].Bps <= applied'[h][t].Bps
        BY <3>1, AppliedGrows
      <3>3. QED
        BY <2>2, <2>3, <3>2 DEF AppliedAt, Pps, Bps
    <2>4. CASE ~(t >= 0)
      BY <2>2, <2>4 DEF AppliedAt, Pps, Bps, EmptyBucket
    <2>5. QED
      BY <2>3, <2>4
  <1> HIDE DEF P, B
  <1>4. QED
    BY <1>1, <1>2, <1>3, TotalType, TotalMonotone

\* The start of an incident of key k at second n was justified.
Justified(k, n) ==
  LET w == Smaller(Thresholds[k].MinWindowSec, WindowSize)
  IN  \/ Received(Pps, k[1], n, w) \div w > Thresholds[k].PPS
      \/ Received(Bps, k[1], n, w) \div w > Thresholds[k].BPS

\* A violating evaluation has seen no more than what was received.
LEMMA ViolationIsReal ==
  ASSUME EngineInv, NEW h \in Hosts, EvalStep(h), Bad(h)
  PROVE  Justified(Classified(h), tickNow)
  <1> DEFINE k == Classified(h)
             t == Thresholds[k]
             w == Smaller(t.MinWindowSec, WindowSize)
             P == [i \in 1 .. w |-> Pps(Buckets(h)[i])]
             B == [i \in 1 .. w |-> Bps(Buckets(h)[i])]
  <1>1. h \in toEval /\ Watched(h) /\ k \in WatchedKeys
    BY DEF EvalStep
  <1>2. /\ k[1] = h /\ tickNow \in 0 .. MaxTime
        /\ Window(h) \in Nat \ {0}
        /\ Window(h) = IF MaxWindow(h) > WindowSize THEN WindowSize ELSE MaxWindow(h)
        /\ Buckets(h) \in [1 .. Window(h) -> Bucket]
        /\ \A i \in 1 .. Window(h) :
             Buckets(h)[i] = IF i < WindowSize THEN AppliedAt(h, tickNow - (i - 1))
                                               ELSE EmptyBucket
    BY <1>1, EvalReads
  <1>3. /\ t.MinWindowSec \in Nat \ {0} /\ t.MinWindowSec <= MaxWindow(h)
        /\ MaxWindow(h) \in Nat \ {0}
        /\ t.PPS \in Nat /\ t.BPS \in Nat
        /\ WindowSize \in Nat \ {0}
    BY <1>1, <1>2, CatalogTypes, MaxWindowIsMax, StoreAssumption
  <1>4. /\ w \in Nat \ {0} /\ w <= Window(h)
        /\ w = Smaller(t.MinWindowSec, Len(Buckets(h)))
    <2>1. Len(Buckets(h)) = Window(h)
      BY <1>2, BucketsLen
    <2> HIDE DEF t
    <2>2. QED
      BY <1>2, <1>3, <2>1 DEF Smaller
  <1>5. \/ Average(Pps, Buckets(h), w) > t.PPS
        \/ Average(Bps, Buckets(h), w) > t.BPS
    BY <1>4 DEF Bad, Violating
  <1>6. /\ Average(Pps, Buckets(h), w) = Total(P, w) \div w
        /\ Average(Bps, Buckets(h), w) = Total(B, w) \div w
    BY DEF Average, SumOf
  <1>7. /\ PpsOver(h, tickNow, w) \in [1 .. w -> Nat]
        /\ BpsOver(h, tickNow, w) \in [1 .. w -> Nat]
        /\ Received(Pps, h, tickNow, w) = Total(PpsOver(h, tickNow, w), w)
        /\ Received(Bps, h, tickNow, w) = Total(BpsOver(h, tickNow, w), w)
    BY <1>2, <1>4, ReceivedTotals DEF AreTotals
  <1> HIDE DEF k, t, w
  <1>8. ASSUME NEW i \in 1 .. w
        PROVE  /\ P[i] \in Nat /\ B[i] \in Nat
               /\ P[i] <= PpsOver(h, tickNow, w)[i]
               /\ B[i] <= BpsOver(h, tickNow, w)[i]
    <2>1. i \in 1 .. Window(h) /\ Buckets(h)[i] \in Bucket
      BY <1>2, <1>4
    <2>2. /\ P[i] = Pps(Buckets(h)[i]) /\ P[i] \in Nat
          /\ B[i] = Bps(Buckets(h)[i]) /\ B[i] \in Nat
      BY <2>1, BucketNumbers
    <2>3. /\ PpsOver(h, tickNow, w)[i] = Pps(AppliedAt(h, tickNow - (i - 1)))
          /\ BpsOver(h, tickNow, w)[i] = Bps(AppliedAt(h, tickNow - (i - 1)))
          /\ PpsOver(h, tickNow, w)[i] \in Nat
          /\ BpsOver(h, tickNow, w)[i] \in Nat
      <3>1. /\ PpsOver(h, tickNow, w)[i] = Pps(AppliedAt(h, tickNow - (i - 1)))
            /\ BpsOver(h, tickNow, w)[i] = Bps(AppliedAt(h, tickNow - (i - 1)))
        BY DEF PpsOver, BpsOver
      <3>2. QED
        BY <1>7, <3>1
    <2>4. CASE i < WindowSize
      <3>1. Buckets(h)[i] = AppliedAt(h, tickNow - (i - 1))
        BY <1>2, <2>1, <2>4
      <3>2. P[i] = PpsOver(h, tickNow, w)[i] /\ B[i] = BpsOver(h, tickNow, w)[i]
        BY <2>2, <2>3, <3>1
      <3>3. QED
        BY <2>2, <3>2
    <2>5. CASE ~(i < WindowSize)
      <3>1. P[i] = 0 /\ B[i] = 0
        BY <1>2, <2>1, <2>2, <2>5 DEF EmptyBucket, Pps, Bps
      <3>2. QED
        BY <2>2, <2>3, <3>1
    <2>6. QED
      BY <2>4, <2>5
  <1>9. P \in [1 .. w -> Nat] /\ B \in [1 .. w -> Nat]
    BY <1>8
  <1> HIDE DEF P, B
  <1>10. /\ Total(P, w) \in Nat /\ Total(B, w) \in Nat
         /\ Received(Pps, h, tickNow, w) \in Nat /\ Received(Bps, h, tickNow, w) \in Nat
         /\ Total(P, w) <= Received(Pps, h, tickNow, w)
         /\ Total(B, w) <= Received(Bps, h, tickNow, w)
    BY <1>4, <1>7, <1>8, <1>9, TotalType, TotalMonotone
  <1>11. /\ Total(P, w) \div w <= Received(Pps, h, tickNow, w) \div w
         /\ Total(B, w) \div w <= Received(Bps, h, tickNow, w) \div w
         /\ Total(P, w) \div w \in Int /\ Total(B, w) \div w \in Int
         /\ Received(Pps, h, tickNow, w) \div w \in Int
         /\ Received(Bps, h, tickNow, w) \div w \in Int
    BY <1>4, <1>10, DivMonotone
  <1>12. \/ Received(Pps, h, tickNow, w) \div w > t.PPS
         \/ Received(Bps, h, tickNow, w) \div w > t.BPS
    BY <1>3, <1>5, <1>6, <1>11
  <1>13. QED
    BY <1>2, <1>12 DEF Justified, k, t, w

\* A justification stays one, whatever is received later.
LEMMA StaysJustified ==
  ASSUME EngineInv, EngineInv', [EngineNext]_vars, NEW k \in WatchedKeys,
         NEW n \in 0 .. MaxTime, Justified(k, n)
  PROVE  Justified(k, n)'
  <1> DEFINE t == Thresholds[k]
             w == Smaller(t.MinWindowSec, WindowSize)
  <1>1. /\ k[1] \in Hosts /\ t.PPS \in Nat /\ t.BPS \in Nat
        /\ w \in Nat \ {0}
    BY CatalogTypes, StoreAssumption DEF Keys, Smaller
  <1>2. \/ Received(Pps, k[1], n, w) \div w > t.PPS
        \/ Received(Bps, k[1], n, w) \div w > t.BPS
    BY DEF Justified
  <1> HIDE DEF t, w
  <1>3. /\ Received(Pps, k[1], n, w) \in Nat /\ Received(Bps, k[1], n, w) \in Nat
        /\ Received(Pps, k[1], n, w)' \in Nat /\ Received(Bps, k[1], n, w)' \in Nat
        /\ Received(Pps, k[1], n, w) <= Received(Pps, k[1], n, w)'
        /\ Received(Bps, k[1], n, w) <= Received(Bps, k[1], n, w)'
    BY <1>1, ReceivedGrows
  <1>4. ASSUME NEW a \in Nat, NEW b \in Nat, NEW c \in Nat, a <= b, a \div w > c
        PROVE  b \div w > c
    <2>1. a \div w <= b \div w /\ a \div w \in Int /\ b \div w \in Int
      BY <1>1, <1>4, DivMonotone
    <2>2. QED
      BY <1>4, <2>1
  <1>5. \/ Received(Pps, k[1], n, w)' \div w > t.PPS
        \/ Received(Bps, k[1], n, w)' \div w > t.BPS
    BY <1>1, <1>2, <1>3, <1>4
  <1>6. QED
    BY <1>5 DEF Justified, t, w

\* An incident began in a second that has been.
LEMMA StartedInTime ==
  ASSUME EngineInv, NEW k \in Keys, state[k] = "active"
  PROVE  inc[k].startedAt \in 0 .. MaxTime
  <1>1. /\ inc[k] \in SP!Incident
        /\ lastViolation[k] \in Nat
        /\ inc[k].startedAt <= lastViolation[k]
        /\ lastViolation[k] + inc[k].noViolationTicks
             <= IF k \in stepped THEN tickNow ELSE tickNow - 1
    BY DEF EngineInv, SP!SMInv, SP!SMTypeOK, SP!IncidentIffActive,
           SP!StartedByViolation, SP!GraceCounted
  <1>2. inc[k].startedAt \in Nat /\ inc[k].noViolationTicks \in Nat
    BY <1>1 DEF SP!Incident
  <1>3. tickNow \in Nat /\ tickNow <= MaxTime /\ MaxTime \in Nat
    BY StoreAssumption DEF EngineInv, StoreInv, StoreTypeOK
  <1>4. QED
    BY <1>1, <1>2, <1>3

\* Only a watched key has an incident, and its start was justified.
StartInv ==
  \A k \in Keys :
    state[k] = "active" => k \in WatchedKeys /\ Justified(k, inc[k].startedAt)

\* A start is justified when it is made, and stays so.
LEMMA NextStartInv ==
  EngineInv /\ EngineInv' /\ StartInv /\ [EngineNext]_vars => StartInv'
  <1> SUFFICES ASSUME EngineInv, EngineInv', StartInv, [EngineNext]_vars,
                      NEW k \in Keys, state'[k] = "active"
               PROVE  k \in WatchedKeys /\ Justified(k, inc[k].startedAt)'
    BY DEF StartInv
  <1>1. ASSUME state[k] = "active", inc'[k].startedAt = inc[k].startedAt
        PROVE  k \in WatchedKeys /\ Justified(k, inc[k].startedAt)'
    <2>1. k \in WatchedKeys /\ Justified(k, inc[k].startedAt)
      BY <1>1 DEF StartInv
    <2>2. PICK n \in 0 .. MaxTime : n = inc[k].startedAt
      BY <1>1, StartedInTime
    <2>3. Justified(k, n)
      BY <2>1, <2>2
    <2>4. Justified(k, n)'
      BY <2>1, <2>3, StaysJustified
    <2>5. (inc[k].startedAt)' = n
      BY <1>1, <2>2
    <2>6. QED
      BY <2>1, <2>4, <2>5 DEF Justified
  <1>2. ASSUME NEW h \in Hosts, Started(k, h)
        PROVE  k \in WatchedKeys /\ Justified(k, inc[k].startedAt)'
    <2>1. /\ EvalStep(h) /\ Bad(h) /\ k = Classified(h) /\ k \in WatchedKeys
          /\ inc'[k].startedAt = tickNow
      BY <1>2 DEF Started, EvalStep
    <2>2. PICK n \in 0 .. MaxTime : n = tickNow
      BY <2>1, CurrentIsReal
    <2>3. Justified(k, n)
      BY <2>1, <2>2, ViolationIsReal
    <2>4. Justified(k, n)'
      BY <2>1, <2>3, StaysJustified
    <2>5. (inc[k].startedAt)' = n
      BY <2>1, <2>2
    <2>6. QED
      BY <2>1, <2>4, <2>5 DEF Justified
  <1>3. QED
    BY <1>1, <1>2, ActiveAfter DEF Untouched, Raised

\* No false alarm: an incident was started only when the flows really received
\* over the window of its threshold, as far as the ring reaches, exceed the
\* threshold (evalHost on the slots of the ring, with the writer running).
THEOREM StartsAreJustified == EngineSpec => []StartJustified
  <1>1. EngineInit => StartInv
    BY DEF EngineInit, StartInv
  <1>2. StartInv => StartJustified
    BY DEF StartInv, StartJustified, Justified
  <1>3. QED
    BY <1>1, <1>2, EngineInitInv, EngineNextInv, NextStartInv, PTL DEF EngineSpec
-----------------------------------------------------------------------------
(* Vectors.                                                                *)

\* The sum over the whole ring is the sum over all but its cleared slot.
LEMMA SameTotals ==
  ASSUME NEW n \in Nat, NEW ns \in [1 .. n -> Nat],
         NEW m \in Nat, NEW ms \in [1 .. m -> Nat],
         n = m \/ (n = m + 1 /\ ns[n] = 0),
         \A i \in 1 .. m : ns[i] = ms[i]
  PROVE  Total(ns, n) = Total(ms, m)
  <1>1. CASE n = m
    <2>1. ns = ms
      BY <1>1
    <2>2. QED
      BY <1>1, <2>1
  <1>2. CASE n = m + 1 /\ ns[n] = 0
    <2>1. ns \in [1 .. m + 1 -> Nat] /\ ns[m + 1] = 0
      BY <1>2
    <2>2. Total(ns, m + 1) = Total(ms, m)
      BY <2>1, TotalLastZero
    <2>3. QED
      BY <1>2, <2>2
  <1>3. QED
    BY <1>1, <1>2

\* The seconds whose packets the classification of a host is about, and the
\* packets received of a vector in each of w seconds.
Classifying(h) == Smaller(MaxWindow(h), WindowSize - 1)
VectorOver(v, h, s, w) == [i \in 1 .. w |-> VectorPps(v, AppliedAt(h, s - (i - 1)))]

\* The packets an evaluation sums are the packets received.
LEMMA SumsAreReal ==
  ASSUME EngineInv, NEW h \in Hosts, EvalStep(h), NEW v \in Vectors
  PROVE  /\ SumOf(Pps, Buckets(h), Len(Buckets(h)))
              = Total(PpsOver(h, tickNow, Classifying(h)), Classifying(h))
         /\ Total([i \in 1 .. Len(Buckets(h)) |-> VectorPps(v, Buckets(h)[i])],
                  Len(Buckets(h)))
              = Total(VectorOver(v, h, tickNow, Classifying(h)), Classifying(h))
  <1> DEFINE n == Window(h)
             m == Classifying(h)
             B == Buckets(h)
             P == [i \in 1 .. n |-> Pps(B[i])]
             V == [i \in 1 .. n |-> VectorPps(v, B[i])]
             Q == PpsOver(h, tickNow, m)
             W == VectorOver(v, h, tickNow, m)
  <1>1. /\ tickNow \in 0 .. MaxTime
        /\ n \in Nat \ {0}
        /\ n = IF MaxWindow(h) > WindowSize THEN WindowSize ELSE MaxWindow(h)
        /\ B \in [1 .. n -> Bucket]
        /\ \A i \in 1 .. n :
             B[i] = IF i < WindowSize THEN AppliedAt(h, tickNow - (i - 1))
                                      ELSE EmptyBucket
    BY EvalReads DEF EvalStep
  <1>2. Len(B) = n
    BY <1>1, BucketsLen
  <1>3. /\ m \in Nat /\ m <= n /\ m <= WindowSize - 1
        /\ n = m \/ (n = m + 1 /\ n = WindowSize)
        /\ WindowSize \in Nat
    <2>1. MaxWindow(h) \in Nat \ {0}
      BY MaxWindowIsMax DEF EvalStep
    <2>2. WindowSize \in Nat /\ WindowSize >= 2
      BY StoreAssumption
    <2>3. m = IF MaxWindow(h) > WindowSize - 1 THEN WindowSize - 1 ELSE MaxWindow(h)
      BY DEF Classifying, Smaller
    <2> HIDE DEF n, m
    <2>4. QED
      BY <1>1, <2>1, <2>2, <2>3
  <1>4. SumOf(Pps, B, Len(B)) = Total(P, n)
    BY <1>2 DEF SumOf
  <1>5. Total([i \in 1 .. Len(B) |-> VectorPps(v, B[i])], Len(B)) = Total(V, n)
    BY <1>2
  <1> HIDE DEF n, m, B
  <1>6. ASSUME NEW b \in Bucket PROVE Pps(b) \in Nat /\ VectorPps(v, b) \in Nat
    BY BucketNumbers DEF VectorPps
  <1>7. P \in [1 .. n -> Nat] /\ V \in [1 .. n -> Nat]
    BY <1>1, <1>6
  <1>8. ASSUME NEW i \in 1 .. m
        PROVE  /\ P[i] = Q[i] /\ Q[i] \in Nat
               /\ V[i] = W[i] /\ W[i] \in Nat
    <2>1. i \in 1 .. n /\ i < WindowSize
      BY <1>1, <1>3
    <2>2. B[i] = AppliedAt(h, tickNow - (i - 1)) /\ B[i] \in Bucket
      BY <1>1, <2>1
    <2>3. /\ P[i] = Pps(B[i]) /\ Q[i] = Pps(B[i])
          /\ V[i] = VectorPps(v, B[i]) /\ W[i] = VectorPps(v, B[i])
      BY <2>1, <2>2 DEF PpsOver, VectorOver
    <2>4. QED
      BY <1>6, <2>2, <2>3
  <1>9. Q \in [1 .. m -> Nat] /\ W \in [1 .. m -> Nat]
    BY <1>8 DEF PpsOver, VectorOver
  <1>10. n = m \/ (n = m + 1 /\ P[n] = 0 /\ V[n] = 0)
    <2> SUFFICES ASSUME n # m PROVE P[n] = 0 /\ V[n] = 0 /\ n = m + 1
      OBVIOUS
    <2>1. n = m + 1 /\ n \in 1 .. n /\ ~(n < WindowSize)
      BY <1>1, <1>3
    <2>2. B[n] = EmptyBucket
      BY <1>1, <2>1
    <2>3. P[n] = Pps(EmptyBucket) /\ V[n] = VectorPps(v, EmptyBucket)
      BY <2>1, <2>2
    <2>4. Pps(EmptyBucket) = 0 /\ VectorPps(v, EmptyBucket) = 0
      BY DEF Pps, VectorPps, UDP, ICMP, EmptyBucket, NoTraffic, Protos
    <2>5. QED
      BY <2>1, <2>3, <2>4
  <1> HIDE DEF P, V, Q, W
  <1>11. n \in Nat /\ m \in Nat
    BY <1>1, <1>3
  <1>12. Total(P, n) = Total(Q, m)
    <2>1. (n = m \/ (n = m + 1 /\ P[n] = 0)) /\ \A i \in 1 .. m : P[i] = Q[i]
      BY <1>8, <1>10
    <2>2. QED
      BY <1>7, <1>9, <1>11, <2>1, SameTotals
  <1>13. Total(V, n) = Total(W, m)
    <2>1. (n = m \/ (n = m + 1 /\ V[n] = 0)) /\ \A i \in 1 .. m : V[i] = W[i]
      BY <1>8, <1>10
    <2>2. QED
      BY <1>7, <1>9, <1>11, <2>1, SameTotals
  <1>14. QED
    BY <1>4, <1>5, <1>12, <1>13 DEF n, m, B, Q, W

\* A new incident is of the vector its packets are of.
LEMMA StartedOfVector ==
  ASSUME EngineInv, NEW h \in Hosts, EvalStep(h), NEW k \in Keys, k = Classified(h)
  PROVE  2 * Total(VectorOver(k[2], h, tickNow, Classifying(h)), Classifying(h))
           > Total(PpsOver(h, tickNow, Classifying(h)), Classifying(h))
  <1> DEFINE B == Buckets(h)
             n == Len(B)
             total == SumOf(Pps, B, n)
             udp == SumOf(UDP, B, n)
             icmp == SumOf(ICMP, B, n)
             ours == Total([i \in 1 .. n |-> VectorPps(k[2], B[i])], n)
  <1>1. k[2] \in Vectors /\ k[2] = Classify(B)
    BY DEF Keys, Classified
  <1>2. \/ k[2] = "udp_flood" /\ 2 * udp > total
        \/ k[2] = "icmp_flood" /\ 2 * icmp > total
    <2>1. Classify(B) = CASE total = 0        -> "none"
                          [] 2 * udp > total  -> "udp_flood"
                          [] 2 * icmp > total -> "icmp_flood"
                          [] OTHER            -> "none"
      BY DEF Classify
    <2> HIDE DEF B, n, total, udp, icmp
    <2>2. QED
      BY <1>1, <2>1 DEF Vectors
  <1>3. k[2] = "udp_flood" => ours = udp
    BY DEF SumOf, VectorPps
  <1>4. k[2] = "icmp_flood" => ours = icmp
    BY DEF SumOf, VectorPps
  <1>5. 2 * ours > total
    <2> HIDE DEF B, n, total, udp, icmp, ours
    <2>1. QED
      BY <1>2, <1>3, <1>4
  <1>6. QED
    BY <1>1, <1>5, SumsAreReal

\* A new incident names the right vector: of the packets really received over
\* the classification window, more than half are of the vector's protocol
\* (Classify on the slots of the ring, and the start of an incident in Step).
THEOREM VectorsAreJustified == EngineSpec => VectorJustified
  <1>1. ASSUME EngineInv, [EngineNext]_vars, NEW k \in Keys,
               state[k] = "idle", state'[k] = "active"
        PROVE  LET w == Smaller(MaxWindow(k[1]), WindowSize - 1)
                   mine(b) == VectorPps(k[2], b)
               IN  2 * Received(mine, k[1], tickNow, w)
                     > Received(Pps, k[1], tickNow, w)
    <2> DEFINE w == Classifying(k[1])
               mine(b) == VectorPps(k[2], b)
    <2>1. PICK h \in Hosts : EvalStep(h) /\ k = Classified(h)
      BY <1>1, ActiveAfter DEF Untouched, Raised, Started
    <2>2. k[1] = h
      BY <2>1 DEF Classified
    <2>3. 2 * Total(VectorOver(k[2], k[1], tickNow, w), w)
            > Total(PpsOver(k[1], tickNow, w), w)
      BY <1>1, <2>1, <2>2, StartedOfVector
    <2>4. w = Smaller(MaxWindow(k[1]), WindowSize - 1)
      BY DEF Classifying
    <2> HIDE DEF w
    <2> DEFINE A == [i \in 1 .. w |-> AppliedAt(k[1], tickNow - (i - 1))]
    <2>5. \A i \in 1 .. w : A[i] = AppliedAt(k[1], tickNow - (i - 1))
      OBVIOUS
    <2>6. Received(Pps, k[1], tickNow, w) = Total([i \in 1 .. w |-> Pps(A[i])], w)
      BY DEF Received, SumOf
    <2>7. Received(mine, k[1], tickNow, w)
            = Total([i \in 1 .. w |-> VectorPps(k[2], A[i])], w)
      BY DEF Received, SumOf
    <2> HIDE DEF A
    <2>8. /\ [i \in 1 .. w |-> Pps(A[i])] = PpsOver(k[1], tickNow, w)
          /\ [i \in 1 .. w |-> VectorPps(k[2], A[i])]
               = VectorOver(k[2], k[1], tickNow, w)
      BY <2>5 DEF PpsOver, VectorOver
    <2>9. 2 * Received(mine, k[1], tickNow, w) > Received(Pps, k[1], tickNow, w)
      BY <2>3, <2>6, <2>7, <2>8
    <2>10. QED
      BY <2>4, <2>9
  <1>2. EngineInv /\ [EngineNext]_vars
          => [\A k \in Keys :
                state[k] = "idle" /\ state'[k] = "active" =>
                  LET w == Smaller(MaxWindow(k[1]), WindowSize - 1)
                      mine(b) == VectorPps(k[2], b)
                  IN  2 * Received(mine, k[1], tickNow, w)
                        > Received(Pps, k[1], tickNow, w)]_vars
    BY <1>1
  <1>3. QED
    BY <1>2, EngineInvariance, PTL DEF EngineSpec, VectorJustified
=============================================================================
