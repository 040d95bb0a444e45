------------------------------- MODULE Engine -------------------------------
(***************************************************************************)
(* internal/detect/engine.go: the 1 Hz detection loop over the aggregate   *)
(* store. Once per tick the engine's goroutine advances the store, lists   *)
(* the active hosts and evaluates them one by one: snapshot, classify,     *)
(* compare the average with the threshold of the classified vector, step   *)
(* the state machine, and try to send the event it returns. The flow       *)
(* writer keeps updating the store between these steps, and the alert bus  *)
(* takes events from the out channel.                                      *)
(***************************************************************************)
EXTENDS AggregateStore

CONSTANTS
  Thresholds,           \* [Keys -> Threshold or NoThreshold], the catalog
  DefaultGrace,
  CooldownAfterEnd,
  UpdateAfterDuration,
  OutCapacity           \* capacity of the attackEvents channel

Vectors == {"udp_flood", "icmp_flood"}
Keys == Hosts \X Vectors

NoThreshold == [PPS |-> -1]
Threshold == [PPS : Nat, BPS : Nat, MinWindowSec : Nat \ {0}, GraceSec : Int]

\* The CHECK constraints on the thresholds table.
ASSUME CatalogAssumption ==
  /\ Thresholds \in [Keys -> Threshold \cup {NoThreshold}]
  /\ OutCapacity \in Nat \ {0}

\* The constants of state.go: 60 ticks, 60 s, 5 min.
ASSUME EngineTimingAssumption ==
  /\ DefaultGrace \in Nat \ {0}
  /\ CooldownAfterEnd \in Nat
  /\ UpdateAfterDuration \in Nat \ {0}

VARIABLES
  collected,  \* the last tick whose ActiveHosts have been listed
  toEval,     \* the hosts of that list still to evaluate
  streak,     \* [Keys -> consecutive violating evaluations]
  out,        \* the attackEvents channel
  dropped,    \* events dropped because the channel was full
  stepped,    \* history: the keys whose machine was stepped in this tick
  state, inc, cooldownUntil, ulids, ev, lastViolation  \* of StateMachine

smState == <<stepped, state, inc, cooldownUntil, ulids, ev, lastViolation>>
engineVars == <<collected, toEval, streak, out, dropped>>
vars == <<storeVars, engineVars, smState>>

\* The keys with a threshold; Lookup(h) is nonempty when h is Watched.
WatchedKeys == {k \in Keys : Thresholds[k] # NoThreshold}
Watched(h) == \E v \in Vectors : <<h, v>> \in WatchedKeys

\* The state machines of the engine; their clock is the tick being evaluated.
SM == INSTANCE StateMachine WITH
  Rates        <- [pps : Nat, bps : Nat],
  MinWindowSec <- [k \in Keys |-> IF k \in WatchedKeys
                                  THEN Thresholds[k].MinWindowSec ELSE 1],
  GraceSec     <- [k \in Keys |-> IF k \in WatchedKeys
                                  THEN Thresholds[k].GraceSec ELSE 0],
  MaxStreak    <- MaxTime,
  now          <- tickNow

-----------------------------------------------------------------------------
(* Classification and averages.                                            *)

\* The sum of the numbers ns[1], ..., ns[n].
Total(ns, n) ==
  LET upTo[m \in 0 .. n] == IF m = 0 THEN 0 ELSE upTo[m - 1] + ns[m]
  IN  upTo[n]

SumOf(f(_), buckets, n) == Total([i \in 1 .. n |-> f(buckets[i])], n)

UDP(b) == b.PpsOf["udp"]
ICMP(b) == b.PpsOf["icmp"]
Pps(b) == b.Pps
Bps(b) == b.Bps

\* Mutant: a tie counts as a majority.
ClassifyTie(buckets) ==
  LET total == SumOf(Pps, buckets, Len(buckets))
      udp   == SumOf(UDP, buckets, Len(buckets))
      icmp  == SumOf(ICMP, buckets, Len(buckets))
  IN  CASE total = 0         -> "none"
        [] 2 * udp >= total  -> "udp_flood"
        [] 2 * icmp >= total -> "icmp_flood"
        [] OTHER             -> "none"

\* classify.go: the protocol with more than half of the packets.
Classify(buckets) ==
  LET total == SumOf(Pps, buckets, Len(buckets))
      udp   == SumOf(UDP, buckets, Len(buckets))
      icmp  == SumOf(ICMP, buckets, Len(buckets))
  IN  CASE total = 0        -> "none"
        [] 2 * udp > total  -> "udp_flood"
        [] 2 * icmp > total -> "icmp_flood"
        [] OTHER            -> "none"

\* The widest window any threshold of the host needs.
MaxWindow(h) ==
  LET windows == {Thresholds[k].MinWindowSec : k \in {x \in WatchedKeys : x[1] = h}}
  IN  CHOOSE w \in windows : \A v \in windows : v <= w

\* What evalHost reads of a watched host, and the key it classifies it to.
Buckets(h) == Snapshot(h, tickNow, MaxWindow(h))
Classified(h) == <<h, Classify(Buckets(h))>>

Average(f(_), buckets, n) == SumOf(f, buckets, n) \div n

Smaller(a, b) == IF a > b THEN b ELSE a

Violating(buckets, t) ==
  LET n == Smaller(t.MinWindowSec, Len(buckets))
  IN  \/ Average(Pps, buckets, n) > t.PPS
      \/ Average(Bps, buckets, n) > t.BPS

-----------------------------------------------------------------------------
(* One tick of the engine.                                                 *)

EngineInit ==
  /\ StoreInit
  /\ collected = 0
  /\ toEval = {}
  /\ streak = [k \in Keys |-> 0]
  /\ out = <<>>
  /\ dropped = 0
  /\ stepped = {}
  /\ state = [k \in Keys |-> "idle"]
  /\ inc = [k \in Keys |-> SM!NoIncident]
  /\ cooldownUntil = [k \in Keys |-> SM!ZeroTime]
  /\ ulids = 0
  /\ ev = SM!NoEvent
  /\ lastViolation = [k \in Keys |-> SM!ZeroTime]

TickDone == collected = tickNow /\ toEval = {}

EngineTickBegin ==
  /\ TickDone
  /\ TickBegin
  /\ stepped' = {}
  /\ ev' = SM!NoEvent
  /\ UNCHANGED <<engineVars, state, inc, cooldownUntil, ulids, lastViolation>>

EngineTickShard ==
  /\ TickShard
  /\ UNCHANGED <<engineVars, smState>>

\* hosts := e.store.ActiveHosts(sec)
ListActiveHosts ==
  /\ sweep = NumShards + 1
  /\ collected # tickNow
  /\ collected' = tickNow
  /\ toEval' = ActiveHosts(tickNow)
  /\ UNCHANGED <<storeVars, streak, out, dropped, smState>>

\* A host without a threshold, without data, without a dominant vector or
\* without a threshold for that vector is skipped for this tick.
EvalSkip(h) ==
  /\ h \in toEval
  /\ Watched(h) => Classified(h) \notin WatchedKeys
  /\ toEval' = toEval \ {h}
  /\ UNCHANGED <<storeVars, collected, streak, out, dropped, smState>>

\* Mutant: the channel grows without bound.
SendUnbounded(e) == out' = Append(out, e) /\ dropped' = dropped

\* The non-blocking send on the out channel.
Send(e) ==
  IF Len(out) < OutCapacity
  THEN out' = Append(out, e) /\ dropped' = dropped
  ELSE out' = out /\ dropped' = dropped + 1

EvalStep(h) ==
  /\ h \in toEval
  /\ Watched(h)
  /\ Classified(h) \in WatchedKeys
  /\ LET k == Classified(h)
         now == Buckets(h)[1]
         bad == Violating(Buckets(h), Thresholds[k])
     IN  /\ streak' = [streak EXCEPT ![k] = IF bad THEN @ + 1 ELSE 0]
         /\ SM!Step(k, [current |-> [pps |-> now.Pps, bps |-> now.Bps],
                        violating |-> bad,
                        durationViolated |-> streak'[k]])
         /\ stepped' = stepped \cup {k}
  /\ IF ev' = SM!NoEvent THEN UNCHANGED <<out, dropped>> ELSE Send(ev')
  /\ toEval' = toEval \ {h}
  /\ UNCHANGED <<storeVars, collected>>

\* The flow writer and the alert bus.
EngineWrite == Write /\ UNCHANGED <<engineVars, smState>>

BusReceive ==
  /\ out # <<>>
  /\ out' = Tail(out)
  /\ UNCHANGED <<storeVars, collected, toEval, streak, dropped, smState>>

\* The next second begins when the tick of this one is done.
EngineSecond ==
  /\ TickDone
  /\ Second
  /\ UNCHANGED <<engineVars, smState>>

EngineNext ==
  \/ EngineTickBegin
  \/ EngineTickShard
  \/ ListActiveHosts
  \/ \E h \in Hosts : EvalSkip(h) \/ EvalStep(h)
  \/ EngineWrite
  \/ BusReceive
  \/ EngineSecond

EngineSpec == EngineInit /\ [][EngineNext]_vars

-----------------------------------------------------------------------------
(* Properties.                                                             *)

EngineTypeOK ==
  /\ StoreTypeOK
  /\ SM!SMTypeOK
  /\ collected \in 0 .. tickNow
  /\ toEval \subseteq Hosts
  /\ streak \in [Keys -> Nat]
  /\ out \in Seq(SM!Event) /\ Len(out) <= OutCapacity
  /\ dropped \in Nat

\* What was applied for second s of host h; nothing before the first second.
AppliedAt(h, s) == IF s >= 0 THEN applied[h][s] ELSE EmptyBucket

\* Everything applied to the store for host h in the w seconds up to s.
Received(f(_), h, s, w) == SumOf(f, [i \in 1 .. w |-> AppliedAt(h, s - (i - 1))], w)

\* No false alarm: whenever an incident was started at a tick, the flows of
\* the MinWindowSec seconds up to that tick, or of the WindowSize seconds of the
\* ring if that is less, really exceed the threshold. The decision is taken on
\* ring slots that are reused every WindowSize seconds, while the writer keeps
\* writing and the ticker zeroes slots.
StartJustified ==
  \A k \in Keys :
    state[k] = "active" =>
      LET t == Thresholds[k]
          w == Smaller(t.MinWindowSec, WindowSize)
      IN  \/ Received(Pps, k[1], inc[k].startedAt, w) \div w > t.PPS
          \/ Received(Bps, k[1], inc[k].startedAt, w) \div w > t.BPS

\* The packets of a bucket the classifier counts for a vector.
VectorPps(v, b) == IF v = "udp_flood" THEN UDP(b) ELSE ICMP(b)

\* The vector of a new incident is right: of the packets really received over
\* the classification window, more than half are of the vector's protocol. The
\* ring holds WindowSize - 1 seconds; the slot of the oldest one is the next
\* second's and has just been zeroed.
VectorJustified ==
  [][\A k \in Keys :
       state[k] = "idle" /\ state'[k] = "active" =>
         LET w == Smaller(MaxWindow(k[1]), WindowSize - 1)
             mine(b) == VectorPps(k[2], b)
         IN  2 * Received(mine, k[1], tickNow, w)
               > Received(Pps, k[1], tickNow, w)]_vars

\* The peaks reported for an open incident are no artefact of the ring: in
\* some second the host really received that many packets, in some that many
\* bytes, whatever the slots held before and whatever was written since.
PeakReal ==
  \A k \in Keys :
    state[k] = "active" =>
      /\ \E s \in 0 .. tickNow : applied[k[1]][s].Pps >= inc[k].peak.pps
      /\ \E s \in 0 .. tickNow : applied[k[1]][s].Bps >= inc[k].peak.bps

\* What the engine hands to its consumers: a bounded channel of well-formed
\* events, with peaks that were real (evalHost and its send).
EngineSafe == EngineTypeOK /\ PeakReal

\* The engine drives every key as StateMachine expects, so per key the events
\* keep the promise of IncidentLifecycle.
EngineImplementsLifecycle == SM!ImplementsLifecycle

\* D-05: "ended" after a grace period without violation. At the end of every
\* tick, an incident still open has been violating within the grace period.
EndedAfterGrace ==
  \A k \in Keys :
    TickDone /\ state[k] = "active" =>
      tickNow - lastViolation[k] <= SM!graceTicks(k)
=============================================================================
