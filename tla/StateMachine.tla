---------------------------- MODULE StateMachine ----------------------------
(***************************************************************************)
(* internal/detect/state.go: one incident state machine per (host, vector) *)
(* key, stepped at most once per detection tick with that tick's           *)
(* observation. Step is called by the engine's single ticker goroutine     *)
(* only, so a call is one atomic action.                                   *)
(*                                                                         *)
(* Time is counted in ticker periods (seconds); `now` is the Now field of  *)
(* the inputs of the current tick. The entry the code creates on first     *)
(* use is the idle entry every key starts with here.                       *)
(***************************************************************************)
EXTENDS Integers

CONSTANTS
  Keys,                 \* the (host, vector) pairs
  Rates,                \* the observable rates: records [pps, bps]
  MinWindowSec,         \* [Keys -> Int], thresholds.min_window_sec
  GraceSec,             \* [Keys -> Int], thresholds.grace_sec
  DefaultGrace,         \* the 60 ticks used when grace_sec <= 0
  CooldownAfterEnd,     \* 60 s
  UpdateAfterDuration,  \* 5 min
  MaxStreak,            \* bound on the streaks fed to a machine
  MaxTime               \* bound on the modelled time

ASSUME RatesAssumption == Rates \subseteq [pps : Nat, bps : Nat]

ASSUME ThresholdAssumption ==
  /\ MinWindowSec \in [Keys -> Int]
  /\ GraceSec \in [Keys -> Int]

ASSUME TimingAssumption ==
  /\ DefaultGrace \in Nat \ {0}
  /\ CooldownAfterEnd \in Nat
  /\ UpdateAfterDuration \in Nat \ {0}
  /\ MaxStreak \in Nat
  /\ MaxTime \in Nat

VARIABLES
  now,            \* the time of the current tick
  stepped,        \* the keys already stepped in this tick
  state,          \* [Keys -> machineState]
  inc,            \* [Keys -> the open incident, or NoIncident (nil)]
  cooldownUntil,  \* [Keys -> time, or ZeroTime]
  ulids,          \* the number of incident ids drawn so far
  ev,             \* what the last call of Step returned
  lastViolation   \* history: [Keys -> time of the last violating input]

smVars == <<now, stepped, state, inc, cooldownUntil, ulids, ev, lastViolation>>

ZeroTime == -1
NoIncident == [id |-> 0]
NoEvent == [State |-> "none"]

Incident ==
  [id : Nat \ {0}, startedAt : Nat, initialPeak : Rates,
   peak : [pps : Nat, bps : Nat], updateEmitted : BOOLEAN,
   noViolationTicks : Nat]

Event ==
  [State : {"started", "updated", "ended"}, IncidentID : Nat \ {0}, Key : Keys,
   Rate : Rates, Peak : [pps : Nat, bps : Nat], StartedAt : Nat, Now : Nat]

\* The part of Input that Step reads.
Input ==
  [current : Rates, violating : BOOLEAN, durationViolated : 0 .. MaxStreak]

-----------------------------------------------------------------------------
(* Helpers of Step.                                                        *)

graceTicks(k) == IF GraceSec[k] <= 0 THEN DefaultGrace ELSE GraceSec[k]

Larger(a, b) == IF a > b THEN a ELSE b

\* Mutant: the rates of all inputs are summed up.
RaisePeakBySum(peak, current) ==
  [pps |-> current.pps + peak.pps, bps |-> current.bps + peak.bps]

\* "Always update running peaks": pps and bps separately.
RaisePeak(peak, current) ==
  [pps |-> Larger(current.pps, peak.pps), bps |-> Larger(current.bps, peak.bps)]

\* Mutant: a violation does not reset the grace counter.
ViolatedKeepsGrace(i, in) == [i EXCEPT !.peak = RaisePeak(@, in.current)]

\* An open incident after one more input: violating, or not.
Violated(i, in) ==
  [i EXCEPT !.peak = RaisePeak(@, in.current), !.noViolationTicks = 0]

Quiet(i, in) ==
  [i EXCEPT !.peak = RaisePeak(@, in.current), !.noViolationTicks = @ + 1]

peakDoubled(i) ==
  \/ i.peak.pps > 2 * i.initialPeak.pps
  \/ i.peak.bps > 2 * i.initialPeak.bps

AttackEvent(st, k, in, i) ==
  [State |-> st, IncidentID |-> i.id, Key |-> k, Rate |-> in.current,
   Peak |-> i.peak, StartedAt |-> i.startedAt, Now |-> now]

\* Mutant: no id is drawn for a new incident.
NewIncidentWithoutID(in) ==
  [id |-> ulids, startedAt |-> now, initialPeak |-> in.current,
   peak |-> in.current, updateEmitted |-> FALSE, noViolationTicks |-> 0]

NewIncident(in) ==
  [id |-> ulids + 1, startedAt |-> now, initialPeak |-> in.current,
   peak |-> in.current, updateEmitted |-> FALSE, noViolationTicks |-> 0]

-----------------------------------------------------------------------------
(* The branches of Step, one action each.                                  *)

\* Idle, and not violating or not for long enough.
StepIdle(k, in) ==
  /\ state[k] = "idle"
  /\ ~in.violating \/ in.durationViolated < MinWindowSec[k]
  /\ ev' = NoEvent
  /\ UNCHANGED <<state, inc, cooldownUntil, ulids>>

\* idle -> active: a new incident and STARTED.
StepStart(k, in) ==
  /\ state[k] = "idle"
  /\ in.violating
  /\ in.durationViolated >= MinWindowSec[k]
  /\ state' = [state EXCEPT ![k] = "active"]
  /\ inc' = [inc EXCEPT ![k] = NewIncident(in)]
  /\ ulids' = ulids + 1
  /\ ev' = AttackEvent("started", k, in, NewIncident(in))
  /\ UNCHANGED cooldownUntil

\* Mutant: the update looks at the current rate instead of the peak.
StepViolatingByRate(k, in) ==
  LET i == Violated(inc[k], in)
      due == /\ ~i.updateEmitted
             /\ \/ now - i.startedAt >= UpdateAfterDuration
                \/ peakDoubled([i EXCEPT !.peak = in.current])
  IN  /\ state[k] = "active"
      /\ in.violating
      /\ inc' = [inc EXCEPT ![k] = [i EXCEPT !.updateEmitted = @ \/ due]]
      /\ ev' = IF due THEN AttackEvent("updated", k, in, i) ELSE NoEvent
      /\ UNCHANGED <<state, cooldownUntil, ulids>>

\* Active and violating: reset the grace counter, maybe the single UPDATED.
StepViolating(k, in) ==
  LET i == Violated(inc[k], in)
      due == /\ ~i.updateEmitted
             /\ now - i.startedAt >= UpdateAfterDuration \/ peakDoubled(i)
  IN  /\ state[k] = "active"
      /\ in.violating
      /\ inc' = [inc EXCEPT ![k] = [i EXCEPT !.updateEmitted = @ \/ due]]
      /\ ev' = IF due THEN AttackEvent("updated", k, in, i) ELSE NoEvent
      /\ UNCHANGED <<state, cooldownUntil, ulids>>

\* Active and quiet, within the grace period.
StepGrace(k, in) ==
  LET i == Quiet(inc[k], in)
  IN  /\ state[k] = "active"
      /\ ~in.violating
      /\ i.noViolationTicks < graceTicks(k)
      /\ inc' = [inc EXCEPT ![k] = i]
      /\ ev' = NoEvent
      /\ UNCHANGED <<state, cooldownUntil, ulids>>

\* Mutant: the ended incident is not dropped.
StepEndKeepsIncident(k, in) ==
  LET i == Quiet(inc[k], in)
  IN  /\ state[k] = "active"
      /\ ~in.violating
      /\ i.noViolationTicks >= graceTicks(k)
      /\ state' = [state EXCEPT ![k] = "cooldown"]
      /\ cooldownUntil' = [cooldownUntil EXCEPT ![k] = now + CooldownAfterEnd]
      /\ inc' = [inc EXCEPT ![k] = i]
      /\ ev' = AttackEvent("ended", k, in, i)
      /\ UNCHANGED ulids

\* active -> cooldown: the grace period is over, ENDED.
StepEnd(k, in) ==
  LET i == Quiet(inc[k], in)
  IN  /\ state[k] = "active"
      /\ ~in.violating
      /\ i.noViolationTicks >= graceTicks(k)
      /\ state' = [state EXCEPT ![k] = "cooldown"]
      /\ cooldownUntil' = [cooldownUntil EXCEPT ![k] = now + CooldownAfterEnd]
      /\ inc' = [inc EXCEPT ![k] = NoIncident]
      /\ ev' = AttackEvent("ended", k, in, i)
      /\ UNCHANGED ulids

\* Mutant: the cooldown is left with the first input.
StepCooldownIgnored(k, in) ==
  /\ state[k] = "cooldown"
  /\ state' = [state EXCEPT ![k] = "idle"]
  /\ ev' = NoEvent
  /\ UNCHANGED <<inc, cooldownUntil, ulids>>

\* Cooling down; strictly after cooldownUntil the key is silently idle again.
StepCooldown(k, in) ==
  /\ state[k] = "cooldown"
  /\ state' = IF now > cooldownUntil[k]
              THEN [state EXCEPT ![k] = "idle"] ELSE state
  /\ ev' = NoEvent
  /\ UNCHANGED <<inc, cooldownUntil, ulids>>

Step(k, in) ==
  /\ \/ StepIdle(k, in)
     \/ StepStart(k, in)
     \/ StepViolating(k, in)
     \/ StepGrace(k, in)
     \/ StepEnd(k, in)
     \/ StepCooldown(k, in)
  /\ lastViolation' =
       IF in.violating THEN [lastViolation EXCEPT ![k] = now] ELSE lastViolation

-----------------------------------------------------------------------------
(* The machines under any sequence of ticks and inputs. A tick may skip    *)
(* keys (the engine evaluates only active, classified hosts) and the       *)
(* ticker may drop ticks, so `now` may jump.                               *)

SMInit ==
  /\ now = 0
  /\ stepped = {}
  /\ state = [k \in Keys |-> "idle"]
  /\ inc = [k \in Keys |-> NoIncident]
  /\ cooldownUntil = [k \in Keys |-> ZeroTime]
  /\ ulids = 0
  /\ ev = NoEvent
  /\ lastViolation = [k \in Keys |-> ZeroTime]

SMTick ==
  /\ now' \in (now + 1) .. MaxTime
  /\ stepped' = {}
  /\ ev' = NoEvent
  /\ UNCHANGED <<state, inc, cooldownUntil, ulids, lastViolation>>

SMStep(k, in) ==
  /\ k \notin stepped
  /\ stepped' = stepped \cup {k}
  /\ Step(k, in)
  /\ UNCHANGED now

SMNext ==
  \/ SMTick
  \/ \E k \in Keys, in \in Input : SMStep(k, in)

SMSpec == SMInit /\ [][SMNext]_smVars

-----------------------------------------------------------------------------
(* Properties.                                                             *)

SMTypeOK ==
  /\ now \in Nat
  /\ stepped \subseteq Keys
  /\ state \in [Keys -> {"idle", "active", "cooldown"}]
  /\ inc \in [Keys -> Incident \cup {NoIncident}]
  /\ cooldownUntil \in [Keys -> Nat \cup {ZeroTime}]
  /\ ulids \in Nat
  /\ ev \in Event \cup {NoEvent}
  /\ lastViolation \in [Keys -> Nat \cup {ZeroTime}]

\* Step dereferences e.inc whenever the state is active and drops it when the
\* incident ends: the pointer is nil in exactly the other two states.
IncidentIffActive ==
  \A k \in Keys : state[k] = "active" <=> inc[k] # NoIncident

\* The UPDATED of D-15 is never missed: at every violating input of an
\* incident, once it has lasted UpdateAfterDuration or a peak has more than
\* doubled, the update has been emitted, even when the peak was reached
\* during the grace period, where Step emits nothing.
UpdateNotMissed ==
  \A k \in Keys :
    /\ state[k] = "active"
    /\ inc[k].noViolationTicks = 0
    /\ \/ lastViolation[k] - inc[k].startedAt >= UpdateAfterDuration
       \/ peakDoubled(inc[k])
    => inc[k].updateEmitted

\* Grace is counted in calls of Step, not in seconds: the counter never runs
\* ahead of the time since the last violating input.
GraceCounted ==
  \A k \in Keys :
    state[k] = "active" =>
      lastViolation[k] + inc[k].noViolationTicks
        <= IF k \in stepped THEN now ELSE now - 1

\* What Step relies on between two calls: the types, an incident to dereference
\* in the active state, and a counter that can only end an incident that has
\* been quiet for its whole grace period.
SMSafe == SMTypeOK /\ IncidentIffActive /\ GraceCounted

\* The refinement mapping to the promise made to the consumers of events.
Lifecycle == INSTANCE IncidentLifecycle WITH
  Grace    <- [k \in Keys |-> graceTicks(k)],
  Cooldown <- CooldownAfterEnd,
  phase    <- [k \in Keys |-> IF state[k] # "active" THEN "closed"
                              ELSE IF inc[k].updateEmitted THEN "updated"
                              ELSE "open"],
  lastBad  <- lastViolation,
  endedAt  <- [k \in Keys |-> IF cooldownUntil[k] = ZeroTime THEN ZeroTime
                              ELSE cooldownUntil[k] - CooldownAfterEnd],
  time     <- now

\* Per key, the machine starts, updates at most once and ends; an end comes
\* only a full grace period after the last violation, and the next start
\* strictly after the cooldown (the branches of Step together).
ImplementsLifecycle == Lifecycle!LifecycleSpec
=============================================================================
