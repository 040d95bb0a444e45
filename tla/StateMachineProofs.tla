------------------------- MODULE StateMachineProofs -------------------------
(***************************************************************************)
(* Proofs about StateMachine, for every set of keys and rates and all      *)
(* values of the timing constants.                                         *)
(***************************************************************************)
EXTENDS StateMachine, TLAPS

\* The inductive invariant. CooldownOver is what makes the refinement's
\* cooldown guard provable: an idle machine that has ended an incident went
\* through StepCooldown strictly after cooldownUntil.
CooldownOver ==
  \A k \in Keys :
    state[k] # "cooldown" /\ cooldownUntil[k] # ZeroTime =>
      state[k] = "active" \/ now > cooldownUntil[k]

\* An open incident began no later than its last violation.
StartedByViolation ==
  \A k \in Keys :
    state[k] = "active" =>
      /\ lastViolation[k] \in Nat
      /\ inc[k].startedAt <= lastViolation[k]

SMInv ==
  /\ SMTypeOK
  /\ IncidentIffActive
  /\ UpdateNotMissed
  /\ GraceCounted
  /\ CooldownOver
  /\ StartedByViolation

-----------------------------------------------------------------------------
(* Lemmas about the operators Step is built from.                          *)

\* A grace period is at least one tick, whatever grace_sec holds.
LEMMA GraceTicksPositive ==
  ASSUME NEW k \in Keys
  PROVE  graceTicks(k) \in Nat \ {0}
  BY ThresholdAssumption, TimingAssumption DEF graceTicks

\* Raising a peak yields a pair of naturals.
LEMMA RaisePeakType ==
  ASSUME NEW p \in [pps : Nat, bps : Nat], NEW c \in Rates
  PROVE  RaisePeak(p, c) \in [pps : Nat, bps : Nat]
  BY RatesAssumption DEF RaisePeak, Larger

\* The incident a start creates is well formed.
LEMMA NewIncidentType ==
  ASSUME SMTypeOK, NEW in \in Input
  PROVE  NewIncident(in) \in Incident
  BY RatesAssumption DEF SMTypeOK, NewIncident, Incident, Input

\* A violating input keeps the incident well formed and resets its counter.
LEMMA ViolatedIncident ==
  ASSUME NEW i \in Incident, NEW in \in Input
  PROVE  /\ Violated(i, in) \in Incident
         /\ Violated(i, in).startedAt = i.startedAt
         /\ Violated(i, in).noViolationTicks = 0
  BY RaisePeakType DEF Violated, Incident, Input

\* A quiet input keeps the incident well formed and counts one tick.
LEMMA QuietIncident ==
  ASSUME NEW i \in Incident, NEW in \in Input
  PROVE  /\ Quiet(i, in) \in Incident
         /\ Quiet(i, in).startedAt = i.startedAt
         /\ Quiet(i, in).noViolationTicks = i.noViolationTicks + 1
         /\ i.noViolationTicks \in Nat
  <1>1. i.noViolationTicks \in Nat /\ i.noViolationTicks + 1 \in Nat
    BY DEF Incident
  <1>2. RaisePeak(i.peak, in.current) \in [pps : Nat, bps : Nat]
    BY RaisePeakType DEF Incident, Input
  <1>3. QED
    BY <1>1, <1>2 DEF Quiet, Incident

\* An active key has an incident.
LEMMA ActiveHasIncident ==
  ASSUME SMTypeOK, IncidentIffActive, NEW k \in Keys, state[k] = "active"
  PROVE  inc[k] \in Incident
  BY DEF SMTypeOK, IncidentIffActive

\* An incident is never the nil incident.
LEMMA IncidentNotNil ==
  ASSUME NEW i \in Incident
  PROVE  i # NoIncident
  BY DEF Incident, NoIncident

\* The initial state satisfies the invariant.
LEMMA InitInv == SMInit => SMInv
  BY DEF SMInit, SMInv, SMTypeOK, IncidentIffActive, UpdateNotMissed,
         GraceCounted, CooldownOver, StartedByViolation, ZeroTime

-----------------------------------------------------------------------------
(* One lemma per branch of Step: it preserves the invariant.               *)

\* What SMStep does to the variables every branch shares.
LEMMA StepFrame ==
  ASSUME SMInv, NEW k \in Keys, NEW in \in Input, SMStep(k, in)
  PROVE  /\ now' = now
         /\ k \notin stepped
         /\ stepped' = stepped \cup {k}
         /\ stepped' \subseteq Keys
         /\ lastViolation' \in [Keys -> Nat \cup {ZeroTime}]
         /\ \A j \in Keys \ {k} : lastViolation'[j] = lastViolation[j]
         /\ in.violating => lastViolation'[k] = now
         /\ ~in.violating => lastViolation'[k] = lastViolation[k]
  BY DEF SMInv, SMTypeOK, SMStep, Step, Input

\* A branch that changes nothing but the key's own machine state leaves the
\* other keys' part of the invariant alone.
LEMMA OtherKeys ==
  ASSUME SMInv, NEW k \in Keys, NEW in \in Input, SMStep(k, in),
         NEW j \in Keys \ {k},
         state'[j] = state[j], inc'[j] = inc[j],
         cooldownUntil'[j] = cooldownUntil[j]
  PROVE  /\ state'[j] = "active" <=> inc'[j] # NoIncident
         /\ (/\ state'[j] = "active"
             /\ inc'[j].noViolationTicks = 0
             /\ \/ lastViolation'[j] - inc'[j].startedAt >= UpdateAfterDuration
                \/ peakDoubled(inc'[j])) => inc'[j].updateEmitted
         /\ state'[j] = "active" =>
              lastViolation'[j] + inc'[j].noViolationTicks
                <= IF j \in stepped' THEN now' ELSE now' - 1
         /\ state'[j] # "cooldown" /\ cooldownUntil'[j] # ZeroTime =>
              state'[j] = "active" \/ now' > cooldownUntil'[j]
         /\ state'[j] = "active" =>
              /\ lastViolation'[j] \in Nat
              /\ inc'[j].startedAt <= lastViolation'[j]
  BY StepFrame DEF SMInv, IncidentIffActive, UpdateNotMissed, GraceCounted,
                   CooldownOver, StartedByViolation, peakDoubled

\* StepIdle changes neither machine nor incident.
LEMMA StepIdleInv ==
  ASSUME SMInv, NEW k \in Keys, NEW in \in Input, SMStep(k, in), StepIdle(k, in)
  PROVE  SMInv'
  <1>1. SMTypeOK'
    BY StepFrame DEF SMInv, SMTypeOK, StepIdle
  <1>2. state[k] # "active" /\ inc[k] = NoIncident
    BY DEF SMInv, IncidentIffActive, StepIdle
  <1>3. QED
    BY <1>1, <1>2, StepFrame, OtherKeys
    DEF SMInv, IncidentIffActive, UpdateNotMissed, GraceCounted, CooldownOver,
        StartedByViolation, StepIdle, peakDoubled

\* StepStart opens an incident that has no violation-free tick and no doubled
\* peak yet.
LEMMA StepStartInv ==
  ASSUME SMInv, NEW k \in Keys, NEW in \in Input, SMStep(k, in), StepStart(k, in)
  PROVE  SMInv'
  <1> DEFINE i == NewIncident(in)
  <1>1. i \in Incident
    BY NewIncidentType DEF SMInv
  <1>2. /\ i.startedAt = now
        /\ i.noViolationTicks = 0
        /\ i.peak = i.initialPeak
        /\ i.id = ulids + 1
        /\ i.initialPeak = in.current
    BY DEF NewIncident
  <1>3. /\ state'[k] = "active" /\ inc'[k] = i
        /\ lastViolation'[k] = now
        /\ \A j \in Keys \ {k} : state'[j] = state[j] /\ inc'[j] = inc[j]
        /\ cooldownUntil' = cooldownUntil
    BY StepFrame DEF StepStart, SMInv, SMTypeOK
  <1>4. ev' \in Event
    BY <1>1, <1>2 DEF StepStart, AttackEvent, Event, Incident, Input, SMInv, SMTypeOK
  <1>5. SMTypeOK'
    <2> HIDE DEF i
    <2>1. inc' \in [Keys -> Incident \cup {NoIncident}]
      BY <1>1 DEF StepStart, SMInv, SMTypeOK, i
    <2>2. QED
      BY <2>1, <1>4, StepFrame DEF SMInv, SMTypeOK, StepStart
  <1>6. ~peakDoubled(i)
    BY <1>1, <1>2, RatesAssumption DEF peakDoubled, Incident, Input
  <1>7. i # NoIncident
    BY <1>1, IncidentNotNil
  <1>8. now \in Nat /\ k \in stepped' /\ now' = now
    BY StepFrame DEF SMInv, SMTypeOK
  <1> HIDE DEF i
  <1>9. QED
    BY <1>2, <1>3, <1>5, <1>6, <1>7, <1>8, OtherKeys, TimingAssumption
    DEF SMInv, IncidentIffActive, UpdateNotMissed, GraceCounted, CooldownOver,
        StartedByViolation

\* StepViolating resets the grace counter and emits the update when it is due.
LEMMA StepViolatingInv ==
  ASSUME SMInv, NEW k \in Keys, NEW in \in Input, SMStep(k, in),
         StepViolating(k, in)
  PROVE  SMInv'
  <1> DEFINE i == Violated(inc[k], in)
             due == /\ ~i.updateEmitted
                    /\ now - i.startedAt >= UpdateAfterDuration \/ peakDoubled(i)
             j == [i EXCEPT !.updateEmitted = @ \/ due]
  <1>1. inc[k] \in Incident
    BY ActiveHasIncident DEF SMInv, StepViolating
  <1>2. /\ i.startedAt = inc[k].startedAt
        /\ i.noViolationTicks = 0
        /\ i \in Incident
    BY <1>1, ViolatedIncident
  <1> HIDE DEF i
  <1>3. due \in BOOLEAN
    BY DEF due
  <1> HIDE DEF due
  <1>4. /\ j \in Incident
        /\ j.startedAt = i.startedAt /\ j.peak = i.peak
        /\ j.initialPeak = i.initialPeak
        /\ j.noViolationTicks = 0
        /\ j.updateEmitted = (i.updateEmitted \/ due)
    BY <1>2, <1>3 DEF Incident
  <1>5. inc' = [inc EXCEPT ![k] = j]
    BY DEF StepViolating, i, due
  <1>6. ev' \in Event \cup {NoEvent}
    <2>1. ev' = IF due THEN AttackEvent("updated", k, in, i) ELSE NoEvent
      BY DEF StepViolating, i, due
    <2>2. AttackEvent("updated", k, in, i) \in Event
      BY <1>2 DEF AttackEvent, Event, Incident, Input, SMInv, SMTypeOK
    <2>3. QED
      BY <2>1, <2>2
  <1> HIDE DEF j
  <1>7. /\ inc'[k] = j /\ state' = state /\ cooldownUntil' = cooldownUntil
        /\ state[k] = "active" /\ lastViolation'[k] = now
        /\ \A l \in Keys \ {k} : inc'[l] = inc[l]
    BY <1>5, StepFrame DEF StepViolating, SMInv, SMTypeOK
  <1>8. SMTypeOK'
    <2>1. inc' \in [Keys -> Incident \cup {NoIncident}]
      BY <1>4, <1>5 DEF SMInv, SMTypeOK
    <2>2. QED
      BY <2>1, <1>6, StepFrame DEF SMInv, SMTypeOK, StepViolating
  <1>9. (now - j.startedAt >= UpdateAfterDuration \/ peakDoubled(j)) => j.updateEmitted
    BY <1>4 DEF due, peakDoubled
  <1>10. now \in Nat /\ k \in stepped' /\ now' = now
    BY StepFrame DEF SMInv, SMTypeOK
  <1>11. j.startedAt <= now /\ j # NoIncident
    <2>1. inc[k].startedAt \in Nat /\ inc[k].noViolationTicks \in Nat
      BY <1>1 DEF Incident
    <2>2. inc[k].startedAt <= now
      BY <1>7, <1>10, <2>1 DEF SMInv, GraceCounted, StartedByViolation
    <2>3. QED
      BY <2>2, <1>2, <1>4, IncidentNotNil
  <1>12. QED
    BY <1>4, <1>7, <1>8, <1>9, <1>10, <1>11, OtherKeys
    DEF SMInv, IncidentIffActive, UpdateNotMissed, GraceCounted, CooldownOver,
        StartedByViolation

\* StepGrace counts one more tick; the time since the last violation grew by
\* at least as much, because a key is stepped at most once per tick.
LEMMA StepGraceInv ==
  ASSUME SMInv, NEW k \in Keys, NEW in \in Input, SMStep(k, in),
         StepGrace(k, in)
  PROVE  SMInv'
  <1> DEFINE i == Quiet(inc[k], in)
  <1>1. inc[k] \in Incident
    BY ActiveHasIncident DEF SMInv, StepGrace
  <1>2. /\ i.startedAt = inc[k].startedAt
        /\ i.noViolationTicks = inc[k].noViolationTicks + 1
        /\ inc[k].noViolationTicks \in Nat
        /\ i \in Incident
    BY <1>1, QuietIncident
  <1>3. inc' = [inc EXCEPT ![k] = i]
    BY DEF StepGrace
  <1> HIDE DEF i
  <1>4. /\ inc'[k] = i /\ state' = state /\ cooldownUntil' = cooldownUntil
        /\ state[k] = "active" /\ lastViolation'[k] = lastViolation[k]
        /\ \A l \in Keys \ {k} : inc'[l] = inc[l]
        /\ ev' = NoEvent
    BY <1>3, StepFrame DEF StepGrace, SMInv, SMTypeOK
  <1>5. SMTypeOK'
    <2>1. inc' \in [Keys -> Incident \cup {NoIncident}]
      BY <1>2, <1>3 DEF SMInv, SMTypeOK
    <2>2. QED
      BY <2>1, <1>4, StepFrame DEF SMInv, SMTypeOK, StepGrace
  <1>6. now \in Nat /\ k \in stepped' /\ k \notin stepped /\ now' = now
    BY StepFrame DEF SMInv, SMTypeOK
  <1>7. lastViolation[k] \in Nat /\ inc[k].startedAt <= lastViolation[k]
    BY <1>4 DEF SMInv, StartedByViolation
  <1>8. lastViolation[k] + i.noViolationTicks <= now
    BY <1>2, <1>4, <1>6, <1>7 DEF SMInv, GraceCounted
  <1>9. i # NoIncident
    BY <1>2, IncidentNotNil
  <1>10. QED
    BY <1>2, <1>4, <1>5, <1>6, <1>7, <1>8, <1>9, OtherKeys
    DEF SMInv, IncidentIffActive, UpdateNotMissed, GraceCounted, CooldownOver,
        StartedByViolation

\* StepEnd drops the incident and enters the cooldown.
LEMMA StepEndInv ==
  ASSUME SMInv, NEW k \in Keys, NEW in \in Input, SMStep(k, in),
         StepEnd(k, in)
  PROVE  SMInv'
  <1> DEFINE i == Quiet(inc[k], in)
  <1>1. inc[k] \in Incident
    BY ActiveHasIncident DEF SMInv, StepEnd
  <1>2. i \in Incident
    BY <1>1, QuietIncident
  <1>3. ev' = AttackEvent("ended", k, in, i)
    BY DEF StepEnd
  <1> HIDE DEF i
  <1>4. ev' \in Event
    BY <1>2, <1>3 DEF AttackEvent, Event, Incident, Input, SMInv, SMTypeOK
  <1>5. /\ inc'[k] = NoIncident /\ state'[k] = "cooldown"
        /\ \A l \in Keys \ {k} : /\ inc'[l] = inc[l]
                                 /\ state'[l] = state[l]
                                 /\ cooldownUntil'[l] = cooldownUntil[l]
    BY DEF StepEnd, SMInv, SMTypeOK
  <1>6. SMTypeOK'
    BY <1>4, StepFrame, TimingAssumption DEF SMInv, SMTypeOK, StepEnd
  <1>7. QED
    BY <1>5, <1>6, OtherKeys
    DEF SMInv, IncidentIffActive, UpdateNotMissed, GraceCounted, CooldownOver,
        StartedByViolation

\* StepCooldown goes idle only strictly after cooldownUntil.
LEMMA StepCooldownInv ==
  ASSUME SMInv, NEW k \in Keys, NEW in \in Input, SMStep(k, in),
         StepCooldown(k, in)
  PROVE  SMInv'
  <1>1. /\ inc' = inc /\ cooldownUntil' = cooldownUntil
        /\ state'[k] # "active" /\ inc[k] = NoIncident
        /\ state'[k] = "cooldown" \/ now > cooldownUntil[k]
        /\ \A l \in Keys \ {k} : state'[l] = state[l]
    BY DEF StepCooldown, SMInv, SMTypeOK, IncidentIffActive
  <1>2. SMTypeOK'
    BY StepFrame DEF SMInv, SMTypeOK, StepCooldown
  <1>3. QED
    BY <1>1, <1>2, StepFrame, OtherKeys
    DEF SMInv, IncidentIffActive, UpdateNotMissed, GraceCounted, CooldownOver,
        StartedByViolation

\* Time only moves forward between ticks.
LEMMA TickInv ==
  ASSUME SMInv, SMTick
  PROVE  SMInv'
  <1>1. /\ now' \in Nat /\ now \in Nat /\ now' > now /\ stepped' = {}
        /\ UNCHANGED <<state, inc, cooldownUntil, ulids, lastViolation>>
        /\ ev' = NoEvent
    BY TimingAssumption DEF SMTick, SMInv, SMTypeOK
  <1>2. SMTypeOK'
    BY <1>1 DEF SMInv, SMTypeOK
  <1>3. GraceCounted'
    <2> SUFFICES ASSUME NEW k \in Keys, state[k] = "active"
                 PROVE  lastViolation[k] + inc[k].noViolationTicks <= now' - 1
      BY <1>1 DEF GraceCounted
    <2>1. inc[k].noViolationTicks \in Nat /\ lastViolation[k] \in Nat
      BY ActiveHasIncident DEF SMInv, Incident, StartedByViolation
    <2>2. QED
      BY <1>1, <2>1 DEF SMInv, GraceCounted
  <1>4. CooldownOver'
    BY <1>1, TimingAssumption DEF SMInv, SMTypeOK, CooldownOver, ZeroTime
  <1>5. QED
    BY <1>1, <1>2, <1>3, <1>4
    DEF SMInv, IncidentIffActive, UpdateNotMissed, StartedByViolation, peakDoubled

-----------------------------------------------------------------------------
(* The theorems.                                                           *)

\* Every step preserves the invariant.
LEMMA NextInv == SMInv /\ [SMNext]_smVars => SMInv'
  <1> SUFFICES ASSUME SMInv, [SMNext]_smVars PROVE SMInv'
    OBVIOUS
  <1>1. CASE SMTick
    BY <1>1, TickInv
  <1>2. ASSUME NEW k \in Keys, NEW in \in Input, SMStep(k, in)
        PROVE  SMInv'
    BY <1>2, StepIdleInv, StepStartInv, StepViolatingInv, StepGraceInv,
       StepEndInv, StepCooldownInv DEF SMStep, Step
  <1>3. CASE UNCHANGED smVars
    BY <1>3 DEF smVars, SMInv, SMTypeOK, IncidentIffActive, UpdateNotMissed,
                GraceCounted, CooldownOver, StartedByViolation, peakDoubled
  <1>4. QED
    BY <1>1, <1>2, <1>3 DEF SMNext

\* The inductive invariant holds in every reachable state.
THEOREM Invariance == SMSpec => []SMInv
  BY InitInv, NextInv, PTL DEF SMSpec

\* Between two calls of Step the types hold, exactly the active state has an
\* incident (so Step never dereferences nil), and the grace counter never runs
\* ahead of the time since the last violation.
THEOREM MachinesSafe == SMSpec => []SMSafe
  BY Invariance, PTL DEF SMInv, SMSafe

\* The single UPDATED of an incident is emitted as soon as it is due.
THEOREM UpdateIsNotMissed == SMSpec => []UpdateNotMissed
  BY Invariance, PTL DEF SMInv

-----------------------------------------------------------------------------
(* The state machines implement the promise of IncidentLifecycle.          *)

\* The initial states map to the initial state.
LEMMA RefinesInit == SMInit => Lifecycle!LifecycleInit
  BY DEF SMInit, Lifecycle!LifecycleInit, Lifecycle!Never, ZeroTime

\* A tick is a Pass.
LEMMA RefinesTick ==
  ASSUME SMInv, SMTick
  PROVE  Lifecycle!Pass
  BY TimingAssumption DEF SMTick, Lifecycle!Pass, SMInv, SMTypeOK

\* A branch that opens, updates and ends nothing is an Observe.
LEMMA RefinesObserve ==
  ASSUME SMInv, NEW k \in Keys, NEW in \in Input, SMStep(k, in),
         cooldownUntil' = cooldownUntil,
         \A l \in Keys : /\ state'[l] = "active" <=> state[l] = "active"
                         /\ inc'[l].updateEmitted = inc[l].updateEmitted
  PROVE  Lifecycle!Observe(k)
  BY DEF SMStep, Step, Lifecycle!Observe

\* StepStart is a Start: CooldownOver gives its guard.
LEMMA RefinesStart ==
  ASSUME SMInv, NEW k \in Keys, NEW in \in Input, SMStep(k, in), StepStart(k, in)
  PROVE  Lifecycle!Start(k)
  <1>1. /\ state[k] = "idle"
        /\ cooldownUntil[k] # ZeroTime => now > cooldownUntil[k]
        /\ cooldownUntil[k] \in Nat \cup {ZeroTime}
        /\ now \in Nat
        /\ lastViolation' = [lastViolation EXCEPT ![k] = now]
    BY DEF SMInv, SMTypeOK, CooldownOver, StepStart, SMStep, Step
  <1>2. /\ state' = [state EXCEPT ![k] = "active"]
        /\ inc' = [inc EXCEPT ![k] = NewIncident(in)]
        /\ ~NewIncident(in).updateEmitted
        /\ cooldownUntil' = cooldownUntil
        /\ now' = now
    BY DEF StepStart, SMStep, NewIncident
  <1>3. state \in [Keys -> {"idle", "active", "cooldown"}]
        /\ DOMAIN inc = Keys
    BY DEF SMInv, SMTypeOK
  <1>4. /\ state'[k] = "active" /\ ~inc'[k].updateEmitted
        /\ \A l \in Keys \ {k} : state'[l] = state[l] /\ inc'[l] = inc[l]
    BY <1>2, <1>3
  <1> DEFINE Phase(st, i) == [l \in Keys |-> IF st[l] # "active" THEN "closed"
                               ELSE IF i[l].updateEmitted THEN "updated" ELSE "open"]
             EndedAt(c) == [l \in Keys |-> IF c[l] = ZeroTime THEN ZeroTime
                                           ELSE c[l] - CooldownAfterEnd]
  <1>5. Phase(state, inc)[k] = "closed"
    BY <1>1
  <1>6. Phase(state', inc') = [Phase(state, inc) EXCEPT ![k] = "open"]
    BY <1>4
  <1>7. \/ EndedAt(cooldownUntil)[k] = ZeroTime
        \/ now > EndedAt(cooldownUntil)[k] + CooldownAfterEnd
    BY <1>1, TimingAssumption DEF ZeroTime
  <1>8. EndedAt(cooldownUntil') = EndedAt(cooldownUntil)
    BY <1>2
  <1>9. QED
    BY <1>1, <1>2, <1>5, <1>6, <1>7, <1>8 DEF Lifecycle!Start, Lifecycle!Never, ZeroTime

\* StepEnd is an End: GraceCounted gives its guard.
LEMMA RefinesEnd ==
  ASSUME SMInv, NEW k \in Keys, NEW in \in Input, SMStep(k, in), StepEnd(k, in)
  PROVE  Lifecycle!End(k)
  <1>1. inc[k] \in Incident
    BY ActiveHasIncident DEF SMInv, StepEnd
  <1>2. /\ lastViolation[k] \in Nat /\ now \in Nat
        /\ lastViolation[k] + inc[k].noViolationTicks <= now - 1
        /\ inc[k].noViolationTicks + 1 >= graceTicks(k)
        /\ inc[k].noViolationTicks \in Nat
        /\ graceTicks(k) \in Nat
    BY <1>1, QuietIncident, StepFrame, GraceTicksPositive
    DEF SMInv, SMTypeOK, GraceCounted, StartedByViolation, StepEnd
  <1>3. now - lastViolation[k] >= graceTicks(k)
    BY <1>2
  <1>4. /\ lastViolation' = lastViolation
        /\ now' = now
        /\ cooldownUntil' = [cooldownUntil EXCEPT ![k] = now + CooldownAfterEnd]
        /\ state[k] = "active" /\ state'[k] = "cooldown"
        /\ cooldownUntil'[k] = now + CooldownAfterEnd
        /\ \A l \in Keys \ {k} : /\ state'[l] = state[l] /\ inc'[l] = inc[l]
                                 /\ cooldownUntil'[l] = cooldownUntil[l]
    BY DEF StepEnd, SMStep, Step, SMInv, SMTypeOK
  <1>5. /\ cooldownUntil'[k] # ZeroTime
        /\ cooldownUntil'[k] - CooldownAfterEnd = now
    BY <1>2, <1>4, TimingAssumption DEF ZeroTime
  <1> DEFINE Phase(st, i) == [l \in Keys |-> IF st[l] # "active" THEN "closed"
                               ELSE IF i[l].updateEmitted THEN "updated" ELSE "open"]
             EndedAt(c) == [l \in Keys |-> IF c[l] = ZeroTime THEN ZeroTime
                                           ELSE c[l] - CooldownAfterEnd]
  <1>6. Phase(state, inc)[k] \in {"open", "updated"}
    BY <1>4
  <1>7. Phase(state', inc') = [Phase(state, inc) EXCEPT ![k] = "closed"]
    BY <1>4
  <1>8. EndedAt(cooldownUntil') = [EndedAt(cooldownUntil) EXCEPT ![k] = now]
    <2>1. EndedAt(cooldownUntil')[k] = now
      BY <1>5
    <2>2. \A l \in Keys \ {k} :
            EndedAt(cooldownUntil')[l] = EndedAt(cooldownUntil)[l]
      BY <1>4
    <2> HIDE <1>4, <1>5
    <2>3. QED
      BY <2>1, <2>2
  <1>9. QED
    BY <1>3, <1>4, <1>6, <1>7, <1>8 DEF Lifecycle!End

\* StepViolating is an Update when the update is due, else an Observe.
LEMMA RefinesViolating ==
  ASSUME SMInv, NEW k \in Keys, NEW in \in Input, SMStep(k, in),
         StepViolating(k, in)
  PROVE  Lifecycle!Update(k) \/ Lifecycle!Observe(k)
  <1>1. inc[k] \in Incident
    BY ActiveHasIncident DEF SMInv, StepViolating
  <1>2. /\ Violated(inc[k], in) \in Incident
        /\ Violated(inc[k], in).updateEmitted = inc[k].updateEmitted
    BY <1>1, ViolatedIncident, RaisePeakType DEF Violated, Incident, Input
  <1>3. PICK due \in BOOLEAN :
           /\ due => ~inc[k].updateEmitted
           /\ inc' = [inc EXCEPT ![k] =
                        [Violated(inc[k], in) EXCEPT !.updateEmitted = @ \/ due]]
    BY <1>2 DEF StepViolating
  <1>4. inc[k].updateEmitted \in BOOLEAN /\ DOMAIN inc = Keys
    BY <1>1 DEF Incident, SMInv, SMTypeOK
  <1>5. /\ inc'[k].updateEmitted = (inc[k].updateEmitted \/ due)
        /\ \A l \in Keys \ {k} : inc'[l] = inc[l]
    BY <1>2, <1>3, <1>4 DEF Incident
  <1>6. /\ state' = state /\ state[k] = "active" /\ now' = now
        /\ cooldownUntil' = cooldownUntil
        /\ lastViolation' = [lastViolation EXCEPT ![k] = now]
    BY DEF StepViolating, SMStep, Step
  <1>7. CASE due
    BY <1>3, <1>5, <1>6, <1>7 DEF Lifecycle!Update
  <1>8. CASE ~due
    BY <1>4, <1>5, <1>6, <1>8, RefinesObserve
  <1>9. QED
    BY <1>7, <1>8

\* Every step maps to a step of the lifecycle or to a stutter.
LEMMA RefinesNext ==
  SMInv /\ [SMNext]_smVars
    => [Lifecycle!LifecycleNext]_(Lifecycle!lifecycleVars)
  <1> SUFFICES ASSUME SMInv, [SMNext]_smVars
               PROVE  [Lifecycle!LifecycleNext]_(Lifecycle!lifecycleVars)
    OBVIOUS
  <1>1. CASE SMTick
    BY <1>1, RefinesTick DEF Lifecycle!LifecycleNext
  <1>2. ASSUME NEW k \in Keys, NEW in \in Input, SMStep(k, in)
        PROVE  Lifecycle!LifecycleNext
    <2>1. CASE StepIdle(k, in)
      BY <1>2, <2>1, RefinesObserve DEF StepIdle, Lifecycle!LifecycleNext
    <2>2. CASE StepStart(k, in)
      BY <1>2, <2>2, RefinesStart DEF Lifecycle!LifecycleNext
    <2>3. CASE StepViolating(k, in)
      BY <1>2, <2>3, RefinesViolating DEF Lifecycle!LifecycleNext
    <2>4. CASE StepGrace(k, in)
      <3>1. inc[k] \in Incident
        BY <2>4, ActiveHasIncident DEF SMInv, StepGrace
      <3>2. Quiet(inc[k], in).updateEmitted = inc[k].updateEmitted
        BY <3>1 DEF Quiet, Incident
      <3>3. \A l \in Keys : inc'[l].updateEmitted = inc[l].updateEmitted
        BY <2>4, <3>2 DEF StepGrace, SMInv, SMTypeOK
      <3>4. QED
        BY <1>2, <2>4, <3>3, RefinesObserve DEF StepGrace, Lifecycle!LifecycleNext
    <2>5. CASE StepEnd(k, in)
      BY <1>2, <2>5, RefinesEnd DEF Lifecycle!LifecycleNext
    <2>6. CASE StepCooldown(k, in)
      BY <1>2, <2>6, RefinesObserve
      DEF StepCooldown, Lifecycle!LifecycleNext, SMInv, SMTypeOK
    <2>7. QED
      BY <1>2, <2>1, <2>2, <2>3, <2>4, <2>5, <2>6 DEF SMStep, Step
  <1>3. CASE UNCHANGED smVars
    BY <1>3 DEF smVars, Lifecycle!lifecycleVars
  <1>4. QED
    BY <1>1, <1>2, <1>3 DEF SMNext

\* Per key: started, at most one update, ended only after a full grace period
\* without violation, and quiet for the whole cooldown (Step of state.go).
THEOREM Implementation == SMSpec => ImplementsLifecycle
  BY RefinesInit, RefinesNext, Invariance, PTL
  DEF SMSpec, ImplementsLifecycle, Lifecycle!LifecycleSpec

=============================================================================
