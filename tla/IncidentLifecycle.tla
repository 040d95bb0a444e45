-------------------------- MODULE IncidentLifecycle --------------------------
(***************************************************************************)
(* What the detector promises to everything downstream of it, per          *)
(* (host, vector) key: an incident is started, updated at most once, and   *)
(* ended; it ends only when a whole grace period has gone by since the     *)
(* last violating observation; and the same key stays quiet for more than  *)
(* Cooldown after an end (D-05, D-15 and D-16 of the phase-1 context, and  *)
(* the comments of internal/detect/state.go).                              *)
(*                                                                         *)
(* StateMachine, and the Engine that drives it, are shown to implement     *)
(* this specification.                                                     *)
(***************************************************************************)
EXTENDS Integers

CONSTANTS
  Keys,     \* the (host, vector) pairs
  Grace,    \* [Keys -> Nat]: quiet time required before an end
  Cooldown  \* quiet time required after an end

VARIABLES
  phase,    \* [Keys -> {"closed", "open", "updated"}]
  lastBad,  \* [Keys -> time of the last violating observation]
  endedAt,  \* [Keys -> time of the last end, or Never]
  time      \* the time of the current detection tick

lifecycleVars == <<phase, lastBad, endedAt, time>>

Never == -1

LifecycleInit ==
  /\ phase = [k \in Keys |-> "closed"]
  /\ lastBad = [k \in Keys |-> Never]
  /\ endedAt = [k \in Keys |-> Never]
  /\ time = 0

\* A violating observation opens an incident, unless the key is still cooling
\* down from the previous one.
Start(k) ==
  /\ phase[k] = "closed"
  /\ endedAt[k] = Never \/ time > endedAt[k] + Cooldown
  /\ phase' = [phase EXCEPT ![k] = "open"]
  /\ lastBad' = [lastBad EXCEPT ![k] = time]
  /\ UNCHANGED <<endedAt, time>>

\* The single update an incident may have.
Update(k) ==
  /\ phase[k] = "open"
  /\ phase' = [phase EXCEPT ![k] = "updated"]
  /\ lastBad' = [lastBad EXCEPT ![k] = time]
  /\ UNCHANGED <<endedAt, time>>

\* The end, only after a grace period without violation.
End(k) ==
  /\ phase[k] \in {"open", "updated"}
  /\ time - lastBad[k] >= Grace[k]
  /\ phase' = [phase EXCEPT ![k] = "closed"]
  /\ endedAt' = [endedAt EXCEPT ![k] = time]
  /\ UNCHANGED <<lastBad, time>>

\* An observation that raises no event.
Observe(k) ==
  /\ lastBad' \in {lastBad, [lastBad EXCEPT ![k] = time]}
  /\ UNCHANGED <<phase, endedAt, time>>

Pass ==
  /\ time' \in Nat
  /\ time' > time
  /\ UNCHANGED <<phase, lastBad, endedAt>>

LifecycleNext ==
  \/ Pass
  \/ \E k \in Keys : Start(k) \/ Update(k) \/ End(k) \/ Observe(k)

LifecycleSpec == LifecycleInit /\ [][LifecycleNext]_lifecycleVars
=============================================================================
