--------------------------- MODULE AlertPipeline ---------------------------
(***************************************************************************)
(* From the detector to Postgres (cmd/mitigador/serve.go, internal/alert/  *)
(* bus.go, internal/incident): the engine sends events without blocking on *)
(* the attackEvents channel, the bus fans each one out without blocking to *)
(* one buffered channel per sink, and the incident recorder writes them to *)
(* the incidents and attack_updates tables, one transaction per event.     *)
(* The daemon may be shut down (its context is canceled), may crash, and   *)
(* is restarted; only the database survives.                               *)
(*                                                                         *)
(* The detector is reduced to the order of its events per key: started,    *)
(* at most one updated, ended. Timing, peaks and scores are left out.      *)
(***************************************************************************)
EXTENDS Integers, Sequences, FiniteSets

CONSTANTS
  Keys,         \* (host, vector) pairs
  Subs,         \* the subscribers of the bus, in the order they subscribed
  Recorder,     \* the one of them that is the incident recorder
  InCap,        \* capacity of attackEvents (256)
  SubCap,       \* perSinkBuffer (256)
  MaxIncidents, \* bound on the incident ids drawn
  MaxStarts     \* bound on the number of times the daemon is started

Sinks == {Subs[i] : i \in DOMAIN Subs}

ASSUME PipelineAssumption ==
  /\ Subs \in Seq(Sinks)
  /\ \A i, j \in DOMAIN Subs : Subs[i] = Subs[j] => i = j
  /\ Recorder \in Sinks
  /\ InCap \in Nat \ {0} /\ SubCap \in Nat \ {0}
  /\ MaxIncidents \in Nat /\ MaxStarts \in Nat \ {0}

VARIABLES
  process,       \* "running", "stopping" (context canceled) or "down"
  starts,        \* number of starts so far
  epoch,         \* history: ids drawn before the last start
  ids,           \* number of incident ids drawn so far
  det,           \* [Keys -> the detector's open incident, or NoIncident]
  engineUp,      \* Engine.Run has not returned
  attackEvents,  \* the channel from the engine to the bus
  bus,           \* [pc, ev, todo] of Bus.Run
  sub,           \* [Sinks -> the sink's channel]
  rec,           \* [pc, ev, dead] of Recorder.Run
  row,           \* [ids -> the incidents row: "none", "open", "ended", "orphan"]
  updates,       \* [ids -> the kinds of its attack_updates rows, in order]
  emitted,       \* history: [ids -> the states the detector went through]
  got,           \* history: [Sinks -> [ids -> states taken by the sink]];
                 \* the recorder's are in updates
  lost           \* history: ids an event of which was dropped on its way to
                 \* the recorder or failed to be written

processVars == <<process, starts, epoch>>
detectorVars == <<ids, det, engineUp, emitted>>
dbVars == <<row, updates>>
vars == <<processVars, detectorVars, attackEvents, bus, sub, rec, dbVars, got,
          lost>>

IDs == 1 .. MaxIncidents
States == {"started", "updated", "ended"}
Event == [id : IDs, state : States]
NoIncident == [id |-> 0, updated |-> FALSE]
NoEvent == [id |-> 0, state |-> "none"]

IdleBus == [pc |-> "select", ev |-> NoEvent, todo |-> <<>>]
IdleRecorder == [pc |-> "select", ev |-> NoEvent, dead |-> FALSE]

-----------------------------------------------------------------------------
(* The events of one incident on their way to the recorder, oldest first.  *)

StatesOf(q, id) ==
  LET upTo[n \in 0 .. Len(q)] ==
        IF n = 0 THEN <<>>
        ELSE IF q[n].id = id THEN Append(upTo[n - 1], q[n].state) ELSE upTo[n - 1]
  IN  upTo[Len(q)]

InFlight(id) ==
  LET written == IF rec.ev = NoEvent THEN <<>> ELSE <<rec.ev>>
      fanned == IF \E i \in DOMAIN bus.todo : bus.todo[i] = Recorder
                THEN <<bus.ev>> ELSE <<>>
  IN  StatesOf(written \o sub[Recorder] \o fanned \o attackEvents, id)

InFlightIDs == {id \in IDs : InFlight(id) # <<>>}

-----------------------------------------------------------------------------
(* The detector: Engine.evalHost's non-blocking send.                      *)

\* Mutant: a full channel loses its oldest event instead of the new one.
EmitDropOldest(id, st) ==
  /\ engineUp
  /\ emitted' = [emitted EXCEPT ![id] = Append(@, st)]
  /\ attackEvents' =
       Append(IF Len(attackEvents) < InCap THEN attackEvents ELSE Tail(attackEvents),
              [id |-> id, state |-> st])
  /\ lost' = IF Len(attackEvents) < InCap THEN lost ELSE lost \cup {id}
  /\ UNCHANGED <<processVars, engineUp, bus, sub, rec, dbVars, got>>

Emit(id, st) ==
  /\ engineUp
  /\ emitted' = [emitted EXCEPT ![id] = Append(@, st)]
  /\ IF Len(attackEvents) < InCap
     THEN /\ attackEvents' = Append(attackEvents, [id |-> id, state |-> st])
          /\ lost' = lost
     ELSE /\ attackEvents' = attackEvents
          /\ lost' = lost \cup {id}
  /\ UNCHANGED <<processVars, engineUp, bus, sub, rec, dbVars, got>>

DetectStart(k) ==
  /\ det[k] = NoIncident
  /\ ids < MaxIncidents
  /\ ids' = ids + 1
  /\ det' = [det EXCEPT ![k] = [id |-> ids + 1, updated |-> FALSE]]
  /\ Emit(ids + 1, "started")

DetectUpdate(k) ==
  /\ det[k] # NoIncident /\ ~det[k].updated
  /\ det' = [det EXCEPT ![k].updated = TRUE]
  /\ Emit(det[k].id, "updated")
  /\ UNCHANGED ids

\* Mutant: the end carries the id of the latest incident.
DetectEndLatest(k) ==
  /\ det[k] # NoIncident
  /\ det' = [det EXCEPT ![k] = NoIncident]
  /\ Emit(ids, "ended")
  /\ UNCHANGED ids

DetectEnd(k) ==
  /\ det[k] # NoIncident
  /\ det' = [det EXCEPT ![k] = NoIncident]
  /\ Emit(det[k].id, "ended")
  /\ UNCHANGED ids

\* Engine.Run returns on a canceled context; until its select picks that
\* branch it may still handle a tick.
EngineDone ==
  /\ process = "stopping" /\ engineUp
  /\ engineUp' = FALSE
  /\ UNCHANGED <<processVars, ids, det, attackEvents, bus, sub, rec, dbVars,
                 emitted, got, lost>>

-----------------------------------------------------------------------------
(* Bus.Run.                                                                *)

BusTake ==
  /\ bus.pc = "select"
  /\ attackEvents # <<>>
  /\ bus' = [pc |-> "fan", ev |-> Head(attackEvents), todo |-> Subs]
  /\ attackEvents' = Tail(attackEvents)
  /\ UNCHANGED <<processVars, detectorVars, sub, rec, dbVars, got, lost>>

\* Mutant: the send to a subscriber blocks while its channel is full.
BusFanBlocking(s) ==
  /\ bus.todo # <<>> /\ s = Head(bus.todo)
  /\ Len(sub[s]) < SubCap
  /\ sub' = [sub EXCEPT ![s] = Append(@, bus.ev)]
  /\ bus' = IF Len(bus.todo) = 1 THEN IdleBus ELSE [bus EXCEPT !.todo = Tail(@)]
  /\ UNCHANGED <<processVars, detectorVars, attackEvents, rec, dbVars, got, lost>>

\* Mutant: the send to a subscriber ignores the capacity.
BusFanUnbounded(s) ==
  /\ bus.todo # <<>> /\ s = Head(bus.todo)
  /\ sub' = [sub EXCEPT ![s] = Append(@, bus.ev)]
  /\ bus' = IF Len(bus.todo) = 1 THEN IdleBus ELSE [bus EXCEPT !.todo = Tail(@)]
  /\ UNCHANGED <<processVars, detectorVars, attackEvents, rec, dbVars, got, lost>>

\* The non-blocking send to one subscriber.
BusFan(s) ==
  /\ bus.todo # <<>> /\ s = Head(bus.todo)
  /\ IF Len(sub[s]) < SubCap
     THEN /\ sub' = [sub EXCEPT ![s] = Append(@, bus.ev)]
          /\ lost' = lost
     ELSE /\ sub' = sub
          /\ lost' = IF s = Recorder THEN lost \cup {bus.ev.id} ELSE lost
  /\ bus' = IF Len(bus.todo) = 1 THEN IdleBus ELSE [bus EXCEPT !.todo = Tail(@)]
  /\ UNCHANGED <<processVars, detectorVars, attackEvents, rec, dbVars, got>>

\* The canceled context: return at once and close the subscriber channels.
\* Nothing that is still in attackEvents is read any more.
BusDone ==
  /\ process = "stopping"
  /\ bus.pc = "select"
  /\ bus' = [IdleBus EXCEPT !.pc = "stopped"]
  /\ UNCHANGED <<processVars, detectorVars, attackEvents, sub, rec, dbVars,
                 got, lost>>

\* Mutant: a sink puts the event back after a failed attempt to handle it.
SinkTakeRequeue(s) ==
  /\ s # Recorder
  /\ process # "down"
  /\ sub[s] # <<>>
  /\ LET e == Head(sub[s])
     IN  \/ /\ sub' = [sub EXCEPT ![s] = Tail(@)]
            /\ got' = [got EXCEPT ![s][e.id] = Append(@, e.state)]
         \/ /\ sub' = [sub EXCEPT ![s] = Append(Tail(@), e)]
            /\ got' = got
  /\ UNCHANGED <<processVars, detectorVars, attackEvents, bus, rec, dbVars,
                 lost>>

\* The other sinks take their events at their own pace.
SinkTake(s) ==
  /\ s # Recorder
  /\ process # "down"
  /\ sub[s] # <<>>
  /\ sub' = [sub EXCEPT ![s] = Tail(@)]
  /\ LET e == Head(sub[s])
     IN  got' = [got EXCEPT ![s][e.id] = Append(@, e.state)]
  /\ UNCHANGED <<processVars, detectorVars, attackEvents, bus, rec, dbVars,
                 lost>>

-----------------------------------------------------------------------------
(* Recorder.Run. Its select also reads zero events from the closed channel *)
(* of a stopped bus; handle only warns about them, so they are left out.   *)

Take(from, to, isDead) ==
  /\ rec.pc = from
  /\ sub[Recorder] # <<>>
  /\ rec' = [pc |-> to, ev |-> Head(sub[Recorder]), dead |-> isDead]
  /\ sub' = [sub EXCEPT ![Recorder] = Tail(@)]
  /\ UNCHANGED <<processVars, detectorVars, attackEvents, bus, dbVars, got, lost>>

\* In the select, a canceled context and a waiting event are both ready and
\* Go picks either; the event is then handled with the dead context.
RecTake == Take("select", "handle", process = "stopping")

RecDone ==
  /\ process = "stopping"
  /\ rec.pc = "select"
  /\ rec' = [rec EXCEPT !.pc = "drain"]
  /\ UNCHANGED <<processVars, detectorVars, attackEvents, bus, sub, dbVars,
                 got, lost>>

RecDrainTake == Take("drain", "drainHandle", FALSE)

\* Nothing buffered: the drain is complete.
RecStop ==
  /\ rec.pc = "drain" /\ sub[Recorder] = <<>>
  /\ rec' = [rec EXCEPT !.pc = "stopped"]
  /\ UNCHANGED <<processVars, detectorVars, attackEvents, bus, sub, dbVars,
                 got, lost>>

\* The two seconds are over.
RecTimeout ==
  /\ rec.pc = "drain"
  /\ rec' = [rec EXCEPT !.pc = "timedOut"]
  /\ UNCHANGED <<processVars, detectorVars, attackEvents, bus, sub, dbVars,
                 got, lost>>

\* Mutant: no foreign key on attack_updates.
AcceptedAny(e) == e \in Event

\* Store.Create, Update and End: what their transaction does to the tables.
\* attack_updates.incident_id references incidents, so Update and End fail as
\* a whole when the incident has no row.
Accepted(e) == e.state = "started" \/ row[e.id] # "none"

Kind(st) == IF st = "updated" THEN "update" ELSE st

Written(e) ==
  /\ updates' = [updates EXCEPT ![e.id] = Append(@, Kind(e.state))]
  /\ row' = CASE e.state = "started" /\ row[e.id] = "none" ->
                   [row EXCEPT ![e.id] = "open"]
              [] e.state = "ended" -> [row EXCEPT ![e.id] = "ended"]
              [] OTHER -> row

RecAfter ==
  [IdleRecorder EXCEPT !.pc = IF rec.pc = "handle" THEN "select" ELSE "drain"]

\* The transaction commits; impossible when it began on a dead context.
RecCommit ==
  /\ rec.pc \in {"handle", "drainHandle"}
  /\ ~rec.dead
  /\ Accepted(rec.ev)
  /\ Written(rec.ev)
  /\ rec' = RecAfter
  /\ UNCHANGED <<processVars, detectorVars, attackEvents, bus, sub, got, lost>>

\* Mutant: a failed write is retried until it succeeds.
RecFailRetry ==
  /\ rec.pc \in {"handle", "drainHandle"}
  /\ lost' = lost \cup {rec.ev.id}
  /\ UNCHANGED <<processVars, detectorVars, attackEvents, bus, sub, rec, dbVars,
                 got>>

\* The transaction fails and is rolled back; the error is only logged. Outside
\* of drain it fails at the latest when the shutdown cancels its context.
RecFail ==
  /\ rec.pc \in {"handle", "drainHandle"}
  /\ rec' = RecAfter
  /\ lost' = lost \cup {rec.ev.id}
  /\ UNCHANGED <<processVars, detectorVars, attackEvents, bus, sub, dbVars, got>>

-----------------------------------------------------------------------------
(* The process.                                                            *)

Shutdown ==
  /\ process = "running"
  /\ process' = "stopping"
  /\ UNCHANGED <<starts, epoch, detectorVars, attackEvents, bus, sub, rec, dbVars, got,
                 lost>>

\* What was only in memory is gone.
Gone ==
  /\ process' = "down"
  /\ det' = [k \in Keys |-> NoIncident]
  /\ engineUp' = FALSE
  /\ attackEvents' = <<>>
  /\ bus' = [IdleBus EXCEPT !.pc = "stopped"]
  /\ sub' = [s \in Sinks |-> <<>>]
  /\ rec' = [IdleRecorder EXCEPT !.pc = "stopped"]
  /\ lost' = lost \cup InFlightIDs
  /\ UNCHANGED <<starts, epoch, ids, dbVars, emitted, got>>

\* g.Wait returns when every goroutine has.
Exit ==
  /\ process = "stopping"
  /\ ~engineUp /\ bus.pc = "stopped" /\ rec.pc \in {"stopped", "timedOut"}
  /\ Gone

Crash == process # "down" /\ Gone

\* Mutant: CloseOrphans without "ended_at IS NULL".
StartUpClosingAll ==
  /\ process = "down"
  /\ starts < MaxStarts
  /\ starts' = starts + 1
  /\ epoch' = ids
  /\ process' = "running"
  /\ engineUp' = TRUE
  /\ bus' = IdleBus
  /\ rec' = IdleRecorder
  /\ \E oldest \in 0 .. MaxIncidents :
       row' = [id \in IDs |-> IF row[id] # "none" /\ id <= oldest
                              THEN "orphan" ELSE row[id]]
  /\ UNCHANGED <<ids, det, attackEvents, sub, updates, emitted, got, lost>>

\* serve: CloseOrphans (open rows created more than 24 h ago, here those up to
\* some id), then new channels and goroutines.
StartUp ==
  /\ process = "down"
  /\ starts < MaxStarts
  /\ starts' = starts + 1
  /\ epoch' = ids
  /\ process' = "running"
  /\ engineUp' = TRUE
  /\ bus' = IdleBus
  /\ rec' = IdleRecorder
  /\ \E oldest \in 0 .. MaxIncidents :
       row' = [id \in IDs |-> IF row[id] = "open" /\ id <= oldest
                              THEN "orphan" ELSE row[id]]
  /\ UNCHANGED <<ids, det, attackEvents, sub, updates, emitted, got, lost>>

-----------------------------------------------------------------------------
Init ==
  /\ process = "running" /\ starts = 1 /\ epoch = 0
  /\ ids = 0 /\ det = [k \in Keys |-> NoIncident] /\ engineUp = TRUE
  /\ attackEvents = <<>> /\ bus = IdleBus /\ rec = IdleRecorder
  /\ sub = [s \in Sinks |-> <<>>]
  /\ row = [id \in IDs |-> "none"]
  /\ updates = [id \in IDs |-> <<>>]
  /\ emitted = [id \in IDs |-> <<>>]
  /\ got = [s \in Sinks |-> [id \in IDs |-> <<>>]]
  /\ lost = {}

Detector == \E k \in Keys : DetectStart(k) \/ DetectUpdate(k) \/ DetectEnd(k)
Bus == BusTake \/ (\E s \in Sinks : BusFan(s)) \/ BusDone
RecorderRun == RecTake \/ RecDone \/ RecDrainTake \/ RecStop \/ RecTimeout
               \/ RecCommit \/ RecFail
Process == Shutdown \/ Exit \/ Crash \/ StartUp

Next ==
  \/ Detector \/ EngineDone
  \/ Bus \/ (\E s \in Sinks : SinkTake(s))
  \/ RecorderRun
  \/ Process

Spec == Init /\ [][Next]_vars

\* Every goroutine keeps running (the Go scheduler is fair); the detector need
\* not find attacks, and nobody need shut the daemon down or restart it.
Fairness ==
  /\ WF_vars(EngineDone) /\ WF_vars(Bus) /\ WF_vars(RecorderRun) /\ WF_vars(Exit)

FairSpec == Spec /\ Fairness

-----------------------------------------------------------------------------
(* Properties.                                                             *)

TypeOK ==
  /\ process \in {"running", "stopping", "down"}
  /\ starts \in 1 .. MaxStarts
  /\ ids \in 0 .. MaxIncidents
  /\ epoch \in 0 .. ids
  /\ det \in [Keys -> [id : 0 .. MaxIncidents, updated : BOOLEAN]]
  /\ engineUp \in BOOLEAN
  /\ attackEvents \in Seq(Event) /\ Len(attackEvents) <= InCap
  /\ bus \in [pc : {"select", "fan", "stopped"}, ev : Event \cup {NoEvent},
              todo : Seq(Sinks)]
  /\ sub \in [Sinks -> Seq(Event)] /\ \A s \in Sinks : Len(sub[s]) <= SubCap
  /\ rec \in [pc : {"select", "handle", "drain", "drainHandle", "stopped",
                     "timedOut"},
              ev : Event \cup {NoEvent}, dead : BOOLEAN]
  /\ row \in [IDs -> {"none", "open", "ended", "orphan"}]
  /\ updates \in [IDs -> Seq({"started", "update", "ended"})]
  /\ emitted \in [IDs -> Seq(States)]
  /\ got \in [Sinks -> [IDs -> Seq(States)]]
  /\ lost \subseteq IDs

\* No silent loss: unless one of its events was dropped at a full channel,
\* failed to be written or was in memory when the process went away, what the
\* detector emitted for an incident is what the tables hold followed by what
\* is still in flight, in that order, each event once.
NoSilentLoss ==
  \A id \in IDs \ lost :
    emitted[id] =
      [i \in 1 .. Len(updates[id]) |->
         IF updates[id][i] = "update" THEN "updated" ELSE updates[id][i]]
      \o InFlight(id)

\* The tables agree with each other whatever was lost: an incident has a row
\* iff its first update row is 'started', and is ended iff its last is 'ended'.
TablesConsistent ==
  \A id \in IDs :
    LET u == updates[id]
    IN  /\ row[id] = "none" <=> u = <<>>
        /\ u # <<>> => u[1] = "started"
        /\ row[id] = "ended" <=> u # <<>> /\ u[Len(u)] = "ended"

\* What a reader of the tables relies on: bounded channels, well-formed rows, and
\* two tables that tell the same story (Create, Update, End, CloseOrphans).
PipelineSafe == TypeOK /\ TablesConsistent

\* A row that says "active" is the detector's open incident of some key, or
\* its end is in flight, or an event of it was lost, or the daemon has been
\* restarted since (its rows stay open until CloseOrphans finds them old).
OpenRowExplained ==
  \A id \in IDs :
    row[id] = "open" /\ id > epoch /\ process # "down" =>
      \/ \E k \in Keys : det[k].id = id
      \/ id \in lost
      \/ InFlight(id) # <<>>

Rank(st) == CASE st = "started" -> 1 [] st = "updated" -> 2 [] OTHER -> 3

Ordered(q) == \A i, j \in 1 .. Len(q) : i < j => Rank(q[i]) < Rank(q[j])

\* No sink ever sees an incident's events out of order or twice, whatever was
\* dropped for it or for another sink.
SinkOrder == \A s \in Sinks, id \in IDs : Ordered(got[s][id])

\* An incident that has been closed is never reopened or closed again, by a
\* late event, by a restart or by crash recovery.
ClosedIsFinal ==
  [][\A id \in IDs : row[id] \in {"ended", "orphan"} => row'[id] = row[id]]_vars

\* Every event that was accepted by attackEvents leaves the pipeline.
InFlightDrains ==
  \A id \in IDs : (InFlight(id) # <<>>) ~> (InFlight(id) = <<>>)

\* A shutdown terminates: "Shuts down cleanly on SIGINT/SIGTERM".
ShutdownTerminates == (process = "stopping") ~> (process # "stopping")
=============================================================================
