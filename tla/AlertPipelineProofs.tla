------------------------ MODULE AlertPipelineProofs ------------------------
(***************************************************************************)
(* Proofs about AlertPipeline, for any number of keys, sinks, incidents    *)
(* and restarts, and all capacities.                                       *)
(***************************************************************************)
EXTENDS AlertPipeline, SequenceTheorems, WellFoundedInduction, TLAPS

Elements(q) == {q[i] : i \in DOMAIN q}

\* Of two events of one incident, the first comes earlier in its life.
Earlier(a, b) == a.id = b.id => Rank(a.state) < Rank(b.state)

InOrder(q) == \A i, j \in DOMAIN q : i < j => Earlier(q[i], q[j])

Precede(A, B) == \A a \in A, b \in B : Earlier(a, b)

\* Where the events are on their way to sink s, the last place first: had by the
\* sink, in its channel, with the bus, in the channel of the engine.
Held == {e \in Event : \E i \in DOMAIN updates[e.id] : updates[e.id][i] = Kind(e.state)}
Writing == {rec.ev} \ {NoEvent}
Taken(s) == {e \in Event : \E i \in DOMAIN got[s][e.id] : got[s][e.id][i] = e.state}
Had(s) == IF s = Recorder THEN Held \cup Writing ELSE Taken(s)
Fanned(s) == {e \in {bus.ev} : \E i \in DOMAIN bus.todo : bus.todo[i] = s}
Coming(s) == Elements(sub[s]) \cup Fanned(s) \cup Elements(attackEvents)

\* The goroutines hold an event exactly where their code does.
AtWork ==
  /\ bus.pc = "fan" => bus.ev \in Event /\ bus.todo # <<>>
  /\ bus.pc # "fan" => bus.todo = <<>>
  /\ \A i, j \in DOMAIN bus.todo : bus.todo[i] = bus.todo[j] => i = j
  /\ rec.pc \in {"handle", "drainHandle"} => rec.ev \in Event
  /\ rec.pc \notin {"handle", "drainHandle"} => rec.ev = NoEvent

\* Open incidents are distinct and were drawn since the daemon started.
OpenIncidents ==
  /\ \A k \in Keys : det[k] # NoIncident => det[k].id \in epoch + 1 .. ids
  /\ \A k, l \in Keys : det[k] # NoIncident /\ det[k].id = det[l].id => k = l

\* What has been emitted is behind the detector: its next event is later.
Behind(e) ==
  /\ e.id <= ids
  /\ \A k \in Keys : det[k].id = e.id =>
       e.state # "ended" /\ (e.state = "updated" => det[k].updated)

\* The events on the way to a sink follow each other in the order of their
\* incident's life, from what the sink has had to what the detector will send.
Lined(s) ==
  /\ InOrder(sub[s])
  /\ Precede(Had(s), Coming(s))
  /\ Precede(Elements(sub[s]), Fanned(s) \cup Elements(attackEvents))
  /\ Precede(Fanned(s), Elements(attackEvents))
  /\ \A e \in Had(s) \cup Coming(s) : Behind(e)

InLine ==
  /\ \A s \in Sinks : Lined(s)
  /\ InOrder(attackEvents)
  /\ Precede(Held, Writing)

\* Only memory of this run of the daemon is on its way, none when it is down.
OfThisRun ==
  /\ \A s \in Sinks : \A e \in Coming(s) \cup Writing : e.id > epoch
  /\ process = "down" => /\ ~engineUp
                         /\ det = [k \in Keys |-> NoIncident]
                         /\ Writing = {}
                         /\ \A s \in Sinks : Coming(s) = {}

\* Crash recovery closes rows of former runs only.
OrphansAreOld == \A id \in IDs : row[id] = "orphan" => id <= epoch

PipelineInv ==
  /\ TypeOK /\ AtWork /\ OpenIncidents /\ InLine /\ OfThisRun
  /\ OrphansAreOld /\ TablesConsistent /\ SinkOrder

-----------------------------------------------------------------------------
(* Lemmas about the operators.                                             *)

\* The head of a channel is taken out of it, and what is left is in order and
\* after the head.
LEMMA TakeHead ==
  ASSUME NEW S, NEW q \in Seq(S), q # <<>>
  PROVE  /\ Head(q) \in S
         /\ Tail(q) \in Seq(S) /\ Len(Tail(q)) = Len(q) - 1
         /\ Elements(q) = {Head(q)} \cup Elements(Tail(q))
         /\ InOrder(q) => /\ InOrder(Tail(q))
                          /\ Precede({Head(q)}, Elements(Tail(q)))
  <1>1. /\ Len(q) \in Nat \ {0} /\ DOMAIN q = 1 .. Len(q)
        /\ Head(q) = q[1] /\ Head(q) \in S
        /\ Tail(q) \in Seq(S) /\ Len(Tail(q)) = Len(q) - 1
        /\ DOMAIN Tail(q) = 1 .. Len(q) - 1
        /\ \A i \in 1 .. Len(q) - 1 : Tail(q)[i] = q[i + 1]
    OBVIOUS
  <1>2. \A i \in DOMAIN Tail(q) : i \in Nat /\ i + 1 \in DOMAIN q /\ Tail(q)[i] = q[i + 1]
    BY <1>1
  <1>3. \A i \in DOMAIN q : i = 1 \/ (i - 1 \in DOMAIN Tail(q) /\ Tail(q)[i - 1] = q[i])
    BY <1>1
  <1>4. 1 \in DOMAIN q /\ \A i \in DOMAIN Tail(q) : 1 < i + 1
    BY <1>1
  <1>5. Elements(q) = {Head(q)} \cup Elements(Tail(q))
    <2>1. ASSUME NEW i \in DOMAIN q PROVE q[i] \in {Head(q)} \cup Elements(Tail(q))
      BY <1>1, <1>3 DEF Elements
    <2>2. Head(q) \in Elements(q) /\ Elements(Tail(q)) \subseteq Elements(q)
      BY <1>1, <1>2, <1>4 DEF Elements
    <2>3. Elements(q) \subseteq {Head(q)} \cup Elements(Tail(q))
      BY <2>1 DEF Elements
    <2>4. QED
      BY <2>2, <2>3
  <1>6. ASSUME InOrder(q) PROVE InOrder(Tail(q))
    <2>1. ASSUME NEW i \in DOMAIN Tail(q), NEW j \in DOMAIN Tail(q), i < j
          PROVE  i + 1 \in DOMAIN q /\ j + 1 \in DOMAIN q /\ i + 1 < j + 1
                 /\ Tail(q)[i] = q[i + 1] /\ Tail(q)[j] = q[j + 1]
      BY <1>2, <2>1
    <2>2. QED
      BY <1>6, <2>1 DEF InOrder
  <1>7. ASSUME InOrder(q), NEW e \in Elements(Tail(q))
        PROVE  Earlier(Head(q), e)
    <2>1. PICK i \in DOMAIN Tail(q) : e = Tail(q)[i]
      BY <1>7 DEF Elements
    <2>2. QED
      BY <1>1, <1>2, <1>4, <1>7, <2>1 DEF InOrder
  <1>8. QED
    BY <1>1, <1>5, <1>6, <1>7 DEF Precede

\* Putting something at the end of a channel adds it and nothing else, and keeps
\* the order if it is later than what is there.
LEMMA PutLast ==
  ASSUME NEW S, NEW q \in Seq(S), NEW x \in S
  PROVE  /\ Append(q, x) \in Seq(S) /\ Len(Append(q, x)) = Len(q) + 1
         /\ Elements(Append(q, x)) = Elements(q) \cup {x}
         /\ InOrder(q) /\ Precede(Elements(q), {x}) => InOrder(Append(q, x))
  <1>1. /\ Append(q, x) \in Seq(S) /\ Len(Append(q, x)) = Len(q) + 1
        /\ Len(q) \in Nat /\ DOMAIN q = 1 .. Len(q)
        /\ DOMAIN Append(q, x) = 1 .. Len(q) + 1
        /\ Append(q, x)[Len(q) + 1] = x
        /\ \A i \in 1 .. Len(q) : Append(q, x)[i] = q[i]
    OBVIOUS
  <1>2. Elements(Append(q, x)) = Elements(q) \cup {x}
    BY <1>1 DEF Elements
  <1>3. ASSUME InOrder(q), Precede(Elements(q), {x}),
               NEW i \in DOMAIN Append(q, x), NEW j \in DOMAIN Append(q, x), i < j
        PROVE  Earlier(Append(q, x)[i], Append(q, x)[j])
    <2>1. i \in DOMAIN q /\ Append(q, x)[i] = q[i]
      BY <1>1, <1>3
    <2>2. CASE j \in DOMAIN q
      BY <1>1, <1>3, <2>1, <2>2 DEF InOrder
    <2>3. CASE j = Len(q) + 1
      <3>1. q[i] \in Elements(q)
        BY <2>1 DEF Elements
      <3>2. QED
        BY <1>1, <1>3, <2>1, <2>3, <3>1 DEF Precede
    <2>4. QED
      BY <1>1, <2>2, <2>3
  <1>4. QED
    BY <1>1, <1>2, <1>3 DEF InOrder

\* The same of a channel of events.
LEMMA PutEvent ==
  ASSUME NEW q \in Seq(Event), NEW e \in Event
  PROVE  Elements(Append(q, e)) = Elements(q) \cup {e}
  <1>1. /\ Len(q) \in Nat /\ DOMAIN q = 1 .. Len(q)
        /\ DOMAIN Append(q, e) = 1 .. Len(q) + 1
        /\ Append(q, e)[Len(q) + 1] = e
        /\ \A i \in 1 .. Len(q) : Append(q, e)[i] = q[i]
    OBVIOUS
  <1>2. QED
    BY <1>1 DEF Elements

\* A channel holds what its type says.
LEMMA ElementsIn == ASSUME NEW S, NEW q \in Seq(S) PROVE Elements(q) \subseteq S
  <1>1. \A i \in DOMAIN q : q[i] \in S
    OBVIOUS
  <1>2. QED
    BY <1>1 DEF Elements

\* The empty channel.
LEMMA NothingThere ==
  ASSUME NEW S
  PROVE  <<>> \in Seq(S) /\ Elements(<<>>) = {} /\ InOrder(<<>>) /\ Len(<<>>) = 0
  BY DEF Elements, InOrder

\* The three states of an incident and their rows are told apart by their ranks.
LEMMA Ranks ==
  /\ Rank("started") = 1 /\ Rank("updated") = 2 /\ Rank("ended") = 3
  /\ Kind("started") = "started" /\ Kind("updated") = "update" /\ Kind("ended") = "ended"
  BY DEF Rank, Kind

-----------------------------------------------------------------------------
(* Types, and what the goroutines hold.                                    *)

\* The bus hands an event to each subscriber once: what is left to do after a
\* subscriber has had its turn are the others.
LEMMA FanLeft ==
  ASSUME TypeOK, AtWork, NEW t \in Sinks, bus.todo # <<>>, t = Head(bus.todo),
         bus' = IF Len(bus.todo) = 1 THEN IdleBus ELSE [bus EXCEPT !.todo = Tail(@)]
  PROVE  /\ bus.pc = "fan" /\ bus.ev \in Event
         /\ Fanned(t) = {bus.ev} /\ Fanned(t)' = {}
         /\ \A s \in Sinks \ {t} : Fanned(s)' = Fanned(s)
         /\ bus' \in [pc : {"select", "fan", "stopped"}, ev : Event \cup {NoEvent},
                      todo : Seq(Sinks)]
         /\ bus'.pc = "fan" => bus'.ev \in Event /\ bus'.todo # <<>>
         /\ bus'.pc # "fan" => bus'.todo = <<>>
         /\ \A i, j \in DOMAIN bus'.todo : bus'.todo[i] = bus'.todo[j] => i = j
  <1>1. bus.todo \in Seq(Sinks) /\ bus.pc = "fan" /\ bus.ev \in Event
        /\ bus = [pc |-> bus.pc, ev |-> bus.ev, todo |-> bus.todo]
    BY DEF TypeOK, AtWork
  <1> DEFINE S == Sinks
             q == bus.todo
  <1>2. q \in Seq(S) /\ q # <<>>
    BY <1>1
  <1> HIDE DEF S, q
  <1>3. /\ Len(q) \in Nat \ {0} /\ DOMAIN q = 1 .. Len(q) /\ Head(q) = q[1]
        /\ Tail(q) \in Seq(S) /\ DOMAIN Tail(q) = 1 .. Len(q) - 1
        /\ Len(Tail(q)) = Len(q) - 1
        /\ \A i \in 1 .. Len(q) - 1 : Tail(q)[i] = q[i + 1]
    BY <1>2
  <1>4. \A i, j \in DOMAIN q : q[i] = q[j] => i = j
    BY DEF AtWork, q
  <1>5. 1 \in DOMAIN q /\ q[1] = t
    BY <1>3 DEF q
  <1>6. Fanned(t) = {bus.ev}
    BY <1>5 DEF Fanned, q
  <1>7. CASE Len(q) = 1
    <2>1. bus' = IdleBus
      BY <1>7 DEF q
    <2>2. \A s \in Sinks : Fanned(s)' = {}
      BY <2>1 DEF Fanned, IdleBus
    <2>3. \A i \in DOMAIN q : i = 1
      BY <1>3, <1>7
    <2>4. \A s \in Sinks \ {t} : Fanned(s) = {}
      BY <1>5, <2>3 DEF Fanned, q
    <2>5. bus'.pc = "select" /\ bus'.ev = NoEvent /\ bus'.todo = <<>> /\ bus' = IdleBus
      BY <2>1 DEF IdleBus
    <2>6. IdleBus \in [pc : {"select", "fan", "stopped"}, ev : Event \cup {NoEvent},
                      todo : Seq(Sinks)]
      BY NothingThere DEF IdleBus
    <2>7. DOMAIN bus'.todo = {}
      BY <2>5
    <2>8. QED
      BY <1>1, <1>6, <2>2, <2>4, <2>5, <2>6, <2>7
  <1>8. CASE Len(q) # 1
    <2>1. bus' = [bus EXCEPT !.todo = Tail(q)]
      BY <1>8 DEF q
    <2>2. bus' = [pc |-> "fan", ev |-> bus.ev, todo |-> Tail(q)]
      BY <1>1, <2>1
    <2>3. \A i \in DOMAIN Tail(q) : i + 1 \in DOMAIN q /\ Tail(q)[i] = q[i + 1] /\ i + 1 # 1
                                    /\ i \in Nat
      BY <1>3
    <2>4. \A i \in DOMAIN q \ {1} : i - 1 \in DOMAIN Tail(q) /\ Tail(q)[i - 1] = q[i]
      BY <1>3
    <2>5. Fanned(t)' = {}
      BY <1>4, <1>5, <2>2, <2>3 DEF Fanned
    <2>6. ASSUME NEW s \in Sinks \ {t}
          PROVE  (\E i \in DOMAIN Tail(q) : Tail(q)[i] = s) <=> (\E i \in DOMAIN q : q[i] = s)
      BY <1>5, <2>3, <2>4
    <2>7. \A s \in Sinks \ {t} : Fanned(s)' = Fanned(s)
      BY <2>2, <2>6 DEF Fanned, q
    <2>8. ASSUME NEW i \in DOMAIN Tail(q), NEW j \in DOMAIN Tail(q), Tail(q)[i] = Tail(q)[j]
          PROVE  i = j
      <3>1. i + 1 = j + 1
        BY <1>4, <2>3, <2>8
      <3>2. QED
        BY <2>3, <3>1
    <2>9. 1 \in DOMAIN Tail(q) /\ DOMAIN <<>> = {}
      BY <1>3, <1>8
    <2>10. Tail(q) # <<>>
      BY <2>9
    <2>11. PICK w \in Seq(Sinks) : w = Tail(q)
      BY <1>3 DEF S
    <2>12. bus' = [pc |-> "fan", ev |-> bus.ev, todo |-> w]
      BY <2>2, <2>11
    <2>13. bus'.pc = "fan" /\ bus'.todo = w /\ bus'.ev = bus.ev
      BY <2>12
    <2>14. PICK e \in Event : e = bus.ev
      BY <1>1
    <2>15. [pc |-> "fan", ev |-> e, todo |-> w]
             \in [pc : {"select", "fan", "stopped"}, ev : Event \cup {NoEvent},
                  todo : Seq(Sinks)]
      OBVIOUS
    <2>16. \A i, j \in DOMAIN bus'.todo : bus'.todo[i] = bus'.todo[j] => i = j
      <3>1. bus'.todo = Tail(q)
        BY <2>11, <2>13
      <3> HIDE DEF q
      <3>2. QED
        BY <2>8, <3>1
    <2>17. bus' \in [pc : {"select", "fan", "stopped"}, ev : Event \cup {NoEvent},
                    todo : Seq(Sinks)]
      BY <2>12, <2>14, <2>15
    <2>18. bus'.pc = "fan" /\ bus'.ev \in Event /\ bus'.todo # <<>>
      BY <1>1, <2>10, <2>11, <2>13
    <2>19. QED
      BY <1>1, <1>6, <2>5, <2>7, <2>16, <2>17, <2>18
  <1>9. QED
    BY <1>7, <1>8

\* What the engine's send changes keeps its type.
LEMMA EmitTyped ==
  ASSUME TypeOK, NEW id \in IDs, NEW st \in States, Emit(id, st)
  PROVE  /\ attackEvents' \in Seq(Event) /\ Len(attackEvents') <= InCap
         /\ emitted' \in [IDs -> Seq(States)]
         /\ lost' \subseteq IDs
  <1>1. PICK e \in Event : e = [id |-> id, state |-> st]
    BY DEF Event
  <1>2. /\ attackEvents \in Seq(Event) /\ Len(attackEvents) <= InCap
        /\ Len(attackEvents) \in Nat /\ InCap \in Nat
    BY PipelineAssumption DEF TypeOK
  <1>3. Append(attackEvents, e) \in Seq(Event)
        /\ Len(Append(attackEvents, e)) = Len(attackEvents) + 1
    BY <1>2, PutLast
  <1>4. attackEvents' \in Seq(Event) /\ Len(attackEvents') <= InCap
    <2>1. CASE Len(attackEvents) < InCap
      BY <1>1, <1>2, <1>3, <2>1 DEF Emit
    <2>2. CASE ~(Len(attackEvents) < InCap)
      BY <1>2, <2>2 DEF Emit
    <2>3. QED
      BY <2>1, <2>2
  <1>5. emitted' \in [IDs -> Seq(States)]
    <2>1. emitted[id] \in Seq(States)
      BY DEF TypeOK
    <2>2. Append(emitted[id], st) \in Seq(States)
      BY <2>1
    <2>3. QED
      BY <2>2 DEF TypeOK, Emit
  <1>6. lost' \subseteq IDs
    BY DEF TypeOK, Emit
  <1>7. QED
    BY <1>4, <1>5, <1>6

\* Every step keeps the types, and each goroutine's event with its place in the
\* code.
LEMMA TypeStep ==
  ASSUME TypeOK, AtWork, OpenIncidents, [Next]_vars PROVE TypeOK' /\ AtWork'
  <1>1. CASE UNCHANGED vars
    BY <1>1 DEF vars, processVars, detectorVars, dbVars, TypeOK, AtWork
  <1>2. ASSUME NEW k \in Keys, DetectStart(k) PROVE TypeOK' /\ AtWork'
    <2>1. ids + 1 \in IDs /\ ids \in Nat /\ "started" \in States
      BY <1>2, PipelineAssumption DEF DetectStart, IDs, States, TypeOK
    <2>2. /\ attackEvents' \in Seq(Event) /\ Len(attackEvents') <= InCap
          /\ emitted' \in [IDs -> Seq(States)] /\ lost' \subseteq IDs
      BY <1>2, <2>1, EmitTyped DEF DetectStart
    <2>3. /\ ids' \in 0 .. MaxIncidents /\ epoch' \in 0 .. ids'
          /\ det' \in [Keys -> [id : 0 .. MaxIncidents, updated : BOOLEAN]]
      BY <1>2, <2>1, PipelineAssumption DEF DetectStart, Emit, processVars, IDs, TypeOK
    <2>4. QED
      BY <1>2, <2>2, <2>3 DEF DetectStart, Emit, processVars, dbVars, TypeOK, AtWork
  <1>3. ASSUME NEW k \in Keys, DetectUpdate(k) PROVE TypeOK' /\ AtWork'
    <2>1. det[k].id \in IDs /\ "updated" \in States
      BY <1>3, PipelineAssumption DEF DetectUpdate, OpenIncidents, IDs, States, TypeOK
    <2>2. /\ attackEvents' \in Seq(Event) /\ Len(attackEvents') <= InCap
          /\ emitted' \in [IDs -> Seq(States)] /\ lost' \subseteq IDs
      BY <1>3, <2>1, EmitTyped DEF DetectUpdate
    <2>3. det' \in [Keys -> [id : 0 .. MaxIncidents, updated : BOOLEAN]]
      BY <1>3 DEF DetectUpdate, TypeOK
    <2>4. QED
      BY <1>3, <2>2, <2>3 DEF DetectUpdate, Emit, processVars, dbVars, TypeOK, AtWork
  <1>4. ASSUME NEW k \in Keys, DetectEnd(k) PROVE TypeOK' /\ AtWork'
    <2>1. det[k].id \in IDs /\ "ended" \in States
      BY <1>4, PipelineAssumption DEF DetectEnd, OpenIncidents, IDs, States, TypeOK
    <2>2. /\ attackEvents' \in Seq(Event) /\ Len(attackEvents') <= InCap
          /\ emitted' \in [IDs -> Seq(States)] /\ lost' \subseteq IDs
      BY <1>4, <2>1, EmitTyped DEF DetectEnd
    <2>3. det' \in [Keys -> [id : 0 .. MaxIncidents, updated : BOOLEAN]]
      BY <1>4, PipelineAssumption DEF DetectEnd, NoIncident, TypeOK
    <2>4. QED
      BY <1>4, <2>2, <2>3 DEF DetectEnd, Emit, processVars, dbVars, TypeOK, AtWork
  <1>5. CASE EngineDone
    BY <1>5 DEF EngineDone, processVars, dbVars, TypeOK, AtWork
  <1>6. CASE BusTake
    <2>1. /\ Head(attackEvents) \in Event /\ Tail(attackEvents) \in Seq(Event)
          /\ Len(Tail(attackEvents)) = Len(attackEvents) - 1
      BY <1>6, TakeHead DEF BusTake, TypeOK
    <2>2. Len(Tail(attackEvents)) <= InCap
      BY <2>1, PipelineAssumption DEF TypeOK
    <2>3. Subs \in Seq(Sinks) /\ Subs # <<>>
      BY PipelineAssumption DEF Sinks
    <2>4. PICK e \in Event : e = Head(attackEvents)
      BY <2>1
    <2>5. bus' = [pc |-> "fan", ev |-> e, todo |-> Subs]
      BY <1>6, <2>4 DEF BusTake
    <2>6. bus' \in [pc : {"select", "fan", "stopped"}, ev : Event \cup {NoEvent},
                    todo : Seq(Sinks)]
      BY <2>3, <2>5
    <2>7. TypeOK'
      BY <1>6, <2>1, <2>2, <2>6 DEF BusTake, processVars, detectorVars, dbVars, TypeOK
    <2>8. AtWork'
      BY <1>6, <2>3, <2>5, PipelineAssumption DEF BusTake, AtWork
    <2>9. QED
      BY <2>7, <2>8
  <1>7. ASSUME NEW t \in Sinks, BusFan(t) PROVE TypeOK' /\ AtWork'
    <2>1. /\ bus.pc = "fan" /\ bus.ev \in Event
          /\ bus' \in [pc : {"select", "fan", "stopped"}, ev : Event \cup {NoEvent},
                       todo : Seq(Sinks)]
          /\ bus'.pc = "fan" => bus'.ev \in Event /\ bus'.todo # <<>>
          /\ bus'.pc # "fan" => bus'.todo = <<>>
          /\ \A i, j \in DOMAIN bus'.todo : bus'.todo[i] = bus'.todo[j] => i = j
      BY <1>7, FanLeft DEF BusFan
    <2>2. sub[t] \in Seq(Event) /\ Len(sub[t]) <= SubCap /\ SubCap \in Nat
      BY PipelineAssumption DEF TypeOK
    <2>3. Append(sub[t], bus.ev) \in Seq(Event)
          /\ Len(Append(sub[t], bus.ev)) = Len(sub[t]) + 1 /\ Len(sub[t]) \in Nat
      BY <2>1, <2>2, PutLast
    <2>4. sub' \in [Sinks -> Seq(Event)] /\ \A s \in Sinks : Len(sub'[s]) <= SubCap
      <3>1. CASE Len(sub[t]) < SubCap
        <4>1. sub' = [sub EXCEPT ![t] = Append(sub[t], bus.ev)]
          BY <1>7, <3>1 DEF BusFan
        <4>2. QED
          BY <2>2, <2>3, <3>1, <4>1 DEF TypeOK
      <3>2. CASE ~(Len(sub[t]) < SubCap)
        BY <1>7, <3>2 DEF BusFan, TypeOK
      <3>3. QED
        BY <3>1, <3>2
    <2>5. lost' \subseteq IDs
      <3>1. bus.ev.id \in IDs
        BY <2>1 DEF Event
      <3>2. lost' = lost \/ lost' = lost \cup {bus.ev.id}
        BY <1>7 DEF BusFan
      <3>3. QED
        BY <3>1, <3>2 DEF TypeOK
    <2>6. TypeOK'
      BY <1>7, <2>1, <2>4, <2>5 DEF BusFan, processVars, detectorVars, dbVars, TypeOK
    <2>7. AtWork'
      BY <1>7, <2>1 DEF BusFan, AtWork
    <2>8. QED
      BY <2>6, <2>7
  <1>8. CASE BusDone
    <2>1. bus' = [pc |-> "stopped", ev |-> NoEvent, todo |-> <<>>]
      BY <1>8 DEF BusDone, IdleBus
    <2>2. bus' \in [pc : {"select", "fan", "stopped"}, ev : Event \cup {NoEvent},
                    todo : Seq(Sinks)]
      BY <2>1, NothingThere
    <2>3. DOMAIN bus'.todo = {} /\ bus'.todo = <<>> /\ bus'.pc = "stopped"
      BY <2>1
    <2>4. TypeOK'
      BY <1>8, <2>2 DEF BusDone, processVars, detectorVars, dbVars, TypeOK
    <2>5. AtWork'
      BY <1>8, <2>3 DEF BusDone, AtWork
    <2>6. QED
      BY <2>4, <2>5
  <1>9. ASSUME NEW t \in Sinks, SinkTake(t) PROVE TypeOK' /\ AtWork'
    <2>1. /\ Head(sub[t]) \in Event /\ Tail(sub[t]) \in Seq(Event)
          /\ Len(Tail(sub[t])) = Len(sub[t]) - 1 /\ Len(sub[t]) \in Nat
      BY <1>9, TakeHead DEF SinkTake, TypeOK
    <2>2. PICK e \in Event : e = Head(sub[t])
      BY <2>1
    <2>3. e.id \in IDs /\ e.state \in States
      BY DEF Event
    <2>4. Append(got[t][e.id], e.state) \in Seq(States)
      BY <2>3 DEF TypeOK
    <2>5. got' = [got EXCEPT ![t][e.id] = Append(got[t][e.id], e.state)]
      BY <1>9, <2>2 DEF SinkTake
    <2>6. got' \in [Sinks -> [IDs -> Seq(States)]]
      BY <2>3, <2>4, <2>5 DEF TypeOK
    <2>7. sub' = [sub EXCEPT ![t] = Tail(sub[t])]
      BY <1>9 DEF SinkTake
    <2>8. SubCap \in Nat
      BY PipelineAssumption
    <2>9. sub' \in [Sinks -> Seq(Event)] /\ \A s \in Sinks : Len(sub'[s]) <= SubCap
      BY <2>1, <2>7, <2>8 DEF TypeOK
    <2>10. QED
      BY <1>9, <2>6, <2>9 DEF SinkTake, processVars, detectorVars, dbVars, TypeOK, AtWork
  <1>10. ASSUME NEW from \in {"select", "drain"}, NEW to \in {"handle", "drainHandle"},
                NEW d \in BOOLEAN, Take(from, to, d)
         PROVE  TypeOK' /\ AtWork'
    <2>1. Recorder \in Sinks /\ sub[Recorder] \in Seq(Event) /\ sub[Recorder] # <<>>
      BY <1>10, PipelineAssumption DEF Take, TypeOK
    <2>2. /\ Head(sub[Recorder]) \in Event /\ Tail(sub[Recorder]) \in Seq(Event)
          /\ Len(Tail(sub[Recorder])) = Len(sub[Recorder]) - 1
          /\ Len(sub[Recorder]) \in Nat
      BY <2>1, TakeHead
    <2>3. PICK e \in Event : e = Head(sub[Recorder])
      BY <2>2
    <2>4. rec' = [pc |-> to, ev |-> e, dead |-> d]
      BY <1>10, <2>3 DEF Take
    <2>5. sub' = [sub EXCEPT ![Recorder] = Tail(sub[Recorder])] /\ SubCap \in Nat
      BY <1>10, PipelineAssumption DEF Take
    <2>6. sub' \in [Sinks -> Seq(Event)] /\ \A s \in Sinks : Len(sub'[s]) <= SubCap
      BY <2>1, <2>2, <2>5 DEF TypeOK
    <2>7. QED
      BY <1>10, <2>4, <2>6 DEF Take, processVars, detectorVars, dbVars, TypeOK, AtWork
  <1>11. CASE RecTake \/ RecDrainTake
    <2>1. (process = "stopping") \in BOOLEAN /\ FALSE \in BOOLEAN
      OBVIOUS
    <2>2. QED
      BY <1>10, <1>11, <2>1 DEF RecTake, RecDrainTake
  <1>12. CASE RecDone \/ RecStop \/ RecTimeout
    BY <1>12 DEF RecDone, RecStop, RecTimeout, processVars, detectorVars, dbVars, TypeOK,
                 AtWork
  <1>13. /\ RecAfter \in [pc : {"select", "handle", "drain", "drainHandle", "stopped",
                                "timedOut"},
                          ev : Event \cup {NoEvent}, dead : BOOLEAN]
         /\ RecAfter.pc \in {"select", "drain"} /\ RecAfter.ev = NoEvent
    BY DEF RecAfter, IdleRecorder
  <1>14. CASE RecCommit
    <2>1. rec.ev \in Event /\ rec.ev.id \in IDs /\ rec.ev.state \in States
      BY <1>14 DEF RecCommit, AtWork, Event
    <2>2. Kind(rec.ev.state) \in {"started", "update", "ended"}
      BY <2>1, Ranks DEF States
    <2>3. Append(updates[rec.ev.id], Kind(rec.ev.state)) \in Seq({"started", "update", "ended"})
      BY <2>1, <2>2 DEF TypeOK
    <2>4. updates' \in [IDs -> Seq({"started", "update", "ended"})]
      BY <1>14, <2>1, <2>3 DEF RecCommit, Written, TypeOK
    <2>5. row' \in [IDs -> {"none", "open", "ended", "orphan"}]
      BY <1>14, <2>1 DEF RecCommit, Written, TypeOK
    <2>6. QED
      BY <1>13, <1>14, <2>4, <2>5 DEF RecCommit, processVars, detectorVars, TypeOK, AtWork
  <1>15. CASE RecFail
    <2>1. rec.ev.id \in IDs
      BY <1>15 DEF RecFail, AtWork, Event
    <2>2. QED
      BY <1>13, <1>15, <2>1 DEF RecFail, processVars, detectorVars, dbVars, TypeOK, AtWork
  <1>16. CASE Shutdown
    BY <1>16 DEF Shutdown, detectorVars, dbVars, TypeOK, AtWork
  <1>17. CASE Exit \/ Crash
    <2>1. Gone
      BY <1>17 DEF Exit, Crash
    <2>2. bus' = [pc |-> "stopped", ev |-> NoEvent, todo |-> <<>>]
      BY <2>1 DEF Gone, IdleBus
    <2>3. bus' \in [pc : {"select", "fan", "stopped"}, ev : Event \cup {NoEvent},
                    todo : Seq(Sinks)]
      BY <2>2, NothingThere
    <2>4. DOMAIN bus'.todo = {} /\ bus'.todo = <<>> /\ bus'.pc = "stopped"
      BY <2>2
    <2>5. rec' = [pc |-> "stopped", ev |-> NoEvent, dead |-> FALSE]
      BY <2>1 DEF Gone, IdleRecorder
    <2>6. det' \in [Keys -> [id : 0 .. MaxIncidents, updated : BOOLEAN]]
      BY <2>1, PipelineAssumption DEF Gone, NoIncident
    <2>7. /\ attackEvents' \in Seq(Event) /\ Len(attackEvents') <= InCap
          /\ sub' \in [Sinks -> Seq(Event)] /\ \A s \in Sinks : Len(sub'[s]) <= SubCap
      BY <2>1, NothingThere, PipelineAssumption DEF Gone
    <2>8. lost' \subseteq IDs
      BY <2>1 DEF Gone, InFlightIDs, TypeOK
    <2>9. /\ process' = "down" /\ engineUp' = FALSE /\ starts' = starts /\ epoch' = epoch
          /\ ids' = ids /\ row' = row /\ updates' = updates /\ emitted' = emitted
          /\ got' = got
      BY <2>1 DEF Gone, dbVars
    <2>10. rec' \in [pc : {"select", "handle", "drain", "drainHandle", "stopped",
                          "timedOut"},
                     ev : Event \cup {NoEvent}, dead : BOOLEAN]
      BY <2>5
    <2>11. TypeOK'
      BY <2>3, <2>6, <2>7, <2>8, <2>9, <2>10 DEF TypeOK
    <2>12. AtWork'
      BY <2>4, <2>5 DEF AtWork
    <2>13. QED
      BY <2>11, <2>12
  <1>18. CASE StartUp
    <2>1. /\ bus' = [pc |-> "select", ev |-> NoEvent, todo |-> <<>>]
          /\ rec' = [pc |-> "select", ev |-> NoEvent, dead |-> FALSE]
      BY <1>18 DEF StartUp, IdleBus, IdleRecorder
    <2>2. bus' \in [pc : {"select", "fan", "stopped"}, ev : Event \cup {NoEvent},
                    todo : Seq(Sinks)]
      BY <2>1, NothingThere
    <2>3. DOMAIN bus'.todo = {} /\ bus'.todo = <<>> /\ bus'.pc = "select"
      BY <2>1
    <2>4. row' \in [IDs -> {"none", "open", "ended", "orphan"}]
      BY <1>18 DEF StartUp, TypeOK
    <2>5. starts' \in 1 .. MaxStarts /\ epoch' \in 0 .. ids'
      BY <1>18, PipelineAssumption DEF StartUp, TypeOK
    <2>6. TypeOK'
      BY <1>18, <2>1, <2>2, <2>4, <2>5 DEF StartUp, TypeOK
    <2>7. AtWork'
      BY <2>1, <2>3 DEF AtWork
    <2>8. QED
      BY <2>6, <2>7
  <1>19. QED
    BY <1>1, <1>2, <1>3, <1>4, <1>5, <1>6, <1>7, <1>8, <1>9, <1>11, <1>12, <1>14, <1>15,
       <1>16, <1>17, <1>18
       DEF Next, Detector, Bus, RecorderRun, Process

-----------------------------------------------------------------------------
(* The detector's incidents, and what is behind it.                        *)

\* Everything on the way to a sink is an event.
LEMMA Events ==
  ASSUME TypeOK, AtWork, NEW s \in Sinks
  PROVE  Had(s) \cup Coming(s) \subseteq Event /\ Writing \subseteq Event
  <1>1. Elements(sub[s]) \subseteq Event /\ Elements(attackEvents) \subseteq Event
    BY ElementsIn DEF TypeOK
  <1>2. Writing \subseteq Event
    BY DEF Writing, TypeOK
  <1>3. Had(s) \subseteq Event
    BY <1>2 DEF Had, Held, Taken
  <1>4. Fanned(s) \subseteq Event
    <2>1. CASE bus.pc = "fan"
      BY <2>1 DEF Fanned, AtWork
    <2>2. CASE bus.pc # "fan"
      <3>1. DOMAIN bus.todo = {}
        BY <2>2 DEF AtWork
      <3>2. QED
        BY <3>1 DEF Fanned
    <2>3. QED
      BY <2>1, <2>2
  <1>5. QED
    BY <1>1, <1>2, <1>3, <1>4 DEF Coming

\* Open incidents stay distinct, and of this run of the daemon.
LEMMA OpenStep ==
  ASSUME TypeOK, OpenIncidents, OfThisRun, [Next]_vars PROVE OpenIncidents'
  <1> USE DEF NoIncident
  <1>1. ASSUME NEW k \in Keys, DetectStart(k) PROVE OpenIncidents'
    <2>1. /\ ids' = ids + 1 /\ epoch' = epoch /\ ids \in Nat /\ epoch \in Nat /\ epoch <= ids
          /\ det' = [det EXCEPT ![k] = [id |-> ids + 1, updated |-> FALSE]]
      BY <1>1, PipelineAssumption DEF DetectStart, Emit, processVars, TypeOK
    <2>2. \A l \in Keys : det'[l] = IF l = k THEN [id |-> ids + 1, updated |-> FALSE] ELSE det[l]
      BY <2>1 DEF TypeOK
    <2>3. det'[k].id = ids + 1 /\ \A l \in Keys \ {k} : det'[l] = det[l]
      BY <2>2
    <2>4. \A l \in Keys : det[l] # NoIncident => det[l].id \in epoch + 1 .. ids
      BY DEF OpenIncidents
    <2>5. \A l \in Keys : det[l].id \in Nat /\ det[l].id <= ids
      BY <2>1, <2>4, PipelineAssumption DEF TypeOK
    <2>6. \A l \in Keys : det'[l] # NoIncident => det'[l].id \in epoch' + 1 .. ids'
      BY <2>1, <2>3, <2>4
    <2>7. ASSUME NEW l \in Keys, NEW m \in Keys, det'[l] # NoIncident,
                 det'[l].id = det'[m].id
          PROVE  l = m
      <3>1. CASE l = k \/ m = k
        BY <2>1, <2>3, <2>5, <2>7, <3>1
      <3>2. CASE l # k /\ m # k
        BY <2>3, <2>7, <3>2 DEF OpenIncidents
      <3>3. QED
        BY <3>1, <3>2
    <2>8. QED
      BY <2>6, <2>7 DEF OpenIncidents
  <1>2. ASSUME NEW k \in Keys, DetectUpdate(k) PROVE OpenIncidents'
    <2>1. /\ ids' = ids /\ epoch' = epoch
          /\ det' = [det EXCEPT ![k].updated = TRUE] /\ det[k] # NoIncident
      BY <1>2 DEF DetectUpdate, Emit, processVars
    <2>2. \A l \in Keys : /\ det'[l].id = det[l].id
                          /\ det'[l] = IF l = k THEN [det[k] EXCEPT !.updated = TRUE] ELSE det[l]
      BY <2>1 DEF TypeOK
    <2>3. QED
      BY <2>1, <2>2 DEF OpenIncidents
  <1>3. ASSUME NEW k \in Keys, DetectEnd(k) PROVE OpenIncidents'
    <2>1. ids' = ids /\ epoch' = epoch /\ det' = [det EXCEPT ![k] = NoIncident]
      BY <1>3 DEF DetectEnd, Emit, processVars
    <2>2. \A l \in Keys : det'[l] = IF l = k THEN NoIncident ELSE det[l]
      BY <2>1 DEF TypeOK
    <2>3. \A l \in Keys : det[l] # NoIncident => det[l].id # 0
      BY PipelineAssumption DEF OpenIncidents, TypeOK
    <2>4. QED
      BY <2>1, <2>2, <2>3 DEF OpenIncidents
  <1>4. CASE Exit \/ Crash
    <2>1. epoch' = epoch /\ ids' = ids /\ det' = [k \in Keys |-> NoIncident]
      BY <1>4 DEF Exit, Crash, Gone
    <2>2. QED
      BY <2>1 DEF OpenIncidents
  <1>5. CASE StartUp
    <2>1. \A k \in Keys : det'[k] = NoIncident
      BY <1>5 DEF StartUp, OfThisRun
    <2>2. QED
      BY <2>1 DEF OpenIncidents
  <1>6. CASE \/ EngineDone \/ Bus \/ (\E s \in Sinks : SinkTake(s)) \/ RecorderRun
             \/ Shutdown \/ UNCHANGED vars
    <2>1. epoch' = epoch /\ ids' = ids /\ det' = det
      BY <1>6
         DEF EngineDone, Bus, BusTake, BusFan, BusDone, SinkTake, RecorderRun, RecTake,
             RecDrainTake, Take, RecDone, RecStop, RecTimeout, RecCommit, RecFail, Shutdown,
             vars, processVars, detectorVars
    <2>2. QED
      BY <2>1 DEF OpenIncidents
  <1>7. QED
    BY <1>1, <1>2, <1>3, <1>4, <1>5, <1>6 DEF Next, Detector, Process

\* The engine's send puts an event at the end of every sink's line, or nowhere.
LEMMA EmitLined ==
  ASSUME TypeOK, AtWork, InLine, NEW id \in IDs, NEW st \in States, Emit(id, st),
         NEW e \in Event, e = [id |-> id, state |-> st], Behind(e)',
         \A s \in Sinks : \A x \in Had(s) \cup Coming(s) : Earlier(x, e) /\ Behind(x)'
  PROVE  InLine'
  <1>1. /\ bus' = bus /\ sub' = sub /\ rec' = rec /\ updates' = updates /\ got' = got
        /\ attackEvents' = Append(attackEvents, e) \/ attackEvents' = attackEvents
    BY DEF Emit, dbVars
  <1>2. /\ Held' = Held /\ Writing' = Writing
        /\ \A s \in Sinks : Had(s)' = Had(s) /\ Fanned(s)' = Fanned(s)
                            /\ Elements(sub[s])' = Elements(sub[s])
    BY <1>1 DEF Held, Writing, Had, Taken, Fanned, Elements
  <1>3. \A s \in Sinks : Elements(attackEvents) \subseteq Coming(s)
    BY DEF Coming
  <1>4. attackEvents \in Seq(Event) /\ Recorder \in Sinks
    BY PipelineAssumption DEF TypeOK
  <1>5. Precede(Elements(attackEvents), {e})
    BY <1>3, <1>4 DEF Precede
  <1>6. /\ Elements(Append(attackEvents, e)) = Elements(attackEvents) \cup {e}
        /\ InOrder(Append(attackEvents, e))
    BY <1>4, <1>5, PutLast DEF InLine
  <1>7. Elements(attackEvents') \subseteq Elements(attackEvents) \cup {e} /\ InOrder(attackEvents')
    BY <1>1, <1>6 DEF InLine
  <1>8. ASSUME NEW s \in Sinks PROVE Lined(s)'
    <2>1. Lined(s) /\ \A x \in Had(s) \cup Coming(s) : Earlier(x, e) /\ Behind(x)'
      BY DEF InLine
    <2>2. InOrder(sub'[s])
      BY <1>1, <2>1 DEF Lined
    <2>3. Coming(s)' \subseteq Coming(s) \cup {e}
      BY <1>2, <1>7 DEF Coming
    <2>4. Precede(Had(s), Coming(s) \cup {e})
      BY <2>1 DEF Lined, Precede
    <2>5. Precede(Elements(sub[s]), Fanned(s) \cup Elements(attackEvents) \cup {e})
      BY <2>1 DEF Lined, Precede, Coming
    <2>6. Precede(Fanned(s), Elements(attackEvents) \cup {e})
      BY <2>1 DEF Lined, Precede, Coming
    <2>7. Precede(Had(s)', Coming(s)')
      BY <1>2, <2>3, <2>4 DEF Precede
    <2>8. Precede(Elements(sub'[s]), Fanned(s)' \cup Elements(attackEvents'))
      BY <1>1, <1>2, <1>7, <2>5 DEF Precede
    <2>9. Precede(Fanned(s)', Elements(attackEvents'))
      BY <1>2, <1>7, <2>6 DEF Precede
    <2>10. ASSUME NEW x \in Had(s)' \cup Coming(s)' PROVE Behind(x)'
      <3>1. x \in Had(s) \cup Coming(s) \cup {e}
        BY <1>2, <2>3
      <3>2. QED
        BY <2>1, <3>1
    <2>11. QED
      BY <2>2, <2>7, <2>8, <2>9, <2>10 DEF Lined
  <1>9. Precede(Held, Writing)'
    BY <1>2 DEF InLine, Precede
  <1>10. QED
    BY <1>7, <1>8, <1>9 DEF InLine

-----------------------------------------------------------------------------
(* The lines of the sinks.                                                 *)

\* A line stays a line when events leave it.
LEMMA Fewer ==
  ASSUME NEW s \in Sinks, Lined(s), Had(s)' \subseteq Had(s),
         Elements(sub[s])' \subseteq Elements(sub[s]), InOrder(sub[s])',
         Fanned(s)' \subseteq Fanned(s),
         Elements(attackEvents)' \subseteq Elements(attackEvents),
         \A x \in Had(s) \cup Coming(s) : Behind(x)'
  PROVE  Lined(s)'
  <1>1. Coming(s)' \subseteq Coming(s)
    BY DEF Coming
  <1>2. Precede(Had(s), Coming(s))'
    BY <1>1 DEF Lined, Precede
  <1>3. Precede(Elements(sub[s]), Fanned(s) \cup Elements(attackEvents))'
    BY DEF Lined, Precede
  <1>4. Precede(Fanned(s), Elements(attackEvents))'
    BY DEF Lined, Precede
  <1>5. \A x \in Had(s)' \cup Coming(s)' : Behind(x)'
    BY <1>1
  <1>6. QED
    BY <1>2, <1>3, <1>4, <1>5 DEF Lined

\* The start of an incident is behind nothing of its own.
LEMMA StartLined ==
  ASSUME TypeOK, AtWork, OpenIncidents, InLine, NEW k \in Keys, DetectStart(k)
  PROVE  InLine'
  <1>1. /\ ids' = ids + 1 /\ ids \in Nat /\ ids + 1 \in IDs /\ Emit(ids + 1, "started")
        /\ det' = [det EXCEPT ![k] = [id |-> ids + 1, updated |-> FALSE]]
    BY PipelineAssumption DEF DetectStart, IDs, TypeOK
  <1>2. PICK e \in Event : e = [id |-> ids + 1, state |-> "started"]
    BY <1>1 DEF Event, States
  <1>3. \A l \in Keys \ {k} : det'[l] = det[l]
    BY <1>1 DEF TypeOK
  <1>4. det'[k].id = ids + 1
    BY <1>1 DEF TypeOK
  <1>5. Behind(e)'
    BY <1>1, <1>2 DEF Behind
  <1>6. ASSUME NEW s \in Sinks, NEW x \in Had(s) \cup Coming(s)
        PROVE  Earlier(x, e) /\ Behind(x)'
    <2>1. Behind(x) /\ x \in Event
      BY Events DEF InLine, Lined
    <2>2. x.id \in Nat /\ x.id <= ids
      BY <2>1, PipelineAssumption DEF Behind, Event, IDs
    <2>3. x.id # ids + 1 /\ x.id <= ids + 1
      BY <1>1, <2>2
    <2>4. Earlier(x, e)
      BY <1>2, <2>3 DEF Earlier
    <2>5. Behind(x)'
      BY <1>1, <1>3, <1>4, <2>1, <2>3 DEF Behind
    <2>6. QED
      BY <2>4, <2>5
  <1>7. QED
    BY <1>1, <1>2, <1>5, <1>6, EmitLined DEF States

\* Before its update only the start of an incident has been emitted.
LEMMA UpdateLined ==
  ASSUME TypeOK, AtWork, OpenIncidents, InLine, NEW k \in Keys, DetectUpdate(k)
  PROVE  InLine'
  <1>1. /\ ids' = ids /\ det[k] # NoIncident /\ det[k].updated = FALSE
        /\ Emit(det[k].id, "updated")
        /\ det' = [det EXCEPT ![k].updated = TRUE]
    BY DEF DetectUpdate, TypeOK
  <1>2. det[k].id \in IDs /\ det[k].id <= ids
    BY <1>1, PipelineAssumption DEF OpenIncidents, IDs, TypeOK
  <1>3. PICK e \in Event : e = [id |-> det[k].id, state |-> "updated"]
    BY <1>2 DEF Event, States
  <1>4. /\ \A l \in Keys \ {k} : det'[l] = det[l]
        /\ det'[k].id = det[k].id /\ det'[k].updated = TRUE
    BY <1>1 DEF TypeOK
  <1>5. \A l \in Keys : det[l].id = det[k].id => l = k
    BY <1>1 DEF OpenIncidents
  <1>6. Behind(e)'
    BY <1>1, <1>2, <1>3, <1>4, <1>5 DEF Behind
  <1>7. ASSUME NEW s \in Sinks, NEW x \in Had(s) \cup Coming(s)
        PROVE  Earlier(x, e) /\ Behind(x)'
    <2>1. Behind(x) /\ x.state \in States
      BY Events DEF InLine, Lined, Event
    <2>2. x.id = det[k].id => x.state = "started"
      BY <1>1, <2>1 DEF Behind, States
    <2>3. Earlier(x, e)
      BY <1>3, <2>2, Ranks DEF Earlier
    <2>4. Behind(x)'
      BY <1>1, <1>4, <2>1, <2>2 DEF Behind
    <2>5. QED
      BY <2>3, <2>4
  <1>8. QED
    BY <1>1, <1>2, <1>3, <1>6, <1>7, EmitLined DEF States

\* The end of an incident has been emitted once only, and comes last.
LEMMA EndLined ==
  ASSUME TypeOK, AtWork, OpenIncidents, InLine, NEW k \in Keys, DetectEnd(k)
  PROVE  InLine'
  <1>1. /\ ids' = ids /\ det[k] # NoIncident
        /\ Emit(det[k].id, "ended")
        /\ det' = [det EXCEPT ![k] = NoIncident]
    BY DEF DetectEnd
  <1>2. det[k].id \in IDs /\ det[k].id <= ids
    BY <1>1, PipelineAssumption DEF OpenIncidents, IDs, TypeOK
  <1>3. PICK e \in Event : e = [id |-> det[k].id, state |-> "ended"]
    BY <1>2 DEF Event, States
  <1>4. /\ \A l \in Keys \ {k} : det'[l] = det[l]
        /\ det'[k].id = 0
    BY <1>1 DEF TypeOK, NoIncident
  <1>5. \A l \in Keys : det[l].id = det[k].id => l = k
    BY <1>1 DEF OpenIncidents
  <1>6. \A x \in Event : x.id # 0
    BY DEF Event, IDs
  <1>7. Behind(e)'
    BY <1>1, <1>2, <1>3, <1>4, <1>5, <1>6 DEF Behind
  <1>8. ASSUME NEW s \in Sinks, NEW x \in Had(s) \cup Coming(s)
        PROVE  Earlier(x, e) /\ Behind(x)'
    <2>1. Behind(x) /\ x.state \in States /\ x.id # 0
      BY <1>6, Events DEF InLine, Lined, Event
    <2>2. x.id = det[k].id => x.state \in {"started", "updated"}
      BY <2>1 DEF Behind, States
    <2>3. Earlier(x, e)
      BY <1>3, <2>2, Ranks DEF Earlier
    <2>4. Behind(x)'
      BY <1>1, <1>4, <2>1 DEF Behind
    <2>5. QED
      BY <2>3, <2>4
  <1>9. QED
    BY <1>1, <1>2, <1>3, <1>7, <1>8, EmitLined DEF States

\* The bus takes the event that was first in the engine's channel.
LEMMA BusTakeLined == ASSUME TypeOK, AtWork, InLine, BusTake PROVE InLine'
  <1>1. PICK h : h = Head(attackEvents)
    OBVIOUS
  <1>2. /\ Elements(attackEvents) = {h} \cup Elements(Tail(attackEvents))
        /\ InOrder(Tail(attackEvents)) /\ Precede({h}, Elements(Tail(attackEvents)))
    BY <1>1, TakeHead DEF BusTake, TypeOK, InLine
  <1>3. /\ attackEvents' = Tail(attackEvents) /\ sub' = sub /\ rec' = rec /\ got' = got
        /\ updates' = updates /\ det' = det /\ ids' = ids
        /\ bus'.ev = h /\ bus'.todo = Subs
    BY <1>1 DEF BusTake, detectorVars, dbVars
  <1>4. DOMAIN bus.todo = {}
    BY DEF BusTake, AtWork
  <1>5. \A s \in Sinks : Fanned(s) = {} /\ Fanned(s)' = {h}
    BY <1>3, <1>4 DEF Fanned, Sinks
  <1>6. /\ Held' = Held /\ Writing' = Writing
        /\ \A s \in Sinks : Had(s)' = Had(s)
    BY <1>3 DEF Held, Writing, Had, Taken
  <1>7. ASSUME NEW s \in Sinks PROVE Lined(s)'
    <2>1. Lined(s)
      BY DEF InLine
    <2>2. Coming(s)' = Coming(s)
      BY <1>2, <1>3, <1>5 DEF Coming
    <2>3. InOrder(sub[s])' /\ Precede(Had(s), Coming(s))'
      BY <1>3, <1>6, <2>1, <2>2 DEF Lined
    <2>4. Precede(Elements(sub[s]), Fanned(s) \cup Elements(attackEvents))'
      BY <1>2, <1>3, <1>5, <2>1 DEF Lined, Precede
    <2>5. Precede(Fanned(s), Elements(attackEvents))'
      BY <1>2, <1>3, <1>5
    <2>6. \A x \in Had(s)' \cup Coming(s)' : Behind(x)'
      BY <1>3, <1>6, <2>1, <2>2 DEF Lined, Behind
    <2>7. QED
      BY <2>3, <2>4, <2>5, <2>6 DEF Lined
  <1>8. QED
    BY <1>2, <1>3, <1>6, <1>7 DEF InLine

\* The subscriber whose turn it is gets the event at the end of its channel, or
\* not at all.
LEMMA BusFanLined ==
  ASSUME TypeOK, AtWork, InLine, NEW t \in Sinks, BusFan(t) PROVE InLine'
  <1>1. /\ bus.ev \in Event /\ Fanned(t) = {bus.ev} /\ Fanned(t)' = {}
        /\ \A s \in Sinks \ {t} : Fanned(s)' = Fanned(s)
    BY FanLeft DEF BusFan
  <1>2. /\ attackEvents' = attackEvents /\ rec' = rec /\ got' = got
        /\ updates' = updates /\ det' = det /\ ids' = ids
    BY DEF BusFan, detectorVars, dbVars
  <1>3. /\ Held' = Held /\ Writing' = Writing
        /\ \A s \in Sinks : Had(s)' = Had(s)
    BY <1>2 DEF Held, Writing, Had, Taken
  <1>4. \A x : Behind(x)' <=> Behind(x)
    BY <1>2 DEF Behind
  <1>5. ASSUME NEW s \in Sinks \ {t} PROVE Lined(s)'
    <2>1. sub'[s] = sub[s]
      BY DEF BusFan, TypeOK
    <2>2. Lined(s)
      BY DEF InLine
    <2>3. InOrder(sub[s])' /\ \A x \in Had(s) \cup Coming(s) : Behind(x)'
      BY <1>4, <2>1, <2>2 DEF Lined
    <2>4. QED
      BY <1>1, <1>2, <1>3, <2>1, <2>2, <2>3, Fewer
  <1>6. Lined(t)'
    <2>1. Lined(t)
      BY DEF InLine
    <2>2. sub[t] \in Seq(Event)
      BY DEF TypeOK
    <2>3. Precede(Elements(sub[t]), {bus.ev})
      BY <1>1, <2>1 DEF Lined, Precede
    <2>4. /\ Elements(Append(sub[t], bus.ev)) = Elements(sub[t]) \cup {bus.ev}
          /\ InOrder(Append(sub[t], bus.ev))
      BY <1>1, <2>1, <2>2, <2>3, PutLast DEF Lined
    <2>5. sub'[t] = Append(sub[t], bus.ev) \/ sub'[t] = sub[t]
      BY DEF BusFan, TypeOK
    <2>6. InOrder(sub'[t]) /\ Elements(sub'[t]) \subseteq Elements(sub[t]) \cup {bus.ev}
      BY <2>1, <2>4, <2>5 DEF Lined
    <2>7. Coming(t)' \subseteq Coming(t)
      BY <1>1, <1>2, <2>6 DEF Coming
    <2>8. Precede(Had(t), Coming(t))'
      BY <1>3, <2>1, <2>7 DEF Lined, Precede
    <2>9. Precede(Elements(sub[t]), Fanned(t) \cup Elements(attackEvents))'
      BY <1>1, <1>2, <2>1, <2>6 DEF Lined, Precede
    <2>10. Precede(Fanned(t), Elements(attackEvents))'
      BY <1>1 DEF Precede
    <2>11. \A x \in Had(t)' \cup Coming(t)' : Behind(x)'
      BY <1>3, <1>4, <2>1, <2>7 DEF Lined
    <2>12. QED
      BY <2>6, <2>8, <2>9, <2>10, <2>11 DEF Lined
  <1>7. QED
    BY <1>2, <1>3, <1>5, <1>6 DEF InLine

\* A sink has the event that was first in its channel, and what it has had of an
\* incident stays in order.
LEMMA SinkTakeLined ==
  ASSUME TypeOK, AtWork, InLine, SinkOrder, NEW t \in Sinks, SinkTake(t)
  PROVE  InLine' /\ SinkOrder'
  <1>1. PICK h \in Event :
          /\ h = Head(sub[t])
          /\ Elements(sub[t]) = {h} \cup Elements(Tail(sub[t]))
          /\ InOrder(Tail(sub[t])) /\ Precede({h}, Elements(Tail(sub[t])))
    BY TakeHead DEF SinkTake, TypeOK, InLine, Lined
  <1>2. /\ t # Recorder /\ h.id \in IDs /\ h.state \in States
        /\ sub' = [sub EXCEPT ![t] = Tail(sub[t])]
        /\ got' = [got EXCEPT ![t][h.id] = Append(got[t][h.id], h.state)]
    BY <1>1 DEF SinkTake, Event
  <1>3. /\ attackEvents' = attackEvents /\ rec' = rec /\ bus' = bus
        /\ updates' = updates /\ det' = det /\ ids' = ids
    BY DEF SinkTake, detectorVars, dbVars
  <1>4. /\ Held' = Held /\ Writing' = Writing
        /\ \A s \in Sinks : Fanned(s)' = Fanned(s)
    BY <1>3 DEF Held, Writing, Fanned
  <1>5. \A x : Behind(x)' <=> Behind(x)
    BY <1>3 DEF Behind
  <1>6. ASSUME NEW s \in Sinks \ {t} PROVE Lined(s)' /\ got'[s] = got[s]
    <2>1. sub'[s] = sub[s] /\ got'[s] = got[s]
      BY <1>2 DEF TypeOK
    <2>2. Had(s)' = Had(s)
      BY <1>4, <2>1 DEF Had, Taken
    <2>3. Lined(s)
      BY DEF InLine
    <2>4. InOrder(sub[s])' /\ \A x \in Had(s) \cup Coming(s) : Behind(x)'
      BY <1>5, <2>1, <2>3 DEF Lined
    <2>5. QED
      BY <1>3, <1>4, <2>1, <2>2, <2>3, <2>4, Fewer
  <1>7. /\ \A id \in IDs \ {h.id} : got'[t][id] = got[t][id]
        /\ got'[t][h.id] = Append(got[t][h.id], h.state)
        /\ got[t][h.id] \in Seq(States)
    BY <1>2 DEF TypeOK
  <1>8. PICK q \in Seq(States) : q = got[t][h.id]
    BY <1>7
  <1>9. /\ Len(q) \in Nat /\ DOMAIN q = 1 .. Len(q)
        /\ DOMAIN Append(q, h.state) = 1 .. Len(q) + 1
        /\ Append(q, h.state)[Len(q) + 1] = h.state
        /\ \A i \in 1 .. Len(q) : Append(q, h.state)[i] = q[i]
        /\ Len(Append(q, h.state)) = Len(q) + 1
    BY <1>2, <1>8
  <1>10. Taken(t)' = Taken(t) \cup {h}
    <2>1. ASSUME NEW x \in Event
          PROVE  x \in Taken(t)' <=> x \in Taken(t) \cup {h}
      <3>1. CASE x.id # h.id
        BY <1>1, <1>7, <2>1, <3>1 DEF Taken, Event
      <3>2. CASE x.id = h.id
        <4>1. x = h <=> x.state = h.state
          BY <1>1, <2>1, <3>2 DEF Event
        <4>2. x \in Taken(t) <=> \E i \in DOMAIN q : q[i] = x.state
          BY <1>8, <2>1, <3>2 DEF Taken
        <4>3. x \in Taken(t)' <=> \E i \in 1 .. Len(q) + 1 : Append(q, h.state)[i] = x.state
          BY <1>7, <1>8, <1>9, <2>1, <3>2 DEF Taken
        <4>4. QED
          BY <1>9, <4>1, <4>2, <4>3
      <3>3. QED
        BY <3>1, <3>2
    <2>2. Taken(t) \subseteq Event /\ Taken(t)' \subseteq Event
      BY DEF Taken
    <2>3. QED
      BY <1>1, <2>1, <2>2
  <1>11. Had(t) = Taken(t) /\ Had(t)' = Had(t) \cup {h}
    BY <1>2, <1>10 DEF Had
  <1>12. Lined(t)
    BY DEF InLine
  <1>13. h \in Coming(t)
    BY <1>1 DEF Coming
  <1>14. Lined(t)'
    <2>1. sub'[t] = Tail(sub[t])
      BY <1>2 DEF TypeOK
    <2>2. Coming(t) = {h} \cup Coming(t)'
      BY <1>1, <1>3, <1>4, <2>1 DEF Coming
    <2>3. Precede(Had(t), Coming(t))'
      <3>1. Precede({h}, Coming(t)')
        BY <1>1, <1>3, <1>4, <1>12, <2>1 DEF Lined, Precede, Coming
      <3>2. QED
        BY <1>11, <1>12, <2>2, <3>1 DEF Lined, Precede
    <2>4. /\ InOrder(sub[t])'
          /\ Precede(Elements(sub[t]), Fanned(t) \cup Elements(attackEvents))'
          /\ Precede(Fanned(t), Elements(attackEvents))'
      BY <1>1, <1>3, <1>4, <1>12, <2>1 DEF Lined, Precede
    <2>5. \A x \in Had(t)' \cup Coming(t)' : Behind(x)'
      BY <1>5, <1>11, <1>12, <2>2 DEF Lined
    <2>6. QED
      BY <2>3, <2>4, <2>5 DEF Lined
  <1>15. InLine'
    BY <1>3, <1>4, <1>6, <1>14 DEF InLine
  <1>16. ASSUME NEW i \in DOMAIN q PROVE Rank(q[i]) < Rank(h.state)
    <2>1. q[i] \in States
      BY <1>8
    <2>2. PICK x \in Event : x = [id |-> h.id, state |-> q[i]]
      BY <1>2, <2>1 DEF Event
    <2>3. x \in Had(t)
      BY <1>8, <1>11, <2>2 DEF Taken
    <2>4. Earlier(x, h)
      BY <1>12, <1>13, <2>3 DEF Lined, Precede
    <2>5. QED
      BY <2>2, <2>4 DEF Earlier
  <1>17. Ordered(q)
    BY <1>2, <1>8 DEF SinkOrder
  <1>18. Ordered(Append(q, h.state))
    BY <1>9, <1>16, <1>17 DEF Ordered
  <1>19. SinkOrder'
    <2>1. ASSUME NEW s \in Sinks, NEW id \in IDs PROVE Ordered(got'[s][id])
      <3>1. CASE s = t /\ id = h.id
        BY <1>7, <1>8, <1>18, <3>1
      <3>2. CASE ~(s = t /\ id = h.id)
        BY <1>6, <1>7, <3>2 DEF SinkOrder
      <3>3. QED
        BY <3>1, <3>2
    <2>2. QED
      BY <2>1 DEF SinkOrder
  <1>20. QED
    BY <1>15, <1>19

\* The recorder takes the event that was first in its channel, to write it.
LEMMA RecTakeLined ==
  ASSUME TypeOK, AtWork, InLine, NEW from \in {"select", "drain"}, NEW to, NEW d,
         Take(from, to, d)
  PROVE  InLine'
  <1>1. Recorder \in Sinks /\ sub[Recorder] \in Seq(Event) /\ sub[Recorder] # <<>>
    BY PipelineAssumption DEF Take, TypeOK
  <1>2. PICK h \in Event :
          /\ h = Head(sub[Recorder])
          /\ Elements(sub[Recorder]) = {h} \cup Elements(Tail(sub[Recorder]))
          /\ InOrder(Tail(sub[Recorder]))
          /\ Precede({h}, Elements(Tail(sub[Recorder])))
    BY <1>1, TakeHead DEF InLine, Lined
  <1>3. /\ sub' = [sub EXCEPT ![Recorder] = Tail(sub[Recorder])] /\ rec'.ev = h
        /\ attackEvents' = attackEvents /\ got' = got /\ bus' = bus
        /\ updates' = updates /\ det' = det /\ ids' = ids
    BY <1>2 DEF Take, detectorVars, dbVars
  <1>4. h # NoEvent /\ Writing = {} /\ Writing' = {h}
    BY <1>3 DEF Take, AtWork, Writing, Event, IDs, NoEvent
  <1>5. Held' = Held /\ \A s \in Sinks : Fanned(s)' = Fanned(s)
    BY <1>3 DEF Held, Fanned
  <1>6. \A x : Behind(x)' <=> Behind(x)
    BY <1>3 DEF Behind
  <1>7. ASSUME NEW s \in Sinks \ {Recorder} PROVE Lined(s)'
    <2>1. sub'[s] = sub[s]
      BY <1>3 DEF TypeOK
    <2>2. Had(s)' = Had(s)
      BY <1>3 DEF Had, Taken
    <2>3. Lined(s)
      BY DEF InLine
    <2>4. InOrder(sub[s])' /\ \A x \in Had(s) \cup Coming(s) : Behind(x)'
      BY <1>6, <2>1, <2>3 DEF Lined
    <2>5. QED
      BY <1>3, <1>5, <2>1, <2>2, <2>3, <2>4, Fewer
  <1>8. /\ Lined(Recorder) /\ Had(Recorder) = Held /\ Had(Recorder)' = Held \cup {h}
        /\ h \in Coming(Recorder)
    BY <1>1, <1>2, <1>4, <1>5 DEF InLine, Had, Coming
  <1>9. Lined(Recorder)'
    <2>1. sub'[Recorder] = Tail(sub[Recorder])
      BY <1>1, <1>3 DEF TypeOK
    <2>2. Coming(Recorder) = {h} \cup Coming(Recorder)'
      BY <1>1, <1>2, <1>3, <1>5, <2>1 DEF Coming
    <2>3. Precede(Had(Recorder), Coming(Recorder))'
      <3>1. Precede({h}, Coming(Recorder)')
        <4>1. /\ Precede({h}, Elements(Tail(sub[Recorder])))
              /\ Precede({h}, Fanned(Recorder)) /\ Precede({h}, Elements(attackEvents))
          BY <1>2, <1>8 DEF Lined, Precede
        <4>2. Coming(Recorder)' = Elements(Tail(sub[Recorder])) \cup Fanned(Recorder)
                                    \cup Elements(attackEvents)
          BY <1>1, <1>3, <1>5, <2>1 DEF Coming
        <4>3. QED
          BY <4>1, <4>2 DEF Precede
      <3>2. QED
        BY <1>8, <2>2, <3>1 DEF Lined, Precede
    <2>4. /\ InOrder(sub[Recorder])'
          /\ Precede(Elements(sub[Recorder]), Fanned(Recorder) \cup Elements(attackEvents))'
          /\ Precede(Fanned(Recorder), Elements(attackEvents))'
      BY <1>1, <1>2, <1>3, <1>5, <1>8, <2>1 DEF Lined, Precede
    <2>5. \A x \in Had(Recorder)' \cup Coming(Recorder)' : Behind(x)'
      BY <1>6, <1>8, <2>2 DEF Lined
    <2>6. QED
      BY <2>3, <2>4, <2>5 DEF Lined
  <1>10. Precede(Held, Writing)'
    BY <1>4, <1>5, <1>8 DEF Lined, Precede
  <1>11. QED
    BY <1>3, <1>7, <1>9, <1>10 DEF InLine

\* When a transaction commits, the event moves from the recorder's hands to the
\* tables; nothing is written after an end, and nothing about a closed incident.
LEMMA CommitFacts ==
  ASSUME TypeOK, AtWork, InLine, OfThisRun, OrphansAreOld, TablesConsistent, RecCommit
  PROVE  /\ Writing = {rec.ev} /\ Writing' = {} /\ Held' = Held \cup {rec.ev}
         /\ \A id \in IDs : row[id] \in {"ended", "orphan"} => row'[id] = row[id]
         /\ \A id \in IDs : row'[id] = "orphan" => row[id] = "orphan"
         /\ TablesConsistent'
  <1>1. PICK e \in Event : e = rec.ev
    BY DEF RecCommit, AtWork
  <1>2. e.id \in IDs /\ e.state \in States /\ e # NoEvent
    BY DEF Event, IDs, NoEvent
  <1>3. Writing = {e} /\ Writing' = {}
    BY <1>1, <1>2 DEF RecCommit, RecAfter, IdleRecorder, Writing
  <1>4. PICK u \in Seq({"started", "update", "ended"}) : u = updates[e.id]
    BY <1>2 DEF TypeOK
  <1>5. PICK k \in {"started", "update", "ended"} : k = Kind(e.state)
    BY <1>2, Ranks DEF States
  <1>6. /\ Len(u) \in Nat /\ DOMAIN u = 1 .. Len(u)
        /\ Len(Append(u, k)) = Len(u) + 1
        /\ DOMAIN Append(u, k) = 1 .. Len(u) + 1
        /\ Append(u, k)[Len(u) + 1] = k
        /\ \A i \in 1 .. Len(u) : Append(u, k)[i] = u[i]
        /\ u # <<>> <=> Len(u) # 0
    OBVIOUS
  <1>7. /\ \A id \in IDs \ {e.id} : updates'[id] = updates[id] /\ row'[id] = row[id]
        /\ updates'[e.id] = Append(u, k)
    BY <1>1, <1>2, <1>4, <1>5 DEF RecCommit, Written, TypeOK
  <1>8. Held' = Held \cup {e}
    <2>1. ASSUME NEW x \in Event PROVE x \in Held' <=> x \in Held \cup {e}
      <3>1. CASE x.id # e.id
        <4>1. x.id \in IDs
          BY DEF Event
        <4>2. QED
          BY <1>7, <3>1, <4>1 DEF Held
      <3>2. CASE x.id = e.id
        <4>1. x = e <=> x.state = e.state
          BY <3>2 DEF Event
        <4>2. x.state \in States
          BY DEF Event
        <4>3. x.state = e.state <=> Kind(x.state) = k
          BY <1>2, <1>5, <4>2, Ranks DEF States
        <4>4. x \in Held <=> \E i \in 1 .. Len(u) : u[i] = Kind(x.state)
          BY <1>4, <1>6, <3>2 DEF Held
        <4>5. x \in Held' <=> \E i \in 1 .. Len(u) + 1 : Append(u, k)[i] = Kind(x.state)
          BY <1>6, <1>7, <3>2 DEF Held
        <4>6. QED
          BY <1>6, <4>1, <4>3, <4>4, <4>5
      <3>3. QED
        BY <3>1, <3>2
    <2>2. Held \subseteq Event /\ Held' \subseteq Event
      BY DEF Held
    <2>3. QED
      BY <2>1, <2>2
  <1>9. \A st \in States : (\E i \in DOMAIN u : u[i] = Kind(st)) => Rank(st) < Rank(e.state)
    <2>1. ASSUME NEW st \in States, NEW i \in DOMAIN u, u[i] = Kind(st)
          PROVE  Rank(st) < Rank(e.state)
      <3>1. PICK x \in Event : x = [id |-> e.id, state |-> st]
        BY <1>2 DEF Event
      <3>2. x \in Held
        BY <1>4, <2>1, <3>1 DEF Held
      <3>3. Earlier(x, e)
        BY <1>3, <3>2 DEF InLine, Precede
      <3>4. QED
        BY <3>1, <3>3 DEF Earlier
    <2>2. QED
      BY <2>1
  <1>10. /\ row[e.id] = "none" <=> Len(u) = 0
         /\ Len(u) # 0 => u[1] = "started"
         /\ row[e.id] = "ended" <=> Len(u) # 0 /\ u[Len(u)] = "ended"
    BY <1>2, <1>4, <1>6 DEF TablesConsistent
  <1>11. Len(u) # 0 => 1 \in DOMAIN u /\ Len(u) \in DOMAIN u
    BY <1>6
  <1>12. row[e.id] # "ended"
    <2>1. SUFFICES ASSUME row[e.id] = "ended" PROVE FALSE
      OBVIOUS
    <2>2. \E i \in DOMAIN u : u[i] = Kind("ended")
      BY <1>10, <1>11, <2>1, Ranks
    <2>3. 3 < Rank(e.state)
      BY <1>9, <2>2, Ranks DEF States
    <2>4. QED
      BY <1>2, <2>3, Ranks DEF States
  <1>13. row[e.id] # "orphan"
    <2>1. e.id > epoch
      BY <1>3, PipelineAssumption DEF OfThisRun
    <2>2. e.id \in Nat /\ epoch \in Nat
      BY <1>2, PipelineAssumption DEF IDs, TypeOK
    <2>3. QED
      BY <1>2, <2>1, <2>2 DEF OrphansAreOld
  <1>14. e.state = "started" <=> row[e.id] = "none"
    <2>1. ASSUME e.state = "started", Len(u) # 0 PROVE FALSE
      <3>1. \E i \in DOMAIN u : u[i] = Kind("started")
        BY <1>10, <1>11, <2>1, Ranks
      <3>2. 1 < Rank(e.state)
        BY <1>9, <3>1, Ranks DEF States
      <3>3. QED
        BY <2>1, <3>2, Ranks
    <2>2. Accepted(e)
      BY <1>1 DEF RecCommit
    <2>3. QED
      BY <1>10, <2>1, <2>2 DEF Accepted
  <1>15. /\ e.state = "started" => row'[e.id] = "open"
         /\ e.state = "updated" => row'[e.id] = row[e.id]
         /\ e.state = "ended" => row'[e.id] = "ended"
    BY <1>1, <1>2, <1>14 DEF RecCommit, Written, TypeOK
  <1>16. row'[e.id] # "none" /\ row'[e.id] # "orphan" /\ (row'[e.id] = "ended" <=> k = "ended")
    BY <1>2, <1>5, <1>12, <1>13, <1>14, <1>15, Ranks DEF States
  <1>17. TablesConsistent'
    <2>1. ASSUME NEW id \in IDs \ {e.id}
          PROVE  LET w == updates'[id]
                 IN  /\ row'[id] = "none" <=> w = <<>>
                     /\ w # <<>> => w[1] = "started"
                     /\ row'[id] = "ended" <=> w # <<>> /\ w[Len(w)] = "ended"
      BY <1>7 DEF TablesConsistent
    <2>2. Append(u, k)[1] = "started"
      <3>1. CASE Len(u) = 0
        BY <1>5, <1>6, <1>10, <1>14, <3>1, Ranks
      <3>2. CASE Len(u) # 0
        BY <1>6, <1>10, <1>11, <3>2
      <3>3. QED
        BY <3>1, <3>2
    <2>3. PICK w : w = Append(u, k)
      OBVIOUS
    <2>4. w # <<>> /\ w[Len(w)] = k /\ w[1] = "started" /\ updates'[e.id] = w
      BY <1>6, <1>7, <2>2, <2>3
    <2>5. LET v == updates'[e.id]
          IN  /\ row'[e.id] = "none" <=> v = <<>>
              /\ v # <<>> => v[1] = "started"
              /\ row'[e.id] = "ended" <=> v # <<>> /\ v[Len(v)] = "ended"
      BY <1>16, <2>4
    <2>6. QED
      BY <2>1, <2>5 DEF TablesConsistent
  <1>18. \A id \in IDs : row[id] \in {"ended", "orphan"} => row'[id] = row[id]
    BY <1>7, <1>12, <1>13
  <1>19. \A id \in IDs : row'[id] = "orphan" => row[id] = "orphan"
    BY <1>7, <1>16
  <1>20. QED
    BY <1>1, <1>3, <1>8, <1>17, <1>18, <1>19

\* Every step keeps the sinks' lines, and what the sinks have had, in order.
LEMMA LineStep ==
  ASSUME PipelineInv, [Next]_vars PROVE InLine' /\ SinkOrder'
  <1> USE DEF PipelineInv
  <1>1. CASE Detector
    <2>1. InLine'
      BY <1>1, StartLined, UpdateLined, EndLined DEF Detector
    <2>2. got' = got
      BY <1>1 DEF Detector, DetectStart, DetectUpdate, DetectEnd, Emit
    <2>3. QED
      BY <2>1, <2>2 DEF SinkOrder
  <1>2. CASE BusTake
    BY <1>2, BusTakeLined DEF BusTake, SinkOrder
  <1>3. ASSUME NEW t \in Sinks, BusFan(t) PROVE InLine' /\ SinkOrder'
    BY <1>3, BusFanLined DEF BusFan, SinkOrder
  <1>4. ASSUME NEW t \in Sinks, SinkTake(t) PROVE InLine' /\ SinkOrder'
    BY <1>4, SinkTakeLined
  <1>5. CASE RecTake \/ RecDrainTake
    BY <1>5, RecTakeLined DEF RecTake, RecDrainTake, Take, SinkOrder
  <1>6. CASE RecCommit
    <2>1. /\ Writing = {rec.ev} /\ Writing' = {} /\ Held' = Held \cup {rec.ev}
      BY <1>6, CommitFacts
    <2>2. /\ attackEvents' = attackEvents /\ got' = got /\ bus' = bus /\ sub' = sub
          /\ det' = det /\ ids' = ids
      BY <1>6 DEF RecCommit, detectorVars
    <2>3. ASSUME NEW s \in Sinks PROVE Lined(s)'
      <3>1. Had(s)' = Had(s)
        BY <2>1, <2>2 DEF Had, Taken
      <3>2. Fanned(s)' = Fanned(s) /\ Lined(s)
        BY <2>2 DEF Fanned, InLine
      <3>3. InOrder(sub[s])' /\ \A x \in Had(s) \cup Coming(s) : Behind(x)'
        BY <2>2, <3>2 DEF Lined, Behind
      <3>4. QED
        BY <2>2, <3>1, <3>2, <3>3, Fewer
    <2>4. Precede(Held, Writing)'
      BY <2>1 DEF Precede
    <2>5. QED
      BY <2>2, <2>3, <2>4 DEF InLine, SinkOrder
  <1>7. CASE \/ EngineDone \/ BusDone \/ RecDone \/ RecStop \/ RecTimeout \/ RecFail
             \/ Shutdown \/ UNCHANGED vars
    <2>1. /\ attackEvents' = attackEvents /\ got' = got /\ sub' = sub /\ updates' = updates
          /\ det' = det /\ ids' = ids
          /\ bus' = bus \/ bus'.todo = <<>>
          /\ rec'.ev \in {rec.ev, NoEvent}
      BY <1>7 DEF EngineDone, BusDone, IdleBus, RecDone, RecStop, RecTimeout, RecFail, RecAfter,
                  IdleRecorder, Shutdown, vars, processVars, detectorVars, dbVars, TypeOK
    <2>2. Writing' \subseteq Writing /\ Held' = Held
      BY <2>1 DEF Writing, Held
    <2>3. ASSUME NEW s \in Sinks PROVE Lined(s)'
      <3>1. Had(s)' \subseteq Had(s)
        BY <2>1, <2>2 DEF Had, Taken
      <3>2. Fanned(s)' \subseteq Fanned(s)
        <4>1. CASE bus' = bus
          BY <4>1 DEF Fanned
        <4>2. CASE bus'.todo = <<>>
          <5>1. DOMAIN bus'.todo = {}
            BY <4>2
          <5>2. QED
            BY <5>1 DEF Fanned
        <4>3. QED
          BY <2>1, <4>1, <4>2
      <3>3. Lined(s)
        BY DEF InLine
      <3>4. InOrder(sub[s])' /\ \A x \in Had(s) \cup Coming(s) : Behind(x)'
        BY <2>1, <3>3 DEF Lined, Behind
      <3>5. QED
        BY <2>1, <3>1, <3>2, <3>3, <3>4, Fewer
    <2>4. Precede(Held, Writing)'
      BY <2>2 DEF InLine, Precede
    <2>5. QED
      BY <2>1, <2>3, <2>4 DEF InLine, SinkOrder
  <1>8. CASE Exit \/ Crash \/ StartUp
    <2>1. /\ got' = got /\ updates' = updates /\ ids' = ids
          /\ \A k \in Keys : det'[k].id = 0
          /\ rec'.ev = NoEvent /\ bus'.todo = <<>>
      BY <1>8 DEF Exit, Crash, Gone, StartUp, OfThisRun, IdleBus, IdleRecorder, NoIncident, dbVars
    <2>2. /\ InOrder(attackEvents') /\ Elements(attackEvents') \subseteq Elements(attackEvents)
          /\ \A s \in Sinks : InOrder(sub'[s]) /\ Elements(sub'[s]) \subseteq Elements(sub[s])
      BY <1>8, NothingThere DEF Exit, Crash, Gone, StartUp, InLine, Lined
    <2>3. Writing' = {} /\ Held' = Held
      BY <2>1 DEF Writing, Held
    <2>4. DOMAIN bus'.todo = {}
      BY <2>1
    <2>5. ASSUME NEW s \in Sinks PROVE Lined(s)'
      <3>1. Had(s)' \subseteq Had(s) /\ Fanned(s)' = {} /\ Lined(s)
        BY <2>1, <2>3, <2>4 DEF Had, Taken, Fanned, InLine
      <3>2. \A x \in Had(s) \cup Coming(s) : Behind(x)'
        <4>1. \A x \in Had(s) \cup Coming(s) : Behind(x) /\ x.id # 0
          BY <3>1, Events DEF Lined, Event, IDs
        <4>2. QED
          BY <2>1, <4>1 DEF Behind
      <3>3. QED
        BY <2>2, <3>1, <3>2, Fewer
    <2>6. QED
      BY <2>1, <2>2, <2>3, <2>5 DEF InLine, SinkOrder, Precede
  <1>9. QED
    BY <1>1, <1>2, <1>3, <1>4, <1>5, <1>6, <1>7, <1>8 DEF Next, Bus, RecorderRun, Process

-----------------------------------------------------------------------------
(* Runs of the daemon, and the tables.                                     *)

\* A step of the goroutines brings nothing on the way but what the detector of
\* this run has just emitted, and nothing at all while the daemon is down.
LEMMA RunStep ==
  ASSUME PipelineInv, [Next]_vars PROVE OfThisRun'
  <1> USE DEF PipelineInv
  <1> attackEvents \in Seq(Event) /\ \A s \in Sinks : sub[s] \in Seq(Event)
    BY DEF TypeOK
  <1>1. ASSUME NEW k \in Keys, DetectStart(k) \/ DetectUpdate(k) \/ DetectEnd(k)
        PROVE  OfThisRun'
    <2>1. /\ engineUp /\ process' = process /\ epoch' = epoch /\ bus' = bus /\ sub' = sub
          /\ rec' = rec
      BY <1>1 DEF DetectStart, DetectUpdate, DetectEnd, Emit, processVars
    <2>2. process' # "down"
      BY <2>1 DEF OfThisRun
    <2>3. PICK id \in IDs, st \in States : Emit(id, st) /\ id > epoch
      <3>1. /\ ids \in Nat /\ epoch \in Nat /\ epoch <= ids /\ ids <= MaxIncidents
            /\ MaxIncidents \in Nat
        BY PipelineAssumption DEF TypeOK
      <3>2. det[k] # NoIncident => det[k].id \in epoch + 1 .. ids
        BY DEF OpenIncidents
      <3>3. /\ det[k] # NoIncident => det[k].id \in IDs /\ det[k].id > epoch
            /\ ids < MaxIncidents => ids + 1 \in IDs /\ ids + 1 > epoch
        BY <3>1, <3>2 DEF IDs
      <3>4. QED
        BY <1>1, <3>3 DEF DetectStart, DetectUpdate, DetectEnd, States
    <2>4. PICK e \in Event : e = [id |-> id, state |-> st]
      BY DEF Event
    <2>5. Elements(attackEvents') \subseteq Elements(attackEvents) \cup {e}
      <3>1. attackEvents' = Append(attackEvents, e) \/ attackEvents' = attackEvents
        BY <2>3, <2>4 DEF Emit
      <3>2. Elements(Append(attackEvents, e)) = Elements(attackEvents) \cup {e}
        BY PutEvent
      <3>3. QED
        BY <3>1, <3>2
    <2>6. \A s \in Sinks : Coming(s)' \subseteq Coming(s) \cup {e}
      BY <2>1, <2>5 DEF Coming, Fanned
    <2>7. QED
      BY <2>1, <2>2, <2>3, <2>4, <2>6 DEF OfThisRun, Writing
  <1>2. CASE BusTake
    <2>1. /\ Head(attackEvents) \in Elements(attackEvents)
          /\ Elements(Tail(attackEvents)) \subseteq Elements(attackEvents)
      BY <1>2, TakeHead DEF BusTake
    <2>2. /\ process' = process /\ epoch' = epoch /\ sub' = sub /\ rec' = rec
          /\ bus'.ev = Head(attackEvents) /\ attackEvents' = Tail(attackEvents)
      BY <1>2 DEF BusTake, processVars
    <2>3. \A s \in Sinks : Coming(s)' \subseteq Coming(s)
      BY <2>1, <2>2 DEF Coming, Fanned
    <2>4. process # "down"
      BY <2>1, PipelineAssumption DEF OfThisRun, Coming
    <2>5. QED
      BY <2>2, <2>3, <2>4 DEF OfThisRun, Writing
  <1>3. ASSUME NEW t \in Sinks, BusFan(t) PROVE OfThisRun'
    <2>1. /\ bus.ev \in Event /\ Fanned(t) = {bus.ev} /\ Fanned(t)' = {}
          /\ \A s \in Sinks \ {t} : Fanned(s)' = Fanned(s)
      BY <1>3, FanLeft DEF BusFan
    <2>2. /\ process' = process /\ epoch' = epoch /\ attackEvents' = attackEvents /\ rec' = rec
          /\ \A s \in Sinks \ {t} : sub'[s] = sub[s]
          /\ sub'[t] = Append(sub[t], bus.ev) \/ sub'[t] = sub[t]
      BY <1>3 DEF BusFan, processVars, TypeOK
    <2>3. Elements(Append(sub[t], bus.ev)) = Elements(sub[t]) \cup {bus.ev}
      <3>1. PICK q \in Seq(Event) : q = sub[t]
        OBVIOUS
      <3>2. PICK x \in Event : x = bus.ev
        BY <2>1
      <3>3. Elements(Append(q, x)) = Elements(q) \cup {x}
        BY PutEvent
      <3>4. QED
        BY <3>1, <3>2, <3>3
    <2>4. Elements(sub'[t]) \subseteq Elements(sub[t]) \cup {bus.ev}
      BY <2>2, <2>3
    <2>5. \A s \in Sinks : Coming(s)' \subseteq Coming(s)
      BY <2>1, <2>2, <2>4 DEF Coming
    <2>6. process # "down"
      BY <2>1 DEF OfThisRun, Coming
    <2>7. QED
      BY <2>2, <2>5, <2>6 DEF OfThisRun, Writing
  <1>4. ASSUME NEW t \in Sinks, SinkTake(t) PROVE OfThisRun'
    <2>1. Elements(Tail(sub[t])) \subseteq Elements(sub[t])
      BY <1>4, TakeHead DEF SinkTake
    <2>2. /\ process' = process /\ process # "down" /\ epoch' = epoch /\ bus' = bus
          /\ attackEvents' = attackEvents /\ rec' = rec
          /\ \A s \in Sinks \ {t} : sub'[s] = sub[s]
          /\ sub'[t] = Tail(sub[t])
      BY <1>4 DEF SinkTake, processVars, TypeOK
    <2>3. \A s \in Sinks : Coming(s)' \subseteq Coming(s)
      BY <2>1, <2>2 DEF Coming, Fanned
    <2>4. QED
      BY <2>2, <2>3 DEF OfThisRun, Writing
  <1>5. CASE RecTake \/ RecDrainTake
    <2>1. /\ sub[Recorder] # <<>> /\ sub[Recorder] \in Seq(Event) /\ Recorder \in Sinks
          /\ sub' = [sub EXCEPT ![Recorder] = Tail(sub[Recorder])]
          /\ rec'.ev = Head(sub[Recorder])
          /\ process' = process /\ epoch' = epoch /\ bus' = bus
          /\ attackEvents' = attackEvents
      BY <1>5, PipelineAssumption DEF RecTake, RecDrainTake, Take, processVars, TypeOK
    <2>2. /\ Elements(Tail(sub[Recorder])) \subseteq Elements(sub[Recorder])
          /\ Head(sub[Recorder]) \in Elements(sub[Recorder])
      BY <2>1, TakeHead
    <2>3. /\ \A s \in Sinks \ {Recorder} : sub'[s] = sub[s]
          /\ sub'[Recorder] = Tail(sub[Recorder])
      BY <2>1 DEF TypeOK
    <2>4. \A s \in Sinks : Coming(s)' \subseteq Coming(s)
      BY <2>1, <2>2, <2>3 DEF Coming, Fanned
    <2>5. process # "down" /\ Writing' \subseteq Coming(Recorder)
      BY <2>1, <2>2 DEF OfThisRun, Coming, Writing
    <2>6. QED
      BY <2>1, <2>4, <2>5 DEF OfThisRun
  <1>6. CASE \/ EngineDone \/ BusDone \/ RecDone \/ RecStop \/ RecTimeout \/ RecFail \/ RecCommit
             \/ Shutdown \/ UNCHANGED vars
    <2>1. /\ attackEvents' = attackEvents /\ sub' = sub /\ det' = det /\ epoch' = epoch
          /\ process' = "down" => process = "down"
          /\ engineUp' => engineUp
          /\ bus' = bus \/ bus'.todo = <<>>
          /\ rec'.ev \in {rec.ev, NoEvent}
      BY <1>6 DEF EngineDone, BusDone, IdleBus, RecDone, RecStop, RecTimeout, RecFail, RecCommit,
                  RecAfter, IdleRecorder, Shutdown, vars, processVars, detectorVars, TypeOK
    <2>2. Writing' \subseteq Writing
      BY <2>1 DEF Writing
    <2>3. ASSUME NEW s \in Sinks PROVE Coming(s)' \subseteq Coming(s)
      <3>1. CASE bus' = bus
        BY <2>1, <3>1 DEF Coming, Fanned
      <3>2. CASE bus'.todo = <<>>
        <4>1. DOMAIN bus'.todo = {}
          BY <3>2
        <4>2. QED
          BY <2>1, <4>1 DEF Coming, Fanned
      <3>3. QED
        BY <2>1, <3>1, <3>2
    <2>4. engineUp' \in BOOLEAN
      BY TypeStep DEF TypeOK
    <2>5. QED
      BY <2>1, <2>2, <2>3, <2>4 DEF OfThisRun, TypeOK
  <1>7. CASE Exit \/ Crash \/ StartUp
    <2>1. rec'.ev = NoEvent /\ bus'.todo = <<>>
      BY <1>7 DEF Exit, Crash, Gone, StartUp, IdleBus, IdleRecorder
    <2>2. DOMAIN bus'.todo = {} /\ Writing' = {}
      BY <2>1 DEF Writing
    <2>3. /\ Elements(attackEvents') = {}
          /\ \A s \in Sinks : Elements(sub'[s]) = {}
      <3>1. CASE Exit \/ Crash
        BY <3>1, NothingThere DEF Exit, Crash, Gone
      <3>2. CASE StartUp
        BY <3>2, PipelineAssumption DEF StartUp, OfThisRun, Coming
      <3>3. QED
        BY <1>7, <3>1, <3>2
    <2>4. \A s \in Sinks : Coming(s)' = {}
      BY <2>2, <2>3 DEF Coming, Fanned
    <2>5. process' = "down" => ~engineUp' /\ det' = [k \in Keys |-> NoIncident]
      BY <1>7 DEF Exit, Crash, Gone, StartUp
    <2>6. QED
      BY <2>2, <2>4, <2>5 DEF OfThisRun
  <1>8. QED
    BY <1>1, <1>2, <1>3, <1>4, <1>5, <1>6, <1>7
       DEF Next, Detector, Bus, RecorderRun, Process

\* The tables change when a transaction commits and when the daemon starts: they
\* stay consistent, and a closed incident stays as it was closed.
LEMMA TableStep ==
  ASSUME PipelineInv, [Next]_vars
  PROVE  /\ TablesConsistent' /\ OrphansAreOld'
         /\ \A id \in IDs : row[id] \in {"ended", "orphan"} => row'[id] = row[id]
  <1> USE DEF PipelineInv
  <1>1. CASE RecCommit
    <2>1. epoch' = epoch
      BY <1>1 DEF RecCommit, processVars
    <2>2. QED
      BY <1>1, <2>1, CommitFacts DEF OrphansAreOld
  <1>2. CASE StartUp
    <2>1. /\ epoch' = ids /\ ids \in Nat /\ epoch <= ids /\ epoch \in Nat /\ updates' = updates
      BY <1>2, PipelineAssumption DEF StartUp, TypeOK
    <2>2. \A id \in IDs : row'[id] # row[id] => row[id] = "open" /\ row'[id] = "orphan"
      BY <1>2 DEF StartUp
    <2>3. TablesConsistent'
      <3>1. \A id \in IDs : /\ row'[id] = "none" <=> row[id] = "none"
                            /\ row'[id] = "ended" <=> row[id] = "ended"
        BY <2>2
      <3>2. QED
        BY <2>1, <3>1 DEF TablesConsistent
    <2>4. OrphansAreOld'
      <3>1. ASSUME NEW id \in IDs, row[id] = "open" PROVE id <= ids
        <4>1. PICK u \in Seq({"started", "update", "ended"}) : u = updates[id]
          BY DEF TypeOK
        <4>2. u # <<>> /\ u[1] = "started"
          BY <3>1, <4>1 DEF TablesConsistent
        <4>3. 1 \in DOMAIN u
          BY <4>2
        <4>4. PICK x \in Event : x = [id |-> id, state |-> "started"]
          BY DEF Event, States
        <4>5. x \in Had(Recorder) /\ Recorder \in Sinks
          BY <4>1, <4>2, <4>3, <4>4, Ranks, PipelineAssumption DEF Had, Held
        <4>6. Behind(x)
          BY <4>5 DEF InLine, Lined
        <4>7. QED
          BY <4>4, <4>6 DEF Behind
      <3>2. \A id \in IDs : id \in Nat
        BY PipelineAssumption DEF IDs
      <3>3. QED
        BY <2>1, <2>2, <3>1, <3>2 DEF OrphansAreOld
    <2>5. QED
      BY <2>2, <2>3, <2>4
  <1>3. CASE ~RecCommit /\ ~StartUp
    <2>1. row' = row /\ updates' = updates /\ epoch' = epoch
      BY <1>3
         DEF Next, Detector, DetectStart, DetectUpdate, DetectEnd, Emit, EngineDone, Bus,
             BusTake, BusFan, BusDone, SinkTake, RecorderRun, RecTake, RecDrainTake, Take,
             RecDone, RecStop, RecTimeout, RecFail, Process, Shutdown, Exit, Crash, Gone,
             vars, processVars, dbVars
    <2>2. QED
      BY <2>1 DEF TablesConsistent, OrphansAreOld
  <1>4. QED
    BY <1>1, <1>2, <1>3

-----------------------------------------------------------------------------
(* The theorems.                                                           *)

\* At the start nothing is on its way and the tables are empty.
LEMMA InitInv == Init => PipelineInv
  <1> SUFFICES ASSUME Init PROVE PipelineInv
    OBVIOUS
  <1>1. /\ bus = [pc |-> "select", ev |-> NoEvent, todo |-> <<>>]
        /\ rec = [pc |-> "select", ev |-> NoEvent, dead |-> FALSE]
    BY DEF Init, IdleBus, IdleRecorder
  <1>2. DOMAIN bus.todo = {} /\ bus.todo = <<>> /\ bus.pc = "select"
    BY <1>1
  <1>3. bus \in [pc : {"select", "fan", "stopped"}, ev : Event \cup {NoEvent},
                 todo : Seq(Sinks)]
    BY <1>1, NothingThere
  <1>4. /\ attackEvents = <<>> /\ \A s \in Sinks : sub[s] = <<>>
        /\ \A id \in IDs : updates[id] = <<>> /\ row[id] = "none"
        /\ \A s \in Sinks, id \in IDs : got[s][id] = <<>>
        /\ \A k \in Keys : det[k] = NoIncident
    BY DEF Init
  <1>5. TypeOK
    <2>1. /\ sub \in [Sinks -> Seq(Event)] /\ \A s \in Sinks : Len(sub[s]) <= SubCap
          /\ attackEvents \in Seq(Event) /\ Len(attackEvents) <= InCap
      BY NothingThere, PipelineAssumption DEF Init
    <2>2. /\ updates \in [IDs -> Seq({"started", "update", "ended"})]
          /\ emitted \in [IDs -> Seq(States)]
          /\ got \in [Sinks -> [IDs -> Seq(States)]]
      BY NothingThere DEF Init
    <2>3. /\ det \in [Keys -> [id : 0 .. MaxIncidents, updated : BOOLEAN]]
          /\ ids \in 0 .. MaxIncidents /\ epoch \in 0 .. ids /\ starts \in 1 .. MaxStarts
      BY PipelineAssumption DEF Init, NoIncident
    <2>4. QED
      BY <1>1, <1>3, <2>1, <2>2, <2>3 DEF Init, TypeOK
  <1>6. AtWork
    BY <1>1, <1>2 DEF AtWork
  <1>7. OpenIncidents
    BY <1>4 DEF OpenIncidents
  <1>8. \A s \in Sinks : Had(s) = {} /\ Coming(s) = {} /\ Held = {} /\ Writing = {}
    <2>1. \A id \in IDs : DOMAIN updates[id] = {} /\ \A s \in Sinks : DOMAIN got[s][id] = {}
      BY <1>4
    <2>2. \A e \in Event : e.id \in IDs
      BY DEF Event
    <2>3. Held = {} /\ Writing = {} /\ \A s \in Sinks : Taken(s) = {}
      BY <1>1, <2>1, <2>2 DEF Held, Writing, Taken
    <2>4. QED
      BY <1>2, <1>4, <2>3, NothingThere DEF Had, Coming, Fanned
  <1>9. \A s \in Sinks : Elements(sub[s]) = {} /\ Fanned(s) = {} /\ Elements(attackEvents) = {}
    BY <1>8 DEF Coming
  <1>10. InLine
    BY <1>4, <1>8, <1>9, NothingThere, PipelineAssumption DEF InLine, Lined, Precede
  <1>11. OfThisRun
    BY <1>8 DEF OfThisRun, Init
  <1>12. TablesConsistent /\ OrphansAreOld
    BY <1>4 DEF TablesConsistent, OrphansAreOld
  <1>13. SinkOrder
    <2>1. \A s \in Sinks, id \in IDs : Len(got[s][id]) = 0
      BY <1>4
    <2>2. QED
      BY <2>1 DEF SinkOrder, Ordered
  <1>14. QED
    BY <1>5, <1>6, <1>7, <1>10, <1>11, <1>12, <1>13 DEF PipelineInv

\* The lines of events from the detector to the sinks are an invariant.
LEMMA Invariant == Spec => []PipelineInv
  <1>1. PipelineInv /\ [Next]_vars => PipelineInv'
    <2> SUFFICES ASSUME PipelineInv, [Next]_vars PROVE PipelineInv'
      OBVIOUS
    <2>1. TypeOK' /\ AtWork'
      BY TypeStep DEF PipelineInv
    <2>2. OpenIncidents'
      BY OpenStep DEF PipelineInv
    <2>3. QED
      BY <2>1, <2>2, LineStep, RunStep, TableStep DEF PipelineInv
  <1>2. QED
    BY <1>1, InitInv, PTL DEF Spec

\* The two tables always tell the same story of an incident, whatever was lost on
\* the way, failed to be written or was cut off by a crash (Create, Update, End).
THEOREM TablesAgree == Spec => []PipelineSafe
  <1>1. PipelineInv => PipelineSafe
    BY DEF PipelineInv, PipelineSafe
  <1>2. QED
    BY <1>1, Invariant, PTL

\* No sink of the bus sees the events of an incident out of order or twice.
THEOREM SinksInOrder == Spec => []SinkOrder
  <1>1. PipelineInv => SinkOrder
    BY DEF PipelineInv
  <1>2. QED
    BY <1>1, Invariant, PTL

\* What has been closed, by its end or by crash recovery, is never touched again:
\* nothing that is still on its way belongs to a closed incident.
THEOREM ClosedStaysClosed == Spec => ClosedIsFinal
  <1>1. PipelineInv /\ [Next]_vars =>
          [\A id \in IDs : row[id] \in {"ended", "orphan"} => row'[id] = row[id]]_vars
    BY TableStep
  <1>2. QED
    BY <1>1, Invariant, PTL DEF Spec, ClosedIsFinal

-----------------------------------------------------------------------------
(* The line of events from the detector to the recorder, as a sequence.    *)

\* Induction over the natural numbers, for a set.
LEMMA SetInduction ==
  ASSUME NEW T \in SUBSET Nat, 0 \in T, \A n \in T : n + 1 \in T
  PROVE  T = Nat
  <1> DEFINE U == Nat \ T
  <1>1. ASSUME U # {} PROVE FALSE
    <2>1. IsWellFoundedOn(OpToRel(<, Nat), Nat)
      BY NatLessThanWellFounded
    <2>2. PICK x \in U : \A y \in U : <<y, x>> \notin OpToRel(<, Nat)
      BY <1>1, <2>1, WFMin
    <2>3. \A y \in U : ~(y < x)
      BY <2>2 DEF OpToRel
    <2>4. QED
      BY <2>3
  <1>2. QED
    BY <1>1

\* Channels, and what an incident has in them, may be joined in any order.
LEMMA EventsJoined ==
  ASSUME NEW p \in Seq(Event), NEW q \in Seq(Event), NEW r \in Seq(Event)
  PROVE  /\ p \o q \in Seq(Event)
         /\ (p \o q) \o r = p \o (q \o r)
  BY ConcatProperties, ConcatAssociative

LEMMA StatesJoined ==
  ASSUME NEW p \in Seq(States), NEW q \in Seq(States), NEW r \in Seq(States)
  PROVE  /\ p \o q \in Seq(States)
         /\ (p \o q) \o r = p \o (q \o r)
  BY ConcatProperties, ConcatAssociative

\* What StatesOf has picked of the first n events of a channel.
Picked(q, id, g) ==
  \A n \in 0 .. Len(q) :
    g[n] = IF n = 0 THEN <<>>
           ELSE IF q[n].id = id THEN Append(g[n - 1], q[n].state) ELSE g[n - 1]

\* The events of a channel.
LEMMA EventsIn ==
  ASSUME NEW q \in Seq(Event)
  PROVE  /\ Len(q) \in Nat
         /\ \A n \in 1 .. Len(q) : q[n] \in Event /\ q[n].state \in States
  <1>1. Len(q) \in Nat
    BY LenProperties
  <1>2. ASSUME NEW n \in 1 .. Len(q) PROVE q[n] \in Event
    BY ElementOfSeq
  <1>3. \A e \in Event : e.state \in States
    BY DEF Event
  <1>4. QED
    BY <1>1, <1>2, <1>3

\* The recursion of StatesOf defines a function.
LEMMA PickedExists ==
  ASSUME NEW q \in Seq(Event), NEW id
  PROVE  \E g \in [0 .. Len(q) -> Seq(States)] : Picked(q, id, g)
  <1> DEFINE Step(g, n) ==
               g[n] = IF n = 0 THEN <<>>
                      ELSE IF q[n].id = id THEN Append(g[n - 1], q[n].state) ELSE g[n - 1]
             Upto(m) == \E g \in [0 .. m -> Seq(States)] : \A n \in 0 .. m : Step(g, n)
             T == {m \in Nat : m <= Len(q) => Upto(m)}
  <1>1. Len(q) \in Nat /\ \A n \in 1 .. Len(q) : q[n].state \in States
    BY EventsIn
  <1>2. 0 \in T
    <2> DEFINE g == [n \in 0 .. 0 |-> <<>>]
    <2>1. g \in [0 .. 0 -> Seq(States)] /\ \A n \in 0 .. 0 : Step(g, n)
      BY EmptySeq
    <2>2. QED
      BY <2>1
  <1> HIDE DEF Upto
  <1>3. ASSUME NEW m \in T PROVE m + 1 \in T
    <2>0. m \in Nat /\ (m <= Len(q) => Upto(m))
      OBVIOUS
    <2> SUFFICES ASSUME m + 1 <= Len(q) PROVE Upto(m + 1)
      BY <2>0
    <2> HIDE DEF T
    <2>1. m \in Nat /\ m + 1 \in 1 .. Len(q) /\ m <= Len(q)
      BY <1>1, <2>0
    <2>2. PICK g \in [0 .. m -> Seq(States)] : \A n \in 0 .. m : Step(g, n)
      BY <2>0, <2>1 DEF Upto
    <2> DEFINE last == IF q[m + 1].id = id THEN Append(g[m], q[m + 1].state) ELSE g[m]
               h == [n \in 0 .. m + 1 |-> IF n = m + 1 THEN last ELSE g[n]]
    <2>3. last \in Seq(States)
      <3>1. g[m] \in Seq(States) /\ q[m + 1].state \in States
        BY <1>1, <2>1
      <3>2. QED
        BY <3>1, AppendProperties
    <2>4. \A n \in 0 .. m + 1 : n = m + 1 \/ n \in 0 .. m
      BY <2>1
    <2> HIDE DEF last
    <2>5. h \in [0 .. m + 1 -> Seq(States)]
      BY <2>3, <2>4
    <2>6. ASSUME NEW n \in 0 .. m + 1 PROVE Step(h, n)
      <3>1. CASE n = m + 1
        <4>1. n # 0 /\ n - 1 = m /\ m \in 0 .. m + 1 /\ m # m + 1
          BY <2>1, <3>1
        <4>2. h[n] = last /\ h[n - 1] = g[m]
          BY <3>1, <4>1
        <4>3. QED
          BY <3>1, <4>1, <4>2 DEF last
      <3>2. CASE n # m + 1
        <4>1. n \in 0 .. m /\ h[n] = g[n]
          BY <2>4, <3>2
        <4>2. n # 0 => n - 1 \in 0 .. m + 1 /\ n - 1 # m + 1
          BY <2>1, <4>1
        <4>3. n # 0 => h[n - 1] = g[n - 1]
          BY <4>2
        <4>4. QED
          BY <2>2, <4>1, <4>3
      <3>3. QED
        BY <3>1, <3>2
    <2> HIDE DEF h, Step
    <2>7. QED
      BY <2>5, <2>6 DEF Upto
  <1> HIDE DEF T
  <1>4. T = Nat
    BY <1>2, <1>3, SetInduction DEF T
  <1>5. Upto(Len(q))
    BY <1>1, <1>4 DEF T
  <1>6. QED
    BY <1>5 DEF Upto, Picked

\* StatesOf is what has been picked of the whole channel.
LEMMA StatesOfPicked ==
  ASSUME NEW q \in Seq(Event), NEW id
  PROVE  \E g \in [0 .. Len(q) -> Seq(States)] : Picked(q, id, g) /\ StatesOf(q, id) = g[Len(q)]
  <1> DEFINE Is(g) == g = [n \in 0 .. Len(q) |->
                             IF n = 0 THEN <<>>
                             ELSE IF q[n].id = id THEN Append(g[n - 1], q[n].state)
                                  ELSE g[n - 1]]
             s == CHOOSE g : Is(g)
  <1>1. PICK g \in [0 .. Len(q) -> Seq(States)] : Picked(q, id, g)
    BY PickedExists
  <1>2. Is(g)
    BY <1>1 DEF Picked
  <1>3. Is(s)
    BY <1>2
  <1>4. StatesOf(q, id) = s[Len(q)]
    BY DEF StatesOf
  <1> HIDE DEF s
  <1>5. Picked(q, id, s)
    BY <1>3 DEF Picked
  <1> DEFINE T == {m \in Nat : m <= Len(q) => s[m] \in Seq(States)}
  <1>6. Len(q) \in Nat /\ \A n \in 1 .. Len(q) : q[n].state \in States
    BY EventsIn
  <1>7. 0 \in T
    <2>1. 0 \in 0 .. Len(q) /\ <<>> \in Seq(States)
      BY <1>6, EmptySeq
    <2>2. s[0] = <<>>
      BY <1>5, <2>1 DEF Picked
    <2>3. QED
      BY <2>1, <2>2
  <1>8. ASSUME NEW m \in T PROVE m + 1 \in T
    <2> SUFFICES ASSUME m + 1 <= Len(q) PROVE s[m + 1] \in Seq(States)
      OBVIOUS
    <2>1. /\ m + 1 \in 0 .. Len(q) /\ m + 1 # 0 /\ (m + 1) - 1 = m
          /\ s[m] \in Seq(States) /\ q[m + 1].state \in States
      BY <1>6
    <2>2. s[m + 1] = IF q[m + 1].id = id THEN Append(s[m], q[m + 1].state) ELSE s[m]
      BY <1>5, <2>1 DEF Picked
    <2>3. QED
      BY <2>1, <2>2, AppendProperties
  <1> HIDE DEF T
  <1>9. \A m \in 0 .. Len(q) : s[m] \in Seq(States)
    <2>1. T = Nat
      BY <1>7, <1>8, SetInduction DEF T
    <2>2. \A m \in 0 .. Len(q) : m \in T /\ m <= Len(q)
      BY <1>6, <2>1
    <2>3. QED
      BY <2>2 DEF T
  <1>10. s \in [0 .. Len(q) -> Seq(States)]
    BY <1>3, <1>9
  <1>11. QED
    BY <1>4, <1>5, <1>10

\* Of no event nothing, and of one event more its state, if it is of the incident.
LEMMA StatesOfEmpty ==
  ASSUME NEW id
  PROVE  StatesOf(<<>>, id) = <<>>
  <1>1. <<>> \in Seq(Event) /\ Len(<<>>) = 0
    BY EmptySeq
  <1>2. PICK g \in [0 .. 0 -> Seq(States)] :
          Picked(<<>>, id, g) /\ StatesOf(<<>>, id) = g[0]
    BY <1>1, StatesOfPicked
  <1>3. g[0] = <<>>
    BY <1>1, <1>2 DEF Picked
  <1>4. QED
    BY <1>2, <1>3

LEMMA StatesOfAppend ==
  ASSUME NEW q \in Seq(Event), NEW e \in Event, NEW id
  PROVE  /\ StatesOf(q, id) \in Seq(States)
         /\ StatesOf(Append(q, e), id) =
              IF e.id = id THEN Append(StatesOf(q, id), e.state) ELSE StatesOf(q, id)
  <1> DEFINE p == Append(q, e)
             k == Len(q)
  <1>1. /\ k \in Nat /\ p \in Seq(Event) /\ Len(p) = k + 1
        /\ \A i \in 1 .. k : p[i] = q[i]
        /\ p[k + 1] = e
    BY AppendProperties, LenProperties
  <1>2. PICK g \in [0 .. k -> Seq(States)] : Picked(q, id, g) /\ StatesOf(q, id) = g[k]
    BY StatesOfPicked
  <1> HIDE DEF p
  <1>3. PICK h \in [0 .. k + 1 -> Seq(States)] :
          Picked(p, id, h) /\ StatesOf(p, id) = h[k + 1]
    BY <1>1, StatesOfPicked
  <1> HIDE DEF k
  <1> DEFINE T == {m \in Nat : m <= k => h[m] = g[m]}
  <1>4. 0 \in T
    BY <1>1, <1>2, <1>3 DEF Picked, k
  <1>5. ASSUME NEW m \in T PROVE m + 1 \in T
    <2> SUFFICES ASSUME m + 1 <= k PROVE h[m + 1] = g[m + 1]
      OBVIOUS
    <2>0. m \in Nat /\ m <= k /\ m + 1 \in 1 .. k
      BY <1>1
    <2>1. /\ m + 1 \in 0 .. k /\ m + 1 \in 0 .. k + 1 /\ m + 1 # 0 /\ (m + 1) - 1 = m
          /\ h[m] = g[m] /\ p[m + 1] = q[m + 1]
      BY <1>1, <2>0
    <2>2. h[m + 1] = IF p[m + 1].id = id THEN Append(h[m], p[m + 1].state) ELSE h[m]
      BY <1>1, <1>3, <2>1 DEF Picked
    <2>3. g[m + 1] = IF q[m + 1].id = id THEN Append(g[m], q[m + 1].state) ELSE g[m]
      BY <1>2, <2>1 DEF Picked, k
    <2>4. QED
      BY <2>1, <2>2, <2>3
  <1> HIDE DEF T
  <1>6. h[k] = g[k]
    <2>1. T = Nat
      BY <1>4, <1>5, SetInduction DEF T
    <2>2. k \in T /\ k <= k
      BY <1>1, <2>1
    <2>3. QED
      BY <2>2 DEF T
  <1>7. k + 1 \in 0 .. k + 1 /\ k + 1 # 0 /\ (k + 1) - 1 = k
    BY <1>1
  <1>8. h[k + 1] = IF p[k + 1].id = id THEN Append(h[k], p[k + 1].state) ELSE h[k]
    BY <1>1, <1>3, <1>7 DEF Picked
  <1>9. k \in 0 .. k
    BY <1>1
  <1>10. QED
    BY <1>1, <1>2, <1>3, <1>6, <1>8, <1>9 DEF p

\* What an incident has in two channels, one behind the other.
LEMMA StatesOfConcat ==
  ASSUME NEW q \in Seq(Event), NEW r \in Seq(Event), NEW id
  PROVE  /\ q \o r \in Seq(Event)
         /\ StatesOf(q, id) \in Seq(States) /\ StatesOf(r, id) \in Seq(States)
         /\ StatesOf(q \o r, id) = StatesOf(q, id) \o StatesOf(r, id)
  <1>1. ASSUME NEW s \in Seq(Event)
        PROVE  StatesOf(s, id) \in Seq(States)
    <2>1. PICK g \in [0 .. Len(s) -> Seq(States)] : StatesOf(s, id) = g[Len(s)]
      BY StatesOfPicked
    <2>2. Len(s) \in 0 .. Len(s)
      BY LenProperties
    <2>3. QED
      BY <2>1, <2>2
  <1> DEFINE Joins(s) == StatesOf(q \o s, id) = StatesOf(q, id) \o StatesOf(s, id)
             T == {n \in Nat : \A s \in Seq(Event) : Len(s) = n => Joins(s)}
  <1>2. 0 \in T
    <2>1. ASSUME NEW s \in Seq(Event), Len(s) = 0 PROVE Joins(s)
      <3>1. s = <<>>
        BY <2>1, EmptySeq
      <3>2. q \o <<>> = q /\ StatesOf(q, id) \o <<>> = StatesOf(q, id)
        BY <1>1, ConcatEmptySeq
      <3>3. QED
        BY <3>1, <3>2, StatesOfEmpty
    <2>2. QED
      BY <2>1
  <1>3. ASSUME NEW n \in T PROVE n + 1 \in T
    <2>1. ASSUME NEW s \in Seq(Event), Len(s) = n + 1 PROVE Joins(s)
      <3>1. n \in Nat /\ s # <<>>
        BY <2>1, EmptySeq
      <3>2. PICK t \in Seq(Event) : \E x \in Event : s = Append(t, x)
        BY <3>1, SequenceEmptyOrAppend
      <3>3. PICK e \in Event : s = Append(t, e)
        BY <3>2
      <3>4. Len(t) = n
        <4>1. Len(t) \in Nat /\ Len(s) = Len(t) + 1
          BY <3>3, AppendProperties, LenProperties
        <4>2. QED
          BY <2>1, <3>1, <4>1
      <3>5. Joins(t)
        BY <3>4
      <3>6. q \o s = Append(q \o t, e) /\ q \o t \in Seq(Event)
        <4>1. /\ q \o t \in Seq(Event) /\ <<e>> \in Seq(Event)
              /\ s = t \o <<e>> /\ Append(q \o t, e) = (q \o t) \o <<e>>
          BY <3>3, ConcatProperties, AppendIsConcat
        <4>2. QED
          BY <4>1, ConcatAssociative
      <3>7. /\ StatesOf(t, id) \in Seq(States) /\ StatesOf(q, id) \in Seq(States)
            /\ e.state \in States
        BY <1>1 DEF Event
      <3>8. Append(StatesOf(q, id) \o StatesOf(t, id), e.state)
              = StatesOf(q, id) \o Append(StatesOf(t, id), e.state)
        <4>1. /\ StatesOf(q, id) \o StatesOf(t, id) \in Seq(States)
              /\ <<e.state>> \in Seq(States)
          BY <3>7, ConcatProperties
        <4>2. /\ Append(StatesOf(q, id) \o StatesOf(t, id), e.state)
                   = (StatesOf(q, id) \o StatesOf(t, id)) \o <<e.state>>
              /\ Append(StatesOf(t, id), e.state) = StatesOf(t, id) \o <<e.state>>
          BY <3>7, <4>1, AppendIsConcat
        <4>3. PICK u \in Seq(States), v \in Seq(States), x \in Seq(States) :
                u = StatesOf(q, id) /\ v = StatesOf(t, id) /\ x = <<e.state>>
          BY <3>7, <4>1
        <4>4. (u \o v) \o x = u \o (v \o x)
          BY StatesJoined
        <4>5. QED
          BY <4>2, <4>3, <4>4
      <3>9. StatesOf(s, id) = IF e.id = id THEN Append(StatesOf(t, id), e.state)
                              ELSE StatesOf(t, id)
        BY <3>3, StatesOfAppend
      <3>10. StatesOf(q \o s, id) = IF e.id = id THEN Append(StatesOf(q \o t, id), e.state)
                                    ELSE StatesOf(q \o t, id)
        <4>1. StatesOf(Append(q \o t, e), id) =
                IF e.id = id THEN Append(StatesOf(q \o t, id), e.state)
                ELSE StatesOf(q \o t, id)
          BY <3>6, StatesOfAppend
        <4>2. QED
          BY <3>6, <4>1
      <3>11. QED
        BY <3>5, <3>8, <3>9, <3>10
    <2>2. QED
      BY <2>1
  <1> HIDE DEF T, Joins
  <1>4. T = Nat
    BY <1>2, <1>3, SetInduction DEF T
  <1>5. Len(r) \in Nat
    BY LenProperties
  <1>6. Joins(r)
    BY <1>4, <1>5 DEF T
  <1>7. QED
    BY <1>1, <1>6, ConcatProperties DEF Joins

\* Each of these by itself.
LEMMA StatesIn ==
  ASSUME NEW q \in Seq(Event), NEW id
  PROVE  StatesOf(q, id) \in Seq(States)
  <1>1. <<>> \in Seq(Event)
    BY EmptySeq
  <1>2. QED
    BY <1>1, StatesOfConcat

LEMMA StatesOfBoth ==
  ASSUME NEW q \in Seq(Event), NEW r \in Seq(Event), NEW id
  PROVE  StatesOf(q \o r, id) = StatesOf(q, id) \o StatesOf(r, id)
  BY StatesOfConcat

\* The first event of a channel and the rest of it.
LEMMA HeadFirst ==
  ASSUME NEW q \in Seq(Event), q # <<>>
  PROVE  /\ Head(q) \in Event /\ Tail(q) \in Seq(Event) /\ <<Head(q)>> \in Seq(Event)
         /\ q = <<Head(q)>> \o Tail(q)
  <1>1. /\ Head(q) \in Event /\ Tail(q) \in Seq(Event)
        /\ Len(Tail(q)) = Len(q) - 1
        /\ \A i \in 1 .. Len(Tail(q)) : Tail(q)[i] = q[i + 1]
        /\ Len(q) \in Nat \ {0} /\ Head(q) = q[1]
    BY HeadTailProperties, EmptySeq, LenProperties
  <1> DEFINE s == <<Head(q)>>
             p == s \o Tail(q)
  <1>2. s \in Seq(Event) /\ Len(s) = 1 /\ s[1] = q[1]
    BY <1>1
  <1> HIDE DEF s
  <1>3. /\ p \in Seq(Event) /\ Len(p) = 1 + Len(Tail(q))
        /\ \A i \in 1 .. 1 + Len(Tail(q)) :
             p[i] = IF i <= 1 THEN s[i] ELSE Tail(q)[i - 1]
    <2> DEFINE t == Tail(q)
    <2>1. s \in Seq(Event) /\ t \in Seq(Event)
      BY <1>1, <1>2
    <2> HIDE DEF t
    <2>2. /\ s \o t \in Seq(Event) /\ Len(s \o t) = Len(s) + Len(t)
          /\ \A i \in 1 .. Len(s) + Len(t) :
               (s \o t)[i] = IF i <= Len(s) THEN s[i] ELSE t[i - Len(s)]
      BY <2>1, ConcatProperties
    <2>3. QED
      BY <1>2, <2>2 DEF t
  <1> HIDE DEF p
  <1>4. ASSUME NEW i \in 1 .. Len(q) PROVE p[i] = q[i]
    <2>1. CASE i = 1
      BY <1>1, <1>2, <1>3, <2>1
    <2>2. CASE i # 1
      <3>1. i - 1 \in 1 .. Len(Tail(q)) /\ (i - 1) + 1 = i
        BY <1>1, <2>2
      <3>2. QED
        BY <1>1, <1>3, <2>2, <3>1
    <2>3. QED
      BY <2>1, <2>2
  <1>5. p = q
    <2>1. Len(p) = Len(q)
      BY <1>1, <1>3
    <2>2. QED
      BY <1>3, <1>4, <2>1, SeqEqual
  <1>6. QED
    BY <1>1, <1>2, <1>5 DEF p, s

\* Putting an event at the end of two channels puts it at the end of the second.
LEMMA PutBehind ==
  ASSUME NEW p \in Seq(Event), NEW q \in Seq(Event), NEW e \in Event
  PROVE  /\ Append(p \o q, e) = p \o Append(q, e)
         /\ Append(p, e) = p \o <<e>> /\ <<e>> \in Seq(Event)
  <1>1. PICK w \in Seq(Event) : w = <<e>>
    <2>1. <<e>> \in Seq(Event)
      OBVIOUS
    <2>2. QED
      BY <2>1
  <1>2. p \o q \in Seq(Event)
    BY ConcatProperties
  <1>3. Append(p \o q, e) = (p \o q) \o w
    BY <1>1, <1>2, AppendIsConcat
  <1>4. Append(q, e) = q \o w
    BY <1>1, AppendIsConcat
  <1>5. Append(p, e) = p \o w
    BY <1>1, AppendIsConcat
  <1>6. (p \o q) \o w = p \o (q \o w)
    BY ConcatAssociative
  <1>7. QED
    BY <1>1, <1>3, <1>4, <1>5, <1>6

\* A line of a single event, and its state.
LEMMA StatesOfOne ==
  ASSUME NEW e \in Event, NEW id
  PROVE  \E h \in Seq(Event) :
           /\ h = <<e>>
           /\ e.id = id => StatesOf(h, id) = <<e.state>>
           /\ e.id # id => StatesOf(h, id) = <<>>
  <1>1. <<>> \in Seq(Event) /\ <<e>> = Append(<<>>, e) /\ <<e>> \in Seq(Event)
    OBVIOUS
  <1>2. PICK none \in Seq(Event) : none = <<>>
    BY <1>1
  <1>3. StatesOf(Append(none, e), id) =
          IF e.id = id THEN Append(StatesOf(none, id), e.state) ELSE StatesOf(none, id)
    BY StatesOfAppend
  <1>4. StatesOf(none, id) = <<>>
    BY <1>2, StatesOfEmpty
  <1>5. PICK h \in Seq(Event) : h = <<e>>
    BY <1>1
  <1>6. Append(none, e) = h
    BY <1>1, <1>2, <1>5
  <1>7. StatesOf(h, id) = IF e.id = id THEN Append(<<>>, e.state) ELSE <<>>
    BY <1>3, <1>4, <1>6
  <1>8. Append(<<>>, e.state) = <<e.state>>
    OBVIOUS
  <1>9. e.id = id => StatesOf(h, id) = <<e.state>>
    BY <1>7, <1>8
  <1>10. e.id # id => StatesOf(h, id) = <<>>
    BY <1>7
  <1>11. QED
    BY <1>5, <1>9, <1>10

\* An event in the middle of a line means nothing to another incident.
LEMMA StatesOfOthers ==
  ASSUME NEW p \in Seq(Event), NEW r \in Seq(Event), NEW e \in Event, NEW id, e.id # id
  PROVE  StatesOf((p \o <<e>>) \o r, id) = StatesOf(p \o r, id)
  <1>1. PICK s \in Seq(Event) :
          s = <<e>> /\ (e.id = id => StatesOf(s, id) = <<e.state>>)
          /\ (e.id # id => StatesOf(s, id) = <<>>)
    BY StatesOfOne
  <1>2. p \o s \in Seq(Event)
    BY EventsJoined
  <1>3. StatesOf(p, id) \in Seq(States)
    BY StatesIn
  <1>4. StatesOf(p, id) \o <<>> = StatesOf(p, id)
    BY <1>3, ConcatEmptySeq
  <1>5. StatesOf(p \o s, id) = StatesOf(p, id)
    <2>1. StatesOf(p \o s, id) = StatesOf(p, id) \o StatesOf(s, id)
      BY StatesOfBoth
    <2>2. QED
      BY <1>1, <1>4, <2>1
  <1>6. StatesOf((p \o s) \o r, id) = StatesOf(p \o s, id) \o StatesOf(r, id)
    <2>1. PICK m \in Seq(Event) : m = p \o s
      BY <1>2
    <2>2. StatesOf(m \o r, id) = StatesOf(m, id) \o StatesOf(r, id)
      BY StatesOfBoth
    <2>3. QED
      BY <2>1, <2>2
  <1>7. StatesOf(p \o r, id) = StatesOf(p, id) \o StatesOf(r, id)
    BY StatesOfBoth
  <1>8. QED
    BY <1>1, <1>5, <1>6, <1>7

-----------------------------------------------------------------------------
(* Nothing is lost silently.                                               *)

\* The recorder's line, from the event in its hands to the channel of the engine.
HandOf(r) == IF r.ev = NoEvent THEN <<>> ELSE <<r.ev>>
WithBus(b) == IF \E i \in DOMAIN b.todo : b.todo[i] = Recorder THEN <<b.ev>> ELSE <<>>
Line == HandOf(rec) \o sub[Recorder] \o WithBus(bus) \o attackEvents

\* What the attack_updates rows of an incident say that the detector emitted.
Recorded(u) == [i \in 1 .. Len(u) |-> IF u[i] = "update" THEN "updated" ELSE u[i]]

\* NoSilentLoss in these terms, now and after a step.
LEMMA LossIsOfLine ==
  /\ NoSilentLoss <=> \A id \in IDs \ lost :
       emitted[id] = Recorded(updates[id]) \o StatesOf(Line, id)
  /\ NoSilentLoss' <=> \A id \in IDs \ lost' :
       emitted'[id] = Recorded(updates'[id]) \o StatesOf(Line', id)
  /\ \A id \in IDs : InFlight(id) = StatesOf(Line, id)
  BY DEF NoSilentLoss, InFlight, Line, HandOf, WithBus, Recorded

\* The four parts of the line.
LEMMA LineParts ==
  ASSUME PipelineInv
  PROVE  /\ HandOf(rec) \in Seq(Event) /\ sub[Recorder] \in Seq(Event)
         /\ WithBus(bus) \in Seq(Event) /\ attackEvents \in Seq(Event)
         /\ HandOf(rec) \o sub[Recorder] \in Seq(Event)
         /\ HandOf(rec) \o sub[Recorder] \o WithBus(bus) \in Seq(Event)
         /\ Line \in Seq(Event)
  <1>1. sub[Recorder] \in Seq(Event) /\ attackEvents \in Seq(Event)
    BY PipelineAssumption DEF PipelineInv, TypeOK
  <1>2. HandOf(rec) \in Seq(Event)
    <2>1. rec.ev = NoEvent \/ rec.ev \in Event
      BY DEF PipelineInv, TypeOK
    <2>2. QED
      BY <2>1 DEF HandOf
  <1>3. WithBus(bus) \in Seq(Event)
    <2>1. CASE bus.pc = "fan"
      BY <2>1 DEF PipelineInv, AtWork, WithBus
    <2>2. CASE bus.pc # "fan"
      <3>1. DOMAIN bus.todo = {}
        BY <2>2 DEF PipelineInv, AtWork
      <3>2. QED
        BY <3>1 DEF WithBus
    <2>3. QED
      BY <2>1, <2>2
  <1>4. QED
    BY <1>1, <1>2, <1>3, ConcatProperties DEF Line

\* A committed event is one row more.
LEMMA RecordedAppend ==
  ASSUME NEW u \in Seq({"started", "update", "ended"}), NEW st \in States
  PROVE  /\ Recorded(u) \in Seq(States)
         /\ Recorded(Append(u, Kind(st))) = Append(Recorded(u), st)
  <1> DEFINE p == Append(u, Kind(st))
             k == Len(u)
             Said(x) == IF x = "update" THEN "updated" ELSE x
  <1>1. Kind(st) \in {"started", "update", "ended"} /\ Said(Kind(st)) = st
    BY Ranks DEF States
  <1>2. /\ k \in Nat /\ Len(p) = k + 1
        /\ \A i \in 1 .. k : p[i] = u[i]
        /\ p[k + 1] = Kind(st)
        /\ \A i \in 1 .. k : u[i] \in {"started", "update", "ended"}
    BY <1>1, AppendProperties, LenProperties
  <1>3. \A i \in 1 .. k : Said(u[i]) \in States
    BY <1>2 DEF States
  <1>4. Recorded(u) = [i \in 1 .. k |-> Said(u[i])]
    BY DEF Recorded
  <1> HIDE DEF p, k, Said
  <1>5. Recorded(u) \in [1 .. k -> States]
    BY <1>3, <1>4
  <1>6. Recorded(u) \in Seq(States) /\ Len(Recorded(u)) = k
    BY <1>2, <1>5
  <1>7. Recorded(p) = [i \in 1 .. k + 1 |-> Said(p[i])]
    BY <1>2 DEF Recorded, Said
  <1> DEFINE a == Append(Recorded(u), st)
             b == Recorded(p)
  <1>8. /\ a \in Seq(States) /\ Len(a) = k + 1
        /\ \A i \in 1 .. k : a[i] = Recorded(u)[i]
        /\ a[k + 1] = st
    BY <1>6, AppendProperties
  <1>9. \A i \in 1 .. k + 1 : i \in 1 .. k \/ i = k + 1
    BY <1>2
  <1>10. \A i \in 1 .. k + 1 : b[i] = a[i]
    <2> HIDE DEF a
    <2>1. ASSUME NEW i \in 1 .. k PROVE b[i] = a[i]
      <3>1. i \in 1 .. k + 1
        BY <1>2
      <3>2. p[i] = u[i]
        BY <1>2
      <3>3. b[i] = Said(u[i])
        BY <1>7, <3>1, <3>2
      <3>4. a[i] = Recorded(u)[i]
        BY <1>8
      <3>5. Recorded(u)[i] = Said(u[i])
        BY <1>4
      <3>6. QED
        BY <3>3, <3>4, <3>5
    <2>2. k + 1 \in 1 .. k + 1 /\ b[k + 1] = st
      BY <1>1, <1>2, <1>7
    <2>3. QED
      BY <1>8, <1>9, <2>1, <2>2
  <1>11. b \in [1 .. k + 1 -> States]
    <2> HIDE DEF a
    <2>1. \A i \in 1 .. k + 1 : a[i] \in States
      BY <1>8, ElementOfSeq
    <2>2. QED
      BY <1>7, <1>10, <2>1
  <1>12. b \in Seq(States) /\ Len(b) = k + 1
    BY <1>2, <1>11
  <1>13. b = a
    <2> HIDE DEF a, b
    <2>1. QED
      BY <1>8, <1>10, <1>12, SeqEqual
  <1>14. QED
    BY <1>6, <1>13 DEF p

\* A step after which the same events are on the line.
LEMMA LineKept ==
  ASSUME NoSilentLoss, Line' = Line, updates' = updates, emitted' = emitted,
         lost \subseteq lost'
  PROVE  NoSilentLoss'
  <1>1. ASSUME NEW id \in IDs \ lost'
        PROVE  emitted'[id] = Recorded(updates'[id]) \o StatesOf(Line', id)
    <2>1. id \in IDs \ lost
      OBVIOUS
    <2>2. emitted[id] = Recorded(updates[id]) \o StatesOf(Line, id)
      BY <2>1, LossIsOfLine
    <2>3. QED
      BY <2>2
  <1>2. QED
    BY <1>1, LossIsOfLine

\* The detector's event comes to the end of the line.
LEMMA LineSent ==
  ASSUME PipelineInv, NoSilentLoss, NEW e \in Event, Line' = Append(Line, e),
         updates' = updates, lost' = lost,
         emitted' = [emitted EXCEPT ![e.id] = Append(@, e.state)]
  PROVE  NoSilentLoss'
  <1>1. ASSUME NEW id \in IDs \ lost'
        PROVE  emitted'[id] = Recorded(updates'[id]) \o StatesOf(Line', id)
    <2> DEFINE u == Recorded(updates[id])
               s == StatesOf(Line, id)
    <2>1. emitted[id] = u \o s
      BY LossIsOfLine
    <2>2. Line \in Seq(Event)
      BY LineParts
    <2>3. s \in Seq(States) /\ StatesOf(Line', id) = IF e.id = id THEN Append(s, e.state) ELSE s
      BY <2>2, StatesOfAppend
    <2>4. u \in Seq(States)
      <3>1. updates[id] \in Seq({"started", "update", "ended"})
        BY DEF PipelineInv, TypeOK
      <3>2. QED
        BY <3>1, RecordedAppend DEF States
    <2>5. e.state \in States /\ Recorded(updates'[id]) = u
      BY DEF Event
    <2> HIDE DEF u, s
    <2>6. CASE e.id = id
      <3>1. emitted'[id] = Append(emitted[id], e.state)
        BY <2>6 DEF PipelineInv, TypeOK
      <3>2. Append(u \o s, e.state) = u \o Append(s, e.state)
        <4>1. PICK st \in States, v \in Seq(States), t \in Seq(States) :
                st = e.state /\ v = u /\ t = s
          BY <2>3, <2>4, <2>5
        <4>2. PICK w \in Seq(States) : w = <<st>>
          <5>1. <<st>> \in Seq(States)
            OBVIOUS
          <5>2. QED
            BY <5>1
        <4>3. v \o t \in Seq(States)
          BY ConcatProperties
        <4>4. Append(v \o t, st) = (v \o t) \o w /\ Append(t, st) = t \o w
          BY <4>2, <4>3, AppendIsConcat
        <4>5. (v \o t) \o w = v \o (t \o w)
          BY StatesJoined
        <4>6. QED
          BY <4>1, <4>4, <4>5
      <3>3. QED
        BY <2>1, <2>3, <2>5, <2>6, <3>1, <3>2
    <2>7. CASE e.id # id
      <3>1. emitted'[id] = emitted[id]
        BY <2>7 DEF PipelineInv, TypeOK
      <3>2. QED
        BY <2>1, <2>3, <2>5, <2>7, <3>1
    <2>8. QED
      BY <2>6, <2>7
  <1>2. QED
    BY <1>1, LossIsOfLine

\* An event is lost: nothing changes for the other incidents.
LEMMA LineCut ==
  ASSUME NoSilentLoss, NEW e \in Event, updates' = updates, lost' = lost \cup {e.id},
         \A id \in IDs : e.id # id => /\ emitted'[id] = emitted[id]
                                      /\ StatesOf(Line', id) = StatesOf(Line, id)
  PROVE  NoSilentLoss'
  <1>1. ASSUME NEW id \in IDs \ lost'
        PROVE  emitted'[id] = Recorded(updates'[id]) \o StatesOf(Line', id)
    <2>1. id \in IDs \ lost /\ e.id # id
      OBVIOUS
    <2>2. emitted[id] = Recorded(updates[id]) \o StatesOf(Line, id)
      BY <2>1, LossIsOfLine
    <2>3. QED
      BY <2>1, <2>2
  <1>2. QED
    BY <1>1, LossIsOfLine

\* The first event of the line becomes a row.
LEMMA LineRecorded ==
  ASSUME PipelineInv, NoSilentLoss, NEW e \in Event, NEW r \in Seq(Event), Line' = r,
         Line = <<e>> \o r, emitted' = emitted, lost' = lost,
         updates' = [updates EXCEPT ![e.id] = Append(@, Kind(e.state))]
  PROVE  NoSilentLoss'
  <1>1. ASSUME NEW id \in IDs \ lost'
        PROVE  emitted'[id] = Recorded(updates'[id]) \o StatesOf(Line', id)
    <2> DEFINE u == Recorded(updates[id])
               s == StatesOf(r, id)
    <2>1. emitted[id] = u \o StatesOf(Line, id)
      BY LossIsOfLine
    <2>2. PICK h \in Seq(Event) :
            h = <<e>> /\ (e.id = id => StatesOf(h, id) = <<e.state>>)
            /\ (e.id # id => StatesOf(h, id) = <<>>)
      BY StatesOfOne
    <2>3. s \in Seq(States) /\ StatesOf(h \o r, id) = StatesOf(h, id) \o s
      <3>1. StatesOf(r, id) \in Seq(States)
        BY StatesIn
      <3>2. StatesOf(h \o r, id) = StatesOf(h, id) \o StatesOf(r, id)
        BY StatesOfBoth
      <3>3. QED
        BY <3>1, <3>2
    <2>4. updates[id] \in Seq({"started", "update", "ended"}) /\ e.state \in States
      BY DEF PipelineInv, TypeOK, Event
    <2>5. u \in Seq(States) /\ Recorded(Append(updates[id], Kind(e.state))) = Append(u, e.state)
      BY <2>4, RecordedAppend
    <2> HIDE DEF u, s
    <2>6. CASE e.id = id
      <3>1. updates'[id] = Append(updates[id], Kind(e.state))
        BY <2>6 DEF PipelineInv, TypeOK
      <3>2. PICK x \in Seq(States) : x = <<e.state>>
        <4>1. <<e.state>> \in Seq(States)
          BY <2>4
        <4>2. QED
          BY <4>1
      <3>3. u \o (x \o s) = (u \o x) \o s
        <4>1. PICK v \in Seq(States), t \in Seq(States) : v = u /\ t = s
          BY <2>3, <2>5
        <4>2. v \o (x \o t) = (v \o x) \o t
          BY StatesJoined
        <4>3. QED
          BY <4>1, <4>2
      <3>4. u \o <<e.state>> = Append(u, e.state)
        BY <2>4, <2>5, AppendIsConcat
      <3>5. StatesOf(Line, id) = x \o s
        BY <2>2, <2>3, <2>6, <3>2
      <3>6. emitted[id] = Append(u, e.state) \o s
        BY <2>1, <3>2, <3>3, <3>4, <3>5
      <3>7. QED
        BY <2>5, <3>1, <3>6 DEF s
    <2>7. CASE e.id # id
      <3>1. updates'[id] = updates[id]
        BY <2>7 DEF PipelineInv, TypeOK
      <3>2. <<>> \o s = s
        BY <2>3, ConcatEmptySeq
      <3>3. StatesOf(Line, id) = s
        BY <2>2, <2>3, <2>7, <3>2
      <3>4. QED
        BY <2>1, <3>1, <3>3 DEF u, s
    <2>8. QED
      BY <2>6, <2>7
  <1>2. QED
    BY <1>1, LossIsOfLine

\* The detector's send puts its event at the end of the line, or loses it.
LEMMA LineEmit ==
  ASSUME PipelineInv, NoSilentLoss, NEW id \in IDs, NEW st \in States, Emit(id, st)
  PROVE  NoSilentLoss'
  <1>1. PICK e \in Event : e = [id |-> id, state |-> st]
    BY DEF Event
  <1>2. e.id = id /\ e.state = st
    BY <1>1
  <1>3. /\ rec' = rec /\ bus' = bus /\ sub' = sub /\ updates' = updates
        /\ emitted' = [emitted EXCEPT ![e.id] = Append(@, e.state)]
    BY <1>2 DEF Emit, dbVars
  <1> DEFINE p == HandOf(rec) \o sub[Recorder] \o WithBus(bus)
  <1>4. p \in Seq(Event) /\ attackEvents \in Seq(Event) /\ Line = p \o attackEvents
    BY LineParts DEF Line
  <1>5. Line' = p \o attackEvents'
    BY <1>3 DEF Line
  <1> HIDE DEF p
  <1>6. CASE Len(attackEvents) < InCap
    <2>1. attackEvents' = Append(attackEvents, e) /\ lost' = lost
      BY <1>1, <1>6 DEF Emit
    <2>2. Line' = Append(Line, e)
      BY <1>4, <1>5, <2>1, PutBehind
    <2>3. QED
      BY <1>3, <2>1, <2>2, LineSent
  <1>7. CASE ~(Len(attackEvents) < InCap)
    <2>1. attackEvents' = attackEvents /\ lost' = lost \cup {e.id}
      BY <1>2, <1>7 DEF Emit
    <2>2. Line' = Line
      BY <1>4, <1>5, <2>1
    <2>3. \A j \in IDs : e.id # j => emitted'[j] = emitted[j]
      BY <1>3 DEF PipelineInv, TypeOK
    <2>4. QED
      BY <1>3, <2>1, <2>2, <2>3, LineCut
  <1>8. QED
    BY <1>6, <1>7

\* The bus takes the first event of the detector's channel in its hands.
LEMMA LineBusTake ==
  ASSUME PipelineInv, NoSilentLoss, BusTake
  PROVE  NoSilentLoss'
  <1>1. attackEvents \in Seq(Event) /\ attackEvents # <<>>
    BY LineParts DEF BusTake
  <1>2. PICK e \in Event, h \in Seq(Event), t \in Seq(Event) :
          /\ e = Head(attackEvents) /\ h = <<e>> /\ t = Tail(attackEvents)
          /\ attackEvents = h \o t
    BY <1>1, HeadFirst
  <1> DEFINE p == HandOf(rec) \o sub[Recorder]
  <1>3. p \in Seq(Event)
    BY LineParts
  <1>4. WithBus(bus) = <<>>
    <2>1. DOMAIN bus.todo = {}
      BY DEF BusTake, PipelineInv, AtWork
    <2>2. QED
      BY <2>1 DEF WithBus
  <1>5. WithBus(bus') = h
    <2>1. \E i \in DOMAIN Subs : Subs[i] = Recorder
      BY PipelineAssumption DEF Sinks
    <2>2. bus' = [pc |-> "fan", ev |-> e, todo |-> Subs]
      BY <1>2 DEF BusTake
    <2>3. QED
      BY <1>2, <2>1, <2>2 DEF WithBus
  <1>6. /\ rec' = rec /\ sub' = sub /\ updates' = updates /\ emitted' = emitted
        /\ lost' = lost /\ attackEvents' = t
    BY <1>2 DEF BusTake, dbVars, detectorVars
  <1>7. Line = (p \o <<>>) \o (h \o t) /\ Line' = (p \o h) \o t
    BY <1>2, <1>4, <1>5, <1>6 DEF Line
  <1> HIDE DEF p
  <1>8. p \o <<>> = p
    BY <1>3, ConcatEmptySeq
  <1>9. (p \o h) \o t = p \o (h \o t)
    BY <1>3, EventsJoined
  <1>10. Line' = Line
    BY <1>7, <1>8, <1>9
  <1>11. QED
    BY <1>6, <1>10, LineKept

\* The bus gives the recorder its event, or loses it.
LEMMA LineBusFan ==
  ASSUME PipelineInv, NoSilentLoss, NEW t \in Sinks, BusFan(t)
  PROVE  NoSilentLoss'
  <1>1. /\ bus.ev \in Event /\ Fanned(t) = {bus.ev} /\ Fanned(t)' = {}
        /\ \A s \in Sinks \ {t} : Fanned(s)' = Fanned(s)
    BY FanLeft DEF BusFan, PipelineInv
  <1>2. PICK e \in Event : e = bus.ev
    BY <1>1
  <1>3. /\ rec' = rec /\ attackEvents' = attackEvents /\ updates' = updates
        /\ emitted' = emitted
    BY DEF BusFan, dbVars, detectorVars
  <1> DEFINE hand == HandOf(rec)
             q == sub[Recorder]
  <1>4. hand \in Seq(Event) /\ q \in Seq(Event) /\ attackEvents \in Seq(Event)
        /\ hand \o q \in Seq(Event) /\ Recorder \in Sinks
    BY LineParts, PipelineAssumption
  <1>5. Line = ((hand \o q) \o WithBus(bus)) \o attackEvents
    BY DEF Line
  <1>6. Line' = ((hand \o sub'[Recorder]) \o WithBus(bus')) \o attackEvents
    BY <1>3 DEF Line
  <1> HIDE DEF hand, q
  <1>7. CASE t = Recorder
    <2>1. WithBus(bus) = <<e>>
      BY <1>1, <1>2, <1>7 DEF Fanned, WithBus
    <2>2. WithBus(bus') = <<>>
      BY <1>1, <1>7 DEF Fanned, WithBus
    <2>3. CASE Len(sub[t]) < SubCap
      <3>1. sub'[Recorder] = Append(q, e) /\ lost' = lost
        BY <1>2, <1>7, <2>3 DEF BusFan, PipelineInv, TypeOK, q
      <3>2. hand \o Append(q, e) = (hand \o q) \o <<e>> /\ <<e>> \in Seq(Event)
        BY <1>4, PutBehind
      <3>3. (hand \o q) \o <<e>> \in Seq(Event)
        BY <1>4, <3>2, ConcatProperties
      <3>4. (hand \o Append(q, e)) \o <<>> = hand \o Append(q, e)
        BY <3>2, <3>3, ConcatEmptySeq
      <3>5. Line' = Line
        BY <1>5, <1>6, <2>1, <2>2, <3>1, <3>2, <3>4
      <3>6. QED
        BY <1>3, <3>1, <3>5, LineKept
    <2>4. CASE ~(Len(sub[t]) < SubCap)
      <3>1. sub'[Recorder] = q /\ lost' = lost \cup {e.id}
        BY <1>2, <1>7, <2>4 DEF BusFan, q
      <3>2. (hand \o q) \o <<>> = hand \o q
        BY <1>4, ConcatEmptySeq
      <3>3. Line' = (hand \o q) \o attackEvents
            /\ Line = ((hand \o q) \o <<e>>) \o attackEvents
        BY <1>5, <1>6, <2>1, <2>2, <3>1, <3>2
      <3>4. ASSUME NEW j \in IDs, e.id # j PROVE StatesOf(Line', j) = StatesOf(Line, j)
        <4>1. PICK p \in Seq(Event) : p = hand \o q
          BY <1>4
        <4>2. StatesOf((p \o <<e>>) \o attackEvents, j) = StatesOf(p \o attackEvents, j)
          BY <1>4, <3>4, StatesOfOthers
        <4>3. QED
          BY <3>3, <4>1, <4>2
      <3>5. QED
        BY <1>3, <3>1, <3>4, LineCut
    <2>5. QED
      BY <2>3, <2>4
  <1>8. CASE t # Recorder
    <2>1. Fanned(Recorder)' = Fanned(Recorder)
      BY <1>1, <1>4, <1>8
    <2>2. WithBus(bus') = WithBus(bus)
      <3>1. CASE Fanned(Recorder) = {}
        BY <2>1, <3>1 DEF Fanned, WithBus
      <3>2. CASE Fanned(Recorder) # {}
        <4>1. /\ \E i \in DOMAIN bus.todo : bus.todo[i] = Recorder
              /\ \E i \in DOMAIN bus'.todo : bus'.todo[i] = Recorder
              /\ Fanned(Recorder) = {bus.ev} /\ Fanned(Recorder)' = {bus'.ev}
          BY <2>1, <3>2 DEF Fanned
        <4>2. bus'.ev = bus.ev
          BY <2>1, <4>1
        <4>3. QED
          BY <4>1, <4>2 DEF WithBus
      <3>3. QED
        BY <3>1, <3>2
    <2>3. sub'[Recorder] = q /\ lost' = lost
      BY <1>4, <1>8 DEF BusFan, PipelineInv, TypeOK, q
    <2>4. Line' = Line
      BY <1>5, <1>6, <2>2, <2>3
    <2>5. QED
      BY <1>3, <2>3, <2>4, LineKept
  <1>9. QED
    BY <1>7, <1>8

\* The recorder takes the first event of its channel in its hands.
LEMMA LineTake ==
  ASSUME PipelineInv, NoSilentLoss, NEW from \in {"select", "drain"}, NEW to, NEW d,
         Take(from, to, d)
  PROVE  NoSilentLoss'
  <1>1. Recorder \in Sinks /\ sub[Recorder] \in Seq(Event) /\ sub[Recorder] # <<>>
    BY LineParts, PipelineAssumption DEF Take
  <1>2. PICK e \in Event, h \in Seq(Event), t \in Seq(Event) :
          /\ e = Head(sub[Recorder]) /\ h = <<e>> /\ t = Tail(sub[Recorder])
          /\ sub[Recorder] = h \o t
    BY <1>1, HeadFirst
  <1>3. /\ bus' = bus /\ attackEvents' = attackEvents /\ updates' = updates
        /\ emitted' = emitted /\ lost' = lost
    BY DEF Take, dbVars, detectorVars
  <1>4. HandOf(rec) = <<>>
    BY DEF Take, PipelineInv, AtWork, HandOf
  <1>5. HandOf(rec') = h
    <2>1. rec'.ev = e
      BY <1>2 DEF Take
    <2>2. e # NoEvent
      BY DEF Event, IDs, NoEvent
    <2>3. QED
      BY <1>2, <2>1, <2>2 DEF HandOf
  <1>6. sub'[Recorder] = t
    BY <1>1, <1>2 DEF Take, PipelineInv, TypeOK
  <1>7. Line = ((<<>> \o (h \o t)) \o WithBus(bus)) \o attackEvents
        /\ Line' = ((h \o t) \o WithBus(bus)) \o attackEvents
    BY <1>2, <1>3, <1>4, <1>5, <1>6 DEF Line
  <1>8. <<>> \o (h \o t) = h \o t
    <2>1. h \o t \in Seq(Event)
      BY <1>1, <1>2
    <2>2. QED
      BY <2>1, ConcatEmptySeq
  <1>9. Line' = Line
    BY <1>7, <1>8
  <1>10. QED
    BY <1>3, <1>9, LineKept

\* The recorder is done with the event in its hands, the first one of the line.
LEMMA LineDone ==
  ASSUME PipelineInv, rec.pc \in {"handle", "drainHandle"}, rec' = RecAfter,
         sub' = sub, bus' = bus, attackEvents' = attackEvents
  PROVE  \E e \in Event, r \in Seq(Event) : e = rec.ev /\ Line' = r /\ Line = <<e>> \o r
  <1>1. PICK e \in Event : e = rec.ev
    BY DEF PipelineInv, AtWork
  <1>2. PICK h \in Seq(Event) : h = <<e>>
    <2>1. <<e>> \in Seq(Event)
      OBVIOUS
    <2>2. QED
      BY <2>1
  <1>3. HandOf(rec) = h
    <2>1. e # NoEvent
      BY DEF Event, IDs, NoEvent
    <2>2. QED
      BY <1>1, <1>2, <2>1 DEF HandOf
  <1>4. HandOf(rec') = <<>>
    BY DEF RecAfter, IdleRecorder, HandOf
  <1> DEFINE q == sub[Recorder]
             b == WithBus(bus)
             a == attackEvents
  <1>5. q \in Seq(Event) /\ b \in Seq(Event) /\ a \in Seq(Event)
    BY LineParts
  <1>6. Line = ((h \o q) \o b) \o a /\ Line' = ((<<>> \o q) \o b) \o a
    BY <1>3, <1>4 DEF Line
  <1> HIDE DEF q, b, a
  <1>7. <<>> \o q = q
    BY <1>5, ConcatEmptySeq
  <1>8. q \o b \in Seq(Event)
    BY <1>5, ConcatProperties
  <1>9. (q \o b) \o a \in Seq(Event)
    BY <1>5, <1>8, ConcatProperties
  <1>10. (h \o q) \o b = h \o (q \o b)
    BY <1>5, EventsJoined
  <1>11. (h \o (q \o b)) \o a = h \o ((q \o b) \o a)
    <2>1. PICK m \in Seq(Event) : m = q \o b
      BY <1>8
    <2>2. (h \o m) \o a = h \o (m \o a)
      BY <1>5, EventsJoined
    <2>3. QED
      BY <2>1, <2>2
  <1>12. PICK r \in Seq(Event) : r = (q \o b) \o a
    BY <1>9
  <1>13. Line' = r /\ Line = h \o r
    BY <1>6, <1>7, <1>10, <1>11, <1>12
  <1>14. QED
    BY <1>1, <1>2, <1>13

\* The transaction commits.
LEMMA LineCommit ==
  ASSUME PipelineInv, NoSilentLoss, RecCommit
  PROVE  NoSilentLoss'
  <1>1. PICK e \in Event, r \in Seq(Event) : e = rec.ev /\ Line' = r /\ Line = <<e>> \o r
    <2>1. /\ rec.pc \in {"handle", "drainHandle"} /\ rec' = RecAfter
          /\ sub' = sub /\ bus' = bus /\ attackEvents' = attackEvents
      BY DEF RecCommit
    <2>2. QED
      BY <2>1, LineDone
  <1>2. /\ emitted' = emitted /\ lost' = lost
        /\ updates' = [updates EXCEPT ![e.id] = Append(@, Kind(e.state))]
    BY <1>1 DEF RecCommit, Written, detectorVars
  <1>3. QED
    BY <1>1, <1>2, LineRecorded

\* The transaction fails.
LEMMA LineFail ==
  ASSUME PipelineInv, NoSilentLoss, RecFail
  PROVE  NoSilentLoss'
  <1>1. PICK e \in Event, r \in Seq(Event) : e = rec.ev /\ Line' = r /\ Line = <<e>> \o r
    <2>1. /\ rec.pc \in {"handle", "drainHandle"} /\ rec' = RecAfter
          /\ sub' = sub /\ bus' = bus /\ attackEvents' = attackEvents
      BY DEF RecFail
    <2>2. QED
      BY <2>1, LineDone
  <1>2. /\ emitted' = emitted /\ lost' = lost \cup {e.id} /\ updates' = updates
    BY <1>1 DEF RecFail, dbVars, detectorVars
  <1>3. ASSUME NEW j \in IDs, e.id # j PROVE StatesOf(Line', j) = StatesOf(Line, j)
    <2>1. PICK h \in Seq(Event) :
            h = <<e>> /\ (e.id = j => StatesOf(h, j) = <<e.state>>)
            /\ (e.id # j => StatesOf(h, j) = <<>>)
      BY StatesOfOne
    <2>2. StatesOf(r, j) \in Seq(States) /\ StatesOf(h \o r, j) = StatesOf(h, j) \o StatesOf(r, j)
      <3>1. StatesOf(r, j) \in Seq(States)
        BY StatesIn
      <3>2. StatesOf(h \o r, j) = StatesOf(h, j) \o StatesOf(r, j)
        BY StatesOfBoth
      <3>3. QED
        BY <3>1, <3>2
    <2>3. <<>> \o StatesOf(r, j) = StatesOf(r, j)
      BY <2>2, ConcatEmptySeq
    <2>4. QED
      BY <1>1, <1>3, <2>1, <2>2, <2>3
  <1>4. QED
    BY <1>1, <1>2, <1>3, LineCut

\* Nothing in memory, nothing on the line.
LEMMA LineEmpty ==
  ASSUME NEW h, NEW q, NEW b, NEW a, h = <<>>, q = <<>>, b = <<>>, a = <<>>
  PROVE  h \o q \o b \o a = <<>>
  OBVIOUS

\* The memory of the process is gone, and what was in it is lost.
LEMMA LineGone ==
  ASSUME PipelineInv, NoSilentLoss, Gone
  PROVE  NoSilentLoss'
  <1>1. HandOf(rec') = <<>> /\ WithBus(bus') = <<>> /\ sub'[Recorder] = <<>>
        /\ attackEvents' = <<>>
    <2>1. rec'.ev = NoEvent
      BY DEF Gone, IdleRecorder
    <2>2. bus' = [pc |-> "stopped", ev |-> NoEvent, todo |-> <<>>]
      BY DEF Gone, IdleBus
    <2>3. DOMAIN bus'.todo = {}
      BY <2>2
    <2>4. QED
      BY <2>1, <2>3, PipelineAssumption DEF Gone, HandOf, WithBus
  <1>2. Line' = <<>>
    BY <1>1, LineEmpty DEF Line
  <1>3. emitted' = emitted /\ updates' = updates /\ lost' = lost \cup InFlightIDs
    BY DEF Gone, dbVars
  <1>4. ASSUME NEW id \in IDs \ lost'
        PROVE  emitted'[id] = Recorded(updates'[id]) \o StatesOf(Line', id)
    <2>1. id \in IDs \ lost /\ InFlight(id) = <<>>
      BY <1>3, <1>4 DEF InFlightIDs
    <2>2. StatesOf(Line, id) = <<>> /\ emitted[id] = Recorded(updates[id]) \o StatesOf(Line, id)
      BY <2>1, LossIsOfLine
    <2>3. StatesOf(Line', id) = <<>>
      BY <1>2, StatesOfEmpty
    <2>4. QED
      BY <1>3, <2>2, <2>3
  <1>5. QED
    BY <1>4, LossIsOfLine

\* A daemon that starts has nothing in memory yet.
LEMMA LineStartUp ==
  ASSUME PipelineInv, NoSilentLoss, StartUp
  PROVE  NoSilentLoss'
  <1>1. Writing = {} /\ Coming(Recorder) = {}
    BY PipelineAssumption DEF StartUp, PipelineInv, OfThisRun
  <1>2. /\ Elements(sub[Recorder]) = {} /\ Fanned(Recorder) = {}
        /\ Elements(attackEvents) = {}
    BY <1>1 DEF Coming
  <1>3. HandOf(rec) = <<>>
    BY <1>1 DEF Writing, HandOf
  <1>4. WithBus(bus) = <<>>
    BY <1>2 DEF Fanned, WithBus
  <1>5. ASSUME NEW q \in Seq(Event), Elements(q) = {} PROVE q = <<>>
    <2>1. DOMAIN q = 1 .. Len(q) /\ Len(q) \in Nat
      BY LenProperties
    <2>2. \A i \in DOMAIN q : q[i] \in Elements(q)
      BY DEF Elements
    <2>3. 1 \notin DOMAIN q
      BY <1>5, <2>2
    <2>4. Len(q) = 0
      BY <2>1, <2>3
    <2>5. QED
      BY <2>4, EmptySeq
  <1>6. sub[Recorder] = <<>> /\ attackEvents = <<>>
    BY <1>2, <1>5, LineParts
  <1>7. HandOf(rec') = <<>> /\ WithBus(bus') = <<>>
    <2>1. rec'.ev = NoEvent
      BY DEF StartUp, IdleRecorder
    <2>2. bus' = [pc |-> "select", ev |-> NoEvent, todo |-> <<>>]
      BY DEF StartUp, IdleBus
    <2>3. DOMAIN bus'.todo = {}
      BY <2>2
    <2>4. QED
      BY <2>1, <2>3 DEF HandOf, WithBus
  <1>8. /\ sub' = sub /\ attackEvents' = attackEvents /\ updates' = updates
        /\ emitted' = emitted /\ lost' = lost
    BY DEF StartUp
  <1>9. Line = <<>>
    BY <1>3, <1>4, <1>6, LineEmpty DEF Line
  <1>10. Line' = <<>>
    BY <1>6, <1>7, <1>8, LineEmpty DEF Line
  <1>11. QED
    BY <1>8, <1>9, <1>10, LineKept

\* Every step of the pipeline keeps track of what is lost.
LEMMA LossStep ==
  ASSUME PipelineInv, NoSilentLoss, [Next]_vars
  PROVE  NoSilentLoss'
  <1>1. ASSUME rec' = rec, bus' = bus, sub'[Recorder] = sub[Recorder],
               attackEvents' = attackEvents, updates' = updates, emitted' = emitted,
               lost' = lost
        PROVE  NoSilentLoss'
    <2>1. Line' = Line
      BY <1>1 DEF Line
    <2>2. QED
      BY <1>1, <2>1, LineKept
  <1>2. CASE UNCHANGED vars
    BY <1>1, <1>2 DEF vars, detectorVars, dbVars
  <1>3. ASSUME NEW k \in Keys, DetectStart(k) PROVE NoSilentLoss'
    <2>1. ids + 1 \in IDs /\ "started" \in States
      BY <1>3, PipelineAssumption DEF DetectStart, IDs, States, PipelineInv, TypeOK
    <2>2. QED
      BY <1>3, <2>1, LineEmit DEF DetectStart
  <1>4. ASSUME NEW k \in Keys, DetectUpdate(k) PROVE NoSilentLoss'
    <2>1. det[k].id \in IDs /\ "updated" \in States
      BY <1>4, PipelineAssumption
         DEF DetectUpdate, OpenIncidents, IDs, States, PipelineInv, TypeOK
    <2>2. QED
      BY <1>4, <2>1, LineEmit DEF DetectUpdate
  <1>5. ASSUME NEW k \in Keys, DetectEnd(k) PROVE NoSilentLoss'
    <2>1. det[k].id \in IDs /\ "ended" \in States
      BY <1>5, PipelineAssumption
         DEF DetectEnd, OpenIncidents, IDs, States, PipelineInv, TypeOK
    <2>2. QED
      BY <1>5, <2>1, LineEmit DEF DetectEnd
  <1>6. CASE EngineDone
    BY <1>1, <1>6 DEF EngineDone, dbVars
  <1>7. CASE BusTake
    BY <1>7, LineBusTake
  <1>8. ASSUME NEW t \in Sinks, BusFan(t) PROVE NoSilentLoss'
    BY <1>8, LineBusFan
  <1>9. CASE BusDone
    <2>1. WithBus(bus) = <<>> /\ WithBus(bus') = <<>>
      <3>1. bus.todo = <<>> /\ bus'.todo = <<>>
        BY <1>9 DEF BusDone, IdleBus, PipelineInv, AtWork
      <3>2. DOMAIN bus.todo = {} /\ DOMAIN bus'.todo = {}
        BY <3>1
      <3>3. QED
        BY <3>2 DEF WithBus
    <2>2. /\ rec' = rec /\ sub' = sub /\ attackEvents' = attackEvents /\ updates' = updates
          /\ emitted' = emitted /\ lost' = lost
      BY <1>9 DEF BusDone, dbVars, detectorVars
    <2>3. Line' = Line
      BY <2>1, <2>2 DEF Line
    <2>4. QED
      BY <2>2, <2>3, LineKept
  <1>10. ASSUME NEW t \in Sinks, SinkTake(t) PROVE NoSilentLoss'
    <2>1. sub'[Recorder] = sub[Recorder]
      BY <1>10, PipelineAssumption DEF SinkTake, PipelineInv, TypeOK
    <2>2. QED
      BY <1>1, <1>10, <2>1 DEF SinkTake, dbVars, detectorVars
  <1>11. CASE RecTake
    BY <1>11, LineTake DEF RecTake
  <1>12. CASE RecDrainTake
    BY <1>12, LineTake DEF RecDrainTake
  <1>13. CASE RecDone \/ RecStop \/ RecTimeout
    <2>1. rec'.ev = rec.ev
      BY <1>13 DEF RecDone, RecStop, RecTimeout, PipelineInv, TypeOK
    <2>2. /\ bus' = bus /\ sub' = sub /\ attackEvents' = attackEvents /\ updates' = updates
          /\ emitted' = emitted /\ lost' = lost
      BY <1>13 DEF RecDone, RecStop, RecTimeout, dbVars, detectorVars
    <2>3. HandOf(rec') = HandOf(rec)
      BY <2>1 DEF HandOf
    <2>4. Line' = Line
      BY <2>2, <2>3 DEF Line
    <2>5. QED
      BY <2>2, <2>4, LineKept
  <1>14. CASE RecCommit
    BY <1>14, LineCommit
  <1>15. CASE RecFail
    BY <1>15, LineFail
  <1>16. CASE Shutdown
    BY <1>1, <1>16 DEF Shutdown, detectorVars, dbVars
  <1>17. CASE Exit \/ Crash
    BY <1>17, LineGone DEF Exit, Crash
  <1>18. CASE StartUp
    BY <1>18, LineStartUp
  <1>19. QED
    BY <1>2, <1>3, <1>4, <1>5, <1>6, <1>7, <1>8, <1>9, <1>10, <1>11, <1>12, <1>13, <1>14,
       <1>15, <1>16, <1>17, <1>18
       DEF Next, Detector, Bus, RecorderRun, Process

\* At the start nothing has been emitted, nothing recorded, and the line is empty.
LEMMA InitLoss == Init => NoSilentLoss
  <1> SUFFICES ASSUME Init PROVE NoSilentLoss
    OBVIOUS
  <1>1. HandOf(rec) = <<>> /\ WithBus(bus) = <<>> /\ sub[Recorder] = <<>>
        /\ attackEvents = <<>>
    <2>1. rec.ev = NoEvent
      BY DEF Init, IdleRecorder
    <2>2. bus = [pc |-> "select", ev |-> NoEvent, todo |-> <<>>]
      BY DEF Init, IdleBus
    <2>3. DOMAIN bus.todo = {}
      BY <2>2
    <2>4. QED
      BY <2>1, <2>3, PipelineAssumption DEF Init, HandOf, WithBus
  <1>2. Line = <<>>
    BY <1>1, LineEmpty DEF Line
  <1>3. ASSUME NEW id \in IDs
        PROVE  emitted[id] = Recorded(updates[id]) \o StatesOf(Line, id)
    <2>1. emitted[id] = <<>> /\ updates[id] = <<>>
      BY DEF Init
    <2>2. Recorded(<<>>) = <<>>
      BY DEF Recorded
    <2>3. StatesOf(Line, id) = <<>>
      BY <1>2, StatesOfEmpty
    <2>4. <<>> \o <<>> = <<>>
      OBVIOUS
    <2>5. QED
      BY <2>1, <2>2, <2>3, <2>4
  <1>4. QED
    BY <1>3, LossIsOfLine

\* No silent loss: unless an event of it was dropped at a full channel, failed to be
\* written or was in memory when the process went away, what the tables say of an
\* incident followed by what is on the line is what the detector emitted, in its
\* order and each event once (Engine.evalHost, Bus.Run, Recorder.Run).
THEOREM NothingLostSilently == Spec => []NoSilentLoss
  <1>1. PipelineInv /\ NoSilentLoss /\ [Next]_vars => NoSilentLoss'
    BY LossStep
  <1>2. QED
    BY <1>1, InitLoss, Invariant, PTL DEF Spec

-----------------------------------------------------------------------------
(* Rows that stay open.                                                    *)

\* An incident drawn since the daemon started is open in the detector or has been
\* ended by it.
SaidToEnd ==
  /\ \A id \in IDs : id > ids => emitted[id] = <<>>
  /\ process # "down" =>
       \A id \in IDs : id > epoch /\ id <= ids =>
         \/ \E k \in Keys : det[k].id = id
         \/ emitted[id] # <<>> /\ emitted[id][Len(emitted[id])] = "ended"

\* Every step keeps that.
LEMMA SaidStep ==
  ASSUME PipelineInv, SaidToEnd, [Next]_vars
  PROVE  SaidToEnd'
  <1> DEFINE Ended(q) == q # <<>> /\ q[Len(q)] = "ended"
  <1>0. /\ emitted \in [IDs -> Seq(States)] /\ \A id \in IDs : id \in Nat /\ id > 0
        /\ ids \in Nat /\ epoch \in Nat /\ epoch <= ids
        /\ det \in [Keys -> [id : 0 .. MaxIncidents, updated : BOOLEAN]]
        /\ \A k \in Keys : det[k] # NoIncident => det[k].id \in epoch + 1 .. ids
    BY PipelineAssumption DEF PipelineInv, TypeOK, IDs, OpenIncidents
  <1>1. ASSUME det' = det, ids' = ids, epoch' = epoch, emitted' = emitted,
               process' # "down" => process # "down"
        PROVE  SaidToEnd'
    BY <1>1 DEF SaidToEnd
  <1>2. CASE UNCHANGED vars
    BY <1>1, <1>2 DEF vars, processVars, detectorVars
  <1>3. ASSUME NEW id \in IDs, NEW st \in States, Emit(id, st)
        PROVE  /\ epoch' = epoch /\ process' = process
               /\ emitted'[id] = Append(emitted[id], st)
               /\ \A j \in IDs : j # id => emitted'[j] = emitted[j]
    BY <1>0, <1>3 DEF Emit, processVars
  <1>4. ASSUME NEW k \in Keys, DetectStart(k) PROVE SaidToEnd'
    <2>1. ids + 1 \in IDs /\ "started" \in States /\ ids' = ids + 1
      BY <1>0, <1>4, PipelineAssumption DEF DetectStart, IDs, States
    <2>2. /\ epoch' = epoch /\ process' = process
          /\ \A j \in IDs : j # ids + 1 => emitted'[j] = emitted[j]
      BY <1>3, <1>4, <2>1 DEF DetectStart
    <2>3. /\ det'[k].id = ids + 1 /\ det[k].id = 0
          /\ \A l \in Keys : l # k => det'[l] = det[l]
      BY <1>0, <1>4 DEF DetectStart, NoIncident
    <2>4. ASSUME NEW id \in IDs, id > ids' PROVE emitted'[id] = <<>>
      <3>1. id # ids + 1 /\ id > ids
        BY <1>0, <2>1, <2>4
      <3>2. QED
        BY <2>2, <3>1 DEF SaidToEnd
    <2>5. ASSUME process' # "down", NEW id \in IDs, id > epoch', id <= ids'
          PROVE  (\E l \in Keys : det'[l].id = id) \/ Ended(emitted'[id])
      <3>1. CASE id = ids + 1
        BY <2>3, <3>1
      <3>2. CASE id # ids + 1
        <4>1. id > epoch /\ id <= ids /\ process # "down" /\ id > 0
          BY <1>0, <2>1, <2>2, <2>5, <3>2
        <4>2. (\E l \in Keys : det[l].id = id) \/ Ended(emitted[id])
          BY <4>1 DEF SaidToEnd
        <4>3. CASE \E l \in Keys : det[l].id = id
          <5>1. PICK l \in Keys : det[l].id = id
            BY <4>3
          <5>2. l # k
            BY <1>0, <2>3, <4>1, <5>1
          <5>3. QED
            BY <2>3, <5>1, <5>2
        <4>4. CASE Ended(emitted[id])
          BY <2>2, <3>2, <4>4
        <4>5. QED
          BY <4>2, <4>3, <4>4
      <3>3. QED
        BY <3>1, <3>2
    <2>6. QED
      BY <2>4, <2>5 DEF SaidToEnd
  <1>5. ASSUME NEW k \in Keys, DetectUpdate(k) PROVE SaidToEnd'
    <2> DEFINE d == det[k].id
    <2>1. d \in IDs /\ d <= ids /\ "updated" \in States /\ ids' = ids
      BY <1>0, <1>5, PipelineAssumption DEF DetectUpdate, IDs, States, PipelineInv, TypeOK
    <2>2. /\ epoch' = epoch /\ process' = process
          /\ \A j \in IDs : j # d => emitted'[j] = emitted[j]
      BY <1>3, <1>5, <2>1 DEF DetectUpdate
    <2>3. \A l \in Keys : det'[l].id = det[l].id
      BY <1>0, <1>5 DEF DetectUpdate
    <2> HIDE DEF d
    <2>4. ASSUME NEW id \in IDs, id > ids' PROVE emitted'[id] = <<>>
      <3>1. id # d /\ id > ids
        BY <1>0, <2>1, <2>4
      <3>2. QED
        BY <2>2, <3>1 DEF SaidToEnd
    <2>5. ASSUME process' # "down", NEW id \in IDs, id > epoch', id <= ids'
          PROVE  (\E l \in Keys : det'[l].id = id) \/ Ended(emitted'[id])
      <3>1. CASE id = d
        BY <2>3, <3>1 DEF d
      <3>2. CASE id # d
        <4>1. (\E l \in Keys : det[l].id = id) \/ Ended(emitted[id])
          BY <2>1, <2>2, <2>5 DEF SaidToEnd
        <4>2. QED
          BY <2>2, <2>3, <3>2, <4>1
      <3>3. QED
        BY <3>1, <3>2
    <2>6. QED
      BY <2>4, <2>5 DEF SaidToEnd
  <1>6. ASSUME NEW k \in Keys, DetectEnd(k) PROVE SaidToEnd'
    <2> DEFINE d == det[k].id
    <2>1. d \in IDs /\ d <= ids /\ "ended" \in States /\ ids' = ids
      BY <1>0, <1>6, PipelineAssumption DEF DetectEnd, IDs, States, PipelineInv, TypeOK
    <2>2. /\ epoch' = epoch /\ process' = process
          /\ emitted'[d] = Append(emitted[d], "ended")
          /\ \A j \in IDs : j # d => emitted'[j] = emitted[j]
      BY <1>3, <1>6, <2>1 DEF DetectEnd
    <2>3. \A l \in Keys : l # k => det'[l] = det[l]
      BY <1>0, <1>6 DEF DetectEnd
    <2> HIDE DEF d
    <2>4. ASSUME NEW id \in IDs, id > ids' PROVE emitted'[id] = <<>>
      <3>1. id # d /\ id > ids
        BY <1>0, <2>1, <2>4
      <3>2. QED
        BY <2>2, <3>1 DEF SaidToEnd
    <2>5. Ended(emitted'[d])
      <3>1. PICK q \in Seq(States), st \in States : q = emitted[d] /\ st = "ended"
        BY <1>0, <2>1
      <3>2. /\ Len(Append(q, st)) = Len(q) + 1 /\ Len(q) \in Nat
            /\ Append(q, st)[Len(q) + 1] = st /\ Append(q, st) \in Seq(States)
        BY AppendProperties, LenProperties
      <3>3. Append(q, st) # <<>>
        BY <3>2, EmptySeq
      <3>4. QED
        BY <2>2, <3>1, <3>2, <3>3
    <2>6. ASSUME process' # "down", NEW id \in IDs, id > epoch', id <= ids'
          PROVE  (\E l \in Keys : det'[l].id = id) \/ Ended(emitted'[id])
      <3>1. CASE id = d
        BY <2>5, <3>1
      <3>2. CASE id # d
        <4>1. (\E l \in Keys : det[l].id = id) \/ Ended(emitted[id])
          BY <2>1, <2>2, <2>6 DEF SaidToEnd
        <4>2. CASE \E l \in Keys : det[l].id = id
          <5>1. PICK l \in Keys : det[l].id = id
            BY <4>2
          <5>2. l # k
            BY <3>2, <5>1 DEF d
          <5>3. QED
            BY <2>3, <5>1, <5>2
        <4>3. QED
          BY <2>2, <3>2, <4>1, <4>2
      <3>3. QED
        BY <3>1, <3>2
    <2>7. QED
      BY <2>4, <2>6 DEF SaidToEnd
  <1>7. CASE EngineDone
    BY <1>1, <1>7 DEF EngineDone, processVars
  <1>8. CASE Bus \/ \E s \in Sinks : SinkTake(s)
    BY <1>1, <1>8 DEF Bus, BusTake, BusFan, BusDone, SinkTake, processVars, detectorVars
  <1>9. CASE RecorderRun
    BY <1>1, <1>9 DEF RecorderRun, RecTake, RecDone, RecDrainTake, Take, RecStop,
                      RecTimeout, RecCommit, RecFail, processVars, detectorVars
  <1>10. CASE Shutdown
    BY <1>1, <1>10 DEF Shutdown, detectorVars
  <1>11. CASE Exit \/ Crash
    <2>1. process' = "down" /\ ids' = ids /\ emitted' = emitted
      BY <1>11 DEF Exit, Crash, Gone
    <2>2. QED
      BY <2>1 DEF SaidToEnd
  <1>12. CASE StartUp
    <2>1. epoch' = ids /\ ids' = ids /\ emitted' = emitted
      BY <1>12 DEF StartUp
    <2>2. \A id \in IDs : ~(id > epoch' /\ id <= ids')
      BY <1>0, <2>1
    <2>3. QED
      BY <2>1, <2>2 DEF SaidToEnd
  <1>13. QED
    BY <1>2, <1>4, <1>5, <1>6, <1>7, <1>8, <1>9, <1>10, <1>11, <1>12
       DEF Next, Detector, Process

\* A row that is open has been written, so its incident has been drawn; unless it is
\* open in the detector, its end has been emitted and is recorded, on its way or lost.
LEMMA OpenExplained ==
  ASSUME PipelineInv, NoSilentLoss, SaidToEnd
  PROVE  OpenRowExplained
  <1> SUFFICES ASSUME NEW id \in IDs, row[id] = "open", id > epoch, process # "down",
                      \A k \in Keys : det[k].id # id, id \notin lost, InFlight(id) = <<>>
               PROVE  FALSE
    BY DEF OpenRowExplained
  <1>1. PICK u \in Seq({"started", "update", "ended"}) : u = updates[id]
    BY DEF PipelineInv, TypeOK
  <1>2. u # <<>> /\ u[1] = "started" /\ u[Len(u)] # "ended"
    BY <1>1 DEF PipelineInv, TablesConsistent
  <1>3. Len(u) \in Nat \ {0} /\ DOMAIN u = 1 .. Len(u)
    BY <1>2, EmptySeq, LenProperties
  <1>4. id <= ids
    <2>1. PICK e \in Event : e.id = id /\ e.state = "started"
      <3>1. [id |-> id, state |-> "started"] \in Event
        BY DEF Event, States
      <3>2. QED
        BY <3>1
    <2>2. 1 \in DOMAIN updates[e.id] /\ updates[e.id][1] = Kind(e.state)
      BY <1>1, <1>2, <1>3, <2>1, Ranks
    <2>3. e \in Had(Recorder)
      BY <2>2 DEF Held, Had
    <2>4. QED
      BY <2>1, <2>3, PipelineAssumption DEF PipelineInv, InLine, Lined, Behind
  <1>5. emitted[id] # <<>> /\ emitted[id][Len(emitted[id])] = "ended"
    BY <1>4 DEF SaidToEnd
  <1>6. emitted[id] = Recorded(u)
    <2>1. emitted[id] = Recorded(u) \o StatesOf(Line, id) /\ StatesOf(Line, id) = <<>>
      BY <1>1, LossIsOfLine
    <2>2. Recorded(u) \in Seq(States)
      <3>1. "ended" \in States
        BY DEF States
      <3>2. QED
        BY <3>1, RecordedAppend
    <2>3. Recorded(u) \o <<>> = Recorded(u)
      BY <2>2, ConcatEmptySeq
    <2>4. QED
      BY <2>1, <2>3
  <1>7. Len(Recorded(u)) = Len(u) /\ Len(u) \in 1 .. Len(u)
    BY <1>3 DEF Recorded
  <1>8. Recorded(u)[Len(u)] = IF u[Len(u)] = "update" THEN "updated" ELSE u[Len(u)]
    BY <1>7 DEF Recorded
  <1>9. QED
    BY <1>2, <1>5, <1>6, <1>7, <1>8

\* A row that says "active" since the last start is an incident the detector has open,
\* or one whose end is on its way or was lost with a trace (Store.Create, Store.End).
THEOREM OpenRowsExplained == Spec => []OpenRowExplained
  <1>1. Init => SaidToEnd
    BY PipelineAssumption DEF Init, SaidToEnd, IDs
  <1>2. PipelineInv /\ SaidToEnd /\ [Next]_vars => SaidToEnd'
    BY SaidStep
  <1>3. PipelineInv /\ NoSilentLoss /\ SaidToEnd => OpenRowExplained
    BY OpenExplained
  <1>4. QED
    BY <1>1, <1>2, <1>3, Invariant, NothingLostSilently, PTL DEF Spec
=============================================================================
