------------------------ MODULE LiveDashboardProofs ------------------------
(***************************************************************************)
(* Proofs about LiveDashboard, for any number of incidents, visits, faults *)
(* and any capacity of the buffers.                                        *)
(***************************************************************************)
EXTENDS LiveDashboard, SequenceTheorems, TLAPS

\* The rows of a list, the events of a queue.
Elements(q) == {q[k] : k \in 1 .. Len(q)}

\* No incident is listed twice.
Distinct(list) ==
  \A j, k \in 1 .. Len(list) : list[j].incident_id = list[k].incident_id => j = k

\* A row says no more than what has happened.
Real(r) ==
  /\ truth[r.incident_id] # "none"
  /\ r.ended => truth[r.incident_id] = "ended"
  /\ r.figures <= level[r.incident_id]

\* Every list on its way to the page, and the one it shows, is real.
ListsReal ==
  /\ Distinct(active) /\ \A r \in Elements(active) : Real(r)
  /\ \A m \in Instances :
       Distinct(payload[m]) /\ \A r \in Elements(payload[m]) : Real(r) /\ ~r.ended

\* An event on the wire has happened, and so has what a fade timer waits for.
EventsReal ==
  /\ \A m \in Instances : \A e \in Elements(wire[m]) :
       /\ truth[e.incident_id] # "none"
       /\ e.type = "attack.ended" => truth[e.incident_id] = "ended"
  /\ \A m \in Instances : \A i \in fading[m] : truth[i] = "ended"

\* On the wire an incident starts before it ends.
StartsFirst(q) ==
  \A j, k \in 1 .. Len(q) :
    j < k /\ q[j].type = "attack.ended" /\ q[k].type = "attack.started"
      => q[j].incident_id # q[k].incident_id

\* A connection that has missed nothing of an incident has been told of its
\* start, and has its end on the wire for as long as it has its start there.
ToldInOrder ==
  \A m \in Instances :
    /\ StartsFirst(wire[m])
    /\ Live(m) => \A i \in whole[m] :
         /\ truth[i] # "none"
         /\ truth[i] = "ended" /\ Waiting(m, "attack.started", i)
              => Waiting(m, "attack.ended", i)

\* Two streams are up at the same time only if that was noted.
OneStream == ~doubled => \A m, n \in Instances : Live(m) /\ Live(n) => m = n

\* Where an instance is: not visited yet, current, left with its stream closed,
\* or left before it had one.
InstancesKnown ==
  /\ current <= visits
  /\ \A m \in Instances :
       /\ stage[m] = "new" <=> m > visits
       /\ stage[m] = "new" => conn[m] = "none"
       /\ stage[m] # "new" /\ m # current /\ conn[m] = "none" => m \in leftEarly

\* The inductive invariant.
DashboardInv ==
  /\ TypeOK /\ ListsReal /\ EventsReal /\ ToldInOrder /\ OneStream
  /\ ListTracksStream /\ InstancesKnown /\ StreamsExplained /\ StatusExplained

-----------------------------------------------------------------------------
(* Lemmas about the operators.                                             *)

\* The elements and the positions of a queue after a send.
LEMMA Put ==
  ASSUME NEW S, NEW q \in Seq(S), NEW e \in S
  PROVE  /\ Append(q, e) \in Seq(S) /\ Len(Append(q, e)) = Len(q) + 1
         /\ Elements(Append(q, e)) = Elements(q) \cup {e}
         /\ Append(q, e)[Len(q) + 1] = e
         /\ \A k \in 1 .. Len(q) : Append(q, e)[k] = q[k]
  <1>1. /\ Len(q) \in Nat
        /\ Append(q, e) \in Seq(S) /\ Len(Append(q, e)) = Len(q) + 1
        /\ \A k \in 1 .. Len(q) : Append(q, e)[k] = q[k]
        /\ Append(q, e)[Len(q) + 1] = e
    BY AppendProperties, LenProperties
  <1> DEFINE p == Append(q, e)
             n == Len(q)
  <1>2. /\ n \in Nat /\ Len(p) = n + 1 /\ p[n + 1] = e
        /\ \A k \in 1 .. n : p[k] = q[k]
    BY <1>1
  <1> HIDE DEF p
  <1>3. 1 .. n + 1 = 1 .. n \cup {n + 1}
    BY <1>2
  <1>4. Elements(p) = {p[k] : k \in 1 .. n} \cup {e}
    BY <1>2, <1>3 DEF Elements
  <1>5. {p[k] : k \in 1 .. n} = Elements(q)
    BY <1>2 DEF Elements
  <1>6. QED
    BY <1>1, <1>4, <1>5 DEF p

\* And after a receive.
LEMMA Take ==
  ASSUME NEW S, NEW q \in Seq(S), q # <<>>
  PROVE  /\ Head(q) \in S /\ Head(q) = q[1]
         /\ Tail(q) \in Seq(S) /\ Len(Tail(q)) = Len(q) - 1 /\ Len(q) \in Nat \ {0}
         /\ Elements(q) = {Head(q)} \cup Elements(Tail(q))
         /\ \A k \in 1 .. Len(q) - 1 : Tail(q)[k] = q[k + 1]
  <1>1. /\ Len(q) \in Nat \ {0}
        /\ Head(q) \in S /\ Head(q) = q[1]
        /\ Tail(q) \in Seq(S) /\ Len(Tail(q)) = Len(q) - 1
        /\ \A k \in 1 .. Len(q) - 1 : Tail(q)[k] = q[k + 1]
    BY HeadTailProperties, LenProperties, EmptySeq
  <1> DEFINE p == Tail(q)
             n == Len(q)
  <1>2. /\ n \in Nat \ {0} /\ Len(p) = n - 1
        /\ \A k \in 1 .. n - 1 : p[k] = q[k + 1]
    BY <1>1
  <1> HIDE DEF p
  <1>3. Elements(q) \subseteq {q[1]} \cup Elements(p)
    <2> SUFFICES ASSUME NEW k \in 1 .. n, k # 1 PROVE q[k] \in Elements(p)
      BY DEF Elements
    <2>1. k - 1 \in 1 .. n - 1 /\ q[k] = p[k - 1]
      BY <1>2
    <2>2. QED
      BY <1>2, <2>1 DEF Elements
  <1>4. {q[1]} \cup Elements(p) \subseteq Elements(q)
    <2>1. 1 \in 1 .. n /\ \A k \in 1 .. n - 1 : k + 1 \in 1 .. n
      BY <1>2
    <2>2. QED
      BY <1>2, <2>1 DEF Elements
  <1>5. QED
    BY <1>1, <1>3, <1>4 DEF p

\* findIndex finds an incident exactly if it is listed.
LEMMA FindIndex ==
  ASSUME NEW list \in Seq(Row), NEW i \in Incidents, Distinct(list)
  PROVE  /\ i \in Ids(list) =>
              /\ findIndex(list, i) \in 1 .. Len(list)
              /\ findIndex(list, i) # 0
              /\ list[findIndex(list, i)].incident_id = i
         /\ i \notin Ids(list) => findIndex(list, i) = 0
  <1>1. Len(list) \in Nat
    BY LenProperties
  <1>2. ASSUME i \in Ids(list)
        PROVE  \E k \in 1 .. Len(list) :
                 /\ list[k].incident_id = i
                 /\ \A j \in 1 .. k - 1 : list[j].incident_id # i
    <2>1. PICK k \in 1 .. Len(list) : list[k].incident_id = i
      BY <1>2 DEF Ids
    <2>2. \A j \in 1 .. k - 1 : j \in 1 .. Len(list) /\ j # k
      BY <1>1
    <2>3. QED
      BY <2>1, <2>2 DEF Distinct
  <1>3. ASSUME i \in Ids(list)
        PROVE  /\ findIndex(list, i) \in 1 .. Len(list)
               /\ list[findIndex(list, i)].incident_id = i
    BY <1>2, <1>3 DEF findIndex
  <1>4. i \notin Ids(list) => findIndex(list, i) = 0
    BY DEF findIndex
  <1>5. QED
    BY <1>1, <1>3, <1>4

\* The incidents of a list are those of its rows.
LEMMA IdsOfRows ==
  ASSUME NEW list
  PROVE  Ids(list) = {r.incident_id : r \in Elements(list)}
  BY DEF Ids, Elements

\* What a list is after an event: a new incident has been added in front, an
\* ended one marked, and every other row is as before.
LEMMA Handled ==
  ASSUME NEW list \in Seq(Row), Distinct(list), NEW ev \in Event
  PROVE  LET new == handleEvent(list, ev)
             i == ev.incident_id
         IN  /\ new \in Seq(Row) /\ Distinct(new)
             /\ Ids(list) \subseteq Ids(new)
             /\ \A r \in Elements(new) :
                  \/ r \in Elements(list) /\ ~(ev.type = "attack.ended" /\ r.incident_id = i)
                  \/ ev.type = "attack.started" /\ r = NewRow(i)
                  \/ /\ ev.type = "attack.ended"
                     /\ \E q \in Elements(list) :
                          q.incident_id = i /\ r = [q EXCEPT !.ended = TRUE]
             /\ \A r \in Elements(list) :
                  ev.type # "attack.ended" \/ r.incident_id # i => r \in Elements(new)
             /\ ev.type = "attack.started" /\ i \notin Ids(list)
                  => NewRow(i) \in Elements(new)
  <1> DEFINE new == handleEvent(list, ev)
             i == ev.incident_id
             idx == findIndex(list, i)
             n == Len(list)
  <1>1. /\ i \in Incidents
        /\ n \in Nat /\ list \in [1 .. n -> Row] /\ DOMAIN list = 1 .. n
    BY LenProperties DEF Event
  <1>2. /\ i \in Ids(list) => idx \in 1 .. n /\ idx # 0 /\ list[idx].incident_id = i
        /\ i \notin Ids(list) => idx = 0
    BY <1>1, FindIndex
  <1>3. CASE ev.type = "attack.started" /\ i \notin Ids(list)
    <2> DEFINE s == <<NewRow(i)>>
    <2>1. new = s \o list
      BY <1>2, <1>3 DEF handleEvent
    <2>2. NewRow(i) \in Row /\ NewRow(i).incident_id = i
      BY <1>1 DEF NewRow, Row
    <2>3. s \in Seq(Row) /\ Len(s) = 1 /\ s[1] = NewRow(i)
      BY <2>2
    <2>4. /\ new \in Seq(Row) /\ Len(new) = n + 1
          /\ \A k \in 1 .. n + 1 : new[k] = IF k = 1 THEN NewRow(i) ELSE list[k - 1]
      <3>1. /\ s \o list \in Seq(Row) /\ Len(s \o list) = 1 + n
            /\ \A k \in 1 .. 1 + n : (s \o list)[k] = IF k <= 1 THEN s[k] ELSE list[k - 1]
        BY <2>3, ConcatProperties
      <3> HIDE DEF s
      <3>2. \A k \in 1 .. 1 + n : (k <= 1) <=> (k = 1)
        BY <1>1
      <3>3. 1 + n = n + 1
        BY <1>1
      <3> HIDE DEF new, n
      <3>4. QED
        BY <2>1, <2>3, <3>1, <3>2, <3>3
    <2> HIDE DEF new, s
    <2>5. \A k \in 1 .. n : list[k].incident_id # i
      BY <1>3 DEF Ids
    <2>6. \A k \in 1 .. n + 1 : k # 1 => k - 1 \in 1 .. n /\ new[k] = list[k - 1]
      BY <1>1, <2>4
    <2>7. 1 \in 1 .. n + 1 /\ new[1] = NewRow(i)
      BY <1>1, <2>4
    <2>8. ASSUME NEW j \in 1 .. n + 1, NEW k \in 1 .. n + 1,
                 new[j].incident_id = new[k].incident_id
          PROVE  j = k
      <3>1. CASE j = 1 \/ k = 1
        BY <2>2, <2>5, <2>6, <2>7, <2>8, <3>1
      <3>2. CASE j # 1 /\ k # 1
        <4>1. j - 1 = k - 1
          BY <2>6, <2>8, <3>2 DEF Distinct
        <4>2. QED
          BY <1>1, <4>1
      <3>3. QED
        BY <3>1, <3>2
    <2>9. Distinct(new)
      BY <2>4, <2>8 DEF Distinct
    <2>10. Elements(new) = {NewRow(i)} \cup Elements(list)
      <3>1. \A k \in 1 .. n : k + 1 \in 1 .. n + 1 /\ new[k + 1] = list[k]
        BY <1>1, <2>4
      <3>2. Len(new) = n + 1
        BY <2>4
      <3>3. Elements(new) \subseteq {NewRow(i)} \cup Elements(list)
        BY <2>6, <2>7, <3>2 DEF Elements
      <3>4. {NewRow(i)} \cup Elements(list) \subseteq Elements(new)
        BY <2>7, <3>1, <3>2 DEF Elements
      <3>5. QED
        BY <3>3, <3>4
    <2>11. Ids(list) \subseteq Ids(new)
      BY <2>10, IdsOfRows
    <2>12. QED
      BY <1>3, <2>4, <2>9, <2>10, <2>11 DEF new
  <1>4. CASE ev.type = "attack.ended" /\ i \in Ids(list)
    <2> DEFINE e == [list[idx] EXCEPT !.ended = TRUE]
    <2>1. new = [list EXCEPT ![idx] = e]
      BY <1>2, <1>4 DEF handleEvent
    <2>2. idx \in 1 .. n /\ list[idx] \in Row /\ list[idx].incident_id = i
      BY <1>1, <1>2, <1>4
    <2>3. e \in Row /\ e.incident_id = i
      BY <2>2 DEF Row
    <2> HIDE DEF e
    <2>4. /\ new \in Seq(Row) /\ Len(new) = n
          /\ \A k \in 1 .. n : new[k] = IF k = idx THEN e ELSE list[k]
      BY <2>1, <2>2, <2>3, ExceptSeq
    <2> HIDE DEF new, idx
    <2>5. \A k \in 1 .. n : new[k].incident_id = list[k].incident_id
      BY <2>2, <2>3, <2>4
    <2>6. Distinct(new) /\ Ids(new) = Ids(list)
      BY <2>4, <2>5 DEF Distinct, Ids
    <2>7. \A k \in 1 .. n : k # idx => list[k].incident_id # i
      BY <2>2 DEF Distinct
    <2>8. ASSUME NEW r \in Elements(new)
          PROVE  \/ r \in Elements(list) /\ r.incident_id # i
                 \/ r = e
      BY <2>4, <2>7 DEF Elements
    <2>9. ASSUME NEW r \in Elements(list), r.incident_id # i
          PROVE  r \in Elements(new)
      BY <2>2, <2>4, <2>9 DEF Elements
    <2>10. \E q \in Elements(list) : q.incident_id = i /\ e = [q EXCEPT !.ended = TRUE]
      BY <2>2 DEF e, Elements
    <2>11. QED
      BY <1>4, <2>4, <2>6, <2>8, <2>9, <2>10 DEF new
  <1>5. CASE /\ ~(ev.type = "attack.started" /\ i \notin Ids(list))
             /\ ~(ev.type = "attack.ended" /\ i \in Ids(list))
    <2>1. new = list
      BY <1>2, <1>5 DEF handleEvent
    <2>2. \A r \in Elements(list) : ~(ev.type = "attack.ended" /\ r.incident_id = i)
      BY <1>5, IdsOfRows
    <2>3. QED
      BY <1>5, <2>1, <2>2
  <1>6. QED
    BY <1>3, <1>4, <1>5

\* What a list is when a fade timer has fired: the rows but that of its incident.
LEMMA Spliced ==
  ASSUME NEW list \in Seq(Row), Distinct(list), NEW i \in Incidents
  PROVE  LET idx == findIndex(list, i)
             new == IF idx # 0 THEN splice(list, idx) ELSE list
         IN  /\ new \in Seq(Row) /\ Distinct(new)
             /\ Elements(new) = {r \in Elements(list) : r.incident_id # i}
  <1> DEFINE idx == findIndex(list, i)
             n == Len(list)
  <1>1. n \in Nat /\ list \in [1 .. n -> Row]
    BY LenProperties
  <1>2. /\ i \in Ids(list) => idx \in 1 .. n /\ idx # 0 /\ list[idx].incident_id = i
        /\ i \notin Ids(list) => idx = 0
    BY FindIndex
  <1>3. CASE i \notin Ids(list)
    <2>1. \A r \in Elements(list) : r.incident_id # i
      BY <1>3, IdsOfRows
    <2>2. QED
      BY <1>2, <1>3, <2>1
  <1>4. CASE i \in Ids(list)
    <2> DEFINE new == splice(list, idx)
               At(j) == IF j < idx THEN j ELSE j + 1
    <2>1. idx \in 1 .. n /\ idx # 0 /\ list[idx].incident_id = i
      BY <1>2, <1>4
    <2>2. new = [j \in 1 .. n - 1 |-> list[At(j)]]
      BY DEF splice
    <2> HIDE DEF new, idx
    <2>3. /\ \A j \in 1 .. n - 1 : At(j) \in 1 .. n /\ At(j) # idx
          /\ \A j, k \in 1 .. n - 1 : At(j) = At(k) => j = k
      BY <1>1, <2>1
    <2>4. \A k \in 1 .. n : k # idx => \E j \in 1 .. n - 1 : At(j) = k
      <3> SUFFICES ASSUME NEW k \in 1 .. n, k # idx PROVE \E j \in 1 .. n - 1 : At(j) = k
        OBVIOUS
      <3>1. CASE k < idx
        <4>1. k \in 1 .. n - 1 /\ At(k) = k
          BY <1>1, <2>1, <3>1
        <4>2. QED
          BY <4>1
      <3>2. CASE k > idx
        <4>1. k - 1 \in 1 .. n - 1 /\ At(k - 1) = k
          BY <1>1, <2>1, <3>2
        <4>2. QED
          BY <4>1
      <3>3. QED
        BY <2>1, <3>1, <3>2
    <2> HIDE DEF At
    <2>5. \A j \in 1 .. n - 1 : new[j] = list[At(j)]
      BY <2>2
    <2>6. n - 1 \in Nat /\ new \in [1 .. n - 1 -> Row]
      BY <1>1, <2>1, <2>2, <2>3
    <2>7. new \in Seq(Row) /\ Len(new) = n - 1
      BY <2>6, LenProperties
    <2>8. Distinct(new)
      BY <2>3, <2>5, <2>7 DEF Distinct
    <2>9. \A k \in 1 .. n : k # idx => list[k].incident_id # i
      BY <2>1 DEF Distinct
    <2>10. Elements(new) \subseteq {r \in Elements(list) : r.incident_id # i}
      BY <2>3, <2>5, <2>7, <2>9 DEF Elements
    <2>11. {r \in Elements(list) : r.incident_id # i} \subseteq Elements(new)
      <3> SUFFICES ASSUME NEW k \in 1 .. n, list[k].incident_id # i
                   PROVE  list[k] \in Elements(new)
        BY DEF Elements
      <3>1. PICK j \in 1 .. n - 1 : At(j) = k
        BY <2>1, <2>4
      <3>2. new[j] = list[k] /\ j \in 1 .. Len(new)
        BY <2>5, <2>7, <3>1
      <3>3. QED
        BY <3>2 DEF Elements
    <2>12. QED
      BY <2>1, <2>7, <2>8, <2>10, <2>11 DEF new, idx
  <1>5. QED
    BY <1>3, <1>4

\* An answer of the server lists incidents that have started, once each, none as
\* ended, with the figures they have.
LEMMA AnswersReal ==
  ASSUME TypeOK, NEW rows \in Answers
  PROVE  /\ rows \in Seq(Row) /\ Distinct(rows)
         /\ \A r \in Elements(rows) : Real(r) /\ ~r.ended
  <1> DEFINE started == {i \in Incidents : truth[i] # "none"}
  <1>1. PICK open \in UNION {[1 .. n -> started] : n \in 0 .. MaxIncidents} :
          /\ \A j, k \in DOMAIN open : j < k => open[j] > open[k]
          /\ rows = [k \in DOMAIN open |->
                       [incident_id |-> open[k], figures |-> level[open[k]], ended |-> FALSE]]
    BY DEF Answers
  <1>2. PICK n \in 0 .. MaxIncidents : open \in [1 .. n -> started]
    BY <1>1
  <1>3. /\ n \in Nat /\ level \in [Incidents -> 1 .. 2]
        /\ DOMAIN open = 1 .. n
        /\ \A k \in 1 .. n : open[k] \in Incidents /\ open[k] \in Nat /\ truth[open[k]] # "none"
    BY <1>2, DashboardAssumption DEF TypeOK, Incidents
  <1>4. /\ rows \in [1 .. n -> Row]
        /\ \A k \in 1 .. n : /\ rows[k].incident_id = open[k]
                             /\ rows[k].figures = level[open[k]]
                             /\ ~rows[k].ended
    BY <1>1, <1>3 DEF Row
  <1>5. rows \in Seq(Row) /\ Len(rows) = n
    BY <1>3, <1>4, LenProperties
  <1>6. Distinct(rows)
    <2> SUFFICES ASSUME NEW j \in 1 .. n, NEW k \in 1 .. n, open[j] = open[k]
                 PROVE  j = k
      BY <1>4, <1>5 DEF Distinct
    <2>1. open[j] \in Nat /\ open[k] \in Nat /\ j \in DOMAIN open /\ k \in DOMAIN open
      BY <1>3
    <2>2. ~(open[j] > open[k]) /\ ~(open[k] > open[j])
      BY <2>1
    <2>3. ~(j < k) /\ ~(k < j)
      BY <1>1, <2>1, <2>2
    <2>4. QED
      BY <1>3, <2>3
  <1>7. \A i \in Incidents : level[i] \in Nat /\ level[i] <= level[i]
    BY <1>3
  <1>8. \A k \in 1 .. n : Real(rows[k]) /\ ~rows[k].ended
    BY <1>3, <1>4, <1>7 DEF Real
  <1>9. QED
    BY <1>5, <1>6, <1>8 DEF Elements

-----------------------------------------------------------------------------
(* What a step changes.                                                    *)

\* Incidents start and end, and get worse; nothing is taken back.
LEMMA TruthGrows ==
  ASSUME TypeOK, [Next]_vars
  PROVE  /\ truth' \in [Incidents -> {"none", "active", "ended"}]
         /\ level' \in [Incidents -> 1 .. 2]
         /\ \A i \in Incidents :
              /\ truth[i] # "none" => truth'[i] # "none"
              /\ truth[i] = "ended" => truth'[i] = "ended"
              /\ level[i] <= level'[i]
  <1>1. /\ truth \in [Incidents -> {"none", "active", "ended"}]
        /\ level \in [Incidents -> 1 .. 2]
    BY DEF TypeOK
  <1>2. ASSUME NEW i \in Incidents, Daemon(i)
        PROVE  \/ /\ truth[i] = "none" /\ truth' = [truth EXCEPT ![i] = "active"]
                  /\ UNCHANGED level
               \/ /\ truth[i] = "active" /\ truth' = [truth EXCEPT ![i] = "ended"]
                  /\ UNCHANGED level
               \/ level[i] = 1 /\ level' = [level EXCEPT ![i] = 2] /\ UNCHANGED truth
    BY <1>2 DEF Daemon, AttackStarts, AttackWorsens, AttackEnds
  <1>3. CASE UNCHANGED <<truth, level>>
    BY <1>1, <1>3
  <1>4. ASSUME ~\E i \in Incidents : Daemon(i) PROVE UNCHANGED <<truth, level>>
    BY <1>4
    DEF Next, vars, serverVars, Session, SessionEnds, SessionBegins, Load, SnapshotRead, SnapshotArrives, SnapshotFails, NumbersArrive,
        LoadFails, Retry, Stream, Subscribe, Open, Refused, Cut, Down, EndsCleanly,
        Reconnect, Deliver, Unmount, FadeEnds, Mount
  <1>5. ASSUME NEW i \in Incidents, Daemon(i)
        PROVE  /\ truth' \in [Incidents -> {"none", "active", "ended"}]
               /\ level' \in [Incidents -> 1 .. 2]
               /\ \A j \in Incidents :
                    /\ truth[j] # "none" => truth'[j] # "none"
                    /\ truth[j] = "ended" => truth'[j] = "ended"
                    /\ level[j] <= level'[j]
    <2>1. CASE /\ truth[i] = "none" /\ truth' = [truth EXCEPT ![i] = "active"]
               /\ UNCHANGED level
      BY <1>1, <2>1
    <2>2. CASE /\ truth[i] = "active" /\ truth' = [truth EXCEPT ![i] = "ended"]
               /\ UNCHANGED level
      BY <1>1, <2>2
    <2>3. CASE level[i] = 1 /\ level' = [level EXCEPT ![i] = 2] /\ UNCHANGED truth
      BY <1>1, <2>3
    <2>4. QED
      BY <1>2, <1>5, <2>1, <2>2, <2>3
  <1>6. QED
    BY <1>3, <1>4, <1>5

\* What was real stays real.
LEMMA StaysReal ==
  ASSUME TypeOK, [Next]_vars, NEW r \in Row, Real(r)
  PROVE  Real(r)'
  <1>1. r.incident_id \in Incidents /\ r.figures \in Nat
    BY DEF Row
  <1>2. level[r.incident_id] \in Nat /\ level'[r.incident_id] \in Nat
    <2>1. level \in [Incidents -> 1 .. 2] /\ level' \in [Incidents -> 1 .. 2]
      BY TruthGrows DEF TypeOK
    <2>2. QED
      BY <1>1, <2>1
  <1>3. /\ truth'[r.incident_id] # "none"
        /\ r.ended => truth'[r.incident_id] = "ended"
        /\ level[r.incident_id] <= level'[r.incident_id]
    BY <1>1, TruthGrows DEF Real
  <1>4. QED
    BY <1>1, <1>2, <1>3 DEF Real

\* A session that ends or begins changes nothing but what the server refuses.
LEMMA SessionOnly ==
  Session =>
    /\ UNCHANGED <<truth, level, stage, payload, conn, wire, whole, fading, pageVars,
                   active, sseStatus, reloaded, doubled>>
    /\ refusal' \in {"none", "all"}
    /\ UNCHANGED faults \/ Fault
  BY DEF Session, SessionEnds, SessionBegins, loadVars, streamVars

\* What the server refuses changes with the session alone.
LEMMA RefusalMoves ==
  ASSUME TypeOK, [Next]_vars
  PROVE  refusal' \in {"none", "all", "stream"}
  <1>1. refusal \in {"none", "all", "stream"}
    BY DEF TypeOK
  <1>2. UNCHANGED refusal \/ Session
    BY DEF Next, vars, serverVars, Daemon, AttackStarts, AttackWorsens, AttackEnds, Load,
           SnapshotRead, SnapshotArrives, SnapshotFails, NumbersArrive, LoadFails, Retry,
           Stream, Subscribe, Open, Refused, Cut, Down, EndsCleanly, Reconnect, Deliver,
           Unmount, FadeEnds, Mount
  <1>3. QED
    BY <1>1, <1>2, SessionOnly

\* The list changes when a snapshot arrives, an event is handled or a fade
\* timer fires.
LEMMA ListMoves ==
  [Next]_vars =>
    \/ UNCHANGED <<active, reloaded>>
    \/ \E m \in Instances : SnapshotArrives(m) \/ Deliver(m)
    \/ \E m \in Instances, i \in Incidents : FadeEnds(m, i)
  BY SessionOnly DEF Next, vars, Daemon, AttackStarts, AttackWorsens, AttackEnds, Load, SnapshotRead,
         SnapshotFails, NumbersArrive, LoadFails, Retry, Stream, Subscribe, Open,
         Refused, Cut, Down, EndsCleanly, Reconnect, Unmount, Mount

\* A server's answer changes when it is read and when it arrives.
LEMMA PayloadMoves ==
  [Next]_vars =>
    \/ UNCHANGED payload
    \/ \E m \in Instances : SnapshotRead(m) \/ SnapshotArrives(m)
  BY SessionOnly DEF Next, vars, loadVars, Daemon, AttackStarts, AttackWorsens, AttackEnds, Load,
         SnapshotFails, NumbersArrive, LoadFails, Retry, Stream, Subscribe, Open,
         Refused, Cut, Down, EndsCleanly, Reconnect, Deliver, Unmount, FadeEnds, Mount

\* Fade timers start with an event, end, or are stopped.
LEMMA FadingMoves ==
  [Next]_vars =>
    \/ UNCHANGED fading
    \/ \E m \in Instances : Deliver(m) \/ Unmount(m)
    \/ \E m \in Instances, i \in Incidents : FadeEnds(m, i)
  BY SessionOnly DEF Next, vars, Daemon, AttackStarts, AttackWorsens, AttackEnds, Load, SnapshotRead,
         SnapshotArrives, SnapshotFails, NumbersArrive, LoadFails, Retry, Stream,
         Subscribe, Open, Refused, Cut, Down, EndsCleanly, Reconnect, Mount

\* How the wire of a connection can change: it is left alone, cut, read, or a new
\* event is sent on it; and what a connection has missed nothing of with it.
Quiet(m) ==
  /\ wire'[m] = wire[m]
  /\ Live(m)' => Live(m)
  /\ whole'[m] \subseteq whole[m]
  /\ \A i \in whole'[m] : truth'[i] = truth[i]

Emptied(m) == wire'[m] = <<>> /\ whole'[m] = {}

Told(m, ev) ==
  /\ Live(m) /\ Len(wire[m]) < BufferCap
  /\ wire'[m] = Append(wire[m], ev)
  /\ \A i \in Incidents \ {ev.incident_id} : truth'[i] = truth[i]
  /\ CASE ev.type = "attack.started" ->
            /\ truth[ev.incident_id] = "none" /\ truth'[ev.incident_id] = "active"
            /\ whole'[m] = whole[m] \cup {ev.incident_id}
       [] ev.type = "attack.ended" ->
            /\ truth[ev.incident_id] = "active" /\ truth'[ev.incident_id] = "ended"
            /\ whole'[m] = whole[m]
       [] OTHER ->
            /\ truth[ev.incident_id] = "active" /\ truth'[ev.incident_id] = "active"
            /\ whole'[m] = whole[m]

\* The broker's fan-out of an event, as one connection sees it: sent, or missed.
LEMMA FanOutMoves ==
  ASSUME TypeOK, NEW ev \in Event, FanOut(ev), NEW m \in Instances,
         \A i \in Incidents \ {ev.incident_id} : truth'[i] = truth[i],
         CASE ev.type = "attack.started" ->
                truth[ev.incident_id] = "none" /\ truth'[ev.incident_id] = "active"
           [] ev.type = "attack.ended" ->
                truth[ev.incident_id] = "active" /\ truth'[ev.incident_id] = "ended"
           [] OTHER ->
                truth[ev.incident_id] = "active" /\ truth'[ev.incident_id] = "active"
  PROVE  Quiet(m) \/ Told(m, ev)
  <1>1. whole[m] \subseteq Incidents
    BY DEF TypeOK
  <1>2. Live(m)' <=> Live(m)
    BY DEF FanOut, Live
  <1>3. CASE Live(m) /\ Len(wire[m]) < BufferCap
    <2>1. /\ wire'[m] = Append(wire[m], ev)
          /\ whole'[m] = IF ev.type = "attack.started"
                         THEN whole[m] \cup {ev.incident_id} ELSE whole[m]
      BY <1>3 DEF FanOut
    <2>2. QED
      BY <1>3, <2>1 DEF Told
  <1>4. CASE ~(Live(m) /\ Len(wire[m]) < BufferCap)
    <2>1. wire'[m] = wire[m] /\ whole'[m] = whole[m] \ {ev.incident_id}
      BY <1>4 DEF FanOut
    <2>2. QED
      BY <1>1, <1>2, <2>1 DEF Quiet
  <1>5. QED
    BY <1>3, <1>4

\* What any step does to the wire of one connection.
LEMMA WireMoves ==
  ASSUME TypeOK, [Next]_vars, NEW m \in Instances
  PROVE  Quiet(m) \/ Emptied(m) \/ Deliver(m) \/ \E ev \in Event : Told(m, ev)
  <1>1. /\ truth \in [Incidents -> {"none", "active", "ended"}]
        /\ wire \in [Instances -> Seq(Event)]
        /\ whole \in [Instances -> SUBSET Incidents]
        /\ DOMAIN conn = Instances
    BY DEF TypeOK
  <1>2. ASSUME NEW i \in Incidents, Daemon(i)
        PROVE  Quiet(m) \/ \E ev \in Event : Told(m, ev)
    <2> DEFINE E(t) == [type |-> t, incident_id |-> i]
    <2>1. E("attack.started") \in Event /\ E("attack.updated") \in Event
          /\ E("attack.ended") \in Event
      BY DEF Event
    <2>2. CASE AttackStarts(i)
      <3>1. /\ FanOut(E("attack.started"))
            /\ truth[i] = "none" /\ truth'[i] = "active"
            /\ \A j \in Incidents \ {i} : truth'[j] = truth[j]
        BY <1>1, <2>2 DEF AttackStarts
      <3>2. QED
        BY <2>1, <3>1, FanOutMoves
    <2>3. CASE AttackWorsens(i)
      <3>1. /\ FanOut(E("attack.updated"))
            /\ truth[i] = "active" /\ truth'[i] = "active"
            /\ \A j \in Incidents \ {i} : truth'[j] = truth[j]
        BY <2>3 DEF AttackWorsens
      <3>2. QED
        BY <2>1, <3>1, FanOutMoves
    <2>4. CASE AttackEnds(i)
      <3>1. /\ FanOut(E("attack.ended"))
            /\ truth[i] = "active" /\ truth'[i] = "ended"
            /\ \A j \in Incidents \ {i} : truth'[j] = truth[j]
        BY <1>1, <2>4 DEF AttackEnds
      <3>2. QED
        BY <2>1, <3>1, FanOutMoves
    <2>5. QED
      BY <1>2, <2>2, <2>3, <2>4 DEF Daemon
  <1>3. ASSUME NEW n \in Instances, Subscribe(n) \/ Refused(n) \/ Cut(n) \/ EndsCleanly(n)
        PROVE  Quiet(m) \/ Emptied(m)
    <2>1. NothingSent(n) /\ UNCHANGED truth /\ \A c \in Instances \ {n} : conn'[c] = conn[c]
      BY <1>1, <1>3 DEF Subscribe, Refused, Cut, Down, EndsCleanly, Connection, serverVars
    <2>2. QED
      BY <1>1, <2>1 DEF NothingSent, Quiet, Emptied, Live
  <1>4. ASSUME NEW n \in Instances, Unmount(n)
        PROVE  Quiet(m) \/ Emptied(m)
    <2>1. /\ UNCHANGED truth
          /\ UNCHANGED streamVars \/ (Connection(n, "aborted") /\ NothingSent(n))
      BY <1>4 DEF Unmount, serverVars
    <2>2. QED
      BY <1>1, <2>1 DEF NothingSent, Connection, streamVars, Quiet, Emptied, Live
  <1>5. ASSUME NEW n \in Instances, Deliver(n)
        PROVE  Quiet(m) \/ Deliver(m)
    BY <1>1, <1>5 DEF Deliver, Quiet, Live, serverVars
  <1>6. ASSUME NEW n \in Instances, Open(n) \/ Reconnect(n) \/ NumbersArrive(n) \/ LoadFails(n)
        PROVE  Quiet(m)
    <2>1. UNCHANGED <<truth, wire, whole>>
      BY <1>6 DEF Open, Reconnect, NumbersArrive, LoadFails, serverVars
    <2>2. Live(m)' => Live(m)
      BY <1>1, <1>6
      DEF Open, Reconnect, NumbersArrive, LoadFails, LoadEnds, Connection, Live
    <2>3. QED
      BY <2>1, <2>2 DEF Quiet
  <1>7. CASE UNCHANGED <<truth, streamVars>>
    BY <1>7 DEF streamVars, Quiet, Live
  <1>8. ASSUME NEW n \in Instances, SnapshotRead(n) \/ SnapshotArrives(n) \/ SnapshotFails(n)
                                    \/ Retry(n) \/ (\E i \in Incidents : FadeEnds(n, i))
        PROVE  UNCHANGED <<truth, streamVars>>
    BY <1>8 DEF serverVars, SnapshotRead, SnapshotArrives, SnapshotFails, Retry, FadeEnds
  <1>9. Mount \/ Session \/ UNCHANGED vars => UNCHANGED <<truth, streamVars>>
    BY DEF Mount, Session, SessionEnds, SessionBegins, vars, serverVars, streamVars
  <1>10. QED
    BY <1>2, <1>3, <1>4, <1>5, <1>6, <1>7, <1>8, <1>9 DEF Next, Load, Stream

-----------------------------------------------------------------------------
(* The invariant holds.                                                    *)

\* The page that was never visited satisfies the invariant.
LEMMA InitInv == Init => DashboardInv
  <1> SUFFICES ASSUME Init PROVE DashboardInv
    OBVIOUS
  <1> USE DashboardAssumption DEF Init, NoInstance
  <1>1. TypeOK
    <2>1. <<>> \in Seq(Row) /\ <<>> \in Seq(Event) /\ Len(<<>>) = 0
      OBVIOUS
    <2>2. payload \in [Instances -> Seq(Row)] /\ wire \in [Instances -> Seq(Event)]
          /\ \A m \in Instances : Len(wire[m]) <= BufferCap
      BY <2>1
    <2>3. active \in Seq(Row)
      BY <2>1
    <2>4. /\ truth \in [Incidents -> {"none", "active", "ended"}]
          /\ level \in [Incidents -> 1 .. 2]
          /\ stage \in [Instances -> {"new", "asked", "answered", "numbers",
                                      "loaded", "failed"}]
          /\ conn \in [Instances -> {"none", "connecting", "subscribed", "open",
                                     "waiting", "closed", "aborted"}]
          /\ fading \in [Instances -> SUBSET Incidents]
          /\ whole \in [Instances -> SUBSET Incidents]
      OBVIOUS
    <2>5. /\ current \in {NoInstance} \cup Instances
          /\ sseStatus \in {"connecting", "open", "reconnecting", "closed"}
          /\ reloaded \subseteq Incidents /\ doubled \in BOOLEAN
          /\ leftEarly \subseteq Instances
      BY Zenon
    <2>6. visits \in 0 .. Visits /\ faults \in 0 .. MaxFaults
      BY SMT
    <2>7. QED
      BY <2>2, <2>3, <2>4, <2>5, <2>6 DEF TypeOK
  <1>2. ListsReal /\ EventsReal /\ ToldInOrder
    <2>1. Elements(<<>>) = {} /\ Distinct(<<>>) /\ StartsFirst(<<>>)
      BY DEF Elements, Distinct, StartsFirst
    <2>2. QED
      BY <2>1 DEF ListsReal, EventsReal, ToldInOrder
  <1>3. OneStream /\ ListTracksStream
    BY DEF OneStream, ListTracksStream, Live
  <1>4. InstancesKnown /\ StreamsExplained /\ StatusExplained
    BY DEF InstancesKnown, StreamsExplained, StatusExplained, Instances
  <1>5. QED
    BY <1>1, <1>2, <1>3, <1>4 DEF DashboardInv

\* Every step keeps the types of what the daemon and the page hold.
LEMMA NextTypes ==
  ASSUME DashboardInv, [Next]_vars
  PROVE  TypeOK'
  <1> USE DEF DashboardInv
  <1>1. /\ truth' \in [Incidents -> {"none", "active", "ended"}]
        /\ level' \in [Incidents -> 1 .. 2]
    BY TruthGrows
  <1>2. active' \in Seq(Row) /\ reloaded' \subseteq Incidents
    <2>1. /\ active \in Seq(Row) /\ Distinct(active) /\ reloaded \subseteq Incidents
          /\ payload \in [Instances -> Seq(Row)]
      BY DEF TypeOK, ListsReal
    <2>2. ASSUME NEW m \in Instances, Deliver(m)
          PROVE  active' \in Seq(Row) /\ UNCHANGED reloaded
      <3>1. /\ Head(wire[m]) \in Event
            /\ active' = handleEvent(active, Head(wire[m]))
            /\ UNCHANGED reloaded
        BY <2>2, Take DEF Deliver, TypeOK
      <3>2. QED
        BY <2>1, <3>1, Handled
    <2>3. ASSUME NEW m \in Instances, NEW i \in Incidents, FadeEnds(m, i)
          PROVE  active' \in Seq(Row) /\ UNCHANGED reloaded
      BY <2>1, <2>3, Spliced DEF FadeEnds
    <2>4. ASSUME NEW m \in Instances, SnapshotArrives(m)
          PROVE  active' \in Seq(Row) /\ reloaded' \subseteq Incidents
      BY <2>1, <2>4 DEF SnapshotArrives
    <2>5. QED
      BY <2>1, <2>2, <2>3, <2>4, ListMoves
  <1>3. payload' \in [Instances -> Seq(Row)]
    <2>1. payload \in [Instances -> Seq(Row)]
      BY DEF TypeOK
    <2>2. ASSUME NEW m \in Instances, SnapshotRead(m)
          PROVE  payload' \in [Instances -> Seq(Row)]
      <3>1. PICK rows \in Answers : payload' = [payload EXCEPT ![m] = rows]
        BY <2>2 DEF SnapshotRead
      <3>2. rows \in Seq(Row)
        BY AnswersReal
      <3>3. QED
        BY <2>1, <3>1, <3>2
    <2>3. ASSUME NEW m \in Instances, SnapshotArrives(m)
          PROVE  payload' \in [Instances -> Seq(Row)]
      <3>1. payload' = [payload EXCEPT ![m] = <<>>] /\ <<>> \in Seq(Row)
        BY <2>3 DEF SnapshotArrives
      <3>2. QED
        BY <2>1, <3>1
    <2>4. QED
      BY <2>1, <2>2, <2>3, PayloadMoves
  <1>4. /\ wire' \in [Instances -> Seq(Event)]
        /\ \A m \in Instances : Len(wire'[m]) <= BufferCap
        /\ whole' \in [Instances -> SUBSET Incidents]
    <2>1. /\ wire \in [Instances -> Seq(Event)]
          /\ \A m \in Instances : Len(wire[m]) <= BufferCap
          /\ whole \in [Instances -> SUBSET Incidents]
          /\ BufferCap \in Nat \ {0}
      BY DashboardAssumption DEF TypeOK
    <2>2. /\ wire' = [m \in Instances |-> wire'[m]]
          /\ whole' = [m \in Instances |-> whole'[m]]
      <3>1. ASSUME NEW i \in Incidents, Daemon(i)
            PROVE  /\ wire' = [m \in Instances |-> wire'[m]]
                   /\ whole' = [m \in Instances |-> whole'[m]]
        BY <3>1 DEF Daemon, AttackStarts, AttackWorsens, AttackEnds, FanOut
      <3>2. ASSUME NEW m \in Instances, Stream(m) \/ Unmount(m)
            PROVE  /\ wire' = [n \in Instances |-> wire'[n]]
                   /\ whole' = [n \in Instances |-> whole'[n]]
        BY <2>1, <3>2
        DEF Stream, Subscribe, Open, Refused, Cut, Down, EndsCleanly, Reconnect, Deliver,
            Unmount, NothingSent, streamVars
      <3>3. ASSUME NEW m \in Instances, Load(m) \/ Retry(m) \/ \E i \in Incidents : FadeEnds(m, i)
            PROVE  UNCHANGED <<wire, whole>>
        BY <3>3 DEF Load, SnapshotRead, SnapshotArrives, SnapshotFails, NumbersArrive,
                    LoadFails, Retry, FadeEnds, streamVars
      <3>4. Mount \/ Session \/ UNCHANGED vars => UNCHANGED <<wire, whole>>
        BY SessionOnly DEF Mount, vars, streamVars
      <3>5. QED
        BY <2>1, <3>1, <3>2, <3>3, <3>4 DEF Next
    <2>3. ASSUME NEW m \in Instances
          PROVE  /\ wire'[m] \in Seq(Event) /\ Len(wire'[m]) <= BufferCap
                 /\ whole'[m] \subseteq Incidents
      <3>1. CASE Quiet(m)
        BY <2>1, <3>1 DEF Quiet
      <3>2. CASE Emptied(m)
        BY <2>1, <3>2 DEF Emptied
      <3>3. CASE Deliver(m)
        <4>1. wire[m] # <<>> /\ wire'[m] = Tail(wire[m]) /\ whole' = whole
          BY <2>1, <3>3 DEF Deliver
        <4>2. /\ Tail(wire[m]) \in Seq(Event) /\ Len(wire[m]) \in Nat
              /\ Len(Tail(wire[m])) = Len(wire[m]) - 1
          BY <2>1, <4>1, Take
        <4>3. QED
          BY <2>1, <4>1, <4>2
      <3>4. ASSUME NEW ev \in Event, Told(m, ev)
            PROVE  /\ wire'[m] \in Seq(Event) /\ Len(wire'[m]) <= BufferCap
                   /\ whole'[m] \subseteq Incidents
        <4>1. /\ wire'[m] \in Seq(Event) /\ Len(wire'[m]) = Len(wire[m]) + 1
              /\ Len(wire[m]) \in Nat /\ Len(wire[m]) < BufferCap
          BY <2>1, <3>4, Put DEF Told
        <4>2. ev.incident_id \in Incidents /\ (whole'[m] = whole[m] \/
                whole'[m] = whole[m] \cup {ev.incident_id})
          BY <3>4 DEF Told, Event
        <4>3. QED
          BY <2>1, <4>1, <4>2
      <3>5. QED
        BY <3>1, <3>2, <3>3, <3>4, WireMoves
    <2>4. QED
      BY <2>2, <2>3
  <1>5. fading' \in [Instances -> SUBSET Incidents]
    <2>1. fading \in [Instances -> SUBSET Incidents] /\ wire \in [Instances -> Seq(Event)]
      BY DEF TypeOK
    <2>2. ASSUME NEW m \in Instances, Deliver(m)
          PROVE  fading' \in [Instances -> SUBSET Incidents]
      <3>1. Head(wire[m]).incident_id \in Incidents
        <4>1. wire[m] # <<>> /\ wire[m] \in Seq(Event)
          BY <2>1, <2>2 DEF Deliver
        <4>2. Head(wire[m]) \in Event
          BY <4>1, Take
        <4>3. QED
          BY <4>2 DEF Event
      <3>2. QED
        BY <2>1, <2>2, <3>1 DEF Deliver
    <2>3. ASSUME NEW m \in Instances,
                 Unmount(m) \/ \E i \in Incidents : FadeEnds(m, i)
          PROVE  fading' \in [Instances -> SUBSET Incidents]
      BY <2>1, <2>3 DEF Unmount, FadeEnds
    <2>4. QED
      BY <2>1, <2>2, <2>3, FadingMoves
  <1>6. /\ current' \in {NoInstance} \cup Instances /\ visits' \in 0 .. Visits
        /\ leftEarly' \subseteq Instances
        /\ stage' \in [Instances -> {"new", "asked", "answered", "numbers",
                                     "loaded", "failed"}]
    <2>1. /\ current \in {NoInstance} \cup Instances /\ visits \in 0 .. Visits
          /\ leftEarly \subseteq Instances
          /\ stage \in [Instances -> {"new", "asked", "answered", "numbers",
                                      "loaded", "failed"}]
          /\ Visits \in Nat
      BY DashboardAssumption DEF TypeOK
    <2>2. ASSUME NEW m \in Instances, Load(m) \/ Retry(m)
          PROVE  /\ UNCHANGED pageVars
                 /\ \E s \in {"asked", "answered", "numbers", "loaded", "failed"} :
                      stage' = [stage EXCEPT ![m] = s]
      BY <2>2 DEF Load, SnapshotRead, SnapshotArrives, SnapshotFails, NumbersArrive,
                  LoadFails, LoadEnds, Retry, Reach
    <2>3. CASE Mount
      <3>1. /\ current' = visits + 1 /\ visits' = visits + 1 /\ visits < Visits
            /\ stage' = [stage EXCEPT ![visits + 1] = "asked"] /\ leftEarly' = leftEarly
        BY <2>3 DEF Mount, Reach
      <3>2. QED
        BY <2>1, <3>1 DEF Instances
    <2>4. ASSUME NEW m \in Instances, Unmount(m)
          PROVE  /\ current' = NoInstance /\ UNCHANGED <<visits, stage>>
                 /\ leftEarly' \subseteq leftEarly \cup {m}
      BY <2>4 DEF Unmount, loadVars
    <2>5. ASSUME NEW m \in Instances, Stream(m) \/ \E i \in Incidents : FadeEnds(m, i)
          PROVE  UNCHANGED <<pageVars, stage>>
      BY <2>5 DEF Stream, Subscribe, Open, Refused, Cut, Down, EndsCleanly, Reconnect,
                  Deliver, FadeEnds, loadVars
    <2>6. ASSUME NEW i \in Incidents, Daemon(i) PROVE UNCHANGED <<pageVars, stage>>
      BY <2>6 DEF Daemon, AttackStarts, AttackWorsens, AttackEnds, loadVars
    <2>7. Session \/ UNCHANGED vars => UNCHANGED <<pageVars, stage>>
      BY SessionOnly DEF vars, loadVars
    <2>8. QED
      BY <2>1, <2>2, <2>3, <2>4, <2>5, <2>6, <2>7 DEF Next, pageVars
  <1>7. conn' \in [Instances -> {"none", "connecting", "subscribed", "open", "waiting",
                                 "closed", "aborted"}]
    <2>1. conn \in [Instances -> {"none", "connecting", "subscribed", "open", "waiting",
                                  "closed", "aborted"}]
      BY DEF TypeOK
    <2>2. ASSUME NEW m \in Instances, Load(m) \/ Retry(m)
          PROVE  UNCHANGED conn \/ conn' = [conn EXCEPT ![m] = IF @ = "none" THEN "connecting" ELSE @]
      BY <2>2 DEF Load, SnapshotRead, SnapshotArrives, SnapshotFails, NumbersArrive,
                  LoadFails, LoadEnds, Retry, streamVars
    <2>3. ASSUME NEW m \in Instances, Stream(m) \/ Unmount(m)
          PROVE  UNCHANGED conn \/ \E c \in {"connecting", "subscribed", "open", "waiting",
                                             "closed", "aborted"} :
                                     conn' = [conn EXCEPT ![m] = c]
      BY <2>3 DEF Stream, Subscribe, Open, Refused, Cut, Down, EndsCleanly, Reconnect,
                  Deliver, Unmount, Connection, streamVars
    <2>4. ASSUME NEW i \in Incidents, Daemon(i) PROVE UNCHANGED conn
      BY <2>4 DEF Daemon, AttackStarts, AttackWorsens, AttackEnds, FanOut
    <2>5. ASSUME NEW m \in Instances, NEW i \in Incidents, FadeEnds(m, i) PROVE UNCHANGED conn
      BY <2>5 DEF FadeEnds, streamVars
    <2>6. Mount \/ Session \/ UNCHANGED vars => UNCHANGED conn
      BY SessionOnly DEF Mount, vars, streamVars
    <2>7. QED
      BY <2>1, <2>2, <2>3, <2>4, <2>5, <2>6 DEF Next
  <1>8. /\ sseStatus' \in {"connecting", "open", "reconnecting", "closed"}
        /\ faults' \in 0 .. MaxFaults /\ doubled' \in BOOLEAN
    <2>1. /\ sseStatus \in {"connecting", "open", "reconnecting", "closed"}
          /\ faults \in 0 .. MaxFaults /\ doubled \in BOOLEAN /\ MaxFaults \in Nat
      BY DashboardAssumption DEF TypeOK
    <2>2. ASSUME NEW m \in Instances, Load(m) \/ Retry(m)
          PROVE  UNCHANGED <<sseStatus, doubled>> /\ (UNCHANGED faults \/ Fault)
      BY <2>2 DEF Load, SnapshotRead, SnapshotArrives, SnapshotFails, NumbersArrive,
                  LoadFails, RequestFails, Retry
    <2>3. ASSUME NEW m \in Instances, Stream(m) \/ Unmount(m)
          PROVE  /\ UNCHANGED sseStatus \/ sseStatus' \in {"open", "reconnecting"}
                 /\ UNCHANGED doubled
                      \/ doubled' = (doubled \/ \E n \in Instances \ {m} : Live(n))
                 /\ UNCHANGED faults \/ Fault
      BY <2>3 DEF Stream, Subscribe, Open, Refused, Cut, RequestFails, Down, EndsCleanly,
                  Reconnect, Deliver, Unmount
    <2>4. ASSUME NEW i \in Incidents, Daemon(i) PROVE UNCHANGED <<sseStatus, faults, doubled>>
      BY <2>4 DEF Daemon, AttackStarts, AttackWorsens, AttackEnds
    <2>5. ASSUME NEW m \in Instances, NEW i \in Incidents, FadeEnds(m, i)
          PROVE  UNCHANGED <<sseStatus, faults, doubled>>
      BY <2>5 DEF FadeEnds
    <2>6. Mount => sseStatus' = "connecting" /\ UNCHANGED <<faults, doubled>>
      BY DEF Mount
    <2>7. /\ UNCHANGED vars => UNCHANGED <<sseStatus, faults, doubled>>
          /\ Session => UNCHANGED <<sseStatus, doubled>> /\ (UNCHANGED faults \/ Fault)
      BY SessionOnly DEF vars
    <2>8. Fault => faults' \in 0 .. MaxFaults
      BY <2>1 DEF Fault
    <2>9. QED
      BY <2>1, <2>2, <2>3, <2>4, <2>5, <2>6, <2>7, <2>8 DEF Next
  <1>9. QED
    BY <1>1, <1>2, <1>3, <1>4, <1>5, <1>6, <1>7, <1>8, RefusalMoves DEF TypeOK

\* Every list stays real: an answer is when it is read, an event when handled.
LEMMA NextListsReal ==
  ASSUME DashboardInv, [Next]_vars
  PROVE  ListsReal'
  <1>1. /\ TypeOK /\ ListsReal /\ EventsReal
        /\ active \in Seq(Row) /\ Distinct(active)
        /\ payload \in [Instances -> Seq(Row)]
        /\ wire \in [Instances -> Seq(Event)]
        /\ truth \in [Incidents -> {"none", "active", "ended"}]
        /\ level \in [Incidents -> 1 .. 2]
    BY DEF DashboardInv, TypeOK, ListsReal
  <1>2. ASSUME NEW q \in Seq(Row), NEW r \in Elements(q) PROVE r \in Row
    BY <1>2, LenProperties DEF Elements
  <1>3. ASSUME NEW q \in Seq(Row), \A r \in Elements(q) : Real(r)
        PROVE  \A r \in Elements(q) : Real(r)'
    BY <1>1, <1>2, <1>3, StaysReal
  <1>4. Distinct(active') /\ \A r \in Elements(active') : Real(r)'
    <2>1. CASE UNCHANGED active
      BY <1>1, <1>3, <2>1 DEF ListsReal
    <2>2. ASSUME NEW m \in Instances, SnapshotArrives(m)
          PROVE  Distinct(active') /\ \A r \in Elements(active') : Real(r)'
      <3>1. active' = payload[m] /\ payload[m] \in Seq(Row)
        BY <1>1, <2>2 DEF SnapshotArrives
      <3>2. Distinct(payload[m]) /\ \A r \in Elements(payload[m]) : Real(r)
        BY <1>1 DEF ListsReal
      <3>3. QED
        BY <1>3, <3>1, <3>2
    <2>3. ASSUME NEW m \in Instances, NEW i \in Incidents, FadeEnds(m, i)
          PROVE  Distinct(active') /\ \A r \in Elements(active') : Real(r)'
      <3>1. /\ Distinct(active') 
            /\ Elements(active') \subseteq Elements(active)
        BY <1>1, <2>3, Spliced DEF FadeEnds
      <3>2. QED
        BY <1>1, <1>3, <3>1 DEF ListsReal
    <2>4. ASSUME NEW m \in Instances, Deliver(m)
          PROVE  Distinct(active') /\ \A r \in Elements(active') : Real(r)'
      <3>1. wire[m] # <<>> /\ active' = handleEvent(active, Head(wire[m]))
            /\ UNCHANGED <<truth, level>>
        BY <2>4 DEF Deliver, serverVars
      <3> DEFINE ev == Head(wire[m])
                 i == ev.incident_id
      <3>2. ev \in Event /\ ev \in Elements(wire[m])
        BY <1>1, <3>1, Take
      <3>3. /\ i \in Incidents /\ truth[i] # "none"
            /\ ev.type = "attack.ended" => truth[i] = "ended"
        BY <1>1, <3>2 DEF EventsReal, Event
      <3> HIDE DEF ev
      <3>4. /\ active' = handleEvent(active, ev)
            /\ Distinct(active')
            /\ \A r \in Elements(active') :
                 \/ r \in Elements(active)
                 \/ r = NewRow(i)
                 \/ /\ ev.type = "attack.ended"
                    /\ \E q \in Elements(active) :
                         q.incident_id = i /\ r = [q EXCEPT !.ended = TRUE]
        <4>1. active' = handleEvent(active, ev)
          BY <3>1 DEF ev
        <4>2. QED
          BY <1>1, <3>2, <4>1, Handled
      <3>5. Real(NewRow(i))
        <4>1. level[i] \in 1 .. 2
          BY <1>1, <3>3
        <4>2. QED
          BY <3>3, <4>1 DEF Real, NewRow
      <3>6. ASSUME NEW q \in Elements(active), q.incident_id = i, ev.type = "attack.ended"
            PROVE  Real([q EXCEPT !.ended = TRUE])
        <4>1. q \in Row /\ Real(q)
          BY <1>1, <1>2 DEF ListsReal
        <4>2. QED
          BY <3>3, <3>6, <4>1 DEF Real, Row
      <3>7. \A r \in Elements(active') : Real(r)
        <4>1. \A r \in Elements(active) : Real(r)
          BY <1>1 DEF ListsReal
        <4>2. QED
          BY <3>4, <3>5, <3>6, <4>1
      <3>8. \A r : Real(r) => Real(r)'
        BY <3>1 DEF Real
      <3>9. QED
        BY <3>4, <3>7, <3>8
    <2>5. QED
      BY <2>1, <2>2, <2>3, <2>4, ListMoves
  <1>5. ASSUME NEW m \in Instances
        PROVE  /\ Distinct(payload'[m])
               /\ \A r \in Elements(payload'[m]) : Real(r)' /\ ~r.ended
    <2>1. payload[m] \in Seq(Row) /\ Distinct(payload[m])
          /\ \A r \in Elements(payload[m]) : Real(r) /\ ~r.ended
      BY <1>1 DEF ListsReal
    <2>2. CASE payload'[m] = payload[m]
      BY <1>3, <2>1, <2>2
    <2>3. CASE SnapshotRead(m)
      <3>1. PICK rows \in Answers : payload' = [payload EXCEPT ![m] = rows]
        BY <2>3 DEF SnapshotRead
      <3>2. /\ rows \in Seq(Row) /\ Distinct(rows)
            /\ \A r \in Elements(rows) : Real(r) /\ ~r.ended
        BY <1>1, AnswersReal
      <3>3. payload'[m] = rows
        BY <1>1, <3>1
      <3>4. QED
        BY <1>3, <3>2, <3>3
    <2>4. CASE SnapshotArrives(m)
      <3>1. payload'[m] = <<>>
        BY <1>1, <2>4 DEF SnapshotArrives
      <3>2. Elements(<<>>) = {} /\ Distinct(<<>>)
        BY DEF Elements, Distinct
      <3>3. QED
        BY <3>1, <3>2
    <2>5. ASSUME NEW n \in Instances \ {m}, SnapshotRead(n) \/ SnapshotArrives(n)
          PROVE  payload'[m] = payload[m]
      BY <1>1, <2>5 DEF SnapshotRead, SnapshotArrives
    <2>6. QED
      BY <2>2, <2>3, <2>4, <2>5, PayloadMoves
  <1>6. QED
    BY <1>4, <1>5 DEF ListsReal

\* What is on a wire, or fades, has happened.
LEMMA NextEventsReal ==
  ASSUME DashboardInv, [Next]_vars
  PROVE  EventsReal'
  <1>1. /\ TypeOK /\ EventsReal
        /\ wire \in [Instances -> Seq(Event)]
        /\ fading \in [Instances -> SUBSET Incidents]
    BY DEF DashboardInv, TypeOK
  <1>2. ASSUME NEW m \in Instances, NEW e \in Elements(wire'[m])
        PROVE  /\ truth'[e.incident_id] # "none"
               /\ e.type = "attack.ended" => truth'[e.incident_id] = "ended"
    <2>1. ASSUME e \in Elements(wire[m])
          PROVE  /\ truth'[e.incident_id] # "none"
                 /\ e.type = "attack.ended" => truth'[e.incident_id] = "ended"
      <3>1. wire[m] \in [1 .. Len(wire[m]) -> Event]
        BY <1>1, LenProperties
      <3>2. e.incident_id \in Incidents
        BY <2>1, <3>1 DEF Elements, Event
      <3>3. QED
        BY <1>1, <2>1, <3>2, TruthGrows DEF EventsReal
    <2>2. CASE Quiet(m)
      BY <1>2, <2>1, <2>2 DEF Quiet
    <2>3. CASE Emptied(m)
      <3>1. Elements(<<>>) = {}
        BY DEF Elements
      <3>2. QED
        BY <1>2, <2>3, <3>1 DEF Emptied
    <2>4. CASE Deliver(m)
      <3>1. wire[m] # <<>> /\ wire'[m] = Tail(wire[m])
        BY <1>1, <2>4 DEF Deliver
      <3>2. e \in Elements(wire[m])
        BY <1>1, <1>2, <3>1, Take
      <3>3. QED
        BY <2>1, <3>2
    <2>5. ASSUME NEW ev \in Event, Told(m, ev)
          PROVE  /\ truth'[e.incident_id] # "none"
                 /\ e.type = "attack.ended" => truth'[e.incident_id] = "ended"
      <3>1. e \in Elements(wire[m]) \/ e = ev
        BY <1>1, <1>2, <2>5, Put DEF Told
      <3>2. /\ truth'[ev.incident_id] # "none"
            /\ ev.type = "attack.ended" => truth'[ev.incident_id] = "ended"
        BY <2>5 DEF Told
      <3>3. QED
        BY <2>1, <3>1, <3>2
    <2>6. QED
      BY <1>1, <2>2, <2>3, <2>4, <2>5, WireMoves
  <1>3. ASSUME NEW m \in Instances, NEW i \in fading'[m]
        PROVE  truth'[i] = "ended"
    <2>1. ASSUME NEW j \in fading[m] PROVE truth'[j] = "ended"
      BY <1>1, TruthGrows DEF EventsReal
    <2>2. CASE UNCHANGED fading
      BY <1>3, <2>1, <2>2
    <2>3. ASSUME NEW n \in Instances,
                 Unmount(n) \/ \E j \in Incidents : FadeEnds(n, j)
          PROVE  fading'[m] \subseteq fading[m]
      BY <1>1, <2>3 DEF Unmount, FadeEnds
    <2>4. ASSUME NEW n \in Instances, Deliver(n)
          PROVE  truth'[i] = "ended"
      <3> DEFINE ev == Head(wire[n])
      <3>1. /\ wire[n] # <<>> /\ UNCHANGED serverVars
            /\ fading' = [fading EXCEPT ![n] =
                 IF ev.type = "attack.ended" THEN @ \cup {ev.incident_id} ELSE @]
        BY <2>4 DEF Deliver
      <3>2. ev \in Elements(wire[n])
        BY <1>1, <3>1, Take
      <3> HIDE DEF ev
      <3>3. ev.type = "attack.ended" => truth[ev.incident_id] = "ended"
        BY <1>1, <3>2 DEF EventsReal
      <3>4. i \in fading[m] \/ (ev.type = "attack.ended" /\ i = ev.incident_id)
        BY <1>1, <1>3, <3>1
      <3>5. QED
        BY <2>1, <3>1, <3>3, <3>4 DEF serverVars
    <2>5. QED
      BY <1>3, <2>1, <2>2, <2>3, <2>4, FadingMoves
  <1>4. QED
    BY <1>2, <1>3 DEF EventsReal

\* An event of an incident in a queue.
Has(q, type, i) == \E e \in Elements(q) : e.type = type /\ e.incident_id = i

\* The model's Waiting in terms of the events of a queue, now and after a step.
LEMMA WaitingIsHas ==
  ASSUME NEW m \in Instances, NEW type, NEW i
  PROVE  /\ Waiting(m, type, i) <=> Has(wire[m], type, i)
         /\ Waiting(m, type, i)' <=> Has(wire'[m], type, i)
  BY DEF Waiting, Has, Elements

\* A start is sent before its end, and received before it; a connection that
\* has missed nothing is sent both.
LEMMA NextToldInOrder ==
  ASSUME DashboardInv, [Next]_vars
  PROVE  ToldInOrder'
  <1>1. /\ TypeOK /\ EventsReal /\ ToldInOrder
        /\ wire \in [Instances -> Seq(Event)]
        /\ whole \in [Instances -> SUBSET Incidents]
        /\ truth \in [Incidents -> {"none", "active", "ended"}]
    BY DEF DashboardInv, TypeOK
  <1>2. ASSUME NEW m \in Instances
        PROVE  StartsFirst(wire'[m])
    <2> DEFINE q == wire[m]
               n == Len(q)
    <2>1. StartsFirst(q) /\ q \in Seq(Event) /\ n \in Nat /\ q \in [1 .. n -> Event]
      BY <1>1, LenProperties DEF ToldInOrder
    <2> HIDE DEF q
    <2>2. CASE Quiet(m)
      BY <2>1, <2>2 DEF Quiet, q
    <2>3. CASE Emptied(m)
      <3>1. StartsFirst(<<>>)
        BY DEF StartsFirst
      <3>2. QED
        BY <2>3, <3>1 DEF Emptied
    <2>4. CASE Deliver(m)
      <3>1. q # <<>> /\ wire'[m] = Tail(q)
        BY <1>1, <2>4 DEF Deliver, q
      <3>2. Len(Tail(q)) = n - 1 /\ \A k \in 1 .. n - 1 : Tail(q)[k] = q[k + 1]
        BY <2>1, <3>1, Take
      <3>3. \A k \in 1 .. n - 1 : k + 1 \in 1 .. n
        BY <2>1
      <3>4. \A j, k \in 1 .. n - 1 : j < k => j + 1 < k + 1
        BY <2>1
      <3>5. StartsFirst(Tail(q))
        BY <2>1, <3>2, <3>3, <3>4 DEF StartsFirst
      <3>6. QED
        BY <3>1, <3>5
    <2>5. ASSUME NEW ev \in Event, Told(m, ev) PROVE StartsFirst(wire'[m])
      <3> DEFINE p == Append(q, ev)
      <3>1. /\ Len(p) = n + 1 /\ p[n + 1] = ev /\ \A k \in 1 .. n : p[k] = q[k]
        BY <2>1, Put
      <3> HIDE DEF p
      <3>2. ASSUME NEW j \in 1 .. n + 1, NEW k \in 1 .. n + 1, j < k,
                   p[j].type = "attack.ended", p[k].type = "attack.started",
                   p[j].incident_id = p[k].incident_id
            PROVE  FALSE
        <4>1. j \in 1 .. n /\ p[j] = q[j]
          BY <2>1, <3>1, <3>2
        <4>2. CASE k \in 1 .. n
          BY <2>1, <3>1, <3>2, <4>1, <4>2 DEF StartsFirst
        <4>3. CASE k = n + 1
          <5>1. q[j] \in Elements(q)
            BY <4>1 DEF Elements
          <5>2. truth[q[j].incident_id] = "ended"
            BY <1>1, <3>2, <4>1, <5>1 DEF EventsReal, q
          <5>3. truth[ev.incident_id] = "none"
            BY <2>5, <3>1, <3>2, <4>3 DEF Told
          <5>4. QED
            BY <3>1, <3>2, <4>1, <4>3, <5>2, <5>3
        <4>4. QED
          BY <2>1, <4>2, <4>3
      <3>3. StartsFirst(p)
        BY <3>1, <3>2 DEF StartsFirst
      <3>4. QED
        BY <2>5, <3>3 DEF Told, p, q
    <2>6. QED
      BY <1>1, <2>2, <2>3, <2>4, <2>5, WireMoves
  <1>3. ASSUME NEW m \in Instances, Live(m)', NEW i \in whole'[m]
        PROVE  /\ truth'[i] # "none"
               /\ truth'[i] = "ended" /\ Has(wire'[m], "attack.started", i)
                    => Has(wire'[m], "attack.ended", i)
    <2> DEFINE q == wire[m]
    <2>1. q \in Seq(Event) /\ StartsFirst(q)
      BY <1>1 DEF ToldInOrder
    <2>2. ASSUME Live(m), i \in whole[m]
          PROVE  /\ truth[i] # "none" /\ i \in Incidents
                 /\ truth[i] = "ended" /\ Has(q, "attack.started", i)
                      => Has(q, "attack.ended", i)
      BY <1>1, <2>2, WaitingIsHas DEF ToldInOrder
    <2> HIDE DEF q
    <2>3. CASE Quiet(m)
      BY <1>3, <2>2, <2>3 DEF Quiet, q
    <2>4. CASE Emptied(m)
      BY <1>3, <2>4 DEF Emptied
    <2>5. CASE Deliver(m)
      <3>1. /\ q # <<>> /\ wire'[m] = Tail(q)
            /\ Live(m) /\ i \in whole[m] /\ truth' = truth
        BY <1>1, <1>3, <2>5 DEF Deliver, Live, serverVars, q
      <3>2. /\ Elements(q) = {Head(q)} \cup Elements(Tail(q))
            /\ Head(q) = q[1] /\ Len(q) \in Nat \ {0} /\ Len(Tail(q)) = Len(q) - 1
            /\ \A k \in 1 .. Len(q) - 1 : Tail(q)[k] = q[k + 1]
        BY <2>1, <3>1, Take
      <3>3. ASSUME truth[i] = "ended", Has(Tail(q), "attack.started", i)
            PROVE  Has(Tail(q), "attack.ended", i)
        <4>1. Has(q, "attack.ended", i)
          BY <2>2, <3>1, <3>2, <3>3 DEF Has
        <4>2. ~(Head(q).type = "attack.ended" /\ Head(q).incident_id = i)
          <5>1. PICK k \in 1 .. Len(q) - 1 :
                  q[k + 1].type = "attack.started" /\ q[k + 1].incident_id = i
            BY <3>2, <3>3 DEF Has, Elements
          <5>2. 1 \in 1 .. Len(q) /\ k + 1 \in 1 .. Len(q) /\ 1 < k + 1
            BY <3>2
          <5>3. QED
            BY <2>1, <3>2, <5>1, <5>2 DEF StartsFirst
        <4>3. QED
          BY <3>2, <4>1, <4>2 DEF Has
      <3>4. QED
        BY <2>2, <3>1, <3>3
    <2>6. ASSUME NEW ev \in Event, Told(m, ev)
          PROVE  /\ truth'[i] # "none"
                 /\ truth'[i] = "ended" /\ Has(wire'[m], "attack.started", i)
                      => Has(wire'[m], "attack.ended", i)
      <3>1. /\ Live(m) /\ Elements(wire'[m]) = Elements(q) \cup {ev}
        BY <2>1, <2>6, Put DEF Told, q
      <3>2. CASE i = ev.incident_id
        <4>1. CASE ev.type = "attack.ended"
          BY <2>6, <3>1, <3>2, <4>1 DEF Told, Has
        <4>2. CASE ev.type # "attack.ended"
          BY <2>6, <3>2, <4>2 DEF Told
        <4>3. QED
          BY <4>1, <4>2
      <3>3. CASE i # ev.incident_id
        <4>1. i \in whole[m] /\ i \in Incidents
          BY <1>1, <1>3, <2>6, <3>3 DEF Told
        <4>2. truth'[i] = truth[i]
          BY <2>6, <3>3, <4>1 DEF Told
        <4>3. QED
          BY <2>2, <3>1, <3>3, <4>1, <4>2 DEF Has
      <3>4. QED
        BY <3>2, <3>3
    <2>7. QED
      BY <1>1, <2>3, <2>4, <2>5, <2>6, WireMoves
  <1>4. QED
    BY <1>2, <1>3, WaitingIsHas DEF ToldInOrder

\* A second stream comes up only by a subscription, which notes it.
LEMMA NextOneStream ==
  ASSUME DashboardInv, [Next]_vars
  PROVE  OneStream' /\ (~doubled' => ~doubled)
  <1>1. /\ OneStream /\ doubled \in BOOLEAN
        /\ conn \in [Instances -> {"none", "connecting", "subscribed", "open", "waiting",
                                   "closed", "aborted"}]
    BY DEF DashboardInv, TypeOK
  <1>2. ASSUME NEW m \in Instances, Subscribe(m)
        PROVE  OneStream' /\ (~doubled' => ~doubled)
    <2>1. /\ conn' = [conn EXCEPT ![m] = "subscribed"]
          /\ doubled' = (doubled \/ \E n \in Instances \ {m} : Live(n))
      BY <1>2 DEF Subscribe, Connection
    <2>2. \A n \in Instances \ {m} : Live(n)' => Live(n)
      BY <1>1, <2>1 DEF Live
    <2>3. QED
      BY <1>1, <2>1, <2>2 DEF OneStream
  <1>3. ASSUME ~\E m \in Instances : Subscribe(m)
        PROVE  UNCHANGED doubled
    BY <1>3, SessionOnly
    DEF Next, vars, Daemon, AttackStarts, AttackWorsens, AttackEnds, Load, SnapshotRead,
        SnapshotArrives, SnapshotFails, NumbersArrive, LoadFails, Retry, Stream, Open,
        Refused, Cut, Down, EndsCleanly, Reconnect, Deliver, Unmount, FadeEnds, Mount
  <1>4. ASSUME ~\E m \in Instances : Subscribe(m), NEW n \in Instances, Live(n)'
        PROVE  Live(n)
    <2>1. ASSUME NEW m \in Instances, NumbersArrive(m) \/ LoadFails(m) \/ Refused(m) \/ Cut(m)
                   \/ EndsCleanly(m) \/ Reconnect(m) \/ Open(m)
          PROVE  \/ conn' = [conn EXCEPT ![m] = IF @ = "none" THEN "connecting" ELSE @]
                 \/ \E c \in {"waiting", "closed", "connecting"} : conn' = [conn EXCEPT ![m] = c]
                 \/ Live(m) /\ conn' = [conn EXCEPT ![m] = "open"]
      BY <2>1 DEF NumbersArrive, LoadFails, LoadEnds, Refused, Cut, Down, EndsCleanly,
                  Reconnect, Open, Connection, Live
    <2>2. ASSUME NEW m \in Instances, Unmount(m)
          PROVE  UNCHANGED conn \/ conn' = [conn EXCEPT ![m] = "aborted"]
      BY <2>2 DEF Unmount, Connection, streamVars
    <2>3. ASSUME ~\E m \in Instances :
                    \/ NumbersArrive(m) \/ LoadFails(m) \/ Refused(m) \/ Cut(m)
                    \/ EndsCleanly(m) \/ Reconnect(m) \/ Open(m) \/ Unmount(m)
          PROVE  UNCHANGED conn
      BY <1>4, <2>3, SessionOnly
      DEF Next, vars, streamVars, Daemon, AttackStarts, AttackWorsens, AttackEnds, FanOut,
          Load, SnapshotRead, SnapshotArrives, SnapshotFails, Retry, Stream, Deliver,
          FadeEnds, Mount
    <2>4. ASSUME NEW m \in Instances,
                 \/ conn' = [conn EXCEPT ![m] = IF @ = "none" THEN "connecting" ELSE @]
                 \/ \E c \in {"waiting", "closed", "connecting", "aborted"} :
                      conn' = [conn EXCEPT ![m] = c]
                 \/ Live(m) /\ conn' = [conn EXCEPT ![m] = "open"]
          PROVE  Live(n)
      BY <1>1, <1>4, <2>4 DEF Live
    <2>5. UNCHANGED conn => Live(n)
      BY <1>4 DEF Live
    <2>6. QED
      BY <2>1, <2>2, <2>3, <2>4, <2>5
  <1>5. CASE ~\E m \in Instances : Subscribe(m)
    BY <1>1, <1>3, <1>4, <1>5 DEF OneStream
  <1>6. QED
    BY <1>2, <1>5

\* An incident shown as active in a list.
Lists(list, i) == \E r \in Elements(list) : r.incident_id = i /\ ~r.ended

\* The model's ListedActive in terms of the rows of a list.
LEMMA ListedIsLists ==
  ASSUME NEW i
  PROVE  /\ ListedActive(i) <=> Lists(active, i)
         /\ ListedActive(i)' <=> Lists(active', i)
  BY DEF ListedActive, Lists, Elements

\* The list of an unbroken stream: what of an incident is not on the wire any
\* more is in the list.
Tracked(q, tr, list, i) ==
  /\ tr = "active" /\ ~Has(q, "attack.started", i) => Lists(list, i)
  /\ tr = "ended" /\ ~Has(q, "attack.ended", i) => ~Lists(list, i)

\* ListTracksStream, now and after a step, incident by incident.
LEMMA TracksIsTracked ==
  /\ ListTracksStream <=>
       \A m \in Instances : \A i \in whole[m] \ reloaded :
         Live(m) /\ ~doubled => Tracked(wire[m], truth[i], active, i)
  /\ ListTracksStream' <=>
       \A m \in Instances : \A i \in whole'[m] \ reloaded' :
         Live(m)' /\ ~doubled' => Tracked(wire'[m], truth'[i], active', i)
  BY WaitingIsHas, ListedIsLists DEF ListTracksStream, Tracked

\* An event handled keeps the list right about an incident.
LEMMA DeliverTracks ==
  ASSUME DashboardInv, NEW m \in Instances, Deliver(m), NEW i \in whole[m],
         Tracked(wire[m], truth[i], active, i)
  PROVE  Tracked(wire'[m], truth'[i], active', i)
  <1> DEFINE q == wire[m]
             ev == Head(q)
             j == ev.incident_id
  <1>1. /\ q \in Seq(Event) /\ q # <<>> /\ wire'[m] = Tail(q)
        /\ i \in Incidents /\ truth' = truth /\ Live(m)
        /\ active \in Seq(Row) /\ Distinct(active) /\ active' = handleEvent(active, ev)
        /\ \A r \in Elements(active) : Real(r)
        /\ \A e \in Elements(q) : e.type = "attack.ended" => truth[e.incident_id] = "ended"
    BY DEF DashboardInv, TypeOK, ListsReal, EventsReal, Deliver, serverVars, Live
  <1>2. /\ truth[i] = "ended" /\ Has(q, "attack.started", i) => Has(q, "attack.ended", i)
    BY <1>1, WaitingIsHas DEF DashboardInv, ToldInOrder
  <1> HIDE DEF q
  <1>3. ev \in Event /\ Elements(q) = {ev} \cup Elements(Tail(q))
    BY <1>1, Take
  <1>4. \A t : Has(q, t, i) <=> (ev.type = t /\ j = i) \/ Has(Tail(q), t, i)
    BY <1>3 DEF Has
  <1> HIDE DEF ev
  <1>5. /\ \A r \in Elements(active') :
             \/ r \in Elements(active) /\ ~(ev.type = "attack.ended" /\ r.incident_id = j)
             \/ ev.type = "attack.started" /\ r = NewRow(j)
             \/ /\ ev.type = "attack.ended"
                /\ \E p \in Elements(active) :
                     p.incident_id = j /\ r = [p EXCEPT !.ended = TRUE]
        /\ \A r \in Elements(active) :
             ev.type # "attack.ended" \/ r.incident_id # j => r \in Elements(active')
        /\ ev.type = "attack.started" /\ j \notin Ids(active)
             => NewRow(j) \in Elements(active')
    BY <1>1, <1>3, Handled
  <1>6. ASSUME truth[i] = "active", ~Has(Tail(q), "attack.started", i)
        PROVE  Lists(active', i)
    <2>1. ~(ev.type = "attack.ended" /\ j = i)
      BY <1>1, <1>3, <1>6
    <2>2. CASE ev.type = "attack.started" /\ j = i /\ i \notin Ids(active)
      BY <1>5, <2>2 DEF Lists, NewRow
    <2>3. CASE i \in Ids(active) \/ ~(ev.type = "attack.started" /\ j = i)
      <3>1. PICK r \in Elements(active) : r.incident_id = i /\ ~r.ended
        <4>1. CASE i \in Ids(active)
          <5>1. PICK r \in Elements(active) : r.incident_id = i
            BY <4>1, IdsOfRows
          <5>2. ~r.ended
            BY <1>1, <1>6, <5>1 DEF Real
          <5>3. QED
            BY <5>1, <5>2
        <4>2. CASE ~(ev.type = "attack.started" /\ j = i)
          BY <1>4, <1>6, <4>2 DEF Tracked, Lists, q
        <4>3. QED
          BY <2>3, <4>1, <4>2
      <3>2. r \in Elements(active')
        BY <1>5, <2>1, <3>1
      <3>3. QED
        BY <3>1, <3>2 DEF Lists
    <2>4. QED
      BY <2>2, <2>3
  <1>7. ASSUME truth[i] = "ended", ~Has(Tail(q), "attack.ended", i), Lists(active', i)
        PROVE  FALSE
    <2>1. PICK r \in Elements(active') : r.incident_id = i /\ ~r.ended
      BY <1>7 DEF Lists
    <2>2. CASE r \in Elements(active) /\ ~(ev.type = "attack.ended" /\ j = i)
      <3>1. ~Has(q, "attack.ended", i)
        BY <1>4, <1>7, <2>2
      <3>2. Lists(active, i)
        BY <2>1, <2>2 DEF Lists
      <3>3. QED
        BY <1>7, <3>1, <3>2 DEF Tracked, q
    <2>3. CASE ev.type = "attack.started" /\ r = NewRow(j)
      <3>1. j = i
        BY <2>1, <2>3 DEF NewRow
      <3>2. Has(q, "attack.started", i)
        BY <1>4, <2>3, <3>1
      <3>3. Has(q, "attack.ended", i)
        BY <1>2, <1>7, <3>2
      <3>4. QED
        BY <1>4, <1>7, <2>3, <3>3
    <2>4. ASSUME NEW p \in Elements(active), r = [p EXCEPT !.ended = TRUE]
          PROVE  FALSE
      <3>1. p \in Row
        BY <1>1, LenProperties DEF Elements
      <3>2. r.ended
        BY <2>4, <3>1 DEF Row
      <3>3. QED
        BY <2>1, <3>2
    <2>5. QED
      BY <1>5, <2>1, <2>2, <2>3, <2>4
  <1>8. QED
    BY <1>1, <1>6, <1>7 DEF Tracked, q

\* A new event keeps the list right: it is on the wire.
LEMMA ToldTracks ==
  ASSUME DashboardInv, NEW m \in Instances, NEW ev \in Event, Told(m, ev),
         NEW i \in whole'[m],
         i \in whole[m] => Tracked(wire[m], truth[i], active, i)
  PROVE  Tracked(wire'[m], truth'[i], active, i)
  <1>1. wire[m] \in Seq(Event) /\ whole[m] \subseteq Incidents
    BY DEF DashboardInv, TypeOK
  <1>2. Elements(wire'[m]) = Elements(wire[m]) \cup {ev}
    BY <1>1, Put DEF Told
  <1>3. CASE i = ev.incident_id /\ ev.type = "attack.started"
    <2>1. truth'[i] = "active" /\ Has(wire'[m], "attack.started", i)
      BY <1>2, <1>3 DEF Told, Has
    <2>2. QED
      BY <2>1 DEF Tracked
  <1>4. CASE i = ev.incident_id /\ ev.type = "attack.ended"
    <2>1. truth'[i] = "ended" /\ Has(wire'[m], "attack.ended", i)
      BY <1>2, <1>4 DEF Told, Has
    <2>2. QED
      BY <2>1 DEF Tracked
  <1>5. CASE ~(i = ev.incident_id /\ ev.type \in {"attack.started", "attack.ended"})
    <2>1. i \in whole[m] /\ truth'[i] = truth[i]
      BY <1>1, <1>5 DEF Told
    <2>2. /\ Has(wire'[m], "attack.started", i) <=> Has(wire[m], "attack.started", i)
          /\ Has(wire'[m], "attack.ended", i) <=> Has(wire[m], "attack.ended", i)
      BY <1>2, <1>5 DEF Has
    <2>3. QED
      BY <2>1, <2>2 DEF Tracked
  <1>6. QED
    BY <1>3, <1>4, <1>5

\* The list keeps following an unbroken stream.
LEMMA NextTracks ==
  ASSUME DashboardInv, [Next]_vars
  PROVE  ListTracksStream'
  <1> SUFFICES ASSUME NEW m \in Instances, NEW i \in whole'[m] \ reloaded',
                      Live(m)', ~doubled'
               PROVE  Tracked(wire'[m], truth'[i], active', i)
    BY TracksIsTracked
  <1>1. /\ TypeOK /\ ~doubled /\ OneStream
        /\ active \in Seq(Row) /\ Distinct(active)
        /\ wire \in [Instances -> Seq(Event)]
        /\ whole \in [Instances -> SUBSET Incidents]
    BY NextOneStream DEF DashboardInv, TypeOK, ListsReal
  <1>2. ASSUME Live(m), i \in whole[m] \ reloaded
        PROVE  Tracked(wire[m], truth[i], active, i)
    BY <1>1, <1>2, TracksIsTracked DEF DashboardInv
  <1>3. ~Emptied(m)
    BY DEF Emptied
  <1>4. ASSUME NEW n \in Instances, SnapshotArrives(n)
        PROVE  FALSE
    <2>1. /\ reloaded' = {j \in Incidents : truth[j] # "none"}
          /\ whole' = whole /\ Live(m)
      BY <1>4 DEF SnapshotArrives, streamVars, Live
    <2>2. i \in Incidents /\ truth[i] # "none"
      BY <1>1, <2>1 DEF DashboardInv, ToldInOrder
    <2>3. QED
      BY <2>1, <2>2
  <1>5. ASSUME NEW n \in Instances, Deliver(n)
        PROVE  Tracked(wire'[m], truth'[i], active', i)
    <2>1. Live(n) /\ Live(m) /\ whole' = whole /\ reloaded' = reloaded
      BY <1>5 DEF Deliver, Live
    <2>2. n = m
      BY <1>1, <2>1 DEF OneStream
    <2>3. QED
      BY <1>2, <1>5, <2>1, <2>2, DeliverTracks
  <1>6. ASSUME NEW n \in Instances, NEW j \in Incidents, FadeEnds(n, j)
        PROVE  Tracked(wire'[m], truth'[i], active', i)
    <2>1. /\ Live(m) /\ whole' = whole /\ reloaded' = reloaded
          /\ truth' = truth /\ wire' = wire
          /\ j \in fading[n]
      BY <1>6 DEF FadeEnds, streamVars, serverVars, Live
    <2>2. Elements(active') = {r \in Elements(active) : r.incident_id # j}
      BY <1>1, <1>6, Spliced DEF FadeEnds
    <2>3. truth[j] = "ended"
      BY <2>1 DEF DashboardInv, EventsReal
    <2>4. Tracked(wire[m], truth[i], active, i)
      BY <1>2, <2>1
    <2>5. CASE i = j
      BY <2>1, <2>2, <2>3, <2>5 DEF Tracked, Lists
    <2>6. CASE i # j
      <3>1. Lists(active', i) <=> Lists(active, i)
        BY <2>2, <2>6 DEF Lists
      <3>2. QED
        BY <2>1, <2>4, <3>1 DEF Tracked
    <2>7. QED
      BY <2>5, <2>6
  <1>7. CASE UNCHANGED <<active, reloaded>>
    <2>1. CASE Quiet(m)
      <3>1. /\ Live(m) /\ i \in whole[m] \ reloaded
            /\ truth'[i] = truth[i] /\ wire'[m] = wire[m] /\ active' = active
        BY <1>7, <2>1 DEF Quiet
      <3>2. QED
        BY <1>2, <3>1
    <2>2. ASSUME NEW ev \in Event, Told(m, ev)
          PROVE  Tracked(wire'[m], truth'[i], active', i)
      <3>1. Live(m) /\ i \notin reloaded /\ active' = active
        BY <1>7, <2>2 DEF Told
      <3>2. i \in whole[m] => Tracked(wire[m], truth[i], active, i)
        BY <1>2, <3>1
      <3>3. QED
        BY <2>2, <3>1, <3>2, ToldTracks
    <2>3. QED
      BY <1>1, <1>3, <1>5, <2>1, <2>2, WireMoves
  <1>8. QED
    BY <1>4, <1>5, <1>6, <1>7, ListMoves
-----------------------------------------------------------------------------
(* Instances and their streams.                                            *)

\* A load that has been asked for goes on.
LoadMoves(m) ==
  /\ stage[m] # "new"
  /\ \E s \in {"asked", "answered", "numbers"} : stage' = [stage EXCEPT ![m] = s]
  /\ UNCHANGED <<pageVars, conn, sseStatus>>

\* A load ends, and the first of an instance opens its stream.
LoadOpens(m) ==
  /\ stage[m] = "numbers"
  /\ \E s \in {"loaded", "failed"} : stage' = [stage EXCEPT ![m] = s]
  /\ conn' = [conn EXCEPT ![m] = IF @ = "none" THEN "connecting" ELSE @]
  /\ UNCHANGED <<pageVars, sseStatus>>

\* A stream that is there opens, breaks, ends in order or is retried.
StreamMoves(m) ==
  /\ conn[m] \in {"connecting", "subscribed", "open", "waiting"}
  /\ \/ conn' = [conn EXCEPT ![m] = "open"] /\ sseStatus' = "open"
     \/ conn' = [conn EXCEPT ![m] = "waiting"] /\ sseStatus' = "reconnecting"
     \/ conn' = [conn EXCEPT ![m] = "closed"] /\ UNCHANGED sseStatus
     \/ /\ conn[m] # "open" /\ UNCHANGED sseStatus
        /\ \E c \in {"connecting", "subscribed"} : conn' = [conn EXCEPT ![m] = c]
  /\ UNCHANGED <<pageVars, stage>>

\* What a step does to the instances, their streams and the indicator.
LEMMA PageMoves ==
  ASSUME DashboardInv, [Next]_vars
  PROVE  \/ UNCHANGED <<pageVars, stage, conn, sseStatus>>
         \/ \E m \in Instances :
              LoadMoves(m) \/ LoadOpens(m) \/ StreamMoves(m) \/ Unmount(m)
         \/ Mount
  <1>1. ASSUME NEW m \in Instances, Retry(m)
        PROVE  LoadMoves(m)
    <2>1. stage[m] # "new"
      <3>1. current = m /\ current <= visits /\ visits \in Int /\ m \in Int
        BY <1>1 DEF Retry, DashboardInv, InstancesKnown, TypeOK, Instances
      <3>2. QED
        BY <3>1 DEF DashboardInv, InstancesKnown
    <2>2. QED
      BY <1>1, <2>1 DEF Retry, LoadMoves, Reach, streamVars
  <1>2. ASSUME NEW m \in Instances, SnapshotRead(m) \/ SnapshotArrives(m) \/ SnapshotFails(m)
        PROVE  LoadMoves(m)
    BY <1>2 DEF SnapshotRead, SnapshotArrives, SnapshotFails, LoadMoves, Reach, streamVars
  <1>3. ASSUME NEW m \in Instances, NumbersArrive(m) \/ LoadFails(m)
        PROVE  LoadOpens(m)
    BY <1>3 DEF NumbersArrive, LoadFails, LoadEnds, LoadOpens, Reach
  <1>4. ASSUME NEW m \in Instances,
               \/ Subscribe(m) \/ Open(m) \/ Refused(m) \/ Cut(m) \/ EndsCleanly(m)
               \/ Reconnect(m)
        PROVE  StreamMoves(m)
    BY <1>4 DEF Subscribe, Open, Refused, Cut, Down, EndsCleanly, Reconnect, Live,
                StreamMoves, Connection, loadVars
  <1>5. ASSUME NEW m \in Instances, Deliver(m) \/ \E i \in Incidents : FadeEnds(m, i)
        PROVE  UNCHANGED <<pageVars, stage, conn, sseStatus>>
    BY <1>5 DEF Deliver, FadeEnds, loadVars, streamVars
  <1>6. ASSUME NEW i \in Incidents, Daemon(i)
        PROVE  UNCHANGED <<pageVars, stage, conn, sseStatus>>
    BY <1>6 DEF Daemon, AttackStarts, AttackWorsens, AttackEnds, FanOut, loadVars
  <1>7. Session \/ UNCHANGED vars => UNCHANGED <<pageVars, stage, conn, sseStatus>>
    BY SessionOnly DEF vars, loadVars, streamVars
  <1>8. QED
    BY <1>1, <1>2, <1>3, <1>4, <1>5, <1>6, <1>7 DEF Next, Load, Stream

\* An instance has a stream once its first load has ended, and none before it
\* is visited; only the page that leaves early leaves without one.
LEMMA NextInstances ==
  ASSUME DashboardInv, [Next]_vars
  PROVE  InstancesKnown'
  <1>1. /\ current \in {NoInstance} \cup Instances /\ visits \in 0 .. Visits
        /\ current <= visits /\ Visits \in Nat
        /\ DOMAIN stage = Instances /\ DOMAIN conn = Instances
    BY DashboardAssumption DEF DashboardInv, TypeOK, InstancesKnown
  <1>2. ASSUME NEW n \in Instances
        PROVE  /\ n \in 1 .. Visits /\ n # NoInstance
               /\ stage[n] = "new" <=> n > visits
               /\ stage[n] = "new" => conn[n] = "none"
               /\ stage[n] # "new" /\ n # current /\ conn[n] = "none" => n \in leftEarly
    BY <1>1 DEF DashboardInv, InstancesKnown, Instances, NoInstance
  <1> DEFINE Known(n) ==
               /\ stage'[n] = "new" <=> n > visits'
               /\ stage'[n] = "new" => conn'[n] = "none"
               /\ stage'[n] # "new" /\ n # current' /\ conn'[n] = "none" => n \in leftEarly'
  <1> SUFFICES current' <= visits' /\ \A n \in Instances : Known(n)
    BY DEF InstancesKnown
  <1>3. CASE UNCHANGED <<pageVars, stage, conn, sseStatus>>
    BY <1>1, <1>2, <1>3 DEF pageVars
  <1>4. ASSUME NEW m \in Instances, LoadMoves(m)
        PROVE  current' <= visits' /\ \A n \in Instances : Known(n)
    BY <1>1, <1>2, <1>4 DEF LoadMoves, pageVars
  <1>5. ASSUME NEW m \in Instances, LoadOpens(m)
        PROVE  current' <= visits' /\ \A n \in Instances : Known(n)
    BY <1>1, <1>2, <1>5 DEF LoadOpens, pageVars
  <1>6. ASSUME NEW m \in Instances, StreamMoves(m)
        PROVE  current' <= visits' /\ \A n \in Instances : Known(n)
    BY <1>1, <1>2, <1>6 DEF StreamMoves, pageVars
  <1>7. CASE Mount
    <2>1. /\ current = NoInstance /\ visits < Visits
          /\ visits' = visits + 1 /\ current' = visits + 1
          /\ stage' = [stage EXCEPT ![visits + 1] = "asked"]
          /\ conn' = conn /\ leftEarly' = leftEarly
      BY <1>7 DEF Mount, Reach, streamVars
    <2>2. ASSUME NEW n \in Instances PROVE Known(n)
      <3>1. CASE n = visits + 1
        BY <1>1, <1>2, <2>1, <3>1
      <3>2. CASE n # visits + 1
        <4>1. stage'[n] = stage[n] /\ (n > visits' <=> n > visits) /\ n # current
          BY <1>1, <1>2, <2>1, <3>2
        <4>2. QED
          BY <1>2, <2>1, <4>1
      <3>3. QED
        BY <3>1, <3>2
    <2>3. QED
      BY <1>1, <2>1, <2>2
  <1>8. ASSUME NEW m \in Instances, Unmount(m)
        PROVE  current' <= visits' /\ \A n \in Instances : Known(n)
    <2>1. /\ current = m /\ current' = NoInstance /\ visits' = visits /\ stage' = stage
          /\ conn[m] = "none" => conn' = conn /\ leftEarly' = leftEarly \cup {m}
          /\ conn[m] # "none" =>
               conn' = [conn EXCEPT ![m] = "aborted"] /\ leftEarly' = leftEarly
      BY <1>8 DEF Unmount, Connection, streamVars, loadVars
    <2>2. ASSUME NEW n \in Instances PROVE Known(n)
      BY <1>1, <1>2, <2>1
    <2>3. QED
      BY <1>1, <2>1, <2>2 DEF NoInstance
  <1>9. QED
    BY <1>3, <1>4, <1>5, <1>6, <1>7, <1>8, PageMoves

\* A stream without its page is that of a page left early.
LEMMA NextStreamsExplained ==
  ASSUME DashboardInv, [Next]_vars
  PROVE  StreamsExplained'
  <1> DEFINE Up(c) == c \notin {"none", "closed", "aborted"}
  <1>1. DOMAIN conn = Instances
    BY DEF DashboardInv, TypeOK
  <1>2. ASSUME NEW n \in Instances
        PROVE  /\ n # current /\ Up(conn[n]) => n \in leftEarly
               /\ stage[n] # "new" /\ n # current /\ conn[n] = "none" => n \in leftEarly
               /\ n # NoInstance
    BY DEF DashboardInv, InstancesKnown, StreamsExplained, Instances, NoInstance
  <1> SUFFICES ASSUME NEW n \in Instances, n # current', Up(conn'[n])
               PROVE  n \in leftEarly'
    BY DEF StreamsExplained
  <1>3. CASE UNCHANGED <<pageVars, stage, conn, sseStatus>>
    BY <1>2, <1>3 DEF pageVars
  <1>4. ASSUME NEW m \in Instances, LoadMoves(m) PROVE n \in leftEarly'
    BY <1>2, <1>4 DEF LoadMoves, pageVars
  <1>5. ASSUME NEW m \in Instances, LoadOpens(m) PROVE n \in leftEarly'
    BY <1>1, <1>2, <1>5 DEF LoadOpens, pageVars
  <1>6. ASSUME NEW m \in Instances, StreamMoves(m) PROVE n \in leftEarly'
    BY <1>1, <1>2, <1>6 DEF StreamMoves, pageVars
  <1>7. CASE Mount
    BY <1>2, <1>7 DEF Mount, streamVars
  <1>8. ASSUME NEW m \in Instances, Unmount(m) PROVE n \in leftEarly'
    <2>1. /\ current = m
          /\ conn[m] = "none" => conn' = conn /\ leftEarly' = leftEarly \cup {m}
          /\ conn[m] # "none" =>
               conn' = [conn EXCEPT ![m] = "aborted"] /\ leftEarly' = leftEarly
      BY <1>8 DEF Unmount, Connection, streamVars
    <2>2. QED
      BY <1>1, <1>2, <2>1
  <1>9. QED
    BY <1>3, <1>4, <1>5, <1>6, <1>7, <1>8, PageMoves

\* The status is set back by whatever takes the last stream down, except by a
\* response that ends in order.
LEMMA NextStatusExplained ==
  ASSUME DashboardInv, [Next]_vars
  PROVE  StatusExplained'
  <1> DEFINE Up(c) == c \in {"open", "closed"}
  <1>1. DOMAIN conn = Instances
    BY DEF DashboardInv, TypeOK
  <1>2. /\ Indicator.dot = "green" <=> sseStatus = "open"
        /\ Indicator.dot' = "green" <=> sseStatus' = "open"
    BY DEF Indicator
  <1>3. current # NoInstance /\ sseStatus = "open" => \E n \in Instances : Up(conn[n])
    BY <1>2 DEF DashboardInv, StatusExplained
  <1> SUFFICES ASSUME current' # NoInstance, sseStatus' = "open"
               PROVE  \E n \in Instances : Up(conn'[n])
    BY <1>2 DEF StatusExplained
  <1>4. CASE UNCHANGED <<pageVars, stage, conn, sseStatus>>
    BY <1>3, <1>4 DEF pageVars
  <1>5. ASSUME NEW m \in Instances, LoadMoves(m)
        PROVE  \E n \in Instances : Up(conn'[n])
    BY <1>3, <1>5 DEF LoadMoves, pageVars
  <1>6. ASSUME NEW m \in Instances, LoadOpens(m) \/ StreamMoves(m)
        PROVE  \E n \in Instances : Up(conn'[n])
    <2>1. CASE conn' = [conn EXCEPT ![m] = "open"] \/ conn' = [conn EXCEPT ![m] = "closed"]
      BY <1>1, <2>1
    <2>2. CASE ~(conn' = [conn EXCEPT ![m] = "open"] \/ conn' = [conn EXCEPT ![m] = "closed"])
      <3>1. /\ current # NoInstance /\ sseStatus = "open"
            /\ \A n \in Instances : Up(conn[n]) => conn'[n] = conn[n]
        BY <1>1, <1>6, <2>2 DEF LoadOpens, StreamMoves, pageVars
      <3>2. QED
        BY <1>3, <3>1
    <2>3. QED
      BY <2>1, <2>2
  <1>7. ~Mount
    BY DEF Mount
  <1>8. \A m \in Instances : ~Unmount(m)
    BY DEF Unmount
  <1>9. QED
    BY <1>4, <1>5, <1>6, <1>7, <1>8, PageMoves
\* Every step keeps the invariant.
LEMMA NextInv == DashboardInv /\ [Next]_vars => DashboardInv'
  BY NextTypes, NextListsReal, NextEventsReal, NextToldInOrder, NextOneStream, NextTracks,
     NextInstances, NextStreamsExplained, NextStatusExplained
  DEF DashboardInv

-----------------------------------------------------------------------------
(* The theorems.                                                           *)

\* The invariant behind the other theorems holds for the page, the store and the
\* streams in every reachable state (DashboardView.vue, stores/incidents.ts,
\* api/sse.ts).
THEOREM DashboardInvariance == Spec => []DashboardInv
  <1>1. Init => DashboardInv
    BY InitInv
  <1>2. DashboardInv /\ [Next]_vars => DashboardInv'
    BY NextInv
  <1>3. QED
    BY <1>1, <1>2, PTL DEF Spec

\* However many visits there are and however late their answers, events and fade
\* timers are applied to the shared store, it lists every incident once at most,
\* none that did not happen, none as ended that goes on and none with figures it
\* has not reached; and no connection's buffer is ever over its capacity
\* (handleEvent, loadActiveSnapshot, onSSEMessage).
THEOREM DashboardIsSafe == Spec => []DashboardSafe
  <1>1. DashboardInv => DashboardSafe
    <2> SUFFICES ASSUME DashboardInv PROVE DashboardSafe
      OBVIOUS
    <2>1. TypeOK /\ Distinct(active) /\ \A r \in Elements(active) : Real(r)
      BY DEF DashboardInv, ListsReal
    <2>2. RowsReal
      BY <2>1 DEF RowsReal, Distinct, Elements, Real
    <2>3. QED
      BY <2>1, <2>2 DEF DashboardSafe
  <1>2. QED
    BY <1>1, DashboardInvariance, PTL

\* While one stream at most is up and no snapshot has replaced the list since an
\* incident started, a stream that was sent all of its events keeps the list right
\* about it (connectEvents, handleEvent): it is listed as active from its start to
\* its end, up to what is still on the wire.
THEOREM ListTracks == Spec => []ListTracksStream
  <1>1. DashboardInv => ListTracksStream
    BY DEF DashboardInv
  <1>2. QED
    BY <1>1, DashboardInvariance, PTL

\* A stream that outlives its page is that of a page left before its first load
\* had ended (onUnmounted has nothing to abort then), and a green dot on the page
\* means a stream that is up or that the server has ended in order.
THEOREM StreamsAreAccounted == Spec => []StreamsAccounted
  <1>1. DashboardInv => StreamsAccounted
    BY DEF DashboardInv, StreamsAccounted
  <1>2. QED
    BY <1>1, DashboardInvariance, PTL

\* No event and no fade timer, of this visit or an earlier one, takes an incident
\* that goes on from the list; only a snapshot that replaces the list may.
THEOREM OnlyEndedRowsVanish == Spec => OnlyEndedVanish
  <1> DEFINE Vanish == \A i \in Ids(active) \ Ids(active') :
                         truth[i] = "ended" \/ \E m \in Instances : SnapshotArrives(m)
  <1>1. ASSUME DashboardInv, [Next]_vars PROVE Vanish
    <2>1. /\ active \in Seq(Row) /\ Distinct(active)
          /\ wire \in [Instances -> Seq(Event)]
          /\ \A m \in Instances : \A i \in fading[m] : truth[i] = "ended"
      BY <1>1 DEF DashboardInv, TypeOK, ListsReal, EventsReal
    <2>2. ASSUME NEW m \in Instances, Deliver(m) PROVE Vanish
      <3>1. /\ Head(wire[m]) \in Event
            /\ active' = handleEvent(active, Head(wire[m]))
        BY <2>1, <2>2, Take DEF Deliver
      <3>2. Ids(active) \subseteq Ids(active')
        BY <2>1, <3>1, Handled
      <3>3. QED
        BY <3>2
    <2>3. ASSUME NEW m \in Instances, NEW j \in Incidents, FadeEnds(m, j) PROVE Vanish
      <3>1. Elements(active') = {r \in Elements(active) : r.incident_id # j}
        BY <2>1, <2>3, Spliced DEF FadeEnds
      <3>2. \A i \in Ids(active) \ Ids(active') : i = j
        BY <3>1, IdsOfRows
      <3>3. truth[j] = "ended"
        BY <2>1, <2>3 DEF FadeEnds
      <3>4. QED
        BY <3>2, <3>3
    <2>4. UNCHANGED active => Vanish
      OBVIOUS
    <2>5. QED
      BY <1>1, <2>2, <2>3, <2>4, ListMoves
  <1> HIDE DEF Vanish
  <1>2. DashboardInv /\ [Next]_vars => [Vanish]_vars
    BY <1>1
  <1>3. Spec => [][Vanish]_vars
    BY <1>2, DashboardInvariance, PTL DEF Spec
  <1>4. QED
    BY <1>3 DEF OnlyEndedVanish, Vanish
=============================================================================
