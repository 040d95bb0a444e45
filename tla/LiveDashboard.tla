---------------------------- MODULE LiveDashboard ----------------------------
(***************************************************************************)
(* The live attack table of the web application: DashboardView.vue loads   *)
(* the active incidents once and then follows GET /api/events;             *)
(* stores/incidents.ts keeps the list, which the navigation badge of every *)
(* page counts; api/sse.ts and the fetch-event-source library it calls     *)
(* keep the stream and reconnect.                                          *)
(*                                                                         *)
(* The daemon is reduced to what the browser can tell: incidents that      *)
(* start, get worse once and end; a table that learns of it some time      *)
(* later; and per connection a bounded buffer, in order, that drops what   *)
(* does not fit (SSEBroker). Incidents are numbered in the order they      *)
(* start. Every visit to the page is an instance of the component of its   *)
(* own, and all of them share the store; an instance that was left goes on *)
(* with whatever it has asked for. Left out: the highlight of a new row    *)
(* and the colours by score. The session is that of requireAuth alone.     *)
(***************************************************************************)
EXTENDS Integers, Sequences, FiniteSets

CONSTANTS
  MaxIncidents,  \* bound on the incidents
  Visits,        \* bound on the visits to the page
  Budget,        \* bound on incidents and visits together
  BufferCap,     \* capacity of a connection's buffer (16)
  MaxFaults      \* bound on failed requests, broken connections and ends of the session

ASSUME DashboardAssumption ==
  /\ MaxIncidents \in Nat \ {0} /\ Visits \in Nat \ {0}
  /\ BufferCap \in Nat \ {0} /\ Budget \in Nat /\ MaxFaults \in Nat

Incidents == 1 .. MaxIncidents
Instances == 1 .. Visits
NoInstance == 0

VARIABLES
  truth,     \* [Incidents -> "none", "active" or "ended"]
  level,     \* [Incidents -> its figures: 1, or 2 once it got worse]
  refusal,   \* what the server refuses: "none", "all" without a session, "stream" where
             \* its writer is no Flusher
  current,   \* the mounted instance
  visits,    \* visits so far
  stage,     \* [Instances -> where loadSummary is]
  payload,   \* [Instances -> the list the server read for it]
  conn,      \* [Instances -> its event stream]
  wire,      \* [Instances -> events sent to it and not yet handled]
  fading,    \* [Instances -> incidents whose fade timer is running]
  active,    \* the store's list
  sseStatus, \* the store's status, shown on every page
  faults,    \* failures so far
  whole,     \* history: [Instances -> incidents no event of which this connection missed]
  reloaded,  \* history: incidents that had started when a snapshot was applied
  doubled,   \* history: two streams have been up at the same time
  leftEarly  \* history: instances left before their first load had ended

serverVars == <<truth, level, refusal>>
loadVars == <<stage, payload>>
streamVars == <<conn, wire, whole>>
pageVars == <<current, visits, leftEarly>>
vars == <<serverVars, loadVars, streamVars, fading, pageVars, active,
          sseStatus, faults, reloaded, doubled>>

Row == [incident_id : Incidents, figures : 1 .. 2, ended : BOOLEAN]
Event == [type : {"attack.started", "attack.updated", "attack.ended"},
          incident_id : Incidents]

-----------------------------------------------------------------------------
(* The store (stores/incidents.ts).                                        *)

Ids(list) == {list[k].incident_id : k \in 1 .. Len(list)}
activeCount(list) == Len(SelectSeq(list, LAMBDA a : ~a.ended))

\* findIndex: the first place of an incident in the list, 0 if it is not there.
findIndex(list, i) ==
  IF i \in Ids(list)
  THEN CHOOSE k \in 1 .. Len(list) :
         /\ list[k].incident_id = i
         /\ \A j \in 1 .. k - 1 : list[j].incident_id # i
  ELSE 0

\* splice(k, 1)
splice(list, k) ==
  [j \in 1 .. Len(list) - 1 |-> IF j < k THEN list[j] ELSE list[j + 1]]

NewRow(i) == [incident_id |-> i, figures |-> 1, ended |-> FALSE]

\* Mutant: the event is added without looking for it.
handleEventAppend(list, ev) ==
  LET idx == findIndex(list, ev.incident_id)
  IN  CASE ev.type = "attack.started" -> <<NewRow(ev.incident_id)>> \o list
        [] ev.type = "attack.ended" /\ idx # 0 -> [list EXCEPT ![idx].ended = TRUE]
        [] OTHER -> list

\* Mutant: the end is as misnamed as the update.
handleEventMisnamed(list, ev) ==
  IF ev.type = "attack.started" /\ ev.incident_id \notin Ids(list)
  THEN <<NewRow(ev.incident_id)>> \o list
  ELSE list

\* The broker names its events after the state, "attack.updated"; the branch
\* for "attack.update" is never taken.
handleEvent(list, ev) ==
  LET idx == findIndex(list, ev.incident_id)
  IN  CASE ev.type = "attack.started" /\ idx = 0 -> <<NewRow(ev.incident_id)>> \o list
        [] ev.type = "attack.ended" /\ idx # 0 -> [list EXCEPT ![idx].ended = TRUE]
        [] OTHER -> list

\* An answer to GET /api/incidents?active=true: the open rows, newest first.
\* The recorder writes a row some time after the event, or never.
Answers ==
  LET started == {i \in Incidents : truth[i] # "none"}
  IN  {[k \in DOMAIN open |->
          [incident_id |-> open[k], figures |-> level[open[k]], ended |-> FALSE]] :
        open \in {q \in UNION {[1 .. n -> started] : n \in 0 .. MaxIncidents} :
                   \A j, k \in DOMAIN q : j < k => q[j] > q[k]}}

-----------------------------------------------------------------------------
(* What the page shows.                                                    *)

Loading(m) == stage[m] \in {"asked", "answered", "numbers"}

activeRows(m) ==
  SelectSeq(active, LAMBDA a : ~a.ended \/ a.incident_id \in fading[m])

\* A row that has ended is struck out while it fades.
rowStyle(m, row) ==
  IF row.incident_id \in fading[m] THEN "struck" ELSE "plain"

\* Three numbers, and below them one of: a spinner, a retry button, an empty
\* page, the rows (as a table, and as cards for small screens).
Shown(m) ==
  [count |-> activeCount(active),
   body  |-> CASE Loading(m) -> "spinner"
               [] stage[m] = "failed" -> "retry"
               [] stage[m] = "loaded" /\ activeRows(m) = <<>> -> "empty"
               [] OTHER -> "rows",
   rows  |-> [k \in DOMAIN activeRows(m) |-> rowStyle(m, activeRows(m)[k])]]

\* The dot and its label on every page, and the badge in the menu.
Indicator ==
  [dot   |-> IF sseStatus = "open" THEN "green"
             ELSE IF sseStatus \in {"connecting", "reconnecting"} THEN "amber" ELSE "red",
   label |-> IF sseStatus = "open" THEN "" ELSE "reconectando"]
Badge == IF activeCount(active) > 0 THEN {activeCount(active)} ELSE {}

-----------------------------------------------------------------------------
(* The daemon.                                                             *)

Live(m) == conn[m] \in {"subscribed", "open"}

\* Mutant: the send does not look at the capacity.
FanOutUnbounded(ev) ==
  /\ wire' = [m \in Instances |-> IF Live(m) THEN Append(wire[m], ev) ELSE wire[m]]
  /\ UNCHANGED <<conn, whole>>

\* The broker's fan-out: appended where there is room, dropped where not.
FanOut(ev) ==
  LET room == {m \in Instances : Live(m) /\ Len(wire[m]) < BufferCap}
  IN  /\ wire' = [m \in Instances |-> IF m \in room THEN Append(wire[m], ev) ELSE wire[m]]
      /\ whole' = [m \in Instances |->
                     IF m \notin room THEN whole[m] \ {ev.incident_id}
                     ELSE IF ev.type = "attack.started"
                          THEN whole[m] \cup {ev.incident_id} ELSE whole[m]]
      /\ UNCHANGED conn

Fault == faults < MaxFaults /\ faults' = faults + 1

WithinBudget == visits + Cardinality({i \in Incidents : truth[i] # "none"}) < Budget

AttackStarts(i) ==
  /\ truth[i] = "none" /\ WithinBudget
  /\ \A j \in 1 .. i - 1 : truth[j] # "none"
  /\ truth' = [truth EXCEPT ![i] = "active"]
  /\ FanOut([type |-> "attack.started", incident_id |-> i])
  /\ UNCHANGED <<level, refusal, loadVars, fading, pageVars, active, sseStatus,
                 faults, reloaded, doubled>>

AttackWorsens(i) ==
  /\ truth[i] = "active" /\ level[i] = 1
  /\ level' = [level EXCEPT ![i] = 2]
  /\ FanOut([type |-> "attack.updated", incident_id |-> i])
  /\ UNCHANGED <<truth, refusal, loadVars, fading, pageVars, active, sseStatus,
                 faults, reloaded, doubled>>

AttackEnds(i) ==
  /\ truth[i] = "active"
  /\ truth' = [truth EXCEPT ![i] = "ended"]
  /\ FanOut([type |-> "attack.ended", incident_id |-> i])
  /\ UNCHANGED <<level, refusal, loadVars, fading, pageVars, active, sseStatus,
                 faults, reloaded, doubled>>

\* requireAuth answers 401 once the session is gone, until there is a new one; a
\* stream that is up goes on.
SessionEnds ==
  /\ refusal = "none" /\ Fault
  /\ refusal' = "all"
  /\ UNCHANGED <<truth, level, loadVars, streamVars, fading, pageVars, active, sseStatus,
                 reloaded, doubled>>

SessionBegins ==
  /\ refusal = "all"
  /\ refusal' = "none"
  /\ UNCHANGED <<truth, level, loadVars, streamVars, fading, pageVars, active, sseStatus,
                 faults, reloaded, doubled>>

-----------------------------------------------------------------------------
(* Loading: loadSummary and loadActiveSnapshot.                            *)

\* A request fails: again and again while the server refuses it.
RequestFails(refusals) == IF refusal \in refusals THEN UNCHANGED faults ELSE Fault

Reach(m, s) == stage' = [stage EXCEPT ![m] = s]

\* The server answers the request for the active incidents.
SnapshotRead(m) ==
  /\ stage[m] = "asked" /\ refusal # "all"
  /\ Reach(m, "answered")
  /\ \E rows \in Answers : payload' = [payload EXCEPT ![m] = rows]
  /\ UNCHANGED <<serverVars, streamVars, fading, pageVars, active, sseStatus,
                 faults, reloaded, doubled>>

\* The answer replaces the list, whatever has happened to it since.
SnapshotArrives(m) ==
  /\ stage[m] = "answered"
  /\ Reach(m, "numbers")
  /\ active' = payload[m]
  /\ payload' = [payload EXCEPT ![m] = <<>>]
  /\ reloaded' = {i \in Incidents : truth[i] # "none"}
  /\ UNCHANGED <<serverVars, streamVars, fading, pageVars, sseStatus, faults,
                 doubled>>

\* loadActiveSnapshot keeps the list on an error and the load goes on.
SnapshotFails(m) ==
  /\ stage[m] = "asked"
  /\ RequestFails({"all"})
  /\ Reach(m, "numbers")
  /\ UNCHANGED <<serverVars, payload, streamVars, fading, pageVars, active,
                 sseStatus, reloaded, doubled>>

\* Mutant: the stream is opened only after a load without errors.
LoadEndsConnectIfLoaded(m, s) ==
  /\ Reach(m, s)
  /\ conn' = [conn EXCEPT ![m] = IF @ = "none" /\ s = "loaded" THEN "connecting" ELSE @]

\* The load ends; the first one of an instance goes on with connectEvents,
\* whether it failed or not and whether the page is still there or not.
LoadEnds(m, s) ==
  /\ Reach(m, s)
  /\ conn' = [conn EXCEPT ![m] = IF @ = "none" THEN "connecting" ELSE @]

\* The two numbers beside the count, GET /api/exporters and then GET
\* /api/incidents?since=...: both answered, or one of them failed.
NumbersArrive(m) ==
  /\ stage[m] = "numbers" /\ refusal # "all"
  /\ LoadEnds(m, "loaded")
  /\ UNCHANGED <<serverVars, payload, wire, whole, fading, pageVars, active,
                 sseStatus, faults, reloaded, doubled>>

LoadFails(m) ==
  /\ stage[m] = "numbers"
  /\ RequestFails({"all"})
  /\ LoadEnds(m, "failed")
  /\ UNCHANGED <<serverVars, payload, wire, whole, fading, pageVars, active,
                 sseStatus, reloaded, doubled>>

Retry(m) ==
  /\ current = m /\ Shown(m).body = "retry"
  /\ Reach(m, "asked")
  /\ UNCHANGED <<serverVars, payload, streamVars, fading, pageVars, active,
                 sseStatus, faults, reloaded, doubled>>

-----------------------------------------------------------------------------
(* The stream: connectEvents and fetchEventSource.                         *)

Connection(m, c) == conn' = [conn EXCEPT ![m] = c]
NothingSent(m) ==
  /\ wire' = [wire EXCEPT ![m] = <<>>]
  /\ whole' = [whole EXCEPT ![m] = {}]

\* The request reaches the handler and the broker; nothing is flushed yet.
Subscribe(m) ==
  /\ conn[m] = "connecting" /\ refusal = "none"
  /\ Connection(m, "subscribed")
  /\ NothingSent(m)
  /\ doubled' = (doubled \/ \E n \in Instances \ {m} : Live(n))
  /\ UNCHANGED <<serverVars, loadVars, fading, pageVars, active, sseStatus,
                 faults, reloaded>>

\* The first payload or heartbeat brings the headers: onopen.
Open(m) ==
  /\ conn[m] = "subscribed"
  /\ Connection(m, "open")
  /\ sseStatus' = "open"
  /\ UNCHANGED <<serverVars, loadVars, wire, whole, fading, pageVars, active,
                 faults, reloaded, doubled>>

\* Mutant: the handler of errors forgets the status.
DownQuiet(m) ==
  /\ Connection(m, "waiting")
  /\ NothingSent(m)
  /\ UNCHANGED <<serverVars, loadVars, fading, pageVars, active, sseStatus,
                 reloaded, doubled>>

\* onerror returns nothing, so the library tries again after a second.
Down(m) ==
  /\ Connection(m, "waiting")
  /\ NothingSent(m)
  /\ sseStatus' = "reconnecting"
  /\ UNCHANGED <<serverVars, loadVars, fading, pageVars, active, reloaded, doubled>>

\* onopen throws on any status but a 2xx, and the next attempt is refused as well:
\* the comment there, "stop reconnecting", is not what happens.
Refused(m) == conn[m] = "connecting" /\ RequestFails({"all", "stream"}) /\ Down(m)
Cut(m) == Live(m) /\ Fault /\ Down(m)

\* A response that ends is the end of the stream for the library: its promise
\* resolves and nothing is called.
EndsCleanly(m) ==
  /\ conn[m] = "open" /\ wire[m] = <<>>
  /\ Fault
  /\ Connection(m, "closed")
  /\ NothingSent(m)
  /\ UNCHANGED <<serverVars, loadVars, fading, pageVars, active, sseStatus,
                 reloaded, doubled>>

Reconnect(m) ==
  /\ conn[m] = "waiting"
  /\ Connection(m, "connecting")
  /\ UNCHANGED <<serverVars, loadVars, wire, whole, fading, pageVars, active,
                 sseStatus, faults, reloaded, doubled>>

\* onmessage: the store, then the timer that fades an ended row.
Deliver(m) ==
  /\ conn[m] = "open" /\ wire[m] # <<>>
  /\ LET ev == Head(wire[m])
     IN  /\ active' = handleEvent(active, ev)
         /\ fading' = [fading EXCEPT ![m] =
              IF ev.type = "attack.ended" THEN @ \cup {ev.incident_id} ELSE @]
  /\ wire' = [wire EXCEPT ![m] = Tail(@)]
  /\ UNCHANGED <<serverVars, loadVars, conn, whole, pageVars, sseStatus, faults,
                 reloaded, doubled>>

\* Mutant: the timer removes the row it finds at the place of the fading one.
FadeEndsFirst(m, i) ==
  /\ i \in fading[m]
  /\ fading' = [fading EXCEPT ![m] = @ \ {i}]
  /\ active' = IF active = <<>> THEN active ELSE Tail(active)
  /\ UNCHANGED <<serverVars, loadVars, streamVars, pageVars, sseStatus,
                 faults, reloaded, doubled>>

\* Ten seconds after the end the row is taken from the list.
FadeEnds(m, i) ==
  /\ i \in fading[m]
  /\ fading' = [fading EXCEPT ![m] = @ \ {i}]
  /\ active' = LET idx == findIndex(active, i)
               IN  IF idx # 0 THEN splice(active, idx) ELSE active
  /\ UNCHANGED <<serverVars, loadVars, streamVars, pageVars, sseStatus,
                 faults, reloaded, doubled>>

-----------------------------------------------------------------------------
(* Visits to the page.                                                     *)

Mount ==
  /\ current = NoInstance /\ visits < Visits /\ WithinBudget
  /\ visits' = visits + 1
  /\ current' = visits + 1
  /\ sseStatus' = "connecting"
  /\ Reach(visits + 1, "asked")
  /\ UNCHANGED <<serverVars, payload, streamVars, fading, leftEarly, active,
                 faults, reloaded, doubled>>

\* Mutant: the stream is not closed.
UnmountStreaming(m) ==
  /\ current = m
  /\ current' = NoInstance
  /\ fading' = [fading EXCEPT ![m] = {}]
  /\ leftEarly' = IF conn[m] = "none" THEN leftEarly \cup {m} ELSE leftEarly
  /\ UNCHANGED <<serverVars, loadVars, streamVars, visits, active, sseStatus,
                 faults, reloaded, doubled>>

\* Closes the stream if there is one and stops the fade timers; ended rows
\* they would have removed stay in the list. The highlights' timers run on,
\* on a set nobody shows any more.
Unmount(m) ==
  /\ current = m
  /\ current' = NoInstance
  /\ IF conn[m] = "none"
     THEN UNCHANGED streamVars
     ELSE Connection(m, "aborted") /\ NothingSent(m)
  /\ fading' = [fading EXCEPT ![m] = {}]
  /\ leftEarly' = IF conn[m] = "none" THEN leftEarly \cup {m} ELSE leftEarly
  /\ UNCHANGED <<serverVars, loadVars, visits, active, sseStatus, faults,
                 reloaded, doubled>>

-----------------------------------------------------------------------------
Init ==
  /\ truth = [i \in Incidents |-> "none"]
  /\ level = [i \in Incidents |-> 1] /\ refusal \in {"none", "stream"}
  /\ current = NoInstance /\ visits = 0 /\ leftEarly = {}
  /\ stage = [m \in Instances |-> "new"]
  /\ payload = [m \in Instances |-> <<>>] /\ wire = payload
  /\ conn = [m \in Instances |-> "none"]
  /\ fading = [m \in Instances |-> {}] /\ whole = fading
  /\ active = <<>> /\ sseStatus = "connecting"
  /\ faults = 0 /\ reloaded = {} /\ doubled = FALSE

Daemon(i) == AttackStarts(i) \/ AttackWorsens(i) \/ AttackEnds(i)

Session == SessionEnds \/ SessionBegins

Load(m) ==
  \/ SnapshotRead(m) \/ SnapshotArrives(m) \/ SnapshotFails(m)
  \/ NumbersArrive(m) \/ LoadFails(m)

Stream(m) ==
  \/ Subscribe(m) \/ Open(m) \/ Refused(m) \/ Cut(m) \/ EndsCleanly(m)
  \/ Reconnect(m) \/ Deliver(m)

Next ==
  \/ \E i \in Incidents : Daemon(i)
  \/ \E m \in Instances : Load(m) \/ Retry(m) \/ Stream(m) \/ Unmount(m)
  \/ \E m \in Instances, i \in Incidents : FadeEnds(m, i)
  \/ Mount \/ Session

Spec == Init /\ [][Next]_vars

\* Requests are answered or fail, timers fire, the library retries. Attacks
\* and visitors owe nothing.
Fairness ==
  \A m \in Instances :
    /\ WF_vars(Load(m))
    /\ WF_vars(Subscribe(m)) /\ WF_vars(Open(m)) /\ WF_vars(Reconnect(m))

FairSpec == Spec /\ Fairness

-----------------------------------------------------------------------------
(* Properties.                                                             *)

TypeOK ==
  /\ truth \in [Incidents -> {"none", "active", "ended"}]
  /\ level \in [Incidents -> 1 .. 2] /\ refusal \in {"none", "all", "stream"}
  /\ current \in {NoInstance} \cup Instances /\ visits \in 0 .. Visits
  /\ stage \in [Instances -> {"new", "asked", "answered", "numbers",
                              "loaded", "failed"}]
  /\ payload \in [Instances -> Seq(Row)] /\ active \in Seq(Row)
  /\ conn \in [Instances -> {"none", "connecting", "subscribed", "open", "waiting",
                             "closed", "aborted"}]
  /\ wire \in [Instances -> Seq(Event)]
  /\ \A m \in Instances : Len(wire[m]) <= BufferCap
  /\ fading \in [Instances -> SUBSET Incidents]
  /\ sseStatus \in {"connecting", "open", "reconnecting", "closed"}
  /\ faults \in 0 .. MaxFaults
  /\ whole \in [Instances -> SUBSET Incidents]
  /\ reloaded \subseteq Incidents /\ doubled \in BOOLEAN /\ leftEarly \subseteq Instances

\* The list never holds an incident that did not happen, none twice (rows are
\* keyed by incident, and the fade timer removes only the first), none marked
\* as ended that is not, and no figures the incident has not reached, however
\* late snapshots and events of several instances are applied.
RowsReal ==
  /\ \A j, k \in 1 .. Len(active) :
       active[j].incident_id = active[k].incident_id => j = k
  /\ \A k \in 1 .. Len(active) :
       LET row == active[k]
       IN  /\ truth[row.incident_id] # "none"
           /\ row.ended => truth[row.incident_id] = "ended"
           /\ row.figures <= level[row.incident_id]

\* The list on the screen, and buffers within their bounds (handleEvent,
\* loadActiveSnapshot and the fade timers).
DashboardSafe == TypeOK /\ RowsReal

Waiting(m, type, i) ==
  \E k \in 1 .. Len(wire[m]) :
    wire[m][k].type = type /\ wire[m][k].incident_id = i

ListedActive(i) ==
  \E k \in 1 .. Len(active) : active[k].incident_id = i /\ ~active[k].ended

\* As long as no snapshot has been applied since an incident started and no
\* second stream is up, a stream that has missed none of its events keeps the
\* list right about it: listed as active from its start to its end, except for
\* what is still on the wire. Fades, other incidents and drops change nothing.
ListTracksStream ==
  \A m \in Instances : \A i \in whole[m] \ reloaded :
    Live(m) /\ ~doubled =>
      /\ truth[i] = "active" /\ ~Waiting(m, "attack.started", i) => ListedActive(i)
      /\ truth[i] = "ended" /\ ~Waiting(m, "attack.ended", i) => ~ListedActive(i)

\* An attack never silently leaves the list while it is going on: a row that
\* goes away is that of an ended incident, unless a snapshot replaced the list.
OnlyEndedVanish ==
  [][\A i \in Ids(active) \ Ids(active') :
       truth[i] = "ended" \/ \E m \in Instances : SnapshotArrives(m)]_vars

\* A stream without its page (it goes on changing the shared list and holds
\* one of the browser's connections) exists only where the page was left
\* before its first load had ended.
StreamsExplained ==
  \A m \in Instances :
    m # current /\ conn[m] \notin {"none", "closed", "aborted"} => m \in leftEarly

\* On the page, a green dot means that some stream is up, or that the server
\* has ended it in order (which nothing notices).
StatusExplained ==
  current # NoInstance /\ Indicator.dot = "green" =>
    \E m \in Instances : conn[m] \in {"open", "closed"}

\* Every stream that is up, and every green dot, can be accounted for
\* (connectEvents, onUnmounted, SSEIndicator).
StreamsAccounted == StreamsExplained /\ StatusExplained

\* Whatever fails first, a visitor who stays gets a stream, unless the server
\* refuses it: without a session, or for ever where its writer is no Flusher. The
\* client goes on trying, so that it streams whenever the refusals end.
EventuallyStreams ==
  \A m \in Instances :
    current = m ~> (current # m \/ conn[m] \in {"open", "closed"} \/ refusal # "none")
=============================================================================
