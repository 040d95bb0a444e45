--------------------------- MODULE IncidentViews ---------------------------
(***************************************************************************)
(* views/IncidentListView.vue and views/IncidentDetailView.vue: the        *)
(* incidents, newest first, a page of them at a time; and one of them.     *)
(*                                                                         *)
(* The incidents are numbered in the order they start, those of one tick   *)
(* at the same time. view.known is how many there are in the database,     *)
(* view.id the one in the address.                                         *)
(***************************************************************************)
EXTENDS WebPage, Figures

CONSTANTS
  Incidents,   \* a sequence of [started, host, pps, bps, secs, vector, ended]
  PageSize,    \* 50
  NoIncident   \* incident.value is null

ASSUME IncidentsAssumption ==
  /\ PageSize \in Nat \ {0}
  /\ Incidents \in Seq(Range(Incidents))
  /\ \A i \in Range(Incidents) :
       i.started \in Nat /\ i.pps \in Nat /\ i.bps \in Nat /\ i.secs \in Nat
  /\ \A i, j \in DOMAIN Incidents : i <= j => Incidents[i].started <= Incidents[j].started

\* A request for a page of the list; COUNT has not been answered yet.
NotCounted == -1
ListRequestOf(number) == [number |-> number, count |-> NotCounted]

ListMounted(n) ==
  [page |-> "incidents", known |-> n, incidents |-> <<>>, total |-> 0,
   loading |-> TRUE, error |-> FALSE, number |-> 1, asked |-> <<ListRequestOf(1)>>,
   told |-> FALSE]   \* history: a list has been received

\* An address may name an incident that does not exist.
DetailMounted(n, id, row) ==
  [page |-> "incident", known |-> n, id |-> id, incidentId |-> id,
   incident |-> NoIncident, loading |-> TRUE, notFound |-> FALSE, error |-> FALSE,
   asked |-> 1, reused |-> FALSE, row |-> row]
   \* history: reused, the address has changed under the component; row, the
   \* row of the list that was clicked

-----------------------------------------------------------------------------
(* The daemon: handleListIncidents and handleGetIncident.                  *)

\* The orders ORDER BY started_at DESC may give n incidents: what started at the
\* same time comes in any order, another one for every query.
Orders(n) ==
  {q \in [1 .. n -> 1 .. n] :
     \A i, j \in 1 .. n :
       /\ q[i] = q[j] => i = j
       /\ i < j => Incidents[q[i]].started >= Incidents[q[j]].started}

\* The pages SELECT may give that start after offset rows, of n incidents.
ListPages(n, offset) ==
  LET left == n - offset
      rows == IF left < 0 THEN 0 ELSE IF left < PageSize THEN left ELSE PageSize
  IN  {[i \in 1 .. rows |-> q[offset + i]] : q \in Orders(n)}

\* The incident is a part of the answer; the updates are named as in Go.
DetailAnswer(id) ==
  [incident |-> [id |-> id, host_ip |-> Incidents[id].host, peak_bps |-> Incidents[id].bps],
   updates |-> <<[Kind |-> "started"]>>]

-----------------------------------------------------------------------------
(* The templates.                                                          *)

ListShown(v) ==
  CASE v.loading -> "spinner"
    [] ~v.loading /\ v.error -> "alert"
    [] OTHER -> IF v.incidents = <<>> THEN "empty" ELSE "rows"

PageCount(v) == (v.total + PageSize - 1) \div PageSize

vectorLabel(vector) ==
  CASE vector = "udp_flood" -> "UDP" [] vector = "icmp_flood" -> "ICMP" [] OTHER -> vector

RowShown(id) ==
  LET i == Incidents[id]
  IN  [id |-> id, vector |-> vectorLabel(i.vector), pps |-> formatPps(i.pps),
       bps |-> formatBps(i.bps), duration |-> formatDuration(i.secs),
       active |-> ~i.ended]

DetailShown(v) ==
  CASE v.loading -> "spinner"
    [] ~v.loading /\ v.notFound -> "not found"
    [] ~v.loading /\ ~v.notFound /\ v.error -> "alert"
    [] OTHER -> IF v.incident = NoIncident THEN "nothing" ELSE "detail"

\* A member an object does not have is undefined, and so it is written.
Member(object, name) == IF name \in DOMAIN object THEN object[name] ELSE "undefined"

timelineType(state) ==
  CASE state = "started" -> "error" [] state = "ended" -> "success" [] OTHER -> "warning"

Headline(v) ==
  [host_ip |-> Member(v.incident, "host_ip"),
   timeline |-> [i \in DOMAIN v.incident.updates |->
                   timelineType(Member(v.incident.updates[i], "state"))]]

-----------------------------------------------------------------------------
(* The list.                                                               *)

\* Mutant: the rows of before stay while the next are asked for.
loadIncidentsQuiet(v) ==
  [v EXCEPT !.loading = v.incidents = <<>>, !.error = FALSE,
            !.asked = Append(@, ListRequestOf(v.number))]

loadIncidents(v) ==
  [v EXCEPT !.loading = TRUE, !.error = FALSE,
            !.asked = Append(@, ListRequestOf(v.number))]

\* The daemon counts the incidents, and then reads the page without holding
\* anything between the two queries.
ListCounted ==
  /\ At("incidents")
  /\ \E k \in DOMAIN view.asked :
       /\ view.asked[k].count = NotCounted
       /\ Becomes([view EXCEPT !.asked[k].count = view.known])
  /\ UNCHANGED faults

\* The page is read and its answer arrives.
ListAnswered ==
  /\ At("incidents")
  /\ \E k \in DOMAIN view.asked :
       LET q == view.asked[k]
       IN  /\ q.count # NotCounted /\ Outcome(TRUE)
           /\ \E rows \in ListPages(view.known, (q.number - 1) * PageSize) :
                Becomes([view EXCEPT !.asked = RemoveAt(@, k), !.loading = FALSE,
                                     !.incidents = rows, !.total = q.count, !.told = TRUE])

\* The request fails before or after either query.
ListFails ==
  /\ At("incidents") /\ Outcome(FALSE)
  /\ \E k \in DOMAIN view.asked :
       Becomes([view EXCEPT !.asked = RemoveAt(@, k), !.loading = FALSE, !.error = TRUE])

\* The pager is below the rows; watch(page) asks for the new page.
TurnPage ==
  /\ At("incidents") /\ ~hidden /\ ListShown(view) = "rows"
  /\ Len(view.asked) < MaxPending
  /\ \E p \in 1 .. PageCount(view) :
       p # view.number /\ Click(loadIncidents([view EXCEPT !.number = p]))

ListRetry ==
  /\ At("incidents") /\ ~hidden /\ ListShown(view) = "alert"
  /\ Len(view.asked) < MaxPending
  /\ Click(loadIncidents(view))

IncidentStarts ==
  /\ At("incidents") /\ view.known < Len(Incidents)
  /\ Click([view EXCEPT !.known = @ + 1])

\* Mutant: the number of the row for the number of the incident.
goToIncidentRow(v, row) == row

\* The address a click on a row leads to.
goToIncident(v, row) == v.incidents[row]

-----------------------------------------------------------------------------
(* The detail.                                                             *)

loadIncident(v) ==
  [v EXCEPT !.loading = TRUE, !.notFound = FALSE, !.error = FALSE, !.asked = @ + 1]

DetailAnswered ==
  /\ At("incident") /\ view.asked > 0
  /\ \E ok \in BOOLEAN :
       /\ Outcome(ok)
       /\ LET v == [view EXCEPT !.asked = @ - 1, !.loading = FALSE]
          IN  Becomes(CASE ~ok -> [v EXCEPT !.error = TRUE]
                        [] ok /\ v.incidentId > v.known -> [v EXCEPT !.notFound = TRUE]
                        [] OTHER -> [v EXCEPT !.incident = DetailAnswer(v.incidentId)])

DetailRetry ==
  /\ At("incident") /\ ~hidden /\ DetailShown(view) = "alert"
  /\ Click(loadIncident(view))

\* A jump in the history from one incident to another keeps the component,
\* and the number it read when it was set up.
HistoryJump ==
  /\ At("incident") /\ ~hidden
  /\ \E id \in 1 .. Len(Incidents) :
       id # view.id /\ Click([view EXCEPT !.id = id, !.reused = TRUE])

IncidentNext ==
  \/ ListCounted \/ ListAnswered \/ ListFails \/ TurnPage \/ ListRetry \/ IncidentStarts
  \/ DetailAnswered \/ DetailRetry \/ HistoryJump
=============================================================================
