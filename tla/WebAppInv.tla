----------------------------- MODULE WebAppInv ------------------------------
(***************************************************************************)
(* The inductive invariant of WebApp: what every state of the pages        *)
(* satisfies, page by page. WebProofs proves that each action keeps it.    *)
(***************************************************************************)
EXTENDS WebApp

-----------------------------------------------------------------------------
(* The pages: what every state of the application satisfies.               *)

\* The charts that a page with these lists of buckets may have.
Charts(lists) ==
  [up : BOOLEAN, box : BOOLEAN, shows : lists,
   options : {NoOptions, buildOptions("bps"), buildOptions("pps")},
   observed : BOOLEAN]

\* A host of the drawer, or none.
HostOrNone == Hosts \cup {NoHost}

\* The pages themselves, one set of views for each.
TrafficViews ==
  [page : {"traffic"}, rows : SUBSET Hosts, loadingFirst : BOOLEAN, topError : BOOLEAN,
   asked : 0 .. MaxPending, first : BOOLEAN, topInterval : BOOLEAN,
   drawerOpen : BOOLEAN, drawerUp : BOOLEAN, drawerIP : HostOrNone,
   hostgroup : HostOrNone, buckets : HostOrNone, drawerLoading : BOOLEAN,
   drawerError : {"none", "not_found", "fetch"}, hostAsked : Seq(Hosts),
   hostInterval : BOOLEAN, mode : Units, chart : Charts(HostOrNone),
   gone : SUBSET Hosts, told : BOOLEAN, byButton : BOOLEAN, crossed : BOOLEAN, woken : BOOLEAN]

WindowOrNone == Windows \cup {NoBuckets}

FlowsViews ==
  [page : {"flows"}, overview : Overviews \cup {NoOverview},
   recent : RecentAnswers \cup {"none"}, loadingFirst : BOOLEAN,
   overviewError : BOOLEAN, recentError : BOOLEAN, ovAsked : 0 .. MaxPending,
   rcAsked : 0 .. MaxPending, polling : BOOLEAN, mode : Units,
   chart : Charts(WindowOrNone), unseen : BOOLEAN]

\* What the daemon may answer to the page of the analytics.
Analyses == {handleDashboardAnalytics(t) : t \in Traffics}

AnalyticsViews ==
  [page : {"analytics"}, analytics : Analyses \cup {NoData},
   protoTotals : {t.protos : t \in Traffics} \cup {NoData}, loadingFirst : BOOLEAN,
   errored : BOOLEAN, asked : 0 .. MaxPending, polling : BOOLEAN, mode : Units,
   unseen : BOOLEAN]

ListsOfExporters == Inventories \cup {{}}

ExportersViews ==
  [page : {"exporters"}, exporters : ListsOfExporters, loading : BOOLEAN,
   error : BOOLEAN, asked : 0 .. MaxPending, first : BOOLEAN, polling : BOOLEAN,
   told : BOOLEAN]

\* The requests for a page of the list, before and after the first query.
Counts == Nat \cup {NotCounted}
ListRequests == [number : Nat, count : Counts]

ListViews ==
  [page : {"incidents"}, known : 0 .. Len(Incidents), incidents : Seq(1 .. Len(Incidents)),
   total : Nat, loading : BOOLEAN, error : BOOLEAN, number : Nat \ {0},
   asked : Seq(ListRequests), told : BOOLEAN]

DetailViews ==
  [page : {"incident"}, known : 0 .. Len(Incidents), id : 1 .. Len(Incidents),
   incidentId : 1 .. Len(Incidents),
   incident : {DetailAnswer(id) : id \in 1 .. Len(Incidents)} \cup {NoIncident},
   loading : BOOLEAN, notFound : BOOLEAN, error : BOOLEAN, asked : Nat,
   reused : BOOLEAN, row : 0 .. Len(Incidents)]

\* What may stand in the table, in a form and in a request of the settings.
Names == {""} \cup {typed.name : typed \in Typings}
           \cup UNION {{r.name : r \in t} : t \in Tables}
Texts == {"blank", "nopw", "good"} \cup {typed.text : typed \in Typings}
Ids == Nat \cup {NoId}
Rows == [id : Nat, name : Names, enabled : BOOLEAN]
Forms == [id : Ids, name : Names, enabled : BOOLEAN, text : Texts]
Kinds == {"list", "list after submit", "create", "update", "test", "toggle", "delete"}
Replied == {"none", "ok", "fail", "failed", "invalid_param", "name_taken", "not_found"}
Requests ==
  [kind : Kinds, id : Ids, name : Names, enabled : BOOLEAN, text : Texts,
   served : BOOLEAN, answer : Replied, list : SUBSET Rows]
TestResults ==
  [text : {"none", "required_fields", "password_required", "ok", "fail"}, for : Ids]

SettingsViews ==
  [page : {"settings"}, table : SUBSET Rows, serial : Nat, routers : SUBSET Rows,
   loading : BOOLEAN, fetchError : BOOLEAN, modalOpen : BOOLEAN, form : Forms,
   formError : {"none", "required_fields", "password_required", "name_taken",
                "invalid_param", "generic"},
   submitting : BOOLEAN, testing : BOOLEAN, testResult : TestResults,
   reqs : Seq(Requests), told : BOOLEAN, touched : BOOLEAN, crossed : BOOLEAN,
   overtaken : BOOLEAN]

\* All the views.
Views ==
  TrafficViews \cup FlowsViews \cup AnalyticsViews \cup ExportersViews \cup ListViews
    \cup DetailViews \cup SettingsViews \cup {BGPMounted}

-----------------------------------------------------------------------------
(* Between the pages.                                                      *)

\* The bounds; a hook that goes on, or has gone on, after its page was left.
PagesTyped ==
  /\ view \in Views
  /\ hidden \in BOOLEAN /\ clicks \in 0 .. MaxClicks /\ faults \in 0 .. MaxFaults
  /\ orphans \in [PollingPages -> Nat]
  /\ leaked \in [PollingPages -> Nat]
  /\ leftEarly \in [PollingPages -> Nat]
  /\ \A p \in PollingPages : orphans[p] + leaked[p] <= leftEarly[p]

-----------------------------------------------------------------------------
(* The traffic page.                                                       *)

\* Which timers run.
TrafficTimed(v, h) ==
  /\ h => ~v.hostInterval /\ (v.topInterval => v.woken)
  /\ v.hostInterval => v.drawerOpen \/ v.byButton
  /\ ~v.loadingFirst => v.told \/ v.topError

\* An open drawer is up and waits for its host, shows an error, or shows a host.
DrawerWaits(v) ==
  v.drawerOpen =>
    /\ v.drawerUp /\ v.drawerIP # NoHost
    /\ v.buckets = NoHost => v.drawerLoading \/ v.drawerError # "none"

\* A drawer that was not opened across another host's request hears of its own.
DrawerHears(v) ==
  v.drawerOpen /\ ~v.crossed =>
    /\ \A k \in 1 .. Len(v.hostAsked) : v.hostAsked[k] = v.drawerIP
    /\ v.buckets \in {NoHost, v.drawerIP}
    /\ v.hostgroup = v.drawerIP

\* A mounted chart is drawn from buckets b in unit m.
Drawn(c, b, m) ==
  /\ c.shows = b /\ b # NoBuckets /\ c.box
  /\ c.options = buildOptions(m) /\ c.observed

\* The drawer's chart shows what the drawer has.
DrawerDraws(v) ==
  /\ v.chart.up <=> DrawerShown(v) = "chart"
  /\ v.drawerOpen /\ v.chart.up => Drawn(v.chart, v.buckets, v.mode)

\* The traffic page.
TrafficInv(v, h) == TrafficTimed(v, h) /\ DrawerWaits(v) /\ DrawerHears(v) /\ DrawerDraws(v)

-----------------------------------------------------------------------------
(* The other polled pages.                                                 *)

\* The flows page.
FlowsInv(v, h) ==
  /\ h /\ v.polling => v.unseen
  /\ ~v.loadingFirst => v.overview # NoOverview \/ v.overviewError
  /\ v.recent = "none" => v.rcAsked > 0 \/ v.recentError
  /\ v.chart.up <=> ChartShown(v) = "chart"
  /\ v.chart.up => Drawn(v.chart, globalBuckets(v), v.mode)

\* The page of the analytics, and that of the exporters.
AnalyticsInv(v, h) ==
  /\ h /\ v.polling => v.unseen
  /\ ~v.loadingFirst => v.analytics # NoData \/ v.errored

ExportersInv(v) == v.loading \/ v.told \/ v.error \/ v.asked > 0

-----------------------------------------------------------------------------
(* The incidents.                                                          *)

\* The page in the pager is one of those of n incidents.
InRange(v, n) == v.number = 1 \/ (v.number - 1) * PageSize < n

\* One request is out while the page loads, for the number in the pager.
ListAsked(v) ==
  \E c \in {NotCounted} \cup 0 .. v.known :
    /\ v.asked = IF v.loading THEN <<[number |-> v.number, count |-> c]>> ELSE <<>>
    /\ c # NotCounted => InRange(v, c)

\* What it has brought is that page of the list, as it was at some time, and the
\* total of that time or an earlier one.
ListInv(v) ==
  /\ ListAsked(v)
  /\ v.total <= v.known /\ InRange(v, v.known)
  /\ ~v.loading /\ ~v.error =>
       /\ v.told /\ InRange(v, v.total)
       /\ \E n \in v.total .. v.known :
            /\ v.incidents \in ListPages(n, (v.number - 1) * PageSize)
            /\ v.incidents = <<>> => n = 0

\* The detail of an incident is of the row that was clicked.
DetailInv(v) ==
  /\ v.incident \in {NoIncident, DetailAnswer(v.incidentId)}
  /\ v.row \in {0, v.incidentId}
  /\ ~v.reused => v.id = v.incidentId

-----------------------------------------------------------------------------
(* The settings.                                                           *)

\* Numbers are given out in turn and names once.
TableInv(t, n) ==
  /\ \A r \in t : r.id \in 1 .. n
  /\ \A r, s \in t : (r.id = s.id \/ r.name = s.name) => r = s

\* The requests of a form, with the list they ask for afterwards.
Submits(q) == q.kind \in {"create", "update", "list after submit"}

\* A list is answered with one; a router is created without a number, and no
\* request or answer names a number that has not been given out.
RequestsInv(v) ==
  \A k \in 1 .. Len(v.reqs) :
    LET q == v.reqs[k]
    IN  /\ q.id \in 1 .. v.serial \cup {NoId}
        /\ q.kind = "create" <=> IsSubmit(q) /\ q.id = NoId
        /\ IsList(q) => q.text = "good" /\ (q.served => q.answer = "ok")
        /\ \A r \in q.list : r.id \in 1 .. v.serial

\* A button that waits has one request out.
ButtonsInv(v) ==
  /\ \A k \in 1 .. Len(v.reqs) :
       /\ v.reqs[k].kind = "test" => v.testing
       /\ Submits(v.reqs[k]) => v.submitting
       /\ IsSubmit(v.reqs[k]) => v.formError = "none"
  /\ \A j, k \in 1 .. Len(v.reqs) :
       \/ v.reqs[j].kind = "test" /\ v.reqs[k].kind = "test"
       \/ Submits(v.reqs[j]) /\ Submits(v.reqs[k])
       => j = k

\* A form that was opened with nothing under way gets answers about itself.
FormInv(v) ==
  /\ v.form.id \in 1 .. v.serial \cup {NoId}
  /\ v.modalOpen /\ ~v.crossed =>
       /\ v.testResult.text # "none" => v.testResult.for = v.form.id
       /\ \A k \in 1 .. Len(v.reqs) :
            LET q == v.reqs[k]
            IN  /\ q.kind = "test" => q.id = v.form.id
                /\ IsSubmit(q) =>
                     q.id = v.form.id /\ (v.touched \/ q.name = v.form.name)

\* What a served create or update request has left in the table is still there:
\* no other request names the new row, and none changes a name.
SavedInv(v) ==
  v.modalOpen /\ ~v.crossed =>
    \A k \in 1 .. Len(v.reqs) :
      LET q == v.reqs[k]
      IN  q.served /\ q.answer = "ok" =>
            /\ q.kind = "create" =>
                 \E r \in v.table :
                   /\ r.name = q.name
                   /\ \A j \in 1 .. Len(v.reqs) : v.reqs[j].id # r.id
            /\ q.kind = "update" =>
                 \A r \in v.table : r.id = q.id => r.name = q.name

\* What is shown is what the table holds, if it is shown.
Current(v) == v.loading \/ v.fetchError \/ v.routers = v.table

\* One request at a time leaves the list as fresh as it says.
FreshInv(v) ==
  ~v.overtaken =>
    /\ Len(v.reqs) <= 1
    /\ v.reqs = <<>> => Current(v)
    /\ v.reqs # <<>> =>
         LET q == v.reqs[1]
         IN  /\ IsList(q) => (q.served => q.list = v.table)
             /\ ~IsList(q) =>
                  \/ Current(v)
                  \/ q.served /\ q.answer = "ok" /\ q.kind # "test"

\* The table, and the list that is shown of it.
RoutersInv(v) ==
  /\ TableInv(v.table, v.serial)
  /\ v.loading \/ v.fetchError \/ v.told
  /\ \A r \in v.routers : r.id \in 1 .. v.serial

\* What requests and forms say of each other.
PartsInv(v) == RequestsInv(v) /\ ButtonsInv(v) /\ FormInv(v) /\ SavedInv(v)

\* The settings page.
SettingsInv(v) == RoutersInv(v) /\ PartsInv(v) /\ FreshInv(v)

-----------------------------------------------------------------------------

\* What is said of a page, in a tab that is hidden or not.
PageInv(v, h) ==
  /\ v.page = "traffic" => TrafficInv(v, h)
  /\ v.page = "flows" => FlowsInv(v, h)
  /\ v.page = "analytics" => AnalyticsInv(v, h)
  /\ v.page = "exporters" => ExportersInv(v)
  /\ v.page = "incidents" => ListInv(v)
  /\ v.page = "incident" => DetailInv(v)
  /\ v.page = "settings" => SettingsInv(v)

\* The inductive invariant of the pages.
PagesInv == PagesTyped /\ PageInv(view, hidden)
=============================================================================
