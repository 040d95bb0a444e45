------------------------------- MODULE WebApp -------------------------------
(***************************************************************************)
(* The web application behind its login: the pages of the router but the   *)
(* live one (LiveDashboard), what the operator does with them, and what is *)
(* left of a page when the next one takes its place.                       *)
(***************************************************************************)
EXTENDS TrafficView, FlowsView, AnalyticsView, ExportersView, IncidentViews,
        SettingsView

CONSTANT Tables   \* the routers there may be when the settings are opened

\* The database numbers the rows and lets no name be given twice.
ASSUME TablesAssumption ==
  \A t \in Tables :
    /\ IsFiniteSet(t)
    /\ \A r \in t : /\ r = Router(r.id, r.name, r.enabled) /\ r.enabled \in BOOLEAN
                    /\ r.id \in 1 .. Cardinality(t)
    /\ \A r, s \in t : (r.id = s.id \/ r.name = s.name) => r = s

Pages == {"traffic", "flows", "analytics", "exporters", "incidents", "incident",
          "settings", "bgp"}

\* A page with neither data nor timers.
BGPMounted == [page |-> "bgp"]

\* The pages that listen to visibilitychange.
Listening == {"traffic", "flows", "analytics"}

\* The states a page may be mounted in; h: in a hidden tab.
MountedAt(p, h) ==
  CASE p = "traffic"   -> {TrafficMounted}
    [] p = "flows"     -> {FlowsMounted(h)}
    [] p = "analytics" -> {AnalyticsMounted(h)}
    [] p = "exporters" -> {ExportersMounted}
    [] p = "incidents" -> {ListMounted(n) : n \in 0 .. Len(Incidents)}
    [] p = "incident"  -> {DetailMounted(n, id, 0) : n \in 0 .. Len(Incidents),
                                                     id \in 1 .. Len(Incidents)}
    [] p = "settings"  -> {SettingsMounted(t) : t \in Tables}
    [] p = "bgp"       -> {BGPMounted}

\* The hooks that run when a page is left, and the timers they leave.
Unmounted(v) ==
  CASE v.page = "traffic"   -> TrafficUnmounted(v)
    [] v.page = "flows"     -> FlowsUnmounted(v)
    [] v.page = "analytics" -> AnalyticsUnmounted(v)
    [] v.page = "exporters" -> ExportersUnmounted(v)
    [] OTHER                -> v

Timers(v) ==
  CASE v.page = "traffic" -> v.topInterval \/ v.hostInterval
    [] v.page \in {"flows", "analytics", "exporters"} -> v.polling
    [] OTHER -> FALSE

AwaitsInHook(v) == v.page \in {"traffic", "exporters"} /\ v.first

\* The component of the next page takes the place of the one shown. In the
\* bound, another page counts as two clicks.
Leave(next) ==
  /\ ~hidden /\ clicks + 2 <= MaxClicks /\ clicks' = clicks + 2
  /\ view' = next
  /\ leaked' = [p \in PollingPages |->
       leaked[p] + IF At(p) /\ Timers(Unmounted(view)) THEN 1 ELSE 0]
  /\ orphans' = [p \in PollingPages |->
       orphans[p] + IF At(p) /\ AwaitsInHook(view) THEN 1 ELSE 0]
  /\ leftEarly' = [p \in PollingPages |->
       leftEarly[p] + IF At(p) /\ AwaitsInHook(view) THEN 1 ELSE 0]
  /\ UNCHANGED <<hidden, faults>>

\* A link of the sidebar.
FollowLink == \E p \in Pages \ {view.page} : \E next \in MountedAt(p, FALSE) : Leave(next)

\* A click on a row of the list.
ClickRow ==
  /\ At("incidents") /\ ListShown(view) = "rows"
  /\ \E row \in DOMAIN view.incidents :
       Leave(DetailMounted(view.known, goToIncident(view, row), view.incidents[row]))

\* The request that a hook of a page that is gone has waited for ends, well or
\* not: the hook goes on and starts the timer.
OrphanEnds ==
  \E p \in PollingPages :
    /\ orphans[p] > 0
    /\ orphans' = [orphans EXCEPT ![p] = @ - 1]
    /\ leaked' = [leaked EXCEPT ![p] = @ + 1]
    /\ UNCHANGED <<view, hidden, clicks, faults, leftEarly>>

\* The application is loaded, at any address, perhaps in a tab that was opened in
\* the background.
AppInit ==
  /\ \E p \in Pages :
       /\ hidden \in IF p \in Listening THEN BOOLEAN ELSE {FALSE}
       /\ view \in MountedAt(p, hidden)
  /\ clicks = 0 /\ faults = 0
  /\ orphans = [p \in PollingPages |-> 0]
  /\ leaked = [p \in PollingPages |-> 0]
  /\ leftEarly = [p \in PollingPages |-> 0]

AppNext ==
  \/ FollowLink \/ ClickRow \/ OrphanEnds
  \/ TrafficNext \/ FlowsNext \/ AnalyticsNext \/ ExportersNext
  \/ IncidentNext \/ SettingsNext

\* Timers fire and requests come to an end. One page is mounted at a time, so
\* what the timers of the pages do, and the answers, can be taken together.
Polls == TrafficPolls \/ OverviewPolls \/ AnalyticsPolls \/ ExportersPolls
PollsAnswered ==
  \/ \E mine \in BOOLEAN : TopAnswered(mine)
  \/ loadOverview \/ AnalyticsAnswered \/ ExportersAnswered

AppSpec == AppInit /\ [][AppNext]_pageVars

AppFairSpec ==
  /\ AppSpec
  /\ WF_pageVars(Polls) /\ WF_pageVars(PollsAnswered)
  /\ WF_pageVars(HostPolls) /\ WF_pageVars(HostAnswered(1))

-----------------------------------------------------------------------------
(* Properties.                                                             *)

\* The bounds are kept, and the table has one row for a number and for a name.
AppTypeOK ==
  /\ view.page \in Pages
  /\ hidden \in BOOLEAN /\ clicks \in 0 .. MaxClicks /\ faults \in 0 .. MaxFaults
  /\ At("traffic") => view.asked \in 0 .. MaxPending /\ view.rows \subseteq Hosts
  /\ At("flows") => view.ovAsked \in 0 .. MaxPending /\ view.rcAsked \in 0 .. MaxPending
  /\ At("exporters") => view.asked \in 0 .. MaxPending
  /\ At("settings") =>
       \A r, s \in view.table : (r.id = s.id \/ r.name = s.name) => r = s
  /\ \A p \in PollingPages : orphans[p] <= leftEarly[p]

\* Polling stops when its page is left, when the tab is hidden (but for the
\* exporters) and when the drawer is closed. What escapes is known: a page left
\* before its first answer starts its timer afterwards, for good; a first answer
\* that finds the tab hidden starts one too, and so does a page that is mounted in a
\* hidden tab, until the tab has been visible; and the button of the drawer, unlike
\* a click beside it, leaves the host polled (onMounted, onBeforeUnmount,
\* onVisibilityChange and closeDrawer of the pages).
TimersExplained ==
  /\ \A p \in PollingPages : leaked[p] <= leftEarly[p]
  /\ hidden /\ At("traffic") => ~view.hostInterval /\ (view.topInterval => view.woken)
  /\ hidden /\ (At("flows") \/ At("analytics")) => (view.polling => view.unseen)
  /\ At("traffic") /\ view.hostInterval => view.drawerOpen \/ view.byButton

\* The bounds, and every timer accounted for.
AppSafe == AppTypeOK /\ TimersExplained

\* The chart and the host group in the open drawer are those of the host in its
\* title, unless the drawer was opened while another host's request was out:
\* loadHost shows whatever answer comes, for whatever host it was asked.
DrawerOwn ==
  At("traffic") /\ view.drawerOpen /\ ~view.crossed =>
    /\ view.buckets \in {NoHost, view.drawerIP}
    /\ view.hostgroup = view.drawerIP

\* ... and even then an open drawer, in the end, shows its own host, or that the
\* daemon has evicted it when it has: an alert that stays for as long as it is.
DrawerCatchesUp ==
  At("traffic") /\ view.drawerOpen
    ~> \/ ~At("traffic") \/ hidden \/ ~view.drawerOpen
       \/ (view.buckets = view.drawerIP /\ DrawerShown(view) = "chart")
       \/ (view.drawerIP \in view.gone /\ DrawerShown(view) = "not_found")

\* The alert of a page that polls goes away without a click, if it stays in view.
PollerAlert ==
  CASE At("traffic")   -> TrafficShown(view) = "alert"
    [] At("flows")     -> FlowsAlert(view)
    [] At("analytics") -> AnalyticsAlert(view)
    [] At("exporters") -> ExportersShown(view) = "alert"
    [] OTHER           -> FALSE
ErrorsHeal == PollerAlert ~> hidden \/ ~PollerAlert


\* The canvas shows the buckets and the unit the page has, and follows its size,
\* however answers, errors and changes of unit follow on each other: the watchers
\* of HostTrafficChart draw before the element they draw in is rendered.
ChartShowsBuckets ==
  (At("traffic") /\ view.drawerOpen) \/ At("flows") =>
    LET c == view.chart
        b == IF At("traffic") THEN view.buckets ELSE globalBuckets(view)
    IN  /\ c.up => c.shows = b
        /\ c.up /\ b # NoBuckets => c.options.unit = view.mode /\ c.observed

\* The figures of the flows page agree: the right end of the chart is what the
\* card calls now, the areas add up to what the protocols share, and the shares
\* to a hundred percent (two tenths are lost in rounding).
FiguresAgree ==
  At("flows") /\ view.chart.up =>
    LET d == buildData(view.chart.shows, view.chart.options.unit)
        share == protoShare(view)
        parts == pct(share.udp, share.total) + pct(share.icmp, share.total)
                   + pct(share.other, share.total)
    IN  /\ d[Len(d)].x = 0 /\ d[Len(d)].total = Kpis(view.overview)[view.mode]
        /\ \A i \in 2 .. Len(d) : d[i].x > d[i - 1].x
        /\ \A i \in DOMAIN d, b \in view.chart.options.bands : d[i][b[1]] >= d[i][b[2]]
        /\ SumOf([i \in DOMAIN d |-> d[i].total]) = share.total
        /\ IF ProtoShown(view) = "empty" THEN parts = 0 ELSE parts \in 998 .. 1002

\* The bars of the top hosts are drawn to one scale, with the first as the
\* longest, and a sparkline stays in its box and ends at the right; no traffic,
\* or a single value, is no exception (topBpsMax, sparkPath).
BarsToScale ==
  At("flows") /\ TopShown(view) = "rows" =>
    \A i \in DOMAIN view.overview.top :
      LET row == view.overview.top[i]
          path == sparkPath(row.sparkline)
      IN  /\ TopBars(view)[i] \in 0 .. 100
          /\ view.overview.top[1].bps > 0 => TopBars(view)[1] = 100
          /\ \A k \in DOMAIN path : path[k].x \in 0 .. 120 /\ path[k].y \in 0 .. 28
          /\ Len(path) > 1 => path[Len(path)].x = 120

\* ECharts refuses a Sankey diagram with a cycle, and traffic goes both ways: no
\* node of it both sends and receives (handleDashboardAnalytics names them apart).
SankeyAcyclic ==
  At("analytics") /\ sankeyOption(view) # NoData =>
    \A e, f \in sankeyOption(view).links : e.source # f.target

\* The owners and the countries are two views of the same hosts: their bars add
\* up to the same, unless some were cut off; in bits the topmost is the longest.
BarsAgree ==
  At("analytics") /\ view.analytics # NoData /\ ownerBarOption(view) # NoData =>
    LET owners == ownerBarOption(view)
        countries == countryBarOption(view)
        Sum(bars) == SumOf([i \in DOMAIN bars |-> bars[i].value])
    IN  /\ Len(owners) < MaxBars /\ Len(countries) < MaxBars => Sum(owners) = Sum(countries)
        /\ view.mode = "bps" => \A i \in 2 .. Len(owners) : owners[i - 1].value <= owners[i].value

\* A page says that there is nothing only after the daemon has said so, or under
\* an alert. Known exceptions: the recent flows before their first answer, and the
\* exporters while they are asked for again after a first failure.
EmptyTrue ==
  /\ At("traffic") /\ TrafficShown(view) = "empty" => view.told
  /\ At("flows") /\ (ChartShown(view) = "empty" \/ TopShown(view) = "empty") =>
       view.overview # NoOverview \/ FlowsAlert(view)
  /\ At("flows") /\ RecentShown(view) = "empty" => view.recent = "empty" \/ view.rcAsked > 0
  /\ At("analytics") /\ Card(view, sankeyOption(view)) = "empty" =>
       view.analytics # NoData \/ AnalyticsAlert(view)
  /\ At("exporters") /\ ExportersShown(view) = "empty" => view.told \/ view.asked > 0
  /\ At("incidents") /\ ListShown(view) = "empty" => view.told /\ view.total = 0
  /\ At("settings") /\ SettingsShown(view) = "empty" => view.told

\* The rows are those of the page the pager shows, newest first and none twice, as
\* they were at one moment, and the total is that of the same moment or of an earlier
\* one (store.List runs two queries); but for the first page, which may come with a
\* total of none, the page is one of the pager's. Two pages are never asked for at
\* once, for the pager is hidden while one is.
ListMatchesPage ==
  At("incidents") /\ ListShown(view) = "rows" =>
    /\ view.number = 1 \/ view.number <= PageCount(view)
    /\ \E n \in view.total .. view.known :
         view.incidents \in ListPages(n, (view.number - 1) * PageSize)

\* The detail that is shown is that of the row that was clicked and of the
\* address, unless a jump in the history has changed the address under it. (Its
\* headline reads "undefined": the daemon answers the incident one level deeper.)
DetailIsRoute ==
  At("incident") =>
    /\ view.row \in {0, view.incidentId}
    /\ ~view.reused => view.id = view.incidentId
    /\ DetailShown(view) = "detail" =>
         /\ view.incident.incident.id = view.incidentId
         /\ Headline(view).host_ip \in {Incidents[view.incidentId].host, "undefined"}

\* What the rows of the list, or another page with the same figures, say can be
\* read back: a figure is off by a twentieth at most, a duration by less than its
\* smaller unit, on both sides of every limit of the formatters.
FiguresReadBack ==
  At("incidents") /\ ListShown(view) = "rows" =>
    \A id \in {view.incidents[i] : i \in DOMAIN view.incidents} :
      LET i == Incidents[id]
          row == RowShown(id)
          Off(duration) == i.secs - DurationWritten(duration)
      IN  /\ \A f \in {row.bps, formatBytes(i.bps), formatMetric(i.bps, "bps"), formatY(i.bps, "bps")} :
               Apart(f, i.bps) <= i.bps \div 20
          /\ \A f \in {row.pps, formatMetric(i.pps, "pps"), formatY(i.pps, "pps")} :
               Apart(f, i.pps) <= i.pps \div 20
          /\ Off(row.duration) \in 0 .. (IF i.secs < 3600 THEN 0 ELSE 59)
          /\ Off(formatRelative(i.secs)) \in 0 .. (IF i.secs < 3600 THEN 59 ELSE 3599)
          /\ i.secs > 0 => Off(formatRelativeFlow(i.secs)) \in 0 .. 59

\* What a page shows is what its address, title, pager or unit says it is.
ShowsOwn == DrawerOwn /\ ChartShowsBuckets /\ ListMatchesPage /\ DetailIsRoute

\* What charts, bars, diagrams and figures say is what the data says, and that
\* there is nothing is said only when there is nothing.
FiguresTrue ==
  EmptyTrue /\ FiguresAgree /\ BarsToScale /\ SankeyAcyclic /\ BarsAgree /\ FiguresReadBack

\* What a form says about a test is about its own router (the form is told by the
\* router's number alone; its fields may have been changed since the test), unless
\* the form was opened while a request of another one was out: the answers do not
\* know their form (runTest, openEdit).
FormOwn ==
  At("settings") /\ view.modalOpen /\ ~view.crossed /\ view.testResult.text # "none" =>
    view.testResult.for = view.form.id

\* A router, as a form or a request has it, is in the table under its name; or it
\* has been deleted since, by a request made before.
SavedAs(t, f) ==
  \/ f.id # NoId /\ ~Exists(t, f.id)
  \/ \E r \in t : r.name = f.name /\ f.id \in {NoId, r.id}

\* What closes a form by itself is the answer to a save of its router that the table
\* has, and that has what the form has, unless the form was changed in the meantime:
\* nothing keeps the inputs from it, and what was typed then goes with the form. All
\* of this only if the form was not opened while another one was being saved (submit).
SavedBeforeClosed ==
  [][At("settings") /\ view'.page = "settings" /\ clicks' = clicks
       /\ view.modalOpen /\ ~view'.modalOpen =>
         \/ view.crossed
         \/ /\ view.touched \/ SavedAs(view.table, view.form)
            /\ \E k \in DOMAIN view.reqs :
                 LET q == view.reqs[k]
                 IN  /\ IsSubmit(q) /\ q.served /\ q.id = view.form.id
                     /\ SavedAs(view.table, q)]_pageVars

\* With nothing under way the list shows the table, unless requests overlapped or
\* the answer to a change was lost: nothing reads the list again then. This is for
\* one writer: what another tab changes is not shown before the next read.
RoutersFresh ==
  At("settings") /\ view.reqs = <<>> /\ ~view.overtaken
    /\ SettingsShown(view) \in {"rows", "empty"} => view.routers = view.table

\* The settings show the table and the form shows its own router (load, runTest).
SettingsTrue == FormOwn /\ RoutersFresh
=============================================================================
