--------------------------- MODULE AnalyticsView ---------------------------
(***************************************************************************)
(* views/AnalyticsView.vue: traffic by owner, by country and by protocol,  *)
(* and a Sankey diagram of who sends to whom, polled every two seconds.    *)
(*                                                                         *)
(* What the daemon aggregates is a record: the active hosts of the store,  *)
(* [owner, country, bps, pps]; the recent flows, [src, dst, bytes], whose  *)
(* ends are the names their addresses resolve to; and what each protocol   *)
(* sent in the window, in either unit.                                     *)
(***************************************************************************)
EXTENDS WebPage, Figures

CONSTANTS
  Traffics,   \* what there may be to aggregate: [hosts, flows, protos]
  NoData,     \* analytics.value and overview.value are null
  MaxBars     \* owners and countries in an answer (12)

ASSUME AnalyticsAssumption == MaxBars \in Nat \ {0}

AnalyticsMounted(h) ==
  [page |-> "analytics", analytics |-> NoData, protoTotals |-> NoData,
   loadingFirst |-> TRUE, errored |-> FALSE, asked |-> 1, polling |-> TRUE,
   mode |-> "bps",
   unseen |-> h]   \* history: mounted in a hidden tab, which has not been visible since

-----------------------------------------------------------------------------
(* The answer: handleDashboardAnalytics.                                   *)

\* Of some of them, by their places.
Total(s, f, places) == SumFunctionOnSet([i \in DOMAIN s |-> s[i][f]], places)

\* The rows with the most traffic first.
sortByBps(rows) ==
  CHOOSE s \in SetToSeqs(rows) : \A i, j \in DOMAIN s : i < j => s[i].bps >= s[j].bps

\* The most of them that go into an answer.
Capped(s) == SubSeq(s, 1, IF Len(s) < MaxBars THEN Len(s) ELSE MaxBars)

\* Mutant: a host without a name for it is left out.
TopByNamed(hosts, key) ==
  LET group(n) == {i \in DOMAIN hosts : hosts[i][key] = n}
      rows == {[name |-> n, bps |-> Total(hosts, "bps", group(n)),
                pps |-> Total(hosts, "pps", group(n)),
                hosts |-> Cardinality(group(n))]
                 : n \in {hosts[i][key] : i \in DOMAIN hosts} \ {"??"}}
  IN  Capped(sortByBps(rows))

\* The groups of hosts, the one with the most traffic first.
TopBy(hosts, key) ==
  LET group(n) == {i \in DOMAIN hosts : hosts[i][key] = n}
      rows == {[name |-> n, bps |-> Total(hosts, "bps", group(n)),
                pps |-> Total(hosts, "pps", group(n)),
                hosts |-> Cardinality(group(n))]
                 : n \in {hosts[i][key] : i \in DOMAIN hosts}}
  IN  Capped(sortByBps(rows))

\* Mutant: a name is one node, whichever side it is on.
SankeyBare(flows) ==
  {[source |-> <<p[1], "">>, target |-> <<p[2], "">>,
    bytes |-> Total(flows, "bytes",
                    {i \in DOMAIN flows : flows[i].src = p[1] /\ flows[i].dst = p[2]})]
     : p \in {<<flows[i].src, flows[i].dst>> : i \in DOMAIN flows}}

\* One edge for each pair of ends; senders and receivers are named apart.
Sankey(flows) ==
  {[source |-> <<p[1], "sends">>, target |-> <<p[2], "receives">>,
    bytes |-> Total(flows, "bytes",
                    {i \in DOMAIN flows : flows[i].src = p[1] /\ flows[i].dst = p[2]})]
     : p \in {<<flows[i].src, flows[i].dst>> : i \in DOMAIN flows}}

handleDashboardAnalytics(t) ==
  [top_owners |-> TopBy(t.hosts, "owner"), top_countries |-> TopBy(t.hosts, "country"),
   sankey |-> Sankey(t.flows)]

\* Traffic is counted from zero, and an answer is no null.
ASSUME TrafficsAssumption ==
  \A t \in Traffics :
    /\ t.hosts \in Seq(Range(t.hosts))
    /\ \A i \in DOMAIN t.hosts : t.hosts[i].bps \in Nat /\ t.hosts[i].pps \in Nat
    /\ handleDashboardAnalytics(t) # NoData

-----------------------------------------------------------------------------
(* The options of the charts; NoData: the text that there is no data.      *)

protoDonutOption(v) ==
  IF v.protoTotals = NoData \/ SumFunction(v.protoTotals[v.mode]) = 0 THEN NoData
  ELSE v.protoTotals[v.mode]

formatMetric(v, m) == IF m = "bps" THEN formatBpsFine(v) ELSE formatPpsFine(v)

\* Bars are drawn from the bottom.
BarOption(rows, m) ==
  IF rows = <<>> THEN NoData
  ELSE [i \in DOMAIN rows |-> [name |-> Reverse(rows)[i].name,
                               value |-> Reverse(rows)[i][m],
                               label |-> formatMetric(Reverse(rows)[i][m], m),
                               hosts |-> Reverse(rows)[i].hosts]]

ownerBarOption(v) ==
  IF v.analytics = NoData THEN NoData ELSE BarOption(v.analytics.top_owners, v.mode)

countryBarOption(v) ==
  IF v.analytics = NoData THEN NoData
  ELSE BarOption(v.analytics.top_countries, v.mode)

sankeyOption(v) ==
  IF v.analytics = NoData \/ v.analytics.sankey = {} THEN NoData
  ELSE [nodes |-> UNION {{e.source, e.target} : e \in v.analytics.sankey},
        links |-> v.analytics.sankey]

\* What each card shows: the spinner, the text, or the chart.
Card(v, option) ==
  IF v.loadingFirst THEN "spinner" ELSE IF option = NoData THEN "empty" ELSE "chart"

AnalyticsAlert(v) == v.errored /\ ~v.loadingFirst

-----------------------------------------------------------------------------
(* Handlers and actions.                                                   *)

loadAll(v) == [v EXCEPT !.asked = @ + 1]

AnalyticsVisible(v) == [loadAll(v) EXCEPT !.polling = TRUE, !.unseen = FALSE]
AnalyticsHidden(v) == [v EXCEPT !.polling = FALSE]
AnalyticsUnmounted(v) == [v EXCEPT !.polling = FALSE]

AnalyticsPolls ==
  /\ At("analytics") /\ view.polling /\ view.asked < MaxPending
  /\ Becomes(loadAll(view)) /\ UNCHANGED faults

\* Both answers of a load are in, made at times of their own; or one failed.
AnalyticsAnswered ==
  /\ At("analytics") /\ view.asked > 0
  /\ LET v == [view EXCEPT !.asked = @ - 1, !.loadingFirst = FALSE]
     IN  \/ /\ Outcome(TRUE)
            /\ \E t, t2 \in Traffics :
                 Becomes([v EXCEPT !.analytics = handleDashboardAnalytics(t),
                                   !.protoTotals = t2.protos, !.errored = FALSE])
         \/ Outcome(FALSE) /\ Becomes([v EXCEPT !.errored = TRUE])

AnalyticsVisibility ==
  /\ At("analytics")
  /\ \/ Visibility(TRUE, AnalyticsHidden(view))
     \/ view.asked < MaxPending /\ Visibility(FALSE, AnalyticsVisible(view))

AnalyticsMode ==
  /\ At("analytics") /\ ~hidden /\ Click([view EXCEPT !.mode = OtherMode(@)])

AnalyticsNext ==
  AnalyticsPolls \/ AnalyticsAnswered \/ AnalyticsVisibility \/ AnalyticsMode
=============================================================================
