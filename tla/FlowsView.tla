----------------------------- MODULE FlowsView -----------------------------
(***************************************************************************)
(* views/FlowsDashboardView.vue: the figures of the last minute and the    *)
(* most recent flows, each polled once a second.                           *)
(*                                                                         *)
(* An overview is what handleDashboardOverview answers: the buckets of the *)
(* window, newest first, and the top hosts; the other figures are sums of  *)
(* the buckets. A bucket holds, in either unit, what UDP, ICMP and the     *)
(* other protocols sent in one second.                                     *)
(***************************************************************************)
EXTENDS WebPage, HostTrafficChart

CONSTANTS
  Windows,   \* what the window of the store may hold: sequences of buckets
  TopLists   \* the rows of the top hosts: sequences of [bps, sparkline]

Units == {"bps", "pps"}
Rates == [udp : Nat, icmp : Nat, other : Nat]

\* The window has a bucket for every second, and the top hosts are sorted by
\* traffic (Overview and Top of the aggregate store).
ASSUME OverviewAssumption ==
  /\ Windows \subseteq Seq([bps : Rates, pps : Rates]) \ {<<>>}
  /\ NoBuckets \notin Windows
  /\ TopLists \subseteq Seq([bps : Nat, sparkline : Seq(Nat)])
  /\ \A top \in TopLists : \A i, j \in DOMAIN top : i <= j => top[i].bps >= top[j].bps

NoOverview == [buckets |-> NoBuckets, top |-> <<>>]
Overviews == [buckets : Windows, top : TopLists]

RecentAnswers == {"empty", "some"}   \* of the recent flows

Areas(b) == b.udp + b.icmp + b.other
SumOf(s) == SumFunction(s)

\* The figures of the answer.
Kpis(ov) == [u \in Units |-> Areas(ov.buckets[1][u])]
ProtoTotals(ov, u) ==
  [p \in {"udp", "icmp", "other"} |->
     SumOf([i \in DOMAIN ov.buckets |-> ov.buckets[i][u][p]])]

FlowsMounted(h) ==
  [page |-> "flows", overview |-> NoOverview, recent |-> "none",
   loadingFirst |-> TRUE, overviewError |-> FALSE, recentError |-> FALSE,
   ovAsked |-> 1, rcAsked |-> 1, polling |-> TRUE,
   mode |-> "bps", chart |-> NoChart,
   unseen |-> h]   \* history: mounted in a hidden tab, which has not been visible since

-----------------------------------------------------------------------------
(* Computed values.                                                        *)

globalBuckets(v) == v.overview.buckets

NoShare == [udp |-> 0, icmp |-> 0, other |-> 0, total |-> 0]
protoShare(v) ==
  IF v.overview = NoOverview THEN NoShare
  ELSE LET s == ProtoTotals(v.overview, v.mode)
       IN  [udp |-> s["udp"], icmp |-> s["icmp"], other |-> s["other"],
            total |-> s["udp"] + s["icmp"] + s["other"]]

\* In tenths of a percent, rounded to the nearest.
pct(part, total) ==
  IF total <= 0 THEN 0 ELSE (2 * 1000 * part + total) \div (2 * total)

Greatest(s) == Max({0} \cup Range(s))

\* The points of a sparkline on 120 x 28: time to the right, traffic upwards.
sparkPath(values) ==
  LET data == Reverse(values)
      w == 120  h == 28
      max == IF Greatest(data) > 1 THEN Greatest(data) ELSE 1
      steps == IF Len(data) > 2 THEN Len(data) - 1 ELSE 1
  IN  [i \in DOMAIN data |->
         [x |-> ((i - 1) * w) \div steps,
          y |-> h - (data[i] * (h - 2)) \div max - 1]]

\* Mutant: the scale is that of the second row.
topBpsMaxSecond(v) == IF Len(v.overview.top) < 2 THEN 0 ELSE v.overview.top[2].bps

topBpsMax(v) == Greatest([i \in DOMAIN v.overview.top |-> v.overview.top[i].bps])

\* The bars of the top hosts, in percent.
TopBars(v) ==
  [i \in DOMAIN v.overview.top |->
     IF topBpsMax(v) = 0 THEN 0 ELSE (v.overview.top[i].bps * 100) \div topBpsMax(v)]

-----------------------------------------------------------------------------
(* The template.                                                           *)

FlowsAlert(v) == v.overviewError /\ ~v.loadingFirst
ChartShown(v) ==
  CASE v.loadingFirst -> "spinner"
    [] ~v.loadingFirst /\ globalBuckets(v) # NoBuckets -> "chart"
    [] OTHER -> "empty"
TopShown(v) ==
  CASE v.loadingFirst -> "spinner"
    [] ~v.loadingFirst /\ v.overview.top = <<>> -> "empty"
    [] OTHER -> "rows"
ProtoShown(v) == IF protoShare(v).total = 0 THEN "empty" ELSE "shares"
RecentShown(v) ==
  CASE v.recentError -> "alert"
    [] ~v.recentError /\ v.recent \in {"none", "empty"} -> "empty"
    [] OTHER -> "rows"

FlowsRendered(v, new) ==
  [v EXCEPT !.chart = ChartFlush(view.chart, ChartShown(v) = "chart", globalBuckets(v),
                                 v.mode, view.mode, new)]

-----------------------------------------------------------------------------
(* Handlers and actions.                                                   *)

askOverview(v) == [v EXCEPT !.ovAsked = @ + 1]
askRecent(v) == [v EXCEPT !.rcAsked = @ + 1]
FlowsRoom(v) == v.ovAsked < MaxPending /\ v.rcAsked < MaxPending

FlowsVisible(v) ==
  [askRecent(askOverview(v)) EXCEPT !.polling = TRUE, !.unseen = FALSE]
FlowsHidden(v) == [v EXCEPT !.polling = FALSE]
FlowsUnmounted(v) == [v EXCEPT !.polling = FALSE]

OverviewPolls ==
  /\ At("flows") /\ view.polling /\ view.ovAsked < MaxPending
  /\ Becomes(askOverview(view)) /\ UNCHANGED faults

RecentPolls ==
  /\ At("flows") /\ view.polling /\ view.rcAsked < MaxPending
  /\ Becomes(askRecent(view)) /\ UNCHANGED faults

loadOverview ==
  /\ At("flows") /\ view.ovAsked > 0
  /\ \E ok \in BOOLEAN, ov \in Overviews :
       /\ Outcome(ok)
       /\ LET v == [view EXCEPT !.ovAsked = @ - 1, !.loadingFirst = FALSE,
                                !.overviewError = ~ok,
                                !.overview = IF ok THEN ov ELSE @]
          IN  Becomes(FlowsRendered(v, ok))

loadRecent ==
  /\ At("flows") /\ view.rcAsked > 0
  /\ \E ok \in BOOLEAN, r \in RecentAnswers :
       /\ Outcome(ok)
       /\ Becomes([view EXCEPT !.rcAsked = @ - 1, !.recentError = ~ok,
                               !.recent = IF ok THEN r ELSE @])

FlowsVisibility ==
  /\ At("flows")
  /\ \/ Visibility(TRUE, FlowsHidden(view))
     \/ FlowsRoom(view) /\ Visibility(FALSE, FlowsVisible(view))

FlowsMode ==
  /\ At("flows") /\ ~hidden
  /\ Click(FlowsRendered([view EXCEPT !.mode = OtherMode(@)], FALSE))

FlowsNext ==
  \/ OverviewPolls \/ RecentPolls \/ loadOverview \/ loadRecent
  \/ FlowsVisibility \/ FlowsMode
=============================================================================
