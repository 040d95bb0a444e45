---------------------------- MODULE TrafficView ----------------------------
(***************************************************************************)
(* views/TrafficView.vue: the list of the top hosts and a drawer with the  *)
(* chart of one of them, each polled once a second.                        *)
(*                                                                         *)
(* A host stands for the data about it. The drawer of the component        *)
(* library keeps its content until its closing transition ends, and its    *)
(* close button changes v-model:show and nothing else: @close is no event  *)
(* of it.                                                                  *)
(***************************************************************************)
EXTENDS WebPage, HostTrafficChart

CONSTANTS
  Hosts,
  HostLists,  \* the hosts an answer to the list may hold
  Quiet       \* the hosts that may go quiet for long

NoHost == NoBuckets
ASSUME HostsAssumption == 
  /\ HostLists \subseteq SUBSET Hosts /\ NoHost \notin Hosts
  /\ Quiet \subseteq Hosts

TrafficMounted ==
  [page |-> "traffic",
   rows |-> {}, loadingFirst |-> TRUE, topError |-> FALSE,
   asked |-> 1, first |-> TRUE, topInterval |-> FALSE,
   drawerOpen |-> FALSE, drawerUp |-> FALSE, drawerIP |-> NoHost,
   hostgroup |-> NoHost, buckets |-> NoHost,
   drawerLoading |-> FALSE, drawerError |-> "none",
   hostAsked |-> <<>>, hostInterval |-> FALSE, mode |-> "bps", chart |-> NoChart,
   gone |-> {},         \* the hosts the daemon has evicted
   told |-> FALSE,      \* history: a list has been received
   byButton |-> FALSE,  \* history: the drawer was closed with its button
   crossed |-> FALSE,   \* history: the drawer was opened with another host's request out
   woken |-> FALSE]     \* history: the first answer came to a hidden page

-----------------------------------------------------------------------------
(* The template.                                                           *)

TrafficShown(v) ==
  CASE v.loadingFirst -> "spinner"
    [] ~v.loadingFirst /\ v.topError -> "alert"
    [] OTHER -> IF v.rows = {} THEN "empty" ELSE "rows"

DrawerShown(v) ==
  CASE ~v.drawerUp -> "nothing"
    [] v.drawerUp /\ v.drawerLoading /\ v.buckets = NoHost -> "spinner"
    [] v.drawerUp /\ ~(v.drawerLoading /\ v.buckets = NoHost)
         /\ v.drawerError # "none" -> v.drawerError
    [] OTHER -> "chart"

\* The page is rendered after every change.
Rendered(v, newBuckets) ==
  [v EXCEPT !.chart = ChartFlush(view.chart, DrawerShown(v) = "chart", v.buckets,
                                 v.mode, view.mode, newBuckets)]

-----------------------------------------------------------------------------
(* Handlers, as functions.                                                 *)

loadTop20(v) == [v EXCEPT !.asked = @ + 1]

loadHost(v, ip) ==
  [v EXCEPT !.drawerLoading = TRUE, !.drawerError = "none",
            !.hostAsked = Append(@, ip)]

startTopPolling(v) == [v EXCEPT !.topInterval = TRUE]
startHostPolling(v) == [v EXCEPT !.hostInterval = @ \/ v.drawerIP # NoHost]
stopTopPolling(v) == [v EXCEPT !.topInterval = FALSE]
stopHostPolling(v) == [v EXCEPT !.hostInterval = FALSE]


TrafficVisible(v) ==
  LET w == startTopPolling(loadTop20(v))
  IN  IF v.drawerOpen /\ v.drawerIP # NoHost
      THEN startHostPolling(loadHost(w, v.drawerIP)) ELSE w

TrafficHidden(v) == stopHostPolling(stopTopPolling(v))

DrawerFor(v, h) ==
  [v EXCEPT !.drawerIP = h, !.hostgroup = h, !.buckets = NoHost,
            !.drawerError = "none", !.drawerOpen = TRUE, !.drawerUp = TRUE,
            !.crossed = \E k \in DOMAIN v.hostAsked : v.hostAsked[k] # h,
            !.byButton = FALSE]

\* Mutant: what the drawer showed before is kept.
openDrawerKept(v, h) ==
  startHostPolling(loadHost([DrawerFor(v, h) EXCEPT !.buckets = v.buckets], h))

\* Mutant: the host is asked for once.
openDrawerOnce(v, h) == loadHost(DrawerFor(v, h), h)

openDrawer(v, h) == startHostPolling(loadHost(DrawerFor(v, h), h))

closeDrawer(v) ==
  stopHostPolling([v EXCEPT !.drawerOpen = FALSE, !.drawerIP = NoHost,
                            !.buckets = NoHost])

\* Mutant: the page does not go back to the spinner.
retryTopBare(v) == loadTop20([v EXCEPT !.topError = FALSE])

retryTop(v) == loadTop20([v EXCEPT !.topError = FALSE, !.loadingFirst = TRUE])

\* Mutant: the list goes on being polled.
TrafficUnmountedHostOnly(v) == stopHostPolling(v)

TrafficUnmounted(v) == stopHostPolling(stopTopPolling(v))

-----------------------------------------------------------------------------
(* Actions.                                                                *)

Room(v) == v.asked < MaxPending
HostRoom(v) == Len(v.hostAsked) < MaxPending

TrafficPolls ==
  /\ At("traffic") /\ view.topInterval /\ Room(view)
  /\ Becomes(Rendered(loadTop20(view), FALSE)) /\ UNCHANGED faults

HostPolls ==
  /\ At("traffic") /\ view.hostInterval /\ view.drawerIP # NoHost /\ HostRoom(view)
  /\ Becomes(Rendered(loadHost(view, view.drawerIP), FALSE)) /\ UNCHANGED faults

\* The hook that mounted the page waits for its own request, the first one, to
\* start the polling; the answers to others may come before.
TopAnswered(mine) ==
  /\ At("traffic") /\ view.asked > 0
  /\ IF mine THEN view.first ELSE view.asked > 1 \/ ~view.first
  /\ \E ok \in BOOLEAN, items \in HostLists :
       /\ Outcome(ok)
       /\ LET v == [view EXCEPT
                      !.rows = IF ok THEN items ELSE @, !.topError = ~ok, !.loadingFirst = FALSE,
                      !.asked = @ - 1, !.told = @ \/ ok,
                      !.first = @ /\ ~mine, !.woken = @ \/ (mine /\ hidden)]
          IN  Becomes(Rendered(IF mine THEN startTopPolling(v) ELSE v, FALSE))

\* The daemon evicts a host that has been quiet for long (which counts as a click in
\* the bound), or hears of it again.
HostEvicted ==
  /\ At("traffic")
  /\ \E h \in Quiet \ view.gone :
       Click(Rendered([view EXCEPT !.gone = @ \cup {h}], FALSE))

HostReturns ==
  /\ At("traffic")
  /\ \E h \in view.gone : Becomes(Rendered([view EXCEPT !.gone = @ \ {h}], FALSE))
  /\ UNCHANGED faults

\* What an answer for a host, or none, does.
HostArrives(v, ip) == [v EXCEPT !.buckets = ip, !.hostgroup = ip]
HostRefused(v, e) == [v EXCEPT !.buckets = NoHost, !.drawerError = e]

\* The k-th open request for a host is answered: with its figures, with 404 for as
\* long as it is evicted; or it fails.
HostAnswered(k) ==
  /\ At("traffic") /\ k \in DOMAIN view.hostAsked
  /\ \E ok \in BOOLEAN :
       /\ Outcome(ok)
       /\ LET ip == view.hostAsked[k]
              v == [view EXCEPT !.hostAsked = RemoveAt(@, k), !.drawerLoading = FALSE]
          IN  Becomes(Rendered(
                CASE ~ok                     -> HostRefused(v, "fetch")
                  [] ok /\ ip \in view.gone  -> HostRefused(v, "not_found")
                  [] OTHER                   -> HostArrives(v, ip), TRUE))

TrafficVisibility ==
  /\ At("traffic")
  /\ \/ Visibility(TRUE, Rendered(TrafficHidden(view), FALSE))
     \/ /\ Room(view) /\ HostRoom(view)
        /\ Visibility(FALSE, Rendered(TrafficVisible(view), FALSE))

\* The mask covers the list while the drawer is open.
OpenDrawer ==
  /\ At("traffic") /\ ~hidden /\ TrafficShown(view) = "rows" /\ ~view.drawerOpen
  /\ HostRoom(view)
  /\ \E h \in view.rows : Click(Rendered(openDrawer(view, h), TRUE))

\* By the mask or the escape key; or by the button of the drawer.
CloseDrawer ==
  /\ At("traffic") /\ ~hidden /\ view.drawerOpen
  /\ \/ Click(Rendered(closeDrawer(view), TRUE))
     \/ Click(Rendered([view EXCEPT !.drawerOpen = FALSE, !.byButton = TRUE], FALSE))

DrawerGone ==
  /\ At("traffic") /\ view.drawerUp /\ ~view.drawerOpen
  /\ Becomes(Rendered([view EXCEPT !.drawerUp = FALSE], FALSE)) /\ UNCHANGED faults

RetryTop ==
  /\ At("traffic") /\ ~hidden /\ TrafficShown(view) = "alert" /\ ~view.drawerOpen
  /\ Room(view)
  /\ Click(Rendered(retryTop(view), FALSE))

RetryHost ==
  /\ At("traffic") /\ ~hidden /\ view.drawerOpen /\ DrawerShown(view) = "fetch"
  /\ view.drawerIP # NoHost /\ HostRoom(view)
  /\ Click(Rendered(loadHost(view, view.drawerIP), FALSE))

TrafficMode ==
  /\ At("traffic") /\ ~hidden /\ view.drawerOpen
  /\ Click(Rendered([view EXCEPT !.mode = OtherMode(@)], FALSE))

TrafficAnswers ==
  \/ \E mine \in BOOLEAN : TopAnswered(mine)
  \/ \E k \in 1 .. MaxPending : HostAnswered(k)

TrafficNext ==
  \/ HostEvicted \/ HostReturns
  \/ TrafficPolls \/ HostPolls \/ TrafficAnswers \/ TrafficVisibility
  \/ OpenDrawer \/ CloseDrawer \/ DrawerGone \/ RetryTop \/ RetryHost \/ TrafficMode
=============================================================================
