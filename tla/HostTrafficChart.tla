-------------------------- MODULE HostTrafficChart --------------------------
(***************************************************************************)
(* components/HostTrafficChart.vue: a component that keeps a uPlot chart   *)
(* in step with its props. Its watchers run before its template is         *)
(* rendered again, when containerRef is still what the last rendering left *)
(* it.                                                                     *)
(*                                                                         *)
(* A chart is [up, box, shows, options, observed]: the component is        *)
(* mounted, containerRef is set, the buckets and the options the canvas    *)
(* was last given, and whether its element is observed for resizing.       *)
(***************************************************************************)
EXTENDS Integers, Sequences, SequencesExt

CONSTANT NoBuckets   \* the empty list of buckets, and a chart without canvas

\* The unit of the axis and of the labels, and the pairs of series between which
\* the chart is filled, upper series first.
buildOptions(m) == [unit |-> m, bands |-> {<<"udpIcmp", "udp">>, <<"total", "udpIcmp">>}]
NoOptions == [unit |-> "none", bands |-> {}]

NoChart == [up |-> FALSE, box |-> FALSE, shows |-> NoBuckets, options |-> NoOptions,
            observed |-> FALSE]

mountChart(c, b, m) ==
  IF c.box THEN [c EXCEPT !.shows = b, !.options = buildOptions(m)] ELSE c
destroyChart(c) == [c EXCEPT !.shows = NoBuckets, !.options = NoOptions]

\* onMounted: the template has been rendered with these props.
ChartMounted(b, m) ==
  LET c == [NoChart EXCEPT !.up = TRUE, !.box = b # NoBuckets]
  IN  IF b = NoBuckets THEN c ELSE [mountChart(c, b, m) EXCEPT !.observed = TRUE]

\* Mutant: a change of unit only hands over the data.
ModeWatchedBySetData(c, b, m) ==
  IF c.shows # NoBuckets THEN [c EXCEPT !.shows = b] ELSE c

ModeWatched(c, b, m) ==
  LET d == destroyChart(c) IN IF b = NoBuckets THEN d ELSE mountChart(d, b, m)

BucketsWatched(c, b, m) ==
  CASE b = NoBuckets         -> destroyChart(c)
    [] c.shows = NoBuckets   -> mountChart(c, b, m)
    [] OTHER                 -> [c EXCEPT !.shows = b]

\* One flush: the component is mounted if its page shows it, and gets buckets
\* b (a list of its own, if new) and unit m.
ChartFlush(c, shown, b, m, m0, new) ==
  CASE ~shown           -> NoChart
    [] shown /\ ~c.up   -> ChartMounted(b, m)
    [] OTHER            ->
         LET c1 == IF m # m0 THEN ModeWatched(c, b, m) ELSE c
             c2 == IF new THEN BucketsWatched(c1, b, m) ELSE c1
         IN  [c2 EXCEPT !.box = b # NoBuckets,
                        !.observed = c.observed /\ c.box /\ b # NoBuckets]

-----------------------------------------------------------------------------
(* What is drawn. A bucket holds udp, icmp and other in either unit.       *)

\* Mutant: the newest bucket is drawn first.
buildDataNewestFirst(buckets, u) ==
  [i \in DOMAIN buckets |->
     LET b == buckets[i][u]
     IN  [x |-> -(i - 1), udp |-> b.udp, udpIcmp |-> b.udp + b.icmp,
          total |-> b.udp + b.icmp + b.other]]

\* The points from left to right, at minus their age, with three nested areas;
\* the first bucket of the list is the newest.
buildData(buckets, u) ==
  LET n == Len(buckets)
  IN  [i \in 1 .. n |->
         LET b == buckets[n + 1 - i][u]
         IN  [x |-> -(n - i), udp |-> b.udp, udpIcmp |-> b.udp + b.icmp,
              total |-> b.udp + b.icmp + b.other]]
=============================================================================
