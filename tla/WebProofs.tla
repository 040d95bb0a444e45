----------------------------- MODULE WebProofs ------------------------------
(***************************************************************************)
(* Proofs about the pages of WebApp, for any hosts, rates, lists,          *)
(* incidents and tables and any bound on clicks, failures and answers that *)
(* are out.                                                                *)
(***************************************************************************)
EXTENDS WebAppInv, FiniteSetTheorems, SequenceTheorems, WellFoundedInduction, TLAPS

-----------------------------------------------------------------------------
(* The chart.                                                              *)

\* A chart that is mounted, or is in step with its page and gets no empty list, is in
\* step after a flush; and one that is not shown is gone.
LEMMA FlushDraws ==
  ASSUME NEW B, NEW c \in Charts(B), NEW shown \in BOOLEAN, NEW b \in B, b # NoBuckets,
         NEW m \in Units, NEW m0 \in Units, NEW b0, NEW new \in BOOLEAN,
         c.up => Drawn(c, b0, m0), ~new => b = b0
  PROVE  LET d == ChartFlush(c, shown, b, m, m0, new)
         IN  d.up => Drawn(d, b, m)
  <1> DEFINE d == ChartFlush(c, shown, b, m, m0, new)
  <1>1. CASE ~shown
    BY <1>1 DEF ChartFlush, NoChart
  <1>2. CASE shown /\ ~c.up
    BY <1>2 DEF ChartFlush, ChartMounted, NoChart, mountChart, Drawn
  <1>3. CASE shown /\ c.up
    <2> DEFINE c1 == IF m # m0 THEN ModeWatched(c, b, m) ELSE c
               c2 == IF new THEN BucketsWatched(c1, b, m) ELSE c1
    <2>1. d = [c2 EXCEPT !.box = b # NoBuckets,
                         !.observed = c.observed /\ c.box /\ b # NoBuckets]
      BY <1>3 DEF ChartFlush
    <2>2. c.shows = b0 /\ b0 # NoBuckets /\ c.box = TRUE /\ c.observed = TRUE
          /\ c.options = buildOptions(m0)
      BY <1>3 DEF Drawn, Charts
    <2>3. /\ c1 \in Charts(B) /\ c1.box = TRUE /\ c1.options = buildOptions(m)
          /\ c1.shows = IF m # m0 THEN b ELSE b0
      BY <2>2 DEF Charts, ModeWatched, mountChart, destroyChart, Units
    <2>4. c2 \in Charts(B) /\ c2.shows = b /\ c2.options = buildOptions(m)
      BY <2>2, <2>3 DEF Charts, BucketsWatched
    <2> HIDE DEF c1, c2
    <2>5. QED
      BY <2>1, <2>2, <2>4 DEF Drawn, Charts
  <1>4. QED
    BY <1>1, <1>2, <1>3

\* What a flush leaves is a chart, and it is mounted if it is shown.
LEMMA FlushTyped ==
  ASSUME NEW B, NoBuckets \in B, NEW c \in Charts(B), NEW shown \in BOOLEAN, NEW b \in B,
         NEW m \in Units, NEW m0 \in Units, NEW new \in BOOLEAN
  PROVE  LET d == ChartFlush(c, shown, b, m, m0, new)
         IN  d \in Charts(B) /\ d.up = shown
  <1> DEFINE d == ChartFlush(c, shown, b, m, m0, new)
  <1>0. NoChart \in Charts(B) /\ NoChart.up = FALSE
    BY DEF NoChart, Charts
  <1>1. CASE ~shown
    BY <1>0, <1>1 DEF ChartFlush
  <1>2. CASE shown /\ ~c.up
    <2>1. PICK e : e = [NoChart EXCEPT !.up = TRUE, !.box = b # NoBuckets]
      OBVIOUS
    <2>2. e \in Charts(B) /\ e.up = TRUE
      BY <1>0, <2>1 DEF Charts
    <2>3. mountChart(e, b, m) \in Charts(B) /\ mountChart(e, b, m).up = TRUE
      BY <2>2 DEF Charts, mountChart, Units
    <2>4. d = IF b = NoBuckets THEN e ELSE [mountChart(e, b, m) EXCEPT !.observed = TRUE]
      BY <1>2, <2>1 DEF ChartFlush, ChartMounted
    <2>5. QED
      BY <1>2, <2>2, <2>3, <2>4 DEF Charts
  <1>3. CASE shown /\ c.up
    <2> DEFINE c1 == IF m # m0 THEN ModeWatched(c, b, m) ELSE c
               c2 == IF new THEN BucketsWatched(c1, b, m) ELSE c1
    <2>1. d = [c2 EXCEPT !.box = b # NoBuckets,
                         !.observed = c.observed /\ c.box /\ b # NoBuckets]
      BY <1>3 DEF ChartFlush
    <2>2. PICK e : e = destroyChart(c)
      OBVIOUS
    <2>3. e \in Charts(B) /\ e.up = TRUE
      BY <1>3, <2>2 DEF Charts, destroyChart
    <2>4. mountChart(e, b, m) \in Charts(B) /\ mountChart(e, b, m).up = TRUE
      BY <2>3 DEF Charts, mountChart, Units
    <2>5. c1 \in Charts(B) /\ c1.up = TRUE
      BY <1>3, <2>2, <2>3, <2>4 DEF ModeWatched
    <2>6. destroyChart(c1) \in Charts(B) /\ destroyChart(c1).up = TRUE
      BY <2>5 DEF Charts, destroyChart
    <2>7. mountChart(c1, b, m) \in Charts(B) /\ mountChart(c1, b, m).up = TRUE
      BY <2>5 DEF Charts, mountChart, Units
    <2>8. [c1 EXCEPT !.shows = b] \in Charts(B) /\ [c1 EXCEPT !.shows = b].up = TRUE
      BY <2>5 DEF Charts
    <2>9. c2 \in Charts(B) /\ c2.up = TRUE
      BY <2>5, <2>6, <2>7, <2>8 DEF BucketsWatched
    <2>10. c.observed \in BOOLEAN /\ c.box \in BOOLEAN
      BY DEF Charts
    <2> HIDE DEF c1, c2
    <2>11. QED
      BY <1>3, <2>1, <2>9, <2>10 DEF Charts
  <1>4. QED
    BY <1>1, <1>2, <1>3

-----------------------------------------------------------------------------
(* The traffic page.                                                       *)

\* What a handler leaves, before it is rendered: a page whose drawer, if open, was
\* open before or shows no chart, and whose buckets, if changed, are a new list.
Renders(v, w, new, h) ==
  /\ w \in TrafficViews /\ w.chart = v.chart
  /\ new \/ w.buckets = v.buckets
  /\ w.drawerOpen => v.drawerOpen \/ DrawerShown(w) # "chart"
  /\ TrafficTimed(w, h) /\ DrawerWaits(w) /\ DrawerHears(w)

\* The content of the drawer is a chart only if there is something to draw.
LEMMA ChartHasBuckets ==
  ASSUME NEW w \in TrafficViews, DrawerWaits(w), w.drawerOpen, DrawerShown(w) = "chart"
  PROVE  w.buckets # NoHost
  BY DEF TrafficViews, DrawerWaits, DrawerShown

\* Rendering keeps everything but the chart, which it keeps in step.
LEMMA TrafficRendered ==
  ASSUME view \in TrafficViews, DrawerDraws(view), NEW new \in BOOLEAN, NEW h \in BOOLEAN,
         NEW w, Renders(view, w, new, h)
  PROVE  Rendered(w, new) \in TrafficViews /\ TrafficInv(Rendered(w, new), h)
  <1>1. PICK v : v = view
    OBVIOUS
  <1>2. PICK shown \in BOOLEAN : shown = (DrawerShown(w) = "chart")
    OBVIOUS
  <1>3. PICK d : d = ChartFlush(v.chart, shown, w.buckets, w.mode, v.mode, new)
    OBVIOUS
  <1>4. PICK z : z = [w EXCEPT !.chart = d]
    OBVIOUS
  <1>5. Rendered(w, new) = z
    BY <1>1, <1>2, <1>3, <1>4 DEF Rendered
  <1>6. /\ w \in TrafficViews /\ w.chart = v.chart /\ (new \/ w.buckets = v.buckets)
        /\ w.drawerOpen => v.drawerOpen \/ ~shown
        /\ TrafficTimed(w, h) /\ DrawerWaits(w) /\ DrawerHears(w)
    BY <1>1, <1>2 DEF Renders
  <1>7. /\ v.chart \in Charts(HostOrNone) /\ v.mode \in Units
        /\ w.mode \in Units /\ w.buckets \in HostOrNone /\ NoBuckets \in HostOrNone
    BY <1>1, <1>6 DEF TrafficViews, HostOrNone, NoHost
  <1>8. d \in Charts(HostOrNone) /\ d.up = shown
    BY <1>3, <1>7, FlushTyped, SMTT(60)
  <1>9. z \in TrafficViews
    BY <1>4, <1>6, <1>8 DEF TrafficViews
  <1>10. z.chart = d /\ z.buckets = w.buckets /\ z.mode = w.mode /\ z.drawerOpen = w.drawerOpen
         /\ DrawerShown(z) = DrawerShown(w)
    BY <1>4, <1>6 DEF TrafficViews, DrawerShown
  <1>11. TrafficTimed(z, h)
    BY <1>4, <1>6 DEF TrafficViews, TrafficTimed
  <1>12. DrawerWaits(z)
    BY <1>4, <1>6 DEF TrafficViews, DrawerWaits
  <1>13. DrawerHears(z)
    BY <1>4, <1>6 DEF TrafficViews, DrawerHears
  <1>14. ASSUME w.drawerOpen, shown PROVE Drawn(d, w.buckets, w.mode)
    <2>1. w.buckets # NoBuckets
      BY <1>2, <1>6, <1>14, ChartHasBuckets DEF NoHost
    <2>2. v.chart.up => Drawn(v.chart, v.buckets, v.mode)
      BY <1>1, <1>6, <1>14 DEF DrawerDraws
    <2>3. d.up => Drawn(d, w.buckets, w.mode)
      BY <1>3, <1>6, <1>7, <2>1, <2>2, FlushDraws
    <2>4. QED
      BY <1>8, <1>14, <2>3
  <1>15. DrawerDraws(z)
    BY <1>2, <1>8, <1>10, <1>14 DEF DrawerDraws
  <1>16. QED
    BY <1>5, <1>9, <1>11, <1>12, <1>13, <1>15 DEF TrafficInv

\* Another request for the list changes nothing that is shown.
LEMMA TopAsked ==
  ASSUME NEW v \in TrafficViews, v.asked < MaxPending
  PROVE  LET w == loadTop20(v)
         IN  /\ w \in TrafficViews /\ w.chart = v.chart /\ w.buckets = v.buckets
             /\ w.drawerOpen = v.drawerOpen /\ w.drawerIP = v.drawerIP
             /\ \A h \in BOOLEAN : TrafficTimed(v, h) => TrafficTimed(w, h)
             /\ DrawerWaits(v) => DrawerWaits(w)
             /\ DrawerHears(v) => DrawerHears(w)
  <1>1. PICK w : w = loadTop20(v)
    OBVIOUS
  <1>2. w \in TrafficViews
    BY <1>1, PageAssumption, SMTT(60) DEF TrafficViews, loadTop20
  <1>3. w.chart = v.chart /\ w.buckets = v.buckets /\ w.drawerOpen = v.drawerOpen
        /\ w.drawerIP = v.drawerIP
    BY <1>1 DEF TrafficViews, loadTop20
  <1>4. \A h \in BOOLEAN : TrafficTimed(v, h) => TrafficTimed(w, h)
    BY <1>1 DEF TrafficViews, loadTop20, TrafficTimed
  <1>5. DrawerWaits(v) => DrawerWaits(w)
    BY <1>1 DEF TrafficViews, loadTop20, DrawerWaits
  <1>6. DrawerHears(v) => DrawerHears(w)
    BY <1>1 DEF TrafficViews, loadTop20, DrawerHears
  <1>7. QED
    BY <1>1, <1>2, <1>3, <1>4, <1>5, <1>6

\* The host in the title of the open drawer is asked for.
LEMMA HostAsked ==
  ASSUME NEW v \in TrafficViews, NEW ip \in Hosts, v.drawerOpen => v.drawerIP = ip
  PROVE  LET w == loadHost(v, ip)
         IN  /\ w \in TrafficViews /\ w.chart = v.chart /\ w.buckets = v.buckets
             /\ w.drawerOpen = v.drawerOpen /\ w.drawerIP = v.drawerIP
             /\ w.drawerUp = v.drawerUp /\ w.drawerLoading
             /\ \A h \in BOOLEAN : TrafficTimed(v, h) => TrafficTimed(w, h)
             /\ ~v.drawerOpen \/ v.drawerUp => DrawerWaits(w)
             /\ DrawerHears(v) => DrawerHears(w)
  <1>1. PICK w : w = loadHost(v, ip)
    OBVIOUS
  <1>0. Append(v.hostAsked, ip) \in Seq(Hosts)
    BY DEF TrafficViews
  <1>2. w \in TrafficViews
    BY <1>0, <1>1 DEF TrafficViews, loadHost
  <1>3. /\ w.chart = v.chart /\ w.buckets = v.buckets /\ w.drawerOpen = v.drawerOpen
        /\ w.drawerIP = v.drawerIP /\ w.drawerUp = v.drawerUp /\ w.drawerLoading = TRUE
        /\ w.hostAsked = Append(v.hostAsked, ip) /\ w.crossed = v.crossed
        /\ w.hostgroup = v.hostgroup
    BY <1>1 DEF TrafficViews, loadHost
  <1>4. \A h \in BOOLEAN : TrafficTimed(v, h) => TrafficTimed(w, h)
    BY <1>1 DEF TrafficViews, loadHost, TrafficTimed
  <1>5. w.drawerOpen /\ w.drawerUp => DrawerWaits(w)
    BY <1>3, HostsAssumption DEF DrawerWaits
  <1>6. ~w.drawerOpen => DrawerWaits(w)
    BY DEF DrawerWaits
  <1>7. v.hostAsked \in Seq(Hosts)
    BY DEF TrafficViews
  <1>8. DrawerHears(v) => DrawerHears(w)
    BY <1>3, <1>7 DEF DrawerHears
  <1>9. QED
    BY <1>1, <1>2, <1>3, <1>4, <1>5, <1>6, <1>8

\* Removing the k-th element of a sequence.
LEMMA RemovedAt ==
  ASSUME NEW S, NEW s \in Seq(S), NEW k \in 1 .. Len(s)
  PROVE  /\ RemoveAt(s, k) \in Seq(S)
         /\ Len(RemoveAt(s, k)) = Len(s) - 1
         /\ \A i \in 1 .. Len(s) - 1 :
              RemoveAt(s, k)[i] = IF i < k THEN s[i] ELSE s[i + 1]
  <1> DEFINE a == SubSeq(s, 1, k - 1)
             b == SubSeq(s, k + 1, Len(s))
  <1>1. a \in Seq(S) /\ Len(a) = k - 1 /\ \A i \in 1 .. k - 1 : a[i] = s[i]
    OBVIOUS
  <1>2. b \in Seq(S) /\ Len(b) = Len(s) - k /\ \A i \in 1 .. Len(s) - k : b[i] = s[k + i]
    OBVIOUS
  <1>3. RemoveAt(s, k) = a \o b
    BY DEF RemoveAt
  <1> HIDE DEF a, b
  <1>0. /\ a \o b \in Seq(S) /\ Len(a \o b) = Len(a) + Len(b)
        /\ \A i \in 1 .. Len(a) + Len(b) :
             (a \o b)[i] = IF i <= Len(a) THEN a[i] ELSE b[i - Len(a)]
    BY <1>1, <1>2, ConcatProperties
  <1>4. Len(a \o b) = Len(s) - 1
    BY <1>0, <1>1, <1>2
  <1>5. ASSUME NEW i \in 1 .. Len(s) - 1 PROVE (a \o b)[i] = IF i < k THEN s[i] ELSE s[i + 1]
    <2>1. CASE i < k
      BY <1>0, <1>1, <1>2, <2>1
    <2>2. CASE ~(i < k)
      <3>1. (a \o b)[i] = b[i - (k - 1)]
        BY <1>0, <1>1, <1>2, <2>2
      <3>2. b[i - (k - 1)] = s[k + (i - (k - 1))] /\ k + (i - (k - 1)) = i + 1
        BY <1>2, <2>2
      <3>3. QED
        BY <2>2, <3>1, <3>2
    <2>3. QED
      BY <2>1, <2>2
  <1>6. QED
    BY <1>0, <1>3, <1>4, <1>5

\* The timers start and stop.
LEMMA TrafficTimers ==
  ASSUME NEW v \in TrafficViews, NEW w,
         \/ w = startTopPolling(v)
         \/ w = startHostPolling(v) /\ v.drawerOpen
         \/ w = stopTopPolling(v)
         \/ w = stopHostPolling(v)
  PROVE  /\ w \in TrafficViews /\ w.chart = v.chart /\ w.buckets = v.buckets
         /\ w.drawerOpen = v.drawerOpen /\ w.drawerIP = v.drawerIP
         /\ DrawerShown(w) = DrawerShown(v)
         /\ TrafficTimed(v, FALSE) => TrafficTimed(w, FALSE)
         /\ DrawerWaits(v) => DrawerWaits(w)
         /\ DrawerHears(v) => DrawerHears(w)
  <1>1. PICK t \in BOOLEAN, g \in BOOLEAN :
          /\ w = [v EXCEPT !.topInterval = t] \/ w = [v EXCEPT !.hostInterval = g]
          /\ g => v.hostInterval \/ v.drawerOpen
    <2>1. CASE w = startTopPolling(v)
      BY <2>1 DEF startTopPolling
    <2>2. CASE w = startHostPolling(v) /\ v.drawerOpen
      <3>1. v.hostInterval \in BOOLEAN
        BY DEF TrafficViews
      <3>2. (v.hostInterval \/ v.drawerIP # NoHost) \in BOOLEAN
        BY <3>1
      <3>3. QED
        BY <2>2, <3>2 DEF startHostPolling
    <2>3. CASE w = stopTopPolling(v)
      BY <2>3 DEF stopTopPolling
    <2>4. CASE w = stopHostPolling(v)
      BY <2>4 DEF stopHostPolling
    <2>5. QED
      BY <2>1, <2>2, <2>3, <2>4
  <1>2. w \in TrafficViews
    BY <1>1 DEF TrafficViews
  <1>3. /\ w.chart = v.chart /\ w.buckets = v.buckets /\ w.drawerOpen = v.drawerOpen
        /\ w.drawerIP = v.drawerIP
    BY <1>1 DEF TrafficViews
  <1>4. DrawerShown(w) = DrawerShown(v)
    BY <1>1 DEF TrafficViews, DrawerShown
  <1>5. TrafficTimed(v, FALSE) => TrafficTimed(w, FALSE)
    BY <1>1 DEF TrafficViews, TrafficTimed
  <1>6. DrawerWaits(v) => DrawerWaits(w)
    BY <1>1 DEF TrafficViews, DrawerWaits
  <1>7. DrawerHears(v) => DrawerHears(w)
    BY <1>1 DEF TrafficViews, DrawerHears
  <1>8. QED
    BY <1>2, <1>3, <1>4, <1>5, <1>6, <1>7

\* A hidden page has stopped its timers.
LEMMA TrafficStops ==
  ASSUME NEW v \in TrafficViews
  PROVE  /\ TrafficHidden(v) \in TrafficViews
         /\ TrafficHidden(v).topInterval = FALSE /\ TrafficHidden(v).hostInterval = FALSE
         /\ TrafficHidden(v).loadingFirst = v.loadingFirst
         /\ TrafficHidden(v).told = v.told /\ TrafficHidden(v).topError = v.topError
  BY DEF TrafficHidden, stopHostPolling, stopTopPolling, TrafficViews

\* A page that comes into view asks for all that it shows, and polls again.
LEMMA TrafficWakes ==
  ASSUME NEW v \in TrafficViews, v.asked < MaxPending, TrafficTimed(v, FALSE),
         DrawerWaits(v), DrawerHears(v)
  PROVE  Renders(v, TrafficVisible(v), FALSE, FALSE)
  <1>1. PICK a : a = loadTop20(v)
    OBVIOUS
  <1>2. /\ a \in TrafficViews /\ a.chart = v.chart /\ a.buckets = v.buckets
        /\ a.drawerOpen = v.drawerOpen /\ a.drawerIP = v.drawerIP
        /\ TrafficTimed(a, FALSE) /\ DrawerWaits(a) /\ DrawerHears(a)
    BY <1>1, TopAsked
  <1>3. PICK b : b = startTopPolling(a)
    OBVIOUS
  <1>4. /\ b \in TrafficViews /\ b.chart = v.chart /\ b.buckets = v.buckets
        /\ b.drawerOpen = v.drawerOpen /\ b.drawerIP = v.drawerIP
        /\ TrafficTimed(b, FALSE) /\ DrawerWaits(b) /\ DrawerHears(b)
    BY <1>2, <1>3, TrafficTimers
  <1>5. CASE v.drawerOpen /\ v.drawerIP # NoHost
    <2>1. PICK c : c = loadHost(b, v.drawerIP)
      OBVIOUS
    <2>2. v.drawerIP \in Hosts /\ b.drawerUp
      BY <1>4, <1>5 DEF TrafficViews, HostOrNone, DrawerWaits
    <2>3. /\ c \in TrafficViews /\ c.chart = v.chart /\ c.buckets = v.buckets
          /\ c.drawerOpen = v.drawerOpen
          /\ TrafficTimed(c, FALSE) /\ DrawerWaits(c) /\ DrawerHears(c)
      BY <1>4, <2>1, <2>2, HostAsked
    <2>4. PICK d : d = startHostPolling(c)
      OBVIOUS
    <2>5. /\ d \in TrafficViews /\ d.chart = v.chart /\ d.buckets = v.buckets
          /\ d.drawerOpen = v.drawerOpen
          /\ TrafficTimed(d, FALSE) /\ DrawerWaits(d) /\ DrawerHears(d)
      BY <1>5, <2>3, <2>4, TrafficTimers
    <2>6. TrafficVisible(v) = d
      BY <1>1, <1>3, <1>5, <2>1, <2>4 DEF TrafficVisible
    <2>7. QED
      BY <2>5, <2>6 DEF Renders
  <1>6. CASE ~(v.drawerOpen /\ v.drawerIP # NoHost)
    <2>1. TrafficVisible(v) = b
      BY <1>1, <1>3, <1>6 DEF TrafficVisible
    <2>2. QED
      BY <1>4, <2>1 DEF Renders
  <1>7. QED
    BY <1>5, <1>6

\* An opened drawer waits for its host, and for nothing else unless it says so.
LEMMA DrawerOpens ==
  ASSUME NEW v \in TrafficViews, NEW ip \in Hosts, TrafficTimed(v, FALSE)
  PROVE  Renders(v, openDrawer(v, ip), TRUE, FALSE)
  <1>1. PICK x \in BOOLEAN : x = (\E k \in DOMAIN v.hostAsked : v.hostAsked[k] # ip)
    OBVIOUS
  <1>2. PICK a : a = DrawerFor(v, ip)
    OBVIOUS
  <1>3. a = [v EXCEPT !.drawerIP = ip, !.hostgroup = ip, !.buckets = NoHost,
                      !.drawerError = "none", !.drawerOpen = TRUE, !.drawerUp = TRUE,
                      !.crossed = x, !.byButton = FALSE]
    BY <1>1, <1>2 DEF DrawerFor
  <1>4. a \in TrafficViews
    BY <1>3, ZenonT(120) DEF TrafficViews, HostOrNone
  <1>5. /\ a.chart = v.chart /\ a.drawerOpen = TRUE /\ a.drawerUp = TRUE /\ a.drawerIP = ip
        /\ a.buckets = NoHost /\ a.hostgroup = ip /\ a.crossed = x
        /\ a.hostAsked = v.hostAsked
    BY <1>3 DEF TrafficViews
  <1>6. TrafficTimed(a, FALSE)
    BY <1>3 DEF TrafficViews, TrafficTimed
  <1>7. v.hostAsked \in Seq(Hosts)
    BY DEF TrafficViews
  <1>8. DrawerHears(a)
    BY <1>1, <1>5, <1>7 DEF DrawerHears
  <1>9. PICK b : b = loadHost(a, ip)
    OBVIOUS
  <1>10. /\ b \in TrafficViews /\ b.chart = v.chart /\ b.drawerOpen /\ b.drawerUp
         /\ b.drawerLoading /\ b.buckets = NoHost
         /\ TrafficTimed(b, FALSE) /\ DrawerWaits(b) /\ DrawerHears(b)
    BY <1>4, <1>5, <1>6, <1>8, <1>9, HostAsked
  <1>11. DrawerShown(b) = "spinner"
    BY <1>10 DEF DrawerShown
  <1>12. PICK d : d = startHostPolling(b)
    OBVIOUS
  <1>13. /\ d \in TrafficViews /\ d.chart = v.chart /\ DrawerShown(d) = "spinner"
         /\ TrafficTimed(d, FALSE) /\ DrawerWaits(d) /\ DrawerHears(d)
    BY <1>10, <1>11, <1>12, TrafficTimers
  <1>14. openDrawer(v, ip) = d
    BY <1>2, <1>9, <1>12 DEF openDrawer
  <1>15. QED
    BY <1>13, <1>14 DEF Renders

\* What a step of the traffic page does to it, whatever happens.
TrafficSteps ==
  view' \in TrafficViews /\ TrafficInv(view', hidden')

\* Once rendered, a page is as it should be.
LEMMA TrafficBecomes ==
  ASSUME view \in TrafficViews, TrafficInv(view, hidden), hidden' \in BOOLEAN,
         NEW new \in BOOLEAN, NEW w, Renders(view, w, new, hidden'),
         view' = Rendered(w, new)
  PROVE  TrafficSteps
  <1>1. DrawerDraws(view)
    BY DEF TrafficInv
  <1>2. PICK h \in BOOLEAN : h = hidden'
    OBVIOUS
  <1>3. Renders(view, w, new, h)
    BY <1>2
  <1>4. Rendered(w, new) \in TrafficViews /\ TrafficInv(Rendered(w, new), h)
    BY <1>1, <1>3, TrafficRendered
  <1>5. PICK v : v = Rendered(w, new)
    OBVIOUS
  <1>6. v \in TrafficViews /\ TrafficInv(v, h)
    BY <1>4, <1>5
  <1>7. view' = v
    BY <1>5
  <1>8. QED
    BY <1>2, <1>6, <1>7 DEF TrafficSteps

\* What an answer to the list, or its failure, sets has the types it had.
LEMMA ListTyped ==
  ASSUME NEW v \in TrafficViews, NEW rows \in SUBSET Hosts, NEW err \in BOOLEAN,
         NEW n \in 0 .. MaxPending, NEW told \in BOOLEAN, NEW first \in BOOLEAN,
         NEW woken \in BOOLEAN
  PROVE  [v EXCEPT !.rows = rows, !.topError = err, !.loadingFirst = FALSE, !.asked = n,
                   !.told = told, !.first = first, !.woken = woken] \in TrafficViews
  BY ZenonT(120) DEF TrafficViews

\* A step of the traffic page keeps what is said of it.
LEMMA TrafficKept ==
  ASSUME view \in TrafficViews, TrafficInv(view, hidden), hidden \in BOOLEAN, TrafficNext
  PROVE  TrafficSteps
  <1>0. /\ TrafficTimed(view, hidden) /\ DrawerWaits(view) /\ DrawerHears(view)
        /\ DrawerDraws(view)
    BY DEF TrafficInv
  <1>1. PICK v : v = view
    OBVIOUS
  <1>2. PICK h \in BOOLEAN : h = hidden
    OBVIOUS
  <1>3. /\ v \in TrafficViews /\ TrafficTimed(v, h) /\ DrawerWaits(v) /\ DrawerHears(v)
    BY <1>0, <1>1, <1>2
  <1>4. ASSUME NEW w, NEW new \in BOOLEAN, Renders(v, w, new, h), Becomes(Rendered(w, new))
        PROVE  TrafficSteps
    <2>1. view' = Rendered(w, new) /\ hidden' = hidden
      BY <1>4 DEF Becomes
    <2>2. Renders(view, w, new, hidden')
      BY <1>1, <1>2, <1>4, <2>1
    <2>3. QED
      BY <2>1, <2>2, TrafficBecomes
  <1>5. ASSUME NEW w, NEW new \in BOOLEAN, Renders(v, w, new, h), Click(Rendered(w, new))
        PROVE  TrafficSteps
    <2>1. view' = Rendered(w, new) /\ hidden' = hidden
      BY <1>5 DEF Click
    <2>2. Renders(view, w, new, hidden')
      BY <1>1, <1>2, <1>5, <2>1
    <2>3. QED
      BY <2>1, <2>2, TrafficBecomes
  <1>6. CASE TrafficPolls
    <2>1. v.asked < MaxPending /\ Becomes(Rendered(loadTop20(v), FALSE))
      BY <1>1, <1>6 DEF TrafficPolls, Room
    <2>2. Renders(v, loadTop20(v), FALSE, h)
      BY <1>3, <2>1, TopAsked DEF Renders
    <2>3. QED
      BY <1>4, <2>1, <2>2
  <1>7. CASE HostPolls
    <2>1. v.drawerIP # NoHost /\ Becomes(Rendered(loadHost(v, v.drawerIP), FALSE))
      BY <1>1, <1>7 DEF HostPolls
    <2>2. v.drawerIP \in Hosts /\ (~v.drawerOpen \/ v.drawerUp)
      BY <1>3, <2>1 DEF TrafficViews, HostOrNone, DrawerWaits
    <2>3. Renders(v, loadHost(v, v.drawerIP), FALSE, h)
      BY <1>3, <2>2, HostAsked DEF Renders
    <2>4. QED
      BY <1>4, <2>1, <2>3
  <1>8. ASSUME NEW mine \in BOOLEAN, TopAnswered(mine) PROVE TrafficSteps
    <2>1. PICK ok \in BOOLEAN, items \in HostLists :
            LET u == [view EXCEPT
                        !.rows = IF ok THEN items ELSE @, !.topError = ~ok, !.loadingFirst = FALSE,
                        !.asked = @ - 1, !.told = @ \/ ok,
                        !.first = @ /\ ~mine, !.woken = @ \/ (mine /\ hidden)]
            IN  Becomes(Rendered(IF mine THEN startTopPolling(u) ELSE u, FALSE))
      BY <1>8, ZenonT(120) DEF TopAnswered
    <2>2. PICK rows : rows = IF ok THEN items ELSE v.rows
      OBVIOUS
    <2>3. rows \in SUBSET Hosts /\ v.asked - 1 \in 0 .. MaxPending
      <3>1. v.asked > 0
        BY <1>1, <1>8 DEF TopAnswered
      <3>2. v.asked \in 0 .. MaxPending /\ v.rows \in SUBSET Hosts
        BY <1>3 DEF TrafficViews
      <3>3. items \in SUBSET Hosts
        BY HostsAssumption
      <3>4. QED
        BY <2>2, <3>1, <3>2, <3>3, PageAssumption
    <2>4. PICK n \in 0 .. MaxPending, err \in BOOLEAN : n = v.asked - 1 /\ err = ~ok
      BY <2>3
    <2>5. PICK told \in BOOLEAN, first \in BOOLEAN, woken \in BOOLEAN :
            told = (v.told \/ ok) /\ first = (v.first /\ ~mine) /\ woken = (v.woken \/ (mine /\ h))
      OBVIOUS
    <2>6. PICK u : u = [v EXCEPT !.rows = rows, !.topError = err, !.loadingFirst = FALSE,
                                 !.asked = n, !.told = told, !.first = first,
                                 !.woken = woken]
      OBVIOUS
    <2>7. Becomes(Rendered(IF mine THEN startTopPolling(u) ELSE u, FALSE))
      BY <1>1, <1>2, <2>1, <2>2, <2>4, <2>5, <2>6
    <2>8. u \in TrafficViews
      <3>1. /\ v \in TrafficViews /\ rows \in SUBSET Hosts /\ n \in 0 .. MaxPending
            /\ err \in BOOLEAN /\ told \in BOOLEAN /\ first \in BOOLEAN /\ woken \in BOOLEAN
        BY <1>3, <2>3, <2>4, <2>5
      <3>2. QED
        BY <3>1, <2>6, ListTyped, ZenonT(120)
    <2>9. u.chart = v.chart /\ u.buckets = v.buckets /\ u.drawerOpen = v.drawerOpen
          /\ u.woken = woken /\ u.topInterval = v.topInterval
          /\ u.hostInterval = v.hostInterval
      BY <1>3, <2>6 DEF TrafficViews
    <2>10. TrafficTimed(u, h)
      BY <1>3, <2>4, <2>5, <2>6 DEF TrafficViews, TrafficTimed
    <2>11. DrawerWaits(u)
      BY <1>3, <2>6 DEF TrafficViews, DrawerWaits
    <2>12. DrawerHears(u)
      BY <1>3, <2>6 DEF TrafficViews, DrawerHears
    <2>13. CASE ~mine
      <3>1. Renders(v, u, FALSE, h)
        BY <2>8, <2>9, <2>10, <2>11, <2>12 DEF Renders
      <3>2. QED
        BY <1>4, <2>7, <2>13, <3>1
    <2>14. CASE mine
      <3>1. PICK w : w = startTopPolling(u)
        OBVIOUS
      <3>2. /\ w \in TrafficViews /\ w.chart = v.chart /\ w.buckets = v.buckets
            /\ w.drawerOpen = v.drawerOpen /\ DrawerWaits(w) /\ DrawerHears(w)
        BY <2>8, <2>9, <2>11, <2>12, <3>1, TrafficTimers
      <3>3. h => woken
        BY <2>5, <2>14
      <3>4. TrafficTimed(w, h)
        BY <2>8, <2>9, <2>10, <3>1, <3>3 DEF TrafficViews, TrafficTimed, startTopPolling
      <3>5. Renders(v, w, FALSE, h)
        BY <3>2, <3>4 DEF Renders
      <3>6. QED
        BY <1>4, <2>7, <2>14, <3>1, <3>5
    <2>15. QED
      BY <2>13, <2>14
  <1>9. ASSUME NEW k, HostAnswered(k) PROVE TrafficSteps
    <2>1. PICK ok \in BOOLEAN :
            LET ip == view.hostAsked[k]
                u == [view EXCEPT !.hostAsked = RemoveAt(@, k), !.drawerLoading = FALSE]
            IN  Becomes(Rendered(
                  CASE ~ok                     -> HostRefused(u, "fetch")
                    [] ok /\ ip \in view.gone  -> HostRefused(u, "not_found")
                    [] OTHER                   -> HostArrives(u, ip), TRUE))
      BY <1>9 DEF HostAnswered
    <2>2. v.hostAsked \in Seq(Hosts) /\ k \in 1 .. Len(v.hostAsked)
      <3>1. v.hostAsked \in Seq(Hosts)
        BY <1>3 DEF TrafficViews
      <3>2. QED
        BY <1>1, <1>9, <3>1 DEF HostAnswered
    <2>3. PICK ip \in Hosts : ip = v.hostAsked[k]
      BY <2>2
    <2>4. PICK rest \in Seq(Hosts) : rest = RemoveAt(v.hostAsked, k)
      BY <2>2, RemovedAt
    <2>5. \A i \in 1 .. Len(rest) : \E j \in 1 .. Len(v.hostAsked) : rest[i] = v.hostAsked[j]
      <3>1. Len(rest) = Len(v.hostAsked) - 1
        BY <2>2, <2>4, RemovedAt
      <3>2. ASSUME NEW i \in 1 .. Len(rest)
            PROVE  \E j \in 1 .. Len(v.hostAsked) : rest[i] = v.hostAsked[j]
        <4>1. rest[i] = IF i < k THEN v.hostAsked[i] ELSE v.hostAsked[i + 1]
          BY <2>2, <2>4, <3>1, <3>2, RemovedAt
        <4>2. i \in 1 .. Len(v.hostAsked) /\ i + 1 \in 1 .. Len(v.hostAsked)
          BY <2>2, <3>1
        <4>3. QED
          BY <4>1, <4>2
      <3>3. QED
        BY <3>2
    <2>6. PICK u : u = [v EXCEPT !.hostAsked = rest, !.drawerLoading = FALSE]
      OBVIOUS
    <2>7. u \in TrafficViews
      BY <1>3, <2>6 DEF TrafficViews
    <2>8. /\ u.chart = v.chart /\ u.drawerOpen = v.drawerOpen /\ u.crossed = v.crossed
          /\ u.drawerIP = v.drawerIP /\ u.hostgroup = v.hostgroup
          /\ u.hostAsked = rest /\ u.drawerUp = v.drawerUp
      BY <1>3, <2>6 DEF TrafficViews
    <2>9. TrafficTimed(u, h)
      BY <1>3, <2>6 DEF TrafficViews, TrafficTimed
    <2>20. PICK e \in {"none", "not_found", "fetch"} :
             e = CASE ~ok                  -> "fetch"
                   [] ok /\ ip \in v.gone  -> "not_found"
                   [] OTHER                -> "none"
      OBVIOUS
    <2>10. PICK w : w = IF e = "none" THEN [u EXCEPT !.buckets = ip, !.hostgroup = ip]
                        ELSE [u EXCEPT !.buckets = NoHost, !.drawerError = e]
      OBVIOUS
    <2>11. Becomes(Rendered(w, TRUE))
      <3>1. w = CASE ~ok                  -> HostRefused(u, "fetch")
                  [] ok /\ ip \in v.gone  -> HostRefused(u, "not_found")
                  [] OTHER                -> HostArrives(u, ip)
        BY <2>10, <2>20 DEF HostRefused, HostArrives
      <3>2. QED
        BY <1>1, <2>1, <2>3, <2>4, <2>6, <3>1
    <2>12. w \in TrafficViews
      BY <2>7, <2>10, ZenonT(120) DEF TrafficViews, HostOrNone
    <2>13. /\ w.chart = v.chart /\ w.drawerOpen = v.drawerOpen /\ w.crossed = v.crossed
           /\ w.drawerIP = v.drawerIP /\ w.hostAsked = rest /\ w.drawerUp = v.drawerUp
      BY <2>7, <2>8, <2>10 DEF TrafficViews
    <2>14. \/ w.buckets = ip /\ w.hostgroup = ip
           \/ w.buckets = NoHost /\ w.hostgroup = v.hostgroup /\ w.drawerError # "none"
      BY <2>7, <2>8, <2>10 DEF TrafficViews
    <2>15. TrafficTimed(w, h)
      BY <2>7, <2>9, <2>10 DEF TrafficViews, TrafficTimed
    <2>16. DrawerWaits(w)
      BY <1>3, <2>13, <2>14, HostsAssumption DEF DrawerWaits
    <2>17. DrawerHears(w)
      BY <1>3, <2>2, <2>3, <2>5, <2>13, <2>14 DEF DrawerHears
    <2>18. Renders(v, w, TRUE, h)
      BY <2>12, <2>13, <2>15, <2>16, <2>17 DEF Renders
    <2>19. QED
      BY <1>4, <2>11, <2>18
  <1>10. CASE TrafficVisibility
    <2>1. CASE Visibility(TRUE, Rendered(TrafficHidden(view), FALSE))
      <3>1. PICK w : w = TrafficHidden(v)
        OBVIOUS
      <3>2. view' = Rendered(w, FALSE) /\ hidden' = TRUE
        BY <1>1, <2>1, <3>1 DEF Visibility
      <3>3. PICK t : t = stopTopPolling(v)
        OBVIOUS
      <3>4. /\ t \in TrafficViews /\ t.chart = v.chart /\ t.buckets = v.buckets
            /\ t.drawerOpen = v.drawerOpen /\ DrawerWaits(t) /\ DrawerHears(t)
        BY <1>3, <3>3, TrafficTimers
      <3>5. w = stopHostPolling(t)
        BY <3>1, <3>3 DEF TrafficHidden
      <3>6. /\ w \in TrafficViews /\ w.chart = v.chart /\ w.buckets = v.buckets
            /\ w.drawerOpen = v.drawerOpen /\ DrawerWaits(w) /\ DrawerHears(w)
        BY <3>4, <3>5, TrafficTimers
      <3>7. TrafficTimed(w, TRUE)
        BY <1>3, <3>1, TrafficStops DEF TrafficTimed
      <3>8. Renders(view, w, FALSE, TRUE)
        BY <1>1, <3>6, <3>7 DEF Renders
      <3>9. QED
        BY <3>2, <3>8, TrafficBecomes
    <2>2. CASE Room(view) /\ Visibility(FALSE, Rendered(TrafficVisible(view), FALSE))
      <3>1. view' = Rendered(TrafficVisible(view), FALSE) /\ hidden' = FALSE /\ h = TRUE
            /\ v.asked < MaxPending
        BY <1>1, <1>2, <2>2 DEF Visibility, Room
      <3>2. TrafficTimed(v, FALSE)
        BY <1>3, <3>1 DEF TrafficTimed
      <3>3. Renders(view, TrafficVisible(view), FALSE, FALSE)
        BY <1>1, <1>3, <3>1, <3>2, TrafficWakes
      <3>4. QED
        BY <3>1, <3>3, TrafficBecomes
    <2>3. QED
      BY <1>10, <2>1, <2>2 DEF TrafficVisibility
  <1>11. CASE OpenDrawer
    <2>1. PICK ip \in v.rows : Click(Rendered(openDrawer(v, ip), TRUE)) /\ h = FALSE
      BY <1>1, <1>2, <1>11 DEF OpenDrawer
    <2>2. ip \in Hosts
      BY <1>3, <2>1 DEF TrafficViews
    <2>3. Renders(v, openDrawer(v, ip), TRUE, h)
      BY <1>3, <2>1, <2>2, DrawerOpens
    <2>4. QED
      BY <1>5, <2>1, <2>3
  <1>12. CASE CloseDrawer
    <2>1. h = FALSE
      BY <1>2, <1>12 DEF CloseDrawer
    <2>2. CASE Click(Rendered(closeDrawer(view), TRUE))
      <3>1. PICK u : u = [v EXCEPT !.drawerOpen = FALSE, !.drawerIP = NoHost,
                                   !.buckets = NoHost]
        OBVIOUS
      <3>2. u \in TrafficViews
        BY <1>3, <3>1, ZenonT(120) DEF TrafficViews, HostOrNone
      <3>3. PICK w : w = [u EXCEPT !.hostInterval = FALSE]
        OBVIOUS
      <3>4. w \in TrafficViews /\ w.drawerOpen = FALSE /\ w.hostInterval = FALSE
        <4>1. w \in TrafficViews
          BY <3>2, <3>3, ZenonT(120) DEF TrafficViews
        <4>2. u.drawerOpen = FALSE
          BY <1>3, <3>1 DEF TrafficViews
        <4>3. w.drawerOpen = u.drawerOpen /\ w.hostInterval = FALSE
          BY <3>2, <3>3 DEF TrafficViews
        <4>4. QED
          BY <4>1, <4>2, <4>3
      <3>5. w.chart = v.chart /\ w.loadingFirst = v.loadingFirst /\ w.told = v.told
            /\ w.topError = v.topError
        BY <1>3, <3>1, <3>2, <3>3 DEF TrafficViews
      <3>6. Renders(v, w, TRUE, h)
        BY <1>3, <2>1, <3>4, <3>5 DEF Renders, TrafficTimed, DrawerWaits, DrawerHears
      <3>7. w = closeDrawer(v)
        BY <3>1, <3>3 DEF closeDrawer, stopHostPolling
      <3>8. QED
        BY <1>1, <1>5, <2>2, <3>6, <3>7
    <2>3. CASE Click(Rendered([view EXCEPT !.drawerOpen = FALSE, !.byButton = TRUE], FALSE))
      <3>1. PICK w : w = [v EXCEPT !.drawerOpen = FALSE, !.byButton = TRUE]
        OBVIOUS
      <3>2. w \in TrafficViews /\ w.drawerOpen = FALSE /\ w.byButton = TRUE
        BY <1>3, <3>1 DEF TrafficViews
      <3>3. w.chart = v.chart /\ w.buckets = v.buckets /\ w.loadingFirst = v.loadingFirst
            /\ w.told = v.told /\ w.topError = v.topError
        BY <1>3, <3>1 DEF TrafficViews
      <3>4. Renders(v, w, FALSE, h)
        BY <1>3, <2>1, <3>2, <3>3 DEF Renders, TrafficTimed, DrawerWaits, DrawerHears
      <3>5. QED
        BY <1>1, <1>5, <2>3, <3>1, <3>4
    <2>4. QED
      BY <1>12, <2>2, <2>3 DEF CloseDrawer
  <1>13. CASE DrawerGone
    <2>1. PICK w : w = [v EXCEPT !.drawerUp = FALSE]
      OBVIOUS
    <2>2. Becomes(Rendered(w, FALSE)) /\ ~v.drawerOpen
      BY <1>1, <1>13, <2>1 DEF DrawerGone
    <2>3. w \in TrafficViews /\ w.drawerOpen = v.drawerOpen /\ w.chart = v.chart
          /\ w.buckets = v.buckets
      BY <1>3, <2>1 DEF TrafficViews
    <2>4. TrafficTimed(w, h)
      BY <1>3, <2>1 DEF TrafficViews, TrafficTimed
    <2>5. Renders(v, w, FALSE, h)
      BY <2>2, <2>3, <2>4 DEF Renders, DrawerWaits, DrawerHears
    <2>6. QED
      BY <1>4, <2>2, <2>5
  <1>14. CASE RetryTop
    <2>1. PICK u : u = [v EXCEPT !.topError = FALSE, !.loadingFirst = TRUE]
      OBVIOUS
    <2>2. Click(Rendered(loadTop20(u), FALSE)) /\ v.asked < MaxPending
      BY <1>1, <1>14, <2>1 DEF RetryTop, retryTop, Room
    <2>3. u \in TrafficViews /\ u.asked = v.asked /\ u.chart = v.chart
          /\ u.buckets = v.buckets /\ u.drawerOpen = v.drawerOpen
      BY <1>3, <2>1 DEF TrafficViews
    <2>4. TrafficTimed(u, h)
      BY <1>3, <2>1 DEF TrafficViews, TrafficTimed
    <2>5. DrawerWaits(u)
      BY <1>3, <2>1 DEF TrafficViews, DrawerWaits
    <2>6. DrawerHears(u)
      BY <1>3, <2>1 DEF TrafficViews, DrawerHears
    <2>7. Renders(v, loadTop20(u), FALSE, h)
      BY <2>2, <2>3, <2>4, <2>5, <2>6, TopAsked DEF Renders
    <2>8. QED
      BY <1>5, <2>2, <2>7
  <1>15. CASE RetryHost
    <2>1. v.drawerIP # NoHost /\ Click(Rendered(loadHost(v, v.drawerIP), FALSE))
      BY <1>1, <1>15 DEF RetryHost
    <2>2. v.drawerIP \in Hosts /\ (~v.drawerOpen \/ v.drawerUp)
      BY <1>3, <2>1 DEF TrafficViews, HostOrNone, DrawerWaits
    <2>3. Renders(v, loadHost(v, v.drawerIP), FALSE, h)
      BY <1>3, <2>2, HostAsked DEF Renders
    <2>4. QED
      BY <1>5, <2>1, <2>3
  <1>16. CASE TrafficMode
    <2>1. PICK m \in Units : m = OtherMode(v.mode)
      BY DEF OtherMode, Units
    <2>2. PICK w : w = [v EXCEPT !.mode = m]
      OBVIOUS
    <2>3. Click(Rendered(w, FALSE))
      BY <1>1, <1>16, <2>1, <2>2 DEF TrafficMode
    <2>4. w \in TrafficViews /\ w.drawerOpen = v.drawerOpen /\ w.chart = v.chart
          /\ w.buckets = v.buckets
      BY <1>3, <2>2 DEF TrafficViews
    <2>5. TrafficTimed(w, h)
      BY <1>3, <2>2 DEF TrafficViews, TrafficTimed
    <2>6. DrawerWaits(w)
      BY <1>3, <2>2 DEF TrafficViews, DrawerWaits
    <2>7. DrawerHears(w)
      BY <1>3, <2>2 DEF TrafficViews, DrawerHears
    <2>8. Renders(v, w, FALSE, h)
      BY <2>4, <2>5, <2>6, <2>7 DEF Renders
    <2>9. QED
      BY <1>5, <2>3, <2>8
  <1>18. ASSUME NEW g \in SUBSET Hosts, NEW w, w = [v EXCEPT !.gone = g]
         PROVE  Renders(v, w, FALSE, h)
    <2>1. w \in TrafficViews /\ w.drawerOpen = v.drawerOpen /\ w.chart = v.chart
          /\ w.buckets = v.buckets
      BY <1>3, <1>18 DEF TrafficViews
    <2>2. TrafficTimed(w, h)
      BY <1>3, <1>18 DEF TrafficViews, TrafficTimed
    <2>3. DrawerWaits(w)
      BY <1>3, <1>18 DEF TrafficViews, DrawerWaits
    <2>4. DrawerHears(w)
      BY <1>3, <1>18 DEF TrafficViews, DrawerHears
    <2>5. QED
      BY <2>1, <2>2, <2>3, <2>4 DEF Renders
  <1>19. CASE HostEvicted
    <2>1. PICK a \in Quiet : Click(Rendered([view EXCEPT !.gone = @ \cup {a}], FALSE))
      BY <1>19 DEF HostEvicted
    <2>2. PICK g \in SUBSET Hosts : g = v.gone \cup {a}
      <3>1. a \in Hosts /\ v.gone \in SUBSET Hosts
        BY <1>3, <2>1, HostsAssumption DEF TrafficViews
      <3>2. QED
        BY <3>1
    <2>3. PICK w : w = [v EXCEPT !.gone = g]
      OBVIOUS
    <2>4. Click(Rendered(w, FALSE))
      BY <1>1, <2>1, <2>2, <2>3
    <2>5. QED
      BY <1>5, <1>18, <2>3, <2>4
  <1>20. CASE HostReturns
    <2>1. PICK a \in view.gone : Becomes(Rendered([view EXCEPT !.gone = @ \ {a}], FALSE))
      BY <1>20 DEF HostReturns
    <2>2. PICK g \in SUBSET Hosts : g = v.gone \ {a}
      <3>1. v.gone \in SUBSET Hosts
        BY <1>3 DEF TrafficViews
      <3>2. QED
        BY <3>1
    <2>3. PICK w : w = [v EXCEPT !.gone = g]
      OBVIOUS
    <2>4. Becomes(Rendered(w, FALSE))
      BY <1>1, <2>1, <2>2, <2>3
    <2>5. QED
      BY <1>4, <1>18, <2>3, <2>4
  <1>17. QED
    BY <1>6, <1>7, <1>8, <1>9, <1>10, <1>11, <1>12, <1>13, <1>14, <1>15, <1>16, <1>19, <1>20
       DEF TrafficNext, TrafficAnswers

-----------------------------------------------------------------------------
(* The flows page.                                                         *)

\* What a step of the page leads to.
FlowsSteps == view' \in FlowsViews /\ FlowsInv(view', hidden')

\* What is said of the page but for its chart.
FlowsTold(v, h) ==
  /\ h /\ v.polling => v.unseen
  /\ ~v.loadingFirst => v.overview # NoOverview \/ v.overviewError
  /\ v.recent = "none" => v.rcAsked > 0 \/ v.recentError

\* An overview has buckets, the absence of one has not.
LEMMA OverviewBuckets ==
  ASSUME NEW v \in FlowsViews
  PROVE  globalBuckets(v) \in WindowOrNone
  <1>1. v.overview \in Overviews \cup {NoOverview}
    BY DEF FlowsViews
  <1>2. CASE v.overview \in Overviews
    BY <1>2 DEF Overviews, globalBuckets, WindowOrNone
  <1>3. CASE v.overview = NoOverview
    BY <1>3 DEF NoOverview, globalBuckets, WindowOrNone
  <1>4. QED
    BY <1>1, <1>2, <1>3

\* Rendering keeps everything but the chart, which it keeps in step.
LEMMA FlowsBecomes ==
  ASSUME view \in FlowsViews, FlowsInv(view, hidden), NEW new \in BOOLEAN,
         NEW w \in FlowsViews, w.chart = view.chart,
         new \/ w.overview = view.overview, FlowsTold(w, hidden'),
         view' = FlowsRendered(w, new)
  PROVE  FlowsSteps
  <1>1. PICK v : v = view
    OBVIOUS
  <1>2. PICK shown \in BOOLEAN : shown = (ChartShown(w) = "chart")
    OBVIOUS
  <1>3. PICK b : b = globalBuckets(w)
    OBVIOUS
  <1>4. PICK d : d = ChartFlush(v.chart, shown, b, w.mode, v.mode, new)
    OBVIOUS
  <1>5. PICK z : z = [w EXCEPT !.chart = d]
    OBVIOUS
  <1>6. view' = z
    BY <1>1, <1>2, <1>3, <1>4, <1>5 DEF FlowsRendered
  <1>7. /\ v.chart \in Charts(WindowOrNone) /\ v.mode \in Units
        /\ w.mode \in Units
    BY <1>1 DEF FlowsViews
  <1>8. b \in WindowOrNone
    BY <1>3, OverviewBuckets
  <1>9. d \in Charts(WindowOrNone) /\ d.up = shown
    <2>1. NoBuckets \in WindowOrNone
      BY DEF WindowOrNone
    <2>2. QED
      BY <1>4, <1>7, <1>8, <2>1, FlushTyped
  <1>10. z \in FlowsViews
    BY <1>5, <1>9 DEF FlowsViews
  <1>11. /\ z.chart = d /\ z.overview = w.overview /\ z.mode = w.mode
         /\ z.loadingFirst = w.loadingFirst
    BY <1>5 DEF FlowsViews
  <1>12. globalBuckets(z) = b /\ (ChartShown(z) = "chart" <=> shown)
    BY <1>2, <1>3, <1>11 DEF globalBuckets, ChartShown
  <1>13. FlowsTold(z, hidden')
    BY <1>5 DEF FlowsViews, FlowsTold
  <1>14. ASSUME shown PROVE Drawn(d, b, w.mode)
    <2>1. b # NoBuckets
      BY <1>2, <1>3, <1>14 DEF ChartShown
    <2>2. v.chart.up => Drawn(v.chart, globalBuckets(v), v.mode)
      BY <1>1 DEF FlowsInv
    <2>3. new \/ b = globalBuckets(v)
      BY <1>1, <1>3 DEF globalBuckets
    <2>4. d.up => Drawn(d, b, w.mode)
      BY <1>1, <1>4, <1>7, <1>8, <2>1, <2>2, <2>3, FlushDraws
    <2>5. QED
      BY <1>9, <1>14, <2>4
  <1>15. FlowsInv(z, hidden')
    BY <1>9, <1>11, <1>12, <1>13, <1>14 DEF FlowsInv, FlowsTold
  <1>16. QED
    BY <1>6, <1>10, <1>15 DEF FlowsSteps

\* A change of what is not drawn keeps the chart in step.
LEMMA FlowsUndrawn ==
  ASSUME view \in FlowsViews, FlowsInv(view, hidden), NEW w \in FlowsViews,
         w.chart = view.chart, w.overview = view.overview, w.mode = view.mode,
         w.loadingFirst = view.loadingFirst, FlowsTold(w, hidden'), view' = w
  PROVE  FlowsSteps
  <1>1. PICK v : v = view
    OBVIOUS
  <1>2. /\ v.chart.up <=> ChartShown(v) = "chart"
        /\ v.chart.up => Drawn(v.chart, globalBuckets(v), v.mode)
    BY <1>1 DEF FlowsInv
  <1>3. globalBuckets(w) = globalBuckets(v) /\ ChartShown(w) = ChartShown(v)
    BY <1>1 DEF globalBuckets, ChartShown
  <1>4. FlowsInv(w, hidden')
    BY <1>1, <1>2, <1>3 DEF FlowsInv, FlowsTold
  <1>5. QED
    BY <1>4 DEF FlowsSteps

\* A step of the flows page keeps what is said of it.
LEMMA FlowsKept ==
  ASSUME view \in FlowsViews, FlowsInv(view, hidden), hidden \in BOOLEAN, FlowsNext
  PROVE  FlowsSteps
  <1>1. PICK v : v = view
    OBVIOUS
  <1>2. PICK h \in BOOLEAN : h = hidden
    OBVIOUS
  <1>3. v \in FlowsViews /\ FlowsTold(v, h)
    BY <1>1, <1>2 DEF FlowsInv, FlowsTold
  <1>4. /\ v.ovAsked \in 0 .. MaxPending /\ v.rcAsked \in 0 .. MaxPending
        /\ v.overview \in Overviews \cup {NoOverview} /\ MaxPending \in Nat
    BY <1>3, PageAssumption DEF FlowsViews
  <1>5. CASE OverviewPolls
    <2>1. PICK n \in 0 .. MaxPending : n = v.ovAsked + 1
      BY <1>1, <1>4, <1>5 DEF OverviewPolls
    <2>2. PICK w : w = [v EXCEPT !.ovAsked = n]
      OBVIOUS
    <2>3. view' = w /\ hidden' = hidden
      BY <1>1, <1>5, <2>1, <2>2 DEF OverviewPolls, Becomes, askOverview
    <2>4. w \in FlowsViews
      BY <1>3, <2>1, <2>2 DEF FlowsViews
    <2>5. /\ w.chart = v.chart /\ w.overview = v.overview /\ w.mode = v.mode
          /\ w.loadingFirst = v.loadingFirst
      BY <1>3, <2>2 DEF FlowsViews
    <2>6. FlowsTold(w, h)
      BY <1>3, <2>2 DEF FlowsViews, FlowsTold
    <2>7. QED
      BY <1>1, <1>2, <2>3, <2>4, <2>5, <2>6, FlowsUndrawn
  <1>6. CASE RecentPolls
    <2>1. PICK n \in 0 .. MaxPending : n = v.rcAsked + 1
      BY <1>1, <1>4, <1>6 DEF RecentPolls
    <2>2. PICK w : w = [v EXCEPT !.rcAsked = n]
      OBVIOUS
    <2>3. view' = w /\ hidden' = hidden
      BY <1>1, <1>6, <2>1, <2>2 DEF RecentPolls, Becomes, askRecent
    <2>4. w \in FlowsViews
      BY <1>3, <2>1, <2>2 DEF FlowsViews
    <2>5. /\ w.chart = v.chart /\ w.overview = v.overview /\ w.mode = v.mode
          /\ w.loadingFirst = v.loadingFirst
      BY <1>3, <2>2 DEF FlowsViews
    <2>6. n > 0
      BY <1>4, <2>1
    <2>7. FlowsTold(w, h)
      BY <1>3, <2>2, <2>6 DEF FlowsViews, FlowsTold
    <2>8. QED
      BY <1>1, <1>2, <2>3, <2>4, <2>5, <2>7, FlowsUndrawn
  <1>7. CASE loadOverview
    <2>1. PICK ok \in BOOLEAN, ov \in Overviews :
            LET u == [view EXCEPT !.ovAsked = @ - 1, !.loadingFirst = FALSE,
                                  !.overviewError = ~ok,
                                  !.overview = IF ok THEN ov ELSE @]
            IN  Becomes(FlowsRendered(u, ok))
      BY <1>7 DEF loadOverview
    <2>2. PICK o : o = IF ok THEN ov ELSE v.overview
      OBVIOUS
    <2>3. PICK n \in 0 .. MaxPending, err \in BOOLEAN : n = v.ovAsked - 1 /\ err = ~ok
      <3>1. v.ovAsked > 0
        BY <1>1, <1>7 DEF loadOverview
      <3>2. v.ovAsked - 1 \in 0 .. MaxPending
        BY <1>4, <3>1
      <3>3. QED
        BY <3>2
    <2>4. PICK w : w = [v EXCEPT !.ovAsked = n, !.loadingFirst = FALSE,
                                 !.overviewError = err, !.overview = o]
      OBVIOUS
    <2>5. view' = FlowsRendered(w, ok) /\ hidden' = hidden
      BY <1>1, <2>1, <2>2, <2>3, <2>4 DEF Becomes
    <2>6. o \in Overviews \cup {NoOverview}
      BY <1>4, <2>2
    <2>7. w \in FlowsViews
      BY <1>3, <2>3, <2>4, <2>6, ZenonT(120) DEF FlowsViews
    <2>8. /\ w.chart = v.chart /\ w.overview = o /\ w.overviewError = err
          /\ w.polling = v.polling /\ w.unseen = v.unseen /\ w.recent = v.recent
          /\ w.rcAsked = v.rcAsked /\ w.recentError = v.recentError
      BY <1>3, <2>4 DEF FlowsViews
    <2>9. ok => o # NoOverview
      BY <2>2, OverviewAssumption DEF Overviews, NoOverview
    <2>10. FlowsTold(w, h)
      BY <1>3, <2>3, <2>8, <2>9 DEF FlowsTold
    <2>11. ok \/ w.overview = v.overview
      BY <2>2, <2>8
    <2>12. QED
      BY <1>1, <1>2, <2>5, <2>7, <2>8, <2>10, <2>11, FlowsBecomes
  <1>8. CASE loadRecent
    <2>1. PICK ok \in BOOLEAN, r \in RecentAnswers :
            Becomes([view EXCEPT !.rcAsked = @ - 1, !.recentError = ~ok,
                                 !.recent = IF ok THEN r ELSE @])
      BY <1>8 DEF loadRecent
    <2>2. PICK o : o = IF ok THEN r ELSE v.recent
      OBVIOUS
    <2>3. PICK n \in 0 .. MaxPending, err \in BOOLEAN : n = v.rcAsked - 1 /\ err = ~ok
      <3>1. v.rcAsked > 0
        BY <1>1, <1>8 DEF loadRecent
      <3>2. v.rcAsked - 1 \in 0 .. MaxPending
        BY <1>4, <3>1
      <3>3. QED
        BY <3>2
    <2>4. PICK w : w = [v EXCEPT !.rcAsked = n, !.recentError = err, !.recent = o]
      OBVIOUS
    <2>5. view' = w /\ hidden' = hidden
      BY <1>1, <2>1, <2>2, <2>3, <2>4 DEF Becomes
    <2>6. o \in RecentAnswers \cup {"none"} /\ (ok => o # "none")
      BY <1>3, <2>2 DEF FlowsViews, RecentAnswers
    <2>7. w \in FlowsViews
      BY <1>3, <2>3, <2>4, <2>6, ZenonT(120) DEF FlowsViews
    <2>8. /\ w.chart = v.chart /\ w.overview = v.overview /\ w.mode = v.mode
          /\ w.loadingFirst = v.loadingFirst /\ w.overviewError = v.overviewError
          /\ w.polling = v.polling /\ w.unseen = v.unseen /\ w.recent = o
          /\ w.recentError = err
      BY <1>3, <2>4 DEF FlowsViews
    <2>9. FlowsTold(w, h)
      BY <1>3, <2>3, <2>6, <2>8 DEF FlowsTold
    <2>10. QED
      BY <1>1, <1>2, <2>5, <2>7, <2>8, <2>9, FlowsUndrawn
  <1>9. CASE FlowsVisibility
    <2>1. CASE Visibility(TRUE, FlowsHidden(view))
      <3>1. PICK w : w = [v EXCEPT !.polling = FALSE]
        OBVIOUS
      <3>2. view' = w
        BY <1>1, <2>1, <3>1 DEF Visibility, FlowsHidden
      <3>3. w \in FlowsViews
        BY <1>3, <3>1 DEF FlowsViews
      <3>4. /\ w.chart = v.chart /\ w.overview = v.overview /\ w.mode = v.mode
            /\ w.loadingFirst = v.loadingFirst /\ w.polling = FALSE
        BY <1>3, <3>1 DEF FlowsViews
      <3>5. FlowsTold(w, hidden')
        BY <1>3, <3>1 DEF FlowsViews, FlowsTold
      <3>6. QED
        BY <1>1, <3>2, <3>3, <3>4, <3>5, FlowsUndrawn
    <2>2. CASE FlowsRoom(view) /\ Visibility(FALSE, FlowsVisible(view))
      <3>1. PICK n \in 0 .. MaxPending, m \in 0 .. MaxPending :
              n = v.rcAsked + 1 /\ m = v.ovAsked + 1
        BY <1>1, <1>4, <2>2 DEF FlowsRoom
      <3>2. PICK u : u = [v EXCEPT !.ovAsked = m]
        OBVIOUS
      <3>3. u \in FlowsViews /\ u.rcAsked = v.rcAsked
        BY <1>3, <3>1, <3>2 DEF FlowsViews
      <3>4. PICK x : x = [u EXCEPT !.rcAsked = n]
        OBVIOUS
      <3>5. x \in FlowsViews
        BY <3>1, <3>3, <3>4 DEF FlowsViews
      <3>6. PICK w : w = [x EXCEPT !.polling = TRUE, !.unseen = FALSE]
        OBVIOUS
      <3>7. view' = w /\ hidden' = FALSE
        BY <1>1, <2>2, <3>1, <3>2, <3>3, <3>4, <3>6
           DEF Visibility, FlowsVisible, askRecent, askOverview
      <3>8. w \in FlowsViews
        BY <3>5, <3>6 DEF FlowsViews
      <3>9. /\ u.chart = v.chart /\ u.overview = v.overview /\ u.mode = v.mode
            /\ u.loadingFirst = v.loadingFirst /\ u.overviewError = v.overviewError
        BY <1>3, <3>2 DEF FlowsViews
      <3>10. /\ x.chart = u.chart /\ x.overview = u.overview /\ x.mode = u.mode
             /\ x.loadingFirst = u.loadingFirst /\ x.overviewError = u.overviewError
             /\ x.rcAsked = n
        BY <3>3, <3>4 DEF FlowsViews
      <3>11. /\ w.chart = x.chart /\ w.overview = x.overview /\ w.mode = x.mode
             /\ w.loadingFirst = x.loadingFirst /\ w.overviewError = x.overviewError
             /\ w.rcAsked = n
        BY <3>5, <3>6, <3>10 DEF FlowsViews
      <3>12. n > 0
        BY <1>4, <3>1
      <3>13. FlowsTold(w, FALSE)
        BY <1>3, <3>9, <3>10, <3>11, <3>12 DEF FlowsTold
      <3>14. QED
        BY <1>1, <3>7, <3>8, <3>9, <3>10, <3>11, <3>13, FlowsUndrawn
    <2>3. QED
      BY <1>9, <2>1, <2>2 DEF FlowsVisibility
  <1>10. CASE FlowsMode
    <2>1. PICK m \in Units : m = OtherMode(v.mode)
      BY DEF OtherMode, Units
    <2>2. PICK w : w = [v EXCEPT !.mode = m]
      OBVIOUS
    <2>3. view' = FlowsRendered(w, FALSE) /\ hidden' = hidden
      BY <1>1, <1>10, <2>1, <2>2 DEF FlowsMode, Click
    <2>4. w \in FlowsViews /\ w.chart = v.chart /\ w.overview = v.overview
      BY <1>3, <2>2 DEF FlowsViews
    <2>5. FlowsTold(w, h)
      BY <1>3, <2>2 DEF FlowsViews, FlowsTold
    <2>6. QED
      BY <1>1, <1>2, <2>3, <2>4, <2>5, FlowsBecomes
  <1>11. QED
    BY <1>5, <1>6, <1>7, <1>8, <1>9, <1>10 DEF FlowsNext

-----------------------------------------------------------------------------
(* The pages of the analytics and of the exporters.                        *)

\* What a step of the page leads to.
AnalyticsSteps == view' \in AnalyticsViews /\ AnalyticsInv(view', hidden')

\* A step of the analytics page keeps what is said of it.
LEMMA AnalyticsKept ==
  ASSUME view \in AnalyticsViews, AnalyticsInv(view, hidden), hidden \in BOOLEAN,
         AnalyticsNext
  PROVE  AnalyticsSteps
  <1>1. PICK v : v = view
    OBVIOUS
  <1>2. PICK h \in BOOLEAN : h = hidden
    OBVIOUS
  <1>3. v \in AnalyticsViews /\ AnalyticsInv(v, h)
    BY <1>1, <1>2
  <1>4. v.asked \in 0 .. MaxPending /\ MaxPending \in Nat
    BY <1>3, PageAssumption DEF AnalyticsViews
  <1>5. CASE AnalyticsPolls
    <2>1. PICK n \in 0 .. MaxPending : n = v.asked + 1
      BY <1>1, <1>4, <1>5 DEF AnalyticsPolls
    <2>2. PICK w : w = [v EXCEPT !.asked = n]
      OBVIOUS
    <2>3. view' = w /\ hidden' = hidden
      BY <1>1, <1>5, <2>1, <2>2 DEF AnalyticsPolls, Becomes, loadAll
    <2>4. w \in AnalyticsViews
      BY <1>3, <2>1, <2>2 DEF AnalyticsViews
    <2>5. AnalyticsInv(w, h)
      BY <1>3, <2>2 DEF AnalyticsViews, AnalyticsInv
    <2>6. QED
      BY <1>2, <2>3, <2>4, <2>5 DEF AnalyticsSteps
  <1>6. CASE AnalyticsAnswered
    <2>1. PICK n \in 0 .. MaxPending : n = v.asked - 1
      <3>1. v.asked > 0
        BY <1>1, <1>6 DEF AnalyticsAnswered
      <3>2. QED
        BY <1>4, <3>1
    <2>2. PICK u : u = [v EXCEPT !.asked = n, !.loadingFirst = FALSE]
      OBVIOUS
    <2>3. /\ u \in AnalyticsViews /\ u.analytics = v.analytics
          /\ u.polling = v.polling /\ u.unseen = v.unseen
      BY <1>3, <2>1, <2>2 DEF AnalyticsViews
    <2>4. \/ \E t, t2 \in Traffics :
               Becomes([u EXCEPT !.analytics = handleDashboardAnalytics(t),
                                 !.protoTotals = t2.protos, !.errored = FALSE])
          \/ Becomes([u EXCEPT !.errored = TRUE])
      BY <1>1, <1>6, <2>1, <2>2 DEF AnalyticsAnswered
    <2>5. CASE Becomes([u EXCEPT !.errored = TRUE])
      <3>1. PICK w : w = [u EXCEPT !.errored = TRUE]
        OBVIOUS
      <3>2. view' = w /\ hidden' = hidden
        BY <2>5, <3>1 DEF Becomes
      <3>3. /\ w \in AnalyticsViews /\ w.errored = TRUE
            /\ w.polling = u.polling /\ w.unseen = u.unseen
        BY <2>3, <3>1 DEF AnalyticsViews
      <3>4. AnalyticsInv(w, h)
        BY <1>3, <2>3, <3>3 DEF AnalyticsInv
      <3>5. QED
        BY <1>2, <3>2, <3>3, <3>4 DEF AnalyticsSteps
    <2>6. ASSUME NEW t \in Traffics, NEW t2 \in Traffics,
                 Becomes([u EXCEPT !.analytics = handleDashboardAnalytics(t),
                                   !.protoTotals = t2.protos, !.errored = FALSE])
          PROVE  AnalyticsSteps
      <3>1. PICK a : a = handleDashboardAnalytics(t)
        OBVIOUS
      <3>2. a \in Analyses /\ a # NoData
        BY <3>1, TrafficsAssumption DEF Analyses
      <3>3. PICK p : p = t2.protos
        OBVIOUS
      <3>4. p \in {x.protos : x \in Traffics}
        BY <3>3
      <3>5. PICK w : w = [u EXCEPT !.analytics = a, !.protoTotals = p, !.errored = FALSE]
        OBVIOUS
      <3>6. view' = w /\ hidden' = hidden
        BY <2>6, <3>1, <3>3, <3>5 DEF Becomes
      <3>7. w \in AnalyticsViews
        BY <2>3, <3>2, <3>4, <3>5 DEF AnalyticsViews
      <3>8. w.analytics = a /\ w.polling = u.polling /\ w.unseen = u.unseen
        BY <2>3, <3>5 DEF AnalyticsViews
      <3>9. AnalyticsInv(w, h)
        BY <1>3, <2>3, <3>2, <3>8 DEF AnalyticsInv
      <3>10. QED
        BY <1>2, <3>6, <3>7, <3>9 DEF AnalyticsSteps
    <2>7. QED
      BY <2>4, <2>5, <2>6
  <1>7. CASE AnalyticsVisibility
    <2>1. CASE Visibility(TRUE, AnalyticsHidden(view))
      <3>1. PICK w : w = [v EXCEPT !.polling = FALSE]
        OBVIOUS
      <3>2. view' = w /\ hidden' = TRUE
        BY <1>1, <2>1, <3>1 DEF Visibility, AnalyticsHidden
      <3>3. w \in AnalyticsViews
        BY <1>3, <3>1 DEF AnalyticsViews
      <3>4. AnalyticsInv(w, TRUE)
        BY <1>3, <3>1 DEF AnalyticsViews, AnalyticsInv
      <3>5. QED
        BY <3>2, <3>3, <3>4 DEF AnalyticsSteps
    <2>2. CASE view.asked < MaxPending /\ Visibility(FALSE, AnalyticsVisible(view))
      <3>1. PICK n \in 0 .. MaxPending : n = v.asked + 1
        BY <1>1, <1>4, <2>2
      <3>2. PICK u : u = [v EXCEPT !.asked = n]
        OBVIOUS
      <3>3. u \in AnalyticsViews
        BY <1>3, <3>1, <3>2 DEF AnalyticsViews
      <3>4. AnalyticsInv(u, FALSE)
        BY <1>3, <3>2 DEF AnalyticsViews, AnalyticsInv
      <3>5. PICK w : w = [u EXCEPT !.polling = TRUE, !.unseen = FALSE]
        OBVIOUS
      <3>6. view' = w /\ hidden' = FALSE
        BY <1>1, <2>2, <3>1, <3>2, <3>5 DEF Visibility, AnalyticsVisible, loadAll
      <3>7. w \in AnalyticsViews
        BY <3>3, <3>5 DEF AnalyticsViews
      <3>8. AnalyticsInv(w, FALSE)
        BY <3>3, <3>4, <3>5 DEF AnalyticsViews, AnalyticsInv
      <3>9. QED
        BY <3>6, <3>7, <3>8 DEF AnalyticsSteps
    <2>3. QED
      BY <1>7, <2>1, <2>2 DEF AnalyticsVisibility
  <1>8. CASE AnalyticsMode
    <2>1. PICK m \in Units : m = OtherMode(v.mode)
      BY DEF OtherMode, Units
    <2>2. PICK w : w = [v EXCEPT !.mode = m]
      OBVIOUS
    <2>3. view' = w /\ hidden' = hidden
      BY <1>1, <1>8, <2>1, <2>2 DEF AnalyticsMode, Click
    <2>4. w \in AnalyticsViews
      BY <1>3, <2>1, <2>2 DEF AnalyticsViews
    <2>5. AnalyticsInv(w, h)
      BY <1>3, <2>2 DEF AnalyticsViews, AnalyticsInv
    <2>6. QED
      BY <1>2, <2>3, <2>4, <2>5 DEF AnalyticsSteps
  <1>9. QED
    BY <1>5, <1>6, <1>7, <1>8 DEF AnalyticsNext

\* What a step of the page leads to.
ExportersSteps ==
  view' \in ExportersViews /\ ExportersInv(view') /\ hidden' = hidden

\* A step of the exporters' page keeps what is said of it.
LEMMA ExportersKept ==
  ASSUME view \in ExportersViews, ExportersInv(view), ExportersNext
  PROVE  ExportersSteps
  <1>1. PICK v : v = view
    OBVIOUS
  <1>2. v \in ExportersViews /\ ExportersInv(v)
    BY <1>1
  <1>3. v.asked \in 0 .. MaxPending /\ MaxPending \in Nat
    BY <1>2, PageAssumption DEF ExportersViews
  <1>4. CASE ExportersPolls
    <2>1. PICK n \in 0 .. MaxPending : n = v.asked + 1
      BY <1>1, <1>3, <1>4 DEF ExportersPolls
    <2>2. PICK w : w = [v EXCEPT !.error = FALSE, !.asked = n]
      OBVIOUS
    <2>3. view' = w /\ hidden' = hidden
      BY <1>1, <1>4, <2>1, <2>2 DEF ExportersPolls, Becomes, loadExporters
    <2>4. w \in ExportersViews /\ w.asked = n
      BY <1>2, <2>1, <2>2 DEF ExportersViews
    <2>5. n > 0
      BY <1>3, <2>1
    <2>6. QED
      BY <2>3, <2>4, <2>5 DEF ExportersSteps, ExportersInv
  <1>5. CASE ExportersAnswered
    <2>1. PICK ok \in BOOLEAN, items \in Inventories :
            Becomes([view EXCEPT !.asked = @ - 1, !.loading = FALSE,
                                 !.exporters = IF ok THEN items ELSE @,
                                 !.error = @ \/ ~ok, !.told = @ \/ ok,
                                 !.first = FALSE, !.polling = @ \/ view.first])
      BY <1>5 DEF ExportersAnswered
    <2>2. PICK n \in 0 .. MaxPending : n = v.asked - 1
      <3>1. v.asked > 0
        BY <1>1, <1>5 DEF ExportersAnswered
      <3>2. QED
        BY <1>3, <3>1
    <2>3. PICK i \in ListsOfExporters : i = IF ok THEN items ELSE v.exporters
      BY <1>2 DEF ExportersViews, ListsOfExporters
    <2>4. PICK err \in BOOLEAN, told \in BOOLEAN, polls \in BOOLEAN :
            /\ err = (v.error \/ ~ok) /\ told = (v.told \/ ok)
            /\ polls = (v.polling \/ v.first)
      OBVIOUS
    <2>5. PICK w : w = [v EXCEPT !.asked = n, !.loading = FALSE, !.exporters = i,
                                 !.error = err, !.told = told, !.first = FALSE,
                                 !.polling = polls]
      OBVIOUS
    <2>6. view' = w /\ hidden' = hidden
      BY <1>1, <2>1, <2>2, <2>3, <2>4, <2>5 DEF Becomes
    <2>7. w \in ExportersViews
      <3>1. /\ v \in ExportersViews /\ n \in 0 .. MaxPending
            /\ i \in ListsOfExporters /\ err \in BOOLEAN /\ told \in BOOLEAN
            /\ polls \in BOOLEAN
        BY <1>2, <2>2, <2>3, <2>4
      <3>2. QED
        BY <2>5, <3>1, ZenonT(120) DEF ExportersViews
    <2>8. w.error = err /\ w.told = told
      BY <1>2, <2>5 DEF ExportersViews
    <2>9. err \/ told
      BY <2>4
    <2>10. QED
      BY <2>6, <2>7, <2>8, <2>9 DEF ExportersSteps, ExportersInv
  <1>6. CASE ExportersRetry
    <2>1. PICK n \in 0 .. MaxPending : n = v.asked + 1
      BY <1>1, <1>3, <1>6 DEF ExportersRetry
    <2>2. PICK u : u = [v EXCEPT !.loading = TRUE]
      OBVIOUS
    <2>3. u \in ExportersViews /\ u.asked = v.asked
      BY <1>2, <2>2 DEF ExportersViews
    <2>4. PICK w : w = [u EXCEPT !.error = FALSE, !.asked = n]
      OBVIOUS
    <2>5. view' = w /\ hidden' = hidden
      BY <1>1, <1>6, <2>1, <2>2, <2>3, <2>4 DEF ExportersRetry, Click, loadExporters
    <2>6. w \in ExportersViews /\ w.asked = n
      BY <2>1, <2>3, <2>4 DEF ExportersViews
    <2>7. n > 0
      BY <1>3, <2>1
    <2>8. QED
      BY <2>5, <2>6, <2>7 DEF ExportersSteps, ExportersInv
  <1>7. QED
    BY <1>4, <1>5, <1>6 DEF ExportersNext

-----------------------------------------------------------------------------
(* The incidents.                                                          *)

\* The rows before the page with number p, if there is a page with that number, are fewer
\* than all.
LEMMA PageStarts ==
  ASSUME NEW total \in Nat, NEW size \in Nat \ {0}, NEW p \in Nat \ {0},
         p <= (total + size - 1) \div size
  PROVE  (p - 1) * size < total
  <1>1. PICK d \in Int : d = (total + size - 1) \div size
    OBVIOUS
  <1>2. d * size <= total + size - 1
    BY <1>1
  <1>3. p * size <= d * size
    BY <1>1
  <1>4. (p - 1) * size = p * size - size
    OBVIOUS
  <1>5. p * size \in Int /\ d * size \in Int
    BY <1>1
  <1>6. QED
    BY <1>2, <1>3, <1>4, <1>5

\* A page of n incidents holds their numbers; it is empty only when it starts behind the
\* last one.
LEMMA PagesHold ==
  ASSUME NEW n \in Nat, NEW offset \in Nat, NEW rows \in ListPages(n, offset)
  PROVE  /\ rows \in Seq(1 .. n)
         /\ rows = <<>> <=> n <= offset
  <1>1. PICK left \in Int : left = n - offset
    OBVIOUS
  <1>2. PICK m \in Nat :
          /\ m = IF left < 0 THEN 0 ELSE IF left < PageSize THEN left ELSE PageSize
          /\ m = 0 <=> left <= 0
          /\ m <= left \/ m = 0
    BY IncidentsAssumption
  <1>3. PICK D : D = 1 .. n
    OBVIOUS
  <1>4. PICK q \in [D -> D] : rows = [i \in 1 .. m |-> q[offset + i]]
    <2>1. PICK q \in Orders(n) : rows = [i \in 1 .. m |-> q[offset + i]]
      BY <1>1, <1>2 DEF ListPages
    <2>2. q \in [D -> D]
      BY <1>3, <2>1 DEF Orders
    <2>3. QED
      BY <2>1, <2>2
  <1>5. \A i \in 1 .. m : offset + i \in D
    BY <1>1, <1>2, <1>3
  <1>6. \A i \in 1 .. m : q[offset + i] \in D
    BY <1>4, <1>5
  <1>7. rows \in [1 .. m -> D]
    BY <1>4, <1>6
  <1>8. rows \in Seq(D) /\ Len(rows) = m
    BY <1>2, <1>7, SeqDef
  <1>9. rows = <<>> <=> m = 0
    BY <1>8
  <1>10. QED
    BY <1>1, <1>2, <1>3, <1>8, <1>9

\* With a page of n incidents that is one of theirs, there is a row to show unless
\* there is no incident.
LEMMA PageShows ==
  ASSUME NEW n \in Nat, NEW number \in Nat \ {0},
         number = 1 \/ (number - 1) * PageSize < n,
         <<>> \in ListPages(n, (number - 1) * PageSize)
  PROVE  n = 0
  <1>1. PICK offset \in Nat : offset = (number - 1) * PageSize
    <2>1. PICK m \in Nat : m = number - 1
      OBVIOUS
    <2>2. m * PageSize \in Nat
      BY IncidentsAssumption
    <2>3. QED
      BY <2>1, <2>2
  <1>2. n <= offset
    <2>1. PICK none : none = <<>>
      OBVIOUS
    <2>2. none \in ListPages(n, offset)
      BY <1>1, <2>1
    <2>3. none = <<>> <=> n <= offset
      BY <2>2, PagesHold
    <2>4. QED
      BY <2>1, <2>3
  <1>3. offset = 0
    <2>1. CASE number = 1
      <3>1. PICK m : m = number - 1
        OBVIOUS
      <3>2. m = 0 /\ offset = m * PageSize
        BY <1>1, <2>1, <3>1
      <3>3. QED
        BY <3>2, IncidentsAssumption
    <2>2. CASE (number - 1) * PageSize < n
      BY <1>1, <1>2, <2>2
    <2>3. QED
      BY <2>1, <2>2
  <1>4. QED
    BY <1>2, <1>3

\* What a step of the page leads to.
ListSteps == view' \in ListViews /\ ListInv(view') /\ hidden' = hidden

\* What the list shows, and which page of it.
ListTold(v) ==
  /\ v.total <= v.known /\ InRange(v, v.known)
  /\ ~v.loading /\ ~v.error =>
       /\ v.told /\ InRange(v, v.total)
       /\ \E n \in v.total .. v.known :
            /\ v.incidents \in ListPages(n, (v.number - 1) * PageSize)
            /\ v.incidents = <<>> => n = 0

\* A number of incidents the page in the pager is one of stays one when more start.
LEMMA RangeGrows ==
  ASSUME NEW v, NEW w, v.number \in Nat \ {0}, w.number = v.number,
         NEW m \in Nat, NEW n \in Nat, m <= n, InRange(v, m)
  PROVE  InRange(w, n)
  <1>1. PICK a \in Int : a = (v.number - 1) * PageSize
    BY IncidentsAssumption
  <1>2. v.number = 1 \/ a < m
    BY <1>1 DEF InRange
  <1>3. v.number = 1 \/ a < n
    BY <1>2
  <1>4. QED
    BY <1>1, <1>3 DEF InRange

\* The request that is out, if there is one.
LEMMA OneAsked ==
  ASSUME NEW v \in ListViews, ListAsked(v), NEW k \in DOMAIN v.asked
  PROVE  /\ v.loading /\ k = 1 /\ Len(v.asked) = 1
         /\ v.asked[k].number = v.number /\ v.asked[k].count \in Counts
         /\ v.asked[k].count # NotCounted =>
              v.asked[k].count \in 0 .. v.known /\ InRange(v, v.asked[k].count)
  <1>1. PICK c \in {NotCounted} \cup 0 .. v.known :
          /\ v.asked = IF v.loading THEN <<[number |-> v.number, count |-> c]>> ELSE <<>>
          /\ c # NotCounted => InRange(v, c)
    BY DEF ListAsked
  <1>2. v.known \in Nat /\ c \in Counts
    BY IncidentsAssumption DEF ListViews, Counts
  <1>3. v.loading
    <2>1. CASE ~v.loading
      <3>1. v.asked = <<>>
        BY <1>1, <2>1
      <3>2. QED
        BY <3>1
    <2>2. QED
      BY <2>1
  <1>4. PICK q : q = [number |-> v.number, count |-> c]
    OBVIOUS
  <1>5. v.asked = <<q>>
    BY <1>1, <1>3, <1>4
  <1>6. Len(v.asked) = 1 /\ k = 1 /\ v.asked[k] = q
    BY <1>5
  <1>7. q.number = v.number /\ q.count = c
    BY <1>4
  <1>8. QED
    BY <1>1, <1>2, <1>3, <1>6, <1>7

\* Without a request no page is loading.
LEMMA NoneAsked ==
  ASSUME NEW w, w.asked = <<>>, w.loading = FALSE
  PROVE  ListAsked(w)
  BY DEF ListAsked

\* A request that has just been made has not been counted for.
LEMMA NewAsked ==
  ASSUME NEW w, w.loading = TRUE, w.asked = <<ListRequestOf(w.number)>>
  PROVE  ListAsked(w)
  BY DEF ListAsked, ListRequestOf

\* When the request has been answered, or has failed, none is out.
LEMMA LastAsked ==
  ASSUME NEW v \in ListViews, ListAsked(v), NEW k \in DOMAIN v.asked
  PROVE  RemoveAt(v.asked, k) = <<>> /\ RemoveAt(v.asked, k) \in Seq(ListRequests)
  <1>1. Len(v.asked) = 1 /\ k = 1
    BY OneAsked
  <1>2. PICK s \in Seq(ListRequests) : s = v.asked
    BY DEF ListViews
  <1>3. k \in 1 .. Len(s) /\ Len(s) = 1
    BY <1>1, <1>2
  <1>4. RemoveAt(s, k) \in Seq(ListRequests) /\ Len(RemoveAt(s, k)) = Len(s) - 1
    BY <1>3, RemovedAt
  <1>5. QED
    BY <1>2, <1>3, <1>4, EmptySeq

\* Counting the incidents keeps what is said of the list.
LEMMA ListCountedKept ==
  ASSUME view \in ListViews, ListInv(view), ListCounted
  PROVE  ListSteps
  <1>1. PICK v : v = view
    OBVIOUS
  <1>2. v \in ListViews /\ ListAsked(v) /\ ListTold(v)
    BY <1>1 DEF ListInv, ListTold
  <1>3. v.known \in Nat /\ v.number \in Nat \ {0} /\ v.asked \in Seq(ListRequests)
    BY <1>2, IncidentsAssumption DEF ListViews
  <1>4. PICK k \in DOMAIN v.asked : Becomes([v EXCEPT !.asked[k].count = v.known])
    BY <1>1 DEF ListCounted
  <1>5. v.loading /\ k = 1 /\ Len(v.asked) = 1 /\ v.asked[k].number = v.number
    BY <1>2, OneAsked
  <1>6. PICK q : q = [v.asked[k] EXCEPT !.count = v.known]
    OBVIOUS
  <1>7. q = [number |-> v.number, count |-> v.known] /\ q \in ListRequests
    <2>1. v.asked[k] \in ListRequests
      BY <1>3, <1>5
    <2>2. QED
      BY <1>3, <1>5, <1>6, <2>1 DEF ListRequests, Counts
  <1>8. PICK s : s = [v.asked EXCEPT ![k] = q]
    OBVIOUS
  <1>9. s = <<q>> /\ s \in Seq(ListRequests)
    BY <1>3, <1>5, <1>7, <1>8
  <1>10. PICK w : w = [v EXCEPT !.asked = s]
    OBVIOUS
  <1>11. view' = w /\ hidden' = hidden
    BY <1>4, <1>6, <1>8, <1>10 DEF Becomes
  <1>12. w \in ListViews
    BY <1>2, <1>9, <1>10 DEF ListViews
  <1>13. /\ w.asked = s /\ w.loading = v.loading /\ w.known = v.known
         /\ w.number = v.number /\ w.total = v.total /\ w.incidents = v.incidents
         /\ w.error = v.error /\ w.told = v.told
    BY <1>2, <1>10 DEF ListViews
  <1>14. InRange(w, w.known)
    BY <1>2, <1>13 DEF ListTold, InRange
  <1>15. ListAsked(w)
    <2>1. PICK c \in 0 .. w.known : c = w.known
      BY <1>3, <1>13
    <2>2. w.asked = <<[number |-> w.number, count |-> c]>> /\ w.loading
      BY <1>5, <1>7, <1>9, <1>13, <2>1
    <2>3. QED
      BY <1>14, <2>1, <2>2 DEF ListAsked
  <1>16. ListTold(w)
    BY <1>2, <1>13 DEF ListTold, InRange
  <1>17. QED
    BY <1>11, <1>12, <1>15, <1>16 DEF ListSteps, ListInv, ListTold

\* So does the answer.
LEMMA ListAnsweredKept ==
  ASSUME view \in ListViews, ListInv(view), ListAnswered
  PROVE  ListSteps
  <1>1. PICK v : v = view
    OBVIOUS
  <1>2. v \in ListViews /\ ListAsked(v) /\ ListTold(v)
    BY <1>1 DEF ListInv, ListTold
  <1>3. /\ v.known \in 0 .. Len(Incidents) /\ v.known \in Nat
        /\ v.number \in Nat \ {0} /\ Len(Incidents) \in Nat
    BY <1>2, IncidentsAssumption DEF ListViews
  <1>4. PICK k \in DOMAIN v.asked :
          /\ v.asked[k].count # NotCounted
          /\ \E rows \in ListPages(v.known, (v.asked[k].number - 1) * PageSize) :
               Becomes([v EXCEPT !.asked = RemoveAt(@, k), !.loading = FALSE,
                                 !.incidents = rows, !.total = v.asked[k].count,
                                 !.told = TRUE])
    BY <1>1 DEF ListAnswered
  <1>5. v.asked[k].number = v.number
    BY <1>2, OneAsked
  <1>6. PICK c \in 0 .. v.known : c = v.asked[k].count /\ InRange(v, c)
    BY <1>2, <1>4, OneAsked
  <1>7. PICK offset \in Nat : offset = (v.number - 1) * PageSize
    <2>1. PICK m \in Nat : m = v.number - 1
      BY <1>3
    <2>2. m * PageSize \in Nat
      BY IncidentsAssumption
    <2>3. QED
      BY <2>1, <2>2
  <1>8. PICK none \in Seq(ListRequests) : none = <<>> /\ none = RemoveAt(v.asked, k)
    BY <1>2, LastAsked
  <1>9. PICK rows \in ListPages(v.known, offset) :
          Becomes([v EXCEPT !.asked = none, !.loading = FALSE, !.incidents = rows,
                            !.total = c, !.told = TRUE])
    BY <1>4, <1>5, <1>6, <1>7, <1>8
  <1>10. rows \in Seq(1 .. Len(Incidents))
    <2>1. rows \in Seq(1 .. v.known)
      BY <1>3, <1>7, <1>9, PagesHold
    <2>2. QED
      BY <1>3, <2>1
  <1>11. PICK w : w = [v EXCEPT !.asked = none, !.loading = FALSE, !.incidents = rows,
                                !.total = c, !.told = TRUE]
    OBVIOUS
  <1>12. view' = w /\ hidden' = hidden
    BY <1>9, <1>11 DEF Becomes
  <1>13. c \in Nat
    BY <1>3, <1>6
  <1>14. w \in ListViews
    BY <1>2, <1>8, <1>10, <1>11, <1>13, ZenonT(60) DEF ListViews
  <1>15. /\ w.asked = <<>> /\ w.loading = FALSE /\ w.known = v.known
         /\ w.number = v.number /\ w.total = c /\ w.incidents = rows /\ w.told = TRUE
    BY <1>2, <1>8, <1>11 DEF ListViews
  <1>16. ListAsked(w)
    BY <1>15, NoneAsked
  <1>17. w.total <= w.known /\ InRange(w, w.known) /\ InRange(w, w.total)
    BY <1>2, <1>3, <1>6, <1>15 DEF ListTold, InRange
  <1>18. rows = <<>> => v.known = 0
    <2>1. v.number = 1 \/ (v.number - 1) * PageSize < v.known
      BY <1>2 DEF ListTold, InRange
    <2>2. QED
      BY <1>3, <1>7, <1>9, <2>1, PageShows
  <1>19. v.known \in w.total .. w.known
    BY <1>3, <1>6, <1>15
  <1>20. ListTold(w)
    BY <1>7, <1>9, <1>15, <1>17, <1>18, <1>19 DEF ListTold
  <1>21. QED
    BY <1>12, <1>14, <1>16, <1>20 DEF ListSteps, ListInv, ListTold

\* So does a failure.
LEMMA ListFailsKept ==
  ASSUME view \in ListViews, ListInv(view), ListFails
  PROVE  ListSteps
  <1>1. PICK v : v = view
    OBVIOUS
  <1>2. v \in ListViews /\ ListAsked(v) /\ ListTold(v)
    BY <1>1 DEF ListInv, ListTold
  <1>3. PICK k \in DOMAIN v.asked :
          Becomes([v EXCEPT !.asked = RemoveAt(@, k), !.loading = FALSE, !.error = TRUE])
    BY <1>1 DEF ListFails
  <1>4. PICK none \in Seq(ListRequests) : none = <<>> /\ none = RemoveAt(v.asked, k)
    BY <1>2, LastAsked
  <1>5. PICK w : w = [v EXCEPT !.asked = none, !.loading = FALSE, !.error = TRUE]
    OBVIOUS
  <1>6. view' = w /\ hidden' = hidden
    BY <1>3, <1>4, <1>5 DEF Becomes
  <1>7. w \in ListViews
    BY <1>2, <1>4, <1>5 DEF ListViews
  <1>8. /\ w.asked = <<>> /\ w.loading = FALSE /\ w.known = v.known
        /\ w.number = v.number /\ w.total = v.total /\ w.error = TRUE
    BY <1>2, <1>4, <1>5 DEF ListViews
  <1>9. ListAsked(w)
    BY <1>8, NoneAsked
  <1>10. ListTold(w)
    BY <1>2, <1>8 DEF ListTold, InRange
  <1>11. QED
    BY <1>6, <1>7, <1>9, <1>10 DEF ListSteps, ListInv, ListTold

\* So does asking for a page there is, by a list that has been answered.
LEMMA ListAsksKept ==
  ASSUME view \in ListViews, ListInv(view), ~view.loading, NEW p \in Nat \ {0},
         p = view.number \/ (p - 1) * PageSize < view.total,
         Click(loadIncidents(IF p = view.number THEN view
                             ELSE [view EXCEPT !.number = p]))
  PROVE  ListSteps
  <1>1. PICK v : v = view
    OBVIOUS
  <1>2. v \in ListViews /\ ListAsked(v) /\ ListTold(v)
    BY <1>1 DEF ListInv, ListTold
  <1>3. v.known \in Nat /\ v.total \in Nat /\ v.total <= v.known
    BY <1>2, IncidentsAssumption DEF ListViews, ListTold
  <1>4. PICK u : u = IF p = v.number THEN v ELSE [v EXCEPT !.number = p]
    OBVIOUS
  <1>5. /\ u \in ListViews /\ u.number = p /\ u.known = v.known /\ u.total = v.total
        /\ u.asked = v.asked
    BY <1>2, <1>4 DEF ListViews
  <1>6. v.asked = <<>>
    BY <1>1, <1>2 DEF ListAsked
  <1>7. PICK q : q = ListRequestOf(p)
    OBVIOUS
  <1>8. q \in ListRequests
    BY <1>7 DEF ListRequestOf, ListRequests, Counts
  <1>9. PICK s : s = <<q>>
    OBVIOUS
  <1>10. s \in Seq(ListRequests) /\ s = Append(u.asked, q)
    BY <1>5, <1>6, <1>8, <1>9
  <1>11. PICK w : w = [u EXCEPT !.loading = TRUE, !.error = FALSE, !.asked = s]
    OBVIOUS
  <1>12. view' = w /\ hidden' = hidden
    BY <1>1, <1>4, <1>5, <1>7, <1>10, <1>11 DEF Click, loadIncidents
  <1>13. w \in ListViews
    BY <1>5, <1>10, <1>11 DEF ListViews
  <1>14. /\ w.asked = s /\ w.loading = TRUE /\ w.known = v.known
         /\ w.number = p /\ w.total = v.total
    BY <1>5, <1>11 DEF ListViews
  <1>15. ListAsked(w)
    BY <1>7, <1>9, <1>14, NewAsked
  <1>16. InRange(w, w.known)
    <2>1. CASE p = v.number
      BY <1>2, <1>14, <2>1 DEF ListTold, InRange
    <2>2. CASE (p - 1) * PageSize < v.total
      <3>1. PICK a \in Int : a = (p - 1) * PageSize
        BY IncidentsAssumption
      <3>2. a < v.known
        BY <1>3, <2>2, <3>1
      <3>3. QED
        BY <1>14, <3>1, <3>2 DEF InRange
    <2>3. QED
      BY <1>1, <2>1, <2>2
  <1>17. ListTold(w)
    BY <1>3, <1>14, <1>16 DEF ListTold
  <1>18. QED
    BY <1>12, <1>13, <1>15, <1>17 DEF ListSteps, ListInv, ListTold

\* An incident that starts does not touch what the list shows.
LEMMA ListGrows ==
  ASSUME view \in ListViews, ListInv(view), IncidentStarts
  PROVE  ListSteps
  <1>1. PICK v : v = view
    OBVIOUS
  <1>2. v \in ListViews /\ ListAsked(v) /\ ListTold(v)
    BY <1>1 DEF ListInv, ListTold
  <1>3. /\ v.known \in 0 .. Len(Incidents) /\ Len(Incidents) \in Nat
        /\ v.total \in Nat /\ v.number \in Nat \ {0}
    BY <1>2, IncidentsAssumption DEF ListViews
  <1>4. PICK n \in 0 .. Len(Incidents) : n = v.known + 1
    BY <1>1, <1>3 DEF IncidentStarts
  <1>5. PICK w : w = [v EXCEPT !.known = n]
    OBVIOUS
  <1>6. view' = w /\ hidden' = hidden
    BY <1>1, <1>4, <1>5 DEF IncidentStarts, Click
  <1>7. w \in ListViews
    BY <1>2, <1>4, <1>5 DEF ListViews
  <1>8. /\ w.asked = v.asked /\ w.loading = v.loading /\ w.known = n
        /\ w.number = v.number /\ w.total = v.total /\ w.incidents = v.incidents
        /\ w.error = v.error /\ w.told = v.told
    BY <1>2, <1>5 DEF ListViews
  <1>9. /\ v.known \in Nat /\ n \in Nat /\ v.known <= n
        /\ 0 .. v.known \subseteq 0 .. n /\ v.total .. v.known \subseteq v.total .. n
    BY <1>3, <1>4
  <1>10. ListAsked(w)
    <2>1. PICK c \in {NotCounted} \cup 0 .. v.known :
            /\ v.asked = IF v.loading THEN <<[number |-> v.number, count |-> c]>>
                         ELSE <<>>
            /\ c # NotCounted => InRange(v, c)
      BY <1>2 DEF ListAsked
    <2>2. c \in {NotCounted} \cup 0 .. w.known
      BY <1>8, <1>9
    <2>3. InRange(v, c) => InRange(w, c)
      BY <1>8 DEF InRange
    <2>4. QED
      BY <1>8, <2>1, <2>2, <2>3 DEF ListAsked
  <1>11. w.total <= w.known /\ InRange(w, w.known)
    <2>1. InRange(v, v.known) /\ v.total <= v.known
      BY <1>2 DEF ListTold
    <2>2. InRange(w, n)
      BY <1>3, <1>8, <1>9, <2>1, RangeGrows
    <2>3. QED
      BY <1>3, <1>8, <1>9, <2>1, <2>2
  <1>12. ASSUME ~w.loading, ~w.error
         PROVE  /\ w.told /\ InRange(w, w.total)
                /\ \E i \in w.total .. w.known :
                     /\ w.incidents \in ListPages(i, (w.number - 1) * PageSize)
                     /\ w.incidents = <<>> => i = 0
    BY <1>2, <1>8, <1>9, <1>12 DEF ListTold, InRange
  <1>13. ListTold(w)
    BY <1>11, <1>12 DEF ListTold
  <1>14. QED
    BY <1>6, <1>7, <1>10, <1>13 DEF ListSteps, ListInv, ListTold

\* A step of the list keeps what is said of it.
LEMMA ListKept ==
  ASSUME view \in ListViews, ListInv(view),
         ListCounted \/ ListAnswered \/ ListFails \/ TurnPage \/ ListRetry
           \/ IncidentStarts
  PROVE  ListSteps
  <1>1. CASE TurnPage
    <2>1. PICK p \in 1 .. PageCount(view) :
            p # view.number /\ Click(loadIncidents([view EXCEPT !.number = p]))
      BY <1>1 DEF TurnPage
    <2>2. PageCount(view) = (view.total + PageSize - 1) \div PageSize
      BY DEF PageCount
    <2>3. view.total \in Nat
      BY DEF ListViews
    <2>4. PageCount(view) \in Int
      BY <2>2, <2>3, IncidentsAssumption
    <2>5. p \in Nat \ {0} /\ p <= PageCount(view)
      BY <2>1, <2>4
    <2>6. (p - 1) * PageSize < view.total
      BY <2>2, <2>3, <2>5, PageStarts, IncidentsAssumption
    <2>7. ~view.loading
      BY <1>1 DEF TurnPage, ListShown
    <2>8. Click(loadIncidents(IF p = view.number THEN view
                              ELSE [view EXCEPT !.number = p]))
      BY <2>1
    <2>9. QED
      BY <2>5, <2>6, <2>7, <2>8, ListAsksKept
  <1>2. CASE ListRetry
    <2>1. ~view.loading /\ Click(loadIncidents(view))
      BY <1>2 DEF ListRetry, ListShown
    <2>2. PICK p \in Nat \ {0} : p = view.number
      BY DEF ListViews
    <2>3. Click(loadIncidents(IF p = view.number THEN view
                              ELSE [view EXCEPT !.number = p]))
      BY <2>1, <2>2
    <2>4. QED
      BY <2>1, <2>2, <2>3, ListAsksKept
  <1>3. QED
    BY <1>1, <1>2, ListCountedKept, ListAnsweredKept, ListFailsKept, ListGrows

\* What a step of the page leads to.
DetailSteps == view' \in DetailViews /\ DetailInv(view') /\ hidden' = hidden

\* A step of the detail keeps what is said of it.
LEMMA DetailKept ==
  ASSUME view \in DetailViews, DetailInv(view),
         DetailAnswered \/ DetailRetry \/ HistoryJump
  PROVE  DetailSteps
  <1>1. PICK v : v = view
    OBVIOUS
  <1>2. v \in DetailViews /\ DetailInv(v)
    BY <1>1
  <1>3. v.asked \in Nat /\ v.incidentId \in 1 .. Len(Incidents)
    BY <1>2 DEF DetailViews
  <1>4. CASE DetailAnswered
    <2>1. PICK n \in Nat : n = v.asked - 1
      <3>1. v.asked > 0
        BY <1>1, <1>4 DEF DetailAnswered
      <3>2. QED
        BY <1>3, <3>1
    <2>2. PICK u : u = [v EXCEPT !.asked = n, !.loading = FALSE]
      OBVIOUS
    <2>3. PICK ok \in BOOLEAN :
            Becomes(CASE ~ok -> [u EXCEPT !.error = TRUE]
                      [] ok /\ u.incidentId > u.known -> [u EXCEPT !.notFound = TRUE]
                      [] OTHER -> [u EXCEPT !.incident = DetailAnswer(u.incidentId)])
      BY <1>1, <1>4, <2>1, <2>2 DEF DetailAnswered
    <2>4. u \in DetailViews
      BY <1>2, <2>1, <2>2 DEF DetailViews
    <2>5. /\ u.incident = v.incident /\ u.incidentId = v.incidentId /\ u.row = v.row
          /\ u.reused = v.reused /\ u.id = v.id
      BY <1>2, <2>2 DEF DetailViews
    <2>6. PICK a : a = DetailAnswer(v.incidentId)
      OBVIOUS
    <2>7. a \in {DetailAnswer(id) : id \in 1 .. Len(Incidents)}
      BY <1>3, <2>6
    <2>8. PICK w : /\ view' = w /\ hidden' = hidden
                   /\ \/ w = [u EXCEPT !.error = TRUE]
                      \/ w = [u EXCEPT !.notFound = TRUE]
                      \/ w = [u EXCEPT !.incident = a]
      <3>1. CASE ~ok
        BY <2>3, <3>1 DEF Becomes
      <3>2. CASE ok /\ u.incidentId > u.known
        BY <2>3, <3>2 DEF Becomes
      <3>3. CASE ok /\ ~(u.incidentId > u.known)
        BY <2>3, <2>5, <2>6, <3>3 DEF Becomes
      <3>4. QED
        BY <3>1, <3>2, <3>3
    <2>9. w \in DetailViews
      BY <2>4, <2>7, <2>8, ZenonT(120) DEF DetailViews
    <2>10. /\ w.incident \in {u.incident, a} /\ w.incidentId = u.incidentId
           /\ w.row = u.row /\ w.reused = u.reused /\ w.id = u.id
      BY <2>4, <2>8 DEF DetailViews
    <2>11. DetailInv(w)
      BY <1>2, <2>5, <2>6, <2>10 DEF DetailInv
    <2>12. QED
      BY <2>8, <2>9, <2>11 DEF DetailSteps
  <1>5. CASE DetailRetry
    <2>1. PICK n \in Nat : n = v.asked + 1
      BY <1>3
    <2>2. PICK w : w = [v EXCEPT !.loading = TRUE, !.notFound = FALSE, !.error = FALSE,
                                 !.asked = n]
      OBVIOUS
    <2>3. view' = w /\ hidden' = hidden
      BY <1>1, <1>5, <2>1, <2>2 DEF DetailRetry, Click, loadIncident
    <2>4. w \in DetailViews
      BY <1>2, <2>1, <2>2 DEF DetailViews
    <2>5. /\ w.incident = v.incident /\ w.incidentId = v.incidentId
          /\ w.row = v.row /\ w.reused = v.reused /\ w.id = v.id
      BY <1>2, <2>2 DEF DetailViews
    <2>6. QED
      BY <1>2, <2>3, <2>4, <2>5 DEF DetailSteps, DetailInv
  <1>6. CASE HistoryJump
    <2>1. PICK id \in 1 .. Len(Incidents) : Click([v EXCEPT !.id = id, !.reused = TRUE])
      BY <1>1, <1>6 DEF HistoryJump
    <2>2. PICK w : w = [v EXCEPT !.id = id, !.reused = TRUE]
      OBVIOUS
    <2>3. view' = w /\ hidden' = hidden
      BY <2>1, <2>2 DEF Click
    <2>4. w \in DetailViews
      BY <1>2, <2>2 DEF DetailViews
    <2>5. /\ w.incident = v.incident /\ w.incidentId = v.incidentId
          /\ w.row = v.row /\ w.reused = TRUE
      BY <1>2, <2>2 DEF DetailViews
    <2>6. QED
      BY <1>2, <2>3, <2>4, <2>5 DEF DetailSteps, DetailInv
  <1>7. QED
    BY <1>4, <1>5, <1>6

-----------------------------------------------------------------------------
(* The settings: the handlers of the daemon.                               *)

\* What the table holds after a change to the router with a number, and who kept its row.
LEMMA ChangedRows ==
  ASSUME NEW t \in SUBSET Rows, NEW n \in Nat, TableInv(t, n), NEW id \in 1 .. n,
         NEW name \in Names, NEW on \in BOOLEAN, ~Taken(t, name, id)
  PROVE  LET c == Changed(t, id, name, on)
         IN  /\ c \in SUBSET Rows /\ TableInv(c, n)
             /\ \A r \in t : r.id # id => r \in c
             /\ \A r \in c : r.id = id => r.name = name
             /\ \A r \in c : r.id # id => r \in t
  <1> DEFINE New(r) == IF r.id = id THEN Router(id, name, on) ELSE r
  <1>1. PICK c : c = Changed(t, id, name, on)
    OBVIOUS
  <1>2. c = {New(r) : r \in t}
    BY <1>1 DEF Changed
  <1>3. PICK x : x = Router(id, name, on)
    OBVIOUS
  <1>4. x \in Rows /\ x.id = id /\ x.name = name
    BY <1>3 DEF Router, Rows, Ids
  <1>5. \A r \in t : New(r) = IF r.id = id THEN x ELSE r
    BY <1>3
  <1>6. \A r \in t : r \in Rows /\ r.id \in 1 .. n
    BY DEF TableInv
  <1>7. \A r \in t : r.id # id => r.name # name
    BY DEF Taken
  <1>8. \A r, s \in t : (r.id = s.id \/ r.name = s.name) => r = s
    BY DEF TableInv
  <1> HIDE DEF New
  <1>9. \A r \in c : r = x \/ (r \in t /\ r.id # id)
    BY <1>2, <1>5
  <1>10. \A r \in t : r.id # id => r \in c
    BY <1>2, <1>5
  <1>11. \A r \in c : r \in Rows /\ r.id \in 1 .. n
    BY <1>4, <1>6, <1>9
  <1>12. \A r, s \in c : (r.id = s.id \/ r.name = s.name) => r = s
    BY <1>4, <1>7, <1>8, <1>9
  <1>13. TableInv(c, n)
    BY <1>11, <1>12 DEF TableInv
  <1>14. QED
    BY <1>1, <1>4, <1>9, <1>10, <1>11, <1>13

\* What serving a request does: who is still in the table, under which name, and what the
\* answer says. Numbers are never given out twice.
Serves(t, n, q, h) ==
  /\ h.table \in SUBSET Rows /\ h.answer \in Replied \ {"none", "failed"}
  /\ TableInv(h.table, IF q.kind = "create" THEN n + 1 ELSE n)
  /\ \A r \in t : r.id # q.id => r \in h.table
  /\ q.kind \notin {"create", "update"} =>
       \A r \in h.table : \E s \in t : r.id = s.id /\ r.name = s.name
  /\ q.kind = "create" /\ h.answer = "ok" =>
       \E r \in h.table : r.id = n + 1 /\ r.name = q.name
  /\ q.kind = "update" /\ h.answer = "ok" => \A r \in h.table : r.id = q.id => r.name = q.name
  /\ h.answer # "ok" \/ q.kind = "test" \/ IsList(q) => h.table = t
  /\ q.text = "good" /\ IsList(q) => h.answer = "ok"

\* A router that is created has a new id and a name of its own.
LEMMA CreateServes ==
  ASSUME NEW t \in SUBSET Rows, NEW n \in Nat, TableInv(t, n), NEW q \in Requests,
         q.kind = "create", q.id = NoId
  PROVE  Serves(t, n, q, handleCreateMikrotikRouter(t, q, n + 1))
  <1>1. PICK h : h = handleCreateMikrotikRouter(t, q, n + 1)
    OBVIOUS
  <1>2. q.name \in Names /\ q.enabled \in BOOLEAN
    BY DEF Requests
  <1>3. ~IsList(q)
    BY DEF IsList
  <1>4. \A r \in t : r \in Rows /\ r.id \in 1 .. n
    BY DEF TableInv
  <1>5. \A r, s \in t : (r.id = s.id \/ r.name = s.name) => r = s
    BY DEF TableInv
  <1>6. TableInv(t, n + 1)
    BY <1>4, <1>5 DEF TableInv
  <1>7. CASE q.text = "bare" \/ Taken(t, q.name, NoId)
    <2>1. h.table = t /\ h.answer \in {"invalid_param", "name_taken"}
      BY <1>1, <1>7 DEF handleCreateMikrotikRouter
    <2>2. QED
      BY <1>1, <1>3, <1>6, <2>1 DEF Serves, Replied
  <1>8. CASE ~(q.text = "bare" \/ Taken(t, q.name, NoId))
    <2>1. PICK x : x = Router(n + 1, q.name, q.enabled)
      OBVIOUS
    <2>2. x \in Rows /\ x.id = n + 1 /\ x.name = q.name
      BY <1>2, <2>1 DEF Router, Rows, Ids
    <2>3. h.table = t \cup {x} /\ h.answer = "ok"
      BY <1>1, <1>8, <2>1 DEF handleCreateMikrotikRouter
    <2>4. \A r \in t : r.id # NoId
      BY <1>4, SettingsAssumption
    <2>5. \A r \in t : r.name # q.name
      BY <1>8, <2>4 DEF Taken
    <2>6. \A r \in t : r.id # x.id
      BY <1>4, <2>2
    <2>7. \A r, s \in t \cup {x} : (r.id = s.id \/ r.name = s.name) => r = s
      BY <1>5, <2>2, <2>5, <2>6
    <2>8. \A r \in t \cup {x} : r.id \in 1 .. (n + 1)
      BY <1>4, <2>2
    <2>9. TableInv(t \cup {x}, n + 1)
      BY <2>7, <2>8 DEF TableInv
    <2>10. QED
      BY <1>1, <1>3, <1>4, <2>2, <2>3, <2>9 DEF Serves, Replied
  <1>9. QED
    BY <1>7, <1>8

\* A router that is changed keeps its id, and its name is its own.
LEMMA PatchServes ==
  ASSUME NEW t \in SUBSET Rows, NEW n \in Nat, TableInv(t, n), NEW q \in Requests,
         q.kind \in {"update", "toggle"}
  PROVE  Serves(t, n, q, handlePatchMikrotikRouter(t, q))
  <1>1. PICK h : h = handlePatchMikrotikRouter(t, q)
    OBVIOUS
  <1>2. q.name \in Names /\ q.enabled \in BOOLEAN
    BY DEF Requests
  <1>3. ~IsList(q)
    BY DEF IsList
  <1>4. PICK name : name = IF q.kind = "toggle" THEN NameOf(t, q.id) ELSE q.name
    OBVIOUS
  <1>5. CASE ~Exists(t, q.id) \/ Taken(t, name, q.id)
    <2>1. h.table = t /\ h.answer \in {"not_found", "name_taken"}
      BY <1>1, <1>4, <1>5 DEF handlePatchMikrotikRouter
    <2>2. QED
      BY <1>1, <1>3, <2>1 DEF Serves, Replied
  <1>6. CASE Exists(t, q.id) /\ ~Taken(t, name, q.id)
    <2>1. h.table = Changed(t, q.id, name, q.enabled) /\ h.answer = "ok"
      BY <1>1, <1>4, <1>6 DEF handlePatchMikrotikRouter
    <2>2. PICK s \in t : s.id = q.id
      BY <1>6 DEF Exists
    <2>3. s \in Rows /\ q.id \in 1 .. n
      BY <2>2 DEF TableInv
    <2>4. \A r \in t : r.id = q.id => r = s
      BY <2>2 DEF TableInv
    <2>5. q.kind = "toggle" => name = s.name
      <3>1. (CHOOSE r \in t : r.id = q.id) = s
        BY <2>2, <2>4
      <3>2. QED
        BY <1>4, <3>1 DEF NameOf
    <2>6. q.kind = "update" => name = q.name
      BY <1>4
    <2>7. name \in Names
      BY <1>2, <2>3, <2>5, <2>6 DEF Rows
    <2>8. PICK c : c = Changed(t, q.id, name, q.enabled)
      OBVIOUS
    <2>9. /\ c \in SUBSET Rows /\ TableInv(c, n)
          /\ \A r \in t : r.id # q.id => r \in c
          /\ \A r \in c : r.id = q.id => r.name = name
          /\ \A r \in c : r.id # q.id => r \in t
      BY <1>2, <1>6, <2>3, <2>7, <2>8, ChangedRows
    <2>10. q.kind = "toggle" => \A r \in c : \E u \in t : r.id = u.id /\ r.name = u.name
      BY <2>2, <2>5, <2>9
    <2>11. QED
      BY <1>1, <1>3, <2>1, <2>6, <2>8, <2>9, <2>10 DEF Serves, Replied
  <1>7. QED
    BY <1>5, <1>6

\* A router that is deleted is the only one that goes.
LEMMA DeleteServes ==
  ASSUME NEW t \in SUBSET Rows, NEW n \in Nat, TableInv(t, n), NEW q \in Requests,
         q.kind = "delete"
  PROVE  Serves(t, n, q, handleDeleteMikrotikRouter(t, q))
  <1>1. PICK h : h = handleDeleteMikrotikRouter(t, q)
    OBVIOUS
  <1>2. ~IsList(q)
    BY DEF IsList
  <1>3. CASE ~Exists(t, q.id)
    <2>1. h.table = t /\ h.answer = "not_found"
      BY <1>1, <1>3 DEF handleDeleteMikrotikRouter
    <2>2. QED
      BY <1>1, <1>2, <2>1 DEF Serves, Replied
  <1>4. CASE Exists(t, q.id)
    <2>1. h.table = {r \in t : r.id # q.id} /\ h.answer = "ok"
      BY <1>1, <1>4 DEF handleDeleteMikrotikRouter
    <2>2. TableInv(h.table, n)
      BY <2>1 DEF TableInv
    <2>3. QED
      BY <1>1, <1>2, <2>1, <2>2 DEF Serves, Replied
  <1>5. QED
    BY <1>3, <1>4

\* Every request is served so.
LEMMA Handles ==
  ASSUME NEW t \in SUBSET Rows, NEW n \in Nat, TableInv(t, n), NEW q \in Requests,
         q.kind = "create" => q.id = NoId
  PROVE  Serves(t, n, q, Handled(t, q, n + 1))
  <1>1. q.kind \in Kinds
    BY DEF Requests
  <1>2. CASE q.kind = "create"
    <2>1. Handled(t, q, n + 1) = handleCreateMikrotikRouter(t, q, n + 1)
      BY <1>2 DEF Handled
    <2>2. QED
      BY <1>2, <2>1, CreateServes
  <1>3. CASE q.kind \in {"update", "toggle"}
    <2>1. Handled(t, q, n + 1) = handlePatchMikrotikRouter(t, q)
      BY <1>3 DEF Handled
    <2>2. QED
      BY <1>3, <2>1, PatchServes
  <1>4. CASE q.kind = "delete"
    <2>1. Handled(t, q, n + 1) = handleDeleteMikrotikRouter(t, q)
      BY <1>4 DEF Handled
    <2>2. QED
      BY <1>4, <2>1, DeleteServes
  <1>5. CASE q.kind \in {"list", "list after submit", "test"}
    <2>1. PICK h : h = [answer |-> IF q.text = "good" THEN "ok" ELSE "fail", table |-> t]
      OBVIOUS
    <2>2. Handled(t, q, n + 1) = h
      BY <1>5, <2>1 DEF Handled
    <2>3. h.table = t /\ h.answer = IF q.text = "good" THEN "ok" ELSE "fail"
      BY <2>1
    <2>4. q.kind # "create" /\ q.kind # "update"
      BY <1>5
    <2>5. QED
      BY <2>2, <2>3, <2>4 DEF Serves, Replied
  <1>6. QED
    BY <1>1, <1>2, <1>3, <1>4, <1>5 DEF Kinds

-----------------------------------------------------------------------------
(* The settings: what is asked and what arrives.                           *)

\* When another request may be made.
MayAsk(v, q) ==
  /\ q.served = FALSE /\ q.list = {} /\ q.id \in 1 .. v.serial \cup {NoId}
  /\ q.kind = "create" <=> IsSubmit(q) /\ q.id = NoId
  /\ IsList(q) => q.text = "good"
  /\ q.kind = "test" => v.testing /\ \A k \in 1 .. Len(v.reqs) : v.reqs[k].kind # "test"
  /\ Submits(q) => v.submitting /\ \A k \in 1 .. Len(v.reqs) : ~Submits(v.reqs[k])
  /\ IsSubmit(q) => v.formError = "none"
  /\ v.modalOpen /\ ~v.crossed =>
       /\ q.id \in {NoId, v.form.id}
       /\ q.kind = "test" => q.id = v.form.id
       /\ IsSubmit(q) => q.id = v.form.id /\ (v.touched \/ q.name = v.form.name)

\* The page is the same but for its requests and what is known of them.
SamePage(w, v) ==
  /\ w.table = v.table /\ w.serial = v.serial /\ w.routers = v.routers
  /\ w.loading = v.loading /\ w.fetchError = v.fetchError /\ w.modalOpen = v.modalOpen
  /\ w.form = v.form /\ w.formError = v.formError /\ w.submitting = v.submitting
  /\ w.testing = v.testing /\ w.testResult = v.testResult /\ w.told = v.told
  /\ w.crossed = v.crossed /\ w.touched = v.touched

\* A request that is made takes its place behind the others.
LEMMA AskedGrows ==
  ASSUME NEW v \in SettingsViews, NEW q \in Requests
  PROVE  LET w == Requested(v, q)
         IN  /\ w \in SettingsViews /\ SamePage(w, v)
             /\ Len(w.reqs) = Len(v.reqs) + 1 /\ w.reqs[Len(v.reqs) + 1] = q
             /\ \A k \in 1 .. Len(v.reqs) : w.reqs[k] = v.reqs[k]
             /\ w.overtaken <=> (v.overtaken /\ ~IsList(q)) \/ v.reqs # <<>>
  <1>1. v.reqs \in Seq(Requests)
    BY DEF SettingsViews
  <1>2. PICK s \in Seq(Requests) : s = Append(v.reqs, q)
    <2>1. Append(v.reqs, q) \in Seq(Requests)
      BY <1>1, AppendProperties
    <2>2. QED
      BY <2>1
  <1>3. /\ Len(s) = Len(v.reqs) + 1 /\ s[Len(v.reqs) + 1] = q
        /\ \A k \in 1 .. Len(v.reqs) : s[k] = v.reqs[k]
    BY <1>1, <1>2
  <1>4. PICK b \in BOOLEAN : b = ((v.overtaken /\ ~IsList(q)) \/ v.reqs # <<>>)
    OBVIOUS
  <1>5. PICK w : w = [v EXCEPT !.reqs = s, !.overtaken = b]
    OBVIOUS
  <1>6. w = Requested(v, q)
    BY <1>2, <1>4, <1>5 DEF Requested
  <1>7. w \in SettingsViews
    BY <1>2, <1>4, <1>5 DEF SettingsViews
  <1>8. SamePage(w, v) /\ w.reqs = s /\ w.overtaken = b
    BY <1>5 DEF SamePage, SettingsViews
  <1>9. QED
    BY <1>3, <1>4, <1>6, <1>7, <1>8

\* A request more is out: what was known of the others stays so.
LEMMA AskedKeeps ==
  ASSUME NEW v \in SettingsViews, RoutersInv(v), PartsInv(v), NEW q \in Requests,
         MayAsk(v, q)
  PROVE  LET w == Requested(v, q)
         IN  w \in SettingsViews /\ RoutersInv(w) /\ PartsInv(w)
  <1>1. PICK w : w = Requested(v, q)
    OBVIOUS
  <1>2. PICK n \in Nat : n = Len(v.reqs)
    BY DEF SettingsViews
  <1>3. /\ w \in SettingsViews /\ SamePage(w, v)
        /\ Len(w.reqs) = n + 1 /\ w.reqs[n + 1] = q
        /\ \A k \in 1 .. n : w.reqs[k] = v.reqs[k]
    BY <1>1, <1>2, AskedGrows
  <1>4. RoutersInv(w)
    BY <1>3 DEF RoutersInv, SamePage
  <1>5. \A k \in 1 .. n + 1 : k = n + 1 \/ k \in 1 .. n
    OBVIOUS
  <1>6. RequestsInv(w)
    <2>1. \A k \in 1 .. n :
            LET p == v.reqs[k]
            IN  /\ p.id \in 1 .. v.serial \cup {NoId}
                /\ p.kind = "create" <=> IsSubmit(p) /\ p.id = NoId
                /\ IsList(p) => p.text = "good" /\ (p.served => p.answer = "ok")
                /\ \A r \in p.list : r.id \in 1 .. v.serial
      BY <1>2 DEF PartsInv, RequestsInv
    <2>2. QED
      BY <1>3, <1>5, <2>1 DEF RequestsInv, MayAsk, SamePage
  <1>7. ButtonsInv(w)
    <2>1. \A k \in 1 .. n :
            /\ v.reqs[k].kind = "test" => v.testing
            /\ Submits(v.reqs[k]) => v.submitting
            /\ IsSubmit(v.reqs[k]) => v.formError = "none"
      BY <1>2 DEF PartsInv, ButtonsInv
    <2>2. \A j, k \in 1 .. n :
            \/ v.reqs[j].kind = "test" /\ v.reqs[k].kind = "test"
            \/ Submits(v.reqs[j]) /\ Submits(v.reqs[k])
            => j = k
      BY <1>2 DEF PartsInv, ButtonsInv
    <2>3. \A k \in 1 .. n + 1 :
            /\ w.reqs[k].kind = "test" => w.testing
            /\ Submits(w.reqs[k]) => w.submitting
            /\ IsSubmit(w.reqs[k]) => w.formError = "none"
      BY <1>3, <1>5, <2>1 DEF MayAsk, SamePage
    <2>4. \A k \in 1 .. n : /\ q.kind = "test" => v.reqs[k].kind # "test"
                            /\ Submits(q) => ~Submits(v.reqs[k])
      BY <1>2 DEF MayAsk
    <2>5. ASSUME NEW j \in 1 .. n + 1, NEW k \in 1 .. n + 1,
                 \/ w.reqs[j].kind = "test" /\ w.reqs[k].kind = "test"
                 \/ Submits(w.reqs[j]) /\ Submits(w.reqs[k])
          PROVE  j = k
      <3>1. CASE j \in 1 .. n /\ k \in 1 .. n
        BY <1>3, <2>2, <2>5, <3>1
      <3>2. CASE j \in 1 .. n /\ k = n + 1
        BY <1>3, <2>4, <2>5, <3>2
      <3>3. CASE j = n + 1 /\ k \in 1 .. n
        BY <1>3, <2>4, <2>5, <3>3
      <3>4. QED
        BY <1>5, <3>1, <3>2, <3>3
    <2>6. QED
      BY <1>3, <2>3, <2>5 DEF ButtonsInv
  <1>8. FormInv(w)
    <2>1. w.form.id \in 1 .. w.serial \cup {NoId}
      BY <1>3 DEF PartsInv, FormInv, SamePage
    <2>2. ASSUME v.modalOpen, ~v.crossed
          PROVE  /\ w.testResult.text # "none" => w.testResult.for = w.form.id
                 /\ \A k \in 1 .. n + 1 :
                      /\ w.reqs[k].kind = "test" => w.reqs[k].id = w.form.id
                      /\ IsSubmit(w.reqs[k]) =>
                           w.reqs[k].id = w.form.id /\ (w.touched \/ w.reqs[k].name = w.form.name)
      <3>1. \A k \in 1 .. n :
              /\ v.reqs[k].kind = "test" => v.reqs[k].id = v.form.id
              /\ IsSubmit(v.reqs[k]) =>
                   v.reqs[k].id = v.form.id /\ (v.touched \/ v.reqs[k].name = v.form.name)
        BY <1>2, <2>2 DEF PartsInv, FormInv
      <3>2. v.testResult.text # "none" => v.testResult.for = v.form.id
        BY <2>2 DEF PartsInv, FormInv
      <3>3. QED
        BY <1>3, <1>5, <2>2, <3>1, <3>2 DEF MayAsk, SamePage
    <2>3. w.modalOpen = v.modalOpen /\ w.crossed = v.crossed
      BY <1>3 DEF SamePage
    <2>4. QED
      BY <1>3, <2>1, <2>2, <2>3 DEF FormInv
  <1>9. SavedInv(w)
    <2>1. w.modalOpen = v.modalOpen /\ w.crossed = v.crossed /\ w.table = v.table
      BY <1>3 DEF SamePage
    <2>2. ASSUME v.modalOpen, ~v.crossed, NEW k \in 1 .. n + 1, w.reqs[k].served,
                 w.reqs[k].answer = "ok"
          PROVE  /\ w.reqs[k].kind = "create" =>
                      \E r \in w.table :
                        /\ r.name = w.reqs[k].name
                        /\ \A j \in 1 .. n + 1 : w.reqs[j].id # r.id
                 /\ w.reqs[k].kind = "update" =>
                      \A r \in w.table : r.id = w.reqs[k].id => r.name = w.reqs[k].name
      <3>1. k \in 1 .. n
        BY <1>3, <1>5, <2>2 DEF MayAsk
      <3>2. PICK p : p = v.reqs[k] /\ p = w.reqs[k]
        BY <1>3, <3>1
      <3>3. p.kind = "update" => \A r \in v.table : r.id = p.id => r.name = p.name
        BY <1>2, <2>2, <3>1, <3>2, ZenonT(120) DEF PartsInv, SavedInv
      <3>4. ASSUME p.kind = "create"
            PROVE  \E r \in w.table : /\ r.name = p.name
                                      /\ \A j \in 1 .. n + 1 : w.reqs[j].id # r.id
        <4>1. PICK r \in v.table :
                r.name = p.name /\ \A j \in 1 .. n : v.reqs[j].id # r.id
          BY <1>2, <2>2, <3>1, <3>2, <3>4, ZenonT(120) DEF PartsInv, SavedInv
        <4>2. p.id = NoId /\ p.id = v.form.id
          BY <1>2, <2>2, <3>1, <3>2, <3>4, ZenonT(60) DEF PartsInv, RequestsInv, FormInv
        <4>3. r.id # NoId
          BY SettingsAssumption DEF RoutersInv, TableInv
        <4>4. q.id # r.id
          BY <2>2, <4>2, <4>3 DEF MayAsk
        <4>5. QED
          BY <1>3, <1>5, <2>1, <4>1, <4>4
      <3>5. QED
        BY <2>1, <3>2, <3>3, <3>4
    <2>3. QED
      BY <1>3, <2>1, <2>2 DEF SavedInv
  <1>10. QED
    BY <1>1, <1>3, <1>4, <1>6, <1>7, <1>8, <1>9 DEF PartsInv

\* A request that was made alone leaves the list as fresh as it was.
LEMMA AskedFresh ==
  ASSUME NEW v \in SettingsViews, NEW q \in Requests, q.served = FALSE,
         v.reqs = <<>> /\ ~v.overtaken => Current(v) \/ IsList(q)
  PROVE  FreshInv(Requested(v, q))
  <1>1. PICK w : w = Requested(v, q)
    OBVIOUS
  <1>2. /\ SamePage(w, v) /\ Len(w.reqs) = Len(v.reqs) + 1 /\ w.reqs[Len(v.reqs) + 1] = q
        /\ w.overtaken <=> (v.overtaken /\ ~IsList(q)) \/ v.reqs # <<>>
        /\ w \in SettingsViews
    BY <1>1, AskedGrows
  <1>3. ASSUME ~w.overtaken
        PROVE  Len(w.reqs) = 1 /\ w.reqs[1] = q /\ (IsList(q) \/ Current(w))
    <2>1. v.reqs = <<>>
      BY <1>2, <1>3
    <2>2. Len(v.reqs) = 0
      BY <2>1
    <2>3. v.overtaken => IsList(q)
      BY <1>1, <1>2, <1>3, <2>1
    <2>4. Current(w) <=> Current(v)
      BY <1>2 DEF Current, SamePage
    <2>5. QED
      BY <1>2, <2>1, <2>2, <2>3, <2>4
  <1>4. ~w.overtaken => w.reqs # <<>> /\ ~w.reqs[1].served
    <2>1. Len(w.reqs) = 1 => w.reqs # <<>>
      <3>1. PICK l : l = w.reqs
        OBVIOUS
      <3>2. Len(<<>>) = 0
        OBVIOUS
      <3>3. Len(l) = 1 => l # <<>>
        BY <3>2
      <3>4. QED
        BY <3>1, <3>3
    <2>2. QED
      BY <1>3, <2>1
  <1>5. ASSUME ~w.overtaken
        PROVE  IsList(w.reqs[1]) \/ Current(w)
    <2>1. w.reqs[1] = q /\ (IsList(q) \/ Current(w))
      BY <1>3, <1>5
    <2>2. CASE IsList(q)
      BY <2>1, <2>2 DEF IsList
    <2>3. QED
      BY <2>1, <2>2
  <1>6. ASSUME ~w.overtaken PROVE Len(w.reqs) <= 1
    <2>1. Len(w.reqs) = 1
      BY <1>3, <1>6
    <2>2. QED
      BY <2>1
  <1>7. FreshInv(w)
    BY <1>4, <1>5, <1>6 DEF FreshInv
  <1>8. QED
    BY <1>1, <1>7

\* The k-th request has been answered; whether the list is known to be late is b.
Without(v, k, b) == [v EXCEPT !.reqs = RemoveAt(v.reqs, k), !.overtaken = b]

\* The request that has been answered is gone, and with it what could be said only of it.
LEMMA RemovedKeeps ==
  ASSUME NEW v \in SettingsViews, RoutersInv(v), PartsInv(v), NEW k \in 1 .. Len(v.reqs),
         NEW b \in BOOLEAN
  PROVE  LET u == Without(v, k, b)
         IN  /\ u \in SettingsViews /\ RoutersInv(u) /\ PartsInv(u)
             /\ SamePage(u, v) /\ u.overtaken = b
             /\ Len(u.reqs) = Len(v.reqs) - 1
             /\ v.reqs[k].kind = "test" =>
                  \A i \in 1 .. Len(u.reqs) : u.reqs[i].kind # "test"
             /\ Submits(v.reqs[k]) => \A i \in 1 .. Len(u.reqs) : ~Submits(u.reqs[i])
  <1> DEFINE From(i) == IF i < k THEN i ELSE i + 1
  <1>1. v.reqs \in Seq(Requests)
    BY DEF SettingsViews
  <1>2. PICK n \in Nat : n = Len(v.reqs)
    BY <1>1
  <1>3. PICK s \in Seq(Requests) : s = RemoveAt(v.reqs, k)
    BY <1>1, RemovedAt
  <1>4. Len(s) = n - 1 /\ \A i \in 1 .. n - 1 : s[i] = IF i < k THEN v.reqs[i] ELSE v.reqs[i + 1]
    BY <1>1, <1>2, <1>3, RemovedAt
  <1>5. \A i \in 1 .. n - 1 : From(i) \in 1 .. n /\ From(i) # k /\ s[i] = v.reqs[From(i)]
    BY <1>2, <1>4
  <1>6. \A i, j \in 1 .. n - 1 : From(i) = From(j) => i = j
    BY <1>2
  <1> HIDE DEF From
  <1>7. PICK u : u = [v EXCEPT !.reqs = s, !.overtaken = b]
    OBVIOUS
  <1>8. u \in SettingsViews
    BY <1>7 DEF SettingsViews
  <1>9. SamePage(u, v) /\ u.reqs = s /\ u.overtaken = b
    BY <1>7 DEF SamePage, SettingsViews
  <1>10. Len(u.reqs) = n - 1
    BY <1>4, <1>9
  <1>11. RoutersInv(u)
    BY <1>9 DEF RoutersInv, SamePage
  <1>12. RequestsInv(u)
    <2>1. \A m \in 1 .. n :
            LET p == v.reqs[m]
            IN  /\ p.id \in 1 .. v.serial \cup {NoId}
                /\ p.kind = "create" <=> IsSubmit(p) /\ p.id = NoId
                /\ IsList(p) => p.text = "good" /\ (p.served => p.answer = "ok")
                /\ \A r \in p.list : r.id \in 1 .. v.serial
      BY <1>2 DEF PartsInv, RequestsInv
    <2>2. u.serial = v.serial
      BY <1>9 DEF SamePage
    <2>3. \A i \in 1 .. n - 1 : \E m \in 1 .. n : u.reqs[i] = v.reqs[m]
      BY <1>5, <1>9
    <2>4. \A i \in 1 .. n - 1 :
            LET p == u.reqs[i]
            IN  /\ p.id \in 1 .. u.serial \cup {NoId}
                /\ p.kind = "create" <=> IsSubmit(p) /\ p.id = NoId
                /\ IsList(p) => p.text = "good" /\ (p.served => p.answer = "ok")
                /\ \A r \in p.list : r.id \in 1 .. u.serial
      BY <2>1, <2>2, <2>3, SMTT(60)
    <2>5. QED
      BY <1>10, <2>4 DEF RequestsInv
  <1>13. \A m, j \in 1 .. n :
           \/ v.reqs[m].kind = "test" /\ v.reqs[j].kind = "test"
           \/ Submits(v.reqs[m]) /\ Submits(v.reqs[j])
           => m = j
    BY <1>2 DEF PartsInv, ButtonsInv
  <1>14. ButtonsInv(u)
    <2>1. \A m \in 1 .. n :
            /\ v.reqs[m].kind = "test" => v.testing
            /\ Submits(v.reqs[m]) => v.submitting
            /\ IsSubmit(v.reqs[m]) => v.formError = "none"
      BY <1>2 DEF PartsInv, ButtonsInv
    <2>2. \A i \in 1 .. n - 1 :
            /\ u.reqs[i].kind = "test" => u.testing
            /\ Submits(u.reqs[i]) => u.submitting
            /\ IsSubmit(u.reqs[i]) => u.formError = "none"
      BY <1>5, <1>9, <2>1 DEF SamePage
    <2>3. \A i, j \in 1 .. n - 1 :
            \/ u.reqs[i].kind = "test" /\ u.reqs[j].kind = "test"
            \/ Submits(u.reqs[i]) /\ Submits(u.reqs[j])
            => i = j
      BY <1>5, <1>6, <1>9, <1>13
    <2>4. QED
      BY <1>10, <2>2, <2>3 DEF ButtonsInv
  <1>15. FormInv(u)
    <2>1. u.form.id \in 1 .. u.serial \cup {NoId}
      BY <1>9 DEF PartsInv, FormInv, SamePage
    <2>2. ASSUME v.modalOpen, ~v.crossed
          PROVE  /\ u.testResult.text # "none" => u.testResult.for = u.form.id
                 /\ \A i \in 1 .. n - 1 :
                      /\ u.reqs[i].kind = "test" => u.reqs[i].id = u.form.id
                      /\ IsSubmit(u.reqs[i]) =>
                           u.reqs[i].id = u.form.id /\ (u.touched \/ u.reqs[i].name = u.form.name)
      <3>1. \A m \in 1 .. n :
              /\ v.reqs[m].kind = "test" => v.reqs[m].id = v.form.id
              /\ IsSubmit(v.reqs[m]) =>
                   v.reqs[m].id = v.form.id /\ (v.touched \/ v.reqs[m].name = v.form.name)
        BY <1>2, <2>2 DEF PartsInv, FormInv
      <3>2. v.testResult.text # "none" => v.testResult.for = v.form.id
        BY <2>2 DEF PartsInv, FormInv
      <3>3. QED
        BY <1>5, <1>9, <3>1, <3>2 DEF SamePage
    <2>3. u.modalOpen = v.modalOpen /\ u.crossed = v.crossed
      BY <1>9 DEF SamePage
    <2>4. QED
      BY <1>10, <2>1, <2>2, <2>3 DEF FormInv
  <1>16. SavedInv(u)
    <2>1. u.modalOpen = v.modalOpen /\ u.crossed = v.crossed /\ u.table = v.table
      BY <1>9 DEF SamePage
    <2>2. ASSUME v.modalOpen, ~v.crossed, NEW m \in 1 .. n, v.reqs[m].served,
                 v.reqs[m].answer = "ok"
          PROVE  /\ v.reqs[m].kind = "create" =>
                      \E r \in v.table :
                        /\ r.name = v.reqs[m].name
                        /\ \A j \in 1 .. n : v.reqs[j].id # r.id
                 /\ v.reqs[m].kind = "update" =>
                      \A r \in v.table : r.id = v.reqs[m].id => r.name = v.reqs[m].name
      BY <1>2, <2>2 DEF PartsInv, SavedInv
    <2>3. ASSUME v.modalOpen, ~v.crossed, NEW i \in 1 .. n - 1, u.reqs[i].served,
                 u.reqs[i].answer = "ok"
          PROVE  /\ u.reqs[i].kind = "create" =>
                      \E r \in u.table :
                        /\ r.name = u.reqs[i].name
                        /\ \A j \in 1 .. n - 1 : u.reqs[j].id # r.id
                 /\ u.reqs[i].kind = "update" =>
                      \A r \in u.table : r.id = u.reqs[i].id => r.name = u.reqs[i].name
      <3>1. PICK m \in 1 .. n : u.reqs[i] = v.reqs[m]
        BY <1>5, <1>9
      <3>2. PICK p : p = v.reqs[m] /\ p = u.reqs[i]
        BY <3>1
      <3>3. v.reqs[m].served /\ v.reqs[m].answer = "ok"
        BY <2>3, <3>2
      <3>4. p.kind = "update" => \A r \in v.table : r.id = p.id => r.name = p.name
        BY <2>2, <2>3, <3>2, <3>3, ZenonT(120)
      <3>5. ASSUME p.kind = "create"
            PROVE  \E r \in v.table : /\ r.name = p.name
                                      /\ \A j \in 1 .. n : v.reqs[j].id # r.id
        BY <2>2, <2>3, <3>2, <3>3, <3>5, ZenonT(60)
      <3>6. \A j \in 1 .. n - 1 : \E l \in 1 .. n : u.reqs[j] = v.reqs[l]
        BY <1>5, <1>9
      <3>7. ASSUME p.kind = "create"
            PROVE  \E r \in u.table : /\ r.name = p.name
                                      /\ \A j \in 1 .. n - 1 : u.reqs[j].id # r.id
        BY <2>1, <3>5, <3>6, <3>7, SMTT(60)
      <3>8. QED
        BY <2>1, <3>2, <3>4, <3>7
    <2>4. QED
      BY <1>10, <2>1, <2>3 DEF SavedInv
  <1>17. /\ v.reqs[k].kind = "test" => \A i \in 1 .. n - 1 : u.reqs[i].kind # "test"
         /\ Submits(v.reqs[k]) => \A i \in 1 .. n - 1 : ~Submits(u.reqs[i])
    BY <1>2, <1>5, <1>9, <1>13
  <1>18. u = Without(v, k, b)
    BY <1>3, <1>7 DEF Without
  <1>19. QED
    BY <1>2, <1>8, <1>9, <1>10, <1>11, <1>12, <1>14, <1>15, <1>16, <1>17, <1>18
       DEF PartsInv

\* Serving a request keeps what the page, which does not know of it, says.
LEMMA ServedKeeps ==
  ASSUME NEW v \in SettingsViews, SettingsInv(v), NEW k \in 1 .. Len(v.reqs),
         ~v.reqs[k].served
  PROVE  LET q == v.reqs[k]
             h == Handled(v.table, q, v.serial + 1)
             w == [v EXCEPT !.table = h.table,
                    !.serial = IF q.kind = "create" THEN @ + 1 ELSE @,
                    !.reqs[k] = [q EXCEPT !.served = TRUE, !.answer = h.answer,
                                 !.list = IF IsList(q) THEN v.table ELSE {}]]
         IN  w \in SettingsViews /\ SettingsInv(w) /\ w.modalOpen = v.modalOpen
  <1>0. PICK q, h : q = v.reqs[k] /\ h = Handled(v.table, q, v.serial + 1)
    OBVIOUS
  <1>1. /\ v.reqs \in Seq(Requests) /\ v.table \in SUBSET Rows /\ v.serial \in Nat
        /\ v.routers \in SUBSET Rows
    BY DEF SettingsViews
  <1>2. PICK n \in Nat : n = Len(v.reqs)
    BY <1>1
  <1>3. q \in Requests /\ k \in 1 .. n
    BY <1>0, <1>1, <1>2
  <1>4. RoutersInv(v) /\ PartsInv(v) /\ FreshInv(v)
    BY DEF SettingsInv
  <1>5. TableInv(v.table, v.serial)
    BY <1>4 DEF RoutersInv
  <1>6. ASSUME NEW j \in 1 .. n
        PROVE  /\ v.reqs[j].id \in 1 .. v.serial \cup {NoId}
               /\ v.reqs[j].kind = "create" <=> IsSubmit(v.reqs[j]) /\ v.reqs[j].id = NoId
               /\ IsList(v.reqs[j]) => /\ v.reqs[j].text = "good"
                                       /\ v.reqs[j].served => v.reqs[j].answer = "ok"
               /\ \A r \in v.reqs[j].list : r.id \in 1 .. v.serial
    BY <1>2, <1>4 DEF PartsInv, RequestsInv
  <1>7. Serves(v.table, v.serial, q, h)
    <2>1. q.kind = "create" => q.id = NoId
      BY <1>0, <1>3, <1>6
    <2>2. QED
      BY <1>0, <1>1, <1>3, <1>5, <2>1, Handles
  <1>8. PICK rows \in SUBSET Rows : rows = IF IsList(q) THEN v.table ELSE {}
    BY <1>1
  <1>9. PICK said \in Replied : said = h.answer
    BY <1>7 DEF Serves
  <1>10. PICK p : p = [q EXCEPT !.served = TRUE, !.answer = said, !.list = rows]
    OBVIOUS
  <1>11. /\ p \in Requests /\ p.served /\ p.answer = said /\ p.list = rows
         /\ p.kind = q.kind /\ p.id = q.id /\ p.name = q.name /\ p.text = q.text
    <2>1. q \in Requests
      BY <1>3
    <2>2. said \in Replied /\ rows \in SUBSET Rows
      BY <1>8, <1>9
    <2>3. p \in Requests
      BY <1>10, <2>1, <2>2 DEF Requests
    <2>4. /\ p.served /\ p.answer = said /\ p.list = rows
          /\ p.kind = q.kind /\ p.id = q.id /\ p.name = q.name /\ p.text = q.text
      BY <1>10, <2>1 DEF Requests
    <2>5. QED
      BY <2>3, <2>4
  <1>12. PICK s : s = [v.reqs EXCEPT ![k] = p]
    OBVIOUS
  <1>13. /\ s \in Seq(Requests) /\ Len(s) = n
         /\ \A j \in 1 .. n : s[j] = IF j = k THEN p ELSE v.reqs[j]
    BY <1>1, <1>2, <1>3, <1>11, <1>12
  <1>14. PICK m \in Nat : m = IF q.kind = "create" THEN v.serial + 1 ELSE v.serial
    BY <1>1
  <1>15. PICK t \in SUBSET Rows : t = h.table
    BY <1>7 DEF Serves
  <1>16. PICK w : w = [v EXCEPT !.table = t, !.serial = m, !.reqs = s]
    OBVIOUS
  <1>17. w \in SettingsViews
    BY <1>13, <1>14, <1>15, <1>16 DEF SettingsViews
  <1>18. /\ w.table = t /\ w.serial = m /\ w.reqs = s /\ w.routers = v.routers
         /\ w.loading = v.loading /\ w.fetchError = v.fetchError
         /\ w.modalOpen = v.modalOpen /\ w.form = v.form /\ w.formError = v.formError
         /\ w.submitting = v.submitting /\ w.testing = v.testing
         /\ w.testResult = v.testResult /\ w.told = v.told /\ w.crossed = v.crossed
         /\ w.overtaken = v.overtaken /\ w.touched = v.touched
    BY <1>16 DEF SettingsViews
  <1>19. \A i \in 1 .. v.serial : i \in 1 .. m
    BY <1>1, <1>14
  <1>20. RoutersInv(w)
    <2>1. TableInv(t, m)
      BY <1>7, <1>14, <1>15 DEF Serves
    <2>2. \A r \in v.routers : r.id \in 1 .. m
      BY <1>4, <1>19 DEF RoutersInv
    <2>3. QED
      BY <1>4, <1>18, <2>1, <2>2 DEF RoutersInv
  <1>21. RequestsInv(w)
    <2>1. ASSUME NEW j \in 1 .. n
          PROVE  /\ s[j].id \in 1 .. m \cup {NoId}
                 /\ s[j].kind = "create" <=> IsSubmit(s[j]) /\ s[j].id = NoId
                 /\ IsList(s[j]) => /\ s[j].text = "good"
                                    /\ s[j].served => s[j].answer = "ok"
                 /\ \A r \in s[j].list : r.id \in 1 .. m
      <3>1. CASE j # k
        BY <1>6, <1>13, <1>19, <3>1
      <3>2. CASE j = k
        <4>1. s[j] = p
          BY <1>13, <3>2
        <4>2. p.id \in 1 .. m \cup {NoId}
          BY <1>0, <1>3, <1>6, <1>11, <1>19
        <4>3. p.kind = "create" <=> IsSubmit(p) /\ p.id = NoId
          BY <1>0, <1>3, <1>6, <1>11 DEF IsSubmit
        <4>4. IsList(p) => IsList(q) /\ p.text = "good"
          BY <1>0, <1>3, <1>6, <1>11 DEF IsList
        <4>5. IsList(p) => p.answer = "ok"
          BY <1>7, <1>9, <1>11, <4>4 DEF Serves
        <4>6. \A r \in p.list : r.id \in 1 .. m
          BY <1>5, <1>8, <1>11, <1>19 DEF TableInv
        <4>7. QED
          BY <4>1, <4>2, <4>3, <4>4, <4>5, <4>6
      <3>3. QED
        BY <3>1, <3>2
    <2>2. w.reqs = s /\ Len(w.reqs) = n /\ w.serial = m
      BY <1>13, <1>18
    <2>3. QED
      BY <2>1, <2>2 DEF RequestsInv
  <1>22. \A j \in 1 .. n : /\ s[j].kind = v.reqs[j].kind /\ s[j].id = v.reqs[j].id
                           /\ s[j].name = v.reqs[j].name
    BY <1>0, <1>3, <1>11, <1>13
  <1>23. \A j \in 1 .. n : /\ IsSubmit(s[j]) <=> IsSubmit(v.reqs[j])
                           /\ Submits(s[j]) <=> Submits(v.reqs[j])
    BY <1>22 DEF IsSubmit, Submits
  <1>24. \A i, j \in 1 .. n :
           \/ v.reqs[i].kind = "test" /\ v.reqs[j].kind = "test"
           \/ Submits(v.reqs[i]) /\ Submits(v.reqs[j])
           => i = j
    BY <1>2, <1>4 DEF PartsInv, ButtonsInv
  <1>25. ButtonsInv(w)
    <2>1. \A j \in 1 .. n :
            /\ v.reqs[j].kind = "test" => v.testing
            /\ Submits(v.reqs[j]) => v.submitting
            /\ IsSubmit(v.reqs[j]) => v.formError = "none"
      BY <1>2, <1>4 DEF PartsInv, ButtonsInv
    <2>2. \A j \in 1 .. n :
            /\ s[j].kind = "test" => v.testing
            /\ Submits(s[j]) => v.submitting
            /\ IsSubmit(s[j]) => v.formError = "none"
      BY <1>22, <1>23, <2>1
    <2>3. \A i, j \in 1 .. n :
            \/ s[i].kind = "test" /\ s[j].kind = "test"
            \/ Submits(s[i]) /\ Submits(s[j])
            => i = j
      BY <1>22, <1>23, <1>24
    <2>4. w.reqs = s /\ Len(w.reqs) = n
      BY <1>13, <1>18
    <2>5. \A j \in 1 .. n :
            /\ s[j].kind = "test" => w.testing
            /\ Submits(s[j]) => w.submitting
            /\ IsSubmit(s[j]) => w.formError = "none"
      BY <1>18, <2>2
    <2>6. QED
      BY <2>3, <2>4, <2>5 DEF ButtonsInv
  <1>26. FormInv(w)
    <2>1. v.form.id \in 1 .. m \cup {NoId}
      BY <1>4, <1>19 DEF PartsInv, FormInv
    <2>2. ASSUME v.modalOpen, ~v.crossed
          PROVE  /\ v.testResult.text # "none" => v.testResult.for = v.form.id
                 /\ \A j \in 1 .. n :
                      /\ s[j].kind = "test" => s[j].id = v.form.id
                      /\ IsSubmit(s[j]) =>
                           s[j].id = v.form.id /\ (v.touched \/ s[j].name = v.form.name)
      <3>1. \A j \in 1 .. n :
              /\ v.reqs[j].kind = "test" => v.reqs[j].id = v.form.id
              /\ IsSubmit(v.reqs[j]) =>
                   v.reqs[j].id = v.form.id /\ (v.touched \/ v.reqs[j].name = v.form.name)
        BY <1>2, <1>4, <2>2 DEF PartsInv, FormInv
      <3>2. v.testResult.text # "none" => v.testResult.for = v.form.id
        BY <1>4, <2>2 DEF PartsInv, FormInv
      <3>3. QED
        BY <1>22, <1>23, <3>1, <3>2
    <2>3. QED
      BY <1>13, <1>18, <2>1, <2>2 DEF FormInv
  <1>27. SavedInv(w)
    <2>1. ASSUME v.modalOpen, ~v.crossed, NEW i \in 1 .. n, v.reqs[i].served,
                 v.reqs[i].answer = "ok"
          PROVE  /\ v.reqs[i].kind = "create" =>
                      \E r \in v.table :
                        /\ r.name = v.reqs[i].name
                        /\ \A j \in 1 .. n : v.reqs[j].id # r.id
                 /\ v.reqs[i].kind = "update" =>
                      \A r \in v.table : r.id = v.reqs[i].id => r.name = v.reqs[i].name
      BY <1>2, <1>4, <2>1 DEF PartsInv, SavedInv
    <2>2. ASSUME v.modalOpen, ~v.crossed, NEW i \in 1 .. n, i # k, s[i].served,
                 s[i].answer = "ok"
          PROVE  /\ s[i].kind = "create" =>
                      \E r \in t :
                        /\ r.name = s[i].name
                        /\ \A j \in 1 .. n : s[j].id # r.id
                 /\ s[i].kind = "update" =>
                      \A r \in t : r.id = s[i].id => r.name = s[i].name
      <3>1. s[i] = v.reqs[i]
        BY <1>13, <2>2
      <3>2. ASSUME s[i].kind = "create"
            PROVE  \E r \in t : r.name = s[i].name /\ \A j \in 1 .. n : s[j].id # r.id
        <4>1. PICK r \in v.table :
                r.name = v.reqs[i].name /\ \A j \in 1 .. n : v.reqs[j].id # r.id
          BY <2>1, <2>2, <3>1, <3>2
        <4>2. r.id # q.id
          BY <1>0, <1>3, <4>1
        <4>3. r \in t
          BY <1>7, <1>15, <4>2 DEF Serves
        <4>4. QED
          BY <1>22, <3>1, <4>1, <4>3
      <3>3. ASSUME s[i].kind = "update", NEW r \in t, r.id = s[i].id
            PROVE  r.name = s[i].name
        <4>1. Submits(v.reqs[i])
          BY <3>1, <3>3 DEF Submits
        <4>2. ~Submits(q)
          BY <1>0, <1>3, <1>24, <2>2, <4>1
        <4>3. PICK u \in v.table : r.id = u.id /\ r.name = u.name
          BY <1>7, <1>15, <4>2 DEF Serves, Submits
        <4>4. QED
          BY <2>1, <2>2, <3>1, <3>3, <4>3, ZenonT(120)
      <3>4. QED
        BY <3>2, <3>3
    <2>3. s[k] = p
      BY <1>3, <1>13
    <2>4. ASSUME p.answer = "ok", p.kind = "create"
          PROVE  \E r \in t : r.name = p.name /\ \A j \in 1 .. n : s[j].id # r.id
      <3>1. PICK r \in t : r.id = v.serial + 1 /\ r.name = q.name
        BY <1>7, <1>9, <1>11, <1>15, <2>4 DEF Serves
      <3>2. ASSUME NEW j \in 1 .. n PROVE s[j].id # r.id
        <4>1. s[j].id \in 1 .. v.serial \cup {NoId}
          BY <1>6, <1>22
        <4>2. r.id \in Nat /\ r.id \notin 1 .. v.serial
          BY <1>1, <3>1
        <4>3. QED
          BY <4>1, <4>2, SettingsAssumption
      <3>3. QED
        BY <1>11, <3>1, <3>2
    <2>5. ASSUME p.answer = "ok", p.kind = "update"
          PROVE  \A r \in t : r.id = p.id => r.name = p.name
      BY <1>7, <1>9, <1>11, <1>15, <2>5 DEF Serves
    <2>6. ASSUME v.modalOpen, ~v.crossed, NEW i \in 1 .. n, s[i].served,
                 s[i].answer = "ok"
          PROVE  /\ s[i].kind = "create" =>
                      \E r \in t :
                        /\ r.name = s[i].name
                        /\ \A j \in 1 .. n : s[j].id # r.id
                 /\ s[i].kind = "update" =>
                      \A r \in t : r.id = s[i].id => r.name = s[i].name
      <3>1. CASE i # k
        BY <2>2, <2>6, <3>1
      <3>2. CASE i = k
        <4>1. s[i] = p
          BY <2>3, <3>2
        <4>2. p.answer = "ok"
          BY <2>6, <4>1
        <4>3. QED
          BY <2>4, <2>5, <4>1, <4>2
      <3>3. QED
        BY <3>1, <3>2
    <2>7. w.reqs = s /\ Len(w.reqs) = n /\ w.table = t
      BY <1>13, <1>18
    <2>8. ASSUME w.modalOpen, ~w.crossed
          PROVE  v.modalOpen /\ ~v.crossed
      BY <1>18, <2>8
    <2>9. ASSUME w.modalOpen, ~w.crossed, NEW i \in 1 .. n, s[i].served, s[i].answer = "ok"
          PROVE  /\ s[i].kind = "create" =>
                      \E r \in t :
                        /\ r.name = s[i].name
                        /\ \A j \in 1 .. n : s[j].id # r.id
                 /\ s[i].kind = "update" =>
                      \A r \in t : r.id = s[i].id => r.name = s[i].name
      BY <2>6, <2>8, <2>9
    <2>10. ASSUME w.modalOpen /\ ~w.crossed, NEW i \in 1 .. Len(w.reqs)
           PROVE  LET x == w.reqs[i]
                  IN  x.served /\ x.answer = "ok" =>
                        /\ x.kind = "create" =>
                             \E r \in w.table :
                               /\ r.name = x.name
                               /\ \A j \in 1 .. Len(w.reqs) : w.reqs[j].id # r.id
                        /\ x.kind = "update" =>
                             \A r \in w.table : r.id = x.id => r.name = x.name
      BY <2>7, <2>9, <2>10
    <2>11. QED
      BY <2>10 DEF SavedInv
  <1>28. FreshInv(w)
    <2>1. ASSUME ~v.overtaken
          PROVE  /\ n = 1 /\ k = 1 /\ s[1] = p /\ s # <<>>
                 /\ IsList(p) => (p.served => p.list = t)
                 /\ ~IsList(p) => \/ Current(w)
                                  \/ p.served /\ p.answer = "ok" /\ p.kind # "test"
      <3>1. n <= 1
        BY <1>2, <1>4, <2>1 DEF FreshInv
      <3>2. n = 1 /\ k = 1
        BY <1>3, <3>1
      <3>3. s[1] = p /\ s # <<>> /\ v.reqs # <<>> /\ v.reqs[1] = q
        <4>1. Len(s) = 1 /\ Len(v.reqs) = 1
          BY <1>2, <1>13, <3>2
        <4>2. s # <<>> /\ v.reqs # <<>>
          BY <4>1
        <4>3. s[1] = p
          BY <1>13, <3>2
        <4>4. v.reqs[1] = q
          BY <1>0, <3>2
        <4>5. QED
          BY <4>2, <4>3, <4>4
      <3>4. IsList(p) <=> IsList(q)
        BY <1>11 DEF IsList
      <3>5. IsList(p) => p.list = t
        BY <1>7, <1>8, <1>11, <1>15, <3>4 DEF Serves
      <3>6. ASSUME ~IsList(p)
            PROVE  \/ Current(w)
                   \/ p.served /\ p.answer = "ok" /\ p.kind # "test"
        <4>1. Current(v)
          <5>1. ~IsList(q) => Current(v) \/ q.served
            BY <1>4, <2>1, <3>3 DEF FreshInv
          <5>2. QED
            BY <1>0, <3>4, <3>6, <5>1
        <4>2. CASE p.answer = "ok" /\ p.kind # "test"
          BY <1>11, <4>2
        <4>3. CASE ~(p.answer = "ok" /\ p.kind # "test")
          <5>1. t = v.table
            BY <1>7, <1>9, <1>11, <1>15, <4>3 DEF Serves
          <5>2. QED
            BY <1>18, <4>1, <5>1 DEF Current
        <4>4. QED
          BY <4>2, <4>3
      <3>7. QED
        BY <3>2, <3>3, <3>5, <3>6
    <2>2. ASSUME ~w.overtaken
          PROVE  /\ Len(w.reqs) <= 1
                 /\ w.reqs = <<>> => Current(w)
                 /\ w.reqs # <<>> =>
                      LET x == w.reqs[1]
                      IN  /\ IsList(x) => (x.served => x.list = w.table)
                          /\ ~IsList(x) =>
                               \/ Current(w)
                               \/ x.served /\ x.answer = "ok" /\ x.kind # "test"
      <3>1. ~v.overtaken
        BY <1>18, <2>2
      <3>2. w.reqs = s /\ Len(s) = 1 /\ s[1] = p /\ s # <<>> /\ w.table = t
        BY <1>13, <1>18, <2>1, <3>1
      <3>3. PICK x : x = p
        OBVIOUS
      <3>4. IsList(x) => (x.served => x.list = t)
        BY <2>1, <3>1, <3>3
      <3>5. ~IsList(x) => \/ Current(w)
                          \/ x.served /\ x.answer = "ok" /\ x.kind # "test"
        BY <2>1, <3>1, <3>3
      <3>6. x = w.reqs[1] /\ w.reqs # <<>> /\ w.table = t
        BY <3>2, <3>3
      <3>7. Len(w.reqs) <= 1
        <4>1. Len(w.reqs) = 1
          BY <3>2
        <4>2. QED
          BY <4>1
      <3>8. QED
        BY <3>4, <3>5, <3>6, <3>7, Zenon
    <2>3. QED
      BY <2>2 DEF FreshInv
  <1>29. w \in SettingsViews /\ SettingsInv(w) /\ w.modalOpen = v.modalOpen
    BY <1>17, <1>18, <1>20, <1>21, <1>25, <1>26, <1>27, <1>28 DEF SettingsInv, PartsInv
  <1>30. w = [v EXCEPT !.table = h.table,
                !.serial = IF q.kind = "create" THEN @ + 1 ELSE @,
                !.reqs[k] = [q EXCEPT !.served = TRUE, !.answer = h.answer,
                             !.list = IF IsList(q) THEN v.table ELSE {}]]
    BY <1>8, <1>9, <1>10, <1>12, <1>14, <1>15, <1>16
  <1>31. QED
    BY <1>0, <1>29, <1>30

\* No test, and no change or what follows it, is under way.
NoTests(v) == \A k \in 1 .. Len(v.reqs) : v.reqs[k].kind # "test"
\* No request of a form is out.
NoSubmits(v) == \A k \in 1 .. Len(v.reqs) : ~Submits(v.reqs[k])
NoSaves(v) == \A k \in 1 .. Len(v.reqs) : ~IsSubmit(v.reqs[k])

\* What is said of the requests depends on no more of the page than this.
LEMMA PartsCarry ==
  ASSUME NEW u \in SettingsViews, PartsInv(u), NEW w \in SettingsViews,
         w.reqs = u.reqs, w.serial = u.serial, w.table = u.table,
         w.form.id \in 1 .. u.serial \cup {NoId},
         (u.testing => w.testing) \/ NoTests(u),
         (u.submitting => w.submitting) \/ NoSubmits(u),
         w.formError \in {"none", u.formError} \/ NoSubmits(u),
         w.modalOpen /\ ~w.crossed =>
           /\ w.testResult.text # "none" => w.testResult.for = w.form.id
           /\ \/ u.modalOpen /\ ~u.crossed /\ w.form.id = u.form.id
              \/ NoTests(u) /\ NoSubmits(u)
           /\ \/ (u.touched => w.touched) /\ (w.touched \/ w.form.name = u.form.name)
              \/ NoSaves(u)
  PROVE  PartsInv(w)
  <1>1. PICK s \in Seq(Requests) : s = u.reqs /\ s = w.reqs
    BY DEF SettingsViews
  <1>2. PICK n \in Nat : n = Len(s)
    OBVIOUS
  <1>3. \A k \in 1 .. n : IsSubmit(s[k]) => Submits(s[k])
    BY DEF IsSubmit, Submits
  <1>4. NoSubmits(u) => \A k \in 1 .. n : ~Submits(s[k])
    BY <1>1, <1>2 DEF NoSubmits
  <1>5. NoTests(u) => \A k \in 1 .. n : s[k].kind # "test"
    BY <1>1, <1>2 DEF NoTests
  <1>6. RequestsInv(w)
    BY <1>1 DEF PartsInv, RequestsInv
  <1>7. ButtonsInv(w)
    <2>1. \A k \in 1 .. n :
            /\ s[k].kind = "test" => u.testing
            /\ Submits(s[k]) => u.submitting
            /\ IsSubmit(s[k]) => u.formError = "none"
      BY <1>1, <1>2 DEF PartsInv, ButtonsInv
    <2>2. \A j, k \in 1 .. n :
            \/ s[j].kind = "test" /\ s[k].kind = "test"
            \/ Submits(s[j]) /\ Submits(s[k])
            => j = k
      BY <1>1, <1>2 DEF PartsInv, ButtonsInv
    <2>3. ASSUME NEW k \in 1 .. n, s[k].kind = "test" PROVE w.testing
      BY <1>5, <2>1, <2>3
    <2>4. ASSUME NEW k \in 1 .. n, Submits(s[k]) PROVE w.submitting
      BY <1>4, <2>1, <2>4
    <2>5. ASSUME NEW k \in 1 .. n, IsSubmit(s[k]) PROVE w.formError = "none"
      BY <1>3, <1>4, <2>1, <2>5
    <2>6. QED
      BY <1>1, <1>2, <2>2, <2>3, <2>4, <2>5 DEF ButtonsInv
  <1>8. FormInv(w)
    <2>1. ASSUME w.modalOpen, ~w.crossed, NEW k \in 1 .. n
          PROVE  /\ s[k].kind = "test" => s[k].id = w.form.id
                 /\ IsSubmit(s[k]) =>
                      s[k].id = w.form.id /\ (w.touched \/ s[k].name = w.form.name)
      <3>1. CASE NoTests(u) /\ NoSubmits(u)
        BY <1>3, <1>4, <1>5, <3>1
      <3>2. CASE u.modalOpen /\ ~u.crossed /\ w.form.id = u.form.id
        <4>1. /\ s[k].kind = "test" => s[k].id = u.form.id
              /\ IsSubmit(s[k]) =>
                   s[k].id = u.form.id /\ (u.touched \/ s[k].name = u.form.name)
          BY <1>1, <1>2, <3>2 DEF PartsInv, FormInv
        <4>2. IsSubmit(s[k]) =>
                (u.touched => w.touched) /\ (w.touched \/ w.form.name = u.form.name)
          BY <1>1, <1>2, <2>1 DEF NoSaves
        <4>3. QED
          BY <3>2, <4>1, <4>2
      <3>3. QED
        BY <2>1, <3>1, <3>2
    <2>2. ASSUME w.modalOpen, ~w.crossed
          PROVE  w.testResult.text # "none" => w.testResult.for = w.form.id
      BY <2>2
    <2>3. QED
      BY <1>1, <1>2, <2>1, <2>2 DEF FormInv
  <1>9. SavedInv(w)
    <2>1. ASSUME w.modalOpen, ~w.crossed, NEW k \in 1 .. n, Submits(s[k])
          PROVE  u.modalOpen /\ ~u.crossed
      BY <1>4, <2>1
    <2>2. ASSUME w.modalOpen /\ ~w.crossed, NEW k \in 1 .. n
          PROVE  LET x == s[k]
                 IN  x.served /\ x.answer = "ok" =>
                       /\ x.kind = "create" =>
                            \E r \in w.table :
                              /\ r.name = x.name
                              /\ \A j \in 1 .. n : s[j].id # r.id
                       /\ x.kind = "update" =>
                            \A r \in w.table : r.id = x.id => r.name = x.name
      <3>1. CASE ~Submits(s[k])
        BY <3>1 DEF Submits
      <3>2. CASE Submits(s[k])
        <4>1. u.modalOpen /\ ~u.crossed
          BY <2>1, <2>2, <3>2
        <4>2. LET x == s[k]
              IN  x.served /\ x.answer = "ok" =>
                    /\ x.kind = "create" =>
                         \E r \in u.table :
                           /\ r.name = x.name
                           /\ \A j \in 1 .. n : s[j].id # r.id
                    /\ x.kind = "update" =>
                         \A r \in u.table : r.id = x.id => r.name = x.name
          BY <1>1, <1>2, <4>1 DEF PartsInv, SavedInv
        <4>3. QED
          BY <4>2
      <3>3. QED
        BY <3>1, <3>2
    <2>3. QED
      BY <1>1, <1>2, <2>2 DEF SavedInv
  <1>10. QED
    BY <1>6, <1>7, <1>8, <1>9 DEF PartsInv

\* With no request out, or known to be late, the list need only be as it should.
LEMMA FreshAlone ==
  ASSUME NEW w, ~w.overtaken => w.reqs = <<>> /\ Current(w)
  PROVE  FreshInv(w)
  <1>1. Len(<<>>) = 0
    OBVIOUS
  <1>2. QED
    BY <1>1 DEF FreshInv

\* A change of the form leaves the list as it is.
LEMMA FreshCarry ==
  ASSUME NEW u \in SettingsViews, SettingsInv(u), NEW w \in SettingsViews,
         w.reqs = u.reqs, w.table = u.table, w.serial = u.serial, w.routers = u.routers,
         w.overtaken = u.overtaken, w.loading = u.loading, w.fetchError = u.fetchError,
         w.told = u.told
  PROVE  FreshInv(w) /\ RoutersInv(w)
  <1>1. RoutersInv(u) /\ FreshInv(u)
    BY DEF SettingsInv
  <1>2. Current(w) <=> Current(u)
    BY DEF Current
  <1>3. FreshInv(w)
    BY <1>1, <1>2 DEF FreshInv
  <1>4. RoutersInv(w)
    BY <1>1 DEF RoutersInv
  <1>5. QED
    BY <1>3, <1>4

\* A request for the list that the page makes by itself.
LEMMA ListIsAsked ==
  ASSUME NEW kind \in {"list", "list after submit"}
  PROVE  LET q == ListRequest(kind)
         IN  /\ q \in Requests /\ q.served = FALSE /\ q.list = {} /\ q.id = NoId
             /\ q.text = "good" /\ q.kind = kind /\ IsList(q) /\ ~IsSubmit(q)
             /\ Submits(q) <=> kind = "list after submit"
  <1>1. PICK q : q = [kind |-> kind, id |-> NoId, name |-> "", enabled |-> TRUE,
                      text |-> "good", served |-> FALSE, answer |-> "none", list |-> {}]
    OBVIOUS
  <1>2. q = ListRequest(kind)
    BY <1>1 DEF ListRequest, Request
  <1>3. q \in Requests
    <2>1. "" \in Names /\ "good" \in Texts
      BY DEF Names, Texts
    <2>2. NoId \in Ids /\ kind \in Kinds /\ "none" \in Replied
      BY DEF Ids, Kinds, Replied
    <2>3. {} \in SUBSET Rows
      OBVIOUS
    <2>4. QED
      BY <1>1, <2>1, <2>2, <2>3 DEF Requests
  <1>4. q.kind = kind /\ q.served = FALSE /\ q.list = {} /\ q.id = NoId /\ q.text = "good"
    BY <1>1
  <1>5. IsList(q) /\ ~IsSubmit(q) /\ (Submits(q) <=> kind = "list after submit")
    BY <1>4 DEF IsList, IsSubmit, Submits
  <1>6. QED
    BY <1>2, <1>3, <1>4, <1>5

\* A list arrives, or does not.
LEMMA ListArrivesKeeps ==
  ASSUME NEW u \in SettingsViews, RoutersInv(u), PartsInv(u), NEW p \in Requests, IsList(p),
         Submits(p) => NoSubmits(u), \A r \in p.list : r.id \in 1 .. u.serial,
         ~u.overtaken => u.reqs = <<>> /\ (p.answer = "ok" => p.list = u.table)
  PROVE  LET w == ListArrives(u, p)
         IN  w \in SettingsViews /\ SettingsInv(w) /\ w.modalOpen = u.modalOpen
  <1>1. /\ u.routers \in SUBSET Rows /\ u.told \in BOOLEAN /\ u.submitting \in BOOLEAN
        /\ p.list \in SUBSET Rows
    BY DEF SettingsViews, Requests
  <1>2. PICK e \in BOOLEAN : e = (p.answer # "ok")
    OBVIOUS
  <1>3. PICK rows \in SUBSET Rows : rows = IF p.answer = "ok" THEN p.list ELSE u.routers
    BY <1>1
  <1>4. PICK told \in BOOLEAN : told = (u.told \/ p.answer = "ok")
    OBVIOUS
  <1>5. PICK busy \in BOOLEAN : busy = (u.submitting /\ p.kind # "list after submit")
    OBVIOUS
  <1>6. PICK w : w = [u EXCEPT !.loading = FALSE, !.fetchError = e, !.routers = rows,
                               !.told = told, !.submitting = busy]
    OBVIOUS
  <1>7. w = ListArrives(u, p)
    BY <1>2, <1>3, <1>4, <1>5, <1>6 DEF ListArrives
  <1>8. e \in BOOLEAN /\ told \in BOOLEAN /\ busy \in BOOLEAN /\ rows \in SUBSET Rows
    BY <1>2, <1>3, <1>4, <1>5
  <1>9. w \in SettingsViews
    BY <1>6, <1>8, ZenonT(120) DEF SettingsViews
  <1>10. /\ w.table = u.table /\ w.serial = u.serial /\ w.routers = rows
         /\ w.loading = FALSE /\ w.fetchError = e /\ w.modalOpen = u.modalOpen
         /\ w.form = u.form /\ w.formError = u.formError /\ w.submitting = busy
         /\ w.testing = u.testing /\ w.testResult = u.testResult /\ w.told = told
         /\ w.crossed = u.crossed /\ w.overtaken = u.overtaken /\ w.reqs = u.reqs
         /\ w.touched = u.touched
    BY <1>6 DEF SettingsViews
  <1>11. RoutersInv(w)
    <2>1. \A r \in rows : r.id \in 1 .. u.serial
      BY <1>3 DEF RoutersInv
    <2>2. e \/ told
      BY <1>2, <1>4
    <2>3. QED
      BY <1>10, <2>1, <2>2 DEF RoutersInv
  <1>12. PartsInv(w)
    <2>1. (u.submitting => w.submitting) \/ NoSubmits(u)
      <3>1. CASE p.kind = "list after submit"
        BY <3>1 DEF Submits
      <3>2. CASE p.kind # "list after submit"
        BY <1>5, <1>10, <3>2
      <3>3. QED
        BY <3>1, <3>2
    <2>2. w.form.id \in 1 .. u.serial \cup {NoId}
      BY <1>10 DEF PartsInv, FormInv
    <2>3. ASSUME w.modalOpen, ~w.crossed
          PROVE  /\ w.testResult.text # "none" => w.testResult.for = w.form.id
                 /\ u.modalOpen /\ ~u.crossed /\ w.form.id = u.form.id
                 /\ w.form.name = u.form.name /\ (w.touched <=> u.touched)
      BY <1>10, <2>3 DEF PartsInv, FormInv
    <2>4. /\ w.reqs = u.reqs /\ w.serial = u.serial /\ w.table = u.table
          /\ w.formError = u.formError /\ (u.testing => w.testing)
      BY <1>10
    <2>5. QED
      BY <1>9, <2>1, <2>2, <2>3, <2>4, PartsCarry
  <1>13. FreshInv(w)
    <2>1. ASSUME ~w.overtaken PROVE w.reqs = <<>> /\ Current(w)
      <3>1. u.reqs = <<>> /\ (p.answer = "ok" => p.list = u.table)
        BY <1>10, <2>1
      <3>2. e \/ rows = u.table
        BY <1>2, <1>3, <3>1
      <3>3. QED
        BY <1>10, <3>1, <3>2 DEF Current
    <2>2. QED
      BY <2>1, FreshAlone
  <1>14. QED
    BY <1>7, <1>9, <1>10, <1>11, <1>12, <1>13 DEF SettingsInv

\* The answer to a test is shown in whatever form there is.
LEMMA TestArrivesKeeps ==
  ASSUME NEW u \in SettingsViews, RoutersInv(u), PartsInv(u), NEW p \in Requests,
         NoTests(u), u.modalOpen /\ ~u.crossed => p.id = u.form.id,
         ~u.overtaken => u.reqs = <<>> /\ Current(u)
  PROVE  LET w == TestArrives(u, p)
         IN  w \in SettingsViews /\ SettingsInv(w) /\ w.modalOpen = u.modalOpen
  <1>1. PICK res : res = [text |-> IF p.answer = "ok" THEN "ok" ELSE "fail", for |-> p.id]
    OBVIOUS
  <1>2. res \in TestResults /\ res.for = p.id
    BY <1>1 DEF TestResults, Requests
  <1>3. PICK w : w = [u EXCEPT !.testing = FALSE, !.testResult = res]
    OBVIOUS
  <1>4. w = TestArrives(u, p)
    BY <1>1, <1>3 DEF TestArrives
  <1>5. w \in SettingsViews
    BY <1>2, <1>3 DEF SettingsViews
  <1>6. /\ w.table = u.table /\ w.serial = u.serial /\ w.routers = u.routers
        /\ w.loading = u.loading /\ w.fetchError = u.fetchError /\ w.modalOpen = u.modalOpen
        /\ w.form = u.form /\ w.formError = u.formError /\ w.submitting = u.submitting
        /\ w.testResult = res /\ w.told = u.told
        /\ w.crossed = u.crossed /\ w.overtaken = u.overtaken /\ w.reqs = u.reqs
        /\ w.touched = u.touched
    BY <1>3 DEF SettingsViews
  <1>7. RoutersInv(w)
    BY <1>6 DEF RoutersInv
  <1>8. PartsInv(w)
    <2>1. w.form.id \in 1 .. u.serial \cup {NoId}
      BY <1>6 DEF PartsInv, FormInv
    <2>2. ASSUME w.modalOpen, ~w.crossed
          PROVE  /\ w.testResult.text # "none" => w.testResult.for = w.form.id
                 /\ u.modalOpen /\ ~u.crossed /\ w.form.id = u.form.id
                 /\ w.form.name = u.form.name /\ (w.touched <=> u.touched)
      BY <1>2, <1>6, <2>2
    <2>3. /\ w.reqs = u.reqs /\ w.serial = u.serial /\ w.table = u.table
          /\ w.formError = u.formError /\ (u.submitting => w.submitting)
      BY <1>6
    <2>4. QED
      BY <1>5, <2>1, <2>2, <2>3, PartsCarry
  <1>9. FreshInv(w)
    <2>1. Current(u) => Current(w)
      BY <1>6 DEF Current
    <2>2. ASSUME ~w.overtaken PROVE w.reqs = <<>> /\ Current(w)
      BY <1>6, <2>1, <2>2
    <2>3. QED
      BY <2>2, FreshAlone
  <1>10. QED
    BY <1>4, <1>5, <1>6, <1>7, <1>8, <1>9 DEF SettingsInv

\* The list is asked for after a row has been changed.
LEMMA RowArrivesKeeps ==
  ASSUME NEW u \in SettingsViews, RoutersInv(u), PartsInv(u), NEW p \in Requests,
         ~u.overtaken => u.reqs = <<>> /\ (p.answer # "ok" => Current(u))
  PROVE  LET w == RowArrives(u, p)
         IN  w \in SettingsViews /\ SettingsInv(w) /\ w.modalOpen = u.modalOpen
  <1>1. CASE p.answer # "ok"
    <2>1. RowArrives(u, p) = u
      BY <1>1 DEF RowArrives
    <2>2. FreshInv(u)
      BY <1>1, FreshAlone
    <2>3. QED
      BY <2>1, <2>2 DEF SettingsInv
  <1>2. CASE p.answer = "ok"
    <2>1. PICK q : q = ListRequest("list")
      OBVIOUS
    <2>2. /\ q \in Requests /\ q.served = FALSE /\ q.list = {} /\ q.id = NoId
          /\ q.text = "good" /\ q.kind = "list" /\ IsList(q) /\ ~IsSubmit(q) /\ ~Submits(q)
      BY <2>1, ListIsAsked
    <2>3. PICK w : w = Requested(u, q)
      OBVIOUS
    <2>4. RowArrives(u, p) = w
      BY <1>2, <2>1, <2>3 DEF RowArrives
    <2>5. MayAsk(u, q)
      BY <2>2 DEF MayAsk
    <2>6. w \in SettingsViews /\ RoutersInv(w) /\ PartsInv(w)
      BY <2>2, <2>3, <2>5, AskedKeeps
    <2>7. FreshInv(w)
      BY <2>2, <2>3, AskedFresh
    <2>8. w.modalOpen = u.modalOpen
      BY <2>2, <2>3, AskedGrows DEF SamePage
    <2>9. QED
      BY <2>4, <2>6, <2>7, <2>8 DEF SettingsInv
  <1>3. QED
    BY <1>1, <1>2

\* A form that was saved is closed and the list is asked for; one that was not stays open.
LEMMA SubmitArrivesKeeps ==
  ASSUME NEW u \in SettingsViews, RoutersInv(u), PartsInv(u), NEW p \in Requests,
         NoSubmits(u), u.submitting,
         ~u.overtaken => u.reqs = <<>> /\ (p.answer # "ok" => Current(u))
  PROVE  LET w == SubmitArrives(u, p)
         IN  /\ w \in SettingsViews /\ SettingsInv(w)
             /\ p.answer # "ok" => w.modalOpen = u.modalOpen
  <1>1. CASE p.answer # "ok"
    <2>1. PICK e : e = FormErrorOf(p.answer)
      OBVIOUS
    <2>2. e \in {"name_taken", "invalid_param", "generic"}
      BY <2>1 DEF FormErrorOf
    <2>3. PICK w : w = [u EXCEPT !.formError = e, !.submitting = FALSE]
      OBVIOUS
    <2>4. w = SubmitArrives(u, p)
      BY <1>1, <2>1, <2>3 DEF SubmitArrives
    <2>5. w \in SettingsViews
      BY <2>2, <2>3 DEF SettingsViews
    <2>6. /\ w.table = u.table /\ w.serial = u.serial /\ w.routers = u.routers
          /\ w.loading = u.loading /\ w.fetchError = u.fetchError
          /\ w.modalOpen = u.modalOpen /\ w.form = u.form /\ w.testing = u.testing
          /\ w.testResult = u.testResult /\ w.told = u.told
          /\ w.crossed = u.crossed /\ w.overtaken = u.overtaken /\ w.reqs = u.reqs
          /\ w.touched = u.touched
      BY <2>3 DEF SettingsViews
    <2>7. RoutersInv(w)
      BY <2>6 DEF RoutersInv
    <2>8. PartsInv(w)
      <3>1. w.form.id \in 1 .. u.serial \cup {NoId}
        BY <2>6 DEF PartsInv, FormInv
      <3>2. ASSUME w.modalOpen, ~w.crossed
            PROVE  /\ w.testResult.text # "none" => w.testResult.for = w.form.id
                   /\ u.modalOpen /\ ~u.crossed /\ w.form.id = u.form.id
                   /\ w.form.name = u.form.name /\ (w.touched <=> u.touched)
        BY <2>6, <3>2 DEF PartsInv, FormInv
      <3>3. /\ w.reqs = u.reqs /\ w.serial = u.serial /\ w.table = u.table
            /\ (u.testing => w.testing)
        BY <2>6
      <3>4. QED
        BY <2>5, <3>1, <3>2, <3>3, PartsCarry
    <2>9. FreshInv(w)
      <3>1. Current(u) => Current(w)
        BY <2>6 DEF Current
      <3>2. ASSUME ~w.overtaken PROVE w.reqs = <<>> /\ Current(w)
        BY <1>1, <2>6, <3>1, <3>2
      <3>3. QED
        BY <3>2, FreshAlone
    <2>10. QED
      BY <2>4, <2>5, <2>6, <2>7, <2>8, <2>9 DEF SettingsInv
  <1>2. CASE p.answer = "ok"
    <2>1. PICK q : q = ListRequest("list after submit")
      OBVIOUS
    <2>2. /\ q \in Requests /\ q.served = FALSE /\ q.list = {} /\ q.id = NoId
          /\ q.text = "good" /\ q.kind = "list after submit" /\ IsList(q) /\ ~IsSubmit(q)
      BY <2>1, ListIsAsked
    <2>3. PICK x : x = [u EXCEPT !.modalOpen = FALSE]
      OBVIOUS
    <2>4. PICK w : w = Requested(x, q)
      OBVIOUS
    <2>5. SubmitArrives(u, p) = w
      BY <1>2, <2>1, <2>3, <2>4 DEF SubmitArrives
    <2>6. x \in SettingsViews
      BY <2>3 DEF SettingsViews
    <2>7. /\ x.table = u.table /\ x.serial = u.serial /\ x.routers = u.routers
          /\ x.loading = u.loading /\ x.fetchError = u.fetchError
          /\ x.modalOpen = FALSE /\ x.form = u.form /\ x.testing = u.testing
          /\ x.formError = u.formError /\ x.submitting = u.submitting /\ x.told = u.told
          /\ x.reqs = u.reqs
      BY <2>3 DEF SettingsViews
    <2>8. RoutersInv(x)
      BY <2>7 DEF RoutersInv
    <2>9. PartsInv(x)
      <3>1. x.form.id \in 1 .. u.serial \cup {NoId}
        BY <2>7 DEF PartsInv, FormInv
      <3>2. /\ x.reqs = u.reqs /\ x.serial = u.serial /\ x.table = u.table
            /\ (u.testing => x.testing) /\ (u.submitting => x.submitting)
            /\ x.formError = u.formError /\ ~x.modalOpen
        BY <2>7
      <3>3. QED
        BY <2>6, <3>1, <3>2, PartsCarry
    <2>10. MayAsk(x, q)
      <3>1. \A k \in 1 .. Len(x.reqs) : ~Submits(x.reqs[k])
        BY <2>7 DEF NoSubmits
      <3>2. QED
        BY <2>2, <2>7, <3>1 DEF MayAsk
    <2>11. w \in SettingsViews /\ RoutersInv(w) /\ PartsInv(w)
      BY <2>2, <2>4, <2>6, <2>8, <2>9, <2>10, AskedKeeps
    <2>12. FreshInv(w)
      BY <2>2, <2>4, <2>6, AskedFresh
    <2>13. QED
      BY <1>2, <2>5, <2>11, <2>12 DEF SettingsInv
  <1>3. QED
    BY <1>1, <1>2

\* What a form that has closed by itself has left in the table.
SavedClosed(v, w) ==
  v.modalOpen /\ ~w.modalOpen =>
    \/ v.crossed
    \/ /\ v.touched \/ SavedAs(v.table, v.form)
       /\ \E k \in DOMAIN v.reqs :
            LET q == v.reqs[k]
            IN  /\ IsSubmit(q) /\ q.served /\ q.id = v.form.id
                /\ SavedAs(v.table, q)

\* Of one request at most, it is the first.
LEMMA OnlyOne ==
  ASSUME NEW n \in Nat, NEW k \in 1 .. n, n <= 1
  PROVE  n = 1 /\ k = 1
  OBVIOUS

\* What the page hears of a request: its answer, or that it has failed.
Heard(q, ok) == IF ok THEN q ELSE [q EXCEPT !.answer = "failed"]

\* The page without the request that it hears of.
Hears(v, k, ok) == Without(v, k, v.overtaken \/ (~ok /\ ~IsList(v.reqs[k])))

\* What the answer to a request finds when it arrives: the request is gone, nothing else
\* of its kind is out, and the list is as fresh as it says.
LEMMA AnswerFinds ==
  ASSUME NEW v \in SettingsViews, SettingsInv(v), NEW k \in 1 .. Len(v.reqs),
         NEW ok \in BOOLEAN, ok => v.reqs[k].served
  PROVE  LET q == v.reqs[k]
             p == Heard(q, ok)
             u == Hears(v, k, ok)
         IN  /\ p \in Requests /\ p.kind = q.kind /\ p.id = q.id
             /\ p.answer = "ok" => q.served /\ q.answer = "ok"
             /\ \A r \in p.list : r.id \in 1 .. u.serial
             /\ u \in SettingsViews /\ RoutersInv(u) /\ PartsInv(u) /\ SamePage(u, v)
             /\ p.kind = "test" => NoTests(u)
             /\ Submits(p) => NoSubmits(u)
             /\ ~u.overtaken => /\ u.reqs = <<>>
                                /\ IsList(p) /\ p.answer = "ok" => p.list = u.table
                                /\ ~IsList(p) /\ (p.answer # "ok" \/ p.kind = "test") =>
                                     Current(u)
  <1>1. v.reqs \in Seq(Requests) /\ v.overtaken \in BOOLEAN
    BY DEF SettingsViews
  <1>2. PICK q \in Requests : q = v.reqs[k]
    BY <1>1
  <1>3. RoutersInv(v) /\ PartsInv(v) /\ FreshInv(v)
    BY DEF SettingsInv
  <1>4. PICK p : p = Heard(q, ok)
    OBVIOUS
  <1>5. /\ p \in Requests /\ p.kind = q.kind /\ p.id = q.id /\ p.list = q.list
        /\ IF ok THEN p.answer = q.answer ELSE p.answer = "failed"
    BY <1>2, <1>4 DEF Heard, Requests, Replied
  <1>6. p.answer = "ok" => ok /\ q.served /\ q.answer = "ok"
    BY <1>2, <1>5
  <1>7. PICK b \in BOOLEAN : b = (v.overtaken \/ (~ok /\ ~IsList(q)))
    OBVIOUS
  <1>8. PICK u : u = Without(v, k, b)
    OBVIOUS
  <1>9. /\ u \in SettingsViews /\ RoutersInv(u) /\ PartsInv(u)
        /\ SamePage(u, v) /\ u.overtaken = b
        /\ Len(u.reqs) = Len(v.reqs) - 1
        /\ q.kind = "test" => \A i \in 1 .. Len(u.reqs) : u.reqs[i].kind # "test"
        /\ Submits(q) => \A i \in 1 .. Len(u.reqs) : ~Submits(u.reqs[i])
    <2>1. b \in BOOLEAN
      BY <1>7
    <2>2. QED
      BY <1>2, <1>3, <1>8, <2>1, RemovedKeeps
  <1>10. \A r \in p.list : r.id \in 1 .. u.serial
    <2>1. \A r \in q.list : r.id \in 1 .. v.serial
      BY <1>2, <1>3 DEF PartsInv, RequestsInv
    <2>2. u.serial = v.serial
      BY <1>9 DEF SamePage
    <2>3. QED
      BY <1>5, <2>1, <2>2
  <1>11. p.kind = "test" => NoTests(u)
    BY <1>5, <1>9 DEF NoTests
  <1>12. Submits(p) => NoSubmits(u)
    BY <1>5, <1>9 DEF NoSubmits, Submits
  <1>13. IsList(p) <=> IsList(q)
    BY <1>5 DEF IsList
  <1>14. ASSUME ~u.overtaken
         PROVE  /\ u.reqs = <<>>
                /\ IsList(p) /\ p.answer = "ok" => p.list = u.table
                /\ ~IsList(p) /\ (p.answer # "ok" \/ p.kind = "test") => Current(u)
    <2>1. ~v.overtaken /\ (ok \/ IsList(q))
      BY <1>7, <1>9, <1>14
    <2>2. Len(v.reqs) <= 1
      BY <1>3, <2>1 DEF FreshInv
    <2>3. Len(v.reqs) = 1 /\ k = 1
      <3>1. PICK n \in Nat : n = Len(v.reqs)
        BY <1>1
      <3>2. k \in 1 .. n /\ n <= 1
        BY <2>2, <3>1
      <3>3. n = 1 /\ k = 1
        BY <3>1, <3>2, OnlyOne
      <3>4. QED
        BY <3>1, <3>3
    <2>4. u.reqs = <<>>
      <3>1. Len(u.reqs) = 0 /\ u.reqs \in Seq(Requests)
        BY <1>9, <2>3 DEF SettingsViews
      <3>2. QED
        BY <3>1, EmptySeq
    <2>5. v.reqs # <<>> /\ v.reqs[1] = q
      <3>1. v.reqs # <<>>
        BY <2>3, SMTT(60)
      <3>2. QED
        BY <1>2, <2>3, <3>1
    <2>6. Current(u) <=> Current(v)
      BY <1>9 DEF Current, SamePage
    <2>7. IsList(q) => (q.served => q.list = v.table)
      BY <1>3, <2>1, <2>5 DEF FreshInv
    <2>8. ~IsList(q) => Current(v) \/ (q.served /\ q.answer = "ok" /\ q.kind # "test")
      BY <1>3, <2>1, <2>5 DEF FreshInv
    <2>9. IsList(p) /\ p.answer = "ok" => p.list = u.table
      BY <1>5, <1>6, <1>9, <1>13, <2>7 DEF SamePage
    <2>10. ~IsList(p) /\ (p.answer # "ok" \/ p.kind = "test") => Current(u)
      BY <1>5, <1>13, <2>1, <2>6, <2>8
    <2>11. QED
      BY <2>4, <2>9, <2>10
  <1>15. u = Hears(v, k, ok)
    BY <1>2, <1>7, <1>8 DEF Hears
  <1>16. QED
    BY <1>2, <1>4, <1>5, <1>6, <1>9, <1>10, <1>11, <1>12, <1>14, <1>15

\* An answer, or its loss, keeps what the page says; what closes a form has saved it.
LEMMA AnsweredKeeps ==
  ASSUME NEW v \in SettingsViews, SettingsInv(v), NEW k \in 1 .. Len(v.reqs),
         NEW ok \in BOOLEAN, ok => v.reqs[k].served
  PROVE  LET q == v.reqs[k]
             p == Heard(q, ok)
             u == Hears(v, k, ok)
             w == Arrived(u, p)
         IN  w \in SettingsViews /\ SettingsInv(w) /\ SavedClosed(v, w)
  <1>1. v.reqs \in Seq(Requests)
    BY DEF SettingsViews
  <1>2. PICK q \in Requests : q = v.reqs[k]
    BY <1>1
  <1>3. PICK p : p = Heard(q, ok)
    OBVIOUS
  <1>4. PICK u : u = Hears(v, k, ok)
    OBVIOUS
  <1>5. /\ p \in Requests /\ p.kind = q.kind /\ p.id = q.id
        /\ p.answer = "ok" => q.served /\ q.answer = "ok"
        /\ \A r \in p.list : r.id \in 1 .. u.serial
        /\ u \in SettingsViews /\ RoutersInv(u) /\ PartsInv(u) /\ SamePage(u, v)
        /\ p.kind = "test" => NoTests(u)
        /\ Submits(p) => NoSubmits(u)
        /\ ~u.overtaken => /\ u.reqs = <<>>
                           /\ IsList(p) /\ p.answer = "ok" => p.list = u.table
                           /\ ~IsList(p) /\ (p.answer # "ok" \/ p.kind = "test") =>
                                Current(u)
    BY <1>2, <1>3, <1>4, AnswerFinds
  <1>6. u.modalOpen = v.modalOpen /\ u.form = v.form /\ u.crossed = v.crossed
        /\ u.submitting = v.submitting
    BY <1>5 DEF SamePage
  <1>7. PICK w : w = Arrived(u, p)
    OBVIOUS
  <1>8. ASSUME w.modalOpen = u.modalOpen PROVE SavedClosed(v, w)
    BY <1>6, <1>8 DEF SavedClosed
  <1>9. CASE IsList(p)
    <2>1. w = ListArrives(u, p)
      BY <1>7, <1>9 DEF Arrived, IsList
    <2>2. w \in SettingsViews /\ SettingsInv(w) /\ w.modalOpen = u.modalOpen
      BY <1>5, <1>9, <2>1, ListArrivesKeeps
    <2>3. w \in SettingsViews /\ SettingsInv(w) /\ SavedClosed(v, w)
      BY <1>8, <2>2
    <2>4. QED
      BY <1>2, <1>3, <1>4, <1>7, <2>3
  <1>10. CASE IsSubmit(p)
    <2>1. ~IsList(p) /\ Submits(p) /\ p.kind \in {"create", "update"}
      BY <1>10 DEF IsList, Submits, IsSubmit
    <2>2. w = SubmitArrives(u, p)
      BY <1>7, <2>1 DEF Arrived
    <2>3. IsSubmit(q) /\ Submits(q)
      BY <1>5, <1>10, <2>1 DEF IsSubmit, Submits
    <2>4. u.submitting
      <3>1. PartsInv(v)
        BY DEF SettingsInv
      <3>2. v.submitting
        BY <1>2, <2>3, <3>1 DEF PartsInv, ButtonsInv
      <3>3. QED
        BY <1>6, <3>2
    <2>5. ~u.overtaken => u.reqs = <<>> /\ (p.answer # "ok" => Current(u))
      BY <1>5, <2>1
    <2>6. NoSubmits(u)
      BY <1>5, <2>1
    <2>7. /\ w \in SettingsViews /\ SettingsInv(w)
          /\ p.answer # "ok" => w.modalOpen = u.modalOpen
      BY <1>5, <2>2, <2>4, <2>5, <2>6, SubmitArrivesKeeps
    <2>8. ASSUME p.answer = "ok" PROVE SavedClosed(v, w)
      <3>1. q.served /\ q.answer = "ok"
        BY <1>5, <2>8
      <3>2. ASSUME v.modalOpen, ~v.crossed
            PROVE  /\ v.touched \/ SavedAs(v.table, v.form)
                   /\ \E j \in DOMAIN v.reqs :
                        LET x == v.reqs[j]
                        IN  /\ IsSubmit(x) /\ x.served /\ x.id = v.form.id
                            /\ SavedAs(v.table, x)
        <4>1. PartsInv(v)
          BY DEF SettingsInv
        <4>2. q.id = v.form.id /\ (v.touched \/ q.name = v.form.name)
          BY <1>2, <2>3, <3>2, <4>1 DEF PartsInv, FormInv
        <4>3. ASSUME q.kind = "create" PROVE SavedAs(v.table, q)
          <5>1. q.id = NoId
            BY <1>2, <4>1, <4>3 DEF PartsInv, RequestsInv
          <5>2. \E r \in v.table : r.name = q.name
            BY <1>2, <3>1, <3>2, <4>1, <4>3 DEF PartsInv, SavedInv
          <5>3. QED
            BY <5>1, <5>2 DEF SavedAs
        <4>4. ASSUME q.kind = "update" PROVE SavedAs(v.table, q)
          <5>1. \A r \in v.table : r.id = q.id => r.name = q.name
            BY <1>2, <3>1, <3>2, <4>1, <4>4 DEF PartsInv, SavedInv
          <5>2. q.id # NoId
            BY <1>2, <2>3, <4>1, <4>4 DEF PartsInv, RequestsInv
          <5>3. QED
            BY <5>1, <5>2 DEF SavedAs, Exists
        <4>5. SavedAs(v.table, q)
          BY <2>3, <4>3, <4>4 DEF IsSubmit
        <4>6. q.name = v.form.name => SavedAs(v.table, v.form)
          BY <4>2, <4>5 DEF SavedAs
        <4>7. k \in DOMAIN v.reqs
          BY <1>1
        <4>8. QED
          BY <1>2, <2>3, <3>1, <4>2, <4>5, <4>6, <4>7
      <3>3. QED
        BY <3>2 DEF SavedClosed
    <2>9. SavedClosed(v, w)
      BY <1>8, <2>7, <2>8
    <2>10. QED
      BY <1>2, <1>3, <1>4, <1>7, <2>7, <2>9
  <1>11. CASE p.kind = "test"
    <2>1. ~IsList(p) /\ w = TestArrives(u, p)
      BY <1>7, <1>11 DEF Arrived, IsList
    <2>2. u.modalOpen /\ ~u.crossed => p.id = u.form.id
      <3>1. PartsInv(v)
        BY DEF SettingsInv
      <3>2. v.modalOpen /\ ~v.crossed => q.id = v.form.id
        BY <1>2, <1>5, <1>11, <3>1 DEF PartsInv, FormInv
      <3>3. QED
        BY <1>5, <1>6, <3>2
    <2>3. ~u.overtaken => u.reqs = <<>> /\ Current(u)
      BY <1>5, <1>11, <2>1
    <2>4. NoTests(u)
      BY <1>5, <1>11
    <2>5. w \in SettingsViews /\ SettingsInv(w) /\ w.modalOpen = u.modalOpen
      BY <1>5, <2>1, <2>2, <2>3, <2>4, TestArrivesKeeps
    <2>6. w \in SettingsViews /\ SettingsInv(w) /\ SavedClosed(v, w)
      BY <1>8, <2>5
    <2>7. QED
      BY <1>2, <1>3, <1>4, <1>7, <2>6
  <1>12. CASE ~IsList(p) /\ ~IsSubmit(p) /\ p.kind # "test"
    <2>1. w = RowArrives(u, p)
      BY <1>7, <1>12 DEF Arrived, IsSubmit
    <2>2. ~u.overtaken => u.reqs = <<>> /\ (p.answer # "ok" => Current(u))
      BY <1>5, <1>12
    <2>3. w \in SettingsViews /\ SettingsInv(w) /\ w.modalOpen = u.modalOpen
      BY <1>5, <2>1, <2>2, RowArrivesKeeps
    <2>4. w \in SettingsViews /\ SettingsInv(w) /\ SavedClosed(v, w)
      BY <1>8, <2>3
    <2>5. QED
      BY <1>2, <1>3, <1>4, <1>7, <2>4
  <1>13. QED
    BY <1>9, <1>10, <1>11, <1>12

\* What a click or the typing does to the form and its buttons, with no request made.
LEMMA FormChanges ==
  ASSUME NEW u \in SettingsViews, SettingsInv(u), NEW w \in SettingsViews,
         w.table = u.table, w.serial = u.serial, w.routers = u.routers,
         w.loading = u.loading, w.fetchError = u.fetchError, w.told = u.told,
         w.overtaken = u.overtaken, w.reqs = u.reqs,
         w.form.id \in 1 .. u.serial \cup {NoId},
         (u.testing => w.testing) \/ NoTests(u),
         (u.submitting => w.submitting) \/ NoSubmits(u),
         w.formError \in {"none", u.formError} \/ NoSubmits(u),
         w.modalOpen /\ ~w.crossed =>
           /\ w.testResult.text # "none" => w.testResult.for = w.form.id
           /\ \/ u.modalOpen /\ ~u.crossed /\ w.form.id = u.form.id
              \/ NoTests(u) /\ NoSubmits(u)
           /\ \/ (u.touched => w.touched) /\ (w.touched \/ w.form.name = u.form.name)
              \/ NoSaves(u)
  PROVE  SettingsInv(w)
  <1>1. PartsInv(u)
    BY DEF SettingsInv
  <1>2. PartsInv(w)
    BY <1>1, PartsCarry
  <1>3. FreshInv(w) /\ RoutersInv(w)
    BY FreshCarry
  <1>4. QED
    BY <1>2, <1>3 DEF SettingsInv

\* A button that does not wait has nothing out.
LEMMA ButtonsFree ==
  ASSUME NEW v, SettingsInv(v)
  PROVE  /\ ~v.testing => NoTests(v)
         /\ ~v.submitting => NoSubmits(v) /\ NoSaves(v)
         /\ v.formError # "none" => NoSaves(v)
         /\ v.form.id \in 1 .. v.serial \cup {NoId}
  <1>1. ButtonsInv(v) /\ FormInv(v)
    BY DEF SettingsInv, PartsInv
  <1>2. ASSUME ~v.testing PROVE NoTests(v)
    BY <1>1, <1>2 DEF NoTests, ButtonsInv
  <1>3. ASSUME ~v.submitting PROVE NoSubmits(v)
    BY <1>1, <1>3 DEF NoSubmits, ButtonsInv
  <1>4. NoSubmits(v) => NoSaves(v)
    BY DEF NoSubmits, NoSaves, Submits, IsSubmit
  <1>5. ASSUME v.formError # "none" PROVE NoSaves(v)
    BY <1>1, <1>5 DEF NoSaves, ButtonsInv
  <1>6. QED
    BY <1>1, <1>2, <1>3, <1>4, <1>5 DEF FormInv

\* A form is opened: what it says of a test is not of another one.
LEMMA OpenKeeps ==
  ASSUME NEW v \in SettingsViews, SettingsInv(v), NEW f \in Forms,
         f.id \in 1 .. v.serial \cup {NoId}
  PROVE  LET w == openForm(v, f)
         IN  w \in SettingsViews /\ SettingsInv(w)
  <1>1. v.testing \in BOOLEAN /\ v.submitting \in BOOLEAN
    BY DEF SettingsViews
  <1>2. PICK b \in BOOLEAN : b = (v.submitting \/ v.testing)
    OBVIOUS
  <1>3. PICK x : x = NoTest
    OBVIOUS
  <1>4. x \in TestResults /\ x.text = "none"
    BY <1>3 DEF NoTest, TestResults, Ids
  <1>5. PICK w : w = [v EXCEPT !.form = f, !.formError = "none", !.testResult = x,
                               !.modalOpen = TRUE, !.crossed = b, !.touched = FALSE]
    OBVIOUS
  <1>6. w = openForm(v, f)
    BY <1>2, <1>3, <1>5 DEF openForm, UnderWay
  <1>7. w \in SettingsViews
    BY <1>2, <1>4, <1>5 DEF SettingsViews
  <1>8. /\ w.table = v.table /\ w.serial = v.serial /\ w.routers = v.routers
        /\ w.loading = v.loading /\ w.fetchError = v.fetchError /\ w.told = v.told
        /\ w.overtaken = v.overtaken /\ w.reqs = v.reqs
        /\ w.submitting = v.submitting /\ w.testing = v.testing
    BY <1>5 DEF SettingsViews
  <1>9. w.form = f /\ w.formError = "none" /\ w.testResult = x /\ w.crossed = b
    BY <1>5 DEF SettingsViews
  <1>10. ASSUME ~w.crossed PROVE NoTests(v) /\ NoSubmits(v) /\ NoSaves(v)
    <2>1. ~v.testing /\ ~v.submitting
      BY <1>2, <1>9, <1>10
    <2>2. QED
      BY <2>1, ButtonsFree
  <1>11. SettingsInv(w)
    <2>1. w.form.id \in 1 .. v.serial \cup {NoId} /\ w.testResult.text = "none"
      BY <1>4, <1>9
    <2>2. QED
      BY <1>7, <1>8, <1>9, <1>10, <2>1, FormChanges
  <1>12. QED
    BY <1>6, <1>7, <1>11

\* What the operator types makes a form.
LEMMA FormTyped ==
  ASSUME NEW id \in Ids, NEW typed \in Typings
  PROVE  Filled(id, typed) \in Forms /\ Filled(id, typed).id = id
  <1>1. PICK f : f = [id |-> id, name |-> typed.name, enabled |-> typed.enabled,
                      text |-> typed.text]
    OBVIOUS
  <1>2. typed.name \in Names /\ typed.text \in Texts /\ typed.enabled \in BOOLEAN
    BY SettingsAssumption DEF Names, Texts
  <1>3. f \in Forms /\ f.id = id
    BY <1>1, <1>2 DEF Forms
  <1>4. QED
    BY <1>1, <1>3 DEF Filled

\* So does what is known of a router.
LEMMA RouterTyped ==
  ASSUME NEW r \in Rows
  PROVE  FormOf(r) \in Forms /\ FormOf(r).id = r.id
  <1>1. PICK f : f = [id |-> r.id, name |-> r.name, enabled |-> r.enabled, text |-> "nopw"]
    OBVIOUS
  <1>2. /\ r.id \in Ids /\ r.name \in Names /\ r.enabled \in BOOLEAN
        /\ "nopw" \in Texts
    BY DEF Rows, Ids, Texts
  <1>3. f \in Forms /\ f.id = r.id
    BY <1>1, <1>2 DEF Forms
  <1>4. FormOf(r) = f
    BY <1>1 DEF FormOf, Filled
  <1>5. QED
    BY <1>3, <1>4

\* A form that is typed in is still of the same router, and is known to have been changed
\* if its save is out.
LEMMA TypingKeeps ==
  ASSUME NEW v \in SettingsViews, SettingsInv(v), NEW f \in Forms, f.id = v.form.id,
         NEW b \in BOOLEAN, b <=> v.touched \/ v.submitting
  PROVE  LET w == [v EXCEPT !.form = f, !.touched = b]
         IN  w \in SettingsViews /\ SettingsInv(w) /\ w.modalOpen = v.modalOpen
  <1>1. PICK w : w = [v EXCEPT !.form = f, !.touched = b]
    OBVIOUS
  <1>2. w \in SettingsViews
    BY <1>1 DEF SettingsViews
  <1>3. /\ w.table = v.table /\ w.serial = v.serial /\ w.routers = v.routers
        /\ w.loading = v.loading /\ w.fetchError = v.fetchError /\ w.told = v.told
        /\ w.overtaken = v.overtaken /\ w.reqs = v.reqs
        /\ w.submitting = v.submitting /\ w.testing = v.testing
        /\ w.formError = v.formError /\ w.testResult = v.testResult
        /\ w.modalOpen = v.modalOpen /\ w.crossed = v.crossed
    BY <1>1 DEF SettingsViews
  <1>4. w.form.id = v.form.id /\ w.touched = b
    BY <1>1 DEF SettingsViews
  <1>5. (~v.submitting => NoSaves(v)) /\ w.form.id \in 1 .. v.serial \cup {NoId}
    BY <1>4, ButtonsFree
  <1>6. ASSUME w.modalOpen, ~w.crossed
        PROVE  /\ w.testResult.text # "none" => w.testResult.for = w.form.id
               /\ v.modalOpen /\ ~v.crossed /\ w.form.id = v.form.id
    <2>1. FormInv(v)
      BY DEF SettingsInv, PartsInv
    <2>2. v.modalOpen /\ ~v.crossed
      BY <1>3, <1>6
    <2>3. QED
      BY <1>3, <1>4, <2>1, <2>2 DEF FormInv
  <1>7. w.touched \/ NoSaves(v)
    BY <1>4, <1>5
  <1>8. SettingsInv(w)
    BY <1>2, <1>3, <1>5, <1>6, <1>7, FormChanges
  <1>9. QED
    BY <1>1, <1>2, <1>3, <1>8

\* The form is closed.
LEMMA ClosingKeeps ==
  ASSUME NEW v \in SettingsViews, SettingsInv(v)
  PROVE  LET w == [v EXCEPT !.modalOpen = FALSE]
         IN  w \in SettingsViews /\ SettingsInv(w)
  <1>1. PICK w : w = [v EXCEPT !.modalOpen = FALSE]
    OBVIOUS
  <1>2. w \in SettingsViews
    BY <1>1 DEF SettingsViews
  <1>3. /\ w.table = v.table /\ w.serial = v.serial /\ w.routers = v.routers
        /\ w.loading = v.loading /\ w.fetchError = v.fetchError /\ w.told = v.told
        /\ w.overtaken = v.overtaken /\ w.reqs = v.reqs
        /\ w.submitting = v.submitting /\ w.testing = v.testing
        /\ w.formError = v.formError
    BY <1>1 DEF SettingsViews
  <1>4. ~w.modalOpen /\ w.form = v.form
    BY <1>1 DEF SettingsViews
  <1>5. w.form.id \in 1 .. v.serial \cup {NoId}
    BY <1>4, ButtonsFree
  <1>6. SettingsInv(w)
    BY <1>2, <1>3, <1>4, <1>5, FormChanges
  <1>7. QED
    BY <1>1, <1>2, <1>6

\* A form is sent, or it says what is missing.
LEMMA SubmitKeeps ==
  ASSUME NEW v \in SettingsViews, SettingsInv(v), ~v.submitting
  PROVE  LET w == submit(v)
         IN  w \in SettingsViews /\ SettingsInv(w)
  <1>1. /\ NoSubmits(v) /\ NoSaves(v) /\ v.form.id \in 1 .. v.serial \cup {NoId}
    BY ButtonsFree
  <1>2. FormInv(v) /\ RoutersInv(v) /\ PartsInv(v) /\ FreshInv(v)
    BY DEF SettingsInv, PartsInv
  <1>3. /\ v.form \in Forms
    BY DEF SettingsViews
  <1>4. /\ v.form.id \in Ids /\ v.form.name \in Names /\ v.form.enabled \in BOOLEAN
        /\ v.form.text \in Texts
    BY <1>3 DEF Forms
  <1>5. ASSUME NEW e \in {"required_fields", "password_required"},
               submit(v) = [[v EXCEPT !.formError = "none"] EXCEPT !.formError = e]
        PROVE  submit(v) \in SettingsViews /\ SettingsInv(submit(v))
    <2>1. PICK w : w = [v EXCEPT !.formError = e]
      OBVIOUS
    <2>2. submit(v) = w
      BY <1>5, <2>1 DEF SettingsViews
    <2>3. w \in SettingsViews
      BY <2>1 DEF SettingsViews
    <2>4. /\ w.table = v.table /\ w.serial = v.serial /\ w.routers = v.routers
          /\ w.loading = v.loading /\ w.fetchError = v.fetchError /\ w.told = v.told
          /\ w.overtaken = v.overtaken /\ w.reqs = v.reqs
          /\ w.submitting = v.submitting /\ w.testing = v.testing
          /\ w.form = v.form /\ w.testResult = v.testResult
          /\ w.modalOpen = v.modalOpen /\ w.crossed = v.crossed
          /\ w.touched = v.touched
      BY <2>1 DEF SettingsViews
    <2>5. ASSUME w.modalOpen, ~w.crossed
          PROVE  /\ w.testResult.text # "none" => w.testResult.for = w.form.id
                 /\ v.modalOpen /\ ~v.crossed /\ w.form.id = v.form.id
      <3>1. v.modalOpen /\ ~v.crossed
        BY <2>4, <2>5
      <3>2. QED
        BY <1>2, <2>4, <3>1 DEF FormInv
    <2>6. w.form.id \in 1 .. v.serial \cup {NoId}
      BY <1>1, <2>4
    <2>7. SettingsInv(w)
      BY <1>1, <2>3, <2>4, <2>5, <2>6, FormChanges
    <2>8. QED
      BY <2>2, <2>3, <2>7
  <1>6. CASE v.form.text = "blank"
    <2>1. submit(v) = [[v EXCEPT !.formError = "none"] EXCEPT !.formError = "required_fields"]
      BY <1>6 DEF submit
    <2>2. QED
      BY <1>5, <2>1
  <1>7. CASE v.form.text = "nopw" /\ ~isEditing(v)
    <2>1. submit(v) = [[v EXCEPT !.formError = "none"] EXCEPT !.formError = "password_required"]
      BY <1>7 DEF submit
    <2>2. QED
      BY <1>5, <2>1
  <1>8. CASE v.form.text # "blank" /\ ~(v.form.text = "nopw" /\ ~isEditing(v))
    <2>1. PICK kind : kind = IF isEditing(v) THEN "update" ELSE "create"
      OBVIOUS
    <2>2. kind \in {"create", "update"} /\ (kind = "create" <=> v.form.id = NoId)
      BY <2>1 DEF isEditing
    <2>3. PICK q : q = Request(kind, v.form.id, v.form.name, v.form.enabled, v.form.text)
      OBVIOUS
    <2>4. /\ q \in Requests /\ q.served = FALSE /\ q.list = {}
          /\ q.kind = kind /\ q.id = v.form.id /\ q.name = v.form.name
      <3>1. {} \in SUBSET Rows /\ "none" \in Replied /\ kind \in Kinds
        BY <2>2 DEF Kinds, Replied
      <3>2. q \in Requests
        BY <1>4, <2>3, <3>1 DEF Request, Requests
      <3>3. QED
        BY <2>3, <3>2 DEF Request
    <2>5. PICK x : x = [v EXCEPT !.formError = "none", !.submitting = TRUE,
                                 !.touched = FALSE]
      OBVIOUS
    <2>6. x = [[v EXCEPT !.formError = "none"] EXCEPT !.submitting = TRUE,
                                                     !.touched = FALSE]
      BY <2>5 DEF SettingsViews
    <2>7. PICK w : w = Requested(x, q)
      OBVIOUS
    <2>8. submit(v) = w
      BY <1>8, <2>1, <2>3, <2>6, <2>7 DEF submit
    <2>9. x \in SettingsViews
      BY <2>5 DEF SettingsViews
    <2>10. /\ x.table = v.table /\ x.serial = v.serial /\ x.routers = v.routers
           /\ x.loading = v.loading /\ x.fetchError = v.fetchError /\ x.told = v.told
           /\ x.overtaken = v.overtaken /\ x.reqs = v.reqs /\ x.testing = v.testing
           /\ x.form = v.form /\ x.testResult = v.testResult
           /\ x.modalOpen = v.modalOpen /\ x.crossed = v.crossed
      BY <2>5 DEF SettingsViews
    <2>11. x.formError = "none" /\ x.submitting
      BY <2>5 DEF SettingsViews
    <2>12. ASSUME x.modalOpen, ~x.crossed
           PROVE  /\ x.testResult.text # "none" => x.testResult.for = x.form.id
                  /\ v.modalOpen /\ ~v.crossed /\ x.form.id = v.form.id
      <3>1. v.modalOpen /\ ~v.crossed
        BY <2>10, <2>12
      <3>2. QED
        BY <1>2, <2>10, <3>1 DEF FormInv
    <2>13. x.form.id \in 1 .. v.serial \cup {NoId}
      BY <1>1, <2>10
    <2>14. SettingsInv(x)
      BY <1>1, <2>9, <2>10, <2>11, <2>12, <2>13, FormChanges
    <2>15. MayAsk(x, q)
      <3>1. IsSubmit(q) /\ Submits(q) /\ ~IsList(q) /\ q.kind # "test"
        BY <2>2, <2>4 DEF IsSubmit, Submits, IsList
      <3>2. \A k \in 1 .. Len(x.reqs) : ~Submits(x.reqs[k])
        BY <1>1, <2>10 DEF NoSubmits
      <3>3. q.kind = "create" <=> q.id = NoId
        BY <2>2, <2>4
      <3>4. q.id \in 1 .. x.serial \cup {NoId} /\ q.id = x.form.id /\ q.name = x.form.name
        BY <1>1, <2>4, <2>10
      <3>5. QED
        BY <2>4, <2>11, <3>1, <3>2, <3>3, <3>4 DEF MayAsk
    <2>16. w \in SettingsViews /\ RoutersInv(w) /\ PartsInv(w)
      BY <2>4, <2>7, <2>9, <2>14, <2>15, AskedKeeps DEF SettingsInv
    <2>17. x.reqs = <<>> /\ ~x.overtaken => Current(x)
      BY <2>14 DEF SettingsInv, FreshInv
    <2>18. FreshInv(w)
      BY <2>4, <2>7, <2>9, <2>17, AskedFresh
    <2>19. QED
      BY <2>8, <2>16, <2>18 DEF SettingsInv
  <1>9. QED
    BY <1>6, <1>7, <1>8

\* A router is tested, or the form says what is missing.
LEMMA TestKeeps ==
  ASSUME NEW v \in SettingsViews, SettingsInv(v), ~v.testing
  PROVE  LET w == runTest(v)
         IN  w \in SettingsViews /\ SettingsInv(w)
  <1>1. /\ NoTests(v) /\ v.form.id \in 1 .. v.serial \cup {NoId}
    BY ButtonsFree
  <1>2. FormInv(v)
    BY DEF SettingsInv, PartsInv
  <1>3. v.form \in Forms
    BY DEF SettingsViews
  <1>4. /\ v.form.id \in Ids /\ v.form.name \in Names /\ v.form.text \in Texts
    BY <1>3 DEF Forms
  <1>5. ASSUME NEW res \in TestResults, res.text # "none" => res.for = v.form.id,
               NEW b \in BOOLEAN, v.testing => b, NEW w,
               w = [v EXCEPT !.testResult = res, !.testing = b]
        PROVE  /\ w \in SettingsViews /\ SettingsInv(w)
               /\ w.serial = v.serial /\ w.reqs = v.reqs /\ w.form = v.form /\ w.testing = b
    <2>1. w \in SettingsViews
      BY <1>5 DEF SettingsViews
    <2>2. /\ w.table = v.table /\ w.serial = v.serial /\ w.routers = v.routers
          /\ w.loading = v.loading /\ w.fetchError = v.fetchError /\ w.told = v.told
          /\ w.overtaken = v.overtaken /\ w.reqs = v.reqs
          /\ w.submitting = v.submitting /\ w.formError = v.formError
          /\ w.form = v.form /\ w.modalOpen = v.modalOpen /\ w.crossed = v.crossed
          /\ w.touched = v.touched
      BY <1>5 DEF SettingsViews
    <2>3. w.testResult = res /\ w.testing = b
      BY <1>5 DEF SettingsViews
    <2>4. ASSUME w.modalOpen, ~w.crossed
          PROVE  /\ w.testResult.text # "none" => w.testResult.for = w.form.id
                 /\ v.modalOpen /\ ~v.crossed /\ w.form.id = v.form.id
      BY <1>5, <2>2, <2>3, <2>4
    <2>5. w.form.id \in 1 .. v.serial \cup {NoId}
      BY <1>1, <2>2
    <2>6. (v.testing => w.testing) /\ (v.submitting => w.submitting)
      BY <1>5, <2>2, <2>3
    <2>7. SettingsInv(w)
      BY <2>1, <2>2, <2>4, <2>5, <2>6, FormChanges
    <2>8. QED
      BY <2>1, <2>2, <2>3, <2>7
  <1>6. ASSUME NEW text \in {"required_fields", "password_required"},
               runTest(v) = [v EXCEPT !.testResult = [text |-> text, for |-> v.form.id]]
        PROVE  runTest(v) \in SettingsViews /\ SettingsInv(runTest(v))
    <2>1. PICK res : res = [text |-> text, for |-> v.form.id]
      OBVIOUS
    <2>2. res \in TestResults /\ res.for = v.form.id
      BY <1>4, <2>1 DEF TestResults
    <2>3. v.testing = FALSE
      BY DEF SettingsViews
    <2>4. PICK w : w = [v EXCEPT !.testResult = res, !.testing = FALSE]
      OBVIOUS
    <2>5. w = runTest(v)
      BY <1>6, <2>1, <2>3, <2>4, ZenonT(120) DEF SettingsViews
    <2>6. w \in SettingsViews /\ SettingsInv(w)
      BY <1>5, <2>2, <2>3, <2>4
    <2>7. QED
      BY <2>5, <2>6
  <1>7. CASE v.form.text = "blank"
    <2>1. runTest(v) = [v EXCEPT !.testResult = [text |-> "required_fields", for |-> v.form.id]]
      BY <1>7 DEF runTest
    <2>2. QED
      BY <1>6, <2>1
  <1>8. CASE v.form.text = "nopw" /\ ~isEditing(v)
    <2>1. runTest(v) = [v EXCEPT !.testResult = [text |-> "password_required",
                                                 for |-> v.form.id]]
      BY <1>8 DEF runTest
    <2>2. QED
      BY <1>6, <2>1
  <1>9. CASE v.form.text # "blank" /\ ~(v.form.text = "nopw" /\ ~isEditing(v))
    <2>1. PICK q : q = Request("test", v.form.id, v.form.name, TRUE, v.form.text)
      OBVIOUS
    <2>2. /\ q \in Requests /\ q.served = FALSE /\ q.list = {}
          /\ q.kind = "test" /\ q.id = v.form.id
      <3>1. {} \in SUBSET Rows /\ "none" \in Replied /\ "test" \in Kinds
        BY DEF Kinds, Replied
      <3>2. q \in Requests
        BY <1>4, <2>1, <3>1 DEF Request, Requests
      <3>3. QED
        BY <2>1, <3>2 DEF Request
    <2>3. PICK res : res = NoTest
      OBVIOUS
    <2>4. res \in TestResults /\ res.text = "none"
      BY <2>3 DEF NoTest, TestResults, Ids
    <2>5. PICK x : x = [v EXCEPT !.testResult = res, !.testing = TRUE]
      OBVIOUS
    <2>6. PICK w : w = Requested(x, q)
      OBVIOUS
    <2>7. runTest(v) = w
      BY <1>9, <2>1, <2>3, <2>5, <2>6 DEF runTest
    <2>8. /\ x \in SettingsViews /\ SettingsInv(x) /\ x.serial = v.serial
          /\ x.reqs = v.reqs /\ x.form = v.form /\ x.testing
      BY <1>5, <2>4, <2>5
    <2>9. MayAsk(x, q)
      <3>1. ~IsSubmit(q) /\ ~Submits(q) /\ ~IsList(q)
        BY <2>2 DEF IsSubmit, Submits, IsList
      <3>2. \A k \in 1 .. Len(x.reqs) : x.reqs[k].kind # "test"
        BY <1>1, <2>8 DEF NoTests
      <3>3. q.id \in 1 .. x.serial \cup {NoId} /\ q.id = x.form.id
        BY <1>1, <2>2, <2>8
      <3>4. QED
        BY <2>2, <2>8, <3>1, <3>2, <3>3 DEF MayAsk
    <2>10. w \in SettingsViews /\ RoutersInv(w) /\ PartsInv(w)
      BY <2>2, <2>6, <2>8, <2>9, AskedKeeps DEF SettingsInv
    <2>11. x.reqs = <<>> /\ ~x.overtaken => Current(x)
      BY <2>8 DEF SettingsInv, FreshInv
    <2>12. FreshInv(w)
      BY <2>2, <2>6, <2>8, <2>11, AskedFresh
    <2>13. QED
      BY <2>7, <2>10, <2>12 DEF SettingsInv
  <1>10. QED
    BY <1>7, <1>8, <1>9

\* A button of a row of the list: no form is open.
LEMMA RowKeeps ==
  ASSUME NEW v \in SettingsViews, SettingsInv(v), ~v.modalOpen, NEW r \in v.routers,
         NEW kind \in {"toggle", "delete"}
  PROVE  LET w == Requested(v, Request(kind, r.id, r.name, ~r.enabled, "good"))
         IN  w \in SettingsViews /\ SettingsInv(w)
  <1>1. r \in Rows
    BY DEF SettingsViews
  <1>2. PICK on \in BOOLEAN : on = ~r.enabled
    OBVIOUS
  <1>3. r.id \in Ids /\ r.name \in Names /\ "good" \in Texts /\ kind \in Kinds
    BY <1>1 DEF Rows, Ids, Texts, Kinds
  <1>4. r.id \in 1 .. v.serial /\ r.id # NoId
    BY SettingsAssumption DEF SettingsInv, RoutersInv
  <1>5. PICK q : q = Request(kind, r.id, r.name, on, "good")
    OBVIOUS
  <1>6. /\ q \in Requests /\ q.served = FALSE /\ q.list = {}
        /\ q.kind = kind /\ q.id = r.id
    <2>1. {} \in SUBSET Rows /\ "none" \in Replied /\ on \in BOOLEAN
      BY <1>2 DEF Replied
    <2>2. q \in Requests
      BY <1>3, <1>5, <2>1 DEF Request, Requests
    <2>3. QED
      BY <1>5, <2>2 DEF Request
  <1>7. PICK w : w = Requested(v, q)
    OBVIOUS
  <1>8. MayAsk(v, q)
    <2>1. /\ ~IsSubmit(q) /\ ~Submits(q) /\ ~IsList(q) /\ q.kind # "create" /\ q.kind # "test"
      BY <1>6 DEF IsSubmit, Submits, IsList
    <2>2. QED
      BY <1>4, <1>6, <2>1 DEF MayAsk
  <1>9. w \in SettingsViews /\ RoutersInv(w) /\ PartsInv(w)
    BY <1>6, <1>7, <1>8, AskedKeeps DEF SettingsInv
  <1>10. v.reqs = <<>> /\ ~v.overtaken => Current(v)
    BY DEF SettingsInv, FreshInv
  <1>11. FreshInv(w)
    BY <1>6, <1>7, <1>10, AskedFresh
  <1>12. QED
    BY <1>2, <1>5, <1>7, <1>9, <1>11 DEF SettingsInv

\* What a step of the page leads to.
SettingsSteps ==
  /\ view' \in SettingsViews /\ SettingsInv(view') /\ hidden' = hidden
  /\ clicks' = clicks => SavedClosed(view, view')

\* A step of the settings keeps what is said of them, and a form that closes by itself has
\* been saved.
LEMMA SettingsKept ==
  ASSUME view \in SettingsViews, SettingsInv(view), clicks \in Nat, SettingsNext
  PROVE  SettingsSteps
  <1>1. PICK v : v = view
    OBVIOUS
  <1>2. v \in SettingsViews /\ SettingsInv(v)
    BY <1>1
  <1>3. ASSUME NEW w, w \in SettingsViews, SettingsInv(w), w.modalOpen = v.modalOpen,
               Becomes(w)
        PROVE  SettingsSteps
    <2>1. SavedClosed(v, w)
      BY <1>3 DEF SavedClosed
    <2>2. view' = w /\ hidden' = hidden
      BY <1>3 DEF Becomes
    <2>3. QED
      BY <1>1, <1>3, <2>1, <2>2 DEF SettingsSteps
  <1>4. ASSUME NEW w, w \in SettingsViews, SettingsInv(w), Click(w)
        PROVE  SettingsSteps
    <2>1. view' = w /\ hidden' = hidden /\ clicks' = clicks + 1
      BY <1>4 DEF Click
    <2>2. clicks' # clicks
      BY <2>1
    <2>3. QED
      BY <1>4, <2>1, <2>2 DEF SettingsSteps
  <1>5. v.reqs \in Seq(Requests) /\ v.routers \in SUBSET Rows /\ v.form \in Forms
    BY <1>2 DEF SettingsViews
  <1>6. DOMAIN v.reqs = 1 .. Len(v.reqs)
    BY <1>5
  <1>7. CASE SettingsServed
    <2>1. PICK k \in 1 .. Len(v.reqs) :
            /\ ~v.reqs[k].served
            /\ LET q == v.reqs[k]
                   h == Handled(v.table, q, v.serial + 1)
               IN  Becomes([v EXCEPT !.table = h.table,
                     !.serial = IF q.kind = "create" THEN @ + 1 ELSE @,
                     !.reqs[k] = [q EXCEPT !.served = TRUE, !.answer = h.answer,
                                  !.list = IF IsList(q) THEN v.table ELSE {}]])
      BY <1>1, <1>6, <1>7, Zenon DEF SettingsServed
    <2>2. PICK w : w = LET q == v.reqs[k]
                           h == Handled(v.table, q, v.serial + 1)
                       IN  [v EXCEPT !.table = h.table,
                             !.serial = IF q.kind = "create" THEN @ + 1 ELSE @,
                             !.reqs[k] = [q EXCEPT !.served = TRUE, !.answer = h.answer,
                                          !.list = IF IsList(q) THEN v.table ELSE {}]]
      OBVIOUS
    <2>3. Becomes(w)
      BY <2>1, <2>2
    <2>4. w \in SettingsViews /\ SettingsInv(w) /\ w.modalOpen = v.modalOpen
      BY <1>2, <2>1, <2>2, ServedKeeps
    <2>5. QED
      BY <1>3, <2>3, <2>4
  <1>8. CASE SettingsAnswered
    <2>1. PICK k \in 1 .. Len(v.reqs), ok \in BOOLEAN :
            LET q == v.reqs[k]
                u == [v EXCEPT !.reqs = RemoveAt(@, k),
                               !.overtaken = @ \/ (~ok /\ ~IsList(q))]
            IN  /\ ok => q.served
                /\ Becomes(Arrived(u, IF ok THEN q ELSE [q EXCEPT !.answer = "failed"]))
      BY <1>1, <1>6, <1>8, Zenon DEF SettingsAnswered
    <2>2. PICK w : w = Arrived(Hears(v, k, ok), Heard(v.reqs[k], ok))
      OBVIOUS
    <2>3. view' = w /\ hidden' = hidden
      BY <2>1, <2>2 DEF Hears, Heard, Without, Becomes
    <2>4. w \in SettingsViews /\ SettingsInv(w) /\ SavedClosed(v, w)
      BY <1>2, <2>1, <2>2, AnsweredKeeps
    <2>5. QED
      BY <1>1, <2>3, <2>4 DEF SettingsSteps
  <1>9. CASE OpenForm
    <2>1. ASSUME NEW f \in Forms, f.id \in 1 .. v.serial \cup {NoId},
                 Click(openForm(v, f))
          PROVE  SettingsSteps
      BY <1>2, <1>4, <2>1, OpenKeeps
    <2>2. CASE Click(openCreate(v))
      <3>1. PICK f : f = NoForm
        OBVIOUS
      <3>2. f \in Forms /\ f.id = NoId
        BY <3>1 DEF NoForm, Forms, Ids, Names, Texts
      <3>3. Click(openForm(v, f))
        BY <2>2, <3>1 DEF openCreate
      <3>4. QED
        BY <2>1, <3>2, <3>3
    <2>3. CASE \E r \in v.routers : Click(openEdit(v, r))
      <3>1. PICK r \in v.routers : Click(openEdit(v, r))
        BY <2>3
      <3>2. PICK f : f = FormOf(r)
        OBVIOUS
      <3>3. f \in Forms /\ f.id = r.id
        BY <1>5, <3>2, RouterTyped
      <3>4. r.id \in 1 .. v.serial \cup {NoId}
        BY <1>2 DEF SettingsInv, RoutersInv
      <3>5. Click(openForm(v, f))
        BY <3>1, <3>2 DEF openEdit
      <3>6. QED
        BY <2>1, <3>3, <3>4, <3>5
    <2>4. QED
      BY <1>1, <1>9, <2>2, <2>3 DEF OpenForm
  <1>10. CASE EditForm
    <2>1. PICK typed \in Typings :
            Becomes([v EXCEPT !.form = Filled(@.id, typed),
                              !.touched = @ \/ v.submitting])
      BY <1>1, <1>10 DEF EditForm
    <2>2. PICK f : f = Filled(v.form.id, typed)
      OBVIOUS
    <2>3. v.form.id \in Ids
      BY <1>5 DEF Forms
    <2>4. f \in Forms /\ f.id = v.form.id
      BY <2>2, <2>3, FormTyped
    <2>5. PICK b \in BOOLEAN : b = (v.touched \/ v.submitting)
      OBVIOUS
    <2>6. PICK w : w = [v EXCEPT !.form = f, !.touched = b]
      OBVIOUS
    <2>7. w \in SettingsViews /\ SettingsInv(w) /\ w.modalOpen = v.modalOpen
      BY <1>2, <2>4, <2>5, <2>6, TypingKeeps
    <2>8. QED
      BY <1>3, <2>1, <2>2, <2>5, <2>6, <2>7
  <1>11. CASE CloseForm
    <2>1. PICK w : w = [v EXCEPT !.modalOpen = FALSE]
      OBVIOUS
    <2>2. Click(w)
      BY <1>1, <1>11, <2>1 DEF CloseForm
    <2>3. w \in SettingsViews /\ SettingsInv(w)
      BY <1>2, <2>1, ClosingKeeps
    <2>4. QED
      BY <1>4, <2>2, <2>3
  <1>12. CASE SubmitForm
    <2>1. ~v.submitting /\ Click(submit(v))
      BY <1>1, <1>12 DEF SubmitForm
    <2>2. QED
      BY <1>2, <1>4, <2>1, SubmitKeeps
  <1>13. CASE RunTest
    <2>1. ~v.testing /\ Click(runTest(v))
      BY <1>1, <1>13 DEF RunTest
    <2>2. QED
      BY <1>2, <1>4, <2>1, TestKeeps
  <1>14. CASE RowButton
    <2>1. ~v.modalOpen
      BY <1>1, <1>14 DEF RowButton
    <2>2. PICK r \in v.routers, kind \in {"toggle", "delete"} :
            Click(Requested(v, Request(kind, r.id, r.name, ~r.enabled, "good")))
      BY <1>1, <1>14 DEF RowButton
    <2>3. QED
      BY <1>2, <1>4, <2>1, <2>2, RowKeeps
  <1>15. QED
    BY <1>7, <1>8, <1>9, <1>10, <1>11, <1>12, <1>13, <1>14 DEF SettingsNext

-----------------------------------------------------------------------------
(* From page to page.                                                      *)

\* A page is known by its name.
LEMMA PageNamed ==
  ASSUME NEW v \in Views
  PROVE  /\ v.page \in Pages
         /\ v.page = "traffic" <=> v \in TrafficViews
         /\ v.page = "flows" <=> v \in FlowsViews
         /\ v.page = "analytics" <=> v \in AnalyticsViews
         /\ v.page = "exporters" <=> v \in ExportersViews
         /\ v.page = "incidents" <=> v \in ListViews
         /\ v.page = "incident" <=> v \in DetailViews
         /\ v.page = "settings" <=> v \in SettingsViews
  <1>1. v \in TrafficViews => v.page = "traffic"
    BY DEF TrafficViews
  <1>2. v \in FlowsViews => v.page = "flows"
    BY DEF FlowsViews
  <1>3. v \in AnalyticsViews => v.page = "analytics"
    BY DEF AnalyticsViews
  <1>4. v \in ExportersViews => v.page = "exporters"
    BY DEF ExportersViews
  <1>5. v \in ListViews => v.page = "incidents"
    BY DEF ListViews
  <1>6. v \in DetailViews => v.page = "incident"
    BY DEF DetailViews
  <1>7. v \in SettingsViews => v.page = "settings"
    BY DEF SettingsViews
  <1>8. v \in {BGPMounted} => v.page = "bgp"
    BY DEF BGPMounted
  <1>9. QED
    BY <1>1, <1>2, <1>3, <1>4, <1>5, <1>6, <1>7, <1>8 DEF Views, Pages

\* What a page must be that is loaded, or put in the place of another.
Fits(v, h) == v \in Views /\ PageInv(v, h)

\* Each page is mounted as its invariant says: the traffic page,
LEMMA TrafficFits ==
  ASSUME NEW h \in BOOLEAN
  PROVE  Fits(TrafficMounted, h)
  <1>1. PICK none : none = <<>>
    OBVIOUS
  <1>2. none \in Seq(Hosts) /\ Len(none) = 0
    BY <1>1, EmptySeq
  <1>3. PICK c : c = NoChart
    OBVIOUS
  <1>4. c \in Charts(HostOrNone) /\ ~c.up
    BY <1>3 DEF NoChart, Charts, HostOrNone, NoHost
  <1>5. PICK zero \in 0 .. MaxPending, one \in 0 .. MaxPending : one = 1
    BY PageAssumption
  <1>6. PICK w : w =
          [page |-> "traffic",
           rows |-> {}, loadingFirst |-> TRUE, topError |-> FALSE,
           asked |-> one, first |-> TRUE, topInterval |-> FALSE,
           drawerOpen |-> FALSE, drawerUp |-> FALSE, drawerIP |-> NoHost,
           hostgroup |-> NoHost, buckets |-> NoHost,
           drawerLoading |-> FALSE, drawerError |-> "none",
           hostAsked |-> none, hostInterval |-> FALSE, mode |-> "bps", chart |-> c,
           gone |-> {},
           told |-> FALSE, byButton |-> FALSE, crossed |-> FALSE, woken |-> FALSE]
    OBVIOUS
  <1>7. w = TrafficMounted
    BY <1>1, <1>3, <1>5, <1>6, Zenon DEF TrafficMounted
  <1>8. w \in TrafficViews
    BY <1>2, <1>4, <1>6 DEF TrafficViews, HostOrNone, Units
  <1>9. TrafficInv(w, h)
    <2>1. TrafficTimed(w, h)
      BY <1>6 DEF TrafficTimed
    <2>2. DrawerWaits(w) /\ DrawerHears(w)
      BY <1>6 DEF DrawerWaits, DrawerHears
    <2>3. DrawerDraws(w)
      BY <1>4, <1>6 DEF DrawerDraws, DrawerShown
    <2>4. QED
      BY <2>1, <2>2, <2>3 DEF TrafficInv
  <1>10. w \in Views
    BY <1>8 DEF Views
  <1>11. PageInv(w, h)
    BY <1>6, <1>9 DEF PageInv
  <1>12. QED
    BY <1>7, <1>10, <1>11 DEF Fits

\* the flows page,
LEMMA FlowsFits ==
  ASSUME NEW h \in BOOLEAN
  PROVE  Fits(FlowsMounted(h), h)
  <1>1. PICK c : c = NoChart
    OBVIOUS
  <1>2. c \in Charts(WindowOrNone) /\ ~c.up
    BY <1>1 DEF NoChart, Charts, WindowOrNone
  <1>3. PICK one \in 0 .. MaxPending : one = 1
    BY PageAssumption
  <1>4. PICK none : none = NoOverview
    OBVIOUS
  <1>5. PICK w : w =
          [page |-> "flows", overview |-> none, recent |-> "none",
           loadingFirst |-> TRUE, overviewError |-> FALSE, recentError |-> FALSE,
           ovAsked |-> one, rcAsked |-> one, polling |-> TRUE,
           mode |-> "bps", chart |-> c, unseen |-> h]
    OBVIOUS
  <1>6. w = FlowsMounted(h)
    BY <1>1, <1>3, <1>4, <1>5, Zenon DEF FlowsMounted
  <1>7. w \in FlowsViews
    BY <1>2, <1>4, <1>5 DEF FlowsViews, Units
  <1>8. FlowsInv(w, h)
    BY <1>2, <1>3, <1>5 DEF FlowsInv, ChartShown
  <1>9. w \in Views
    BY <1>7 DEF Views
  <1>10. PageInv(w, h)
    BY <1>5, <1>8 DEF PageInv
  <1>11. QED
    BY <1>6, <1>9, <1>10 DEF Fits

\* the page of the analytics,
LEMMA AnalyticsFits ==
  ASSUME NEW h \in BOOLEAN
  PROVE  Fits(AnalyticsMounted(h), h)
  <1>1. PICK one \in 0 .. MaxPending : one = 1
    BY PageAssumption
  <1>2. PICK w : w =
          [page |-> "analytics", analytics |-> NoData, protoTotals |-> NoData,
           loadingFirst |-> TRUE, errored |-> FALSE, asked |-> one, polling |-> TRUE,
           mode |-> "bps", unseen |-> h]
    OBVIOUS
  <1>3. w = AnalyticsMounted(h)
    BY <1>1, <1>2, Zenon DEF AnalyticsMounted
  <1>4. w \in AnalyticsViews
    BY <1>2 DEF AnalyticsViews, Units
  <1>5. AnalyticsInv(w, h)
    BY <1>2 DEF AnalyticsInv
  <1>6. w \in Views
    BY <1>4 DEF Views
  <1>7. PageInv(w, h)
    BY <1>2, <1>5 DEF PageInv
  <1>8. QED
    BY <1>3, <1>6, <1>7 DEF Fits

\* the page of the exporters,
LEMMA ExportersFits ==
  ASSUME NEW h \in BOOLEAN
  PROVE  Fits(ExportersMounted, h)
  <1>1. PICK one \in 0 .. MaxPending : one = 1
    BY PageAssumption
  <1>2. PICK w : w =
          [page |-> "exporters", exporters |-> {}, loading |-> TRUE, error |-> FALSE,
           asked |-> one, first |-> TRUE, polling |-> FALSE, told |-> FALSE]
    OBVIOUS
  <1>3. w = ExportersMounted
    BY <1>1, <1>2, Zenon DEF ExportersMounted
  <1>4. w \in ExportersViews
    BY <1>2 DEF ExportersViews, ListsOfExporters
  <1>5. ExportersInv(w)
    BY <1>2 DEF ExportersInv
  <1>6. w \in Views
    BY <1>4 DEF Views
  <1>7. PageInv(w, h)
    BY <1>2, <1>5 DEF PageInv
  <1>8. QED
    BY <1>3, <1>6, <1>7 DEF Fits

\* the list of the incidents,
LEMMA ListFits ==
  ASSUME NEW n \in 0 .. Len(Incidents), NEW h \in BOOLEAN
  PROVE  Fits(ListMounted(n), h)
  <1>1. PICK none : none = <<>>
    OBVIOUS
  <1>2. none \in Seq(1 .. Len(Incidents))
    BY <1>1, EmptySeq
  <1>3. PICK one : one = <<ListRequestOf(1)>>
    OBVIOUS
  <1>4. one \in Seq(ListRequests)
    <2>1. PICK q : q = ListRequestOf(1)
      OBVIOUS
    <2>2. q \in ListRequests
      BY <2>1 DEF ListRequestOf, ListRequests, Counts
    <2>3. QED
      BY <1>3, <2>1, <2>2
  <1>5. PICK w : w =
          [page |-> "incidents", known |-> n, incidents |-> none, total |-> 0,
           loading |-> TRUE, error |-> FALSE, number |-> 1, asked |-> one,
           told |-> FALSE]
    OBVIOUS
  <1>6. w = ListMounted(n)
    BY <1>1, <1>3, <1>5, Zenon DEF ListMounted
  <1>7. w \in ListViews
    BY <1>2, <1>4, <1>5 DEF ListViews
  <1>8. Len(Incidents) \in Nat
    BY IncidentsAssumption, LenProperties
  <1>9. ListInv(w)
    <2>1. /\ w.asked = one /\ w.loading = TRUE /\ w.number = 1 /\ w.total = 0
          /\ w.known = n /\ n \in Nat
      BY <1>5, <1>8
    <2>2. ListAsked(w)
      BY <1>3, <2>1, NewAsked
    <2>3. w.total <= w.known /\ InRange(w, w.known)
      BY <2>1 DEF InRange
    <2>4. QED
      BY <2>1, <2>2, <2>3 DEF ListInv
  <1>10. w \in Views
    BY <1>7 DEF Views
  <1>11. PageInv(w, h)
    BY <1>5, <1>9 DEF PageInv
  <1>12. QED
    BY <1>6, <1>10, <1>11 DEF Fits

\* the detail of one,
LEMMA DetailFits ==
  ASSUME NEW n \in 0 .. Len(Incidents), NEW id \in 1 .. Len(Incidents),
         NEW row \in {0, id}, NEW h \in BOOLEAN
  PROVE  Fits(DetailMounted(n, id, row), h)
  <1>1. PICK w : w =
          [page |-> "incident", known |-> n, id |-> id, incidentId |-> id,
           incident |-> NoIncident, loading |-> TRUE, notFound |-> FALSE, error |-> FALSE,
           asked |-> 1, reused |-> FALSE, row |-> row]
    OBVIOUS
  <1>2. w = DetailMounted(n, id, row)
    BY <1>1 DEF DetailMounted
  <1>3. Len(Incidents) \in Nat
    BY IncidentsAssumption, LenProperties
  <1>4. row \in 0 .. Len(Incidents)
    BY <1>3
  <1>5. w \in DetailViews
    BY <1>1, <1>4 DEF DetailViews
  <1>6. DetailInv(w)
    BY <1>1 DEF DetailInv
  <1>7. w \in Views
    BY <1>5 DEF Views
  <1>8. PageInv(w, h)
    BY <1>1, <1>6 DEF PageInv
  <1>9. QED
    BY <1>2, <1>7, <1>8 DEF Fits

\* A table as the database keeps it.
LEMMA TableKept ==
  ASSUME NEW t \in Tables
  PROVE  /\ Cardinality(t) \in Nat
         /\ t \in SUBSET Rows
         /\ TableInv(t, Cardinality(t))
  <1>1. PICK n : n = Cardinality(t)
    OBVIOUS
  <1>2. n \in Nat
    BY <1>1, TablesAssumption, FS_CardinalityType
  <1>3. \A r \in t : /\ r = Router(r.id, r.name, r.enabled)
                     /\ r.enabled \in BOOLEAN /\ r.id \in 1 .. n
    BY <1>1, TablesAssumption
  <1>4. ASSUME NEW r \in t
        PROVE  r \in Rows
    <2>1. r.name \in Names
      BY DEF Names
    <2>2. PICK i \in Nat, s \in Names, b \in BOOLEAN : i = r.id /\ s = r.name /\ b = r.enabled
      BY <1>2, <1>3, <2>1
    <2>3. r = Router(i, s, b)
      BY <1>3, <2>2
    <2>4. QED
      BY <2>2, <2>3 DEF Router, Rows
  <1>5. \A r, s \in t : (r.id = s.id \/ r.name = s.name) => r = s
    BY TablesAssumption
  <1>6. TableInv(t, n)
    BY <1>3, <1>5 DEF TableInv
  <1>7. QED
    BY <1>1, <1>2, <1>4, <1>6

\* and the settings.
LEMMA SettingsFits ==
  ASSUME NEW t \in Tables, NEW h \in BOOLEAN
  PROVE  Fits(SettingsMounted(t), h)
  <1>1. PICK n \in Nat : n = Cardinality(t)
    BY TableKept
  <1>2. t \in SUBSET Rows /\ TableInv(t, n)
    BY <1>1, TableKept
  <1>3. PICK q : q = [kind |-> "list", id |-> NoId, name |-> "", enabled |-> TRUE,
                      text |-> "good", served |-> FALSE, answer |-> "none", list |-> {}]
    OBVIOUS
  <1>4. q = ListRequest("list")
    BY <1>3, Zenon DEF ListRequest, Request
  <1>5. q \in Requests
    BY <1>3 DEF Requests, Kinds, Ids, Names, Texts, Replied
  <1>6. PICK qs : qs = <<q>>
    OBVIOUS
  <1>7. qs \in Seq(Requests) /\ Len(qs) = 1 /\ qs[1] = q /\ qs # <<>>
    BY <1>5, <1>6
  <1>8. PICK f \in Forms : f = NoForm
    BY DEF NoForm, Forms, Ids, Names, Texts
  <1>9. PICK r \in TestResults : r = NoTest
    BY DEF NoTest, TestResults, Ids
  <1>10. PICK w : w =
           [page |-> "settings", table |-> t, serial |-> n, routers |-> {}, loading |-> TRUE,
            fetchError |-> FALSE, modalOpen |-> FALSE, form |-> f, formError |-> "none",
            submitting |-> FALSE, testing |-> FALSE, testResult |-> r,
            reqs |-> qs, told |-> FALSE, touched |-> FALSE, crossed |-> FALSE,
            overtaken |-> FALSE]
    OBVIOUS
  <1>11. w = SettingsMounted(t)
    BY <1>1, <1>4, <1>6, <1>8, <1>9, <1>10, Zenon DEF SettingsMounted
  <1>12. w \in SettingsViews
    BY <1>2, <1>7, <1>10 DEF SettingsViews
  <1>21. w.reqs = qs /\ w.submitting = FALSE /\ w.testing = FALSE /\ w.serial = n
    BY <1>10
  <1>13. \A k \in 1 .. Len(w.reqs) : k = 1 /\ w.reqs[k] = q
    <2>1. w.reqs = qs
      BY <1>21, Zenon
    <2>2. \A k \in 1 .. Len(qs) : k = 1 /\ qs[k] = q
      BY <1>7
    <2>3. QED
      BY <2>1, <2>2, Zenon
  <1>22. /\ q.kind = "list" /\ q.id = NoId /\ q.text = "good" /\ q.served = FALSE
         /\ q.list = {}
    BY <1>3
  <1>14. RoutersInv(w)
    BY <1>2, <1>10 DEF RoutersInv
  <1>15. PartsInv(w)
    <2>1. RequestsInv(w)
      BY <1>13, <1>22 DEF RequestsInv, IsSubmit, IsList
    <2>2. ButtonsInv(w)
      BY <1>13, <1>22 DEF ButtonsInv, IsSubmit, Submits
    <2>3. w.form.id = NoId
      BY <1>8, <1>10 DEF NoForm
    <2>4. FormInv(w)
      BY <1>10, <2>3 DEF FormInv
    <2>5. SavedInv(w)
      BY <1>10 DEF SavedInv
    <2>6. QED
      BY <2>1, <2>2, <2>4, <2>5 DEF PartsInv
  <1>16. FreshInv(w)
    <2>1. Len(w.reqs) = 1 /\ w.reqs # <<>> /\ w.reqs[1] = q
      BY <1>7, <1>21, Zenon
    <2>2. IsList(q) /\ ~q.served
      BY <1>22 DEF IsList
    <2>3. QED
      BY <2>1, <2>2 DEF FreshInv
  <1>17. SettingsInv(w)
    BY <1>14, <1>15, <1>16 DEF SettingsInv
  <1>18. w \in Views
    BY <1>12 DEF Views
  <1>19. PageInv(w, h)
    BY <1>10, <1>17 DEF PageInv
  <1>20. QED
    BY <1>11, <1>18, <1>19 DEF Fits

\* Whatever page comes next is as it should be.
LEMMA MountsFit ==
  ASSUME NEW p \in Pages, NEW h \in BOOLEAN, NEW next \in MountedAt(p, h)
  PROVE  Fits(next, h)
  <1>1. CASE p = "traffic"
    BY <1>1, TrafficFits DEF MountedAt
  <1>2. CASE p = "flows"
    BY <1>2, FlowsFits DEF MountedAt
  <1>3. CASE p = "analytics"
    BY <1>3, AnalyticsFits DEF MountedAt
  <1>4. CASE p = "exporters"
    BY <1>4, ExportersFits DEF MountedAt
  <1>5. CASE p = "incidents"
    BY <1>5, ListFits DEF MountedAt
  <1>6. CASE p = "incident"
    BY <1>6, DetailFits DEF MountedAt
  <1>7. CASE p = "settings"
    BY <1>7, SettingsFits DEF MountedAt
  <1>8. CASE p = "bgp"
    <2>1. next = BGPMounted
      BY <1>8 DEF MountedAt
    <2>2. next \in Views /\ next.page = "bgp"
      BY <2>1 DEF Views, BGPMounted
    <2>3. QED
      BY <2>2 DEF Fits, PageInv
  <1>9. QED
    BY <1>1, <1>2, <1>3, <1>4, <1>5, <1>6, <1>7, <1>8 DEF Pages

\* What a step of a page changes beside the page.
Moves ==
  /\ hidden' = hidden \/ hidden' \in BOOLEAN
  /\ clicks' = clicks \/ (clicks < MaxClicks /\ clicks' = clicks + 1)
  /\ faults' = faults \/ (faults < MaxFaults /\ faults' = faults + 1)
  /\ orphans' = orphans /\ leaked' = leaked /\ leftEarly' = leftEarly

\* Nothing but an answer fails; clicks are counted one by one.
LEMMA StepsMove ==
  ASSUME NEW v
  PROVE  /\ Becomes(v) /\ UNCHANGED faults => Moves
         /\ \A ok \in BOOLEAN : Becomes(v) /\ Outcome(ok) => Moves
         /\ Click(v) => Moves
         /\ \A h \in BOOLEAN : Visibility(h, v) => Moves
  <1>1. Becomes(v) /\ UNCHANGED faults => Moves
    BY DEF Becomes, Moves, leftVars
  <1>2. ASSUME NEW ok \in BOOLEAN, Becomes(v), Outcome(ok)
        PROVE  Moves
    BY <1>2 DEF Becomes, Outcome, Moves, leftVars
  <1>3. Click(v) => Moves
    BY DEF Click, Moves, leftVars
  <1>4. ASSUME NEW h \in BOOLEAN, Visibility(h, v)
        PROVE  Moves
    BY <1>4 DEF Visibility, Moves, leftVars
  <1>5. QED
    BY <1>1, <1>2, <1>3, <1>4

\* The traffic page.
LEMMA TrafficMoves ==
  ASSUME TrafficNext
  PROVE  Moves
  <1>1. CASE TrafficPolls
    BY <1>1, StepsMove DEF TrafficPolls
  <1>2. CASE HostPolls
    BY <1>2, StepsMove DEF HostPolls
  <1>3. CASE TrafficVisibility
    BY <1>3, StepsMove DEF TrafficVisibility
  <1>4. CASE OpenDrawer
    BY <1>4, StepsMove DEF OpenDrawer
  <1>5. CASE CloseDrawer
    BY <1>5, StepsMove DEF CloseDrawer
  <1>6. CASE DrawerGone
    BY <1>6, StepsMove DEF DrawerGone
  <1>7. CASE RetryTop
    BY <1>7, StepsMove DEF RetryTop
  <1>8. CASE RetryHost
    BY <1>8, StepsMove DEF RetryHost
  <1>9. CASE TrafficMode
    BY <1>9, StepsMove DEF TrafficMode
  <1>10. ASSUME NEW mine \in BOOLEAN, TopAnswered(mine)
         PROVE  Moves
    BY <1>10, StepsMove, ZenonT(60) DEF TopAnswered
  <1>11. ASSUME NEW k \in 1 .. MaxPending, HostAnswered(k)
         PROVE  Moves
    BY <1>11, StepsMove, ZenonT(60) DEF HostAnswered
  <1>12. CASE HostEvicted
    BY <1>12, StepsMove DEF HostEvicted
  <1>13. CASE HostReturns
    BY <1>13, StepsMove DEF HostReturns
  <1>14. QED
    BY <1>1, <1>2, <1>3, <1>4, <1>5, <1>6, <1>7, <1>8, <1>9, <1>10, <1>11, <1>12, <1>13
    DEF TrafficNext, TrafficAnswers

\* The flows page.
LEMMA FlowsMoves ==
  ASSUME FlowsNext
  PROVE  Moves
  <1>1. CASE OverviewPolls
    BY <1>1, StepsMove DEF OverviewPolls
  <1>2. CASE RecentPolls
    BY <1>2, StepsMove DEF RecentPolls
  <1>3. CASE loadOverview
    BY <1>3, StepsMove DEF loadOverview
  <1>4. CASE loadRecent
    BY <1>4, StepsMove DEF loadRecent
  <1>5. CASE FlowsVisibility
    BY <1>5, StepsMove DEF FlowsVisibility
  <1>6. CASE FlowsMode
    BY <1>6, StepsMove DEF FlowsMode
  <1>7. QED
    BY <1>1, <1>2, <1>3, <1>4, <1>5, <1>6 DEF FlowsNext

\* The analytics page.
LEMMA AnalyticsMoves ==
  ASSUME AnalyticsNext
  PROVE  Moves
  <1>1. CASE AnalyticsPolls
    BY <1>1, StepsMove DEF AnalyticsPolls
  <1>2. CASE AnalyticsAnswered
    BY <1>2, StepsMove DEF AnalyticsAnswered
  <1>3. CASE AnalyticsVisibility
    BY <1>3, StepsMove DEF AnalyticsVisibility
  <1>4. CASE AnalyticsMode
    BY <1>4, StepsMove DEF AnalyticsMode
  <1>5. QED
    BY <1>1, <1>2, <1>3, <1>4 DEF AnalyticsNext

\* The exporters page.
LEMMA ExportersMoves ==
  ASSUME ExportersNext
  PROVE  Moves
  <1>1. CASE ExportersPolls
    BY <1>1, StepsMove DEF ExportersPolls
  <1>2. CASE ExportersAnswered
    BY <1>2, StepsMove DEF ExportersAnswered
  <1>3. CASE ExportersRetry
    BY <1>3, StepsMove DEF ExportersRetry
  <1>4. QED
    BY <1>1, <1>2, <1>3 DEF ExportersNext

\* The incidents.
LEMMA IncidentMoves ==
  ASSUME IncidentNext
  PROVE  Moves
  <1>1. CASE ListAnswered
    BY <1>1, StepsMove DEF ListAnswered
  <1>2. CASE TurnPage
    BY <1>2, StepsMove DEF TurnPage
  <1>3. CASE ListRetry
    BY <1>3, StepsMove DEF ListRetry
  <1>4. CASE IncidentStarts
    BY <1>4, StepsMove DEF IncidentStarts
  <1>5. CASE DetailAnswered
    BY <1>5, StepsMove DEF DetailAnswered
  <1>6. CASE DetailRetry
    BY <1>6, StepsMove DEF DetailRetry
  <1>7. CASE HistoryJump
    BY <1>7, StepsMove DEF HistoryJump
  <1>8. CASE ListCounted
    BY <1>8, StepsMove DEF ListCounted
  <1>9. CASE ListFails
    BY <1>9, StepsMove DEF ListFails
  <1>10. QED
    BY <1>1, <1>2, <1>3, <1>4, <1>5, <1>6, <1>7, <1>8, <1>9 DEF IncidentNext

\* The settings.
LEMMA SettingsMoves ==
  ASSUME SettingsNext
  PROVE  Moves
  <1>1. CASE SettingsServed
    BY <1>1, StepsMove DEF SettingsServed
  <1>2. CASE SettingsAnswered
    BY <1>2, StepsMove DEF SettingsAnswered
  <1>3. CASE OpenForm
    BY <1>3, StepsMove DEF OpenForm
  <1>4. CASE EditForm
    BY <1>4, StepsMove DEF EditForm
  <1>5. CASE CloseForm
    BY <1>5, StepsMove DEF CloseForm
  <1>6. CASE SubmitForm
    BY <1>6, StepsMove DEF SubmitForm
  <1>7. CASE RunTest
    BY <1>7, StepsMove DEF RunTest
  <1>8. CASE RowButton
    BY <1>8, StepsMove DEF RowButton
  <1>9. QED
    BY <1>1, <1>2, <1>3, <1>4, <1>5, <1>6, <1>7, <1>8 DEF SettingsNext

\* The hooks of a page that is left stop its timers.
LEMMA TimersStop ==
  ASSUME NEW v \in Views
  PROVE  ~Timers(Unmounted(v))
  <1>1. CASE v.page = "traffic"
    <2>1. v \in TrafficViews
      BY <1>1, PageNamed
    <2>2. PICK w : w = [[v EXCEPT !.topInterval = FALSE] EXCEPT !.hostInterval = FALSE]
      OBVIOUS
    <2>3. w.page = "traffic" /\ ~w.topInterval /\ ~w.hostInterval
      BY <2>1, <2>2 DEF TrafficViews
    <2>4. Unmounted(v) = w
      BY <1>1, <2>2 DEF Unmounted, TrafficUnmounted, stopHostPolling, stopTopPolling
    <2>5. QED
      BY <2>3, <2>4 DEF Timers
  <1>2. CASE v.page = "flows"
    <2>1. v \in FlowsViews
      BY <1>2, PageNamed
    <2>2. PICK w : w = [v EXCEPT !.polling = FALSE]
      OBVIOUS
    <2>3. w.page = "flows" /\ ~w.polling
      BY <2>1, <2>2 DEF FlowsViews
    <2>4. Unmounted(v) = w
      BY <1>2, <2>2 DEF Unmounted, FlowsUnmounted
    <2>5. QED
      BY <2>3, <2>4 DEF Timers
  <1>3. CASE v.page = "analytics"
    <2>1. v \in AnalyticsViews
      BY <1>3, PageNamed
    <2>2. PICK w : w = [v EXCEPT !.polling = FALSE]
      OBVIOUS
    <2>3. w.page = "analytics" /\ ~w.polling
      BY <2>1, <2>2 DEF AnalyticsViews
    <2>4. Unmounted(v) = w
      BY <1>3, <2>2 DEF Unmounted, AnalyticsUnmounted
    <2>5. QED
      BY <2>3, <2>4 DEF Timers
  <1>4. CASE v.page = "exporters"
    <2>1. v \in ExportersViews
      BY <1>4, PageNamed
    <2>2. PICK w : w = [v EXCEPT !.polling = FALSE]
      OBVIOUS
    <2>3. w.page = "exporters" /\ ~w.polling
      BY <2>1, <2>2 DEF ExportersViews
    <2>4. Unmounted(v) = w
      BY <1>4, <2>2 DEF Unmounted, ExportersUnmounted
    <2>5. QED
      BY <2>3, <2>4 DEF Timers
  <1>5. CASE v.page \notin PollingPages
    <2>1. Unmounted(v) = v
      BY <1>5 DEF Unmounted, PollingPages
    <2>2. QED
      BY <1>5, <2>1 DEF Timers, PollingPages
  <1>6. QED
    BY <1>1, <1>2, <1>3, <1>4, <1>5 DEF PollingPages

\* A page that is left early may start its timer later, and nothing else is left behind.
LEMMA LeaveKeeps ==
  ASSUME PagesInv, NEW next, Fits(next, FALSE), Leave(next)
  PROVE  PagesInv'
  <1>1. PagesTyped
    BY DEF PagesInv
  <1>2. view' = next /\ hidden' = FALSE /\ faults' = faults
    BY <1>1 DEF Leave, PagesTyped
  <1>3. clicks' \in 0 .. MaxClicks
    BY <1>1, PageAssumption DEF Leave, PagesTyped
  <1>4. leaked' = leaked
    <2>1. ~Timers(Unmounted(view))
      BY <1>1, TimersStop DEF PagesTyped
    <2>2. leaked' = [p \in PollingPages |->
            leaked[p] + IF At(p) /\ Timers(Unmounted(view)) THEN 1 ELSE 0]
      BY DEF Leave
    <2>3. leaked' = [p \in PollingPages |-> leaked[p] + 0]
      BY <2>1, <2>2
    <2>4. \A p \in PollingPages : leaked[p] + 0 = leaked[p]
      BY <1>1 DEF PagesTyped
    <2>5. QED
      BY <1>1, <2>3, <2>4 DEF PagesTyped
  <1>5. PICK more : more = [p \in PollingPages |-> IF At(p) /\ AwaitsInHook(view) THEN 1 ELSE 0]
    OBVIOUS
  <1>6. \A p \in PollingPages : more[p] \in {0, 1}
    BY <1>5
  <1>7. /\ orphans' = [p \in PollingPages |-> orphans[p] + more[p]]
        /\ leftEarly' = [p \in PollingPages |-> leftEarly[p] + more[p]]
    BY <1>5 DEF Leave
  <1>8. orphans' \in [PollingPages -> Nat] /\ leftEarly' \in [PollingPages -> Nat]
    BY <1>1, <1>6, <1>7 DEF PagesTyped
  <1>9. \A p \in PollingPages : orphans'[p] + leaked'[p] <= leftEarly'[p]
    BY <1>1, <1>4, <1>6, <1>7 DEF PagesTyped
  <1>10. view' \in Views /\ PageInv(view', hidden')
    BY <1>2 DEF Fits
  <1>11. PagesTyped'
    BY <1>1, <1>2, <1>3, <1>4, <1>8, <1>9, <1>10 DEF PagesTyped
  <1>12. QED
    BY <1>10, <1>11 DEF PagesInv

\* A click on a row leads to an incident there is.
LEMMA RowClicked ==
  ASSUME PagesInv, ClickRow
  PROVE  PagesInv'
  <1>1. view \in ListViews
    BY PageNamed DEF PagesInv, PagesTyped, ClickRow, At
  <1>2. PICK row \in DOMAIN view.incidents :
          Leave(DetailMounted(view.known, view.incidents[row], view.incidents[row]))
    BY DEF ClickRow, goToIncident
  <1>3. view.known \in 0 .. Len(Incidents) /\ view.incidents \in Seq(1 .. Len(Incidents))
    BY <1>1 DEF ListViews
  <1>4. view.incidents[row] \in 1 .. Len(Incidents)
    BY <1>3, ElementOfSeq, LenProperties
  <1>5. Fits(DetailMounted(view.known, view.incidents[row], view.incidents[row]), FALSE)
    BY <1>3, <1>4, DetailFits
  <1>6. QED
    BY <1>2, <1>5, LeaveKeeps

\* A hook that goes on was waiting.
LEMMA OrphanKeeps ==
  ASSUME PagesInv, OrphanEnds
  PROVE  PagesInv'
  <1>1. PagesTyped
    BY DEF PagesInv
  <1>2. view' = view /\ hidden' = hidden /\ clicks' = clicks /\ faults' = faults
        /\ leftEarly' = leftEarly
    BY DEF OrphanEnds
  <1>3. PICK p \in PollingPages :
          /\ orphans[p] > 0
          /\ orphans' = [orphans EXCEPT ![p] = @ - 1]
          /\ leaked' = [leaked EXCEPT ![p] = @ + 1]
    BY DEF OrphanEnds
  <1>4. orphans' \in [PollingPages -> Nat] /\ leaked' \in [PollingPages -> Nat]
    BY <1>1, <1>3 DEF PagesTyped
  <1>5. \A q \in PollingPages : orphans'[q] + leaked'[q] <= leftEarly'[q]
    BY <1>1, <1>2, <1>3 DEF PagesTyped
  <1>6. PagesTyped'
    BY <1>1, <1>2, <1>4, <1>5 DEF PagesTyped
  <1>7. QED
    BY <1>2, <1>6 DEF PagesInv

\* A step of the page that is shown keeps what is said of it.
PageSteps == view' \in Views /\ PageInv(view', hidden') /\ view'.page = view.page

\* One page is shown at a time, and its own steps are taken.
LEMMA PageKept ==
  ASSUME PagesInv,
         \/ TrafficNext \/ FlowsNext \/ AnalyticsNext \/ ExportersNext
         \/ IncidentNext \/ SettingsNext
  PROVE  PageSteps
  <1>1. view \in Views /\ hidden \in BOOLEAN /\ clicks \in Nat
    BY DEF PagesInv, PagesTyped
  <1>2. PageInv(view, hidden)
    BY DEF PagesInv
  <1>3. CASE TrafficNext
    <2>1. At("traffic")
      BY <1>3 DEF TrafficNext, TrafficPolls, HostPolls, TrafficAnswers, TopAnswered,
           HostAnswered, TrafficVisibility, OpenDrawer, CloseDrawer, DrawerGone, RetryTop,
           RetryHost, TrafficMode, HostEvicted, HostReturns
    <2>2. view \in TrafficViews /\ TrafficInv(view, hidden)
      BY <1>1, <1>2, <2>1, PageNamed DEF At, PageInv
    <2>3. view' \in TrafficViews /\ TrafficInv(view', hidden')
      BY <1>1, <1>3, <2>2, TrafficKept DEF TrafficSteps
    <2>4. view' \in Views
      BY <2>3 DEF Views
    <2>5. view'.page = "traffic"
      BY <2>3, <2>4, PageNamed
    <2>6. QED
      BY <2>1, <2>3, <2>4, <2>5 DEF PageSteps, PageInv, At
  <1>4. CASE FlowsNext
    <2>1. At("flows")
      BY <1>4 DEF FlowsNext, OverviewPolls, RecentPolls, loadOverview, loadRecent,
           FlowsVisibility, FlowsMode
    <2>2. view \in FlowsViews /\ FlowsInv(view, hidden)
      BY <1>1, <1>2, <2>1, PageNamed DEF At, PageInv
    <2>3. view' \in FlowsViews /\ FlowsInv(view', hidden')
      BY <1>1, <1>4, <2>2, FlowsKept DEF FlowsSteps
    <2>4. view' \in Views
      BY <2>3 DEF Views
    <2>5. view'.page = "flows"
      BY <2>3, <2>4, PageNamed
    <2>6. QED
      BY <2>1, <2>3, <2>4, <2>5 DEF PageSteps, PageInv, At
  <1>5. CASE AnalyticsNext
    <2>1. At("analytics")
      BY <1>5 DEF AnalyticsNext, AnalyticsPolls, AnalyticsAnswered, AnalyticsVisibility,
           AnalyticsMode
    <2>2. view \in AnalyticsViews /\ AnalyticsInv(view, hidden)
      BY <1>1, <1>2, <2>1, PageNamed DEF At, PageInv
    <2>3. view' \in AnalyticsViews /\ AnalyticsInv(view', hidden')
      BY <1>1, <1>5, <2>2, AnalyticsKept DEF AnalyticsSteps
    <2>4. view' \in Views
      BY <2>3 DEF Views
    <2>5. view'.page = "analytics"
      BY <2>3, <2>4, PageNamed
    <2>6. QED
      BY <2>1, <2>3, <2>4, <2>5 DEF PageSteps, PageInv, At
  <1>6. CASE ExportersNext
    <2>1. At("exporters")
      BY <1>6 DEF ExportersNext, ExportersPolls, ExportersAnswered, ExportersRetry
    <2>2. view \in ExportersViews /\ ExportersInv(view)
      BY <1>1, <1>2, <2>1, PageNamed DEF At, PageInv
    <2>3. view' \in ExportersViews /\ ExportersInv(view')
      BY <1>6, <2>2, ExportersKept DEF ExportersSteps
    <2>4. view' \in Views
      BY <2>3 DEF Views
    <2>5. view'.page = "exporters"
      BY <2>3, <2>4, PageNamed
    <2>6. QED
      BY <2>1, <2>3, <2>4, <2>5 DEF PageSteps, PageInv, At
  <1>7. CASE \/ ListCounted \/ ListAnswered \/ ListFails
            \/ TurnPage \/ ListRetry \/ IncidentStarts
    <2>1. At("incidents")
      BY <1>7 DEF ListCounted, ListAnswered, ListFails, TurnPage, ListRetry, IncidentStarts
    <2>2. view \in ListViews /\ ListInv(view)
      BY <1>1, <1>2, <2>1, PageNamed DEF At, PageInv
    <2>3. view' \in ListViews /\ ListInv(view')
      BY <1>7, <2>2, ListKept DEF ListSteps
    <2>4. view' \in Views
      BY <2>3 DEF Views
    <2>5. view'.page = "incidents"
      BY <2>3, <2>4, PageNamed
    <2>6. QED
      BY <2>1, <2>3, <2>4, <2>5 DEF PageSteps, PageInv, At
  <1>8. CASE DetailAnswered \/ DetailRetry \/ HistoryJump
    <2>1. At("incident")
      BY <1>8 DEF DetailAnswered, DetailRetry, HistoryJump
    <2>2. view \in DetailViews /\ DetailInv(view)
      BY <1>1, <1>2, <2>1, PageNamed DEF At, PageInv
    <2>3. view' \in DetailViews /\ DetailInv(view')
      BY <1>8, <2>2, DetailKept DEF DetailSteps
    <2>4. view' \in Views
      BY <2>3 DEF Views
    <2>5. view'.page = "incident"
      BY <2>3, <2>4, PageNamed
    <2>6. QED
      BY <2>1, <2>3, <2>4, <2>5 DEF PageSteps, PageInv, At
  <1>9. CASE SettingsNext
    <2>1. At("settings")
      BY <1>9 DEF SettingsNext, SettingsServed, SettingsAnswered, OpenForm, EditForm,
           CloseForm, SubmitForm, RunTest, RowButton
    <2>2. view \in SettingsViews /\ SettingsInv(view)
      BY <1>1, <1>2, <2>1, PageNamed DEF At, PageInv
    <2>3. view' \in SettingsViews /\ SettingsInv(view')
      BY <1>1, <1>9, <2>2, SettingsKept DEF SettingsSteps
    <2>4. view' \in Views
      BY <2>3 DEF Views
    <2>5. view'.page = "settings"
      BY <2>3, <2>4, PageNamed
    <2>6. QED
      BY <2>1, <2>3, <2>4, <2>5 DEF PageSteps, PageInv, At
  <1>10. QED
    BY <1>3, <1>4, <1>5, <1>6, <1>7, <1>8, <1>9 DEF IncidentNext

\* ... and its bounds.
LEMMA PagesKeep ==
  ASSUME PagesInv,
         \/ TrafficNext \/ FlowsNext \/ AnalyticsNext \/ ExportersNext
         \/ IncidentNext \/ SettingsNext
  PROVE  PagesInv'
  <1>1. PagesTyped
    BY DEF PagesInv
  <1>2. Moves
    BY TrafficMoves, FlowsMoves, AnalyticsMoves, ExportersMoves, IncidentMoves, SettingsMoves
  <1>3. view' \in Views /\ PageInv(view', hidden')
    BY PageKept DEF PageSteps
  <1>4. hidden' \in BOOLEAN /\ clicks' \in 0 .. MaxClicks /\ faults' \in 0 .. MaxFaults
    BY <1>1, <1>2, PageAssumption DEF Moves, PagesTyped
  <1>5. PagesTyped'
    BY <1>1, <1>2, <1>3, <1>4 DEF Moves, PagesTyped
  <1>6. QED
    BY <1>3, <1>5 DEF PagesInv

\* The application starts with a page that is mounted.
LEMMA PagesStart ==
  ASSUME AppInit
  PROVE  PagesInv
  <1>1. PICK first \in Pages : hidden \in BOOLEAN /\ view \in MountedAt(first, hidden)
    BY DEF AppInit
  <1>2. hidden \in BOOLEAN
    BY <1>1
  <1>3. view \in Views /\ PageInv(view, hidden)
    BY <1>1, <1>2, MountsFit DEF Fits
  <1>4. clicks \in 0 .. MaxClicks /\ faults \in 0 .. MaxFaults
    BY PageAssumption DEF AppInit
  <1>5. /\ orphans = [p \in PollingPages |-> 0]
        /\ leaked = [p \in PollingPages |-> 0]
        /\ leftEarly = [p \in PollingPages |-> 0]
    BY DEF AppInit
  <1>7. \A q \in PollingPages : orphans[q] + leaked[q] <= leftEarly[q]
    BY <1>5
  <1>8. PagesTyped
    BY <1>2, <1>3, <1>4, <1>5, <1>7 DEF PagesTyped
  <1>9. QED
    BY <1>3, <1>8 DEF PagesInv

\* Each step keeps the invariant of the pages.
LEMMA PagesGoOn ==
  ASSUME PagesInv, [AppNext]_pageVars
  PROVE  PagesInv'
  <1>1. CASE UNCHANGED pageVars
    <2>1. /\ view' = view /\ hidden' = hidden /\ clicks' = clicks /\ faults' = faults
          /\ orphans' = orphans /\ leaked' = leaked /\ leftEarly' = leftEarly
      BY <1>1 DEF pageVars, leftVars
    <2>2. QED
      BY <2>1 DEF PagesInv, PagesTyped
  <1>2. CASE FollowLink
    <2>1. PICK p \in Pages : \E next \in MountedAt(p, FALSE) : Leave(next)
      BY <1>2 DEF FollowLink
    <2>2. QED
      BY <2>1, MountsFit, LeaveKeeps
  <1>3. CASE ClickRow
    BY <1>3, RowClicked
  <1>4. CASE OrphanEnds
    BY <1>4, OrphanKeeps
  <1>5. CASE \/ TrafficNext \/ FlowsNext \/ AnalyticsNext \/ ExportersNext
             \/ IncidentNext \/ SettingsNext
    BY <1>5, PagesKeep
  <1>6. QED
    BY <1>1, <1>2, <1>3, <1>4, <1>5 DEF AppNext

\* The invariant of the pages always holds.
LEMMA PagesAlways == AppSpec => []PagesInv
  BY PagesStart, PagesGoOn, PTL DEF AppSpec

-----------------------------------------------------------------------------
(* The safety properties of the pages.                                     *)

\* The bounds are kept, a router's number and name are its own, and every timer that runs
\* behind a hidden tab, a closed drawer or a page that was left is one that is known to
\* (startTopPolling after the first answer, a page mounted in a hidden tab, the button of
\* the drawer).
THEOREM AppIsSafe == AppSpec => []AppSafe
  <1>1. ASSUME PagesInv
        PROVE  AppSafe
    <2>1. PagesTyped /\ PageInv(view, hidden)
      BY <1>1 DEF PagesInv
    <2>2. view \in Views
      BY <2>1 DEF PagesTyped
    <2>3. ASSUME At("traffic")
          PROVE  /\ view.asked \in 0 .. MaxPending /\ view.rows \subseteq Hosts
                 /\ hidden => ~view.hostInterval /\ (view.topInterval => view.woken)
                 /\ view.hostInterval => view.drawerOpen \/ view.byButton
      <3>1. view \in TrafficViews
        BY <2>2, <2>3, PageNamed DEF At
      <3>2. TrafficTimed(view, hidden)
        BY <2>1, <2>3 DEF At, PageInv, TrafficInv
      <3>3. view.asked \in 0 .. MaxPending /\ view.rows \subseteq Hosts
        BY <3>1 DEF TrafficViews
      <3>4. QED
        BY <3>2, <3>3 DEF TrafficTimed
    <2>4. ASSUME At("flows")
          PROVE  /\ view.ovAsked \in 0 .. MaxPending /\ view.rcAsked \in 0 .. MaxPending
                 /\ hidden /\ view.polling => view.unseen
      <3>1. view \in FlowsViews
        BY <2>2, <2>4, PageNamed DEF At
      <3>2. FlowsInv(view, hidden)
        BY <2>1, <2>4 DEF At, PageInv
      <3>3. view.ovAsked \in 0 .. MaxPending /\ view.rcAsked \in 0 .. MaxPending
        BY <3>1 DEF FlowsViews
      <3>4. QED
        BY <3>2, <3>3 DEF FlowsInv
    <2>5. ASSUME At("analytics")
          PROVE  hidden /\ view.polling => view.unseen
      BY <2>1, <2>5 DEF At, PageInv, AnalyticsInv
    <2>6. ASSUME At("exporters")
          PROVE  view.asked \in 0 .. MaxPending
      <3>1. view \in ExportersViews
        BY <2>2, <2>6, PageNamed DEF At
      <3>2. QED
        BY <3>1 DEF ExportersViews
    <2>7. ASSUME At("settings")
          PROVE  \A r, s \in view.table : (r.id = s.id \/ r.name = s.name) => r = s
      <3>1. TableInv(view.table, view.serial)
        BY <2>1, <2>7 DEF At, PageInv, SettingsInv, RoutersInv
      <3>2. QED
        BY <3>1 DEF TableInv
    <2>8. \A p \in PollingPages : orphans[p] <= leftEarly[p] /\ leaked[p] <= leftEarly[p]
      BY <2>1 DEF PagesTyped
    <2>9. AppTypeOK
      <3>1. view.page \in Pages
        BY <2>2, PageNamed
      <3>2. /\ hidden \in BOOLEAN /\ clicks \in 0 .. MaxClicks
            /\ faults \in 0 .. MaxFaults
        BY <2>1 DEF PagesTyped
      <3>3. QED
        BY <2>3, <2>4, <2>6, <2>7, <2>8, <3>1, <3>2 DEF AppTypeOK
    <2>10. TimersExplained
      BY <2>3, <2>4, <2>5, <2>8 DEF TimersExplained
    <2>11. QED
      BY <2>9, <2>10 DEF AppSafe
  <1>2. QED
    BY <1>1, PagesAlways, PTL

\* The charts of the traffic and flows pages draw what the page has, in its unit.
LEMMA ChartsDrawn ==
  ASSUME PagesInv
  PROVE  ChartShowsBuckets
  <1>1. PageInv(view, hidden) /\ view \in Views
    BY DEF PagesInv, PagesTyped
  <1>2. ASSUME NEW c, NEW b, NEW m, Drawn(c, b, m)
        PROVE  c.shows = b /\ c.options.unit = m /\ c.observed
    <2>1. c.options = buildOptions(m)
      BY <1>2 DEF Drawn
    <2>2. c.options.unit = m
      BY <2>1 DEF buildOptions
    <2>3. QED
      BY <1>2, <2>2 DEF Drawn
  <1>3. CASE At("traffic") /\ view.drawerOpen
    <2>1. view.chart.up => Drawn(view.chart, view.buckets, view.mode)
      BY <1>1, <1>3 DEF At, PageInv, TrafficInv, DrawerDraws
    <2>2. QED
      BY <1>2, <1>3, <2>1 DEF ChartShowsBuckets
  <1>4. CASE At("flows")
    <2>1. view.chart.up => Drawn(view.chart, globalBuckets(view), view.mode)
      BY <1>1, <1>4 DEF At, PageInv, FlowsInv
    <2>2. ~At("traffic")
      BY <1>4 DEF At
    <2>3. QED
      BY <1>2, <2>1, <2>2 DEF ChartShowsBuckets
  <1>5. QED
    BY <1>3, <1>4 DEF ChartShowsBuckets

\* A page that starts before the end is one of the pager's.
LEMMA PageCounted ==
  ASSUME NEW total \in Nat, NEW size \in Nat \ {0}, NEW p \in Nat \ {0},
         (p - 1) * size < total
  PROVE  p <= (total + size - 1) \div size
  <1>1. PICK d \in Int : d = (total + size - 1) \div size
    OBVIOUS
  <1>2. total + size - 1 < (d + 1) * size
    BY <1>1
  <1>3. SUFFICES ASSUME p >= d + 1 PROVE FALSE
    BY <1>1
  <1>4. (d + 1) * size <= p * size
    BY <1>3
  <1>5. (p - 1) * size = p * size - size
    OBVIOUS
  <1>6. p * size \in Int /\ (d + 1) * size \in Int
    BY <1>1
  <1>7. QED
    BY <1>2, <1>4, <1>5, <1>6

\* The rows are a page of the list as it once was, and the total is not of a later time.
LEMMA RowsMatch ==
  ASSUME PagesInv
  PROVE  ListMatchesPage
  <1>1. SUFFICES ASSUME At("incidents"), ListShown(view) = "rows"
                 PROVE  /\ view.number = 1 \/ view.number <= PageCount(view)
                        /\ \E n \in view.total .. view.known :
                             view.incidents \in ListPages(n, (view.number - 1) * PageSize)
    BY DEF ListMatchesPage
  <1>2. view \in ListViews /\ ListInv(view)
    BY <1>1, PageNamed DEF PagesInv, PagesTyped, PageInv, At
  <1>3. ~view.loading /\ ~view.error
    BY <1>1 DEF ListShown
  <1>4. PICK n \in view.total .. view.known :
          view.incidents \in ListPages(n, (view.number - 1) * PageSize)
    BY <1>2, <1>3 DEF ListInv
  <1>5. view.total \in Nat /\ view.number \in Nat \ {0}
    BY <1>2 DEF ListViews
  <1>6. view.number = 1 \/ (view.number - 1) * PageSize < view.total
    BY <1>2, <1>3 DEF ListInv, InRange
  <1>7. view.number = 1 \/ view.number <= PageCount(view)
    BY <1>5, <1>6, IncidentsAssumption, PageCounted, Zenon DEF PageCount
  <1>8. QED
    BY <1>4, <1>7

\* The detail is that of the address, and its headline has no host.
LEMMA DetailRouted ==
  ASSUME PagesInv
  PROVE  DetailIsRoute
  <1>1. SUFFICES ASSUME At("incident")
                 PROVE  /\ view.row \in {0, view.incidentId}
                        /\ ~view.reused => view.id = view.incidentId
                        /\ DetailShown(view) = "detail" =>
                             /\ view.incident.incident.id = view.incidentId
                             /\ Headline(view).host_ip
                                  \in {Incidents[view.incidentId].host, "undefined"}
    BY DEF DetailIsRoute
  <1>2. view \in DetailViews /\ DetailInv(view)
    BY <1>1, PageNamed DEF PagesInv, PagesTyped, PageInv, At
  <1>3. ASSUME DetailShown(view) = "detail"
        PROVE  /\ view.incident.incident.id = view.incidentId
               /\ Headline(view).host_ip = "undefined"
    <2>1. view.incident # NoIncident
      BY <1>3 DEF DetailShown
    <2>2. PICK i, a : i = view.incidentId /\ a = DetailAnswer(i)
      OBVIOUS
    <2>3. view.incident = a
      BY <1>2, <2>1, <2>2 DEF DetailInv
    <2>4. a.incident.id = i /\ DOMAIN a = {"incident", "updates"}
      BY <2>2 DEF DetailAnswer
    <2>5. Headline(view).host_ip = Member(view.incident, "host_ip")
      BY DEF Headline
    <2>6. QED
      BY <2>2, <2>3, <2>4, <2>5 DEF Member
  <1>4. QED
    BY <1>2, <1>3 DEF DetailInv

\* What a page shows is what its address, title, pager or unit says it is, however the
\* answers to loadHost, loadOverview, loadIncidents and loadIncident are crossed.
THEOREM PagesShowOwn == AppSpec => []ShowsOwn
  <1>1. ASSUME PagesInv
        PROVE  ShowsOwn
    <2>1. DrawerOwn
      BY <1>1 DEF PagesInv, PageInv, At, TrafficInv, DrawerHears, DrawerOwn
    <2>2. QED
      BY <1>1, <2>1, ChartsDrawn, RowsMatch, DetailRouted DEF ShowsOwn
  <1>2. QED
    BY <1>1, PagesAlways, PTL

\* With nothing under way the settings show the table, and the form tells of its own router
\* (load, runTest).
THEOREM SettingsAreTrue == AppSpec => []SettingsTrue
  <1>1. ASSUME PagesInv
        PROVE  SettingsTrue
    <2>1. ASSUME At("settings")
          PROVE  FormInv(view) /\ FreshInv(view)
      BY <1>1, <2>1 DEF PagesInv, PageInv, At, SettingsInv, PartsInv
    <2>2. FormOwn
      BY <2>1 DEF FormInv, FormOwn
    <2>3. ASSUME At("settings"), view.reqs = <<>>, ~view.overtaken,
                 SettingsShown(view) \in {"rows", "empty"}
          PROVE  view.routers = view.table
      <3>1. ~view.loading /\ ~view.fetchError
        BY <2>3 DEF SettingsShown
      <3>2. QED
        BY <2>1, <2>3, <3>1 DEF FreshInv, Current
    <2>4. QED
      BY <2>2, <2>3 DEF RoutersFresh, SettingsTrue
  <1>2. QED
    BY <1>1, PagesAlways, PTL

\* A form that closes by itself was sent and saved, and what it has is what was saved,
\* unless it was changed while the save was out (submit closes it on the answer of
\* handleCreateMikrotikRouter or handlePatchMikrotikRouter).
THEOREM SavedIsSaved == AppSpec => SavedBeforeClosed
  <1>1. ASSUME PagesInv, [AppNext]_pageVars, At("settings"), view'.page = "settings",
               clicks' = clicks, view.modalOpen, ~view'.modalOpen
        PROVE  \/ view.crossed
               \/ /\ view.touched \/ SavedAs(view.table, view.form)
                  /\ \E k \in DOMAIN view.reqs :
                       LET q == view.reqs[k]
                       IN  /\ IsSubmit(q) /\ q.served /\ q.id = view.form.id
                           /\ SavedAs(view.table, q)
    <2>1. clicks \in Nat
      BY <1>1 DEF PagesInv, PagesTyped
    <2>2. view' # view
      BY <1>1
    <2>3. AppNext /\ ~OrphanEnds
      BY <1>1, <2>2 DEF pageVars, OrphanEnds
    <2>4. ~FollowLink
      <3>1. ASSUME NEW next, Leave(next)
            PROVE  FALSE
        BY <1>1, <2>1, <3>1 DEF Leave
      <3>2. QED
        BY <3>1 DEF FollowLink
    <2>5. ~ClickRow
      BY <1>1 DEF ClickRow, At
    <2>6. ~TrafficNext
      BY <1>1 DEF At, TrafficNext, TrafficPolls, HostPolls, TrafficAnswers, TopAnswered,
         HostAnswered, TrafficVisibility, OpenDrawer, CloseDrawer, DrawerGone, RetryTop,
         RetryHost, TrafficMode, HostEvicted, HostReturns
    <2>7. ~FlowsNext
      BY <1>1 DEF At, FlowsNext, OverviewPolls, RecentPolls, loadOverview, loadRecent,
         FlowsVisibility, FlowsMode
    <2>8. ~AnalyticsNext
      BY <1>1 DEF At, AnalyticsNext, AnalyticsPolls, AnalyticsAnswered,
         AnalyticsVisibility, AnalyticsMode
    <2>9. ~ExportersNext
      BY <1>1 DEF At, ExportersNext, ExportersPolls, ExportersAnswered, ExportersRetry
    <2>10. ~IncidentNext
      BY <1>1 DEF At, IncidentNext, ListCounted, ListAnswered, ListFails, TurnPage, ListRetry, IncidentStarts,
         DetailAnswered, DetailRetry, HistoryJump
    <2>11. SettingsNext
      BY <2>3, <2>4, <2>5, <2>6, <2>7, <2>8, <2>9, <2>10 DEF AppNext
    <2>12. view \in SettingsViews /\ SettingsInv(view)
      BY <1>1, PageNamed DEF PagesInv, PagesTyped, PageInv, At
    <2>13. SavedClosed(view, view')
      BY <1>1, <2>1, <2>11, <2>12, SettingsKept DEF SettingsSteps
    <2>14. QED
      BY <1>1, <2>13 DEF SavedClosed
  <1>2. ASSUME PagesInv, [AppNext]_pageVars
        PROVE  At("settings") /\ view'.page = "settings" /\ clicks' = clicks
                 /\ view.modalOpen /\ ~view'.modalOpen =>
                 \/ view.crossed
                 \/ /\ view.touched \/ SavedAs(view.table, view.form)
                    /\ \E k \in DOMAIN view.reqs :
                         LET q == view.reqs[k]
                         IN  /\ IsSubmit(q) /\ q.served /\ q.id = view.form.id
                             /\ SavedAs(view.table, q)
    BY <1>1, <1>2
  <1>3. QED
    BY <1>2, PagesAlways, PTL DEF AppSpec, SavedBeforeClosed

-----------------------------------------------------------------------------
(* Sums over finite sets.                                                  *)

\* Induction over the natural numbers, for a set.
LEMMA SetInduction ==
  ASSUME NEW T \in SUBSET Nat, 0 \in T, \A n \in T : n + 1 \in T
  PROVE  T = Nat
  <1> DEFINE U == Nat \ T
  <1>1. ASSUME U # {} PROVE FALSE
    <2>1. IsWellFoundedOn(OpToRel(<, Nat), Nat)
      BY NatLessThanWellFounded
    <2>2. PICK x \in U : \A y \in U : <<y, x>> \notin OpToRel(<, Nat)
      BY <1>1, <2>1, WFMin
    <2>3. \A y \in U : ~(y < x)
      BY <2>2 DEF OpToRel
    <2>4. QED
      BY <2>3
  <1>2. QED
    BY <1>1

\* The members of a family of finite sets all belong to a set of them that is closed
\* under adding an element.
LEMMA FiniteInduction ==
  ASSUME NEW D, IsFiniteSet(D), NEW F \in SUBSET SUBSET D, {} \in F,
         \A S \in F : \A x \in D \ S : S \cup {x} \in F
  PROVE  F = SUBSET D
  <1> DEFINE T == {n \in Nat : \A S \in SUBSET D : Cardinality(S) = n => S \in F}
  <1>1. \A S \in SUBSET D : IsFiniteSet(S) /\ Cardinality(S) \in Nat
    BY FS_Subset, FS_CardinalityType
  <1>2. 0 \in T
    BY <1>1, FS_EmptySet
  <1>3. ASSUME NEW n \in T
        PROVE  n + 1 \in T
    <2>1. SUFFICES ASSUME NEW S \in SUBSET D, Cardinality(S) = n + 1
                   PROVE  S \in F
      OBVIOUS
    <2>9. n + 1 # 0 /\ Cardinality({}) = 0
      BY FS_EmptySet
    <2>2. S # {}
      BY <2>1, <2>9
    <2>3. PICK x \in S : TRUE
      BY <2>2
    <2>4. Cardinality(S \ {x}) = n
      BY <1>1, <2>1, <2>3, FS_RemoveElement
    <2>5. S \ {x} \in F
      BY <2>4
    <2>6. (S \ {x}) \cup {x} \in F
      BY <2>3, <2>5
    <2>7. (S \ {x}) \cup {x} = S
      BY <2>3
    <2>8. QED
      BY <2>6, <2>7
  <1>4. T = Nat
    <2>1. T \in SUBSET Nat
      OBVIOUS
    <2> HIDE DEF T
    <2>2. QED
      BY <1>2, <1>3, <2>1, SetInduction
  <1>5. QED
    BY <1>1, <1>4

\* The one that is taken first.
FirstTaken(s) == CHOOSE x \in s : TRUE

\* The recursion of SumFunctionOnSet.
AddsUp(g, f, S) ==
  g = [s \in SUBSET S |-> IF s = {} THEN 0 ELSE f[FirstTaken(s)] + g[s \ {FirstTaken(s)}]]

\* The sums of all the subsets: what the fold over a set chooses.
Sums(f, S) == CHOOSE g : AddsUp(g, f, S)

\* A sum is a fold, and a fold is such a choice.
LEMMA SumUnfold ==
  ASSUME NEW f, NEW S
  PROVE  SumFunctionOnSet(f, S) = Sums(f, S)[S]
  BY Zenon DEF SumFunctionOnSet, FoldFunctionOnSet, MapThenFoldSet, Sums, AddsUp, FirstTaken

\* The sums of the subsets with at most n elements.
Small(S, n) == {s \in SUBSET S : Cardinality(s) <= n}
AddsUpTo(g, f, S, n) ==
  g = [s \in Small(S, n) |-> IF s = {} THEN 0 ELSE f[FirstTaken(s)] + g[s \ {FirstTaken(s)}]]

\* There are such sums: those of the subsets with one element more, and so on.
LEMMA SumsExist ==
  ASSUME NEW f, NEW S, IsFiniteSet(S)
  PROVE  AddsUp(Sums(f, S), f, S)
  <1> DEFINE T == {n \in Nat : \E g : AddsUpTo(g, f, S, n)}
  <1>1. \A s \in SUBSET S : IsFiniteSet(s) /\ Cardinality(s) \in Nat
                              /\ Cardinality(s) <= Cardinality(S)
    BY FS_Subset, FS_CardinalityType
  <1>2. 0 \in T
    <2>1. PICK g : g = [s \in Small(S, 0) |-> 0]
      OBVIOUS
    <2>2. \A s \in Small(S, 0) : s = {}
      BY <1>1, FS_EmptySet DEF Small
    <2>3. AddsUpTo(g, f, S, 0)
      BY <2>1, <2>2 DEF AddsUpTo
    <2>4. QED
      BY <2>3
  <1>3. ASSUME NEW n \in T
        PROVE  n + 1 \in T
    <2>1. PICK g : AddsUpTo(g, f, S, n)
      OBVIOUS
    <2>2. PICK h : h = [s \in Small(S, n + 1) |->
                          IF s = {} THEN 0 ELSE f[FirstTaken(s)] + g[s \ {FirstTaken(s)}]]
      OBVIOUS
    <2>3. \A s \in Small(S, n) : s \in Small(S, n + 1) /\ h[s] = g[s]
      <3>1. n \in Nat
        OBVIOUS
      <3>2. SUFFICES ASSUME NEW s \in Small(S, n)
                     PROVE  s \in Small(S, n + 1) /\ h[s] = g[s]
        OBVIOUS
      <3>3. s \in Small(S, n + 1)
        BY <1>1, <3>1 DEF Small
      <3>4. g[s] = IF s = {} THEN 0 ELSE f[FirstTaken(s)] + g[s \ {FirstTaken(s)}]
        BY <2>1 DEF AddsUpTo
      <3>5. QED
        BY <2>2, <3>3, <3>4
    <2>4. ASSUME NEW s \in Small(S, n + 1), s # {}
          PROVE  s \ {FirstTaken(s)} \in Small(S, n)
      <3>1. FirstTaken(s) \in s
        BY <2>4 DEF FirstTaken
      <3>2. Cardinality(s \ {FirstTaken(s)}) = Cardinality(s) - 1
        BY <1>1, <3>1, FS_RemoveElement DEF Small
      <3>3. Cardinality(s) \in Nat /\ Cardinality(s) <= n + 1 /\ n \in Nat
        BY <1>1 DEF Small
      <3>4. Cardinality(s \ {FirstTaken(s)}) <= n
        BY <3>2, <3>3
      <3>5. QED
        BY <3>4 DEF Small
    <2>5. \A s \in Small(S, n + 1) :
            h[s] = IF s = {} THEN 0 ELSE f[FirstTaken(s)] + h[s \ {FirstTaken(s)}]
      BY <2>2, <2>3, <2>4
    <2>6. h = [s \in Small(S, n + 1) |->
                 IF s = {} THEN 0 ELSE f[FirstTaken(s)] + h[s \ {FirstTaken(s)}]]
      BY <2>2, <2>5
    <2>7. AddsUpTo(h, f, S, n + 1)
      BY <2>6 DEF AddsUpTo
    <2>8. QED
      BY <2>7
  <1>4. T = Nat
    <2>1. T \in SUBSET Nat
      OBVIOUS
    <2> HIDE DEF T
    <2>2. QED
      BY <1>2, <1>3, <2>1, SetInduction
  <1>5. PICK n \in Nat : n = Cardinality(S)
    BY <1>1
  <1>6. Small(S, n) = SUBSET S
    BY <1>1, <1>5 DEF Small
  <1>7. PICK g : AddsUpTo(g, f, S, n)
    BY <1>4, <1>5
  <1>8. AddsUp(g, f, S)
    BY <1>6, <1>7 DEF AddsUp, AddsUpTo
  <1>9. QED
    BY <1>8 DEF Sums

\* What is taken first is added to the sum of the rest.
LEMMA SumTakes ==
  ASSUME NEW D, IsFiniteSet(D), NEW f
  PROVE  \A S \in SUBSET D :
           SumFunctionOnSet(f, S) =
             IF S = {} THEN 0
             ELSE f[FirstTaken(S)] + SumFunctionOnSet(f, S \ {FirstTaken(S)})
  <1> DEFINE T == {n \in Nat : \A S \in SUBSET D : \A s \in SUBSET S :
                     Cardinality(s) = n => Sums(f, S)[s] = SumFunctionOnSet(f, s)}
  <1>1. \A S \in SUBSET D : IsFiniteSet(S) /\ Cardinality(S) \in Nat
    BY FS_Subset, FS_CardinalityType
  <1>2. \A S \in SUBSET D : \A s \in SUBSET S :
          Sums(f, S)[s] = IF s = {} THEN 0
                          ELSE f[FirstTaken(s)] + Sums(f, S)[s \ {FirstTaken(s)}]
    <2>1. SUFFICES ASSUME NEW S \in SUBSET D, NEW s \in SUBSET S
                   PROVE  Sums(f, S)[s] = IF s = {} THEN 0
                            ELSE f[FirstTaken(s)] + Sums(f, S)[s \ {FirstTaken(s)}]
      OBVIOUS
    <2>2. PICK g : g = Sums(f, S)
      OBVIOUS
    <2>3. AddsUp(g, f, S)
      BY <1>1, <2>2, SumsExist
    <2>4. g[s] = IF s = {} THEN 0 ELSE f[FirstTaken(s)] + g[s \ {FirstTaken(s)}]
      BY <2>3 DEF AddsUp
    <2>5. QED
      BY <2>2, <2>4
  <1>3. 0 \in T
    <2>1. SUFFICES ASSUME NEW S \in SUBSET D, NEW s \in SUBSET S, Cardinality(s) = 0
                   PROVE  Sums(f, S)[s] = SumFunctionOnSet(f, s)
      OBVIOUS
    <2>2. s = {} /\ s \in SUBSET D /\ s \in SUBSET s
      BY <1>1, <2>1, FS_EmptySet
    <2>3. Sums(f, S)[s] = 0 /\ Sums(f, s)[s] = 0
      BY <1>2, <2>2
    <2>4. QED
      BY <2>3, SumUnfold
  <1>4. ASSUME NEW n \in T
        PROVE  n + 1 \in T
    <2>1. SUFFICES ASSUME NEW S \in SUBSET D, NEW s \in SUBSET S, Cardinality(s) = n + 1
                   PROVE  Sums(f, S)[s] = SumFunctionOnSet(f, s)
      OBVIOUS
    <2>11. n + 1 # 0 /\ Cardinality({}) = 0
      BY FS_EmptySet
    <2>2. s # {} /\ s \in SUBSET D
      BY <2>1, <2>11
    <2>3. FirstTaken(s) \in s
      BY <2>2 DEF FirstTaken
    <2>4. PICK t : t = s \ {FirstTaken(s)}
      OBVIOUS
    <2>5. Cardinality(t) = n
      BY <1>1, <2>1, <2>2, <2>3, <2>4, FS_RemoveElement
    <2>6. t \in SUBSET s /\ t \in SUBSET S
      BY <2>4
    <2>7. /\ Sums(f, S)[t] = SumFunctionOnSet(f, t)
          /\ Sums(f, s)[t] = SumFunctionOnSet(f, t)
      BY <2>2, <2>5, <2>6
    <2>8. /\ Sums(f, S)[s] = f[FirstTaken(s)] + Sums(f, S)[t]
          /\ Sums(f, s)[s] = f[FirstTaken(s)] + Sums(f, s)[t]
      BY <1>2, <2>2, <2>4
    <2>9. Sums(f, S)[s] = Sums(f, s)[s]
      BY <2>7, <2>8
    <2>10. QED
      BY <2>9, SumUnfold
  <1>5. T = Nat
    <2>1. T \in SUBSET Nat
      OBVIOUS
    <2> HIDE DEF T
    <2>2. QED
      BY <1>3, <1>4, <2>1, SetInduction
  <1>6. \A S \in SUBSET D : \A s \in SUBSET S : Sums(f, S)[s] = SumFunctionOnSet(f, s)
    BY <1>1, <1>5
  <1>7. SUFFICES ASSUME NEW S \in SUBSET D
                 PROVE  SumFunctionOnSet(f, S) =
                          IF S = {} THEN 0
                          ELSE f[FirstTaken(S)] + SumFunctionOnSet(f, S \ {FirstTaken(S)})
    OBVIOUS
  <1>8. S \ {FirstTaken(S)} \in SUBSET S /\ S \in SUBSET S
    OBVIOUS
  <1>9. SumFunctionOnSet(f, S) = Sums(f, S)[S]
    BY SumUnfold
  <1>10. Sums(f, S)[S \ {FirstTaken(S)}] = SumFunctionOnSet(f, S \ {FirstTaken(S)})
    BY <1>6, <1>8
  <1>11. QED
    BY <1>2, <1>8, <1>9, <1>10

\* The order in which the elements are taken does not matter.
LEMMA SumAdds ==
  ASSUME NEW D, IsFiniteSet(D), NEW f \in [D -> Nat]
  PROVE  /\ SumFunctionOnSet(f, {}) = 0
         /\ \A S \in SUBSET D :
              /\ SumFunctionOnSet(f, S) \in Nat
              /\ \A x \in D \ S :
                   SumFunctionOnSet(f, S \cup {x}) = f[x] + SumFunctionOnSet(f, S)
  <1> DEFINE Total1(S) == SumFunctionOnSet(f, S)
             Adds(S) == /\ Total1(S) \in Nat
                        /\ \A x \in S : Total1(S) = f[x] + Total1(S \ {x})
             T == {n \in Nat : \A S \in SUBSET D : Cardinality(S) <= n => Adds(S)}
  <1>1. \A S \in SUBSET D : IsFiniteSet(S) /\ Cardinality(S) \in Nat
    BY FS_Subset, FS_CardinalityType
  <1>2. \A S \in SUBSET D :
          Total1(S) = IF S = {} THEN 0 ELSE f[FirstTaken(S)] + Total1(S \ {FirstTaken(S)})
    BY SumTakes
  <1>3. Total1({}) = 0
    BY <1>2
  <1> HIDE DEF Total1
  <1>4. 0 \in T
    <2>1. SUFFICES ASSUME NEW S \in SUBSET D, Cardinality(S) <= 0
                   PROVE  Adds(S)
      OBVIOUS
    <2>2. S = {}
      BY <1>1, <2>1, FS_EmptySet
    <2>3. QED
      BY <1>3, <2>2
  <1>5. ASSUME NEW n \in T
        PROVE  n + 1 \in T
    <2>1. SUFFICES ASSUME NEW S \in SUBSET D, Cardinality(S) <= n + 1, S # {}
                   PROVE  Adds(S)
      BY <1>3
    <2>2. n \in Nat /\ \A U \in SUBSET D : Cardinality(U) <= n => Adds(U)
      OBVIOUS
    <2>3. ASSUME NEW U \in SUBSET S, NEW x \in S, x \notin U
          PROVE  U \in SUBSET D /\ Cardinality(U) <= n
      <3>1. U \in SUBSET (S \ {x}) /\ U \in SUBSET D
        BY <2>3
      <3>2. IsFiniteSet(S \ {x}) /\ Cardinality(S \ {x}) = Cardinality(S) - 1
        BY <1>1, FS_RemoveElement
      <3>3. Cardinality(U) <= Cardinality(S \ {x})
        BY <3>1, <3>2, FS_Subset
      <3>4. Cardinality(S) \in Nat /\ Cardinality(U) \in Nat
        BY <1>1, <3>1
      <3>5. QED
        BY <2>1, <2>2, <3>1, <3>2, <3>3, <3>4
    <2>4. PICK y \in S : y = FirstTaken(S)
      BY <2>1 DEF FirstTaken
    <2>5. Total1(S) = f[y] + Total1(S \ {y})
      BY <1>2, <2>1, <2>4
    <2>6. Adds(S \ {y})
      BY <2>2, <2>3
    <2>7. f[y] \in Nat
      OBVIOUS
    <2>8. Total1(S) \in Nat
      BY <2>5, <2>6, <2>7
    <2>9. ASSUME NEW x \in S
          PROVE  Total1(S) = f[x] + Total1(S \ {x})
      <3>1. CASE x = y
        BY <2>5, <3>1
      <3>2. CASE x # y
        <4>1. PICK U : U = (S \ {x}) \ {y}
          OBVIOUS
        <4>2. U = (S \ {y}) \ {x}
          BY <4>1
        <4>3. Adds(S \ {x}) /\ Adds(U)
          BY <2>2, <2>3, <4>1
        <4>4. Total1(S \ {y}) = f[x] + Total1(U)
          BY <2>6, <3>2, <4>2
        <4>5. Total1(S \ {x}) = f[y] + Total1(U)
          BY <3>2, <4>1, <4>3
        <4>6. f[x] \in Nat /\ Total1(U) \in Nat
          BY <4>3
        <4>7. QED
          BY <2>5, <2>7, <4>4, <4>5, <4>6
      <3>3. QED
        BY <3>1, <3>2
    <2>10. QED
      BY <2>8, <2>9
  <1>6. T = Nat
    <2>1. T \in SUBSET Nat
      OBVIOUS
    <2> HIDE DEF T
    <2>2. QED
      BY <1>4, <1>5, <2>1, SetInduction
  <1>7. \A S \in SUBSET D : Adds(S)
    <2>1. SUFFICES ASSUME NEW S \in SUBSET D
                   PROVE  Adds(S)
      OBVIOUS
    <2>2. PICK n \in Nat : n = Cardinality(S)
      BY <1>1
    <2>3. n \in T /\ Cardinality(S) <= n
      BY <1>6, <2>2
    <2> HIDE DEF Adds
    <2>4. QED
      BY <2>3
  <1>8. ASSUME NEW S \in SUBSET D, NEW x \in D \ S
        PROVE  Total1(S \cup {x}) = f[x] + Total1(S)
    <2>1. Adds(S \cup {x})
      BY <1>7
    <2>2. (S \cup {x}) \ {x} = S
      BY <1>8
    <2>3. QED
      BY <2>1, <2>2
  <1>9. QED
    BY <1>3, <1>7, <1>8 DEF Total1

\* The sum of one.
LEMMA SumOne ==
  ASSUME NEW D, IsFiniteSet(D), NEW f \in [D -> Nat], NEW x \in D
  PROVE  SumFunctionOnSet(f, {x}) = f[x]
  <1>1. SumFunctionOnSet(f, {} \cup {x}) = f[x] + SumFunctionOnSet(f, {})
    <2>1. {} \in SUBSET D /\ x \in D \ {}
      OBVIOUS
    <2>2. QED
      BY <2>1, SumAdds
  <1>2. SumFunctionOnSet(f, {}) = 0
    BY SumAdds
  <1>3. f[x] \in Nat /\ {} \cup {x} = {x}
    OBVIOUS
  <1>4. QED
    BY <1>1, <1>2, <1>3

\* The sum over two disjoint sets.
LEMMA SumUnion ==
  ASSUME NEW D, IsFiniteSet(D), NEW f \in [D -> Nat], NEW S \in SUBSET D
  PROVE  \A U \in SUBSET (D \ S) :
           SumFunctionOnSet(f, S \cup U) = SumFunctionOnSet(f, S) + SumFunctionOnSet(f, U)
  <1> DEFINE E == D \ S
             F == {U \in SUBSET E : SumFunctionOnSet(f, S \cup U)
                                      = SumFunctionOnSet(f, S) + SumFunctionOnSet(f, U)}
  <1>1. IsFiniteSet(E)
    BY FS_Difference
  <1>2. \A U \in SUBSET D : SumFunctionOnSet(f, U) \in Nat
    BY SumAdds
  <1>7. \A U \in SUBSET D : \A x \in D \ U :
          SumFunctionOnSet(f, U \cup {x}) = f[x] + SumFunctionOnSet(f, U)
    BY SumAdds, ZenonT(120)
  <1>3. {} \in F
    <2>1. S \cup {} = S /\ SumFunctionOnSet(f, {}) = 0 /\ SumFunctionOnSet(f, S) \in Nat
      BY <1>2, SumAdds
    <2>2. QED
      BY <2>1
  <1>4. ASSUME NEW U \in F, NEW x \in E \ U
        PROVE  U \cup {x} \in F
    <2>1. /\ S \cup U \in SUBSET D /\ U \in SUBSET D
          /\ x \in D \ (S \cup U) /\ x \in D \ U
      OBVIOUS
    <2>2. /\ SumFunctionOnSet(f, (S \cup U) \cup {x}) = f[x] + SumFunctionOnSet(f, S \cup U)
          /\ SumFunctionOnSet(f, U \cup {x}) = f[x] + SumFunctionOnSet(f, U)
      BY <1>7, <2>1
    <2>3. SumFunctionOnSet(f, S \cup U) = SumFunctionOnSet(f, S) + SumFunctionOnSet(f, U)
      OBVIOUS
    <2>4. (S \cup U) \cup {x} = S \cup (U \cup {x})
      OBVIOUS
    <2>5. f[x] \in Nat /\ SumFunctionOnSet(f, S) \in Nat /\ SumFunctionOnSet(f, U) \in Nat
      BY <1>2, <2>1
    <2>9. SumFunctionOnSet(f, S \cup (U \cup {x})) = f[x] + SumFunctionOnSet(f, S \cup U)
      BY <2>2, <2>4
    <2>6. SumFunctionOnSet(f, S \cup (U \cup {x}))
            = SumFunctionOnSet(f, S) + SumFunctionOnSet(f, U \cup {x})
      BY <2>2, <2>3, <2>5, <2>9
    <2>7. U \cup {x} \in SUBSET E
      OBVIOUS
    <2>8. QED
      BY <2>6, <2>7
  <1>5. F = SUBSET E
    <2>1. F \in SUBSET SUBSET E
      OBVIOUS
    <2> HIDE DEF F
    <2>2. QED
      BY <1>1, <1>3, <1>4, <2>1, FiniteInduction
  <1>6. QED
    BY <1>5

\* Functions that are the same on a set have the same sum over it.
LEMMA SumSame ==
  ASSUME NEW D, IsFiniteSet(D), NEW f \in [D -> Nat], NEW E, IsFiniteSet(E),
         NEW g \in [E -> Nat]
  PROVE  \A S \in SUBSET (D \cap E) :
           (\A x \in S : f[x] = g[x]) => SumFunctionOnSet(f, S) = SumFunctionOnSet(g, S)
  <1> DEFINE B == D \cap E
             F == {S \in SUBSET B : (\A x \in S : f[x] = g[x])
                                      => SumFunctionOnSet(f, S) = SumFunctionOnSet(g, S)}
  <1>1. IsFiniteSet(B)
    BY FS_Intersection
  <1>2. {} \in F
    BY SumAdds
  <1>3. ASSUME NEW S \in F, NEW x \in B \ S
        PROVE  S \cup {x} \in F
    <2>1. SUFFICES ASSUME \A y \in S \cup {x} : f[y] = g[y]
                   PROVE  SumFunctionOnSet(f, S \cup {x}) = SumFunctionOnSet(g, S \cup {x})
      OBVIOUS
    <2>2. SumFunctionOnSet(f, S) = SumFunctionOnSet(g, S) /\ f[x] = g[x]
      BY <2>1
    <2>3. S \in SUBSET D /\ S \in SUBSET E /\ x \in D \ S /\ x \in E \ S
      OBVIOUS
    <2>4. SumFunctionOnSet(f, S \cup {x}) = f[x] + SumFunctionOnSet(f, S)
      BY <2>3, SumAdds
    <2>5. SumFunctionOnSet(g, S \cup {x}) = g[x] + SumFunctionOnSet(g, S)
      BY <2>3, SumAdds
    <2>6. QED
      BY <2>2, <2>4, <2>5
  <1>4. F = SUBSET B
    <2>1. F \in SUBSET SUBSET B
      OBVIOUS
    <2> HIDE DEF F
    <2>2. QED
      BY <1>1, <1>2, <1>3, <2>1, FiniteInduction
  <1>5. QED
    BY <1>4

\* Those in the group n, and that one sum is as large as another.
Group(D, key, n) == {i \in D : key[i] = n}
SameSum(f, D, g, N) == SumFunctionOnSet(f, D) = SumFunctionOnSet(g, N)

\* The sum of the sums of the groups is that of all.
LEMMA SumGroups ==
  ASSUME NEW D, IsFiniteSet(D), NEW f \in [D -> Nat], NEW N, IsFiniteSet(N),
         NEW key \in [D -> N], NEW g \in [N -> Nat],
         \A n \in N : g[n] = SumFunctionOnSet(f, Group(D, key, n))
  PROVE  SameSum(g, N, f, D)
  <1> DEFINE In(S) == {i \in D : key[i] \in S}
             F == {S \in SUBSET N : SumFunctionOnSet(g, S) = SumFunctionOnSet(f, In(S))}
  <1>1. {} \in F
    <2>1. In({}) = {}
      OBVIOUS
    <2>2. SumFunctionOnSet(g, {}) = 0 /\ SumFunctionOnSet(f, {}) = 0
      BY SumAdds
    <2>3. QED
      BY <2>1, <2>2
  <1>2. ASSUME NEW S \in F, NEW n \in N \ S
        PROVE  S \cup {n} \in F
    <2>1. SumFunctionOnSet(g, S \cup {n}) = g[n] + SumFunctionOnSet(g, S)
      BY SumAdds
    <2>2. PICK A \in SUBSET D, B \in SUBSET D : A = In(S) /\ B = Group(D, key, n)
      BY DEF Group
    <2>3. B \in SUBSET (D \ A) /\ In(S \cup {n}) = A \cup B
      BY <2>2 DEF Group
    <2>4. SumFunctionOnSet(f, A \cup B) = SumFunctionOnSet(f, A) + SumFunctionOnSet(f, B)
      BY <2>2, <2>3, SumUnion
    <2>5. SumFunctionOnSet(g, S) = SumFunctionOnSet(f, A)
      BY <2>2
    <2>6. g[n] = SumFunctionOnSet(f, B)
      BY <2>2
    <2>7. SumFunctionOnSet(f, A) \in Nat /\ SumFunctionOnSet(f, B) \in Nat
      BY <2>2, SumAdds
    <2>8. SumFunctionOnSet(g, S \cup {n}) = SumFunctionOnSet(f, A \cup B)
      BY <2>1, <2>4, <2>5, <2>6, <2>7
    <2>9. SumFunctionOnSet(g, S \cup {n}) = SumFunctionOnSet(f, In(S \cup {n}))
      BY <2>3, <2>8
    <2>10. S \cup {n} \in SUBSET N
      OBVIOUS
    <2>11. QED
      BY <2>9, <2>10
  <1>3. F = SUBSET N
    <2>1. F \in SUBSET SUBSET N
      OBVIOUS
    <2> HIDE DEF F
    <2>2. QED
      BY <1>1, <1>2, <2>1, FiniteInduction
  <1>4. In(N) = D
    OBVIOUS
  <1>5. SumFunctionOnSet(g, N) = SumFunctionOnSet(f, In(N))
    BY <1>3
  <1>6. QED
    BY <1>4, <1>5 DEF SameSum

\* The elements may be named otherwise.
LEMMA SumRenamed ==
  ASSUME NEW D, IsFiniteSet(D), NEW f \in [D -> Nat], NEW N, IsFiniteSet(N),
         NEW g \in [N -> Nat], NEW name \in [D -> N],
         \A d \in D : f[d] = g[name[d]],
         \A d, e \in D : name[d] = name[e] => d = e,
         \A n \in N : \E d \in D : name[d] = n
  PROVE  SameSum(f, D, g, N)
  <1>1. ASSUME NEW n \in N
        PROVE  g[n] = SumFunctionOnSet(f, Group(D, name, n))
    <2>1. PICK d \in D : name[d] = n
      OBVIOUS
    <2>2. Group(D, name, n) = {d}
      BY <2>1 DEF Group
    <2>3. SumFunctionOnSet(f, {d}) = f[d]
      BY SumOne
    <2>4. f[d] = g[n]
      BY <2>1
    <2>5. QED
      BY <2>2, <2>3, <2>4
  <1>2. QED
    BY <1>1, SumGroups DEF SameSum

\* One sum is as large as three others.
SumOfThree(h, f, g, k, D) ==
  SumFunctionOnSet(h, D) =
    SumFunctionOnSet(f, D) + SumFunctionOnSet(g, D) + SumFunctionOnSet(k, D)

\* The sum of sums of three.
LEMMA SumPlus ==
  ASSUME NEW D, IsFiniteSet(D), NEW f \in [D -> Nat], NEW g \in [D -> Nat],
         NEW k \in [D -> Nat], NEW h \in [D -> Nat], \A x \in D : h[x] = f[x] + g[x] + k[x]
  PROVE  SumOfThree(h, f, g, k, D)
  <1> DEFINE F == {S \in SUBSET D : SumOfThree(h, f, g, k, S)}
  <1>1. {} \in F
    <2>1. /\ SumFunctionOnSet(h, {}) = 0 /\ SumFunctionOnSet(f, {}) = 0
          /\ SumFunctionOnSet(g, {}) = 0 /\ SumFunctionOnSet(k, {}) = 0
      BY SumAdds
    <2>2. QED
      BY <2>1 DEF SumOfThree
  <1>2. ASSUME NEW S \in F, NEW x \in D \ S
        PROVE  S \cup {x} \in F
    <2>1. SumFunctionOnSet(h, S \cup {x}) = h[x] + SumFunctionOnSet(h, S)
      BY SumAdds
    <2>2. SumFunctionOnSet(f, S \cup {x}) = f[x] + SumFunctionOnSet(f, S)
      BY SumAdds
    <2>3. SumFunctionOnSet(g, S \cup {x}) = g[x] + SumFunctionOnSet(g, S)
      BY SumAdds
    <2>4. SumFunctionOnSet(k, S \cup {x}) = k[x] + SumFunctionOnSet(k, S)
      BY SumAdds
    <2>5. h[x] = f[x] + g[x] + k[x] /\ f[x] \in Nat /\ g[x] \in Nat /\ k[x] \in Nat
      OBVIOUS
    <2>6. /\ SumFunctionOnSet(f, S) \in Nat /\ SumFunctionOnSet(g, S) \in Nat
          /\ SumFunctionOnSet(k, S) \in Nat
      BY SumAdds
    <2>7. SumFunctionOnSet(h, S)
            = SumFunctionOnSet(f, S) + SumFunctionOnSet(g, S) + SumFunctionOnSet(k, S)
      BY DEF SumOfThree
    <2>8. SumOfThree(h, f, g, k, S \cup {x})
      BY <2>1, <2>2, <2>3, <2>4, <2>5, <2>6, <2>7 DEF SumOfThree
    <2>9. QED
      BY <2>8
  <1>3. F = SUBSET D
    <2>1. F \in SUBSET SUBSET D
      OBVIOUS
    <2> HIDE DEF F
    <2>2. QED
      BY <1>1, <1>2, <2>1, FiniteInduction
  <1>4. QED
    BY <1>3

-----------------------------------------------------------------------------
(* The least and the greatest.                                             *)

\* A finite set of numbers has a greatest one.
LEMMA HasGreatest ==
  ASSUME NEW D \in SUBSET Int, IsFiniteSet(D), D # {}
  PROVE  \E x \in D : \A y \in D : x >= y
  <1> DEFINE F == {S \in SUBSET D : S # {} => \E x \in S : \A y \in S : x >= y}
  <1>1. {} \in F
    OBVIOUS
  <1>2. ASSUME NEW S \in F, NEW n \in D \ S
        PROVE  S \cup {n} \in F
    <2>1. CASE S = {}
      BY <2>1
    <2>2. CASE S # {}
      <3>1. PICK x \in S : \A y \in S : x >= y
        BY <2>2
      <3>2. CASE n >= x
        <4>1. \A y \in S \cup {n} : n >= y
          BY <3>1, <3>2
        <4>2. QED
          BY <4>1
      <3>3. CASE ~(n >= x)
        <4>1. \A y \in S \cup {n} : x >= y
          BY <3>1, <3>3
        <4>2. QED
          BY <4>1
      <3>4. QED
        BY <3>2, <3>3
    <2>3. QED
      BY <2>1, <2>2
  <1>3. F = SUBSET D
    <2>1. F \in SUBSET SUBSET D
      OBVIOUS
    <2> HIDE DEF F
    <2>2. QED
      BY <1>1, <1>2, <2>1, FiniteInduction
  <1>4. QED
    BY <1>3

\* And a least one.
LEMMA HasLeast ==
  ASSUME NEW D \in SUBSET Int, IsFiniteSet(D), D # {}
  PROVE  \E x \in D : \A y \in D : x <= y
  <1> DEFINE F == {S \in SUBSET D : S # {} => \E x \in S : \A y \in S : x <= y}
  <1>1. {} \in F
    OBVIOUS
  <1>2. ASSUME NEW S \in F, NEW n \in D \ S
        PROVE  S \cup {n} \in F
    <2>1. CASE S = {}
      BY <2>1
    <2>2. CASE S # {}
      <3>1. PICK x \in S : \A y \in S : x <= y
        BY <2>2
      <3>2. CASE n <= x
        <4>1. \A y \in S \cup {n} : n <= y
          BY <3>1, <3>2
        <4>2. QED
          BY <4>1
      <3>3. CASE ~(n <= x)
        <4>1. \A y \in S \cup {n} : x <= y
          BY <3>1, <3>3
        <4>2. QED
          BY <4>1
      <3>4. QED
        BY <3>2, <3>3
    <2>3. QED
      BY <2>1, <2>2
  <1>3. F = SUBSET D
    <2>1. F \in SUBSET SUBSET D
      OBVIOUS
    <2> HIDE DEF F
    <2>2. QED
      BY <1>1, <1>2, <2>1, FiniteInduction
  <1>4. QED
    BY <1>3

-----------------------------------------------------------------------------
(* The formatters.                                                         *)

\* A figure that is rounded to a tenth of itself, or less, is off by a twentieth at most.
LEMMA Rounded ==
  ASSUME NEW v \in Nat, NEW g \in Nat \ {0}, v >= 10 * g
  PROVE  LET c == (v + g \div 2) \div g
         IN  /\ c * g \in Int
             /\ c * g - v <= v \div 20
             /\ v - c * g <= v \div 20
  <1>1. PICK c \in Int, h \in Int, t \in Int :
          c = (v + g \div 2) \div g /\ h = g \div 2 /\ t = v \div 20
    OBVIOUS
  <1>2. 2 * h <= g /\ g <= 2 * h + 1
    BY <1>1
  <1>3. h <= t
    BY <1>1
  <1>4. c * g <= v + h /\ v + h < c * g + g
    BY <1>1
  <1>5. c * g \in Int
    BY <1>1
  <1>6. c * g - v <= t /\ v - c * g <= t
    BY <1>2, <1>3, <1>4, <1>5
  <1>7. QED
    BY <1>1, <1>5, <1>6

\* A step of a ladder from ten times its grain on.
Rung(s) == s.grain \in Nat \ {0} /\ s.from \in Nat /\ s.from >= 10 * s.grain

\* What is shown on a ladder of units is rounded on one rung of it.
LEMMA LadderRounds ==
  ASSUME NEW n \in Nat, NEW ladder, DOMAIN ladder = 1 .. n,
         \A k \in 1 .. n : Rung(ladder[k]), NEW v \in Nat
  PROVE  Apart(OnLadder(ladder, v), v) <= v \div 20
  <1>1. PICK fits \in SUBSET (1 .. n) : fits = {k \in DOMAIN ladder : v >= ladder[k].from}
    OBVIOUS
  <1>2. PICK s : s = ladder[CHOOSE k \in fits : \A j \in fits : k <= j]
    OBVIOUS
  <1>3. PICK f : f = OnLadder(ladder, v)
    OBVIOUS
  <1>4. CASE fits = {}
    <2>1. f = [count |-> v, grain |-> 1, unit |-> ""]
      BY <1>1, <1>3, <1>4 DEF OnLadder
    <2>4. f.count = v /\ f.grain = 1
      BY <2>1
    <2>2. Written(f) = v
      BY <2>4 DEF Written
    <2>3. QED
      BY <1>3, <2>2 DEF Apart
  <1>5. CASE fits # {}
    <2>12. IsFiniteSet(1 .. n)
      BY FS_Interval
    <2>1. IsFiniteSet(fits) /\ fits \in SUBSET Int
      BY <1>1, <2>12, FS_Subset
    <2>2. \E k \in fits : \A j \in fits : k <= j
      BY <1>5, <2>1, HasLeast
    <2>3. PICK k \in fits : s = ladder[k]
      BY <1>2, <2>2
    <2>4. Rung(s) /\ v >= s.from
      BY <1>1, <2>3
    <2>13. PICK g \in Nat \ {0} : g = s.grain
      BY <2>4 DEF Rung
    <2>14. (v + g \div 2) \div g \in Int
      OBVIOUS
    <2>5. PICK c \in Int : c = (v + g \div 2) \div g
      BY <2>14
    <2>6. v >= 10 * g
      BY <2>4, <2>13 DEF Rung
    <2>7. /\ c * g \in Int
          /\ c * g - v <= v \div 20
          /\ v - c * g <= v \div 20
      BY <2>5, <2>6, Rounded
    <2>8. f = [count |-> (v + s.grain \div 2) \div s.grain, grain |-> s.grain,
               unit |-> s.unit]
      BY <1>1, <1>2, <1>3, <1>5, Zenon DEF OnLadder
    <2>9. f.count = c /\ f.grain = g
      BY <2>5, <2>8, <2>13
    <2>10. Written(f) = c * g
      BY <2>9 DEF Written
    <2>11. QED
      BY <1>3, <2>7, <2>10 DEF Apart
  <1>6. QED
    BY <1>4, <1>5

\* What a formatter of the pages writes is off by a twentieth at most.
LEMMA FormatsRound ==
  ASSUME NEW v \in Nat
  PROVE  /\ Apart(formatBps(v), v) <= v \div 20
         /\ Apart(formatPps(v), v) <= v \div 20
         /\ Apart(formatBpsFine(v), v) <= v \div 20
         /\ Apart(formatPpsFine(v), v) <= v \div 20
         /\ Apart(formatBytes(v), v) <= v \div 20
  <1>1. /\ G \div 10 = 100000000 /\ G \div 100 = 10000000
        /\ M \div 10 = 100000 /\ M \div 100 = 10000 /\ K \div 10 = 100
    BY DEF G, M, K
  <1>2. /\ Rung(Step(G, G \div 10, "Gbps")) /\ Rung(Step(G, G \div 100, "Gbps"))
        /\ Rung(Step(G, G \div 100, "GB"))
        /\ Rung(Step(M, M \div 10, "Mbps")) /\ Rung(Step(M, M \div 100, "Mbps"))
        /\ Rung(Step(M, M \div 10, "Mpps")) /\ Rung(Step(M, M \div 100, "Mpps"))
        /\ Rung(Step(M, M \div 10, "MB"))
        /\ Rung(Step(K, K \div 10, "Kbps")) /\ Rung(Step(K, K \div 10, "Kpps"))
        /\ Rung(Step(K, K \div 10, "KB"))
    BY <1>1 DEF Rung, Step, G, M, K
  <1>3. ASSUME NEW a, NEW b, NEW c, Rung(a), Rung(b), Rung(c)
        PROVE  Apart(OnLadder(<<a, b, c>>, v), v) <= v \div 20
    <2>1. PICK ladder : ladder = <<a, b, c>>
      OBVIOUS
    <2>2. DOMAIN ladder = 1 .. 3 /\ ladder[1] = a /\ ladder[2] = b /\ ladder[3] = c
      BY <2>1
    <2>3. \A k \in 1 .. 3 : Rung(ladder[k])
      BY <1>3, <2>2
    <2>4. QED
      BY <2>1, <2>2, <2>3, LadderRounds
  <1>4. ASSUME NEW a, NEW b, Rung(a), Rung(b)
        PROVE  Apart(OnLadder(<<a, b>>, v), v) <= v \div 20
    <2>1. PICK ladder : ladder = <<a, b>>
      OBVIOUS
    <2>2. DOMAIN ladder = 1 .. 2 /\ ladder[1] = a /\ ladder[2] = b
      BY <2>1
    <2>3. \A k \in 1 .. 2 : Rung(ladder[k])
      BY <1>4, <2>2
    <2>4. QED
      BY <2>1, <2>2, <2>3, LadderRounds
  <1>5. QED
    BY <1>2, <1>3, <1>4
       DEF formatBps, formatPps, formatBpsFine, formatPpsFine, formatBytes

\* One figure with its unit, or two.
LEMMA OneWritten ==
  ASSUME NEW n \in Int, NEW u, NEW d, d = <<n, u>>
  PROVE  DurationWritten(d) = n * Seconds(u) + 0
  <1>1. d[1] = n /\ d[2] = u /\ Len(d) = 2
    OBVIOUS
  <1>2. QED
    BY <1>1 DEF DurationWritten

\* A number of two parts, the second padded to two digits.
LEMMA TwoWritten ==
  ASSUME NEW n \in Int, NEW u, NEW m \in Int, NEW w, NEW d, d = <<n, u, m, w>>
  PROVE  DurationWritten(d) = n * Seconds(u) + m * Seconds(w)
  <1>1. d[1] = n /\ d[2] = u /\ d[3] = m /\ d[4] = w /\ Len(d) = 4
    OBVIOUS
  <1>2. QED
    BY <1>1 DEF DurationWritten

\* A duration that is written is off by less than its smaller unit.
LEMMA DurationsRound ==
  ASSUME NEW secs \in Nat
  PROVE  /\ secs - DurationWritten(formatDuration(secs)) \in
              0 .. (IF secs < 3600 THEN 0 ELSE 59)
         /\ secs - DurationWritten(formatRelative(secs)) \in
              0 .. (IF secs < 3600 THEN 59 ELSE 3599)
         /\ secs > 0 => secs - DurationWritten(formatRelativeFlow(secs)) \in 0 .. 59
  <1>1. Seconds("s") = 1 /\ Seconds("m") = 60 /\ Seconds("h") = 3600
    BY DEF Seconds
  <1>2. PICK minutes \in Int, hours \in Int, left \in Int, part \in Int :
          /\ minutes = secs \div 60 /\ left = secs % 60
          /\ hours = secs \div 3600 /\ part = (secs % 3600) \div 60
    OBVIOUS
  <1>3. /\ secs = minutes * 60 + left /\ left \in 0 .. 59
        /\ secs - (hours * 3600 + part * 60) \in 0 .. 59
        /\ secs - hours * 3600 \in 0 .. 3599
    BY <1>2, SMTT(60)
  <1>4. PICK d, r, f : /\ d = formatDuration(secs) /\ r = formatRelative(secs)
                       /\ f = formatRelativeFlow(secs)
    OBVIOUS
  <1>5. CASE secs < 60
    <2>1. d = <<secs, "s">> /\ r = <<secs, "s">>
      BY <1>4, <1>5 DEF formatDuration, formatRelative
    <2>2. secs > 0 => f = <<secs, "s">>
      BY <1>4, <1>5 DEF formatRelativeFlow
    <2>3. DurationWritten(d) = secs /\ DurationWritten(r) = secs
      BY <1>1, <2>1, OneWritten
    <2>4. secs > 0 => DurationWritten(f) = secs
      BY <1>1, <2>2, OneWritten
    <2>5. QED
      BY <1>4, <1>5, <2>3, <2>4
  <1>6. CASE secs >= 60 /\ secs < 3600
    <2>1. d = <<minutes, "m", left, "s">> /\ r = <<minutes, "m">> /\ f = <<minutes, "m">>
      BY <1>2, <1>4, <1>6 DEF formatDuration, formatRelative, formatRelativeFlow
    <2>2. DurationWritten(r) = minutes * 60 /\ DurationWritten(f) = minutes * 60
      BY <1>1, <2>1, OneWritten
    <2>3. DurationWritten(d) = minutes * 60 + left
      BY <1>1, <2>1, TwoWritten
    <2>4. QED
      BY <1>3, <1>4, <1>6, <2>2, <2>3, SMTT(120)
  <1>7. CASE ~(secs < 3600)
    <2>1. d = <<hours, "h", part, "m">> /\ r = <<hours, "h">> /\ f = <<minutes, "m">>
      BY <1>2, <1>4, <1>7 DEF formatDuration, formatRelative, formatRelativeFlow
    <2>2. DurationWritten(r) = hours * 3600 /\ DurationWritten(f) = minutes * 60
      BY <1>1, <2>1, OneWritten
    <2>3. DurationWritten(d) = hours * 3600 + part * 60
      BY <1>1, <2>1, TwoWritten
    <2>4. QED
      BY <1>3, <1>4, <1>7, <2>2, <2>3, SMTT(120)
  <1>8. QED
    BY <1>5, <1>6, <1>7

\* The figures of every row can be read back.
LEMMA RowsReadBack ==
  ASSUME PagesInv
  PROVE  FiguresReadBack
  <1>1. SUFFICES ASSUME At("incidents"),
                        NEW id \in {view.incidents[k] : k \in DOMAIN view.incidents}
                 PROVE  LET i == Incidents[id]
                            row == RowShown(id)
                            Off(duration) == i.secs - DurationWritten(duration)
                        IN  /\ \A f \in {row.bps, formatBytes(i.bps),
                                         formatMetric(i.bps, "bps"), formatY(i.bps, "bps")} :
                                 Apart(f, i.bps) <= i.bps \div 20
                            /\ \A f \in {row.pps, formatMetric(i.pps, "pps"),
                                         formatY(i.pps, "pps")} :
                                 Apart(f, i.pps) <= i.pps \div 20
                            /\ Off(row.duration) \in 0 .. (IF i.secs < 3600 THEN 0 ELSE 59)
                            /\ Off(formatRelative(i.secs)) \in
                                 0 .. (IF i.secs < 3600 THEN 59 ELSE 3599)
                            /\ i.secs > 0 => Off(formatRelativeFlow(i.secs)) \in 0 .. 59
    BY DEF FiguresReadBack
  <1>2. view \in ListViews
    BY <1>1, PageNamed DEF PagesInv, PagesTyped, At
  <1>3. id \in 1 .. Len(Incidents)
    <2>1. view.incidents \in Seq(1 .. Len(Incidents))
      BY <1>2 DEF ListViews
    <2>2. QED
      BY <1>1, <2>1, ElementOfSeq, LenProperties
  <1>4. PICK i : i = Incidents[id]
    OBVIOUS
  <1>5. i.pps \in Nat /\ i.bps \in Nat /\ i.secs \in Nat
    <2>1. i \in Range(Incidents)
      BY <1>3, <1>4, IncidentsAssumption DEF Range
    <2>2. QED
      BY <2>1, IncidentsAssumption
  <1>6. PICK bps \in Nat, pps \in Nat, secs \in Nat :
          bps = i.bps /\ pps = i.pps /\ secs = i.secs
    BY <1>5
  <1>7. /\ RowShown(id).bps = formatBps(bps) /\ RowShown(id).pps = formatPps(pps)
        /\ RowShown(id).duration = formatDuration(secs)
    BY <1>4, <1>6 DEF RowShown
  <1>8. /\ formatMetric(bps, "bps") = formatBpsFine(bps)
        /\ formatMetric(pps, "pps") = formatPpsFine(pps)
        /\ formatY(bps, "bps") = formatBps(bps) /\ formatY(pps, "pps") = formatPps(pps)
    BY DEF formatMetric, formatY
  <1>9. \A f \in {RowShown(id).bps, formatBytes(bps), formatMetric(bps, "bps"),
                  formatY(bps, "bps")} :
          Apart(f, bps) <= bps \div 20
    BY <1>7, <1>8, FormatsRound
  <1>10. \A f \in {RowShown(id).pps, formatMetric(pps, "pps"), formatY(pps, "pps")} :
           Apart(f, pps) <= pps \div 20
    BY <1>7, <1>8, FormatsRound
  <1>11. /\ secs - DurationWritten(RowShown(id).duration) \in
              0 .. (IF secs < 3600 THEN 0 ELSE 59)
         /\ secs - DurationWritten(formatRelative(secs)) \in
              0 .. (IF secs < 3600 THEN 59 ELSE 3599)
         /\ secs > 0 => secs - DurationWritten(formatRelativeFlow(secs)) \in 0 .. 59
    BY <1>7, DurationsRound
  <1>12. QED
    BY <1>4, <1>6, <1>9, <1>10, <1>11

-----------------------------------------------------------------------------
(* What is drawn and said.                                                 *)

\* Nothing is said to be empty before it was heard of.
LEMMA EmptinessTold ==
  ASSUME PagesInv
  PROVE  EmptyTrue
  <1>1. PageInv(view, hidden) /\ view \in Views
    BY DEF PagesInv, PagesTyped
  <1>2. ASSUME At("traffic"), TrafficShown(view) = "empty"
        PROVE  view.told
    <2>1. ~view.loadingFirst /\ ~view.topError
      BY <1>2 DEF TrafficShown
    <2>2. TrafficTimed(view, hidden)
      BY <1>1, <1>2 DEF At, PageInv, TrafficInv
    <2>3. QED
      BY <2>1, <2>2 DEF TrafficTimed
  <1>3. ASSUME At("flows"), ChartShown(view) = "empty" \/ TopShown(view) = "empty"
        PROVE  view.overview # NoOverview \/ FlowsAlert(view)
    <2>1. ~view.loadingFirst
      BY <1>3 DEF ChartShown, TopShown
    <2>2. FlowsInv(view, hidden)
      BY <1>1, <1>3 DEF At, PageInv
    <2>3. QED
      BY <2>1, <2>2 DEF FlowsInv, FlowsAlert
  <1>4. ASSUME At("flows"), RecentShown(view) = "empty"
        PROVE  view.recent = "empty" \/ view.rcAsked > 0
    <2>1. ~view.recentError /\ view.recent \in {"none", "empty"}
      <3>1. view.recent \in {"none", "empty", "some"}
        BY <1>1, <1>4, PageNamed DEF At, FlowsViews, RecentAnswers
      <3>2. QED
        BY <1>4, <3>1 DEF RecentShown
    <2>2. FlowsInv(view, hidden)
      BY <1>1, <1>4 DEF At, PageInv
    <2>3. QED
      BY <2>1, <2>2 DEF FlowsInv
  <1>5. ASSUME At("analytics"), Card(view, sankeyOption(view)) = "empty"
        PROVE  view.analytics # NoData \/ AnalyticsAlert(view)
    <2>1. ~view.loadingFirst
      BY <1>5 DEF Card
    <2>2. AnalyticsInv(view, hidden)
      BY <1>1, <1>5 DEF At, PageInv
    <2>3. QED
      BY <2>1, <2>2 DEF AnalyticsInv, AnalyticsAlert
  <1>6. ASSUME At("exporters"), ExportersShown(view) = "empty"
        PROVE  view.told \/ view.asked > 0
    <2>1. ~view.loading /\ ~view.error
      BY <1>6 DEF ExportersShown
    <2>2. ExportersInv(view)
      BY <1>1, <1>6 DEF At, PageInv
    <2>3. QED
      BY <2>1, <2>2 DEF ExportersInv
  <1>7. ASSUME At("incidents"), ListShown(view) = "empty"
        PROVE  view.told /\ view.total = 0
    <2>1. ~view.loading /\ ~view.error /\ view.incidents = <<>>
      BY <1>7 DEF ListShown
    <2>2. ListInv(view)
      BY <1>1, <1>7 DEF At, PageInv
    <2>3. view.told
      BY <2>1, <2>2 DEF ListInv
    <2>4. view.total \in Nat /\ view.known \in Nat
      <3>1. view \in ListViews
        BY <1>1, <1>7, PageNamed DEF At
      <3>2. Len(Incidents) \in Nat
        BY IncidentsAssumption, LenProperties
      <3>3. QED
        BY <3>1, <3>2 DEF ListViews
    <2>5. PICK n \in view.total .. view.known : n = 0
      BY <2>1, <2>2 DEF ListInv
    <2>6. QED
      BY <2>3, <2>4, <2>5
  <1>8. ASSUME At("settings"), SettingsShown(view) = "empty"
        PROVE  view.told
    <2>1. ~view.loading /\ ~view.fetchError
      BY <1>8 DEF SettingsShown
    <2>2. RoutersInv(view)
      BY <1>1, <1>8 DEF At, PageInv, SettingsInv
    <2>3. QED
      BY <2>1, <2>2 DEF RoutersInv
  <1>9. QED
    BY <1>2, <1>3, <1>4, <1>5, <1>6, <1>7, <1>8 DEF EmptyTrue

\* Senders and receivers are named apart.
LEMMA SendersApart ==
  ASSUME PagesInv
  PROVE  SankeyAcyclic
  <1>1. SUFFICES ASSUME At("analytics"), sankeyOption(view) # NoData,
                        NEW e \in sankeyOption(view).links, NEW f \in sankeyOption(view).links
                 PROVE  e.source # f.target
    BY DEF SankeyAcyclic
  <1>2. view \in AnalyticsViews
    BY <1>1, PageNamed DEF PagesInv, PagesTyped, At
  <1>3. view.analytics # NoData /\ sankeyOption(view).links = view.analytics.sankey
    BY <1>1 DEF sankeyOption
  <1>4. view.analytics \in Analyses
    BY <1>2, <1>3 DEF AnalyticsViews
  <1>5. PICK t \in Traffics : view.analytics = handleDashboardAnalytics(t)
    BY <1>4 DEF Analyses
  <1>6. PICK edges : edges = Sankey(t.flows)
    OBVIOUS
  <1>7. view.analytics.sankey = edges
    BY <1>5, <1>6 DEF handleDashboardAnalytics
  <1>8. ASSUME NEW g \in edges
        PROVE  g.source[2] = "sends" /\ g.target[2] = "receives"
    <2>1. PICK p, bytes : g = [source |-> <<p[1], "sends">>, target |-> <<p[2], "receives">>,
                               bytes |-> bytes]
      BY <1>6, <1>8 DEF Sankey
    <2>2. g.source = <<p[1], "sends">> /\ g.target = <<p[2], "receives">>
      BY <2>1
    <2>3. QED
      BY <2>2
  <1>9. e.source[2] = "sends" /\ f.target[2] = "receives"
    BY <1>1, <1>3, <1>7, <1>8
  <1>10. QED
    BY <1>9

\* The greatest of some figures, which is zero if there is none.
LEMMA GreatestBounds ==
  ASSUME NEW n \in Nat, NEW s \in [1 .. n -> Nat]
  PROVE  /\ Greatest(s) \in Nat
         /\ \A i \in 1 .. n : s[i] <= Greatest(s)
         /\ Greatest(s) = 0 \/ \E i \in 1 .. n : s[i] = Greatest(s)
  <1>1. PICK all : all = {0} \cup Range(s)
    OBVIOUS
  <1>2. all \in SUBSET Int /\ all # {} /\ \A x \in all : x = 0 \/ \E i \in 1 .. n : x = s[i]
    BY <1>1 DEF Range
  <1>3. IsFiniteSet(all)
    <2>1. IsFiniteSet(1 .. n)
      BY FS_Interval
    <2>2. s \in Surjection(1 .. n, Range(s))
      BY DEF Surjection, Range
    <2>3. IsFiniteSet(Range(s))
      BY <2>1, <2>2, FS_Surjection
    <2>4. IsFiniteSet({0})
      BY FS_Singleton
    <2>5. QED
      BY <1>1, <2>3, <2>4, FS_Union
  <1>4. \E x \in all : \A y \in all : x >= y
    BY <1>2, <1>3, HasGreatest
  <1>5. PICK m : m = Greatest(s)
    OBVIOUS
  <1>6. m \in all /\ \A y \in all : m >= y
    BY <1>1, <1>4, <1>5 DEF Greatest, Max
  <1>7. \A i \in 1 .. n : s[i] \in all /\ s[i] \in Nat
    BY <1>1 DEF Range
  <1>8. m \in Nat
    BY <1>2, <1>6
  <1>9. \A i \in 1 .. n : s[i] <= m
    BY <1>6, <1>7, <1>8
  <1>10. QED
    BY <1>2, <1>5, <1>6, <1>8, <1>9

\* A part of the whole, in so many steps of it.
LEMMA Scaled ==
  ASSUME NEW part \in Nat, NEW whole \in Nat \ {0}, part <= whole, NEW steps \in Nat
  PROVE  /\ (part * steps) \div whole \in 0 .. steps
         /\ part = whole => (part * steps) \div whole = steps
  <1>1. PICK q \in Int : q = (part * steps) \div whole
    OBVIOUS
  <1>2. part * steps \in Nat /\ part * steps <= whole * steps
    OBVIOUS
  <1>3. q * whole <= part * steps /\ part * steps < q * whole + whole
    BY <1>1, <1>2
  <1>4. q >= 0
    BY <1>2, <1>3
  <1>5. ~(q >= steps + 1)
    <2>1. ASSUME q >= steps + 1
          PROVE  FALSE
      <3>1. q * whole >= (steps + 1) * whole
        BY <2>1
      <3>2. (steps + 1) * whole = whole * steps + whole
        OBVIOUS
      <3>3. whole * steps \in Int /\ q * whole \in Int
        OBVIOUS
      <3>4. QED
        BY <1>2, <1>3, <3>1, <3>2, <3>3
    <2>2. QED
      BY <2>1
  <1>6. ASSUME part = whole
        PROVE  q = steps
    <2>1. (q + 1) * whole > whole * steps
      BY <1>3, <1>6
    <2>2. ~(q + 1 <= steps)
      <3>1. ASSUME q + 1 <= steps
            PROVE  FALSE
        <4>1. (q + 1) * whole <= steps * whole
          BY <3>1
        <4>2. QED
          BY <2>1, <4>1
      <3>2. QED
        BY <3>1
    <2>3. QED
      BY <1>4, <1>5, <2>2
  <1>7. QED
    BY <1>1, <1>4, <1>5, <1>6

\* A sparkline stays in its box.
LEMMA PathInBox ==
  ASSUME NEW values \in Seq(Nat)
  PROVE  LET path == sparkPath(values)
         IN  /\ \A k \in DOMAIN path : path[k].x \in 0 .. 120 /\ path[k].y \in 0 .. 28
             /\ Len(path) > 1 => path[Len(path)].x = 120
  <1>1. PICK n \in Nat : n = Len(values)
    OBVIOUS
  <1>2. PICK data \in [1 .. n -> Nat] : data = Reverse(values)
    <2>1. Reverse(values) = [i \in 1 .. n |-> values[(n - i) + 1]]
      BY <1>1 DEF Reverse
    <2>2. \A i \in 1 .. n : values[(n - i) + 1] \in Nat
      BY <1>1
    <2>3. QED
      BY <2>1, <2>2
  <1>3. DOMAIN data = 1 .. n /\ data \in Seq(Nat) /\ Len(data) = n
    BY <1>2, SeqDef
  <1>4. PICK max \in Nat \ {0} : max = IF Greatest(data) > 1 THEN Greatest(data) ELSE 1
    BY GreatestBounds
  <1>5. \A i \in 1 .. n : data[i] <= max
    BY <1>4, GreatestBounds, SMTT(120)
  <1>6. PICK steps \in Nat \ {0} : steps = IF Len(data) > 2 THEN Len(data) - 1 ELSE 1
    BY <1>3
  <1>7. PICK path : path = sparkPath(values)
    OBVIOUS
  <1>8. path = [i \in 1 .. n |-> [x |-> ((i - 1) * 120) \div steps,
                                  y |-> 28 - (data[i] * (28 - 2)) \div max - 1]]
    BY <1>2, <1>3, <1>4, <1>6, <1>7 DEF sparkPath
  <1>9. Len(path) = n /\ DOMAIN path = 1 .. n
    BY <1>8
  <1>10. ASSUME NEW k \in 1 .. n
         PROVE  path[k].x \in 0 .. 120 /\ path[k].y \in 0 .. 28
    <2>1. PICK x, y : x = ((k - 1) * 120) \div steps /\ y = (data[k] * 26) \div max
      OBVIOUS
    <2>2. path[k].x = x /\ path[k].y = 28 - y - 1
      BY <1>8, <2>1
    <2>3. k - 1 \in Nat /\ k - 1 <= steps
      BY <1>3, <1>6
    <2>4. x \in 0 .. 120
      BY <2>1, <2>3, Scaled
    <2>5. data[k] \in Nat /\ data[k] <= max
      BY <1>5
    <2>6. y \in 0 .. 26
      BY <2>1, <2>5, Scaled
    <2>7. QED
      BY <2>2, <2>4, <2>6
  <1>11. ASSUME n > 1
         PROVE  path[n].x = 120
    <2>1. n - 1 = steps
      BY <1>3, <1>6, <1>11
    <2>2. path[n].x = ((n - 1) * 120) \div steps
      BY <1>8, <1>11
    <2>3. (steps * 120) \div steps = 120
      BY Scaled
    <2>4. QED
      BY <2>1, <2>2, <2>3
  <1>12. QED
    BY <1>7, <1>9, <1>10, <1>11, SMTT(120)

\* The bars of the top hosts are drawn to one scale.
LEMMA BarsScaled ==
  ASSUME PagesInv
  PROVE  BarsToScale
  <1>1. SUFFICES ASSUME At("flows"), TopShown(view) = "rows",
                        NEW i \in DOMAIN view.overview.top
                 PROVE  LET row == view.overview.top[i]
                            path == sparkPath(row.sparkline)
                        IN  /\ TopBars(view)[i] \in 0 .. 100
                            /\ view.overview.top[1].bps > 0 => TopBars(view)[1] = 100
                            /\ \A k \in DOMAIN path :
                                 path[k].x \in 0 .. 120 /\ path[k].y \in 0 .. 28
                            /\ Len(path) > 1 => path[Len(path)].x = 120
    BY DEF BarsToScale
  <1>2. view \in FlowsViews
    BY <1>1, PageNamed DEF PagesInv, PagesTyped, At
  <1>3. PICK top : top = view.overview.top
    OBVIOUS
  <1>4. top # <<>>
    BY <1>1, <1>3 DEF TopShown
  <1>5. top \in TopLists
    <2>1. view.overview # NoOverview
      BY <1>3, <1>4 DEF NoOverview
    <2>2. view.overview \in Overviews
      BY <1>2, <2>1 DEF FlowsViews
    <2>3. QED
      BY <1>3, <2>2 DEF Overviews
  <1>6. /\ top \in Seq([bps : Nat, sparkline : Seq(Nat)])
        /\ \A j, k \in DOMAIN top : j <= k => top[j].bps >= top[k].bps
    BY <1>5, OverviewAssumption
  <1>7. PICK n \in Nat : n = Len(top)
    BY <1>6
  <1>8. DOMAIN top = 1 .. n /\ n > 0
    BY <1>4, <1>6, <1>7
  <1>9. \A k \in 1 .. n : top[k].bps \in Nat /\ top[k].sparkline \in Seq(Nat)
    <2>1. PICK R : R = [bps : Nat, sparkline : Seq(Nat)]
      OBVIOUS
    <2>2. \A r \in R : r.bps \in Nat /\ r.sparkline \in Seq(Nat)
      BY <2>1
    <2>5. top \in Seq(R)
      BY <1>6, <2>1
    <2>3. \A k \in 1 .. n : top[k] \in R
      BY <1>7, <2>5, ElementOfSeq
    <2>4. QED
      BY <2>2, <2>3
  <1>10. PICK s \in [1 .. n -> Nat] : s = [k \in DOMAIN top |-> top[k].bps]
    BY <1>8, <1>9
  <1>11. PICK m \in Nat : m = topBpsMax(view)
    BY <1>3, <1>10, GreatestBounds DEF topBpsMax
  <1>12. m = Greatest(s)
    BY <1>3, <1>10, <1>11 DEF topBpsMax
  <1>13. \A k \in 1 .. n : s[k] <= m
    BY <1>12, GreatestBounds
  <1>14. \A k \in 1 .. n : TopBars(view)[k] = IF m = 0 THEN 0 ELSE (s[k] * 100) \div m
    BY <1>3, <1>8, <1>10, <1>11 DEF TopBars
  <1>15. i \in 1 .. n
    BY <1>1, <1>3, <1>8
  <1>16. TopBars(view)[i] \in 0 .. 100
    <2>1. CASE m = 0
      BY <1>14, <1>15, <2>1
    <2>2. CASE m # 0
      <3>1. s[i] \in Nat /\ s[i] <= m /\ m \in Nat \ {0}
        BY <1>13, <1>15, <2>2
      <3>2. (s[i] * 100) \div m \in 0 .. 100
        BY <3>1, Scaled
      <3>3. QED
        BY <1>14, <1>15, <2>2, <3>2
    <2>3. QED
      BY <2>1, <2>2
  <1>17. ASSUME top[1].bps > 0
         PROVE  TopBars(view)[1] = 100
    <2>1. 1 \in 1 .. n /\ s[1] = top[1].bps /\ s[1] \in Nat
      BY <1>8, <1>10
    <2>9. \A k \in 1 .. n : s[k] = top[k].bps /\ s[k] \in Nat
      BY <1>8, <1>10
    <2>10. \A k \in 1 .. n : 1 <= k /\ k \in DOMAIN top /\ 1 \in DOMAIN top
      BY <1>8
    <2>2. \A k \in 1 .. n : s[k] <= s[1]
      BY <1>6, <2>1, <2>9, <2>10
    <2>3. m > 0
      BY <1>13, <1>17, <2>1
    <2>4. PICK k \in 1 .. n : s[k] = m
      BY <1>12, <2>3, GreatestBounds
    <2>5. s[1] = m
      BY <1>13, <2>1, <2>2, <2>4
    <2>6. (m * 100) \div m = 100
      BY <2>3, Scaled
    <2>7. TopBars(view)[1] = (s[1] * 100) \div m
      BY <1>14, <2>1, <2>3
    <2>8. QED
      BY <2>5, <2>6, <2>7
  <1>18. PICK values \in Seq(Nat) : values = top[i].sparkline
    BY <1>9, <1>15
  <1>19. LET path == sparkPath(values)
         IN  /\ \A k \in DOMAIN path : path[k].x \in 0 .. 120 /\ path[k].y \in 0 .. 28
             /\ Len(path) > 1 => path[Len(path)].x = 120
    BY PathInBox
  <1>20. QED
    BY <1>3, <1>16, <1>17, <1>18, <1>19, ZenonT(120)

\* Three shares that are rounded to a tenth of a percent add up to a hundred percent, but
\* for two tenths.
LEMMA SharesAddUp ==
  ASSUME NEW a \in Nat, NEW b \in Nat, NEW c \in Nat, a + b + c > 0
  PROVE  pct(a, a + b + c) + pct(b, a + b + c) + pct(c, a + b + c) \in 998 .. 1002
  <1>1. PICK t \in Nat \ {0} : t = a + b + c
    OBVIOUS
  <1>2. ASSUME NEW part \in Nat
        PROVE  \E q \in Int : /\ q = pct(part, t)
                              /\ 2 * (q * t) <= 2000 * part + t
                              /\ 2000 * part + t < 2 * (q * t) + 2 * t
    <2>1. PICK q \in Int : q = (2 * 1000 * part + t) \div (2 * t)
      OBVIOUS
    <2>2. pct(part, t) = q
      BY <2>1 DEF pct
    <2>3. q * (2 * t) <= 2000 * part + t /\ 2000 * part + t < q * (2 * t) + 2 * t
      BY <2>1
    <2>4. q * (2 * t) = 2 * (q * t)
      OBVIOUS
    <2>5. QED
      BY <2>2, <2>3, <2>4
  <1>3. PICK x \in Int : /\ x = pct(a, t)
                         /\ 2 * (x * t) <= 2000 * a + t
                         /\ 2000 * a + t < 2 * (x * t) + 2 * t
    BY <1>2
  <1>4. PICK y \in Int : /\ y = pct(b, t)
                         /\ 2 * (y * t) <= 2000 * b + t
                         /\ 2000 * b + t < 2 * (y * t) + 2 * t
    BY <1>2
  <1>5. PICK z \in Int : /\ z = pct(c, t)
                         /\ 2 * (z * t) <= 2000 * c + t
                         /\ 2000 * c + t < 2 * (z * t) + 2 * t
    BY <1>2
  <1>6. PICK s \in Int : s = x + y + z
    OBVIOUS
  <1>7. s * t = x * t + y * t + z * t
    BY <1>6
  <1>8. x * t \in Int /\ y * t \in Int /\ z * t \in Int /\ s * t \in Int
    OBVIOUS
  <1>9. 2 * (s * t) <= 2003 * t /\ 1997 * t < 2 * (s * t)
    BY <1>1, <1>3, <1>4, <1>5, <1>7, <1>8
  <1>10. s <= 1002
    <2>1. ASSUME s >= 1003
          PROVE  FALSE
      <3>1. s * t >= 1003 * t
        BY <2>1
      <3>2. QED
        BY <1>8, <1>9, <3>1
    <2>2. QED
      BY <2>1
  <1>11. s >= 998
    <2>1. ASSUME s <= 997
          PROVE  FALSE
      <3>1. s * t <= 997 * t
        BY <2>1
      <3>2. QED
        BY <1>8, <1>9, <3>1
    <2>2. QED
      BY <2>1
  <1>12. s \in 998 .. 1002
    BY <1>10, <1>11
  <1>13. s = pct(a, t) + pct(b, t) + pct(c, t)
    BY <1>3, <1>4, <1>5, <1>6
  <1>14. QED
    BY <1>1, <1>12, <1>13, ZenonT(120)

\* Three areas, drawn in another order: their sum, over all the points, is the sum of the
\* totals of the three.
LEMMA AreasAddUp ==
  ASSUME NEW D, IsFiniteSet(D), NEW udp \in [D -> Nat], NEW icmp \in [D -> Nat],
         NEW other \in [D -> Nat], NEW drawn \in [D -> Nat], NEW back \in [D -> D],
         \A i, j \in D : back[i] = back[j] => i = j,
         \A j \in D : \E i \in D : back[i] = j,
         \A i \in D : drawn[i] = udp[back[i]] + icmp[back[i]] + other[back[i]]
  PROVE  SumOfThree(drawn, udp, icmp, other, D)
  <1>1. PICK all \in [D -> Nat] : \A i \in D : all[i] = udp[i] + icmp[i] + other[i]
    <2>1. \A i \in D : udp[i] + icmp[i] + other[i] \in Nat
      OBVIOUS
    <2>2. [i \in D |-> udp[i] + icmp[i] + other[i]] \in [D -> Nat]
      BY <2>1
    <2>3. QED
      BY <2>2
  <1>2. SumOfThree(all, udp, icmp, other, D)
    BY <1>1, SumPlus, Zenon
  <1>3. \A i \in D : drawn[i] = all[back[i]]
    BY <1>1
  <1>4. SameSum(drawn, D, all, D)
    BY <1>3, SumRenamed, Zenon
  <1>5. QED
    BY <1>2, <1>4 DEF SumOfThree, SameSum

\* What is drawn at a point of a chart of n seconds: the rates of that second, one area on
\* the other.
PointDrawn(d, bs, u, n, i) ==
  LET b == bs[n + 1 - i][u]
  IN  /\ b \in Rates
      /\ d[i].x = i - n /\ d[i].udp = b.udp
      /\ d[i].udpIcmp = b.udp + b.icmp
      /\ d[i].total = b.udp + b.icmp + b.other
      /\ d[i]["udpIcmp"] >= d[i]["udp"] /\ d[i]["total"] >= d[i]["udpIcmp"]

\* What is drawn of the rates of n seconds.
LEMMA PointsDrawn ==
  ASSUME NEW n \in Nat \ {0}, NEW bs \in Seq([bps : Rates, pps : Rates]), Len(bs) = n,
         NEW u \in Units
  PROVE  LET d == buildData(bs, u)
         IN  /\ DOMAIN d = 1 .. n /\ Len(d) = n
             /\ \A i \in 1 .. n : PointDrawn(d, bs, u, n, i)
  <1>1. PICK d : d = buildData(bs, u)
    OBVIOUS
  <1>2. d = [i \in 1 .. n |->
               LET b == bs[n + 1 - i][u]
               IN  [x |-> -(n - i), udp |-> b.udp, udpIcmp |-> b.udp + b.icmp,
                    total |-> b.udp + b.icmp + b.other]]
    BY <1>1 DEF buildData
  <1>3. DOMAIN d = 1 .. n /\ Len(d) = n
    BY <1>2
  <1>4. ASSUME NEW i \in 1 .. n
        PROVE  PointDrawn(d, bs, u, n, i)
    <2>1. PICK R : R = [bps : Rates, pps : Rates]
      OBVIOUS
    <2>2. n + 1 - i \in 1 .. n
      OBVIOUS
    <2>3. bs[n + 1 - i] \in R
      BY <2>1, <2>2, ElementOfSeq
    <2>4. PICK second \in R : second = bs[n + 1 - i]
      BY <2>3
    <2>5. second[u] \in Rates
      BY <2>1, <2>4 DEF Units
    <2>6. PICK b \in Rates : b = bs[n + 1 - i][u]
      BY <2>4, <2>5
    <2>7. d[i] = [x |-> -(n - i), udp |-> b.udp, udpIcmp |-> b.udp + b.icmp,
                  total |-> b.udp + b.icmp + b.other]
      BY <1>2, <2>6
    <2>8. PICK p \in Nat, q \in Nat, r \in Nat : p = b.udp /\ q = b.icmp /\ r = b.other
      BY DEF Rates
    <2>9. d[i] = [x |-> -(n - i), udp |-> p, udpIcmp |-> p + q, total |-> p + q + r]
      BY <2>7, <2>8
    <2>10. /\ d[i].x = -(n - i) /\ d[i].udp = p /\ d[i].udpIcmp = p + q
           /\ d[i].total = p + q + r
      BY <2>9
    <2>11. -(n - i) = i - n /\ p + q >= p /\ p + q + r >= p + q
      OBVIOUS
    <2>12. QED
      BY <2>6, <2>8, <2>10, <2>11 DEF PointDrawn
  <1>5. QED
    BY <1>1, <1>3, <1>4

\* The chart, the cards and the shares of the flows page are of the same buckets.
LEMMA FlowsAgree ==
  ASSUME PagesInv
  PROVE  FiguresAgree
  <1>1. SUFFICES
          ASSUME At("flows"), view.chart.up
          PROVE  LET d == buildData(view.chart.shows, view.chart.options.unit)
                     share == protoShare(view)
                     parts == pct(share.udp, share.total) + pct(share.icmp, share.total)
                                + pct(share.other, share.total)
                 IN  /\ d[Len(d)].x = 0
                     /\ d[Len(d)].total = Kpis(view.overview)[view.mode]
                     /\ \A i \in 2 .. Len(d) : d[i].x > d[i - 1].x
                     /\ \A i \in DOMAIN d, b \in view.chart.options.bands :
                          d[i][b[1]] >= d[i][b[2]]
                     /\ SumOf([i \in DOMAIN d |-> d[i].total]) = share.total
                     /\ IF ProtoShown(view) = "empty" THEN parts = 0 ELSE parts \in 998 .. 1002
    BY DEF FiguresAgree
  <1>2. view \in FlowsViews /\ FlowsInv(view, hidden)
    BY <1>1, PageNamed DEF PagesInv, PagesTyped, PageInv, At
  <1>3. Drawn(view.chart, globalBuckets(view), view.mode)
    BY <1>1, <1>2 DEF FlowsInv
  <1>4. PICK bs, u : bs = view.overview.buckets /\ u = view.mode
    OBVIOUS
  <1>5. u \in Units
    BY <1>2, <1>4 DEF FlowsViews
  <1>6. bs # NoBuckets /\ view.chart.shows = bs /\ view.chart.options = buildOptions(u)
    BY <1>3, <1>4 DEF Drawn, globalBuckets
  <1>7. /\ view.chart.options.unit = u
        /\ view.chart.options.bands = {<<"udpIcmp", "udp">>, <<"total", "udpIcmp">>}
    BY <1>6 DEF buildOptions
  <1>8. view.overview # NoOverview /\ bs \in Windows
    <2>1. view.overview # NoOverview
      BY <1>4, <1>6 DEF NoOverview
    <2>2. view.overview \in Overviews
      BY <1>2, <2>1 DEF FlowsViews
    <2>3. QED
      BY <1>4, <2>1, <2>2 DEF Overviews
  <1>9. bs \in Seq([bps : Rates, pps : Rates]) /\ bs # <<>>
    BY <1>8, OverviewAssumption
  <1>10. PICK n \in Nat \ {0} : n = Len(bs)
    BY <1>9, EmptySeq
  <1>11. PICK d : d = buildData(bs, u)
    OBVIOUS
  <1>12. DOMAIN d = 1 .. n /\ Len(d) = n
    BY <1>5, <1>9, <1>10, <1>11, PointsDrawn
  <1>13. ASSUME NEW i \in 1 .. n
         PROVE  LET b == bs[n + 1 - i][u]
                IN  /\ b \in Rates
                    /\ d[i].x = i - n /\ d[i].udp = b.udp
                    /\ d[i].udpIcmp = b.udp + b.icmp
                    /\ d[i].total = b.udp + b.icmp + b.other
                    /\ d[i]["udpIcmp"] >= d[i]["udp"] /\ d[i]["total"] >= d[i]["udpIcmp"]
    <2>1. \A k \in 1 .. n : PointDrawn(d, bs, u, n, k)
      BY <1>5, <1>9, <1>10, <1>11, PointsDrawn
    <2>2. QED
      BY <2>1 DEF PointDrawn
  <1>14. d[n].x = 0 /\ d[n].total = Kpis(view.overview)[u]
    <2>1. n \in 1 .. n /\ n + 1 - n = 1 /\ n - n = 0
      OBVIOUS
    <2>2. d[n].x = 0 /\ d[n].total = Areas(bs[1][u])
      BY <1>13, <2>1 DEF Areas
    <2>3. QED
      BY <1>4, <1>5, <2>2 DEF Kpis
  <1>15. \A i \in 2 .. n : d[i].x > d[i - 1].x
    <2>1. ASSUME NEW i \in 2 .. n
          PROVE  d[i].x > d[i - 1].x
      <3>1. i \in 1 .. n /\ i - 1 \in 1 .. n
        OBVIOUS
      <3>2. d[i].x = i - n /\ d[i - 1].x = (i - 1) - n
        BY <1>13, <3>1
      <3>3. QED
        BY <3>2
    <2>2. QED
      BY <2>1
  <1>16. \A i \in DOMAIN d, b \in view.chart.options.bands : d[i][b[1]] >= d[i][b[2]]
    <2>1. ASSUME NEW i \in 1 .. n, NEW b \in {<<"udpIcmp", "udp">>, <<"total", "udpIcmp">>}
          PROVE  d[i][b[1]] >= d[i][b[2]]
      <3>1. d[i]["udpIcmp"] >= d[i]["udp"] /\ d[i]["total"] >= d[i]["udpIcmp"]
        BY <1>13
      <3>2. CASE b = <<"udpIcmp", "udp">>
        <4>1. b[1] = "udpIcmp" /\ b[2] = "udp"
          BY <3>2
        <4>2. QED
          BY <3>1, <4>1
      <3>3. CASE b = <<"total", "udpIcmp">>
        <4>1. b[1] = "total" /\ b[2] = "udpIcmp"
          BY <3>3
        <4>2. QED
          BY <3>1, <4>1
      <3>4. QED
        BY <3>2, <3>3
    <2>2. QED
      BY <1>7, <1>12, <2>1
  <1>17. PICK udp \in [1 .. n -> Nat], icmp \in [1 .. n -> Nat], other \in [1 .. n -> Nat] :
           \A i \in 1 .. n : /\ bs[i][u].udp = udp[i] /\ bs[i][u].icmp = icmp[i]
                             /\ bs[i][u].other = other[i]
    <2>1. ASSUME NEW i \in 1 .. n
          PROVE  /\ bs[i][u].udp \in Nat /\ bs[i][u].icmp \in Nat /\ bs[i][u].other \in Nat
      <3>1. n + 1 - i \in 1 .. n /\ n + 1 - (n + 1 - i) = i
        OBVIOUS
      <3>2. bs[i][u] \in Rates
        BY <1>13, <3>1
      <3>3. QED
        BY <3>2 DEF Rates
    <2>2. PICK x, y, z : /\ x = [i \in 1 .. n |-> bs[i][u].udp]
                         /\ y = [i \in 1 .. n |-> bs[i][u].icmp]
                         /\ z = [i \in 1 .. n |-> bs[i][u].other]
      OBVIOUS
    <2>3. x \in [1 .. n -> Nat] /\ y \in [1 .. n -> Nat] /\ z \in [1 .. n -> Nat]
      BY <2>1, <2>2
    <2>4. QED
      BY <2>2, <2>3
  <1>18. PICK a \in Nat, b \in Nat, c \in Nat :
           /\ a = SumFunctionOnSet(udp, 1 .. n) /\ b = SumFunctionOnSet(icmp, 1 .. n)
           /\ c = SumFunctionOnSet(other, 1 .. n)
    <2>1. IsFiniteSet(1 .. n)
      BY FS_Interval
    <2>2. ASSUME NEW f \in [1 .. n -> Nat]
          PROVE  SumFunctionOnSet(f, 1 .. n) \in Nat
      <3>1. PICK D : D = 1 .. n
        OBVIOUS
      <3>2. IsFiniteSet(D) /\ f \in [D -> Nat] /\ D \in SUBSET D
        BY <2>1, <3>1
      <3>3. SumFunctionOnSet(f, D) \in Nat
        BY <3>2, SumAdds
      <3>4. QED
        BY <3>1, <3>3
    <2>3. QED
      BY <2>2
  <1>19. protoShare(view) = [udp |-> a, icmp |-> b, other |-> c, total |-> a + b + c]
    <2>1. ASSUME NEW p \in {"udp", "icmp", "other"}, NEW f \in [1 .. n -> Nat],
                 \A i \in 1 .. n : bs[i][u][p] = f[i]
          PROVE  ProtoTotals(view.overview, u)[p] = SumFunctionOnSet(f, 1 .. n)
      <3>1. DOMAIN bs = 1 .. n
        BY <1>9, <1>10
      <3>2. [i \in DOMAIN bs |-> bs[i][u][p]] = f
        BY <2>1, <3>1
      <3>3. ProtoTotals(view.overview, u)[p] = SumOf([i \in DOMAIN bs |-> bs[i][u][p]])
        BY <1>4 DEF ProtoTotals
      <3>4. DOMAIN f = 1 .. n
        OBVIOUS
      <3>5. QED
        BY <3>2, <3>3, <3>4 DEF SumOf, SumFunction
    <2>2. /\ ProtoTotals(view.overview, u)["udp"] = a
          /\ ProtoTotals(view.overview, u)["icmp"] = b
          /\ ProtoTotals(view.overview, u)["other"] = c
      BY <1>17, <1>18, <2>1
    <2>3. QED
      BY <1>4, <1>8, <2>2 DEF protoShare
  <1>20. PICK share : share = protoShare(view)
    OBVIOUS
  <1>21. share.udp = a /\ share.icmp = b /\ share.other = c /\ share.total = a + b + c
    BY <1>19, <1>20
  <1>22. SumOf([i \in DOMAIN d |-> d[i].total]) = share.total
    <2>1. PICK drawn : drawn = [i \in DOMAIN d |-> d[i].total]
      OBVIOUS
    <2>2. ASSUME NEW i \in 1 .. n
          PROVE  /\ drawn[i] = udp[n + 1 - i] + icmp[n + 1 - i] + other[n + 1 - i]
                 /\ drawn[i] \in Nat
      <3>1. PICK j \in 1 .. n : j = n + 1 - i
        OBVIOUS
      <3>2. d[i].total = bs[j][u].udp + bs[j][u].icmp + bs[j][u].other
        BY <1>13, <3>1
      <3>3. drawn[i] = udp[j] + icmp[j] + other[j]
        BY <1>12, <1>17, <2>1, <3>2
      <3>4. QED
        BY <3>1, <3>3
    <2>3. drawn \in [1 .. n -> Nat] /\ DOMAIN drawn = 1 .. n
      BY <1>12, <2>1, <2>2
    <2>4. SumFunctionOnSet(drawn, 1 .. n) = a + b + c
      <3>1. PICK back \in [1 .. n -> 1 .. n] : \A i \in 1 .. n : back[i] = n + 1 - i
        <4>1. [i \in 1 .. n |-> n + 1 - i] \in [1 .. n -> 1 .. n]
          OBVIOUS
        <4>2. QED
          BY <4>1
      <3>2. \A i, j \in 1 .. n : back[i] = back[j] => i = j
        BY <3>1
      <3>3. \A j \in 1 .. n : \E i \in 1 .. n : back[i] = j
        <4>1. ASSUME NEW j \in 1 .. n
              PROVE  \E i \in 1 .. n : back[i] = j
          <5>1. n + 1 - j \in 1 .. n /\ n + 1 - (n + 1 - j) = j
            OBVIOUS
          <5>2. QED
            BY <3>1, <5>1
        <4>2. QED
          BY <4>1
      <3>4. \A i \in 1 .. n : drawn[i] = udp[back[i]] + icmp[back[i]] + other[back[i]]
        BY <2>2, <3>1
      <3>5. IsFiniteSet(1 .. n)
        BY FS_Interval
      <3>6. SumFunctionOnSet(drawn, 1 .. n)
              = SumFunctionOnSet(udp, 1 .. n) + SumFunctionOnSet(icmp, 1 .. n)
                  + SumFunctionOnSet(other, 1 .. n)
        <4>1. PICK D : D = 1 .. n
          OBVIOUS
        <4>2. /\ IsFiniteSet(D) /\ udp \in [D -> Nat] /\ icmp \in [D -> Nat]
              /\ other \in [D -> Nat] /\ drawn \in [D -> Nat] /\ back \in [D -> D]
              /\ \A i, j \in D : back[i] = back[j] => i = j
              /\ \A j \in D : \E i \in D : back[i] = j
              /\ \A i \in D : drawn[i] = udp[back[i]] + icmp[back[i]] + other[back[i]]
          BY <2>3, <3>2, <3>3, <3>4, <3>5, <4>1, Zenon
        <4>3. SumOfThree(drawn, udp, icmp, other, D)
          BY <4>2, AreasAddUp, Zenon
        <4>4. QED
          BY <4>1, <4>3, Zenon DEF SumOfThree
      <3>7. QED
        BY <1>18, <3>6
    <2>5. QED
      BY <1>21, <2>1, <2>3, <2>4 DEF SumOf, SumFunction
  <1>23. PICK parts : parts = pct(a, a + b + c) + pct(b, a + b + c) + pct(c, a + b + c)
    OBVIOUS
  <1>24. IF ProtoShown(view) = "empty" THEN parts = 0 ELSE parts \in 998 .. 1002
    <2>1. CASE a + b + c = 0
      <3>1. \A k \in Nat : pct(k, 0) = 0
        BY DEF pct
      <3>2. parts = 0
        BY <1>23, <2>1, <3>1
      <3>3. ProtoShown(view) = "empty"
        BY <1>20, <1>21, <2>1 DEF ProtoShown
      <3>4. QED
        BY <3>2, <3>3
    <2>2. CASE a + b + c # 0
      <3>1. parts \in 998 .. 1002
        BY <1>23, <2>2, SharesAddUp, SMTT(60)
      <3>2. ProtoShown(view) # "empty"
        BY <1>20, <1>21, <2>2 DEF ProtoShown
      <3>3. QED
        BY <3>1, <3>2
    <2>3. QED
      BY <2>1, <2>2
  <1>25. /\ view.chart.shows = bs /\ view.chart.options.unit = u
         /\ view.mode = u
    BY <1>4, <1>6, <1>7
  <1>26. QED
    BY <1>11, <1>12, <1>14, <1>15, <1>16, <1>20, <1>21, <1>22, <1>23, <1>24, <1>25

-----------------------------------------------------------------------------
(* The bars of the owners and of the countries.                            *)

\* From the most traffic to the least.
Sorted(s) == \A i, j \in DOMAIN s : i < j => s[i].bps >= s[j].bps

\* Of some rows there is one with the least traffic.
LEMMA LeastRow ==
  ASSUME NEW R, IsFiniteSet(R), R # {}, \A r \in R : r.bps \in Int
  PROVE  \E m \in R : \A r \in R : r.bps >= m.bps
  <1>1. PICK B : B = {r.bps : r \in R}
    OBVIOUS
  <1>2. PICK f : f = [r \in R |-> r.bps]
    OBVIOUS
  <1>3. f \in Surjection(R, B)
    BY <1>1, <1>2 DEF Surjection
  <1>4. IsFiniteSet(B)
    BY <1>3, FS_Surjection
  <1>5. B \in SUBSET Int /\ B # {}
    BY <1>1
  <1>6. PICK x \in B : \A y \in B : x <= y
    BY <1>4, <1>5, HasLeast
  <1>7. PICK m \in R : m.bps = x
    BY <1>1
  <1>8. ASSUME NEW r \in R
        PROVE  r.bps >= m.bps
    <2>1. r.bps \in B /\ r.bps \in Int /\ m.bps \in Int
      BY <1>1
    <2>2. QED
      BY <1>6, <1>7, <2>1
  <1>9. QED
    BY <1>8

\* A row with less traffic than all the others goes last.
LEMMA LeastLast ==
  ASSUME NEW R, NEW m \in R, NEW n \in Nat, NEW s \in [1 .. n -> R \ {m}],
         \A i, j \in 1 .. n : i # j => s[i] # s[j], Sorted(s),
         \A r \in R : r.bps \in Int /\ r.bps >= m.bps
  PROVE  \E t \in [1 .. n + 1 -> R] :
           /\ \A i, j \in 1 .. n + 1 : i # j => t[i] # t[j]
           /\ Sorted(t)
  <1>1. PICK t : t = [i \in 1 .. n + 1 |-> IF i = n + 1 THEN m ELSE s[i]]
    OBVIOUS
  <1>2. \A i \in 1 .. n + 1 : i = n + 1 \/ i \in 1 .. n
    OBVIOUS
  <1>3. n + 1 \in 1 .. n + 1 /\ n + 1 \notin 1 .. n /\ \A i \in 1 .. n : i \in 1 .. n + 1
    OBVIOUS
  <1>4. t[n + 1] = m /\ \A i \in 1 .. n : t[i] = s[i] /\ t[i] \in R \ {m}
    BY <1>1, <1>3
  <1>5. t \in [1 .. n + 1 -> R] /\ DOMAIN t = 1 .. n + 1
    BY <1>1, <1>2, <1>4
  <1>6. ASSUME NEW i \in 1 .. n + 1, NEW j \in 1 .. n + 1, i # j
        PROVE  t[i] # t[j]
    <2>1. CASE i \in 1 .. n /\ j \in 1 .. n
      BY <1>4, <1>6, <2>1
    <2>2. CASE i = n + 1
      BY <1>2, <1>4, <1>6, <2>2
    <2>3. CASE j = n + 1
      BY <1>2, <1>4, <1>6, <2>3
    <2>4. QED
      BY <1>2, <2>1, <2>2, <2>3
  <1>7. ASSUME NEW i \in 1 .. n + 1, NEW j \in 1 .. n + 1, i < j
        PROVE  t[i].bps >= t[j].bps
    <2>1. i \in 1 .. n
      BY <1>7
    <2>2. CASE j \in 1 .. n
      <3>1. s[i].bps >= s[j].bps
        BY <1>7, <2>1, <2>2 DEF Sorted
      <3>2. QED
        BY <1>4, <2>1, <2>2, <3>1
    <2>3. CASE j = n + 1
      <3>1. t[i] \in R /\ t[j] = m
        BY <1>4, <2>1, <2>3
      <3>2. QED
        BY <3>1
    <2>4. QED
      BY <1>2, <2>2, <2>3
  <1>8. Sorted(t)
    BY <1>5, <1>7 DEF Sorted
  <1>9. QED
    BY <1>5, <1>6, <1>8

\* Any rows can be sorted.
LEMMA SortsExist ==
  ASSUME NEW rows, IsFiniteSet(rows), \A r \in rows : r.bps \in Int
  PROVE  \E s \in SetToSeqs(rows) : Sorted(s)
  <1> DEFINE Listings(R, n) == {s \in [1 .. n -> R] : /\ \A i, j \in 1 .. n : i # j => s[i] # s[j]
                                                    /\ Sorted(s)}
             T == {n \in Nat : \A R \in SUBSET rows : Cardinality(R) = n => Listings(R, n) # {}}
  <1>1. \A R \in SUBSET rows : IsFiniteSet(R) /\ Cardinality(R) \in Nat
    BY FS_Subset, FS_CardinalityType
  <1>2. 0 \in T
    <2>1. ASSUME NEW R \in SUBSET rows
          PROVE  Listings(R, 0) # {}
      <3>1. 1 .. 0 = {}
        OBVIOUS
      <3>2. PICK s : s = [i \in 1 .. 0 |-> i]
        OBVIOUS
      <3>3. s \in [1 .. 0 -> R] /\ DOMAIN s = {}
        BY <3>1, <3>2
      <3>4. s \in Listings(R, 0)
        BY <3>1, <3>3 DEF Sorted
      <3>5. QED
        BY <3>4
    <2>2. QED
      BY <2>1
  <1>3. ASSUME NEW n \in T
        PROVE  n + 1 \in T
    <2>1. ASSUME NEW R \in SUBSET rows, Cardinality(R) = n + 1
          PROVE  Listings(R, n + 1) # {}
      <3>1. n + 1 # 0 /\ Cardinality({}) = 0
        BY FS_EmptySet
      <3>2. R # {} /\ IsFiniteSet(R)
        BY <1>1, <2>1, <3>1
      <3>3. \A r \in R : r.bps \in Int
        OBVIOUS
      <3>4. PICK m \in R : \A r \in R : r.bps >= m.bps
        BY <3>2, <3>3, LeastRow
      <3>5. Cardinality(R \ {m}) = n
        <4>1. Cardinality(R \ {m}) = Cardinality(R) - 1
          BY <3>2, FS_RemoveElement, Zenon
        <4>2. QED
          BY <2>1, <4>1
      <3>6. Listings(R \ {m}, n) # {}
        <4>1. R \ {m} \in SUBSET rows
          OBVIOUS
        <4>2. QED
          BY <3>5, <4>1
      <3>7. PICK s \in [1 .. n -> R \ {m}] :
              (\A i, j \in 1 .. n : i # j => s[i] # s[j]) /\ Sorted(s)
        BY <3>6
      <3>8. \E t \in [1 .. n + 1 -> R] : /\ \A i, j \in 1 .. n + 1 : i # j => t[i] # t[j]
                                        /\ Sorted(t)
        BY <3>3, <3>4, <3>7, LeastLast
      <3>9. QED
        BY <3>8
    <2>2. n \in Nat
      OBVIOUS
    <2> HIDE DEF Listings
    <2>3. QED
      BY <2>1, <2>2
  <1>4. T = Nat
    <2>1. T \in SUBSET Nat
      OBVIOUS
    <2> HIDE DEF T
    <2>2. QED
      BY <1>2, <1>3, <2>1, SetInduction
  <1>5. PICK n \in Nat : n = Cardinality(rows)
    BY <1>1
  <1>6. Listings(rows, n) # {}
    <2> HIDE DEF Listings
    <2>1. n \in T /\ rows \in SUBSET rows
      BY <1>4
    <2>2. QED
      BY <1>5, <2>1
  <1>7. PICK s \in Listings(rows, n) : TRUE
    BY <1>6
  <1>8. s \in SetToSeqs(rows)
    BY <1>5, <1>7 DEF SetToSeqs
  <1>9. QED
    BY <1>7, <1>8

\* The rows in order: each of them once, and the one with the most traffic first.
LEMMA RowsSorted ==
  ASSUME NEW rows, IsFiniteSet(rows), \A r \in rows : r.bps \in Int
  PROVE  \E k \in Nat :
           /\ k = Cardinality(rows) /\ sortByBps(rows) \in [1 .. k -> rows]
           /\ Sorted(sortByBps(rows))
           /\ \A i, j \in 1 .. k : sortByBps(rows)[i] = sortByBps(rows)[j] => i = j
           /\ \A r \in rows : \E i \in 1 .. k : sortByBps(rows)[i] = r
  <1>1. PICK s : s = sortByBps(rows)
    OBVIOUS
  <1>2. s \in SetToSeqs(rows) /\ Sorted(s)
    <2>1. \E q \in SetToSeqs(rows) :
            \A i, j \in DOMAIN q : i < j => q[i].bps >= q[j].bps
      BY SortsExist DEF Sorted
    <2>2. QED
      BY <1>1, <2>1 DEF sortByBps, Sorted
  <1>3. PICK k \in Nat : k = Cardinality(rows)
    BY FS_CardinalityType
  <1>4. s \in [1 .. k -> rows] /\ \A i, j \in 1 .. k : i # j => s[i] # s[j]
    BY <1>2, <1>3 DEF SetToSeqs
  <1>5. s \in Injection(1 .. k, rows)
    BY <1>4 DEF Injection, IsInjective
  <1>6. s \in Surjection(1 .. k, rows)
    <2>1. PICK D : D = 1 .. k
      OBVIOUS
    <2>2. Cardinality(1 .. k) = k
      BY FS_Interval
    <2>3. s \in Injection(D, rows) /\ Cardinality(D) = Cardinality(rows)
      BY <1>3, <1>5, <2>1, <2>2
    <2>4. s \in Surjection(D, rows)
      BY <2>3, FS_Injection
    <2>5. QED
      BY <2>1, <2>4
  <1>7. \A r \in rows : \E i \in 1 .. k : s[i] = r
    BY <1>6 DEF Surjection
  <1>8. QED
    BY <1>1, <1>2, <1>3, <1>4, <1>7

\* The hosts whose name is n, by their places, and their row.
Places(hosts, key, n) == {i \in DOMAIN hosts : hosts[i][key] = n}
RowOf(hosts, key, n) ==
  [name |-> n, bps |-> Total(hosts, "bps", Places(hosts, key, n)),
   pps |-> Total(hosts, "pps", Places(hosts, key, n)),
   hosts |-> Cardinality(Places(hosts, key, n))]
NamesOf(hosts, key) == {hosts[i][key] : i \in DOMAIN hosts}
RowsOf(hosts, key) == {RowOf(hosts, key, n) : n \in NamesOf(hosts, key)}

\* The hosts of an answer: their traffic is counted.
Counted(hosts) ==
  /\ hosts \in Seq(Range(hosts))
  /\ \A i \in DOMAIN hosts : hosts[i].bps \in Nat /\ hosts[i].pps \in Nat

\* An answer holds the rows with the most traffic.
LEMMA TopOfRows ==
  ASSUME NEW hosts, NEW key
  PROVE  TopBy(hosts, key) = Capped(sortByBps(RowsOf(hosts, key)))
  BY Zenon DEF TopBy, RowsOf, RowOf, Places, NamesOf

\* There are finitely many rows, and each has its traffic.
LEMMA RowsCounted ==
  ASSUME NEW hosts, Counted(hosts), NEW key
  PROVE  /\ IsFiniteSet(DOMAIN hosts) /\ IsFiniteSet(NamesOf(hosts, key))
         /\ IsFiniteSet(RowsOf(hosts, key))
         /\ \A n \in NamesOf(hosts, key), m \in Units : RowOf(hosts, key, n)[m] \in Nat
         /\ \A r \in RowsOf(hosts, key) : r.bps \in Int
  <1>1. PICK D : D = DOMAIN hosts
    OBVIOUS
  <1>2. IsFiniteSet(D)
    <2>1. PICK k \in Nat : D = 1 .. k
      <3>1. Len(hosts) \in Nat /\ DOMAIN hosts = 1 .. Len(hosts)
        BY LenProperties DEF Counted
      <3>2. QED
        BY <1>1, <3>1
    <2>2. IsFiniteSet(1 .. k)
      BY FS_Interval
    <2>3. QED
      BY <2>1, <2>2
  <1>3. PICK N : N = NamesOf(hosts, key)
    OBVIOUS
  <1>4. IsFiniteSet(N)
    <2>1. PICK f : f = [i \in D |-> hosts[i][key]]
      OBVIOUS
    <2>2. f \in Surjection(D, N)
      BY <1>1, <1>3, <2>1 DEF Surjection, NamesOf
    <2>3. QED
      BY <1>2, <2>2, FS_Surjection
  <1>5. PICK R : R = RowsOf(hosts, key)
    OBVIOUS
  <1>6. IsFiniteSet(R)
    <2>1. PICK f : f = [n \in N |-> RowOf(hosts, key, n)]
      OBVIOUS
    <2>2. f \in Surjection(N, R)
      BY <1>3, <1>5, <2>1 DEF Surjection, RowsOf
    <2>3. QED
      BY <1>4, <2>2, FS_Surjection
  <1>7. ASSUME NEW n, NEW m \in Units
        PROVE  RowOf(hosts, key, n)[m] \in Nat
    <2>1. ASSUME NEW u \in Units
          PROVE  Total(hosts, u, Places(hosts, key, n)) \in Nat
      <3>1. PICK f : f = [i \in D |-> hosts[i][u]]
        OBVIOUS
      <3>2. f \in [D -> Nat]
        BY <1>1, <3>1 DEF Counted, Units
      <3>3. Places(hosts, key, n) \in SUBSET D
        BY <1>1 DEF Places
      <3>4. SumFunctionOnSet(f, Places(hosts, key, n)) \in Nat
        BY <1>2, <3>2, <3>3, SumAdds
      <3>5. QED
        BY <1>1, <3>1, <3>4 DEF Total
    <2>2. /\ RowOf(hosts, key, n).bps = Total(hosts, "bps", Places(hosts, key, n))
          /\ RowOf(hosts, key, n).pps = Total(hosts, "pps", Places(hosts, key, n))
      BY DEF RowOf
    <2>3. QED
      BY <2>1, <2>2 DEF Units
  <1>8. ASSUME NEW r \in RowsOf(hosts, key)
        PROVE  r.bps \in Int
    <2>1. PICK n \in NamesOf(hosts, key) : r = RowOf(hosts, key, n)
      BY DEF RowsOf
    <2>2. "bps" \in Units
      BY DEF Units
    <2>3. RowOf(hosts, key, n)["bps"] \in Nat
      BY <1>7, <2>2
    <2>4. QED
      BY <2>1, <2>3
  <1>9. QED
    BY <1>1, <1>2, <1>3, <1>4, <1>5, <1>6, <1>7, <1>8

\* The rows of all the names add up to the traffic of all the hosts.
LEMMA RowsAddUp ==
  ASSUME NEW hosts, Counted(hosts), NEW key, NEW m \in Units, NEW k \in Nat,
         NEW s \in [1 .. k -> RowsOf(hosts, key)],
         \A i, j \in 1 .. k : s[i] = s[j] => i = j,
         \A r \in RowsOf(hosts, key) : \E i \in 1 .. k : s[i] = r
  PROVE  SumFunctionOnSet([i \in 1 .. k |-> s[i][m]], 1 .. k) = Total(hosts, m, DOMAIN hosts)
  <1>1. PICK D, N, I : D = DOMAIN hosts /\ N = NamesOf(hosts, key) /\ I = 1 .. k
    OBVIOUS
  <1>2. IsFiniteSet(D) /\ IsFiniteSet(N) /\ IsFiniteSet(I)
    <2>1. IsFiniteSet(1 .. k)
      BY FS_Interval
    <2>2. QED
      BY <1>1, <2>1, RowsCounted
  <1>3. PICK f \in [D -> Nat] : f = [i \in D |-> hosts[i][m]]
    <2>1. [i \in D |-> hosts[i][m]] \in [D -> Nat]
      BY <1>1 DEF Counted, Units
    <2>2. QED
      BY <2>1
  <1>4. PICK named \in [D -> N] : named = [i \in D |-> hosts[i][key]]
    <2>1. [i \in D |-> hosts[i][key]] \in [D -> N]
      BY <1>1 DEF NamesOf
    <2>2. QED
      BY <2>1
  <1>5. PICK g \in [N -> Nat] : \A n \in N : g[n] = RowOf(hosts, key, n)[m]
    <2>1. \A n \in N : RowOf(hosts, key, n)[m] \in Nat
      BY <1>1, RowsCounted
    <2>2. [n \in N |-> RowOf(hosts, key, n)[m]] \in [N -> Nat]
      BY <2>1
    <2>3. QED
      BY <2>2
  <1>6. ASSUME NEW n \in N
        PROVE  g[n] = SumFunctionOnSet(f, Group(D, named, n))
    <2>1. Group(D, named, n) = Places(hosts, key, n)
      BY <1>1, <1>4 DEF Group, Places
    <2>2. RowOf(hosts, key, n)[m] = Total(hosts, m, Places(hosts, key, n))
      BY DEF RowOf, Units
    <2>3. Total(hosts, m, Places(hosts, key, n)) = SumFunctionOnSet(f, Places(hosts, key, n))
      BY <1>1, <1>3 DEF Total
    <2>4. QED
      BY <1>5, <2>1, <2>2, <2>3
  <1>7. SameSum(g, N, f, D)
    BY <1>2, <1>6, SumGroups, Zenon
  <1>8. PICK value : value = [i \in 1 .. k |-> s[i][m]]
    OBVIOUS
  <1>9. \A i \in I : s[i].name \in N /\ s[i] = RowOf(hosts, key, s[i].name)
    <2>1. ASSUME NEW r \in RowsOf(hosts, key)
          PROVE  r.name \in N /\ r = RowOf(hosts, key, r.name)
      <3>1. PICK n \in N : r = RowOf(hosts, key, n)
        BY <1>1 DEF RowsOf
      <3>2. r.name = n
        BY <3>1 DEF RowOf
      <3>3. QED
        BY <3>1, <3>2
    <2>2. QED
      BY <1>1, <2>1
  <1>10. PICK name \in [I -> N] : name = [i \in I |-> s[i].name]
    <2>1. [i \in I |-> s[i].name] \in [I -> N]
      BY <1>9
    <2>2. QED
      BY <2>1
  <1>11. \A i \in I : value[i] = g[name[i]]
    BY <1>1, <1>5, <1>8, <1>9, <1>10
  <1>12. \A i, j \in I : name[i] = name[j] => i = j
    <2>1. ASSUME NEW i \in I, NEW j \in I, name[i] = name[j]
          PROVE  i = j
      <3>1. s[i].name = s[j].name
        BY <1>10, <2>1
      <3>2. s[i] = s[j]
        BY <1>9, <3>1
      <3>3. QED
        BY <1>1, <3>2
    <2>2. QED
      BY <2>1
  <1>13. \A n \in N : \E i \in I : name[i] = n
    <2>1. ASSUME NEW n \in N
          PROVE  \E i \in I : name[i] = n
      <3>1. RowOf(hosts, key, n) \in RowsOf(hosts, key)
        BY <1>1 DEF RowsOf
      <3>2. PICK i \in I : s[i] = RowOf(hosts, key, n)
        BY <1>1, <3>1
      <3>3. s[i].name = n
        BY <3>2 DEF RowOf
      <3>4. QED
        BY <1>10, <3>3
    <2>2. QED
      BY <2>1
  <1>14. value \in [I -> Nat]
    BY <1>1, <1>8, <1>11
  <1>15. SameSum(value, I, g, N)
    BY <1>2, <1>11, <1>12, <1>13, <1>14, SumRenamed, Zenon
  <1>16. Total(hosts, m, D) = SumFunctionOnSet(f, D)
    BY <1>1, <1>3 DEF Total
  <1>17. QED
    BY <1>1, <1>7, <1>8, <1>15, <1>16 DEF SameSum

\* The first rows: all of them, unless there are too many.
FirstOf(top, s, k) ==
  \E n \in 0 .. k :
    /\ top = [i \in 1 .. n |-> s[i]]
    /\ n < MaxBars => n = k
    /\ n = 0 => k = 0

\* An answer holds the first rows.
LEMMA CappedRows ==
  ASSUME NEW R, NEW k \in Nat, NEW s \in [1 .. k -> R]
  PROVE  FirstOf(Capped(s), s, k)
  <1>1. PICK n \in 0 .. k : n = IF k < MaxBars THEN k ELSE MaxBars
    BY AnalyticsAssumption
  <1>2. Len(s) = k
    OBVIOUS
  <1>3. Capped(s) = SubSeq(s, 1, n)
    BY <1>1, <1>2 DEF Capped
  <1>4. SubSeq(s, 1, n) = [i \in 1 .. n |-> s[i]]
    <2>1. PICK q : q = SubSeq(s, 1, n)
      OBVIOUS
    <2>2. n \in Int /\ \A i \in 1 .. n : s[i] \in R
      OBVIOUS
    <2>3. /\ q \in Seq(R) /\ Len(q) = IF 1 <= n THEN n - 1 + 1 ELSE 0
          /\ \A i \in 1 .. n - 1 + 1 : q[i] = s[1 + i - 1]
      BY <2>1, <2>2, SubSeqProperties
    <2>4. n - 1 + 1 = n /\ \A i \in 1 .. n : 1 + i - 1 = i
      OBVIOUS
    <2>5. Len(q) = n /\ \A i \in 1 .. n : q[i] = s[i]
      BY <2>3, <2>4
    <2>6. q = [i \in 1 .. n |-> q[i]]
      BY <2>3, <2>5, LenProperties
    <2>7. QED
      BY <2>1, <2>5, <2>6
  <1>5. (n < MaxBars => n = k) /\ (n = 0 => k = 0)
    BY <1>1, AnalyticsAssumption
  <1>6. QED
    BY <1>3, <1>4, <1>5 DEF FirstOf

\* What an answer says of the hosts: its rows are in order; unless some were cut off, they
\* add up to the traffic of all the hosts; and there are none only when there are no hosts.
TellsAll(top, hosts, m) ==
  \E n \in Nat :
    /\ top = [i \in 1 .. n |-> top[i]] /\ Sorted(top)
    /\ \A i \in 1 .. n : top[i][m] \in Nat
    /\ n < MaxBars =>
         SumFunctionOnSet([i \in 1 .. n |-> top[i][m]], 1 .. n) = Total(hosts, m, DOMAIN hosts)
    /\ n = 0 <=> DOMAIN hosts = {}

\* The owners, and the countries, of an answer tell all of the hosts.
LEMMA TopTellsAll ==
  ASSUME NEW hosts, Counted(hosts), NEW key, NEW m \in Units
  PROVE  TellsAll(TopBy(hosts, key), hosts, m)
  <1>1. PICK R, s, top : /\ R = RowsOf(hosts, key) /\ s = sortByBps(R)
                         /\ top = TopBy(hosts, key)
    OBVIOUS
  <1>2. IsFiniteSet(R) /\ \A r \in R : r.bps \in Int
    BY <1>1, RowsCounted
  <1>3. PICK k \in Nat :
          /\ k = Cardinality(R) /\ s \in [1 .. k -> R] /\ Sorted(s)
          /\ \A i, j \in 1 .. k : s[i] = s[j] => i = j
          /\ \A r \in R : \E i \in 1 .. k : s[i] = r
    BY <1>1, <1>2, RowsSorted
  <1>4. top = Capped(s)
    BY <1>1, TopOfRows
  <1>5. PICK n \in 0 .. k : /\ Capped(s) = [i \in 1 .. n |-> s[i]]
                            /\ n < MaxBars => n = k
                            /\ n = 0 => k = 0
    <2>1. k \in Nat /\ s \in [1 .. k -> R]
      BY <1>3
    <2>2. FirstOf(Capped(s), s, k)
      BY <2>1, CappedRows, Zenon
    <2>3. QED
      BY <2>2 DEF FirstOf
  <1>6. n \in Nat /\ \A i \in 1 .. n : i \in 1 .. k
    OBVIOUS
  <1>7. top = [i \in 1 .. n |-> s[i]] /\ DOMAIN top = 1 .. n
    BY <1>4, <1>5
  <1>8. \A i \in 1 .. n : top[i] = s[i] /\ top[i] \in R
    BY <1>3, <1>6, <1>7
  <1>9. top = [i \in 1 .. n |-> top[i]]
    BY <1>7
  <1>10. Sorted(top)
    <2>1. DOMAIN s = 1 .. k
      BY <1>3
    <2>2. QED
      BY <1>3, <1>6, <1>7, <1>8, <2>1 DEF Sorted
  <1>11. ASSUME NEW i \in 1 .. n
         PROVE  top[i][m] \in Nat
    <2>1. PICK name \in NamesOf(hosts, key) : top[i] = RowOf(hosts, key, name)
      BY <1>1, <1>8 DEF RowsOf
    <2>2. QED
      BY <2>1, RowsCounted
  <1>12. ASSUME n < MaxBars
         PROVE  SumFunctionOnSet([i \in 1 .. n |-> top[i][m]], 1 .. n)
                  = Total(hosts, m, DOMAIN hosts)
    <2>1. n = k
      BY <1>5, <1>12
    <2>2. SumFunctionOnSet([i \in 1 .. k |-> s[i][m]], 1 .. k) = Total(hosts, m, DOMAIN hosts)
      BY <1>1, <1>3, RowsAddUp, SMTT(120)
    <2>3. [i \in 1 .. n |-> top[i][m]] = [i \in 1 .. k |-> s[i][m]]
      BY <1>8, <2>1
    <2>4. QED
      BY <2>1, <2>2, <2>3, Zenon
  <1>13. n = 0 <=> DOMAIN hosts = {}
    <2>1. R = {} <=> DOMAIN hosts = {}
      BY <1>1 DEF RowsOf, NamesOf
    <2>2. k = 0 <=> R = {}
      BY <1>2, <1>3, FS_EmptySet
    <2>3. k = 0 <=> n = 0
      BY <1>5
    <2>4. QED
      BY <2>1, <2>2, <2>3
  <1>14. QED
    BY <1>1, <1>6, <1>9, <1>10, <1>11, <1>12, <1>13 DEF TellsAll

\* The bars of a chart: as TellsAll says, and in bits the topmost is the longest.
BarsTell(bars, hosts, m) ==
  \E n \in Nat :
    /\ DOMAIN bars = 1 .. n /\ Len(bars) = n
    /\ n < MaxBars =>
         SumOf([i \in DOMAIN bars |-> bars[i].value]) = Total(hosts, m, DOMAIN hosts)
    /\ m = "bps" => \A i \in 2 .. n : bars[i - 1].value <= bars[i].value

\* So do the bars that are drawn of them.
LEMMA BarsDrawn ==
  ASSUME NEW hosts, NEW top, NEW m \in Units, TellsAll(top, hosts, m), DOMAIN hosts # {}
  PROVE  BarsTell(BarOption(top, m), hosts, m)
  <1>1. PICK n \in Nat :
          /\ top = [i \in 1 .. n |-> top[i]] /\ Sorted(top)
          /\ \A i \in 1 .. n : top[i][m] \in Nat
          /\ n < MaxBars =>
               SumFunctionOnSet([i \in 1 .. n |-> top[i][m]], 1 .. n)
                 = Total(hosts, m, DOMAIN hosts)
          /\ n # 0
    BY DEF TellsAll
  <1>2. DOMAIN top = 1 .. n /\ Len(top) = n
    BY <1>1
  <1>3. top # <<>>
    BY <1>1, <1>2
  <1>4. PICK bars : bars = BarOption(top, m)
    OBVIOUS
  <1>5. DOMAIN bars = 1 .. n /\ \A i \in 1 .. n : bars[i].value = top[n + 1 - i][m]
    <2>1. PICK q : q = Reverse(top)
      OBVIOUS
    <2>2. q = [i \in 1 .. n |-> top[(n - i) + 1]]
      BY <1>2, <2>1 DEF Reverse
    <2>3. \A i \in 1 .. n : q[i] = top[n + 1 - i]
      <3>1. \A i \in 1 .. n : (n - i) + 1 = n + 1 - i
        OBVIOUS
      <3>2. QED
        BY <2>2, <3>1
    <2>4. bars = [i \in 1 .. n |-> [name |-> q[i].name, value |-> q[i][m],
                                    label |-> formatMetric(q[i][m], m),
                                    hosts |-> q[i].hosts]]
      BY <1>2, <1>3, <1>4, <2>1 DEF BarOption
    <2>5. QED
      BY <2>3, <2>4
  <1>6. Len(bars) = n
    <2>1. bars = [i \in 1 .. n |-> bars[i]]
      BY <1>2, <1>3, <1>4, <1>5 DEF BarOption
    <2>2. QED
      BY <1>5, <2>1
  <1>7. PICK I : I = 1 .. n
    OBVIOUS
  <1>8. IsFiniteSet(I)
    BY <1>7, FS_Interval
  <1>9. PICK drawn, told, back :
          /\ drawn = [i \in DOMAIN bars |-> bars[i].value]
          /\ told = [i \in 1 .. n |-> top[i][m]]
          /\ back = [i \in 1 .. n |-> n + 1 - i]
    OBVIOUS
  <1>10. told \in [I -> Nat]
    BY <1>1, <1>7, <1>9
  <1>11. back \in [I -> I] /\ \A i \in 1 .. n : back[i] = n + 1 - i
    BY <1>7, <1>9
  <1>12. \A i \in I : drawn[i] = told[back[i]]
    BY <1>5, <1>7, <1>9, <1>11
  <1>13. DOMAIN drawn = I /\ drawn \in [I -> Nat]
    <2>1. \A i \in I : drawn[i] \in Nat
      BY <1>10, <1>11, <1>12
    <2>2. drawn = [i \in I |-> bars[i].value]
      BY <1>5, <1>7, <1>9
    <2>3. QED
      BY <2>1, <2>2
  <1>14. \A i, j \in I : back[i] = back[j] => i = j
    BY <1>7, <1>11
  <1>15. \A j \in I : \E i \in I : back[i] = j
    <2>1. ASSUME NEW j \in 1 .. n
          PROVE  \E i \in 1 .. n : back[i] = j
      <3>1. n + 1 - j \in 1 .. n /\ n + 1 - (n + 1 - j) = j
        OBVIOUS
      <3>2. QED
        BY <1>11, <3>1
    <2>2. QED
      BY <1>7, <2>1
  <1>16. SameSum(drawn, I, told, I)
    <2>1. IsFiniteSet(I) /\ drawn \in [I -> Nat] /\ told \in [I -> Nat] /\ back \in [I -> I]
      BY <1>8, <1>10, <1>11, <1>13
    <2>2. QED
      BY <2>1, <1>12, <1>14, <1>15, SumRenamed
  <1>17. SumOf([i \in DOMAIN bars |-> bars[i].value])
           = SumFunctionOnSet([i \in 1 .. n |-> top[i][m]], 1 .. n)
    BY <1>7, <1>9, <1>13, <1>16, Zenon DEF SameSum, SumOf, SumFunction
  <1>18. ASSUME m = "bps", NEW i \in 2 .. n
         PROVE  bars[i - 1].value <= bars[i].value
    <2>1. PICK j \in 1 .. n : j = n + 1 - i
      OBVIOUS
    <2>2. j + 1 \in 1 .. n /\ i - 1 \in 1 .. n /\ n + 1 - (i - 1) = j + 1
      BY <2>1
    <2>3. bars[i].value = top[j][m] /\ bars[i - 1].value = top[j + 1][m]
      BY <1>5, <2>1, <2>2
    <2>4. top[j].bps >= top[j + 1].bps
      BY <1>1, <1>2, <2>2 DEF Sorted
    <2>5. top[j][m] \in Nat /\ top[j + 1][m] \in Nat
      BY <1>1, <2>2
    <2>6. QED
      BY <1>18, <2>3, <2>4, <2>5
  <1>19. BarsTell(bars, hosts, m)
    BY <1>1, <1>5, <1>6, <1>17, <1>18 DEF BarsTell
  <1>20. QED
    BY <1>4, <1>19

\* The bars of the owners and of the countries are two views of the same hosts.
LEMMA OwnersAndCountries ==
  ASSUME PagesInv
  PROVE  BarsAgree
  <1>1. SUFFICES
          ASSUME At("analytics"), view.analytics # NoData, ownerBarOption(view) # NoData
          PROVE  LET owners == ownerBarOption(view)
                     countries == countryBarOption(view)
                     Sum(bars) == SumOf([i \in DOMAIN bars |-> bars[i].value])
                 IN  /\ Len(owners) < MaxBars /\ Len(countries) < MaxBars =>
                          Sum(owners) = Sum(countries)
                     /\ view.mode = "bps" =>
                          \A i \in 2 .. Len(owners) : owners[i - 1].value <= owners[i].value
    BY DEF BarsAgree
  <1>2. view \in AnalyticsViews
    BY <1>1, PageNamed DEF PagesInv, PagesTyped, At
  <1>3. PICK m \in Units : m = view.mode
    BY <1>2 DEF AnalyticsViews
  <1>4. PICK t \in Traffics : view.analytics = handleDashboardAnalytics(t)
    BY <1>1, <1>2 DEF AnalyticsViews, Analyses
  <1>5. PICK hosts : hosts = t.hosts
    OBVIOUS
  <1>6. Counted(hosts)
    BY <1>5, TrafficsAssumption DEF Counted
  <1>7. PICK left, right : left = TopBy(hosts, "owner") /\ right = TopBy(hosts, "country")
    OBVIOUS
  <1>8. TellsAll(left, hosts, m) /\ TellsAll(right, hosts, m)
    BY <1>6, <1>7, TopTellsAll
  <1>9. view.analytics.top_owners = left /\ view.analytics.top_countries = right
    BY <1>4, <1>5, <1>7 DEF handleDashboardAnalytics
  <1>10. /\ ownerBarOption(view) = BarOption(left, m)
         /\ countryBarOption(view) = BarOption(right, m)
    BY <1>1, <1>3, <1>9 DEF ownerBarOption, countryBarOption
  <1>11. left # <<>>
    BY <1>1, <1>10 DEF BarOption
  <1>12. DOMAIN hosts # {}
    <2>1. PICK n \in Nat : /\ left = [i \in 1 .. n |-> left[i]]
                           /\ n = 0 <=> DOMAIN hosts = {}
      BY <1>8 DEF TellsAll
    <2>2. n = 0 => left = <<>>
      BY <2>1
    <2>3. QED
      BY <1>11, <2>1, <2>2
  <1>13. PICK owners, countries : /\ owners = BarOption(left, m)
                                  /\ countries = BarOption(right, m)
    OBVIOUS
  <1>14. BarsTell(owners, hosts, m) /\ BarsTell(countries, hosts, m)
    BY <1>8, <1>12, <1>13, BarsDrawn
  <1>15. ASSUME NEW bars, BarsTell(bars, hosts, m)
         PROVE  /\ Len(bars) < MaxBars =>
                     SumOf([i \in DOMAIN bars |-> bars[i].value])
                       = Total(hosts, m, DOMAIN hosts)
                /\ m = "bps" => \A i \in 2 .. Len(bars) : bars[i - 1].value <= bars[i].value
    BY <1>15 DEF BarsTell
  <1>16. /\ Len(owners) < MaxBars /\ Len(countries) < MaxBars =>
              SumOf([i \in DOMAIN owners |-> owners[i].value])
                = SumOf([i \in DOMAIN countries |-> countries[i].value])
         /\ m = "bps" => \A i \in 2 .. Len(owners) : owners[i - 1].value <= owners[i].value
    BY <1>14, <1>15
  <1>17. QED
    BY <1>3, <1>10, <1>13, <1>16, Zenon

\* FiguresTrue: what the pages say of the traffic is so.
THEOREM FiguresAreTrue == AppSpec => []FiguresTrue
  <1>1. PagesInv => FiguresTrue
    BY EmptinessTold, FlowsAgree, BarsScaled, SendersApart, OwnersAndCountries, RowsReadBack
       DEF FiguresTrue
  <1>2. QED
    BY <1>1, PagesAlways, PTL
=============================================================================
