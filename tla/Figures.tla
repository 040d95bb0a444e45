------------------------------ MODULE Figures ------------------------------
(***************************************************************************)
(* The formatters of the pages: how a figure is shortened. A formatted     *)
(* figure is [count, grain, unit]: the number written, in units of its     *)
(* last digit, what that digit is worth, and the unit written after it.    *)
(***************************************************************************)
EXTENDS Integers, Sequences, SequencesExt

\* A ladder is tried from the top: [from, grain, unit].
Step(from, grain, unit) == [from |-> from, grain |-> grain, unit |-> unit]
OnLadder(ladder, v) ==
  LET fits == {k \in DOMAIN ladder : v >= ladder[k].from}
      s == ladder[CHOOSE k \in fits : \A j \in fits : k <= j]
  IN  IF fits = {} THEN [count |-> v, grain |-> 1, unit |-> ""]
      ELSE [count |-> (v + s.grain \div 2) \div s.grain, grain |-> s.grain,
            unit |-> s.unit]

G == 1000000000
M == 1000000
K == 1000

\* Mutant: the limits of two steps are swapped.
formatBpsSwapped(v) ==
  OnLadder(<<Step(G, G \div 10, "Gbps"), Step(K, M \div 10, "Mbps"),
             Step(M, K \div 10, "Kbps")>>, v)

\* One digit after the point: the live page, the list, the detail, the traffic.
formatBps(v) ==
  OnLadder(<<Step(G, G \div 10, "Gbps"), Step(M, M \div 10, "Mbps"),
             Step(K, K \div 10, "Kbps")>>, v)

formatPps(v) ==
  OnLadder(<<Step(M, M \div 10, "Mpps"), Step(K, K \div 10, "Kpps")>>, v)

\* Two from a million on: flows and analytics.
formatBpsFine(v) ==
  OnLadder(<<Step(G, G \div 100, "Gbps"), Step(M, M \div 100, "Mbps"),
             Step(K, K \div 10, "Kbps")>>, v)

formatPpsFine(v) ==
  OnLadder(<<Step(M, M \div 100, "Mpps"), Step(K, K \div 10, "Kpps")>>, v)

formatBytes(v) ==
  OnLadder(<<Step(G, G \div 100, "GB"), Step(M, M \div 10, "MB"),
             Step(K, K \div 10, "KB")>>, v)

\* The axis of the chart.
formatY(v, mode) == IF mode = "bps" THEN formatBps(v) ELSE formatPps(v)

\* What is written, and how far that is from the figure.
Written(f) == f.count * f.grain
Apart(f, v) == IF Written(f) > v THEN Written(f) - v ELSE v - Written(f)

\* A duration in seconds: one figure, or two.
formatDuration(secs) ==
  CASE secs < 60                  -> <<secs, "s">>
    [] secs >= 60 /\ secs < 3600  -> <<secs \div 60, "m", secs % 60, "s">>
    [] OTHER                      -> <<secs \div 3600, "h", (secs % 3600) \div 60, "m">>

Seconds(u) == CASE u = "s" -> 1 [] u = "m" -> 60 [] u = "h" -> 3600
DurationWritten(d) ==
  d[1] * Seconds(d[2]) + (IF Len(d) = 4 THEN d[3] * Seconds(d[4]) ELSE 0)

\* How long ago: on the exporters, and, never negative, on the recent flows.
formatRelative(secs) ==
  CASE secs < 60                 -> <<secs, "s">>
    [] secs >= 60 /\ secs < 3600 -> <<secs \div 60, "m">>
    [] OTHER                     -> <<secs \div 3600, "h">>
formatRelativeFlow(secs) ==
  CASE secs < 1                -> <<"now">>
    [] secs >= 1 /\ secs < 60  -> <<secs, "s">>
    [] OTHER                   -> <<secs \div 60, "m">>
=============================================================================
