------------------------------ MODULE MCWebApp ------------------------------
EXTENDS WebApp
CONSTANTS h1, h2

TwoHosts == {h1, h2}
NoneOrBoth == {{}, TwoHosts}
OneHost == {h1}

Sent(udp, icmp, other) == [udp |-> udp, icmp |-> icmp, other |-> other]
Second(bps, pps) == [bps |-> bps, pps |-> pps]
Silence == Second(Sent(0, 0, 0), Sent(0, 0, 0))
TwoWindows == {<<Silence, Silence>>,
               <<Second(Sent(4, 0, 3), Sent(1, 0, 2)), Second(Sent(2, 1, 0), Sent(1, 1, 0))>>}
ThreeTops == {<<>>, <<[bps |-> 0, sparkline |-> <<0, 3, 0>>]>>,
              <<[bps |-> 9, sparkline |-> <<9, 4>>], [bps |-> 2, sparkline |-> <<2, 0>>]>>}

Host(owner, country, bps, pps) ==
  [owner |-> owner, country |-> country, bps |-> bps, pps |-> pps]
Flow(src, dst, bytes) == [src |-> src, dst |-> dst, bytes |-> bytes]
NoProtos == [bps |-> Sent(0, 0, 0), pps |-> Sent(0, 0, 0)]
SomeProtos == [bps |-> Sent(5, 1, 3), pps |-> Sent(2, 1, 2)]
TwoTraffics ==
  {[hosts |-> <<>>, flows |-> <<>>, protos |-> NoProtos],
   [hosts |-> <<Host("a", "BR", 2, 9), Host("b", "BR", 5, 1), Host("a", "??", 4, 1)>>,
    flows |-> <<Flow("a", "b", 3), Flow("b", "a", 2), Flow("a", "b", 1)>>,
    protos |-> SomeProtos]}

TwoInventories == {{}, {"r1"}}

Incident(started, host, pps, bps, secs, vector, ended) ==
  [started |-> started, host |-> host, pps |-> pps, bps |-> bps, secs |-> secs, vector |-> vector, ended |-> ended]
ThreeIncidents ==
  <<Incident(1, "a", 999, 1000, 59, "udp_flood", TRUE),
    Incident(1, "b", 999960, 1240000, 3599, "icmp_flood", TRUE),
    Incident(2, "c", 1500000, 1230000000, 3660, "udp_flood", FALSE)>>

SomeTables == {{}, {Router(1, "x", TRUE)}}
Typing(name, on, text) == [name |-> name, enabled |-> on, text |-> text]
SomeTypings == {Typing("x", TRUE, "good"), Typing("z", FALSE, "good"),
                Typing("z", TRUE, "bare"), Typing("z", TRUE, "nopw")}
=============================================================================
