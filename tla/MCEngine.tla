------------------------------ MODULE MCEngine ------------------------------
(* TLC instance of Engine: one host with thresholds for UDP floods only, or *)
(* for both vectors, in a ring of three seconds.                            *)
EXTENDS Engine, TLC

CONSTANTS h1

MCHosts == {h1}
MCShardOf == (h1 :> 1)
MCRecords == {[proto |-> "udp", packets |-> 2, bytes |-> 1],
              [proto |-> "tcp", packets |-> 2, bytes |-> 1]}

MixedRecords == MCRecords \cup {[proto |-> "icmp", packets |-> 2, bytes |-> 9]}

T(w, g) == [PPS |-> 1, BPS |-> 9, MinWindowSec |-> w, GraceSec |-> g]
UDPOnly ==
  (<<h1, "udp_flood">> :> T(2, 1)) @@ (<<h1, "icmp_flood">> :> NoThreshold)
Both ==
  (<<h1, "udp_flood">> :> T(2, 1)) @@
  (<<h1, "icmp_flood">> :> [PPS |-> 9, BPS |-> 4, MinWindowSec |-> 1, GraceSec |-> 0])
=============================================================================
