-------------------------- MODULE MCAggregateStore --------------------------
(* TLC instance of AggregateStore: a ring of three one-second buckets. Hosts *)
(* do not disturb each other: one, on the shard that is visited last.        *)
EXTENDS AggregateStore, TLC

CONSTANT h1

MCHosts == {h1}
MCShardOf == (h1 :> 2)
MCRecords == {[proto |-> "udp", packets |-> 1, bytes |-> 2]}
=============================================================================
