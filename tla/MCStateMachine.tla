--------------------------- MODULE MCStateMachine ---------------------------
(* TLC instance of StateMachine: one key whose grace_sec is positive and    *)
(* one whose grace_sec is 0, so that the default of Step applies.           *)
EXTENDS StateMachine, TLC

CONSTANTS k1, k2

MCKeys == {k1, k2}
MCRates == {[pps |-> 1, bps |-> 1], [pps |-> 3, bps |-> 1]}
MCMinWindowSec == (k1 :> 2) @@ (k2 :> 1)
MCGraceSec == (k1 :> 2) @@ (k2 :> 0)
=============================================================================
