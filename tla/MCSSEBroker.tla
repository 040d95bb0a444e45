----------------------------- MODULE MCSSEBroker -----------------------------
(* TLC instance of SSEBroker: two connections.                             *)
EXTENDS SSEBroker

CONSTANTS c1, c2

TwoClients == {c1, c2}
=============================================================================
