---------------------------- MODULE MCFlowIngest ----------------------------
(* TLC instance of FlowIngest: two of the three listeners, one exporter and  *)
(* one address outside the inventory.                                        *)
EXTENDS FlowIngest

CONSTANTS e1, x1, netflow, sflow

MCExporters == {e1}
MCStrangers == {x1}
MCListeners == {netflow, sflow}
=============================================================================
