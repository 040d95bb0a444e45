--------------------------- MODULE ExportersView ---------------------------
(***************************************************************************)
(* views/ExportersView.vue: the routers that send flows, asked for again   *)
(* every 15 seconds once the first answer is in, hidden or not.            *)
(*                                                                         *)
(* An answer is a set of exporters.                                        *)
(***************************************************************************)
EXTENDS WebPage

CONSTANT Inventories   \* the answers the daemon may give

ExportersMounted ==
  [page |-> "exporters", exporters |-> {}, loading |-> TRUE, error |-> FALSE,
   asked |-> 1, first |-> TRUE, polling |-> FALSE,
   told |-> FALSE]   \* history: a list has been received

ExportersShown(v) ==
  CASE v.loading -> "spinner"
    [] ~v.loading /\ v.error -> "alert"
    [] OTHER -> IF v.exporters = {} THEN "empty" ELSE "rows"

loadExporters(v) == [v EXCEPT !.error = FALSE, !.asked = @ + 1]

ExportersUnmounted(v) == [v EXCEPT !.polling = FALSE]

ExportersPolls ==
  /\ At("exporters") /\ view.polling /\ view.asked < MaxPending
  /\ Becomes(loadExporters(view)) /\ UNCHANGED faults

\* The hook that mounted the page waits for the first answer before it sets
\* the timer; no other request is out until then.
ExportersAnswered ==
  /\ At("exporters") /\ view.asked > 0
  /\ \E ok \in BOOLEAN, items \in Inventories :
       /\ Outcome(ok)
       /\ Becomes([view EXCEPT !.asked = @ - 1, !.loading = FALSE,
                               !.exporters = IF ok THEN items ELSE @,
                               !.error = @ \/ ~ok, !.told = @ \/ ok,
                               !.first = FALSE,
                               !.polling = @ \/ view.first])

ExportersRetry ==
  /\ At("exporters") /\ ~hidden /\ ExportersShown(view) = "alert"
  /\ view.asked < MaxPending
  /\ Click(loadExporters([view EXCEPT !.loading = TRUE]))

ExportersNext ==
  ExportersPolls \/ ExportersAnswered \/ ExportersRetry
=============================================================================
