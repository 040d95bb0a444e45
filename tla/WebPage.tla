------------------------------ MODULE WebPage ------------------------------
(***************************************************************************)
(* What the pages of the web application have in common: one component is  *)
(* mounted at a time (router/index.ts, <router-view> of App.vue); it asks  *)
(* the daemon, by timers and clicks, and answers arrive in any order; the  *)
(* browser tab may be hidden. The refs of the mounted component are one    *)
(* record, so that a handler is a function from records to records and     *)
(* handlers that call handlers are composed. A component that is left goes *)
(* on only with what it awaits in its mounted hook.                        *)
(***************************************************************************)
EXTENDS Integers, Sequences, FiniteSets, SequencesExt

CONSTANTS
  MaxClicks,   \* bound on clicks, visits to pages, new incidents and evicted hosts
  MaxFaults,   \* bound on requests that fail
  MaxPending   \* bound on unanswered requests for the same thing

ASSUME PageAssumption ==
  /\ MaxClicks \in Nat /\ MaxFaults \in Nat
  /\ MaxPending \in Nat \ {0}

VARIABLES
  view,       \* the refs of the mounted component; view.page names it
  hidden,     \* document.visibilityState is not 'visible', on a page that listens
  clicks,     \* clicks so far
  faults,     \* requests that have failed so far
  orphans,    \* [PollingPages -> components left while their mounted hook awaits]
  leaked,     \* [PollingPages -> timers left running by components that are gone]
  leftEarly   \* history: [PollingPages -> components left before their first answer]

PollingPages == {"traffic", "flows", "analytics", "exporters"}

leftVars == <<orphans, leaked, leftEarly>>
pageVars == <<view, hidden, clicks, faults, leftVars>>

At(p) == view.page = p

\* What the browser, a timer or an answer does to the component.
Becomes(v) == view' = v /\ UNCHANGED <<hidden, clicks, leftVars>>

\* The same for a click.
Click(v) ==
  /\ clicks < MaxClicks /\ clicks' = clicks + 1
  /\ view' = v
  /\ UNCHANGED <<hidden, faults, leftVars>>

\* A request ends well, or it fails.
Outcome(ok) ==
  IF ok THEN UNCHANGED faults ELSE faults < MaxFaults /\ faults' = faults + 1

\* visibilitychange: the page's listener changes it to v. A page without a
\* listener does not notice, and its tab is not hidden here.
Visibility(h, v) ==
  /\ hidden # h /\ hidden' = h
  /\ view' = v
  /\ UNCHANGED <<clicks, faults, leftVars>>

\* A radio button of the page: the unit of its figures.
OtherMode(m) == IF m = "bps" THEN "pps" ELSE "bps"
=============================================================================
