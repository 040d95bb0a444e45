---------------------------- MODULE SettingsView ----------------------------
(***************************************************************************)
(* views/SettingsMikrotikView.vue and api/mikrotik.ts with the handlers of *)
(* internal/api/mikrotik.go: the routers that are asked for subscribers.   *)
(*                                                                         *)
(* The table holds [id, name, enabled]; addresses and credentials are in   *)
(* a form only as far as they decide what happens to it: form.text is      *)
(* "blank" (address or user is), "nopw" (only the password is missing),    *)
(* "bare" (an address without http://) or "good". A request is served, and *)
(* its answer arrives, in steps of their own and in any order.             *)
(***************************************************************************)
EXTENDS WebPage

CONSTANTS
  Typings,  \* what a form may be filled in with: records [name, enabled, text]
  NoId,     \* the form creates a router
  MaxRouters

ASSUME SettingsAssumption ==
  /\ MaxRouters \in Nat /\ NoId \notin Nat
  /\ \A typed \in Typings : typed.enabled \in BOOLEAN

Router(id, name, on) == [id |-> id, name |-> name, enabled |-> on]
Request(kind, id, name, on, text) ==
  [kind |-> kind, id |-> id, name |-> name, enabled |-> on, text |-> text,
   served |-> FALSE, answer |-> "none", list |-> {}]
ListRequest(kind) == Request(kind, NoId, "", TRUE, "good")

NoForm == [id |-> NoId, name |-> "", enabled |-> TRUE, text |-> "blank"]
NoTest == [text |-> "none", for |-> NoId]

SettingsMounted(t) ==
  [page |-> "settings", table |-> t, serial |-> Cardinality(t), routers |-> {}, loading |-> TRUE,
   fetchError |-> FALSE, modalOpen |-> FALSE, form |-> NoForm, formError |-> "none",
   submitting |-> FALSE, testing |-> FALSE, testResult |-> NoTest,
   reqs |-> <<ListRequest("list")>>, told |-> FALSE,
   touched |-> FALSE,    \* history: the form was changed with its save out
   crossed |-> FALSE,    \* history: a form was opened while another one was under way
   overtaken |-> FALSE]  \* history: requests overlapped, or the answer to a change was
                         \* lost, and the list has not been read alone since

-----------------------------------------------------------------------------
(* The handlers of the daemon: the answer to a request and the new table;  *)
(* numbers are never given out twice.                                      *)

Taken(t, name, id) == \E r \in t : r.name = name /\ r.id # id
Exists(t, id) == \E r \in t : r.id = id
Changed(t, id, name, on) == {IF r.id = id THEN Router(id, name, on) ELSE r : r \in t}
NameOf(t, id) == (CHOOSE r \in t : r.id = id).name

\* Mutant: a name may be given twice.
handleCreateMikrotikRouterTwice(t, q, next) ==
  IF q.text = "bare" THEN [answer |-> "invalid_param", table |-> t]
  ELSE [answer |-> "ok", table |-> t \cup {Router(next, q.name, q.enabled)}]

handleCreateMikrotikRouter(t, q, next) ==
  CASE q.text = "bare" -> [answer |-> "invalid_param", table |-> t]
    [] q.text # "bare" /\ Taken(t, q.name, NoId) -> [answer |-> "name_taken", table |-> t]
    [] OTHER -> [answer |-> "ok",
                 table |-> t \cup {Router(next, q.name, q.enabled)}]

handlePatchMikrotikRouter(t, q) ==
  LET name == IF q.kind = "toggle" THEN NameOf(t, q.id) ELSE q.name
  IN  CASE ~Exists(t, q.id) -> [answer |-> "not_found", table |-> t]
        [] Exists(t, q.id) /\ Taken(t, name, q.id) ->
             [answer |-> "name_taken", table |-> t]
        [] OTHER -> [answer |-> "ok", table |-> Changed(t, q.id, name, q.enabled)]

handleDeleteMikrotikRouter(t, q) ==
  IF Exists(t, q.id) THEN [answer |-> "ok", table |-> {r \in t : r.id # q.id}]
  ELSE [answer |-> "not_found", table |-> t]

\* A test does not touch the table; it fails without the right credentials.
Handled(t, q, next) ==
  CASE q.kind = "create"              -> handleCreateMikrotikRouter(t, q, next)
    [] q.kind \in {"update", "toggle"} -> handlePatchMikrotikRouter(t, q)
    [] q.kind = "delete"              -> handleDeleteMikrotikRouter(t, q)
    [] OTHER -> [answer |-> IF q.text = "good" THEN "ok" ELSE "fail", table |-> t]

-----------------------------------------------------------------------------
(* The page.                                                               *)

SettingsShown(v) ==
  CASE v.loading -> "spinner"
    [] ~v.loading /\ v.fetchError -> "alert"
    [] OTHER -> IF v.routers = {} THEN "empty" ELSE "rows"

isEditing(v) == v.form.id # NoId
SettingsRoom(v) == Len(v.reqs) < MaxPending
IsList(q) == q.kind \in {"list", "list after submit"}
IsSubmit(q) == q.kind \in {"create", "update"}
Requested(v, q) == [v EXCEPT !.reqs = Append(@, q),
                             !.overtaken = (@ /\ ~IsList(q)) \/ v.reqs # <<>>]
UnderWay(v) == v.submitting \/ v.testing

openForm(v, f) ==
  [v EXCEPT !.form = f, !.formError = "none", !.testResult = NoTest,
            !.modalOpen = TRUE, !.crossed = UnderWay(v), !.touched = FALSE]

openCreate(v) == openForm(v, NoForm)

Filled(id, typed) ==
  [id |-> id, name |-> typed.name, enabled |-> typed.enabled, text |-> typed.text]

\* What is known of the router, without its password.
FormOf(r) == Filled(r.id, [name |-> r.name, enabled |-> r.enabled, text |-> "nopw"])

\* Mutant: the result of the last test is left in the form.
openEditKept(v, r) == [openForm(v, FormOf(r)) EXCEPT !.testResult = v.testResult]

openEdit(v, r) == openForm(v, FormOf(r))

submit(v) ==
  LET w == [v EXCEPT !.formError = "none"]
      q == Request(IF isEditing(v) THEN "update" ELSE "create", v.form.id,
                   v.form.name, v.form.enabled, v.form.text)
  IN  CASE v.form.text = "blank" -> [w EXCEPT !.formError = "required_fields"]
        [] v.form.text = "nopw" /\ ~isEditing(v) ->
             [w EXCEPT !.formError = "password_required"]
        [] OTHER -> Requested([w EXCEPT !.submitting = TRUE, !.touched = FALSE], q)

runTest(v) ==
  LET says(text) == [v EXCEPT !.testResult = [text |-> text, for |-> v.form.id]]
  IN  CASE v.form.text = "blank" -> says("required_fields")
        [] v.form.text = "nopw" /\ ~isEditing(v) -> says("password_required")
        [] OTHER -> Requested([v EXCEPT !.testResult = NoTest, !.testing = TRUE],
                              Request("test", v.form.id, v.form.name, TRUE, v.form.text))

-----------------------------------------------------------------------------
(* What an answer does.                                                    *)

\* A list replaces the one shown; after a submit the button is let go.
ListArrives(v, q) ==
  [v EXCEPT !.loading = FALSE, !.fetchError = q.answer # "ok",
            !.routers = IF q.answer = "ok" THEN q.list ELSE @,
            !.told = @ \/ q.answer = "ok",
            !.submitting = @ /\ q.kind # "list after submit"]

FormErrorOf(answer) ==
  IF answer \in {"name_taken", "invalid_param"} THEN answer ELSE "generic"

\* Mutant: the form is closed, whatever the answer.
SubmitArrivesClosing(v, q) ==
  IF q.answer = "ok"
  THEN Requested([v EXCEPT !.modalOpen = FALSE], ListRequest("list after submit"))
  ELSE [v EXCEPT !.modalOpen = FALSE, !.formError = FormErrorOf(q.answer),
                 !.submitting = FALSE]

SubmitArrives(v, q) ==
  IF q.answer = "ok"
  THEN Requested([v EXCEPT !.modalOpen = FALSE], ListRequest("list after submit"))
  ELSE [v EXCEPT !.formError = FormErrorOf(q.answer), !.submitting = FALSE]

TestArrives(v, q) ==
  [v EXCEPT !.testing = FALSE,
            !.testResult = [text |-> IF q.answer = "ok" THEN "ok" ELSE "fail",
                            for |-> q.id]]

\* Mutant: the list is not read again.
RowArrivesQuiet(v, q) == v

RowArrives(v, q) == IF q.answer = "ok" THEN Requested(v, ListRequest("list")) ELSE v

Arrived(v, q) ==
  CASE IsList(q)                       -> ListArrives(v, q)
    [] q.kind \in {"create", "update"} -> SubmitArrives(v, q)
    [] q.kind = "test"                 -> TestArrives(v, q)
    [] OTHER                           -> RowArrives(v, q)

-----------------------------------------------------------------------------
(* Actions.                                                                *)

\* The daemon serves the k-th request.
SettingsServed ==
  /\ At("settings")
  /\ \E k \in DOMAIN view.reqs :
       LET q == view.reqs[k]
           h == Handled(view.table, q, view.serial + 1)
       IN  /\ ~q.served
           /\ Becomes([view EXCEPT !.table = h.table,
                !.serial = IF q.kind = "create" THEN @ + 1 ELSE @,
                !.reqs[k] = [q EXCEPT !.served = TRUE, !.answer = h.answer,
                             !.list = IF IsList(q) THEN view.table ELSE {}]])
  /\ UNCHANGED faults

\* An answer arrives; or a request, or its answer, is lost.
SettingsAnswered ==
  /\ At("settings")
  /\ \E k \in DOMAIN view.reqs, ok \in BOOLEAN :
       LET q == view.reqs[k]
           v == [view EXCEPT !.reqs = RemoveAt(@, k),
                             !.overtaken = @ \/ (~ok /\ ~IsList(q))]
       IN  /\ ok => q.served
           /\ Outcome(ok)
           /\ Becomes(Arrived(v, IF ok THEN q ELSE [q EXCEPT !.answer = "failed"]))

OpenForm ==
  /\ At("settings") /\ ~hidden /\ ~view.modalOpen
  /\ \/ view.serial < MaxRouters /\ Click(openCreate(view))
     \/ /\ SettingsShown(view) = "rows"
        /\ \E r \in view.routers : Click(openEdit(view, r))

\* The inputs and the switch of an open form can be changed at any time, whatever
\* has been asked for in its name.
EditForm ==
  /\ At("settings") /\ ~hidden /\ view.modalOpen
  /\ \E typed \in Typings :
       Becomes([view EXCEPT !.form = Filled(@.id, typed), !.touched = @ \/ view.submitting])
  /\ UNCHANGED faults

CloseForm ==
  /\ At("settings") /\ ~hidden /\ view.modalOpen
  /\ Click([view EXCEPT !.modalOpen = FALSE])

\* A button that shows that it is loading does not react.
SubmitForm ==
  /\ At("settings") /\ ~hidden /\ view.modalOpen /\ ~view.submitting
  /\ SettingsRoom(view) /\ Click(submit(view))

RunTest ==
  /\ At("settings") /\ ~hidden /\ view.modalOpen /\ ~view.testing
  /\ SettingsRoom(view) /\ Click(runTest(view))

RowButton ==
  /\ At("settings") /\ ~hidden /\ ~view.modalOpen /\ SettingsShown(view) = "rows"
  /\ SettingsRoom(view)
  /\ \E r \in view.routers, kind \in {"toggle", "delete"} :
       Click(Requested(view, Request(kind, r.id, r.name, ~r.enabled, "good")))

SettingsNext ==
  \/ SettingsServed \/ SettingsAnswered \/ OpenForm \/ EditForm \/ CloseForm
  \/ SubmitForm \/ RunTest \/ RowButton
=============================================================================
