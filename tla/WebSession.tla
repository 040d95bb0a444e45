----------------------------- MODULE WebSession -----------------------------
(***************************************************************************)
(* Who is logged in: the tabs of one browser (api/client.ts with the CSRF  *)
(* token it caches, stores/auth.ts, the guard of router/index.ts,          *)
(* LoginView.vue, the logout of SidebarNav.vue), the one cookie they share *)
(* and the sessions of the server (api/auth.go, csrf.go, middleware.go and *)
(* session/manager.go with the external scs and its table).                *)
(*                                                                         *)
(* A tab runs one operation at a time, a chain of requests. A request      *)
(* carries the cookie of the moment it is sent; LoadAndSave loads the      *)
(* session of that cookie, the handler works on what was loaded, and the   *)
(* first byte of the answer stores it again, with the cookie in the        *)
(* answer: with an idle timeout, whether anything changed or not. The      *)
(* browser takes the cookie when the answer comes, and only then the       *)
(* script goes on. In between the other tabs act. A session's name and a   *)
(* CSRF token are random, hence new. The polls and reads of the views      *)
(* treat cookie and session as the page load of another tab does.          *)
(***************************************************************************)
EXTENDS Integers, FiniteSets

CONSTANTS
  Tabs,       \* the tabs
  Users,      \* the accounts
  Nobody,     \* no account
  Budget      \* bound on logins, writes, reloads, expiries and failed requests

ASSUME SessionAssumption ==
  /\ IsFiniteSet(Tabs) /\ Nobody \notin Users
  /\ Budget \in Nat

\* Names of sessions and tokens are numbers, the next one made + 1. A login makes
\* one, and the first request for a token after a page load or a failure.
NoCookie == 0
NoToken == 0
MaxMade == Budget + Cardinality(Tabs)
Numbers == 0 .. MaxMade

VARIABLES
  sessions,   \* [Numbers -> the row of the sessions table]
  made,       \* the last name or token made
  cookie,     \* the session the browser's cookie names
  csrfToken,  \* [Tabs -> the token api/client.ts has cached]
  user,       \* [Tabs -> the user of the auth store]
  loaded,     \* [Tabs -> the auth store has asked who it is]
  page,       \* [Tabs -> "blank", "login" or "app", any page but the login]
  loading,    \* [Tabs -> the login form waits for the answer]
  op,         \* [Tabs -> the operation it runs]
  as,         \* [Tabs -> whose credentials the login form holds]
  at,         \* [Tabs -> the request it waits for]
  leg,        \* [Tabs -> how far that request is]
  sent,       \* [Tabs -> the cookie it carries]
  held,       \* [Tabs -> the session its handlers work on]
  answer,     \* [Tabs -> its answer]
  spent,      \* logins, writes, reloads, expiries and failed requests so far
  past,       \* history: [Tabs -> since its scripts were loaded: "calm", "stale" if
              \*           a session has ended, "late" if it fetched its token after
              \*           that, "mixed" if requests got into each other's way]
  upset       \* history: [Tabs -> a request of its operation was lost, or others
              \*           changed the sessions or the cookie while it runs]

tableVars == <<sessions, made>>
storeVars == <<user, loaded, page, loading>>
requestVars == <<op, as, at, leg, sent, held, answer>>
histVars == <<past, upset>>
sessionVars == <<tableVars, cookie, csrfToken, storeVars, requestVars, spent, histVars>>

\* A row is live, was replaced by the one of a login, or is over. `twice` is a
\* history: somebody logged in over a live login.
Row == [is : {"live", "renewed", "over"}, user : Users \cup {Nobody}, csrf : Numbers,
        twice : BOOLEAN]
NoRow == [is |-> "over", user |-> Nobody, csrf |-> NoToken, twice |-> FALSE]

\* sets: the answer sets the cookie.
Answer == [status : {"none", "ok", "unauthorized", "forbidden", "lost"},
           user : Users \cup {Nobody}, token : Numbers, sets : BOOLEAN, cookie : Numbers]
NoAnswer == [status |-> "none", user |-> Nobody, token |-> NoToken,
             sets |-> FALSE, cookie |-> NoCookie]
Reply(s) == [NoAnswer EXCEPT !.status = s]

Mixed == [t \in Tabs |-> "mixed"]
Ended == [t \in Tabs |-> IF past[t] = "calm" THEN "stale" ELSE past[t]]

Spend == spent < Budget /\ spent' = spent + 1

-----------------------------------------------------------------------------
(* The server.                                                             *)

\* LoadAndSave, before the handler: a cookie that names no live session is as
\* good as none.
Load(t) ==
  /\ leg[t] = "sent"
  /\ held' = [held EXCEPT ![t] = IF sessions[sent[t]].is = "live" THEN sessions[sent[t]] ELSE NoRow]
  /\ leg' = [leg EXCEPT ![t] = "loaded"]
  /\ UNCHANGED <<tableVars, cookie, csrfToken, storeVars, op, as, at, sent, answer,
                 spent, histVars>>

Found(t) == held[t].is = "live"
Asked(t, r) == at[t] = r /\ leg[t] = "loaded"

\* The session is no more what the request has loaded; or, if it found none,
\* a login has renewed it and the cookie of the new one is not there yet.
Overtaken(t) ==
  IF Found(t) THEN sessions[sent[t]] # held[t] ELSE sessions[sent[t]].is # "over"

\* LoadAndSave, after it: the rows as the handler left them, and the answer.
Answered(t, table, a) ==
  /\ sessions' = table
  /\ answer' = [answer EXCEPT ![t] = a]
  /\ leg' = [leg EXCEPT ![t] = "answered"]
  /\ held' = [held EXCEPT ![t] = NoRow]
  /\ past' = CASE a.sets /\ Overtaken(t) -> Mixed
               [] a.sets /\ ~Overtaken(t) /\ a.cookie = NoCookie -> Ended
               [] OTHER -> past
  /\ upset' = [s \in Tabs |-> upset[s] \/ (s # t /\ op[s] # "none" /\ table # sessions)]
  /\ UNCHANGED <<cookie, csrfToken, storeVars, op, as, at, sent, spent>>

WithCookie(a, i) == [a EXCEPT !.sets = TRUE, !.cookie = i]

\* A handler that leaves the session alone: it is stored as it was loaded.
AnsweredOnly(t, a) ==
  /\ IF Found(t)
     THEN Answered(t, [sessions EXCEPT ![sent[t]] = held[t]], WithCookie(a, sent[t]))
     ELSE Answered(t, sessions, a)
  /\ UNCHANGED made

\* GET /api/auth/csrf: the session's token; made, with the session if there
\* is none, at the first request for it.
ServeCsrf(t) ==
  /\ Asked(t, "csrf")
  /\ held[t].csrf # NoToken \/ made < MaxMade
  /\ LET tok == IF held[t].csrf = NoToken THEN made + 1 ELSE held[t].csrf
         id  == IF Found(t) THEN sent[t] ELSE made + 1
     IN  Answered(t, [sessions EXCEPT ![id] = [held[t] EXCEPT !.is = "live", !.csrf = tok]],
                  WithCookie([Reply("ok") EXCEPT !.token = tok], id))
  /\ made' = IF held[t].csrf = NoToken THEN made + 1 ELSE made

ServeMe(t) ==
  /\ Asked(t, "me")
  /\ AnsweredOnly(t, IF held[t].user = Nobody THEN Reply("unauthorized")
                     ELSE [Reply("ok") EXCEPT !.user = held[t].user])

\* RenewToken: the row of the old name goes, the data get a new one.
Renewed(t) ==
  IF Found(t) THEN [sessions EXCEPT ![sent[t]] = [NoRow EXCEPT !.is = "renewed"]] ELSE sessions

\* Mutant: the login begins an empty session.
ServeLoginEmpty(t) ==
  /\ Asked(t, "post") /\ op[t] = "login"
  /\ IF as[t] = Nobody
     THEN AnsweredOnly(t, Reply("unauthorized"))
     ELSE /\ made < MaxMade /\ made' = made + 1
          /\ Answered(t, [Renewed(t) EXCEPT ![made + 1] =
                            [NoRow EXCEPT !.is = "live", !.user = as[t]]],
                      WithCookie(Reply("ok"), made + 1))

\* POST /api/auth/login is public. RenewToken changes the cookie and keeps the
\* data of the session, the CSRF token included.
ServeLogin(t) ==
  /\ Asked(t, "post") /\ op[t] = "login"
  /\ IF as[t] = Nobody
     THEN AnsweredOnly(t, Reply("unauthorized"))
     ELSE /\ made < MaxMade /\ made' = made + 1
          /\ Answered(t, [Renewed(t) EXCEPT ![made + 1] =
                            [held[t] EXCEPT !.is = "live", !.user = as[t],
                                            !.twice = @ \/ held[t].user # Nobody]],
                      WithCookie(Reply("ok"), made + 1))

\* Mutant: the token is not compared.
RefusalAuthOnly(t) == IF held[t].user = Nobody THEN {"unauthorized"} ELSE {}

\* requireAuth, then csrfMiddleware, in front of every write.
Refusal(t) ==
  CASE held[t].user = Nobody -> {"unauthorized"}
    [] held[t].user # Nobody
       /\ (held[t].csrf = NoToken \/ csrfToken[t] # held[t].csrf) -> {"forbidden"}
    [] OTHER -> {}

ServeRefused(t) ==
  /\ Asked(t, "post") /\ op[t] \in {"logout", "write"}
  /\ \E s \in Refusal(t) : AnsweredOnly(t, Reply(s))

\* Destroy: the row goes with all its data, and the answer clears the cookie.
ServeLogout(t) ==
  /\ Asked(t, "post") /\ op[t] = "logout" /\ Refusal(t) = {}
  /\ Answered(t, [sessions EXCEPT ![sent[t]] = NoRow], WithCookie(Reply("ok"), NoCookie))
  /\ UNCHANGED made

\* Any other non-GET request: those of SettingsMikrotikView.
ServeWrite(t) ==
  /\ Asked(t, "post") /\ op[t] = "write" /\ Refusal(t) = {}
  /\ AnsweredOnly(t, Reply("ok"))

\* An hour idle, or twelve in all. (A row that no cookie names is not missed.)
Expire ==
  /\ sessions[cookie].is = "live"
  /\ Spend
  /\ sessions' = [sessions EXCEPT ![cookie] = NoRow]
  /\ past' = Ended
  /\ upset' = [t \in Tabs |-> upset[t] \/ op[t] # "none"]
  /\ UNCHANGED <<made, cookie, csrfToken, storeVars, requestVars>>

\* The request fails on its way there, or the answer on its way back, with its
\* cookie or without.
Lose(t) ==
  /\ leg[t] \in {"sent", "answered"} \/ (leg[t] = "received" /\ answer[t].status # "lost")
  /\ Spend
  /\ answer' = [answer EXCEPT ![t] = Reply("lost")]
  /\ leg' = [leg EXCEPT ![t] = "received"]
  /\ sent' = [sent EXCEPT ![t] = NoCookie]
  /\ upset' = [upset EXCEPT ![t] = TRUE]
  /\ UNCHANGED <<tableVars, cookie, csrfToken, storeVars, op, as, at, held, past>>

-----------------------------------------------------------------------------
(* The tab. Idle(t) starts an operation; the rest continue one.            *)

\* The browser takes the cookie, whatever it has by now.
Receive(t) ==
  /\ leg[t] = "answered"
  /\ LET c == IF answer[t].sets THEN answer[t].cookie ELSE cookie
     IN  /\ cookie' = c
         /\ upset' = [s \in Tabs |-> upset[s] \/ (s # t /\ op[s] # "none" /\ c # cookie)]
  /\ past' = IF answer[t].sets /\ sent[t] # cookie THEN Mixed ELSE past
  /\ answer' = [answer EXCEPT ![t].sets = FALSE, ![t].cookie = NoCookie]
  /\ leg' = [leg EXCEPT ![t] = "received"]
  /\ sent' = [sent EXCEPT ![t] = NoCookie]
  /\ UNCHANGED <<tableVars, csrfToken, storeVars, op, as, at, held, spent>>

Idle(t) == op[t] = "none" /\ page[t] # "blank"

Ask(t, o, r) ==
  /\ op' = [op EXCEPT ![t] = o]
  /\ at' = [at EXCEPT ![t] = r]
  /\ leg' = [leg EXCEPT ![t] = IF r = "none" THEN "none" ELSE "sent"]
  /\ sent' = [sent EXCEPT ![t] = IF r = "none" THEN NoCookie ELSE cookie]
  /\ answer' = [answer EXCEPT ![t] = NoAnswer]
  /\ UNCHANGED <<tableVars, cookie, held>>

Send(t, o, r) == Ask(t, o, r) /\ UNCHANGED <<as, upset>>

Finish(t) ==
  /\ Ask(t, "none", "none")
  /\ as' = [as EXCEPT ![t] = Nobody]
  /\ upset' = [upset EXCEPT ![t] = FALSE]

\* api(): any method but GET takes the cached token, or fetches it first.
FirstOfWrite(t) == IF csrfToken[t] = NoToken THEN "csrf" ELSE "post"

\* The form waits no more, or a new one is made with its page.
Go(t, p) ==
  /\ page' = [page EXCEPT ![t] = p]
  /\ loading' = [loading EXCEPT ![t] = FALSE]

\* beforeEach of a protected page: the store asks the server once.
Guard(t, u) ==
  IF loaded[t]
  THEN Finish(t) /\ Go(t, IF u = Nobody THEN "login" ELSE "app")
  ELSE Send(t, "guard", "me") /\ Go(t, page[t])

\* A page load: all scripts start from nothing, on a protected page. What it
\* finds may be mixed already if others are at odds right now.
Reload(t) ==
  /\ op[t] = "none"
  /\ IF page[t] = "blank" THEN UNCHANGED spent ELSE Spend
  /\ csrfToken' = [csrfToken EXCEPT ![t] = NoToken]
  /\ user' = [user EXCEPT ![t] = Nobody]
  /\ loaded' = [loaded EXCEPT ![t] = FALSE]
  /\ Go(t, "blank")
  /\ Send(t, "guard", "me")
  /\ past' = [past EXCEPT ![t] =
               IF \E s \in Tabs \ {t} : upset[s] THEN "mixed" ELSE "calm"]

Navigate(t) ==
  /\ Idle(t)
  /\ Guard(t, user[t])
  /\ UNCHANGED <<csrfToken, user, loaded, spent, past>>

\* The login page is public and can be visited while logged in.
GoToLogin(t) ==
  /\ Idle(t) /\ page[t] = "app"
  /\ Spend
  /\ Go(t, "login")
  /\ UNCHANGED <<tableVars, cookie, csrfToken, user, loaded, requestVars, histVars>>

\* handleSubmit, with somebody's credentials or with wrong ones.
Submit(t) ==
  /\ Idle(t) /\ page[t] = "login" /\ ~loading[t]
  /\ Spend
  /\ \E u \in Users \cup {Nobody} : as' = [as EXCEPT ![t] = u]
  /\ loading' = [loading EXCEPT ![t] = TRUE]
  /\ Ask(t, "login", FirstOfWrite(t))
  /\ UNCHANGED <<csrfToken, user, loaded, page, histVars>>

ClickLogout(t) ==
  /\ Idle(t) /\ page[t] = "app"
  /\ Spend
  /\ Send(t, "logout", FirstOfWrite(t))
  /\ UNCHANGED <<csrfToken, storeVars, past>>

Write(t) ==
  /\ Idle(t) /\ page[t] = "app"
  /\ Spend
  /\ Send(t, "write", FirstOfWrite(t))
  /\ UNCHANGED <<csrfToken, storeVars, past>>

Arrives(t, r) == at[t] = r /\ leg[t] = "received"

\* Mutant: an error leaves the form waiting.
FailsWaiting(t) ==
  /\ Finish(t)
  /\ UNCHANGED loading
  /\ IF op[t] = "logout"
     THEN /\ user' = [user EXCEPT ![t] = Nobody]
          /\ loaded' = [loaded EXCEPT ![t] = FALSE]
     ELSE UNCHANGED <<user, loaded>>
  /\ UNCHANGED page

\* What an error of api() does to the operation: the login form is free again, with an
\* alert; the logout forgets the user and stays where it is; a write shows a message.
Fails(t) ==
  /\ Finish(t)
  /\ loading' = [loading EXCEPT ![t] = FALSE]
  /\ IF op[t] = "logout"
     THEN /\ user' = [user EXCEPT ![t] = Nobody]
          /\ loaded' = [loaded EXCEPT ![t] = FALSE]
     ELSE UNCHANGED <<user, loaded>>
  /\ UNCHANGED page

TokenArrives(t) ==
  /\ Arrives(t, "csrf")
  /\ IF answer[t].status = "ok"
     THEN /\ csrfToken' = [csrfToken EXCEPT ![t] = answer[t].token]
          /\ past' = [past EXCEPT ![t] = IF @ = "stale" THEN "late" ELSE @]
          /\ Send(t, op[t], "post")
          /\ UNCHANGED storeVars
     ELSE Fails(t) /\ UNCHANGED <<csrfToken, past>>
  /\ UNCHANGED spent

PostArrives(t) ==
  /\ Arrives(t, "post")
  /\ CASE answer[t].status # "ok" -> Fails(t)
       [] answer[t].status = "ok" /\ op[t] = "login" ->
            Send(t, "login", "me") /\ UNCHANGED storeVars
       [] answer[t].status = "ok" /\ op[t] = "logout" ->
            /\ Finish(t)
            /\ user' = [user EXCEPT ![t] = Nobody]
            /\ loaded' = [loaded EXCEPT ![t] = FALSE]
            /\ Go(t, "login")
       [] OTHER -> Finish(t) /\ UNCHANGED storeVars
  /\ UNCHANGED <<csrfToken, spent, past>>

\* login: the answer is the new user, and the form goes on to the start page,
\* whose guard asks again unless the store has been loaded before.
LoginDone(t) ==
  /\ Arrives(t, "me") /\ op[t] = "login"
  /\ IF answer[t].status = "ok"
     THEN /\ user' = [user EXCEPT ![t] = answer[t].user]
          /\ Guard(t, answer[t].user)
          /\ UNCHANGED loaded
     ELSE Fails(t)
  /\ UNCHANGED <<csrfToken, spent, past>>

\* Mutant: the guard looks at what the store had before it asked.
GuardDoneEarly(t) ==
  /\ Arrives(t, "me") /\ op[t] = "guard"
  /\ user' = [user EXCEPT ![t] = IF answer[t].status = "ok" THEN answer[t].user ELSE Nobody]
  /\ Go(t, IF loaded[t] THEN "app" ELSE "login")
  /\ loaded' = [loaded EXCEPT ![t] = TRUE]
  /\ Finish(t)
  /\ UNCHANGED <<csrfToken, spent, past>>

\* ensureLoaded: any error means nobody.
GuardDone(t) ==
  /\ Arrives(t, "me") /\ op[t] = "guard"
  /\ LET u == IF answer[t].status = "ok" THEN answer[t].user ELSE Nobody
     IN  /\ user' = [user EXCEPT ![t] = u]
         /\ Go(t, IF u = Nobody THEN "login" ELSE "app")
  /\ loaded' = [loaded EXCEPT ![t] = TRUE]
  /\ Finish(t)
  /\ UNCHANGED <<csrfToken, spent, past>>

-----------------------------------------------------------------------------
SessionInit ==
  /\ sessions = [i \in Numbers |-> NoRow] /\ made = 0 /\ cookie = NoCookie
  /\ csrfToken = [t \in Tabs |-> NoToken]
  /\ user = [t \in Tabs |-> Nobody] /\ as = user
  /\ loaded = [t \in Tabs |-> FALSE] /\ upset = loaded /\ loading = loaded
  /\ page = [t \in Tabs |-> "blank"] /\ past = [t \in Tabs |-> "calm"]
  /\ op = [t \in Tabs |-> "none"] /\ at = op /\ leg = op
  /\ sent = [t \in Tabs |-> NoCookie] /\ held = [t \in Tabs |-> NoRow]
  /\ answer = [t \in Tabs |-> NoAnswer]
  /\ spent = 0

Serve(t) ==
  \/ Load(t)
  \/ ServeCsrf(t) \/ ServeMe(t) \/ ServeLogin(t) \/ ServeRefused(t)
  \/ ServeLogout(t) \/ ServeWrite(t)

Continue(t) ==
  Receive(t) \/ TokenArrives(t) \/ PostArrives(t) \/ LoginDone(t) \/ GuardDone(t)

Act(t) ==
  Reload(t) \/ Navigate(t) \/ GoToLogin(t) \/ Submit(t) \/ ClickLogout(t) \/ Write(t)

SessionNext == Expire \/ \E t \in Tabs : Act(t) \/ Serve(t) \/ Lose(t) \/ Continue(t)

SessionSpec == SessionInit /\ [][SessionNext]_sessionVars

-----------------------------------------------------------------------------
(* Properties.                                                             *)

\* The types.
SessionTypeOK ==
  /\ sessions \in [Numbers -> Row]
  /\ made \in Numbers /\ cookie \in Numbers
  /\ csrfToken \in [Tabs -> Numbers]
  /\ user \in [Tabs -> Users \cup {Nobody}] /\ as \in [Tabs -> Users \cup {Nobody}]
  /\ loaded \in [Tabs -> BOOLEAN] /\ past \in [Tabs -> {"calm", "stale", "late", "mixed"}]
  /\ page \in [Tabs -> {"blank", "login", "app"}]
  /\ loading \in [Tabs -> BOOLEAN]
  /\ op \in [Tabs -> {"none", "guard", "login", "logout", "write"}]
  /\ at \in [Tabs -> {"none", "csrf", "post", "me"}]
  /\ leg \in [Tabs -> {"none", "sent", "loaded", "answered", "received"}]
  /\ sent \in [Tabs -> Numbers] /\ held \in [Tabs -> Row]
  /\ answer \in [Tabs -> Answer]
  /\ spent \in 0 .. Budget /\ upset \in [Tabs -> BOOLEAN]

\* A write or a logout is refused for its token only in a tab since whose page
\* load a session has ended, or requests have got into each other's way: an
\* answer put its cookie over another than the one its request carried, or a
\* request worked on a session that another had changed, ended or renewed since
\* (two tabs that both ask for their first token without a cookie, say). Else a
\* tab is never refused, whatever the others do (ensureCSRF, csrfMiddleware).
RefusalExplained ==
  \A t \in Tabs : answer[t].status = "forbidden" => past[t] # "calm"

\* A session that is over leaves nothing behind but the tokens of tabs that were
\* open in it; these and requests at odds explain every refusal (csrf.go).
SessionSafe == SessionTypeOK /\ RefusalExplained

\* A write is carried out as the user the tab shows (or as the one it has just
\* forgotten in a logout that failed): the token ties a tab to its session, so
\* one left open across logout and login of another user is stopped. It is not
\* if somebody logged in over a live login, which keeps the token, if the tab
\* had not fetched a token before the session it was loaded in ended, or if
\* requests have got into each other's way.
WrittenAsShown ==
  [][\A t \in Tabs :
       ServeWrite(t) =>
         user[t] \in {Nobody, held[t].user} \/ held[t].twice \/ past'[t] \in {"late", "mixed"}]_sessionVars

\* A login that succeeded gets its user to the start page, although the guard
\* there may ask a second time who it is; it falls back to the login form only
\* if a request was lost, or others changed the sessions or the cookie meanwhile.
LoginLands ==
  [][\A t \in Tabs :
       GuardDone(t) /\ user[t] # Nobody => page'[t] = "app" \/ upset[t]]_sessionVars

\* How much of a login is still to come: requests, and the legs of the present one.
ToCome(t) ==
  4 * (CASE at[t] = "csrf" -> 2 [] at[t] = "post" -> 1 [] OTHER -> 0)
  + (CASE leg[t] = "sent" -> 3 [] leg[t] = "loaded" -> 2 [] leg[t] = "answered" -> 1
       [] OTHER -> 0)

\* The login form is never left waiting, whatever the requests answer and
\* whoever interferes: while it waits its login runs, and every step of the login
\* frees it or leaves less to come. As requests are served and answers handled,
\* it comes back (handleSubmit's finally).
FormComesBack ==
  [][\A t \in Tabs :
       /\ loading[t] => op[t] = "login" /\ leg[t] # "none"
       /\ loading[t] /\ loading'[t] =>
            \/ UNCHANGED <<at[t], leg[t]>>
            \/ ToCome(t)' < ToCome(t)]_sessionVars

\* A login comes to an end, and a good one at the start page (submit, the guard).
LoginSettles == LoginLands /\ FormComesBack
=============================================================================
