--------------------------- MODULE MCAdminSession ---------------------------
(***************************************************************************)
(* Two parts of the administrator's console that must come to rest, for    *)
(* TLC: AdminSession and AuthenticatorPanel, which share no state.  The    *)
(* session is checked twice, because tabs meet in the cookie and the rows, *)
(* and the requests of one tab in its renewal: with two tabs and one       *)
(* request made in the first (the tabs are alike, so nothing is lost by    *)
(* the choice), where a request fails or the configuration changes, not    *)
(* both; and with two requests of one tab, while the other tab has not     *)
(* been opened, under one configuration (a session that expires is refused *)
(* like one of another configuration).  A behaviour is one of one part,    *)
(* and no action of the others is enabled or owed fairness.                *)
(***************************************************************************)
EXTENDS AdminSession, TLC

CONSTANTS t1, c1, Items, Tasks, NoTask, MaxHides

VARIABLES
  part,
  items, new, page, hidden, shown, expired, request, timer, retry, busy, task,
  failures, hides

Panel == INSTANCE AuthenticatorPanel WITH faults <- failures

panelVars ==
  <<items, new, page, hidden, shown, expired, request, timer, retry, busy, task,
    failures, hides>>

\* A part that rests has one initial state.
MCInit ==
  /\ part \in {"tabs", "calls", "panel"}
  /\ Init /\ \A c \in Calls : call[c].tab = t1
  /\ Panel!Init
  /\ part # "panel" => items = {}

\* What the two instances of the session leave out never begins.
Unopened(t) == renewal'[t] = renewal[t] /\ user'[t] = user[t]
Unmade(c)   == call'[c] = call[c]

MCNext ==
  /\ UNCHANGED part
  /\ \/ /\ part = "tabs"
        /\ Next /\ (faults' = 0 \/ version' = 1)
        /\ \A c \in Calls \ {c1} : Unmade(c)
        /\ UNCHANGED panelVars
     \/ /\ part = "calls"
        /\ Next /\ version' = 1
        /\ \A t \in Tabs \ {t1} : Unopened(t)
        /\ UNCHANGED panelVars
     \/ part = "panel" /\ Panel!Next /\ UNCHANGED vars

MCSpec ==
  MCInit /\ [][MCNext]_<<part, vars, panelVars>> /\ Fairness /\ Panel!Fairness

\* The authenticators shown catch up with their codes and with the authenticators
\* there are (scheduleNextRefresh of AdminAuthenticators.vue).
CatchesUp == Panel!CatchesUp
=============================================================================
