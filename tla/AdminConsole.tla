---------------------------- MODULE AdminConsole ----------------------------
(***************************************************************************)
(* The administrator's console: its view, the mail list with its filter    *)
(* and pages, and the requests that fill them.                             *)
(*                                                                         *)
(* Requests are answered in any order or fail; the user navigates, filters *)
(* and turns pages meanwhile, and the session may end.  A request belongs  *)
(* to the generation it was sent in; a later load or the end of the        *)
(* session supersedes it.                                                  *)
(***************************************************************************)
EXTENDS Naturals, Sequences

CONSTANTS
  Slots,        \* requests in flight at the same time
  Filters,      \* values of the mail filter (mailListQuery)
  NoFilter,     \* the filter that selects every mail
  Pages,        \* Pages[f]: the pages of 25 mails that f selects
  MaxSessions,  \* bound: sign-ins
  MaxChanges    \* bound: changes of the filter, navigations and page turns

AdminConsoleAssumption ==
  /\ NoFilter \in Filters
  /\ Pages \in [Filters -> Nat \ {0}]
  /\ MaxSessions \in Nat /\ MaxChanges \in Nat

Views == {"overview", "flow", "users"}

\* "No navigation in progress" and "no session".
NoView    == "none"
NoSession == 0

VARIABLES
  signedIn,  \* showAdminPage and not showAdminAuth
  session,   \* history: the number of the current or latest session
  view,      \* ui.view
  pending,   \* pendingView; isNavigating says that there is one
  filter,    \* what ui.query, domain, address and status ask for
  timer,     \* whether mailSearchTimer is set
  page,      \* mailPage
  list,      \* live.mails: its pages, and (history) the sessions they are from
  fetched,   \* live.fetchedAdmin
  users,     \* history: the session live.users was loaded in
  load,      \* slot -> the request in it
  missed,    \* history: the filter changed while the watch was not listening,
             \* or a read failed, and no load of the list has begun since
  changes

vars == <<signedIn, session, view, pending, filter, timer, page, list, fetched,
          users, load, missed, changes>>

Empty == [filter |-> NoFilter, pages |-> <<>>, from |-> {}]

Free == [kind |-> "none", view |-> "overview", filter |-> NoFilter, page |-> 1,
         session |-> NoSession, current |-> FALSE]

Load ==
  [kind    : {"none", "snapshot", "navigate", "reload", "page", "users"},
   view    : Views,
   filter  : Filters,
   page    : Nat,
   session : 0..MaxSessions,  \* the session it was sent in, or NoSession
   current : BOOLEAN]         \* generation === adminLoadGeneration

TypeOK ==
  /\ signedIn \in BOOLEAN
  /\ session \in 0..MaxSessions
  /\ view \in Views
  /\ pending \in Views \cup {NoView}
  /\ filter \in Filters
  /\ timer \in BOOLEAN
  /\ page \in Nat \ {0}
  /\ list \in [filter : Filters, pages : Seq(Nat), from : SUBSET (1..MaxSessions)]
  /\ fetched \in BOOLEAN
  /\ users \in 0..MaxSessions
  /\ load \in [Slots -> Load]
  /\ missed \in BOOLEAN
  /\ changes \in 0..MaxChanges

Init ==
  /\ signedIn = FALSE
  /\ session = NoSession
  /\ view \in Views
  /\ pending = NoView
  /\ filter = NoFilter
  /\ timer = FALSE
  /\ page = 1
  /\ list = Empty
  /\ fetched = FALSE
  /\ users = NoSession
  /\ load = [i \in Slots |-> Free]
  /\ missed = FALSE
  /\ changes = 0

-----------------------------------------------------------------------------
(* Requests.                                                               *)

\* Mutant: a load does not supersede the loads before it.
Superseded_NotByLoads(l, kind) == l

\* A load of the whole list starts a new generation; a page belongs to the
\* current one and refreshUsers to none.
Superseded(l, kind) ==
  IF kind \in {"page", "users"} THEN l ELSE [l EXCEPT !.current = FALSE]

\* A request carries the session of the moment, if there is one.
Request(kind, v, f, p, s) ==
  \E i \in Slots :
    /\ load[i] = Free
    /\ load' = [j \in Slots |->
         IF j = i
         THEN [kind |-> kind, view |-> v, filter |-> f, page |-> p,
               session |-> s, current |-> TRUE]
         ELSE Superseded(load[j], kind)]

Drop == load' = [i \in Slots |-> [load[i] EXCEPT !.current = FALSE]]

\* fetchAdminData of a view; only the flow view asks for the filter.
ListFilter(v) == IF v = "flow" THEN filter ELSE NoFilter

Snapshot(v, s) == Request("snapshot", v, ListFilter(v), 1, s)

-----------------------------------------------------------------------------
(* The session.                                                            *)

SignIn ==
  /\ ~signedIn
  /\ session < MaxSessions
  /\ signedIn' = TRUE
  /\ session' = session + 1
  /\ Snapshot(view, session + 1)
  /\ missed' = FALSE
  /\ UNCHANGED <<view, pending, filter, timer, page, list, fetched, users,
                 changes>>

\* Sign-out, or a denial that ends the session (clearAdminSessionState).
SignOut ==
  /\ signedIn
  /\ signedIn' = FALSE
  /\ Drop
  /\ list' = Empty
  /\ page' = 1
  /\ fetched' = FALSE
  /\ users' = NoSession
  /\ UNCHANGED <<session, view, pending, filter, timer, missed, changes>>

-----------------------------------------------------------------------------
(* The user.                                                               *)

Change ==
  /\ signedIn
  /\ changes < MaxChanges
  /\ changes' = changes + 1

Refresh ==
  /\ Change
  /\ Snapshot(view, session)
  /\ missed' = FALSE
  /\ UNCHANGED <<signedIn, session, view, pending, filter, timer, page, list,
                 fetched, users>>

SetView(v) ==
  /\ Change
  /\ v # view
  /\ pending' = v
  /\ Request("navigate", v, ListFilter(v), 1, session)
  /\ UNCHANGED <<signedIn, session, view, filter, timer, page, list, fetched,
                 users, missed>>

\* The watch of the filter: it does not listen during a navigation, outside
\* the flow view or before the first load.
Listens == pending = NoView /\ view = "flow" /\ fetched

SetFilter(f) ==
  /\ Change
  /\ f # filter
  /\ filter' = f
  /\ page' = 1
  /\ timer' = Listens
  /\ missed' = (missed \/ ~Listens)
  /\ UNCHANGED <<signedIn, session, view, pending, list, fetched, users, load>>

\* openMailFromAddress and openMailFromDomain go to the flow view without
\* setView: the watch of the view refreshes, the watch of the filter listens
\* there already.
OpenMailFrom(f) ==
  /\ Change
  /\ view # "flow" /\ f # filter
  /\ view' = "flow"
  /\ filter' = f
  /\ page' = 1
  /\ IF pending = NoView /\ fetched
     THEN /\ timer' = TRUE
          /\ Request("snapshot", "flow", f, 1, session)
          /\ missed' = FALSE
     ELSE /\ timer' = FALSE
          /\ missed' = TRUE
          /\ UNCHANGED load
  /\ UNCHANGED <<signedIn, session, pending, list, fetched, users>>

\* setMailPage, within the pages the last list had.
SetPage(p) ==
  /\ Change
  /\ view = "flow"
  /\ list.pages # <<>>
  /\ p \in {page - 1, page + 1} \cap 1..Pages[list.filter]
  /\ page' = p
  /\ Request("page", view, filter, p, session)
  /\ UNCHANGED <<signedIn, session, view, pending, filter, timer, list,
                 fetched, users, missed>>

\* Every action on a user ends with refreshUsers.
RefreshUsers ==
  /\ Change
  /\ Request("users", view, NoFilter, 1, session)
  /\ UNCHANGED <<signedIn, session, view, pending, filter, timer, page, list,
                 fetched, users, missed>>

\* mailSearchTimer: reloadMailList.  The end of the session does not stop it.
TimerFires ==
  /\ timer
  /\ timer' = FALSE
  /\ Request("reload", view, filter, 1,
             IF signedIn THEN session ELSE NoSession)
  /\ missed' = FALSE
  /\ UNCHANGED <<signedIn, session, view, pending, filter, page, list, fetched, users, changes>>

-----------------------------------------------------------------------------
(* Answers.                                                                *)

Taken(i) == load' = [load EXCEPT ![i] = Free]

FirstPage(l) == [filter |-> l.filter, pages |-> <<1>>, from |-> {l.session}]

\* Only these views read mails.
Shown(l) == IF l.view = "users" THEN list ELSE FirstPage(l)

InList(p) == \E n \in DOMAIN list.pages : list.pages[n] = p

Appended(l) ==
  IF InList(l.page) THEN list ELSE [list EXCEPT !.pages = Append(@, l.page), !.from = @ \cup {l.session}]

ApplySnapshot(i) ==
  /\ list' = Shown(load[i])
  /\ fetched' = TRUE
  /\ users' = IF load[i].view = "users" THEN load[i].session ELSE users
  /\ IF load[i].kind = "navigate"
     THEN /\ view' = load[i].view
          /\ pending' = NoView
          /\ missed' = (missed \/ filter # ListFilter(load[i].view))
     ELSE UNCHANGED <<view, pending, missed>>

\* The watch of totalMailPages; an empty list has one.
Clamped ==
  page' = IF list'.pages = <<>> \/ page > Pages[list'.filter]
          THEN IF list'.pages = <<>> THEN 1 ELSE Pages[list'.filter]
          ELSE page

\* Mutant: a page is appended whatever its generation.
Guarded_Users(i) == load[i].current \/ load[i].kind \in {"users", "page"}

\* The answer is used when its generation is the current one; the list of
\* users has no generation.
Guarded(i) == load[i].current \/ load[i].kind = "users"

Answer(i) ==
  /\ load[i].kind # "none"
  /\ load[i].session # NoSession
  /\ Taken(i)
  /\ IF ~Guarded(i) THEN UNCHANGED <<view, pending, list, fetched, users, missed>>
     ELSE CASE load[i].kind \in {"snapshot", "navigate"} -> ApplySnapshot(i)
            [] load[i].kind = "reload" ->
                 /\ list' = FirstPage(load[i])
                 /\ UNCHANGED <<view, pending, fetched, users, missed>>
            [] load[i].kind = "page" ->
                 /\ list' = Appended(load[i])
                 /\ UNCHANGED <<view, pending, fetched, users, missed>>
            [] load[i].kind = "users" ->
                 /\ users' = load[i].session
                 /\ UNCHANGED <<view, pending, list, fetched, missed>>
  /\ Clamped
  /\ UNCHANGED <<signedIn, session, filter, timer, changes>>

\* A failed read leaves its part of a snapshot empty; the other requests
\* change nothing when they fail.  Nobody answers a request without session.
Fails(i) ==
  /\ load[i].kind # "none"
  /\ Taken(i)
  /\ missed' = (missed \/ load[i].current)
  /\ IF load[i].kind \in {"snapshot", "navigate"} /\ load[i].current
     THEN /\ IF load[i].view = "users"
             THEN users' = NoSession /\ UNCHANGED list
             ELSE list' = [Empty EXCEPT !.filter = load[i].filter] /\ UNCHANGED users
          /\ fetched' = TRUE
          /\ IF load[i].kind = "navigate"
             THEN view' = load[i].view /\ pending' = NoView
             ELSE UNCHANGED <<view, pending>>
     ELSE UNCHANGED <<view, pending, list, fetched, users>>
  /\ Clamped
  /\ UNCHANGED <<signedIn, session, filter, timer, changes>>

-----------------------------------------------------------------------------
Next ==
  \/ SignIn \/ SignOut \/ Refresh \/ RefreshUsers \/ TimerFires
  \/ \E v \in Views : SetView(v)
  \/ \E f \in Filters : SetFilter(f) \/ OpenMailFrom(f)
  \/ \E p \in 1..(page + 1) : SetPage(p)
  \/ \E i \in Slots : Answer(i) \/ Fails(i)

Spec == Init /\ [][Next]_vars

-----------------------------------------------------------------------------
(* Properties.                                                             *)

\* The mail list never holds mails of another session: a request that was in
\* flight at sign-out does not fill it, nor after the next sign-in
\* (adminLoadGeneration of AdminNext.vue).
ListOfSession ==
  list.from \subseteq (IF signedIn THEN {session} ELSE {})

\* When no load of the flow view is under way, its list is the one the filter
\* asks for, except after a change of the filter the watch did not listen to
\* and after a failed read.
Settled ==
  /\ signedIn /\ fetched /\ view = "flow" /\ pending = NoView /\ ~timer
  /\ \A i \in Slots : ~load[i].current

ListMatchesFilter == Settled /\ ~missed => list.filter = filter
=============================================================================
