---------------------------- MODULE AdminSession ----------------------------
(***************************************************************************)
(* The administrator's browser session: one browser with several tabs, and *)
(* the worker that keeps the sessions.                                     *)
(*                                                                         *)
(* A login inserts a row and sets a cookie the tabs share; each tab holds  *)
(* a token of one hour that names the row.  A request denied with 401      *)
(* renews the tab's token from the cookie, once, and is sent again.        *)
(* Statements of concurrent requests interleave, answers arrive in any     *)
(* order, and any request may fail at any point.                           *)
(***************************************************************************)
EXTENDS Integers, FiniteSets

CONSTANTS
  Tabs,         \* tabs of the browser
  Calls,        \* requests to /api/admin; each is made once
  MaxSessions,  \* bound: logins that succeed
  MaxLogouts,   \* bound: sign-outs begun
  MaxVersions,  \* bound: administrator configurations
  MaxFaults     \* bound: requests that fail

ASSUME AdminSessionAssumption ==
  /\ IsFiniteSet(Tabs) /\ IsFiniteSet(Calls)
  /\ {MaxSessions, MaxLogouts, MaxFaults} \subseteq Nat
  /\ MaxVersions \in Nat \ {0}

Sessions == 1..MaxSessions
Versions == 1..MaxVersions

\* A tab renews when it opens and a request at most once.
MaxTokens == MaxSessions + Cardinality(Tabs) + Cardinality(Calls)
Tokens    == 1..MaxTokens

\* "No row", "no cookie", "no token" and "no session".
None == 0

VARIABLES
  rows,     \* admin_browser_sessions: session -> credential_version, or None
            \* when there is no row or it has expired
  opened,   \* sessions created so far
  issued,   \* tokens issued so far
  session,  \* token -> the browser_session_id it names
  old,      \* tokens whose hour is over
  version,  \* the administrator passwords, user names and secret in force
  cookie,   \* the browser's session cookie
  tab,      \* tab -> what its page holds
  renewal,  \* tab -> its renewal in flight (adminRefreshPromise)
  user,     \* tab -> its login or sign-out in flight
  call,     \* request -> how far it has come
  held,     \* history: the session of the last login, until something that
            \* is documented to end it has begun
  faults, logouts

server == <<rows, opened, issued, session>>
vars == <<rows, opened, issued, session, old, version, cookie, tab, renewal,
          user, call, held, faults, logouts>>

Tab ==
  [auth      : Tokens \cup {None},  \* adminAuth
   show      : BOOLEAN,             \* showAdminAuth
   closing   : BOOLEAN,             \* adminSessionClosing
   restoring : BOOLEAN,             \* restoringAdminSession
   out       : BOOLEAN]             \* history: signed out, and no login or
                                    \* renewal has begun since

Renewal ==
  [pc     : {"idle", "select", "update", "ok", "denied", "failed"},
   same   : BOOLEAN,                \* generation === adminSessionGeneration
   cookie : Sessions \cup {None},
   token  : Tokens \cup {None}]

User ==
  [pc      : {"idle", "revoke", "insert", "delete", "ok", "failed"},
   kind    : {"login", "logout"},
   cookie  : Sessions \cup {None},  \* the cookie it was sent with
   version : Versions,
   token   : Tokens \cup {None}]

Call ==
  [pc      : {"idle", "begin", "verify", "ok", "denied", "waiting", "done"},
   tab     : Tabs,
   header  : Tokens \cup {None},    \* x-admin-auth
   retried : BOOLEAN,               \* adminSessionRetried
   ran     : 0..2]                  \* history: how often its handler ran

TypeOK ==
  /\ rows \in [Sessions -> Versions \cup {None}]
  /\ opened \in 0..MaxSessions
  /\ issued \in 0..MaxTokens
  /\ session \in [Tokens -> Sessions \cup {None}]
  /\ old \subseteq Tokens
  /\ version \in Versions
  /\ cookie \in Sessions \cup {None}
  /\ tab \in [Tabs -> Tab]
  /\ renewal \in [Tabs -> Renewal]
  /\ user \in [Tabs -> User]
  /\ call \in [Calls -> Call]
  /\ held \in Sessions \cup {None}
  /\ faults \in 0..MaxFaults
  /\ logouts \in 0..MaxLogouts

Idle == [pc |-> "idle", kind |-> "login", cookie |-> None, version |-> 1,
         token |-> None]

NoRenewal == [pc |-> "idle", same |-> TRUE, cookie |-> None, token |-> None]

Init ==
  /\ rows = [s \in Sessions |-> None]
  /\ opened = 0
  /\ issued = 0
  /\ session = [k \in Tokens |-> None]
  /\ old = {}
  /\ version = 1
  /\ cookie = None
  /\ tab = [t \in Tabs |-> [auth |-> None, show |-> FALSE, closing |-> FALSE,
                            restoring |-> TRUE, out |-> FALSE]]
  /\ renewal = [t \in Tabs |-> NoRenewal]
  /\ user = [t \in Tabs |-> Idle]
  /\ call \in [Calls -> [pc : {"idle"}, tab : Tabs, header : {None},
                         retried : {FALSE}, ran : {0}]]
  /\ held = None
  /\ faults = 0
  /\ logouts = 0

Gone == {s \in Sessions : s <= opened /\ rows[s] = None}

-----------------------------------------------------------------------------
(* The worker's statements.                                                *)

\* A session is usable when its row exists under the configuration in force.
Usable(s) == s # None /\ rows[s] = version

\* The row of session s after readAdminBrowserSession: one of another
\* configuration is deleted.
AfterRead(s) ==
  [x \in Sessions |-> IF x = s /\ rows[x] # version THEN None ELSE rows[x]]

Without(s) == [x \in Sessions |-> IF x = s THEN None ELSE rows[x]]

IssueToken(s) ==
  /\ issued' = issued + 1
  /\ session' = [session EXCEPT ![issued + 1] = s]

RenewSelect(t) ==
  /\ renewal[t].pc = "select"
  /\ LET s == renewal[t].cookie IN
       /\ renewal' = [renewal EXCEPT
            ![t].pc = IF Usable(s) THEN "update" ELSE "denied"]
       /\ rows' = AfterRead(s)
  /\ UNCHANGED <<opened, issued, session, old, version, cookie, tab, user,
                 call, held, faults, logouts>>

\* The UPDATE changes nothing when a concurrent sign-out deleted the row.
RenewUpdate_Upsert(t) ==
  /\ renewal[t].pc = "update"
  /\ LET s == renewal[t].cookie IN
       /\ rows' = [rows EXCEPT ![s] = version]
       /\ IssueToken(s)
       /\ renewal' = [renewal EXCEPT ![t].pc = "ok", ![t].token = issued + 1]
  /\ UNCHANGED <<opened, old, version, cookie, tab, user, call, held, faults,
                 logouts>>

RenewUpdate(t) ==
  /\ renewal[t].pc = "update"
  /\ LET s == renewal[t].cookie IN
       IF rows[s] = None
       THEN /\ renewal' = [renewal EXCEPT ![t].pc = "denied"]
            /\ UNCHANGED <<issued, session>>
       ELSE /\ IssueToken(s)
            /\ renewal' = [renewal EXCEPT ![t].pc = "ok", ![t].token = issued + 1]
  /\ UNCHANGED <<rows, opened, old, version, cookie, tab, user, call, held,
                 faults, logouts>>

\* createAdminBrowserSession revokes the session of the cookie it was sent.
LoginRevoke(t) ==
  /\ user[t].pc = "revoke"
  /\ rows' = Without(user[t].cookie)
  /\ user' = [user EXCEPT ![t].pc = "insert"]
  /\ UNCHANGED <<opened, issued, session, old, version, cookie, tab, renewal,
                 call, held, faults, logouts>>

LoginInsert(t) ==
  /\ user[t].pc = "insert"
  /\ opened' = opened + 1
  /\ rows' = [rows EXCEPT ![opened + 1] = user[t].version]
  /\ IssueToken(opened + 1)
  /\ user' = [user EXCEPT ![t].pc = "ok", ![t].token = issued + 1]
  /\ UNCHANGED <<old, version, cookie, tab, renewal, call, held, faults,
                 logouts>>

LogoutDelete(t) ==
  /\ user[t].pc = "delete"
  /\ rows' = Without(user[t].cookie)
  /\ user' = [user EXCEPT ![t].pc = "ok"]
  /\ UNCHANGED <<opened, issued, session, old, version, cookie, tab, renewal,
                 call, held, faults, logouts>>

\* verifyAdminSession and, when it grants, the handler of the request.
Verify(c) ==
  /\ call[c].pc = "verify"
  /\ LET k == call[c].header
         s == IF k \in Tokens \ old THEN session[k] ELSE None
     IN /\ rows' = AfterRead(s)
        /\ call' = [call EXCEPT
             ![c].pc  = IF Usable(s) THEN "ok" ELSE "denied",
             ![c].ran = IF Usable(s) THEN @ + 1 ELSE @]
  /\ UNCHANGED <<opened, issued, session, old, version, cookie, tab, renewal,
                 user, held, faults, logouts>>

-----------------------------------------------------------------------------
(* The tabs.                                                               *)

NeedsLogin(t) == ~tab[t].restoring /\ (tab[t].auth = None \/ tab[t].show)

\* refreshAdminSession: one renewal per tab; a tab that signs out refuses.
Renewing(t) ==
  IF renewal[t].pc # "idle" THEN renewal
  ELSE [renewal EXCEPT ![t] = [NoRenewal EXCEPT !.pc = "select",
                                                !.cookie = cookie]]

\* initializeAdminSession of a tab without a token.
Restore(t) ==
  /\ tab[t].restoring
  /\ renewal[t].pc = "idle"
  /\ renewal' = Renewing(t)
  /\ UNCHANGED <<server, old, version, cookie, tab, user, call, held, faults,
                 logouts>>

\* A login or a sign-out changes the generation of the tab's session.
Superseded(t) == [renewal EXCEPT ![t].same = @ /\ renewal[t].pc = "idle"]

Begin(t, kind, pc) ==
  /\ user[t].pc = "idle"
  /\ ~tab[t].restoring
  /\ user' = [user EXCEPT ![t] = [pc |-> pc, kind |-> kind, cookie |-> cookie,
                                  version |-> version, token |-> None]]
  /\ renewal' = Superseded(t)
  /\ held' = None
  /\ UNCHANGED <<server, old, version, cookie, call, faults>>

LoggingIn == {t \in Tabs : user[t].pc \in {"revoke", "insert"}}

Login(t) ==
  /\ NeedsLogin(t)
  /\ opened + Cardinality(LoggingIn) < MaxSessions
  /\ Begin(t, "login", "revoke")
  /\ tab' = [tab EXCEPT ![t].out = FALSE]
  /\ UNCHANGED logouts

Logout(t) ==
  /\ logouts < MaxLogouts
  /\ logouts' = logouts + 1
  /\ Begin(t, "logout", "delete")
  /\ tab' = [tab EXCEPT ![t].closing = TRUE]

\* The answer to a login or a sign-out reaches the browser and its tab.
Answered(t) ==
  /\ user[t].pc \in {"ok", "failed"}
  /\ LET ok == user[t].pc = "ok"
         k  == user[t].token
     IN CASE ok /\ user[t].kind = "login" ->
               /\ cookie' = session[k]
               /\ tab' = [tab EXCEPT ![t].auth = k, ![t].show = FALSE,
                                     ![t].out = FALSE]
               /\ held' = IF rows[session[k]] = version
                             /\ \A u \in Tabs \ {t} : user[u].pc = "idle"
                          THEN session[k] ELSE None
          [] ok /\ user[t].kind = "logout" ->
               /\ cookie' = None
               /\ tab' = [tab EXCEPT ![t].auth = None, ![t].show = TRUE,
                                     ![t].closing = FALSE, ![t].out = TRUE]
               /\ UNCHANGED held
          [] OTHER ->
               /\ tab' = [tab EXCEPT ![t].closing = FALSE]
               /\ UNCHANGED <<cookie, held>>
  /\ user' = [user EXCEPT ![t] = Idle]
  /\ UNCHANGED <<server, old, version, renewal, call, faults, logouts>>

\* Mutant: a renewal is accepted whatever the tab has done since.
Accepted_AnyGeneration(t) == renewal[t].pc = "ok"

Accepted(t) == renewal[t].pc = "ok" /\ renewal[t].same

\* Mutant: of the requests that wait, the renewal lets go of one.
WaitingIn_OneOf(t) ==
  LET waiting == {c \in Calls : call[c].pc = "waiting" /\ call[c].tab = t}
  IN IF waiting = {} THEN {} ELSE {CHOOSE c \in waiting : TRUE}

WaitingIn(t) == {c \in Calls : call[c].pc = "waiting" /\ call[c].tab = t}

\* The renewal is answered: the browser stores or drops the cookie, then the
\* page and every request that waits for the renewal go on.
RenewSettles(t) ==
  /\ renewal[t].pc \in {"ok", "denied", "failed"}
  /\ cookie' = CASE renewal[t].pc = "ok"     -> renewal[t].cookie
                 [] renewal[t].pc = "denied" -> None
                 [] OTHER                    -> cookie
  /\ tab' = [tab EXCEPT ![t] =
       CASE Accepted(t) ->
              [@ EXCEPT !.auth = renewal[t].token, !.show = FALSE,
                        !.restoring = FALSE]
         [] renewal[t].pc = "denied" /\ WaitingIn(t) # {} ->
              [@ EXCEPT !.auth = None, !.show = TRUE, !.restoring = FALSE]
         [] OTHER -> [@ EXCEPT !.restoring = FALSE]]
  /\ call' = [c \in Calls |->
       IF c \notin WaitingIn(t) THEN call[c]
       ELSE IF Accepted(t) THEN [call[c] EXCEPT !.pc = "begin", !.retried = TRUE]
       ELSE [call[c] EXCEPT !.pc = "done"]]
  /\ renewal' = [renewal EXCEPT ![t] = NoRenewal]
  /\ UNCHANGED <<server, old, version, user, held, faults, logouts>>

Start(c) ==
  /\ call[c].pc = "idle"
  /\ tab[call[c].tab].auth # None
  /\ call' = [call EXCEPT ![c].pc = "begin"]
  /\ UNCHANGED <<server, old, version, cookie, tab, renewal, user, held,
                 faults, logouts>>

\* The headers are read after the fingerprint has been awaited.
Send(c) ==
  /\ call[c].pc = "begin"
  /\ call' = [call EXCEPT ![c].pc = "verify", ![c].header = tab[call[c].tab].auth]
  /\ UNCHANGED <<server, old, version, cookie, tab, renewal, user, held,
                 faults, logouts>>

Succeeds(c) ==
  /\ call[c].pc = "ok"
  /\ call' = [call EXCEPT ![c].pc = "done"]
  /\ UNCHANGED <<server, old, version, cookie, tab, renewal, user, held,
                 faults, logouts>>

\* The first denial renews the token the request was sent with, unless the
\* tab has another one by now; the second one signs the tab out.
Denied(c) ==
  /\ call[c].pc = "denied"
  /\ LET t == call[c].tab IN
       CASE call[c].retried ->
              /\ call' = [call EXCEPT ![c].pc = "done"]
              /\ tab' = [tab EXCEPT ![t].auth = None, ![t].show = TRUE]
              /\ UNCHANGED renewal
         [] ~call[c].retried /\ tab[t].auth \notin {None, call[c].header} ->
              /\ call' = [call EXCEPT ![c].pc = "begin", ![c].retried = TRUE]
              /\ UNCHANGED <<tab, renewal>>
         [] OTHER ->
              IF tab[t].closing
              THEN /\ call' = [call EXCEPT ![c].pc = "done"]
                   /\ UNCHANGED <<tab, renewal>>
              ELSE /\ call' = [call EXCEPT ![c].pc = "waiting"]
                   /\ renewal' = Renewing(t)
                   /\ tab' = [tab EXCEPT ![t].out =
                                @ /\ renewal[t].pc # "idle"]
  /\ UNCHANGED <<server, old, version, cookie, user, held, faults, logouts>>

-----------------------------------------------------------------------------
(* Time, configuration and failures.                                       *)

\* A session is not renewed for 90 days.
SessionExpires(s) ==
  /\ rows[s] # None
  /\ \A t \in Tabs : renewal[t].pc = "ok" => renewal[t].cookie # s
  /\ rows' = Without(s)
  /\ held' = IF held = s THEN None ELSE held
  /\ UNCHANGED <<opened, issued, session, old, version, cookie, tab, renewal,
                 user, call, faults, logouts>>

\* (Only a token that a tab still holds makes a difference.)
TokenExpires(k) ==
  /\ \E t \in Tabs : tab[t].auth = k
  /\ k \notin old
  /\ old' = old \cup {k}
  /\ UNCHANGED <<server, version, cookie, tab, renewal, user, call, held,
                 faults, logouts>>

Reconfigure ==
  /\ version < MaxVersions
  /\ version' = version + 1
  /\ held' = None
  /\ UNCHANGED <<server, old, cookie, tab, renewal, user, call, faults,
                 logouts>>

\* A failure other than a denial is not retried.
Lost(c) == [call EXCEPT ![c].pc = "done"]

\* An error while verifyAdminSession reads the session is answered with 401.
Unread(c) == [call EXCEPT ![c].pc = "denied"]

\* A request fails: the worker refuses it or breaks off between two
\* statements, or its answer is lost or later than the timeout.
Fault ==
  /\ faults < MaxFaults
  /\ faults' = faults + 1
  /\ \/ \E t \in Tabs :
          /\ renewal[t].pc \notin {"idle", "failed"}
          /\ renewal' = [renewal EXCEPT ![t].pc = "failed"]
          /\ UNCHANGED <<user, call>>
     \/ \E t \in Tabs :
          /\ user[t].pc \notin {"idle", "failed"}
          /\ user' = [user EXCEPT ![t].pc = "failed"]
          /\ UNCHANGED <<renewal, call>>
     \/ \E c \in Calls :
          /\ call[c].pc \in {"verify", "ok", "denied"}
          /\ \/ call' = Lost(c)
             \/ call[c].pc = "verify" /\ call' = Unread(c)
          /\ UNCHANGED <<renewal, user>>
  /\ UNCHANGED <<server, old, version, cookie, tab, held, logouts>>

-----------------------------------------------------------------------------
Next ==
  \/ \E t \in Tabs :
       \/ Restore(t) \/ RenewSelect(t) \/ RenewUpdate(t) \/ RenewSettles(t)
       \/ Login(t) \/ LoginRevoke(t) \/ LoginInsert(t)
       \/ Logout(t) \/ LogoutDelete(t) \/ Answered(t)
  \/ \E c \in Calls :
       Start(c) \/ Send(c) \/ Verify(c) \/ Succeeds(c) \/ Denied(c)
  \/ \E s \in Sessions : SessionExpires(s)
  \/ \E k \in Tokens : TokenExpires(k)
  \/ Reconfigure
  \/ Fault

\* A request that was sent is answered, or fails at the timeout.
Fairness ==
  /\ \A t \in Tabs : WF_vars(RenewSelect(t) \/ RenewUpdate(t) \/ RenewSettles(t))
  /\ \A c \in Calls : WF_vars(Send(c) \/ Verify(c) \/ Succeeds(c) \/ Denied(c))

Spec == Init /\ [][Next]_vars

FairSpec == Spec /\ Fairness

-----------------------------------------------------------------------------
(* Properties.                                                             *)

\* After a sign-out has completed in a tab, the tab holds no token until a
\* login or a renewal begins in it: a renewal that was in flight does not
\* sign it in again (generation and adminSessionClosing of api/index.js).
LogoutHolds == \A t \in Tabs : tab[t].out => tab[t].auth = None

\* Every request of a tab ends, whoever else waits for its renewal, signs out
\* or in, and whatever fails: the retry is bounded (adminSessionRetried).
Settled == \A c \in Calls : call[c].pc = "begin" ~> call[c].pc = "done"

\* The worker's rows and grants are those of a store of revocable sessions.
Store == INSTANCE RevocableSessions WITH
  Requests <- Calls,
  live     <- {s \in Sessions : rows[s] # None},
  ended    <- Gone,
  granted  <- {<<c, session[call[c].header]>> : c \in {d \in Calls : call[d].ran > 0}}

StoreSpec == Store!Spec

\* "Normal continued use keeps the session active" (docs/admin-sessions.md:20):
\* from a login on, the browser keeps the cookie of the session until a
\* sign-out, another login, a change of configuration or 90 days.
SessionLasts == held # None => cookie = held
=============================================================================
