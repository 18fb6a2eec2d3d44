----------------------------- MODULE AuthLimits -----------------------------
(***************************************************************************)
(* The limit of authentication attempts (worker/src/auth_rate_limit.ts): a *)
(* login counts in the window of its IP address and then in that of its    *)
(* account, one statement each.  Windows are fixed: the first attempt      *)
(* after the end of one opens the next.                                    *)
(*                                                                         *)
(* Time is in ticks; it passes between any two statements.                 *)
(***************************************************************************)
EXTENDS Integers, FiniteSets

CONSTANTS
  Logins,    \* requests, each made once
  Ips,
  Accounts,  \* what identifies an account, with the path
  None,      \* "there is no row", "not yet", "nobody"
  Limit,     \* attempts in one window
  Window,    \* ticks of a window
  Keep,      \* ticks without an attempt before the row is purged
  MaxTime    \* bound: ticks

Kinds    == {"ip", "account"}
RateKeys == ({"ip"} \X Ips) \cup ({"account"} \X Accounts)
Times    == 0..MaxTime
RateRow  == [attempts : Nat, started : Times, updated : Times]

AuthLimitsAssumption ==
  /\ IsFiniteSet(Logins)
  /\ Limit \in Nat \ {0} /\ Window \in Nat \ {0}
  /\ Keep \in Nat /\ Keep >= Window
  /\ MaxTime \in Nat /\ MaxTime >= Window
  /\ None \notin Int \cup Kinds \cup RateKeys \cup RateRow

VARIABLES
  now,
  rows,   \* auth_rate_limits
  login

vars == <<now, rows, login>>

TypeOK ==
  /\ now \in Times
  /\ rows \in [RateKeys -> RateRow \cup {None}]
  /\ login \in [Logins ->
       [pc : {"idle", "account", "passed", "refused", "failed"},
        keys    : [Kinds -> RateKeys \cup {None}],
        counted : [Kinds -> Times \cup {None}], \* history: when it did
        by      : Kinds \cup {None}]]             \* which key has refused it

Idle == [pc |-> "idle", by |-> None,
         keys    |-> [kind \in Kinds |-> None],
         counted |-> [kind \in Kinds |-> None]]

\* A key is new, or was refused a while ago.
Init ==
  /\ now = Window
  /\ rows \in [RateKeys -> {None, [attempts |-> Limit + 1, started |-> 0, updated |-> 0]}]
  /\ login = [r \in Logins |-> Idle]

Become(r, x) == login' = [login EXCEPT ![r] = x]

-----------------------------------------------------------------------------
Tick ==
  /\ now < MaxTime
  /\ now' = now + 1
  /\ UNCHANGED <<rows, login>>

\* scheduled() deletes the rows that nobody has used for a day.
Purge ==
  /\ rows' = [k \in RateKeys |->
       IF rows[k] # None /\ rows[k].updated < now - Keep THEN None ELSE rows[k]]
  /\ UNCHANGED <<now, login>>

\* Mutant: an ended window goes on from the time it was opened.
Upserted_SameStart(row) ==
  IF row = None
  THEN [attempts |-> 1, started |-> now, updated |-> now]
  ELSE LET ended == row.started <= now - Window IN
       [attempts |-> IF ended THEN 1 ELSE row.attempts + 1,
        started  |-> row.started,
        updated  |-> now]

\* Mutant: a window ends when nobody has tried for so long.
Upserted_Sliding(row) ==
  IF row = None
  THEN [attempts |-> 1, started |-> now, updated |-> now]
  ELSE LET ended == row.updated <= now - Window IN
       [attempts |-> IF ended THEN 1 ELSE row.attempts + 1,
        started  |-> IF ended THEN now ELSE row.started,
        updated  |-> now]

\* The row after one more attempt.
Upserted(row) ==
  IF row = None
  THEN [attempts |-> 1, started |-> now, updated |-> now]
  ELSE LET ended == row.started <= now - Window IN
       [attempts |-> IF ended THEN 1 ELSE row.attempts + 1,
        started  |-> IF ended THEN now ELSE row.started,
        updated  |-> now]

After == [ip |-> "account", account |-> "passed"]

\* consumeAuthRateLimit of one key, for the login r that has come as far as x.
Consume(r, x, kind) ==
  LET k   == x.keys[kind]
      row == Upserted(rows[k])
      y   == [x EXCEPT !.counted[kind] = now]
  IN
  /\ rows' = [rows EXCEPT ![k] = row]
  /\ \/ row.attempts <= Limit /\ Become(r, [y EXCEPT !.pc = After[kind]])
     \/ row.attempts > Limit /\ Become(r, [y EXCEPT !.pc = "refused", !.by = kind])
     \/ Become(r, [y EXCEPT !.pc = "failed"])   \* the answer of the database is lost
  /\ UNCHANGED now

\* enforceAuthRateLimit derives the keys from the request and counts the address.
CountIp(r, i, a) ==
  /\ login[r].pc = "idle"
  /\ Consume(r, [Idle EXCEPT !.keys = [ip |-> <<"ip", i>>, account |-> <<"account", a>>]],
             "ip")

\* A refusal by the address spares the account.
CountAccount(r) ==
  /\ login[r].pc = "account"
  /\ Consume(r, login[r], "account")

\* The statement fails, or the runtime ends the invocation.
Abandon(r) ==
  /\ login[r].pc = "account"
  /\ Become(r, [login[r] EXCEPT !.pc = "failed"])
  /\ UNCHANGED <<now, rows>>

Next ==
  \/ Tick
  \/ Purge
  \/ \E r \in Logins :
       \/ \E i \in Ips, a \in Accounts : CountIp(r, i, a)
       \/ CountAccount(r)
       \/ Abandon(r)

Spec == Init /\ [][Next]_vars

-----------------------------------------------------------------------------
(* Properties.                                                             *)

\* The requests that counted for k in the window that ends at t.
Attempts(k, t) ==
  {r \in Logins : \E kind \in Kinds :
     /\ login[r].keys[kind] = k
     /\ login[r].counted[kind] \in (t - Window + 1)..t}

\* Fixed windows let a key pass more often than the limit around the end of one, but
\* never twice as often in any stretch of that length: the attempt that opened the
\* first window is not in it any more when the second one opens.
WindowBound ==
  \A k \in RateKeys, t \in Times :
    Cardinality({r \in Attempts(k, t) : login[r].pc = "passed"}) < 2 * Limit

\* A refusal is earned by what happened within the last window, so who waits as long
\* as Retry-After says is not refused for what came before.
RefusedForRecent ==
  \A r \in Logins : login[r].pc = "refused" =>
    LET kind == login[r].by IN
    Cardinality(Attempts(login[r].keys[kind], login[r].counted[kind])) > Limit
=============================================================================
