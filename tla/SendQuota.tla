----------------------------- MODULE SendQuota -----------------------------
(***************************************************************************)
(* Outgoing mail: the daily and monthly counters of the server and the     *)
(* send balance of each address.                                           *)
(*                                                                         *)
(* sendMail reserves the counters, then one unit of the balance, then      *)
(* calls the provider; when something fails it gives back what it holds,   *)
(* latest first.  A reservation is one conditional UPDATE; requests, the   *)
(* administrator's updates and the change of date interleave between any   *)
(* two statements, and every statement may fail, with or without having    *)
(* been executed.                                                          *)
(***************************************************************************)
EXTENDS Integers, FiniteSets

CONSTANTS
  Addresses,       \* sender addresses
  Requests,        \* invocations of sendMail; each runs once
  MaxDay,          \* bound: the days of the instance are 1..MaxDay
  MonthOf,         \* MonthOf[d]: the month of day d
  Configs,         \* values of the send_mail_limit_config setting
  DefaultBalance,  \* DEFAULT_SEND_BALANCE
  Balances,        \* balances the administrator sets
  MaxAdminOps      \* bound: how often the administrator acts

Days  == 1..MaxDay
Kinds == {"daily", "monthly"}

\* The limit of a kind that is switched off, and of one that is unlimited.
Off       == -2
Unlimited == -1

\* "There is no row."
Missing == -1

Config == [Kinds -> {Off, Unlimited} \cup Nat]

\* What the constants of an instance satisfy.
SendQuotaAssumption ==
  /\ IsFiniteSet(Requests)
  /\ MaxDay \in Nat \ {0}
  /\ MonthOf \in [Days -> Nat]
  /\ \A d, e \in Days : d <= e => MonthOf[d] <= MonthOf[e]
  /\ Configs \subseteq Config
  /\ Configs # {}
  /\ DefaultBalance \in Nat
  /\ Balances \subseteq Nat
  /\ MaxAdminOps \in Nat

\* The settings keys of the counters, of the dates of the instance.
KeyOf(kind, d) == <<kind, IF kind = "daily" THEN d ELSE MonthOf[d]>>
Key == {KeyOf(kind, d) : kind \in Kinds, d \in Days}

\* cleanupSendMailLimitCount on day d deletes the key k.
Older(k, d) == k[2] < KeyOf(k[1], d)[2]

VARIABLES
  today,      \* the current UTC date
  config,     \* the limit setting in force
  counter,    \* key -> count, or Missing
  balance,    \* address_sender.balance, or Missing when there is no row
  enabled,    \* address_sender.enabled
  request,    \* the local state of each sendMail
  granted,    \* history: the units each address was given in all
  adminOps    \* bound: the administrator's actions so far

vars == <<today, config, counter, balance, enabled, request, granted, adminOps>>

Request ==
  [pc : {"idle", "config", "init", "take", "clean", "balance", "deliver",
         "refund", "release", "sent", "failed", "dead"},
   address : Addresses,
   pays : BOOLEAN,           \* the balance is checked for this sender and recipient
   limits : Configs,         \* the configuration this request has read
   day : Days,               \* the date its keys were built from
   kind : Kinds,             \* the counter it is reserving
   held : SUBSET Kinds,      \* the counters it has reserved and not released
   paid : BOOLEAN,           \* it holds one unit of the balance
   error : BOOLEAN]          \* one of its statements failed

TypeOK ==
  /\ today \in Days
  /\ config \in Configs
  /\ counter \in [Key -> Nat \cup {Missing}]
  /\ balance \in [Addresses -> Nat \cup {Missing}]
  /\ enabled \in [Addresses -> BOOLEAN]
  /\ request \in [Requests -> Request]
  /\ granted \in [Addresses -> Nat]
  /\ adminOps \in 0..MaxAdminOps

Init ==
  /\ today = 1
  /\ config \in Configs
  /\ counter = [k \in Key |-> Missing]
  /\ balance = [a \in Addresses |-> Missing]
  /\ enabled = [a \in Addresses |-> FALSE]
  /\ \E a \in Addresses :
       request = [r \in Requests |->
         [pc |-> "idle", address |-> a, pays |-> FALSE, limits |-> config, day |-> 1,
          kind |-> "daily", held |-> {}, paid |-> FALSE, error |-> FALSE]]
  /\ granted = [a \in Addresses |-> 0]
  /\ adminOps = 0

\* Request r goes on as q.
Become(r, q) == request' = [request EXCEPT ![r] = q]

-----------------------------------------------------------------------------
(***************************************************************************)
(* The balance of an address.                                              *)
(***************************************************************************)

\* A row with b units replaces the row, or the absence of a row, of address a.
SetBalance(a, b, e) ==
  LET old == IF balance[a] = Missing THEN 0 ELSE balance[a] IN
  /\ balance' = [balance EXCEPT ![a] = b]
  /\ enabled' = [enabled EXCEPT ![a] = e]
  /\ granted' = [granted EXCEPT ![a] = @ + IF b > old THEN b - old ELSE 0]

KeepBalance == UNCHANGED <<balance, enabled, granted>>

\* INSERT ... ON CONFLICT(address) DO NOTHING, when a default is configured.
EnsureDefault(a) ==
  IF DefaultBalance > 0 /\ balance[a] = Missing
  THEN SetBalance(a, DefaultBalance, TRUE)
  ELSE KeepBalance

\* POST /api/request_send_mail_access.
RequestAccess(a) ==
  /\ IF DefaultBalance > 0 THEN EnsureDefault(a)
     ELSE IF balance[a] = Missing THEN SetBalance(a, 0, FALSE)
     ELSE KeepBalance
  /\ UNCHANGED <<today, config, counter, request, adminOps>>

\* POST /admin/address_sender: the row takes absolute values.
UpdateSender(a) ==
  /\ balance[a] # Missing
  /\ adminOps < MaxAdminOps
  /\ \E b \in Balances, e \in BOOLEAN : SetBalance(a, b, e)
  /\ adminOps' = adminOps + 1
  /\ UNCHANGED <<today, config, counter, request>>

\* DELETE /admin/address_sender/:id, and the deletion of the address.
RemoveSender(a) ==
  /\ balance[a] # Missing
  /\ adminOps < MaxAdminOps
  /\ balance' = [balance EXCEPT ![a] = Missing]
  /\ enabled' = [enabled EXCEPT ![a] = FALSE]
  /\ adminOps' = adminOps + 1
  /\ UNCHANGED <<today, config, counter, request, granted>>

-----------------------------------------------------------------------------
(***************************************************************************)
(* sendMail: the reservations.                                             *)
(***************************************************************************)

\* getSendBalanceState, then the checks of the mail, which may refuse it.
Begin(r) ==
  LET q == request[r] IN
  /\ q.pc = "idle"
  /\ \E a \in Addresses, checked \in BOOLEAN, pays \in BOOLEAN, pc \in {"config", "failed"} :
       /\ pays => checked
       /\ IF checked THEN EnsureDefault(a) ELSE KeepBalance
       /\ Become(r, [q EXCEPT !.pc = pc, !.address = a, !.pays = pays])
  /\ UNCHANGED <<today, config, counter, adminOps>>

\* The state after the daily counter, and after the configuration has been read.
AfterDaily(q) ==
  IF q.limits["monthly"] >= 0 THEN [q EXCEPT !.pc = "init", !.kind = "monthly"]
  ELSE [q EXCEPT !.pc = "clean"]

AfterConfig(q) ==
  IF \A kind \in Kinds : q.limits[kind] = Off THEN [q EXCEPT !.pc = "balance"]
  ELSE IF q.limits["daily"] >= 0 THEN [q EXCEPT !.pc = "init", !.kind = "daily"]
  ELSE AfterDaily(q)

ReadConfig(r) ==
  LET q == request[r] IN
  /\ q.pc = "config"
  /\ \/ Become(r, AfterConfig([q EXCEPT !.limits = config, !.day = today]))
     \/ Become(r, [q EXCEPT !.pc = "failed", !.error = TRUE])
  /\ UNCHANGED <<today, config, counter, balance, enabled, granted, adminOps>>

\* A reservation that has failed gives back the counters it holds.
GiveBack(q) == [q EXCEPT !.pc = IF q.held = {} THEN "failed" ELSE "release"]

MyKey(q) == KeyOf(q.kind, q.day)

\* INSERT the counter ... ON CONFLICT(key) DO NOTHING.
InitCount(r) ==
  LET q == request[r] IN
  /\ q.pc = "init"
  /\ \/ /\ counter' = [counter EXCEPT ![MyKey(q)] = IF @ = Missing THEN 0 ELSE @]
        /\ Become(r, [q EXCEPT !.pc = "take"])
     \/ /\ UNCHANGED counter
        /\ Become(r, GiveBack([q EXCEPT !.error = TRUE]))
  /\ UNCHANGED <<today, config, balance, enabled, granted, adminOps>>

\* Mutant: an off-by-one in the comparison with the limit.
Available_OneMore(q) ==
  /\ counter[MyKey(q)] # Missing
  /\ counter[MyKey(q)] <= q.limits[q.kind]

\* The condition of the reserving UPDATE.
Available(q) ==
  /\ counter[MyKey(q)] # Missing
  /\ counter[MyKey(q)] < q.limits[q.kind]

\* The reserving UPDATE.  When its answer is lost, the count stays but the request
\* does not know that it holds it.
TakeCount(r) ==
  LET q == request[r]
      held == [q EXCEPT !.held = @ \cup {q.kind}]
  IN
  /\ q.pc = "take"
  /\ Available(q)
  /\ counter' = [counter EXCEPT ![MyKey(q)] = @ + 1]
  /\ \/ Become(r, IF q.kind = "daily" THEN AfterDaily(held) ELSE [held EXCEPT !.pc = "clean"])
     \/ Become(r, GiveBack([q EXCEPT !.error = TRUE]))
  /\ UNCHANGED <<today, config, balance, enabled, granted, adminOps>>

\* The limit is reached, the counter is gone, or the statement failed.
TakeRefused(r) ==
  LET q == request[r] IN
  /\ q.pc = "take"
  /\ \/ ~Available(q) /\ Become(r, GiveBack(q))
     \/ Become(r, GiveBack([q EXCEPT !.error = TRUE]))
  /\ UNCHANGED <<today, config, counter, balance, enabled, granted, adminOps>>

\* The counters of earlier dates are deleted; an error is swallowed.
CleanCounters(r) ==
  LET q == request[r] IN
  /\ q.pc = "clean"
  /\ \/ counter' = [k \in Key |-> IF Older(k, q.day) THEN Missing ELSE counter[k]]
     \/ UNCHANGED counter
  /\ Become(r, [q EXCEPT !.pc = "balance"])
  /\ UNCHANGED <<today, config, balance, enabled, granted, adminOps>>

\* Senders whose balance is not checked go straight to the provider.
SkipBalance(r) ==
  LET q == request[r] IN
  /\ q.pc = "balance"
  /\ ~q.pays
  /\ Become(r, [q EXCEPT !.pc = "deliver"])
  /\ UNCHANGED <<today, config, counter, balance, enabled, granted, adminOps>>

\* The condition of the debiting UPDATE.
Solvent(a) == enabled[a] /\ balance[a] > 0

\* The debiting UPDATE.  An error here leaves sendMail with nothing released.
TakeBalance(r) ==
  LET q == request[r] IN
  /\ q.pc = "balance"
  /\ q.pays
  /\ Solvent(q.address)
  /\ balance' = [balance EXCEPT ![q.address] = @ - 1]
  /\ \/ Become(r, [q EXCEPT !.pc = "deliver", !.paid = TRUE])
     \/ Become(r, [q EXCEPT !.pc = "failed", !.error = TRUE])
  /\ UNCHANGED <<today, config, counter, enabled, granted, adminOps>>

\* Mutant: a refused balance forgets the counters.
BalanceRefused_KeepsCounters(r) ==
  LET q == request[r] IN
  /\ q.pc = "balance"
  /\ q.pays
  /\ \/ ~Solvent(q.address) /\ Become(r, [q EXCEPT !.pc = "failed"])
     \/ Become(r, [q EXCEPT !.pc = "failed", !.error = TRUE])
  /\ UNCHANGED <<today, config, counter, balance, enabled, granted, adminOps>>

BalanceRefused(r) ==
  LET q == request[r] IN
  /\ q.pc = "balance"
  /\ q.pays
  /\ \/ ~Solvent(q.address) /\ Become(r, GiveBack(q))
     \/ Become(r, [q EXCEPT !.pc = "failed", !.error = TRUE])
  /\ UNCHANGED <<today, config, counter, balance, enabled, granted, adminOps>>

-----------------------------------------------------------------------------
(***************************************************************************)
(* sendMail: the provider, and giving back.                                *)
(***************************************************************************)

\* The provider accepts the mail: the reservations are its debit.
Deliver(r) ==
  LET q == request[r] IN
  /\ q.pc = "deliver"
  /\ Become(r, [q EXCEPT !.pc = "sent"])
  /\ UNCHANGED <<today, config, counter, balance, enabled, granted, adminOps>>

\* The provider refuses it, or reports an error.
DeliverFails(r) ==
  LET q == request[r] IN
  /\ q.pc = "deliver"
  /\ Become(r, IF q.paid THEN [q EXCEPT !.pc = "refund"] ELSE GiveBack(q))
  /\ UNCHANGED <<today, config, counter, balance, enabled, granted, adminOps>>

\* Mutant: the unit of the balance is given back twice.
RefundBalance_Twice(r) ==
  LET q == request[r] IN
  /\ q.pc = "refund"
  /\ enabled[q.address]
  /\ balance' = [balance EXCEPT ![q.address] = @ + 2]
  /\ \E error \in BOOLEAN : Become(r, GiveBack([q EXCEPT !.paid = FALSE, !.error = error]))
  /\ UNCHANGED <<today, config, counter, enabled, granted, adminOps>>

\* releaseSendBalance; its error is remembered, and the counters follow anyway.
RefundBalance(r) ==
  LET q == request[r] IN
  /\ q.pc = "refund"
  /\ enabled[q.address]
  /\ balance' = [balance EXCEPT ![q.address] = @ + 1]
  /\ \E error \in BOOLEAN : Become(r, GiveBack([q EXCEPT !.paid = FALSE, !.error = error]))
  /\ UNCHANGED <<today, config, counter, enabled, granted, adminOps>>

\* The row is disabled or gone, or the statement failed: the unit is lost.
RefundFails(r) ==
  LET q == request[r] IN
  /\ q.pc = "refund"
  /\ Become(r, GiveBack([q EXCEPT !.paid = FALSE, !.error = TRUE]))
  /\ UNCHANGED <<today, config, counter, balance, enabled, granted, adminOps>>

\* The counter to release: the one reserved last.
LastHeld(q) == IF "monthly" \in q.held THEN "monthly" ELSE "daily"

\* One UPDATE of releaseSendMailLimit: down by one, and not below zero.
ReleaseCount(r) ==
  LET q == request[r]
      k == KeyOf(LastHeld(q), q.day)
      left == [q EXCEPT !.held = @ \ {LastHeld(q)}]
  IN
  /\ q.pc = "release"
  /\ counter[k] # Missing
  /\ counter' = [counter EXCEPT ![k] = IF @ > 0 THEN @ - 1 ELSE 0]
  /\ \/ Become(r, GiveBack(left))
     \/ Become(r, [left EXCEPT !.pc = "failed", !.error = TRUE])
  /\ UNCHANGED <<today, config, balance, enabled, granted, adminOps>>

\* The counter is gone or the statement failed: the remaining ones stay reserved.
ReleaseFails(r) ==
  LET q == request[r] IN
  /\ q.pc = "release"
  /\ Become(r, [q EXCEPT !.pc = "failed", !.error = TRUE])
  /\ UNCHANGED <<today, config, counter, balance, enabled, granted, adminOps>>

\* The runtime kills the invocation.
Kill(r) ==
  /\ request[r].pc \notin {"idle", "sent", "failed", "dead"}
  /\ Become(r, [request[r] EXCEPT !.pc = "dead"])
  /\ UNCHANGED <<today, config, counter, balance, enabled, granted, adminOps>>

-----------------------------------------------------------------------------
\* The administrator saves another limit configuration.
SaveConfig ==
  /\ adminOps < MaxAdminOps
  /\ config' \in Configs
  /\ adminOps' = adminOps + 1
  /\ UNCHANGED <<today, counter, balance, enabled, request, granted>>

NextDay ==
  /\ today < MaxDay
  /\ today' = today + 1
  /\ UNCHANGED <<config, counter, balance, enabled, request, granted, adminOps>>

SendMail(r) ==
  \/ Begin(r) \/ ReadConfig(r)
  \/ InitCount(r) \/ TakeCount(r) \/ TakeRefused(r) \/ CleanCounters(r)
  \/ SkipBalance(r) \/ TakeBalance(r) \/ BalanceRefused(r)
  \/ Deliver(r) \/ DeliverFails(r)
  \/ RefundBalance(r) \/ RefundFails(r) \/ ReleaseCount(r) \/ ReleaseFails(r)

Next ==
  \/ \E r \in Requests : SendMail(r) \/ Kill(r)
  \/ \E a \in Addresses : RequestAccess(a) \/ UpdateSender(a) \/ RemoveSender(a)
  \/ SaveConfig \/ NextDay

Spec == Init /\ [][Next]_vars

-----------------------------------------------------------------------------
(***************************************************************************)
(* Properties.                                                             *)
(***************************************************************************)

\* The counters a request relies on: those it holds, until it has failed.
Relies(r, k) ==
  /\ request[r].pc \notin {"failed", "dead"}
  /\ \E kind \in request[r].held : k = KeyOf(kind, request[r].day)

Holders(k) == {r \in Requests : Relies(r, k)}

\* A key of the current date.
Current(k) == k \in {KeyOf(kind, today) : kind \in Kinds}

\* No more mails leave under a counter of the current date than the largest limit
\* that was configured, whatever fails, is released or is reconfigured in between:
\* requests on their way count as if they had left.
LimitHeld ==
  \A k \in Key : Current(k) /\ Holders(k) # {} =>
    \E c \in Configs : Cardinality(Holders(k)) <= c[k[1]]

\* As long as no statement fails and no invocation is killed, a counter of the
\* current date is exact: a refused or failed send leaves no slot reserved.
NoSlotLost ==
  (\A r \in Requests : ~request[r].error /\ request[r].pc # "dead") =>
    \A k \in Key : Current(k) =>
      Cardinality(Holders(k)) = IF counter[k] = Missing THEN 0 ELSE counter[k]

\* The requests that were paid from the balance of a and have not failed.
PaidBy(a) ==
  {r \in Requests : /\ request[r].paid /\ request[r].address = a
                    /\ request[r].pc \notin {"failed", "dead"}}

\* An address never sends more than it was granted: what is left of its balance
\* and the mails paid from it, sent or on their way, stay within the grants, also
\* when the administrator resets or removes the row between debit and refund.
NoOverdraft ==
  \A a \in Addresses :
    Cardinality(PaidBy(a)) + (IF balance[a] = Missing THEN 0 ELSE balance[a]) <= granted[a]
=============================================================================
