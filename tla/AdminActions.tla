---------------------------- MODULE AdminActions ----------------------------
(***************************************************************************)
(* The actions of the administrator's console: one lock (actionBusy), one  *)
(* confirmation dialog, and the calls each action makes one after another. *)
(*                                                                         *)
(* The user may start any action at any time, also while a dialog is open  *)
(* or an answer is awaited; calls are answered in any order or fail.  An   *)
(* action is the sequence of its steps:                                    *)
(*   "lock"      take the lock, refused when it is taken                   *)
(*   "ask"       give the lock back if held, confirm, then take the lock   *)
(*   "seize"     take the lock whoever holds it                            *)
(*   "conflict"  perhaps ask with the lock lent, then go on with it        *)
(*   "call"      a call of the API                                         *)
(*   "refresh"   refreshAll, refreshUsers or loadUserBoundAddresses, which  *)
(*               do not fail                                               *)
(***************************************************************************)
EXTENDS Naturals, Sequences

CONSTANTS
  Jobs,      \* actions under way at the same time
  NoJob,     \* no dialog is open
  MaxStarts  \* bound: actions started

AdminActionsAssumption == NoJob \notin Jobs /\ MaxStarts \in Nat

VARIABLES
  busy,       \* whether actionBusy is not ''
  dialog,     \* confirmDialogState: the job whose question is shown
  job,        \* the actions under way
  disturbed,  \* history: the lock was seized, or given back or taken by the
              \* end of a loan, under an action that runs still
  starts

vars == <<busy, dialog, job, disturbed, starts>>

-----------------------------------------------------------------------------
(* The steps of the actions.                                               *)

\* runProductionAction, with and without a confirmation.
Confirmed(task) == <<"ask">> \o task
Unconfirmed(task) == <<"lock">> \o task

\* One mail stands for many: a failure after some is a failure, followed by
\* the refresh as well.
DeleteMailRows        == <<"ask", "call", "refresh">>
BatchSetMailReadState == <<"lock", "call">>
ExportMailRows        == <<"lock", "call">>

CreateAddressIdentity    == <<"lock", "call", "refresh">>
CreateSharePackage       == <<"lock", "call", "refresh">>
DeleteCurrentAddress     == Confirmed(<<"call", "refresh">>)
ShowCurrentCredential    == Unconfirmed(<<"call">>)
RotateCurrentCredential  == Confirmed(<<"call", "refresh">>)
RevokeCurrentShareTokens == Confirmed(<<"call", "refresh">>)
ClearCurrentAddressInbox == Confirmed(<<"call", "refresh">>)

DisableCurrentDomain     == <<"lock", "call", "ask", "call", "refresh">>
CheckCurrentDomainRoute  == <<"lock", "call", "refresh">>
CheckCurrentDomainImpact == <<"lock", "call">>
RunHealthCheck           == <<"lock", "refresh">>

StartDomainVerification == <<"call", "refresh">>
VerifyStart             == Confirmed(StartDomainVerification)
CheckDomainVerification == Unconfirmed(<<"call", "refresh">>)

\* A domain that the refresh does not find ends it early (see Answer).
PerformCloudflareSetup ==
  <<"call", "conflict", "call", "refresh">> \o StartDomainVerification

SetupCloudflareDomain == Confirmed(PerformCloudflareSetup)

CreateAndActivateDomain(cloudflare) ==
  <<"seize", "call", "refresh">>
    \o (IF cloudflare THEN PerformCloudflareSetup ELSE StartDomainVerification)

CreateUser             == <<"lock", "call", "refresh">>
ResetUserPassword      == <<"lock", "call", "refresh">>
UpdateUserRole         == <<"lock", "call", "refresh">>
DeleteUser             == <<"ask", "call", "refresh">>
BindAddressToUser      == <<"lock", "call", "refresh", "refresh">>
UnbindAddressFromUser  == <<"ask", "call", "refresh", "refresh">>

Actions ==
  {DeleteMailRows, BatchSetMailReadState, ExportMailRows,
   CreateAddressIdentity, CreateSharePackage, DeleteCurrentAddress,
   ShowCurrentCredential, RotateCurrentCredential, RevokeCurrentShareTokens,
   ClearCurrentAddressInbox, DisableCurrentDomain, CheckCurrentDomainRoute,
   CheckCurrentDomainImpact, RunHealthCheck, VerifyStart,
   CheckDomainVerification, SetupCloudflareDomain, CreateUser,
   ResetUserPassword, UpdateUserRole, DeleteUser, BindAddressToUser,
   UnbindAddressFromUser}
    \cup {CreateAndActivateDomain(c) : c \in BOOLEAN}

-----------------------------------------------------------------------------
(* Jobs.                                                                   *)

Steps == {"lock", "ask", "seize", "conflict", "call", "refresh"}

Job ==
  [todo      : Seq(Steps),  \* the step awaited, then those that follow
   activates : BOOLEAN,     \* domainActivationBusy
   previous  : BOOLEAN]     \* previousBusy

Idle == [todo |-> <<>>, activates |-> FALSE, previous |-> FALSE]

TypeOK ==
  /\ busy \in BOOLEAN
  /\ dialog \in Jobs \cup {NoJob}
  /\ job \in [Jobs -> Job]
  /\ disturbed \in BOOLEAN
  /\ starts \in 0..MaxStarts

Init ==
  /\ busy = FALSE
  /\ dialog = NoJob
  /\ job = [j \in Jobs |-> Idle]
  /\ disturbed = FALSE
  /\ starts = 0

Awaits(x, step) == x.todo # <<>> /\ Head(x.todo) = step

\* Within the section the lock is for.
Runs(x) == Awaits(x, "call") \/ Awaits(x, "refresh")

\* The lock is lent to the user, who is asked about the catch-all rule.
Lends(x) == Awaits(x, "conflict")

OthersRun(j) == \E k \in Jobs \ {j} : Runs(job[k]) \/ Lends(job[k])

\* Whoever writes the lock regardless of its holder disturbs the others.
Disturbs(j) ==
  disturbed' = ((disturbed \/ OthersRun(j))
                  /\ \E k \in Jobs : Runs(job'[k]) \/ Lends(job'[k]))

\* A new question answers the one that is open with no: an action that has not
\* begun returns, a setup that has lent the lock clears it, as the new question
\* finds or leaves it anyway.
Dismissed(j) ==
  IF dialog \in Jobs \ {j} THEN [job EXCEPT ![dialog] = Idle] ELSE job

Opens(j, x) ==
  /\ dialog' = j
  /\ job' = [Dismissed(j) EXCEPT ![j] = x]

-----------------------------------------------------------------------------
(* The user.                                                               *)

Starting(j, todo, activates) ==
  /\ job[j] = Idle
  /\ starts < MaxStarts
  /\ starts' = starts + 1
  /\ job' = [job EXCEPT ![j] = [Idle EXCEPT !.todo = todo, !.activates = activates]]

StartLocked(j) ==
  /\ ~busy
  /\ busy' = TRUE
  /\ \E a \in Actions : Head(a) = "lock" /\ Starting(j, Tail(a), FALSE)
  /\ UNCHANGED <<dialog, disturbed>>

StartAsking(j) ==
  /\ ~busy
  /\ job[j] = Idle
  /\ starts < MaxStarts
  /\ starts' = starts + 1
  /\ \E a \in Actions :
       Head(a) = "ask" /\ Opens(j, [Idle EXCEPT !.todo = a])
  /\ Disturbs(j)
  /\ UNCHANGED busy

StartActivation(j) ==
  /\ \A k \in Jobs : ~job[k].activates
  /\ busy' = TRUE
  /\ \E a \in Actions : Head(a) = "seize" /\ Starting(j, Tail(a), TRUE)
  /\ Disturbs(j)
  /\ UNCHANGED dialog

\* Mutant: the lock is not looked at again after the confirmation.
Lockable_Unchecked(j) == Awaits(job[j], "ask")

\* The lock is looked at again after the question.
Lockable(j) == Awaits(job[j], "ask") /\ ~busy

Goes(j) == job' = [job EXCEPT ![j].todo = Tail(@)]
Ends(j) == job' = [job EXCEPT ![j] = Idle]

Accept(j) ==
  /\ dialog = j
  /\ dialog' = NoJob
  /\ \/ /\ Lockable(j)
        /\ busy' = TRUE
        /\ Goes(j)
        /\ UNCHANGED disturbed
     \/ /\ Awaits(job[j], "ask") /\ ~Lockable(j)
        /\ Ends(j)
        /\ UNCHANGED <<busy, disturbed>>
     \/ /\ Lends(job[j])
        /\ busy' = job[j].previous
        /\ Goes(j)
        /\ Disturbs(j)
  /\ UNCHANGED starts

Refuse(j) ==
  /\ dialog = j
  /\ dialog' = NoJob
  /\ Ends(j)
  /\ IF Lends(job[j])
     THEN busy' = FALSE /\ Disturbs(j)
     ELSE UNCHANGED <<busy, disturbed>>
  /\ UNCHANGED starts

-----------------------------------------------------------------------------
(* Answers.                                                                *)

\* The end of every action: finally { actionBusy.value = '' }.
Finish(j) ==
  /\ Ends(j)
  /\ busy' = FALSE
  /\ Disturbs(j)
  /\ UNCHANGED dialog

Proceed(j) ==
  LET rest == Tail(job[j].todo)
  IN \/ /\ rest = <<>>
        /\ Finish(j)
     \/ /\ rest # <<>> /\ Head(rest) \in {"call", "refresh"}
        /\ Goes(j)
        /\ UNCHANGED <<busy, dialog, disturbed>>
     \/ /\ rest # <<>> /\ Head(rest) = "ask"
        /\ Opens(j, [job[j] EXCEPT !.todo = rest])
        /\ busy' = FALSE
        /\ Disturbs(j)
     \/ /\ rest # <<>> /\ Head(rest) = "conflict"
        /\ Opens(j, [job[j] EXCEPT !.todo = rest, !.previous = busy])
        /\ busy' = FALSE
        /\ Disturbs(j)
     \/ /\ rest # <<>> /\ Head(rest) = "conflict"
        /\ job' = [job EXCEPT ![j].todo = Tail(rest)]
        /\ UNCHANGED <<busy, dialog, disturbed>>

\* refreshAll succeeds or reports; afterwards the row that was created or set
\* up may not be among those loaded.
Answer(j) ==
  /\ Runs(job[j])
  /\ \/ Proceed(j)
     \/ /\ Awaits(job[j], "refresh")
        /\ Len(job[j].todo) > 1 /\ job[j].todo[2] = "call"
        /\ Finish(j)
  /\ UNCHANGED starts

\* A failed call goes to the catch and the finally.
Fails(j) ==
  /\ Awaits(job[j], "call")
  /\ Finish(j)
  /\ UNCHANGED starts

Next ==
  \E j \in Jobs :
    \/ StartLocked(j) \/ StartAsking(j) \/ StartActivation(j)
    \/ Accept(j) \/ Refuse(j)
    \/ Answer(j) \/ Fails(j)

Spec == Init /\ [][Next]_vars

-----------------------------------------------------------------------------
(* Properties.                                                             *)

\* The lock is held exactly while an action runs, and one action runs at a
\* time: neither a question, a refusal, a failed call nor the loan of a
\* Cloudflare setup leaves it locked or lets a second action in
\* (actionBusy).  Not so while an action goes on whose lock was overridden: the
\* activation of a domain does not look at it, and a setup that lent it takes
\* and clears it whoever has it by then.
Running == {j \in Jobs : Runs(job[j])}

LockMeansRunning ==
  ~disturbed => /\ busy <=> Running # {}
                /\ \A j, k \in Running : j = k
=============================================================================
