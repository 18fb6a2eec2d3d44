------------------------------ MODULE MCParts ------------------------------
(***************************************************************************)
(* Five parts that share no state, for TLC: the view and the actions of    *)
(* the administrator's console, the mail page of users, a mailbox of the   *)
(* IMAP proxy and what is kept about an address outside its table.  A      *)
(* behaviour is one of one part, chosen initially, while the others rest;  *)
(* the product of their interleavings would show nothing more.             *)
(***************************************************************************)
EXTENDS AddressLifecycle, TLC

CONSTANTS
  Slots, Filters, Pages, NoFilter, MaxSessions, ViewChanges,
  Jobs, NoJob, MaxStarts,
  Commands, MaxMail, MailChanges, Batch, CacheSize, Broken,
  Acts, Own, PageSize, MaxArrivals, MaxSteps

VARIABLES
  part,
  signedIn, session, view, pending, filter, timer, page, list, fetched, users,
  load, missed, changes,
  busy, dialog, job, disturbed, starts,
  rows, count, index, built, cache, flags, cmd, shaken, spoilt, arrivals,
  mails, read, open, mailPage, mailFilter, mailRows, mailCount, current, checked,
  raised, mailLoad, act, unsettled, received, steps

MCPages == [f \in Filters |-> 3]

Console == INSTANCE AdminConsole WITH MaxChanges <- ViewChanges
Actions == INSTANCE AdminActions
Imap == INSTANCE ImapMailbox
          WITH MaxId <- MaxMail, MaxChanges <- MailChanges, changes <- arrivals
Workbench == INSTANCE MailWorkbench
               WITH Loads <- Slots,
                    page <- mailPage, filter <- mailFilter, rows <- mailRows,
                    count <- mailCount, busy <- raised, load <- mailLoad,
                    shaken <- unsettled, arrivals <- received

consoleVars ==
  <<signedIn, session, view, pending, filter, timer, page, list, fetched, users,
    load, missed, changes>>
actionVars == <<busy, dialog, job, disturbed, starts>>
imapVars   == <<rows, count, index, built, cache, flags, cmd, shaken, spoilt, arrivals>>
mailVars ==
  <<mails, read, open, mailPage, mailFilter, mailRows, mailCount, current, checked,
    raised, mailLoad, act, unsettled, received, steps>>

ASSUME
  /\ AddressLifecycleAssumption
  /\ Console!AdminConsoleAssumption
  /\ Actions!AdminActionsAssumption
  /\ Imap!ImapMailboxAssumption
  /\ Workbench!MailWorkbenchAssumption

Parts == {"console", "actions", "imap", "lifecycle", "workbench"}

\* A part that rests has one initial state.
MCInit ==
  /\ part \in Parts
  /\ Console!Init
  /\ Actions!Init
  /\ Imap!Init
  /\ Init
  /\ Workbench!Init
  /\ part # "console" => view = "overview"
  /\ part # "imap" => rows = {} /\ ~built
  /\ part # "lifecycle" => id = 0
  /\ part # "workbench" => received = 0

MCNext ==
  /\ UNCHANGED part
  /\ \/ /\ part = "console"
        /\ Console!Next
        /\ UNCHANGED <<actionVars, imapVars, vars, mailVars>>
     \/ /\ part = "actions"
        /\ Actions!Next
        /\ UNCHANGED <<consoleVars, imapVars, vars, mailVars>>
     \/ /\ part = "imap"
        /\ Imap!Next
        /\ UNCHANGED <<consoleVars, actionVars, vars, mailVars>>
     \/ /\ part = "lifecycle"
        /\ Next
        /\ UNCHANGED <<consoleVars, actionVars, imapVars, mailVars>>
     \/ /\ part = "workbench"
        /\ Workbench!Next
        /\ UNCHANGED <<consoleVars, actionVars, imapVars, vars>>

MCSpec == MCInit /\ [][MCNext]_<<part, consoleVars, actionVars, imapVars, vars, mailVars>>

\* Slots, Commands, Chats and Acts are the same model values, as Jobs and Requests are:
\* one small group of permutations serves every part.
Symmetric == Permutations(Slots) \cup Permutations(Jobs)

\* The mail list of the console shows no mail of another session
\* (adminLoadGeneration of AdminNext.vue).
ListOfSession == Console!ListOfSession

\* The mail list is the one its filter asks for once no load is under way
\* (watch of mailListQuery, fetchAdminData).
ListMatchesFilter == Console!ListMatchesFilter

\* The lock of the console's actions is held exactly while one of them runs
\* (actionBusy of admin-console-actions.js).
LockMeansRunning == Actions!LockMeansRunning

\* With the right number of messages the index lists the right ones
\* (_build_uid_index of imap_mailbox.py).
IndexCurrent == Imap!IndexCurrent

\* FETCH of all messages answers with all that can be parsed
\* (_fetch_and_cache_messages of imap_mailbox.py).
FetchComplete == Imap!FetchComplete

\* With nothing under way the mail page shows what the backend has, outside the
\* named overlaps (isBusy of AccessMailWorkbench.vue).
ShownIsCurrent == Workbench!ShownIsCurrent
=============================================================================
