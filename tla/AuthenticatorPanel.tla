-------------------------- MODULE AuthenticatorPanel --------------------------
(***************************************************************************)
(* The administrator's list of authenticators (AdminAuthenticators.vue):   *)
(* codes that expire and are fetched again, by a timer that is armed after *)
(* each answer, while tasks change the authenticators and load the list.   *)
(*                                                                         *)
(* One request serves all who ask for the list while it is under way.  A   *)
(* page that is hidden has no timer.  A code is valid when it arrives.     *)
(***************************************************************************)
EXTENDS Integers, FiniteSets

CONSTANTS
  Items,      \* authenticators; their ids are UUIDs
  Tasks,      \* tasks of the administrator, each run once
  NoTask,
  MaxFaults,  \* bound: requests that fail
  MaxHides    \* bound: times the page is hidden

VARIABLES
  items,    \* user_authenticators
  new,      \* those not created yet
  page,     \* "closed", "open", or "left" (disposed)
  hidden,   \* document.hidden
  shown,    \* rows
  expired,  \* those of the rows whose valid_until has passed
  request,  \* refreshRequest
  timer,    \* a timer is armed
  retry,    \* retryCount > 0
  busy,     \* the task that set it last, or NoTask
  task, faults, hides

vars == <<items, new, page, hidden, shown, expired, request, timer, retry, busy,
          task, faults, hides>>

\* "share" is any task that leaves the authenticators as they are.
Ops == {"create", "delete", "share"}

Task(pc) == [pc |-> pc, op |-> "share", on |-> {}]

TypeOK ==
  /\ items \subseteq Items /\ new \subseteq Items
  /\ page \in {"closed", "open", "left"}
  /\ hidden \in BOOLEAN
  /\ shown \subseteq Items /\ expired \subseteq shown
  /\ request \in [pc : {"none", "asked", "served", "failed"}, answer : SUBSET Items]
  /\ timer \in BOOLEAN /\ retry \in BOOLEAN
  /\ busy \in Tasks \cup {NoTask}
  /\ task \in [Tasks -> [pc : {"idle", "confirm", "call", "replied", "load", "done"},
                         op : Ops, on : SUBSET Items]]
  /\ faults \in 0..MaxFaults /\ hides \in 0..MaxHides

NoRequest == [pc |-> "none", answer |-> {}]

Init ==
  /\ items \in SUBSET Items
  /\ new = Items \ items
  /\ page = "closed" /\ hidden = FALSE
  /\ shown = {} /\ expired = {}
  /\ request = NoRequest
  /\ timer = FALSE /\ retry = FALSE
  /\ busy = NoTask
  /\ task = [t \in Tasks |-> Task("idle")]
  /\ faults = 0 /\ hides = 0

-----------------------------------------------------------------------------
(* Requests and timers.                                                    *)

Fault == faults < MaxFaults /\ faults' = faults + 1

\* scheduleNextRefresh
Armed == page = "open" /\ ~hidden' /\ (shown' # {} \/ retry')

\* refreshCodes: a request under way serves this caller too.
Refresh ==
  IF request.pc = "none"
  THEN /\ request' = [NoRequest EXCEPT !.pc = "asked"]
       /\ timer' = FALSE
  ELSE UNCHANGED <<request, timer>>

Mount ==
  /\ page = "closed"
  /\ page' = "open"
  /\ Refresh
  /\ UNCHANGED <<items, new, hidden, shown, expired, retry, busy, task, faults, hides>>

Leave ==
  /\ page = "open"
  /\ page' = "left"
  /\ timer' = FALSE
  /\ UNCHANGED <<items, new, hidden, shown, expired, request, retry, busy, task,
                 faults, hides>>

Serve ==
  /\ request.pc = "asked"
  /\ \/ request' = [pc |-> "served", answer |-> items] /\ UNCHANGED faults
     \/ request' = [pc |-> "failed", answer |-> {}] /\ Fault
  /\ UNCHANGED <<items, new, page, hidden, shown, expired, timer, retry, busy, task, hides>>

\* The tasks that waited for the list end, and the first of them clears busy.
Waiting == {t \in Tasks : task[t].pc = "load"}

Settle ==
  /\ request.pc \in {"served", "failed"}
  /\ IF page = "left"
     THEN UNCHANGED <<shown, expired, retry>>
     ELSE /\ retry' = (request.pc = "failed")
          /\ IF request.pc = "served"
             THEN shown' = request.answer /\ expired' = {}
             ELSE UNCHANGED <<shown, expired>>
  /\ UNCHANGED hidden
  /\ request' = NoRequest
  /\ timer' = Armed
  /\ busy' = IF Waiting = {} THEN busy ELSE NoTask
  /\ task' = [t \in Tasks |-> IF t \in Waiting THEN Task("done") ELSE task[t]]
  /\ UNCHANGED <<items, new, page, faults, hides>>

\* Time passes.
Expire(i) ==
  /\ i \in shown \ expired
  /\ expired' = expired \cup {i}
  /\ UNCHANGED <<items, new, page, hidden, shown, request, timer, retry, busy, task,
                 faults, hides>>

\* The timer was set for the first expiry, or to try again.
Due == timer /\ (expired # {} \/ retry)

\* Mutant: a timer that fires during a task is not set again.
TimerFires_Once ==
  /\ Due
  /\ IF busy # NoTask
     THEN timer' = FALSE /\ UNCHANGED request
     ELSE Refresh
  /\ UNCHANGED <<items, new, page, hidden, shown, expired, retry, busy, task, faults, hides>>

TimerFires ==
  /\ Due
  /\ UNCHANGED <<hidden, shown, retry>>
  /\ IF busy # NoTask
     THEN timer' = Armed /\ UNCHANGED request
     ELSE Refresh
  /\ UNCHANGED <<items, new, page, expired, busy, task, faults, hides>>

Hide ==
  /\ page = "open" /\ ~hidden
  /\ hides < MaxHides /\ hides' = hides + 1
  /\ hidden' = TRUE
  /\ timer' = FALSE
  /\ UNCHANGED <<items, new, page, shown, expired, request, retry, busy, task, faults>>

\* handleVisibilityChange
Show ==
  /\ page = "open" /\ hidden
  /\ hidden' = FALSE
  /\ UNCHANGED <<shown, retry>>
  /\ IF (expired # {} \/ retry) /\ busy = NoTask
     THEN Refresh
     ELSE timer' = Armed /\ UNCHANGED request
  /\ UNCHANGED <<items, new, page, expired, busy, task, faults, hides>>

\* The button of the toolbar.
Reload ==
  /\ page = "open" /\ busy = NoTask
  /\ Refresh
  /\ UNCHANGED <<items, new, page, hidden, shown, expired, retry, busy, task, faults, hides>>

-----------------------------------------------------------------------------
(* Tasks.                                                                  *)

Become(t, pc) == task' = [task EXCEPT ![t] = Task(pc)]

\* The buttons are disabled while busy is set; a deletion asks for a confirmation first.
Begin(t, op, i) ==
  /\ page = "open" /\ busy = NoTask
  /\ task[t].pc = "idle"
  /\ IF op = "create" THEN i \in new ELSE i \in shown
  /\ task' = [task EXCEPT ![t] = [pc |-> IF op = "delete" THEN "confirm" ELSE "call",
                                  op |-> op, on |-> {i}]]
  /\ busy' = IF op = "delete" THEN busy ELSE t
  /\ new' = IF op = "create" THEN new \ {i} ELSE new
  /\ UNCHANGED <<items, page, hidden, shown, expired, request, timer, retry, faults, hides>>

\* run does not look at busy.
Confirm(t) ==
  /\ task[t].pc = "confirm"
  /\ \/ task' = [task EXCEPT ![t].pc = "call"] /\ busy' = t
     \/ Become(t, "done") /\ UNCHANGED busy
  /\ UNCHANGED <<items, new, page, hidden, shown, expired, request, timer, retry, faults,
                 hides>>

Execute(t) ==
  /\ task[t].pc = "call"
  /\ items' = CASE task[t].op = "create" -> items \cup task[t].on
                [] task[t].op = "delete" -> items \ task[t].on
                [] OTHER -> items
  /\ Become(t, "replied")
  /\ UNCHANGED <<new, page, hidden, shown, expired, request, timer, retry, busy, faults,
                 hides>>

\* A page that has been left does not load.
Replied(t) ==
  /\ task[t].pc = "replied"
  /\ IF page = "left"
     THEN /\ Become(t, "done")
          /\ busy' = NoTask
          /\ UNCHANGED <<request, timer>>
     ELSE /\ Become(t, "load")
          /\ UNCHANGED busy
          /\ Refresh
  /\ UNCHANGED <<items, new, page, hidden, shown, expired, retry, faults, hides>>

\* The call fails, executed or not, and the list is not loaded.
TaskFails(t) ==
  /\ task[t].pc \in {"call", "replied"}
  /\ Fault
  /\ Become(t, "done")
  /\ busy' = NoTask
  /\ UNCHANGED <<items, new, page, hidden, shown, expired, request, timer, retry, hides>>

-----------------------------------------------------------------------------
Next ==
  \/ Mount \/ Leave \/ Serve \/ Settle \/ TimerFires \/ Hide \/ Show \/ Reload
  \/ \E i \in Items : Expire(i)
  \/ \E t \in Tasks :
       \/ \E op \in Ops, i \in Items : Begin(t, op, i)
       \/ Confirm(t) \/ Execute(t) \/ Replied(t) \/ TaskFails(t)

\* Requests are answered or fail, timers fire and time passes.
Fairness ==
  /\ WF_vars(Serve \/ Settle) /\ WF_vars(TimerFires)
  /\ \A i \in Items : WF_vars(Expire(i))
  /\ \A t \in Tasks : WF_vars(Execute(t) \/ Replied(t))

FairSpec == Init /\ [][Next]_vars /\ Fairness

-----------------------------------------------------------------------------
(* Properties.                                                             *)

\* A row is behind when its code has expired, its authenticator is gone, or it is
\* missing from a list that shows others.
Behind(i) ==
  \/ i \in expired
  \/ i \in shown \ items
  \/ i \in items \ shown /\ shown # {}

Visible == page = "open" /\ ~hidden

\* A page that stays visible catches up with every authenticator, whatever
\* tasks, failures and requests that were under way do to the timer
\* (scheduleNextRefresh, refreshCodes).
CatchesUp == \A i \in Items : Visible /\ Behind(i) ~> ~Visible \/ ~Behind(i)
=============================================================================
