---------------------------- MODULE MailWorkbench ----------------------------
(***************************************************************************)
(* The mail page of users and of recipients of a share link                *)
(* (AccessMailWorkbench.vue): one page of mails, and the operations on it. *)
(*                                                                         *)
(* A load replaces the rows, an operation changes or removes mails call by *)
(* call, and isRefreshing, isBatchOperating and isRowActionBusy are to     *)
(* keep them apart.  Loads have no generation, and pages, filters and the  *)
(* automatic refresh do not look at the flags of operations.               *)
(***************************************************************************)
EXTENDS Integers, FiniteSets, FiniteSetsExt

CONSTANTS
  Loads,       \* loads that can be under way at once
  Acts,        \* operations that can be under way at once
  Own,         \* the mails of one of the addresses, which can be filtered
  PageSize,
  MaxMail,     \* bound: ids of mails
  MaxArrivals, \* bound: mails that arrive
  MaxSteps     \* bound: what the user begins, failures and arrivals

MailWorkbenchAssumption ==
  /\ IsFiniteSet(Loads) /\ "none" \notin Acts
  /\ MaxMail \in Nat \ {0} /\ MaxArrivals \in 0..MaxMail
  /\ PageSize \in Nat \ {0} /\ MaxSteps \in Nat

VARIABLES
  mails,    \* the mails the backend has; it lists them newest first
  read,     \* those with a mail_read_states row of this reader
  open,     \* the page is mounted
  page, filter,
  rows,     \* rawData, as <<id, unread>>
  count,
  current,  \* the id of curMail, or 0
  checked,  \* ids of the rows that are checked
  busy,     \* the flags that are set
  load, act,
  shaken,   \* history: since the last load that began alone, something was
            \* asked for out of turn, failed or arrived
  arrivals, steps

vars == <<mails, read, open, page, filter, rows, count, current, checked, busy,
          load, act, shaken, arrivals, steps>>

backend == <<mails, read, arrivals>>

Ids     == 1..MaxMail
PageNumbers == {p \in Ids : (p - 1) * PageSize < MaxMail}
AddressFilters == {"all", "own"}
Row     == Ids \X BOOLEAN

Flags == {"isRefreshing", "isBatchOperating", "isRowActionBusy"}

Marks   == {"mark", "marks"}
Deletes == {"deleteRow", "deleteCurrent", "deletes"}

\* The flags an operation sets, and clears when it ends.
FlagsOf(kind) ==
  CASE kind \in {"mark", "deleteRow"} -> {"isRowActionBusy"}
    [] kind \in {"marks", "deletes", "download"} -> {"isBatchOperating", "isRefreshing"}
    [] OTHER -> {}

NoLoad == [pc |-> "idle", page |-> 1, filter |-> "all", answer |-> {}, total |-> 0, act |-> "none"]
NoAct  == [pc |-> "idle", kind |-> "none", read |-> TRUE, todo |-> {}, lost |-> FALSE, ok |-> TRUE]

Load ==
  [pc     : {"idle", "asked", "served"},
   page   : PageNumbers, filter : AddressFilters,  \* what was asked for
   answer : SUBSET Row, total : 0..MaxMail,
   act    : Acts \cup {"none"}]        \* the operation that waits for it

Act ==
  [pc   : {"idle", "asked", "served", "load", "loading"},
   kind : Marks \cup Deletes \cup {"none", "download"},
   read : BOOLEAN,      \* the state to mark
   todo : SUBSET Ids,   \* mails that remain, the newest one is next
   lost : BOOLEAN,      \* its row objects have been replaced by a load
   ok   : BOOLEAN]      \* the call was answered with success

TypeOK ==
  /\ mails \subseteq Ids /\ read \subseteq Ids
  /\ open \in BOOLEAN
  /\ page \in PageNumbers /\ filter \in AddressFilters
  /\ rows \subseteq Row
  /\ count \in 0..MaxMail
  /\ current \in 0..MaxMail
  /\ checked \subseteq Ids
  /\ busy \subseteq Flags
  /\ load \in [Loads -> Load] /\ act \in [Acts -> Act]
  /\ shaken \in BOOLEAN
  /\ arrivals \in 0..MaxArrivals /\ steps \in 0..MaxSteps

Init ==
  /\ arrivals \in 0..MaxArrivals
  /\ mails = 1..(MaxMail - MaxArrivals + arrivals)
  /\ read = {}
  /\ open = FALSE
  /\ page = 1 /\ filter = "all"
  /\ rows = {} /\ count = 0 /\ current = 0 /\ checked = {} /\ busy = {}
  /\ load = [l \in Loads |-> NoLoad]
  /\ act = [a \in Acts |-> NoAct]
  /\ shaken = TRUE
  /\ steps = 0

-----------------------------------------------------------------------------
(* The backend.                                                            *)

Matching(f) == IF f = "all" THEN mails ELSE mails \cap Own

Newer(i, f) == Cardinality({j \in Matching(f) : j > i})

\* The p-th page of the mails that match, newest first, with their read states.
Page(p, f) ==
  {<<i, i \notin read>> : i \in {j \in Matching(f) : Newer(j, f) \div PageSize = p - 1}}

Step == steps < MaxSteps /\ steps' = steps + 1

Arrive ==
  /\ arrivals < MaxArrivals /\ Step
  /\ mails' = mails \cup {MaxMail - MaxArrivals + arrivals + 1}
  /\ arrivals' = arrivals + 1
  /\ shaken' = TRUE
  /\ UNCHANGED <<read, open, page, filter, rows, count, current, checked, busy,
                 load, act>>

\* The total comes with the first page only; later ones say 0.
Serve(l) ==
  /\ load[l].pc = "asked"
  /\ load' = [load EXCEPT ![l].pc = "served",
                          ![l].answer = Page(load[l].page, load[l].filter),
                          ![l].total = IF load[l].page = 1
                                       THEN Cardinality(Matching(load[l].filter)) ELSE 0]
  /\ UNCHANGED <<backend, open, page, filter, rows, count, current, checked, busy,
                 act, shaken, steps>>

NextMail(a) == Max(act[a].todo)

\* One call of an operation.  A mail that is gone cannot be marked; deleting it again
\* is a success.
Execute(a) ==
  LET i == NextMail(a) IN
  /\ act[a].pc = "asked" /\ act[a].todo # {}
  /\ \/ /\ act[a].kind \in Marks
        /\ read' = IF i \notin mails THEN read
                   ELSE IF act[a].read THEN read \cup {i} ELSE read \ {i}
        /\ act' = [act EXCEPT ![a].pc = "served", ![a].ok = i \in mails]
        /\ UNCHANGED mails
     \/ /\ act[a].kind \in Deletes
        /\ mails' = mails \ {i}
        /\ read' = read \ {i}
        /\ act' = [act EXCEPT ![a].pc = "served", ![a].ok = TRUE]
  /\ UNCHANGED <<arrivals, open, page, filter, rows, count, current, checked, busy,
                 load, shaken, steps>>

-----------------------------------------------------------------------------
(* Loads.                                                                  *)

Loading  == {l \in Loads : load[l].pc # "idle"}
Acting   == {a \in Acts : act[a].pc # "idle"}
IsBusy   == busy # {}
\* refresh() reads the page, and fetchMailData the filter, when it is called.
Ask(ls, p, f, by) ==
  /\ ls \cap Loading = {}
  /\ load' = [l \in Loads |->
                IF l \in ls THEN [NoLoad EXCEPT !.pc = "asked", !.page = p,
                                                !.filter = f, !.act = by]
                ELSE load[l]]
  /\ busy' = busy \cup {"isRefreshing"}
  /\ shaken' = (Loading # {} \/ Cardinality(ls) > 1 \/ Acting \ {by} # {})

\* Returning to the first page is one load, and a second one when that changes the
\* page, by the watch of page.
AskFirst(f) ==
  \E ls \in kSubset(IF page = 1 THEN 1 ELSE 2, Loads) :
    /\ page' = 1
    /\ Ask(ls, 1, f, "none")

Mount ==
  /\ ~open
  /\ open' = TRUE
  /\ \E l \in Loads : Ask({l}, page, filter, "none")
  /\ UNCHANGED <<backend, page, filter, rows, count, current, checked, act, steps>>

SetPage(p) ==
  /\ open /\ Step
  /\ p # page /\ (p - 1) * PageSize < count
  /\ page' = p
  /\ \E l \in Loads : Ask({l}, p, filter, "none")
  /\ UNCHANGED <<backend, open, filter, rows, count, current, checked, act>>

SetFilter(f) ==
  /\ open /\ Step
  /\ f # filter
  /\ filter' = f
  /\ AskFirst(f)
  /\ UNCHANGED <<backend, open, rows, count, current, checked, act>>

\* The button, and the timer of the automatic refresh.
Synchronize ==
  /\ open /\ Step
  /\ "isRefreshing" \notin busy
  /\ AskFirst(filter)
  /\ UNCHANGED <<backend, open, filter, rows, count, current, checked, act>>

\* An operation that waited for its load clears its flags.
Released(a) == IF a = "none" THEN {} ELSE FlagsOf(act[a].kind)

\* The answer replaces the rows, whatever it was asked for.
Settle(l) ==
  LET x   == load[l]
      ids == {r[1] : r \in x.answer}
  IN
  /\ x.pc = "served"
  /\ rows' = x.answer
  /\ count' = IF page = 1 \/ x.total > 0 THEN x.total ELSE count
  /\ current' = IF current \in ids THEN current ELSE Max(ids \cup {0})
  /\ checked' = {}
  /\ busy' = busy \ ({"isRefreshing"} \cup Released(x.act))
  /\ load' = [load EXCEPT ![l] = NoLoad]
  /\ act' = [a \in Acts |->
               IF a = x.act \/ act[a].pc = "idle" THEN NoAct
               ELSE [act[a] EXCEPT !.lost = TRUE]]
  /\ UNCHANGED <<backend, open, page, filter, shaken, steps>>

LoadFails(l) ==
  /\ load[l].pc = "asked" /\ Step
  /\ busy' = busy \ ({"isRefreshing"} \cup Released(load[l].act))
  /\ load' = [load EXCEPT ![l] = NoLoad]
  /\ act' = [a \in Acts |-> IF a = load[l].act THEN NoAct ELSE act[a]]
  /\ shaken' = TRUE
  /\ UNCHANGED <<backend, open, page, filter, rows, count, current, checked>>

-----------------------------------------------------------------------------
(* Operations.                                                             *)

Begin(a, kind, todo, r) ==
  /\ act[a].pc = "idle"
  /\ act' = [act EXCEPT ![a] = [NoAct EXCEPT !.pc = "asked", !.kind = kind,
                                             !.todo = todo, !.read = r]]
  /\ busy' = busy \cup FlagsOf(kind)

\* Mutant: a row is marked while a load is under way.
Mark_WhileBusy(a, i, r) ==
  /\ <<i, r>> \in rows
  /\ Begin(a, "mark", {i}, r)

\* applyMailReadState: a row that shows the state already is left alone.
Mark(a, i, r) ==
  /\ <<i, r>> \in rows
  /\ ~IsBusy
  /\ Begin(a, "mark", {i}, r)

\* A click on the button of the row, or on the row, which also shows the mail.
MarkRow(a, i, r) ==
  /\ open /\ Step
  /\ Mark(a, i, r)
  /\ current' \in IF r THEN {current, i} ELSE {current}
  /\ UNCHANGED <<backend, open, page, filter, rows, count, checked, load, shaken>>

\* Otherwise a click only shows the mail.
ShowRow(i) ==
  /\ open
  /\ \E u \in BOOLEAN : <<i, u>> \in rows /\ (u => IsBusy)
  /\ current' = i
  /\ UNCHANGED <<backend, open, page, filter, rows, count, checked, busy, load, act,
                 shaken, steps>>

\* All the rows; what an operation does to each of them does not depend on the others.
Check ==
  /\ open /\ rows # {} /\ checked = {}
  /\ checked' = {r[1] : r \in rows}
  /\ UNCHANGED <<backend, open, page, filter, rows, count, current, busy, load, act,
                 shaken, steps>>

MarkChecked(a, r) ==
  /\ open /\ Step
  /\ ~IsBusy /\ checked # {}
  /\ Begin(a, "marks", checked, r)
  /\ UNCHANGED <<backend, open, page, filter, rows, count, current, checked, load, shaken>>

\* The confirmation may be given at any time; only the deletion of a row looks at the
\* flags then.
Delete(a, kind, todo) ==
  /\ open /\ Step
  /\ todo # {}
  /\ kind = "deleteRow" => ~IsBusy
  /\ Begin(a, kind, todo, TRUE)
  /\ shaken' = (shaken \/ (kind # "deleteRow" /\ Loading # {}))
  /\ UNCHANGED <<backend, open, page, filter, rows, count, current, checked, load>>

DeleteMail(a) ==
  \/ \E r \in rows : Delete(a, "deleteRow", {r[1]})
  \/ Delete(a, "deleteCurrent", {current} \ {0})
  \/ Delete(a, "deletes", checked)

\* The archive is built in the browser.
Download(a) ==
  /\ open /\ Step
  /\ ~IsBusy /\ checked # {}
  /\ Begin(a, "download", {}, TRUE)
  /\ UNCHANGED <<backend, open, page, filter, rows, count, current, checked, load, shaken>>

Finish(a) ==
  /\ act' = [act EXCEPT ![a] = NoAct]
  /\ busy' = busy \ FlagsOf(act[a].kind)

Downloaded(a) ==
  /\ act[a].kind = "download"
  /\ Finish(a)
  /\ UNCHANGED <<backend, open, page, filter, rows, count, current, checked, load,
                 shaken, steps>>

\* The row object is changed, if it is still the one shown.
MarkedRows(a, i) ==
  IF act[a].lost \/ ~act[a].ok THEN rows
  ELSE {IF s[1] = i THEN <<i, ~act[a].read>> ELSE s : s \in rows}

\* A batch goes on after a mail that could not be marked.
Marked(a) ==
  LET i == NextMail(a)
      rest == act[a].todo \ {i}
  IN
  /\ act[a].kind \in Marks /\ act[a].pc = "served"
  /\ rows' = MarkedRows(a, i)
  /\ shaken' = (shaken \/ ~act[a].ok)
  /\ IF rest = {} THEN Finish(a)
     ELSE /\ act' = [act EXCEPT ![a].pc = "asked", ![a].todo = rest]
          /\ UNCHANGED busy
  /\ UNCHANGED <<backend, open, page, filter, count, current, checked, load, steps>>

\* After the last mail the page is loaded again.
Deleted(a) ==
  LET i == NextMail(a)
      rest == act[a].todo \ {i}
      kind == act[a].kind
  IN
  /\ kind \in Deletes /\ act[a].pc = "served"
  /\ current' = IF kind = "deleteCurrent" \/ (kind = "deleteRow" /\ current = i)
                THEN 0 ELSE current
  /\ act' = [act EXCEPT ![a].pc = IF rest = {} THEN "load" ELSE "asked", ![a].todo = rest]
  /\ UNCHANGED <<backend, open, page, filter, rows, count, checked, busy, load,
                 shaken, steps>>

Reload(a) ==
  /\ act[a].pc = "load"
  /\ act' = [act EXCEPT ![a].pc = "loading"]
  /\ \E l \in Loads : Ask({l}, page, filter, a)
  /\ UNCHANGED <<backend, open, page, filter, rows, count, current, checked, steps>>

\* A call fails, executed or not.  A batch of marks goes on, a deletion ends at once
\* and leaves the rows as they are.
CallFails(a) ==
  LET rest == act[a].todo \ {NextMail(a)} IN
  /\ act[a].pc \in {"asked", "served"} /\ act[a].todo # {} /\ Step
  /\ shaken' = TRUE
  /\ IF act[a].kind = "marks" /\ rest # {}
     THEN /\ act' = [act EXCEPT ![a].pc = "asked", ![a].todo = rest]
          /\ UNCHANGED busy
     ELSE Finish(a)
  /\ UNCHANGED <<backend, open, page, filter, rows, count, current, checked, load>>

-----------------------------------------------------------------------------
Next ==
  \/ Arrive \/ Mount \/ Synchronize \/ Check
  \/ \E p \in PageNumbers : SetPage(p)
  \/ \E f \in AddressFilters : SetFilter(f)
  \/ \E l \in Loads : Serve(l) \/ Settle(l) \/ LoadFails(l)
  \/ \E i \in Ids : ShowRow(i)
  \/ \E a \in Acts :
       \/ Execute(a) \/ Marked(a) \/ Deleted(a) \/ Reload(a) \/ CallFails(a)
       \/ \E i \in Ids, r \in BOOLEAN : MarkRow(a, i, r)
       \/ \E r \in BOOLEAN : MarkChecked(a, r)
       \/ DeleteMail(a) \/ Download(a) \/ Downloaded(a)

Spec == Init /\ [][Next]_vars

-----------------------------------------------------------------------------
(* Properties.                                                             *)

\* When nothing is under way the page shows what the backend has for its
\* page and filter, read states too, unless loads overlapped, one began
\* during an operation, a deletion was confirmed during one, a call failed or
\* a mail arrived (refresh, isBusy and applyMailReadState).
ShownIsCurrent ==
  Loading = {} /\ Acting = {} /\ ~shaken => rows = Page(page, filter)
=============================================================================
