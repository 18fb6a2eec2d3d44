------------------------------ MODULE Mailbox ------------------------------
(***************************************************************************)
(* Inbound mail and the mailbox tables of the Worker: raw_mails,           *)
(* inbound_mail_receipts and mail_read_states.                             *)
(*                                                                         *)
(* A delivery is one invocation of the email() handler; the same message   *)
(* may be delivered several times, concurrently too.  A request is one     *)
(* HTTP or scheduled invocation that marks or deletes mail.  Every D1      *)
(* statement, and every D1 batch, is one atomic step; all other steps      *)
(* interleave.  raw_mails.id is an INTEGER PRIMARY KEY without             *)
(* AUTOINCREMENT, so SQLite gives a new row the largest id in use plus one *)
(* and the id of a deleted last row is used again.                         *)
(***************************************************************************)
EXTENDS Integers

CONSTANTS
  Addresses,    \* mailbox addresses
  Keys,         \* dedup keys: a Message-ID, or the hash of the raw message
  Actors,       \* read-state actors: admin/global, an address, a share, a user
  Reach,        \* Reach[actor]: the addresses whose mail the actor may read
  Deliveries,   \* invocations of email()
  Requests,     \* invocations of the mail handlers and of scheduled()
  MaxId,        \* bound: the largest raw_mails id of the instance
  NumEffects,   \* how many integrations are configured, in the handler's order
  None          \* "no row", "no address", "no actor"

Ids == 1..MaxId

ASSUME MailboxAssumption ==
  /\ MaxId \in Nat \ {0}
  /\ NumEffects \in Nat
  /\ Reach \in [Actors -> SUBSET Addresses]
  /\ None \notin Addresses \cup Actors \cup Deliveries

VARIABLES
  envelope,   \* envelope[d]: the resolved recipient and the dedup key of d
  mails,      \* raw_mails: id -> the delivery that stored the row, or None
  aged,       \* ids of the rows older than the cleanup age
  subject,    \* id -> the delivery whose summary the row holds, or None
  receipts,   \* inbound_mail_receipts: a set of envelopes
  reads,      \* mail_read_states: a set of <<id, actor>>
  delivery,   \* the local state of each email() invocation
  request,    \* the local state of each mail request
  \* History, read by the properties only.
  stored,     \* deliveries whose row was committed
  removed,    \* deliveries whose row a delete statement removed
  performed,  \* <<d, i>>: delivery d ran integration i
  forgotten,  \* envelopes whose receipt the scheduled task has purged
  asked       \* <<d, actor>>: actor asked to mark the mail of d as read

rowVars     == <<mails, aged, subject>>
historyVars == <<stored, removed, performed, forgotten, asked>>
vars == <<envelope, rowVars, receipts, reads, delivery, request, historyVars>>

\* The INSERT statement the delivery is about to try: compressed, plain text, or
\* plain text without the ingress columns.
Saving == {"gzip", "plain", "legacy"}

Delivery ==
  [pc : {"waiting", "summary", "effects", "accepted", "rejected", "dead"} \cup Saving,
   mailId : Ids \cup {0}, next : 0..NumEffects]    \* how many integrations have been tried

Idle == [pc |-> "idle", id |-> 0, address |-> None, actor |-> None, read |-> FALSE]

Request ==
  [pc : {"idle", "marking", "deletingMail", "clearing", "cleaning", "counted"},
   id : Ids \cup {0}, address : Addresses \cup {None},
   actor : Actors \cup {None}, read : BOOLEAN]

TypeOK ==
  /\ envelope \in [Deliveries -> Addresses \X Keys]
  /\ mails \in [Ids -> Deliveries \cup {None}]
  /\ aged \subseteq Ids
  /\ subject \in [Ids -> Deliveries \cup {None}]
  /\ receipts \subseteq Addresses \X Keys
  /\ reads \subseteq Ids \X Actors
  /\ delivery \in [Deliveries -> Delivery]
  /\ request \in [Requests -> Request]
  /\ \A r \in Requests : request[r].pc = "marking" =>
                           request[r].id \in Ids /\ request[r].actor \in Actors
  /\ stored \subseteq Deliveries
  /\ removed \subseteq Deliveries
  /\ performed \subseteq Deliveries \X (1..NumEffects)
  /\ forgotten \subseteq Addresses \X Keys
  /\ asked \subseteq Deliveries \X Actors

Init ==
  /\ envelope \in [Deliveries -> Addresses \X Keys]
  /\ mails = [i \in Ids |-> None]
  /\ aged = {}
  /\ subject = [i \in Ids |-> None]
  /\ receipts = {}
  /\ reads = {}
  /\ delivery = [d \in Deliveries |->
                   [pc |-> "waiting", mailId |-> 0, next |-> 0]]
  /\ request = [r \in Requests |-> Idle]
  /\ stored = {} /\ removed = {} /\ performed = {} /\ forgotten = {} /\ asked = {}

-----------------------------------------------------------------------------
(***************************************************************************)
(* Rows.                                                                   *)
(***************************************************************************)

Rows == {i \in Ids : mails[i] # None}

\* The address column of a row.
AddressOf(i) == envelope[mails[i]][1]

RowsOf(a) == {i \in Rows : AddressOf(i) = a}

\* The id SQLite gives to the next row: one more than the largest in use.
IsNextId(i) ==
  /\ \A j \in Ids : j >= i => mails[j] = None
  /\ i > 1 => mails[i - 1] # None

\* DELETE FROM raw_mails for the rows S.
RemoveRows(S) ==
  /\ mails' = [i \in Ids |-> IF i \in S THEN None ELSE mails[i]]
  /\ subject' = [i \in Ids |-> IF i \in S THEN None ELSE subject[i]]
  /\ aged' = aged \ S
  /\ removed' = removed \cup {mails[i] : i \in S}

\* DELETE FROM mail_read_states WHERE mail_id IN S.
RemoveMarks(S) == reads' = {m \in reads : m[1] \notin S}

-----------------------------------------------------------------------------
(***************************************************************************)
(* email(): one delivery.                                                  *)
(***************************************************************************)

Goto(d, pc) == delivery' = [delivery EXCEPT ![d].pc = pc, ![d].next = 0]

\* The handler refuses the sender or finds the message to be junk.
Refuse(d) ==
  /\ delivery[d].pc = "waiting"
  /\ Goto(d, "rejected")
  /\ UNCHANGED <<envelope, rowVars, receipts, reads, request, historyVars>>

\* The recipient is resolved, the dedup key built and the first INSERT chosen.
Resolve(d) ==
  /\ delivery[d].pc = "waiting"
  /\ \E first \in {"gzip", "plain"} : Goto(d, first)
  /\ UNCHANGED <<envelope, rowVars, receipts, reads, request, historyVars>>

\* Mutant: the row is inserted without its receipt.
InsertMail_NoReceipt(d, i) ==
  /\ IsNextId(i)
  /\ mails' = [mails EXCEPT ![i] = d]
  /\ subject' = [subject EXCEPT ![i] = None]
  /\ stored' = stored \cup {d}
  /\ UNCHANGED receipts

\* The batch commits: the receipt and the row appear together.
InsertMail(d, i) ==
  /\ IsNextId(i)
  /\ receipts' = receipts \cup {envelope[d]}
  /\ mails' = [mails EXCEPT ![i] = d]
  /\ subject' = [subject EXCEPT ![i] = None]
  /\ stored' = stored \cup {d}

Save(d) ==
  /\ delivery[d].pc \in Saving
  /\ envelope[d] \notin receipts
  /\ \E i \in Ids :
       /\ InsertMail(d, i)
       /\ delivery' = [delivery EXCEPT ![d].pc = "summary", ![d].mailId = i]
  /\ UNCHANGED <<envelope, aged, reads, request, removed, performed, forgotten, asked>>

\* The batch commits but its answer is lost: the handler sees an error, rejects.
SaveLosesReply(d) ==
  /\ delivery[d].pc \in Saving
  /\ envelope[d] \notin receipts
  /\ \E i \in Ids :
       /\ InsertMail(d, i)
       /\ delivery' = [delivery EXCEPT ![d].pc = "rejected", ![d].mailId = i]
  /\ UNCHANGED <<envelope, aged, reads, request, removed, performed, forgotten, asked>>

\* Mutant: the handler does not return on a duplicate.
SaveDuplicate_NoReturn(d) ==
  /\ delivery[d].pc \in Saving
  /\ envelope[d] \in receipts
  /\ Goto(d, "effects")
  /\ UNCHANGED <<envelope, rowVars, receipts, reads, request, historyVars>>

\* The UNIQUE constraint on the receipt rolls the batch back: a duplicate, which
\* the handler accepts without any further step.
SaveDuplicate(d) ==
  /\ delivery[d].pc \in Saving
  /\ envelope[d] \in receipts
  /\ Goto(d, "accepted")
  /\ UNCHANGED <<envelope, rowVars, receipts, reads, request, historyVars>>

\* A column is missing: the batch is rolled back and the next older INSERT tried.
SaveFallsBack(d) ==
  /\ delivery[d].pc \in Saving
  /\ delivery[d].pc # "legacy"
  /\ Goto(d, IF delivery[d].pc = "gzip" THEN "plain" ELSE "legacy")
  /\ UNCHANGED <<envelope, rowVars, receipts, reads, request, historyVars>>

\* Mutant: receipt and row are two statements, and only the second one fails.
SaveFails_KeepsReceipt(d) ==
  /\ delivery[d].pc \in Saving
  /\ Goto(d, "rejected")
  /\ receipts' = receipts \cup {envelope[d]}
  /\ UNCHANGED <<envelope, rowVars, reads, request, historyVars>>

\* Any other database error: nothing is written and the delivery is rejected.
SaveFails(d) ==
  /\ delivery[d].pc \in Saving
  /\ Goto(d, "rejected")
  /\ UNCHANGED <<envelope, rowVars, receipts, reads, request, historyVars>>

\* UPDATE raw_mails SET subject ... WHERE id = mailId, on whatever row has that id.
WriteSummary(d) ==
  LET i == delivery[d].mailId IN
  subject' = IF mails[i] = None THEN subject ELSE [subject EXCEPT ![i] = d]

Summarize(d) ==
  /\ delivery[d].pc = "summary"
  /\ \/ WriteSummary(d)
     \/ UNCHANGED subject              \* the error is logged and swallowed
  /\ Goto(d, "effects")
  /\ UNCHANGED <<envelope, mails, aged, receipts, reads, request, historyVars>>

\* The integrations run in order; the failure of one does not stop the next.
RunEffect(d) ==
  LET i == delivery[d].next + 1 IN
  /\ delivery[d].pc = "effects"
  /\ i <= NumEffects
  /\ \/ performed' = performed \cup {<<d, i>>}
     \/ UNCHANGED performed
  /\ delivery' = [delivery EXCEPT ![d].next = i]
  /\ UNCHANGED <<envelope, rowVars, receipts, reads, request,
                 stored, removed, forgotten, asked>>

Finish(d) ==
  /\ delivery[d].pc = "effects"
  /\ delivery[d].next = NumEffects
  /\ Goto(d, "accepted")
  /\ UNCHANGED <<envelope, rowVars, receipts, reads, request, historyVars>>

\* The runtime kills the invocation between two steps.
Kill(d) ==
  /\ delivery[d].pc \in Saving \cup {"summary", "effects"}
  /\ Goto(d, "dead")
  /\ UNCHANGED <<envelope, rowVars, receipts, reads, request, historyVars>>

Email(d) ==
  \/ Refuse(d) \/ Resolve(d)
  \/ Save(d) \/ SaveLosesReply(d) \/ SaveDuplicate(d) \/ SaveFallsBack(d) \/ SaveFails(d)
  \/ Summarize(d) \/ RunEffect(d) \/ Finish(d)

-----------------------------------------------------------------------------
(***************************************************************************)
(* Read state: updateRawMailReadState selects the row, then writes by id.  *)
(***************************************************************************)

SelectForMark(r) ==
  /\ request[r].pc = "idle"
  /\ \E i \in Rows, actor \in Actors, read \in BOOLEAN :
       /\ AddressOf(i) \in Reach[actor]
       /\ request' = [request EXCEPT ![r] = [Idle EXCEPT !.pc = "marking", !.id = i,
                                                         !.actor = actor, !.read = read]]
       /\ asked' = IF read THEN asked \cup {<<mails[i], actor>>} ELSE asked
  /\ UNCHANGED <<envelope, rowVars, receipts, reads, delivery,
                 stored, removed, performed, forgotten>>

\* Mutant: the wish to mark as unread is not honoured.
WriteMark_AlwaysRead(r) ==
  /\ request[r].pc = "marking"
  /\ reads' = reads \cup {<<request[r].id, request[r].actor>>}
  /\ request' = [request EXCEPT ![r] = Idle]
  /\ UNCHANGED <<envelope, rowVars, receipts, delivery, historyVars>>

WriteMark(r) ==
  LET mark == <<request[r].id, request[r].actor>> IN
  /\ request[r].pc = "marking"
  /\ reads' = IF request[r].read THEN reads \cup {mark} ELSE reads \ {mark}
  /\ request' = [request EXCEPT ![r] = Idle]
  /\ UNCHANGED <<envelope, rowVars, receipts, delivery, historyVars>>

-----------------------------------------------------------------------------
(***************************************************************************)
(* Deletion.  The address holder's and the scheduled deletions remove the  *)
(* marks and then the rows, in two statements that each evaluate their     *)
(* own condition; the administrator's use one batch.                       *)
(***************************************************************************)

\* The rows the request's WHERE clause selects when a statement is executed.
Selected(r) ==
  CASE request[r].pc = "deletingMail" -> {request[r].id} \cap RowsOf(request[r].address)
    [] request[r].pc = "clearing"     -> RowsOf(request[r].address)
    [] request[r].pc = "cleaning"     -> aged \cap Rows

\* First statement: the marks.
BeginDelete(r) ==
  /\ request[r].pc = "idle"
  /\ \E a \in Addresses :
       \/ \E i \in Ids :
            /\ request' = [request EXCEPT ![r] = [Idle EXCEPT !.pc = "deletingMail",
                                                              !.id = i, !.address = a]]
            /\ RemoveMarks({i} \cap RowsOf(a))
       \/ /\ request' = [request EXCEPT ![r] = [Idle EXCEPT !.pc = "clearing", !.address = a]]
          /\ RemoveMarks(RowsOf(a))
  /\ UNCHANGED <<envelope, rowVars, receipts, delivery, historyVars>>

BeginCleanup(r) ==
  /\ request[r].pc = "idle"
  /\ request' = [request EXCEPT ![r] = [Idle EXCEPT !.pc = "cleaning"]]
  /\ RemoveMarks(aged \cap Rows)
  /\ UNCHANGED <<envelope, rowVars, receipts, delivery, historyVars>>

\* Second statement: the rows.
EndDelete(r) ==
  /\ request[r].pc \in {"deletingMail", "clearing", "cleaning"}
  /\ RemoveRows(Selected(r))
  /\ request' = [request EXCEPT ![r] = Idle]
  /\ UNCHANGED <<envelope, receipts, reads, delivery, stored, performed, forgotten, asked>>

\* The request's invocation ends between its two statements.
AbandonRequest(r) ==
  /\ request[r].pc # "idle"
  /\ request' = [request EXCEPT ![r] = Idle]
  /\ UNCHANGED <<envelope, rowVars, receipts, reads, delivery, historyVars>>

\* DELETE /admin/mails/:id; the marks of an id that has no row go too.
AdminDeleteMail ==
  /\ \E i \in Ids : RemoveMarks({i}) /\ RemoveRows({i} \cap Rows)
  /\ UNCHANGED <<envelope, receipts, delivery, request, stored, performed, forgotten, asked>>

\* The administrator's clear: the counted snapshot, then the batch.
AdminCountInbox(r) ==
  /\ request[r].pc = "idle"
  /\ \E a \in Addresses :
       request' = [request EXCEPT ![r] = [Idle EXCEPT !.pc = "counted", !.address = a]]
  /\ UNCHANGED <<envelope, rowVars, receipts, reads, delivery, historyVars>>

AdminClearInbox(r) ==
  LET S == RowsOf(request[r].address) IN
  /\ request[r].pc = "counted"
  /\ RemoveMarks(S) /\ RemoveRows(S)
  /\ request' = [request EXCEPT ![r] = Idle]
  /\ UNCHANGED <<envelope, receipts, delivery, stored, performed, forgotten, asked>>

\* A row passes the cleanup age.
Age ==
  /\ \E i \in Rows \ aged : aged' = aged \cup {i}
  /\ UNCHANGED <<envelope, mails, subject, receipts, reads, delivery, request, historyVars>>

\* scheduled() purges receipts older than 30 days.
PurgeReceipt ==
  /\ \E e \in receipts :
       /\ receipts' = receipts \ {e}
       /\ forgotten' = forgotten \cup {e}
  /\ UNCHANGED <<envelope, rowVars, reads, delivery, request, stored, removed, performed, asked>>

-----------------------------------------------------------------------------
MailRequest(r) ==
  \/ SelectForMark(r) \/ WriteMark(r)
  \/ BeginDelete(r) \/ BeginCleanup(r) \/ EndDelete(r) \/ AbandonRequest(r)
  \/ AdminCountInbox(r) \/ AdminClearInbox(r)

Next ==
  \/ \E d \in Deliveries : Email(d) \/ Kill(d)
  \/ \E r \in Requests : MailRequest(r)
  \/ AdminDeleteMail \/ Age \/ PurgeReceipt

Spec == Init /\ [][Next]_vars

-----------------------------------------------------------------------------
(***************************************************************************)
(* Properties.                                                             *)
(***************************************************************************)

\* While the receipt of a message is kept, its retries, concurrent or later,
\* store it once: two deliveries that both stored the same envelope need a purge
\* of the receipt.  (saveInboundDelivery and its receipt table.)
StoredOnce ==
  \A d, e \in stored : envelope[d] = envelope[e] /\ envelope[d] \notin forgotten => d = e

\* "inbound mail is never silently dropped": a delivery that is accepted, as the
\* first copy or as a duplicate, has a stored copy, and that copy is still in
\* raw_mails unless somebody deleted it.
AcceptedIsKept ==
  \A d \in Deliveries : delivery[d].pc = "accepted" =>
    \E e \in stored : /\ envelope[e] = envelope[d]
                      /\ e \in removed \/ mails[delivery[e].mailId] = e

\* Integrations never observe a message that was never stored, and, while its
\* receipt is kept, each of them sees the message at most once.
EffectsOnce ==
  /\ \A p \in performed : p[1] \in stored
  /\ \A p, q \in performed :
       /\ p[2] = q[2]
       /\ envelope[p[1]] = envelope[q[1]]
       /\ envelope[p[1]] \notin forgotten
       => p = q

\* A mark comes from a request of its own actor about a mail that has, or before
\* its deletion had, the row id of the mark.  Only a deleted mail's mark can
\* therefore be shown on another mail.
MarkOrigin ==
  \A m \in reads : \E d \in stored :
    /\ <<d, m[2]>> \in asked
    /\ delivery[d].mailId = m[1]
    /\ d \in removed \/ mails[m[1]] = d

\* A row holds its own summary, or that of a deleted mail whose id it got.
SummaryOrigin ==
  \A i \in Rows : LET d == subject[i] IN
    d # None => d = mails[i] \/ (d \in removed /\ delivery[d].mailId = i)
=============================================================================
