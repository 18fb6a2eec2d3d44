--------------------------- MODULE MailboxProofs ---------------------------
(***************************************************************************)
(* Proofs about Mailbox, for every set of addresses, keys, actors,         *)
(* deliveries and requests and every number of ids and integrations.       *)
(***************************************************************************)
EXTENDS Mailbox, TLAPS

\* The program counters of a delivery.
PC == {"waiting", "summary", "effects", "accepted", "rejected", "dead"} \cup Saving

\* A delivery that only moves on keeps the type and the row id of every delivery.
LEMMA GotoType ==
  ASSUME delivery \in [Deliveries -> Delivery],
         NEW d \in Deliveries, NEW pc \in PC, Goto(d, pc)
  PROVE  /\ delivery' \in [Deliveries -> Delivery]
         /\ delivery'[d].pc = pc
         /\ delivery'[d].mailId = delivery[d].mailId
         /\ \A e \in Deliveries \ {d} : delivery'[e] = delivery[e]
<1>1. delivery[d] \in Delivery  OBVIOUS
<1>2. 0 \in 0..NumEffects  BY MailboxAssumption
<1>3. [delivery[d] EXCEPT !.pc = pc, !.next = 0] \in Delivery
  BY <1>1, <1>2 DEF Delivery, PC
<1> QED BY <1>1, <1>3 DEF Goto, Delivery

\* The initial state is well typed.
LEMMA InitTypeOK == Init => TypeOK
BY MailboxAssumption DEF Init, TypeOK, Delivery, Saving, Request, Idle, Ids

\* The batch of saveInboundDelivery keeps the tables well typed.
LEMMA InsertType ==
  ASSUME TypeOK, NEW d \in Deliveries, NEW i \in Ids, InsertMail(d, i)
  PROVE  /\ mails' \in [Ids -> Deliveries \cup {None}]
         /\ subject' \in [Ids -> Deliveries \cup {None}]
         /\ receipts' \subseteq Addresses \X Keys
         /\ stored' \subseteq Deliveries
BY DEF InsertMail, TypeOK

\* A delivery that takes the id of its new row stays well typed.
LEMMA StoreType ==
  ASSUME delivery \in [Deliveries -> Delivery],
         NEW d \in Deliveries, NEW pc \in PC, NEW i \in Ids,
         delivery' = [delivery EXCEPT ![d].pc = pc, ![d].mailId = i]
  PROVE  /\ delivery' \in [Deliveries -> Delivery]
         /\ delivery'[d].pc = pc
         /\ delivery'[d].mailId = i
         /\ \A e \in Deliveries \ {d} : delivery'[e] = delivery[e]
<1>1. delivery[d] \in Delivery  OBVIOUS
<1>2. [delivery[d] EXCEPT !.pc = pc, !.mailId = i] \in Delivery
  BY <1>1 DEF Delivery, PC
<1> QED BY <1>1, <1>2 DEF Delivery

\* Every step of the email() handler, its death included, preserves the types.
LEMMA EmailTypeOK ==
  ASSUME TypeOK, NEW d \in Deliveries, Email(d) \/ Kill(d)
  PROVE  TypeOK'
<1> USE DEF TypeOK, rowVars, historyVars
<1>1. CASE Refuse(d)          BY <1>1, GotoType DEF Refuse, PC
<1>2. CASE Resolve(d)
  <2>1. PICK first \in {"gzip", "plain"} : Goto(d, first)  BY <1>2 DEF Resolve
  <2>2. delivery' \in [Deliveries -> Delivery]  BY <2>1, GotoType DEF PC, Saving
  <2> QED BY <1>2, <2>2 DEF Resolve
<1>3. CASE Save(d)
  <2>1. PICK i \in Ids : /\ InsertMail(d, i)
                         /\ delivery' = [delivery EXCEPT ![d].pc = "summary", ![d].mailId = i]
    BY <1>3 DEF Save
  <2>2. delivery' \in [Deliveries -> Delivery]  BY <2>1, StoreType DEF PC
  <2> QED BY <1>3, <2>1, <2>2, InsertType DEF Save
<1>4. CASE SaveLosesReply(d)
  <2>1. PICK i \in Ids : /\ InsertMail(d, i)
                         /\ delivery' = [delivery EXCEPT ![d].pc = "rejected", ![d].mailId = i]
    BY <1>4 DEF SaveLosesReply
  <2>2. delivery' \in [Deliveries -> Delivery]  BY <2>1, StoreType DEF PC
  <2> QED BY <1>4, <2>1, <2>2, InsertType DEF SaveLosesReply
<1>5. CASE SaveDuplicate(d)   BY <1>5, GotoType DEF SaveDuplicate, PC
<1>6. CASE SaveFallsBack(d)   BY <1>6, GotoType DEF SaveFallsBack, PC, Saving
<1>7. CASE SaveFails(d)       BY <1>7, GotoType DEF SaveFails, PC
<1>8. CASE Summarize(d)
  <2>1. delivery' \in [Deliveries -> Delivery]  BY <1>8, GotoType DEF Summarize, PC
  <2>2. subject' \in [Ids -> Deliveries \cup {None}]  BY <1>8 DEF Summarize, WriteSummary
  <2> QED BY <1>8, <2>1, <2>2 DEF Summarize
<1>9. CASE RunEffect(d)
  <2> DEFINE i == delivery[d].next + 1
  <2>1. delivery[d] \in Delivery  OBVIOUS
  <2>2. i \in 1..NumEffects
    BY <1>9, <2>1, MailboxAssumption DEF RunEffect, Delivery
  <2>3. [delivery[d] EXCEPT !.next = i] \in Delivery  BY <2>1, <2>2 DEF Delivery
  <2>4. delivery' \in [Deliveries -> Delivery]  BY <1>9, <2>1, <2>3 DEF RunEffect, Delivery
  <2>5. performed' \subseteq Deliveries \X (1..NumEffects)  BY <1>9, <2>2 DEF RunEffect
  <2> QED BY <1>9, <2>4, <2>5 DEF RunEffect
<1>10. CASE Finish(d)         BY <1>10, GotoType DEF Finish, PC
<1>11. CASE Kill(d)           BY <1>11, GotoType DEF Kill, PC
<1> QED BY <1>1, <1>2, <1>3, <1>4, <1>5, <1>6, <1>7, <1>8, <1>9, <1>10, <1>11 DEF Email

\* An idle request is a request.
LEMMA IdleType == Idle \in Request
BY DEF Idle, Request

\* The rows in use have an id and a delivery.
LEMMA RowsType ==
  ASSUME TypeOK
  PROVE  /\ Rows \subseteq Ids
         /\ \A i \in Rows : mails[i] \in Deliveries
         /\ \A a : RowsOf(a) \subseteq Rows
BY DEF TypeOK, Rows, RowsOf

\* DELETE FROM raw_mails keeps the tables well typed.
LEMMA RemoveRowsType ==
  ASSUME TypeOK, NEW S \in SUBSET Rows, RemoveRows(S)
  PROVE  /\ mails' \in [Ids -> Deliveries \cup {None}]
         /\ subject' \in [Ids -> Deliveries \cup {None}]
         /\ aged' \subseteq Ids
         /\ removed' \subseteq Deliveries
BY RowsType DEF RemoveRows, TypeOK

\* A deletion selects rows in use.
LEMMA SelectedType ==
  ASSUME TypeOK, NEW r \in Requests,
         request[r].pc \in {"deletingMail", "clearing", "cleaning"}
  PROVE  Selected(r) \subseteq Rows
BY RowsType DEF Selected

\* The request table after request r is given the value v.
LEMMA RequestSet ==
  ASSUME TypeOK, NEW r \in Requests, NEW v \in Request,
         v.pc = "marking" => v.id \in Ids /\ v.actor \in Actors,
         request' = [request EXCEPT ![r] = v]
  PROVE  /\ request' \in [Requests -> Request]
         /\ \A q \in Requests : request'[q].pc = "marking" =>
                                  request'[q].id \in Ids /\ request'[q].actor \in Actors
BY DEF TypeOK

\* The request table after request r has answered.
LEMMA RequestIdle ==
  ASSUME TypeOK, NEW r \in Requests, request' = [request EXCEPT ![r] = Idle]
  PROVE  /\ request' \in [Requests -> Request]
         /\ \A q \in Requests : request'[q].pc = "marking" =>
                                  request'[q].id \in Ids /\ request'[q].actor \in Actors
BY IdleType, RequestSet DEF Idle

\* Every step of a mail request preserves the types.
LEMMA RequestTypeOK ==
  ASSUME TypeOK, NEW r \in Requests, MailRequest(r)
  PROVE  TypeOK'
<1> USE DEF rowVars, historyVars
<1>1. CASE SelectForMark(r)
  <2>1. PICK i \in Rows, actor \in Actors, read \in BOOLEAN :
          /\ request' = [request EXCEPT ![r] = [Idle EXCEPT !.pc = "marking", !.id = i,
                                                            !.actor = actor, !.read = read]]
          /\ asked' = IF read THEN asked \cup {<<mails[i], actor>>} ELSE asked
    BY <1>1 DEF SelectForMark
  <2> DEFINE v == [Idle EXCEPT !.pc = "marking", !.id = i, !.actor = actor, !.read = read]
  <2>2. i \in Ids /\ mails[i] \in Deliveries  BY RowsType
  <2>3. v \in Request /\ v.id \in Ids /\ v.actor \in Actors  BY <2>2 DEF Idle, Request
  <2>4. asked' \subseteq Deliveries \X Actors  BY <2>1, <2>2 DEF TypeOK
  <2> HIDE DEF v
  <2>5. request' = [request EXCEPT ![r] = v]  BY <2>1 DEF v
  <2> QED BY <1>1, <2>3, <2>4, <2>5, RequestSet DEF SelectForMark, TypeOK
<1>2. CASE WriteMark(r)
  <2>1. request[r].id \in Ids /\ request[r].actor \in Actors  BY <1>2 DEF WriteMark, TypeOK
  <2>2. reads' \subseteq Ids \X Actors  BY <1>2, <2>1 DEF WriteMark, TypeOK
  <2> QED BY <1>2, <2>2, RequestIdle DEF WriteMark, TypeOK
<1>3. CASE BeginDelete(r)
  <2>1. PICK v \in Request : v.pc # "marking" /\ request' = [request EXCEPT ![r] = v]
    <3>1. PICK a \in Addresses :
            \/ \E i \in Ids : request' = [request EXCEPT ![r] =
                   [Idle EXCEPT !.pc = "deletingMail", !.id = i, !.address = a]]
            \/ request' = [request EXCEPT ![r] = [Idle EXCEPT !.pc = "clearing", !.address = a]]
      BY <1>3 DEF BeginDelete
    <3>2. \A i \in Ids : [Idle EXCEPT !.pc = "deletingMail", !.id = i, !.address = a] \in Request
      BY DEF Idle, Request
    <3>3. [Idle EXCEPT !.pc = "clearing", !.address = a] \in Request  BY DEF Idle, Request
    <3> QED BY <3>1, <3>2, <3>3 DEF Idle
  <2>2. reads' \subseteq reads  BY <1>3 DEF BeginDelete, RemoveMarks
  <2> QED BY <1>3, <2>1, <2>2, RequestSet DEF BeginDelete, TypeOK
<1>4. CASE BeginCleanup(r)
  <2> DEFINE v == [Idle EXCEPT !.pc = "cleaning"]
  <2>1. v \in Request /\ v.pc # "marking"  BY DEF Idle, Request
  <2>2. reads' \subseteq reads  BY <1>4 DEF BeginCleanup, RemoveMarks
  <2> HIDE DEF v
  <2>3. request' = [request EXCEPT ![r] = v]  BY <1>4 DEF BeginCleanup, v
  <2> QED BY <1>4, <2>1, <2>2, <2>3, RequestSet DEF BeginCleanup, TypeOK
<1>5. CASE EndDelete(r)
  <2>1. Selected(r) \in SUBSET Rows /\ RemoveRows(Selected(r))  BY <1>5, SelectedType DEF EndDelete
  <2> QED BY <1>5, <2>1, RequestIdle, RemoveRowsType DEF EndDelete, TypeOK
<1>6. CASE AbandonRequest(r)
  BY <1>6, RequestIdle DEF AbandonRequest, TypeOK
<1>7. CASE AdminCountInbox(r)
  <2>1. PICK a \in Addresses :
          request' = [request EXCEPT ![r] = [Idle EXCEPT !.pc = "counted", !.address = a]]
    BY <1>7 DEF AdminCountInbox
  <2> DEFINE v == [Idle EXCEPT !.pc = "counted", !.address = a]
  <2>2. v \in Request /\ v.pc # "marking"  BY DEF Idle, Request
  <2> HIDE DEF v
  <2>3. request' = [request EXCEPT ![r] = v]  BY <2>1 DEF v
  <2> QED BY <1>7, <2>2, <2>3, RequestSet DEF AdminCountInbox, TypeOK
<1>8. CASE AdminClearInbox(r)
  <2> DEFINE S == RowsOf(request[r].address)
  <2>1. S \in SUBSET Rows /\ RemoveRows(S)  BY <1>8, RowsType DEF AdminClearInbox
  <2>2. reads' \subseteq reads  BY <1>8 DEF AdminClearInbox, RemoveMarks
  <2> HIDE DEF S
  <2> QED BY <1>8, <2>1, <2>2, RequestIdle, RemoveRowsType DEF AdminClearInbox, TypeOK
<1> QED BY <1>1, <1>2, <1>3, <1>4, <1>5, <1>6, <1>7, <1>8 DEF MailRequest

\* The single-batch deletion, ageing and the purge of receipts preserve the types.
LEMMA SharedTypeOK == TypeOK /\ (AdminDeleteMail \/ Age \/ PurgeReceipt) => TypeOK'
<1> SUFFICES ASSUME TypeOK, AdminDeleteMail \/ Age \/ PurgeReceipt
             PROVE  TypeOK'
  OBVIOUS
<1> USE DEF TypeOK, rowVars, historyVars
<1>1. CASE AdminDeleteMail
  <2>1. PICK i \in Ids : RemoveMarks({i}) /\ RemoveRows({i} \cap Rows)
    BY <1>1 DEF AdminDeleteMail
  <2>2. reads' \subseteq reads  BY <2>1 DEF RemoveMarks
  <2> QED BY <1>1, <2>1, <2>2, RemoveRowsType DEF AdminDeleteMail
<1>2. CASE Age  BY <1>2 DEF Age, Rows
<1>3. CASE PurgeReceipt  BY <1>3 DEF PurgeReceipt
<1> QED BY <1>1, <1>2, <1>3

\* Every variable keeps its type.
THEOREM TypeCorrect == Spec => []TypeOK
<1>1. TypeOK /\ [Next]_vars => TypeOK'
  <2> SUFFICES ASSUME TypeOK, [Next]_vars
               PROVE  TypeOK'
    OBVIOUS
  <2>1. CASE Next  BY <2>1, EmailTypeOK, RequestTypeOK, SharedTypeOK DEF Next
  <2>2. CASE UNCHANGED vars  BY <2>2 DEF vars, rowVars, historyVars, TypeOK
  <2> QED BY <2>1, <2>2
<1> QED BY InitTypeOK, <1>1, PTL DEF Spec
-----------------------------------------------------------------------------
(***************************************************************************)
(* The ledger: what ties rows, receipts and deliveries together.           *)
(***************************************************************************)

\* Delivery d was stored under id i, and its row is there unless a delete took it.
Copy(d, i) ==
  /\ d \in stored
  /\ delivery[d].mailId = i
  /\ d \in removed \/ mails[i] = d

\* A stored delivery has left the INSERTs behind and knows the id of its row.
Placed ==
  \A d \in stored : /\ delivery[d].pc \notin {"waiting"} \cup Saving
                    /\ delivery[d].mailId \in Ids
                    /\ Copy(d, delivery[d].mailId)

\* A row belongs to the delivery that stored it under this id.
Owned == \A i \in Rows : mails[i] \in stored /\ delivery[mails[i]].mailId = i

\* Only a stored delivery goes on to the summary and the integrations.
Advanced == \A d \in Deliveries : delivery[d].pc \in {"summary", "effects"} => d \in stored

\* A stored envelope has its receipt until the receipt is purged.
Receipted == \A d \in stored : envelope[d] \notin forgotten => envelope[d] \in receipts

\* A receipt, and an accepted delivery, has a stored delivery of its envelope.
Backed ==
  \A d \in Deliveries : envelope[d] \in receipts \/ delivery[d].pc = "accepted" =>
    \E e \in stored : envelope[e] = envelope[d]

\* Integrations run for stored deliveries only.
EffectsStored == \A p \in performed : p[1] \in stored

Ledger ==
  TypeOK /\ Placed /\ Owned /\ Advanced /\ Receipted /\ Backed /\ EffectsStored /\ StoredOnce

\* A request about to mark a mail read was asked to, for a mail with the id it holds.
MarkingOrigin ==
  \A r \in Requests : request[r].pc = "marking" /\ request[r].read =>
    \E d \in stored : <<d, request[r].actor>> \in asked /\ Copy(d, request[r].id)

\* The marks that are written, or about to be, have an origin.
Marks == MarkOrigin /\ MarkingOrigin

\* The initial state has nothing to account for.
LEMMA InitLedger == Init => Ledger
BY InitTypeOK DEF Init, Ledger, Placed, Owned, Advanced, Receipted, Backed,
  EffectsStored, StoredOnce, Rows

\* A step that leaves the row ids of stored deliveries alone, and removes from
\* raw_mails only what it counts as removed, keeps every copy.
LEMMA CopyKept ==
  ASSUME NEW d, NEW i, Copy(d, i),
         stored \subseteq stored', removed \subseteq removed',
         delivery'[d].mailId = delivery[d].mailId,
         mails[i] = d => mails'[i] = d \/ d \in removed'
  PROVE  Copy(d, i)'
BY DEF Copy

\* Removing rows keeps the copies: what leaves raw_mails is counted as removed.
LEMMA RemoveCopies ==
  ASSUME Ledger, NEW S \in SUBSET Rows, RemoveRows(S),
         UNCHANGED <<stored, delivery>>
  PROVE  /\ \A d, i : Copy(d, i) => Copy(d, i)'
         /\ removed \subseteq removed'
         /\ Rows' \subseteq Rows
         /\ \A i \in Rows' : mails'[i] = mails[i]
         /\ \A i \in Rows' : subject'[i] = subject[i]
<1>1. removed \subseteq removed'  BY DEF RemoveRows
<1>2. \A d, i : Copy(d, i) => Copy(d, i)'
  <2> SUFFICES ASSUME NEW d, NEW i, Copy(d, i)
               PROVE  Copy(d, i)'
    OBVIOUS
  <2>1. d # None  BY MailboxAssumption DEF Copy, Ledger, TypeOK
  <2>2. i \in Ids  BY DEF Copy, Ledger, Placed
  <2>3. mails[i] = d => mails'[i] = d \/ d \in removed'  BY <2>2 DEF RemoveRows
  <2> QED BY <1>1, <2>3, CopyKept
<1> QED BY <1>1, <1>2 DEF RemoveRows, Rows

\* A step that only takes rows away keeps the ledger.
LEMMA RemovalLedger ==
  ASSUME Ledger, TypeOK', NEW S \in SUBSET Rows, RemoveRows(S),
         UNCHANGED <<envelope, receipts, delivery, stored, performed, forgotten>>
  PROVE  Ledger'
<1>1. Placed'  BY RemoveCopies DEF Ledger, Placed
<1>2. Owned'  BY RemoveCopies DEF Ledger, Owned
<1>3. Advanced' /\ Receipted' /\ Backed' /\ EffectsStored' /\ StoredOnce'
  BY DEF Ledger, Advanced, Receipted, Backed, EffectsStored, StoredOnce
<1> QED BY <1>1, <1>2, <1>3 DEF Ledger

\* IsNextId gives an id no row has, nor any stored delivery whose row is left.
LEMMA NextIdFree ==
  ASSUME Ledger, NEW i \in Ids, IsNextId(i)
  PROVE  mails[i] = None
BY DEF IsNextId, Ids

\* Inserting the row of an unstored delivery keeps the ledger.
LEMMA InsertLedger ==
  ASSUME Ledger, TypeOK', NEW d \in Deliveries, NEW i \in Ids,
         NEW pc \in {"summary", "rejected"},
         delivery[d].pc \in Saving, envelope[d] \notin receipts, InsertMail(d, i),
         delivery' = [delivery EXCEPT ![d].pc = pc, ![d].mailId = i],
         UNCHANGED <<envelope, removed, performed, forgotten>>
  PROVE  /\ Ledger'
         /\ \A e, j : Copy(e, j) => Copy(e, j)'
<1>1. d \notin stored  BY DEF Ledger, Placed
<1>2. mails[i] = None  BY NextIdFree DEF InsertMail
<1>3. /\ delivery'[d].pc = pc /\ delivery'[d].mailId = i
      /\ \A e \in Deliveries \ {d} : delivery'[e] = delivery[e]
  <2>1. delivery \in [Deliveries -> Delivery] /\ pc \in PC  BY DEF Ledger, TypeOK, PC
  <2> QED BY <2>1, StoreType
<1>4. \A e, j : Copy(e, j) => Copy(e, j)'
  <2> SUFFICES ASSUME NEW e, NEW j, Copy(e, j)
               PROVE  Copy(e, j)'
    OBVIOUS
  <2>1. e \in Deliveries \ {d} /\ e # None
    BY <1>1, MailboxAssumption DEF Copy, Ledger, TypeOK
  <2>2. mails[j] = e => mails'[j] = e
    BY <2>1, <1>2 DEF InsertMail, Ledger, TypeOK
  <2>3. delivery'[e].mailId = delivery[e].mailId /\ stored \subseteq stored'
    BY <1>3, <2>1 DEF InsertMail
  <2> QED BY <2>2, <2>3, CopyKept
<1>5. Copy(d, i)'  BY <1>3 DEF Copy, InsertMail, Ledger, TypeOK
<1>6. Placed'
  BY <1>1, <1>3, <1>4, <1>5 DEF Ledger, TypeOK, Placed, InsertMail, Saving
<1>7. Owned'  BY <1>1, <1>3 DEF Ledger, TypeOK, Owned, Rows, InsertMail
<1>8. Advanced'  BY <1>3 DEF Ledger, Advanced, InsertMail
<1>9. Receipted'  BY DEF Ledger, TypeOK, Receipted, InsertMail
<1>10. Backed'  BY <1>3 DEF Ledger, Backed, InsertMail
<1>11. EffectsStored'  BY DEF Ledger, EffectsStored, InsertMail
<1>12. StoredOnce'
  <2>1. \A e \in stored : envelope[e] = envelope[d] => envelope[d] \in forgotten
    BY DEF Ledger, Receipted
  <2> QED BY <2>1 DEF Ledger, StoredOnce, InsertMail
<1> QED BY <1>4, <1>6, <1>7, <1>8, <1>9, <1>10, <1>11, <1>12 DEF Ledger

\* A delivery that moves on without an INSERT keeps the ledger, when it goes to
\* the integrations only as a stored delivery and is accepted only with a copy.
LEMMA MoveLedger ==
  ASSUME Ledger, TypeOK', NEW d \in Deliveries, NEW pc \in PC,
         delivery'[d].pc = pc,
         delivery'[d].mailId = delivery[d].mailId,
         \A e \in Deliveries \ {d} : delivery'[e] = delivery[e],
         pc \in {"waiting"} \cup Saving => d \notin stored,
         pc \in {"summary", "effects"} => d \in stored,
         pc = "accepted" => \E e \in stored : envelope[e] = envelope[d],
         \A p \in performed' : p[1] \in stored,
         UNCHANGED <<envelope, mails, receipts, stored, removed, forgotten>>
  PROVE  /\ Ledger'
         /\ \A e, j : Copy(e, j) => Copy(e, j)'
<1>1. \A e \in Deliveries : delivery'[e].mailId = delivery[e].mailId  OBVIOUS
<1>2. \A e, j : Copy(e, j) => Copy(e, j)'  BY <1>1 DEF Copy, Ledger, TypeOK
<1>3. Placed'  BY <1>1, <1>2 DEF Ledger, TypeOK, Placed
<1>4. Owned'  BY <1>1 DEF Ledger, TypeOK, Owned, Rows
<1>5. Advanced'  BY DEF Ledger, Advanced
<1>6. Backed'  BY DEF Ledger, Backed
<1>7. Receipted' /\ EffectsStored' /\ StoredOnce'
  BY DEF Ledger, Receipted, EffectsStored, StoredOnce
<1> QED BY <1>2, <1>3, <1>4, <1>5, <1>6, <1>7 DEF Ledger

\* Every step of the email() handler, its death included, keeps the ledger and
\* every copy.
LEMMA EmailLedger ==
  ASSUME Ledger, TypeOK', NEW d \in Deliveries, Email(d) \/ Kill(d)
  PROVE  /\ Ledger'
         /\ \A e, j : Copy(e, j) => Copy(e, j)'
<1> USE DEF rowVars, historyVars
<1>1. delivery \in [Deliveries -> Delivery]  BY DEF Ledger, TypeOK
<1>2. delivery[d].pc \in {"waiting"} \cup Saving => d \notin stored  BY DEF Ledger, Placed
<1>3. delivery[d].pc \in {"summary", "effects"} => d \in stored  BY DEF Ledger, Advanced
<1>4. \A p \in performed : p[1] \in stored  BY DEF Ledger, EffectsStored
<1>5. envelope[d] \in receipts => \E e \in stored : envelope[e] = envelope[d]
  BY DEF Ledger, Backed
<1>6. CASE Refuse(d)
  BY <1>1, <1>4, <1>6, GotoType, MoveLedger DEF Refuse, PC, Saving
<1>7. CASE Resolve(d)
  <2>1. PICK first \in {"gzip", "plain"} : Goto(d, first)  BY <1>7 DEF Resolve
  <2>2. first \in PC /\ first \in Saving /\ d \notin stored
    BY <1>2, <1>7 DEF Resolve, PC, Saving
  <2> QED BY <1>1, <1>4, <1>7, <2>1, <2>2, GotoType, MoveLedger DEF Resolve, Saving
<1>8. CASE Save(d)
  BY <1>8, InsertLedger DEF Save
<1>9. CASE SaveLosesReply(d)
  BY <1>9, InsertLedger DEF SaveLosesReply
<1>10. CASE SaveDuplicate(d)
  BY <1>1, <1>4, <1>5, <1>10, GotoType, MoveLedger DEF SaveDuplicate, PC, Saving
<1>11. CASE SaveFallsBack(d)
  <2> DEFINE pc == IF delivery[d].pc = "gzip" THEN "plain" ELSE "legacy"
  <2>1. pc \in PC /\ pc \in Saving /\ d \notin stored
    BY <1>2, <1>11 DEF SaveFallsBack, PC, Saving
  <2>2. Goto(d, pc)  BY <1>11 DEF SaveFallsBack
  <2> HIDE DEF pc
  <2> QED BY <1>1, <1>4, <1>11, <2>1, <2>2, GotoType, MoveLedger DEF SaveFallsBack, Saving
<1>12. CASE SaveFails(d)
  BY <1>1, <1>4, <1>12, GotoType, MoveLedger DEF SaveFails, PC, Saving
<1>13. CASE Summarize(d)
  BY <1>1, <1>3, <1>4, <1>13, GotoType, MoveLedger DEF Summarize, PC, Saving
<1>14. CASE RunEffect(d)
  <2>1. /\ delivery'[d].pc = "effects" /\ delivery'[d].mailId = delivery[d].mailId
        /\ \A e \in Deliveries \ {d} : delivery'[e] = delivery[e]
    BY <1>1, <1>14 DEF RunEffect, Delivery
  <2>2. d \in stored /\ \A p \in performed' : p[1] \in stored
    BY <1>3, <1>4, <1>14 DEF RunEffect
  <2> QED BY <1>14, <2>1, <2>2, MoveLedger DEF RunEffect, PC, Saving
<1>15. CASE Finish(d)
  BY <1>1, <1>3, <1>4, <1>15, GotoType, MoveLedger DEF Finish, PC, Saving
<1>16. CASE Kill(d)
  BY <1>1, <1>4, <1>16, GotoType, MoveLedger DEF Kill, PC, Saving
<1> QED BY <1>6, <1>7, <1>8, <1>9, <1>10, <1>11, <1>12, <1>13, <1>14, <1>15, <1>16 DEF Email

\* The read-state statements and the first statements of a deletion touch nothing
\* the ledger speaks of.
LEMMA QuietLedger ==
  ASSUME Ledger, TypeOK',
         UNCHANGED <<envelope, mails, receipts, delivery, stored, removed, performed, forgotten>>
  PROVE  /\ Ledger'
         /\ \A e, j : Copy(e, j) => Copy(e, j)'
<1>1. \A e, j : Copy(e, j) => Copy(e, j)'  BY DEF Copy
<1>2. Placed' /\ Owned'  BY <1>1 DEF Ledger, Placed, Owned, Rows
<1>3. Advanced' /\ Receipted' /\ Backed' /\ EffectsStored' /\ StoredOnce'
  BY DEF Ledger, Advanced, Receipted, Backed, EffectsStored, StoredOnce
<1> QED BY <1>1, <1>2, <1>3 DEF Ledger

\* Purging a receipt keeps the ledger: its envelope is forgotten from then on.
LEMMA PurgeLedger ==
  ASSUME Ledger, TypeOK', PurgeReceipt
  PROVE  /\ Ledger'
         /\ \A e, j : Copy(e, j) => Copy(e, j)'
<1>1. \A e, j : Copy(e, j) => Copy(e, j)'  BY DEF PurgeReceipt, rowVars, Copy
<1>2. Placed' /\ Owned' /\ Advanced' /\ EffectsStored'
  BY <1>1 DEF PurgeReceipt, rowVars, Ledger, Placed, Owned, Advanced, EffectsStored, Rows
<1>3. Receipted'  BY DEF PurgeReceipt, Ledger, Receipted
<1>4. Backed' /\ StoredOnce'  BY DEF PurgeReceipt, Ledger, Backed, StoredOnce
<1> QED BY <1>1, <1>2, <1>3, <1>4 DEF Ledger

\* Every step keeps the ledger and every copy.
LEMMA StepLedger ==
  ASSUME Ledger, TypeOK', [Next]_vars
  PROVE  /\ Ledger'
         /\ \A e, j : Copy(e, j) => Copy(e, j)'
<1> USE DEF rowVars, historyVars
<1>1. TypeOK  BY DEF Ledger
<1>2. ASSUME NEW S \in SUBSET Rows, RemoveRows(S),
             UNCHANGED <<envelope, receipts, delivery, stored, performed, forgotten>>
      PROVE  /\ Ledger'
             /\ \A e, j : Copy(e, j) => Copy(e, j)'
  BY <1>2, RemovalLedger, RemoveCopies
<1>3. CASE \E d \in Deliveries : Email(d) \/ Kill(d)  BY <1>3, EmailLedger
<1>4. ASSUME NEW r \in Requests, MailRequest(r)
      PROVE  /\ Ledger'
             /\ \A e, j : Copy(e, j) => Copy(e, j)'
  <2>1. CASE EndDelete(r)
    <3>1. Selected(r) \in SUBSET Rows /\ RemoveRows(Selected(r))
      BY <1>1, <2>1, SelectedType DEF EndDelete
    <3> QED BY <1>2, <2>1, <3>1 DEF EndDelete
  <2>2. CASE AdminClearInbox(r)
    <3>1. RowsOf(request[r].address) \in SUBSET Rows /\ RemoveRows(RowsOf(request[r].address))
      BY <1>1, <2>2, RowsType DEF AdminClearInbox
    <3> QED BY <1>2, <2>2, <3>1 DEF AdminClearInbox
  <2>3. CASE SelectForMark(r)  BY <2>3, QuietLedger DEF SelectForMark
  <2>4. CASE WriteMark(r)  BY <2>4, QuietLedger DEF WriteMark
  <2>5. CASE BeginDelete(r) \/ BeginCleanup(r)
    BY <2>5, QuietLedger DEF BeginDelete, BeginCleanup
  <2>6. CASE AbandonRequest(r) \/ AdminCountInbox(r)
    BY <2>6, QuietLedger DEF AbandonRequest, AdminCountInbox
  <2> QED BY <1>4, <2>1, <2>2, <2>3, <2>4, <2>5, <2>6 DEF MailRequest
<1>5. CASE AdminDeleteMail
  <2>1. PICK i \in Ids : RemoveRows({i} \cap Rows)  BY <1>5 DEF AdminDeleteMail
  <2> QED BY <1>2, <1>5, <2>1 DEF AdminDeleteMail
<1>6. CASE Age  BY <1>6, QuietLedger DEF Age
<1>7. CASE PurgeReceipt  BY <1>7, PurgeLedger
<1>8. CASE UNCHANGED vars  BY <1>8, QuietLedger DEF vars
<1> QED BY <1>3, <1>4, <1>5, <1>6, <1>7, <1>8 DEF Next

\* The ledger is an invariant.
LEMMA LedgerInvariant == Spec => []Ledger
<1>1. Ledger /\ TypeOK' /\ [Next]_vars => Ledger'  BY StepLedger
<1> QED BY InitLedger, <1>1, TypeCorrect, PTL DEF Spec

\* While its receipt is kept, a message is stored once, however often and however
\* concurrently it is delivered (saveInboundDelivery).
THEOREM MessageStoredOnce == Spec => []StoredOnce
<1>1. Ledger => StoredOnce  BY DEF Ledger
<1> QED BY <1>1, LedgerInvariant, PTL

\* An accepted message, first copy or duplicate, was stored and stays stored until
\* it is deleted: email() never drops a message silently.
THEOREM AcceptedMailIsKept == Spec => []AcceptedIsKept
<1>1. Ledger => AcceptedIsKept
  BY DEF Ledger, TypeOK, Backed, Placed, Copy, AcceptedIsKept
<1> QED BY <1>1, LedgerInvariant, PTL

\* An integration sees only stored messages, and each of them at most once while
\* its receipt is kept.
THEOREM IntegrationsRunOnce == Spec => []EffectsOnce
<1>1. Ledger => EffectsOnce
  <2> SUFFICES ASSUME Ledger
               PROVE  EffectsOnce
    OBVIOUS
  <2>1. \A p \in performed : p[1] \in stored /\ p = <<p[1], p[2]>>
    BY DEF Ledger, EffectsStored, TypeOK
  <2>2. \A p, q \in performed :
          envelope[p[1]] = envelope[q[1]] /\ envelope[p[1]] \notin forgotten => p[1] = q[1]
    BY <2>1 DEF Ledger, StoredOnce
  <2> QED BY <2>1, <2>2 DEF EffectsOnce
<1> QED BY <1>1, LedgerInvariant, PTL

\* A mark keeps its origin, and only updateRawMailReadState writes one.
LEMMA StepMarks ==
  ASSUME Ledger, Marks, TypeOK', [Next]_vars
  PROVE  Marks'
<1> USE DEF rowVars, historyVars, Marks
<1>1. /\ Ledger /\ Ledger'
      /\ \A e, j : Copy(e, j) => Copy(e, j)'
  BY StepLedger
<1>2. ASSUME asked \subseteq asked', NEW actor, NEW j,
             \E d \in stored : <<d, actor>> \in asked /\ Copy(d, j)
      PROVE  \E d \in stored' : /\ <<d, actor>> \in asked'
                                /\ delivery'[d].mailId = j
                                /\ d \in removed' \/ mails'[j] = d
  BY <1>1, <1>2 DEF Copy
<1>3. ASSUME reads' \subseteq reads, asked \subseteq asked'
      PROVE  MarkOrigin'
  <2> SUFFICES ASSUME NEW m \in reads'
               PROVE  \E d \in stored' : /\ <<d, m[2]>> \in asked'
                                         /\ delivery'[d].mailId = m[1]
                                         /\ d \in removed' \/ mails'[m[1]] = d
    BY DEF MarkOrigin
  <2>1. \E d \in stored : <<d, m[2]>> \in asked /\ Copy(d, m[1])
    BY <1>3 DEF MarkOrigin, Copy
  <2> QED BY <1>2, <1>3, <2>1
<1>4. ASSUME asked \subseteq asked',
             \A q \in Requests : request'[q].pc = "marking" => request'[q] = request[q]
      PROVE  MarkingOrigin'
  <2> SUFFICES ASSUME NEW q \in Requests, request'[q].pc = "marking", request'[q].read
               PROVE  \E d \in stored' : /\ <<d, request'[q].actor>> \in asked'
                                         /\ delivery'[d].mailId = request'[q].id
                                         /\ d \in removed' \/ mails'[request'[q].id] = d
    BY DEF MarkingOrigin, Copy
  <2>1. request'[q] = request[q]  BY <1>4
  <2>2. PICK actor, j : actor = request[q].actor /\ j = request[q].id  OBVIOUS
  <2>3. \E d \in stored : <<d, actor>> \in asked /\ Copy(d, j)
    BY <2>1, <2>2 DEF MarkingOrigin
  <2>4. \E d \in stored' : /\ <<d, actor>> \in asked'
                           /\ delivery'[d].mailId = j
                           /\ d \in removed' \/ mails'[j] = d
    BY <1>2, <1>4, <2>3
  <2> QED BY <2>1, <2>2, <2>4
<1>10. ASSUME NEW r \in Requests, NEW v, v.pc # "marking",
              request' = [request EXCEPT ![r] = v], asked \subseteq asked'
       PROVE  MarkingOrigin'
  <2>1. \A q \in Requests : request'[q].pc = "marking" => request'[q] = request[q]
    BY <1>1, <1>10 DEF Ledger, TypeOK
  <2> QED BY <1>4, <1>10, <2>1
<1>5. Idle.pc # "marking"  BY DEF Idle
<1>6. ASSUME NEW r \in Requests, SelectForMark(r)
      PROVE  Marks'
  <2>1. PICK i \in Rows, actor \in Actors, read \in BOOLEAN :
          /\ request' = [request EXCEPT ![r] = [Idle EXCEPT !.pc = "marking", !.id = i,
                                                            !.actor = actor, !.read = read]]
          /\ asked' = IF read THEN asked \cup {<<mails[i], actor>>} ELSE asked
    BY <1>6 DEF SelectForMark
  <2> DEFINE v == [Idle EXCEPT !.pc = "marking", !.id = i, !.actor = actor, !.read = read]
  <2>2. v.id = i /\ v.actor = actor /\ v.read = read  BY DEF Idle
  <2>3. mails[i] \in stored /\ delivery[mails[i]].mailId = i
    BY <1>1 DEF Ledger, Owned
  <2> HIDE DEF v
  <2>4. request' = [request EXCEPT ![r] = v]  BY <2>1 DEF v
  <2>5. \A q \in Requests : request'[q] = IF q = r THEN v ELSE request[q]
    BY <1>1, <2>4 DEF Ledger, TypeOK
  <2>6. UNCHANGED <<mails, delivery, stored, removed>> /\ asked \subseteq asked'
    BY <1>6, <2>1 DEF SelectForMark
  <2>7. MarkingOrigin'
    <3> SUFFICES ASSUME NEW q \in Requests, request'[q].pc = "marking", request'[q].read
                 PROVE  \E d \in stored : /\ <<d, request'[q].actor>> \in asked'
                                          /\ delivery[d].mailId = request'[q].id
                                          /\ d \in removed \/ mails[request'[q].id] = d
      BY <2>6 DEF MarkingOrigin, Copy
    <3>1. CASE q = r
      <4>1. request'[q].actor = actor /\ request'[q].id = i /\ read
        BY <2>2, <2>5, <3>1
      <4>2. <<mails[i], actor>> \in asked'  BY <2>1, <4>1
      <4> QED BY <2>3, <4>1, <4>2
    <3>2. CASE q # r
      <4>1. request'[q] = request[q]  BY <2>5, <3>2
      <4>2. MarkingOrigin  OBVIOUS
      <4>3. PICK d \in stored : /\ <<d, request[q].actor>> \in asked
                                /\ delivery[d].mailId = request[q].id
                                /\ d \in removed \/ mails[request[q].id] = d
        BY <4>1, <4>2 DEF MarkingOrigin, Copy
      <4> QED BY <2>6, <4>1, <4>3
    <3> QED BY <3>1, <3>2
  <2> QED BY <1>3, <1>6, <2>6, <2>7 DEF SelectForMark
<1>7. ASSUME NEW r \in Requests, WriteMark(r)
      PROVE  Marks'
  <2> DEFINE mark == <<request[r].id, request[r].actor>>
  <2>1. request[r].read => \E d \in stored : <<d, mark[2]>> \in asked /\ Copy(d, mark[1])
    BY <1>7 DEF MarkingOrigin, WriteMark
  <2>2. \A m \in reads' : m \in reads \/ (m = mark /\ request[r].read)
    BY <1>7 DEF WriteMark
  <2>3. MarkOrigin'
    <3> HIDE DEF mark
    <3>1. \A m \in reads' : \E d \in stored : <<d, m[2]>> \in asked /\ Copy(d, m[1])
      BY <2>1, <2>2 DEF MarkOrigin, Copy
    <3>2. UNCHANGED <<mails, delivery, stored, removed, asked>>  BY <1>7 DEF WriteMark
    <3> QED BY <3>1, <3>2 DEF MarkOrigin, Copy
  <2>4. MarkingOrigin'  BY <1>10, <1>5, <1>7 DEF WriteMark
  <2> QED BY <2>3, <2>4
<1>8. ASSUME NEW r \in Requests, MailRequest(r)
      PROVE  Marks'
  <2>1. CASE BeginDelete(r)
    <3>1. reads' \subseteq reads  BY <2>1 DEF BeginDelete, RemoveMarks
    <3>2. \E v : v.pc # "marking" /\ request' = [request EXCEPT ![r] = v]
      <4>1. PICK a \in Addresses :
              \/ \E i \in Ids : request' = [request EXCEPT ![r] =
                     [Idle EXCEPT !.pc = "deletingMail", !.id = i, !.address = a]]
              \/ request' = [request EXCEPT ![r] = [Idle EXCEPT !.pc = "clearing", !.address = a]]
        BY <2>1 DEF BeginDelete
      <4>2. \A i : [Idle EXCEPT !.pc = "deletingMail", !.id = i, !.address = a].pc # "marking"
        BY DEF Idle
      <4>3. [Idle EXCEPT !.pc = "clearing", !.address = a].pc # "marking"  BY DEF Idle
      <4> QED BY <4>1, <4>2, <4>3
    <3> QED BY <1>3, <1>10, <2>1, <3>1, <3>2 DEF BeginDelete
  <2>2. CASE BeginCleanup(r)
    <3>1. reads' \subseteq reads  BY <2>2 DEF BeginCleanup, RemoveMarks
    <3>2. [Idle EXCEPT !.pc = "cleaning"].pc # "marking"  BY DEF Idle
    <3> QED BY <1>3, <1>10, <2>2, <3>1, <3>2 DEF BeginCleanup
  <2>3. CASE EndDelete(r)      BY <1>3, <1>10, <1>5, <2>3 DEF EndDelete
  <2>4. CASE AbandonRequest(r)  BY <1>3, <1>10, <1>5, <2>4 DEF AbandonRequest
  <2>5. CASE AdminCountInbox(r)
    <3>1. PICK a \in Addresses :
            request' = [request EXCEPT ![r] = [Idle EXCEPT !.pc = "counted", !.address = a]]
      BY <2>5 DEF AdminCountInbox
    <3>2. [Idle EXCEPT !.pc = "counted", !.address = a].pc # "marking"  BY DEF Idle
    <3> QED BY <1>3, <1>10, <2>5, <3>1, <3>2 DEF AdminCountInbox
  <2>6. CASE AdminClearInbox(r)
    <3>1. reads' \subseteq reads  BY <2>6 DEF AdminClearInbox, RemoveMarks
    <3> QED BY <1>3, <1>10, <1>5, <2>6, <3>1 DEF AdminClearInbox
  <2> QED BY <1>6, <1>7, <1>8, <2>1, <2>2, <2>3, <2>4, <2>5, <2>6 DEF MailRequest
<1>9. ASSUME NEW d \in Deliveries, Email(d) \/ Kill(d)
      PROVE  UNCHANGED <<reads, request, asked>>
  BY <1>9 DEF Email, Refuse, Resolve, Save, SaveLosesReply, SaveDuplicate, SaveFallsBack,
    SaveFails, Summarize, RunEffect, Finish, Kill
<1>11. CASE AdminDeleteMail
  <2>1. reads' \subseteq reads  BY <1>11 DEF AdminDeleteMail, RemoveMarks
  <2> QED BY <1>3, <1>4, <1>11, <2>1 DEF AdminDeleteMail
<1>12. CASE Age \/ PurgeReceipt \/ UNCHANGED vars
  BY <1>3, <1>4, <1>12 DEF Age, PurgeReceipt, vars
<1> QED BY <1>3, <1>4, <1>8, <1>9, <1>11, <1>12 DEF Next

\* A summary is written by the delivery of the row, or by one whose row is gone.
SummaryCopy == \A i \in Rows : subject[i] # None => Copy(subject[i], i)

\* A row keeps the origin of its summary, and only email() writes one.
LEMMA StepSummary ==
  ASSUME Ledger, SummaryCopy, TypeOK', [Next]_vars
  PROVE  SummaryCopy'
<1> USE DEF rowVars, historyVars
<1>1. \A e, j : Copy(e, j) => Copy(e, j)'  BY StepLedger
<1>2. ASSUME \A i \in Rows' : subject'[i] # None =>
               i \in Rows /\ subject'[i] = subject[i]
      PROVE  SummaryCopy'
  BY <1>1, <1>2 DEF SummaryCopy, Copy
<1>3. ASSUME NEW d \in Deliveries, NEW i \in Ids, InsertMail(d, i)
      PROVE  SummaryCopy'
  <2>1. \A j \in Rows' : subject'[j] # None => j \in Rows /\ subject'[j] = subject[j]
    BY <1>3 DEF InsertMail, Rows, Ledger, TypeOK
  <2> QED BY <1>2, <2>1
<1>4. ASSUME NEW d \in Deliveries, Summarize(d)
      PROVE  SummaryCopy'
  <2> DEFINE i == delivery[d].mailId
  <2>1. i \in Ids /\ Copy(d, i)
    BY <1>4 DEF Ledger, Advanced, Placed, Summarize
  <2>2. \A j \in Rows' : subject'[j] # None =>
          \/ j \in Rows /\ subject'[j] = subject[j]
          \/ j = i /\ subject'[j] = d
    BY <1>4, <2>1 DEF Summarize, WriteSummary, Rows, Ledger, TypeOK
  <2>3. UNCHANGED <<mails, stored, removed>> /\ delivery'[d].mailId = i
    BY <1>4, GotoType DEF Summarize, Ledger, TypeOK, PC
  <2> QED BY <1>1, <2>1, <2>2, <2>3 DEF SummaryCopy, Copy
<1>5. ASSUME UNCHANGED <<mails, subject>>
      PROVE  SummaryCopy'
  BY <1>2, <1>5 DEF Rows
<1>6. ASSUME NEW S \in SUBSET Rows, RemoveRows(S), UNCHANGED <<stored, delivery>>
      PROVE  SummaryCopy'
  <2>1. \A i \in Rows' : i \in Rows /\ subject'[i] = subject[i]
    BY <1>6, RemoveCopies
  <2> QED BY <1>2, <2>1
<1>7. ASSUME NEW d \in Deliveries, Email(d) \/ Kill(d)
      PROVE  SummaryCopy'
  <2>1. CASE Save(d)  BY <1>3, <2>1 DEF Save
  <2>2. CASE SaveLosesReply(d)  BY <1>3, <2>2 DEF SaveLosesReply
  <2>3. CASE Summarize(d)  BY <1>4, <2>3
  <2> QED BY <1>5, <1>7, <2>1, <2>2, <2>3 DEF Email, Refuse, Resolve, SaveDuplicate,
    SaveFallsBack, SaveFails, RunEffect, Finish, Kill
<1>8. ASSUME NEW r \in Requests, MailRequest(r)
      PROVE  SummaryCopy'
  <2>1. CASE EndDelete(r)
    <3>1. Selected(r) \in SUBSET Rows /\ RemoveRows(Selected(r))
      BY <2>1, SelectedType DEF EndDelete, Ledger
    <3> QED BY <1>6, <2>1, <3>1 DEF EndDelete
  <2>2. CASE AdminClearInbox(r)
    <3>1. RowsOf(request[r].address) \in SUBSET Rows /\ RemoveRows(RowsOf(request[r].address))
      BY <2>2, RowsType DEF AdminClearInbox, Ledger
    <3> QED BY <1>6, <2>2, <3>1 DEF AdminClearInbox
  <2> QED BY <1>5, <1>8, <2>1, <2>2 DEF MailRequest, SelectForMark, WriteMark, BeginDelete,
    BeginCleanup, AbandonRequest, AdminCountInbox
<1>9. CASE AdminDeleteMail
  <2>1. PICK i \in Ids : RemoveRows({i} \cap Rows)  BY <1>9 DEF AdminDeleteMail
  <2> QED BY <1>6, <1>9, <2>1 DEF AdminDeleteMail
<1>10. CASE Age \/ PurgeReceipt \/ UNCHANGED vars
  BY <1>5, <1>10 DEF Age, PurgeReceipt, vars
<1> QED BY <1>7, <1>8, <1>9, <1>10 DEF Next

\* A mark on a mail was asked for by its own actor, for that mail or for a deleted
\* one that had its id: marks move between mails only by the reuse of an id.
THEOREM MarksHaveOrigin == Spec => []MarkOrigin
<1>1. Init => Marks
  BY DEF Init, Marks, MarkOrigin, MarkingOrigin, Idle
<1>2. Ledger /\ TypeOK' /\ Marks /\ [Next]_vars => Marks'
  BY StepMarks
<1>3. Marks => MarkOrigin  BY DEF Marks
<1> QED BY <1>1, <1>2, <1>3, TypeCorrect, LedgerInvariant, PTL DEF Spec

\* A row shows its own summary, or that of a deleted mail that had its id.
THEOREM SummariesHaveOrigin == Spec => []SummaryOrigin
<1>1. Init => SummaryCopy  BY DEF Init, SummaryCopy, Rows
<1>2. Ledger /\ TypeOK' /\ SummaryCopy /\ [Next]_vars => SummaryCopy'  BY StepSummary
<1>3. Ledger /\ SummaryCopy => SummaryOrigin
  BY DEF Ledger, TypeOK, SummaryCopy, Copy, SummaryOrigin
<1> QED BY <1>1, <1>2, <1>3, TypeCorrect, LedgerInvariant, PTL DEF Spec
=============================================================================
