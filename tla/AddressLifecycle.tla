-------------------------- MODULE AddressLifecycle --------------------------
(***************************************************************************)
(* What is kept about one address name outside the address table, and the  *)
(* requests that remove it: the credentials a Telegram chat has bound, the *)
(* chat mail is pushed to, the webhook, and the deletion, transfer and new *)
(* creation of the address.                                                *)
(*                                                                         *)
(* The lists of chats, the chat of an address and its webhook are in KV,   *)
(* keyed by chat or by name; rows of the database are keyed by the id of   *)
(* the address, which AUTOINCREMENT never gives again.  A request reads    *)
(* and writes one of them at a time, each may fail, and requests overlap.  *)
(***************************************************************************)
EXTENDS Integers

CONSTANTS
  Chats,       \* Telegram users
  NoChat,      \* no mail is pushed
  Requests,    \* invocations of the handlers; each runs once
  MaxId,       \* bound: ids the name gets in turn
  MaxVersion   \* bound: credential_version

\* What the constants of an instance satisfy.
AddressLifecycleAssumption ==
  /\ NoChat \notin Chats
  /\ MaxId \in Nat \ {0}
  /\ MaxVersion \in Nat \ {0}

VARIABLES
  id,       \* the address row of the name, or NoRow
  version,  \* its credential_version
  lastId,   \* sqlite_sequence
  lists,    \* KV: chat -> the credentials for this name in its list
  key,      \* KV: the chat mail for the name is pushed to
  webhook,  \* KV: the webhook of the name; history: the row it was saved for,
            \* and whether a deletion of that row had begun
  request,
  \* History, read by the properties only.
  given,    \* <<chat, credential>>: the chat presented or was given it in force
  erased,   \* the ids that a request about them has removed
  moved     \* id -> how many transfers of it have answered with success

vars == <<id, version, lastId, lists, key, webhook, request, given, erased, moved>>

NoRow == 0
Ids   == 1..MaxId

Credential == [id : Ids, version : 1..MaxVersion]
NoWebhook  == [id |-> NoRow, late |-> FALSE]

Kinds == {"create", "new", "bind", "unbind", "clean", "push", "save", "delete",
          "transfer"}

Idle == [kind |-> "create", pc |-> "idle", chat |-> NoChat, id |-> NoRow,
         list |-> {}, shown |-> {}]

Request ==
  [kind  : Kinds,
   pc    : {"idle", "list", "insert", "found", "check", "put", "point", "reader", "drop",
            "send", "save", "bound", "purge", "batch", "recreate", "done", "ok"},
   chat  : Chats \cup {NoChat},
   id    : Ids \cup {NoRow},       \* the row the request is about
   list  : SUBSET Credential,      \* the list it has read or is about to write
   shown : SUBSET Credential]      \* the credential it brings; of a push, the one
                                   \* in force when it looked (history)

TypeOK ==
  /\ id \in Ids \cup {NoRow}
  /\ version \in 1..MaxVersion
  /\ lastId \in Ids \cup {NoRow}
  /\ lists \in [Chats -> SUBSET Credential]
  /\ key \in Chats \cup {NoChat}
  /\ webhook \in [id : Ids \cup {NoRow}, late : BOOLEAN]
  /\ request \in [Requests -> Request]
  /\ given \subseteq Chats \X Credential
  /\ erased \subseteq Ids
  /\ moved \in [Ids -> Nat]

Init ==
  /\ id \in {NoRow, 1}
  /\ version = 1
  /\ lastId = id
  /\ lists = [u \in Chats |-> {}]
  /\ key = NoChat
  /\ webhook = NoWebhook
  /\ request = [r \in Requests |-> Idle]
  /\ given = {}
  /\ erased = {}
  /\ moved = [i \in Ids |-> 0]

-----------------------------------------------------------------------------
(* Credentials.                                                            *)

Current == [id |-> id, version |-> version]

\* Mutant: any credential of an existing address is good.
Valid_ByName(c) == id # NoRow

\* validateAddressJwtPayload: the row has this id and this version.
Valid(c) == id # NoRow /\ c = Current

ValidIn(cs) == {c \in cs : Valid(c)}

\* rotateCredential.
Rotate ==
  /\ id # NoRow
  /\ version < MaxVersion
  /\ version' = version + 1
  /\ UNCHANGED <<id, lastId, lists, key, webhook, request, given, erased, moved>>

-----------------------------------------------------------------------------
(* Requests.                                                               *)

At(r, pc) == request[r].pc = pc

Become(r, x) == request' = [request EXCEPT ![r] = x]
Goes(r, pc)  == Become(r, [request[r] EXCEPT !.pc = pc])
Ends(r)      == Become(r, [Idle EXCEPT !.kind = request[r].kind, !.pc = "done"])

KV   == <<lists, key, webhook>>
Rows == <<id, version, lastId>>

Start(r, x) ==
  /\ At(r, "idle")
  /\ Become(r, x)
  /\ UNCHANGED <<Rows, KV, erased, moved>>

\* /new, /unbind and /cleaninvalidaddress of a chat, a mail that is stored, and
\* the creation of the address by a user or an administrator.
AskNew(r, u)    == Start(r, [Idle EXCEPT !.kind = "new", !.pc = "list", !.chat = u]) /\ UNCHANGED given
AskUnbind(r, u) == Start(r, [Idle EXCEPT !.kind = "unbind", !.pc = "list", !.chat = u]) /\ UNCHANGED given
AskClean(r, u)  == Start(r, [Idle EXCEPT !.kind = "clean", !.pc = "list", !.chat = u]) /\ UNCHANGED given
MailArrives(r)  == Start(r, [Idle EXCEPT !.kind = "push", !.pc = "reader"]) /\ UNCHANGED given
AskCreate(r)    == Start(r, [Idle EXCEPT !.pc = "insert"]) /\ UNCHANGED given

\* /bind with a credential, which is validated first.
AskBind(r, u) ==
  /\ id # NoRow
  /\ Start(r, [Idle EXCEPT !.kind = "bind", !.pc = "list", !.chat = u, !.shown = {Current}])
  /\ given' = given \cup {<<u, Current>>}

\* saveWebhookSettings by a holder of the credential.
AskSave(r) ==
  /\ id # NoRow
  /\ Start(r, [Idle EXCEPT !.kind = "save", !.pc = "save", !.id = id])
  /\ UNCHANGED given

\* The deletions read the row, or take its id from a valid credential; /delete
\* of a chat looks for one in the list of the chat.
AskDelete(r) ==
  /\ id # NoRow
  /\ Start(r, [Idle EXCEPT !.kind = "delete", !.pc = "reader", !.id = id])
  /\ UNCHANGED given

\* transferAddress reads the row, then the users, then the binding.
AskTransfer(r) ==
  /\ id # NoRow
  /\ Start(r, [Idle EXCEPT !.kind = "transfer", !.pc = "bound", !.id = id])
  /\ UNCHANGED given

\* The binding goes with the row.
ReadBinding(r) ==
  /\ At(r, "bound")
  /\ IF id = request[r].id THEN Goes(r, "reader") ELSE Ends(r)
  /\ UNCHANGED <<Rows, KV, given, erased, moved>>

\* An await throws, or a check of other data refuses (the limit of the list,
\* the name, the target of a transfer).
Fails(r) ==
  /\ request[r].pc \notin {"idle", "done", "ok"}
  /\ Ends(r)
  /\ UNCHANGED <<Rows, KV, given, erased, moved>>

-----------------------------------------------------------------------------
(* Lists of chats and the chat of the address.                             *)

\* After unbindTelegramByAddress a deletion goes on.
AfterUnbind(r) ==
  IF request[r].kind \in {"delete", "transfer"} THEN Goes(r, "purge") ELSE Ends(r)

\* unbindTelegramByAddress and sendMailToTelegram look for the chat.
ReadChat(r) ==
  /\ At(r, "reader")
  /\ IF key = NoChat THEN AfterUnbind(r)
     ELSE Become(r, [request[r] EXCEPT !.chat = key, !.pc = "list"])
  /\ UNCHANGED <<Rows, KV, given, erased, moved>>

\* unbindTelegramAddress keeps the credentials of other names only.
ReadList(r) ==
  /\ At(r, "list")
  /\ LET x  == request[r]
         cs == lists[x.chat]
     IN CASE x.kind = "new" -> Become(r, [x EXCEPT !.list = cs, !.pc = "insert"])
          [] x.kind \in {"bind", "clean", "push"} ->
               Become(r, [x EXCEPT !.list = cs, !.pc = "check"])
          [] x.kind \in {"unbind", "delete", "transfer"} ->
               Become(r, [x EXCEPT !.list = {}, !.pc = "put"])
  /\ UNCHANGED <<Rows, KV, given, erased, moved>>

\* jwtListToAddressData validates what was read.
Check(r) ==
  /\ At(r, "check")
  /\ LET x     == request[r]
         valid == ValidIn(x.list)
     IN CASE x.kind = "bind" ->
               IF valid # {} THEN Ends(r)
               ELSE Become(r, [x EXCEPT !.list = @ \cup x.shown, !.pc = "put"])
          [] x.kind = "clean" -> Become(r, [x EXCEPT !.list = valid, !.pc = "put"])
          [] x.kind = "push" ->
               IF valid # {} THEN Become(r, [x EXCEPT !.pc = "send", !.shown = {Current}])
               ELSE Goes(r, "drop")
  /\ UNCHANGED <<Rows, KV, given, erased, moved>>

PutList(r) ==
  /\ At(r, "put")
  /\ LET x == request[r]
     IN /\ lists' = [lists EXCEPT ![x.chat] = x.list]
        /\ IF x.kind = "clean" THEN Ends(r)
           ELSE Goes(r, IF x.kind \in {"new", "bind"} THEN "point" ELSE "drop")
  /\ UNCHANGED <<Rows, key, webhook, given, erased, moved>>

PutChat(r) ==
  /\ At(r, "point")
  /\ key' = request[r].chat
  /\ Ends(r)
  /\ UNCHANGED <<Rows, lists, webhook, given, erased, moved>>

\* Whatever chat it names by now.
DropChat(r) ==
  /\ At(r, "drop")
  /\ key' = NoChat
  /\ AfterUnbind(r)
  /\ UNCHANGED <<Rows, lists, webhook, given, erased, moved>>

\* sendMessage; the request keeps what it sent.
Send(r) ==
  /\ At(r, "send")
  /\ Goes(r, "ok")
  /\ UNCHANGED <<Rows, KV, given, erased, moved>>

-----------------------------------------------------------------------------
(* The address and its webhook.                                            *)

\* INSERT INTO address(name), which is UNIQUE.
Inserted ==
  /\ id = NoRow
  /\ lastId < MaxId
  /\ id' = lastId + 1
  /\ lastId' = id'
  /\ version' = 1

Insert(r) ==
  /\ At(r, "insert")
  /\ Inserted
  /\ Goes(r, "found")
  /\ UNCHANGED <<KV, given, erased, moved>>

\* newAddress reads the id by the name, which may have a new row by then, and
\* answers with a credential of version 1; a chat adds it to its list.
FindRow(r) ==
  /\ At(r, "found")
  /\ id # NoRow
  /\ LET x == request[r]
         c == [id |-> id, version |-> 1]
     IN IF x.kind = "new"
        THEN /\ Become(r, [x EXCEPT !.list = @ \cup {c}, !.pc = "put"])
             /\ given' = given \cup {<<x.chat, c>>}
        ELSE Ends(r) /\ UNCHANGED given
  /\ UNCHANGED <<Rows, KV, erased, moved>>

Deleting(i) ==
  i # id \/ \E r \in Requests : request[r].kind \in {"delete", "transfer"} /\ request[r].id = i

SaveWebhook(r) ==
  /\ At(r, "save")
  /\ webhook' = [id |-> request[r].id, late |-> Deleting(request[r].id)]
  /\ Ends(r)
  /\ UNCHANGED <<Rows, lists, key, given, erased, moved>>

\* Mutant: the webhook stays.
Purged_Never == webhook

\* The webhook of the name, and its objects in the bucket.
Purged == NoWebhook

Purge(r) ==
  /\ At(r, "purge")
  /\ webhook' = Purged
  /\ Goes(r, "batch")
  /\ UNCHANGED <<Rows, lists, key, given, erased, moved>>

\* Mutant: the row is deleted by its name.
Erased_ByName(i) == id' = NoRow

\* DELETE FROM address WHERE id = ?, with the bindings, shares and labels of the
\* id; mails, sent mails and the balance are deleted by name in the same batch.
Erased(i) == id' = IF id = i THEN NoRow ELSE id

EraseRows(r) ==
  /\ At(r, "batch")
  /\ Erased(request[r].id)
  /\ erased' = IF id = request[r].id THEN erased \cup {id} ELSE erased
  /\ IF request[r].kind = "transfer" THEN Goes(r, "recreate") ELSE Ends(r)
  /\ UNCHANGED <<version, lastId, KV, given, moved>>

\* The batch that creates the address for the target; it fails as a whole when
\* the name is there (Fails).
Recreate(r) ==
  /\ At(r, "recreate")
  /\ Inserted
  /\ Goes(r, "ok")
  /\ moved' = [moved EXCEPT ![request[r].id] = @ + 1]
  /\ UNCHANGED <<KV, given, erased>>

Next ==
  \/ Rotate
  \/ \E r \in Requests :
       \/ \E u \in Chats : AskNew(r, u) \/ AskBind(r, u) \/ AskUnbind(r, u) \/ AskClean(r, u)
       \/ MailArrives(r) \/ AskCreate(r) \/ AskSave(r) \/ AskDelete(r) \/ AskTransfer(r)
       \/ ReadBinding(r) \/ Fails(r)
       \/ ReadChat(r) \/ ReadList(r) \/ Check(r) \/ PutList(r) \/ PutChat(r) \/ DropChat(r)
       \/ Send(r) \/ Insert(r) \/ FindRow(r) \/ SaveWebhook(r) \/ Purge(r) \/ EraseRows(r) \/ Recreate(r)

Spec == Init /\ [][Next]_vars

-----------------------------------------------------------------------------
(* Properties.                                                             *)

\* Mail is pushed only to a chat that presented, or was given, the credential in
\* force when the push looked: not to one of an earlier life of the name or of
\* an earlier version, whatever the requests that overlapped have left in KV
\* (sendMailToTelegram).
PushToHolder ==
  \A r \in Requests :
    At(r, "send") => \A c \in request[r].shown : <<request[r].chat, c>> \in given

\* A new address does not start with the webhook of an earlier one of its name,
\* except one that was saved when the deletion of that one had begun
\* (deleteAddressLifecycle).
WebhookOfAddress ==
  id # NoRow /\ webhook.id \notin {id, NoRow} => webhook.late

\* Of overlapping transfers of an address one succeeds: the others erase nothing
\* of the new row and find its name taken, unless that row was deleted in turn
\* (transferAddress).
OneTransferWins ==
  \A i \in Ids : moved[i] > 1 => \E j \in erased : j > i
=============================================================================
