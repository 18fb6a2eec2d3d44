---------------------------- MODULE PartsProofs ----------------------------
(***************************************************************************)
(* The proofs about the parts of MCParts, for any number of requests,      *)
(* slots, pages, mails and arrivals.                                       *)
(*                                                                         *)
(* AddressLifecycle: nothing ties a KV entry to the address row but the    *)
(* requests that write both, so the inductive invariants say what each of  *)
(* these carries: Earned, credentials that its chat holds; Tended, where   *)
(* the deletion of a row with a webhook has come to; Succession, that of   *)
(* the ids up to the last one all but the current have been erased.        *)
(***************************************************************************)
EXTENDS MCParts, Sequences, FiniteSetTheorems, WellFoundedInduction, TLAPS

Removals == {"delete", "transfer"}

\* What the program counter says about the kind of a request, and of its row.
Phase(x) ==
  /\ x.pc = "reader" => x.kind \in Removals \cup {"push"}
  /\ x.pc = "list" => x.kind \in Removals \cup {"new", "bind", "clean", "push", "unbind"}
  /\ x.pc = "check" => x.kind \in {"bind", "clean", "push"}
  /\ x.pc = "send" => x.kind = "push"
  /\ x.pc \in {"bound", "purge", "batch", "recreate"} => x.kind \in Removals
  /\ x.kind \in Removals => x.pc \in {"idle", "done"} \/ x.id \in Ids

\* Chat u holds the credentials cs.
Holds(u, cs) == \A c \in cs : <<u, c>> \in given

\* A request that reads or writes a list does so for a chat, and brings nothing that
\* chat does not hold.
Earning(x) ==
  /\ x.pc \in {"list", "check", "put", "point"} => x.chat \in Chats
  /\ x.kind = "new" /\ x.pc \in {"insert", "found"} => x.chat \in Chats
  /\ Holds(x.chat, x.list)
  /\ x.kind = "bind" \/ x.pc = "send" => Holds(x.chat, x.shown)
  /\ x.pc \in {"bound", "reader"} => x.list = {}

Earned ==
  /\ \A u \in Chats : Holds(u, lists[u])
  /\ \A r \in Requests : Phase(request[r]) /\ Earning(request[r])

\* A webhook that was saved in time is that of the row, and no deletion of the row has
\* got beyond removing it.
Tended ==
  webhook.id # NoRow /\ ~webhook.late =>
    /\ id = webhook.id
    /\ \A r \in Requests :
         request[r].kind \in Removals /\ request[r].id = webhook.id =>
           request[r].pc \notin {"batch", "recreate", "ok"}

\* Ids are given in turn, and each but the last one is erased.
Succession ==
  /\ id \in {NoRow, lastId}
  /\ \A i \in Ids : i <= lastId /\ i # id => i \in erased
  /\ \A r \in Requests : request[r].id <= lastId
  /\ \A i \in Ids : moved[i] > 0 => i < lastId
  /\ OneTransferWins

Order == TypeOK /\ Earned /\ Tended /\ Succession

-----------------------------------------------------------------------------
(***************************************************************************)
(* One request goes on.                                                    *)
(***************************************************************************)

\* x may come after p: it is about the row that p is about, about none, or about the
\* current one if p was idle, and a removal goes beyond the webhook only after that is
\* gone.
Follows(p, x) ==
  /\ \/ x.id \in {p.id, NoRow}
     \/ x.id = id /\ x.pc \notin {"batch", "recreate", "ok"}
  /\ x.kind \in Removals /\ x.pc \in {"batch", "recreate", "ok"} =>
       \/ p.kind = x.kind /\ p.id = x.id /\ p.pc \in {"batch", "recreate"}
       \/ webhook' = NoWebhook

Moves(r) ==
  \E x \in Request : Become(r, x) /\ Phase(x) /\ Earning(x)' /\ Follows(request[r], x)

LEMMA RequestFacts ==
  ASSUME TypeOK, Earned, NEW r \in Requests
  PROVE  /\ request[r] \in Request /\ Phase(request[r]) /\ Earning(request[r])
BY DEF TypeOK, Earned

LEMMA IdleFacts ==
  ASSUME AddressLifecycleAssumption
  PROVE  Idle \in Request /\ Phase(Idle) /\ Earning(Idle)
BY DEF Idle, Request, Kinds, Phase, Earning, Holds, Removals

\* A handler has returned.
LEMMA EndMoves ==
  ASSUME AddressLifecycleAssumption, TypeOK, Earned, NEW r \in Requests, Ends(r)
  PROVE  Moves(r)
<1>1. PICK k \in Kinds : k = request[r].kind  BY DEF TypeOK, Request
<1> DEFINE x == [Idle EXCEPT !.kind = k, !.pc = "done"]
<1>2. /\ x \in Request /\ x.pc = "done" /\ x.id = NoRow
      /\ x.list = {} /\ x.shown = {}
  BY DEF Idle, Request
<1>3. Become(r, x)  BY <1>1 DEF Ends
<1> HIDE DEF x
<1>4. Phase(x) /\ Earning(x)'  BY <1>2 DEF Phase, Earning, Holds
<1>5. Follows(request[r], x)  BY <1>2 DEF Follows
<1> QED BY <1>2, <1>3, <1>4, <1>5 DEF Moves

\* A handler goes on to its next statement.
LEMMA GoesMoves ==
  ASSUME TypeOK, Earned, given \subseteq given', NEW r \in Requests,
         NEW pc \in {"reader", "purge", "batch", "recreate", "ok", "drop", "point", "found"},
         Goes(r, pc), request[r].pc \notin {"idle", "done"},
         pc = "reader" => request[r].pc = "bound",
         pc = "point" => request[r].pc = "put",
         pc = "found" => request[r].pc = "insert",
         pc \in {"purge", "batch", "recreate"} => request[r].kind \in Removals,
         pc \in {"batch", "recreate", "ok"} =>
           \/ request[r].pc \in {"batch", "recreate"}
           \/ request[r].kind \notin Removals
           \/ webhook' = NoWebhook
  PROVE  Moves(r)
<1>1. PICK p \in Request : p = request[r]  BY RequestFacts
<1> DEFINE x == [p EXCEPT !.pc = pc]
<1>2. /\ x \in Request /\ x.pc = pc /\ x.kind = p.kind /\ x.id = p.id
      /\ x.chat = p.chat /\ x.list = p.list /\ x.shown = p.shown
  BY DEF Request
<1>3. Become(r, x)  BY <1>1 DEF Goes
<1> HIDE DEF x
<1>4. Phase(p) /\ Earning(p)  BY <1>1, RequestFacts
<1>5. Phase(x)  BY <1>1, <1>2, <1>4 DEF Phase, Removals
<1>6. Earning(x)'  BY <1>1, <1>2, <1>4 DEF Earning, Holds
<1>7. Follows(p, x)  BY <1>1, <1>2 DEF Follows
<1> QED BY <1>1, <1>2, <1>3, <1>5, <1>6, <1>7 DEF Moves

\* A handler begins.
LEMMA AskMoves ==
  ASSUME AddressLifecycleAssumption, TypeOK, Earned, NEW r \in Requests,
         \/ \E u \in Chats : AskNew(r, u) \/ AskUnbind(r, u) \/ AskClean(r, u)
         \/ MailArrives(r) \/ AskCreate(r)
  PROVE  Moves(r) /\ given \subseteq given'
<1>1. PICK x \in Request :
        /\ Become(r, x) /\ x.id = NoRow /\ x.list = {} /\ x.shown = {}
        /\ \/ x.kind \in {"new", "unbind", "clean"} /\ x.pc = "list" /\ x.chat \in Chats
           \/ x.kind = "push" /\ x.pc = "reader"
           \/ x.kind = "create" /\ x.pc = "insert"
  <2>1. ASSUME NEW u \in Chats, NEW k \in {"new", "unbind", "clean"},
               Become(r, [Idle EXCEPT !.kind = k, !.pc = "list", !.chat = u])
        PROVE  \E x \in Request :
                 /\ Become(r, x) /\ x.id = NoRow /\ x.list = {} /\ x.shown = {}
                 /\ x.kind \in {"new", "unbind", "clean"} /\ x.pc = "list" /\ x.chat \in Chats
    <3> DEFINE x == [Idle EXCEPT !.kind = k, !.pc = "list", !.chat = u]
    <3>1. /\ x \in Request /\ x.id = NoRow /\ x.list = {} /\ x.shown = {}
          /\ x.kind = k /\ x.pc = "list" /\ x.chat = u
      BY DEF Idle, Request, Kinds
    <3> QED BY <2>1, <3>1
  <2>3. CASE \E u \in Chats : AskNew(r, u)    BY <2>1, <2>3 DEF AskNew, Start
  <2>4. CASE \E u \in Chats : AskUnbind(r, u) BY <2>1, <2>4 DEF AskUnbind, Start
  <2>5. CASE \E u \in Chats : AskClean(r, u)  BY <2>1, <2>5 DEF AskClean, Start
  <2>6. CASE MailArrives(r)
    <3> DEFINE x == [Idle EXCEPT !.kind = "push", !.pc = "reader"]
    <3>1. /\ x \in Request /\ x.id = NoRow /\ x.list = {} /\ x.shown = {}
          /\ x.kind = "push" /\ x.pc = "reader"
      BY DEF Idle, Request, Kinds
    <3> QED BY <2>6, <3>1 DEF MailArrives, Start
  <2>7. CASE AskCreate(r)
    <3> DEFINE x == [Idle EXCEPT !.pc = "insert"]
    <3>1. /\ x \in Request /\ x.id = NoRow /\ x.list = {} /\ x.shown = {}
          /\ x.kind = "create" /\ x.pc = "insert"
      BY DEF Idle, Request, Kinds
    <3> QED BY <2>7, <3>1 DEF AskCreate, Start
  <2> QED BY <2>3, <2>4, <2>5, <2>6, <2>7
<1>2. Phase(x) /\ Earning(x)'  BY <1>1 DEF Phase, Earning, Holds, Removals
<1>3. Follows(request[r], x)  BY <1>1 DEF Follows
<1>4. given' = given  BY DEF AskNew, AskUnbind, AskClean, MailArrives, AskCreate
<1> QED BY <1>1, <1>2, <1>3, <1>4 DEF Moves

\* A handler begins that is about the row, or brings the credential in force.
LEMMA AskRowMoves ==
  ASSUME AddressLifecycleAssumption, TypeOK, Earned, NEW r \in Requests,
         \/ \E u \in Chats : AskBind(r, u)
         \/ AskSave(r) \/ AskDelete(r) \/ AskTransfer(r)
  PROVE  Moves(r) /\ given \subseteq given' /\ given' \subseteq Chats \X Credential
<1>0. Current \in Credential /\ id \in Ids
  BY DEF TypeOK, Current, Credential, AskBind, AskSave, AskDelete, AskTransfer
<1>1. CASE \E u \in Chats : AskBind(r, u)
  <2>1. PICK u \in Chats : AskBind(r, u)  BY <1>1
  <2>2. PICK c \in Credential : c = Current  BY <1>0
  <2> DEFINE x == [Idle EXCEPT !.kind = "bind", !.pc = "list", !.chat = u, !.shown = {c}]
  <2>3. /\ x \in Request /\ x.id = NoRow /\ x.list = {} /\ x.shown = {c}
        /\ x.kind = "bind" /\ x.pc = "list" /\ x.chat = u
    BY DEF Idle, Request, Kinds
  <2>4. Become(r, x) /\ given' = given \cup {<<u, c>>}  BY <2>1, <2>2 DEF AskBind, Start
  <2> HIDE DEF x
  <2>5. Phase(x) /\ Earning(x)'  BY <2>3, <2>4 DEF Phase, Earning, Holds, Removals
  <2>6. Follows(request[r], x)  BY <2>3 DEF Follows
  <2>7. given \subseteq given' /\ given' \subseteq Chats \X Credential  BY <2>4 DEF TypeOK
  <2> QED BY <2>3, <2>4, <2>5, <2>6, <2>7 DEF Moves
<1>2. ASSUME NEW k \in {"save", "delete", "transfer"}, NEW pc \in {"save", "reader", "bound"},
             k = "save" <=> pc = "save", given' = given,
             Become(r, [Idle EXCEPT !.kind = k, !.pc = pc, !.id = id])
      PROVE  Moves(r) /\ given \subseteq given' /\ given' \subseteq Chats \X Credential
  <2>1. PICK i \in Ids : i = id  BY <1>0
  <2> DEFINE x == [Idle EXCEPT !.kind = k, !.pc = pc, !.id = i]
  <2>2. /\ x \in Request /\ x.id = i /\ x.list = {} /\ x.shown = {}
        /\ x.kind = k /\ x.pc = pc
    BY DEF Idle, Request, Kinds
  <2>3. Become(r, x)  BY <1>2, <2>1
  <2> HIDE DEF x
  <2>4. Phase(x) /\ Earning(x)'  BY <1>2, <2>2 DEF Phase, Earning, Holds, Removals
  <2>5. Follows(request[r], x)  BY <1>2, <2>1, <2>2 DEF Follows
  <2> QED BY <1>2, <2>2, <2>3, <2>4, <2>5 DEF Moves, TypeOK
<1>3. CASE AskSave(r)  BY <1>2, <1>3 DEF AskSave, Start
<1>4. CASE AskDelete(r)  BY <1>2, <1>4 DEF AskDelete, Start
<1>5. CASE AskTransfer(r)  BY <1>2, <1>5 DEF AskTransfer, Start
<1> QED BY <1>1, <1>3, <1>4, <1>5

\* A handler reads, checks or writes what is kept about the name.
LEMMA ListMoves ==
  ASSUME AddressLifecycleAssumption, TypeOK, Earned, NEW r \in Requests,
         ReadBinding(r) \/ Fails(r) \/ ReadChat(r) \/ ReadList(r)
  PROVE  Moves(r) /\ given' = given
<1>0. given' = given  BY DEF ReadBinding, Fails, ReadChat, ReadList
<1>1. PICK p \in Request : p = request[r]  BY RequestFacts
<1>2. Phase(p) /\ Earning(p)  BY <1>1, RequestFacts
<1>3. CASE Ends(r)  BY <1>0, <1>3, EndMoves
<1>4. ASSUME NEW pc \in {"reader", "purge"}, Goes(r, pc),
             p.pc \in {"bound", "reader"},
             pc = "reader" => p.pc = "bound", pc = "purge" => p.kind \in Removals
      PROVE  Moves(r)
  BY <1>0, <1>1, <1>4, GoesMoves
<1>5. CASE ReadBinding(r)  BY <1>0, <1>1, <1>3, <1>4, <1>5 DEF ReadBinding, At
<1>6. CASE Fails(r)  BY <1>0, <1>3, <1>6 DEF Fails
<1>7. CASE ReadChat(r)
  <2>1. CASE key = NoChat
    BY <1>0, <1>1, <1>3, <1>4, <1>7, <2>1 DEF ReadChat, At, AfterUnbind, Removals
  <2>2. CASE key # NoChat
    <3>1. PICK u \in Chats : u = key  BY <2>2 DEF TypeOK
    <3> DEFINE x == [p EXCEPT !.chat = u, !.pc = "list"]
    <3>2. /\ x \in Request /\ x.pc = "list" /\ x.chat = u
          /\ x.kind = p.kind /\ x.id = p.id /\ x.list = p.list /\ x.shown = p.shown
      BY DEF Request
    <3>3. Become(r, x) /\ p.pc = "reader"  BY <1>1, <1>7, <2>2, <3>1 DEF ReadChat, At
    <3> HIDE DEF x
    <3>4. Phase(x) /\ Earning(x)'
      BY <1>2, <3>2, <3>3 DEF Phase, Earning, Holds, Removals
    <3>5. Follows(p, x)  BY <3>2 DEF Follows
    <3> QED BY <1>0, <1>1, <3>2, <3>3, <3>4, <3>5 DEF Moves
  <2> QED BY <2>1, <2>2
<1>8. CASE ReadList(r)
  <2>1. p.pc = "list" /\ p.chat \in Chats  BY <1>1, <1>2, <1>8 DEF ReadList, At, Earning
  <2>2. PICK cs \in SUBSET Credential : cs = lists[p.chat]  BY <2>1 DEF TypeOK
  <2>3. Holds(p.chat, cs)  BY <2>1, <2>2 DEF Earned
  <2>4. ASSUME NEW l \in {cs, {}}, NEW pc \in {"insert", "check", "put"},
               Become(r, [p EXCEPT !.list = l, !.pc = pc]),
               pc = "check" => p.kind \in {"bind", "clean", "push"}
        PROVE  Moves(r)
    <3> DEFINE x == [p EXCEPT !.list = l, !.pc = pc]
    <3>2. /\ x \in Request /\ x.pc = pc /\ x.list = l
          /\ x.kind = p.kind /\ x.id = p.id /\ x.chat = p.chat /\ x.shown = p.shown
      BY DEF Request
    <3>3. Become(r, x)  BY <2>4
    <3> HIDE DEF x
    <3>4. Phase(x) /\ Earning(x)'
      BY <1>0, <1>2, <2>1, <2>3, <2>4, <3>2 DEF Phase, Earning, Holds
    <3>5. Follows(p, x)  BY <3>2 DEF Follows
    <3> QED BY <1>0, <1>1, <3>2, <3>3, <3>4, <3>5 DEF Moves
  <2>5. p.kind \in Removals \cup {"new", "bind", "clean", "push", "unbind"}
    BY <1>2, <2>1 DEF Phase
  <2>6. CASE p.kind = "new"  BY <1>1, <1>8, <2>2, <2>4, <2>6 DEF ReadList
  <2>7. CASE p.kind \in {"bind", "clean", "push"}
    BY <1>1, <1>8, <2>2, <2>4, <2>7 DEF ReadList
  <2>8. CASE p.kind \in Removals \cup {"unbind"}
    BY <1>1, <1>8, <2>2, <2>4, <2>8 DEF ReadList, Removals
  <2> QED BY <1>0, <2>5, <2>6, <2>7, <2>8
<1> QED BY <1>0, <1>5, <1>6, <1>7, <1>8

LEMMA CheckMoves ==
  ASSUME AddressLifecycleAssumption, TypeOK, Earned, NEW r \in Requests, Check(r)
  PROVE  Moves(r) /\ given' = given
<1>0. given' = given  BY DEF Check
<1>1. PICK p \in Request : p = request[r]  BY RequestFacts
<1>2. Phase(p) /\ Earning(p)  BY <1>1, RequestFacts
<1>3. p.pc = "check" /\ p.chat \in Chats /\ p.list \subseteq Credential
  BY <1>1, <1>2 DEF Check, At, Earning, Request
<1>4. PICK valid : valid = ValidIn(p.list)  OBVIOUS
<1>5. valid \subseteq p.list /\ \A c \in valid : c = Current  BY <1>4 DEF ValidIn, Valid
<1>6. p.kind \in {"bind", "clean", "push"}  BY <1>2, <1>3 DEF Phase
<1>7. CASE p.kind = "bind"
  <2>1. CASE valid # {}  BY <1>0, <1>1, <1>4, <1>7, <2>1, EndMoves DEF Check
  <2>2. CASE valid = {}
    <3> DEFINE x == [p EXCEPT !.list = @ \cup p.shown, !.pc = "put"]
    <3>1. /\ x \in Request /\ x.pc = "put" /\ x.list = p.list \cup p.shown
          /\ x.kind = p.kind /\ x.id = p.id /\ x.chat = p.chat /\ x.shown = p.shown
      BY DEF Request
    <3>2. Become(r, x)  BY <1>1, <1>4, <1>7, <2>2 DEF Check
    <3> HIDE DEF x
    <3>3. Phase(x) /\ Earning(x)'
      BY <1>0, <1>2, <1>3, <1>7, <3>1 DEF Phase, Earning, Holds
    <3>4. Follows(p, x)  BY <3>1 DEF Follows
    <3> QED BY <1>0, <1>1, <3>1, <3>2, <3>3, <3>4 DEF Moves
  <2> QED BY <2>1, <2>2
<1>8. CASE p.kind = "clean"
  <2> DEFINE x == [p EXCEPT !.list = valid, !.pc = "put"]
  <2>1. /\ x \in Request /\ x.pc = "put" /\ x.list = valid
        /\ x.kind = p.kind /\ x.id = p.id /\ x.chat = p.chat /\ x.shown = p.shown
    BY <1>3, <1>5 DEF Request
  <2>2. Become(r, x)  BY <1>1, <1>4, <1>8 DEF Check
  <2> HIDE DEF x
  <2>3. Phase(x) /\ Earning(x)'
    BY <1>0, <1>2, <1>3, <1>5, <1>8, <2>1 DEF Phase, Earning, Holds
  <2>4. Follows(p, x)  BY <2>1 DEF Follows
  <2> QED BY <1>0, <1>1, <2>1, <2>2, <2>3, <2>4 DEF Moves
<1>9. CASE p.kind = "push"
  <2>1. CASE valid # {}
    <3>1. PICK c \in Credential : c = Current /\ c \in p.list  BY <1>3, <1>5, <2>1
    <3> DEFINE x == [p EXCEPT !.pc = "send", !.shown = {c}]
    <3>2. /\ x \in Request /\ x.pc = "send" /\ x.shown = {c}
          /\ x.kind = p.kind /\ x.id = p.id /\ x.chat = p.chat /\ x.list = p.list
      BY DEF Request
    <3>3. Become(r, x)  BY <1>1, <1>4, <1>9, <2>1, <3>1 DEF Check
    <3> HIDE DEF x
    <3>4. Phase(x) /\ Earning(x)'
      BY <1>0, <1>2, <1>9, <3>1, <3>2 DEF Phase, Earning, Holds, Removals
    <3>5. Follows(p, x)  BY <3>2 DEF Follows
    <3> QED BY <1>0, <1>1, <3>2, <3>3, <3>4, <3>5 DEF Moves
  <2>2. CASE valid = {}
    <3>1. Goes(r, "drop")  BY <1>1, <1>4, <1>9, <2>2 DEF Check
    <3> QED BY <1>0, <1>1, <1>3, <3>1, GoesMoves
  <2> QED BY <2>1, <2>2
<1> QED BY <1>6, <1>7, <1>8, <1>9

\* Of what is kept, the list of a chat is written by PutList only.
LEMMA WriteMoves ==
  ASSUME AddressLifecycleAssumption, TypeOK, Earned, NEW r \in Requests,
         PutList(r) \/ PutChat(r) \/ DropChat(r) \/ Send(r)
  PROVE  Moves(r) /\ given' = given
<1>0. given' = given  BY DEF PutList, PutChat, DropChat, Send
<1>1. CASE Ends(r)  BY <1>0, <1>1, EndMoves
<1>2. CASE PutList(r)
  <2>1. request[r].pc = "put"  BY <1>2 DEF PutList, At
  <2>2. Ends(r) \/ Goes(r, "point") \/ Goes(r, "drop")  BY <1>2 DEF PutList
  <2> QED BY <1>0, <1>1, <2>1, <2>2, GoesMoves
<1>3. CASE PutChat(r)  BY <1>1, <1>3 DEF PutChat
<1>4. CASE DropChat(r)
  <2>1. CASE request[r].kind \in Removals
    <3>1. Goes(r, "purge") /\ request[r].pc = "drop"
      BY <1>4, <2>1 DEF DropChat, At, AfterUnbind, Removals
    <3> QED BY <1>0, <2>1, <3>1, GoesMoves
  <2>2. CASE request[r].kind \notin Removals
    BY <1>1, <1>4, <2>2 DEF DropChat, AfterUnbind, Removals
  <2> QED BY <2>1, <2>2
<1>5. CASE Send(r)
  <2>1. Goes(r, "ok") /\ request[r].pc = "send"  BY <1>5 DEF Send, At
  <2>2. request[r].kind \notin Removals  BY <2>1, RequestFacts DEF Phase, Removals
  <2> QED BY <1>0, <2>1, <2>2, GoesMoves
<1> QED BY <1>2, <1>3, <1>4, <1>5

LEMMA RowMoves ==
  ASSUME AddressLifecycleAssumption, TypeOK, Earned, NEW r \in Requests,
         Insert(r) \/ SaveWebhook(r) \/ Purge(r) \/ EraseRows(r) \/ Recreate(r)
  PROVE  Moves(r) /\ given' = given
<1>0. given' = given  BY DEF Insert, SaveWebhook, Purge, EraseRows, Recreate
<1>1. CASE Ends(r)  BY <1>0, <1>1, EndMoves
<1>2. CASE Insert(r)  BY <1>0, <1>2, GoesMoves DEF Insert, At
<1>3. CASE SaveWebhook(r)  BY <1>1, <1>3 DEF SaveWebhook
<1>4. CASE Purge(r)
  <2>1. Goes(r, "batch") /\ webhook' = NoWebhook /\ request[r].pc = "purge"
    BY <1>4 DEF Purge, Purged, At
  <2>2. request[r].kind \in Removals  BY <2>1, RequestFacts DEF Phase
  <2> QED BY <1>0, <2>1, <2>2, GoesMoves
<1>5. CASE EraseRows(r)
  <2>1. request[r].pc = "batch"  BY <1>5 DEF EraseRows, At
  <2>2. CASE request[r].kind = "transfer"
    <3>1. Goes(r, "recreate")  BY <1>5, <2>2 DEF EraseRows
    <3> QED BY <1>0, <2>1, <2>2, <3>1, GoesMoves DEF Removals
  <2>3. CASE request[r].kind # "transfer"  BY <1>1, <1>5, <2>3 DEF EraseRows
  <2> QED BY <2>2, <2>3
<1>6. CASE Recreate(r)
  <2>1. Goes(r, "ok") /\ request[r].pc = "recreate"  BY <1>6 DEF Recreate, At
  <2> QED BY <1>0, <2>1, GoesMoves
<1> QED BY <1>2, <1>3, <1>4, <1>5, <1>6

\* A chat is given the credential that its request adds to its list.
LEMMA FindMoves ==
  ASSUME AddressLifecycleAssumption, TypeOK, Earned, NEW r \in Requests, FindRow(r)
  PROVE  Moves(r) /\ given \subseteq given' /\ given' \subseteq Chats \X Credential
<1>1. PICK p \in Request : p = request[r]  BY RequestFacts
<1>2. Phase(p) /\ Earning(p) /\ p.pc = "found"  BY <1>1, RequestFacts DEF FindRow, At
<1>3. [id |-> id, version |-> 1] \in Credential
  BY DEF FindRow, TypeOK, Credential, AddressLifecycleAssumption
<1>4. PICK c \in Credential : c = [id |-> id, version |-> 1]  BY <1>3
<1>5. CASE p.kind = "new"
  <2>1. p.chat \in Chats  BY <1>2, <1>5 DEF Earning
  <2> DEFINE x == [p EXCEPT !.list = @ \cup {c}, !.pc = "put"]
  <2>2. /\ x \in Request /\ x.pc = "put" /\ x.list = p.list \cup {c}
        /\ x.kind = p.kind /\ x.id = p.id /\ x.chat = p.chat /\ x.shown = p.shown
    BY DEF Request
  <2>3. Become(r, x) /\ given' = given \cup {<<p.chat, c>>}
    BY <1>1, <1>4, <1>5 DEF FindRow
  <2> HIDE DEF x
  <2>4. Phase(x) /\ Earning(x)'
    BY <1>2, <1>5, <2>1, <2>2, <2>3 DEF Phase, Earning, Holds
  <2>5. Follows(p, x)  BY <2>2 DEF Follows
  <2>6. given \subseteq given' /\ given' \subseteq Chats \X Credential
    BY <2>1, <2>3 DEF TypeOK
  <2> QED BY <1>1, <2>2, <2>3, <2>4, <2>5, <2>6 DEF Moves
<1>6. CASE p.kind # "new"
  <2>1. Ends(r) /\ given' = given  BY <1>1, <1>6 DEF FindRow
  <2> QED BY <2>1, EndMoves DEF TypeOK
<1> QED BY <1>5, <1>6

-----------------------------------------------------------------------------
(***************************************************************************)
(* Every step keeps the invariants.                                        *)
(***************************************************************************)

\* What a request does to the rows and to KV.
Writes(r) ==
  \/ PutList(r) \/ PutChat(r) \/ DropChat(r) \/ SaveWebhook(r) \/ Purge(r)
  \/ Insert(r) \/ EraseRows(r) \/ Recreate(r)

Keeps(r) == UNCHANGED <<Rows, KV, erased, moved>>

Effect(r) ==
  /\ Moves(r)
  /\ given \subseteq given' /\ given' \subseteq Chats \X Credential
  /\ Writes(r) \/ Keeps(r)

LEMMA NextEffect ==
  ASSUME AddressLifecycleAssumption, TypeOK, Earned, Next
  PROVE  Rotate \/ \E r \in Requests : Effect(r)
<1>1. ASSUME NEW r \in Requests, Moves(r), given' = given, Writes(r) \/ Keeps(r)
      PROVE  Effect(r)
  BY <1>1 DEF Effect, TypeOK
<1>2. CASE Rotate  BY <1>2
<1>3. ASSUME NEW r \in Requests,
             \/ \E u \in Chats : AskNew(r, u) \/ AskUnbind(r, u) \/ AskClean(r, u)
             \/ MailArrives(r) \/ AskCreate(r)
      PROVE  Effect(r)
  <2>1. given' = given /\ Keeps(r)
    BY <1>3 DEF AskNew, AskUnbind, AskClean, MailArrives, AskCreate, Start, Keeps
  <2> QED BY <1>1, <1>3, <2>1, AskMoves
<1>4. ASSUME NEW r \in Requests,
             \/ \E u \in Chats : AskBind(r, u)
             \/ AskSave(r) \/ AskDelete(r) \/ AskTransfer(r)
      PROVE  Effect(r)
  <2>1. Keeps(r)  BY <1>4 DEF AskBind, AskSave, AskDelete, AskTransfer, Start, Keeps
  <2> QED BY <1>4, <2>1, AskRowMoves DEF Effect
<1>5. ASSUME NEW r \in Requests, ReadBinding(r) \/ Fails(r) \/ ReadChat(r) \/ ReadList(r)
      PROVE  Effect(r)
  <2>1. Keeps(r)  BY <1>5 DEF ReadBinding, Fails, ReadChat, ReadList, Keeps
  <2> QED BY <1>1, <1>5, <2>1, ListMoves
<1>6. ASSUME NEW r \in Requests, Check(r)  PROVE Effect(r)
  <2>1. Keeps(r)  BY <1>6 DEF Check, Keeps
  <2> QED BY <1>1, <1>6, <2>1, CheckMoves
<1>7. ASSUME NEW r \in Requests, PutList(r) \/ PutChat(r) \/ DropChat(r) \/ Send(r)
      PROVE  Effect(r)
  <2>1. Writes(r) \/ Keeps(r)  BY <1>7 DEF Writes, Send, Keeps
  <2> QED BY <1>1, <1>7, <2>1, WriteMoves
<1>8. ASSUME NEW r \in Requests,
             Insert(r) \/ SaveWebhook(r) \/ Purge(r) \/ EraseRows(r) \/ Recreate(r)
      PROVE  Effect(r)
  <2>1. Writes(r)  BY <1>8 DEF Writes
  <2> QED BY <1>1, <1>8, <2>1, RowMoves
<1>9. ASSUME NEW r \in Requests, FindRow(r)  PROVE Effect(r)
  <2>1. Keeps(r)  BY <1>9 DEF FindRow, Keeps
  <2> QED BY <1>9, <2>1, FindMoves DEF Effect
<1> QED BY <1>2, <1>3, <1>4, <1>5, <1>6, <1>7, <1>8, <1>9 DEF Next

\* Which of the variables each write changes, and how.
LEMMA WriteFrame ==
  ASSUME NEW r \in Requests, Writes(r)
  PROVE  /\ Insert(r) \/ Recreate(r) \/ EraseRows(r) \/ UNCHANGED <<Rows, erased>>
         /\ Recreate(r) \/ UNCHANGED moved
         /\ EraseRows(r) \/ UNCHANGED erased
         /\ PutList(r) \/ UNCHANGED lists
         /\ PutChat(r) \/ DropChat(r) \/ UNCHANGED key
         /\ SaveWebhook(r) \/ Purge(r) \/ UNCHANGED webhook
BY DEF Writes, PutList, PutChat, DropChat, SaveWebhook, Purge, Insert, EraseRows, Recreate,
       Rows, KV

LEMMA KeepsFacts ==
  ASSUME NEW r \in Requests, Keeps(r)
  PROVE  UNCHANGED <<id, version, lastId, lists, key, webhook, erased, moved>>
BY DEF Keeps, Rows, KV

\* A row is inserted under the next id.
LEMMA InsertedFacts ==
  ASSUME AddressLifecycleAssumption, TypeOK, Inserted
  PROVE  /\ id = NoRow /\ id' = lastId + 1 /\ lastId' = lastId + 1 /\ version' = 1
         /\ lastId + 1 \in Ids /\ 1 \in 1..MaxVersion
BY DEF Inserted, TypeOK, Ids, NoRow, AddressLifecycleAssumption

LEMMA EffectTyped ==
  ASSUME AddressLifecycleAssumption, TypeOK, Earned, NEW r \in Requests, Effect(r)
  PROVE  TypeOK'
<1>1. request' \in [Requests -> Request]
  <2>1. PICK x \in Request : Become(r, x)  BY DEF Effect, Moves
  <2> QED BY <2>1 DEF Become, TypeOK
<1>2. given' \subseteq Chats \X Credential  BY DEF Effect
<1>3. CASE Keeps(r)  BY <1>1, <1>2, <1>3, KeepsFacts DEF TypeOK
<1>4. CASE Writes(r)
  <2>1. PICK p \in Request : p = request[r]  BY RequestFacts
  <2>2. Phase(p) /\ Earning(p)  BY <2>1, RequestFacts
  <2>3. /\ id' \in Ids \cup {NoRow} /\ version' \in 1..MaxVersion
        /\ lastId' \in Ids \cup {NoRow}
    <3>1. CASE Insert(r) \/ Recreate(r)  BY <3>1, InsertedFacts DEF Insert, Recreate
    <3>2. CASE EraseRows(r)  BY <3>2 DEF EraseRows, Erased, TypeOK
    <3>3. CASE UNCHANGED <<Rows, erased>>  BY <3>3 DEF Rows, TypeOK
    <3> QED BY <1>4, <3>1, <3>2, <3>3, WriteFrame
  <2>4. lists' \in [Chats -> SUBSET Credential]
    <3>1. CASE PutList(r)
      BY <2>1, <3>1 DEF PutList, TypeOK, Request
    <3> QED BY <1>4, <3>1, WriteFrame DEF TypeOK
  <2>5. key' \in Chats \cup {NoChat}
    BY <1>4, <2>1, WriteFrame DEF PutChat, DropChat, TypeOK, Request
  <2>6. webhook' \in [id : Ids \cup {NoRow}, late : BOOLEAN]
    <3>1. CASE SaveWebhook(r)
      <4>1. PICK b : b = Deleting(p.id)  OBVIOUS
      <4>2. b \in BOOLEAN  BY <4>1 DEF Deleting
      <4>3. webhook' = [id |-> p.id, late |-> b]  BY <2>1, <3>1, <4>1 DEF SaveWebhook
      <4> QED BY <4>2, <4>3 DEF Request
    <3>2. CASE Purge(r)  BY <3>2 DEF Purge, Purged, NoWebhook
    <3> QED BY <1>4, <3>1, <3>2, WriteFrame DEF TypeOK
  <2>7. erased' \subseteq Ids
    <3>1. CASE EraseRows(r)
      BY <2>1, <2>2, <3>1 DEF EraseRows, At, Phase, Removals, TypeOK
    <3> QED BY <1>4, <3>1, WriteFrame DEF TypeOK
  <2>8. moved' \in [Ids -> Nat]
    <3>1. CASE Recreate(r)
      BY <2>1, <2>2, <3>1 DEF Recreate, At, Phase, Removals, TypeOK
    <3> QED BY <1>4, <3>1, WriteFrame DEF TypeOK
  <2> QED BY <1>1, <1>2, <2>3, <2>4, <2>5, <2>6, <2>7, <2>8 DEF TypeOK
<1> QED BY <1>3, <1>4 DEF Effect

LEMMA EffectEarned ==
  ASSUME TypeOK, Earned, NEW r \in Requests, Effect(r)
  PROVE  Earned'
<1>1. PICK x \in Request : Become(r, x) /\ Phase(x) /\ Earning(x)'  BY DEF Effect, Moves
<1>2. given \subseteq given'  BY DEF Effect
<1>3. ASSUME NEW u \in Chats  PROVE Holds(u, lists[u])'
  <2>1. CASE PutList(r)
    <3>1. PICK p \in Request : p = request[r]  BY RequestFacts
    <3>2. p.pc = "put" /\ lists' = [lists EXCEPT ![p.chat] = p.list]
      BY <2>1, <3>1 DEF PutList, At
    <3>3. Earning(p)  BY <3>1, RequestFacts
    <3>4. lists'[u] = IF u = p.chat THEN p.list ELSE lists[u]
      BY <3>2 DEF TypeOK
    <3> QED BY <1>2, <3>3, <3>4 DEF Earned, Earning, Holds
  <2>2. CASE UNCHANGED lists  BY <1>2, <2>2 DEF Earned, Holds
  <2> QED BY <2>1, <2>2, WriteFrame, KeepsFacts DEF Effect
<1>4. ASSUME NEW q \in Requests  PROVE Phase(request[q])' /\ Earning(request[q])'
  <2>1. CASE q = r
    <3>1. request'[q] = x  BY <1>1, <2>1 DEF Become, TypeOK
    <3> QED BY <1>1, <3>1 DEF Phase, Earning, Holds
  <2>2. CASE q # r
    <3>1. request'[q] = request[q]  BY <1>1, <2>2 DEF Become, TypeOK
    <3> QED BY <1>2, <3>1 DEF Earned, Phase, Earning, Holds
  <2> QED BY <2>1, <2>2
<1> QED BY <1>3, <1>4 DEF Earned

LEMMA EffectTended ==
  ASSUME AddressLifecycleAssumption, TypeOK, Earned, Tended, NEW r \in Requests, Effect(r)
  PROVE  Tended'
<1>1. PICK p \in Request : p = request[r]  BY RequestFacts
<1>2. PICK x \in Request : Become(r, x) /\ Follows(p, x)  BY <1>1 DEF Effect, Moves
<1>3. Phase(p)  BY <1>1, RequestFacts
<1>4. \A q \in Requests : request'[q] = IF q = r THEN x ELSE request[q]
  BY <1>2 DEF Become, TypeOK
<1> SUFFICES ASSUME webhook'.id # NoRow, ~webhook'.late
             PROVE  /\ id' = webhook'.id
                    /\ \A q \in Requests :
                         request'[q].kind \in Removals /\ request'[q].id = webhook'.id =>
                           request'[q].pc \notin {"batch", "recreate", "ok"}
  BY DEF Tended
<1>5. webhook' # NoWebhook  BY DEF NoWebhook
<1>6. CASE webhook' = webhook /\ id' = id
  BY <1>1, <1>2, <1>4, <1>5, <1>6 DEF Tended, Follows
<1>7. CASE SaveWebhook(r)
  <2>1. PICK b : b = Deleting(p.id)  OBVIOUS
  <2>2. webhook' = [id |-> p.id, late |-> b] /\ p.pc = "save" /\ id' = id
    BY <1>1, <1>7, <2>1 DEF SaveWebhook, At, Rows
  <2>3. ~Deleting(p.id)  BY <2>1, <2>2
  <2>4. /\ id' = webhook'.id
        /\ \A q \in Requests : request[q].kind \in Removals => request[q].id # webhook'.id
    BY <2>2, <2>3 DEF Deleting, Removals
  <2> QED BY <1>2, <1>4, <1>5, <2>2, <2>4 DEF Follows
<1>8. CASE Purge(r)  BY <1>5, <1>8 DEF Purge, Purged
<1>9. CASE Insert(r) \/ Recreate(r)
  <2>1. webhook' = webhook /\ id = NoRow
    BY <1>9, InsertedFacts DEF Insert, Recreate, KV
  <2> QED BY <2>1 DEF Tended
<1>10. CASE EraseRows(r)
  <2>1. webhook' = webhook /\ p.pc = "batch" /\ id' = IF id = p.id THEN NoRow ELSE id
    BY <1>1, <1>10 DEF EraseRows, Erased, KV, At
  <2>2. p.id # id  BY <1>1, <1>3, <2>1 DEF Phase, Tended
  <2> QED BY <1>6, <2>1, <2>2
<1> QED BY <1>6, <1>7, <1>8, <1>9, <1>10, WriteFrame, KeepsFacts DEF Effect, Writes, Rows

LEMMA EffectSuccession ==
  ASSUME AddressLifecycleAssumption, TypeOK, Earned, Succession,
         NEW r \in Requests, Effect(r)
  PROVE  Succession'
<1>1. PICK p \in Request : p = request[r]  BY RequestFacts
<1>2. PICK x \in Request : Become(r, x) /\ Follows(p, x)  BY <1>1 DEF Effect, Moves
<1>3. \A q \in Requests : request'[q] = IF q = r THEN x ELSE request[q]
  BY <1>2 DEF Become, TypeOK
<1>4. /\ lastId \in Nat /\ id \in Nat /\ Ids \subseteq Nat \ {NoRow}
      /\ \A q \in Requests : request[q].id \in Nat /\ request[q].id <= lastId
  BY DEF TypeOK, Request, Ids, NoRow, AddressLifecycleAssumption, Succession
<1>5. x.id \in Nat /\ x.id <= lastId
  BY <1>1, <1>2, <1>4 DEF Follows, Succession, NoRow
<1>6. CASE Insert(r) \/ Recreate(r)
  <2>1. id = NoRow /\ id' = lastId + 1 /\ lastId' = lastId + 1 /\ erased' = erased
    BY <1>6, InsertedFacts DEF Insert, Recreate
  <2>2. /\ id' \in {NoRow, lastId'}
        /\ \A i \in Ids : i <= lastId' /\ i # id' => i \in erased'
    BY <1>4, <2>1 DEF Succession
  <2>3. \A q \in Requests : request'[q].id <= lastId'
    BY <1>3, <1>4, <1>5, <2>1
  <2>4. \A i \in Ids : moved'[i] > 0 => i < lastId'
    <3>1. CASE moved' = moved  BY <1>4, <2>1, <3>1 DEF Succession
    <3>2. CASE Recreate(r)
      <4>1. \A i \in Ids : moved'[i] > 0 => moved[i] > 0 \/ i = p.id
        BY <1>1, <3>2 DEF Recreate, TypeOK
      <4> QED BY <1>1, <1>4, <2>1, <4>1 DEF Succession
    <3> QED BY <1>6, <3>1, <3>2 DEF Insert
  <2>5. OneTransferWins'
    <3>1. CASE moved' = moved  BY <2>1, <3>1 DEF Succession, OneTransferWins
    <3>2. CASE Recreate(r)
      <4>1. \A i \in Ids : moved'[i] > 1 => moved[i] > 1 \/ (i = p.id /\ moved[i] > 0)
        BY <1>1, <3>2 DEF Recreate, TypeOK
      <4>2. ASSUME NEW i \in Ids, moved[i] > 0  PROVE \E j \in erased : j > i
        <5>1. i < lastId  BY <4>2 DEF Succession
        <5>2. lastId \in Ids /\ lastId \in erased
          BY <1>4, <2>1, <5>1 DEF Succession, TypeOK, NoRow
        <5> QED BY <1>4, <5>1, <5>2
      <4> QED BY <2>1, <4>1, <4>2 DEF Succession, OneTransferWins
    <3> QED BY <1>6, <3>1, <3>2 DEF Insert
  <2> QED BY <2>2, <2>3, <2>4, <2>5 DEF Succession
<1>7. ASSUME lastId' = lastId, moved' = moved, erased \subseteq erased',
             id' = id \/ (id' = NoRow /\ id \in erased')
      PROVE  Succession'
  <2>1. \A q \in Requests : request'[q].id <= lastId'  BY <1>3, <1>4, <1>5, <1>7
  <2>2. OneTransferWins'  BY <1>7 DEF Succession, OneTransferWins
  <2> QED BY <1>4, <1>7, <2>1, <2>2 DEF Succession
<1>8. CASE EraseRows(r)
  <2>1. lastId' = lastId /\ moved' = moved  BY <1>8 DEF EraseRows
  <2>2. erased \subseteq erased'  BY <1>8 DEF EraseRows
  <2>3. id' = id \/ (id' = NoRow /\ id \in erased')  BY <1>8 DEF EraseRows, Erased
  <2> QED BY <1>7, <2>1, <2>2, <2>3
<1>9. CASE UNCHANGED <<Rows, erased, moved>>
  <2>1. lastId' = lastId /\ moved' = moved /\ id' = id /\ erased' = erased
    BY <1>9 DEF Rows
  <2> QED BY <1>7, <2>1
<1> QED BY <1>6, <1>8, <1>9, WriteFrame, KeepsFacts DEF Effect, Rows

\* A new version of the credential.
LEMMA RotateOrder ==
  ASSUME AddressLifecycleAssumption, TypeOK, Earned, Tended, Succession,
         Rotate \/ UNCHANGED vars
  PROVE  TypeOK' /\ Earned' /\ Tended' /\ Succession'
<1>1. /\ UNCHANGED <<id, lastId, lists, key, webhook, request, given, erased, moved>>
      /\ version' \in 1..MaxVersion
  <2>1. CASE Rotate
    <3>1. version \in 1..MaxVersion /\ version < MaxVersion /\ MaxVersion \in Nat
      BY <2>1 DEF Rotate, TypeOK, AddressLifecycleAssumption
    <3> QED BY <2>1, <3>1 DEF Rotate
  <2>2. CASE UNCHANGED vars  BY <2>2 DEF vars, TypeOK
  <2> QED BY <2>1, <2>2
<1>2. TypeOK'  BY <1>1 DEF TypeOK
<1>3. Earned'  BY <1>1 DEF Earned, Holds, Phase, Earning
<1>4. Tended'  BY <1>1 DEF Tended
<1>5. Succession'  BY <1>1 DEF Succession, OneTransferWins
<1> QED BY <1>2, <1>3, <1>4, <1>5

LEMMA StartsOrder ==
  ASSUME AddressLifecycleAssumption, Init
  PROVE  Order
<1>1. /\ id \in {NoRow, 1} /\ 1 \in Ids /\ version = 1 /\ lastId = id
      /\ lists = [u \in Chats |-> {}] /\ key = NoChat /\ webhook = NoWebhook
      /\ given = {} /\ erased = {} /\ moved = [i \in Ids |-> 0]
  BY DEF Init, Ids, AddressLifecycleAssumption
<1>2. request \in [Requests -> Request]  BY IdleFacts DEF Init
<1>3. \A r \in Requests : Phase(request[r]) /\ Earning(request[r]) /\ request[r].id = NoRow
  BY IdleFacts DEF Init, Idle
<1>4. TypeOK  BY <1>1, <1>2 DEF TypeOK, NoWebhook, AddressLifecycleAssumption
<1>5. Earned  BY <1>1, <1>3 DEF Earned, Holds
<1>6. Tended  BY <1>1 DEF Tended, NoWebhook
<1>7. Succession
  BY <1>1, <1>3 DEF Succession, OneTransferWins, Ids, NoRow
<1> QED BY <1>4, <1>5, <1>6, <1>7 DEF Order

LEMMA OrderHolds ==
  AddressLifecycleAssumption => (Spec => []Order)
<1> SUFFICES ASSUME AddressLifecycleAssumption PROVE Spec => []Order  OBVIOUS
<1>1. Init => Order  BY StartsOrder
<1>2. Order /\ [Next]_vars => Order'
  <2> SUFFICES ASSUME Order, [Next]_vars  PROVE Order'  OBVIOUS
  <2>1. TypeOK /\ Earned /\ Tended /\ Succession  BY DEF Order
  <2>2. CASE Rotate \/ UNCHANGED vars  BY <2>1, <2>2, RotateOrder DEF Order
  <2>3. CASE \E r \in Requests : Effect(r)
    BY <2>1, <2>3, EffectTyped, EffectEarned, EffectTended, EffectSuccession DEF Order
  <2> QED BY <2>1, <2>2, <2>3, NextEffect
<1> QED BY <1>1, <1>2, PTL DEF Spec

-----------------------------------------------------------------------------
(***************************************************************************)
(* What is promised.                                                       *)
(***************************************************************************)

\* Whatever is done with the address, the chats and the webhook, their rows and KV
\* entries keep their form.
THEOREM TypeCorrect ==
  AddressLifecycleAssumption => (Spec => []TypeOK)
<1> SUFFICES ASSUME AddressLifecycleAssumption PROVE Spec => []TypeOK  OBVIOUS
<1>1. Spec => []Order  BY OrderHolds
<1>2. Order => TypeOK  BY DEF Order
<1> QED BY <1>1, <1>2, PTL

\* sendMailToTelegram pushes to a chat that holds the credential in force: the list
\* it validates holds nothing that the chat did not present to bindTelegramAddress or
\* get from newTelegramAddress, and what is valid of it is the credential of the row.
THEOREM PushReachesHolders ==
  AddressLifecycleAssumption => (Spec => []PushToHolder)
<1> SUFFICES ASSUME AddressLifecycleAssumption PROVE Spec => []PushToHolder  OBVIOUS
<1>1. Spec => []Order  BY OrderHolds
<1>2. Order => PushToHolder
  BY DEF Order, Earned, Earning, Holds, PushToHolder, At
<1> QED BY <1>1, <1>2, PTL

\* deleteAddressLifecycle removes the webhook before the row, so that a row which is
\* inserted for the name later finds one only if it was saved during the deletion.
THEOREM WebhookGoesFirst ==
  AddressLifecycleAssumption => (Spec => []WebhookOfAddress)
<1> SUFFICES ASSUME AddressLifecycleAssumption PROVE Spec => []WebhookOfAddress  OBVIOUS
<1>1. Spec => []Order  BY OrderHolds
<1>2. Order => WebhookOfAddress
  <2> SUFFICES ASSUME Order, id # NoRow, webhook.id \notin {id, NoRow}
               PROVE  webhook.late
    BY DEF WebhookOfAddress
  <2> QED BY DEF Order, Tended
<1> QED BY <1>1, <1>2, PTL

\* transferAddress deletes the row it has read by its id and inserts the next one,
\* so that a second transfer of that row succeeds only after the new one has been
\* removed as well.
THEOREM OneTransferSucceeds ==
  AddressLifecycleAssumption => (Spec => []OneTransferWins)
<1> SUFFICES ASSUME AddressLifecycleAssumption PROVE Spec => []OneTransferWins  OBVIOUS
<1>1. Spec => []Order  BY OrderHolds
<1>2. Order => OneTransferWins  BY DEF Order, Succession
<1> QED BY <1>1, <1>2, PTL

-----------------------------------------------------------------------------
(***************************************************************************)
(* AdminConsole: what the requests of the current generation were sent     *)
(* for.  At most one of them will replace the list, and unless a change    *)
(* was missed it asks for the filter that is shown.                        *)
(***************************************************************************)

\* A load that replaces the list when it is answered.
Fresh(l) == l.current /\ l.kind \in {"snapshot", "navigate", "reload"}

\* What a request in flight was sent for.
ViewLoadFits(l) ==
  /\ l.kind = "none" => l = Console!Free
  /\ l.current => l.session = IF signedIn THEN session ELSE Console!NoSession
  /\ Fresh(l) /\ l.kind = "navigate" => pending = l.view
  /\ ~missed /\ Fresh(l) =>
       /\ l.kind = "navigate" /\ l.view = "flow" => l.filter = filter
       /\ l.kind = "snapshot" /\ view = "flow" /\ ~timer =>
            l.view = "flow" /\ l.filter = filter
       /\ l.kind = "reload" /\ ~timer => l.filter = filter

NoneFresh == \A i \in Slots : ~Fresh(load[i])

\* The list, when nothing will replace it.
ListFits ==
  NoneFresh /\ ~missed /\ ~timer /\ view = "flow" /\ fetched /\ pending = Console!NoView
    => list.filter = filter

ConsoleFits ==
  /\ Console!TypeOK
  /\ Console!ListOfSession
  /\ \A i \in Slots : ViewLoadFits(load[i])
  /\ \A i, j \in Slots : Fresh(load[i]) /\ Fresh(load[j]) => i = j
  /\ ListFits

-----------------------------------------------------------------------------
(* Requests are sent.                                                      *)

NewLoad(kind, v, f, p, s) ==
  [kind |-> kind, view |-> v, filter |-> f, page |-> p, session |-> s, current |-> TRUE]

\* The load x is the only current one.
Renewed(x) ==
  /\ load' \in [Slots -> Console!Load]
  /\ \E i \in Slots : load'[i] = x
  /\ \A i \in Slots : load'[i].current => load'[i] = x
  /\ \A i, j \in Slots : load'[i].current /\ load'[j].current => i = j
  /\ \A i \in Slots : load'[i].kind = "none" => load'[i] = Console!Free

LEMMA FreeStays ==
  ASSUME NEW l \in Console!Load, l = Console!Free  PROVE [l EXCEPT !.current = FALSE] = l
<1>1. ~l.current  BY DEF Console!Free
<1> QED BY <1>1 DEF Console!Load

LEMMA RequestRenews ==
  ASSUME ConsoleFits, NEW kind \in {"snapshot", "navigate", "reload"}, NEW v \in Console!Views,
         NEW f \in Filters, NEW p \in Nat, NEW s \in 0..MaxSessions,
         Console!Request(kind, v, f, p, s)
  PROVE  Renewed(NewLoad(kind, v, f, p, s))
<1> DEFINE x == NewLoad(kind, v, f, p, s)
<1>1. x \in Console!Load /\ x.current /\ x.kind = kind  BY DEF NewLoad, Console!Load
<1>2. load \in [Slots -> Console!Load] /\ \A i \in Slots : ViewLoadFits(load[i])
  BY DEF ConsoleFits, Console!TypeOK
<1>3. PICK i \in Slots : load' = [j \in Slots |-> IF j = i THEN x
                                 ELSE [load[j] EXCEPT !.current = FALSE]]
  BY DEF Console!Request, NewLoad, Console!Superseded
<1> HIDE DEF x
<1>4. \A j \in Slots : /\ [load[j] EXCEPT !.current = FALSE] \in Console!Load
                       /\ ~[load[j] EXCEPT !.current = FALSE].current
                       /\ [load[j] EXCEPT !.current = FALSE].kind = load[j].kind
  BY <1>2 DEF Console!Load
<1>6. \A j \in Slots : load[j].kind = "none" => load[j] = Console!Free  BY <1>2 DEF ViewLoadFits
<1>7. load' \in [Slots -> Console!Load]  BY <1>1, <1>3, <1>4
<1>8. \A j \in Slots : load'[j].current => j = i  BY <1>3, <1>4
<1>9. \A j \in Slots : load'[j].kind = "none" => load'[j] = Console!Free
  BY <1>1, <1>2, <1>3, <1>4, <1>6, FreeStays
<1>10. load'[i] = x  BY <1>3
<1> QED BY <1>7, <1>8, <1>9, <1>10 DEF Renewed, x

\* What follows from a new load of the list.
LEMMA RenewedFits ==
  ASSUME ConsoleFits, Console!TypeOK', Console!ListOfSession', NEW x, Renewed(x), Fresh(x),
         ViewLoadFits(x)'
  PROVE  ConsoleFits'
<1>1. ASSUME NEW i \in Slots  PROVE ViewLoadFits(load[i])'
  <2>1. CASE load'[i].current
    <3>1. load'[i] = x  BY <2>1 DEF Renewed
    <3> QED BY <3>1 DEF ViewLoadFits
  <2>2. CASE ~load'[i].current  BY <2>2 DEF ViewLoadFits, Fresh, Renewed
  <2> QED BY <2>1, <2>2
<1>2. \A i, j \in Slots : Fresh(load[i])' /\ Fresh(load[j])' => i = j
  BY DEF Renewed, Fresh
<1>3. ListFits'
  <2>1. PICK i \in Slots : load'[i] = x  BY DEF Renewed
  <2>2. Fresh(load[i])'  BY <2>1 DEF Fresh
  <2> QED BY <2>2 DEF ListFits, NoneFresh
<1> QED BY <1>1, <1>2, <1>3 DEF ConsoleFits

LEMMA SignInFits ==
  ASSUME Console!AdminConsoleAssumption, ConsoleFits, Console!SignIn  PROVE ConsoleFits'
<1>0. PICK x : x = NewLoad("snapshot", view, Console!ListFilter(view), 1, session + 1)  OBVIOUS
<1>1. /\ view \in Console!Views /\ Console!ListFilter(view) \in Filters
      /\ session + 1 \in 0..MaxSessions
      /\ session + 1 \in Nat
  BY DEF ConsoleFits, Console!TypeOK, Console!ListFilter, Console!AdminConsoleAssumption,
         Console!SignIn
<1>2. Console!Request("snapshot", view, Console!ListFilter(view), 1, session + 1)
  BY DEF Console!SignIn, Console!Snapshot
<1>3. Renewed(x)  BY <1>0, <1>1, <1>2, RequestRenews
<1>4. Console!TypeOK'  BY <1>1, <1>3 DEF Console!SignIn, ConsoleFits, Console!TypeOK, Renewed
<1>5. Console!ListOfSession'  BY DEF Console!SignIn, ConsoleFits, Console!ListOfSession
<1>6. Fresh(x) /\ ViewLoadFits(x)'
  BY <1>0 DEF Console!SignIn, NewLoad, Fresh, ViewLoadFits, Console!ListFilter
<1> QED BY <1>3, <1>4, <1>5, <1>6, RenewedFits

LEMMA RefreshFits ==
  ASSUME Console!AdminConsoleAssumption, ConsoleFits, Console!Refresh  PROVE ConsoleFits'
<1>0. PICK x : x = NewLoad("snapshot", view, Console!ListFilter(view), 1, session)  OBVIOUS
<1>1. view \in Console!Views /\ Console!ListFilter(view) \in Filters
      /\ session \in 0..MaxSessions
  BY DEF ConsoleFits, Console!TypeOK, Console!ListFilter, Console!AdminConsoleAssumption
<1>2. Console!Request("snapshot", view, Console!ListFilter(view), 1, session)
  BY DEF Console!Refresh, Console!Snapshot
<1>3. Renewed(x)  BY <1>0, <1>1, <1>2, RequestRenews
<1>4. Console!TypeOK'
  <2>1. changes' \in 0..ViewChanges
    BY DEF Console!Refresh, Console!Change, ConsoleFits, Console!TypeOK,
           Console!AdminConsoleAssumption
  <2>2. load' \in [Slots -> Console!Load]  BY <1>3 DEF Renewed
  <2> QED BY <2>1, <2>2 DEF Console!Refresh, ConsoleFits, Console!TypeOK
<1>5. Console!ListOfSession'  BY DEF Console!Refresh, ConsoleFits, Console!ListOfSession
<1>6. Fresh(x) /\ ViewLoadFits(x)'
  BY <1>0 DEF Console!Refresh, Console!Change, NewLoad, Fresh, ViewLoadFits, Console!ListFilter
<1> QED BY <1>3, <1>4, <1>5, <1>6, RenewedFits

LEMMA SetViewFits ==
  ASSUME Console!AdminConsoleAssumption, ConsoleFits, NEW v \in Console!Views, Console!SetView(v)
  PROVE  ConsoleFits'
<1>0. PICK x : x = NewLoad("navigate", v, Console!ListFilter(v), 1, session)  OBVIOUS
<1>1. Console!ListFilter(v) \in Filters /\ session \in 0..MaxSessions
  BY DEF ConsoleFits, Console!TypeOK, Console!ListFilter, Console!AdminConsoleAssumption
<1>2. Console!Request("navigate", v, Console!ListFilter(v), 1, session)
  BY DEF Console!SetView
<1>3. Renewed(x)  BY <1>0, <1>1, <1>2, RequestRenews
<1>4. Console!TypeOK'
  BY <1>3
     DEF Console!SetView, Console!Change, ConsoleFits, Console!TypeOK, Renewed,
         Console!AdminConsoleAssumption
<1>5. Console!ListOfSession'  BY DEF Console!SetView, ConsoleFits, Console!ListOfSession
<1>6. Fresh(x) /\ ViewLoadFits(x)'
  BY <1>0 DEF Console!SetView, Console!Change, NewLoad, Fresh, ViewLoadFits, Console!ListFilter
<1> QED BY <1>3, <1>4, <1>5, <1>6, RenewedFits

LEMMA OpenMailFromFits ==
  ASSUME Console!AdminConsoleAssumption, ConsoleFits, NEW f \in Filters, Console!OpenMailFrom(f)
  PROVE  ConsoleFits'
<1>1. /\ view' = "flow" /\ filter' = f /\ page' = 1 /\ changes' = changes + 1
      /\ changes < ViewChanges /\ signedIn
      /\ UNCHANGED <<signedIn, session, pending, list, fetched, users>>
  BY DEF Console!OpenMailFrom, Console!Change
<1>2. "flow" \in Console!Views /\ changes' \in 0..ViewChanges
  BY <1>1 DEF Console!Views, ConsoleFits, Console!TypeOK, Console!AdminConsoleAssumption
<1>3. Console!ListOfSession'  BY <1>1 DEF ConsoleFits, Console!ListOfSession
<1>4. CASE pending = Console!NoView /\ fetched
  <2>0. PICK x : x = NewLoad("snapshot", "flow", f, 1, session)  OBVIOUS
  <2>1. session \in 0..MaxSessions  BY DEF ConsoleFits, Console!TypeOK
  <2>2. Console!Request("snapshot", "flow", f, 1, session) /\ timer' = TRUE /\ missed' = FALSE
    BY <1>4 DEF Console!OpenMailFrom
  <2>3. Renewed(x)  BY <1>2, <2>0, <2>1, <2>2, RequestRenews
  <2>4. Console!TypeOK'
    <3>1. load' \in [Slots -> Console!Load]  BY <2>3 DEF Renewed
    <3>2. page' \in Nat \ {0}  BY <1>1
    <3> QED BY <1>1, <1>2, <2>2, <3>1, <3>2 DEF ConsoleFits, Console!TypeOK
  <2>5. Fresh(x) /\ ViewLoadFits(x)'
    BY <1>1, <2>0, <2>2 DEF NewLoad, Fresh, ViewLoadFits
  <2> QED BY <1>3, <2>3, <2>4, <2>5, RenewedFits
<1>5. CASE ~(pending = Console!NoView /\ fetched)
  <2>1. timer' = FALSE /\ missed' = TRUE /\ load' = load  BY <1>5 DEF Console!OpenMailFrom
  <2>2. Console!TypeOK'
    <3>1. page' \in Nat \ {0}  BY <1>1
    <3> QED BY <1>1, <1>2, <2>1, <3>1 DEF ConsoleFits, Console!TypeOK
  <2>3. \A i \in Slots : ViewLoadFits(load[i])'
    BY <1>1, <2>1 DEF ConsoleFits, ViewLoadFits, Fresh
  <2>4. \A i, j \in Slots : Fresh(load[i])' /\ Fresh(load[j])' => i = j
    BY <2>1 DEF ConsoleFits, Fresh
  <2>5. ListFits'  BY <2>1 DEF ListFits
  <2> QED BY <1>3, <2>2, <2>3, <2>4, <2>5 DEF ConsoleFits
<1> QED BY <1>4, <1>5

LEMMA TimerFiresFits ==
  ASSUME Console!AdminConsoleAssumption, ConsoleFits, Console!TimerFires  PROVE ConsoleFits'
<1>1. PICK s \in 0..MaxSessions : s = IF signedIn THEN session ELSE Console!NoSession
  BY DEF ConsoleFits, Console!TypeOK, Console!NoSession, Console!AdminConsoleAssumption
<1>0. PICK x : x = NewLoad("reload", view, filter, 1, s)  OBVIOUS
<1>2. view \in Console!Views /\ filter \in Filters  BY DEF ConsoleFits, Console!TypeOK
<1>3. Console!Request("reload", view, filter, 1, s)
  BY <1>1 DEF Console!TimerFires
<1>4. Renewed(x)  BY <1>0, <1>2, <1>3, RequestRenews
<1>5. Console!TypeOK'  BY <1>4 DEF Console!TimerFires, ConsoleFits, Console!TypeOK, Renewed
<1>6. Console!ListOfSession'  BY DEF Console!TimerFires, ConsoleFits, Console!ListOfSession
<1>7. Fresh(x) /\ ViewLoadFits(x)'
  BY <1>0, <1>1 DEF Console!TimerFires, NewLoad, Fresh, ViewLoadFits
<1> QED BY <1>4, <1>5, <1>6, <1>7, RenewedFits

\* A request that does not concern the list as a whole.
LEMMA RequestAdds ==
  ASSUME ConsoleFits, NEW kind \in {"page", "users"}, NEW v \in Console!Views,
         NEW f \in Filters, NEW p \in Nat, signedIn,
         Console!Request(kind, v, f, p, session),
         UNCHANGED <<signedIn, session, view, pending, filter, timer, list, fetched, missed>>
  PROVE  /\ load' \in [Slots -> Console!Load] /\ Console!ListOfSession' /\ ListFits'
         /\ \A i \in Slots : ViewLoadFits(load[i])'
         /\ \A i, j \in Slots : Fresh(load[i])' /\ Fresh(load[j])' => i = j
<1>0. PICK x : x = NewLoad(kind, v, f, p, session)  OBVIOUS
<1>1. x \in Console!Load /\ x.kind = kind /\ x.session = session
  BY <1>0 DEF NewLoad, Console!Load, ConsoleFits, Console!TypeOK
<1>2. load \in [Slots -> Console!Load]  BY DEF ConsoleFits, Console!TypeOK
<1>3. PICK i \in Slots : /\ load[i] = Console!Free
                         /\ load' = [j \in Slots |-> IF j = i THEN x ELSE load[j]]
  BY <1>0 DEF Console!Request, NewLoad, Console!Superseded
<1>4. load' \in [Slots -> Console!Load]  BY <1>1, <1>2, <1>3
<1>5. load'[i] = x /\ \A j \in Slots \ {i} : load'[j] = load[j]  BY <1>3
<1>6. ~Fresh(load[i]) /\ ~Fresh(x)  BY <1>1, <1>3 DEF Fresh, Console!Free
<1>7. ViewLoadFits(x)'  BY <1>1, <1>6 DEF ViewLoadFits, Fresh
<1>8. \A j \in Slots : ViewLoadFits(load[j])'
  BY <1>5, <1>7 DEF ConsoleFits, ViewLoadFits, Fresh
<1>9. \A j \in Slots : Fresh(load[j])' <=> Fresh(load[j])
  BY <1>5, <1>6 DEF Fresh
<1>10. ListFits'  BY <1>9 DEF ConsoleFits, ListFits, NoneFresh
<1> QED BY <1>4, <1>8, <1>9, <1>10 DEF ConsoleFits, Console!ListOfSession

LEMMA ListPageFits ==
  ASSUME Console!AdminConsoleAssumption, ConsoleFits,
         NEW p, Console!SetPage(p)  PROVE ConsoleFits'
<1>1. p \in Nat \ {0}
  BY DEF Console!SetPage, ConsoleFits, Console!TypeOK, Console!AdminConsoleAssumption
<1>2. view \in Console!Views /\ filter \in Filters
      /\ Console!Request("page", view, filter, p, session)
      /\ signedIn
      /\ UNCHANGED <<signedIn, session, view, pending, filter, timer, list, fetched, missed>>
  BY DEF Console!SetPage, Console!Change, ConsoleFits, Console!TypeOK
<1>3. /\ load' \in [Slots -> Console!Load] /\ Console!ListOfSession' /\ ListFits'
      /\ \A i \in Slots : ViewLoadFits(load[i])'
      /\ \A i, j \in Slots : Fresh(load[i])' /\ Fresh(load[j])' => i = j
  BY <1>1, <1>2, RequestAdds
<1>4. Console!TypeOK'
  BY <1>1, <1>2, <1>3
     DEF Console!SetPage, Console!Change, ConsoleFits, Console!TypeOK,
         Console!AdminConsoleAssumption
<1> QED BY <1>3, <1>4 DEF ConsoleFits

LEMMA RefreshUsersFits ==
  ASSUME Console!AdminConsoleAssumption, ConsoleFits, Console!RefreshUsers  PROVE ConsoleFits'
<1>1. /\ view \in Console!Views /\ NoFilter \in Filters
      /\ Console!Request("users", view, NoFilter, 1, session)
      /\ signedIn
      /\ UNCHANGED <<signedIn, session, view, pending, filter, timer, list, fetched, missed>>
  BY DEF Console!RefreshUsers, Console!Change, ConsoleFits, Console!TypeOK,
         Console!AdminConsoleAssumption
<1>2. /\ load' \in [Slots -> Console!Load] /\ Console!ListOfSession' /\ ListFits'
      /\ \A i \in Slots : ViewLoadFits(load[i])'
      /\ \A i, j \in Slots : Fresh(load[i])' /\ Fresh(load[j])' => i = j
  BY <1>1, RequestAdds
<1>3. Console!TypeOK'
  BY <1>1, <1>2
     DEF Console!RefreshUsers, Console!Change, ConsoleFits, Console!TypeOK,
         Console!AdminConsoleAssumption
<1> QED BY <1>2, <1>3 DEF ConsoleFits

-----------------------------------------------------------------------------
(* The session ends, the filter changes.                                   *)

LEMMA SignOutFits ==
  ASSUME Console!AdminConsoleAssumption, ConsoleFits, Console!SignOut  PROVE ConsoleFits'
<1>1. load \in [Slots -> Console!Load] /\ \A i \in Slots : ViewLoadFits(load[i])
  BY DEF ConsoleFits, Console!TypeOK
<1>2. load' = [i \in Slots |-> [load[i] EXCEPT !.current = FALSE]]
  BY DEF Console!SignOut, Console!Drop
<1>3. \A i \in Slots : /\ [load[i] EXCEPT !.current = FALSE] \in Console!Load
                       /\ ~[load[i] EXCEPT !.current = FALSE].current
                       /\ [load[i] EXCEPT !.current = FALSE].kind = load[i].kind
  BY <1>1 DEF Console!Load
<1>4. load' \in [Slots -> Console!Load]  BY <1>2, <1>3
<1>5. \A i \in Slots : ~load'[i].current  BY <1>2, <1>3
<1>7. \A i \in Slots : load'[i].kind = "none" => load'[i] = Console!Free
  BY <1>1, <1>2, <1>3, FreeStays DEF ViewLoadFits
<1>8. Console!Empty \in [filter : Filters, pages : Seq(Nat), from : SUBSET (1..MaxSessions)]
  <2>1. <<>> \in Seq(Nat) /\ {} \in SUBSET (1..MaxSessions)  OBVIOUS
  <2> QED BY <2>1 DEF Console!Empty, Console!AdminConsoleAssumption
<1>9. Console!TypeOK'
  <2>1. users' \in 0..MaxSessions
    BY DEF Console!SignOut, Console!NoSession, Console!AdminConsoleAssumption
  <2>2. list' \in [filter : Filters, pages : Seq(Nat), from : SUBSET (1..MaxSessions)]
    BY <1>8 DEF Console!SignOut
  <2>3. page' \in Nat \ {0}  BY DEF Console!SignOut
  <2> QED BY <1>4, <2>1, <2>2, <2>3 DEF Console!SignOut, ConsoleFits, Console!TypeOK
<1>10. Console!ListOfSession' /\ ListFits'
  BY DEF Console!SignOut, Console!ListOfSession, ListFits, Console!Empty
<1>11. \A i \in Slots : ViewLoadFits(load[i])'
  BY <1>5, <1>7 DEF ViewLoadFits, Fresh
<1>12. \A i, j \in Slots : Fresh(load[i])' /\ Fresh(load[j])' => i = j
  BY <1>5 DEF Fresh
<1> QED BY <1>9, <1>10, <1>11, <1>12 DEF ConsoleFits

LEMMA ListFilterFits ==
  ASSUME Console!AdminConsoleAssumption, ConsoleFits, NEW f \in Filters, Console!SetFilter(f)
  PROVE  ConsoleFits'
<1>1. /\ filter' = f /\ timer' = Console!Listens /\ missed' = (missed \/ ~Console!Listens)
      /\ UNCHANGED <<signedIn, session, view, pending, list, fetched, users, load>>
      /\ page' = 1 /\ changes' = changes + 1 /\ changes < ViewChanges
  BY DEF Console!SetFilter, Console!Change
<1>2. Console!TypeOK'
  BY <1>1 DEF ConsoleFits, Console!TypeOK, Console!Listens, Console!AdminConsoleAssumption
<1>3. ~missed' => ~missed /\ Console!Listens /\ timer'  BY <1>1 DEF ConsoleFits, Console!TypeOK
<1>4. ASSUME NEW i \in Slots  PROVE ViewLoadFits(load[i])'
  <2>1. ViewLoadFits(load[i]) /\ load[i] \in Console!Load  BY DEF ConsoleFits, Console!TypeOK
  <2>2. ASSUME Fresh(load[i]), load[i].kind = "navigate"  PROVE ~Console!Listens
    <3>1. pending = load[i].view /\ load[i].view \in Console!Views
      BY <2>1, <2>2 DEF ViewLoadFits, Console!Load
    <3> QED BY <3>1 DEF Console!Listens, Console!Views, Console!NoView
  <2> QED BY <1>1, <1>3, <2>1, <2>2 DEF ViewLoadFits, Fresh
<1>5. \A i, j \in Slots : Fresh(load[i])' /\ Fresh(load[j])' => i = j
  BY <1>1 DEF ConsoleFits, Fresh
<1>6. ListFits'  BY <1>3 DEF ListFits
<1>7. Console!ListOfSession'  BY <1>1 DEF ConsoleFits, Console!ListOfSession
<1> QED BY <1>2, <1>4, <1>5, <1>6, <1>7 DEF ConsoleFits

-----------------------------------------------------------------------------
(* Answers.                                                                *)

\* Slot i is free again.
LEMMA TakenLoads ==
  ASSUME Console!AdminConsoleAssumption, ConsoleFits, NEW i \in Slots, Console!Taken(i)
  PROVE  /\ load' \in [Slots -> Console!Load]
         /\ load'[i] = Console!Free /\ \A j \in Slots \ {i} : load'[j] = load[j]
         /\ \A j \in Slots : Fresh(load[j])' => Fresh(load[j]) /\ j # i
         /\ \A j, k \in Slots : Fresh(load[j])' /\ Fresh(load[k])' => j = k
         /\ Fresh(load[i]) => \A j \in Slots : ~Fresh(load[j])'
         /\ ~Fresh(load[i]) => (NoneFresh' => NoneFresh)
<1>1. load \in [Slots -> Console!Load]  BY DEF ConsoleFits, Console!TypeOK
<1>2. Console!Free \in Console!Load
  BY DEF Console!Free, Console!Load, Console!Views, Console!NoSession,
         Console!AdminConsoleAssumption
<1>3. load' = [load EXCEPT ![i] = Console!Free]  BY DEF Console!Taken
<1> HIDE DEF Console!Free
<1>4. /\ load' \in [Slots -> Console!Load]
      /\ load'[i] = Console!Free /\ \A j \in Slots \ {i} : load'[j] = load[j]
  BY <1>1, <1>2, <1>3
<1>5. ~Fresh(Console!Free)  BY DEF Fresh, Console!Free
<1>6. \A j \in Slots : Fresh(load[j])' => Fresh(load[j]) /\ j # i
  BY <1>4, <1>5 DEF Fresh
<1>7. \A j, k \in Slots : Fresh(load[j])' /\ Fresh(load[k])' => j = k
  BY <1>6 DEF ConsoleFits
<1>8. Fresh(load[i]) => \A j \in Slots : ~Fresh(load[j])'
  BY <1>6 DEF ConsoleFits
<1>9. ~Fresh(load[i]) => (NoneFresh' => NoneFresh)
  BY <1>4 DEF NoneFresh, Fresh
<1> QED BY <1>4, <1>6, <1>7, <1>8, <1>9

LEMMA FreeFits ==
  TRUE  => ViewLoadFits(Console!Free)'
BY DEF ViewLoadFits, Console!Free, Fresh

\* The page stays one of the list.
LEMMA ClampedPage ==
  ASSUME Console!AdminConsoleAssumption, ConsoleFits, Console!Clamped, list'.filter \in Filters
  PROVE  page' \in Nat \ {0}
<1>1. Pages[list'.filter] \in Nat \ {0}  BY DEF Console!AdminConsoleAssumption
<1> QED BY <1>1 DEF Console!Clamped, ConsoleFits, Console!TypeOK

\* An answer that does not replace the list.
LEMMA SilentFits ==
  ASSUME Console!AdminConsoleAssumption, ConsoleFits, NEW i \in Slots, Console!Taken(i),
         Console!Clamped,
         ~Fresh(load[i]), users' \in 0..MaxSessions, missed' \in BOOLEAN, missed => missed',
         list' \in [filter : Filters, pages : Seq(Nat), from : SUBSET (1..MaxSessions)],
         list'.filter = list.filter, Console!ListOfSession',
         UNCHANGED <<signedIn, session, view, pending, filter, timer, fetched, changes>>
  PROVE  ConsoleFits'
<1>1. list'.filter \in Filters  OBVIOUS
<1>2. Console!TypeOK'  BY <1>1, ClampedPage, TakenLoads DEF ConsoleFits, Console!TypeOK
<1>3. ASSUME NEW j \in Slots  PROVE ViewLoadFits(load[j])'
  <2>1. CASE j = i  BY <2>1, TakenLoads, FreeFits DEF ViewLoadFits, Fresh
  <2>2. CASE j # i
    <3>1. load'[j] = load[j] /\ ViewLoadFits(load[j])  BY <2>2, TakenLoads DEF ConsoleFits
    <3> QED BY <3>1 DEF ViewLoadFits, Fresh
  <2> QED BY <2>1, <2>2
<1>4. ListFits'
  BY TakenLoads DEF ConsoleFits, ListFits
<1> QED BY <1>2, <1>3, <1>4, TakenLoads DEF ConsoleFits

\* One that replaces the list, or its view.
LEMMA AppliedFits ==
  ASSUME Console!AdminConsoleAssumption, ConsoleFits, NEW i \in Slots, Console!Taken(i),
         Console!Clamped,
         Fresh(load[i]), users' \in 0..MaxSessions, missed' \in BOOLEAN,
         fetched' \in BOOLEAN, view' \in Console!Views,
         pending' \in Console!Views \cup {Console!NoView},
         list' \in [filter : Filters, pages : Seq(Nat), from : SUBSET (1..MaxSessions)],
         Console!ListOfSession',
         ~missed' /\ ~timer /\ view' = "flow" /\ fetched' /\ pending' = Console!NoView =>
           list'.filter = filter,
         UNCHANGED <<signedIn, session, filter, timer, changes>>
  PROVE  ConsoleFits'
<1>1. list'.filter \in Filters  OBVIOUS
<1>2. Console!TypeOK'  BY <1>1, ClampedPage, TakenLoads DEF ConsoleFits, Console!TypeOK
<1>3. ASSUME NEW j \in Slots  PROVE ViewLoadFits(load[j])'
  <2>1. CASE j = i  BY <2>1, TakenLoads, FreeFits DEF ViewLoadFits, Fresh
  <2>2. CASE j # i
    <3>1. load'[j] = load[j] /\ ViewLoadFits(load[j])  BY <2>2, TakenLoads DEF ConsoleFits
    <3>2. ~Fresh(load'[j])  BY TakenLoads DEF Fresh
    <3> QED BY <3>1, <3>2 DEF ViewLoadFits, Fresh
  <2> QED BY <2>1, <2>2
<1>4. ListFits'
  BY DEF ListFits
<1> QED BY <1>2, <1>3, <1>4, TakenLoads DEF ConsoleFits

LEMMA ViewAnswerFits ==
  ASSUME Console!AdminConsoleAssumption, ConsoleFits, NEW i \in Slots, Console!Answer(i)
  PROVE  ConsoleFits'
<1>1. PICK l \in Console!Load : l = load[i] /\ ViewLoadFits(l)
  BY DEF ConsoleFits, Console!TypeOK
<1>2. /\ l.session # Console!NoSession /\ Console!Taken(i) /\ Console!Clamped /\ l.kind # "none"
      /\ UNCHANGED <<signedIn, session, filter, timer, changes>>
  BY <1>1 DEF Console!Answer
<1>3. l.session \in 1..MaxSessions /\ l.filter \in Filters /\ l.page \in Nat
      /\ l.view \in Console!Views
  BY <1>1, <1>2 DEF Console!Load, Console!NoSession, Console!AdminConsoleAssumption
<1>4. l.current => signedIn /\ l.session = session
  BY <1>1, <1>2 DEF ViewLoadFits
<1>5. list \in [filter : Filters, pages : Seq(Nat), from : SUBSET (1..MaxSessions)]
  BY DEF ConsoleFits, Console!TypeOK
<1>6. /\ Console!FirstPage(l) \in
           [filter : Filters, pages : Seq(Nat), from : SUBSET (1..MaxSessions)]
      /\ Console!FirstPage(l).filter = l.filter /\ Console!FirstPage(l).from = {l.session}
  <2>1. <<1>> \in Seq(Nat)  OBVIOUS
  <2>2. {l.session} \in SUBSET (1..MaxSessions)  BY <1>3
  <2> QED BY <1>3, <2>1, <2>2 DEF Console!FirstPage
<1>7. CASE ~Console!Guarded(i)
  <2>1. UNCHANGED <<view, pending, list, fetched, users, missed>>
    BY <1>7 DEF Console!Answer
  <2>2. ~Fresh(load[i])  BY <1>7 DEF Console!Guarded, Fresh
  <2>3. Console!ListOfSession'  BY <1>2, <2>1 DEF ConsoleFits, Console!ListOfSession
  <2>4. users' \in 0..MaxSessions /\ missed' \in BOOLEAN  BY <2>1 DEF ConsoleFits, Console!TypeOK
  <2> QED BY <1>2, <1>5, <2>1, <2>2, <2>3, <2>4, SilentFits
<1>8. CASE Console!Guarded(i) /\ l.kind = "users"
  <2>1. users' = l.session /\ UNCHANGED <<view, pending, list, fetched, missed>>
    BY <1>1, <1>8 DEF Console!Answer
  <2>2. ~Fresh(load[i])  BY <1>1, <1>8 DEF Fresh
  <2>3. Console!ListOfSession'  BY <1>2, <2>1 DEF ConsoleFits, Console!ListOfSession
  <2>4. users' \in 0..MaxSessions /\ missed' \in BOOLEAN
    BY <1>3, <2>1 DEF ConsoleFits, Console!TypeOK
  <2> QED BY <1>2, <1>5, <2>1, <2>2, <2>3, <2>4, SilentFits
<1>9. CASE Console!Guarded(i) /\ l.kind = "page"
  <2>1. list' = Console!Appended(l) /\ UNCHANGED <<view, pending, fetched, users, missed>>
    BY <1>1, <1>9 DEF Console!Answer
  <2>2. ~Fresh(load[i])  BY <1>1, <1>9 DEF Fresh
  <2>3. signedIn /\ l.session = session  BY <1>1, <1>4, <1>9 DEF Console!Guarded
  <2>4. /\ list' \in [filter : Filters, pages : Seq(Nat), from : SUBSET (1..MaxSessions)]
        /\ list'.filter = list.filter /\ list'.from \subseteq list.from \cup {l.session}
    <3>1. CASE Console!InList(l.page)  BY <1>5, <2>1, <3>1 DEF Console!Appended
    <3>2. CASE ~Console!InList(l.page)
      <4>1. list' = [list EXCEPT !.pages = Append(list.pages, l.page),
                                 !.from = list.from \cup {l.session}]
        BY <2>1, <3>2 DEF Console!Appended
      <4>2. Append(list.pages, l.page) \in Seq(Nat)  BY <1>3, <1>5
      <4>3. list.from \cup {l.session} \in SUBSET (1..MaxSessions)  BY <1>3, <1>5
      <4> QED BY <1>5, <4>1, <4>2, <4>3
    <3> QED BY <3>1, <3>2
  <2>5. Console!ListOfSession'  BY <1>2, <2>3, <2>4 DEF ConsoleFits, Console!ListOfSession
  <2>6. users' \in 0..MaxSessions /\ missed' \in BOOLEAN  BY <2>1 DEF ConsoleFits, Console!TypeOK
  <2> QED BY <1>2, <2>1, <2>2, <2>4, <2>5, <2>6, SilentFits
<1>10. CASE Console!Guarded(i) /\ l.kind = "reload"
  <2>1. list' = Console!FirstPage(l) /\ UNCHANGED <<view, pending, fetched, users, missed>>
    BY <1>1, <1>10 DEF Console!Answer
  <2>2. Fresh(l) /\ Fresh(load[i]) /\ l.current  BY <1>1, <1>10 DEF Fresh, Console!Guarded
  <2>3. Console!ListOfSession'  BY <1>2, <1>4, <1>6, <2>1, <2>2 DEF Console!ListOfSession
  <2>4. ~missed' /\ ~timer => list'.filter = filter
    BY <1>1, <1>6, <1>10, <2>1, <2>2 DEF ViewLoadFits
  <2>5. /\ users' \in 0..MaxSessions /\ missed' \in BOOLEAN /\ fetched' \in BOOLEAN
        /\ view' \in Console!Views /\ pending' \in Console!Views \cup {Console!NoView}
    BY <2>1 DEF ConsoleFits, Console!TypeOK
  <2> QED BY <1>2, <1>6, <2>1, <2>2, <2>3, <2>4, <2>5, AppliedFits
<1>11. CASE Console!Guarded(i) /\ l.kind \in {"snapshot", "navigate"}
  <2>1. Console!ApplySnapshot(i)  BY <1>1, <1>11 DEF Console!Answer
  <2>2. Fresh(l) /\ Fresh(load[i]) /\ l.current  BY <1>1, <1>11 DEF Fresh, Console!Guarded
  <2>3. /\ list' = (IF l.view = "users" THEN list ELSE Console!FirstPage(l)) /\ fetched' = TRUE
        /\ users' \in 0..MaxSessions
    BY <1>1, <1>3, <2>1 DEF Console!ApplySnapshot, Console!Shown, ConsoleFits, Console!TypeOK
  <2>4. Console!ListOfSession'
    BY <1>2, <1>4, <1>6, <2>2, <2>3 DEF Console!ListOfSession, ConsoleFits
  <2>5. list' \in [filter : Filters, pages : Seq(Nat), from : SUBSET (1..MaxSessions)]
    BY <1>5, <1>6, <2>3
  <2>6. CASE l.kind = "navigate"
    <3>1. /\ view' = l.view /\ pending' = Console!NoView /\ missed' \in BOOLEAN
          /\ ~missed' => ~missed
      BY <1>1, <2>1, <2>6 DEF Console!ApplySnapshot, ConsoleFits, Console!TypeOK
    <3>2. ~missed' /\ view' = "flow" => list'.filter = filter
      BY <1>1, <1>6, <2>2, <2>3, <2>6, <3>1 DEF ViewLoadFits
    <3>3. view' \in Console!Views /\ pending' \in Console!Views \cup {Console!NoView}  BY <1>3,
         <3>1
    <3> QED BY <1>2, <2>2, <2>3, <2>4, <2>5, <3>1, <3>2, <3>3, AppliedFits
  <2>7. CASE l.kind = "snapshot"
    <3>1. UNCHANGED <<view, pending, missed>>
      BY <1>1, <2>1, <2>7 DEF Console!ApplySnapshot
    <3>2. ~missed' /\ ~timer /\ view' = "flow" => list'.filter = filter
      BY <1>1, <1>6, <2>2, <2>3, <2>7, <3>1 DEF ViewLoadFits
    <3>3. view' \in Console!Views /\ pending' \in Console!Views \cup {Console!NoView}
          /\ missed' \in BOOLEAN
      BY <3>1 DEF ConsoleFits, Console!TypeOK
    <3> QED BY <1>2, <2>2, <2>3, <2>4, <2>5, <3>1, <3>2, <3>3, AppliedFits
  <2> QED BY <1>11, <2>6, <2>7
<1>12. l.kind \in {"users", "page", "reload", "snapshot", "navigate"}
  BY <1>2 DEF Console!Load
<1> QED BY <1>7, <1>8, <1>9, <1>10, <1>11, <1>12

LEMMA ViewFailsFits ==
  ASSUME Console!AdminConsoleAssumption, ConsoleFits, NEW i \in Slots, Console!Fails(i)
  PROVE  ConsoleFits'
<1>1. PICK l \in Console!Load : l = load[i] /\ ViewLoadFits(l)
  BY DEF ConsoleFits, Console!TypeOK
<1>2. /\ Console!Taken(i) /\ Console!Clamped
      /\ missed' = (missed \/ l.current) /\ missed' \in BOOLEAN
      /\ UNCHANGED <<signedIn, session, filter, timer, changes>>
  BY <1>1 DEF Console!Fails, ConsoleFits, Console!TypeOK, Console!Load
<1>3. list \in [filter : Filters, pages : Seq(Nat), from : SUBSET (1..MaxSessions)]
  BY DEF ConsoleFits, Console!TypeOK
<1>4. CASE l.kind \in {"snapshot", "navigate"} /\ l.current
  <2>1. Fresh(load[i]) /\ missed'  BY <1>1, <1>2, <1>4 DEF Fresh
  <2>2. /\ fetched' = TRUE
        /\ IF l.view = "users" THEN users' = Console!NoSession /\ list' = list
           ELSE list' = [Console!Empty EXCEPT !.filter = l.filter] /\ users' = users
        /\ IF l.kind = "navigate" THEN view' = l.view /\ pending' = Console!NoView
           ELSE view' = view /\ pending' = pending
    BY <1>1, <1>4 DEF Console!Fails
  <2>3. /\ [Console!Empty EXCEPT !.filter = l.filter]
             \in [filter : Filters, pages : Seq(Nat), from : SUBSET (1..MaxSessions)]
        /\ [Console!Empty EXCEPT !.filter = l.filter].from = {}
    <3>1. <<>> \in Seq(Nat) /\ {} \in SUBSET (1..MaxSessions)  OBVIOUS
    <3>2. l.filter \in Filters  BY DEF Console!Load
    <3>3. Console!Empty \in [filter : Filters, pages : Seq(Nat), from : SUBSET (1..MaxSessions)]
          /\ Console!Empty.from = {}
      BY <3>1 DEF Console!Empty, Console!AdminConsoleAssumption
    <3> QED BY <3>2, <3>3
  <2>4. list' \in [filter : Filters, pages : Seq(Nat), from : SUBSET (1..MaxSessions)]
    BY <1>3, <2>2, <2>3
  <2>5. Console!ListOfSession'  BY <1>2, <2>2, <2>3 DEF ConsoleFits, Console!ListOfSession
  <2>6. users' \in 0..MaxSessions /\ view' \in Console!Views
        /\ pending' \in Console!Views \cup {Console!NoView}
        /\ fetched' \in BOOLEAN
    BY <2>2
       DEF ConsoleFits, Console!TypeOK, Console!Load, Console!NoSession,
           Console!AdminConsoleAssumption
  <2> QED BY <1>2, <2>1, <2>4, <2>5, <2>6, AppliedFits
<1>5. CASE ~(l.kind \in {"snapshot", "navigate"} /\ l.current)
  <2>1. UNCHANGED <<view, pending, list, fetched, users>>  BY <1>1, <1>5 DEF Console!Fails
  <2>2. Console!ListOfSession'  BY <1>2, <2>1 DEF ConsoleFits, Console!ListOfSession
  <2>3. users' \in 0..MaxSessions  BY <2>1 DEF ConsoleFits, Console!TypeOK
  <2>4. CASE Fresh(load[i])
    <3>1. missed'  BY <1>1, <1>2, <2>4 DEF Fresh
    <3>2. view' \in Console!Views /\ pending' \in Console!Views \cup {Console!NoView}
          /\ fetched' \in BOOLEAN
      BY <2>1 DEF ConsoleFits, Console!TypeOK
    <3> QED BY <1>2, <1>3, <2>1, <2>2, <2>3, <2>4, <3>1, <3>2, AppliedFits
  <2>5. CASE ~Fresh(load[i])
    BY <1>2, <1>3, <2>1, <2>2, <2>3, <2>5, SilentFits
  <2> QED BY <2>4, <2>5
<1> QED BY <1>4, <1>5

-----------------------------------------------------------------------------
LEMMA InitConsole ==
  ASSUME Console!AdminConsoleAssumption, Console!Init  PROVE ConsoleFits
<1>1. Console!Empty \in [filter : Filters, pages : Seq(Nat), from : SUBSET (1..MaxSessions)]
  <2>1. <<>> \in Seq(Nat) /\ {} \in SUBSET (1..MaxSessions)  OBVIOUS
  <2> QED BY <2>1 DEF Console!Empty, Console!AdminConsoleAssumption
<1>2. Console!Free \in Console!Load /\ ~Console!Free.current
  BY DEF Console!Free, Console!Load, Console!Views, Console!NoSession,
         Console!AdminConsoleAssumption
<1>3. load = [i \in Slots |-> Console!Free]  BY DEF Console!Init
<1> HIDE DEF Console!Free
<1>4. Console!TypeOK
  <2>1. 0 \in 0..MaxSessions /\ 0 \in 0..ViewChanges  BY DEF Console!AdminConsoleAssumption
  <2>2. load \in [Slots -> Console!Load]  BY <1>2, <1>3
  <2>3. list \in [filter : Filters, pages : Seq(Nat), from : SUBSET (1..MaxSessions)]
    BY <1>1 DEF Console!Init
  <2>4. 1 \in Nat \ {0}  OBVIOUS
  <2> QED BY <2>1, <2>2, <2>3, <2>4
       DEF Console!Init, Console!TypeOK, Console!NoSession, Console!AdminConsoleAssumption
<1>5. Console!ListOfSession  BY DEF Console!Init, Console!ListOfSession, Console!Empty
<1>6. \A i \in Slots : ViewLoadFits(load[i]) /\ ~Fresh(load[i])
  BY <1>2, <1>3 DEF ViewLoadFits, Fresh
<1>7. ListFits  BY DEF ListFits, Console!Init
<1> QED BY <1>4, <1>5, <1>6, <1>7 DEF ConsoleFits

LEMMA NextConsole ==
  ASSUME Console!AdminConsoleAssumption, ConsoleFits,
         [Console!Next]_(Console!vars)  PROVE ConsoleFits'
<1>1. CASE Console!SignIn  BY <1>1, SignInFits
<1>2. CASE Console!SignOut  BY <1>2, SignOutFits
<1>3. CASE Console!Refresh  BY <1>3, RefreshFits
<1>4. CASE Console!RefreshUsers  BY <1>4, RefreshUsersFits
<1>5. CASE Console!TimerFires  BY <1>5, TimerFiresFits
<1>6. CASE \E v \in Console!Views : Console!SetView(v)  BY <1>6, SetViewFits
<1>7. CASE \E f \in Filters : Console!SetFilter(f)  BY <1>7, ListFilterFits
<1>8. CASE \E f \in Filters : Console!OpenMailFrom(f)  BY <1>8, OpenMailFromFits
<1>9. CASE \E p : Console!SetPage(p)  BY <1>9, ListPageFits
<1>10. CASE \E i \in Slots : Console!Answer(i)  BY <1>10, ViewAnswerFits
<1>11. CASE \E i \in Slots : Console!Fails(i)  BY <1>11, ViewFailsFits
<1>12. CASE UNCHANGED Console!vars
  <2>1. /\ load' = load /\ Console!TypeOK' /\ Console!ListOfSession'
        /\ UNCHANGED <<signedIn, session, view, pending, filter, timer, list, fetched, missed>>
    BY <1>12 DEF Console!vars, ConsoleFits, Console!TypeOK, Console!ListOfSession
  <2>2. \A i \in Slots : ViewLoadFits(load[i])'  BY <2>1 DEF ConsoleFits, ViewLoadFits, Fresh
  <2>3. \A i, j \in Slots : Fresh(load[i])' /\ Fresh(load[j])' => i = j
    BY <2>1 DEF ConsoleFits, Fresh
  <2>4. ListFits'  BY <2>1 DEF ConsoleFits, ListFits, NoneFresh, Fresh
  <2> QED BY <2>1, <2>2, <2>3, <2>4 DEF ConsoleFits
<1> QED
  BY <1>1, <1>2, <1>3, <1>4, <1>5, <1>6, <1>7, <1>8, <1>9, <1>10, <1>11, <1>12 DEF Console!Next

LEMMA ListIsFiltered ==
  ASSUME ConsoleFits  PROVE Console!ListMatchesFilter
BY DEF ConsoleFits, Console!ListMatchesFilter, Console!Settled, ListFits, NoneFresh, Fresh

LEMMA ConsoleHolds ==
  Console!AdminConsoleAssumption => (Console!Spec => []ConsoleFits)
<1> SUFFICES ASSUME Console!AdminConsoleAssumption  PROVE Console!Spec => []ConsoleFits
  OBVIOUS
<1>1. Console!Init => ConsoleFits  BY InitConsole
<1>2. ConsoleFits /\ [Console!Next]_(Console!vars) => ConsoleFits'  BY NextConsole
<1> QED BY <1>1, <1>2, PTL DEF Console!Spec

\* No answer of an earlier session reaches the mail list, however logins, logouts,
\* refreshes and slow answers interleave (adminLoadGeneration).
THEOREM ListBelongsToSession ==
  Console!AdminConsoleAssumption => (Console!Spec => []ListOfSession)
<1> SUFFICES ASSUME Console!AdminConsoleAssumption  PROVE Console!Spec => []ListOfSession
  OBVIOUS
<1>1. ConsoleFits => ListOfSession  BY DEF ConsoleFits, ListOfSession
<1> QED BY <1>1, ConsoleHolds, PTL

\* With no load under way the mail list is the one its filter asks for, whichever
\* answers were dropped on the way (watch of mailListQuery, fetchAdminData).
THEOREM ListAnswersFilter ==
  Console!AdminConsoleAssumption => (Console!Spec => []ListMatchesFilter)
<1> SUFFICES ASSUME Console!AdminConsoleAssumption
             PROVE  Console!Spec => []ListMatchesFilter
  OBVIOUS
<1>1. ConsoleFits => ListMatchesFilter  BY ListIsFiltered DEF ListMatchesFilter
<1> QED BY <1>1, ConsoleHolds, PTL

-----------------------------------------------------------------------------
(***************************************************************************)
(* AdminActions: where the job that holds the lock is in its list of       *)
(* steps, and that the others are before or after their locked section.    *)
(***************************************************************************)

\* What is left of an action: after a question or a loan of the lock there is
\* something to do.
Remains(s) ==
  /\ s \in Seq({"ask", "conflict", "call", "refresh"})
  /\ \A n \in 1..Len(s) : s[n] \in {"ask", "conflict"} =>
       n < Len(s) /\ s[n + 1] \in {"call", "refresh"}

RemainingJob ==
  [todo : {s \in Seq(Actions!Steps) : Remains(s)}, activates : BOOLEAN, previous : BOOLEAN]

Asked(x) == Actions!Awaits(x, "ask") \/ Actions!Lends(x)

LockFits ==
  /\ job \in [Jobs -> RemainingJob]
  /\ busy \in BOOLEAN /\ disturbed \in BOOLEAN
  /\ dialog \in Jobs \cup {NoJob}
  /\ dialog \in Jobs => Asked(job[dialog])
  /\ \A j \in Jobs : Actions!Lends(job[j]) /\ ~job[j].previous => disturbed
  /\ Actions!LockMeansRunning

-----------------------------------------------------------------------------
(* The steps of the actions.                                               *)

\* The step awaited is part of a section the lock is for.
InSection(s) == s # <<>> /\ Head(s) \in {"call", "refresh"}

LEMMA RestRemains ==
  ASSUME NEW s, Remains(s), s # <<>>
  PROVE  /\ Head(s) \in {"ask", "conflict", "call", "refresh"} /\ Remains(Tail(s))
         /\ Head(s) \in {"ask", "conflict"} => InSection(Tail(s))
<1>1. PICK t : t = Tail(s)  OBVIOUS
<1>2. s \in Seq({"ask", "conflict", "call", "refresh"}) /\ Len(s) \in Nat /\ Len(s) > 0
  BY DEF Remains
<1>3. /\ t \in Seq({"ask", "conflict", "call", "refresh"}) /\ Len(t) = Len(s) - 1
      /\ \A n \in 1..Len(t) : t[n] = s[n + 1]
  BY <1>1, <1>2
<1>4. Head(s) = s[1] /\ s[1] \in {"ask", "conflict", "call", "refresh"}  BY <1>2
<1>5. Remains(t)
  <2> SUFFICES ASSUME NEW n \in 1..Len(t), t[n] \in {"ask", "conflict"}
               PROVE  n < Len(t) /\ t[n + 1] \in {"call", "refresh"}
    BY <1>3 DEF Remains
  <2>1. n + 1 \in 1..Len(s) /\ s[n + 1] \in {"ask", "conflict"}  BY <1>2, <1>3
  <2>2. n + 1 < Len(s) /\ s[n + 1 + 1] \in {"call", "refresh"}  BY <2>1 DEF Remains
  <2>3. n + 1 \in 1..Len(t)  BY <1>2, <1>3, <2>2
  <2> QED BY <1>2, <1>3, <2>2, <2>3
<1>6. ASSUME Head(s) \in {"ask", "conflict"}  PROVE InSection(t)
  <2>1. 1 < Len(s) /\ s[1 + 1] \in {"call", "refresh"}  BY <1>2, <1>4, <1>6 DEF Remains
  <2>2. 1 \in 1..Len(t) /\ t # <<>>  BY <1>2, <1>3, <2>1
  <2>3. Head(t) = t[1] /\ t[1] = s[2]  BY <1>3, <2>2
  <2> QED BY <2>1, <2>2, <2>3 DEF InSection
<1> QED BY <1>1, <1>4, <1>5, <1>6

LEMMA BothRemain ==
  ASSUME NEW s, NEW t, Remains(s), Remains(t)
  PROVE  Remains(s \o t) /\ (InSection(s) => InSection(s \o t))
BY DEF Remains, InSection

LEMMA QuestionRemains ==
  ASSUME NEW t, Remains(t), InSection(t)
  PROVE  Remains(<<"ask">> \o t) /\ <<"ask">> \o t # <<>> /\ Head(<<"ask">> \o t) = "ask"
BY DEF Remains, InSection

\* What an action is about, once it has the lock or asks for it.
StartsWell(a) ==
  /\ a # <<>>
  /\ Head(a) = "ask" => Remains(a)
  /\ Head(a) \in {"lock", "seize"} => Remains(Tail(a)) /\ InSection(Tail(a))

LEMMA PlainSteps ==
  /\ Remains(<<"call">>) /\ InSection(<<"call">>)
  /\ Remains(<<"refresh">>) /\ InSection(<<"refresh">>)
  /\ Remains(<<"call", "refresh">>) /\ InSection(<<"call", "refresh">>)
  /\ Remains(<<"call", "refresh", "refresh">>) /\ InSection(<<"call", "refresh", "refresh">>)
  /\ Remains(<<"call", "ask", "call", "refresh">>)
  /\ InSection(<<"call", "ask", "call", "refresh">>)
  /\ Remains(<<"call", "conflict", "call", "refresh">>)
  /\ InSection(<<"call", "conflict", "call", "refresh">>)
BY DEF Remains, InSection

LEMMA LockedStartsWell ==
  ASSUME NEW t, Remains(t), InSection(t), NEW first \in {"lock", "seize"}
  PROVE  StartsWell(<<first>> \o t)
<1>1. Head(<<first>> \o t) = first /\ Tail(<<first>> \o t) = t /\ <<first>> \o t # <<>>
  BY DEF Remains
<1> QED BY <1>1 DEF StartsWell

LEMMA AskedStartsWell ==
  ASSUME NEW t, Remains(t), InSection(t)
  PROVE  StartsWell(<<"ask">> \o t)
BY QuestionRemains DEF StartsWell

LEMMA ActionsStartWell ==
  ASSUME NEW a \in Actions!Actions  PROVE StartsWell(a)
<1>4. /\ StartsWell(<<"lock", "call">>) /\ StartsWell(<<"lock", "call", "refresh">>)
      /\ StartsWell(<<"lock", "refresh">>)
      /\ StartsWell(<<"lock", "call", "refresh", "refresh">>)
      /\ StartsWell(<<"lock", "call", "ask", "call", "refresh">>)
  BY DEF StartsWell, Remains, InSection
<1>5. /\ StartsWell(<<"ask", "call", "refresh">>)
      /\ StartsWell(<<"ask", "call", "refresh", "refresh">>)
  BY DEF StartsWell, Remains, InSection
<1>6. Remains(Actions!PerformCloudflareSetup) /\ InSection(Actions!PerformCloudflareSetup)
  BY PlainSteps, BothRemain DEF Actions!PerformCloudflareSetup, Actions!StartDomainVerification
<1>7. StartsWell(Actions!SetupCloudflareDomain)
  BY <1>6, AskedStartsWell DEF Actions!SetupCloudflareDomain, Actions!Confirmed
<1>8. \A c \in BOOLEAN : StartsWell(Actions!CreateAndActivateDomain(c))
  <2> SUFFICES ASSUME NEW c \in BOOLEAN  PROVE StartsWell(Actions!CreateAndActivateDomain(c))
    OBVIOUS
  <2>1. PICK t : t = IF c THEN Actions!PerformCloudflareSetup ELSE Actions!StartDomainVerification
    OBVIOUS
  <2>2. Remains(t)  BY <1>6, <2>1, PlainSteps DEF Actions!StartDomainVerification
  <2>3. Remains(<<"call", "refresh">> \o t) /\ InSection(<<"call", "refresh">> \o t)
    BY <2>2, PlainSteps, BothRemain
  <2>4. <<"seize">> \o (<<"call", "refresh">> \o t) = <<"seize", "call", "refresh">> \o t
    BY <2>2 DEF Remains
  <2>5. StartsWell(<<"seize">> \o (<<"call", "refresh">> \o t))
    BY <2>3, LockedStartsWell
  <2> QED BY <2>1, <2>4, <2>5 DEF Actions!CreateAndActivateDomain
<1>9. /\ StartsWell(Actions!Confirmed(<<"call", "refresh">>))
      /\ StartsWell(Actions!Unconfirmed(<<"call">>))
      /\ StartsWell(Actions!Unconfirmed(<<"call", "refresh">>))
  BY PlainSteps, AskedStartsWell, LockedStartsWell DEF Actions!Confirmed, Actions!Unconfirmed
<1> QED
  BY <1>4, <1>5, <1>7, <1>8, <1>9
  DEF Actions!Actions, Actions!DeleteMailRows, Actions!BatchSetMailReadState,
      Actions!ExportMailRows,
      Actions!CreateAddressIdentity, Actions!CreateSharePackage, Actions!DeleteCurrentAddress,
      Actions!ShowCurrentCredential, Actions!RotateCurrentCredential,
      Actions!RevokeCurrentShareTokens,
      Actions!ClearCurrentAddressInbox, Actions!DisableCurrentDomain,
      Actions!CheckCurrentDomainRoute,
      Actions!CheckCurrentDomainImpact, Actions!RunHealthCheck, Actions!VerifyStart,
      Actions!StartDomainVerification,
      Actions!CheckDomainVerification, Actions!CreateUser, Actions!ResetUserPassword,
      Actions!UpdateUserRole, Actions!DeleteUser,
      Actions!BindAddressToUser, Actions!UnbindAddressFromUser

-----------------------------------------------------------------------------
(* A step of job j.                                                        *)

LEMMA RemainsTyped ==
  ASSUME NEW s, Remains(s)  PROVE s \in Seq(Actions!Steps)
BY DEF Remains, Actions!Steps

LEMMA IdleRemains ==
  Actions!Idle \in RemainingJob /\ ~Actions!Runs(Actions!Idle) /\ ~Actions!Lends(Actions!Idle)
    /\ ~Asked(Actions!Idle) /\ ~Actions!Idle.activates
<1>1. Remains(<<>>)  BY DEF Remains
<1> QED BY <1>1, RemainsTyped
     DEF Actions!Idle, RemainingJob, Actions!Runs, Actions!Lends, Asked, Actions!Awaits

\* The others go on, or were waiting for an answer and end.
OthersKept(j) ==
  \A k \in Jobs \ {j} : job'[k] = job[k] \/ (job'[k] = Actions!Idle /\ ~Actions!Runs(job[k]))

LEMMA JobSet ==
  ASSUME LockFits, NEW j \in Jobs, NEW y \in RemainingJob,
         job' = [job EXCEPT ![j] = y] \/ job' = [Actions!Dismissed(j) EXCEPT ![j] = y]
  PROVE  job' \in [Jobs -> RemainingJob] /\ job'[j] = y /\ OthersKept(j)
<1>1. job \in [Jobs -> RemainingJob] /\ (dialog \in Jobs => Asked(job[dialog]))
  BY DEF LockFits
<1>2. CASE job' = [job EXCEPT ![j] = y]
  BY <1>1, <1>2 DEF OthersKept
<1>3. CASE job' = [Actions!Dismissed(j) EXCEPT ![j] = y] /\ dialog \in Jobs \ {j}
  <2>1. job' = [[job EXCEPT ![dialog] = Actions!Idle] EXCEPT ![j] = y]
    BY <1>3 DEF Actions!Dismissed
  <2>2. ~Actions!Runs(job[dialog])  BY <1>1, <1>3
       DEF Asked, Actions!Runs, Actions!Lends, Actions!Awaits
  <2> HIDE DEF Actions!Idle
  <2> QED BY <1>1, <1>3, <2>1, <2>2, IdleRemains DEF OthersKept
<1>4. CASE job' = [Actions!Dismissed(j) EXCEPT ![j] = y] /\ dialog \notin Jobs \ {j}
  BY <1>1, <1>4 DEF Actions!Dismissed, OthersKept
<1> QED BY <1>2, <1>3, <1>4

\* Whoever else runs or lends the lock after the step did so before it.
LEMMA OthersGoOn ==
  ASSUME NEW j \in Jobs, OthersKept(j)
  PROVE  \A k \in Jobs \ {j} : /\ Actions!Runs(job'[k]) <=> Actions!Runs(job[k])
                               /\ Actions!Lends(job'[k]) => job'[k] = job[k]
BY IdleRemains DEF OthersKept

LEMMA StepFits ==
  ASSUME LockFits, NEW j \in Jobs, job' \in [Jobs -> RemainingJob], OthersKept(j),
         busy' \in BOOLEAN, dialog' \in Jobs \cup {NoJob},
         dialog' \in Jobs => Asked(job'[dialog']),
         Actions!Lends(job'[j]) /\ ~job'[j].previous => disturbed',
         disturbed' = disturbed \/ Actions!Disturbs(j), Actions!LockMeansRunning'
  PROVE  LockFits'
<1>1. disturbed' \in BOOLEAN  BY DEF LockFits, Actions!Disturbs
<1>2. ASSUME NEW k \in Jobs, Actions!Lends(job'[k]), ~job'[k].previous  PROVE disturbed'
  <2>1. CASE k = j  BY <1>2, <2>1
  <2>2. CASE k # j
    <3>1. Actions!Lends(job[k]) /\ ~job[k].previous  BY <1>2, <2>2, OthersGoOn
    <3>2. disturbed  BY <3>1 DEF LockFits
    <3>3. CASE disturbed' = disturbed  BY <3>2, <3>3
    <3>4. CASE Actions!Disturbs(j)  BY <1>2, <3>2, <3>4 DEF Actions!Disturbs
    <3> QED BY <3>3, <3>4
  <2> QED BY <2>1, <2>2
<1> QED BY <1>1, <1>2 DEF LockFits

\* The lock written by a step that tells whom it disturbs.
LEMMA DisturbsFits ==
  ASSUME LockFits, NEW j \in Jobs, OthersKept(j), Actions!Disturbs(j), busy' \in BOOLEAN,
         ~disturbed => (busy' <=> Actions!Runs(job'[j])), busy' => Actions!Runs(job'[j])
  PROVE  Actions!LockMeansRunning'
<1> SUFFICES ASSUME ~disturbed'
             PROVE  /\ busy' <=> Actions!Running' # {}
                    /\ \A k, l \in Actions!Running' : k = l
  BY DEF Actions!LockMeansRunning
<1>1. CASE ~\E k \in Jobs : Actions!Runs(job'[k]) \/ Actions!Lends(job'[k])
  <2>1. Actions!Running' = {}  BY <1>1 DEF Actions!Running
  <2>2. ~busy'  BY <1>1
  <2> QED BY <2>1, <2>2
<1>2. CASE \E k \in Jobs : Actions!Runs(job'[k]) \/ Actions!Lends(job'[k])
  <2>1. ~disturbed /\ ~Actions!OthersRun(j)  BY <1>2 DEF Actions!Disturbs
  <2>2. \A k \in Jobs \ {j} : ~Actions!Runs(job'[k])  BY <2>1, OthersGoOn DEF Actions!OthersRun
  <2>3. \A k \in Actions!Running' : k = j /\ Actions!Runs(job'[j])  BY <2>2 DEF Actions!Running
  <2>4. Actions!Runs(job'[j]) => j \in Actions!Running'  BY DEF Actions!Running
  <2>5. busy' <=> Actions!Runs(job'[j])  BY <2>1
  <2> QED BY <2>3, <2>4, <2>5
<1> QED BY <1>1, <1>2

\* And by one that does not.
LEMMA UndisturbedFits ==
  ASSUME LockFits, NEW j \in Jobs, OthersKept(j), disturbed' = disturbed, busy' \in BOOLEAN,
         \/ (Actions!Runs(job'[j]) <=> Actions!Runs(job[j])) /\ busy' = busy
         \/ ~busy /\ busy' /\ Actions!Runs(job'[j])
  PROVE  Actions!LockMeansRunning'
<1> SUFFICES ASSUME ~disturbed
             PROVE  /\ busy' <=> Actions!Running' # {}
                    /\ \A k, l \in Actions!Running' : k = l
  BY DEF Actions!LockMeansRunning
<1>1. (busy <=> Actions!Running # {}) /\ \A k, l \in Actions!Running : k = l
  BY DEF LockFits, Actions!LockMeansRunning
<1>2. CASE (Actions!Runs(job'[j]) <=> Actions!Runs(job[j])) /\ busy' = busy
  <2>1. \A k \in Jobs : Actions!Runs(job'[k]) <=> Actions!Runs(job[k])  BY <1>2, OthersGoOn
  <2>2. Actions!Running' = Actions!Running  BY <2>1 DEF Actions!Running
  <2> QED BY <1>1, <1>2, <2>2
<1>3. CASE ~busy /\ busy' /\ Actions!Runs(job'[j])
  <2>1. Actions!Running = {}  BY <1>1, <1>3
  <2>2. \A k \in Jobs \ {j} : ~Actions!Runs(job'[k])  BY <2>1, OthersGoOn DEF Actions!Running
  <2>3. Actions!Running' = {j}  BY <1>3, <2>2 DEF Actions!Running
  <2> QED BY <1>3, <2>3
<1> QED BY <1>2, <1>3

-----------------------------------------------------------------------------
(* The user.                                                               *)

\* A job with other steps left.
LEMMA WithRest ==
  ASSUME NEW x \in RemainingJob, NEW s, Remains(s), NEW y, y = [x EXCEPT !.todo = s]
  PROVE  /\ y \in RemainingJob /\ y.previous = x.previous
         /\ InSection(s) => Actions!Runs(y) /\ ~Actions!Lends(y) /\ ~Asked(y)
         /\ s # <<>> /\ Head(s) = "ask" => ~Actions!Runs(y) /\ ~Actions!Lends(y) /\ Asked(y)
         /\ s # <<>> /\ Head(s) = "conflict" => ~Actions!Runs(y) /\ Actions!Lends(y) /\ Asked(y)
<1>1. s \in Seq(Actions!Steps)  BY RemainsTyped
<1>2. y \in RemainingJob /\ y.previous = x.previous /\ y.todo = s
  BY <1>1 DEF RemainingJob
<1> QED BY <1>2 DEF InSection, Actions!Runs, Actions!Lends, Asked, Actions!Awaits

LEMMA StartingSets ==
  ASSUME LockFits, NEW j \in Jobs, NEW a \in Actions!Actions, NEW activates \in BOOLEAN,
         Head(a) \in {"lock", "seize"}, Actions!Starting(j, Tail(a), activates)
  PROVE  /\ job' \in [Jobs -> RemainingJob] /\ OthersKept(j)
         /\ job[j] = Actions!Idle /\ Actions!Runs(job'[j]) /\ ~Actions!Lends(job'[j])
<1>1. Remains(Tail(a)) /\ InSection(Tail(a))  BY ActionsStartWell DEF StartsWell
<1>2. PICK x \in RemainingJob : x = [Actions!Idle EXCEPT !.activates = activates]
  <2>1. PICK z \in RemainingJob : z = Actions!Idle  BY IdleRemains
  <2> QED BY <2>1 DEF RemainingJob
<1>3. PICK y : y = [x EXCEPT !.todo = Tail(a)]  OBVIOUS
<1>4. y = [Actions!Idle EXCEPT !.todo = Tail(a), !.activates = activates]
  <2>1. PICK z \in RemainingJob : z = Actions!Idle  BY IdleRemains
  <2> QED BY <1>2, <1>3, <2>1 DEF RemainingJob
<1>5. y \in RemainingJob /\ Actions!Runs(y) /\ ~Actions!Lends(y)  BY <1>1, <1>3, WithRest
<1>6. job' = [job EXCEPT ![j] = y] /\ job[j] = Actions!Idle  BY <1>4 DEF Actions!Starting
<1> QED BY <1>5, <1>6, JobSet

LEMMA DialogStays ==
  ASSUME LockFits, NEW j \in Jobs, dialog' = dialog,
         job' \in [Jobs -> RemainingJob], job'[j] \in RemainingJob,
         \A k \in Jobs \ {j} : job'[k] = job[k], ~Asked(job[j])
  PROVE  dialog' \in Jobs \cup {NoJob} /\ (dialog' \in Jobs => Asked(job'[dialog']))
BY DEF LockFits

\* A step that writes job j only.
LEMMA OneJob ==
  ASSUME LockFits, NEW j \in Jobs, NEW y \in RemainingJob, job' = [job EXCEPT ![j] = y]
  PROVE  \A k \in Jobs \ {j} : job'[k] = job[k]
BY DEF LockFits

LEMMA StartLockedFits ==
  ASSUME LockFits, NEW j \in Jobs, Actions!StartLocked(j)  PROVE LockFits'
<1>1. PICK a \in Actions!Actions : Head(a) = "lock" /\ Actions!Starting(j, Tail(a), FALSE)
  BY DEF Actions!StartLocked
<1>2. /\ job' \in [Jobs -> RemainingJob] /\ OthersKept(j)
      /\ job[j] = Actions!Idle /\ Actions!Runs(job'[j]) /\ ~Actions!Lends(job'[j])
  BY <1>1, StartingSets
<1>3. ~busy /\ busy' = TRUE /\ dialog' = dialog /\ disturbed' = disturbed
  BY DEF Actions!StartLocked
<1>4. Actions!LockMeansRunning'  BY <1>2, <1>3, UndisturbedFits
<1>5. \A k \in Jobs \ {j} : job'[k] = job[k]
  BY <1>1 DEF Actions!Starting, LockFits
<1>6. dialog' \in Jobs \cup {NoJob} /\ (dialog' \in Jobs => Asked(job'[dialog']))
  BY <1>2, <1>3, <1>5, IdleRemains, DialogStays
<1> QED BY <1>2, <1>3, <1>4, <1>6, StepFits

LEMMA StartActivationFits ==
  ASSUME LockFits, NEW j \in Jobs, Actions!StartActivation(j)  PROVE LockFits'
<1>1. PICK a \in Actions!Actions : Head(a) = "seize" /\ Actions!Starting(j, Tail(a), TRUE)
  BY DEF Actions!StartActivation
<1>2. /\ job' \in [Jobs -> RemainingJob] /\ OthersKept(j)
      /\ job[j] = Actions!Idle /\ Actions!Runs(job'[j]) /\ ~Actions!Lends(job'[j])
  BY <1>1, StartingSets
<1>3. busy' = TRUE /\ dialog' = dialog /\ Actions!Disturbs(j)  BY DEF Actions!StartActivation
<1>4. Actions!LockMeansRunning'  BY <1>2, <1>3, DisturbsFits
<1>5. \A k \in Jobs \ {j} : job'[k] = job[k]
  BY <1>1 DEF Actions!Starting, LockFits
<1>6. dialog' \in Jobs \cup {NoJob} /\ (dialog' \in Jobs => Asked(job'[dialog']))
  BY <1>2, <1>3, <1>5, IdleRemains, DialogStays
<1> QED BY <1>2, <1>3, <1>4, <1>6, StepFits

LEMMA StartAskingFits ==
  ASSUME LockFits, NEW j \in Jobs, Actions!StartAsking(j)  PROVE LockFits'
<1>1. PICK a \in Actions!Actions :
        Head(a) = "ask" /\ Actions!Opens(j, [Actions!Idle EXCEPT !.todo = a])
  BY DEF Actions!StartAsking
<1>2. Remains(a) /\ a # <<>>  BY <1>1, ActionsStartWell DEF StartsWell
<1>3. PICK y : y = [Actions!Idle EXCEPT !.todo = a]  OBVIOUS
<1>4. y \in RemainingJob /\ ~Actions!Runs(y) /\ ~Actions!Lends(y) /\ Asked(y)
  BY <1>1, <1>2, <1>3, WithRest, IdleRemains
<1>5. job' = [Actions!Dismissed(j) EXCEPT ![j] = y] /\ dialog' = j  BY <1>1, <1>3
     DEF Actions!Opens
<1>6. job' \in [Jobs -> RemainingJob] /\ job'[j] = y /\ OthersKept(j)
  BY <1>4, <1>5, JobSet
<1>7. ~busy' /\ busy' = busy /\ Actions!Disturbs(j) /\ busy' \in BOOLEAN
  BY DEF Actions!StartAsking, LockFits
<1>8. Actions!LockMeansRunning'  BY <1>4, <1>6, <1>7, DisturbsFits
<1> QED BY <1>4, <1>5, <1>6, <1>7, <1>8, StepFits

\* The job goes on with the next step after a question or a loan.
LEMMA GoesSets ==
  ASSUME LockFits, NEW j \in Jobs, Actions!Goes(j), Asked(job[j])
  PROVE  /\ job' \in [Jobs -> RemainingJob] /\ OthersKept(j)
         /\ Actions!Runs(job'[j]) /\ ~Actions!Lends(job'[j])
<1>1. PICK x \in RemainingJob : x = job[j]  BY DEF LockFits
<1>2. Remains(x.todo) /\ x.todo # <<>> /\ Head(x.todo) \in {"ask", "conflict"}
  BY <1>1 DEF RemainingJob, Asked, Actions!Lends, Actions!Awaits
<1>3. Remains(Tail(x.todo)) /\ InSection(Tail(x.todo))  BY <1>2, RestRemains
<1>4. PICK y : y = [x EXCEPT !.todo = Tail(x.todo)]  OBVIOUS
<1>5. y \in RemainingJob /\ Actions!Runs(y) /\ ~Actions!Lends(y)  BY <1>3, <1>4, WithRest
<1>6. job' = [job EXCEPT ![j] = y]
  BY <1>1, <1>4 DEF Actions!Goes, LockFits
<1> QED BY <1>5, <1>6, JobSet

LEMMA EndsSets ==
  ASSUME LockFits, NEW j \in Jobs, Actions!Ends(j)
  PROVE  /\ job' \in [Jobs -> RemainingJob] /\ OthersKept(j)
         /\ job'[j] = Actions!Idle /\ \A k \in Jobs \ {j} : job'[k] = job[k]
<1>1. PICK y \in RemainingJob : y = Actions!Idle  BY IdleRemains
<1>2. job' = [job EXCEPT ![j] = y]  BY <1>1 DEF Actions!Ends
<1> QED BY <1>1, <1>2, JobSet, OneJob

LEMMA AcceptFits ==
  ASSUME Actions!AdminActionsAssumption, LockFits, NEW j \in Jobs,
         Actions!Accept(j)  PROVE LockFits'
<1>1. /\ dialog = j /\ dialog' = NoJob /\ NoJob \notin Jobs /\ Asked(job[j])
      /\ ~Actions!Runs(job[j])
  BY DEF Actions!Accept, LockFits, Actions!AdminActionsAssumption, Asked, Actions!Lends,
         Actions!Runs, Actions!Awaits
<1>2. CASE ~busy /\ busy' = TRUE /\ Actions!Goes(j) /\ disturbed' = disturbed
  <2>1. /\ job' \in [Jobs -> RemainingJob] /\ OthersKept(j)
        /\ Actions!Runs(job'[j]) /\ ~Actions!Lends(job'[j])
    BY <1>1, <1>2, GoesSets
  <2>2. Actions!LockMeansRunning'  BY <1>2, <2>1, UndisturbedFits
  <2> QED BY <1>1, <1>2, <2>1, <2>2, StepFits
<1>3. CASE Actions!Ends(j) /\ busy' = busy /\ disturbed' = disturbed
  <2>1. job' \in [Jobs -> RemainingJob] /\ OthersKept(j) /\ job'[j] = Actions!Idle
    BY <1>3, EndsSets
  <2>2. busy' \in BOOLEAN  BY <1>3 DEF LockFits
  <2>3. Actions!LockMeansRunning'  BY <1>1, <1>3, <2>1, <2>2, UndisturbedFits, IdleRemains
  <2> QED BY <1>1, <1>3, <2>1, <2>2, <2>3, StepFits, IdleRemains
<1>4. CASE Actions!Lends(job[j]) /\ busy' = job[j].previous /\ Actions!Goes(j)
      /\ Actions!Disturbs(j)
  <2>1. /\ job' \in [Jobs -> RemainingJob] /\ OthersKept(j)
        /\ Actions!Runs(job'[j]) /\ ~Actions!Lends(job'[j])
    BY <1>1, <1>4, GoesSets
  <2>2. busy' \in BOOLEAN /\ (~disturbed => busy')
    BY <1>4 DEF LockFits, RemainingJob
  <2>3. Actions!LockMeansRunning'  BY <1>4, <2>1, <2>2, DisturbsFits
  <2> QED BY <1>1, <1>4, <2>1, <2>2, <2>3, StepFits
<1> QED BY <1>2, <1>3, <1>4 DEF Actions!Accept, Actions!Lockable

LEMMA RefuseFits ==
  ASSUME Actions!AdminActionsAssumption, LockFits, NEW j \in Jobs,
         Actions!Refuse(j)  PROVE LockFits'
<1>1. /\ dialog = j /\ dialog' = NoJob /\ NoJob \notin Jobs /\ Asked(job[j])
      /\ ~Actions!Runs(job[j]) /\ Actions!Ends(j)
  BY DEF Actions!Refuse, LockFits, Actions!AdminActionsAssumption, Asked, Actions!Lends,
         Actions!Runs, Actions!Awaits
<1>2. job' \in [Jobs -> RemainingJob] /\ OthersKept(j) /\ job'[j] = Actions!Idle
  BY <1>1, EndsSets
<1>3. CASE busy' = FALSE /\ Actions!Disturbs(j)
  <2>1. Actions!LockMeansRunning'  BY <1>2, <1>3, DisturbsFits, IdleRemains
  <2> QED BY <1>1, <1>2, <1>3, <2>1, StepFits, IdleRemains
<1>4. CASE busy' = busy /\ disturbed' = disturbed
  <2>1. busy' \in BOOLEAN  BY <1>4 DEF LockFits
  <2>2. Actions!LockMeansRunning'  BY <1>1, <1>2, <1>4, <2>1, UndisturbedFits, IdleRemains
  <2> QED BY <1>1, <1>2, <1>4, <2>1, <2>2, StepFits, IdleRemains
<1> QED BY <1>3, <1>4 DEF Actions!Refuse

-----------------------------------------------------------------------------
(* Answers.                                                                *)

LEMMA RunningIsNotAsked ==
  ASSUME NEW x, Actions!Runs(x)  PROVE ~Asked(x) /\ x.todo # <<>>
BY DEF Actions!Runs, Asked, Actions!Lends, Actions!Awaits

LEMMA FinishFits ==
  ASSUME LockFits, NEW j \in Jobs, Actions!Runs(job[j]), Actions!Finish(j)  PROVE LockFits'
<1>1. /\ job' \in [Jobs -> RemainingJob] /\ OthersKept(j) /\ job'[j] = Actions!Idle
      /\ \A k \in Jobs \ {j} : job'[k] = job[k]
  BY EndsSets DEF Actions!Finish
<1>2. busy' = FALSE /\ Actions!Disturbs(j) /\ dialog' = dialog  BY DEF Actions!Finish
<1>3. Actions!LockMeansRunning'  BY <1>1, <1>2, DisturbsFits, IdleRemains
<1>4. dialog' \in Jobs \cup {NoJob} /\ (dialog' \in Jobs => Asked(job'[dialog']))
  BY <1>1, <1>2, RunningIsNotAsked, DialogStays
<1> QED BY <1>1, <1>2, <1>3, <1>4, StepFits, IdleRemains

\* The section goes on.
LEMMA GoesOnFits ==
  ASSUME LockFits, NEW j \in Jobs, Actions!Runs(job[j]), NEW s, Remains(s), InSection(s),
         job' = [job EXCEPT ![j].todo = s], UNCHANGED <<busy, dialog, disturbed>>
  PROVE  LockFits'
<1>1. PICK x \in RemainingJob : x = job[j]  BY DEF LockFits
<1>2. PICK y : y = [x EXCEPT !.todo = s]  OBVIOUS
<1>3. y \in RemainingJob /\ Actions!Runs(y) /\ ~Actions!Lends(y)  BY <1>2, WithRest
<1>4. job' = [job EXCEPT ![j] = y]  BY <1>1, <1>2 DEF LockFits
<1>5. /\ job' \in [Jobs -> RemainingJob] /\ job'[j] = y /\ OthersKept(j)
      /\ \A k \in Jobs \ {j} : job'[k] = job[k]
  BY <1>3, <1>4, JobSet, OneJob
<1>6. busy' \in BOOLEAN  BY DEF LockFits
<1>7. Actions!LockMeansRunning'  BY <1>3, <1>5, <1>6, UndisturbedFits
<1>8. dialog' \in Jobs \cup {NoJob} /\ (dialog' \in Jobs => Asked(job'[dialog']))
  BY <1>5, RunningIsNotAsked, DialogStays
<1> QED BY <1>3, <1>5, <1>6, <1>7, <1>8, StepFits

\* It gives the lock back, or lends it, and asks.
LEMMA OpensFits ==
  ASSUME LockFits, NEW j \in Jobs, NEW y \in RemainingJob, Actions!Opens(j, y), busy' = FALSE,
         Actions!Disturbs(j), ~Actions!Runs(y), Asked(y), Actions!Lends(y) /\ ~y.previous
           => disturbed'
  PROVE  LockFits'
<1>1. job' = [Actions!Dismissed(j) EXCEPT ![j] = y] /\ dialog' = j  BY DEF Actions!Opens
<1>2. job' \in [Jobs -> RemainingJob] /\ job'[j] = y /\ OthersKept(j)
  BY <1>1, JobSet
<1>3. Actions!LockMeansRunning'  BY <1>2, DisturbsFits
<1> QED BY <1>1, <1>2, <1>3, StepFits

LEMMA ProceedFits ==
  ASSUME LockFits, NEW j \in Jobs, Actions!Runs(job[j]), Actions!Proceed(j)  PROVE LockFits'
<1>1. PICK x \in RemainingJob : x = job[j]  BY DEF LockFits
<1>2. PICK rest : rest = Tail(x.todo)  OBVIOUS
<1>3. Remains(rest)
  BY <1>1, <1>2, RunningIsNotAsked, RestRemains DEF RemainingJob
<1>4. CASE Actions!Finish(j)  BY <1>4, FinishFits
<1>5. CASE /\ rest # <<>> /\ Head(rest) \in {"call", "refresh"} /\ Actions!Goes(j)
           /\ UNCHANGED <<busy, dialog, disturbed>>
  <2>1. InSection(rest)  BY <1>5 DEF InSection
  <2>2. job' = [job EXCEPT ![j].todo = rest]  BY <1>1, <1>2, <1>5 DEF Actions!Goes, LockFits
  <2> QED BY <1>3, <1>5, <2>1, <2>2, GoesOnFits
<1>6. CASE /\ rest # <<>> /\ Head(rest) = "ask" /\ Actions!Opens(j, [x EXCEPT !.todo = rest])
           /\ busy' = FALSE /\ Actions!Disturbs(j)
  <2>1. PICK y : y = [x EXCEPT !.todo = rest]  OBVIOUS
  <2>2. y \in RemainingJob /\ ~Actions!Runs(y) /\ ~Actions!Lends(y) /\ Asked(y)
    BY <1>3, <1>6, <2>1, WithRest
  <2> QED BY <1>6, <2>1, <2>2, OpensFits
<1>7. CASE /\ rest # <<>> /\ Head(rest) = "conflict"
           /\ Actions!Opens(j, [x EXCEPT !.todo = rest, !.previous = busy])
           /\ busy' = FALSE /\ Actions!Disturbs(j)
  <2>1. PICK z \in RemainingJob : z = [x EXCEPT !.previous = busy] /\ z.previous = busy
    <3>1. PICK b \in BOOLEAN : b = busy  BY DEF LockFits
    <3>2. [x EXCEPT !.previous = b] \in RemainingJob /\ [x EXCEPT !.previous = b].previous = b
      BY DEF RemainingJob
    <3> QED BY <3>1, <3>2
  <2>2. PICK y : y = [z EXCEPT !.todo = rest]  OBVIOUS
  <2>3. y \in RemainingJob /\ ~Actions!Runs(y) /\ Actions!Lends(y) /\ Asked(y)
        /\ y.previous = busy
    BY <1>3, <1>7, <2>1, <2>2, WithRest
  <2>4. y = [x EXCEPT !.todo = rest, !.previous = busy]
    BY <2>1, <2>2 DEF RemainingJob
  <2>5. job'[j] = y
    BY <1>7, <2>3, <2>4, JobSet DEF Actions!Opens
  <2>6. ~busy => disturbed
    <3>1. j \in Actions!Running  BY DEF Actions!Running
    <3>2. ~disturbed => busy  BY <3>1 DEF LockFits, Actions!LockMeansRunning
    <3> QED BY <3>2
  <2>7. ~busy => disturbed'  BY <1>7, <2>3, <2>5, <2>6 DEF Actions!Disturbs
  <2> QED BY <1>7, <2>3, <2>4, <2>7, OpensFits
<1>8. CASE /\ rest # <<>> /\ Head(rest) = "conflict"
           /\ job' = [job EXCEPT ![j].todo = Tail(rest)]
           /\ UNCHANGED <<busy, dialog, disturbed>>
  <2>1. PICK s : s = Tail(rest)  OBVIOUS
  <2>2. Remains(s) /\ InSection(s)  BY <1>3, <1>8, <2>1, RestRemains
  <2> QED BY <1>8, <2>1, <2>2, GoesOnFits
<1> QED BY <1>1, <1>2, <1>4, <1>5, <1>6, <1>7, <1>8 DEF Actions!Proceed

LEMMA DialogAnswerFits ==
  ASSUME LockFits, NEW j \in Jobs, Actions!Answer(j)  PROVE LockFits'
BY ProceedFits, FinishFits DEF Actions!Answer

LEMMA JobFailsFits ==
  ASSUME LockFits, NEW j \in Jobs, Actions!Fails(j)  PROVE LockFits'
BY FinishFits DEF Actions!Fails, Actions!Runs

-----------------------------------------------------------------------------
LEMMA InitLock ==
  ASSUME Actions!AdminActionsAssumption, Actions!Init  PROVE LockFits
<1>1. PICK z \in RemainingJob : z = Actions!Idle  BY IdleRemains
<1>2. job = [j \in Jobs |-> z]  BY <1>1 DEF Actions!Init
<1>3. \A j \in Jobs : ~Actions!Runs(job[j]) /\ ~Actions!Lends(job[j])  BY <1>1, <1>2, IdleRemains
<1>4. Actions!LockMeansRunning  BY <1>3
     DEF Actions!Init, Actions!LockMeansRunning, Actions!Running
<1> QED BY <1>2, <1>3, <1>4 DEF Actions!Init, LockFits, Actions!AdminActionsAssumption

LEMMA NextLock ==
  ASSUME Actions!AdminActionsAssumption, LockFits, [Actions!Next]_(Actions!vars)  PROVE LockFits'
<1>1. ASSUME NEW j \in Jobs, Actions!StartLocked(j)  PROVE LockFits'  BY <1>1, StartLockedFits
<1>2. ASSUME NEW j \in Jobs, Actions!StartAsking(j)  PROVE LockFits'  BY <1>2, StartAskingFits
<1>3. ASSUME NEW j \in Jobs, Actions!StartActivation(j)  PROVE LockFits'
  BY <1>3, StartActivationFits
<1>4. ASSUME NEW j \in Jobs, Actions!Accept(j)  PROVE LockFits'  BY <1>4, AcceptFits
<1>5. ASSUME NEW j \in Jobs, Actions!Refuse(j)  PROVE LockFits'  BY <1>5, RefuseFits
<1>6. ASSUME NEW j \in Jobs, Actions!Answer(j)  PROVE LockFits'  BY <1>6, DialogAnswerFits
<1>7. ASSUME NEW j \in Jobs, Actions!Fails(j)  PROVE LockFits'  BY <1>7, JobFailsFits
<1>8. CASE UNCHANGED Actions!vars
  BY <1>8 DEF Actions!vars, LockFits, Actions!LockMeansRunning, Actions!Running
<1> QED BY <1>1, <1>2, <1>3, <1>4, <1>5, <1>6, <1>7, <1>8 DEF Actions!Next

LEMMA LockHolds ==
  Actions!AdminActionsAssumption => (Actions!Spec => []LockFits)
<1> SUFFICES ASSUME Actions!AdminActionsAssumption  PROVE Actions!Spec => []LockFits
  OBVIOUS
<1>1. Actions!Init => LockFits  BY InitLock
<1>2. LockFits /\ [Actions!Next]_(Actions!vars) => LockFits'  BY NextLock
<1> QED BY <1>1, <1>2, PTL DEF Actions!Spec

\* The lock is held exactly while one of the actions runs, through confirmations,
\* failures and actions that end each other's dialogs (actionBusy).
THEOREM LockIsHeldByOne ==
  Actions!AdminActionsAssumption => (Actions!Spec => []LockMeansRunning)
<1> SUFFICES ASSUME Actions!AdminActionsAssumption
             PROVE  Actions!Spec => []LockMeansRunning
  OBVIOUS
<1>1. LockFits => LockMeansRunning  BY DEF LockFits, LockMeansRunning
<1> QED BY <1>1, LockHolds, PTL

-----------------------------------------------------------------------------
(***************************************************************************)
(* ImapMailbox: what a build has read so far is the newest part of the     *)
(* mailbox as long as nothing was deleted under it.                        *)
(***************************************************************************)

\* Cardinality in the two parts is that of FiniteSets.
LEMMA OneCardinality ==
  ASSUME NEW S
  PROVE  /\ Imap!Cardinality(S) = Cardinality(S)
         /\ Workbench!Cardinality(S) = Cardinality(S)
         /\ Workbench!IsFiniteSet(S) <=> IsFiniteSet(S)
<1>1. Workbench!IsFiniteSet(S) <=> IsFiniteSet(S)
  BY Zenon DEF Workbench!IsFiniteSet, IsFiniteSet
<1>2. Imap!Cardinality(S) = Cardinality(S)
  BY Zenon DEF Imap!Cardinality, Cardinality, Imap!IsFiniteSet, IsFiniteSet
<1>3. Workbench!Cardinality(S) = Cardinality(S)
  BY Zenon DEF Workbench!Cardinality, Cardinality, Workbench!IsFiniteSet, IsFiniteSet
<1> QED BY <1>1, <1>2, <1>3

-----------------------------------------------------------------------------
(* Pages of a set of mails.                                                *)

Newer(r, u) == Cardinality({v \in r : v > u})

\* The n newest mails, and a page of them.
Newest(r, n) == {u \in r : Newer(r, u) < n}

MessagesOf(r, limit, offset) == {u \in r : offset <= Newer(r, u) /\ Newer(r, u) < offset + limit}

LEMMA IdsAreFinite ==
  ASSUME Imap!ImapMailboxAssumption, NEW r, r \subseteq Imap!Ids
  PROVE  /\ IsFiniteSet(r) /\ Cardinality(r) \in 0..MaxMail
         /\ \A s : s \subseteq r => IsFiniteSet(s) /\ Cardinality(s) <= Cardinality(r)
                                    /\ (Cardinality(s) = Cardinality(r) => s = r)
<1>1. MaxMail \in Nat /\ 1 \in Nat  BY DEF Imap!ImapMailboxAssumption
<1>2. IsFiniteSet(Imap!Ids) /\ Cardinality(Imap!Ids) = MaxMail
  <2>1. IsFiniteSet(1..MaxMail)
        /\ Cardinality(1..MaxMail) = IF 1 > MaxMail THEN 0 ELSE MaxMail - 1 + 1
    BY <1>1, FS_Interval
  <2> QED BY <1>1, <2>1 DEF Imap!Ids, Imap!ImapMailboxAssumption
<1>3. IsFiniteSet(r) /\ Cardinality(r) <= Cardinality(Imap!Ids)  BY <1>2, FS_Subset
<1>4. Cardinality(r) \in Nat  BY <1>3, FS_CardinalityType
<1>5. \A s : s \subseteq r => IsFiniteSet(s) /\ Cardinality(s) <= Cardinality(r)
                              /\ (Cardinality(s) = Cardinality(r) => s = r)
  BY <1>3, FS_Subset
<1> QED BY <1>1, <1>2, <1>3, <1>4, <1>5

LEMMA NewerCounts ==
  ASSUME Imap!ImapMailboxAssumption, NEW r, r \subseteq Imap!Ids, NEW u \in r
  PROVE  Newer(r, u) \in Nat /\ Newer(r, u) < Cardinality(r)
<1> DEFINE s == {v \in r : v > u}
<1>1. s \subseteq r  OBVIOUS
<1>2. s # r  BY DEF Imap!Ids
<1> HIDE DEF s
<1>3. IsFiniteSet(s) /\ Cardinality(s) <= Cardinality(r) /\ Cardinality(s) # Cardinality(r)
  BY <1>1, <1>2, IdsAreFinite
<1>4. Cardinality(s) \in Nat /\ Cardinality(r) \in Nat  BY <1>3, IdsAreFinite, FS_CardinalityType
<1>5. Cardinality(s) < Cardinality(r)  BY <1>3, <1>4
<1> QED BY <1>4, <1>5 DEF Newer, s

\* The first n newest and the page after them are the first n + limit.
LEMMA NewestGrow ==
  ASSUME Imap!ImapMailboxAssumption, NEW r, r \subseteq Imap!Ids,
         NEW n \in Nat, NEW limit \in Nat
  PROVE  Newest(r, n) \cup MessagesOf(r, limit, n) = Newest(r, n + limit)
BY NewerCounts DEF Newest, MessagesOf

LEMMA NewestNone ==
  ASSUME Imap!ImapMailboxAssumption, NEW r, r \subseteq Imap!Ids  PROVE Newest(r, 0) = {}
<1>1. PICK zero \in Nat : zero = 0  OBVIOUS
<1>2. \A u \in r : Newer(r, u) \in Nat  BY NewerCounts
<1>3. Newest(r, zero) = {}  BY <1>1, <1>2 DEF Newest
<1> QED BY <1>1, <1>3

LEMMA NewestAll ==
  ASSUME Imap!ImapMailboxAssumption, NEW r, r \subseteq Imap!Ids, NEW n \in Nat,
         n >= Cardinality(r)
  PROVE  Newest(r, n) = r
<1>1. Cardinality(r) \in Nat  BY IdsAreFinite
<1> QED BY <1>1, NewerCounts DEF Newest

LEMMA LargestExists ==
  ASSUME NEW N \in Nat, NEW S, S \subseteq 0..N, S # {}
  PROVE  Imap!Max(S) \in S /\ \A y \in S : Imap!Max(S) >= y
<1> DEFINE X == {N - u : u \in S}
<1>1. X \subseteq Nat /\ X # {}
  <2>1. PICK u : u \in S  OBVIOUS
  <2>2. N - u \in X  BY <2>1
  <2>3. \A w \in S : N - w \in Nat  OBVIOUS
  <2> QED BY <2>2, <2>3
<1>2. IsWellFoundedOn(OpToRel(<, Nat), Nat)  BY NatLessThanWellFounded
<1>3. PICK m \in X : \A y \in X : ~(<<y, m>> \in OpToRel(<, Nat))
  <2> HIDE DEF X
  <2> QED BY <1>1, <1>2, WFMin, Zenon
<1>4. \A y \in X : ~(y < m)  BY <1>1, <1>3 DEF OpToRel
<1>5. \E x \in S : \A y \in S : x >= y
  <2>1. PICK x \in S : m = N - x  BY <1>3
  <2>2. \A y \in S : N - y \in X  OBVIOUS
  <2> HIDE DEF X
  <2>3. \A y \in S : ~(N - y < N - x)  BY <1>4, <2>1, <2>2
  <2> QED BY <2>3
<1> QED BY <1>5 DEF Imap!Max

-----------------------------------------------------------------------------
(* What holds at every moment.                                             *)

ImapTyped ==
  /\ rows \subseteq Imap!Ids
  /\ count \in 0..MaxMail
  /\ index \subseteq Imap!Ids
  /\ built \in BOOLEAN
  /\ cmd \in [Commands -> Imap!Command]
  /\ shaken \in BOOLEAN
  /\ spoilt \in BOOLEAN

\* A build under way over the mails r, when the proxy counts n of them: if the
\* count is right, it has the newest so far.
BuildFits(x, r, n) ==
  /\ x.pc = "count" /\ x.served => x.answer \subseteq r
  /\ x.pc = "page" =>
       /\ x.total = n /\ x.offset < x.total /\ n <= Cardinality(r)
       /\ n = Cardinality(r) =>
            /\ x.got = Newest(r, x.offset)
            /\ x.served => x.answer = MessagesOf(r, Imap!Limit(x), x.offset)

IndexFits(ix, r, n) == n <= Cardinality(r) /\ (n = Cardinality(r) => ix = r)

MailboxFits ==
  /\ ImapTyped
  /\ ~spoilt => \A c, d \in Commands : Imap!Building(c) /\ Imap!Building(d) => c = d
  /\ ~spoilt /\ ~shaken => \A c \in Commands : Imap!Building(c) => BuildFits(cmd[c], rows, count)
  /\ ~spoilt /\ ~shaken /\ built /\ (\A c \in Commands : ~Imap!Building(c)) =>
       IndexFits(index, rows, count)

-----------------------------------------------------------------------------
(* Steps, by what they do to the build.                                    *)

\* The other commands may only lose their calm.
OthersRest(c) ==
  \A d \in Commands \ {c} : cmd'[d] = cmd[d] \/ cmd'[d] = [cmd[d] EXCEPT !.calm = FALSE]

LEMMA CalmAside ==
  ASSUME NEW x \in Imap!Command, NEW r, NEW n, BuildFits(x, r, n)
  PROVE  BuildFits([x EXCEPT !.calm = FALSE], r, n)
<1>1. PICK y : y = [x EXCEPT !.calm = FALSE]  OBVIOUS
<1>2. /\ y.pc = x.pc /\ y.served = x.served /\ y.answer = x.answer /\ y.total = x.total
      /\ y.offset = x.offset /\ y.got = x.got
  BY <1>1 DEF Imap!Command
<1>3. BuildFits(y, r, n)  BY <1>2 DEF BuildFits, Imap!Limit
<1> QED BY <1>1, <1>3

LEMMA OthersBuild ==
  ASSUME MailboxFits, NEW c \in Commands, OthersRest(c), rows' = rows, count' = count
  PROVE  \A d \in Commands \ {c} :
           /\ Imap!Building(d)' <=> Imap!Building(d)
           /\ BuildFits(cmd[d], rows, count) => BuildFits(cmd'[d], rows', count')
<1> SUFFICES ASSUME NEW d \in Commands \ {c}
             PROVE  /\ Imap!Building(d)' <=> Imap!Building(d)
                    /\ BuildFits(cmd[d], rows, count) => BuildFits(cmd'[d], rows', count')
  OBVIOUS
<1>1. PICK x \in Imap!Command : x = cmd[d]  BY DEF MailboxFits, ImapTyped
<1>2. CASE cmd'[d] = cmd[d]  BY <1>2 DEF Imap!Building
<1>3. CASE cmd'[d] = [cmd[d] EXCEPT !.calm = FALSE]
  <2>1. cmd'[d].pc = cmd[d].pc  BY <1>1, <1>3 DEF Imap!Command
  <2>2. BuildFits(x, rows, count) => BuildFits([x EXCEPT !.calm = FALSE], rows, count)
    BY CalmAside
  <2> QED BY <1>1, <1>3, <2>1, <2>2 DEF Imap!Building
<1> QED BY <1>2, <1>3 DEF OthersRest

\* The same about who builds, whatever the count.
LEMMA OthersStillBuild ==
  ASSUME ImapTyped, NEW c \in Commands, OthersRest(c)
  PROVE  \A d \in Commands \ {c} : Imap!Building(d)' <=> Imap!Building(d)
<1> SUFFICES ASSUME NEW d \in Commands \ {c}  PROVE Imap!Building(d)' <=> Imap!Building(d)
  OBVIOUS
<1>1. PICK x \in Imap!Command : x = cmd[d]  BY DEF ImapTyped
<1>2. cmd'[d].pc = cmd[d].pc  BY <1>1 DEF OthersRest, Imap!Command
<1> QED BY <1>2 DEF Imap!Building

LEMMA MailboxQuiet ==
  ASSUME MailboxFits, ImapTyped', NEW c \in Commands, ~Imap!Building(c), ~Imap!Building(c)',
         OthersRest(c), UNCHANGED <<rows, count, index, built, shaken, spoilt>>
  PROVE  MailboxFits'
<1>1. \A d \in Commands : Imap!Building(d)' <=> Imap!Building(d)  BY OthersBuild
<1>2. ~spoilt' => \A b, d \in Commands : Imap!Building(b)' /\ Imap!Building(d)' => b = d
  BY <1>1 DEF MailboxFits
<1>3. ~spoilt' /\ ~shaken' =>
        \A d \in Commands : Imap!Building(d)' => BuildFits(cmd'[d], rows', count')
  BY <1>1, OthersBuild DEF MailboxFits
<1>4. ~spoilt' /\ ~shaken' /\ built' /\ (\A d \in Commands : ~Imap!Building(d)') =>
        IndexFits(index', rows', count')
  BY <1>1 DEF MailboxFits
<1> QED BY <1>2, <1>3, <1>4 DEF MailboxFits

\* A build begins.
LEMMA BuildsFits ==
  ASSUME MailboxFits, ImapTyped', NEW c \in Commands, OthersRest(c), rows' = rows,
         cmd'[c].pc = "count", ~cmd'[c].served,
         spoilt' = \E d \in Commands \ {c} : Imap!Building(d)
  PROVE  MailboxFits'
<1>1. \A d \in Commands \ {c} : Imap!Building(d)' <=> Imap!Building(d)
  BY OthersStillBuild DEF MailboxFits
<1>2. ~spoilt' => \A d \in Commands : Imap!Building(d)' => d = c  BY <1>1
<1>3. BuildFits(cmd'[c], rows', count')  BY DEF BuildFits
<1>4. Imap!Building(c)'  BY DEF Imap!Building
<1>5. ~spoilt' => \A b, d \in Commands : Imap!Building(b)' /\ Imap!Building(d)' => b = d
  BY <1>2
<1>6. ~spoilt' /\ ~shaken' =>
        \A d \in Commands : Imap!Building(d)' => BuildFits(cmd'[d], rows', count')
  BY <1>2, <1>3
<1>7. ~spoilt' /\ ~shaken' /\ built' /\ (\A d \in Commands : ~Imap!Building(d)') =>
        IndexFits(index', rows', count')
  BY <1>4
<1> QED BY <1>5, <1>6, <1>7 DEF MailboxFits

\* It goes on, or ends.
LEMMA BuildGoesOn ==
  ASSUME MailboxFits, ImapTyped', NEW c \in Commands, Imap!Building(c), OthersRest(c),
         UNCHANGED <<shaken, spoilt>>,
         ~spoilt /\ ~shaken => /\ Imap!Building(c)' => BuildFits(cmd'[c], rows', count')
                               /\ ~Imap!Building(c)' => IndexFits(index', rows', count')
  PROVE  MailboxFits'
<1>1. \A d \in Commands \ {c} : Imap!Building(d)' <=> Imap!Building(d)
  BY OthersStillBuild DEF MailboxFits
<1>2. ~spoilt => \A d \in Commands \ {c} : ~Imap!Building(d)'  BY <1>1 DEF MailboxFits
<1>3. ~spoilt' => \A b, d \in Commands : Imap!Building(b)' /\ Imap!Building(d)' => b = d
  BY <1>2
<1>4. ~spoilt' /\ ~shaken' =>
        \A d \in Commands : Imap!Building(d)' => BuildFits(cmd'[d], rows', count')
  BY <1>2
<1>5. ~spoilt' /\ ~shaken' /\ built' /\ (\A d \in Commands : ~Imap!Building(d)') =>
        IndexFits(index', rows', count')
  OBVIOUS
<1> QED BY <1>3, <1>4, <1>5 DEF MailboxFits

-----------------------------------------------------------------------------
(* Commands.                                                               *)

LEMMA IdleTyped ==
  ASSUME Imap!ImapMailboxAssumption
  PROVE  Imap!Idle \in Imap!Command /\ Imap!Idle.pc = "idle" /\ ~Imap!Idle.served
<1>1. {} \in SUBSET Imap!Ids /\ 0 \in 0..MaxMail /\ 0 \in Nat  BY DEF Imap!ImapMailboxAssumption
<1> QED BY <1>1 DEF Imap!Idle, Imap!Command

LEMMA AsksTyped ==
  ASSUME NEW x \in Imap!Command, NEW pc \in Imap!Calls
  PROVE  /\ Imap!Asks(x, pc) \in Imap!Command /\ Imap!Asks(x, pc).pc = pc
         /\ ~Imap!Asks(x, pc).served
         /\ Imap!Asks(x, pc).total = x.total /\ Imap!Asks(x, pc).offset = x.offset
         /\ Imap!Asks(x, pc).got = x.got
<1>1. {} \in SUBSET Imap!Ids  OBVIOUS
<1> QED BY <1>1 DEF Imap!Asks, Imap!Command, Imap!Calls

LEMMA EndsTyped ==
  ASSUME Imap!ImapMailboxAssumption, NEW x \in Imap!Command, NEW result \in SUBSET Imap!Ids
  PROVE  Imap!Ends(x, result) \in Imap!Command /\ Imap!Ends(x, result).pc = "done"
<1>1. PICK y \in Imap!Command : y = Imap!Idle  BY IdleTyped
<1>2. [y EXCEPT !.kind = x.kind, !.pc = "done", !.range = x.range,
                !.result = result, !.calm = x.calm] \in Imap!Command
  BY DEF Imap!Command
<1>3. [y EXCEPT !.kind = x.kind, !.pc = "done", !.range = x.range,
                !.result = result, !.calm = x.calm].pc = "done"
  BY DEF Imap!Command
<1> QED BY <1>1, <1>2, <1>3 DEF Imap!Ends

LEMMA DisturbedTyped ==
  ASSUME ImapTyped, NEW cs
  PROVE  /\ Imap!Disturbed(cs) \in [Commands -> Imap!Command]
         /\ \A d \in Commands : \/ Imap!Disturbed(cs)[d] = cmd[d]
                                \/ Imap!Disturbed(cs)[d] = [cmd[d] EXCEPT !.calm = FALSE]
<1>1. cmd \in [Commands -> Imap!Command]  BY DEF ImapTyped
<1>2. \A x \in Imap!Command : [x EXCEPT !.calm = FALSE] \in Imap!Command  BY DEF Imap!Command
<1> QED BY <1>1, <1>2 DEF Imap!Disturbed

\* A command c becomes y, the others rest.
LEMMA CommandSet ==
  ASSUME NEW c \in Commands, NEW y \in Imap!Command, ImapTyped, NEW cs,
         cmd' = [cmd EXCEPT ![c] = y] \/ cmd' = [Imap!Disturbed(cs) EXCEPT ![c] = y]
  PROVE  cmd' \in [Commands -> Imap!Command] /\ cmd'[c] = y /\ OthersRest(c)
<1>1. cmd \in [Commands -> Imap!Command]  BY DEF ImapTyped
<1>2. CASE cmd' = [cmd EXCEPT ![c] = y]
  BY <1>1, <1>2 DEF OthersRest
<1>3. CASE cmd' = [Imap!Disturbed(cs) EXCEPT ![c] = y]
  BY <1>3, DisturbedTyped DEF OthersRest
<1> QED BY <1>2, <1>3

\* What is answered from the cache is still there at the end, unless the command
\* or another one loses its calm by it.
Answers(c, x, want, put) ==
  /\ cmd'[c] \in Imap!Command
  /\ cmd'[c].pc = "done" /\ cmd'[c].kind = x.kind /\ cmd'[c].range = x.range
  /\ cmd'[c].result = want \cap Imap!ToSet(cache') \cap index'
  /\ cmd'[c].calm => x.calm /\ put \subseteq Imap!ToSet(cache')
       /\ Imap!ToSet(cache) \subseteq Imap!ToSet(cache')
  /\ \A d \in Commands \ {c} : cmd'[d].calm => Imap!ToSet(cache) \subseteq Imap!ToSet(cache')

LEMMA EndsRecord ==
  ASSUME Imap!ImapMailboxAssumption, NEW x \in Imap!Command, NEW result \in SUBSET Imap!Ids,
         NEW y, y = Imap!Ends(x, result)
  PROVE  y.kind = x.kind /\ y.range = x.range /\ y.result = result /\ y.calm = x.calm
<1>1. PICK z \in Imap!Command : z = Imap!Idle  BY IdleTyped
<1>2. y = [z EXCEPT !.kind = x.kind, !.pc = "done", !.range = x.range,
                    !.result = result, !.calm = x.calm]
  BY <1>1 DEF Imap!Ends
<1> QED BY <1>2 DEF Imap!Command

LEMMA FromCacheEnds ==
  ASSUME Imap!ImapMailboxAssumption, ImapTyped, NEW c \in Commands, NEW x \in Imap!Command,
         NEW want, NEW put, index' \subseteq Imap!Ids, Imap!FromCache(c, x, want, put)
  PROVE  /\ cmd' \in [Commands -> Imap!Command] /\ OthersRest(c) /\ ~Imap!Building(c)'
         /\ Answers(c, x, want, put)
<1>1. PICK evicted \in BOOLEAN, result \in SUBSET Imap!Ids, cs \in SUBSET Commands :
         /\ cmd' = [Imap!Disturbed(cs) EXCEPT
                      ![c] = Imap!Ends([x EXCEPT !.calm = x.calm /\ ~evicted], result)]
         /\ result = want \cap Imap!ToSet(cache') \cap index'
         /\ ~evicted => Imap!ToSet(cache) \cup put \subseteq Imap!ToSet(cache')
         /\ evicted => cs = Commands
  <2> DEFINE evicted == (Imap!ToSet(cache) \cup put) \ Imap!ToSet(cache') # {}
             result == want \cap Imap!ToSet(cache') \cap index'
  <2>1. result \in SUBSET Imap!Ids /\ evicted \in BOOLEAN  OBVIOUS
  <2>2. cmd' = [Imap!Disturbed(IF evicted THEN Commands ELSE {}) EXCEPT
                  ![c] = Imap!Ends([x EXCEPT !.calm = x.calm /\ ~evicted], result)]
    BY DEF Imap!FromCache
  <2>3. (IF evicted THEN Commands ELSE {}) \in SUBSET Commands  OBVIOUS
  <2>4. ~evicted => Imap!ToSet(cache) \cup put \subseteq Imap!ToSet(cache')  OBVIOUS
  <2>5. result = want \cap Imap!ToSet(cache') \cap index'  OBVIOUS
  <2>6. evicted => (IF evicted THEN Commands ELSE {}) = Commands  OBVIOUS
  <2> HIDE DEF evicted, result
  <2> QED BY <2>1, <2>2, <2>3, <2>4, <2>5, <2>6
<1>2. PICK z \in Imap!Command : z = [x EXCEPT !.calm = x.calm /\ ~evicted]
  <2>1. (x.calm /\ ~evicted) \in BOOLEAN  OBVIOUS
  <2> QED BY <2>1 DEF Imap!Command
<1>3. PICK y \in Imap!Command : y = Imap!Ends(z, result) /\ y.pc = "done"  BY EndsTyped
<1>4. cmd' = [Imap!Disturbed(cs) EXCEPT ![c] = y]  BY <1>1, <1>2, <1>3
<1>5. cmd' \in [Commands -> Imap!Command] /\ cmd'[c] = y /\ OthersRest(c)  BY <1>4, CommandSet
<1>6. z.kind = x.kind /\ z.range = x.range /\ (z.calm <=> x.calm /\ ~evicted)
  BY <1>2 DEF Imap!Command
<1>7. y.kind = z.kind /\ y.range = z.range /\ y.result = result /\ y.calm = z.calm
  BY <1>3, EndsRecord
<1>8. ASSUME NEW d \in Commands \ {c}, evicted  PROVE ~cmd'[d].calm
  <2>1. cmd'[d] = Imap!Disturbed(cs)[d]  BY <1>4, <1>8, DisturbedTyped
  <2>2. Imap!Disturbed(cs)[d] = [cmd[d] EXCEPT !.calm = FALSE]  BY <1>1, <1>8 DEF Imap!Disturbed
  <2>3. PICK w \in Imap!Command : w = cmd[d]  BY DEF ImapTyped
  <2> QED BY <2>1, <2>2, <2>3 DEF Imap!Command
<1>9. Answers(c, x, want, put)  BY <1>1, <1>3, <1>5, <1>6, <1>7, <1>8 DEF Answers
<1> QED BY <1>3, <1>5, <1>9 DEF Imap!Building

LEMMA UseIndexEnds ==
  ASSUME Imap!ImapMailboxAssumption, ImapTyped, NEW c \in Commands, NEW x \in Imap!Command,
         index' \subseteq Imap!Ids, count' \in 0..MaxMail, Imap!UseIndex(c, x)
  PROVE  cmd' \in [Commands -> Imap!Command] /\ OthersRest(c) /\ ~Imap!Building(c)'
<1>1. CASE x.kind = "fetch"
  <2>1. PICK want \in SUBSET Imap!Ids : want = x.range \cap index'  OBVIOUS
  <2>2. PICK missing \in SUBSET Imap!Ids : missing = want \ Imap!ToSet(cache)  OBVIOUS
  <2>3. CASE missing # {} /\ count' # 0
    <3>1. PICK z \in Imap!Command : z = Imap!Asks(x, "messages") /\ z.pc = "messages"
      <4>1. "messages" \in Imap!Calls  BY DEF Imap!Calls
      <4> QED BY <4>1, AsksTyped
    <3>2. PICK n \in 0..MaxMail : n = count'  OBVIOUS
    <3>3. cmd' = [cmd EXCEPT ![c] = [z EXCEPT !.want = want, !.missing = missing,
                                              !.total = n, !.offset = 0, !.got = {}]]
      BY <1>1, <2>1, <2>2, <2>3, <3>1, <3>2 DEF Imap!UseIndex, Imap!Fetch
    <3>4. PICK y \in Imap!Command : /\ y.pc = "messages"
                                    /\ y = [z EXCEPT !.want = want, !.missing = missing,
                                                   !.total = n, !.offset = 0, !.got = {}]
      <4>1. {} \in SUBSET Imap!Ids /\ 0 \in Nat  OBVIOUS
      <4> QED BY <3>1, <4>1 DEF Imap!Command
    <3>5. cmd' \in [Commands -> Imap!Command] /\ cmd'[c] = y /\ OthersRest(c)
      BY <3>3, <3>4, CommandSet
    <3> QED BY <3>4, <3>5 DEF Imap!Building
  <2>4. CASE ~(missing # {} /\ count' # 0)
    <3>1. Imap!FromCache(c, x, want, {})  BY <1>1, <2>1, <2>2, <2>4 DEF Imap!UseIndex, Imap!Fetch
    <3> QED BY <3>1, FromCacheEnds
  <2> QED BY <2>3, <2>4
<1>2. CASE x.kind # "fetch"
  <2>1. PICK y \in Imap!Command : y = Imap!Ends(x, {}) /\ y.pc = "done"
    <3>1. {} \in SUBSET Imap!Ids  OBVIOUS
    <3> QED BY <3>1, EndsTyped
  <2>2. cmd' = [cmd EXCEPT ![c] = y]  BY <1>2, <2>1 DEF Imap!UseIndex, Imap!Store
  <2>3. cmd' \in [Commands -> Imap!Command] /\ cmd'[c] = y /\ OthersRest(c)  BY <2>2, CommandSet
  <2> QED BY <2>1, <2>3 DEF Imap!Building
<1> QED BY <1>1, <1>2

LEMMA BuildsAsks ==
  ASSUME Imap!ImapMailboxAssumption, ImapTyped, NEW c \in Commands, NEW x \in Imap!Command,
         Imap!Builds(c, x)
  PROVE  /\ cmd' \in [Commands -> Imap!Command] /\ OthersRest(c)
         /\ cmd'[c].pc = "count" /\ ~cmd'[c].served
<1>1. "count" \in Imap!Calls  BY DEF Imap!Calls
<1>2. PICK y \in Imap!Command : y = Imap!Asks(x, "count") /\ y.pc = "count" /\ ~y.served
  BY <1>1, AsksTyped
<1>3. PICK cs : cs = Commands \ {c}  OBVIOUS
<1>4. cmd' = [Imap!Disturbed(cs) EXCEPT ![c] = y]  BY <1>2, <1>3 DEF Imap!Builds
<1>5. cmd' \in [Commands -> Imap!Command] /\ cmd'[c] = y /\ OthersRest(c)  BY <1>4, CommandSet
<1> QED BY <1>2, <1>5

-----------------------------------------------------------------------------
(* The backend.                                                            *)

LEMMA MessageArrives ==
  ASSUME Imap!ImapMailboxAssumption, MailboxFits, Imap!Arrive  PROVE MailboxFits'
<1>1. PICK new : new = Imap!Max(rows \cup {0}) + 1  OBVIOUS
<1>2. /\ rows' = rows \cup {new} /\ cmd' = Imap!Disturbed(Commands)
      /\ UNCHANGED <<count, index, built, shaken, spoilt>>
  BY <1>1 DEF Imap!Arrive
<1>3. rows \subseteq 1..MaxMail /\ ImapTyped  BY DEF MailboxFits, ImapTyped, Imap!Ids
<1>4. new \in Imap!Ids /\ new \notin rows
  <2>1. rows \cup {0} \subseteq 0..MaxMail /\ rows \cup {0} # {} /\ MaxMail \in Nat
    BY <1>3 DEF Imap!ImapMailboxAssumption
  <2>2. PICK m : m = Imap!Max(rows \cup {0})  OBVIOUS
  <2>3. m \in rows \cup {0} /\ \A u \in rows \cup {0} : m >= u  BY <2>1, <2>2, LargestExists
  <2>4. MaxMail \notin rows  BY DEF Imap!Arrive
  <2>5. m \in 0..MaxMail /\ m # MaxMail
    BY <2>1, <2>3, <2>4 DEF Imap!ImapMailboxAssumption
  <2>6. new = m + 1  BY <1>1, <2>2
  <2>7. new \in 1..MaxMail  BY <2>1, <2>5, <2>6
  <2>8. new \notin rows
    <3>1. ASSUME new \in rows  PROVE FALSE
      <4>1. m >= new  BY <2>3, <3>1
      <4> QED BY <2>5, <2>6, <4>1
    <3> QED BY <3>1
  <2> QED BY <2>7, <2>8 DEF Imap!Ids
<1>5. rows' \subseteq Imap!Ids /\ Cardinality(rows) < Cardinality(rows')
  <2>1. rows' \subseteq Imap!Ids /\ rows \subseteq rows' /\ rows # rows'
    BY <1>2, <1>3, <1>4 DEF Imap!Ids
  <2>2. PICK r : r = rows'  OBVIOUS
  <2>3. /\ Cardinality(rows) <= Cardinality(r) /\ Cardinality(rows) # Cardinality(r)
        /\ Cardinality(r) \in 0..MaxMail
    BY <2>1, <2>2, IdsAreFinite
  <2>4. Cardinality(rows) \in 0..MaxMail  BY <1>3, IdsAreFinite DEF Imap!Ids
  <2> QED BY <2>1, <2>2, <2>3, <2>4
<1>6. /\ cmd' \in [Commands -> Imap!Command]
      /\ \A d \in Commands : cmd'[d] = cmd[d] \/ cmd'[d] = [cmd[d] EXCEPT !.calm = FALSE]
  BY <1>2, <1>3, DisturbedTyped
<1>7. ImapTyped'  BY <1>2, <1>5, <1>6 DEF MailboxFits, ImapTyped
<1>8. \A d \in Commands : /\ cmd'[d].pc = cmd[d].pc /\ cmd'[d].served = cmd[d].served
                          /\ cmd'[d].answer = cmd[d].answer /\ cmd'[d].total = cmd[d].total
                          /\ cmd'[d].offset = cmd[d].offset
  <2> SUFFICES ASSUME NEW d \in Commands
               PROVE  /\ cmd'[d].pc = cmd[d].pc /\ cmd'[d].served = cmd[d].served
                      /\ cmd'[d].answer = cmd[d].answer /\ cmd'[d].total = cmd[d].total
                      /\ cmd'[d].offset = cmd[d].offset
    OBVIOUS
  <2>1. PICK x \in Imap!Command : x = cmd[d]  BY <1>3 DEF ImapTyped
  <2> QED BY <1>6, <2>1 DEF Imap!Command
<1>9. \A d \in Commands : Imap!Building(d)' <=> Imap!Building(d)  BY <1>8 DEF Imap!Building
<1>10. Cardinality(rows) \in 0..MaxMail /\ Cardinality(rows') \in 0..MaxMail
       /\ count \in 0..MaxMail
  <2>1. PICK r : r = rows'  OBVIOUS
  <2>2. Cardinality(r) \in 0..MaxMail  BY <1>5, <2>1, IdsAreFinite
  <2>3. Cardinality(rows) \in 0..MaxMail  BY <1>3, IdsAreFinite DEF Imap!Ids
  <2> QED BY <1>3, <2>1, <2>2, <2>3 DEF ImapTyped
<1>11. \A n \in 0..MaxMail : n <= Cardinality(rows) =>
         n <= Cardinality(rows') /\ n # Cardinality(rows')
  BY <1>5, <1>10
<1>12. ~spoilt' /\ ~shaken' =>
         \A d \in Commands : Imap!Building(d)' => BuildFits(cmd'[d], rows', count')
  <2> SUFFICES ASSUME ~spoilt, ~shaken, NEW d \in Commands, Imap!Building(d)
               PROVE  BuildFits(cmd'[d], rows', count')
    BY <1>2, <1>9
  <2>1. BuildFits(cmd[d], rows, count)  BY DEF MailboxFits
  <2> QED BY <1>2, <1>8, <1>10, <1>11, <2>1 DEF BuildFits
<1>13. ~spoilt' /\ ~shaken' /\ built' /\ (\A d \in Commands : ~Imap!Building(d)') =>
         IndexFits(index', rows', count')
  BY <1>2, <1>9, <1>10, <1>11 DEF MailboxFits, IndexFits
<1>14. ~spoilt' => \A b, d \in Commands : Imap!Building(b)' /\ Imap!Building(d)' => b = d
  BY <1>2, <1>9 DEF MailboxFits
<1> QED BY <1>7, <1>12, <1>13, <1>14 DEF MailboxFits

LEMMA MessageDeleted ==
  ASSUME Imap!ImapMailboxAssumption, MailboxFits, NEW u \in Imap!Ids,
         Imap!Delete(u)  PROVE MailboxFits'
<1>1. /\ rows' = rows \ {u} /\ cmd' = Imap!Disturbed(Commands) /\ shaken' = TRUE
      /\ UNCHANGED <<count, index, built, spoilt>>
  BY DEF Imap!Delete
<1>2. ImapTyped  BY DEF MailboxFits
<1>3. /\ cmd' \in [Commands -> Imap!Command]
      /\ \A d \in Commands : cmd'[d] = cmd[d] \/ cmd'[d] = [cmd[d] EXCEPT !.calm = FALSE]
  BY <1>1, <1>2, DisturbedTyped
<1>4. ImapTyped'  BY <1>1, <1>2, <1>3 DEF ImapTyped
<1>5. \A d \in Commands : Imap!Building(d)' <=> Imap!Building(d)
  <2> SUFFICES ASSUME NEW d \in Commands  PROVE Imap!Building(d)' <=> Imap!Building(d)
    OBVIOUS
  <2>1. PICK x \in Imap!Command : x = cmd[d]  BY <1>2 DEF ImapTyped
  <2> QED BY <1>3, <2>1 DEF Imap!Command, Imap!Building
<1>6. ~spoilt' => \A b, d \in Commands : Imap!Building(b)' /\ Imap!Building(d)' => b = d
  BY <1>1, <1>5 DEF MailboxFits
<1> QED BY <1>1, <1>4, <1>6 DEF MailboxFits

LEMMA PageIsMessagesOf ==
  ASSUME NEW limit, NEW offset  PROVE Imap!Page(limit, offset) = MessagesOf(rows, limit, offset)
BY OneCardinality DEF Imap!Page, MessagesOf, Newer

LEMMA CommandServed ==
  ASSUME Imap!ImapMailboxAssumption, MailboxFits, NEW c \in Commands,
         Imap!Serve(c)  PROVE MailboxFits'
<1>1. ImapTyped /\ UNCHANGED <<rows, count, index, built, shaken, spoilt>>
      /\ rows \subseteq Imap!Ids
  BY DEF MailboxFits, ImapTyped, Imap!Serve
<1>2. PICK x \in Imap!Command : x = cmd[c]  BY <1>1 DEF ImapTyped
<1>3. PICK answer \in SUBSET Imap!Ids :
        /\ answer = IF x.pc \in {"page", "messages"}
                    THEN MessagesOf(rows, Imap!Limit(x), x.offset)
                    ELSE rows
        /\ cmd' = [cmd EXCEPT ![c].served = TRUE, ![c].answer = answer]
  <2>1. PICK limit, offset : limit = Imap!Limit(x) /\ offset = x.offset  OBVIOUS
  <2>2. Imap!Page(limit, offset) = MessagesOf(rows, limit, offset)
        /\ MessagesOf(rows, limit, offset) \subseteq rows
    BY PageIsMessagesOf DEF MessagesOf
  <2> QED BY <1>1, <1>2, <2>1, <2>2 DEF Imap!Serve
<1>4. PICK y \in Imap!Command : y = [x EXCEPT !.served = TRUE, !.answer = answer]
  BY DEF Imap!Command
<1>5. /\ y.pc = x.pc /\ y.answer = answer /\ y.total = x.total /\ y.offset = x.offset
      /\ y.got = x.got
  BY <1>4 DEF Imap!Command
<1>6. cmd' = [cmd EXCEPT ![c] = y]
  BY <1>1, <1>2, <1>3, <1>4 DEF ImapTyped
<1>7. cmd' \in [Commands -> Imap!Command] /\ cmd'[c] = y /\ OthersRest(c)
  BY <1>1, <1>6, CommandSet
<1>8. ImapTyped'  BY <1>1, <1>7 DEF ImapTyped
<1>9. Imap!Building(c)' <=> Imap!Building(c)  BY <1>2, <1>5, <1>7 DEF Imap!Building
<1>10. CASE ~Imap!Building(c)  BY <1>1, <1>7, <1>8, <1>9, <1>10, MailboxQuiet
<1>11. CASE Imap!Building(c)
  <2>1. ASSUME ~spoilt, ~shaken  PROVE BuildFits(cmd'[c], rows', count')
    <3>1. BuildFits(x, rows, count)  BY <1>2, <1>11, <2>1 DEF MailboxFits
    <3>2. BuildFits(y, rows, count)
      BY <1>3, <1>5, <3>1 DEF BuildFits, Imap!Limit
    <3> QED BY <1>1, <1>7, <3>2
  <2> QED BY <1>1, <1>7, <1>8, <1>9, <1>11, <2>1, BuildGoesOn
<1> QED BY <1>10, <1>11

LEMMA CommandFails ==
  ASSUME Imap!ImapMailboxAssumption, MailboxFits, NEW c \in Commands, Imap!CallFails(c)
  PROVE  MailboxFits'
<1>1. /\ ImapTyped /\ UNCHANGED <<rows, count, index, built, shaken>>
      /\ spoilt' = (spoilt \/ Imap!Building(c)) /\ spoilt' \in BOOLEAN
  BY DEF MailboxFits, ImapTyped, Imap!CallFails
<1>2. PICK x \in Imap!Command : x = cmd[c]  BY <1>1 DEF ImapTyped
<1>3. PICK y \in Imap!Command : y = [Imap!Idle EXCEPT !.kind = x.kind, !.pc = "failed"]
      /\ y.pc = "failed"
  <2>1. PICK z \in Imap!Command : z = Imap!Idle  BY IdleTyped
  <2>2. [z EXCEPT !.kind = x.kind, !.pc = "failed"] \in Imap!Command
        /\ [z EXCEPT !.kind = x.kind, !.pc = "failed"].pc = "failed"
    BY DEF Imap!Command
  <2> QED BY <2>1, <2>2
<1>4. cmd' = [cmd EXCEPT ![c] = y]  BY <1>2, <1>3 DEF Imap!CallFails
<1>5. cmd' \in [Commands -> Imap!Command] /\ cmd'[c] = y /\ OthersRest(c)
  BY <1>1, <1>4, CommandSet
<1>6. ImapTyped'  BY <1>1, <1>5 DEF ImapTyped
<1>7. ~Imap!Building(c)'  BY <1>3, <1>5 DEF Imap!Building
<1>8. CASE Imap!Building(c)  BY <1>1, <1>6, <1>8 DEF MailboxFits
<1>9. CASE ~Imap!Building(c)
  <2>1. spoilt' = spoilt  BY <1>1, <1>9 DEF ImapTyped
  <2> QED BY <1>1, <1>5, <1>6, <1>7, <1>9, <2>1, MailboxQuiet
<1> QED BY <1>8, <1>9

-----------------------------------------------------------------------------
(* The commands.                                                           *)

LEMMA CommandBegins ==
  ASSUME Imap!ImapMailboxAssumption, MailboxFits, NEW c \in Commands, NEW kind \in Imap!Kinds,
         NEW range \in Imap!Ranges(kind), Imap!Begin(c, kind, range)
  PROVE  MailboxFits'
<1>1. ImapTyped /\ UNCHANGED <<rows, count>> /\ cmd[c] = Imap!Idle
  BY DEF MailboxFits, Imap!Begin
<1>2. ~Imap!Building(c)  BY <1>1, IdleTyped DEF Imap!Building
<1>3. range \in SUBSET Imap!Ids
  <2>1. {MaxMail} \subseteq Imap!Ids /\ {} \subseteq Imap!Ids
    BY DEF Imap!Ids, Imap!ImapMailboxAssumption
  <2> QED BY <2>1 DEF Imap!Ranges
<1>4. PICK x \in Imap!Command :
        x = [Imap!Idle EXCEPT !.kind = kind, !.range = range,
                         !.calm = \A d \in Commands : ~Imap!Building(d)]
  <2>1. PICK z \in Imap!Command : z = Imap!Idle  BY IdleTyped
  <2>2. PICK calm \in BOOLEAN : calm = \A d \in Commands : ~Imap!Building(d)  OBVIOUS
  <2>3. [z EXCEPT !.kind = kind, !.range = range, !.calm = calm] \in Imap!Command
    BY <1>3 DEF Imap!Command, Imap!Kinds
  <2> QED BY <2>1, <2>2, <2>3
<1>5. CASE Imap!Builds(c, x)
  <2>1. /\ cmd' \in [Commands -> Imap!Command] /\ OthersRest(c)
        /\ cmd'[c].pc = "count" /\ ~cmd'[c].served
    BY <1>1, <1>5, BuildsAsks
  <2>2. /\ UNCHANGED <<index, built>> /\ shaken' = FALSE
        /\ spoilt' = \E d \in Commands \ {c} : Imap!Building(d)
    BY <1>5 DEF Imap!Builds
  <2>3. ImapTyped'  BY <1>1, <2>1, <2>2 DEF ImapTyped
  <2> QED BY <1>1, <2>1, <2>2, <2>3, BuildsFits
<1>6. CASE /\ cmd' = [cmd EXCEPT ![c] = Imap!Asks(x, "refresh")]
           /\ UNCHANGED <<index, built, shaken, spoilt>>
  <2>1. "refresh" \in Imap!Calls  BY DEF Imap!Calls
  <2>2. PICK y \in Imap!Command : y = Imap!Asks(x, "refresh") /\ y.pc = "refresh"
    BY <2>1, AsksTyped
  <2>3. cmd' \in [Commands -> Imap!Command] /\ cmd'[c] = y /\ OthersRest(c)
    BY <1>1, <1>6, <2>2, CommandSet
  <2>4. ImapTyped'  BY <1>1, <1>6, <2>3 DEF ImapTyped
  <2>5. ~Imap!Building(c)'  BY <2>2, <2>3 DEF Imap!Building
  <2> QED BY <1>1, <1>2, <1>6, <2>3, <2>4, <2>5, MailboxQuiet
<1>7. CASE UNCHANGED <<index, built, shaken, spoilt>> /\ Imap!UseIndex(c, x)
  <2>1. index' \subseteq Imap!Ids /\ count' \in 0..MaxMail  BY <1>1, <1>7 DEF ImapTyped
  <2>2. cmd' \in [Commands -> Imap!Command] /\ OthersRest(c) /\ ~Imap!Building(c)'
    BY <1>1, <1>7, <2>1, UseIndexEnds
  <2>3. ImapTyped'  BY <1>1, <1>7, <2>2 DEF ImapTyped
  <2> QED BY <1>1, <1>2, <1>7, <2>2, <2>3, MailboxQuiet
<1> QED BY <1>4, <1>5, <1>6, <1>7 DEF Imap!Begin

LEMMA RefreshedFits ==
  ASSUME Imap!ImapMailboxAssumption, MailboxFits, NEW c \in Commands, Imap!Refreshed(c)
  PROVE  MailboxFits'
<1>1. ImapTyped /\ rows' = rows  BY DEF MailboxFits, Imap!Refreshed
<1>2. PICK x \in Imap!Command : x = cmd[c]  BY <1>1 DEF ImapTyped
<1>3. ~Imap!Building(c) /\ count' \in 0..MaxMail
  <2>1. x.answer \subseteq Imap!Ids  BY DEF Imap!Command
  <2>2. Cardinality(x.answer) \in 0..MaxMail  BY <2>1, IdsAreFinite
  <2> QED BY <1>2, <2>2, OneCardinality DEF Imap!Refreshed, Imap!Answered, Imap!Building
<1>4. CASE Imap!Builds(c, x)
  <2>1. /\ cmd' \in [Commands -> Imap!Command] /\ OthersRest(c)
        /\ cmd'[c].pc = "count" /\ ~cmd'[c].served
    BY <1>1, <1>4, BuildsAsks
  <2>2. /\ UNCHANGED <<index, built>> /\ shaken' = FALSE
        /\ spoilt' = \E d \in Commands \ {c} : Imap!Building(d)
    BY <1>4 DEF Imap!Builds
  <2>3. ImapTyped'  BY <1>1, <1>3, <2>1, <2>2 DEF ImapTyped
  <2> QED BY <1>1, <2>1, <2>2, <2>3, BuildsFits
<1>5. CASE UNCHANGED <<count, index, built, shaken, spoilt>> /\ Imap!UseIndex(c, x)
  <2>1. index' \subseteq Imap!Ids  BY <1>1, <1>5 DEF ImapTyped
  <2>2. cmd' \in [Commands -> Imap!Command] /\ OthersRest(c) /\ ~Imap!Building(c)'
    BY <1>1, <1>3, <1>5, <2>1, UseIndexEnds
  <2>3. ImapTyped'  BY <1>1, <1>5, <2>2 DEF ImapTyped
  <2> QED BY <1>1, <1>3, <1>5, <2>2, <2>3, MailboxQuiet
<1> QED BY <1>2, <1>4, <1>5 DEF Imap!Refreshed

\* The count is that of a moment since the build began: nothing was deleted.
LEMMA CountedFits ==
  ASSUME Imap!ImapMailboxAssumption, MailboxFits, NEW c \in Commands, Imap!Counted(c)
  PROVE  MailboxFits'
<1>1. ImapTyped /\ UNCHANGED <<rows, shaken, spoilt>> /\ rows \subseteq Imap!Ids
  BY DEF MailboxFits, ImapTyped, Imap!Counted
<1>2. PICK x \in Imap!Command : x = cmd[c]  BY <1>1 DEF ImapTyped
<1>3. x.pc = "count" /\ x.served /\ Imap!Building(c)  BY <1>2
     DEF Imap!Counted, Imap!Answered, Imap!Building
<1>4. PICK n \in 0..MaxMail : n = Cardinality(x.answer) /\ count' = n
  <2>1. x.answer \subseteq Imap!Ids  BY DEF Imap!Command
  <2>2. Cardinality(x.answer) \in 0..MaxMail  BY <2>1, IdsAreFinite
  <2> QED BY <1>2, <2>2, OneCardinality DEF Imap!Counted
<1>5. ASSUME ~spoilt, ~shaken  PROVE n <= Cardinality(rows)
  <2>1. x.answer \subseteq rows
    BY <1>2, <1>3, <1>5 DEF MailboxFits, BuildFits
  <2> QED BY <1>1, <1>4, <2>1, IdsAreFinite
<1>6. CASE n = 0
  <2>1. index' = {} /\ built' = TRUE /\ Imap!UseIndex(c, x)
    BY <1>2, <1>4, <1>6 DEF Imap!Counted
  <2>2. cmd' \in [Commands -> Imap!Command] /\ OthersRest(c) /\ ~Imap!Building(c)'
    BY <1>1, <1>4, <2>1, UseIndexEnds
  <2>3. ImapTyped'  BY <1>1, <1>4, <2>1, <2>2 DEF ImapTyped
  <2>4. Cardinality(rows) = 0 => rows = {}
    <3>1. IsFiniteSet(rows)  BY <1>1, IdsAreFinite
    <3> QED BY <3>1, FS_EmptySet
  <2>5. ~spoilt /\ ~shaken => IndexFits(index', rows', count')
    BY <1>1, <1>4, <1>5, <1>6, <2>1, <2>4 DEF IndexFits
  <2> QED BY <1>1, <1>3, <2>2, <2>3, <2>5, BuildGoesOn
<1>7. CASE n # 0
  <2>1. PICK z \in Imap!Command : z = Imap!Asks(x, "page") /\ z.pc = "page" /\ ~z.served
    <3>1. "page" \in Imap!Calls  BY DEF Imap!Calls
    <3> QED BY <3>1, AsksTyped
  <2>2. PICK y \in Imap!Command : y = [z EXCEPT !.total = n, !.offset = 0, !.got = {}]
    <3>1. {} \in SUBSET Imap!Ids /\ 0 \in Nat  OBVIOUS
    <3> QED BY <3>1 DEF Imap!Command
  <2>3. y.pc = "page" /\ ~y.served /\ y.total = n /\ y.offset = 0 /\ y.got = {}
    BY <2>1, <2>2 DEF Imap!Command
  <2>4. cmd' = [cmd EXCEPT ![c] = y] /\ UNCHANGED <<index, built>>
    BY <1>2, <1>4, <1>7, <2>1, <2>2 DEF Imap!Counted
  <2>5. cmd' \in [Commands -> Imap!Command] /\ cmd'[c] = y /\ OthersRest(c)
    BY <1>1, <2>4, CommandSet
  <2>6. ImapTyped'  BY <1>1, <1>4, <2>4, <2>5 DEF ImapTyped
  <2>7. Newest(rows, 0) = {}  BY <1>1, NewestNone
  <2>8. ~spoilt /\ ~shaken => BuildFits(y, rows, n)
    <3>1. 0 < n  BY <1>7
    <3> QED BY <1>5, <2>3, <2>7, <3>1 DEF BuildFits
  <2>9. Imap!Building(c)'  BY <2>3, <2>5 DEF Imap!Building
  <2> QED BY <1>1, <1>3, <1>4, <2>5, <2>6, <2>8, <2>9, BuildGoesOn
<1> QED BY <1>6, <1>7

\* With the page of an answer it has the newest mails up to the next page, and
\* with the last page it has them all.
LEMMA PagedFits ==
  ASSUME Imap!ImapMailboxAssumption, MailboxFits, NEW c \in Commands, Imap!Paged(c)
  PROVE  MailboxFits'
<1>1. /\ ImapTyped /\ UNCHANGED <<rows, count, shaken, spoilt>> /\ rows \subseteq Imap!Ids
      /\ count \in 0..MaxMail
  BY DEF MailboxFits, ImapTyped, Imap!Paged
<1>2. PICK w \in Imap!Command : w = cmd[c]  BY <1>1 DEF ImapTyped
<1>3. w.pc = "page" /\ w.served /\ Imap!Building(c)  BY <1>2
     DEF Imap!Paged, Imap!Answered, Imap!Building
<1>4. PICK limit \in Int : limit = Imap!Limit(w)
  BY DEF Imap!Limit, Imap!Command, Imap!ImapMailboxAssumption
<1>5. w.total \in Nat /\ w.offset \in Nat /\ w.offset + limit \in Nat
      /\ w.got \cup w.answer \in SUBSET Imap!Ids
  BY <1>4 DEF Imap!Limit, Imap!Command, Imap!ImapMailboxAssumption
<1>6. PICK x \in Imap!Command : x = [w EXCEPT !.got = w.got \cup w.answer,
                                        !.offset = w.offset + limit]
  BY <1>5 DEF Imap!Command
<1>7. /\ x.got = w.got \cup w.answer /\ x.offset = w.offset + limit /\ x.total = w.total
  BY <1>6 DEF Imap!Command
<1>8. x = [cmd[c] EXCEPT !.got = @ \cup cmd[c].answer, !.offset = @ + Imap!Limit(cmd[c])]
  BY <1>2, <1>4, <1>6
<1>9. ASSUME ~spoilt, ~shaken
      PROVE  /\ x.total = count /\ count <= Cardinality(rows)
             /\ count = Cardinality(rows) => x.got = Newest(rows, x.offset)
  <2>1. /\ w.total = count /\ w.offset < w.total /\ count <= Cardinality(rows)
        /\ count = Cardinality(rows) => /\ w.got = Newest(rows, w.offset)
                                        /\ w.answer = MessagesOf(rows, limit, w.offset)
    BY <1>2, <1>3, <1>4, <1>9 DEF MailboxFits, BuildFits
  <2>2. limit \in Nat  BY <1>4, <1>5, <2>1 DEF Imap!Limit, Imap!ImapMailboxAssumption
  <2>3. Newest(rows, w.offset) \cup MessagesOf(rows, limit, w.offset)
          = Newest(rows, w.offset + limit)
    BY <1>1, <1>5, <2>2, NewestGrow
  <2> QED BY <1>7, <2>1, <2>3
<1>10. CASE x.offset < x.total
  <2>1. cmd' = [cmd EXCEPT ![c] = Imap!Asks(x, "page")] /\ UNCHANGED <<index, built>>
    BY <1>5, <1>7, <1>8, <1>10 DEF Imap!Paged
  <2>2. PICK y \in Imap!Command : /\ y = Imap!Asks(x, "page") /\ y.pc = "page" /\ ~y.served
                                  /\ y.total = x.total /\ y.offset = x.offset /\ y.got = x.got
    <3>1. "page" \in Imap!Calls  BY DEF Imap!Calls
    <3> QED BY <3>1, AsksTyped
  <2>3. cmd' \in [Commands -> Imap!Command] /\ cmd'[c] = y /\ OthersRest(c)
    BY <1>1, <2>1, <2>2, CommandSet
  <2>4. ImapTyped'  BY <1>1, <2>1, <2>3 DEF ImapTyped
  <2>5. ~spoilt /\ ~shaken => BuildFits(y, rows, count)
    BY <1>9, <1>10, <2>2 DEF BuildFits
  <2>6. Imap!Building(c)'  BY <2>2, <2>3 DEF Imap!Building
  <2> QED BY <1>1, <1>3, <2>3, <2>4, <2>5, <2>6, BuildGoesOn
<1>11. CASE x.offset >= x.total
  <2>1. index' = x.got /\ built' = TRUE /\ Imap!UseIndex(c, x)
    BY <1>5, <1>7, <1>8, <1>11 DEF Imap!Paged
  <2>2. index' \subseteq Imap!Ids  BY <1>5, <1>7, <2>1
  <2>3. cmd' \in [Commands -> Imap!Command] /\ OthersRest(c) /\ ~Imap!Building(c)'
    BY <1>1, <2>1, <2>2, UseIndexEnds
  <2>4. ImapTyped'  BY <1>1, <2>1, <2>2, <2>3 DEF ImapTyped
  <2>5. ASSUME ~spoilt, ~shaken  PROVE IndexFits(index', rows', count')
    <3>1. /\ x.total = count /\ count <= Cardinality(rows)
          /\ count = Cardinality(rows) => x.got = Newest(rows, x.offset)
      BY <1>9, <2>5
    <3>2. count = Cardinality(rows) => Newest(rows, x.offset) = rows
      BY <1>1, <1>5, <1>7, <1>11, <3>1, NewestAll
    <3> QED BY <1>1, <2>1, <3>1, <3>2 DEF IndexFits
  <2> QED BY <1>1, <1>3, <2>3, <2>4, <2>5, BuildGoesOn
<1> QED BY <1>5, <1>7, <1>10, <1>11

LEMMA FetchedFits ==
  ASSUME Imap!ImapMailboxAssumption, MailboxFits, NEW c \in Commands, Imap!Fetched(c)
  PROVE  MailboxFits'
<1>1. ImapTyped /\ UNCHANGED <<rows, count, index, built, shaken, spoilt>>
  BY DEF MailboxFits, Imap!Fetched
<1>2. PICK w \in Imap!Command : w = cmd[c]  BY <1>1 DEF ImapTyped
<1>3. ~Imap!Building(c)  BY DEF Imap!Fetched, Imap!Answered, Imap!Building
<1>4. PICK limit \in Int : limit = Imap!Limit(w)
  BY DEF Imap!Limit, Imap!Command, Imap!ImapMailboxAssumption
<1>5. w.offset + limit \in Nat /\ w.got \cup (w.answer \cap w.missing) \in SUBSET Imap!Ids
  BY <1>4 DEF Imap!Limit, Imap!Command, Imap!ImapMailboxAssumption
<1>6. PICK x \in Imap!Command : x = [w EXCEPT !.got = w.got \cup (w.answer \cap w.missing),
                                        !.offset = w.offset + limit]
  BY <1>5 DEF Imap!Command
<1>7. x = [cmd[c] EXCEPT !.got = @ \cup (cmd[c].answer \cap cmd[c].missing),
                         !.offset = @ + Imap!Limit(cmd[c])]
  BY <1>2, <1>4, <1>6
<1>8. CASE cmd' = [cmd EXCEPT ![c] = Imap!Asks(x, "messages")]
  <2>1. "messages" \in Imap!Calls  BY DEF Imap!Calls
  <2>2. PICK y \in Imap!Command : y = Imap!Asks(x, "messages") /\ y.pc = "messages"
    BY <2>1, AsksTyped
  <2>3. cmd' \in [Commands -> Imap!Command] /\ cmd'[c] = y /\ OthersRest(c)
    BY <1>1, <1>8, <2>2, CommandSet
  <2>4. ImapTyped'  BY <1>1, <2>3 DEF ImapTyped
  <2>5. ~Imap!Building(c)'  BY <2>2, <2>3 DEF Imap!Building
  <2> QED BY <1>1, <1>3, <2>3, <2>4, <2>5, MailboxQuiet
<1>9. CASE Imap!FromCache(c, x, x.want, x.got \ Broken)
  <2>1. index' \subseteq Imap!Ids  BY <1>1 DEF ImapTyped
  <2>2. PICK want, put : want = x.want /\ put = x.got \ Broken  OBVIOUS
  <2>3. cmd' \in [Commands -> Imap!Command] /\ OthersRest(c) /\ ~Imap!Building(c)'
    BY <1>1, <1>9, <2>1, <2>2, FromCacheEnds
  <2>4. ImapTyped'  BY <1>1, <2>3 DEF ImapTyped
  <2> QED BY <1>1, <1>3, <2>3, <2>4, MailboxQuiet
<1> QED BY <1>7, <1>8, <1>9 DEF Imap!Fetched

-----------------------------------------------------------------------------
LEMMA InitMailbox ==
  ASSUME Imap!ImapMailboxAssumption, Imap!Init  PROVE MailboxFits
<1>1. rows \subseteq Imap!Ids /\ index \subseteq Imap!Ids
  <2>1. PICK n \in 0..MaxMail : rows = 1..n  BY DEF Imap!Init
  <2> QED BY <2>1 DEF Imap!Init, Imap!Ids, Imap!ImapMailboxAssumption
<1>2. count \in 0..MaxMail  BY <1>1, IdsAreFinite, OneCardinality DEF Imap!Init
<1>3. PICK z \in Imap!Command : z = Imap!Idle /\ z.pc = "idle"  BY IdleTyped
<1>4. cmd = [c \in Commands |-> z]  BY <1>3 DEF Imap!Init
<1>5. cmd \in [Commands -> Imap!Command] /\ \A c \in Commands : ~Imap!Building(c)
  BY <1>3, <1>4 DEF Imap!Building
<1>6. ImapTyped  BY <1>1, <1>2, <1>5 DEF Imap!Init, ImapTyped
<1>7. built => IndexFits(index, rows, count)
  <2>1. built => index = rows /\ count = Cardinality(rows)
    BY OneCardinality DEF Imap!Init
  <2>2. Cardinality(rows) <= Cardinality(rows)
    <3>1. Cardinality(rows) \in 0..MaxMail  BY <1>1, IdsAreFinite
    <3> QED BY <3>1
  <2> QED BY <2>1, <2>2 DEF IndexFits
<1> QED BY <1>5, <1>6, <1>7 DEF MailboxFits

LEMMA NextMailbox ==
  ASSUME Imap!ImapMailboxAssumption, MailboxFits, [Imap!Next]_(Imap!vars)  PROVE MailboxFits'
<1>1. CASE Imap!Arrive  BY <1>1, MessageArrives
<1>2. CASE \E u \in Imap!Ids : Imap!Delete(u)  BY <1>2, MessageDeleted
<1>3. CASE \E c \in Commands : \E kind \in Imap!Kinds : \E range \in Imap!Ranges(kind) :
             Imap!Begin(c, kind, range)
  BY <1>3, CommandBegins
<1>4. CASE \E c \in Commands : Imap!Serve(c)  BY <1>4, CommandServed
<1>5. CASE \E c \in Commands : Imap!CallFails(c)  BY <1>5, CommandFails
<1>6. CASE \E c \in Commands : Imap!Refreshed(c)  BY <1>6, RefreshedFits
<1>7. CASE \E c \in Commands : Imap!Counted(c)  BY <1>7, CountedFits
<1>8. CASE \E c \in Commands : Imap!Paged(c)  BY <1>8, PagedFits
<1>9. CASE \E c \in Commands : Imap!Fetched(c)  BY <1>9, FetchedFits
<1>10. CASE UNCHANGED Imap!vars
  <2>1. ImapTyped' /\ UNCHANGED <<rows, count, index, built, cmd, shaken, spoilt>>
    BY <1>10 DEF Imap!vars, MailboxFits, ImapTyped
  <2> QED BY <2>1 DEF MailboxFits, Imap!Building
<1> QED
  BY <1>1, <1>2, <1>3, <1>4, <1>5, <1>6, <1>7, <1>8, <1>9, <1>10 DEF Imap!Next

LEMMA IndexIsCurrent ==
  ASSUME MailboxFits  PROVE Imap!IndexCurrent
BY OneCardinality DEF MailboxFits, Imap!IndexCurrent, IndexFits

LEMMA MailboxHolds ==
  Imap!ImapMailboxAssumption => (Imap!Spec => []MailboxFits)
<1> SUFFICES ASSUME Imap!ImapMailboxAssumption  PROVE Imap!Spec => []MailboxFits
  OBVIOUS
<1>1. Imap!Init => MailboxFits  BY InitMailbox
<1>2. MailboxFits /\ [Imap!Next]_(Imap!vars) => MailboxFits'  BY NextMailbox
<1> QED BY <1>1, <1>2, PTL DEF Imap!Spec
-----------------------------------------------------------------------------
(* A calm command, and what it will answer.                                *)

\* A FETCH that asks for messages: it misses what is not in the cache, and has
\* of that the newest so far.
Fetching(x, r, ix, cs) ==
  /\ ix = r /\ x.want = x.range \cap r
  /\ x.total = Cardinality(r) /\ x.offset < x.total
  /\ x.missing \subseteq x.want /\ x.want \ cs \subseteq x.missing
  /\ x.got = x.missing \cap Newest(r, x.offset)
  /\ x.served => x.answer = MessagesOf(r, Imap!Limit(x), x.offset)

\* What a calm command has read of the mails r, when the proxy counts n of them,
\* its index is ix and its cache has cs.
CalmCommand(x, r, n, ix, cs, fit) ==
  /\ x.pc \in {"refresh", "count"} /\ x.served => x.answer = r
  /\ x.pc = "page" => n = Cardinality(r)
  /\ x.pc = "messages" /\ fit => Fetching(x, r, ix, cs)

CalmAt(c) ==
  /\ cmd[c].pc = "refresh" => built
  /\ cmd[c].calm /\ cmd[c].pc \in Imap!Calls =>
       /\ \A d \in Commands \ {c} : ~Imap!Building(d)
       /\ CalmCommand(cmd[c], rows, count, index, Imap!ToSet(cache), ~shaken /\ ~spoilt)

CalmFits == \A c \in Commands : CalmAt(c)

\* FetchComplete of one command.
Completes(c) ==
  /\ cmd[c].pc # "done" /\ cmd'[c].pc = "done"
  /\ cmd'[c].kind = "fetch" /\ cmd'[c].calm /\ cmd'[c].range = Imap!Ids
  /\ ~shaken' /\ ~spoilt'
  => rows' \ Broken \subseteq cmd'[c].result /\ cmd'[c].result \subseteq rows'

AllComplete == \A c \in Commands : Completes(c)

\* What a step of c leaves to a command that stays calm.
Kept(c) ==
  /\ UNCHANGED <<count, index>>
  /\ Imap!ToSet(cache) \subseteq Imap!ToSet(cache')
  /\ ~shaken' /\ ~spoilt' => ~shaken /\ ~spoilt
  /\ cmd'[c].pc \in {"count", "page"} => Imap!Building(c)

LEMMA CacheGrows ==
  ASSUME NEW x, NEW r, NEW n, NEW ix, NEW cs, NEW ds, cs \subseteq ds,
         NEW fit, NEW gut, gut => fit,
         CalmCommand(x, r, n, ix, cs, fit)
  PROVE  CalmCommand(x, r, n, ix, ds, gut)
<1>1. Fetching(x, r, ix, cs) => Fetching(x, r, ix, ds)  BY DEF Fetching
<1> QED BY <1>1 DEF CalmCommand

LEMMA StepCalm ==
  ASSUME ImapTyped, CalmFits, NEW c \in Commands, OthersRest(c), built => built', rows' = rows,
         \A d \in Commands \ {c} : cmd'[d].calm /\ cmd'[d].pc \in Imap!Calls => Kept(c),
         CalmAt(c)', Completes(c)
  PROVE  CalmFits' /\ AllComplete
<1> SUFFICES ASSUME NEW d \in Commands \ {c}  PROVE CalmAt(d)' /\ Completes(d)
  BY DEF CalmFits, AllComplete
<1>1. PICK x \in Imap!Command : x = cmd[d]  BY DEF ImapTyped
<1>2. cmd'[d].pc = x.pc /\ (cmd'[d].calm => cmd'[d] = x)
  BY <1>1 DEF OthersRest, Imap!Command
<1>3. Completes(d)  BY <1>1, <1>2 DEF Completes
<1>4. cmd'[d].pc = "refresh" => built'  BY <1>1, <1>2 DEF CalmFits, CalmAt
<1>5. ASSUME cmd'[d].calm, cmd'[d].pc \in Imap!Calls
      PROVE  /\ \A e \in Commands \ {d} : ~Imap!Building(e)'
             /\ CalmCommand(cmd'[d], rows', count', index', Imap!ToSet(cache'),
                                                                       ~shaken' /\ ~spoilt')
  <2>1. cmd'[d] = x /\ Kept(c)  BY <1>2, <1>5
  <2>2. /\ \A e \in Commands \ {d} : ~Imap!Building(e)
        /\ CalmCommand(x, rows, count, index, Imap!ToSet(cache), ~shaken /\ ~spoilt)
    BY <1>1, <1>5, <2>1 DEF CalmFits, CalmAt
  <2>3. \A e \in Commands \ {c} : Imap!Building(e)' <=> Imap!Building(e)  BY OthersStillBuild
  <2>4. ~Imap!Building(c)'  BY <2>1, <2>2 DEF Kept, Imap!Building
  <2>5. PICK cs, ds, fit, gut : /\ cs = Imap!ToSet(cache) /\ ds = Imap!ToSet(cache')
                                /\ fit = (~shaken /\ ~spoilt) /\ gut = (~shaken' /\ ~spoilt')
    OBVIOUS
  <2>6. cs \subseteq ds /\ (gut => fit)  BY <2>1, <2>5 DEF Kept
  <2>7. CalmCommand(x, rows, count, index, cs, fit)  BY <2>2, <2>5
  <2>8. CalmCommand(x, rows, count, index, ds, gut)  BY <2>6, <2>7, CacheGrows
  <2>9. CalmCommand(cmd'[d], rows', count', index', ds, gut)  BY <2>1, <2>8 DEF Kept
  <2> QED BY <2>2, <2>3, <2>4, <2>5, <2>9
<1> QED BY <1>3, <1>4, <1>5 DEF CalmAt

\* Nobody stays calm when the backend changes.
LEMMA ChangeCalm ==
  ASSUME ImapTyped, CalmFits, built' = built, cmd' = Imap!Disturbed(Commands)
  PROVE  CalmFits' /\ AllComplete
<1> SUFFICES ASSUME NEW d \in Commands  PROVE CalmAt(d)' /\ Completes(d)
  BY DEF CalmFits, AllComplete
<1>1. PICK x \in Imap!Command : x = cmd[d]  BY DEF ImapTyped
<1>2. cmd'[d] = [x EXCEPT !.calm = FALSE]  BY <1>1 DEF Imap!Disturbed
<1>3. cmd'[d].pc = x.pc /\ ~cmd'[d].calm  BY <1>2 DEF Imap!Command
<1>4. x.pc = "refresh" => built  BY <1>1 DEF CalmFits, CalmAt
<1> QED BY <1>3, <1>4 DEF CalmAt, Completes

\* A step of c makes no other command calm.
LEMMA CalmElsewhere ==
  ASSUME ImapTyped, NEW c \in Commands, OthersRest(c),
         \A d \in Commands \ {c} : ~(cmd[d].calm /\ cmd[d].pc \in Imap!Calls)
  PROVE  \A d \in Commands \ {c} : ~(cmd'[d].calm /\ cmd'[d].pc \in Imap!Calls)
<1> SUFFICES ASSUME NEW d \in Commands \ {c}
             PROVE  ~(cmd'[d].calm /\ cmd'[d].pc \in Imap!Calls)
  OBVIOUS
<1>1. PICK x \in Imap!Command : x = cmd[d]  BY DEF ImapTyped
<1> QED BY <1>1 DEF OthersRest, Imap!Command

LEMMA ServeCalm ==
  ASSUME Imap!ImapMailboxAssumption, MailboxFits, CalmFits, NEW c \in Commands, Imap!Serve(c)
  PROVE  CalmFits' /\ AllComplete
<1>1. ImapTyped /\ UNCHANGED <<rows, count, index, built, cache, shaken, spoilt>>
      /\ rows \subseteq Imap!Ids
  BY DEF MailboxFits, ImapTyped, Imap!Serve
<1>2. PICK x \in Imap!Command : x = cmd[c]  BY <1>1 DEF ImapTyped
<1>3. PICK answer \in SUBSET Imap!Ids :
        /\ answer = IF x.pc \in {"page", "messages"}
                    THEN MessagesOf(rows, Imap!Limit(x), x.offset)
                    ELSE rows
        /\ cmd' = [cmd EXCEPT ![c].served = TRUE, ![c].answer = answer]
  <2>1. PICK limit, offset : limit = Imap!Limit(x) /\ offset = x.offset  OBVIOUS
  <2>2. Imap!Page(limit, offset) = MessagesOf(rows, limit, offset)
        /\ MessagesOf(rows, limit, offset) \subseteq rows
    BY PageIsMessagesOf DEF MessagesOf
  <2> QED BY <1>1, <1>2, <2>1, <2>2 DEF Imap!Serve
<1>4. PICK y \in Imap!Command : y = [x EXCEPT !.served = TRUE, !.answer = answer]
  BY DEF Imap!Command
<1>5. /\ y.pc = x.pc /\ y.answer = answer /\ y.total = x.total /\ y.offset = x.offset
      /\ y.got = x.got /\ y.calm = x.calm /\ y.range = x.range /\ y.want = x.want
      /\ y.missing = x.missing
  BY <1>4 DEF Imap!Command
<1>6. cmd' = [cmd EXCEPT ![c] = y]
  BY <1>1, <1>2, <1>3, <1>4 DEF ImapTyped
<1>7. cmd' \in [Commands -> Imap!Command] /\ cmd'[c] = y /\ OthersRest(c)
  BY <1>1, <1>6, CommandSet
<1>8. y.pc \in {"count", "page"} => Imap!Building(c)  BY <1>2, <1>5 DEF Imap!Building
<1>9. Kept(c)  BY <1>1, <1>7, <1>8 DEF Kept
<1>10. Completes(c)  BY <1>2, <1>5, <1>7 DEF Completes
<1>11. y.pc = "refresh" => built'  BY <1>1, <1>2, <1>5 DEF CalmFits, CalmAt
<1>12. ASSUME y.calm, y.pc \in Imap!Calls
       PROVE  /\ \A d \in Commands \ {c} : ~Imap!Building(d)'
              /\ CalmCommand(y, rows', count', index', Imap!ToSet(cache'), ~shaken' /\ ~spoilt')
  <2>1. PICK cs, fit : cs = Imap!ToSet(cache) /\ fit = (~shaken /\ ~spoilt)  OBVIOUS
  <2>2. /\ \A d \in Commands \ {c} : ~Imap!Building(d)
        /\ CalmCommand(x, rows, count, index, cs, fit)
    BY <1>2, <1>5, <1>12, <2>1 DEF CalmFits, CalmAt
  <2>3. Imap!Limit(y) = Imap!Limit(x)  BY <1>5 DEF Imap!Limit
  <2>4. Fetching(x, rows, index, cs) /\ x.pc = "messages" => Fetching(y, rows, index, cs)
    BY <1>3, <1>5, <2>3 DEF Fetching
  <2>5. y.pc \in {"refresh", "count"} => y.answer = rows  BY <1>3, <1>5
  <2>6. CalmCommand(y, rows, count, index, cs, fit)
    BY <1>5, <2>2, <2>4, <2>5 DEF CalmCommand
  <2> QED BY <1>1, <1>7, <2>1, <2>2, <2>6, OthersStillBuild
<1>13. CalmAt(c)'  BY <1>7, <1>11, <1>12 DEF CalmAt
<1> QED BY <1>1, <1>7, <1>9, <1>10, <1>13, StepCalm

LEMMA CallFailsCalm ==
  ASSUME Imap!ImapMailboxAssumption, MailboxFits, CalmFits, NEW c \in Commands, Imap!CallFails(c)
  PROVE  CalmFits' /\ AllComplete
<1>1. /\ ImapTyped /\ UNCHANGED <<rows, count, index, built, cache, shaken>>
      /\ spoilt' = (spoilt \/ Imap!Building(c))
  BY DEF MailboxFits, Imap!CallFails
<1>2. PICK x \in Imap!Command : x = cmd[c]  BY <1>1 DEF ImapTyped
<1>3. PICK y \in Imap!Command : y = [Imap!Idle EXCEPT !.kind = x.kind, !.pc = "failed"]
      /\ y.pc = "failed"
  <2>1. PICK z \in Imap!Command : z = Imap!Idle  BY IdleTyped
  <2>2. [z EXCEPT !.kind = x.kind, !.pc = "failed"] \in Imap!Command
        /\ [z EXCEPT !.kind = x.kind, !.pc = "failed"].pc = "failed"
    BY DEF Imap!Command
  <2> QED BY <2>1, <2>2
<1>4. cmd' = [cmd EXCEPT ![c] = y]  BY <1>2, <1>3 DEF Imap!CallFails
<1>5. cmd'[c] = y /\ OthersRest(c)  BY <1>1, <1>4, CommandSet
<1>6. Kept(c)  BY <1>1, <1>3, <1>5 DEF Kept
<1>7. CalmAt(c)' /\ Completes(c)  BY <1>3, <1>5 DEF CalmAt, Completes, Imap!Calls
<1> QED BY <1>1, <1>5, <1>6, <1>7, StepCalm

-----------------------------------------------------------------------------
(* A command that builds the index, or uses it.                            *)

LEMMA AsksRecord ==
  ASSUME NEW x \in Imap!Command, NEW pc \in Imap!Calls, NEW y, y = Imap!Asks(x, pc)
  PROVE  y.calm = x.calm /\ y.range = x.range /\ y.want = x.want /\ y.missing = x.missing
         /\ y.kind = x.kind
<1>1. {} \in SUBSET Imap!Ids  OBVIOUS
<1> QED BY <1>1 DEF Imap!Asks, Imap!Command, Imap!Calls

LEMMA BuildsCalm ==
  ASSUME Imap!ImapMailboxAssumption, ImapTyped, CalmFits, NEW c \in Commands,
         NEW x \in Imap!Command,
         x.calm => \A d \in Commands \ {c} : ~Imap!Building(d), rows' = rows, Imap!Builds(c, x)
  PROVE  CalmFits' /\ AllComplete
<1>1. "count" \in Imap!Calls  BY DEF Imap!Calls
<1>2. PICK y \in Imap!Command : y = Imap!Asks(x, "count") /\ y.pc = "count" /\ ~y.served
  BY <1>1, AsksTyped
<1>3. y.calm = x.calm  BY <1>1, <1>2, AsksRecord
<1>4. PICK cs : cs = Commands \ {c}  OBVIOUS
<1>5. cmd' = [Imap!Disturbed(cs) EXCEPT ![c] = y] /\ built' = built
  BY <1>2, <1>4 DEF Imap!Builds
<1>6. cmd'[c] = y /\ OthersRest(c)  BY <1>5, CommandSet
<1>7. ASSUME NEW d \in Commands \ {c}  PROVE ~cmd'[d].calm
  <2>1. cmd'[d] = Imap!Disturbed(cs)[d]  BY <1>5, DisturbedTyped
  <2>2. PICK w \in Imap!Command : w = cmd[d]  BY DEF ImapTyped
  <2>3. Imap!Disturbed(cs)[d] = [w EXCEPT !.calm = FALSE]  BY <1>4, <2>2 DEF Imap!Disturbed
  <2> QED BY <2>1, <2>3 DEF Imap!Command
<1>8. CalmAt(c)'
  <2>1. CalmCommand(y, rows', count', index', Imap!ToSet(cache'), ~shaken' /\ ~spoilt')
    BY <1>2 DEF CalmCommand
  <2>2. y.calm => \A d \in Commands \ {c} : ~Imap!Building(d)'  BY <1>3, <1>6, OthersStillBuild
  <2> QED BY <1>2, <1>6, <2>1, <2>2 DEF CalmAt
<1>9. Completes(c)  BY <1>2, <1>6 DEF Completes
<1> QED BY <1>5, <1>6, <1>7, <1>8, <1>9, StepCalm

\* FETCH answers with what is in range when the index is right.
LEMMA AnswersComplete ==
  ASSUME NEW c \in Commands, NEW x \in Imap!Command, NEW put, NEW want,
         Answers(c, x, want, put), x.kind = "fetch",
         cmd'[c].calm /\ ~shaken' /\ ~spoilt' =>
           /\ index' = rows' /\ want = x.range \cap rows'
           /\ want \ Broken \subseteq Imap!ToSet(cache) \cup put,
         rows' \subseteq Imap!Ids
  PROVE  Completes(c)
<1> SUFFICES ASSUME cmd'[c].calm, ~shaken', ~spoilt', cmd'[c].range = Imap!Ids
             PROVE  rows' \ Broken \subseteq cmd'[c].result /\ cmd'[c].result \subseteq rows'
  BY DEF Completes
<1>1. /\ cmd'[c].range = x.range /\ cmd'[c].result = want \cap Imap!ToSet(cache') \cap index'
      /\ put \subseteq Imap!ToSet(cache') /\ Imap!ToSet(cache) \subseteq Imap!ToSet(cache')
  BY DEF Answers
<1>2. PICK s, t : s = Imap!ToSet(cache) /\ t = Imap!ToSet(cache')  OBVIOUS
<1>3. want \ Broken \subseteq t /\ want = rows' /\ index' = rows'  BY <1>1, <1>2
<1> QED BY <1>1, <1>2, <1>3

LEMMA UseIndexCalm ==
  ASSUME Imap!ImapMailboxAssumption, MailboxFits, CalmFits, ImapTyped', NEW c \in Commands,
         NEW x \in Imap!Command, Imap!UseIndex(c, x), rows' = rows, built',
         UNCHANGED <<shaken, spoilt>>,
         x.calm => \A d \in Commands \ {c} : ~Imap!Building(d),
         x.calm /\ x.kind = "fetch" /\ ~shaken /\ ~spoilt =>
           index' = rows /\ count' = Cardinality(rows),
         \A d \in Commands \ {c} : cmd[d].calm /\ cmd[d].pc \in Imap!Calls
         => UNCHANGED <<count, index>>
  PROVE  CalmFits' /\ AllComplete
<1>1. /\ ImapTyped /\ rows \subseteq Imap!Ids /\ rows' \subseteq Imap!Ids
      /\ index' \subseteq Imap!Ids
      /\ count' \in 0..MaxMail
  BY DEF MailboxFits, ImapTyped
<1>2. cmd' \in [Commands -> Imap!Command] /\ OthersRest(c) /\ ~Imap!Building(c)'
  BY <1>1, UseIndexEnds
<1>3. (\A d \in Commands \ {c} : cmd'[d].calm => Imap!ToSet(cache) \subseteq Imap!ToSet(cache'))
      => \A d \in Commands \ {c} : cmd'[d].calm /\ cmd'[d].pc \in Imap!Calls => Kept(c)
  <2> SUFFICES ASSUME NEW d \in Commands \ {c}, cmd'[d].calm, cmd'[d].pc \in Imap!Calls,
                      Imap!ToSet(cache) \subseteq Imap!ToSet(cache')
               PROVE  Kept(c)
    OBVIOUS
  <2>1. PICK w \in Imap!Command : w = cmd[d]  BY <1>1 DEF ImapTyped
  <2>2. w.calm /\ w.pc \in Imap!Calls  BY <1>2, <2>1 DEF OthersRest, Imap!Command
  <2> QED BY <1>2, <2>1, <2>2 DEF Kept, Imap!Building
<1>4. CASE x.kind = "fetch"
  <2>1. PICK want \in SUBSET Imap!Ids : want = x.range \cap index'  BY <1>1
  <2>2. PICK missing \in SUBSET Imap!Ids : missing = want \ Imap!ToSet(cache)  OBVIOUS
  <2>3. CASE missing # {} /\ count' # 0
    <3>1. PICK z \in Imap!Command : z = Imap!Asks(x, "messages") /\ z.pc = "messages"
          /\ ~z.served
                               /\ z.calm = x.calm /\ z.range = x.range
      <4>1. "messages" \in Imap!Calls  BY DEF Imap!Calls
      <4>2. PICK z \in Imap!Command : z = Imap!Asks(x, "messages") /\ z.pc = "messages"
            /\ ~z.served
        BY <4>1, AsksTyped
      <4>3. z.calm = x.calm /\ z.range = x.range  BY <4>1, <4>2, AsksRecord
      <4> QED BY <4>2, <4>3
    <3>2. PICK n \in 0..MaxMail : n = count'  BY <1>1
    <3>3. cmd' = [cmd EXCEPT ![c] = [z EXCEPT !.want = want, !.missing = missing,
                                              !.total = n, !.offset = 0, !.got = {}]]
          /\ cache' = cache
      BY <1>4, <2>1, <2>2, <2>3, <3>1, <3>2 DEF Imap!UseIndex, Imap!Fetch
    <3>4. PICK y \in Imap!Command : y = [z EXCEPT !.want = want, !.missing = missing,
                                              !.total = n, !.offset = 0, !.got = {}]
      <4>1. {} \in SUBSET Imap!Ids /\ 0 \in Nat  OBVIOUS
      <4> QED BY <4>1 DEF Imap!Command
    <3>5. /\ y.pc = "messages" /\ ~y.served /\ y.calm = x.calm /\ y.range = x.range
          /\ y.want = want /\ y.missing = missing /\ y.total = n /\ y.offset = 0 /\ y.got = {}
      BY <3>1, <3>4 DEF Imap!Command
    <3>6. cmd'[c] = y  BY <1>1, <3>3, <3>4, CommandSet
    <3>7. Completes(c)  BY <3>5, <3>6 DEF Completes
    <3>8. ASSUME x.calm, ~shaken, ~spoilt
          PROVE  Fetching(y, rows, rows, Imap!ToSet(cache)) /\ index' = rows
      <4>1. index' = rows /\ n = Cardinality(rows)  BY <1>4, <3>2, <3>8
      <4>2. Newest(rows, 0) = {}  BY <1>1, NewestNone
      <4>3. 0 < n  BY <2>3, <3>2
      <4>4. y.want = y.range \cap rows /\ y.missing \subseteq y.want
            /\ y.want \ Imap!ToSet(cache) \subseteq y.missing
        BY <2>1, <2>2, <3>5, <4>1
      <4>5. y.got = y.missing \cap Newest(rows, y.offset)  BY <3>5, <4>2
      <4> QED BY <3>5, <4>1, <4>3, <4>4, <4>5 DEF Fetching
    <3>9. CalmAt(c)'
      <4>1. x.calm =>
              CalmCommand(y, rows', count', index', Imap!ToSet(cache'), ~shaken' /\ ~spoilt')
        BY <3>3, <3>5, <3>8 DEF CalmCommand
      <4>2. x.calm => \A d \in Commands \ {c} : ~Imap!Building(d)'  BY <1>1, <1>2,
           OthersStillBuild
      <4> QED BY <3>5, <3>6, <4>1, <4>2 DEF CalmAt
    <3>10. Imap!ToSet(cache) \subseteq Imap!ToSet(cache')  BY <3>3
    <3> QED BY <1>1, <1>2, <1>3, <3>7, <3>9, <3>10, StepCalm
  <2>4. CASE ~(missing # {} /\ count' # 0)
    <3>1. Imap!FromCache(c, x, want, {})  BY <1>4, <2>1, <2>2, <2>4 DEF Imap!UseIndex, Imap!Fetch
    <3>2. Answers(c, x, want, {})  BY <1>1, <3>1, FromCacheEnds
    <3>3. ASSUME cmd'[c].calm, ~shaken', ~spoilt'
          PROVE  index' = rows' /\ want = x.range \cap rows'
                 /\ want \ Broken \subseteq Imap!ToSet(cache) \cup {}
      <4>1. x.calm  BY <3>2, <3>3 DEF Answers
      <4>2. index' = rows /\ count' = Cardinality(rows)  BY <1>4, <3>3, <4>1
      <4>3. count' = 0 => rows = {}
        <5>1. IsFiniteSet(rows)  BY <1>1, IdsAreFinite
        <5> QED BY <4>2, <5>1, FS_EmptySet
      <4> QED BY <2>1, <2>2, <2>4, <4>2, <4>3
    <3>4. Completes(c)  BY <1>1, <1>4, <3>2, <3>3, AnswersComplete
    <3>5. CalmAt(c)'  BY <3>2 DEF Answers, CalmAt, Imap!Calls
    <3>6. \A d \in Commands \ {c} : cmd'[d].calm
          => Imap!ToSet(cache) \subseteq Imap!ToSet(cache')
      BY <3>2 DEF Answers
    <3> QED BY <1>1, <1>2, <1>3, <3>4, <3>5, <3>6, StepCalm
  <2> QED BY <2>3, <2>4
<1>5. CASE x.kind # "fetch"
  <2>1. PICK y \in Imap!Command : y = Imap!Ends(x, {}) /\ y.pc = "done" /\ y.kind = x.kind
    <3>1. {} \in SUBSET Imap!Ids  OBVIOUS
    <3> QED BY <3>1, EndsTyped, EndsRecord
  <2>2. cmd' = [cmd EXCEPT ![c] = y] /\ cache' = cache  BY <1>5, <2>1
       DEF Imap!UseIndex, Imap!Store
  <2>3. cmd'[c] = y  BY <1>1, <2>1, <2>2, CommandSet
  <2>4. Completes(c) /\ CalmAt(c)'  BY <1>5, <2>1, <2>3 DEF Completes, CalmAt, Imap!Calls
  <2>5. Imap!ToSet(cache) \subseteq Imap!ToSet(cache')  BY <2>2
  <2> QED BY <1>1, <1>2, <1>3, <2>4, <2>5, StepCalm
<1> QED BY <1>4, <1>5
-----------------------------------------------------------------------------
(* The commands.                                                           *)

LEMMA BeginCalm ==
  ASSUME Imap!ImapMailboxAssumption, MailboxFits, CalmFits, ImapTyped', NEW c \in Commands,
         NEW kind \in Imap!Kinds, NEW range \in Imap!Ranges(kind), Imap!Begin(c, kind, range)
  PROVE  CalmFits' /\ AllComplete
<1>1. ImapTyped /\ UNCHANGED <<rows, count>> /\ cmd[c] = Imap!Idle
  BY DEF MailboxFits, Imap!Begin
<1>2. ~Imap!Building(c)  BY <1>1, IdleTyped DEF Imap!Building
<1>3. range \in SUBSET Imap!Ids
  <2>1. {MaxMail} \subseteq Imap!Ids /\ {} \subseteq Imap!Ids
    BY DEF Imap!Ids, Imap!ImapMailboxAssumption
  <2> QED BY <2>1 DEF Imap!Ranges
<1>4. PICK x \in Imap!Command :
        /\ x = [Imap!Idle EXCEPT !.kind = kind, !.range = range,
                            !.calm = \A d \in Commands : ~Imap!Building(d)]
        /\ x.kind = kind /\ (x.calm <=> \A d \in Commands : ~Imap!Building(d))
  <2>1. PICK z \in Imap!Command : z = Imap!Idle  BY IdleTyped
  <2>2. PICK calm \in BOOLEAN : calm = \A d \in Commands : ~Imap!Building(d)  OBVIOUS
  <2>3. PICK w \in Imap!Command : w = [z EXCEPT !.kind = kind, !.range = range, !.calm = calm]
    <3>1. [z EXCEPT !.kind = kind, !.range = range, !.calm = calm] \in Imap!Command
      BY <1>3 DEF Imap!Command, Imap!Kinds
    <3> QED BY <3>1
  <2>4. w.kind = kind /\ w.calm = calm  BY <2>3 DEF Imap!Command
  <2> QED BY <2>1, <2>2, <2>3, <2>4
<1>5. x.calm => \A d \in Commands \ {c} : ~Imap!Building(d)  BY <1>4
<1>6. CASE Imap!Builds(c, x)  BY <1>1, <1>5, <1>6, BuildsCalm
<1>7. CASE /\ cmd' = [cmd EXCEPT ![c] = Imap!Asks(x, "refresh")] /\ built
           /\ UNCHANGED <<index, built, cache, shaken, spoilt>>
  <2>1. "refresh" \in Imap!Calls  BY DEF Imap!Calls
  <2>2. PICK y \in Imap!Command : y = Imap!Asks(x, "refresh") /\ y.pc = "refresh" /\ ~y.served
    BY <2>1, AsksTyped
  <2>3. y.calm = x.calm  BY <2>1, <2>2, AsksRecord
  <2>4. cmd'[c] = y /\ OthersRest(c)  BY <1>1, <1>7, <2>2, CommandSet
  <2>5. Kept(c)  BY <1>1, <1>7, <2>2, <2>4 DEF Kept
  <2>6. Completes(c)  BY <2>2, <2>4 DEF Completes
  <2>7. CalmAt(c)'
    <3>1. CalmCommand(y, rows', count', index', Imap!ToSet(cache'), ~shaken' /\ ~spoilt')
      BY <2>2 DEF CalmCommand
    <3>2. y.calm => \A d \in Commands \ {c} : ~Imap!Building(d)'
      BY <1>1, <1>5, <2>3, <2>4, OthersStillBuild
    <3> QED BY <1>7, <2>4, <3>1, <3>2 DEF CalmAt
  <2> QED BY <1>1, <1>7, <2>4, <2>5, <2>6, <2>7, StepCalm
<1>8. CASE kind = "store" /\ built /\ UNCHANGED <<index, built, shaken, spoilt>>
      /\ Imap!UseIndex(c, x)
  BY <1>1, <1>4, <1>5, <1>8, UseIndexCalm
<1> QED BY <1>4, <1>6, <1>7, <1>8 DEF Imap!Begin

\* Only the command that builds knows of a build while it is calm.
LEMMA AloneWhenCalm ==
  ASSUME CalmFits, NEW c \in Commands, cmd[c].pc \in Imap!Calls
  PROVE  /\ cmd[c].calm => \A d \in Commands \ {c} : ~Imap!Building(d)
         /\ Imap!Building(c)
              => \A d \in Commands \ {c} : ~(cmd[d].calm /\ cmd[d].pc \in Imap!Calls)
BY DEF CalmFits, CalmAt

LEMMA RefreshedCalm ==
  ASSUME Imap!ImapMailboxAssumption, MailboxFits, CalmFits, ImapTyped', NEW c \in Commands,
         Imap!Refreshed(c)
  PROVE  CalmFits' /\ AllComplete
<1>1. ImapTyped /\ rows' = rows  BY DEF MailboxFits, Imap!Refreshed
<1>2. PICK x \in Imap!Command : x = cmd[c]  BY <1>1 DEF ImapTyped
<1>3. x.pc = "refresh" /\ x.served /\ x.pc \in Imap!Calls
  BY <1>2 DEF Imap!Refreshed, Imap!Answered, Imap!Calls
<1>4. x.calm => \A d \in Commands \ {c} : ~Imap!Building(d)  BY <1>2, <1>3, AloneWhenCalm
<1>5. CASE Imap!Builds(c, x)  BY <1>1, <1>4, <1>5, BuildsCalm
<1>6. CASE UNCHANGED <<count, index, built, shaken, spoilt>> /\ Imap!UseIndex(c, x)
  <2>1. built  BY <1>2, <1>3 DEF CalmFits, CalmAt
  <2>2. ASSUME x.calm, ~shaken, ~spoilt
        PROVE  index' = rows /\ count' = Cardinality(rows)
    <3>1. x.answer = rows
      BY <1>2, <1>3, <2>2 DEF CalmFits, CalmAt, CalmCommand
    <3>2. count' = Cardinality(rows)
      BY <1>2, <3>1, OneCardinality DEF Imap!Refreshed
    <3>3. ~Imap!Building(c)  BY <1>2, <1>3 DEF Imap!Building
    <3>4. IndexFits(index, rows, count)  BY <1>4, <2>1, <2>2, <3>3 DEF MailboxFits
    <3> QED BY <1>6, <3>2, <3>4 DEF IndexFits
  <2> QED BY <1>1, <1>4, <1>6, <2>1, <2>2, UseIndexCalm
<1> QED BY <1>2, <1>5, <1>6 DEF Imap!Refreshed

LEMMA CountedCalm ==
  ASSUME Imap!ImapMailboxAssumption, MailboxFits, CalmFits, ImapTyped', NEW c \in Commands,
         Imap!Counted(c)
  PROVE  CalmFits' /\ AllComplete
<1>1. ImapTyped /\ UNCHANGED <<rows, shaken, spoilt>> /\ rows \subseteq Imap!Ids
  BY DEF MailboxFits, ImapTyped, Imap!Counted
<1>2. PICK x \in Imap!Command : x = cmd[c]  BY <1>1 DEF ImapTyped
<1>3. x.pc = "count" /\ x.served /\ Imap!Building(c) /\ x.pc \in Imap!Calls
  BY <1>2 DEF Imap!Counted, Imap!Answered, Imap!Building, Imap!Calls
<1>4. /\ x.calm => \A d \in Commands \ {c} : ~Imap!Building(d)
      /\ \A d \in Commands \ {c} : ~(cmd[d].calm /\ cmd[d].pc \in Imap!Calls)
  BY <1>2, <1>3, AloneWhenCalm
<1>5. x.calm => x.answer = rows  BY <1>2, <1>3 DEF CalmFits, CalmAt, CalmCommand
<1>6. PICK n \in 0..MaxMail : n = Cardinality(x.answer) /\ count' = n
  <2>1. x.answer \subseteq Imap!Ids  BY DEF Imap!Command
  <2>2. Cardinality(x.answer) \in 0..MaxMail  BY <2>1, IdsAreFinite
  <2> QED BY <1>2, <2>2, OneCardinality DEF Imap!Counted
<1>7. CASE n = 0
  <2>1. index' = {} /\ built' = TRUE /\ Imap!UseIndex(c, x)
    BY <1>2, <1>6, <1>7 DEF Imap!Counted
  <2>2. Cardinality(rows) = 0 => rows = {}
    <3>1. IsFiniteSet(rows)  BY <1>1, IdsAreFinite
    <3> QED BY <3>1, FS_EmptySet
  <2>3. x.calm => index' = rows /\ count' = Cardinality(rows)
    BY <1>5, <1>6, <1>7, <2>1, <2>2
  <2> QED BY <1>1, <1>4, <2>1, <2>3, UseIndexCalm
<1>8. CASE n # 0
  <2>1. PICK z \in Imap!Command : z = Imap!Asks(x, "page") /\ z.pc = "page" /\ z.calm = x.calm
    <3>1. "page" \in Imap!Calls  BY DEF Imap!Calls
    <3> QED BY <3>1, AsksTyped, AsksRecord
  <2>2. PICK y \in Imap!Command : y = [z EXCEPT !.total = n, !.offset = 0, !.got = {}]
    <3>1. {} \in SUBSET Imap!Ids /\ 0 \in Nat  OBVIOUS
    <3> QED BY <3>1 DEF Imap!Command
  <2>3. y.pc = "page" /\ y.calm = x.calm  BY <2>1, <2>2 DEF Imap!Command
  <2>4. cmd' = [cmd EXCEPT ![c] = y] /\ UNCHANGED <<index, built>>
    BY <1>2, <1>6, <1>8, <2>1, <2>2 DEF Imap!Counted
  <2>5. cmd'[c] = y /\ OthersRest(c)  BY <1>1, <2>4, CommandSet
  <2>6. Completes(c)  BY <2>3, <2>5 DEF Completes
  <2>7. CalmAt(c)'
    <3>1. x.calm => CalmCommand(y, rows', count', index', Imap!ToSet(cache'),
                                                                     ~shaken' /\ ~spoilt')
      BY <1>1, <1>5, <1>6, <2>3 DEF CalmCommand
    <3>2. x.calm => \A d \in Commands \ {c} : ~Imap!Building(d)'
      BY <1>1, <1>4, <2>5, OthersStillBuild
    <3> QED BY <2>3, <2>5, <3>1, <3>2 DEF CalmAt
  <2>8. \A d \in Commands \ {c} : ~(cmd'[d].calm /\ cmd'[d].pc \in Imap!Calls)
    BY <1>1, <1>4, <2>5, CalmElsewhere
  <2> QED BY <1>1, <2>4, <2>5, <2>6, <2>7, <2>8, StepCalm
<1> QED BY <1>7, <1>8

LEMMA PagedCalm ==
  ASSUME Imap!ImapMailboxAssumption, MailboxFits, CalmFits, MailboxFits', NEW c \in Commands,
         Imap!Paged(c)
  PROVE  CalmFits' /\ AllComplete
<1>1. /\ ImapTyped /\ ImapTyped' /\ UNCHANGED <<rows, count, shaken, spoilt>>
      /\ rows \subseteq Imap!Ids
  BY DEF MailboxFits, ImapTyped, Imap!Paged
<1>2. PICK w \in Imap!Command : w = cmd[c]  BY <1>1 DEF ImapTyped
<1>3. w.pc = "page" /\ w.served /\ Imap!Building(c) /\ w.pc \in Imap!Calls
  BY <1>2 DEF Imap!Paged, Imap!Answered, Imap!Building, Imap!Calls
<1>4. /\ w.calm => \A d \in Commands \ {c} : ~Imap!Building(d)
      /\ \A d \in Commands \ {c} : ~(cmd[d].calm /\ cmd[d].pc \in Imap!Calls)
  BY <1>2, <1>3, AloneWhenCalm
<1>5. w.calm => count = Cardinality(rows)  BY <1>2, <1>3 DEF CalmFits, CalmAt, CalmCommand
<1>6. PICK limit \in Int : limit = Imap!Limit(w)
  BY DEF Imap!Limit, Imap!Command, Imap!ImapMailboxAssumption
<1>7. w.total \in Nat /\ w.offset \in Nat /\ w.offset + limit \in Nat
      /\ w.got \cup w.answer \in SUBSET Imap!Ids
  BY <1>6 DEF Imap!Limit, Imap!Command, Imap!ImapMailboxAssumption
<1>8. PICK x \in Imap!Command : x = [w EXCEPT !.got = w.got \cup w.answer,
                                        !.offset = w.offset + limit]
  BY <1>7 DEF Imap!Command
<1>9. /\ x.offset = w.offset + limit /\ x.total = w.total /\ x.calm = w.calm
  BY <1>8 DEF Imap!Command
<1>10. x = [cmd[c] EXCEPT !.got = @ \cup cmd[c].answer, !.offset = @ + Imap!Limit(cmd[c])]
  BY <1>2, <1>6, <1>8
<1>11. CASE x.offset < x.total
  <2>1. cmd' = [cmd EXCEPT ![c] = Imap!Asks(x, "page")] /\ UNCHANGED <<index, built, cache>>
    BY <1>7, <1>9, <1>10, <1>11 DEF Imap!Paged
  <2>2. PICK y \in Imap!Command : y = Imap!Asks(x, "page") /\ y.pc = "page" /\ y.calm = x.calm
    <3>1. "page" \in Imap!Calls  BY DEF Imap!Calls
    <3> QED BY <3>1, AsksTyped, AsksRecord
  <2>3. cmd'[c] = y /\ OthersRest(c)  BY <1>1, <2>1, <2>2, CommandSet
  <2>4. Completes(c)  BY <2>2, <2>3 DEF Completes
  <2>5. CalmAt(c)'
    <3>1. x.calm => CalmCommand(y, rows', count', index', Imap!ToSet(cache'),
                                                                     ~shaken' /\ ~spoilt')
      BY <1>1, <1>5, <1>9, <2>2 DEF CalmCommand
    <3>2. x.calm => \A d \in Commands \ {c} : ~Imap!Building(d)'
      BY <1>1, <1>4, <1>9, <2>3, OthersStillBuild
    <3> QED BY <2>2, <2>3, <3>1, <3>2 DEF CalmAt
  <2>6. \A d \in Commands \ {c} : ~(cmd'[d].calm /\ cmd'[d].pc \in Imap!Calls)
    BY <1>1, <1>4, <2>3, CalmElsewhere
  <2> QED BY <1>1, <2>1, <2>3, <2>4, <2>5, <2>6, StepCalm
<1>12. CASE x.offset >= x.total
  <2>1. index' = x.got /\ built' = TRUE /\ Imap!UseIndex(c, x)
    BY <1>7, <1>9, <1>10, <1>12 DEF Imap!Paged
  <2>2. index' \subseteq Imap!Ids /\ count' \in 0..MaxMail  BY <1>1 DEF ImapTyped
  <2>3. OthersRest(c) /\ ~Imap!Building(c)'  BY <1>1, <2>1, <2>2, UseIndexEnds
  <2>4. ASSUME x.calm, ~shaken, ~spoilt
        PROVE  index' = rows /\ count' = Cardinality(rows)
    <3>1. \A d \in Commands : ~Imap!Building(d)'
      BY <1>1, <1>4, <1>9, <2>3, <2>4, OthersStillBuild
    <3>2. IndexFits(index', rows', count')
      BY <1>1, <2>1, <2>4, <3>1 DEF MailboxFits
    <3> QED BY <1>1, <1>5, <1>9, <2>4, <3>2 DEF IndexFits
  <2>5. x.calm => \A d \in Commands \ {c} : ~Imap!Building(d)  BY <1>4, <1>9
  <2> QED BY <1>1, <1>4, <2>1, <2>4, <2>5, UseIndexCalm
<1> QED BY <1>7, <1>9, <1>11, <1>12

LEMMA FetchedCalm ==
  ASSUME Imap!ImapMailboxAssumption, MailboxFits, CalmFits, NEW c \in Commands, Imap!Fetched(c)
  PROVE  CalmFits' /\ AllComplete
<1>1. /\ ImapTyped /\ UNCHANGED <<rows, count, index, built, shaken, spoilt>>
      /\ rows \subseteq Imap!Ids /\ index \subseteq Imap!Ids
  BY DEF MailboxFits, ImapTyped, Imap!Fetched
<1>2. PICK w \in Imap!Command : w = cmd[c]  BY <1>1 DEF ImapTyped
<1>3. w.pc = "messages" /\ w.served /\ ~Imap!Building(c) /\ w.pc \in Imap!Calls
  BY <1>2 DEF Imap!Fetched, Imap!Answered, Imap!Building, Imap!Calls
<1>4. w.calm => \A d \in Commands \ {c} : ~Imap!Building(d)  BY <1>2, <1>3, AloneWhenCalm
<1>5. PICK limit \in Int : limit = Imap!Limit(w)
  BY DEF Imap!Limit, Imap!Command, Imap!ImapMailboxAssumption
<1>6. w.offset + limit \in Nat /\ w.got \cup (w.answer \cap w.missing) \in SUBSET Imap!Ids
      /\ w.offset \in Nat /\ w.total \in Nat
  BY <1>5 DEF Imap!Limit, Imap!Command, Imap!ImapMailboxAssumption
<1>7. PICK x \in Imap!Command : x = [w EXCEPT !.got = w.got \cup (w.answer \cap w.missing),
                                        !.offset = w.offset + limit]
  BY <1>6 DEF Imap!Command
<1>8. x = [cmd[c] EXCEPT !.got = @ \cup (cmd[c].answer \cap cmd[c].missing),
                         !.offset = @ + Imap!Limit(cmd[c])]
  BY <1>2, <1>5, <1>7
<1>9. /\ x.got = w.got \cup (w.answer \cap w.missing) /\ x.offset = w.offset + limit
      /\ x.total = w.total /\ x.want = w.want /\ x.missing = w.missing /\ x.range = w.range
      /\ x.calm = w.calm /\ x.kind = w.kind
  BY <1>7 DEF Imap!Command
\* With the page of the answer it has the newest up to the next page.
<1>10. ASSUME w.calm, ~shaken, ~spoilt
       PROVE  /\ index = rows /\ x.want = x.range \cap rows
              /\ x.total = Cardinality(rows)
              /\ x.missing \subseteq x.want /\ x.want \ Imap!ToSet(cache) \subseteq x.missing
              /\ x.got = x.missing \cap Newest(rows, x.offset)
  <2>1. Fetching(w, rows, index, Imap!ToSet(cache))
    BY <1>2, <1>3, <1>10 DEF CalmFits, CalmAt, CalmCommand
  <2>2. limit \in Nat  BY <1>5, <1>6, <2>1 DEF Fetching, Imap!Limit, Imap!ImapMailboxAssumption
  <2>3. Newest(rows, w.offset) \cup MessagesOf(rows, limit, w.offset)
          = Newest(rows, w.offset + limit)
    BY <1>1, <1>6, <2>2, NewestGrow
  <2>4. x.got = x.missing \cap Newest(rows, x.offset)
    BY <1>3, <1>5, <1>9, <2>1, <2>3 DEF Fetching
  <2> QED BY <1>9, <2>1, <2>4 DEF Fetching
<1>11. CASE Imap!MoreMessages(x) /\ cmd' = [cmd EXCEPT ![c] = Imap!Asks(x, "messages")]
       /\ cache' = cache
  <2>1. PICK y \in Imap!Command :
          /\ y = Imap!Asks(x, "messages") /\ y.pc = "messages" /\ ~y.served
          /\ y.total = x.total /\ y.offset = x.offset /\ y.got = x.got
          /\ y.calm = x.calm /\ y.range = x.range /\ y.want = x.want /\ y.missing = x.missing
    <3>1. "messages" \in Imap!Calls  BY DEF Imap!Calls
    <3> QED BY <3>1, AsksTyped, AsksRecord
  <2>2. cmd'[c] = y /\ OthersRest(c)  BY <1>1, <1>11, <2>1, CommandSet
  <2>3. Kept(c)  BY <1>1, <1>11, <2>1, <2>2 DEF Kept
  <2>4. Completes(c)  BY <2>1, <2>2 DEF Completes
  <2>5. CalmAt(c)'
    <3>1. ASSUME x.calm, ~shaken, ~spoilt
          PROVE  Fetching(y, rows, index, Imap!ToSet(cache))
      BY <1>9, <1>10, <1>11, <2>1, <3>1 DEF Fetching, Imap!MoreMessages
    <3>2. x.calm => CalmCommand(y, rows', count', index', Imap!ToSet(cache'),
                                                                     ~shaken' /\ ~spoilt')
      BY <1>1, <1>11, <2>1, <3>1 DEF CalmCommand
    <3>3. x.calm => \A d \in Commands \ {c} : ~Imap!Building(d)'
      BY <1>1, <1>4, <1>9, <2>2, OthersStillBuild
    <3> QED BY <2>1, <2>2, <3>2, <3>3 DEF CalmAt
  <2> QED BY <1>1, <2>2, <2>3, <2>4, <2>5, StepCalm
<1>12. CASE ~Imap!MoreMessages(x) /\ Imap!FromCache(c, x, x.want, x.got \ Broken)
  <2>1. index' \subseteq Imap!Ids /\ rows' \subseteq Imap!Ids  BY <1>1
  <2>2. PICK want, put : want = x.want /\ put = x.got \ Broken  OBVIOUS
  <2>3. cmd' \in [Commands -> Imap!Command] /\ OthersRest(c) /\ ~Imap!Building(c)'
        /\ Answers(c, x, want, put)
    BY <1>1, <1>12, <2>1, <2>2, FromCacheEnds
  <2>4. ASSUME cmd'[c].calm, ~shaken', ~spoilt'
        PROVE  index' = rows' /\ want = x.range \cap rows'
               /\ want \ Broken \subseteq Imap!ToSet(cache) \cup put
    <3>1. w.calm  BY <1>9, <2>3, <2>4 DEF Answers
    <3>2. /\ index = rows /\ x.want = x.range \cap rows /\ x.total = Cardinality(rows)
          /\ x.missing \subseteq x.want /\ x.want \ Imap!ToSet(cache) \subseteq x.missing
          /\ x.got = x.missing \cap Newest(rows, x.offset)
      BY <1>1, <1>10, <2>4, <3>1
    <3>3. x.got = x.missing
      <4>1. CASE x.offset >= x.total
        <5>1. Newest(rows, x.offset) = rows  BY <1>1, <1>6, <1>9, <3>2, <4>1, NewestAll
        <5> QED BY <3>2, <5>1
      <4> QED BY <1>6, <1>9, <1>12, <4>1 DEF Imap!MoreMessages
    <3> QED BY <1>1, <2>2, <3>2, <3>3
  <2>5. Completes(c)
    <3>1. CASE x.kind = "fetch"  BY <2>1, <2>3, <2>4, <3>1, AnswersComplete
    <3>2. CASE x.kind # "fetch"  BY <2>3, <3>2 DEF Answers, Completes
    <3> QED BY <3>1, <3>2
  <2>6. CalmAt(c)'  BY <2>3 DEF Answers, CalmAt, Imap!Calls
  <2>7. \A d \in Commands \ {c} : cmd'[d].calm => Kept(c)
    BY <1>1, <2>3 DEF Answers, Kept
  <2> QED BY <1>1, <2>3, <2>5, <2>6, <2>7, StepCalm
<1> QED BY <1>8, <1>11, <1>12 DEF Imap!Fetched

LEMMA InitCalm ==
  ASSUME Imap!ImapMailboxAssumption, Imap!Init  PROVE CalmFits
<1>1. PICK z \in Imap!Command : z = Imap!Idle /\ z.pc = "idle"  BY IdleTyped
<1>2. \A c \in Commands : cmd[c] = z  BY <1>1 DEF Imap!Init
<1> QED BY <1>1, <1>2 DEF CalmFits, CalmAt, Imap!Calls

LEMMA NextCalm ==
  ASSUME Imap!ImapMailboxAssumption, MailboxFits, CalmFits, MailboxFits', [Imap!Next]_(Imap!vars)
  PROVE  CalmFits' /\ AllComplete
<1> ImapTyped /\ ImapTyped'  BY DEF MailboxFits
<1>1. CASE Imap!Arrive  BY <1>1, ChangeCalm DEF Imap!Arrive
<1>2. CASE \E u \in Imap!Ids : Imap!Delete(u)  BY <1>2, ChangeCalm DEF Imap!Delete
<1>3. CASE \E c \in Commands : \E kind \in Imap!Kinds : \E range \in Imap!Ranges(kind) :
             Imap!Begin(c, kind, range)
  BY <1>3, BeginCalm
<1>4. CASE \E c \in Commands : Imap!Serve(c)  BY <1>4, ServeCalm
<1>5. CASE \E c \in Commands : Imap!CallFails(c)  BY <1>5, CallFailsCalm
<1>6. CASE \E c \in Commands : Imap!Refreshed(c)  BY <1>6, RefreshedCalm
<1>7. CASE \E c \in Commands : Imap!Counted(c)  BY <1>7, CountedCalm
<1>8. CASE \E c \in Commands : Imap!Paged(c)  BY <1>8, PagedCalm
<1>9. CASE \E c \in Commands : Imap!Fetched(c)  BY <1>9, FetchedCalm
<1>10. CASE UNCHANGED Imap!vars
  <2>1. UNCHANGED <<rows, count, index, built, cache, cmd, shaken, spoilt>>
    BY <1>10 DEF Imap!vars
  <2>2. CalmFits'  BY <2>1 DEF CalmFits, CalmAt, Imap!Building
  <2>3. AllComplete  BY <2>1 DEF AllComplete, Completes
  <2> QED BY <2>2, <2>3
<1> QED
  BY <1>1, <1>2, <1>3, <1>4, <1>5, <1>6, <1>7, <1>8, <1>9, <1>10 DEF Imap!Next

LEMMA FetchesComplete ==
  Imap!ImapMailboxAssumption => (Imap!Spec => Imap!FetchComplete)
<1> SUFFICES ASSUME Imap!ImapMailboxAssumption  PROVE Imap!Spec => Imap!FetchComplete
  OBVIOUS
<1>1. Imap!Init => MailboxFits /\ CalmFits  BY InitMailbox, InitCalm
<1>2. MailboxFits /\ [Imap!Next]_(Imap!vars) => MailboxFits'  BY NextMailbox
<1>3. MailboxFits /\ CalmFits /\ MailboxFits' /\ [Imap!Next]_(Imap!vars) => CalmFits'
  BY NextCalm
<1>4. MailboxFits /\ CalmFits /\ MailboxFits' /\ [Imap!Next]_(Imap!vars) => AllComplete
  BY NextCalm
<1>5. AllComplete => [\A c \in Commands :
       /\ cmd[c].pc # "done" /\ cmd'[c].pc = "done"
       /\ cmd'[c].kind = "fetch" /\ cmd'[c].calm /\ cmd'[c].range = Imap!Ids
       /\ ~shaken' /\ ~spoilt'
       => /\ rows' \ Broken \subseteq cmd'[c].result
          /\ cmd'[c].result \subseteq rows']_(Imap!vars)
  BY DEF AllComplete, Completes
<1> QED BY <1>1, <1>2, <1>3, <1>4, <1>5, PTL DEF Imap!Spec, Imap!FetchComplete

\* An index with as many messages as the mailbox lists the messages of the mailbox,
\* although mails arrive while its pages are read (_build_uid_index).
THEOREM IndexListsMailbox ==
  Imap!ImapMailboxAssumption => (Imap!Spec => []IndexCurrent)
<1> SUFFICES ASSUME Imap!ImapMailboxAssumption  PROVE Imap!Spec => []IndexCurrent
  OBVIOUS
<1>1. MailboxFits => IndexCurrent  BY IndexIsCurrent DEF IndexCurrent
<1> QED BY <1>1, MailboxHolds, PTL

\* FETCH of all messages answers with every one that can be parsed, outside the
\* named overlaps (fetch and _fetch_and_cache_messages).
THEOREM FetchesAreComplete ==
  Imap!ImapMailboxAssumption => (Imap!Spec => FetchComplete)
BY FetchesComplete DEF FetchComplete

-----------------------------------------------------------------------------
(***************************************************************************)
(* MailWorkbench: with nothing out of turn one load runs alone, or one     *)
(* operation, and the rows are those of the backend or one mark behind.    *)
(***************************************************************************)

\* A page of the mails m, with the read states rd.
NumbersOf(m, p, f) ==
  LET matching == IF f = "all" THEN m ELSE m \cap Own
  IN {j \in matching : Cardinality({k \in matching : k > j}) \div PageSize = p - 1}

RowsOf(m, rd, p, f) == {<<i, i \notin rd>> : i \in NumbersOf(m, p, f)}

\* The rows s when mail i is marked.
MarkedOf(s, i, r) == {IF t[1] = i THEN <<i, ~r>> ELSE t : t \in s}

WorkbenchTyped ==
  /\ mails \subseteq Workbench!Ids
  /\ received \in 0..MaxArrivals
  /\ mailPage \in Workbench!PageNumbers /\ mailFilter \in Workbench!AddressFilters
  /\ mailRows \subseteq Workbench!Row
  /\ current \in 0..MaxMail
  /\ checked \subseteq Workbench!Ids
  /\ mailLoad \in [Slots -> Workbench!Load] /\ act \in [Acts -> Workbench!Act]
  /\ unsettled \in BOOLEAN

ActFits(x) ==
  /\ x.pc = "idle" => x = Workbench!NoAct
  /\ x.kind = "download" => x.pc = "asked"
  /\ x.pc \in {"load", "loading"} => x.kind \in Workbench!Deletes

Want == RowsOf(mails, read, mailPage, mailFilter)

LoadFits(x, p, f, want) ==
  /\ x.page = p /\ x.filter = f
  /\ x.pc = "served" => x.answer = want

\* One load, and the operation that waits for it.
LoadAlone(l) ==
  /\ Workbench!Loading = {l} /\ LoadFits(mailLoad[l], mailPage, mailFilter, Want)
  /\ \A a \in Workbench!Acting : a = mailLoad[l].act /\ act[a].pc = "loading"

Erasing == {a \in Workbench!Acting : act[a].kind \in Workbench!Deletes}

\* An operation that marks mails, or a download.
MarkFits(x, held, shown, want) ==
  /\ Workbench!FlagsOf(x.kind) # {} /\ Workbench!FlagsOf(x.kind) \subseteq held
  /\ ~x.lost
  /\ x.pc = "asked" => shown = want
  /\ x.pc = "served" /\ x.ok => MarkedOf(shown, Workbench!Max(x.todo), x.read) = want

RowsFit ==
  /\ \A a, b \in Workbench!Acting : a = b
  /\ \A a \in Workbench!Acting : MarkFits(act[a], raised, mailRows, Want)
  /\ Workbench!Acting = {} => mailRows = Want

WorkbenchFits ==
  /\ WorkbenchTyped
  /\ \A a \in Acts : ActFits(act[a])
  /\ ~unsettled /\ Workbench!Loading # {} =>
       "isRefreshing" \in raised /\ \E l \in Slots : LoadAlone(l)
  /\ ~unsettled /\ Workbench!Loading = {} /\ Erasing = {} => RowsFit

-----------------------------------------------------------------------------
(* Pages and marks.                                                        *)

LEMMA PageIsRowsOf ==
  ASSUME NEW p, NEW f  PROVE Workbench!Page(p, f) = RowsOf(mails, read, p, f)
<1>1. Workbench!Matching(f) = IF f = "all" THEN mails ELSE mails \cap Own
  BY DEF Workbench!Matching
<1>2. {j \in Workbench!Matching(f) : Workbench!Newer(j, f) \div PageSize = p - 1}
        = NumbersOf(mails, p, f)
  <2>1. \A j : Workbench!Newer(j, f) = Cardinality({k \in Workbench!Matching(f) : k > j})
    BY OneCardinality DEF Workbench!Newer
  <2> QED BY <1>1, <2>1, Zenon DEF NumbersOf
<1> QED BY <1>2 DEF Workbench!Page, RowsOf

LEMMA PageTyped ==
  ASSUME NEW m, m \subseteq Workbench!Ids,
         NEW rd, NEW p, NEW f  PROVE RowsOf(m, rd, p, f) \subseteq Workbench!Row
<1>1. NumbersOf(m, p, f) \subseteq Workbench!Ids  BY DEF NumbersOf
<1>2. ASSUME NEW t \in RowsOf(m, rd, p, f)  PROVE t \in Workbench!Row
  <2>1. PICK j \in NumbersOf(m, p, f) : t = <<j, j \notin rd>>  BY <1>2 DEF RowsOf
  <2>2. PICK b \in BOOLEAN : b = (j \notin rd)  OBVIOUS
  <2>3. t = <<j, b>> /\ j \in Workbench!Ids  BY <1>1, <2>1, <2>2
  <2> QED BY <2>3 DEF Workbench!Row
<1> QED BY <1>2

\* Marking a mail changes its row only.
LEMMA MarkChanges ==
  ASSUME NEW m, NEW rd, NEW p, NEW f, NEW i, NEW r \in BOOLEAN, NEW new,
         new = IF r THEN rd \cup {i} ELSE rd \ {i}
  PROVE  MarkedOf(RowsOf(m, rd, p, f), i, r) = RowsOf(m, new, p, f)
<1>1. PICK ns : ns = NumbersOf(m, p, f)  OBVIOUS
<1>2. PICK from : from = RowsOf(m, rd, p, f)  OBVIOUS
<1>3. PICK to : to = RowsOf(m, new, p, f)  OBVIOUS
<1>4. from = {<<j, j \notin rd>> : j \in ns} /\ to = {<<j, j \notin new>> : j \in ns}
  BY <1>1, <1>2, <1>3 DEF RowsOf
<1>5. \A j \in ns : (IF j = i THEN <<i, ~r>> ELSE <<j, j \notin rd>>) = <<j, j \notin new>>
  <2> SUFFICES ASSUME NEW j \in ns
               PROVE  (IF j = i THEN <<i, ~r>> ELSE <<j, j \notin rd>>) = <<j, j \notin new>>
    OBVIOUS
  <2>1. PICK b \in BOOLEAN : b = (j \notin rd)  OBVIOUS
  <2>2. PICK c \in BOOLEAN : c = (j \notin new)  OBVIOUS
  <2>3. IF j = i THEN c = ~r ELSE c = b  BY <2>1, <2>2
  <2>4. (IF j = i THEN <<i, ~r>> ELSE <<j, b>>) = <<j, c>>  BY <2>3
  <2> QED BY <2>1, <2>2, <2>4
<1>6. \A j : <<j, j \notin rd>>[1] = j  OBVIOUS
<1>7. ASSUME NEW y \in MarkedOf(from, i, r)  PROVE y \in to
  <2>1. PICK t \in from : y = IF t[1] = i THEN <<i, ~r>> ELSE t  BY <1>7 DEF MarkedOf
  <2>2. PICK j \in ns : t = <<j, j \notin rd>>  BY <1>4, <2>1
  <2>3. y = <<j, j \notin new>>  BY <1>5, <1>6, <2>1, <2>2
  <2> QED BY <1>4, <2>3
<1>8. ASSUME NEW y \in to  PROVE y \in MarkedOf(from, i, r)
  <2>1. PICK j \in ns : y = <<j, j \notin new>>  BY <1>4, <1>8
  <2>2. PICK t \in from : t = <<j, j \notin rd>>  BY <1>4
  <2>3. y = IF t[1] = i THEN <<i, ~r>> ELSE t  BY <1>5, <1>6, <2>1, <2>2
  <2> QED BY <2>3 DEF MarkedOf
<1> QED BY <1>2, <1>3, <1>7, <1>8

LEMMA MaxExists ==
  ASSUME NEW N \in Nat, NEW S, S \subseteq 0..N, S # {}
  PROVE  Workbench!Max(S) \in S /\ \A y \in S : Workbench!Max(S) >= y
<1> DEFINE X == {N - u : u \in S}
<1>1. X \subseteq Nat /\ X # {}
  <2>1. PICK u : u \in S  OBVIOUS
  <2>2. N - u \in X  BY <2>1
  <2>3. \A w \in S : N - w \in Nat  OBVIOUS
  <2> QED BY <2>2, <2>3
<1>2. IsWellFoundedOn(OpToRel(<, Nat), Nat)  BY NatLessThanWellFounded
<1>3. PICK m \in X : \A y \in X : ~(<<y, m>> \in OpToRel(<, Nat))
  <2> HIDE DEF X
  <2> QED BY <1>1, <1>2, WFMin, Zenon
<1>4. \A y \in X : ~(y < m)  BY <1>1, <1>3 DEF OpToRel
<1>5. \E x \in S : \A y \in S : x >= y
  <2>1. PICK x \in S : m = N - x  BY <1>3
  <2>2. \A y \in S : N - y \in X  OBVIOUS
  <2> HIDE DEF X
  <2>3. \A y \in S : ~(N - y < N - x)  BY <1>4, <2>1, <2>2
  <2> QED BY <2>3
<1> QED BY <1>5 DEF Workbench!Max

LEMMA MailsAreFinite ==
  ASSUME Workbench!MailWorkbenchAssumption,
         NEW r, r \subseteq Workbench!Ids  PROVE Cardinality(r) \in 0..MaxMail
<1>1. MaxMail \in Nat /\ 1 \in Nat  BY DEF Workbench!MailWorkbenchAssumption
<1>2. IsFiniteSet(Workbench!Ids) /\ Cardinality(Workbench!Ids) = MaxMail
  <2>1. IsFiniteSet(1..MaxMail)
        /\ Cardinality(1..MaxMail) = IF 1 > MaxMail THEN 0 ELSE MaxMail - 1 + 1
    BY <1>1, FS_Interval
  <2> QED BY <1>1, <2>1 DEF Workbench!Ids, Workbench!MailWorkbenchAssumption
<1>3. IsFiniteSet(r) /\ Cardinality(r) <= Cardinality(Workbench!Ids)  BY <1>2, FS_Subset
<1>4. Cardinality(r) \in Nat  BY <1>3, FS_CardinalityType
<1> QED BY <1>1, <1>2, <1>3, <1>4

-----------------------------------------------------------------------------
(* Records.                                                                *)

LEMMA NoActFits ==
  Workbench!NoAct \in Workbench!Act /\ Workbench!NoAct.pc = "idle" /\ ActFits(Workbench!NoAct)
<1>1. {} \in SUBSET Workbench!Ids  OBVIOUS
<1> QED BY <1>1 DEF Workbench!NoAct, Workbench!Act, ActFits

LEMMA FirstPage ==
  ASSUME Workbench!MailWorkbenchAssumption
  PROVE 1 \in Workbench!PageNumbers /\ "all" \in Workbench!AddressFilters
BY DEF Workbench!PageNumbers, Workbench!Ids, Workbench!AddressFilters,
       Workbench!MailWorkbenchAssumption

LEMMA NoLoadTyped ==
  ASSUME Workbench!MailWorkbenchAssumption
  PROVE Workbench!NoLoad \in Workbench!Load /\ Workbench!NoLoad.pc = "idle"
<1>1. {} \in SUBSET Workbench!Row /\ 0 \in 0..MaxMail  BY DEF Workbench!MailWorkbenchAssumption
<1> QED BY <1>1, FirstPage DEF Workbench!NoLoad, Workbench!Load

\* Kinds of operations.
LEMMA KindFlags ==
  /\ Workbench!Marks = {"mark", "marks"}
  /\ Workbench!Deletes = {"deleteRow", "deleteCurrent", "deletes"}
  /\ \A kind \in Workbench!Marks \cup {"download"} : Workbench!FlagsOf(kind) # {}
BY DEF Workbench!Marks, Workbench!Deletes, Workbench!FlagsOf

-----------------------------------------------------------------------------
(* Steps that matter little.                                               *)

LEMMA NeutralFits ==
  ASSUME WorkbenchFits, WorkbenchTyped',
         UNCHANGED <<mails, read, mailPage, mailFilter, mailRows, raised, mailLoad, act,
                     unsettled>>
  PROVE  WorkbenchFits'
<1>1. Workbench!Loading' = Workbench!Loading /\ Workbench!Acting' = Workbench!Acting
      /\ Erasing' = Erasing /\ Want' = Want
  BY DEF Workbench!Loading, Workbench!Acting, Erasing, Want
<1>2. RowsFit => RowsFit'  BY <1>1 DEF RowsFit
<1>3. \A l \in Slots : LoadAlone(l) => LoadAlone(l)'  BY <1>1 DEF LoadAlone
<1> QED BY <1>1, <1>2, <1>3 DEF WorkbenchFits

LEMMA ShakenFits ==
  ASSUME WorkbenchTyped', \A a \in Acts : ActFits(act'[a]), unsettled'  PROVE WorkbenchFits'
BY DEF WorkbenchFits

-----------------------------------------------------------------------------
(* Loads are asked for.                                                    *)

\* The operations that go on while a load is asked for: only the one that
\* waits for it.
WaitsFor(by) ==
  \/ by = "none" /\ act' = act
  \/ by \in Acts /\ act[by].pc = "load" /\ act' = [act EXCEPT ![by].pc = "loading"]

LEMMA WaitsActs ==
  ASSUME Workbench!MailWorkbenchAssumption, WorkbenchFits, NEW by, WaitsFor(by)
  PROVE  /\ act' \in [Acts -> Workbench!Act] /\ \A a \in Acts : ActFits(act'[a])
         /\ by \in Acts \cup {"none"}
         /\ Workbench!Acting \ {by} = {} =>
              \A a \in Workbench!Acting' : a = by /\ act'[a].pc = "loading"
<1>1. act \in [Acts -> Workbench!Act] /\ \A a \in Acts : ActFits(act[a])
  BY DEF WorkbenchFits, WorkbenchTyped
<1>2. CASE by = "none" /\ act' = act
  <2>1. Workbench!Acting' = Workbench!Acting  BY <1>2 DEF Workbench!Acting
  <2>2. \A a \in Workbench!Acting : a \in Acts  BY DEF Workbench!Acting
  <2>3. by \notin Acts  BY <1>2 DEF Workbench!MailWorkbenchAssumption
  <2> QED BY <1>1, <1>2, <2>1, <2>2, <2>3
<1>3. CASE by \in Acts /\ act[by].pc = "load" /\ act' = [act EXCEPT ![by].pc = "loading"]
  <2>1. PICK x \in Workbench!Act : x = act[by] /\ ActFits(x)  BY <1>1, <1>3
  <2>2. PICK y : y = [x EXCEPT !.pc = "loading"]  OBVIOUS
  <2>3. y \in Workbench!Act /\ y.pc = "loading" /\ y.kind = x.kind  BY <2>2 DEF Workbench!Act
  <2>4. ActFits(y)  BY <1>3, <2>1, <2>3 DEF ActFits
  <2>5. act' = [act EXCEPT ![by] = y]  BY <1>1, <1>3, <2>1, <2>2
  <2>6. act'[by] = y /\ \A a \in Acts \ {by} : act'[a] = act[a]  BY <1>1, <1>3, <2>5
  <2>7. act' \in [Acts -> Workbench!Act]  BY <1>1, <2>3, <2>5
  <2>8. \A a \in Acts \ {by} : a \in Workbench!Acting' <=> a \in Workbench!Acting  BY <2>6
       DEF Workbench!Acting
  <2>9. Workbench!Acting' \subseteq Acts  BY DEF Workbench!Acting
  <2> QED BY <1>1, <1>3, <2>3, <2>4, <2>6, <2>7, <2>8, <2>9
<1> QED BY <1>2, <1>3 DEF WaitsFor

LEMMA AskFits ==
  ASSUME Workbench!MailWorkbenchAssumption, WorkbenchFits, NEW ls \in SUBSET Slots, ls # {},
         NEW p \in Workbench!PageNumbers, NEW f \in Workbench!AddressFilters,
         NEW by, Workbench!Ask(ls, p, f, by),
         WaitsFor(by), mailPage' = p, mailFilter' = f,
         UNCHANGED <<mails, received, mailRows, current, checked>>
  PROVE  WorkbenchFits'
<1>1. /\ act' \in [Acts -> Workbench!Act] /\ \A a \in Acts : ActFits(act'[a])
      /\ by \in Acts \cup {"none"}
      /\ Workbench!Acting \ {by} = {} =>
           \A a \in Workbench!Acting' : a = by /\ act'[a].pc = "loading"
  BY WaitsActs
<1>2. PICK x \in Workbench!Load : /\ x = [Workbench!NoLoad EXCEPT !.pc = "asked", !.page = p,
                                                        !.filter = f, !.act = by]
                                  /\ x.pc = "asked" /\ x.page = p /\ x.filter = f /\ x.act = by
  <2>1. PICK z \in Workbench!Load : z = Workbench!NoLoad  BY NoLoadTyped
  <2>2. PICK x : x = [z EXCEPT !.pc = "asked", !.page = p, !.filter = f, !.act = by]
    OBVIOUS
  <2>3. x \in Workbench!Load /\ x.pc = "asked" /\ x.page = p /\ x.filter = f /\ x.act = by
    BY <1>1, <2>2 DEF Workbench!Load
  <2> QED BY <2>1, <2>2, <2>3
<1>3. mailLoad \in [Slots -> Workbench!Load]  BY DEF WorkbenchFits, WorkbenchTyped
<1>4. mailLoad' = [l \in Slots |-> IF l \in ls THEN x ELSE mailLoad[l]]
  BY <1>2 DEF Workbench!Ask
<1>5. mailLoad' \in [Slots -> Workbench!Load] /\ (\A l \in ls : mailLoad'[l] = x)
      /\ \A l \in Slots \ ls : mailLoad'[l] = mailLoad[l]
  BY <1>3, <1>4
<1>6. unsettled' = (Workbench!Loading # {} \/ Cardinality(ls) > 1 \/ Workbench!Acting \ {by} # {})
      /\ unsettled' \in BOOLEAN /\ "isRefreshing" \in raised'
  BY OneCardinality DEF Workbench!Ask
<1>7. WorkbenchTyped'
  BY <1>1, <1>5, <1>6 DEF WorkbenchFits, WorkbenchTyped
<1>8. Workbench!Loading' # {}  BY <1>2, <1>5 DEF Workbench!Loading
<1>9. ASSUME ~unsettled'  PROVE \E l \in Slots : LoadAlone(l)'
  <2>1. Workbench!Loading = {} /\ ~(Cardinality(ls) > 1) /\ Workbench!Acting \ {by} = {}
    BY <1>6, <1>9
  <2>2. PICK l \in Slots : ls = {l}
    <3>1. IsFiniteSet(ls)  BY FS_Subset, OneCardinality DEF Workbench!MailWorkbenchAssumption
    <3>2. Cardinality(ls) \in Nat /\ Cardinality(ls) # 0
      BY <3>1, FS_CardinalityType, FS_EmptySet
    <3>3. Cardinality(ls) = 1  BY <2>1, <3>2
    <3>4. PICK l : ls = {l}  BY <3>1, <3>3, FS_Singleton
    <3> QED BY <3>4
  <2>3. Workbench!Loading' = {l}
    <3>1. \A k \in Slots \ {l} : mailLoad'[k].pc = "idle"
      BY <1>5, <2>1, <2>2 DEF Workbench!Loading
    <3>2. mailLoad'[l].pc # "idle"  BY <1>2, <1>5, <2>2
    <3> QED BY <3>1, <3>2 DEF Workbench!Loading
  <2>4. LoadFits(mailLoad'[l], mailPage', mailFilter', Want')
    BY <1>2, <1>5, <2>2 DEF LoadFits
  <2>5. \A a \in Workbench!Acting' : a = mailLoad'[l].act /\ act'[a].pc = "loading"
    BY <1>1, <1>2, <1>5, <2>1, <2>2
  <2> QED BY <2>3, <2>4, <2>5 DEF LoadAlone
<1> QED BY <1>1, <1>6, <1>7, <1>8, <1>9 DEF WorkbenchFits

LEMMA AskFirstFits ==
  ASSUME Workbench!MailWorkbenchAssumption, WorkbenchFits, NEW f \in Workbench!AddressFilters,
         Workbench!AskFirst(f),
         act' = act, mailFilter' = f, UNCHANGED <<mails, received, mailRows, current, checked>>
  PROVE  WorkbenchFits'
<1>1. PICK n \in {1, 2}, ls \in SUBSET Slots :
        Cardinality(ls) = n /\ mailPage' = 1 /\ Workbench!Ask(ls, 1, f, "none")
  BY OneCardinality DEF Workbench!AskFirst, Workbench!kSubset
<1>2. ls # {}
  <2>1. Cardinality({}) = 0  BY FS_EmptySet
  <2> QED BY <1>1, <2>1
<1>3. WaitsFor("none")  BY DEF WaitsFor
<1>4. PICK p \in Workbench!PageNumbers : p = 1  BY FirstPage
<1> QED BY <1>1, <1>2, <1>3, <1>4, AskFits

LEMMA MountFits ==
  ASSUME Workbench!MailWorkbenchAssumption, WorkbenchFits, Workbench!Mount  PROVE WorkbenchFits'
<1>1. PICK l \in Slots : Workbench!Ask({l}, mailPage, mailFilter, "none")  BY DEF Workbench!Mount
<1>2. WaitsFor("none")
      /\ UNCHANGED <<mails, received, mailRows, current, checked, mailPage, mailFilter>>
  BY DEF WaitsFor, Workbench!Mount, Workbench!backend
<1>3. mailPage \in Workbench!PageNumbers /\ mailFilter \in Workbench!AddressFilters
  BY DEF WorkbenchFits, WorkbenchTyped
<1>4. {l} \in SUBSET Slots /\ {l} # {}  OBVIOUS
<1> QED BY <1>1, <1>2, <1>3, <1>4, AskFits

LEMMA SetPageFits ==
  ASSUME Workbench!MailWorkbenchAssumption, WorkbenchFits, NEW p \in Workbench!PageNumbers,
         Workbench!SetPage(p)
  PROVE  WorkbenchFits'
<1>1. PICK l \in Slots : Workbench!Ask({l}, p, mailFilter, "none")  BY DEF Workbench!SetPage
<1>2. /\ WaitsFor("none")
      /\ UNCHANGED <<mails, received, mailRows, current, checked, mailFilter>>
      /\ mailPage' = p
  BY DEF WaitsFor, Workbench!SetPage, Workbench!backend
<1>3. mailFilter \in Workbench!AddressFilters  BY DEF WorkbenchFits, WorkbenchTyped
<1>4. {l} \in SUBSET Slots /\ {l} # {}  OBVIOUS
<1> QED BY <1>1, <1>2, <1>3, <1>4, AskFits

LEMMA SetFilterFits ==
  ASSUME Workbench!MailWorkbenchAssumption, WorkbenchFits, NEW f \in Workbench!AddressFilters,
         Workbench!SetFilter(f)
  PROVE  WorkbenchFits'
BY AskFirstFits DEF Workbench!SetFilter, Workbench!backend

LEMMA SynchronizeFits ==
  ASSUME Workbench!MailWorkbenchAssumption, WorkbenchFits,
         Workbench!Synchronize  PROVE WorkbenchFits'
<1>1. mailFilter \in Workbench!AddressFilters  BY DEF WorkbenchFits, WorkbenchTyped
<1> QED BY <1>1, AskFirstFits DEF Workbench!Synchronize, Workbench!backend

LEMMA ReloadFits ==
  ASSUME Workbench!MailWorkbenchAssumption, WorkbenchFits, NEW a \in Acts, Workbench!Reload(a)
  PROVE  WorkbenchFits'
<1>1. PICK l \in Slots : Workbench!Ask({l}, mailPage, mailFilter, a)  BY DEF Workbench!Reload
<1>2. WaitsFor(a)
      /\ UNCHANGED <<mails, received, mailRows, current, checked, mailPage, mailFilter>>
  BY DEF WaitsFor, Workbench!Reload, Workbench!backend
<1>3. mailPage \in Workbench!PageNumbers /\ mailFilter \in Workbench!AddressFilters
  BY DEF WorkbenchFits, WorkbenchTyped
<1>4. {l} \in SUBSET Slots /\ {l} # {}  OBVIOUS
<1> QED BY <1>1, <1>2, <1>3, <1>4, AskFits

-----------------------------------------------------------------------------
(* They are answered.                                                      *)

LEMMA ServeFits ==
  ASSUME Workbench!MailWorkbenchAssumption, WorkbenchFits, NEW l \in Slots, Workbench!Serve(l)
  PROVE  WorkbenchFits'
<1>1. /\ UNCHANGED <<mails, read, received, mailPage, mailFilter, mailRows, current, checked,
                     raised, act,
                     unsettled>>
      /\ mailLoad \in [Slots -> Workbench!Load] /\ mails \subseteq Workbench!Ids
  BY DEF Workbench!Serve, Workbench!backend, WorkbenchFits, WorkbenchTyped
<1>2. PICK x \in Workbench!Load : x = mailLoad[l] /\ x.pc = "asked"  BY <1>1 DEF Workbench!Serve
<1>3. PICK answer \in SUBSET Workbench!Row : answer = RowsOf(mails, read, x.page, x.filter)
  BY <1>1, PageTyped
<1>4. PICK total \in 0..MaxMail :
        total = IF x.page = 1 THEN Cardinality(Workbench!Matching(x.filter)) ELSE 0
  <2>1. Workbench!Matching(x.filter) \subseteq Workbench!Ids  BY <1>1 DEF Workbench!Matching
  <2>2. PICK r : r = Workbench!Matching(x.filter)  OBVIOUS
  <2>3. Cardinality(r) \in 0..MaxMail  BY <2>1, <2>2, MailsAreFinite
  <2>4. 0 \in 0..MaxMail  BY DEF Workbench!MailWorkbenchAssumption
  <2> QED BY <2>2, <2>3, <2>4
<1>5. PICK y : y = [x EXCEPT !.pc = "served", !.answer = answer, !.total = total]  OBVIOUS
<1>6. /\ y \in Workbench!Load /\ y.pc = "served" /\ y.page = x.page /\ y.filter = x.filter
      /\ y.answer = answer /\ y.act = x.act
  BY <1>5 DEF Workbench!Load
<1>7. mailLoad' = [mailLoad EXCEPT ![l] = y]
  <2>1. Workbench!Page(x.page, x.filter) = answer
    <3>1. PICK p, f : p = x.page /\ f = x.filter  OBVIOUS
    <3> QED BY <1>3, <3>1, PageIsRowsOf
  <2> QED BY <1>1, <1>2, <1>4, <1>5, <2>1, OneCardinality DEF Workbench!Serve
<1>8. mailLoad' \in [Slots -> Workbench!Load] /\ mailLoad'[l] = y
      /\ \A k \in Slots \ {l} : mailLoad'[k] = mailLoad[k]
  BY <1>1, <1>6, <1>7
<1>9. WorkbenchTyped'  BY <1>1, <1>8 DEF WorkbenchFits, WorkbenchTyped
<1>10. Workbench!Loading' = Workbench!Loading /\ l \in Workbench!Loading  BY <1>2, <1>6, <1>8
     DEF Workbench!Loading
<1>11. Want' = Want /\ Workbench!Acting' = Workbench!Acting  BY <1>1 DEF Want, Workbench!Acting
<1>12. ASSUME NEW k \in Slots, LoadAlone(k)  PROVE LoadAlone(k)'
  <2>1. k = l  BY <1>10, <1>12 DEF LoadAlone
  <2>2. LoadFits(x, mailPage, mailFilter, Want)  BY <1>2, <1>12, <2>1 DEF LoadAlone
  <2>3. answer = Want  BY <1>3, <2>2 DEF LoadFits, Want
  <2>4. LoadFits(y, mailPage, mailFilter, Want)  BY <1>6, <2>2, <2>3 DEF LoadFits
  <2>5. \A a \in Workbench!Acting : a = y.act /\ act[a].pc = "loading"
    BY <1>2, <1>6, <1>12, <2>1 DEF LoadAlone
  <2>6. Workbench!Loading' = {l}  BY <1>10, <1>12, <2>1 DEF LoadAlone
  <2> QED BY <1>1, <1>8, <1>11, <2>1, <2>4, <2>5, <2>6 DEF LoadAlone
<1>13. \A a \in Acts : ActFits(act'[a])  BY <1>1 DEF WorkbenchFits
<1> QED BY <1>1, <1>9, <1>10, <1>12, <1>13 DEF WorkbenchFits

\* The rows are those of the answer.
LEMMA SettleFits ==
  ASSUME Workbench!MailWorkbenchAssumption, WorkbenchFits, NEW l \in Slots, Workbench!Settle(l)
  PROVE  WorkbenchFits'
<1>1. PICK x \in Workbench!Load : x = mailLoad[l] /\ x.pc = "served"
  BY DEF Workbench!Settle, WorkbenchFits, WorkbenchTyped
<1>2. /\ mailRows' = x.answer /\ checked' = {}
      /\ mailLoad' = [mailLoad EXCEPT ![l] = Workbench!NoLoad]
      /\ act' = [a \in Acts |-> IF a = x.act \/ act[a].pc = "idle" THEN Workbench!NoAct
                                ELSE [act[a] EXCEPT !.lost = TRUE]]
      /\ UNCHANGED <<mails, read, received, mailPage, mailFilter, unsettled>>
  BY <1>1 DEF Workbench!Settle, Workbench!backend
<1>3. mailLoad \in [Slots -> Workbench!Load] /\ act \in [Acts -> Workbench!Act]
      /\ \A a \in Acts : ActFits(act[a])
  BY DEF WorkbenchFits, WorkbenchTyped
<1>4. PICK free \in Workbench!Load : free = Workbench!NoLoad /\ free.pc = "idle"  BY NoLoadTyped
<1>5. mailLoad' \in [Slots -> Workbench!Load] /\ Workbench!Loading' = Workbench!Loading \ {l}
  BY <1>2, <1>3, <1>4 DEF Workbench!Loading
<1>6. \A a \in Acts : /\ [act[a] EXCEPT !.lost = TRUE] \in Workbench!Act
                      /\ ActFits(act[a]) /\ act[a].pc # "idle" =>
                           ActFits([act[a] EXCEPT !.lost = TRUE])
  <2> SUFFICES ASSUME NEW a \in Acts
               PROVE  /\ [act[a] EXCEPT !.lost = TRUE] \in Workbench!Act
                      /\ ActFits(act[a]) /\ act[a].pc # "idle" =>
                           ActFits([act[a] EXCEPT !.lost = TRUE])
    OBVIOUS
  <2>1. PICK z \in Workbench!Act : z = act[a]  BY <1>3
  <2>2. PICK y : y = [z EXCEPT !.lost = TRUE]  OBVIOUS
  <2>3. y \in Workbench!Act /\ y.pc = z.pc /\ y.kind = z.kind  BY <2>2 DEF Workbench!Act
  <2>4. ActFits(z) /\ z.pc # "idle" => ActFits(y)  BY <2>3 DEF ActFits
  <2> QED BY <2>1, <2>2, <2>3, <2>4
<1>7. act' \in [Acts -> Workbench!Act]  BY <1>2, <1>6, NoActFits
<1>8. \A a \in Acts : ActFits(act'[a])  BY <1>2, <1>3, <1>6, NoActFits
<1>9. current' \in 0..MaxMail
  <2>1. PICK ids : ids = {r[1] : r \in x.answer}  OBVIOUS
  <2>2. ids \subseteq Workbench!Ids  BY <2>1 DEF Workbench!Load, Workbench!Row
  <2>3. ids \cup {0} \subseteq 0..MaxMail /\ ids \cup {0} # {} /\ MaxMail \in Nat
    BY <2>2 DEF Workbench!Ids, Workbench!MailWorkbenchAssumption
  <2>4. Workbench!Max(ids \cup {0}) \in ids \cup {0}  BY <2>3, MaxExists
  <2>5. current' = IF current \in ids THEN current ELSE Workbench!Max(ids \cup {0})
    BY <1>1, <2>1 DEF Workbench!Settle
  <2> QED BY <2>3, <2>4, <2>5
<1>10. WorkbenchTyped'
  <2>1. mailRows' \subseteq Workbench!Row /\ checked' \subseteq Workbench!Ids  BY <1>2
       DEF Workbench!Load
  <2> QED BY <1>2, <1>5, <1>7, <1>9, <2>1 DEF WorkbenchFits, WorkbenchTyped
<1>11. ASSUME ~unsettled'
       PROVE  Workbench!Loading' = {} /\ RowsFit'
  <2>1. l \in Workbench!Loading /\ ~unsettled  BY <1>1, <1>2, <1>11 DEF Workbench!Loading
  <2>2. PICK k \in Slots : LoadAlone(k)  BY <2>1 DEF WorkbenchFits
  <2>3. k = l /\ Workbench!Loading' = {}  BY <1>5, <2>1, <2>2 DEF LoadAlone
  <2>4. x.answer = Want /\ \A a \in Workbench!Acting : a = x.act
    BY <1>1, <2>2, <2>3 DEF LoadAlone, LoadFits
  <2>5. \A a \in Acts : act'[a] = Workbench!NoAct  BY <1>2, <2>4 DEF Workbench!Acting
  <2>6. Workbench!Acting' = {}  BY <2>5, NoActFits DEF Workbench!Acting
  <2>7. mailRows' = Want'  BY <1>2, <2>4 DEF Want
  <2> QED BY <2>3, <2>6, <2>7 DEF RowsFit
<1> QED BY <1>8, <1>10, <1>11 DEF WorkbenchFits

LEMMA LoadFailsFits ==
  ASSUME Workbench!MailWorkbenchAssumption, WorkbenchFits,
         NEW l \in Slots, Workbench!LoadFails(l)
  PROVE  WorkbenchFits'
<1>1. /\ mailLoad' = [mailLoad EXCEPT ![l] = Workbench!NoLoad] /\ unsettled' = TRUE
      /\ act' = [a \in Acts |-> IF a = mailLoad[l].act THEN Workbench!NoAct ELSE act[a]]
      /\ UNCHANGED <<mails, received, mailPage, mailFilter, mailRows, current, checked>>
  BY DEF Workbench!LoadFails, Workbench!backend
<1>2. mailLoad \in [Slots -> Workbench!Load] /\ act \in [Acts -> Workbench!Act]
      /\ \A a \in Acts : ActFits(act[a])
  BY DEF WorkbenchFits, WorkbenchTyped
<1>3. PICK free \in Workbench!Load : free = Workbench!NoLoad  BY NoLoadTyped
<1>4. mailLoad' \in [Slots -> Workbench!Load]  BY <1>1, <1>2, <1>3
<1>5. act' \in [Acts -> Workbench!Act] /\ \A a \in Acts : ActFits(act'[a])
  BY <1>1, <1>2, NoActFits
<1>6. WorkbenchTyped'  BY <1>1, <1>4, <1>5 DEF WorkbenchFits, WorkbenchTyped
<1> QED BY <1>1, <1>5, <1>6, ShakenFits

-----------------------------------------------------------------------------
(* Operations.                                                             *)

\* While a load runs alone only the operation that waits for it is under way.
LEMMA LoadMeansWaiting ==
  ASSUME WorkbenchFits, ~unsettled, Workbench!Loading # {}
  PROVE  /\ raised # {} /\ \A a \in Acts : act[a].pc \in {"idle", "loading"}
<1>1. PICK l \in Slots : LoadAlone(l) /\ "isRefreshing" \in raised  BY DEF WorkbenchFits
<1>2. \A a \in Workbench!Acting : act[a].pc = "loading"  BY <1>1 DEF LoadAlone
<1> QED BY <1>1, <1>2 DEF Workbench!Acting

\* Operation a becomes y.
LEMMA ActSet ==
  ASSUME WorkbenchFits, NEW a \in Acts, NEW y \in Workbench!Act, ActFits(y),
         act' = [act EXCEPT ![a] = y]
  PROVE  /\ act' \in [Acts -> Workbench!Act] /\ act'[a] = y
         /\ \A b \in Acts \ {a} : act'[b] = act[b]
         /\ \A b \in Acts : ActFits(act'[b])
         /\ y.pc = "idle" => Workbench!Acting' = Workbench!Acting \ {a}
         /\ y.pc # "idle" => Workbench!Acting' = Workbench!Acting \cup {a}
         /\ act[a].pc # "idle" /\ act[a].kind \notin Workbench!Deletes /\ Erasing' = {}
              => Erasing = {}
         /\ act[a].pc = "idle" /\ Erasing' = {} => Erasing = {}
<1>1. act \in [Acts -> Workbench!Act] /\ \A b \in Acts : ActFits(act[b])
  BY DEF WorkbenchFits, WorkbenchTyped
<1>2. act'[a] = y /\ \A b \in Acts \ {a} : act'[b] = act[b]  BY <1>1
<1>3. act' \in [Acts -> Workbench!Act] /\ \A b \in Acts : ActFits(act'[b])  BY <1>1, <1>2
<1>4. y.pc = "idle" => Workbench!Acting' = Workbench!Acting \ {a}  BY <1>2 DEF Workbench!Acting
<1>5. y.pc # "idle" => Workbench!Acting' = Workbench!Acting \cup {a}
  BY <1>2 DEF Workbench!Acting
<1>6. \A b \in Acts \ {a} : b \in Erasing' <=> b \in Erasing
  BY <1>2 DEF Erasing, Workbench!Acting
<1>7. (act[a].pc = "idle" \/ act[a].kind \notin Workbench!Deletes) => a \notin Erasing
  BY DEF Erasing, Workbench!Acting
<1>8. Erasing \subseteq Acts  BY DEF Erasing, Workbench!Acting
<1> QED BY <1>2, <1>3, <1>4, <1>5, <1>6, <1>7, <1>8

LEMMA BeginFits ==
  ASSUME Workbench!MailWorkbenchAssumption, WorkbenchFits, NEW a \in Acts,
         NEW kind \in Workbench!Marks \cup Workbench!Deletes \cup {"download"},
         NEW todo \in SUBSET Workbench!Ids,
         NEW r \in BOOLEAN, Workbench!Begin(a, kind, todo, r), current' \in 0..MaxMail,
         UNCHANGED <<mails, read, received, mailPage, mailFilter, mailRows, checked, mailLoad>>,
         unsettled' \in BOOLEAN,
         ~unsettled' =>
           ~unsettled /\ (raised = {} \/ (kind \in Workbench!Deletes /\ Workbench!Loading = {}))
  PROVE  WorkbenchFits'
<1>1. PICK y : y = [Workbench!NoAct EXCEPT !.pc = "asked", !.kind = kind, !.todo = todo,
                    !.read = r]
  OBVIOUS
<1>2. /\ y \in Workbench!Act /\ y.pc = "asked" /\ y.kind = kind /\ ~y.lost
  <2>1. PICK z \in Workbench!Act : z = Workbench!NoAct  BY NoActFits
  <2>2. ~z.lost  BY <2>1 DEF Workbench!NoAct
  <2> QED BY <1>1, <2>1, <2>2 DEF Workbench!Act
<1>3. ActFits(y)  BY <1>2 DEF ActFits
<1>4. act' = [act EXCEPT ![a] = y] /\ act[a].pc = "idle"
      /\ raised' = raised \cup Workbench!FlagsOf(kind)
  BY <1>1 DEF Workbench!Begin
<1>5. /\ act' \in [Acts -> Workbench!Act] /\ act'[a] = y
      /\ \A b \in Acts \ {a} : act'[b] = act[b]
      /\ \A b \in Acts : ActFits(act'[b])
      /\ Workbench!Acting' = Workbench!Acting \cup {a}
      /\ Erasing' = {} => Erasing = {}
  BY <1>2, <1>3, <1>4, ActSet
<1>6. WorkbenchTyped'  BY <1>5 DEF WorkbenchFits, WorkbenchTyped
<1>7. Workbench!Loading' = Workbench!Loading  BY DEF Workbench!Loading
<1>8. ~unsettled' => Workbench!Loading = {}  BY LoadMeansWaiting
<1>9. ASSUME ~unsettled', Erasing' = {}  PROVE RowsFit'
  <2>1. kind \notin Workbench!Deletes /\ raised = {} /\ ~unsettled /\ Workbench!Loading = {}
    <3>1. a \in Workbench!Acting' /\ act'[a].kind = kind  BY <1>2, <1>5
    <3>2. kind \notin Workbench!Deletes  BY <1>9, <3>1 DEF Erasing
    <3> QED BY <1>8, <1>9, <3>2
  <2>2. RowsFit  BY <1>5, <1>9, <2>1 DEF WorkbenchFits
  <2>3. Workbench!Acting = {}
    <3>1. \A b \in Workbench!Acting : Workbench!FlagsOf(act[b].kind) # {}
          /\ Workbench!FlagsOf(act[b].kind) \subseteq raised
      BY <2>2 DEF RowsFit, MarkFits
    <3> QED BY <2>1, <3>1
  <2>4. mailRows = Want /\ Want' = Want  BY <2>2, <2>3 DEF RowsFit, Want
  <2>5. Workbench!FlagsOf(kind) # {}  BY <2>1, KindFlags
  <2>6. MarkFits(y, raised', mailRows', Want')  BY <1>2, <1>4, <2>4, <2>5 DEF MarkFits
  <2>7. Workbench!Acting' = {a}  BY <1>5, <2>3
  <2> QED BY <1>5, <2>6, <2>7 DEF RowsFit
<1> QED BY <1>5, <1>6, <1>7, <1>8, <1>9 DEF WorkbenchFits

LEMMA MarkRowFits ==
  ASSUME Workbench!MailWorkbenchAssumption, WorkbenchFits, NEW a \in Acts,
         NEW i \in Workbench!Ids,
         NEW r \in BOOLEAN, Workbench!MarkRow(a, i, r)
  PROVE  WorkbenchFits'
<1>1. /\ raised = {} /\ Workbench!Begin(a, "mark", {i}, r)
      /\ UNCHANGED <<mails, read, received, mailPage, mailFilter, mailRows, checked, mailLoad,
                     unsettled>>
  BY DEF Workbench!MarkRow, Workbench!Mark, Workbench!IsBusy, Workbench!backend
<1>2. current' \in 0..MaxMail
  BY DEF Workbench!MarkRow, WorkbenchFits, WorkbenchTyped, Workbench!Ids,
         Workbench!MailWorkbenchAssumption
<1>3. "mark" \in Workbench!Marks \cup Workbench!Deletes \cup {"download"}
     /\ {i} \in SUBSET Workbench!Ids  BY KindFlags
<1>4. unsettled' \in BOOLEAN  BY <1>1 DEF WorkbenchFits, WorkbenchTyped
<1> QED BY <1>1, <1>2, <1>3, <1>4, BeginFits

LEMMA MarkCheckedFits ==
  ASSUME Workbench!MailWorkbenchAssumption, WorkbenchFits, NEW a \in Acts, NEW r \in BOOLEAN,
         Workbench!MarkChecked(a, r)
  PROVE  WorkbenchFits'
<1>1. /\ raised = {} /\ Workbench!Begin(a, "marks", checked, r)
      /\ UNCHANGED <<mails, read, received, mailPage, mailFilter, mailRows, current, checked,
                     mailLoad, unsettled>>
  BY DEF Workbench!MarkChecked, Workbench!IsBusy, Workbench!backend
<1>2. /\ current' \in 0..MaxMail /\ unsettled' \in BOOLEAN /\ checked \in SUBSET Workbench!Ids
  BY <1>1 DEF WorkbenchFits, WorkbenchTyped
<1>3. "marks" \in Workbench!Marks \cup Workbench!Deletes \cup {"download"}  BY KindFlags
<1> QED BY <1>1, <1>2, <1>3, BeginFits

LEMMA DownloadFits ==
  ASSUME Workbench!MailWorkbenchAssumption, WorkbenchFits, NEW a \in Acts, Workbench!Download(a)
  PROVE  WorkbenchFits'
<1>1. /\ raised = {} /\ Workbench!Begin(a, "download", {}, TRUE)
      /\ UNCHANGED <<mails, read, received, mailPage, mailFilter, mailRows, current, checked,
                     mailLoad, unsettled>>
  BY DEF Workbench!Download, Workbench!IsBusy, Workbench!backend
<1>2. current' \in 0..MaxMail /\ unsettled' \in BOOLEAN
  BY <1>1 DEF WorkbenchFits, WorkbenchTyped
<1>3. {} \in SUBSET Workbench!Ids /\ TRUE \in BOOLEAN
      /\ "download" \in Workbench!Marks \cup Workbench!Deletes \cup {"download"}
  OBVIOUS
<1> QED BY <1>1, <1>2, <1>3, BeginFits

LEMMA DeleteFits ==
  ASSUME Workbench!MailWorkbenchAssumption, WorkbenchFits, NEW a \in Acts,
         NEW kind \in Workbench!Deletes,
         NEW todo \in SUBSET Workbench!Ids, Workbench!Delete(a, kind, todo)
  PROVE  WorkbenchFits'
<1>1. /\ Workbench!Begin(a, kind, todo, TRUE)
      /\ UNCHANGED <<mails, read, received, mailPage, mailFilter, mailRows, current, checked,
                     mailLoad>>
      /\ unsettled' = (unsettled \/ (kind # "deleteRow" /\ Workbench!Loading # {}))
      /\ kind = "deleteRow" => raised = {}
  BY DEF Workbench!Delete, Workbench!IsBusy, Workbench!backend
<1>2. /\ current' \in 0..MaxMail /\ unsettled' \in BOOLEAN
      /\ ~unsettled' => ~unsettled
           /\ (raised = {} \/ (kind \in Workbench!Deletes /\ Workbench!Loading = {}))
  BY <1>1 DEF WorkbenchFits, WorkbenchTyped
<1>3. TRUE \in BOOLEAN
      /\ kind \in Workbench!Marks \cup Workbench!Deletes \cup {"download"}  OBVIOUS
<1> QED BY <1>1, <1>2, <1>3, BeginFits

LEMMA DeleteMailFits ==
  ASSUME Workbench!MailWorkbenchAssumption, WorkbenchFits,
         NEW a \in Acts, Workbench!DeleteMail(a)
  PROVE  WorkbenchFits'
<1>1. mailRows \subseteq Workbench!Row /\ current \in 0..MaxMail
      /\ checked \in SUBSET Workbench!Ids
  BY DEF WorkbenchFits, WorkbenchTyped
<1>2. {"deleteRow", "deleteCurrent", "deletes"} \subseteq Workbench!Deletes  BY KindFlags
<1>3. CASE \E t \in mailRows : Workbench!Delete(a, "deleteRow", {t[1]})
  <2>1. PICK t \in mailRows : Workbench!Delete(a, "deleteRow", {t[1]})  BY <1>3
  <2>2. {t[1]} \in SUBSET Workbench!Ids  BY <1>1 DEF Workbench!Row
  <2> QED BY <1>2, <2>1, <2>2, DeleteFits
<1>4. CASE Workbench!Delete(a, "deleteCurrent", {current} \ {0})
  <2>1. {current} \ {0} \in SUBSET Workbench!Ids  BY <1>1
       DEF Workbench!Ids, Workbench!MailWorkbenchAssumption
  <2> QED BY <1>2, <1>4, <2>1, DeleteFits
<1>5. CASE Workbench!Delete(a, "deletes", checked)  BY <1>1, <1>2, <1>5, DeleteFits
<1> QED BY <1>3, <1>4, <1>5 DEF Workbench!DeleteMail

InSet(i, s) == i \in s

\* A call that is executed changes what the rows should be, by one mark.
LEMMA ExecuteFits ==
  ASSUME Workbench!MailWorkbenchAssumption, WorkbenchFits, NEW a \in Acts, Workbench!Execute(a)
  PROVE  WorkbenchFits'
<1>1. /\ UNCHANGED <<received, mailPage, mailFilter, mailRows, current, checked, raised,
                     mailLoad, unsettled>>
      /\ act \in [Acts -> Workbench!Act]
  BY DEF Workbench!Execute, WorkbenchFits, WorkbenchTyped
<1>2. PICK x \in Workbench!Act : x = act[a] /\ x.pc = "asked" /\ ActFits(x)
  BY <1>1 DEF Workbench!Execute, WorkbenchFits
<1>3. PICK i : i = Workbench!Max(x.todo)  OBVIOUS
<1>4. x.kind \in Workbench!Marks \cup Workbench!Deletes  BY <1>2 DEF Workbench!Execute
<1>5. PICK ok \in BOOLEAN : ok <=> (x.kind \in Workbench!Marks => InSet(i, mails))
  <2>1. CASE x.kind \in Workbench!Marks => InSet(i, mails)
    <3>1. TRUE \in BOOLEAN /\ (TRUE <=> (x.kind \in Workbench!Marks => InSet(i, mails)))  BY <2>1
    <3> QED BY <3>1
  <2>2. CASE ~(x.kind \in Workbench!Marks => InSet(i, mails))
    <3>1. FALSE \in BOOLEAN /\ (FALSE <=> (x.kind \in Workbench!Marks => InSet(i, mails)))
      BY <2>2
    <3> QED BY <3>1
  <2> QED BY <2>1, <2>2
<1>6. PICK y : y = [x EXCEPT !.pc = "served", !.ok = ok]  OBVIOUS
<1>7. /\ y \in Workbench!Act /\ y.pc = "served" /\ y.kind = x.kind /\ y.todo = x.todo
      /\ y.read = x.read /\ y.lost = x.lost /\ y.ok = ok
  BY <1>6 DEF Workbench!Act
<1>8. act' = [act EXCEPT ![a] = y]
  <2>1. CASE x.kind \in Workbench!Marks
    <3>1. x.kind \notin Workbench!Deletes  BY <2>1, KindFlags
    <3>2. act' = [act EXCEPT ![a].pc = "served", ![a].ok = i \in mails]
      BY <1>2, <1>3, <3>1 DEF Workbench!Execute, Workbench!NextMail
    <3>3. CASE ok
      <4>1. (i \in mails) = TRUE /\ ok = TRUE  BY <1>5, <2>1, <3>3 DEF InSet
      <4>2. act' = [act EXCEPT ![a].pc = "served", ![a].ok = TRUE]  BY <3>2, <4>1, Zenon
      <4> QED BY <1>1, <1>2, <1>6, <4>1, <4>2
    <3>4. CASE ~ok
      <4>1. (i \in mails) = FALSE /\ ok = FALSE  BY <1>5, <2>1, <3>4 DEF InSet
      <4>2. act' = [act EXCEPT ![a].pc = "served", ![a].ok = FALSE]  BY <3>2, <4>1, Zenon
      <4> QED BY <1>1, <1>2, <1>6, <4>1, <4>2
    <3> QED BY <3>3, <3>4
  <2>2. CASE x.kind \notin Workbench!Marks
    <3>1. act' = [act EXCEPT ![a].pc = "served", ![a].ok = TRUE]
      BY <1>2, <2>2 DEF Workbench!Execute
    <3>2. ok = TRUE  BY <1>5, <2>2
    <3> QED BY <1>1, <1>2, <1>6, <3>1, <3>2
  <2> QED BY <2>1, <2>2
<1>9. ActFits(y)
  <2>1. x.kind # "download"  BY <1>4, KindFlags
  <2> QED BY <1>7, <2>1 DEF ActFits
<1>10. /\ act' \in [Acts -> Workbench!Act] /\ act'[a] = y
       /\ \A b \in Acts \ {a} : act'[b] = act[b]
       /\ \A b \in Acts : ActFits(act'[b])
       /\ Workbench!Acting' = Workbench!Acting \cup {a} /\ a \in Workbench!Acting
       /\ x.kind \notin Workbench!Deletes /\ Erasing' = {} => Erasing = {}
  <2>1. a \in Workbench!Acting  BY <1>2 DEF Workbench!Acting
  <2> QED BY <1>2, <1>7, <1>8, <1>9, <2>1, ActSet
<1>11. mails' \subseteq Workbench!Ids  BY DEF Workbench!Execute, WorkbenchFits, WorkbenchTyped
<1>12. WorkbenchTyped'  BY <1>1, <1>10, <1>11 DEF WorkbenchFits, WorkbenchTyped
<1>13. Workbench!Loading' = Workbench!Loading  BY <1>1 DEF Workbench!Loading
<1>14. ~unsettled' => Workbench!Loading = {}  BY <1>1, <1>2, LoadMeansWaiting
<1>15. ASSUME ~unsettled', Erasing' = {}  PROVE RowsFit'
  <2>1. x.kind \notin Workbench!Deletes  BY <1>7, <1>10, <1>15 DEF Erasing
  <2>2. RowsFit  BY <1>1, <1>10, <1>14, <1>15, <2>1 DEF WorkbenchFits
  <2>3. Workbench!Acting = {a} /\ MarkFits(x, raised, mailRows, Want)  BY <1>2, <1>10, <2>2
       DEF RowsFit
  <2>4. mailRows = Want  BY <1>2, <2>3 DEF MarkFits
  <2>5. x.kind \in Workbench!Marks  BY <1>4, <2>1
  <2>6. /\ mails' = mails
        /\ ok => read' = IF x.read THEN read \cup {i} ELSE read \ {i}
    <3>1. x.kind \in Workbench!Marks /\ x.kind \notin Workbench!Deletes  BY <2>1, <2>5
    <3>2. /\ read' = IF i \notin mails THEN read
                     ELSE IF x.read THEN read \cup {i} ELSE read \ {i}
          /\ mails' = mails
      BY <1>2, <1>3, <3>1 DEF Workbench!Execute, Workbench!NextMail
    <3>3. ok <=> InSet(i, mails)  BY <1>5, <3>1
    <3> QED BY <3>2, <3>3 DEF InSet
  <2>7. ASSUME ok  PROVE MarkedOf(mailRows, i, x.read) = Want'
    <3>1. PICK new : new = IF x.read THEN read \cup {i} ELSE read \ {i}  OBVIOUS
    <3>2. x.read \in BOOLEAN  BY DEF Workbench!Act
    <3>3. MarkedOf(RowsOf(mails, read, mailPage, mailFilter), i, x.read) = RowsOf(mails, new,
                                                                                  mailPage,
                                                                                  mailFilter)
      BY <3>1, <3>2, MarkChanges
    <3> QED BY <1>1, <2>4, <2>6, <2>7, <3>1, <3>3 DEF Want
  <2>8. MarkFits(y, raised', mailRows', Want')
    BY <1>1, <1>3, <1>7, <2>3, <2>7 DEF MarkFits
  <2>9. Workbench!Acting' = {a}  BY <1>10, <2>3
  <2> QED BY <1>10, <2>8, <2>9 DEF RowsFit
<1> QED BY <1>10, <1>12, <1>13, <1>14, <1>15 DEF WorkbenchFits

\* Operation a has ended.
LEMMA FinishSets ==
  ASSUME WorkbenchFits, NEW a \in Acts, Workbench!Finish(a)
  PROVE  /\ act' \in [Acts -> Workbench!Act] /\ \A b \in Acts : ActFits(act'[b])
         /\ Workbench!Acting' = Workbench!Acting \ {a}
         /\ act[a].pc # "idle" /\ act[a].kind \notin Workbench!Deletes /\ Erasing' = {}
              => Erasing = {}
<1>1. PICK y \in Workbench!Act : y = Workbench!NoAct /\ y.pc = "idle" /\ ActFits(y)  BY NoActFits
<1>2. act' = [act EXCEPT ![a] = y]  BY <1>1 DEF Workbench!Finish
<1> QED BY <1>1, <1>2, ActSet

LEMMA DownloadedFits ==
  ASSUME Workbench!MailWorkbenchAssumption, WorkbenchFits,
         NEW a \in Acts, Workbench!Downloaded(a)
  PROVE  WorkbenchFits'
<1>1. /\ UNCHANGED <<mails, read, received, mailPage, mailFilter, mailRows, current, checked,
                     mailLoad, unsettled>>
      /\ act[a].kind = "download" /\ Workbench!Finish(a)
  BY DEF Workbench!Downloaded, Workbench!backend
<1>2. act[a].pc = "asked" /\ "download" \notin Workbench!Deletes
  BY <1>1, KindFlags DEF WorkbenchFits, ActFits
<1>3. /\ act' \in [Acts -> Workbench!Act] /\ \A b \in Acts : ActFits(act'[b])
      /\ Workbench!Acting' = Workbench!Acting \ {a} /\ a \in Workbench!Acting
      /\ Erasing' = {} => Erasing = {}
  BY <1>1, <1>2, FinishSets DEF Workbench!Acting
<1>4. WorkbenchTyped'  BY <1>1, <1>3 DEF WorkbenchFits, WorkbenchTyped
<1>5. Workbench!Loading' = Workbench!Loading  BY <1>1 DEF Workbench!Loading
<1>6. ~unsettled' => Workbench!Loading = {}  BY <1>1, <1>2, LoadMeansWaiting
<1>7. ASSUME ~unsettled', Erasing' = {}  PROVE RowsFit'
  <2>1. RowsFit  BY <1>1, <1>3, <1>6, <1>7 DEF WorkbenchFits
  <2>2. Workbench!Acting' = {} /\ mailRows = Want
    BY <1>2, <1>3, <2>1 DEF RowsFit, MarkFits
  <2>3. mailRows' = Want'  BY <1>1, <2>2 DEF Want
  <2> QED BY <2>2, <2>3 DEF RowsFit
<1> QED BY <1>3, <1>4, <1>5, <1>6, <1>7 DEF WorkbenchFits

LEMMA MarkedFits ==
  ASSUME Workbench!MailWorkbenchAssumption, WorkbenchFits, NEW a \in Acts, Workbench!Marked(a)
  PROVE  WorkbenchFits'
<1>1. /\ UNCHANGED <<mails, read, received, mailPage, mailFilter, current, checked, mailLoad>>
      /\ act \in [Acts -> Workbench!Act] /\ mailRows \subseteq Workbench!Row
  BY DEF Workbench!Marked, Workbench!backend, WorkbenchFits, WorkbenchTyped
<1>2. PICK x \in Workbench!Act : x = act[a] /\ x.pc = "served" /\ ActFits(x)
      /\ x.kind \in Workbench!Marks
  BY <1>1 DEF Workbench!Marked, WorkbenchFits
<1>3. PICK i : i = Workbench!Max(x.todo)  OBVIOUS
<1>4. /\ mailRows' = IF x.lost \/ ~x.ok THEN mailRows ELSE MarkedOf(mailRows, i, x.read)
      /\ unsettled' = (unsettled \/ ~x.ok) /\ unsettled' \in BOOLEAN
  BY <1>2, <1>3 DEF Workbench!Marked, Workbench!MarkedRows, MarkedOf, Workbench!NextMail
<1>5. mailRows' \subseteq Workbench!Row
  <2>1. x.kind # "none"  BY <1>2, KindFlags
  <2>2. x.read \in BOOLEAN  BY DEF Workbench!Act
  <2>3. CASE x.lost \/ ~x.ok  BY <1>1, <1>4, <2>3
  <2>4. CASE ~(x.lost \/ ~x.ok)
    <3>1. ASSUME NEW t \in mailRows'  PROVE t \in Workbench!Row
      <4>1. PICK s \in mailRows : t = IF s[1] = i THEN <<i, ~x.read>> ELSE s
        BY <1>4, <2>4, <3>1 DEF MarkedOf
      <4>2. s \in Workbench!Row /\ s[1] \in Workbench!Ids  BY <1>1 DEF Workbench!Row
      <4> QED BY <2>2, <4>1, <4>2 DEF Workbench!Row
    <3> QED BY <3>1
  <2> QED BY <2>3, <2>4
<1>6. ASSUME ~unsettled', Erasing = {}
      PROVE  /\ Workbench!Loading = {} /\ Workbench!Acting = {a} /\ mailRows' = Want' /\ ~x.lost
             /\ Workbench!FlagsOf(x.kind) # {} /\ Workbench!FlagsOf(x.kind) \subseteq raised
  <2>1. ~unsettled /\ x.ok  BY <1>4, <1>6
  <2>2. Workbench!Loading = {}  BY <1>2, <2>1, LoadMeansWaiting
  <2>3. RowsFit /\ a \in Workbench!Acting  BY <1>2, <1>6, <2>1, <2>2
       DEF WorkbenchFits, Workbench!Acting
  <2>4. Workbench!Acting = {a} /\ MarkFits(x, raised, mailRows, Want)  BY <1>2, <2>3 DEF RowsFit
  <2>5. Want' = Want  BY <1>1 DEF Want
  <2> QED BY <1>2, <1>3, <1>4, <2>1, <2>2, <2>4, <2>5 DEF MarkFits
<1>7. Workbench!Loading' = Workbench!Loading  BY <1>1 DEF Workbench!Loading
<1>8. act[a].kind \notin Workbench!Deletes /\ act[a].pc # "idle"  BY <1>2, KindFlags
<1>9. ~unsettled' => Workbench!Loading = {}
  <2>1. ~unsettled' => ~unsettled  BY <1>4
  <2> QED BY <1>2, <2>1, LoadMeansWaiting
<1>10. CASE Workbench!Finish(a)
  <2>1. /\ act' \in [Acts -> Workbench!Act] /\ \A b \in Acts : ActFits(act'[b])
        /\ Workbench!Acting' = Workbench!Acting \ {a}
        /\ Erasing' = {} => Erasing = {}
    BY <1>8, <1>10, FinishSets
  <2>2. WorkbenchTyped'  BY <1>1, <1>4, <1>5, <2>1 DEF WorkbenchFits, WorkbenchTyped
  <2>3. ASSUME ~unsettled', Erasing' = {}  PROVE RowsFit'
    BY <1>6, <2>1, <2>3 DEF RowsFit
  <2> QED BY <1>7, <1>9, <2>1, <2>2, <2>3 DEF WorkbenchFits
<1>11. CASE /\ act' = [act EXCEPT ![a].pc = "asked", ![a].todo = x.todo \ {i}]
            /\ raised' = raised
  <2>1. PICK y : y = [x EXCEPT !.pc = "asked", !.todo = x.todo \ {i}]  OBVIOUS
  <2>2. /\ y \in Workbench!Act /\ y.pc = "asked" /\ y.kind = x.kind /\ y.lost = x.lost
    BY <2>1 DEF Workbench!Act
  <2>3. ActFits(y)  BY <2>2 DEF ActFits
  <2>4. act' = [act EXCEPT ![a] = y]  BY <1>1, <1>2, <1>11, <2>1
  <2>5. /\ act' \in [Acts -> Workbench!Act] /\ act'[a] = y
        /\ \A b \in Acts : ActFits(act'[b])
        /\ Workbench!Acting' = Workbench!Acting \cup {a}
        /\ Erasing' = {} => Erasing = {}
    BY <1>8, <2>2, <2>3, <2>4, ActSet
  <2>6. WorkbenchTyped'  BY <1>1, <1>4, <1>5, <2>5 DEF WorkbenchFits, WorkbenchTyped
  <2>7. ASSUME ~unsettled', Erasing' = {}  PROVE RowsFit'
    <3>1. /\ Workbench!Acting = {a} /\ mailRows' = Want' /\ ~x.lost
          /\ Workbench!FlagsOf(x.kind) # {} /\ Workbench!FlagsOf(x.kind) \subseteq raised
      BY <1>6, <2>5, <2>7
    <3>2. MarkFits(y, raised', mailRows', Want')  BY <1>11, <2>2, <3>1 DEF MarkFits
    <3>3. Workbench!Acting' = {a}  BY <2>5, <3>1
    <3> QED BY <2>5, <3>2, <3>3 DEF RowsFit
  <2> QED BY <1>7, <1>9, <2>5, <2>6, <2>7 DEF WorkbenchFits
<1> QED BY <1>2, <1>3, <1>10, <1>11 DEF Workbench!Marked, Workbench!NextMail

\* A mail was deleted, and another one or the load follows.
LEMMA DeletedFits ==
  ASSUME Workbench!MailWorkbenchAssumption, WorkbenchFits, NEW a \in Acts, Workbench!Deleted(a)
  PROVE  WorkbenchFits'
<1>1. /\ UNCHANGED <<mails, read, received, mailPage, mailFilter, mailRows, checked, raised,
                     mailLoad, unsettled>>
      /\ act \in [Acts -> Workbench!Act]
  BY DEF Workbench!Deleted, Workbench!backend, WorkbenchFits, WorkbenchTyped
<1>2. PICK x \in Workbench!Act : x = act[a] /\ x.pc = "served" /\ ActFits(x)
      /\ x.kind \in Workbench!Deletes
  BY <1>1 DEF Workbench!Deleted, WorkbenchFits
<1>3. PICK rest : rest = x.todo \ {Workbench!Max(x.todo)}  OBVIOUS
<1>4. PICK pc \in {"asked", "load"} : pc = IF rest = {} THEN "load" ELSE "asked"  OBVIOUS
<1>5. PICK y : y = [x EXCEPT !.pc = pc, !.todo = rest]  OBVIOUS
<1>6. y \in Workbench!Act /\ y.pc = pc /\ y.kind = x.kind
  <2>1. rest \in SUBSET Workbench!Ids  BY <1>3 DEF Workbench!Act
  <2> QED BY <1>5, <2>1 DEF Workbench!Act
<1>7. ActFits(y)
  <2>1. x.kind # "download"  BY <1>2, KindFlags
  <2> QED BY <1>2, <1>6, <2>1 DEF ActFits
<1>8. act' = [act EXCEPT ![a] = y]
  <2>1. act' = [act EXCEPT ![a].pc = pc, ![a].todo = rest]
    BY <1>2, <1>3, <1>4 DEF Workbench!Deleted, Workbench!NextMail
  <2> QED BY <1>1, <1>2, <1>5, <2>1
<1>9. /\ act' \in [Acts -> Workbench!Act] /\ act'[a] = y
      /\ \A b \in Acts : ActFits(act'[b])
      /\ Workbench!Acting' = Workbench!Acting \cup {a}
  BY <1>6, <1>7, <1>8, ActSet
<1>10. current' \in 0..MaxMail
  <2>1. 0 \in 0..MaxMail  BY DEF Workbench!MailWorkbenchAssumption
  <2> QED BY <2>1 DEF Workbench!Deleted, WorkbenchFits, WorkbenchTyped
<1>11. WorkbenchTyped'  BY <1>1, <1>9, <1>10 DEF WorkbenchFits, WorkbenchTyped
<1>12. Workbench!Loading' = Workbench!Loading  BY <1>1 DEF Workbench!Loading
<1>13. ~unsettled' => Workbench!Loading = {}  BY <1>1, <1>2, LoadMeansWaiting
<1>14. a \in Erasing'  BY <1>2, <1>6, <1>9 DEF Erasing
<1> QED BY <1>9, <1>11, <1>12, <1>13, <1>14 DEF WorkbenchFits

LEMMA CallFailsFits ==
  ASSUME Workbench!MailWorkbenchAssumption, WorkbenchFits, NEW a \in Acts, Workbench!CallFails(a)
  PROVE  WorkbenchFits'
<1>1. /\ UNCHANGED <<mails, read, received, mailPage, mailFilter, mailRows, current, checked,
                     mailLoad>>
      /\ act \in [Acts -> Workbench!Act] /\ unsettled' = TRUE
  BY DEF Workbench!CallFails, Workbench!backend, WorkbenchFits, WorkbenchTyped
<1>2. PICK x \in Workbench!Act : x = act[a] /\ ActFits(x)  BY <1>1 DEF WorkbenchFits
<1>3. PICK rest : rest = x.todo \ {Workbench!Max(x.todo)}  OBVIOUS
<1>4. act' \in [Acts -> Workbench!Act] /\ \A b \in Acts : ActFits(act'[b])
  <2>1. CASE Workbench!Finish(a)  BY <2>1, FinishSets
  <2>2. CASE x.kind = "marks" /\ act' = [act EXCEPT ![a].pc = "asked", ![a].todo = rest]
    <3>1. PICK y : y = [x EXCEPT !.pc = "asked", !.todo = rest]  OBVIOUS
    <3>2. y \in Workbench!Act /\ y.pc = "asked" /\ y.kind = x.kind
      <4>1. rest \in SUBSET Workbench!Ids  BY <1>3 DEF Workbench!Act
      <4> QED BY <3>1, <4>1 DEF Workbench!Act
    <3>3. ActFits(y)  BY <2>2, <3>2 DEF ActFits
    <3>4. act' = [act EXCEPT ![a] = y]  BY <1>1, <1>2, <2>2, <3>1
    <3> QED BY <3>2, <3>3, <3>4, ActSet
  <2> QED BY <1>2, <1>3, <2>1, <2>2 DEF Workbench!CallFails, Workbench!NextMail
<1>5. WorkbenchTyped'  BY <1>1, <1>4 DEF WorkbenchFits, WorkbenchTyped
<1> QED BY <1>1, <1>4, <1>5, ShakenFits

-----------------------------------------------------------------------------
(* Mails arrive, rows are looked at.                                       *)

LEMMA ArriveFits ==
  ASSUME Workbench!MailWorkbenchAssumption, WorkbenchFits, Workbench!Arrive  PROVE WorkbenchFits'
<1>1. /\ UNCHANGED <<mailPage, mailFilter, mailRows, current, checked, mailLoad, act>>
      /\ unsettled' = TRUE
      /\ received' = received + 1 /\ received < MaxArrivals
      /\ mails' = mails \cup {MaxMail - MaxArrivals + received + 1}
  BY DEF Workbench!Arrive
<1>2. received \in 0..MaxArrivals /\ MaxArrivals \in 0..MaxMail /\ MaxMail \in Nat
  BY DEF Workbench!MailWorkbenchAssumption, WorkbenchFits, WorkbenchTyped
<1>3. MaxMail - MaxArrivals + received + 1 \in Workbench!Ids /\ received + 1 \in 0..MaxArrivals
  BY <1>1, <1>2 DEF Workbench!Ids
<1>4. \A a \in Acts : ActFits(act'[a])  BY <1>1 DEF WorkbenchFits
<1>5. WorkbenchTyped'  BY <1>1, <1>3 DEF WorkbenchFits, WorkbenchTyped
<1> QED BY <1>1, <1>4, <1>5, ShakenFits

LEMMA ShowRowFits ==
  ASSUME Workbench!MailWorkbenchAssumption, WorkbenchFits, NEW i \in Workbench!Ids,
         Workbench!ShowRow(i)
  PROVE  WorkbenchFits'
<1>1. /\ UNCHANGED <<mails, read, received, mailPage, mailFilter, mailRows, raised, mailLoad,
                     act, unsettled, checked>>
      /\ current' = i
  BY DEF Workbench!ShowRow, Workbench!backend
<1>2. i \in 0..MaxMail  BY DEF Workbench!Ids, Workbench!MailWorkbenchAssumption
<1>3. WorkbenchTyped'  BY <1>1, <1>2 DEF WorkbenchFits, WorkbenchTyped
<1> QED BY <1>1, <1>3, NeutralFits

LEMMA CheckFits ==
  ASSUME Workbench!MailWorkbenchAssumption, WorkbenchFits, Workbench!Check  PROVE WorkbenchFits'
<1>1. /\ UNCHANGED <<mails, read, received, mailPage, mailFilter, mailRows, raised, mailLoad,
                     act, unsettled, current>>
      /\ checked' = {r[1] : r \in mailRows}
  BY DEF Workbench!Check, Workbench!backend
<1>2. mailRows \subseteq Workbench!Row  BY DEF WorkbenchFits, WorkbenchTyped
<1>3. checked' \subseteq Workbench!Ids  BY <1>1, <1>2 DEF Workbench!Row
<1>4. WorkbenchTyped'  BY <1>1, <1>3 DEF WorkbenchFits, WorkbenchTyped
<1> QED BY <1>1, <1>4, NeutralFits

-----------------------------------------------------------------------------
LEMMA InitWorkbench ==
  ASSUME Workbench!MailWorkbenchAssumption, Workbench!Init  PROVE WorkbenchFits
<1>1. mails \subseteq Workbench!Ids
  <2>1. received \in 0..MaxArrivals /\ MaxArrivals \in 0..MaxMail /\ MaxMail \in Nat
    BY DEF Workbench!Init, Workbench!MailWorkbenchAssumption
  <2> QED BY <2>1 DEF Workbench!Init, Workbench!Ids
<1>2. 0 \in 0..MaxMail  BY DEF Workbench!MailWorkbenchAssumption
<1>3. mailLoad \in [Slots -> Workbench!Load] /\ act \in [Acts -> Workbench!Act]  BY NoLoadTyped,
     NoActFits DEF Workbench!Init
<1>4. \A a \in Acts : ActFits(act[a])  BY NoActFits DEF Workbench!Init
<1>5. WorkbenchTyped
  <2>1. 1 \in Workbench!PageNumbers /\ "all" \in Workbench!AddressFilters  BY FirstPage
  <2>2. mailPage = 1 /\ mailFilter = "all" /\ mailRows = {} /\ current = 0 /\ checked = {}
        /\ unsettled = TRUE
        /\ received \in 0..MaxArrivals
    BY DEF Workbench!Init
  <2> QED BY <1>1, <1>2, <1>3, <2>1, <2>2 DEF WorkbenchTyped
<1> QED BY <1>4, <1>5 DEF Workbench!Init, WorkbenchFits

LEMMA NextWorkbench ==
  ASSUME Workbench!MailWorkbenchAssumption, WorkbenchFits,
         [Workbench!Next]_(Workbench!vars)  PROVE WorkbenchFits'
<1>1. CASE Workbench!Arrive  BY <1>1, ArriveFits
<1>2. CASE Workbench!Mount  BY <1>2, MountFits
<1>3. CASE Workbench!Synchronize  BY <1>3, SynchronizeFits
<1>4. CASE Workbench!Check  BY <1>4, CheckFits
<1>5. CASE \E p \in Workbench!PageNumbers : Workbench!SetPage(p)  BY <1>5, SetPageFits
<1>6. CASE \E f \in Workbench!AddressFilters : Workbench!SetFilter(f)  BY <1>6, SetFilterFits
<1>7. CASE \E l \in Slots : Workbench!Serve(l) \/ Workbench!Settle(l) \/ Workbench!LoadFails(l)
  BY <1>7, ServeFits, SettleFits, LoadFailsFits
<1>8. CASE \E i \in Workbench!Ids : Workbench!ShowRow(i)  BY <1>8, ShowRowFits
<1>9. ASSUME NEW a \in Acts,
             \/ Workbench!Execute(a) \/ Workbench!Marked(a) \/ Workbench!Deleted(a)
                  \/ Workbench!Reload(a) \/ Workbench!CallFails(a)
             \/ Workbench!DeleteMail(a) \/ Workbench!Download(a) \/ Workbench!Downloaded(a)
      PROVE  WorkbenchFits'
  BY <1>9, ExecuteFits, MarkedFits, DeletedFits, ReloadFits, CallFailsFits, DeleteMailFits,
     DownloadFits, DownloadedFits
<1>10. ASSUME NEW a \in Acts, NEW i \in Workbench!Ids, NEW r \in BOOLEAN,
              Workbench!MarkRow(a, i, r)
       PROVE  WorkbenchFits'
  BY <1>10, MarkRowFits
<1>11. ASSUME NEW a \in Acts, NEW r \in BOOLEAN, Workbench!MarkChecked(a, r)
       PROVE WorkbenchFits'
  BY <1>11, MarkCheckedFits
<1>12. CASE UNCHANGED Workbench!vars
  <2>1. WorkbenchTyped'  BY <1>12 DEF Workbench!vars, WorkbenchFits, WorkbenchTyped
  <2> QED BY <1>12, <2>1, NeutralFits DEF Workbench!vars
<1> QED BY <1>1, <1>2, <1>3, <1>4, <1>5, <1>6, <1>7, <1>8, <1>9, <1>10, <1>11, <1>12
     DEF Workbench!Next

LEMMA RowsAreCurrent ==
  ASSUME WorkbenchFits  PROVE Workbench!ShownIsCurrent
<1>1. ASSUME Workbench!Loading = {}, Workbench!Acting = {},
             ~unsettled  PROVE mailRows = Workbench!Page(mailPage, mailFilter)
  <2>1. Erasing = {}  BY <1>1 DEF Erasing
  <2>2. mailRows = RowsOf(mails, read, mailPage, mailFilter)
    BY <1>1, <2>1 DEF WorkbenchFits, RowsFit, Want
  <2> QED BY <2>2, PageIsRowsOf
<1> QED BY <1>1 DEF Workbench!ShownIsCurrent

LEMMA WorkbenchHolds == Workbench!MailWorkbenchAssumption => (Workbench!Spec => []WorkbenchFits)
<1> SUFFICES ASSUME Workbench!MailWorkbenchAssumption
             PROVE Workbench!Spec => []WorkbenchFits  OBVIOUS
<1>1. Workbench!Init => WorkbenchFits  BY InitWorkbench
<1>2. WorkbenchFits /\ [Workbench!Next]_(Workbench!vars) => WorkbenchFits'  BY NextWorkbench
<1> QED BY <1>1, <1>2, PTL DEF Workbench!Spec

\* With nothing under way the page shows what the backend has, outside the overlaps
\* that are named (refresh, isBusy and applyMailReadState).
THEOREM RowsShownAreCurrent ==
  Workbench!MailWorkbenchAssumption => (Workbench!Spec => []ShownIsCurrent)
<1> SUFFICES ASSUME Workbench!MailWorkbenchAssumption
             PROVE  Workbench!Spec => []ShownIsCurrent
  OBVIOUS
<1>1. WorkbenchFits => ShownIsCurrent  BY RowsAreCurrent DEF ShownIsCurrent
<1> QED BY <1>1, WorkbenchHolds, PTL
=============================================================================
