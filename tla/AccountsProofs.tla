--------------------------- MODULE AccountsProofs ---------------------------
(***************************************************************************)
(* The proofs about the parts of MCUserAdmin: the logins by a passkey      *)
(* (Passkeys), the access to an authenticator (Authenticators) and, by the *)
(* theorems of UserAdminProofs, the roles, for any number of requests,     *)
(* users, credentials, links and registrations.                            *)
(*                                                                         *)
(* The inductive invariant Owned follows the name of the owner on its way  *)
(* from a row to the answer: a row names an id that its owner has, and a   *)
(* login under way has the e-mail of the owner of the row it has read.     *)
(* Granted compares the row of a user with what was granted to the person. *)
(***************************************************************************)
EXTENDS MCUserAdmin, TLAPS

\* What the program counter says about the rest of a request.
Phase(x) ==
  /\ x.pc \in {"insert", "counter", "user", "issue"} => x.user \in Ids /\ x.key \in Keys
  /\ x.pc = "insert" => x.email \in Emails
  /\ x.pc # "done" => ~x.token

\* A request that may answer with a token, or has, does so for the owner.
Loyal(x) ==
  x.pc \in {"counter", "user", "issue"} \/ x.token => x.email = x.owner \/ x.late

RowOwned(k) ==
  keys[k] # NoKey =>
    /\ keys[k].user \in Ids
    /\ keys[k].late \/ (keys[k].owner \in Emails /\ users[keys[k].user] = keys[k].owner)

Owned ==
  /\ TypeOK
  /\ \A r \in Requests : Phase(request[r]) /\ Loyal(request[r])
  /\ \A k \in Keys : RowOwned(k)

-----------------------------------------------------------------------------
(* Initially.                                                              *)

LEMMA NoKeyType ==
  ASSUME PasskeysAssumption
  PROVE  NoKey \in Key
BY DEF PasskeysAssumption, NoKey, Key

LEMMA IdleRequest ==
  ASSUME PasskeysAssumption
  PROVE  Idle \in Request /\ Phase(Idle) /\ Loyal(Idle)
BY DEF PasskeysAssumption, Idle, Request, Phase, Loyal

LEMMA InitOwned ==
  ASSUME PasskeysAssumption, Init
  PROVE  Owned
<1>1. PICK e \in Emails, old \in BOOLEAN, counts \in BOOLEAN :
        /\ users = [u \in Ids |-> IF u = 1 THEN e ELSE NoEmail]
        /\ keys = [k \in Keys |->
             IF old /\ k = 1 THEN [NoKey EXCEPT !.user = 1, !.row = 1, !.owner = e]
             ELSE NoKey]
        /\ device = [k \in Keys |->
             [user |-> IF old /\ k = 1 THEN 1 ELSE 0, counts |-> counts /\ k = 1,
              last |-> 0, rows |-> IF old /\ k = 1 THEN 1 ELSE 0]]
  BY ZenonT(30) DEF Init
<1>2. 1 \in Ids /\ 0 \in 0..MaxCount  BY DEF PasskeysAssumption, Ids
<1>3. users \in [Ids -> Emails \cup {NoEmail}]  BY <1>1
<1>4. keys \in [Keys -> Key]  BY <1>1, <1>2, NoKeyType DEF NoKey, Key
<1>5. device \in [Keys -> Device]
  <2> SUFFICES ASSUME NEW k \in Keys PROVE device[k] \in Device  BY <1>1
  <2>1. (counts /\ k = 1) \in BOOLEAN  OBVIOUS
  <2>2. (IF old /\ k = 1 THEN 1 ELSE 0) \in (Ids \cup {0}) \cap Nat  BY <1>2
  <2> QED BY <1>1, <1>2, <2>1, <2>2 DEF Device
<1>6. request = [r \in Requests |-> Idle]  BY DEF Init
<1>7. TypeOK  BY <1>3, <1>4, <1>5, <1>6, IdleRequest DEF TypeOK
<1>8. \A k \in Keys : RowOwned(k)  BY <1>1, <1>2 DEF RowOwned, NoKey
<1> QED BY <1>6, <1>7, <1>8, IdleRequest DEF Owned

-----------------------------------------------------------------------------
(* Steps.                                                                  *)

\* A request that goes on as a well-formed one leaves the others alone.
LEMMA BecomeOwned ==
  ASSUME TypeOK, \A s \in Requests : Phase(request[s]) /\ Loyal(request[s]),
         NEW r \in Requests, NEW x \in Request, Phase(x), Loyal(x), Become(r, x)
  PROVE  /\ request' \in [Requests -> Request]
         /\ \A s \in Requests : Phase(request'[s]) /\ Loyal(request'[s])
<1>1. \A s \in Requests : request'[s] = IF s = r THEN x ELSE request[s]
  BY DEF Become, TypeOK
<1>2. request' \in [Requests -> Request]  BY DEF Become, TypeOK
<1> QED BY <1>1, <1>2

\* A new account takes an id that no row names.
LEMMA RegisterOwned ==
  ASSUME Owned, PasskeysAssumption, NEW e \in Emails, Register(e)
  PROVE  Owned'
<1>1. PICK u \in Ids : /\ IsNextId(u)
                       /\ users' = [users EXCEPT ![u] = e]
                       /\ UNCHANGED <<keys, device, request>>
  BY DEF Register
<1>2. TypeOK'  BY <1>1 DEF Owned, TypeOK
<1>3. users[u] = NoEmail
  <2>1. u \in Known => u < u  BY <1>1 DEF IsNextId
  <2>2. ~(u < u)  BY DEF Ids
  <2> QED BY <2>1, <2>2 DEF Known
<1>4. \A k \in Keys : RowOwned(k)'
  <2> SUFFICES ASSUME NEW k \in Keys PROVE RowOwned(k)'  OBVIOUS
  <2>1. RowOwned(k) /\ users \in [Ids -> Emails \cup {NoEmail}]  BY DEF Owned, TypeOK
  <2> QED BY <1>1, <1>3, <2>1 DEF RowOwned, PasskeysAssumption
<1> QED BY <1>1, <1>2, <1>4 DEF Owned

\* The rows of a deleted account go with it.
LEMMA DeleteUserOwned ==
  ASSUME Owned, PasskeysAssumption, NEW u \in Ids, DeleteUser(u)
  PROVE  Owned'
<1> USE DEF DeleteUser
<1>1. users' \in [Ids -> Emails \cup {NoEmail}]  BY DEF Owned, TypeOK
<1>2. keys' \in [Keys -> Key]  BY NoKeyType DEF Owned, TypeOK
<1>3. TypeOK'  BY <1>1, <1>2 DEF Owned, TypeOK
<1>4. \A k \in Keys : RowOwned(k)'
  <2> SUFFICES ASSUME NEW k \in Keys PROVE RowOwned(k)'  OBVIOUS
  <2>1. RowOwned(k) /\ users \in [Ids -> Emails \cup {NoEmail}]  BY DEF Owned, TypeOK
  <2>2. keys'[k] = IF keys[k].user = u THEN NoKey ELSE keys[k]  OBVIOUS
  <2> QED BY <2>1, <2>2 DEF RowOwned
<1> QED BY <1>3, <1>4 DEF Owned

\* Deleting a passkey, and using the authenticator.
LEMMA KeyOwned ==
  ASSUME Owned, PasskeysAssumption, NEW k \in Keys, DeleteKey(k) \/ Sign(k)
  PROVE  Owned'
<1>1. CASE DeleteKey(k)
  <2>1. TypeOK'  BY <1>1, NoKeyType DEF DeleteKey, Owned, TypeOK
  <2>2. \A j \in Keys : RowOwned(j)'
    <3> SUFFICES ASSUME NEW j \in Keys PROVE RowOwned(j)'  OBVIOUS
    <3>1. RowOwned(j) /\ keys'[j] = (IF j = k THEN NoKey ELSE keys[j])
      BY <1>1 DEF DeleteKey, Owned, TypeOK
    <3> QED BY <1>1, <3>1 DEF DeleteKey, RowOwned
  <2> QED BY <1>1, <2>1, <2>2 DEF DeleteKey, Owned
<1>2. CASE Sign(k)
  <2>1. device' \in [Keys -> Device]
    BY <1>2 DEF Sign, Owned, TypeOK, Device, PasskeysAssumption
  <2>2. TypeOK'  BY <1>2, <2>1 DEF Sign, Owned, TypeOK
  <2> QED BY <1>2, <2>2 DEF Sign, Owned, RowOwned
<1> QED BY <1>1, <1>2

LEMMA AskInsertOwned ==
  ASSUME Owned, PasskeysAssumption, NEW r \in Requests, NEW u \in Ids, NEW k \in Keys,
         AskInsert(r, u, k)
  PROVE  Owned'
<1> DEFINE x == [Idle EXCEPT !.pc = "insert", !.key = k, !.user = u, !.email = users[u]]
<1>1. Become(r, x) /\ UNCHANGED <<users, keys>>  BY DEF AskInsert
<1>2. users[u] \in Emails  BY DEF AskInsert, Known, Owned, TypeOK
<1>3. x \in Request  BY <1>2, IdleRequest DEF Idle, Request
<1>4. Phase(x) /\ Loyal(x)  BY <1>2 DEF Idle, Phase, Loyal
<1>5. device' \in [Keys -> Device]
  BY DEF AskInsert, Owned, TypeOK, Device
<1> HIDE DEF x
<1>6. /\ request' \in [Requests -> Request]
      /\ \A s \in Requests : Phase(request'[s]) /\ Loyal(request'[s])
  BY <1>1, <1>3, <1>4, BecomeOwned DEF Owned
<1> QED BY <1>1, <1>5, <1>6 DEF Owned, TypeOK, RowOwned

LEMMA InsertKeyOwned ==
  ASSUME Owned, PasskeysAssumption, NEW r \in Requests, InsertKey(r)
  PROVE  Owned'
<1> DEFINE x == request[r]
           row == [user |-> x.user, counter |-> 0, row |-> device[x.key].rows + 1,
                   owner |-> x.email, late |-> users[x.user] # x.email]
<1>1. /\ x \in Request /\ Phase(x) /\ Loyal(x) /\ x.pc = "insert"
      /\ \/ UNCHANGED <<keys, device>>
         \/ /\ device' = [device EXCEPT ![x.key].rows = @ + 1]
            /\ keys' = [keys EXCEPT ![x.key] = row]
      /\ Become(r, [x EXCEPT !.pc = "done"])
      /\ UNCHANGED users
  BY DEF InsertKey, Owned, TypeOK
<1>2. x.user \in Ids /\ x.key \in Keys /\ x.email \in Emails /\ ~x.token
  BY <1>1 DEF Phase
<1>3. device[x.key] \in Device /\ 0 \in 0..MaxCount
  BY <1>2 DEF PasskeysAssumption, Owned, TypeOK
<1>4. row \in Key  BY <1>2, <1>3 DEF Key, Device
<1>5. [x EXCEPT !.pc = "done"] \in Request  BY <1>1 DEF Request
<1>6. Phase([x EXCEPT !.pc = "done"]) /\ Loyal([x EXCEPT !.pc = "done"])
  BY <1>1, <1>2 DEF Request, Phase, Loyal
<1>7. /\ request' \in [Requests -> Request]
      /\ \A s \in Requests : Phase(request'[s]) /\ Loyal(request'[s])
  BY <1>1, <1>5, <1>6, BecomeOwned DEF Owned
<1>8. \A k \in Keys : keys'[k] = keys[k] \/ (k = x.key /\ keys'[k] = row)
  BY <1>1 DEF Owned, TypeOK
<1>9. TypeOK'
  <2>1. keys' \in [Keys -> Key]  BY <1>1, <1>2, <1>4 DEF Owned, TypeOK
  <2>2. device' \in [Keys -> Device]  BY <1>1, <1>2, <1>3 DEF Owned, TypeOK, Device
  <2> QED BY <1>1, <1>7, <2>1, <2>2 DEF Owned, TypeOK
<1>10. \A k \in Keys : RowOwned(k)'
  <2> SUFFICES ASSUME NEW k \in Keys PROVE RowOwned(k)'  OBVIOUS
  <2>1. CASE keys'[k] = row
    <3>1. row.user = x.user /\ row.owner = x.email /\ (row.late \/ users[x.user] = x.email)
      OBVIOUS
    <3> QED BY <1>1, <1>2, <2>1, <3>1 DEF RowOwned
  <2>2. CASE keys'[k] = keys[k]
    <3>1. RowOwned(k)  BY DEF Owned
    <3> QED BY <1>1, <2>2, <3>1 DEF RowOwned
  <2> QED BY <1>8, <2>1, <2>2
<1> QED BY <1>7, <1>9, <1>10 DEF Owned

\* The login takes the owner from the row.
LEMMA PresentOwned ==
  ASSUME Owned, PasskeysAssumption, NEW r \in Requests, NEW k \in Keys, Present(r, k)
  PROVE  Owned'
<1> DEFINE row == keys[k]
<1>1. /\ row \in Key /\ row.user \in Ids
      /\ row.late \/ users[row.user] = row.owner
      /\ users[row.user] \in Emails \cup {NoEmail}
      /\ UNCHANGED <<users, keys, device>>
  BY DEF Present, Owned, TypeOK, RowOwned
<1>2. ASSUME NEW n \in Signed(k)
      PROVE  n \in 0..MaxCount
  <2>1. device[k] \in Device  BY DEF Owned, TypeOK
  <2> QED BY <1>2, <2>1 DEF Signed, Device, PasskeysAssumption
<1>3. PICK n \in Signed(k) :
        Become(r,
          IF Verified(keys[k].counter, n)
          THEN [Idle EXCEPT !.pc = "counter", !.key = k, !.user = keys[k].user,
                            !.count = n, !.seen = keys[k].counter,
                            !.row = keys[k].row, !.email = users[keys[k].user],
                            !.owner = keys[k].owner, !.late = keys[k].late]
          ELSE [Idle EXCEPT !.pc = "done"])
  BY DEF Present
<1> DEFINE x == [Idle EXCEPT !.pc = "counter", !.key = k, !.user = row.user, !.count = n,
                             !.seen = row.counter, !.row = row.row,
                             !.email = users[row.user],
                             !.owner = row.owner, !.late = row.late]
           y == [Idle EXCEPT !.pc = "done"]
<1>4. x \in Request /\ Phase(x) /\ Loyal(x)
  BY <1>1, <1>2 DEF Idle, Request, Phase, Loyal, Key
<1>5. y \in Request /\ Phase(y) /\ Loyal(y)
  BY IdleRequest DEF Idle, Request, Phase, Loyal
<1>6. Become(r, x) \/ Become(r, y)  BY <1>3
<1> HIDE DEF x, y
<1>7. /\ request' \in [Requests -> Request]
      /\ \A s \in Requests : Phase(request'[s]) /\ Loyal(request'[s])
  BY <1>4, <1>5, <1>6, BecomeOwned DEF Owned
<1> QED BY <1>1, <1>7 DEF Owned, TypeOK, RowOwned

\* The counter is not part of what a row says about its owner.
LEMMA StoreCounterOwned ==
  ASSUME Owned, PasskeysAssumption, NEW r \in Requests, StoreCounter(r)
  PROVE  Owned'
<1> DEFINE x == request[r]
           row == keys[x.key]
           y == [x EXCEPT !.pc = "user", !.counted = row # NoKey,
                          !.stale = row # NoKey /\ (row.row # x.row \/ row.counter # x.seen)]
<1>1. /\ x \in Request /\ Phase(x) /\ Loyal(x) /\ x.pc = "counter"
      /\ Become(r, y) /\ UNCHANGED <<users, device>>
      /\ keys' = IF row = NoKey THEN keys ELSE [keys EXCEPT ![x.key].counter = x.count]
  BY DEF StoreCounter, Owned, TypeOK
<1>2. x.key \in Keys /\ x.count \in 0..MaxCount  BY <1>1 DEF Phase, Request
<1>3. /\ (row # NoKey) \in BOOLEAN
      /\ (row # NoKey /\ (row.row # x.row \/ row.counter # x.seen)) \in BOOLEAN
  OBVIOUS
<1>4. y \in Request  BY <1>1, <1>3 DEF Request
<1>5. Phase(y) /\ Loyal(y)  BY <1>1 DEF Request, Phase, Loyal
<1>6. row \in Key  BY <1>2 DEF Owned, TypeOK
<1>7. keys' \in [Keys -> Key]  BY <1>1, <1>2, <1>6 DEF Owned, TypeOK, Key
<1>8. ASSUME NEW k \in Keys
      PROVE  \/ keys'[k] = keys[k]
             \/ /\ keys[k] # NoKey /\ keys'[k].user = keys[k].user
                /\ keys'[k].owner = keys[k].owner /\ keys'[k].late = keys[k].late
  BY <1>1, <1>2, <1>6 DEF Owned, TypeOK, Key
<1> HIDE DEF y
<1>9. /\ request' \in [Requests -> Request]
      /\ \A s \in Requests : Phase(request'[s]) /\ Loyal(request'[s])
  BY <1>1, <1>4, <1>5, BecomeOwned DEF Owned
<1>10. \A k \in Keys : RowOwned(k)'
  BY <1>1, <1>8 DEF Owned, RowOwned
<1> QED BY <1>1, <1>7, <1>9, <1>10 DEF Owned, TypeOK

LEMMA ReadUserOwned ==
  ASSUME Owned, PasskeysAssumption, NEW r \in Requests, ReadUser(r)
  PROVE  Owned'
<1> DEFINE x == request[r]
           e == users[x.user]
           y == [x EXCEPT !.pc = IF e = NoEmail THEN "done" ELSE "issue",
                          !.email = e, !.late = @ \/ e # x.email]
<1>1. /\ x \in Request /\ Phase(x) /\ Loyal(x) /\ x.pc = "user"
      /\ Become(r, y) /\ UNCHANGED <<users, keys, device>>
  BY DEF ReadUser, Owned, TypeOK
<1>2. x.user \in Ids /\ ~x.token  BY <1>1 DEF Phase
<1>3. e \in Emails \cup {NoEmail}  BY <1>2 DEF Owned, TypeOK
<1>4. y \in Request  BY <1>1, <1>3 DEF Request
<1>5. Phase(y)  BY <1>1, <1>2 DEF Request, Phase
<1>6. Loyal(y)
  <2>1. y.email = e /\ y.owner = x.owner /\ (y.late <=> x.late \/ e # x.email)
    BY <1>1 DEF Request
  <2>2. x.email = x.owner \/ x.late  BY <1>1 DEF Loyal
  <2> QED BY <2>1, <2>2 DEF Loyal
<1> HIDE DEF y
<1>7. /\ request' \in [Requests -> Request]
      /\ \A s \in Requests : Phase(request'[s]) /\ Loyal(request'[s])
  BY <1>1, <1>4, <1>5, <1>6, BecomeOwned DEF Owned
<1> QED BY <1>1, <1>7 DEF Owned, TypeOK, RowOwned

\* The answer, and the end of a request that gives none.
LEMMA EndOwned ==
  ASSUME Owned, PasskeysAssumption, NEW r \in Requests, Issue(r) \/ Abandon(r)
  PROVE  Owned'
<1> DEFINE x == request[r]
           y == [x EXCEPT !.pc = "done", !.token = users[x.user] = x.email]
           z == [x EXCEPT !.pc = "done"]
<1>1. x \in Request /\ Phase(x) /\ Loyal(x)  BY DEF Owned, TypeOK
<1>2. UNCHANGED <<users, keys, device>>  BY DEF Issue, Abandon
<1>3. CASE Issue(r)
  <2>1. x.pc = "issue" /\ Become(r, y)  BY <1>3 DEF Issue
  <2>2. (users[x.user] = x.email) \in BOOLEAN  OBVIOUS
  <2>3. y \in Request  BY <1>1, <2>2 DEF Request
  <2>4. Phase(y) /\ Loyal(y)  BY <1>1, <2>1 DEF Request, Phase, Loyal
  <2> HIDE DEF y
  <2>5. /\ request' \in [Requests -> Request]
        /\ \A s \in Requests : Phase(request'[s]) /\ Loyal(request'[s])
    BY <2>1, <2>3, <2>4, BecomeOwned DEF Owned
  <2> QED BY <1>2, <2>5 DEF Owned, TypeOK, RowOwned
<1>4. CASE Abandon(r)
  <2>1. x.pc \notin {"idle", "done"} /\ Become(r, z)  BY <1>4 DEF Abandon
  <2>2. ~x.token  BY <1>1, <2>1 DEF Phase
  <2>3. z \in Request  BY <1>1 DEF Request
  <2>4. Phase(z) /\ Loyal(z)  BY <1>1, <2>2 DEF Request, Phase, Loyal
  <2> HIDE DEF z
  <2>5. /\ request' \in [Requests -> Request]
        /\ \A s \in Requests : Phase(request'[s]) /\ Loyal(request'[s])
    BY <2>1, <2>3, <2>4, BecomeOwned DEF Owned
  <2> QED BY <1>2, <2>5 DEF Owned, TypeOK, RowOwned
<1> QED BY <1>3, <1>4

LEMMA NextOwned ==
  ASSUME Owned, PasskeysAssumption, [Next]_vars
  PROVE  Owned'
<1>1. CASE \E e \in Emails : Register(e)  BY <1>1, RegisterOwned
<1>2. CASE \E u \in Ids : DeleteUser(u)  BY <1>2, DeleteUserOwned
<1>3. CASE \E k \in Keys : DeleteKey(k) \/ Sign(k)  BY <1>3, KeyOwned
<1>4. ASSUME NEW r \in Requests, NEW k \in Keys, NEW u \in Ids, AskInsert(r, u, k)
      PROVE  Owned'
  BY <1>4, AskInsertOwned
<1>5. ASSUME NEW r \in Requests, NEW k \in Keys, Present(r, k)
      PROVE  Owned'
  BY <1>5, PresentOwned
<1>6. ASSUME NEW r \in Requests,
             InsertKey(r) \/ StoreCounter(r) \/ ReadUser(r) \/ Issue(r) \/ Abandon(r)
      PROVE  Owned'
  BY <1>6, InsertKeyOwned, StoreCounterOwned, ReadUserOwned, EndOwned
<1>7. CASE UNCHANGED vars
  BY <1>7 DEF vars, Owned, TypeOK, RowOwned
<1> QED BY <1>1, <1>2, <1>3, <1>4, <1>5, <1>6, <1>7 DEF Next

-----------------------------------------------------------------------------
(* Theorems.                                                               *)

\* Owned holds in every state.
LEMMA OwnedInvariant == PasskeysAssumption => (Spec => []Owned)
<1> SUFFICES ASSUME PasskeysAssumption PROVE Spec => []Owned  OBVIOUS
<1>1. Init => Owned  BY InitOwned
<1>2. Owned /\ [Next]_vars => Owned'  BY NextOwned
<1> QED BY <1>1, <1>2, PTL DEF Spec

\* A passkey lets in whoever registered it, however registrations, logins, deletions of
\* accounts and the reuse of their ids interleave (authenticateResponse, deleteUser).
THEOREM PasskeyOpensOwnAccount == PasskeysAssumption => (Spec => []OpensOwnAccount)
<1> SUFFICES ASSUME PasskeysAssumption PROVE Spec => []OpensOwnAccount  OBVIOUS
<1>1. Owned => OpensOwnAccount  BY DEF Owned, OpensOwnAccount, Loyal
<1> QED BY <1>1, OwnedInvariant, PTL

-----------------------------------------------------------------------------
(***************************************************************************)
(* Counters.  AssertionOnce is not inductive: that the counter of a row is *)
(* at least that of every assertion it has let through holds because the   *)
(* credential, when it is stored again, has another row.                   *)
(***************************************************************************)

\* A login under way has grown the counter it has read, and has stored nothing yet.
Counting(x) ==
  /\ x.pc = "idle" => x.key = 0
  /\ x.pc = "counter" => Verified(x.seen, x.count)
  /\ x.pc \in {"idle", "insert", "counter"} => ~x.counted /\ ~x.stale
  /\ x.counted => x.key \in Keys

\* Rows are numbered in turn, and a request has read one that there has been.
Numbered ==
  /\ \A k \in Keys : keys[k].row <= device[k].rows
  /\ \A r \in Requests :
       request[r].key \in Keys => request[r].row <= device[request[r].key].rows

Overwritten(k) == \E q \in Requests : request[q].key = k /\ request[q].stale

\* A row has counted what it has let through.
RowCounts ==
  \A r \in Requests : request[r].counted =>
    \/ keys[request[r].key] = NoKey
    \/ keys[request[r].key].row # request[r].row
    \/ request[r].count <= keys[request[r].key].counter
    \/ Overwritten(request[r].key)

Counts ==
  /\ \A r \in Requests : Counting(request[r])
  /\ Numbered /\ RowCounts /\ AssertionOnce

LEMMA CountsFacts ==
  ASSUME Owned, Counts, NEW r \in Requests
  PROVE  /\ request[r] \in Request /\ Phase(request[r]) /\ Counting(request[r])
         /\ request \in [Requests -> Request] /\ keys \in [Keys -> Key]
         /\ device \in [Keys -> Device]
BY DEF Owned, TypeOK, Counts

LEMMA NumberedFacts ==
  ASSUME Owned, Counts, NEW k \in Keys
  PROVE  /\ keys[k] \in Key /\ keys[k].row \in Nat /\ keys[k].row <= device[k].rows
         /\ device[k] \in Device /\ device[k].rows \in Nat
BY DEF Owned, TypeOK, Key, Device, Counts, Numbered

LEMMA ReadRow ==
  ASSUME Owned, Counts, NEW r \in Requests, NEW k \in Keys, request[r].key = k
  PROVE  request[r].row \in Nat /\ request[r].row <= device[k].rows
BY DEF Owned, TypeOK, Request, Counts, Numbered

\* Assertions of requests that count no more than before are those of before.
LEMMA OnceKept ==
  ASSUME Counts, \A k : Overwritten(k) => Overwritten(k)',
         \A s \in Requests : request'[s].counted =>
           /\ request[s].counted /\ request'[s].key = request[s].key
           /\ request'[s].row = request[s].row /\ request'[s].count = request[s].count
  PROVE  AssertionOnce'
<1> SUFFICES ASSUME NEW q \in Requests, NEW s \in Requests, NEW j, q # s,
                    request'[q].counted, request'[s].counted,
                    request'[q].key = j, request'[s].key = j,
                    request'[q].row = request'[s].row,
                    request'[q].count = request'[s].count, request'[q].count > 0
             PROVE  Overwritten(j)'
  BY DEF AssertionOnce, Overwritten
<1>1. Overwritten(j)  BY DEF Counts, AssertionOnce, Overwritten
<1> QED BY <1>1

\* A request that goes on without touching its counters.
Same(x, y) ==
  /\ y.key = x.key /\ y.row = x.row /\ y.count = x.count /\ y.seen = x.seen
  /\ y.counted = x.counted /\ y.stale = x.stale
  /\ y.pc = x.pc \/ (y.pc \in {"user", "issue", "done"} /\ x.pc # "idle")

\* Rows go, credentials are used, requests go on: nothing is counted.
LEMMA QuietCounts ==
  ASSUME Owned, Counts,
         \A k \in Keys : keys'[k] \in {keys[k], NoKey},
         \A k \in Keys : device'[k].rows = device[k].rows,
         \A s \in Requests : Same(request[s], request'[s])
  PROVE  Counts'
<1>1. \A s \in Requests : Counting(request'[s])
  BY CountsFacts DEF Counting, Same
<1>2. ASSUME NEW s \in Requests, request[s].counted
      PROVE  request[s].key \in Keys
  BY <1>2, CountsFacts DEF Counting
<1>3. Numbered'
  <2>1. ASSUME NEW k \in Keys PROVE keys'[k].row <= device'[k].rows
    BY <2>1, NumberedFacts DEF NoKey
  <2>2. \A s \in Requests :
          request'[s].key \in Keys => request'[s].row <= device'[request'[s].key].rows
    BY DEF Counts, Numbered, Same
  <2> QED BY <2>1, <2>2 DEF Numbered
<1>4. \A k : Overwritten(k) => Overwritten(k)'  BY DEF Overwritten, Same
<1>5. RowCounts'
  BY <1>2, <1>4 DEF Counts, RowCounts, Same
<1>6. AssertionOnce'  BY <1>4, OnceKept DEF Same
<1> QED BY <1>1, <1>3, <1>5, <1>6 DEF Counts

LEMMA QuietRequest ==
  ASSUME Owned, Counts, NEW r \in Requests, NEW y, Become(r, y), Same(request[r], y),
         UNCHANGED <<keys, device>>
  PROVE  Counts'
<1>1. \A s \in Requests : request'[s] = IF s = r THEN y ELSE request[s]
  BY CountsFacts DEF Become
<1>2. \A s \in Requests : Same(request[s], request'[s])  BY <1>1 DEF Same
<1> QED BY <1>2, QuietCounts

\* Steps of users and authenticators.
LEMMA OtherCounts ==
  ASSUME Owned, Counts,
         \/ \E e \in Emails : Register(e)
         \/ \E u \in Ids : DeleteUser(u)
         \/ \E k \in Keys : DeleteKey(k) \/ Sign(k)
         \/ UNCHANGED vars
  PROVE  Counts'
<1>1. request' = request
  BY DEF Register, DeleteUser, DeleteKey, Sign, vars
<1>2. \A k \in Keys : keys'[k] \in {keys[k], NoKey}
  BY DEF Owned, TypeOK, Register, DeleteUser, DeleteKey, Sign, vars
<1>3. \A k \in Keys : device'[k].rows = device[k].rows
  BY DEF Owned, TypeOK, Device, Register, DeleteUser, DeleteKey, Sign, vars
<1>4. \A s \in Requests : Same(request[s], request'[s])  BY <1>1 DEF Same
<1> QED BY <1>2, <1>3, <1>4, QuietCounts

LEMMA ReadingCounts ==
  ASSUME Owned, Counts, NEW r \in Requests, ReadUser(r) \/ Issue(r) \/ Abandon(r)
  PROVE  Counts'
<1> DEFINE x == request[r]
           pc == IF users[x.user] = NoEmail THEN "done" ELSE "issue"
           a == [x EXCEPT !.pc = pc, !.email = users[x.user],
                          !.late = @ \/ users[x.user] # x.email]
           b == [x EXCEPT !.pc = "done", !.token = users[x.user] = x.email]
           c == [x EXCEPT !.pc = "done"]
<1>1. x \in Request  BY CountsFacts
<1>2. /\ Become(r, a) \/ Become(r, b) \/ Become(r, c)
      /\ x.pc # "idle" /\ UNCHANGED <<keys, device>>
  BY DEF ReadUser, Issue, Abandon
<1>3. x.pc # "idle" => Same(x, a) /\ Same(x, b) /\ Same(x, c)
  BY <1>1 DEF Same, Request
<1> HIDE DEF a, b, c
<1> QED BY <1>2, <1>3, QuietRequest

\* A request that begins, and one that gives up, count nothing.
LEMMA AskInsertCounts ==
  ASSUME Owned, Counts, NEW r \in Requests, NEW u \in Ids, NEW k \in Keys,
         AskInsert(r, u, k)
  PROVE  Counts'
<1> DEFINE y == [Idle EXCEPT !.pc = "insert", !.key = k, !.user = u, !.email = users[u]]
<1>1. /\ request[r] = Idle /\ keys' = keys
      /\ \A s \in Requests : request'[s] = IF s = r THEN y ELSE request[s]
  BY CountsFacts DEF AskInsert, Become
<1>2. /\ y.pc = "insert" /\ y.key = k /\ y.row = 0 /\ ~y.counted /\ ~y.stale
  BY DEF Idle
<1> HIDE DEF y
<1>3. \A j \in Keys : device'[j].rows = device[j].rows
  BY DEF AskInsert, Owned, TypeOK, Device
<1>4. ~request[r].counted /\ ~request[r].stale  BY <1>1 DEF Idle
<1>5. \A s \in Requests : Counting(request'[s])
  BY <1>1, <1>2, CountsFacts DEF Counting
<1>6. Numbered'
  BY <1>1, <1>2, <1>3, NumberedFacts DEF Counts, Numbered
<1>7. \A j : Overwritten(j) => Overwritten(j)'
  BY <1>1, <1>4 DEF Overwritten
<1>8. RowCounts'  BY <1>1, <1>2, <1>7 DEF Counts, RowCounts
<1>9. AssertionOnce'  BY <1>1, <1>2, <1>7, OnceKept
<1> QED BY <1>5, <1>6, <1>8, <1>9 DEF Counts

LEMMA PresentCounts ==
  ASSUME Owned, Counts, NEW r \in Requests, NEW k \in Keys, Present(r, k)
  PROVE  Counts'
<1>1. PICK n \in Signed(k) :
        Become(r,
          IF Verified(keys[k].counter, n)
          THEN [Idle EXCEPT !.pc = "counter", !.key = k, !.user = keys[k].user,
                            !.count = n, !.seen = keys[k].counter,
                            !.row = keys[k].row, !.email = users[keys[k].user],
                            !.owner = keys[k].owner, !.late = keys[k].late]
          ELSE [Idle EXCEPT !.pc = "done"])
  BY DEF Present
<1> DEFINE y == [Idle EXCEPT !.pc = "counter", !.key = k, !.user = keys[k].user,
                             !.count = n, !.seen = keys[k].counter,
                             !.row = keys[k].row, !.email = users[keys[k].user],
                             !.owner = keys[k].owner, !.late = keys[k].late]
           z == [Idle EXCEPT !.pc = "done"]
<1>2. /\ y.pc = "counter" /\ y.key = k /\ y.count = n /\ y.seen = keys[k].counter
      /\ y.row = keys[k].row /\ ~y.counted /\ ~y.stale
      /\ z.pc = "done" /\ z.key = 0 /\ ~z.counted /\ ~z.stale
  BY DEF Idle
<1>3. \/ Verified(keys[k].counter, n) /\ Become(r, y)
      \/ Become(r, z)
  BY <1>1
<1> HIDE DEF y, z
<1>4. PICK x : /\ x.pc \in {"counter", "done"} /\ ~x.counted /\ ~x.stale
               /\ x.key = 0 \/ (x.key = k /\ x.row = keys[k].row)
               /\ x.pc = "counter" => Verified(x.seen, x.count)
               /\ \A s \in Requests : request'[s] = IF s = r THEN x ELSE request[s]
  BY <1>2, <1>3, CountsFacts DEF Become
<1>5. /\ request[r] = Idle /\ keys' = keys /\ device' = device
  BY DEF Present
<1>6. ~request[r].counted /\ ~request[r].stale  BY <1>5 DEF Idle
<1>7. \A s \in Requests : Counting(request'[s])
  BY <1>4, CountsFacts DEF Counting
<1>8. Numbered'
  <2>1. 0 \notin Keys  BY DEF Keys
  <2> QED BY <1>4, <1>5, <2>1 DEF Counts, Numbered
<1>9. \A j : Overwritten(j) => Overwritten(j)'
  BY <1>4, <1>6 DEF Overwritten
<1>10. RowCounts'  BY <1>4, <1>5, <1>9 DEF Counts, RowCounts
<1>11. AssertionOnce'  BY <1>4, <1>9, OnceKept
<1> QED BY <1>7, <1>8, <1>10, <1>11 DEF Counts

\* The new row has a number that no request has read.
LEMMA InsertKeyCounts ==
  ASSUME Owned, Counts, NEW r \in Requests, InsertKey(r)
  PROVE  Counts'
<1> DEFINE x   == request[r]
           y   == [x EXCEPT !.pc = "done"]
           row == [user |-> x.user, counter |-> 0, row |-> device[x.key].rows + 1,
                   owner |-> x.email, late |-> users[x.user] # x.email]
<1>1. /\ x \in Request /\ x.pc = "insert" /\ x.key \in Keys /\ ~x.counted /\ ~x.stale
  BY CountsFacts DEF InsertKey, Phase, Counting
<1>2. /\ y.pc = "done" /\ y.key = x.key /\ y.row = x.row /\ y.count = x.count
      /\ y.seen = x.seen /\ y.counted = x.counted /\ y.stale = x.stale
  BY <1>1 DEF Request
<1>3. \A s \in Requests : request'[s] = IF s = r THEN y ELSE request[s]
  BY CountsFacts DEF InsertKey, Become
<1>4. CASE UNCHANGED <<keys, device>>
  <2>1. \A s \in Requests : Same(request[s], request'[s])
    BY <1>1, <1>2, <1>3 DEF Same
  <2> QED BY <1>4, <2>1, QuietCounts
<1>5. CASE /\ device' = [device EXCEPT ![x.key].rows = @ + 1]
           /\ keys' = [keys EXCEPT ![x.key] = row]
  <2>1. \A k \in Keys : /\ k # x.key => keys'[k] = keys[k] /\ device'[k] = device[k]
                        /\ k = x.key => /\ keys'[k].row = device[k].rows + 1
                                        /\ device'[k].rows = device[k].rows + 1
    BY <1>1, <1>5, CountsFacts DEF Device
  <2> HIDE DEF y, row
  <2>2. \A s \in Requests : Counting(request'[s])
    BY <1>1, <1>2, <1>3, CountsFacts DEF Counting
  <2>3. \A s \in Requests : request'[s].key = request[s].key /\ request'[s].row = request[s].row
    BY <1>2, <1>3
  <2>4. Numbered'
    <3>1. ASSUME NEW k \in Keys PROVE keys'[k].row <= device'[k].rows
      BY <2>1, <3>1, NumberedFacts
    <3>2. ASSUME NEW s \in Requests, NEW k \in Keys, request'[s].key = k
          PROVE  request'[s].row <= device'[k].rows
      <4>1. request'[s].row = request[s].row /\ request[s].key = k  BY <2>3, <3>2
      <4>2. /\ request[s].row \in Nat /\ request[s].row <= device[k].rows
            /\ device[k].rows \in Nat
        BY <4>1, NumberedFacts, ReadRow
      <4> QED BY <2>1, <4>1, <4>2
    <3> QED BY <3>1, <3>2 DEF Numbered
  <2>5. \A j : Overwritten(j) => Overwritten(j)'
    BY <1>1, <1>3 DEF Overwritten
  <2>6. RowCounts'
    <3> SUFFICES ASSUME NEW s \in Requests, request'[s].counted, NEW j, j = request'[s].key
                 PROVE  \/ keys'[j] = NoKey
                        \/ keys'[j].row # request'[s].row
                        \/ request'[s].count <= keys'[j].counter
                        \/ Overwritten(j)'
      BY DEF RowCounts, Overwritten
    <3>1. s # r /\ request'[s] = request[s]  BY <1>1, <1>2, <1>3
    <3>2. j \in Keys  BY <3>1, CountsFacts DEF Counting
    <3>3. CASE j = x.key
      <4>1. /\ request[s].row \in Nat /\ request[s].row <= device[j].rows
            /\ device[j].rows \in Nat
        BY <3>1, <3>2, NumberedFacts, ReadRow
      <4> QED BY <2>1, <3>1, <3>2, <3>3, <4>1
    <3>4. CASE j # x.key  BY <2>1, <2>5, <3>1, <3>2, <3>4 DEF Counts, RowCounts
    <3> QED BY <3>3, <3>4
  <2>7. AssertionOnce'  BY <1>2, <1>3, <2>5, OnceKept
  <2> QED BY <2>2, <2>4, <2>6, <2>7 DEF Counts
<1> QED BY <1>4, <1>5 DEF InsertKey

\* The counter that is stored is above all before it in its row, or the row was not as read.
LEMMA StoreCounterCounts ==
  ASSUME Owned, Counts, NEW r \in Requests, StoreCounter(r)
  PROVE  Counts'
<1> DEFINE x   == request[r]
           row == keys[x.key]
           y   == [x EXCEPT !.pc = "user", !.counted = row # NoKey,
                            !.stale = row # NoKey /\ (row.row # x.row \/ row.counter # x.seen)]
<1>1. /\ x \in Request /\ x.pc = "counter" /\ x.key \in Keys /\ device' = device
      /\ Verified(x.seen, x.count) /\ x.count \in Nat /\ x.seen \in Nat
      /\ ~x.counted /\ ~x.stale
      /\ \A s \in Requests : request[s].count \in Nat
  BY CountsFacts DEF StoreCounter, Phase, Counting, Request
<1>2. /\ y.pc = "user" /\ y.key = x.key /\ y.row = x.row /\ y.count = x.count
      /\ y.counted = (row # NoKey)
      /\ y.stale = (row # NoKey /\ (row.row # x.row \/ row.counter # x.seen))
  BY <1>1 DEF Request
<1>3. \A s \in Requests : request'[s] = IF s = r THEN y ELSE request[s]
  BY CountsFacts DEF StoreCounter, Become
<1>4. \A k \in Keys : keys'[k] = IF k = x.key /\ row # NoKey
                                 THEN [keys[k] EXCEPT !.counter = x.count] ELSE keys[k]
  BY CountsFacts DEF StoreCounter
<1>5. row \in Key  BY <1>1, CountsFacts
<1> HIDE DEF y
<1>6. \A s \in Requests : Counting(request'[s])
  BY <1>1, <1>2, <1>3, CountsFacts DEF Counting
<1>7. \A k \in Keys : k # x.key \/ row = NoKey => keys'[k] = keys[k]  BY <1>4
<1>8. Numbered'
  <2>1. ASSUME NEW k \in Keys PROVE keys'[k].row = keys[k].row
    BY <1>4, <2>1, CountsFacts DEF Key
  <2> QED BY <1>1, <1>2, <1>3, <2>1 DEF Counts, Numbered
<1>9. \A j : Overwritten(j) => Overwritten(j)'
  BY <1>1, <1>3 DEF Overwritten
<1>10. CASE row = NoKey
  <2>1. \A s \in Requests : request'[s].counted => s # r /\ request'[s] = request[s]
    BY <1>2, <1>3, <1>10
  <2>2. RowCounts'
    BY <1>7, <1>9, <1>10, <2>1, CountsFacts DEF Counts, RowCounts, Counting
  <2>3. AssertionOnce'  BY <1>9, <2>1, OnceKept
  <2> QED BY <1>6, <1>8, <2>2, <2>3 DEF Counts
<1>11. CASE row # NoKey /\ (row.row # x.row \/ row.counter # x.seen)
  <2>0. PICK k : k = x.key  OBVIOUS
  <2>1. Overwritten(k)'  BY <1>2, <1>3, <1>11, <2>0 DEF Overwritten
  <2>2. ASSUME NEW s \in Requests, request'[s].counted, request'[s].key # x.key
        PROVE  /\ request'[s] = request[s] /\ request[s].key \in Keys
               /\ keys'[request[s].key] = keys[request[s].key]
    <3>1. s # r /\ request'[s] = request[s]  BY <1>2, <1>3, <2>2
    <3>2. request[s].key \in Keys  BY <2>2, <3>1, CountsFacts DEF Counting
    <3> QED BY <1>7, <2>2, <3>1, <3>2
  <2>3. RowCounts'
    <3> SUFFICES ASSUME NEW s \in Requests, request'[s].counted,
                        NEW j, j = request'[s].key
                 PROVE  \/ keys'[j] = NoKey
                        \/ keys'[j].row # request'[s].row
                        \/ request'[s].count <= keys'[j].counter
                        \/ Overwritten(j)'
      BY DEF RowCounts, Overwritten
    <3> QED BY <1>9, <2>0, <2>1, <2>2 DEF Counts, RowCounts
  <2>4. AssertionOnce'
    <3> SUFFICES ASSUME NEW q \in Requests, NEW s \in Requests, NEW j, q # s,
                        request'[q].counted, request'[s].counted,
                        request'[q].key = j, request'[s].key = j,
                        request'[q].row = request'[s].row,
                        request'[q].count = request'[s].count, request'[q].count > 0
                 PROVE  Overwritten(j)'
      BY DEF AssertionOnce, Overwritten
    <3>1. CASE j = x.key  BY <2>0, <2>1, <3>1
    <3>2. CASE j # x.key
      <4>1. request'[q] = request[q] /\ request'[s] = request[s]  BY <2>2, <3>2
      <4>2. Overwritten(j)  BY <4>1 DEF Counts, AssertionOnce, Overwritten
      <4> QED BY <1>9, <4>2
    <3> QED BY <3>1, <3>2
  <2> QED BY <1>6, <1>8, <2>3, <2>4 DEF Counts
<1>12. CASE row # NoKey /\ row.row = x.row /\ row.counter = x.seen
  <2>0. PICK k : k = x.key  OBVIOUS
  <2>1. keys'[x.key].counter = x.count /\ keys'[x.key].row = x.row
    BY <1>1, <1>4, <1>5, <1>12 DEF Key
  <2>2. x.count >= x.seen /\ (x.count > 0 => x.count > x.seen)
    BY <1>1 DEF Verified
  <2>3. ASSUME NEW s \in Requests \ {r}, request[s].counted
        PROVE  /\ request'[s] = request[s] /\ request[s].key \in Keys
               /\ request[s].key = x.key /\ request[s].row = x.row =>
                    request[s].count <= x.seen \/ Overwritten(k)
    BY <1>3, <1>12, <2>0, <2>3, CountsFacts DEF Counts, RowCounts, Counting
  <2>4. RowCounts'
    <3> SUFFICES ASSUME NEW s \in Requests, request'[s].counted,
                        NEW j, j = request'[s].key
                 PROVE  \/ keys'[j] = NoKey
                        \/ keys'[j].row # request'[s].row
                        \/ request'[s].count <= keys'[j].counter
                        \/ Overwritten(j)'
      BY DEF RowCounts, Overwritten
    <3>1. CASE s = r  BY <1>1, <1>2, <1>3, <2>1, <3>1
    <3>2. CASE s # r
      <4>1. request[s].counted /\ request'[s] = request[s]  BY <1>3, <3>2
      <4>2. CASE j = x.key
        BY <1>1, <1>9, <2>0, <2>1, <2>2, <2>3, <3>2, <4>1, <4>2
      <4>3. CASE j # x.key
        BY <1>7, <1>9, <2>3, <3>2, <4>1, <4>3 DEF Counts, RowCounts
      <4> QED BY <4>2, <4>3
    <3> QED BY <3>1, <3>2
  <2>5. ASSUME NEW s \in Requests \ {r}, request'[s].counted, request'[s].key = x.key,
               request'[s].row = x.row, request'[s].count = x.count, x.count > 0
        PROVE  Overwritten(k)'
    <3>1. request[s].counted /\ request'[s] = request[s]  BY <1>3, <2>5
    <3> QED BY <1>1, <1>9, <2>2, <2>3, <2>5, <3>1
  <2>6. AssertionOnce'
    <3> SUFFICES ASSUME NEW q \in Requests, NEW s \in Requests, NEW j, q # s,
                        request'[q].counted, request'[s].counted,
                        request'[q].key = j, request'[s].key = j,
                        request'[q].row = request'[s].row,
                        request'[q].count = request'[s].count, request'[q].count > 0
                 PROVE  Overwritten(j)'
      BY DEF AssertionOnce, Overwritten
    <3>1. CASE q = r  BY <1>2, <1>3, <2>0, <2>5, <3>1
    <3>2. CASE s = r  BY <1>2, <1>3, <2>0, <2>5, <3>2
    <3>3. CASE q # r /\ s # r
      <4>1. request'[q] = request[q] /\ request'[s] = request[s]  BY <1>3, <3>3
      <4>2. Overwritten(j)  BY <4>1 DEF Counts, AssertionOnce, Overwritten
      <4> QED BY <1>9, <4>2
    <3> QED BY <3>1, <3>2, <3>3
  <2> QED BY <1>6, <1>8, <2>4, <2>6 DEF Counts
<1> QED BY <1>10, <1>11, <1>12

LEMMA NextCounts ==
  ASSUME Owned, Counts, [Next]_vars
  PROVE  Counts'
BY OtherCounts, AskInsertCounts, PresentCounts, InsertKeyCounts, StoreCounterCounts,
   ReadingCounts
DEF Next

LEMMA InitCounts ==
  ASSUME PasskeysAssumption, Init
  PROVE  Counts
<1>1. PICK e \in Emails, old \in BOOLEAN, counts \in BOOLEAN :
        /\ keys = [k \in Keys |->
             IF old /\ k = 1 THEN [NoKey EXCEPT !.user = 1, !.row = 1, !.owner = e]
             ELSE NoKey]
        /\ device = [k \in Keys |->
             [user |-> IF old /\ k = 1 THEN 1 ELSE 0, counts |-> counts /\ k = 1,
              last |-> 0, rows |-> IF old /\ k = 1 THEN 1 ELSE 0]]
  BY ZenonT(30) DEF Init
<1>2. \A r \in Requests : /\ request[r].pc = "idle" /\ request[r].key = 0
                          /\ ~request[r].counted /\ ~request[r].stale
  BY DEF Init, Idle
<1>3. Numbered  BY <1>1, <1>2 DEF Numbered, Keys, NoKey
<1> QED BY <1>2, <1>3 DEF Counts, Counting, RowCounts, AssertionOnce

\* For one row of a passkey an assertion gets through once, however requests interleave
\* and are sent again, registrations among them, unless a login wrote over a counter or
\* to a row it had not read (authenticateResponse compares the counter and stores it in
\* two statements).
THEOREM AssertionsCountOnce == PasskeysAssumption => (Spec => []AssertionOnce)
<1> SUFFICES ASSUME PasskeysAssumption PROVE Spec => []AssertionOnce  OBVIOUS
<1>1. Init => Counts  BY InitCounts
<1>2. Owned /\ Counts /\ [Next]_vars => Counts'  BY NextCounts
<1>3. Counts => AssertionOnce  BY DEF Counts
<1> QED BY <1>1, <1>2, <1>3, OwnedInvariant, PTL DEF Spec

-----------------------------------------------------------------------------
(***************************************************************************)
(* Authenticators: what a row grants and what has been granted.            *)
(***************************************************************************)

RequestRecord == [kind : {"none", "assign", "save", "share"},
                  pc   : {"idle", "item", "revoke", "write", "done"},
                  user : Access!Ids \cup {0}, for : Access!People \cup {0},
                  link : Access!Links \cup {0}]

AccessRow == [direct : BOOLEAN, link : Access!Links \cup {0}, for : SUBSET Access!People]

\* A request that is under way names a person who was there, and whose id, if the
\* person is still there, is that of the request.
Meant(x) ==
  /\ x.for \in 0..people
  /\ x.kind \in {"assign", "save"} => x.user \in Access!Ids /\ x.for # 0
  /\ x.kind = "save" => x.link \in Access!Links /\ links[x.link] # "none"
  /\ \A u \in Access!Ids : x.for # 0 /\ accessUsers[u] = x.for => u = x.user

\* A row that exists was made for somebody, and of links that existed.
RowMade(u) ==
  /\ access[u].for \subseteq 1..people
  /\ access[u].for = {} => access[u] = Access!NoRow
  /\ access[u].link # 0 => links[access[u].link] # "none"

\* What has been granted to the owner of u is in the row of u; and nothing else, if
\* nobody else has written it.
RowGrants(u) ==
  /\ <<accessUsers[u], 0>> \in granted => access[u].direct
  /\ \A l \in Access!Links : <<accessUsers[u], l>> \in granted => access[u].link # 0
  /\ access[u].for \subseteq {accessUsers[u]} =>
       /\ access[u].direct => <<accessUsers[u], 0>> \in granted
       /\ \A l \in Access!Links :
            <<accessUsers[u], l>> \in granted <=> access[u].link = l /\ links[l] = "active"

Granted ==
  /\ Access!TypeOK
  /\ granted \subseteq (1..people) \X (Access!Links \cup {0})
  /\ \A u \in Access!Ids : accessUsers[u] <= people
  /\ \A u, v \in Access!Ids : accessUsers[u] = accessUsers[v] /\ accessUsers[u] # 0 => u = v
  /\ \A r \in Requests : Meant(accessRequest[r])
  /\ \A u \in Access!Ids : RowMade(u)
  /\ \A u \in Access!Known : RowGrants(u)

LEMMA GrantedDecide == ASSUME Granted  PROVE Access!GrantsDecide
<1> SUFFICES ASSUME NEW u \in Access!Known, access[u].for \subseteq {accessUsers[u]}
             PROVE  Access!Sees(u) <=> \E g \in granted : g[1] = accessUsers[u]
  BY DEF Access!GrantsDecide
<1>1. u \in Access!Ids /\ RowGrants(u) /\ access[u].link \in Access!Links \cup {0}
  BY DEF Granted, Access!Known, Access!TypeOK
<1>2. ASSUME Access!Sees(u)  PROVE \E g \in granted : g[1] = accessUsers[u]
  <2>1. CASE access[u].direct  BY <1>1, <2>1 DEF RowGrants
  <2>2. CASE access[u].link # 0 /\ links[access[u].link] = "active"
    BY <1>1, <2>2 DEF RowGrants
  <2> QED BY <1>2, <2>1, <2>2 DEF Access!Sees
<1>3. ASSUME NEW g \in granted, g[1] = accessUsers[u]  PROVE Access!Sees(u)
  <2>1. g = <<accessUsers[u], g[2]>> /\ g[2] \in Access!Links \cup {0}  BY <1>3 DEF Granted
  <2>2. CASE g[2] = 0  BY <1>1, <2>1, <2>2 DEF RowGrants, Access!Sees
  <2>3. CASE g[2] \in Access!Links
    <3>1. 0 \notin Access!Links  BY DEF Access!Links
    <3> QED BY <1>1, <2>1, <2>3, <3>1 DEF RowGrants, Access!Sees
  <2> QED BY <2>1, <2>2, <2>3
<1> QED BY <1>2, <1>3

LEMMA InitGranted == ASSUME MaxPeople \in Nat, Access!Init  PROVE Granted
<1>1. Access!TypeOK
  <2>1. Access!Idle \in RequestRecord
    BY DEF Access!Idle, RequestRecord
  <2>2. Access!NoRow \in AccessRow
    BY DEF Access!NoRow, AccessRow
  <2> QED BY <2>1, <2>2 DEF Access!Init, Access!TypeOK, RequestRecord, AccessRow
<1>2. \A r \in Requests : Meant(accessRequest[r])
  <2>1. 0 \in 0..people  BY DEF Access!Init
  <2> QED BY <2>1 DEF Access!Init, Meant, Access!Idle
<1>3. \A u \in Access!Ids : RowMade(u)  BY DEF Access!Init, RowMade, Access!NoRow
<1> QED BY <1>1, <1>2, <1>3 DEF Access!Init, Granted, Access!Known

-----------------------------------------------------------------------------

\* A request of other steps goes on or ends.
LEMMA RequestGoesOn ==
  ASSUME Granted, NEW r \in Requests,
         \/ \E pc \in {"revoke", "write"} : Access!Goes(r, pc)
         \/ Access!Ends(r)
  PROVE  /\ accessRequest' \in [Requests -> RequestRecord]
         /\ \A q \in Requests : Meant(accessRequest'[q])
<1>1. CASE \E pc \in {"revoke", "write"} : Access!Goes(r, pc)
  BY <1>1 DEF Access!Goes, Granted, Access!TypeOK, Meant, AccessRow, RequestRecord
<1>2. CASE Access!Ends(r)
  <2> DEFINE x == [Access!Idle EXCEPT !.pc = "done"]
  <2>1. /\ x \in RequestRecord
        /\ x.kind = "none" /\ x.for = 0
    BY DEF Access!Idle, RequestRecord
  <2>2. Meant(x)  BY <2>1 DEF Meant, Granted, Access!TypeOK
  <2>3. accessRequest' = [accessRequest EXCEPT ![r] = x]  BY <1>2 DEF Access!Ends
  <2> HIDE DEF x
  <2> QED BY <2>1, <2>2, <2>3 DEF Granted, Access!TypeOK, AccessRow, RequestRecord
<1> QED BY <1>1, <1>2

\* A new request.
LEMMA AskMeans ==
  ASSUME MaxPeople \in Nat, Granted, NEW r \in Requests,
         NEW kind \in {"assign", "save", "share"}, NEW pc \in {"item", "write"},
         NEW u \in Access!Known \cup {0}, NEW l \in Access!Links \cup {0},
         Access!Ask(r, kind, pc, u, l),
         kind # "share" => u # 0,
         kind = "save" => l # 0 /\ links[l] # "none"
  PROVE  /\ accessRequest' \in [Requests -> RequestRecord]
         /\ \A q \in Requests : Meant(accessRequest'[q])
<1>1. PICK x \in RequestRecord :
        /\ accessRequest' = [accessRequest EXCEPT ![r] = x]
        /\ x.kind = kind /\ x.user = u /\ x.link = l
        /\ x.for = IF u = 0 THEN 0 ELSE accessUsers[u]
  <2> DEFINE y == [kind |-> kind, pc |-> pc, user |-> u, link |-> l,
                   for |-> IF u = 0 THEN 0 ELSE accessUsers[u]]
  <2>1. (IF u = 0 THEN 0 ELSE accessUsers[u]) \in Access!People \cup {0}
    BY DEF Granted, Access!TypeOK, Access!Known
  <2>2. y \in RequestRecord  BY <2>1 DEF RequestRecord, Access!Known
  <2> QED BY <2>2 DEF Access!Ask
<1>2. 0 \notin Access!Ids /\ 0 \notin Access!Links  BY DEF Access!Ids, Access!Links
<1>3. \A p \in Access!People : p >= 1  BY DEF Access!People
<1>4. Meant(x)
  BY <1>1, <1>2, <1>3 DEF Granted, Access!TypeOK, Access!Known, Meant, Access!People
<1> QED BY <1>1, <1>4 DEF Granted, Access!TypeOK, RequestRecord

\* What is left to show when a step changes requests only.
LEMMA RequestsOnly ==
  ASSUME Granted, accessRequest' \in [Requests -> RequestRecord],
         \A q \in Requests : Meant(accessRequest'[q]),
         UNCHANGED <<accessUsers, people, item, links, access, granted>>
  PROVE  Granted'
<1>1. Access!TypeOK'  BY DEF Granted, Access!TypeOK, RequestRecord
<1>2. \A q \in Requests : Meant(accessRequest[q])'  BY DEF Meant
<1>3. \A u \in Access!Ids : RowMade(u)'  BY DEF Granted, RowMade
<1>4. \A u \in Access!Known' : RowGrants(u)'  BY DEF Granted, RowGrants, Access!Known
<1> QED BY <1>1, <1>2, <1>3, <1>4 DEF Granted

LEMMA AskGrants ==
  ASSUME MaxPeople \in Nat, Granted, NEW r \in Requests,
         \/ \E u \in Access!Ids : Access!Assign(r, u)
         \/ \E u \in Access!Ids, l \in Access!Links : Access!Save(r, u, l)
         \/ Access!Share(r)
  PROVE  Granted'
<1>1. ASSUME NEW u \in Access!Ids, Access!Assign(r, u)  PROVE Granted'
  <2>1. u # 0  BY DEF Access!Ids
  <2> QED BY <1>1, <2>1, AskMeans, RequestsOnly DEF Access!Assign, Access!Known
<1>2. ASSUME NEW u \in Access!Ids, NEW l \in Access!Links, Access!Save(r, u, l)  PROVE Granted'
  <2>1. l # 0 /\ links[l] # "none" /\ u # 0  BY <1>2 DEF Access!Save, Access!Links, Access!Ids
  <2> QED BY <1>2, <2>1, AskMeans, RequestsOnly DEF Access!Save, Access!Known
<1>3. CASE Access!Share(r)  BY <1>3, AskMeans, RequestsOnly DEF Access!Share
<1> QED BY <1>1, <1>2, <1>3

LEMMA ReadItemGrants ==
  ASSUME Granted, NEW r \in Requests, Access!ReadItem(r) \/ Access!Abandon(r)
  PROVE  Granted'
<1>1. (\E pc \in {"revoke", "write"} : Access!Goes(r, pc)) \/ Access!Ends(r)
  BY DEF Access!ReadItem, Access!Abandon
<1>2. UNCHANGED <<accessUsers, people, item, links, access, granted>>
  BY DEF Access!ReadItem, Access!Abandon
<1> QED BY <1>1, <1>2, RequestGoesOn, RequestsOnly DEF RequestRecord

LEMMA RegisterGrants ==
  ASSUME MaxPeople \in Nat, Granted, Access!Register
  PROVE  Granted'
<1>1. PICK u \in Access!Ids : accessUsers' = [accessUsers EXCEPT ![u] = people + 1]
  BY DEF Access!Register
<1>2. /\ people < MaxPeople /\ people' = people + 1
      /\ UNCHANGED <<item, links, access, accessRequest, granted>>
  BY DEF Access!Register
<1>3. people \in Nat /\ people + 1 \in 1..MaxPeople
  BY <1>2 DEF Granted, Access!TypeOK
<1>4. Access!TypeOK'  BY <1>1, <1>2, <1>3 DEF Granted, Access!TypeOK, Access!People
<1>5. /\ granted' \subseteq (1..people') \X (Access!Links \cup {0})
      /\ \A v \in Access!Ids : accessUsers'[v] <= people'
  <2>1. 1..people \subseteq 1..(people + 1)  BY <1>3
  <2>2. \A v \in Access!Ids : accessUsers[v] <= people  BY DEF Granted
  <2>3. \A v \in Access!Ids : accessUsers[v] \in Int  BY DEF Granted, Access!TypeOK, Access!People
  <2> QED BY <1>1, <1>2, <1>3, <2>1, <2>2, <2>3 DEF Granted, Access!TypeOK
<1>6. \A v \in Access!Ids : accessUsers[v] # people + 1
  BY <1>3 DEF Granted, Access!TypeOK, Access!People
<1>7. \A v, w \in Access!Ids : accessUsers'[v] = accessUsers'[w] /\ accessUsers'[v] # 0 => v = w
  BY <1>1, <1>6 DEF Granted, Access!TypeOK
<1>8. \A r \in Requests : Meant(accessRequest[r])'
  <2> SUFFICES ASSUME NEW r \in Requests  PROVE Meant(accessRequest[r])'
    OBVIOUS
  <2>1. Meant(accessRequest[r]) /\ accessRequest'[r] = accessRequest[r]  BY <1>2 DEF Granted
  <2>2. accessRequest[r].for # people + 1 /\ accessRequest[r].for \in Access!People \cup {0}
    BY <1>3, <2>1 DEF Granted, Access!TypeOK, Meant
  <2> QED BY <1>1, <1>2, <1>3, <2>1, <2>2 DEF Meant, Granted, Access!TypeOK
<1>9. \A v \in Access!Ids : RowMade(v)'
  BY <1>2, <1>3 DEF Granted, RowMade
<1>10. \A v \in Access!Known' : RowGrants(v)'
  <2> SUFFICES ASSUME NEW v \in Access!Known'  PROVE RowGrants(v)'
    OBVIOUS
  <2>1. CASE v # u
    BY <1>1, <1>2, <2>1 DEF Granted, Access!TypeOK, Access!Known, RowGrants
  <2>2. CASE v = u
    <3>1. \A g \in Access!Links \cup {0} : <<people + 1, g>> \notin granted
      BY <1>3 DEF Granted
    <3>2. access[u].for \subseteq {people + 1} => access[u] = Access!NoRow
      BY <1>3 DEF Granted, RowMade
    <3>3. 0 \notin Access!Links  BY DEF Access!Links
    <3> QED BY <1>1, <1>2, <2>2, <3>1, <3>2, <3>3
         DEF RowGrants, Granted, Access!TypeOK, Access!NoRow
  <2> QED BY <2>1, <2>2
<1> QED BY <1>4, <1>5, <1>7, <1>8, <1>9, <1>10 DEF Granted

LEMMA DeleteUserGrants ==
  ASSUME Granted, NEW u \in Access!Ids, Access!DeleteUser(u)
  PROVE  Granted'
<1>1. /\ accessUsers' = [accessUsers EXCEPT ![u] = 0]
      /\ granted' = {g \in granted : g[1] # accessUsers[u]}
      /\ UNCHANGED <<people, item, links, access, accessRequest>>
      /\ accessUsers[u] # 0
  BY DEF Access!DeleteUser, Access!Known
<1>2. Access!TypeOK'  BY <1>1 DEF Granted, Access!TypeOK
<1>3. people \in Nat  BY DEF Granted, Access!TypeOK
<1>4. /\ granted' \subseteq (1..people') \X (Access!Links \cup {0})
      /\ \A v \in Access!Ids : accessUsers'[v] <= people'
      /\ \A v, w \in Access!Ids : accessUsers'[v] = accessUsers'[w] /\ accessUsers'[v] # 0 => v = w
  BY <1>1, <1>3 DEF Granted, Access!TypeOK
<1>5. \A r \in Requests : Meant(accessRequest[r])'
  BY <1>1 DEF Granted, Access!TypeOK, Meant
<1>6. \A v \in Access!Ids : RowMade(v)'  BY <1>1 DEF Granted, RowMade
<1>7. \A v \in Access!Known' : RowGrants(v)'
  <2> SUFFICES ASSUME NEW v \in Access!Known'  PROVE RowGrants(v)'
    OBVIOUS
  <2>1. v \in Access!Known /\ accessUsers'[v] = accessUsers[v] /\ accessUsers[v] # accessUsers[u]
    BY <1>1 DEF Granted, Access!TypeOK, Access!Known
  <2>2. \A g : <<accessUsers[v], g>> \in granted' <=> <<accessUsers[v], g>> \in granted
    BY <1>1, <2>1
  <2> QED BY <1>1, <2>1, <2>2 DEF Granted, RowGrants
<1> QED BY <1>2, <1>4, <1>5, <1>6, <1>7 DEF Granted

-----------------------------------------------------------------------------
(* Steps that write rows or links leave the users alone.                   *)

\* What is left to show then.
LEMMA RowsOnly ==
  ASSUME MaxPeople \in Nat, Granted, UNCHANGED <<accessUsers, people>>,
         item' \in BOOLEAN,
         links' \in [Access!Links -> {"none", "active", "ended"}],
         \A l \in Access!Links : links[l] # "none" => links'[l] # "none",
         access' \in [Access!Ids -> AccessRow],
         accessRequest' \in [Requests -> RequestRecord],
         \A q \in Requests : Meant(accessRequest'[q]),
         granted' \subseteq granted \cup ((1..people) \X (Access!Links \cup {0})),
         \A u \in Access!Ids : RowMade(u)',
         \A u \in Access!Known : RowGrants(u)'
  PROVE  Granted'
<1>1. (1..people) \X (Access!Links \cup {0}) \subseteq Access!People \X (Access!Links \cup {0})
  BY DEF Granted, Access!TypeOK, Access!People
<1>2. Access!TypeOK'  BY <1>1 DEF Granted, Access!TypeOK, RequestRecord, AccessRow
<1>3. \A q \in Requests : Meant(accessRequest[q])'  BY DEF Meant
<1>4. Access!Known' = Access!Known  BY DEF Access!Known
<1> QED BY <1>2, <1>3, <1>4 DEF Granted

LEMMA WriteAssignmentGrants ==
  ASSUME MaxPeople \in Nat, Granted, NEW r \in Requests, Access!WriteAssignment(r)
  PROVE  Granted'
<1> DEFINE x == accessRequest[r]
<1>1. /\ x.user \in Access!Ids /\ x.for \in 1..people
      /\ \A v \in Access!Ids : accessUsers[v] = x.for => v = x.user
  BY DEF Granted, Meant, Access!WriteAssignment, Access!TypeOK
<1>2. UNCHANGED <<accessUsers, people, item, links>>  BY DEF Access!WriteAssignment
<1>3. /\ accessRequest' \in [Requests -> RequestRecord]
      /\ \A q \in Requests : Meant(accessRequest'[q])
  BY RequestGoesOn DEF Access!WriteAssignment, RequestRecord
<1>4. CASE ~item
  BY <1>2, <1>3, <1>4, RowsOnly
     DEF Granted, Access!TypeOK, RowMade, RowGrants, Access!WriteAssignment, Access!Known,
         AccessRow, RequestRecord
<1>5. CASE item
  <2>1. PICK row \in AccessRow :
          /\ access' = [access EXCEPT ![x.user] = row]
          /\ row.direct = TRUE /\ row.link = access[x.user].link
          /\ row.for = access[x.user].for \cup {x.for}
    <3>1. access[x.user] \in AccessRow
      BY <1>1 DEF Granted, Access!TypeOK, AccessRow, RequestRecord
    <3>2. x.for \in Access!People  BY <1>1 DEF Granted, Access!TypeOK, Access!People
    <3> DEFINE y == [access[x.user] EXCEPT !.direct = TRUE, !.for = @ \cup {x.for}]
    <3>3. access' = [access EXCEPT ![x.user] = y]
      BY <1>5 DEF Access!WriteAssignment, Access!Assigned
    <3>4. /\ y \in AccessRow
          /\ y.direct = TRUE /\ y.link = access[x.user].link
          /\ y.for = access[x.user].for \cup {x.for}
      BY <3>1, <3>2 DEF AccessRow
    <3> HIDE DEF y
    <3> QED BY <3>3, <3>4
  <2>2. granted' = IF accessUsers[x.user] = x.for THEN granted \cup {<<x.for, 0>>} ELSE granted
    BY <1>5 DEF Access!WriteAssignment, Access!Granting
  <2> HIDE DEF x
  <2>3. access' \in [Access!Ids -> AccessRow]
    BY <1>1, <2>1 DEF Granted, Access!TypeOK, AccessRow, RequestRecord
  <2>4. \A v \in Access!Ids : RowMade(v)'
    BY <1>1, <1>2, <2>1 DEF Granted, Access!TypeOK, RowMade
  <2>5. \A v \in Access!Known : RowGrants(v)'
    <3> SUFFICES ASSUME NEW v \in Access!Known  PROVE RowGrants(v)'
      OBVIOUS
    <3>1. 0 \notin Access!Links  BY DEF Access!Links
    <3>2. v \in Access!Ids /\ RowGrants(v)  BY DEF Granted, Access!Known
    <3>3. CASE v # x.user
      <4>1. access'[v] = access[v] /\ accessUsers[v] # x.for
        BY <1>1, <2>1, <3>2, <3>3 DEF Granted, Access!TypeOK
      <4>2. \A g : <<accessUsers[v], g>> \in granted' <=> <<accessUsers[v], g>> \in granted
        BY <2>2, <4>1
      <4> QED BY <1>2, <3>2, <4>1, <4>2 DEF RowGrants
    <3>4. CASE v = x.user /\ accessUsers[v] = x.for
      <4>1. access'[v] = row  BY <1>1, <2>1, <3>4 DEF Granted, Access!TypeOK
      <4>2. <<accessUsers[v], 0>> \in granted'  BY <2>2, <3>4
      <4>3. \A l \in Access!Links :
              <<accessUsers[v], l>> \in granted' <=> <<accessUsers[v], l>> \in granted
        BY <2>2, <3>1, <3>4
      <4>4. row.for \subseteq {accessUsers[v]} => access[v].for \subseteq {accessUsers[v]}
        BY <2>1, <3>4
      <4> QED BY <1>2, <2>1, <3>2, <3>4, <4>1, <4>2, <4>3, <4>4 DEF RowGrants
    <3>5. CASE v = x.user /\ accessUsers[v] # x.for
      <4>1. access'[v] = row  BY <1>1, <2>1, <3>5 DEF Granted, Access!TypeOK
      <4>2. granted' = granted  BY <2>2, <3>5
      <4>3. ~(row.for \subseteq {accessUsers[v]})  BY <2>1, <3>5
      <4> QED BY <1>2, <2>1, <3>2, <3>5, <4>1, <4>2, <4>3 DEF RowGrants
    <3> QED BY <3>3, <3>4, <3>5
  <2>6. granted' \subseteq granted \cup ((1..people) \X (Access!Links \cup {0}))
    BY <1>1, <2>2
  <2> QED BY <1>2, <1>3, <2>3, <2>4, <2>5, <2>6, RowsOnly DEF Granted, Access!TypeOK
<1> QED BY <1>4, <1>5 DEF Granted, Access!TypeOK

LEMMA WriteSavedGrants ==
  ASSUME MaxPeople \in Nat, Granted, NEW r \in Requests, Access!WriteSaved(r)
  PROVE  Granted'
<1> DEFINE x == accessRequest[r]
<1>1. /\ x.user \in Access!Ids /\ x.for \in 1..people /\ x.link \in Access!Links
      /\ \A v \in Access!Ids : accessUsers[v] = x.for => v = x.user
  BY DEF Granted, Meant, Access!WriteSaved, Access!TypeOK
<1>2. UNCHANGED <<accessUsers, people, item, links>>  BY DEF Access!WriteSaved
<1>3. /\ accessRequest' \in [Requests -> RequestRecord]
      /\ \A q \in Requests : Meant(accessRequest'[q])
  BY RequestGoesOn DEF Access!WriteSaved, RequestRecord
<1>4. CASE links[x.link] # "active"
  BY <1>2, <1>3, <1>4, RowsOnly
     DEF Granted, Access!TypeOK, RowMade, RowGrants, Access!WriteSaved, Access!Known,
         AccessRow, RequestRecord
<1>5. CASE links[x.link] = "active"
  <2>1. PICK row \in AccessRow :
          /\ access' = [access EXCEPT ![x.user] = row]
          /\ row.direct = access[x.user].direct /\ row.link = x.link
          /\ row.for = access[x.user].for \cup {x.for}
    <3>1. access[x.user] \in AccessRow
      BY <1>1 DEF Granted, Access!TypeOK, AccessRow, RequestRecord
    <3>2. x.for \in Access!People  BY <1>1 DEF Granted, Access!TypeOK, Access!People
    <3> DEFINE y == [access[x.user] EXCEPT !.link = x.link, !.for = @ \cup {x.for}]
    <3>3. access' = [access EXCEPT ![x.user] = y]
      BY <1>5 DEF Access!WriteSaved, Access!Saved
    <3>4. /\ y \in AccessRow
          /\ y.direct = access[x.user].direct /\ y.link = x.link
          /\ y.for = access[x.user].for \cup {x.for}
      BY <1>1, <3>1, <3>2 DEF AccessRow
    <3> HIDE DEF y
    <3> QED BY <3>3, <3>4
  <2>2. granted' = {g \in IF accessUsers[x.user] = x.for THEN granted \cup {<<x.for, x.link>>}
                                                   ELSE granted :
                      g[1] = x.for => g[2] \in {0, x.link}}
    BY <1>5 DEF Access!WriteSaved, Access!Granting
  <2> HIDE DEF x
  <2>3. access' \in [Access!Ids -> AccessRow]
    BY <1>1, <2>1 DEF Granted, Access!TypeOK, AccessRow, RequestRecord
  <2>4. \A v \in Access!Ids : RowMade(v)'
    BY <1>1, <1>2, <1>5, <2>1 DEF Granted, Access!TypeOK, RowMade
  <2>5. \A v \in Access!Known : RowGrants(v)'
    <3> SUFFICES ASSUME NEW v \in Access!Known  PROVE RowGrants(v)'
      OBVIOUS
    <3>1. 0 \notin Access!Links  BY DEF Access!Links
    <3>2. v \in Access!Ids /\ RowGrants(v)  BY DEF Granted, Access!Known
    <3>3. CASE v # x.user
      <4>1. access'[v] = access[v] /\ accessUsers[v] # x.for
        BY <1>1, <2>1, <3>2, <3>3 DEF Granted, Access!TypeOK
      <4>2. \A g : <<accessUsers[v], g>> \in granted' <=> <<accessUsers[v], g>> \in granted
        BY <2>2, <4>1
      <4> QED BY <1>2, <3>2, <4>1, <4>2 DEF RowGrants
    <3>4. CASE v = x.user /\ accessUsers[v] = x.for
      <4>1. access'[v] = row  BY <1>1, <2>1, <3>4 DEF Granted, Access!TypeOK
      <4>2. <<accessUsers[v], 0>> \in granted' <=> <<accessUsers[v], 0>> \in granted
        BY <1>1, <2>2, <3>1, <3>4
      <4>3. \A l \in Access!Links : <<accessUsers[v], l>> \in granted' <=> l = x.link
        BY <1>1, <2>2, <3>1, <3>4, <3>2 DEF RowGrants
      <4>4. row.for \subseteq {accessUsers[v]} => access[v].for \subseteq {accessUsers[v]}
        BY <2>1, <3>4
      <4> QED BY <1>1, <1>2, <1>5, <2>1, <3>1, <3>2, <3>4, <4>1, <4>2, <4>3, <4>4 DEF RowGrants
    <3>5. CASE v = x.user /\ accessUsers[v] # x.for
      <4>1. access'[v] = row  BY <1>1, <2>1, <3>5 DEF Granted, Access!TypeOK
      <4>2. granted' \subseteq granted  BY <2>2, <3>5
      <4>3. ~(row.for \subseteq {accessUsers[v]})  BY <2>1, <3>5
      <4> QED BY <1>1, <1>2, <2>1, <3>1, <3>2, <3>5, <4>1, <4>2, <4>3 DEF RowGrants
    <3> QED BY <3>3, <3>4, <3>5
  <2>6. granted' \subseteq granted \cup ((1..people) \X (Access!Links \cup {0}))
    BY <1>1, <2>2
  <2> QED BY <1>2, <1>3, <2>3, <2>4, <2>5, <2>6, RowsOnly DEF Granted, Access!TypeOK
<1> QED BY <1>4, <1>5

\* Withdrawing the assignment leaves the link of the row, and a row without one goes.
LEMMA UnassignGrants ==
  ASSUME MaxPeople \in Nat, Granted, NEW u \in Access!Ids, Access!Unassign(u)
  PROVE  Granted'
<1>1. /\ granted' = granted \ {<<accessUsers[u], 0>>}
      /\ UNCHANGED <<accessUsers, people, item, links, accessRequest>>
  BY DEF Access!Unassign
<1>2. access[u] \in AccessRow
  BY DEF Granted, Access!TypeOK, AccessRow, RequestRecord
<1>3. PICK row \in AccessRow :
        /\ access' = [access EXCEPT ![u] = row]
        /\ row.direct = FALSE /\ row.link = access[u].link
        /\ row.for = IF access[u].link = 0 THEN {} ELSE access[u].for
        /\ row.for = {} => row = Access!NoRow
  <2>1. CASE access[u].link = 0
    <3>1. /\ Access!NoRow \in AccessRow
          /\ Access!NoRow.direct = FALSE /\ Access!NoRow.link = 0 /\ Access!NoRow.for = {}
      BY DEF Access!NoRow, AccessRow
    <3> QED BY <2>1, <3>1 DEF Access!Unassign, Access!Unassigned
  <2>2. CASE access[u].link # 0
    <3> DEFINE y == [access[u] EXCEPT !.direct = FALSE]
    <3>1. access' = [access EXCEPT ![u] = y]  BY <2>2 DEF Access!Unassign, Access!Unassigned
    <3>2. /\ y \in AccessRow
          /\ y.direct = FALSE /\ y.link = access[u].link /\ y.for = access[u].for
      BY <1>2 DEF AccessRow
    <3>3. access[u].for # {}  BY <2>2 DEF Granted, RowMade, Access!NoRow
    <3> HIDE DEF y
    <3> QED BY <2>2, <3>1, <3>2, <3>3
  <2> QED BY <2>1, <2>2
<1>4. access' \in [Access!Ids -> AccessRow]
  BY <1>3 DEF Granted, Access!TypeOK, AccessRow, RequestRecord
<1>5. \A v \in Access!Ids : RowMade(v)'
  BY <1>1, <1>3 DEF Granted, Access!TypeOK, RowMade
<1>6. \A v \in Access!Known : RowGrants(v)'
  <2> SUFFICES ASSUME NEW v \in Access!Known  PROVE RowGrants(v)'
    OBVIOUS
  <2>1. 0 \notin Access!Links  BY DEF Access!Links
  <2>2. v \in Access!Ids /\ RowGrants(v) /\ accessUsers[v] # 0  BY DEF Granted, Access!Known
  <2>3. \A l \in Access!Links :
          <<accessUsers[v], l>> \in granted' <=> <<accessUsers[v], l>> \in granted
    BY <1>1, <2>1
  <2>4. CASE v # u
    <3>1. accessUsers[v] # accessUsers[u]  BY <2>2, <2>4 DEF Granted
    <3>2. access'[v] = access[v]  BY <1>3, <2>2, <2>4 DEF Granted, Access!TypeOK
    <3>3. <<accessUsers[v], 0>> \in granted' <=> <<accessUsers[v], 0>> \in granted  BY <1>1, <3>1
    <3> QED BY <1>1, <2>2, <2>3, <3>2, <3>3 DEF RowGrants
  <2>5. CASE v = u
    <3>1. access'[v] = row  BY <1>3, <2>5 DEF Granted, Access!TypeOK
    <3>2. <<accessUsers[v], 0>> \notin granted'  BY <1>1, <2>5
    <3>3. CASE access[v].link # 0
      BY <1>1, <1>3, <2>2, <2>3, <2>5, <3>1, <3>2, <3>3 DEF RowGrants
    <3>4. CASE access[v].link = 0
      <4>1. \A l \in Access!Links : <<accessUsers[v], l>> \notin granted'
        BY <2>2, <2>3, <3>4 DEF RowGrants
      <4> QED BY <1>1, <1>3, <2>1, <2>5, <3>1, <3>2, <3>4, <4>1 DEF RowGrants
    <3> QED BY <3>3, <3>4
  <2> QED BY <2>4, <2>5
<1> QED BY <1>1, <1>4, <1>5, <1>6, RowsOnly DEF Granted, Access!TypeOK, RequestRecord

LEMMA RemoveGrants ==
  ASSUME MaxPeople \in Nat, Granted, NEW u \in Access!Ids, Access!Remove(u)
  PROVE  Granted'
<1>1. /\ accessUsers[u] # 0
      /\ access' = [access EXCEPT ![u] = Access!NoRow]
      /\ granted' = {g \in granted : g[1] # accessUsers[u]}
      /\ UNCHANGED <<accessUsers, people, item, links, accessRequest>>
  BY DEF Access!Remove, Access!Known
<1>2. /\ Access!NoRow \in AccessRow
      /\ Access!NoRow.direct = FALSE /\ Access!NoRow.link = 0 /\ Access!NoRow.for = {}
  BY DEF Access!NoRow, AccessRow
<1>3. access' \in [Access!Ids -> AccessRow]
  BY <1>1, <1>2 DEF Granted, Access!TypeOK, AccessRow, RequestRecord
<1>4. \A v \in Access!Ids : RowMade(v)'
  BY <1>1, <1>2 DEF Granted, Access!TypeOK, RowMade
<1>5. \A v \in Access!Known : RowGrants(v)'
  <2> SUFFICES ASSUME NEW v \in Access!Known  PROVE RowGrants(v)'
    OBVIOUS
  <2>1. 0 \notin Access!Links  BY DEF Access!Links
  <2>2. v \in Access!Ids /\ RowGrants(v) /\ accessUsers[v] # 0  BY DEF Granted, Access!Known
  <2>3. CASE v # u
    <3>1. accessUsers[v] # accessUsers[u]  BY <2>2, <2>3 DEF Granted
    <3>2. access'[v] = access[v]  BY <1>1, <2>2, <2>3 DEF Granted, Access!TypeOK
    <3>3. \A l : <<accessUsers[v], l>> \in granted' <=> <<accessUsers[v], l>> \in granted
      BY <1>1, <3>1
    <3> QED BY <1>1, <2>2, <3>2, <3>3 DEF RowGrants
  <2>4. CASE v = u
    <3>1. access'[v] = Access!NoRow  BY <1>1, <2>4 DEF Granted, Access!TypeOK
    <3>2. \A l : <<accessUsers[v], l>> \notin granted'  BY <1>1, <2>4
    <3> QED BY <1>1, <1>2, <2>1, <3>1, <3>2 DEF RowGrants
  <2> QED BY <2>3, <2>4
<1> QED BY <1>1, <1>3, <1>4, <1>5, RowsOnly DEF Granted, Access!TypeOK, RequestRecord

-----------------------------------------------------------------------------

\* Links end, and what they granted with them.
LEMMA EndedGrants ==
  ASSUME Granted, NEW ls \in SUBSET Access!Links, Access!Ended(ls),
         UNCHANGED <<accessUsers, access>>
  PROVE  /\ links' \in [Access!Links -> {"none", "active", "ended"}]
         /\ \A l \in Access!Links : links[l] # "none" => links'[l] # "none"
         /\ granted' \subseteq granted
         /\ \A u \in Access!Ids : (access[u].link # 0 => links'[access[u].link] # "none")
         /\ \A u \in Access!Known : RowGrants(u)'
<1>1. links' = [l \in Access!Links |->
                  IF l \in ls /\ links[l] = "active" THEN "ended" ELSE links[l]]
  BY DEF Access!Ended
<1>2. granted' = {g \in granted : g[2] \notin ls}  BY DEF Access!Ended
<1>3. 0 \notin Access!Links  BY DEF Access!Links
<1>4. links' \in [Access!Links -> {"none", "active", "ended"}]
  BY <1>1 DEF Granted, Access!TypeOK
<1>5. \A l \in Access!Links : links[l] # "none" => links'[l] # "none"  BY <1>1
<1>6. \A u \in Access!Ids : (access[u].link # 0 => links'[access[u].link] # "none")
  BY <1>5 DEF Granted, Access!TypeOK, RowMade
<1>7. \A l \in Access!Links : links'[l] = "active" <=> links[l] = "active" /\ l \notin ls
  BY <1>1
<1>8. \A p : \A l : <<p, l>> \in granted' <=> <<p, l>> \in granted /\ l \notin ls
  BY <1>2
<1>9. \A u \in Access!Known : RowGrants(u)'
  BY <1>3, <1>7, <1>8 DEF Granted, RowGrants
<1> QED BY <1>2, <1>4, <1>5, <1>6, <1>9

LEMMA RevokeOthersGrants ==
  ASSUME MaxPeople \in Nat, Granted, NEW r \in Requests, Access!RevokeOthers(r)
  PROVE  Granted'
<1>1. /\ Access!Ended(Access!Links) /\ Access!Goes(r, "write")
      /\ UNCHANGED <<accessUsers, people, item, access>>
  BY DEF Access!RevokeOthers
<1>2. /\ accessRequest' \in [Requests -> RequestRecord]
      /\ \A q \in Requests : Meant(accessRequest'[q])
  BY <1>1, RequestGoesOn DEF RequestRecord
<1>3. \A u \in Access!Ids : RowMade(u)'  BY <1>1, EndedGrants DEF Granted, RowMade
<1> QED BY <1>1, <1>2, <1>3, EndedGrants, RowsOnly
     DEF Granted, Access!TypeOK, AccessRow, RequestRecord

LEMMA EndLinkGrants ==
  ASSUME MaxPeople \in Nat, Granted, NEW l \in Access!Links, Access!EndLink(l)
  PROVE  Granted'
<1>1. Access!Ended({l}) /\ UNCHANGED <<accessUsers, people, item, access, accessRequest>>
  BY DEF Access!EndLink
<1>2. \A u \in Access!Ids : RowMade(u)'  BY <1>1, EndedGrants DEF Granted, RowMade
<1> QED BY <1>1, <1>2, EndedGrants, RowsOnly DEF Granted, Access!TypeOK, RequestRecord, AccessRow

\* A new link: nobody has saved it.
LEMMA InsertLinkGrants ==
  ASSUME MaxPeople \in Nat, Granted, NEW r \in Requests, Access!InsertLink(r)
  PROVE  Granted'
<1>1. Access!Ends(r) /\ UNCHANGED <<accessUsers, people, item, access, granted>>
  BY DEF Access!InsertLink
<1>2. PICK l \in Access!Links :
        links[l] = "none" /\ links' = IF item THEN [links EXCEPT ![l] = "active"] ELSE links
  BY DEF Access!InsertLink
<1>3. /\ accessRequest' \in [Requests -> RequestRecord]
      /\ \A q \in Requests : Meant(accessRequest'[q])
  BY <1>1, RequestGoesOn DEF RequestRecord
<1>4. /\ links' \in [Access!Links -> {"none", "active", "ended"}]
      /\ \A k \in Access!Links : links[k] # "none" => links'[k] # "none"
      /\ \A k \in Access!Links : k # l => links'[k] = links[k]
  BY <1>2 DEF Granted, Access!TypeOK
<1>5. \A u \in Access!Ids : access[u].link # l
  BY <1>2 DEF Granted, Access!TypeOK, RowMade, Access!Links
<1>6. \A u \in Access!Ids : RowMade(u)'
  BY <1>1, <1>4 DEF Granted, Access!TypeOK, RowMade
<1>7. \A u \in Access!Known : RowGrants(u)'
  <2> SUFFICES ASSUME NEW u \in Access!Known  PROVE RowGrants(u)'
    OBVIOUS
  <2>1. u \in Access!Ids /\ RowGrants(u)  BY DEF Granted, Access!Known
  <2> QED BY <1>1, <1>2, <1>4, <1>5, <2>1 DEF RowGrants
<1> QED BY <1>1, <1>3, <1>4, <1>6, <1>7, RowsOnly
     DEF Granted, Access!TypeOK, AccessRow, RequestRecord

LEMMA DeleteItemGrants ==
  ASSUME MaxPeople \in Nat, Granted, Access!DeleteItem
  PROVE  Granted'
<1>1. /\ item' = FALSE /\ access' = [u \in Access!Ids |-> Access!NoRow]
      /\ links' = [l \in Access!Links |-> IF l \in Access!Links \cup {0} /\ links[l] = "active"
                                   THEN "ended" ELSE links[l]]
      /\ granted' = {g \in granted : g[2] \notin Access!Links \cup {0}}
      /\ UNCHANGED <<accessUsers, people, accessRequest>>
  BY DEF Access!DeleteItem, Access!Ended
<1>2. /\ Access!NoRow \in AccessRow
      /\ Access!NoRow.direct = FALSE /\ Access!NoRow.link = 0 /\ Access!NoRow.for = {}
  BY DEF Access!NoRow, AccessRow
<1>3. granted' = {}  BY <1>1 DEF Granted
<1>4. /\ links' \in [Access!Links -> {"none", "active", "ended"}]
      /\ \A l \in Access!Links : links[l] # "none" => links'[l] # "none"
  BY <1>1 DEF Granted, Access!TypeOK
<1>5. access' \in [Access!Ids -> AccessRow]
  BY <1>1, <1>2
<1>6. \A u \in Access!Ids : RowMade(u)'  BY <1>1, <1>2 DEF RowMade
<1>7. \A u \in Access!Known : RowGrants(u)'
  BY <1>1, <1>2, <1>3 DEF RowGrants, Access!Known, Access!Links
<1> QED BY <1>1, <1>3, <1>4, <1>5, <1>6, <1>7, RowsOnly DEF Granted, Access!TypeOK, RequestRecord

LEMMA NextGranted == ASSUME MaxPeople \in Nat, Granted,
                            [Access!Next]_(Access!vars)  PROVE Granted'
<1>1. CASE UNCHANGED Access!vars
  BY <1>1 DEF Access!vars, Granted, Access!TypeOK, Access!Known, Meant, RowMade, RowGrants
<1>2. CASE Access!Register  BY <1>2, RegisterGrants
<1>3. CASE Access!DeleteItem  BY <1>3, DeleteItemGrants
<1>4. ASSUME NEW u \in Access!Ids,
             Access!DeleteUser(u) \/ Access!Unassign(u) \/ Access!Remove(u)  PROVE Granted'
  BY <1>4, DeleteUserGrants, UnassignGrants, RemoveGrants
<1>5. ASSUME NEW l \in Access!Links, Access!EndLink(l)  PROVE Granted'  BY <1>5, EndLinkGrants
<1>6. ASSUME NEW r \in Requests,
             \/ \E u \in Access!Ids :
                  Access!Assign(r, u) \/ \E l \in Access!Links : Access!Save(r, u, l)
             \/ Access!Share(r)
      PROVE  Granted'
  BY <1>6, AskGrants
<1>7. ASSUME NEW r \in Requests,
             \/ Access!ReadItem(r) \/ Access!WriteAssignment(r) \/ Access!WriteSaved(r)
             \/ Access!RevokeOthers(r) \/ Access!InsertLink(r) \/ Access!Abandon(r)
      PROVE  Granted'
  BY <1>7, ReadItemGrants, WriteAssignmentGrants, WriteSavedGrants, RevokeOthersGrants,
     InsertLinkGrants
<1> QED BY <1>1, <1>2, <1>3, <1>4, <1>5, <1>6, <1>7 DEF Access!Next

LEMMA GrantedHolds == MaxPeople \in Nat => (Access!Spec => []Granted)
<1> SUFFICES ASSUME MaxPeople \in Nat  PROVE Access!Spec => []Granted
  OBVIOUS
<1>1. Access!Init => Granted  BY InitGranted
<1>2. Granted /\ [Access!Next]_(Access!vars) => Granted'  BY NextGranted
<1> QED BY <1>1, <1>2, PTL DEF Access!Spec

\* A user has an authenticator exactly while an assignment or an active link grants
\* it to this person, however requests, deletions and new users overlap; only a row
\* that was made for an earlier owner of the id is left out (authenticatorApi).
THEOREM AccessIsGranted ==
  Access!AuthenticatorsAssumption => (Access!Spec => []GrantsDecide)
<1> SUFFICES ASSUME Access!AuthenticatorsAssumption
             PROVE  Access!Spec => []GrantsDecide
  OBVIOUS
<1>1. Access!Spec => []Granted
  BY GrantedHolds DEF Access!AuthenticatorsAssumption
<1>2. Granted => GrantsDecide  BY GrantedDecide DEF GrantsDecide
<1> QED BY <1>1, <1>2, PTL

-----------------------------------------------------------------------------
(***************************************************************************)
(* The roles: the part of MCUserAdmin implements UserAdmin.                *)
(***************************************************************************)

AdminProofs ==
  INSTANCE UserAdminProofs
    WITH MaxId <- MaxUser, users <- accounts, request <- handler

\* AdminProofs!Spec is Admin!Spec: one module, and the same for its parameters.
LEMMA RolesKeep ==
  Admin!UserAdminAssumption =>
    (Admin!Init /\ [][Admin!UsersNext]_(Admin!vars)
       => [](Admin!AdminRowKept /\ Admin!RoleOrigin))
<1> SUFFICES ASSUME Admin!UserAdminAssumption
             PROVE  Admin!Init /\ [][Admin!UsersNext]_(Admin!vars)
                      => [](Admin!AdminRowKept /\ Admin!RoleOrigin)
  OBVIOUS
<1>1. AdminProofs!UserAdminAssumption
  BY DEF
     Admin!UserAdminAssumption, AdminProofs!UserAdminAssumption, Admin!IsFiniteSet,
     AdminProofs!IsFiniteSet, Admin!Texts, AdminProofs!Texts, Admin!Roles, AdminProofs!Roles
<1>2. Admin!Init => AdminProofs!Init
  BY DEF
     Admin!Ids, AdminProofs!Ids, Admin!Root, AdminProofs!Root, Admin!Roles, AdminProofs!Roles,
     Admin!Texts, AdminProofs!Texts, Admin!NoRole, AdminProofs!NoRole, Admin!NoBinding,
     AdminProofs!NoBinding, Admin!Request, AdminProofs!Request, Admin!Exists,
     AdminProofs!Exists, Admin!Alive, AdminProofs!Alive, Admin!RoleRow, AdminProofs!RoleRow,
     Admin!BindingRow, AdminProofs!BindingRow, Admin!Init, AdminProofs!Init
<1>3. [Admin!UsersNext]_(Admin!vars) => [AdminProofs!Next]_(AdminProofs!vars)
  <2>1. \A e : Admin!CreateUser(e) <=> AdminProofs!CreateUser(e)
    BY Zenon DEF
       Admin!CreateUser, AdminProofs!CreateUser, Admin!InsertUser, AdminProofs!InsertUser,
       Admin!Ids, AdminProofs!Ids, Admin!IsNextId, AdminProofs!IsNextId, Admin!Exists,
       AdminProofs!Exists
  <2>2. \A r : Admin!Register(r) <=> AdminProofs!Register(r)
    BY Zenon DEF
       Admin!Register, AdminProofs!Register, Admin!InsertUser, AdminProofs!InsertUser,
       Admin!Ids, AdminProofs!Ids, Admin!Become, AdminProofs!Become, Admin!IsNextId,
       AdminProofs!IsNextId, Admin!Exists, AdminProofs!Exists
  <2>3. \A r : Admin!FindUser(r) <=> AdminProofs!FindUser(r)
    BY Zenon DEF
       Admin!FindUser, AdminProofs!FindUser, Admin!Ids, AdminProofs!Ids, Admin!Become,
       AdminProofs!Become, Admin!Rows, AdminProofs!Rows
  <2>4. \A r : Admin!GrantDefault(r) <=> AdminProofs!GrantDefault(r)
    BY Zenon DEF
       Admin!GrantDefault, AdminProofs!GrantDefault, Admin!RoleFor, AdminProofs!RoleFor,
       Admin!Become, AdminProofs!Become, Admin!Alive, AdminProofs!Alive, Admin!Exists,
       AdminProofs!Exists
  <2>5. \A r : Admin!Ask(r) <=> AdminProofs!Ask(r)
    BY Zenon DEF
       Admin!Ask, AdminProofs!Ask, Admin!Ids, AdminProofs!Ids, Admin!Root, AdminProofs!Root,
       Admin!Texts, AdminProofs!Texts, Admin!Authorized, AdminProofs!Authorized, Admin!Become,
       AdminProofs!Become, Admin!Rows, AdminProofs!Rows, Admin!Roles, AdminProofs!Roles,
       Admin!Exists, AdminProofs!Exists, Admin!IsAdmin, AdminProofs!IsAdmin
  <2>6. \A r : Admin!ReadUser(r) <=> AdminProofs!ReadUser(r)
    BY Zenon DEF
       Admin!ReadUser, AdminProofs!ReadUser, Admin!Become, AdminProofs!Become, Admin!Exists,
       AdminProofs!Exists, Admin!Rows, AdminProofs!Rows
  <2>7. \A r : Admin!ReadRole(r) <=> AdminProofs!ReadRole(r)
    BY Zenon DEF
       Admin!ReadRole, AdminProofs!ReadRole, Admin!Become, AdminProofs!Become, Admin!Demotes,
       AdminProofs!Demotes, Admin!Write, AdminProofs!Write, Admin!Rows, AdminProofs!Rows
  <2>8. \A r : Admin!CountAdmins(r) <=> AdminProofs!CountAdmins(r)
    BY Zenon DEF
       Admin!CountAdmins, AdminProofs!CountAdmins, Admin!Become, AdminProofs!Become,
       Admin!Admins, AdminProofs!Admins, Admin!Write, AdminProofs!Write, Admin!Rows,
       AdminProofs!Rows, Admin!Ids, AdminProofs!Ids, Admin!IsAdmin, AdminProofs!IsAdmin,
       Admin!Cardinality, AdminProofs!Cardinality, Admin!IsFiniteSet, AdminProofs!IsFiniteSet
  <2>9. \A r : Admin!EraseUser(r) <=> AdminProofs!EraseUser(r)
    BY Zenon DEF
       Admin!EraseUser, AdminProofs!EraseUser, Admin!MayDemote, AdminProofs!MayDemote,
       Admin!NoRole, AdminProofs!NoRole, Admin!BoundTo, AdminProofs!BoundTo, Admin!NoBinding,
       AdminProofs!NoBinding, Admin!Become, AdminProofs!Become, Admin!Blind,
       AdminProofs!Blind, Admin!Demotes, AdminProofs!Demotes, Admin!Admins,
       AdminProofs!Admins, Admin!IsAdmin, AdminProofs!IsAdmin, Admin!Ids, AdminProofs!Ids,
       Admin!Cardinality, AdminProofs!Cardinality, Admin!IsFiniteSet, AdminProofs!IsFiniteSet
  <2>10. \A r : Admin!ChangeRole(r) <=> AdminProofs!ChangeRole(r)
    BY Zenon DEF
       Admin!ChangeRole, AdminProofs!ChangeRole, Admin!NoRole, AdminProofs!NoRole,
       Admin!RoleFor, AdminProofs!RoleFor, Admin!MayDemote, AdminProofs!MayDemote,
       Admin!IsAdmin, AdminProofs!IsAdmin, Admin!Become, AdminProofs!Become, Admin!Blind,
       AdminProofs!Blind, Admin!Alive, AdminProofs!Alive, Admin!Demotes, AdminProofs!Demotes,
       Admin!Admins, AdminProofs!Admins, Admin!Exists, AdminProofs!Exists, Admin!Ids,
       AdminProofs!Ids, Admin!Cardinality, AdminProofs!Cardinality, Admin!IsFiniteSet,
       AdminProofs!IsFiniteSet
  <2>11. \A r : Admin!Abandon(r) <=> AdminProofs!Abandon(r)
    BY Zenon DEF
       Admin!Abandon, AdminProofs!Abandon, Admin!Become, AdminProofs!Become, Admin!Rows,
       AdminProofs!Rows
  <2> QED
    BY Zenon,
       <2>1, <2>2, <2>3, <2>4, <2>5, <2>6, <2>7, <2>8, <2>9, <2>10, <2>11
    DEF
       Admin!HandleUser, AdminProofs!HandleUser, Admin!UsersNext, AdminProofs!UsersNext,
       Admin!Next, AdminProofs!Next, Admin!vars, AdminProofs!vars
<1>4. AdminProofs!AdminRowKept => Admin!AdminRowKept
  BY DEF
     Admin!AdminRowKept, AdminProofs!AdminRowKept, Admin!Admins, AdminProofs!Admins,
     Admin!IsAdmin, AdminProofs!IsAdmin, Admin!Ids, AdminProofs!Ids
<1>5. AdminProofs!RoleOrigin => Admin!RoleOrigin
  BY DEF
     Admin!RoleOrigin, AdminProofs!RoleOrigin, Admin!Orphans, AdminProofs!Orphans,
     Admin!Alive, AdminProofs!Alive, Admin!Exists, AdminProofs!Exists, Admin!Ids,
     AdminProofs!Ids
<1>6. AdminProofs!Spec => []AdminProofs!AdminRowKept
  BY <1>1, AdminProofs!AdminRowLasts
<1>7. AdminProofs!Spec => []AdminProofs!RoleOrigin
  BY <1>1, AdminProofs!RolesHaveOrigin
<1> QED BY <1>2, <1>3, <1>4, <1>5, <1>6, <1>7, PTL DEF AdminProofs!Spec

LEMMA RolesPart ==
  Admin!UserAdminAssumption =>
    (MCSpec => [](part = "roles" => Admin!AdminRowKept /\ Admin!RoleOrigin))
<1> SUFFICES ASSUME Admin!UserAdminAssumption
             PROVE  MCSpec => [](part = "roles" => Admin!AdminRowKept /\ Admin!RoleOrigin)
  OBVIOUS
<1>1. part = "roles" /\ [MCNext]_<<part, vars, adminVars, accessVars>>
        => (part = "roles")'
  BY DEF MCNext
<1>2. ~(part = "roles") /\ [MCNext]_<<part, vars, adminVars, accessVars>>
        => (~(part = "roles"))'
  BY DEF MCNext
<1>3. MCInit /\ part = "roles" => Admin!Init  BY DEF MCInit
<1>4. part = "roles" /\ [MCNext]_<<part, vars, adminVars, accessVars>>
        => [Admin!UsersNext]_(Admin!vars)
  BY DEF MCNext, adminVars, Admin!vars
<1>5. Admin!Init /\ [][Admin!UsersNext]_(Admin!vars)
        => [](Admin!AdminRowKept /\ Admin!RoleOrigin)
  BY RolesKeep
<1> QED BY <1>1, <1>2, <1>3, <1>4, <1>5, PTL DEF MCSpec

\* However many requests delete and demote administrators at once, a row with the
\* admin role is left, unless one of them removed a role that it had not seen
\* (deleteUser, updateUserRoles).
THEOREM AdminsStay ==
  Admin!UserAdminAssumption => (MCSpec => []AdminRowKept)
<1> SUFFICES ASSUME Admin!UserAdminAssumption  PROVE MCSpec => []AdminRowKept
  OBVIOUS
<1>1. MCSpec => [](part = "roles" => Admin!AdminRowKept /\ Admin!RoleOrigin)
  BY RolesPart
<1>2. (part = "roles" => Admin!AdminRowKept /\ Admin!RoleOrigin) => AdminRowKept
  BY DEF AdminRowKept
<1> QED BY <1>1, <1>2, PTL

\* Whoever gets the id of a deleted user finds a role only if a request wrote it late
\* or the deletion spared the last administrator's row (deleteUser, updateUserRoles).
THEOREM RolesBelong ==
  Admin!UserAdminAssumption => (MCSpec => []RoleOrigin)
<1> SUFFICES ASSUME Admin!UserAdminAssumption  PROVE MCSpec => []RoleOrigin
  OBVIOUS
<1>1. MCSpec => [](part = "roles" => Admin!AdminRowKept /\ Admin!RoleOrigin)
  BY RolesPart
<1>2. (part = "roles" => Admin!AdminRowKept /\ Admin!RoleOrigin) => RoleOrigin
  BY DEF RoleOrigin
<1> QED BY <1>1, <1>2, PTL
=============================================================================
