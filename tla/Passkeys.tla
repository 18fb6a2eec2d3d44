------------------------------ MODULE Passkeys ------------------------------
(***************************************************************************)
(* Logins by passkey (worker/src/user_api/passkey.ts): the registration of *)
(* a credential, and the login that compares its counter, stores the new   *)
(* one and then looks for the account, one statement at a time.            *)
(*                                                                         *)
(* Requests interleave, arrive in any order, are sent again and may break  *)
(* off; users are deleted, and their ids given to others.  The WebAuthn    *)
(* library is one condition on counters; challenges and signatures that it *)
(* refuses change nothing.  The challenge of a registration is a JWT that  *)
(* names the user and is never used up: its response may be sent again,    *)
(* here without the limit of five minutes.                                 *)
(***************************************************************************)
EXTENDS Integers

CONSTANTS
  Requests,  \* requests of several statements, each made once
  Emails,    \* people, by the address of their account
  NoEmail,   \* "there is no users row"
  MaxUser,   \* bound: ids of users
  MaxKeys,   \* bound: credentials
  MaxCount   \* bound: assertions of one credential

PasskeysAssumption ==
  /\ NoEmail \notin Emails
  /\ MaxUser \in Nat \ {0} /\ MaxKeys \in Nat /\ MaxCount \in Nat

Ids  == 1..MaxUser
Keys == 1..MaxKeys

VARIABLES
  users,    \* users: id -> email, or NoEmail
  keys,     \* user_passkeys, by passkey_id
  device,   \* the authenticators that hold the credentials
  request

vars == <<users, keys, device, request>>

NoKey == [user |-> 0, counter |-> 0, row |-> 0, owner |-> NoEmail, late |-> FALSE]
Idle  == [pc |-> "idle", key |-> 0, user |-> 0, count |-> 0, seen |-> 0, row |-> 0,
          email |-> NoEmail, owner |-> NoEmail, token |-> FALSE,
          counted |-> FALSE, late |-> FALSE, stale |-> FALSE]

Request ==
  [pc : {"idle", "insert", "counter", "user", "issue", "done"},
   key : Keys \cup {0}, user : Ids \cup {0},
   count   : 0..MaxCount,   \* the counter of the assertion
   seen    : 0..MaxCount,   \* the counter of the row it read
   row     : Nat,           \* history: the number of that row
   email   : Emails \cup {NoEmail},
   owner   : Emails \cup {NoEmail},  \* history: who registered the passkey
   token   : BOOLEAN,       \* it has answered with a JWT for email
   counted : BOOLEAN,       \* it has stored the counter of its assertion
   late    : BOOLEAN,       \* history: the account changed after the passkey
                            \* was read, or was another one before
   stale   : BOOLEAN]       \* history: it wrote over a counter, or to a row, that
                            \* it had not read

\* A row of user_passkeys.
Key ==
  [user : Ids \cup {0}, counter : 0..MaxCount,
   row   : Nat,                   \* history: how many rows of it there have been
   owner : Emails \cup {NoEmail},  \* history: who registered it
   late  : BOOLEAN]               \* history: who was gone by then

\* A credential as its authenticator has it.
Device ==
  [user : Ids \cup {0},  \* whom the challenge it was made for names; 0: not made
   counts : BOOLEAN, last : 0..MaxCount,
   rows : Nat]           \* history: rows of user_passkeys it has had

TypeOK ==
  /\ users \in [Ids -> Emails \cup {NoEmail}]
  /\ keys \in [Keys -> Key]
  /\ device \in [Keys -> Device]
  /\ request \in [Requests -> Request]

\* The first user may have a passkey from before.
Init ==
  /\ \E e \in Emails, old \in BOOLEAN, counts \in BOOLEAN :
       /\ users = [u \in Ids |-> IF u = 1 THEN e ELSE NoEmail]
       /\ counts => old
       /\ keys = [k \in Keys |->
            IF old /\ k = 1 THEN [NoKey EXCEPT !.user = 1, !.row = 1, !.owner = e]
            ELSE NoKey]
       /\ device = [k \in Keys |->
            [user |-> IF old /\ k = 1 THEN 1 ELSE 0, counts |-> counts /\ k = 1,
             last |-> 0, rows |-> IF old /\ k = 1 THEN 1 ELSE 0]]
  /\ request = [r \in Requests |-> Idle]

Become(r, x) == request' = [request EXCEPT ![r] = x]

-----------------------------------------------------------------------------
(* Users.                                                                  *)

Known == {u \in Ids : users[u] # NoEmail}

\* SQLite gives the id after the largest one there is.
IsNextId(u) == u - 1 \in Known \cup {0} /\ \A v \in Known : v < u

Register(e) ==
  \E u \in Ids :
    /\ IsNextId(u)
    /\ \A v \in Ids : users[v] # e
    /\ users' = [users EXCEPT ![u] = e]
    /\ UNCHANGED <<keys, device, request>>

\* Mutant: the batch leaves the passkeys of the user.
DeleteUser_KeepsPasskeys(u) ==
  /\ u \in Known
  /\ users' = [users EXCEPT ![u] = NoEmail]
  /\ UNCHANGED <<keys, device, request>>

DeleteUser(u) ==
  /\ u \in Known
  /\ users' = [users EXCEPT ![u] = NoEmail]
  /\ keys' = [k \in Keys |-> IF keys[k].user = u THEN NoKey ELSE keys[k]]
  /\ UNCHANGED <<device, request>>

-----------------------------------------------------------------------------
(* Registration of a passkey.                                              *)

\* registerRequest, and registerResponse up to the insert: the session of the user is
\* valid, and the authenticator makes a new credential, with or without a counter; or
\* the response comes again, of which only the id of the user is compared.
AskInsert(r, u, k) ==
  /\ request[r] = Idle
  /\ u \in Known
  /\ \/ /\ device[k].user = 0
        /\ \E counts \in BOOLEAN :
             device' = [device EXCEPT ![k].user = u, ![k].counts = counts]
     \/ device[k].user = u /\ UNCHANGED device
  /\ Become(r, [Idle EXCEPT !.pc = "insert", !.key = k, !.user = u, !.email = users[u]])
  /\ UNCHANGED <<users, keys>>

\* The index of user_passkeys refuses a second row.
InsertKey(r) ==
  LET x == request[r] IN
  /\ x.pc = "insert"
  /\ \/ keys[x.key] # NoKey /\ UNCHANGED <<keys, device>>
     \/ /\ keys[x.key] = NoKey
        /\ device' = [device EXCEPT ![x.key].rows = @ + 1]
        /\ keys' = [keys EXCEPT ![x.key] =
             [user |-> x.user, counter |-> 0, row |-> device[x.key].rows + 1,
              owner |-> x.email, late |-> users[x.user] # x.email]]
  /\ Become(r, [x EXCEPT !.pc = "done"])
  /\ UNCHANGED users

\* deletePassKey, by the session of its user.
DeleteKey(k) ==
  /\ keys[k].user \in Known
  /\ keys' = [keys EXCEPT ![k] = NoKey]
  /\ UNCHANGED <<users, device, request>>

-----------------------------------------------------------------------------
(* Login.                                                                  *)

\* The authenticator signs a challenge.
Sign(k) ==
  /\ device[k].user # 0 /\ device[k].counts
  /\ device[k].last < MaxCount
  /\ device' = [device EXCEPT ![k].last = @ + 1]
  /\ UNCHANGED <<users, keys, request>>

\* What it has signed may arrive late, or once more.
Signed(k) == IF device[k].counts THEN 1..device[k].last ELSE {0}

\* verifyAuthenticationResponse: a counter that is in use grows.
Verified(known, count) == (known > 0 \/ count > 0) => count > known

\* authenticateResponse up to the verification.
Present(r, k) ==
  /\ request[r] = Idle
  /\ keys[k] # NoKey
  /\ \E n \in Signed(k) :
       Become(r,
         IF Verified(keys[k].counter, n)
         THEN [Idle EXCEPT !.pc = "counter", !.key = k, !.user = keys[k].user,
                           !.count = n, !.seen = keys[k].counter,
                           !.row = keys[k].row, !.email = users[keys[k].user],
                           !.owner = keys[k].owner, !.late = keys[k].late]
         ELSE [Idle EXCEPT !.pc = "done"])
  /\ UNCHANGED <<users, keys, device>>

\* Mutant: the counter of the registration stays.
StoreCounter_Never(r) ==
  LET x == request[r] IN
  /\ x.pc = "counter"
  /\ Become(r, [x EXCEPT !.pc = "user", !.counted = TRUE])
  /\ UNCHANGED <<users, keys, device>>

\* The counter is stored whatever the row has by now.
StoreCounter(r) ==
  LET x == request[r]
      row == keys[x.key]
  IN
  /\ x.pc = "counter"
  /\ keys' = IF row = NoKey THEN keys ELSE [keys EXCEPT ![x.key].counter = x.count]
  /\ Become(r, [x EXCEPT !.pc = "user", !.counted = row # NoKey,
                         !.stale = row # NoKey /\ (row.row # x.row \/ row.counter # x.seen)])
  /\ UNCHANGED <<users, device>>

\* The email of the account, by the id of the row.
ReadUser(r) ==
  LET x == request[r]
      e == users[x.user]
  IN
  /\ x.pc = "user"
  /\ Become(r, [x EXCEPT !.pc = IF e = NoEmail THEN "done" ELSE "issue",
                         !.email = e, !.late = @ \/ e # x.email])
  /\ UNCHANGED <<users, keys, device>>

\* issueUserJwt reads the row again and insists on the email.
Issue(r) ==
  LET x == request[r] IN
  /\ x.pc = "issue"
  /\ Become(r, [x EXCEPT !.pc = "done", !.token = users[x.user] = x.email])
  /\ UNCHANGED <<users, keys, device>>

\* A statement fails, or the runtime kills the handler.
Abandon(r) ==
  /\ request[r].pc \notin {"idle", "done"}
  /\ Become(r, [request[r] EXCEPT !.pc = "done"])
  /\ UNCHANGED <<users, keys, device>>

-----------------------------------------------------------------------------
Next ==
  \/ \E e \in Emails : Register(e)
  \/ \E u \in Ids : DeleteUser(u)
  \/ \E k \in Keys : DeleteKey(k) \/ Sign(k)
  \/ \E r \in Requests :
       \/ \E k \in Keys : Present(r, k) \/ \E u \in Ids : AskInsert(r, u, k)
       \/ InsertKey(r) \/ StoreCounter(r) \/ ReadUser(r) \/ Issue(r) \/ Abandon(r)

Spec == Init /\ [][Next]_vars

-----------------------------------------------------------------------------
(* Properties.                                                             *)

\* A passkey lets in whoever registered it, although the row only has the id of the
\* account and ids go to others: except when the account changed hands while the
\* registration or this login ran.
OpensOwnAccount ==
  \A r \in Requests : request[r].token =>
    request[r].email = request[r].owner \/ request[r].late

\* For one row of a passkey, an assertion that counts gets through once, however often
\* and in whatever order assertions arrive; except after a login wrote over a counter,
\* or to a row, that it had not read.  A passkey that its user deleted may be stored
\* again by the response of its registration, and then starts from zero.
AssertionOnce ==
  \A r, s \in Requests :
    /\ r # s
    /\ request[r].counted /\ request[s].counted
    /\ request[r].key = request[s].key /\ request[r].row = request[s].row
    /\ request[r].count = request[s].count /\ request[r].count > 0
    => \E q \in Requests : request[q].key = request[r].key /\ request[q].stale
=============================================================================
