----------------------------- MODULE UserAdmin -----------------------------
(***************************************************************************)
(* Accounts, roles and bindings: the administrator's requests on users,    *)
(* registration, and the binding of addresses to users.                    *)
(*                                                                         *)
(* A request checks rows one SELECT at a time and then writes, so what it  *)
(* checked may be stale: the user may be gone, its id may belong to a new  *)
(* user (users.id is reused by SQLite), and its role may have changed.     *)
(* Only the demotion of an administrator counts again when it writes.      *)
(***************************************************************************)
EXTENDS Integers, FiniteSets

CONSTANTS
  MaxId,            \* bound: user ids are 1..MaxId
  MaxLives,         \* bound: how many users may get one id, in turn
  Emails,           \* email addresses of users
  NoEmail,          \* "there is no users row"
  Addresses,        \* ids of mail addresses; never reused
  Requests,         \* invocations of the handlers; each runs once
  Operations,       \* the handlers the requests of the instance invoke
  DefaultRole,      \* USER_DEFAULT_ROLE, or "none"
  MaxAddressCount   \* the number of addresses a user may have; 0: unlimited

Ids   == 1..MaxId
Root  == 0                    \* the actor of an administrator session
Roles == {"admin", "member"}  \* "admin" stands for ADMIN_USER_ROLE
Texts == Roles \cup {"none"}

UserAdminAssumption ==
  /\ MaxId \in Nat \ {0}
  /\ MaxLives \in Nat \ {0}
  /\ NoEmail \notin Emails
  /\ IsFiniteSet(Addresses)
  /\ IsFiniteSet(Requests)
  /\ Operations \subseteq {"delete", "role", "bind", "unbind", "register"}
  /\ DefaultRole \in Texts
  /\ MaxAddressCount \in Nat

VARIABLES
  users,      \* users: id -> email, or NoEmail
  life,       \* history: id -> how many users had this id
  roles,      \* user_roles: id -> row
  addresses,  \* the ids in the address table
  bindings,   \* users_address: address id -> row
  request     \* the local state of each handler

vars == <<users, life, roles, addresses, bindings, request>>

\* A row of user_roles or users_address. History: "to" is the user, by the life of
\* its id, whose existence the writer had checked; "late" says that this user or the
\* address was gone when the row was written.
RoleRow    == [text : Texts, to : Nat, late : BOOLEAN]
BindingRow == [user : Ids \cup {0}, to : Nat, late : BOOLEAN]
NoRole     == [text |-> "none", to |-> 0, late |-> FALSE]
NoBinding  == [user |-> 0, to |-> 0, late |-> FALSE]

Request ==
  [pc : {"idle", "address", "user", "role", "count", "erase", "grant", "bound",
         "limit", "insert", "remove", "find", "default", "done"},
   op : {"delete", "role", "bind", "unbind", "register"},
   by : Ids \cup {Root},     \* who asks
   id : Ids,                 \* the user asked about
   new : Texts,              \* the role to give, "none" to clear it
   address : Addresses,
   email : Emails \cup {NoEmail},
   to : Nat,                 \* history: the life of id that was read
   saw : Texts,              \* the role that was read
   blind : BOOLEAN]          \* history: it removed an admin role it had not seen

TypeOK ==
  /\ users \in [Ids -> Emails \cup {NoEmail}]
  /\ \A i, j \in Ids : users[i] = users[j] /\ users[i] # NoEmail => i = j  \* UNIQUE
  /\ life \in [Ids -> 0..MaxLives]
  /\ roles \in [Ids -> RoleRow]
  /\ addresses \in SUBSET Addresses
  /\ bindings \in [Addresses -> BindingRow]
  /\ request \in [Requests -> Request]

Exists(i)   == users[i] # NoEmail
Alive(i, n) == Exists(i) /\ life[i] = n
IsAdmin(i)  == roles[i].text = "admin"
Admins      == {i \in Ids : IsAdmin(i)}   \* rows of user_roles, not users
BoundTo(i)  == {a \in Addresses : bindings[a].user = i}

\* Two users, the first an administrator and the second possibly one.
Init ==
  /\ users \in {u \in [Ids -> Emails \cup {NoEmail}] :
       /\ \A i \in Ids : u[i] # NoEmail <=> i <= 2
       /\ \A i, j \in Ids : u[i] = u[j] /\ u[i] # NoEmail => i = j}
  /\ life = [i \in Ids |-> IF i <= 2 THEN 1 ELSE 0]
  /\ \E text \in Texts :
       roles = [i \in Ids |->
         CASE i = 1 -> [text |-> "admin", to |-> 1, late |-> FALSE]
           [] i = 2 /\ text # "none" -> [text |-> text, to |-> 1, late |-> FALSE]
           [] OTHER -> NoRole]
  /\ addresses = Addresses
  /\ bindings = [a \in Addresses |-> NoBinding]
  /\ \E a \in Addresses :
       request = [r \in Requests |->
         [pc |-> "idle", op |-> "delete", by |-> Root, id |-> 1, new |-> "none",
          address |-> a, email |-> NoEmail, to |-> 0, saw |-> "none", blind |-> FALSE]]

\* Request r goes on as q.
Become(r, q) == request' = [request EXCEPT ![r] = q]

Rows == <<users, life, roles, addresses, bindings>>

-----------------------------------------------------------------------------
(***************************************************************************)
(* Users.                                                                  *)
(***************************************************************************)

\* SQLite gives a new row the id after the largest one in the table.
IsNextId(i) ==
  /\ \A j \in Ids : j >= i => ~Exists(j)
  /\ i > 1 => Exists(i - 1)

\* INSERT INTO users, for an email that has no row.
InsertUser(e) ==
  /\ \A i \in Ids : users[i] # e
  /\ \E i \in Ids :
       /\ IsNextId(i)
       /\ life[i] < MaxLives
       /\ users' = [users EXCEPT ![i] = e]
       /\ life' = [life EXCEPT ![i] = @ + 1]

\* POST /admin/users, and registration without mail verification.
CreateUser(e) ==
  /\ "register" \in Operations
  /\ InsertUser(e)
  /\ UNCHANGED <<roles, addresses, bindings, request>>

\* Registration with mail verification: an upsert, which keeps the id of a row.
Register(r) ==
  LET q == request[r] IN
  /\ q.pc = "idle"
  /\ "register" \in Operations
  /\ \E e \in Emails :
       /\ \/ InsertUser(e)
          \/ (\E i \in Ids : users[i] = e) /\ UNCHANGED <<users, life>>
       /\ Become(r, [q EXCEPT !.op = "register", !.email = e,
                              !.pc = IF DefaultRole = "none" THEN "done" ELSE "find"])
  /\ UNCHANGED <<roles, addresses, bindings>>

\* SELECT id FROM users WHERE user_email = ?
FindUser(r) ==
  LET q == request[r] IN
  /\ q.pc = "find"
  /\ \/ \E i \in Ids : /\ users[i] = q.email
                       /\ Become(r, [q EXCEPT !.pc = "default", !.id = i, !.to = life[i]])
     \/ /\ \A i \in Ids : users[i] # q.email
        /\ Become(r, [q EXCEPT !.pc = "done"])
  /\ UNCHANGED Rows

RoleFor(q, text) == [text |-> text, to |-> q.to, late |-> ~Alive(q.id, q.to)]

\* INSERT the default role ... ON CONFLICT(user_id) DO NOTHING.
GrantDefault(r) ==
  LET q == request[r] IN
  /\ q.pc = "default"
  /\ roles' = IF roles[q.id].text = "none"
              THEN [roles EXCEPT ![q.id] = RoleFor(q, DefaultRole)]
              ELSE roles
  /\ Become(r, [q EXCEPT !.pc = "done"])
  /\ UNCHANGED <<users, life, addresses, bindings>>

-----------------------------------------------------------------------------
(***************************************************************************)
(* The administrator's requests: delete a user, give or clear a role.      *)
(***************************************************************************)

\* The administrator middleware lets a session pass, or a user with the admin role.
Authorized(by) == by = Root \/ (by \in Ids /\ Exists(by) /\ IsAdmin(by))

Ask(r) ==
  LET q == request[r] IN
  /\ q.pc = "idle"
  /\ \E op \in {"delete", "role", "unbind"} \cap Operations, by \in Ids \cup {Root},
        id \in Ids, new \in Texts, a \in Addresses :
       /\ Authorized(by)
       /\ op # "role" => new = "none"
       /\ op # "unbind" => a = q.address
       /\ Become(r, [q EXCEPT !.pc = "user", !.op = op, !.by = by, !.id = id,
                              !.new = new, !.address = a])
  /\ UNCHANGED Rows

Demotes(q) == q.saw = "admin" /\ (q.op = "delete" \/ q.new # "admin")
Write(q)   == IF q.op = "delete" THEN "erase" ELSE "grant"

\* SELECT the target user; an administrator does not delete its own account.
ReadUser(r) ==
  LET q == request[r] IN
  /\ q.pc = "user"
  /\ Become(r, IF ~Exists(q.id) \/ (q.op = "delete" /\ q.by = q.id)
               THEN [q EXCEPT !.pc = "done"]
               ELSE [q EXCEPT !.to = life[q.id],
                              !.pc = CASE q.op = "bind"   -> "bound"
                                       [] q.op = "unbind" -> "remove"
                                       [] OTHER           -> "role"])
  /\ UNCHANGED Rows

\* SELECT its role; an administrator does not demote itself.
ReadRole(r) ==
  LET q    == request[r]
      seen == [q EXCEPT !.saw = roles[q.id].text]
  IN
  /\ q.pc = "role"
  /\ Become(r, [seen EXCEPT !.pc = IF ~Demotes(seen) THEN Write(q)
                                   ELSE IF q.by = q.id THEN "done" ELSE "count"])
  /\ UNCHANGED Rows

CountAdmins(r) ==
  LET q == request[r] IN
  /\ q.pc = "count"
  /\ Become(r, [q EXCEPT !.pc = IF Cardinality(Admins) <= 1 THEN "done" ELSE Write(q)])
  /\ UNCHANGED Rows

\* Mutant: the demotion relies on the count read earlier.
MayDemote_Unchecked(q) == TRUE

\* The condition of the statement that demotes: it counts again.
MayDemote(q) == Demotes(q) => Cardinality(Admins) > 1

\* What the request has removed without having seen it.
Blind(q) == q.blind \/ (IsAdmin(q.id) /\ q.saw # "admin")

\* Mutant: the bindings of the user are forgotten.
EraseUser_KeepsBindings(r) ==
  LET q == request[r] IN
  /\ q.pc = "erase"
  /\ roles' = IF MayDemote(q) THEN [roles EXCEPT ![q.id] = NoRole] ELSE roles
  /\ users' = [users EXCEPT ![q.id] = NoEmail]
  /\ Become(r, [q EXCEPT !.pc = "done", !.blind = Blind(q)])
  /\ UNCHANGED <<life, addresses, bindings>>

\* Mutant: only the role of an administrator is removed.
EraseUser_KeepsRole(r) ==
  LET q == request[r] IN
  /\ q.pc = "erase"
  /\ roles' = IF Demotes(q) /\ MayDemote(q) THEN [roles EXCEPT ![q.id] = NoRole] ELSE roles
  /\ bindings' = [a \in Addresses |-> IF a \in BoundTo(q.id) THEN NoBinding ELSE bindings[a]]
  /\ users' = [users EXCEPT ![q.id] = NoEmail]
  /\ Become(r, [q EXCEPT !.pc = "done", !.blind = Blind(q)])
  /\ UNCHANGED <<life, addresses>>

\* The batch of deleteUser. When the role is kept the answer is 409, but the rest of
\* the batch has been executed.
EraseUser(r) ==
  LET q == request[r] IN
  /\ q.pc = "erase"
  /\ roles' = IF MayDemote(q) THEN [roles EXCEPT ![q.id] = NoRole] ELSE roles
  /\ bindings' = [a \in Addresses |-> IF a \in BoundTo(q.id) THEN NoBinding ELSE bindings[a]]
  /\ users' = [users EXCEPT ![q.id] = NoEmail]
  /\ Become(r, [q EXCEPT !.pc = "done", !.blind = Blind(q)])
  /\ UNCHANGED <<life, addresses>>

\* The DELETE or the upsert of updateUserRoles. A demoting upsert inserts when
\* the row it saw is gone; the condition is about an existing row only.
ChangeRole(r) ==
  LET q   == request[r]
      row == IF q.new = "none" THEN NoRole ELSE RoleFor(q, q.new)
      may == MayDemote(q) \/ (q.new # "none" /\ ~IsAdmin(q.id))
  IN
  /\ q.pc = "grant"
  /\ roles' = IF may THEN [roles EXCEPT ![q.id] = row] ELSE roles
  /\ Become(r, [q EXCEPT !.pc = "done", !.blind = q.new # "admin" /\ Blind(q)])
  /\ UNCHANGED <<users, life, addresses, bindings>>

-----------------------------------------------------------------------------
(***************************************************************************)
(* Bindings.                                                               *)
(***************************************************************************)

\* POST /user_api/bind_address, or the administrator for a user.
AskBind(r) ==
  LET q == request[r] IN
  /\ q.pc = "idle"
  /\ "bind" \in Operations
  /\ \E i \in Ids, a \in Addresses :
       Become(r, [q EXCEPT !.pc = "address", !.op = "bind", !.id = i, !.address = a])
  /\ UNCHANGED Rows

ReadAddress(r) ==
  LET q == request[r] IN
  /\ q.pc = "address"
  /\ Become(r, [q EXCEPT !.pc = IF q.address \in addresses THEN "user" ELSE "done"])
  /\ UNCHANGED Rows

\* An address that is bound to this user already is a success.
ReadBinding(r) ==
  LET q == request[r] IN
  /\ q.pc = "bound"
  /\ Become(r, [q EXCEPT !.pc = IF bindings[q.address].user = q.id THEN "done" ELSE "limit"])
  /\ UNCHANGED Rows

\* isAddressCountLimitReached
Full(n) == MaxAddressCount > 0 /\ n >= MaxAddressCount

CountBindings(r) ==
  LET q == request[r]
      n == Cardinality(BoundTo(q.id))
  IN
  /\ q.pc = "limit"
  /\ Become(r, [q EXCEPT !.pc = IF Full(n) THEN "done" ELSE "insert"])
  /\ UNCHANGED Rows

\* INSERT INTO users_address; address_id is UNIQUE.
InsertBinding(r) ==
  LET q    == request[r]
      free == bindings[q.address].user = 0
      row  == [user |-> q.id, to |-> q.to,
               late |-> ~Alive(q.id, q.to) \/ q.address \notin addresses]
  IN
  /\ q.pc = "insert"
  /\ bindings' = IF free THEN [bindings EXCEPT ![q.address] = row] ELSE bindings
  /\ Become(r, [q EXCEPT !.pc = "done"])
  /\ UNCHANGED <<users, life, roles, addresses>>

\* DELETE FROM users_address WHERE user_id = ? AND address_id = ?  The request names the
\* address by its id, which is not looked up.
Unbind(r) ==
  LET q == request[r] IN
  /\ q.pc = "remove"
  /\ bindings' = IF bindings[q.address].user = q.id
                 THEN [bindings EXCEPT ![q.address] = NoBinding] ELSE bindings
  /\ Become(r, [q EXCEPT !.pc = "done"])
  /\ UNCHANGED <<users, life, roles, addresses>>

\* The deletion of an address, which also removes its binding; for the instances
\* that bind addresses.
RemoveAddress(a) ==
  /\ "bind" \in Operations
  /\ a \in addresses
  /\ addresses' = addresses \ {a}
  /\ bindings' = [bindings EXCEPT ![a] = NoBinding]
  /\ UNCHANGED <<users, life, roles, request>>

\* A statement fails without having been executed, or the runtime kills the handler.
Abandon(r) ==
  /\ request[r].pc \notin {"idle", "done"}
  /\ Become(r, [request[r] EXCEPT !.pc = "done"])
  /\ UNCHANGED Rows

HandleUser(r) ==
  \/ Register(r) \/ FindUser(r) \/ GrantDefault(r)
  \/ Ask(r) \/ ReadUser(r) \/ ReadRole(r) \/ CountAdmins(r) \/ EraseUser(r) \/ ChangeRole(r)
  \/ Abandon(r)

HandleBinding(r) ==
  \/ AskBind(r) \/ ReadAddress(r) \/ ReadBinding(r) \/ CountBindings(r)
  \/ InsertBinding(r) \/ Unbind(r)

UsersNext ==
  \/ \E r \in Requests : HandleUser(r)
  \/ \E e \in Emails : CreateUser(e)

Next ==
  \/ UsersNext
  \/ \E r \in Requests : HandleBinding(r)
  \/ \E a \in Addresses : RemoveAddress(a)

Spec == Init /\ [][Next]_vars

-----------------------------------------------------------------------------
(***************************************************************************)
(* Properties.                                                             *)
(***************************************************************************)

\* Two administrators who delete or demote each other, or themselves through a
\* session, never remove the last admin row of user_roles between them: it can only
\* go unseen, when a request read the role before the promotion it then undoes.
AdminRowKept == Admins # {} \/ \E r \in Requests : request[r].blind

\* The role rows of users that are gone, and were not when the row was written.
Orphans == {i \in Ids : roles[i].text # "none" /\ ~roles[i].late /\ ~Alive(i, roles[i].to)}

\* The next user with the same id finds a role that was not given to it only when a
\* request wrote it for the deleted user after having checked it, or when a deletion
\* that had seen the admin role spared the row as the last one.
RoleOrigin ==
  \A i \in Orphans : \E r \in Requests :
    LET q == request[r] IN q.pc = "done" /\ q.op = "delete" /\ q.id = i /\ q.saw = "admin"

\* A binding whose user or address is gone was written after that deletion, by a
\* request that had checked before: both deletions remove every binding they find.
BindingOrigin ==
  \A a \in Addresses :
    bindings[a].user # 0 /\ ~bindings[a].late =>
      Alive(bindings[a].user, bindings[a].to) /\ a \in addresses

\* The frontend and a test say that the last administrator cannot be demoted or
\* deleted: some existing user keeps the admin role.
LastAdminKept == \E i \in Ids : Exists(i) /\ IsAdmin(i)
=============================================================================
