--------------------------- MODULE UserAdminProofs ---------------------------
(***************************************************************************)
(* The promises of UserAdmin about roles and bindings, for any number of   *)
(* users, ids that are given again, addresses and requests.                *)
(*                                                                         *)
(* A write is judged by the row it finds and by what its request has read; *)
(* the inductive invariant adds what the program counter says about the    *)
(* handler a request runs, and that only a request which has written can   *)
(* have removed an admin role unseen.                                      *)
(***************************************************************************)
EXTENDS UserAdmin, FiniteSetTheorems, TLAPS

\* What the program counter says about the handler and about its past.
Phase(q) ==
  /\ q.pc = "erase" => q.op = "delete"
  /\ q.blind => q.pc = "done"

Records ==
  /\ TypeOK
  /\ \A r \in Requests : Phase(request[r])
  /\ AdminRowKept
  /\ RoleOrigin
  /\ BindingOrigin

-----------------------------------------------------------------------------
(***************************************************************************)
(* A request goes on.                                                      *)
(***************************************************************************)

\* A request that has ended has; one that goes on keeps to its phases.
Moves(r) ==
  \E x \in Request : /\ Become(r, x) /\ Phase(x)
                     /\ request[r].pc # "done" /\ ~request[r].blind

LEMMA RequestFacts ==
  ASSUME Records, NEW r \in Requests
  PROVE  request[r] \in Request /\ Phase(request[r])
BY DEF Records, TypeOK

\* A request that has ended stays as it is when another one goes on.
LEMMA OthersStay ==
  ASSUME Records, NEW r \in Requests, Moves(r)
  PROVE  /\ request' \in [Requests -> Request]
         /\ \A q \in Requests : Phase(request'[q])
         /\ \A q \in Requests : request[q].pc = "done" => request'[q] = request[q]
<1>1. PICK x \in Request : Become(r, x) /\ Phase(x) /\ request[r].pc # "done"
  BY DEF Moves
<1>2. /\ request' \in [Requests -> Request]
      /\ \A q \in Requests : request'[q] = IF q = r THEN x ELSE request[q]
  BY <1>1 DEF Become, Records, TypeOK
<1> QED BY <1>1, <1>2 DEF Records

\* A request that goes on with nothing but its program counter.
LEMMA PcMoves ==
  ASSUME Records, NEW r \in Requests, request[r].pc # "done",
         NEW pc \in {"user", "role", "count", "erase", "grant", "bound", "limit", "insert",
                     "remove", "find", "default", "done"},
         Become(r, [request[r] EXCEPT !.pc = pc]),
         pc = "erase" => request[r].op = "delete"
  PROVE  Moves(r)
<1>1. PICK p \in Request : p = request[r]  BY RequestFacts
<1> DEFINE x == [p EXCEPT !.pc = pc]
<1>2. x \in Request /\ x.pc = pc /\ x.op = p.op /\ x.blind = p.blind  BY DEF Request
<1>3. Become(r, x)  BY <1>1
<1> HIDE DEF x
<1>4. Phase(p)  BY <1>1, RequestFacts
<1>5. Phase(x) /\ ~p.blind  BY <1>1, <1>2, <1>4 DEF Phase
<1> QED BY <1>1, <1>2, <1>3, <1>5 DEF Moves

\* A request that ends with a write of roles.
LEMMA BlindMoves ==
  ASSUME Records, NEW r \in Requests, request[r].pc # "done", NEW b \in BOOLEAN,
         Become(r, [request[r] EXCEPT !.pc = "done", !.blind = b])
  PROVE  /\ Moves(r)
         /\ request'[r].pc = "done" /\ request'[r].blind = b
         /\ request'[r].op = request[r].op /\ request'[r].id = request[r].id
         /\ request'[r].saw = request[r].saw
<1>1. PICK p \in Request : p = request[r]  BY RequestFacts
<1> DEFINE x == [p EXCEPT !.pc = "done", !.blind = b]
<1>2. /\ x \in Request /\ x.pc = "done" /\ x.blind = b
      /\ x.op = p.op /\ x.id = p.id /\ x.saw = p.saw
  BY DEF Request
<1>3. Become(r, x)  BY <1>1
<1> HIDE DEF x
<1>4. Phase(p)  BY <1>1, RequestFacts
<1>5. Phase(x) /\ ~p.blind  BY <1>1, <1>2, <1>4 DEF Phase
<1>6. request'[r] = x  BY <1>3 DEF Become, Records, TypeOK
<1> QED BY <1>1, <1>2, <1>3, <1>5, <1>6 DEF Moves

\* The requests that ask, and those that read a row.
LEMMA AskMoves ==
  ASSUME UserAdminAssumption, Records, NEW r \in Requests, Ask(r) \/ AskBind(r)
  PROVE  Moves(r)
<1>1. PICK p \in Request : p = request[r]  BY RequestFacts
<1>2. p.pc = "idle"  BY <1>1 DEF Ask, AskBind
<1>3. Phase(p)  BY <1>1, RequestFacts
<1>4. CASE Ask(r)
  <2>1. PICK op \in {"delete", "role", "unbind"} \cap Operations,
             by \in Ids \cup {Root}, id \in Ids, new \in Texts, a \in Addresses :
          /\ Authorized(by)
          /\ op # "role" => new = "none"
          /\ op # "unbind" => a = request[r].address
          /\ Become(r, [request[r] EXCEPT !.pc = "user", !.op = op, !.by = by, !.id = id,
                                          !.new = new, !.address = a])
    BY <1>4 DEF Ask
  <2> DEFINE x == [p EXCEPT !.pc = "user", !.op = op, !.by = by, !.id = id,
                            !.new = new, !.address = a]
  <2>2. x \in Request /\ x.pc = "user" /\ x.blind = p.blind  BY DEF Request
  <2>3. Become(r, x)  BY <1>1, <2>1
  <2> HIDE DEF x
  <2> QED BY <1>1, <1>2, <1>3, <2>2, <2>3 DEF Moves, Phase
<1>5. CASE AskBind(r)
  <2>1. PICK i \in Ids, a \in Addresses :
          Become(r, [p EXCEPT !.pc = "address", !.op = "bind", !.id = i, !.address = a])
    BY <1>1, <1>5 DEF AskBind
  <2> DEFINE x == [p EXCEPT !.pc = "address", !.op = "bind", !.id = i, !.address = a]
  <2>2. x \in Request /\ x.pc = "address" /\ x.blind = p.blind  BY DEF Request
  <2>3. Become(r, x)  BY <2>1
  <2> HIDE DEF x
  <2> QED BY <1>1, <1>2, <1>3, <2>2, <2>3 DEF Moves, Phase
<1> QED BY <1>4, <1>5

LEMMA ReadMoves ==
  ASSUME UserAdminAssumption, Records, NEW r \in Requests,
         \/ FindUser(r) \/ ReadUser(r) \/ ReadRole(r) \/ CountAdmins(r)
         \/ ReadAddress(r) \/ ReadBinding(r) \/ CountBindings(r) \/ Abandon(r)
  PROVE  Moves(r)
<1>1. PICK p \in Request : p = request[r]  BY RequestFacts
<1>2. p.pc # "done" /\ Phase(p)
  BY <1>1, RequestFacts DEF FindUser, ReadUser, ReadRole, CountAdmins, ReadAddress,
     ReadBinding, CountBindings, Abandon
<1>3. CASE FindUser(r)
  <2>1. CASE Become(r, [p EXCEPT !.pc = "done"])  BY <1>1, <1>2, <2>1, PcMoves
  <2>2. ASSUME NEW i \in Ids,
               Become(r, [p EXCEPT !.pc = "default", !.id = i, !.to = life[i]])
        PROVE  Moves(r)
    <3>1. PICK n \in Nat : n = life[i]
      <4>1. MaxLives \in Nat  BY DEF UserAdminAssumption
      <4> QED BY <4>1 DEF Records, TypeOK
    <3> DEFINE x == [p EXCEPT !.pc = "default", !.id = i, !.to = n]
    <3>2. x \in Request /\ x.pc = "default" /\ x.blind = p.blind  BY DEF Request
    <3>3. Become(r, x)  BY <2>2, <3>1
    <3> HIDE DEF x
    <3> QED BY <1>1, <1>2, <3>2, <3>3 DEF Moves, Phase
  <2> QED BY <1>1, <1>3, <2>1, <2>2 DEF FindUser
<1>4. CASE ReadUser(r)
  <2>1. CASE Become(r, [p EXCEPT !.pc = "done"])  BY <1>1, <1>2, <2>1, PcMoves
  <2>2. CASE Become(r, [p EXCEPT !.to = life[p.id],
                                 !.pc = CASE p.op = "bind"   -> "bound"
                                          [] p.op = "unbind" -> "remove"
                                          [] OTHER           -> "role"])
    <3>1. PICK n \in Nat : n = life[p.id]
      <4>1. MaxLives \in Nat /\ p.id \in Ids  BY DEF UserAdminAssumption, Request
      <4> QED BY <4>1 DEF Records, TypeOK
    <3>2. PICK pc \in {"bound", "remove", "role"} :
            pc = CASE p.op = "bind"   -> "bound"
                   [] p.op = "unbind" -> "remove"
                   [] OTHER           -> "role"
      BY DEF Request
    <3> DEFINE x == [p EXCEPT !.to = n, !.pc = pc]
    <3>3. x \in Request /\ x.pc = pc /\ x.blind = p.blind  BY DEF Request
    <3>4. Become(r, x)  BY <2>2, <3>1, <3>2
    <3> HIDE DEF x
    <3> QED BY <1>1, <1>2, <3>3, <3>4 DEF Moves, Phase
  <2> QED BY <1>1, <1>4, <2>1, <2>2 DEF ReadUser
<1>5. CASE ReadRole(r)
  <2>1. PICK text \in Texts : text = roles[p.id].text
    <3>1. roles[p.id] \in RoleRow  BY DEF Records, TypeOK, Request
    <3> QED BY <3>1 DEF RoleRow
  <2> DEFINE seen == [p EXCEPT !.saw = text]
  <2>2. seen \in Request /\ seen.op = p.op /\ seen.blind = p.blind  BY DEF Request
  <2>3. Become(r, [seen EXCEPT !.pc = IF ~Demotes(seen) THEN Write(p)
                                      ELSE IF p.by = p.id THEN "done" ELSE "count"])
    BY <1>1, <1>5, <2>1 DEF ReadRole
  <2> HIDE DEF seen
  <2>4. PICK pc \in {"erase", "grant", "done", "count"} :
          /\ pc = IF ~Demotes(seen) THEN Write(p)
                  ELSE IF p.by = p.id THEN "done" ELSE "count"
          /\ pc = "erase" => p.op = "delete"
    BY DEF Write
  <2> DEFINE x == [seen EXCEPT !.pc = pc]
  <2>5. x \in Request /\ x.pc = pc /\ x.op = p.op /\ x.blind = p.blind
    BY <2>2 DEF Request
  <2>6. Become(r, x)  BY <2>3, <2>4
  <2> HIDE DEF x
  <2> QED BY <1>1, <1>2, <2>4, <2>5, <2>6 DEF Moves, Phase
<1>6. CASE CountAdmins(r)
  <2>1. PICK pc \in {"erase", "grant", "done"} :
          /\ pc = IF Cardinality(Admins) <= 1 THEN "done" ELSE Write(p)
          /\ pc = "erase" => p.op = "delete"
    BY DEF Write
  <2> QED BY <1>1, <1>2, <1>6, <2>1, PcMoves DEF CountAdmins
<1>7. CASE ReadAddress(r)
  BY <1>1, <1>2, <1>7, PcMoves DEF ReadAddress
<1>8. CASE ReadBinding(r)
  BY <1>1, <1>2, <1>8, PcMoves DEF ReadBinding
<1>9. CASE CountBindings(r)
  BY <1>1, <1>2, <1>9, PcMoves DEF CountBindings
<1>10. CASE Abandon(r)
  BY <1>1, <1>2, <1>10, PcMoves DEF Abandon
<1> QED BY <1>3, <1>4, <1>5, <1>6, <1>7, <1>8, <1>9, <1>10

-----------------------------------------------------------------------------
(***************************************************************************)
(* Every step keeps the invariant.                                         *)
(***************************************************************************)

\* The requests stay well-formed, and those that have ended stay as they are.
Stays ==
  /\ request' \in [Requests -> Request]
  /\ \A q \in Requests : Phase(request'[q])
  /\ \A q \in Requests : request[q].pc = "done" => request'[q] = request[q]

UsersOK ==
  /\ users \in [Ids -> Emails \cup {NoEmail}]
  /\ \A i, j \in Ids : users[i] = users[j] /\ users[i] # NoEmail => i = j
  /\ life \in [Ids -> 0..MaxLives]

\* No user goes.
Lasting == \A i \in Ids, n \in Nat : Alive(i, n) => Alive(i, n)'

\* What was removed unseen stays recorded.
LEMMA BlindStays ==
  ASSUME Records, Stays, \E r \in Requests : request[r].blind
  PROVE  \E r \in Requests : request'[r].blind
BY DEF Records, Stays, Phase

\* No row of roles, bindings or addresses changes, and no user goes.
LEMMA KeptRecords ==
  ASSUME Records, Stays, UsersOK', Lasting, UNCHANGED <<roles, addresses, bindings>>
  PROVE  Records'
<1>1. TypeOK'  BY DEF Records, TypeOK, Stays, UsersOK
<1>2. AdminRowKept'
  <2>1. CASE Admins # {}  BY <2>1 DEF AdminRowKept, Admins, IsAdmin
  <2>2. CASE \E r \in Requests : request[r].blind  BY <2>2, BlindStays DEF AdminRowKept
  <2> QED BY <2>1, <2>2 DEF Records, AdminRowKept
<1>3. RoleOrigin'
  <2> SUFFICES ASSUME NEW i \in Orphans'
               PROVE  \E r \in Requests :
                        /\ request'[r].pc = "done" /\ request'[r].op = "delete"
                        /\ request'[r].id = i /\ request'[r].saw = "admin"
    BY DEF RoleOrigin
  <2>1. i \in Ids /\ roles[i] \in RoleRow  BY DEF Orphans, Records, TypeOK
  <2>2. i \in Orphans  BY <2>1 DEF Orphans, Lasting, RoleRow
  <2> QED BY <2>2 DEF Records, RoleOrigin, Stays
<1>4. BindingOrigin'
  <2> SUFFICES ASSUME NEW a \in Addresses, bindings[a].user # 0, ~bindings[a].late
               PROVE  Alive(bindings[a].user, bindings[a].to)' /\ a \in addresses
    BY DEF BindingOrigin
  <2>1. bindings[a].user \in Ids /\ bindings[a].to \in Nat
    BY DEF Records, TypeOK, BindingRow
  <2>2. Alive(bindings[a].user, bindings[a].to) /\ a \in addresses
    BY DEF Records, BindingOrigin
  <2> QED BY <2>1, <2>2 DEF Lasting, Alive, Exists
<1> QED BY <1>1, <1>2, <1>3, <1>4 DEF Records, Stays

\* A new user gets an id that nobody has.
LEMMA InsertFacts ==
  ASSUME UserAdminAssumption, Records, NEW e \in Emails, InsertUser(e)
  PROVE  UsersOK' /\ Lasting
<1>1. PICK i \in Ids : /\ IsNextId(i) /\ life[i] < MaxLives
                       /\ users' = [users EXCEPT ![i] = e]
                       /\ life' = [life EXCEPT ![i] = @ + 1]
  BY DEF InsertUser
<1>2. i \in Nat /\ life[i] \in 0..MaxLives /\ MaxLives \in Nat
  BY DEF Ids, Records, TypeOK, UserAdminAssumption
<1>3. ~Exists(i)  BY <1>1, <1>2 DEF IsNextId
<1>4. life[i] + 1 \in 0..MaxLives  BY <1>1, <1>2
<1>5. \A j \in Ids : /\ users'[j] = IF j = i THEN e ELSE users[j]
                     /\ life'[j] = IF j = i THEN life[i] + 1 ELSE life[j]
  BY <1>1 DEF Records, TypeOK
<1>6. \A j \in Ids : users[j] # e  BY DEF InsertUser
<1>7. UsersOK'
  <2>1. users' \in [Ids -> Emails \cup {NoEmail}]  BY <1>1 DEF Records, TypeOK
  <2>2. life' \in [Ids -> 0..MaxLives]  BY <1>1, <1>4 DEF Records, TypeOK
  <2>3. \A j, k \in Ids : users'[j] = users'[k] /\ users'[j] # NoEmail => j = k
    BY <1>5, <1>6 DEF Records, TypeOK
  <2> QED BY <2>1, <2>2, <2>3 DEF UsersOK
<1>8. Lasting  BY <1>3, <1>5 DEF Lasting, Alive, Exists
<1> QED BY <1>7, <1>8

LEMMA RegisterRecords ==
  ASSUME UserAdminAssumption, Records,
         \/ \E e \in Emails : CreateUser(e)
         \/ \E r \in Requests : Register(r)
  PROVE  Records'
<1>1. UNCHANGED <<roles, addresses, bindings>>  BY DEF CreateUser, Register
<1>2. CASE \E e \in Emails : CreateUser(e)
  <2>1. Stays  BY <1>2 DEF CreateUser, Stays, Records, TypeOK
  <2>2. UsersOK' /\ Lasting  BY <1>2, InsertFacts DEF CreateUser
  <2> QED BY <1>1, <2>1, <2>2, KeptRecords
<1>3. CASE \E r \in Requests : Register(r)
  <2>1. PICK r \in Requests : Register(r)  BY <1>3
  <2>2. PICK p \in Request : p = request[r]  BY RequestFacts
  <2>3. PICK e \in Emails :
          /\ \/ InsertUser(e)
             \/ (\E i \in Ids : users[i] = e) /\ UNCHANGED <<users, life>>
          /\ Become(r, [request[r] EXCEPT !.op = "register", !.email = e,
                          !.pc = IF DefaultRole = "none" THEN "done" ELSE "find"])
    BY <2>1 DEF Register
  <2>4. PICK pc \in {"done", "find"} : pc = IF DefaultRole = "none" THEN "done" ELSE "find"
    OBVIOUS
  <2> DEFINE x == [p EXCEPT !.op = "register", !.email = e, !.pc = pc]
  <2>5. x \in Request /\ x.pc = pc /\ x.blind = p.blind  BY DEF Request
  <2>6. Become(r, x) /\ p.pc = "idle"  BY <2>1, <2>2, <2>3, <2>4 DEF Register
  <2> HIDE DEF x
  <2>7. Phase(p)  BY <2>2, RequestFacts
  <2>8. Moves(r)  BY <2>2, <2>5, <2>6, <2>7 DEF Moves, Phase
  <2>9. UsersOK' /\ Lasting
    <3>1. CASE InsertUser(e)  BY <3>1, InsertFacts
    <3>2. CASE UNCHANGED <<users, life>>
      BY <3>2 DEF UsersOK, Lasting, Alive, Exists, Records, TypeOK
    <3> QED BY <2>3, <3>1, <3>2
  <2> QED BY <1>1, <2>8, <2>9, OthersStay, KeptRecords DEF Stays
<1> QED BY <1>2, <1>3

\* The requests that write nothing.
LEMMA ReadRecords ==
  ASSUME Records, (\E r \in Requests : Moves(r)) \/ UNCHANGED request, UNCHANGED Rows
  PROVE  Records'
<1>1. UNCHANGED <<users, life, roles, addresses, bindings>>  BY DEF Rows
<1>2. Stays
  <2>1. CASE UNCHANGED request  BY <2>1 DEF Stays, Records, TypeOK
  <2>2. CASE \E r \in Requests : Moves(r)  BY <2>2, OthersStay DEF Stays
  <2> QED BY <2>1, <2>2
<1>3. UsersOK' /\ Lasting
  BY <1>1 DEF UsersOK, Lasting, Alive, Exists, Records, TypeOK
<1> QED BY <1>1, <1>2, <1>3, KeptRecords

-----------------------------------------------------------------------------
(***************************************************************************)
(* The writes of roles.                                                    *)
(***************************************************************************)

\* Where two rows are admin rows, each leaves another one.
LEMMA AnotherAdmin ==
  ASSUME UserAdminAssumption, Cardinality(Admins) > 1, NEW i \in Ids
  PROVE  \E j \in Admins : j # i
<1> SUFFICES ASSUME \A j \in Admins : j = i  PROVE FALSE
  OBVIOUS
<1>1. Admins \subseteq {i}  OBVIOUS
<1>2. IsFiniteSet({i}) /\ Cardinality({i}) = 1  BY FS_Singleton
<1>3. IsFiniteSet(Admins) /\ Cardinality(Admins) <= 1  BY <1>1, <1>2, FS_Subset
<1>4. Cardinality(Admins) \in Nat  BY <1>3, FS_CardinalityType
<1> QED BY <1>3, <1>4

\* A role is written for a user that its row names.
LEMMA RoleWritten ==
  ASSUME Records, Stays, UNCHANGED <<users, life, addresses, bindings>>,
         NEW i \in Ids, NEW row \in RoleRow, roles' = [roles EXCEPT ![i] = row],
         row.text # "none" /\ ~row.late => Alive(i, row.to),
         AdminRowKept'
  PROVE  Records'
<1>1. TypeOK'
  <2>1. roles' \in [Ids -> RoleRow]  BY DEF Records, TypeOK
  <2> QED BY <2>1 DEF Records, TypeOK, Stays
<1>2. \A j \in Ids : roles'[j] = IF j = i THEN row ELSE roles[j]
  BY DEF Records, TypeOK
<1>3. RoleOrigin'
  <2> SUFFICES ASSUME NEW j \in Orphans'
               PROVE  \E r \in Requests :
                        /\ request'[r].pc = "done" /\ request'[r].op = "delete"
                        /\ request'[r].id = j /\ request'[r].saw = "admin"
    BY DEF RoleOrigin
  <2>1. /\ j \in Ids /\ roles'[j].text # "none" /\ ~roles'[j].late
        /\ ~(users[j] # NoEmail /\ life[j] = roles'[j].to)
    BY DEF Orphans, Alive, Exists
  <2>2. j # i  BY <1>2, <2>1 DEF Alive, Exists
  <2>3. j \in Orphans  BY <1>2, <2>1, <2>2 DEF Orphans, Alive, Exists
  <2> QED BY <2>3 DEF Records, RoleOrigin, Stays
<1>4. BindingOrigin'
  BY DEF Records, BindingOrigin, Alive, Exists
<1> QED BY <1>1, <1>3, <1>4 DEF Records, Stays

\* The row that a request writes for the user it has checked.
LEMMA RoleForRow ==
  ASSUME NEW q \in Request, NEW text \in Texts
  PROVE  /\ RoleFor(q, text) \in RoleRow
         /\ RoleFor(q, text).text = text
         /\ ~RoleFor(q, text).late => Alive(q.id, RoleFor(q, text).to)
<1>1. PICK late \in BOOLEAN : late = ~Alive(q.id, q.to)  OBVIOUS
<1> DEFINE row == [text |-> text, to |-> q.to, late |-> late]
<1>2. /\ row \in RoleRow /\ row.text = text /\ row.to = q.to /\ row.late = late
  BY DEF RoleRow, Request
<1>3. RoleFor(q, text) = row  BY <1>1 DEF RoleFor
<1> HIDE DEF row
<1> QED BY <1>1, <1>2, <1>3

LEMMA GrantDefaultRecords ==
  ASSUME UserAdminAssumption, Records, NEW r \in Requests, GrantDefault(r)
  PROVE  Records'
<1>1. PICK q \in Request : q = request[r]  BY RequestFacts
<1>2. q.pc = "default" /\ Become(r, [request[r] EXCEPT !.pc = "done"])
  BY <1>1 DEF GrantDefault
<1>3. Moves(r)  BY <1>1, <1>2, PcMoves
<1>4. Stays  BY <1>3, OthersStay DEF Stays
<1>5. UNCHANGED <<users, life, addresses, bindings>>  BY DEF GrantDefault
<1>6. CASE roles[q.id].text = "none"
  <2>1. DefaultRole \in Texts  BY DEF UserAdminAssumption
  <2>2. PICK row \in RoleRow : row = RoleFor(q, DefaultRole)  BY <2>1, RoleForRow
  <2>3. row.text # "none" /\ ~row.late => Alive(q.id, row.to)
    BY <2>1, <2>2, RoleForRow
  <2>4. roles' = [roles EXCEPT ![q.id] = row]  BY <1>1, <1>6, <2>2 DEF GrantDefault
  <2>5. q.id \in Ids  BY DEF Request
  <2>6. \A j \in Ids : roles'[j] = IF j = q.id THEN row ELSE roles[j]
    BY <2>4 DEF Records, TypeOK
  <2>7. AdminRowKept'
    <3>1. CASE Admins # {}
      <4>1. PICK j \in Ids : roles[j].text = "admin"  BY <3>1 DEF Admins, IsAdmin
      <4>2. roles'[j].text = "admin"  BY <1>6, <2>6, <4>1
      <4> QED BY <4>2 DEF AdminRowKept, Admins, IsAdmin
    <3>2. CASE \E s \in Requests : request[s].blind
      BY <1>4, <3>2, BlindStays DEF AdminRowKept
    <3> QED BY <3>1, <3>2 DEF Records, AdminRowKept
  <2> QED BY <1>4, <1>5, <2>3, <2>4, <2>5, <2>7, RoleWritten
<1>7. CASE roles[q.id].text # "none"
  <2>1. UNCHANGED roles  BY <1>1, <1>7 DEF GrantDefault
  <2>2. UsersOK' /\ Lasting
    BY <1>5 DEF UsersOK, Lasting, Alive, Exists, Records, TypeOK
  <2> QED BY <1>4, <1>5, <2>1, <2>2, KeptRecords
<1> QED BY <1>6, <1>7

\* The role that a request has not seen to be an admin role is blindly removed.
LEMMA BlindType ==
  ASSUME NEW q \in Request  PROVE Blind(q) \in BOOLEAN
BY DEF Blind, IsAdmin, Request

\* A demotion leaves an administrator, or removed its role unseen.
LEMMA AdminStays ==
  ASSUME UserAdminAssumption, Records, NEW r \in Requests, NEW q \in Request,
         q = request[r], Stays, NEW row \in RoleRow,
         roles' = [roles EXCEPT ![q.id] = row],
         \/ ~IsAdmin(q.id)
         \/ q.saw # "admin" /\ request'[r].blind
         \/ Cardinality(Admins) > 1
  PROVE  AdminRowKept'
<1>1. q.id \in Ids  BY DEF Request
<1>2. \A j \in Ids : j # q.id => roles'[j] = roles[j]  BY DEF Records, TypeOK
<1>3. CASE Cardinality(Admins) > 1
  <2>1. PICK j \in Admins : j # q.id  BY <1>1, <1>3, AnotherAdmin
  <2>2. j \in Ids /\ roles'[j].text = "admin"  BY <1>2, <2>1 DEF Admins, IsAdmin
  <2> QED BY <2>2 DEF AdminRowKept, Admins, IsAdmin
<1>4. CASE q.saw # "admin" /\ request'[r].blind
  BY <1>4 DEF AdminRowKept
<1>5. CASE ~IsAdmin(q.id)
  <2>1. CASE Admins # {}
    <3>1. PICK j \in Ids : roles[j].text = "admin"  BY <2>1 DEF Admins, IsAdmin
    <3>2. j # q.id  BY <1>5, <3>1 DEF IsAdmin
    <3>3. roles'[j].text = "admin"  BY <1>2, <3>1, <3>2
    <3> QED BY <3>3 DEF AdminRowKept, Admins, IsAdmin
  <2>2. CASE \E s \in Requests : request[s].blind
    BY <2>2, BlindStays DEF AdminRowKept
  <2> QED BY <2>1, <2>2 DEF Records, AdminRowKept
<1> QED BY <1>3, <1>4, <1>5

LEMMA NoRoleRow == NoRole \in RoleRow /\ NoRole.text = "none"
BY DEF NoRole, RoleRow, Texts

LEMMA ChangeRoleRecords ==
  ASSUME UserAdminAssumption, Records, NEW r \in Requests, ChangeRole(r)
  PROVE  Records'
<1>1. PICK q \in Request : q = request[r]  BY RequestFacts
<1>2. PICK b \in BOOLEAN : b = (q.new # "admin" /\ Blind(q))  BY BlindType
<1>3. q.pc = "grant" /\ Become(r, [request[r] EXCEPT !.pc = "done", !.blind = b])
  BY <1>1, <1>2 DEF ChangeRole
<1>4. Moves(r) /\ request'[r].blind = b  BY <1>1, <1>3, BlindMoves
<1>5. Stays  BY <1>4, OthersStay DEF Stays
<1>6. UNCHANGED <<users, life, addresses, bindings>>  BY DEF ChangeRole
<1>7. PICK row \in RoleRow :
        /\ row = IF q.new = "none" THEN NoRole ELSE RoleFor(q, q.new)
        /\ row.text = q.new
        /\ row.text # "none" /\ ~row.late => Alive(q.id, row.to)
  <2>1. q.new \in Texts  BY DEF Request
  <2>2. CASE q.new = "none"  BY <2>2, NoRoleRow
  <2>3. CASE q.new # "none"  BY <2>1, <2>3, RoleForRow
  <2> QED BY <2>2, <2>3
<1>8. CASE MayDemote(q) \/ (q.new # "none" /\ ~IsAdmin(q.id))
  <2>1. roles' = [roles EXCEPT ![q.id] = row]  BY <1>1, <1>7, <1>8 DEF ChangeRole
  <2>2. q.id \in Ids  BY DEF Request
  <2>3. AdminRowKept'
    <3>1. CASE q.new = "admin"
      <4>1. roles'[q.id].text = "admin"  BY <1>7, <2>1, <2>2, <3>1 DEF Records, TypeOK
      <4> QED BY <2>2, <4>1 DEF AdminRowKept, Admins, IsAdmin
    <3>2. CASE q.new # "admin"
      <4>1. CASE ~IsAdmin(q.id)  BY <1>1, <1>5, <2>1, <4>1, AdminStays
      <4>2. CASE IsAdmin(q.id) /\ q.saw # "admin"
        <5>1. request'[r].blind  BY <1>2, <1>4, <3>2, <4>2 DEF Blind
        <5> QED BY <1>1, <1>5, <2>1, <4>2, <5>1, AdminStays
      <4>3. CASE IsAdmin(q.id) /\ q.saw = "admin"
        <5>1. Cardinality(Admins) > 1  BY <1>8, <3>2, <4>3 DEF MayDemote, Demotes
        <5> QED BY <1>1, <1>5, <2>1, <5>1, AdminStays
      <4> QED BY <4>1, <4>2, <4>3
    <3> QED BY <3>1, <3>2
  <2> QED BY <1>5, <1>6, <1>7, <2>1, <2>2, <2>3, RoleWritten
<1>9. CASE ~(MayDemote(q) \/ (q.new # "none" /\ ~IsAdmin(q.id)))
  <2>1. UNCHANGED roles  BY <1>1, <1>9 DEF ChangeRole
  <2>2. UsersOK' /\ Lasting
    BY <1>6 DEF UsersOK, Lasting, Alive, Exists, Records, TypeOK
  <2> QED BY <1>5, <1>6, <2>1, <2>2, KeptRecords
<1> QED BY <1>8, <1>9

LEMMA EraseUserRecords ==
  ASSUME UserAdminAssumption, Records, NEW r \in Requests, EraseUser(r)
  PROVE  Records'
<1>1. PICK q \in Request : q = request[r]  BY RequestFacts
<1>2. PICK b \in BOOLEAN : b = Blind(q)  BY <1>1, BlindType
<1>3. q.pc = "erase" /\ Become(r, [request[r] EXCEPT !.pc = "done", !.blind = b])
  BY <1>1, <1>2 DEF EraseUser
<1>4. /\ Moves(r) /\ request'[r].pc = "done" /\ request'[r].blind = b
      /\ request'[r].op = q.op /\ request'[r].id = q.id /\ request'[r].saw = q.saw
  BY <1>1, <1>3, BlindMoves
<1>5. q.op = "delete" /\ q.id \in Ids  BY <1>1, <1>3, RequestFacts DEF Phase, Request
<1>6. Stays  BY <1>4, OthersStay DEF Stays
<1>7. UNCHANGED <<life, addresses>>  BY DEF EraseUser
<1>8. /\ users' = [users EXCEPT ![q.id] = NoEmail]
      /\ bindings' = [a \in Addresses |-> IF a \in BoundTo(q.id) THEN NoBinding ELSE bindings[a]]
      /\ roles' = IF MayDemote(q) THEN [roles EXCEPT ![q.id] = NoRole] ELSE roles
  BY <1>1 DEF EraseUser
<1>9. \A j \in Ids : users'[j] = IF j = q.id THEN NoEmail ELSE users[j]
  BY <1>8 DEF Records, TypeOK
<1>10. \A j \in Ids : j # q.id => roles'[j] = roles[j]
  BY <1>8 DEF Records, TypeOK
<1>11. \A a \in Addresses :
         /\ bindings'[a] \in BindingRow
         /\ bindings'[a].user # 0 => bindings'[a] = bindings[a] /\ bindings[a].user # q.id
  <2>1. NoBinding \in BindingRow /\ NoBinding.user = 0  BY DEF NoBinding, BindingRow
  <2> QED BY <1>8, <2>1 DEF BoundTo, Records, TypeOK
<1>12. TypeOK'
  <2>1. users' \in [Ids -> Emails \cup {NoEmail}]  BY <1>8 DEF Records, TypeOK
  <2>2. \A i, j \in Ids : users'[i] = users'[j] /\ users'[i] # NoEmail => i = j
    BY <1>9 DEF Records, TypeOK
  <2>3. roles' \in [Ids -> RoleRow]  BY <1>8, NoRoleRow DEF Records, TypeOK
  <2>4. bindings' \in [Addresses -> BindingRow]  BY <1>8, <1>11
  <2> QED BY <1>6, <1>7, <2>1, <2>2, <2>3, <2>4 DEF Records, TypeOK, Stays
<1>13. AdminRowKept'
  <2>1. CASE MayDemote(q)
    <3>1. roles' = [roles EXCEPT ![q.id] = NoRole]  BY <1>8, <2>1
    <3>2. CASE ~IsAdmin(q.id)  BY <1>1, <1>6, <3>1, <3>2, NoRoleRow, AdminStays
    <3>3. CASE IsAdmin(q.id) /\ q.saw # "admin"
      <4>1. request'[r].blind  BY <1>2, <1>4, <3>3 DEF Blind
      <4> QED BY <1>1, <1>6, <3>1, <3>3, <4>1, NoRoleRow, AdminStays
    <3>4. CASE IsAdmin(q.id) /\ q.saw = "admin"
      <4>1. Cardinality(Admins) > 1  BY <1>5, <2>1, <3>4 DEF MayDemote, Demotes
      <4> QED BY <1>1, <1>6, <3>1, <4>1, NoRoleRow, AdminStays
    <3> QED BY <3>2, <3>3, <3>4
  <2>2. CASE ~MayDemote(q)
    <3>1. UNCHANGED roles  BY <1>8, <2>2
    <3>2. CASE Admins # {}  BY <3>1, <3>2 DEF AdminRowKept, Admins, IsAdmin
    <3>3. CASE \E s \in Requests : request[s].blind
      BY <1>6, <3>3, BlindStays DEF AdminRowKept
    <3> QED BY <3>2, <3>3 DEF Records, AdminRowKept
  <2> QED BY <2>1, <2>2
<1>14. RoleOrigin'
  <2> SUFFICES ASSUME NEW j \in Orphans'
               PROVE  \E s \in Requests :
                        /\ request'[s].pc = "done" /\ request'[s].op = "delete"
                        /\ request'[s].id = j /\ request'[s].saw = "admin"
    BY DEF RoleOrigin
  <2>1. /\ j \in Ids /\ roles'[j].text # "none" /\ ~roles'[j].late
        /\ ~(users'[j] # NoEmail /\ life[j] = roles'[j].to)
    BY <1>7 DEF Orphans, Alive, Exists
  <2>2. CASE j = q.id
    <3>1. ~MayDemote(q)
      BY <1>5, <1>8, <2>1, <2>2, NoRoleRow DEF Records, TypeOK
    <3>2. q.saw = "admin"  BY <3>1 DEF MayDemote, Demotes
    <3> QED BY <1>4, <1>5, <2>2, <3>2
  <2>3. CASE j # q.id
    <3>1. j \in Orphans  BY <1>9, <1>10, <2>1, <2>3 DEF Orphans, Alive, Exists
    <3> QED BY <1>6, <3>1 DEF Records, RoleOrigin, Stays
  <2> QED BY <2>2, <2>3
<1>15. BindingOrigin'
  <2> SUFFICES ASSUME NEW a \in Addresses, bindings'[a].user # 0, ~bindings'[a].late
               PROVE  /\ users'[bindings'[a].user] # NoEmail
                      /\ life'[bindings'[a].user] = bindings'[a].to
                      /\ a \in addresses'
    BY DEF BindingOrigin, Alive, Exists
  <2>1. PICK row \in BindingRow : row = bindings[a]  BY DEF Records, TypeOK
  <2>2. bindings'[a] = row /\ row.user # q.id /\ row.user # 0 /\ ~row.late
    BY <1>11, <2>1
  <2>3. row.user \in Ids  BY <2>2 DEF BindingRow
  <2>4. users[row.user] # NoEmail /\ life[row.user] = row.to /\ a \in addresses
    BY <2>1, <2>2 DEF Records, BindingOrigin, Alive, Exists
  <2> QED BY <1>7, <1>9, <2>2, <2>3, <2>4
<1> QED BY <1>6, <1>12, <1>13, <1>14, <1>15 DEF Records, Stays

-----------------------------------------------------------------------------
(***************************************************************************)
(* The writes of bindings.                                                 *)
(***************************************************************************)

\* Bindings are written or removed; users, roles and addresses stay.
LEMMA BindingsWritten ==
  ASSUME Records, Stays, UNCHANGED <<users, life, roles>>,
         addresses' \in SUBSET Addresses, bindings' \in [Addresses -> BindingRow],
         \A a \in Addresses :
           bindings'[a].user # 0 /\ ~bindings'[a].late =>
             Alive(bindings'[a].user, bindings'[a].to) /\ a \in addresses'
  PROVE  Records'
<1>1. TypeOK'  BY DEF Records, TypeOK, Stays
<1>2. AdminRowKept'
  <2>1. CASE Admins # {}  BY <2>1 DEF AdminRowKept, Admins, IsAdmin
  <2>2. CASE \E r \in Requests : request[r].blind  BY <2>2, BlindStays DEF AdminRowKept
  <2> QED BY <2>1, <2>2 DEF Records, AdminRowKept
<1>3. RoleOrigin'
  <2> SUFFICES ASSUME NEW i \in Orphans'
               PROVE  \E r \in Requests :
                        /\ request'[r].pc = "done" /\ request'[r].op = "delete"
                        /\ request'[r].id = i /\ request'[r].saw = "admin"
    BY DEF RoleOrigin
  <2>1. i \in Orphans  BY DEF Orphans, Alive, Exists
  <2> QED BY <2>1 DEF Records, RoleOrigin, Stays
<1>4. BindingOrigin'  BY DEF BindingOrigin, Alive, Exists
<1> QED BY <1>1, <1>2, <1>3, <1>4 DEF Records, Stays

LEMMA NoBindingRow == NoBinding \in BindingRow /\ NoBinding.user = 0
BY DEF NoBinding, BindingRow

LEMMA InsertBindingRecords ==
  ASSUME UserAdminAssumption, Records, NEW r \in Requests, InsertBinding(r)
  PROVE  Records'
<1>1. PICK q \in Request : q = request[r]  BY RequestFacts
<1>2. q.pc = "insert" /\ Become(r, [request[r] EXCEPT !.pc = "done"])
  BY <1>1 DEF InsertBinding
<1>3. Moves(r)  BY <1>1, <1>2, PcMoves
<1>4. Stays  BY <1>3, OthersStay DEF Stays
<1>5. UNCHANGED <<users, life, roles, addresses>>  BY DEF InsertBinding
<1>6. PICK late \in BOOLEAN : late = (~Alive(q.id, q.to) \/ q.address \notin addresses)
  OBVIOUS
<1> DEFINE row == [user |-> q.id, to |-> q.to, late |-> late]
<1>7. row \in BindingRow /\ row.user = q.id /\ row.to = q.to /\ row.late = late
  BY DEF BindingRow, Request
<1>8. bindings' = IF bindings[q.address].user = 0
                  THEN [bindings EXCEPT ![q.address] = row] ELSE bindings
  BY <1>1, <1>6 DEF InsertBinding
<1> HIDE DEF row
<1>9. bindings' \in [Addresses -> BindingRow]  BY <1>7, <1>8 DEF Records, TypeOK
<1>10. ASSUME NEW a \in Addresses, bindings'[a].user # 0, ~bindings'[a].late
       PROVE  Alive(bindings'[a].user, bindings'[a].to) /\ a \in addresses'
  <2>1. PICK new \in BindingRow : new = bindings'[a]  BY <1>9
  <2>2. (new = row /\ a = q.address) \/ new = bindings[a]  BY <1>8, <2>1 DEF Records, TypeOK
  <2>3. CASE new = row /\ a = q.address
    <3>1. ~late  BY <1>7, <1>10, <2>1, <2>3
    <3>2. Alive(new.user, new.to) /\ a \in addresses  BY <1>6, <1>7, <2>3, <3>1
    <3> QED BY <1>5, <2>1, <3>2 DEF Alive, Exists
  <2>4. CASE new = bindings[a]
    <3>1. Alive(new.user, new.to) /\ a \in addresses
      BY <1>10, <2>1, <2>4 DEF Records, BindingOrigin
    <3> QED BY <1>5, <2>1, <3>1 DEF Alive, Exists
  <2> QED BY <2>2, <2>3, <2>4
<1> QED BY <1>4, <1>5, <1>9, <1>10, BindingsWritten DEF Records, TypeOK

\* Bindings that are removed, with their address or without.
LEMMA BindingsRemoved ==
  ASSUME Records, Stays, UNCHANGED <<users, life, roles>>,
         NEW a \in Addresses,
         \/ UNCHANGED bindings \/ bindings' = [bindings EXCEPT ![a] = NoBinding],
         \/ UNCHANGED addresses
         \/ /\ addresses' = addresses \ {a}
            /\ bindings' = [bindings EXCEPT ![a] = NoBinding]
  PROVE  Records'
<1>1. bindings' \in [Addresses -> BindingRow]  BY NoBindingRow DEF Records, TypeOK
<1>2. addresses' \in SUBSET Addresses  BY DEF Records, TypeOK
<1>3. ASSUME NEW b \in Addresses, bindings'[b].user # 0, ~bindings'[b].late
      PROVE  Alive(bindings'[b].user, bindings'[b].to) /\ b \in addresses'
  <2>1. bindings'[b] = bindings[b]  BY <1>3, NoBindingRow DEF Records, TypeOK
  <2>2. Alive(bindings[b].user, bindings[b].to) /\ b \in addresses
    BY <1>3, <2>1 DEF Records, BindingOrigin
  <2>3. b \in addresses'  BY <1>3, <2>2, NoBindingRow DEF Records, TypeOK
  <2>4. PICK row : row = bindings[b]  OBVIOUS
  <2> QED BY <2>1, <2>2, <2>3, <2>4 DEF Alive, Exists
<1> QED BY <1>1, <1>2, <1>3, BindingsWritten

LEMMA UnbindRecords ==
  ASSUME UserAdminAssumption, Records, NEW r \in Requests, Unbind(r)
  PROVE  Records'
<1>1. PICK q \in Request : q = request[r]  BY RequestFacts
<1>2. q.pc = "remove" /\ Become(r, [request[r] EXCEPT !.pc = "done"])
  BY <1>1 DEF Unbind
<1>3. Moves(r)  BY <1>1, <1>2, PcMoves
<1>4. Stays  BY <1>3, OthersStay DEF Stays
<1>5. \/ UNCHANGED bindings
      \/ bindings' = [bindings EXCEPT ![q.address] = NoBinding]
  BY <1>1 DEF Unbind
<1>6. UNCHANGED <<users, life, roles, addresses>> /\ q.address \in Addresses
  BY DEF Unbind, Request
<1> QED BY <1>4, <1>5, <1>6, BindingsRemoved

LEMMA RemoveAddressRecords ==
  ASSUME Records, NEW a \in Addresses, RemoveAddress(a)
  PROVE  Records'
<1>1. Stays  BY DEF RemoveAddress, Stays, Records, TypeOK
<1> QED BY <1>1, BindingsRemoved DEF RemoveAddress

-----------------------------------------------------------------------------
(***************************************************************************)
(* The invariant.                                                          *)
(***************************************************************************)

LEMMA InitRecords ==
  ASSUME UserAdminAssumption, Init
  PROVE  Records
<1>1. users \in [Ids -> Emails \cup {NoEmail}]
  BY DEF Init
<1>2. \A i, j \in Ids : users[i] = users[j] /\ users[i] # NoEmail => i = j
  BY DEF Init
<1>3. life \in [Ids -> 0..MaxLives]
  <2>1. 0 \in 0..MaxLives /\ 1 \in 0..MaxLives  BY DEF UserAdminAssumption
  <2> QED BY <2>1 DEF Init
<1>4. PICK text \in Texts :
        roles = [i \in Ids |->
          CASE i = 1 -> [text |-> "admin", to |-> 1, late |-> FALSE]
            [] i = 2 /\ text # "none" -> [text |-> text, to |-> 1, late |-> FALSE]
            [] OTHER -> NoRole]
  BY DEF Init
<1>5. \A i \in Ids :
        \/ roles[i] = [text |-> "admin", to |-> 1, late |-> FALSE] /\ i = 1
        \/ roles[i] = [text |-> text, to |-> 1, late |-> FALSE] /\ i = 2
        \/ roles[i] = NoRole /\ i # 1
  BY <1>4
<1>6. roles \in [Ids -> RoleRow]
  <2>1. \A t \in Texts : [text |-> t, to |-> 1, late |-> FALSE] \in RoleRow
    BY DEF RoleRow
  <2>2. "admin" \in Texts  BY DEF Texts, Roles
  <2>3. \A i \in Ids : roles[i] \in RoleRow  BY <1>5, <2>1, <2>2, NoRoleRow
  <2>4. roles = [i \in Ids |-> roles[i]]  BY <1>4
  <2> QED BY <2>3, <2>4
<1>7. bindings = [a \in Addresses |-> NoBinding] /\ addresses = Addresses
  BY DEF Init
<1>8. PICK a \in Addresses :
        request = [r \in Requests |->
          [pc |-> "idle", op |-> "delete", by |-> Root, id |-> 1, new |-> "none",
           address |-> a, email |-> NoEmail, to |-> 0, saw |-> "none", blind |-> FALSE]]
  BY DEF Init
<1>9. request \in [Requests -> Request]
  <2>1. 1 \in Ids /\ "none" \in Texts /\ Root \in Ids \cup {Root} /\ NoEmail \in Emails \cup {NoEmail}
    BY DEF UserAdminAssumption, Ids, Texts
  <2>2. [pc |-> "idle", op |-> "delete", by |-> Root, id |-> 1, new |-> "none",
         address |-> a, email |-> NoEmail, to |-> 0, saw |-> "none", blind |-> FALSE]
          \in Request
    BY <2>1 DEF Request
  <2> QED BY <1>8, <2>2
<1>10. \A r \in Requests : Phase(request[r])
  BY <1>8 DEF Phase
<1>11. AdminRowKept
  <2>1. 1 \in Ids  BY DEF UserAdminAssumption, Ids
  <2>2. roles[1].text = "admin"  BY <1>5, <2>1
  <2> QED BY <2>1, <2>2 DEF AdminRowKept, Admins, IsAdmin
<1>12. RoleOrigin
  <2> SUFFICES ASSUME NEW i \in Orphans  PROVE FALSE
    BY DEF RoleOrigin
  <2>1. i \in Ids /\ roles[i].text # "none" /\ ~Alive(i, roles[i].to)
    BY DEF Orphans
  <2>2. (i = 1 \/ i = 2) /\ roles[i].to = 1  BY <1>5, <2>1, NoRoleRow
  <2>3. users[i] # NoEmail /\ life[i] = 1
    BY <2>1, <2>2 DEF Init
  <2> QED BY <2>1, <2>2, <2>3 DEF Alive, Exists
<1>13. BindingOrigin  BY <1>7, NoBindingRow DEF BindingOrigin
<1>14. TypeOK
  BY <1>1, <1>2, <1>3, <1>6, <1>7, <1>9, NoBindingRow DEF TypeOK
<1> QED BY <1>10, <1>11, <1>12, <1>13, <1>14 DEF Records

LEMMA NextRecords ==
  ASSUME UserAdminAssumption, Records, [Next]_vars
  PROVE  Records'
<1>1. CASE UNCHANGED vars
  BY <1>1, ReadRecords DEF vars, Rows
<1>2. CASE \E e \in Emails : CreateUser(e)
  BY <1>2, RegisterRecords
<1>3. ASSUME NEW r \in Requests, HandleUser(r) \/ HandleBinding(r)
      PROVE  Records'
  <2>1. CASE Register(r)  BY <2>1, RegisterRecords
  <2>2. CASE Ask(r) \/ AskBind(r)
    <3>1. Moves(r)  BY <2>2, AskMoves
    <3>2. UNCHANGED Rows  BY <2>2 DEF Ask, AskBind
    <3> QED BY <3>1, <3>2, ReadRecords
  <2>3. CASE \/ FindUser(r) \/ ReadUser(r) \/ ReadRole(r) \/ CountAdmins(r)
             \/ ReadAddress(r) \/ ReadBinding(r) \/ CountBindings(r) \/ Abandon(r)
    <3>1. Moves(r)  BY <2>3, ReadMoves
    <3>2. UNCHANGED Rows
      BY <2>3 DEF FindUser, ReadUser, ReadRole, CountAdmins, ReadAddress, ReadBinding,
         CountBindings, Abandon
    <3> QED BY <3>1, <3>2, ReadRecords
  <2>4. CASE GrantDefault(r)  BY <2>4, GrantDefaultRecords
  <2>5. CASE EraseUser(r)  BY <2>5, EraseUserRecords
  <2>6. CASE ChangeRole(r)  BY <2>6, ChangeRoleRecords
  <2>7. CASE InsertBinding(r)  BY <2>7, InsertBindingRecords
  <2>8. CASE Unbind(r)  BY <2>8, UnbindRecords
  <2> QED BY <1>3, <2>1, <2>2, <2>3, <2>4, <2>5, <2>6, <2>7, <2>8
       DEF HandleUser, HandleBinding
<1>4. CASE \E a \in Addresses : RemoveAddress(a)
  BY <1>4, RemoveAddressRecords
<1> QED BY <1>1, <1>2, <1>3, <1>4 DEF Next, UsersNext

LEMMA RecordsHold == UserAdminAssumption => (Spec => []Records)
<1> SUFFICES ASSUME UserAdminAssumption  PROVE Spec => []Records
  OBVIOUS
<1>1. Init => Records  BY InitRecords
<1>2. Records /\ [Next]_vars => Records'  BY NextRecords
<1> QED BY <1>1, <1>2, PTL DEF Spec

-----------------------------------------------------------------------------
(***************************************************************************)
(* The theorems.                                                           *)
(***************************************************************************)

\* users, user_roles, users_address and the local state of the handlers are always
\* well-formed; in particular no two users have one email, although registration may
\* find a row that another request has just inserted.
THEOREM TypeCorrect == UserAdminAssumption => (Spec => []TypeOK)
<1> SUFFICES ASSUME UserAdminAssumption  PROVE Spec => []TypeOK
  OBVIOUS
<1>1. Spec => []Records  BY RecordsHold
<1>2. Records => TypeOK  BY DEF Records
<1> QED BY <1>1, <1>2, PTL

\* However many requests delete and demote administrators, themselves or each other,
\* the demoting statements count again and leave an admin row in user_roles, unless
\* one of them removed the role of a user it had read before its promotion.
THEOREM AdminRowLasts == UserAdminAssumption => (Spec => []AdminRowKept)
<1> SUFFICES ASSUME UserAdminAssumption  PROVE Spec => []AdminRowKept
  OBVIOUS
<1>1. Spec => []Records  BY RecordsHold
<1>2. Records => AdminRowKept  BY DEF Records
<1> QED BY <1>1, <1>2, PTL

\* A user who gets an id again finds in user_roles only what a late request wrote for
\* the deleted user, or the last admin row that deleteUser spared.
THEOREM RolesHaveOrigin == UserAdminAssumption => (Spec => []RoleOrigin)
<1> SUFFICES ASSUME UserAdminAssumption  PROVE Spec => []RoleOrigin
  OBVIOUS
<1>1. Spec => []Records  BY RecordsHold
<1>2. Records => RoleOrigin  BY DEF Records
<1> QED BY <1>1, <1>2, PTL

\* A row of users_address names a user and an address that exist, unless bindByID
\* inserted it after the deletion of one of them: both deletions remove the binding.
THEOREM BindingsHaveOrigin == UserAdminAssumption => (Spec => []BindingOrigin)
<1> SUFFICES ASSUME UserAdminAssumption  PROVE Spec => []BindingOrigin
  OBVIOUS
<1>1. Spec => []Records  BY RecordsHold
<1>2. Records => BindingOrigin  BY DEF Records
<1> QED BY <1>1, <1>2, PTL

=============================================================================
