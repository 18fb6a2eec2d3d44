---------------------------- MODULE AccessProofs ----------------------------
(***************************************************************************)
(* The proofs about who gets in: at an address (AddressAuthority) and at a *)
(* user's account (UserIdentity), for every set of passwords and requests  *)
(* and every number of lives, links, codes and generations.  MCAccess is   *)
(* extended for its names of the properties.                               *)
(***************************************************************************)
EXTENDS MCAccess, TLAPS

-----------------------------------------------------------------------------
(***************************************************************************)
(* Types, and where a request may stand.                                   *)
(***************************************************************************)

\* What the program counter of a request says about the rest of it.
Phase(q) ==
  /\ q.pc = "idle" => q.op = "none" /\ q.older = {}
  /\ q.pc \in {"idle", "find"} => q.id = Absent /\ q.version = 0
  /\ q.pc \in {"upgrade", "update", "issue", "rotate", "generate"} => q.id # Absent
  /\ q.pc \in {"upgrade", "rotate"} => q.version > 0
  /\ q.op = "login" => q.pc \in {"upgrade", "done"}
  /\ q.op = "rotate" => q.pc \in {"rotate", "done"}
  /\ q.op = "share" => q.pc \in {"revoke", "insert", "done"}
  /\ q.token => q.pc = "done" /\ q.id # Absent /\ q.version > 0
  /\ q.clobbers => q.pc \in {"issue", "done"}

Phases == \A r \in Requests : Phase(request[r])

\* Nobody knows more than there is: ids that were given, and versions of the
\* address up to its current one.
Known(q, row, last) ==
  /\ q.id <= last
  /\ q.id # Absent /\ q.id = row.id => q.version <= row.version

RequestsKnown == \A r \in Requests : Known(request[r], address, lastId)
SharesKnown   == \A s \in Shares : share[s].address <= lastId

Authority == TypeOK /\ Phases /\ RequestsKnown /\ SharesKnown /\ PasswordIsLatest


-----------------------------------------------------------------------------
(***************************************************************************)
(* What every step does, seen from the outside.                            *)
(***************************************************************************)

\* The row keeps its id and its version does not fall, or it goes, or it comes with
\* a new id.  Its password is the one that was chosen.
AddressMoves ==
  /\ address' \in Address /\ lastId' \in Ids /\ chosen' \in Passwords \cup {NoPassword}
  /\ \/ address'.id = address.id /\ address'.version >= address.version /\ lastId' = lastId
     \/ address'.id = Absent /\ lastId' = lastId
     \/ address.id = Absent /\ address'.id = lastId + 1 /\ lastId' = lastId + 1
  /\ PasswordIsLatest'

\* A link keeps its address or loses it, and stays revoked.
SharesMove ==
  /\ share' \in [Shares -> Share] /\ lastShare' \in 0..MaxShares
  /\ SharesKnown'
  /\ \A s \in Shares : s <= lastShare =>
       /\ share'[s].address \in {share[s].address, Absent}
       /\ share[s].revoked => share'[s].revoked

\* Request r, which had not ended, goes on as a well-formed one; only its update
\* gives a rotation its token.
Moves(r) ==
  \E q \in Request :
    /\ request[r].pc # "done"
    /\ Become(r, q)
    /\ Phase(q) /\ Known(q, address', lastId')
    /\ q.op = "rotate" /\ q.token => RotateUpdate(r)

Steps(r) == Moves(r) /\ AddressMoves /\ SharesMove

LEMMA KeepAddressMoves == ASSUME Authority, KeepAddress PROVE AddressMoves
BY DEF Authority, TypeOK, KeepAddress, AddressMoves, Address, PasswordIsLatest

LEMMA KeepSharesMove == ASSUME Authority, KeepShares, lastId' \in {lastId, lastId + 1} PROVE SharesMove
<1>1. /\ share' = share /\ lastShare' = lastShare
      /\ share \in [Shares -> Share] /\ lastShare \in 0..MaxShares
      /\ \A s \in Shares : share[s].address <= lastId
  BY DEF Authority, TypeOK, KeepShares, SharesKnown
<1>2. \A s \in Shares : share[s].address \in Int  BY <1>1 DEF Share, Ids, Absent
<1>3. lastId \in Int  BY DEF Authority, TypeOK, Ids
<1> QED BY <1>1, <1>2, <1>3 DEF SharesMove, SharesKnown

-----------------------------------------------------------------------------
(***************************************************************************)
(* One lemma per handler.                                                  *)
(***************************************************************************)

LEMMA Facts ==
  ASSUME Authority, NEW r \in Requests
  PROVE  /\ request[r] \in Request /\ Phase(request[r]) /\ Known(request[r], address, lastId)
         /\ address \in Address /\ lastId \in Ids
         /\ address.id \in Nat /\ address.id <= lastId
         /\ address.version \in Nat /\ address.version > 0
         /\ request[r].id \in Nat /\ request[r].version \in Nat
         /\ lastId \in Nat /\ 0 \notin Ids
<1>1. /\ request[r] \in Request /\ Phase(request[r]) /\ Known(request[r], address, lastId)
      /\ address \in Address /\ lastId \in Ids /\ address.id <= lastId
  BY DEF Authority, TypeOK, Phases, RequestsKnown
<1>2. Ids \subseteq Nat /\ 0 \notin Ids  BY AddressAuthorityAssumption DEF Ids
<1>3. request[r].id \in Ids \cup {Absent} /\ request[r].version \in Nat
  BY <1>1 DEF Request
<1>4. address.id \in Ids \cup {Absent} /\ address.version \in Nat \ {0}
  BY <1>1 DEF Address
<1>5. \A i \in Ids \cup {Absent} : i \in Nat  BY <1>2 DEF Absent
<1>6. address.version \in Nat /\ address.version > 0  BY <1>4
<1>7. request[r].id \in Nat /\ address.id \in Nat  BY <1>3, <1>4, <1>5
<1>8. lastId \in Nat  BY <1>1, <1>2
<1> QED BY <1>1, <1>2, <1>3, <1>6, <1>7, <1>8

LEMMA LoginSteps == ASSUME Authority, NEW r \in Requests, Login(r) PROVE Steps(r)
<1> DEFINE q    == request[r]
           seen == [q EXCEPT !.op = "login", !.id = address.id,
                             !.version = address.version, !.password = address.password]
           slow == [seen EXCEPT !.pc = "upgrade"]
           fast == [seen EXCEPT !.pc = "done", !.token = TRUE]
<1>1. /\ q \in Request /\ Phase(q) /\ q.pc = "idle"
      /\ address \in Address /\ address.id # Absent /\ address.password # NoPassword
      /\ address.version > 0 /\ address.id <= lastId /\ address.version <= address.version
  BY Facts DEF Login
<1>2. KeepAddress /\ KeepShares /\ address' = address /\ lastId' = lastId
  BY DEF Login, KeepAddress
<1>3. seen \in Request  BY <1>1 DEF Request, Address
<1>4. slow \in Request /\ Phase(slow) /\ Known(slow, address', lastId') /\ slow.op = "login"
  <2>1. slow \in Request  BY <1>3 DEF Request
  <2>2. /\ slow.pc = "upgrade" /\ slow.op = "login" /\ slow.id = address.id
        /\ slow.version = address.version
        /\ slow.token = q.token /\ slow.clobbers = q.clobbers
    BY <1>1, <1>3 DEF Request
  <2>3. Phase(slow)  BY <1>1, <2>2 DEF Phase
  <2> QED BY <1>1, <1>2, <2>1, <2>2, <2>3 DEF Known
<1>5. fast \in Request /\ Phase(fast) /\ Known(fast, address', lastId') /\ fast.op = "login"
  BY <1>1, <1>2, <1>3 DEF Phase, Known, Request
<1>6. Become(r, slow) \/ Become(r, fast)
  <2> HIDE DEF slow, fast
  <2>1. Become(r, IF address.legacy THEN slow ELSE fast)  BY DEF Login, slow, fast
  <2> QED BY <2>1
<1>7. Moves(r)
  <2> HIDE DEF slow, fast
  <2> QED BY <1>1, <1>4, <1>5, <1>6 DEF Moves
<1> QED BY <1>2, <1>7, KeepAddressMoves, KeepSharesMove DEF Steps

LEMMA UpgradeSteps == ASSUME Authority, NEW r \in Requests, Upgrade(r) PROVE Steps(r)
<1> DEFINE q == request[r]
           u == [q EXCEPT !.pc = "done", !.token = TRUE]
<1>1. /\ q \in Request /\ Phase(q) /\ Known(q, address, lastId) /\ q.pc = "upgrade"
      /\ address \in Address
      /\ KeepShares /\ Become(r, u) /\ lastId' = lastId /\ chosen' = chosen
      /\ address' \in {address, [address EXCEPT !.legacy = FALSE]}
  BY Facts DEF Upgrade
<1>2. /\ address' \in Address /\ address'.id = address.id /\ address'.version = address.version
      /\ address'.password = address.password
  BY <1>1 DEF Address
<1>3. u \in Request /\ Phase(u) /\ Known(u, address', lastId') /\ u.op # "rotate"
  BY <1>1, <1>2 DEF Phase, Known, Request
<1>4. Moves(r)
  <2> HIDE DEF u
  <2> QED BY <1>1, <1>3 DEF Moves
<1>5. AddressMoves
  BY <1>1, <1>2, Facts DEF AddressMoves, PasswordIsLatest, Authority, TypeOK
<1> QED BY <1>1, <1>4, <1>5, KeepSharesMove DEF Steps

\* A handler that only reads the row.
LEMMA ChangeSteps == ASSUME Authority, NEW r \in Requests, Change(r) PROVE Steps(r)
<1> DEFINE q    == request[r]
           u(p) == [q EXCEPT !.pc = "update", !.op = "change", !.id = address.id, !.password = p]
<1>1. /\ q \in Request /\ Phase(q) /\ q.pc = "idle"
      /\ address \in Address /\ address.id # Absent /\ address.id <= lastId
      /\ address.version > 0 /\ address.version \in Nat
  BY Facts DEF Change
<1>2. KeepAddress /\ KeepShares /\ address' = address /\ lastId' = lastId
  BY DEF Change, KeepAddress
<1>3. PICK p \in Passwords : Become(r, u(p))  BY DEF Change
<1>4. /\ u(p) \in Request
      /\ u(p).pc = "update" /\ u(p).op = "change" /\ u(p).id = address.id
      /\ u(p).version = q.version /\ u(p).token = q.token /\ u(p).clobbers = q.clobbers
  BY <1>1 DEF Request, Address
<1>5. Phase(u(p)) /\ Known(u(p), address', lastId')
  <2> HIDE DEF u
  <2>1. Phase(u(p))  BY <1>1, <1>4 DEF Phase
  <2>2. u(p).version = 0  BY <1>1, <1>4 DEF Phase
  <2> QED BY <1>1, <1>2, <1>4, <2>1, <2>2 DEF Known
<1>6. Moves(r)
  <2> HIDE DEF u
  <2> QED BY <1>1, <1>3, <1>4, <1>5 DEF Moves
<1> QED BY <1>2, <1>6, KeepAddressMoves, KeepSharesMove DEF Steps

\* UPDATE address SET password: the version rises, or the row is not there any more.
LEMMA SetPasswordMoves ==
  ASSUME Authority, NEW id, NEW p \in Passwords, SetPassword(id, p), lastId' = lastId
  PROVE  /\ AddressMoves
         /\ address'.id = address.id /\ address'.version >= address.version
<1>1. /\ address \in Address /\ lastId \in Ids /\ chosen \in Passwords \cup {NoPassword}
      /\ PasswordIsLatest
  BY DEF Authority, TypeOK
<1>2. CASE address.id = id
  <2>1. PICK legacy \in BOOLEAN :
          address' = [address EXCEPT !.password = p, !.legacy = legacy, !.version = @ + 1]
    BY <1>2 DEF SetPassword
  <2>2. chosen' = p  BY <1>2 DEF SetPassword
  <2>3. address.version \in Nat /\ address.version + 1 \in Nat \ {0}  BY <1>1 DEF Address
  <2>4. /\ address' \in Address /\ address'.id = address.id /\ address'.password = p
        /\ address'.version = address.version + 1
    <3> DEFINE v == address.version + 1
    <3>1. address' = [address EXCEPT !.password = p, !.legacy = legacy, !.version = v]
      BY <2>1
    <3>2. v \in Nat \ {0}  BY <2>3
    <3> HIDE DEF v
    <3>3. /\ address' \in Address /\ address'.id = address.id /\ address'.password = p
          /\ address'.version = v
      BY <1>1, <3>1, <3>2 DEF Address
    <3> QED BY <3>3 DEF v
  <2> QED BY <1>1, <2>2, <2>3, <2>4 DEF AddressMoves, PasswordIsLatest
<1>3. CASE address.id # id
  <2>1. address' = address /\ chosen' = chosen  BY <1>3 DEF SetPassword
  <2>2. address.version \in Nat  BY <1>1 DEF Address
  <2> QED BY <1>1, <2>1, <2>2 DEF AddressMoves, PasswordIsLatest
<1> QED BY <1>2, <1>3

LEMMA ChangeUpdateSteps == ASSUME Authority, NEW r \in Requests, ChangeUpdate(r) PROVE Steps(r)
<1> DEFINE q == request[r]
           u == [q EXCEPT !.pc = "issue"]
<1>1. /\ q \in Request /\ Phase(q) /\ Known(q, address, lastId) /\ q.pc = "update"
      /\ lastId' = lastId /\ KeepShares /\ Become(r, u) /\ SetPassword(q.id, q.password)
  BY Facts DEF ChangeUpdate
<1>2. q.password \in Passwords /\ q.version \in Nat  BY <1>1 DEF Request
<1>3. /\ AddressMoves
      /\ address'.id = address.id /\ address'.version >= address.version
  BY <1>1, <1>2, SetPasswordMoves
<1>4. /\ u \in Request /\ u.pc = "issue" /\ u.op = q.op /\ u.id = q.id
      /\ u.version = q.version /\ u.token = q.token /\ u.clobbers = q.clobbers
  BY <1>1 DEF Request
<1> HIDE DEF u
<1>5. Phase(u) /\ u.op # "rotate"  BY <1>1, <1>4 DEF Phase
<1>6. address.version \in Nat /\ address'.version \in Nat
  BY <1>3, Facts DEF AddressMoves, Address
<1>7. Known(u, address', lastId')  BY <1>1, <1>2, <1>3, <1>4, <1>6 DEF Known
<1> QED BY <1>1, <1>3, <1>4, <1>5, <1>7, KeepSharesMove DEF Moves, Steps

LEMMA ChangeIssueSteps == ASSUME Authority, NEW r \in Requests, ChangeIssue(r) PROVE Steps(r)
<1> DEFINE q == request[r]
           v == IF address.id = q.id THEN address.version ELSE 1
           u == [q EXCEPT !.pc = "done", !.token = TRUE, !.version = v]
<1>1. /\ q \in Request /\ Phase(q) /\ Known(q, address, lastId) /\ q.pc = "issue"
      /\ Become(r, u) /\ KeepAddress /\ KeepShares /\ address' = address /\ lastId' = lastId
      /\ address.version \in Nat /\ address.version > 0
  BY Facts DEF ChangeIssue, KeepAddress
<1>2. v \in Nat /\ v > 0  BY <1>1
<1>3. q.id = address.id => v <= address.version  BY <1>1
<1> HIDE DEF v
<1>4. /\ u \in Request /\ u.pc = "done" /\ u.op = q.op /\ u.id = q.id /\ u.version = v
  BY <1>1, <1>2 DEF Request
<1> HIDE DEF u
<1>5. Phase(u) /\ u.op # "rotate"  BY <1>1, <1>2, <1>4 DEF Phase
<1>6. Known(u, address', lastId')  BY <1>1, <1>3, <1>4 DEF Known
<1> QED BY <1>1, <1>4, <1>5, <1>6, KeepAddressMoves, KeepSharesMove DEF Moves, Steps

LEMMA ResetPasswordSteps ==
  ASSUME Authority, NEW r \in Requests, ResetPassword(r) PROVE Steps(r)
<1> DEFINE q    == request[r]
           u(p) == [q EXCEPT !.pc = "done", !.op = "reset", !.password = p]
<1>1. /\ q \in Request /\ Phase(q) /\ Known(q, address, lastId) /\ q.pc = "idle"
      /\ lastId' = lastId /\ KeepShares /\ q.version \in Nat
  BY Facts DEF ResetPassword
<1>2. PICK p \in Passwords : SetPassword(address.id, p) /\ Become(r, u(p))
  BY DEF ResetPassword
<1>3. /\ AddressMoves
      /\ address'.id = address.id /\ address'.version >= address.version
  BY <1>1, <1>2, SetPasswordMoves
<1>4. /\ u(p) \in Request /\ u(p).pc = "done" /\ u(p).op = "reset" /\ u(p).id = q.id
      /\ u(p).version = q.version /\ u(p).token = q.token /\ u(p).clobbers = q.clobbers
  BY <1>1 DEF Request
<1>5. Become(r, u(p))  BY <1>2
<1> HIDE DEF u
<1>6. Phase(u(p))  BY <1>1, <1>4 DEF Phase
<1>7. Known(u(p), address', lastId')  BY <1>1, <1>4 DEF Known, Phase
<1> QED BY <1>1, <1>3, <1>4, <1>5, <1>6, <1>7, KeepSharesMove DEF Moves, Steps

LEMMA RotateSteps == ASSUME Authority, NEW r \in Requests, Rotate(r) PROVE Steps(r)
<1> DEFINE q == request[r]
           u == [q EXCEPT !.pc = "rotate", !.op = "rotate", !.id = address.id,
                          !.version = address.version]
<1>1. /\ q \in Request /\ Phase(q) /\ q.pc = "idle"
      /\ address \in Address /\ address.id # Absent /\ address.id <= lastId
      /\ address.version > 0 /\ address.version \in Nat
      /\ Become(r, u) /\ KeepAddress /\ KeepShares /\ address' = address /\ lastId' = lastId
  BY Facts DEF Rotate, KeepAddress
<1>2. /\ u \in Request /\ u.pc = "rotate" /\ u.op = "rotate" /\ u.id = address.id
      /\ u.version = address.version /\ u.token = q.token /\ u.clobbers = q.clobbers
  BY <1>1 DEF Request, Address
<1> HIDE DEF u
<1>3. Phase(u) /\ ~u.token  BY <1>1, <1>2 DEF Phase
<1>4. Known(u, address', lastId')  BY <1>1, <1>2 DEF Known
<1> QED BY <1>1, <1>2, <1>3, <1>4, KeepAddressMoves, KeepSharesMove DEF Moves, Steps

\* A rotation succeeds with the version it has raised, or ends without a token.
LEMMA RotateUpdateSteps ==
  ASSUME Authority, NEW r \in Requests, RotateUpdate(r)
  PROVE  /\ Steps(r)
         /\ request'[r].id = request[r].id
         /\ request'[r].token => /\ Valid(request[r].id, request[r].version)
                                 /\ request'[r].version = address.version + 1
<1> DEFINE q == request[r]
           v == q.version + 1
           w == [q EXCEPT !.pc = "done", !.token = TRUE, !.version = v]
           u == [q EXCEPT !.pc = "done"]
<1>1. /\ q \in Request /\ Phase(q) /\ Known(q, address, lastId) /\ q.pc = "rotate"
      /\ lastId' = lastId /\ chosen' = chosen /\ KeepShares
      /\ address \in Address /\ address.version \in Nat /\ q.version \in Nat
      /\ address.id <= lastId /\ lastId \in Ids
  BY Facts DEF RotateUpdate
<1>2. PasswordIsLatest /\ chosen \in Passwords \cup {NoPassword}
  BY DEF Authority, TypeOK
<1>3. request \in [Requests -> Request]  BY DEF Authority, TypeOK
<1>4. v \in Nat \ {0} /\ v = q.version + 1  BY <1>1
<1>5. CASE Valid(q.id, q.version)
  <2>1. /\ address' = [address EXCEPT !.version = v] /\ Become(r, w)
        /\ address.version = q.version /\ address.id = q.id /\ q.id # Absent
    BY <1>5 DEF RotateUpdate, Valid
  <2> HIDE DEF v
  <2>2. /\ address' \in Address /\ address'.id = address.id /\ address'.version = v
        /\ address'.password = address.password
    BY <1>1, <1>4, <2>1 DEF Address
  <2>3. AddressMoves  BY <1>1, <1>2, <1>4, <2>1, <2>2 DEF AddressMoves, PasswordIsLatest
  <2>4. /\ w \in Request /\ w.pc = "done" /\ w.op = q.op /\ w.id = q.id /\ w.version = v
    BY <1>1, <1>4 DEF Request
  <2> HIDE DEF w
  <2>5. Phase(w)  BY <1>1, <1>4, <2>1, <2>4 DEF Phase
  <2>6. Known(w, address', lastId')  BY <1>1, <1>4, <2>1, <2>2, <2>4 DEF Known
  <2>7. request'[r] = w  BY <1>3, <2>1 DEF Become
  <2>8. Steps(r)
    BY <1>1, <2>1, <2>3, <2>4, <2>5, <2>6, KeepSharesMove DEF Moves, Steps
  <2> QED BY <1>4, <1>5, <2>1, <2>4, <2>7, <2>8
<1>6. CASE ~Valid(q.id, q.version)
  <2>1. address' = address /\ Become(r, u)  BY <1>6 DEF RotateUpdate
  <2>2. AddressMoves  BY <1>1, <2>1, KeepAddressMoves DEF KeepAddress
  <2>3. /\ u \in Request /\ u.pc = "done" /\ u.op = q.op /\ u.id = q.id
        /\ u.version = q.version /\ u.token = q.token
    BY <1>1 DEF Request
  <2> HIDE DEF u
  <2>4. Phase(u) /\ ~u.token  BY <1>1, <2>3 DEF Phase
  <2>5. Known(u, address', lastId')  BY <1>1, <2>1, <2>3 DEF Known
  <2>6. request'[r] = u  BY <1>3, <2>1 DEF Become
  <2>7. Steps(r)
    BY <1>1, <2>1, <2>2, <2>3, <2>4, <2>5, KeepSharesMove DEF Moves, Steps
  <2> QED BY <2>3, <2>4, <2>6, <2>7
<1> QED BY <1>5, <1>6

LEMMA ShowSteps == ASSUME Authority, NEW r \in Requests, ShowCredential(r) PROVE Steps(r)
<1> DEFINE q == request[r]
           u == [q EXCEPT !.pc = "done", !.op = "show", !.id = address.id,
                          !.version = address.version, !.token = TRUE]
<1>1. /\ q \in Request /\ Phase(q) /\ q.pc = "idle"
      /\ address \in Address /\ address.id # Absent /\ address.id <= lastId
      /\ address.version > 0 /\ address.version \in Nat
      /\ Become(r, u) /\ KeepAddress /\ KeepShares /\ address' = address /\ lastId' = lastId
  BY Facts DEF ShowCredential, KeepAddress
<1>2. /\ u \in Request /\ u.pc = "done" /\ u.op = "show" /\ u.id = address.id
      /\ u.version = address.version
  BY <1>1 DEF Request, Address
<1> HIDE DEF u
<1>3. Phase(u)  BY <1>1, <1>2 DEF Phase
<1>4. Known(u, address', lastId')  BY <1>1, <1>2 DEF Known
<1> QED BY <1>1, <1>2, <1>3, <1>4, KeepAddressMoves, KeepSharesMove DEF Moves, Steps

LEMMA CreateSteps == ASSUME Authority, NEW r \in Requests, Create(r) PROVE Steps(r)
<1> DEFINE q == request[r]
           u == [q EXCEPT !.pc = "find", !.op = "create"]
<1>1. /\ q \in Request /\ Phase(q) /\ Known(q, address, lastId) /\ q.pc = "idle"
      /\ Become(r, u) /\ KeepShares /\ q.version \in Nat /\ lastId \in Nat
      /\ lastId' = lastId + 1 /\ address.id = Absent /\ lastId + 1 <= MaxId
      /\ address' = [id |-> lastId + 1, version |-> 1, password |-> NoPassword, legacy |-> FALSE]
      /\ chosen' = NoPassword
  BY Facts DEF Create, NextId
<1>2. lastId + 1 \in Ids  BY <1>1, AddressAuthorityAssumption DEF Ids
<1>3. address' \in Address  BY <1>1, <1>2 DEF Address
<1>4. AddressMoves  BY <1>1, <1>2, <1>3 DEF AddressMoves, PasswordIsLatest
<1>5. /\ u \in Request /\ u.pc = "find" /\ u.op = "create" /\ u.id = q.id
      /\ u.version = q.version /\ u.token = q.token /\ u.clobbers = q.clobbers
  BY <1>1 DEF Request
<1> HIDE DEF u
<1>6. Phase(u)  BY <1>1, <1>5 DEF Phase
<1>7. q.id = Absent  BY <1>1 DEF Phase
<1>8. Known(u, address', lastId')  BY <1>1, <1>5, <1>7 DEF Known, Absent
<1> QED BY <1>1, <1>4, <1>5, <1>6, <1>8, KeepSharesMove DEF Moves, Steps

LEMMA CreateFindSteps == ASSUME Authority, NEW r \in Requests, CreateFind(r) PROVE Steps(r)
<1> DEFINE q == request[r]
           u == [q EXCEPT !.pc = "done"]
           w == [q EXCEPT !.pc = "generate", !.id = address.id]
<1>1. /\ q \in Request /\ Phase(q) /\ Known(q, address, lastId) /\ q.pc = "find"
      /\ KeepAddress /\ KeepShares /\ address' = address /\ lastId' = lastId
      /\ address \in Address /\ address.id <= lastId /\ address.version \in Nat
      /\ q.id = Absent /\ q.version = 0
  BY Facts DEF CreateFind, KeepAddress, Phase
<1>2. IF address.id = Absent THEN Become(r, u) ELSE Become(r, w)  BY DEF CreateFind
<1>3. /\ u \in Request /\ u.pc = "done" /\ u.op = q.op /\ u.id = q.id
      /\ u.version = q.version /\ u.token = q.token
  BY <1>1 DEF Request
<1>4. /\ w \in Request /\ w.pc = "generate" /\ w.op = q.op /\ w.id = address.id
      /\ w.version = q.version /\ w.token = q.token /\ w.clobbers = q.clobbers
  BY <1>1 DEF Request, Address
<1> HIDE DEF u, w
<1>5. Phase(u) /\ Known(u, address', lastId') /\ ~u.token  BY <1>1, <1>3 DEF Phase, Known
<1>6. address.id # Absent => Phase(w) /\ Known(w, address', lastId')
  <2> SUFFICES ASSUME address.id # Absent PROVE Phase(w) /\ Known(w, address', lastId')
    OBVIOUS
  <2>1. Phase(w)  BY <1>1, <1>4 DEF Phase
  <2> QED BY <1>1, <1>4, <2>1 DEF Known
<1>7. ~w.token  BY <1>1, <1>4 DEF Phase
<1>8. Moves(r)  BY <1>1, <1>2, <1>3, <1>4, <1>5, <1>6, <1>7 DEF Moves
<1> QED BY <1>1, <1>8, KeepAddressMoves, KeepSharesMove DEF Steps

LEMMA CreateGenerateSteps ==
  ASSUME Authority, NEW r \in Requests, CreateGenerate(r) PROVE Steps(r)
<1> DEFINE q    == request[r]
           u(p) == [q EXCEPT !.pc = "issue", !.password = p]
           w(p) == [q EXCEPT !.pc = "issue", !.password = p,
                             !.clobbers = address.password # NoPassword]
<1>1. /\ q \in Request /\ Phase(q) /\ Known(q, address, lastId) /\ q.pc = "generate"
      /\ lastId' = lastId /\ KeepShares
      /\ address \in Address /\ lastId \in Ids /\ address.version \in Nat
  BY Facts DEF CreateGenerate
<1>2. PasswordIsLatest /\ chosen \in Passwords \cup {NoPassword}
  BY DEF Authority, TypeOK
<1>3. PICK p \in Passwords :
        IF address.id # Absent
        THEN /\ address' = [address EXCEPT !.password = p, !.legacy = FALSE]
             /\ chosen' = p
             /\ Become(r, w(p))
        ELSE /\ UNCHANGED <<address, chosen>>
             /\ Become(r, u(p))
  BY DEF CreateGenerate
<1>4. /\ u(p) \in Request /\ u(p).pc = "issue" /\ u(p).op = q.op /\ u(p).id = q.id
      /\ u(p).version = q.version /\ u(p).token = q.token
  BY <1>1 DEF Request
<1>5. /\ w(p) \in Request /\ w(p).pc = "issue" /\ w(p).op = q.op /\ w(p).id = q.id
      /\ w(p).version = q.version /\ w(p).token = q.token
  BY <1>1 DEF Request
<1>6. /\ AddressMoves /\ address'.id = address.id /\ address'.version = address.version
  <2>1. CASE address.id # Absent
    <3>1. /\ address' \in Address /\ address'.id = address.id
          /\ address'.version = address.version /\ address'.password = p
      BY <1>1, <1>3, <2>1 DEF Address
    <3> QED BY <1>1, <1>3, <2>1, <3>1 DEF AddressMoves, PasswordIsLatest
  <2>2. CASE address.id = Absent
    BY <1>1, <1>2, <1>3, <2>2 DEF AddressMoves, PasswordIsLatest
  <2> QED BY <2>1, <2>2
<1>7. Become(r, u(p)) \/ Become(r, w(p))  BY <1>3
<1> HIDE DEF u, w
<1>8. Phase(u(p)) /\ Known(u(p), address', lastId') /\ u(p).op # "rotate"
  BY <1>1, <1>4, <1>6 DEF Phase, Known
<1>9. Phase(w(p)) /\ Known(w(p), address', lastId') /\ w(p).op # "rotate"
  BY <1>1, <1>5, <1>6 DEF Phase, Known
<1>10. Moves(r)  BY <1>1, <1>4, <1>5, <1>7, <1>8, <1>9 DEF Moves
<1> QED BY <1>1, <1>6, <1>10, KeepSharesMove DEF Steps

LEMMA CreateShareSteps == ASSUME Authority, NEW r \in Requests, CreateShare(r) PROVE Steps(r)
<1> DEFINE q     == request[r]
           older == {s \in Shares : ShareValid(s) /\ share[s].expiry = "never"}
           u     == [q EXCEPT !.pc = "revoke", !.op = "share", !.id = address.id, !.older = older]
<1>1. /\ q \in Request /\ Phase(q) /\ q.pc = "idle"
      /\ address \in Address /\ address.id <= lastId /\ address.version \in Nat
      /\ Become(r, u) /\ KeepAddress /\ KeepShares /\ address' = address /\ lastId' = lastId
  BY Facts DEF CreateShare, KeepAddress
<1>2. older \in SUBSET Shares  OBVIOUS
<1> HIDE DEF older
<1>3. /\ u \in Request /\ u.pc = "revoke" /\ u.op = "share" /\ u.id = address.id
      /\ u.version = q.version /\ u.token = q.token /\ u.clobbers = q.clobbers
  BY <1>1, <1>2 DEF Request, Address
<1> HIDE DEF u
<1>4. Phase(u) /\ u.version = 0  BY <1>1, <1>3 DEF Phase
<1>5. Known(u, address', lastId')  BY <1>1, <1>3, <1>4 DEF Known
<1> QED BY <1>1, <1>3, <1>4, <1>5, KeepAddressMoves, KeepSharesMove DEF Moves, Steps

\* A request that ends with what it has.
LEMMA EndKnown ==
  ASSUME Authority, NEW r \in Requests, NEW u \in Request, KeepAddress,
         request[r].pc \notin {"idle", "done"}, Become(r, u), u.pc \in {"insert", "done"},
         u.op = request[r].op, u.id = request[r].id, u.version = request[r].version,
         u.token = request[r].token, u.clobbers => u.pc = "done",
         u.pc = "insert" => request[r].pc = "revoke"
  PROVE  Moves(r)
<1>1. Phase(request[r]) /\ Known(request[r], address, lastId)  BY Facts
<1>2. Phase(u) /\ ~u.token  BY <1>1 DEF Phase
<1>3. Known(u, address', lastId')  BY <1>1 DEF Known, KeepAddress
<1> QED BY <1>2, <1>3 DEF Moves

LEMMA AbandonSteps == ASSUME Authority, NEW r \in Requests, Abandon(r) PROVE Steps(r)
<1> DEFINE u == [request[r] EXCEPT !.pc = "done", !.older = {}]
<1>1. /\ request[r] \in Request /\ Become(r, u) /\ request[r].pc \notin {"idle", "done"}
      /\ KeepAddress /\ KeepShares /\ lastId' = lastId
  BY Facts DEF Abandon, KeepAddress
<1>2. /\ u \in Request /\ u.pc = "done" /\ u.op = request[r].op /\ u.id = request[r].id
      /\ u.version = request[r].version /\ u.token = request[r].token
  BY <1>1 DEF Request
<1> HIDE DEF u
<1>3. Moves(r)  BY <1>1, <1>2, EndKnown
<1> QED BY <1>1, <1>3, KeepAddressMoves, KeepSharesMove DEF Steps

LEMMA CreateShareRevokeSteps ==
  ASSUME Authority, NEW r \in Requests, CreateShareRevoke(r) PROVE Steps(r)
<1> DEFINE u == [request[r] EXCEPT !.pc = "insert"]
<1>1. /\ request[r] \in Request /\ Become(r, u) /\ request[r].pc = "revoke"
      /\ KeepAddress /\ lastId' = lastId /\ lastShare' = lastShare
      /\ Phase(request[r])
  BY Facts DEF CreateShareRevoke, KeepAddress
<1>2. /\ share' = [s \in Shares |-> IF Replaces(s, request[r].id)
                                    THEN [share[s] EXCEPT !.revoked = TRUE] ELSE share[s]]
  BY DEF CreateShareRevoke
<1>3. /\ u \in Request /\ u.pc = "insert" /\ u.op = request[r].op /\ u.id = request[r].id
      /\ u.version = request[r].version /\ u.token = request[r].token
      /\ u.clobbers = request[r].clobbers
  BY <1>1 DEF Request
<1> HIDE DEF u
<1>4. Moves(r)  BY <1>1, <1>3, EndKnown DEF Phase
<1>5. SharesMove
  <2>1. share \in [Shares -> Share] /\ lastShare \in 0..MaxShares /\ SharesKnown
    BY DEF Authority, TypeOK
  <2>2. \A s \in Shares : /\ share'[s] \in Share /\ share'[s].address = share[s].address
                          /\ share[s].revoked => share'[s].revoked
    BY <1>2, <2>1 DEF Share
  <2>3. share' \in [Shares -> Share]  BY <1>2, <2>2
  <2> QED BY <1>1, <2>1, <2>2, <2>3 DEF SharesMove, SharesKnown
<1> QED BY <1>1, <1>4, <1>5, KeepAddressMoves DEF Steps

LEMMA CreateShareInsertSteps ==
  ASSUME Authority, NEW r \in Requests, CreateShareInsert(r) PROVE Steps(r)
<1> DEFINE u   == [request[r] EXCEPT !.pc = "done"]
           new == [address |-> request[r].id, revoked |-> FALSE, expiry |-> "never"]
<1>1. /\ request[r] \in Request /\ Become(r, u) /\ request[r].pc = "insert"
      /\ KeepAddress /\ lastId' = lastId
      /\ lastShare < MaxShares /\ lastShare' = lastShare + 1
      /\ share' = [share EXCEPT ![lastShare + 1] = new]
      /\ request[r].id <= lastId
  BY Facts DEF CreateShareInsert, KeepAddress, Known
<1>2. /\ u \in Request /\ u.pc = "done" /\ u.op = request[r].op /\ u.id = request[r].id
      /\ u.version = request[r].version /\ u.token = request[r].token
  BY <1>1 DEF Request
<1> HIDE DEF u
<1>3. Moves(r)  BY <1>1, <1>2, EndKnown
<1>4. SharesMove
  <2>1. share \in [Shares -> Share] /\ lastShare \in 0..MaxShares /\ SharesKnown
    BY DEF Authority, TypeOK
  <2>2. new \in Share /\ new.address = request[r].id  BY <1>1 DEF Share, Request
  <2> HIDE DEF new
  <2>3. lastShare' \in 0..MaxShares  BY <1>1, <2>1, AddressAuthorityAssumption
  <2>4. share' \in [Shares -> Share]  BY <1>1, <2>1, <2>2
  <2>5. \A s \in Shares : share'[s] \in {share[s], new}  BY <1>1, <2>1
  <2>6. SharesKnown'  BY <1>1, <2>1, <2>2, <2>5 DEF SharesKnown
  <2>7. \A s \in Shares : s <= lastShare => share'[s] = share[s]
    BY <1>1, <2>1 DEF Shares
  <2> QED BY <2>3, <2>4, <2>6, <2>7 DEF SharesMove
<1> QED BY <1>1, <1>3, <1>4, KeepAddressMoves DEF Steps

-----------------------------------------------------------------------------
(***************************************************************************)
(* Steps that no request takes.                                            *)
(***************************************************************************)

LEMMA UpdateShareSteps ==
  ASSUME Authority, NEW s \in Shares, UpdateShare(s) \/ Expire(s)
  PROVE  AddressMoves /\ SharesMove
<1>1. /\ KeepAddress /\ lastId' = lastId /\ lastShare' = lastShare
      /\ \E e \in {"never", "past"} : share' = [share EXCEPT ![s].expiry = e]
  BY DEF UpdateShare, Expire, KeepAddress
<1>2. share \in [Shares -> Share] /\ lastShare \in 0..MaxShares /\ SharesKnown
  BY DEF Authority, TypeOK
<1>3. \A t \in Shares : /\ share'[t] \in Share /\ share'[t].address = share[t].address
                        /\ share'[t].revoked = share[t].revoked
  BY <1>1, <1>2 DEF Share
<1>4. share' \in [Shares -> Share]  BY <1>1, <1>2, <1>3
<1>5. SharesMove  BY <1>1, <1>2, <1>3, <1>4 DEF SharesMove, SharesKnown
<1> QED BY <1>1, <1>5, KeepAddressMoves

LEMMA RevokeSteps == ASSUME Authority, Revoke PROVE AddressMoves /\ SharesMove
<1>1. PICK revoked : RevokeShares(revoked)  BY DEF Revoke
<1>2. KeepAddress /\ lastId' = lastId /\ lastShare' = lastShare
  BY <1>1 DEF RevokeShares, KeepAddress
<1>3. share' = [s \in Shares |->
        IF s \in revoked THEN [share[s] EXCEPT !.revoked = TRUE] ELSE share[s]]
  BY <1>1 DEF RevokeShares
<1>4. share \in [Shares -> Share] /\ lastShare \in 0..MaxShares /\ SharesKnown
  BY DEF Authority, TypeOK
<1>5. \A s \in Shares : /\ share'[s] \in Share /\ share'[s].address = share[s].address
                        /\ share[s].revoked => share'[s].revoked
  BY <1>3, <1>4 DEF Share
<1>6. share' \in [Shares -> Share]  BY <1>3, <1>5
<1>7. SharesMove  BY <1>2, <1>4, <1>5, <1>6 DEF SharesMove, SharesKnown
<1> QED BY <1>2, <1>7, KeepAddressMoves

LEMMA DeleteAddressSteps == ASSUME Authority, DeleteAddress PROVE AddressMoves /\ SharesMove
<1>1. /\ address \in Address /\ lastId \in Ids /\ chosen \in Passwords \cup {NoPassword}
      /\ share \in [Shares -> Share] /\ lastShare \in 0..MaxShares /\ SharesKnown
  BY DEF Authority, TypeOK
<1>2. /\ address' = [address EXCEPT !.id = Absent]
      /\ lastId' = lastId /\ chosen' = chosen /\ lastShare' = lastShare
      /\ share' = [s \in Shares |->
           IF share[s].address = address.id THEN [share[s] EXCEPT !.address = Absent]
           ELSE share[s]]
  BY DEF DeleteAddress
<1>3. address' \in Address /\ address'.id = Absent  BY <1>1, <1>2 DEF Address
<1>4. AddressMoves  BY <1>1, <1>2, <1>3 DEF AddressMoves, PasswordIsLatest
<1>5. \A s \in Shares : /\ share'[s] \in Share
                        /\ share'[s].address \in {share[s].address, Absent}
                        /\ share[s].revoked => share'[s].revoked
  BY <1>1, <1>2 DEF Share
<1>6. share' \in [Shares -> Share]  BY <1>2, <1>5
<1>7. lastId \in Nat  BY <1>1 DEF Ids
<1>8. SharesKnown'  BY <1>1, <1>2, <1>5, <1>7 DEF SharesKnown, Absent
<1> QED BY <1>1, <1>2, <1>4, <1>5, <1>6, <1>8 DEF SharesMove

-----------------------------------------------------------------------------
(***************************************************************************)
(* The invariant.                                                          *)
(***************************************************************************)

LEMMA InitAuthority == Init => Authority
<1> SUFFICES ASSUME Init PROVE Authority  OBVIOUS
<1>1. PICK p \in Passwords :
        /\ address = [id |-> 1, version |-> 1, password |-> p, legacy |-> TRUE]
        /\ chosen = p
        /\ request = [r \in Requests |->
             [pc |-> "idle", op |-> "none", id |-> Absent, version |-> 0,
              password |-> p, token |-> FALSE, clobbers |-> FALSE, older |-> {}]]
  BY DEF Init
<1>2. address \in Address  BY <1>1, AddressAuthorityAssumption DEF Address, Ids
<1>3. request \in [Requests -> Request]  BY <1>1 DEF Request
<1>4. share = [s \in Shares |->
        [address |-> IF s = 1 THEN 1 ELSE Absent, revoked |-> FALSE,
         expiry |-> IF s = 1 THEN OldExpiry ELSE "never"]]
  BY DEF Init
<1>5. \A s \in Shares : share[s] \in Share /\ share[s].address \in {1, Absent}
  BY <1>4, AddressAuthorityAssumption DEF Share, Ids
<1>6. share \in [Shares -> Share]  BY <1>4, <1>5
<1>7. lastId \in Ids /\ lastId = 1 /\ lastShare \in 0..MaxShares
  BY AddressAuthorityAssumption DEF Init, Ids
<1>8. TypeOK
  <2>1. address.id <= lastId /\ chosen \in Passwords \cup {NoPassword}  BY <1>1, <1>7
  <2>2. \A r \in Requests : ~request[r].token  BY <1>1
  <2> QED BY <1>2, <1>3, <1>6, <1>7, <2>1, <2>2 DEF TypeOK
<1>9. Phases  BY <1>1 DEF Phases, Phase
<1>10. RequestsKnown  BY <1>1, <1>7 DEF RequestsKnown, Known, Absent
<1>11. SharesKnown  BY <1>5, <1>7 DEF SharesKnown, Absent
<1>12. PasswordIsLatest  BY <1>1 DEF PasswordIsLatest
<1> QED BY <1>8, <1>9, <1>10, <1>11, <1>12 DEF Authority

LEMMA HandleSteps == ASSUME Authority, NEW r \in Requests, Handle(r) PROVE Steps(r)
BY LoginSteps, UpgradeSteps, ChangeSteps, ChangeUpdateSteps, ChangeIssueSteps,
   ResetPasswordSteps, RotateSteps, RotateUpdateSteps, ShowSteps,
   CreateSteps, CreateFindSteps, CreateGenerateSteps,
   CreateShareSteps, CreateShareRevokeSteps, CreateShareInsertSteps, AbandonSteps
DEF Handle

\* Every step moves at most one request, and the address and the links as they may.
LEMMA NextMoves ==
  ASSUME Authority, Next
  PROVE  /\ AddressMoves /\ SharesMove
         /\ request' = request \/ \E r \in Requests : Moves(r)
<1>1. CASE \E r \in Requests : Handle(r)  BY <1>1, HandleSteps DEF Steps
<1>2. CASE \E s \in Shares : UpdateShare(s) \/ Expire(s)
  BY <1>2, UpdateShareSteps DEF UpdateShare, Expire
<1>3. CASE Revoke  BY <1>3, RevokeSteps DEF Revoke, RevokeShares
<1>4. CASE DeleteAddress  BY <1>4, DeleteAddressSteps DEF DeleteAddress
<1> QED BY <1>1, <1>2, <1>3, <1>4 DEF Next

\* What is known stays known: ids are never given twice.
LEMMA KnownStays ==
  ASSUME Authority, AddressMoves, NEW q \in Request, Known(q, address, lastId)
  PROVE  Known(q, address', lastId')
<1>1. /\ q.id \in Ids \cup {Absent} /\ q.version \in Nat
      /\ address.id \in Ids \cup {Absent} /\ address.version \in Nat
      /\ address'.version \in Nat /\ lastId \in Ids
  BY DEF Request, Address, Authority, TypeOK, AddressMoves
<1>2. q.id \in Nat /\ address.id \in Nat /\ lastId \in Nat  BY <1>1 DEF Ids, Absent
<1>3. CASE address'.id = address.id /\ address'.version >= address.version /\ lastId' = lastId
  BY <1>1, <1>2, <1>3 DEF Known
<1>4. CASE address'.id = Absent /\ lastId' = lastId  BY <1>2, <1>4 DEF Known
<1>5. CASE address.id = Absent /\ address'.id = lastId + 1 /\ lastId' = lastId + 1
  BY <1>2, <1>5 DEF Known
<1> QED BY <1>3, <1>4, <1>5 DEF AddressMoves

LEMMA AuthorityStep == Authority /\ [Next]_vars => Authority'
<1>1. CASE UNCHANGED vars
  BY <1>1 DEF vars, Authority, TypeOK, Phases, RequestsKnown, SharesKnown, PasswordIsLatest,
     Known, Phase
<1>2. ASSUME Authority, Next PROVE Authority'
  <2>1. /\ AddressMoves /\ SharesMove
        /\ request' = request \/ \E r \in Requests : Moves(r)
    BY <1>2, NextMoves
  <2>2. request \in [Requests -> Request]  BY <1>2 DEF Authority, TypeOK
  <2>3. \A s \in Requests : Phase(request[s]) /\ Known(request[s], address', lastId')
    BY <1>2, <2>1, Facts, KnownStays
  <2>4. /\ request' \in [Requests -> Request]
        /\ \A s \in Requests : Phase(request'[s]) /\ Known(request'[s], address', lastId')
    <3>1. CASE request' = request  BY <2>2, <2>3, <3>1
    <3>2. CASE \E r \in Requests : Moves(r)
      <4>1. PICK r \in Requests, q \in Request :
              Phase(q) /\ Known(q, address', lastId') /\ request' = [request EXCEPT ![r] = q]
        BY <3>2 DEF Moves, Become
      <4> QED BY <2>2, <2>3, <4>1
    <3> QED BY <2>1, <3>1, <3>2
  <2>5. Phases' /\ RequestsKnown'  BY <2>4 DEF Phases, RequestsKnown
  <2>6. \A s \in Requests :
          request'[s].token => request'[s].id # Absent /\ request'[s].version > 0
    BY <2>4 DEF Phase
  <2>7. address'.id <= lastId'
    <3>1. lastId \in Nat /\ address.id <= lastId /\ address.id \in Nat /\ lastId + 1 \in Nat
      <4>1. lastId \in Ids /\ address \in Address /\ address.id <= lastId
        BY <1>2 DEF Authority, TypeOK
      <4>2. address.id \in Ids \cup {Absent}  BY <4>1 DEF Address
      <4> QED BY <4>1, <4>2 DEF Ids, Absent
    <3> QED BY <2>1, <3>1 DEF AddressMoves, Absent
  <2>8. TypeOK'  BY <2>1, <2>4, <2>6, <2>7 DEF TypeOK, AddressMoves, SharesMove
  <2> QED BY <2>1, <2>5, <2>8 DEF Authority, AddressMoves, SharesMove
<1> QED BY <1>1, <1>2

LEMMA AuthorityInvariant == Spec => []Authority
BY InitAuthority, AuthorityStep, PTL DEF Spec

\* The variables of the module keep their types, and an answered token belongs to
\* an address and a version.
THEOREM TypeCorrect == Spec => []TypeOK
<1>1. Authority => TypeOK  BY DEF Authority
<1> QED BY <1>1, AuthorityInvariant, PTL

\* A late upgrade of the stored format never brings back a replaced password
\* (address_auth.ts: the UPDATE compares the record that was read).
THEOREM UpgradeKeepsPassword == Spec => []PasswordIsLatest
<1>1. Authority => PasswordIsLatest  BY DEF Authority
<1> QED BY <1>1, AuthorityInvariant, PTL

-----------------------------------------------------------------------------
(***************************************************************************)
(* What is revoked stays revoked.                                          *)
(***************************************************************************)

\* A token that has been answered is never changed, and its address and version
\* never come back once they are gone.
LEMMA TokenStaysRevoked ==
  ASSUME Authority, Next, NEW r \in Requests, request[r].token, ~TokenValid(r)
  PROVE  ~TokenValid(r)'
<1> DEFINE q == request[r]
<1>1. /\ q \in Request /\ Phase(q) /\ Known(q, address, lastId)
      /\ address.id \in Nat /\ address.version \in Nat /\ lastId \in Nat
      /\ q.id \in Nat /\ q.version \in Nat
  BY Facts
<1>2. q.pc = "done" /\ q.id # Absent  BY <1>1 DEF Phase
<1>3. AddressMoves /\ (request' = request \/ \E s \in Requests : Moves(s))  BY NextMoves
<1>4. request'[r] = q
  <2>1. request \in [Requests -> Request]  BY DEF Authority, TypeOK
  <2> QED BY <1>2, <1>3, <2>1 DEF Moves, Become
<1>5. address.id # q.id \/ q.version < address.version
  BY <1>1, <1>2 DEF TokenValid, Valid, Known
<1>6. ~(address'.id = q.id /\ address'.version = q.version)
  <2>1. address'.version \in Nat  BY <1>3 DEF AddressMoves, Address
  <2>2. CASE address'.id = address.id /\ address'.version >= address.version
    BY <1>1, <1>5, <2>1, <2>2
  <2>3. CASE address'.id = Absent  BY <1>2, <2>3
  <2>4. CASE address'.id = lastId + 1  BY <1>1, <2>4 DEF Known
  <2> QED BY <1>3, <2>2, <2>3, <2>4 DEF AddressMoves
<1> QED BY <1>4, <1>6 DEF TokenValid, Valid

LEMMA ShareStaysRevoked ==
  ASSUME Authority, Next, NEW s \in Shares, s <= lastShare, share[s].expiry # "past",
         ~ShareValid(s)
  PROVE  ~ShareValid(s)'
<1>1. AddressMoves /\ SharesMove  BY NextMoves
<1>2. /\ address.id \in Nat /\ lastId \in Nat /\ share[s].address \in Nat
      /\ share[s].address <= lastId
  <2>1. lastId \in Ids /\ share[s] \in Share /\ address \in Address /\ share[s].address <= lastId
    BY DEF Authority, TypeOK, SharesKnown
  <2>2. lastId \in Ids /\ share[s].address \in Ids \cup {Absent} /\ address.id \in Ids \cup {Absent}
    BY <2>1 DEF Share, Address
  <2> QED BY <2>1, <2>2 DEF Ids, Absent
<1>3. /\ share'[s].address \in {share[s].address, Absent}
      /\ share[s].revoked => share'[s].revoked
  BY <1>1 DEF SharesMove
<1>4. CASE share[s].revoked  BY <1>3, <1>4 DEF ShareValid, Active
<1>5. CASE share'[s].address = Absent  BY <1>5 DEF ShareValid, Active
<1>6. CASE share[s].address = Absent  BY <1>3, <1>6 DEF ShareValid, Active
<1>7. CASE /\ share'[s].address = share[s].address /\ share[s].address # Absent
           /\ share[s].address # address.id
  <2>1. share'[s].address # address'.id
    BY <1>1, <1>2, <1>7 DEF AddressMoves
  <2> QED BY <2>1 DEF ShareValid
<1> QED BY <1>3, <1>4, <1>5, <1>6, <1>7 DEF ShareValid, Active

\* No token of an earlier version or of a deleted address and no revoked link is
\* accepted again, whatever the requests under way do and also when the same name
\* is registered again (AUTOINCREMENT and the version of the row).
THEOREM RevocationIsFinal == Spec => StaysRevoked
<1>1. Authority /\ [Next]_vars =>
        [/\ \A r \in Requests : request[r].token /\ ~TokenValid(r) => ~TokenValid(r)'
         /\ \A s \in Shares : s <= lastShare /\ share[s].expiry # "past" /\ ~ShareValid(s)
              => ~ShareValid(s)']_vars
  BY TokenStaysRevoked, ShareStaysRevoked
<1> QED BY <1>1, AuthorityInvariant, PTL DEF Spec, StaysRevoked

-----------------------------------------------------------------------------
(***************************************************************************)
(* Rotations.                                                              *)
(***************************************************************************)

\* The version of a new token is above that of all others of the address.
LEMMA RotationStep ==
  ASSUME Authority, RotatedOnce, Next
  PROVE  RotatedOnce'
<1> DEFINE Rotated(q) == q.op = "rotate" /\ q.token
<1>1. request \in [Requests -> Request]  BY DEF Authority, TypeOK
<1>2. CASE request' = request  BY <1>2 DEF RotatedOnce
<1>3. CASE \E r \in Requests : Moves(r)
  <2>1. PICK r \in Requests, q \in Request :
          /\ request' = [request EXCEPT ![r] = q]
          /\ q.op = "rotate" /\ q.token => RotateUpdate(r)
    BY <1>3 DEF Moves, Become
  <2>2. request'[r] = q /\ \A s \in Requests \ {r} : request'[s] = request[s]
    BY <1>1, <2>1
  <2>3. ASSUME Rotated(q), NEW s \in Requests \ {r}, request[s].id = q.id
        PROVE  request[s].version # q.version
    <3>1. /\ Valid(request[r].id, request[r].version)
          /\ q.version = address.version + 1 /\ q.id = request[r].id
      BY <2>1, <2>2, <2>3, RotateUpdateSteps
    <3>2. /\ Known(request[s], address, lastId)
          /\ request[s].version \in Nat /\ address.version \in Nat
      BY Facts
    <3> QED BY <2>3, <3>1, <3>2 DEF Known, Valid
  <2> QED BY <2>2, <2>3 DEF RotatedOnce
<1> QED BY <1>2, <1>3, NextMoves

\* Two rotations never both succeed from one version (address_credential_api.ts:
\* the UPDATE compares the version the administrator has seen).
THEOREM RotationsApart == Spec => []RotatedOnce
<1>1. Init => RotatedOnce  BY DEF Init, RotatedOnce
<1>2. Authority /\ RotatedOnce /\ [Next]_vars => RotatedOnce'
  <2>1. CASE UNCHANGED vars  BY <2>1 DEF vars, RotatedOnce
  <2> QED BY <2>1, RotationStep
<1> QED BY <1>1, <1>2, AuthorityInvariant, PTL DEF Spec

-----------------------------------------------------------------------------
(***************************************************************************)
(* Logins.                                                                 *)
(***************************************************************************)

Clobbered == \E c \in Requests : request[c].clobbers

\* A login, whether it has its token yet or not, that the current version of the row
\* would accept.
LoginCurrent(q, row) ==
  q.op = "login" /\ q.id # Absent /\ q.id = row.id /\ q.version = row.version

\* LoginFresh is not inductive: it says nothing of a login before its token.
LoginsFresh ==
  Clobbered \/ \A r \in Requests :
    LoginCurrent(request[r], address) => request[r].password = address.password

\* How a request may go on: it keeps its mark, and a login what it has read.
LoginMoves(r, q) ==
  /\ Become(r, q)
  /\ request[r].clobbers => q.clobbers
  /\ q.op = "login" =>
       \/ /\ request[r].op = "login"
          /\ <<q.id, q.version, q.password>>
               = <<request[r].id, request[r].version, request[r].password>>
       \/ q.password = address.password /\ address' = address

\* The row under the same version keeps its password, unless it had none.
PasswordKept ==
  address'.id # Absent /\ address'.id = address.id /\ address'.version = address.version
    => address'.password = address.password \/ address.password = NoPassword

LEMMA HandleLogins ==
  ASSUME Authority, NEW r \in Requests, Handle(r)
  PROVE  \E q : LoginMoves(r, q)
<1> DEFINE q == request[r]
<1>1. q \in Request /\ Phase(q)  BY Facts
<1>2. CASE Login(r)
  <2> DEFINE seen == [q EXCEPT !.op = "login", !.id = address.id,
                               !.version = address.version, !.password = address.password]
             slow == [seen EXCEPT !.pc = "upgrade"]
             fast == [seen EXCEPT !.pc = "done", !.token = TRUE]
  <2>1. address' = address /\ Become(r, IF address.legacy THEN slow ELSE fast)
    BY <1>2 DEF Login, KeepAddress
  <2>2. /\ slow.clobbers = q.clobbers /\ slow.password = address.password
        /\ fast.clobbers = q.clobbers /\ fast.password = address.password
    BY <1>1 DEF Request
  <2> HIDE DEF slow, fast
  <2>3. Become(r, slow) \/ Become(r, fast)  BY <2>1
  <2> QED BY <2>1, <2>2, <2>3 DEF LoginMoves
<1>3. ASSUME NEW u, Become(r, u), u.clobbers = q.clobbers \/ u.clobbers, u.op # "login"
      PROVE  \E x : LoginMoves(r, x)
  BY <1>3 DEF LoginMoves
<1>4. ASSUME NEW u, Become(r, u), u.clobbers = q.clobbers,
             u.op = q.op, u.id = q.id, u.version = q.version, u.password = q.password
      PROVE  \E x : LoginMoves(r, x)
  BY <1>4 DEF LoginMoves
<1>5. CASE Upgrade(r)
  <2> DEFINE u == [q EXCEPT !.pc = "done", !.token = TRUE]
  <2>1. Become(r, u)  BY <1>5 DEF Upgrade
  <2>2. /\ u.clobbers = q.clobbers /\ u.op = q.op /\ u.id = q.id
        /\ u.version = q.version /\ u.password = q.password
    BY <1>1 DEF Request
  <2> HIDE DEF u
  <2> QED BY <1>4, <2>1, <2>2
<1>6. CASE Abandon(r) \/ CreateShareRevoke(r) \/ CreateShareInsert(r)
  <2> DEFINE u == [q EXCEPT !.pc = "done", !.older = {}]
             v == [q EXCEPT !.pc = "insert"]
             w == [q EXCEPT !.pc = "done"]
  <2>1. Become(r, u) \/ Become(r, v) \/ Become(r, w)
    BY <1>6 DEF Abandon, CreateShareRevoke, CreateShareInsert
  <2>2. /\ u.clobbers = q.clobbers /\ u.op = q.op /\ u.id = q.id
        /\ u.version = q.version /\ u.password = q.password
    BY <1>1 DEF Request
  <2>3. /\ v.clobbers = q.clobbers /\ v.op = q.op /\ v.id = q.id
        /\ v.version = q.version /\ v.password = q.password
    BY <1>1 DEF Request
  <2>4. /\ w.clobbers = q.clobbers /\ w.op = q.op /\ w.id = q.id
        /\ w.version = q.version /\ w.password = q.password
    BY <1>1 DEF Request
  <2> HIDE DEF u, v, w
  <2> QED BY <1>4, <2>1, <2>2, <2>3, <2>4
<1>7. CASE Change(r) \/ ResetPassword(r)
  <2> DEFINE u(p) == [q EXCEPT !.pc = "update", !.op = "change", !.id = address.id,
                               !.password = p]
             v(p) == [q EXCEPT !.pc = "done", !.op = "reset", !.password = p]
  <2>1. PICK p \in Passwords : Become(r, u(p)) \/ Become(r, v(p))
    BY <1>7 DEF Change, ResetPassword
  <2>2. u(p).clobbers = q.clobbers /\ u(p).op = "change"  BY <1>1 DEF Request
  <2>3. v(p).clobbers = q.clobbers /\ v(p).op = "reset"  BY <1>1 DEF Request
  <2> HIDE DEF u, v
  <2> QED BY <1>3, <2>1, <2>2, <2>3
<1>8. CASE ChangeUpdate(r) \/ ChangeIssue(r)
  <2> DEFINE k == IF address.id = q.id THEN address.version ELSE 1
             u == [q EXCEPT !.pc = "issue"]
             v == [q EXCEPT !.pc = "done", !.token = TRUE, !.version = k]
  <2>1. Become(r, u) \/ Become(r, v)  BY <1>8 DEF ChangeUpdate, ChangeIssue
  <2>2. q.op # "login"  BY <1>1, <1>8 DEF Phase, ChangeUpdate, ChangeIssue
  <2>3. u.clobbers = q.clobbers /\ u.op = q.op  BY <1>1 DEF Request
  <2>4. v.clobbers = q.clobbers /\ v.op = q.op  BY <1>1 DEF Request
  <2> HIDE DEF u, v
  <2> QED BY <1>3, <2>1, <2>2, <2>3, <2>4
<1>9. CASE Rotate(r) \/ ShowCredential(r) \/ CreateShare(r)
  <2> DEFINE old == {s \in Shares : ShareValid(s) /\ share[s].expiry = "never"}
             u == [q EXCEPT !.pc = "rotate", !.op = "rotate", !.id = address.id,
                            !.version = address.version]
             v == [q EXCEPT !.pc = "done", !.op = "show", !.id = address.id,
                            !.version = address.version, !.token = TRUE]
             w == [q EXCEPT !.pc = "revoke", !.op = "share", !.id = address.id,
                            !.older = old]
  <2>1. Become(r, u) \/ Become(r, v) \/ Become(r, w)
    BY <1>9 DEF Rotate, ShowCredential, CreateShare
  <2>2. u.clobbers = q.clobbers /\ u.op = "rotate"  BY <1>1 DEF Request
  <2>3. v.clobbers = q.clobbers /\ v.op = "show"  BY <1>1 DEF Request
  <2>4. w.clobbers = q.clobbers /\ w.op = "share"  BY <1>1 DEF Request
  <2> HIDE DEF u, v, w
  <2> QED BY <1>3, <2>1, <2>2, <2>3, <2>4
<1>10. CASE RotateUpdate(r)
  <2> DEFINE k == q.version + 1
             u == [q EXCEPT !.pc = "done", !.token = TRUE, !.version = k]
             v == [q EXCEPT !.pc = "done"]
  <2>1. Become(r, u) \/ Become(r, v)  BY <1>10 DEF RotateUpdate
  <2>2. q.op # "login"  BY <1>1, <1>10 DEF Phase, RotateUpdate
  <2>3. u.clobbers = q.clobbers /\ u.op = q.op  BY <1>1 DEF Request
  <2>4. v.clobbers = q.clobbers /\ v.op = q.op  BY <1>1 DEF Request
  <2> HIDE DEF u, v
  <2> QED BY <1>3, <2>1, <2>2, <2>3, <2>4
<1>11. CASE Create(r) \/ CreateFind(r)
  <2> DEFINE u == [q EXCEPT !.pc = "find", !.op = "create"]
             v == [q EXCEPT !.pc = "done"]
             w == [q EXCEPT !.pc = "generate", !.id = address.id]
  <2>1. \/ Become(r, u)
        \/ q.pc = "find" /\ (Become(r, v) \/ Become(r, w))
    BY <1>11 DEF Create, CreateFind
  <2>2. u.clobbers = q.clobbers /\ u.op = "create"  BY <1>1 DEF Request
  <2>3. v.clobbers = q.clobbers /\ v.op = q.op  BY <1>1 DEF Request
  <2>4. w.clobbers = q.clobbers /\ w.op = q.op  BY <1>1 DEF Request
  <2>5. q.pc = "find" => q.op # "login"  BY <1>1 DEF Phase
  <2> HIDE DEF u, v, w
  <2> QED BY <1>3, <2>1, <2>2, <2>3, <2>4, <2>5
<1>12. CASE CreateGenerate(r)
  <2> DEFINE u(p) == [q EXCEPT !.pc = "issue", !.password = p]
             w(p) == [q EXCEPT !.pc = "issue", !.password = p,
                               !.clobbers = address.password # NoPassword]
  <2>1. q.op # "login" /\ ~q.clobbers  BY <1>1, <1>12 DEF Phase, CreateGenerate
  <2>2. PICK p \in Passwords : Become(r, u(p)) \/ Become(r, w(p))
    BY <1>12 DEF CreateGenerate
  <2>3. u(p).clobbers = q.clobbers /\ u(p).op = q.op  BY <1>1 DEF Request
  <2>4. w(p).op = q.op  BY <1>1 DEF Request
  <2> HIDE DEF u, w
  <2> QED BY <1>3, <2>1, <2>2, <2>3, <2>4 DEF LoginMoves
<1> QED BY <1>2, <1>5, <1>6, <1>7, <1>8, <1>9, <1>10, <1>11, <1>12 DEF Handle

\* Only a generated password that is stored late replaces one without a new version.
LEMMA PasswordsKept == ASSUME Authority, Next PROVE PasswordKept \/ Clobbered'
<1>1. /\ address \in Address /\ address.version \in Nat
      /\ request \in [Requests -> Request]
  BY DEF Authority, TypeOK, Address
<1>2. ASSUME address' \in {address, [address EXCEPT !.legacy = FALSE],
                           [address EXCEPT !.id = Absent]}
      PROVE  PasswordKept
  BY <1>1, <1>2 DEF PasswordKept, Address
<1>3. ASSUME NEW id, NEW p, SetPassword(id, p) PROVE PasswordKept
  <2>1. CASE address.id = id
    <3> DEFINE v == address.version + 1
    <3>1. PICK legacy \in BOOLEAN :
            address' = [address EXCEPT !.password = p, !.legacy = legacy, !.version = v]
      BY <1>3, <2>1 DEF SetPassword
    <3>2. v # address.version  BY <1>1
    <3> HIDE DEF v
    <3>3. address'.version = v  BY <1>1, <3>1 DEF Address
    <3> QED BY <3>2, <3>3 DEF PasswordKept
  <2>2. CASE address.id # id  BY <1>2, <1>3, <2>2 DEF SetPassword
  <2> QED BY <2>1, <2>2
<1>4. ASSUME NEW r \in Requests, ChangeUpdate(r) \/ ResetPassword(r) PROVE PasswordKept
  BY <1>3, <1>4 DEF ChangeUpdate, ResetPassword
<1>5. ASSUME NEW r \in Requests, RotateUpdate(r) PROVE PasswordKept
  <2> DEFINE v == address.version + 1
  <2>1. address' = address \/ address' = [address EXCEPT !.version = v]
    BY <1>5 DEF RotateUpdate
  <2>2. v # address.version  BY <1>1
  <2> HIDE DEF v
  <2>3. address' = address \/ address'.version = v  BY <1>1, <2>1 DEF Address
  <2> QED BY <2>2, <2>3 DEF PasswordKept
<1>6. ASSUME NEW r \in Requests, Create(r) PROVE PasswordKept
  BY <1>6 DEF Create, PasswordKept
<1>7. ASSUME NEW r \in Requests, CreateGenerate(r) PROVE PasswordKept \/ Clobbered'
  <2> DEFINE w(p) == [request[r] EXCEPT !.pc = "issue", !.password = p,
                                        !.clobbers = address.password # NoPassword]
  <2>1. CASE address.id # Absent /\ address.password # NoPassword
    <3>1. PICK p \in Passwords : request' = [request EXCEPT ![r] = w(p)]
      BY <1>7, <2>1 DEF CreateGenerate, Become
    <3>2. request'[r].clobbers  BY <1>1, <2>1, <3>1 DEF Request
    <3> QED BY <3>2 DEF Clobbered
  <2>2. CASE address.id = Absent
    BY <1>2, <1>7, <2>2 DEF CreateGenerate
  <2>3. CASE address.password = NoPassword  BY <2>3 DEF PasswordKept
  <2> QED BY <2>1, <2>2, <2>3
<1>8. ASSUME NEW r \in Requests, Handle(r),
             ~(ChangeUpdate(r) \/ ResetPassword(r) \/ RotateUpdate(r) \/ Create(r)
               \/ CreateGenerate(r))
      PROVE  PasswordKept
  <2>1. address' \in {address, [address EXCEPT !.legacy = FALSE]}
    BY <1>8 DEF Handle, Login, Upgrade, Change, ChangeIssue, Rotate, ShowCredential,
       CreateFind, CreateShare, CreateShareRevoke, CreateShareInsert, Abandon, KeepAddress
  <2> QED BY <1>2, <2>1
<1>9. CASE \E r \in Requests : Handle(r)  BY <1>4, <1>5, <1>6, <1>7, <1>8, <1>9
<1>10. CASE ~\E r \in Requests : Handle(r)
  <2>1. address' \in {address, [address EXCEPT !.id = Absent]}
    BY <1>10 DEF Next, UpdateShare, Expire, Revoke, RevokeShares, DeleteAddress, KeepAddress
  <2> QED BY <1>2, <2>1
<1> QED BY <1>9, <1>10

LEMMA LoginsStep == ASSUME Authority, LoginsFresh, Next PROVE LoginsFresh'
<1>1. AddressMoves /\ (PasswordKept \/ Clobbered')  BY NextMoves, PasswordsKept
<1>2. request' = request \/ \E r \in Requests : \E q : LoginMoves(r, q)
  BY HandleLogins DEF Next, UpdateShare, Expire, Revoke, RevokeShares, DeleteAddress
<1>3. request \in [Requests -> Request]  BY DEF Authority, TypeOK
<1>4. Clobbered => Clobbered'
  BY <1>2, <1>3 DEF Clobbered, LoginMoves, Become
<1>5. ASSUME ~Clobbered, PasswordKept,
             NEW s \in Requests, LoginCurrent(request'[s], address')
      PROVE  request'[s].password = address'.password
  <2>1. \/ /\ request[s].op = "login"
           /\ <<request'[s].id, request'[s].version, request'[s].password>>
                = <<request[s].id, request[s].version, request[s].password>>
        \/ request'[s].password = address.password /\ address' = address
    BY <1>2, <1>3, <1>5 DEF LoginMoves, Become, LoginCurrent
  <2>2. SUFFICES ASSUME request[s].op = "login",
                        <<request'[s].id, request'[s].version, request'[s].password>>
                          = <<request[s].id, request[s].version, request[s].password>>
                 PROVE  request[s].password = address'.password
    BY <2>1
  <2>3. /\ request[s].id = address'.id /\ request[s].version = address'.version
        /\ request[s].id # Absent
    BY <1>5, <2>2 DEF LoginCurrent
  <2>4. /\ Known(request[s], address, lastId)
        /\ request[s].id \in Nat /\ request[s].version \in Nat
        /\ address.version \in Nat /\ lastId \in Nat
    BY Facts
  <2>5. address'.id = address.id /\ address'.version = address.version
    BY <1>1, <2>3, <2>4 DEF AddressMoves, Known
  <2>6. request[s].password = address.password
    BY <1>5, <2>2, <2>3, <2>5 DEF LoginsFresh, LoginCurrent
  <2>7. request[s].password # NoPassword  BY <1>3, AddressAuthorityAssumption DEF Request
  <2> QED BY <1>5, <2>3, <2>5, <2>6, <2>7 DEF PasswordKept
<1> QED BY <1>1, <1>4, <1>5 DEF LoginsFresh

\* Whoever is in by a login knows the current password, except after a generated
\* password that was stored late (address_auth.ts, credential_version).
THEOREM LoginsAreFresh == Spec => []LoginFresh
<1>1. Init => LoginsFresh  BY DEF Init, LoginsFresh, LoginCurrent
<1>2. Authority /\ LoginsFresh /\ [Next]_vars => LoginsFresh'
  <2>1. CASE UNCHANGED vars  BY <2>1 DEF vars, LoginsFresh, Clobbered
  <2> QED BY <2>1, LoginsStep
<1>3. LoginsFresh => LoginFresh
  BY DEF LoginsFresh, LoginFresh, LoginCurrent, Clobbered, TokenValid, Valid
<1> QED BY <1>1, <1>2, <1>3, AuthorityInvariant, PTL DEF Spec

-----------------------------------------------------------------------------
(***************************************************************************)
(* The links that a new one replaces.                                      *)
(***************************************************************************)

\* A link that has not been inserted belongs to no address.
SharesUnused == \A s \in Shares : s > lastShare => share[s].address = Absent

\* A link that was in use when the creation of a new one began is still the
\* address's or nobody's, never expires, and is out of use after the revocation.
Replaced(q) ==
  q.op = "share" => \A s \in q.older :
    /\ s <= lastShare /\ share[s].expiry = "never"
    /\ share[s].address \in {q.id, Absent}
    /\ q.pc \in {"insert", "done"} => share[s].revoked \/ share[s].address = Absent

LinksReplaced == SharesUnused /\ \A r \in Requests : Replaced(request[r])

\* A link that never expires goes on doing so.
LinksMove ==
  /\ SharesMove /\ SharesUnused' /\ lastShare' >= lastShare
  /\ \A s \in Shares : s <= lastShare /\ share[s].expiry = "never"
       => share'[s].expiry = "never"

LEMMA NextLinks == ASSUME Authority, SharesUnused, Next PROVE LinksMove
<1>1. /\ share \in [Shares -> Share] /\ lastShare \in Nat
  BY AddressAuthorityAssumption DEF Authority, TypeOK
<1>2. SharesMove  BY NextMoves
<1>3. ASSUME lastShare' = lastShare,
             \A s \in Shares :
               /\ share'[s].expiry = "never" \/ share'[s].expiry = share[s].expiry
                    \/ share[s].expiry # "never"
               /\ share[s].address = Absent => share'[s].address = Absent
      PROVE  LinksMove
  BY <1>1, <1>2, <1>3 DEF LinksMove, SharesUnused
<1>4. ASSUME NEW r \in Requests, CreateShareInsert(r) PROVE LinksMove
  <2> DEFINE new == [address |-> request[r].id, revoked |-> FALSE, expiry |-> "never"]
  <2>1. /\ lastShare' = lastShare + 1 /\ share' = [share EXCEPT ![lastShare + 1] = new]
    BY <1>4 DEF CreateShareInsert
  <2> HIDE DEF new
  <2>2. \A s \in Shares : s # lastShare + 1 => share'[s] = share[s]  BY <1>1, <2>1
  <2>3. \A s \in Shares : s \in Nat  BY DEF Shares
  <2> QED BY <1>1, <1>2, <2>1, <2>2, <2>3 DEF LinksMove, SharesUnused
<1>5. ASSUME NEW r \in Requests, CreateShareRevoke(r) PROVE LinksMove
  <2>1. /\ lastShare' = lastShare
        /\ share' = [s \in Shares |->
             IF Replaces(s, request[r].id) THEN [share[s] EXCEPT !.revoked = TRUE]
             ELSE share[s]]
    BY <1>5 DEF CreateShareRevoke
  <2>2. \A s \in Shares : /\ share'[s].expiry = share[s].expiry
                          /\ share'[s].address = share[s].address
    BY <1>1, <2>1 DEF Share
  <2> QED BY <1>3, <2>1, <2>2
<1>6. ASSUME NEW r \in Requests, Handle(r), ~CreateShareRevoke(r), ~CreateShareInsert(r)
      PROVE  LinksMove
  <2>1. share' = share /\ lastShare' = lastShare
    BY <1>6 DEF Handle, Login, Upgrade, Change, ChangeUpdate, ChangeIssue, ResetPassword,
       Rotate, RotateUpdate, ShowCredential, Create, CreateFind, CreateGenerate,
       CreateShare, Abandon, KeepShares
  <2> QED BY <1>3, <2>1
<1>7. ASSUME NEW s \in Shares, UpdateShare(s) \/ Expire(s) PROVE LinksMove
  <2>1. /\ lastShare' = lastShare
        /\ \E e : /\ share' = [share EXCEPT ![s].expiry = e]
                  /\ e = "never" \/ share[s].expiry = "later"
    BY <1>7 DEF UpdateShare, Expire
  <2>2. \A x \in Shares :
          /\ share'[x].expiry = "never" \/ share'[x].expiry = share[x].expiry
               \/ share[x].expiry # "never"
          /\ share'[x].address = share[x].address
    BY <1>1, <2>1 DEF Share
  <2> QED BY <1>3, <2>1, <2>2
<1>8. ASSUME Revoke PROVE LinksMove
  <2>1. PICK revoked : RevokeShares(revoked)  BY <1>8 DEF Revoke
  <2>2. \A s \in Shares : /\ share'[s].expiry = share[s].expiry
                          /\ share'[s].address = share[s].address
    BY <1>1, <2>1 DEF RevokeShares, Share
  <2> QED BY <1>3, <2>1, <2>2 DEF RevokeShares
<1>9. ASSUME DeleteAddress PROVE LinksMove
  <2>1. \A s \in Shares : /\ share'[s].expiry = share[s].expiry
                          /\ share'[s].address \in {share[s].address, Absent}
    BY <1>1, <1>9 DEF DeleteAddress, Share
  <2> QED BY <1>3, <1>9, <2>1 DEF DeleteAddress
<1> QED BY <1>4, <1>5, <1>6, <1>7, <1>8, <1>9 DEF Next

\* How the creation of a link goes on.
CreationMoves(r, q) ==
  /\ Become(r, q)
  /\ q.op = "share" =>
       \/ q.older = {}
       \/ /\ CreateShare(r) /\ q.pc = "revoke" /\ q.id = address.id
          /\ q.older = {s \in Shares : ShareValid(s) /\ share[s].expiry = "never"}
       \/ /\ request[r].op = "share" /\ q.id = request[r].id /\ q.older = request[r].older
          /\ CreateShareRevoke(r) \/ request[r].pc = "insert"

LEMMA HandleLinks ==
  ASSUME Authority, NEW r \in Requests, Handle(r)
  PROVE  \E q : CreationMoves(r, q)
<1> DEFINE q == request[r]
<1>1. q \in Request /\ Phase(q)  BY Facts
<1>2. CASE CreateShare(r)
  <2> DEFINE old == {s \in Shares : ShareValid(s) /\ share[s].expiry = "never"}
             u   == [q EXCEPT !.pc = "revoke", !.op = "share", !.id = address.id,
                              !.older = old]
  <2>1. Become(r, u)  BY <1>2 DEF CreateShare
  <2> HIDE DEF old
  <2>2. u.pc = "revoke" /\ u.id = address.id /\ u.older = old  BY <1>1 DEF Request
  <2> HIDE DEF u
  <2>3. u.pc = "revoke" /\ u.id = address.id
        /\ u.older = {s \in Shares : ShareValid(s) /\ share[s].expiry = "never"}
    BY <2>2 DEF old
  <2> QED BY <1>2, <2>1, <2>3 DEF CreationMoves
<1>3. CASE CreateShareRevoke(r)
  <2> DEFINE u == [q EXCEPT !.pc = "insert"]
  <2>1. Become(r, u)  BY <1>3 DEF CreateShareRevoke
  <2>2. u.op = q.op /\ u.id = q.id /\ u.older = q.older  BY <1>1 DEF Request
  <2> HIDE DEF u
  <2> QED BY <1>3, <2>1, <2>2 DEF CreationMoves
<1>4. CASE CreateShareInsert(r)
  <2> DEFINE u == [q EXCEPT !.pc = "done"]
  <2>1. Become(r, u) /\ q.pc = "insert"  BY <1>4 DEF CreateShareInsert
  <2>2. u.op = q.op /\ u.id = q.id /\ u.older = q.older  BY <1>1 DEF Request
  <2> HIDE DEF u
  <2> QED BY <2>1, <2>2 DEF CreationMoves
<1>5. CASE Abandon(r)
  <2> DEFINE u == [q EXCEPT !.pc = "done", !.older = {}]
  <2>1. Become(r, u)  BY <1>5 DEF Abandon
  <2>2. u.older = {}  BY <1>1 DEF Request
  <2> HIDE DEF u
  <2> QED BY <2>1, <2>2 DEF CreationMoves
<1>6. ASSUME request'[r].op # "share" PROVE \E u : CreationMoves(r, u)
  <2>1. PICK u \in Request : Become(r, u)  BY HandleSteps DEF Steps, Moves
  <2>2. request'[r] = u  BY <2>1 DEF Become, Authority, TypeOK
  <2> QED BY <1>6, <2>1, <2>2 DEF CreationMoves
<1>7. request \in [Requests -> Request]  BY DEF Authority, TypeOK
<1>8. CASE Login(r) \/ Change(r) \/ ResetPassword(r) \/ Rotate(r) \/ ShowCredential(r)
           \/ Create(r)
  <2> SUFFICES request'[r].op # "share"  BY <1>6
  <2>1. CASE Login(r)  BY <1>1, <1>7, <2>1 DEF Login, Become, Request
  <2>2. CASE Change(r)  BY <1>1, <1>7, <2>2 DEF Change, Become, Request
  <2>3. CASE ResetPassword(r)  BY <1>1, <1>7, <2>3 DEF ResetPassword, Become, Request
  <2>4. CASE Rotate(r)  BY <1>1, <1>7, <2>4 DEF Rotate, Become, Request
  <2>5. CASE ShowCredential(r)  BY <1>1, <1>7, <2>5 DEF ShowCredential, Become, Request
  <2>6. CASE Create(r)  BY <1>1, <1>7, <2>6 DEF Create, Become, Request
  <2> QED BY <1>8, <2>1, <2>2, <2>3, <2>4, <2>5, <2>6
<1>9. CASE Upgrade(r) \/ ChangeUpdate(r) \/ ChangeIssue(r) \/ RotateUpdate(r)
           \/ CreateFind(r) \/ CreateGenerate(r)
  <2>1. q.op # "share"
    BY <1>1, <1>9 DEF Phase, Upgrade, ChangeUpdate, ChangeIssue, RotateUpdate, CreateFind,
       CreateGenerate
  <2> SUFFICES request'[r].op = q.op  BY <1>6, <2>1
  <2>2. CASE Upgrade(r)  BY <1>1, <1>7, <2>2 DEF Upgrade, Become, Request
  <2>3. CASE ChangeUpdate(r)  BY <1>1, <1>7, <2>3 DEF ChangeUpdate, Become, Request
  <2>4. CASE ChangeIssue(r)  BY <1>1, <1>7, <2>4 DEF ChangeIssue, Become, Request
  <2>5. CASE RotateUpdate(r)
    <3> DEFINE k == q.version + 1
               u == [q EXCEPT !.pc = "done", !.token = TRUE, !.version = k]
               v == [q EXCEPT !.pc = "done"]
    <3>1. request' = [request EXCEPT ![r] = u] \/ request' = [request EXCEPT ![r] = v]
      BY <2>5 DEF RotateUpdate, Become
    <3>2. u.op = q.op /\ v.op = q.op  BY <1>1 DEF Request
    <3> HIDE DEF u, v
    <3> QED BY <1>7, <3>1, <3>2
  <2>6. CASE CreateFind(r)  BY <1>1, <1>7, <2>6 DEF CreateFind, Become, Request
  <2>7. CASE CreateGenerate(r)  BY <1>1, <1>7, <2>7 DEF CreateGenerate, Become, Request
  <2> QED BY <1>9, <2>2, <2>3, <2>4, <2>5, <2>6, <2>7
<1> QED BY <1>2, <1>3, <1>4, <1>5, <1>8, <1>9 DEF Handle

\* The revocation puts the links it finds out of use, and they do not come back.
LEMMA ReplacedStep ==
  ASSUME Authority, LinksReplaced, Next, NEW r \in Requests
  PROVE  Replaced(request[r])'
<1>1. LinksMove  BY NextLinks DEF LinksReplaced
<1>2. /\ request \in [Requests -> Request] /\ share \in [Shares -> Share]
      /\ lastShare \in Nat /\ lastShare' \in Nat /\ \A s \in Shares : s \in Nat
  BY <1>1, AddressAuthorityAssumption DEF Authority, TypeOK, LinksMove, SharesMove, Shares
<1>3. request[r] \in Request /\ Phase(request[r])  BY Facts
<1>4. ASSUME request[r].op = "share", NEW s \in request[r].older
      PROVE  /\ s \in Shares /\ s <= lastShare /\ share[s].expiry = "never"
             /\ share[s].address \in {request[r].id, Absent}
             /\ request[r].pc \in {"insert", "done"} =>
                  share[s].revoked \/ share[s].address = Absent
  BY <1>3, <1>4 DEF LinksReplaced, Replaced, Request
<1>5. CASE request'[r] = request[r]
  <2> SUFFICES ASSUME request[r].op = "share", NEW s \in request[r].older
               PROVE  /\ s <= lastShare' /\ share'[s].expiry = "never"
                      /\ share'[s].address \in {request[r].id, Absent}
                      /\ request[r].pc \in {"insert", "done"} =>
                           share'[s].revoked \/ share'[s].address = Absent
    BY <1>5 DEF Replaced
  <2> QED BY <1>1, <1>2, <1>4 DEF LinksMove, SharesMove
<1>6. ASSUME NEW q, CreationMoves(r, q), request'[r] = q PROVE Replaced(request[r])'
  <2> SUFFICES ASSUME q.op = "share", NEW s \in q.older
               PROVE  /\ s <= lastShare' /\ share'[s].expiry = "never"
                      /\ share'[s].address \in {q.id, Absent}
                      /\ q.pc \in {"insert", "done"} =>
                           share'[s].revoked \/ share'[s].address = Absent
    BY <1>6 DEF Replaced
  <2>1. CASE CreateShare(r) /\ q.pc = "revoke" /\ q.id = address.id
             /\ q.older = {x \in Shares : ShareValid(x) /\ share[x].expiry = "never"}
    <3>1. /\ s \in Shares /\ share[s].address = address.id /\ share[s].address # Absent
          /\ share[s].expiry = "never"
      BY <2>1 DEF ShareValid, Active
    <3>2. s <= lastShare  BY <1>2, <3>1 DEF LinksReplaced, SharesUnused
    <3>3. share'[s] = share[s] /\ lastShare' = lastShare
      BY <2>1 DEF CreateShare, KeepShares
    <3> QED BY <2>1, <3>1, <3>2, <3>3
  <2>2. CASE /\ request[r].op = "share" /\ q.id = request[r].id
             /\ q.older = request[r].older
             /\ CreateShareRevoke(r) \/ request[r].pc = "insert"
    <3>1. /\ s \in Shares /\ s <= lastShare /\ share[s].expiry = "never"
          /\ share[s].address \in {q.id, Absent}
          /\ request[r].pc = "insert" => share[s].revoked \/ share[s].address = Absent
      BY <1>4, <2>2
    <3>2. /\ s <= lastShare' /\ share'[s].expiry = "never"
          /\ share'[s].address \in {share[s].address, Absent}
          /\ share[s].revoked => share'[s].revoked
      BY <1>1, <1>2, <3>1 DEF LinksMove, SharesMove
    <3>3. CASE request[r].pc = "insert"  BY <3>1, <3>2, <3>3
    <3>4. CASE CreateShareRevoke(r)
      <4>1. share'[s] = IF Replaces(s, q.id) THEN [share[s] EXCEPT !.revoked = TRUE]
                        ELSE share[s]
        BY <2>2, <3>1, <3>4 DEF CreateShareRevoke
      <4>2. share'[s].revoked \/ share'[s].address = Absent
        BY <1>2, <3>1, <4>1 DEF Replaces, Active, Share
      <4> QED BY <3>1, <3>2, <4>2
    <3> QED BY <2>2, <3>3, <3>4
  <2> QED BY <1>6, <2>1, <2>2 DEF CreationMoves
<1>7. \/ request'[r] = request[r]
      \/ \E q : CreationMoves(r, q) /\ request'[r] = q
  <2>1. CASE \E x \in Requests : Handle(x)
    <3>1. PICK x \in Requests : \E q : CreationMoves(x, q)  BY <2>1, HandleLinks
    <3> QED BY <1>2, <3>1 DEF CreationMoves, Become
  <2>2. CASE ~\E x \in Requests : Handle(x)
    BY <2>2 DEF Next, UpdateShare, Expire, Revoke, RevokeShares, DeleteAddress
  <2> QED BY <2>1, <2>2
<1> QED BY <1>5, <1>6, <1>7

\* A new link replaces for good those that were in use when its creation began
\* (share_tokens.ts: the UPDATE before the INSERT).
THEOREM OlderLinksReplaced == Spec => []OlderReplaced
<1>1. Init => LinksReplaced
  <2> SUFFICES ASSUME Init PROVE LinksReplaced  OBVIOUS
  <2>1. SharesUnused  BY AddressAuthorityAssumption DEF Init, SharesUnused, Shares
  <2>2. \A r \in Requests : request[r].op # "share"  BY DEF Init
  <2> QED BY <2>1, <2>2 DEF LinksReplaced, Replaced
<1>2. Authority /\ LinksReplaced /\ [Next]_vars => LinksReplaced'
  <2>1. CASE UNCHANGED vars
    BY <2>1 DEF vars, LinksReplaced, SharesUnused, Replaced
  <2> QED BY <2>1, NextLinks, ReplacedStep DEF LinksReplaced, LinksMove
<1>3. Authority /\ LinksReplaced => OlderReplaced
  <2> SUFFICES ASSUME LinksReplaced, NEW r \in Requests, request[r].op = "share",
                      request[r].pc = "done", NEW s \in request[r].older
               PROVE  ~ShareValid(s)
    BY DEF OlderReplaced
  <2>1. share[s].revoked \/ share[s].address = Absent  BY DEF LinksReplaced, Replaced
  <2> QED BY <2>1 DEF ShareValid, Active
<1> QED BY <1>1, <1>2, <1>3, AuthorityInvariant, PTL DEF Spec

-----------------------------------------------------------------------------
(***************************************************************************)
(* UserIdentity: who gets in at the account of a user.                     *)
(***************************************************************************)

\* Where a request holds the code it has drawn, and where it works on an account.
Coded   == {"send", "sent", "release"}
Holding == {"upgrade", "issue", "store", "reset"}

\* Codes: each is held by one request, and one that may have been sent is good.
Codes ==
  /\ challenge \in Identity!Challenge
  /\ lastCode \in 0..MaxCodes
  /\ challenge.code <= lastCode
  /\ spent \subseteq 1..lastCode
  /\ \A r \in Requests : userRequest[r].pc \in Coded => userRequest[r].code \in 1..lastCode
  /\ \A r, s \in Requests :
       /\ userRequest[r].pc \in Coded /\ userRequest[s].pc \in Coded
       /\ userRequest[r].code = userRequest[s].code
       => r = s
  /\ \A r \in Requests : userRequest[r].pc \in {"send", "sent"} =>
       userRequest[r].code \in spent \/ Identity!Usable(userRequest[r].code)

\* Generations: a token ends its request, and names an account and a generation
\* that has been drawn; where there is no account there is no generation.
Tokens ==
  /\ user \in Identity!User
  /\ lastGen \in 0..MaxGens
  /\ user.gen <= lastGen
  /\ ended \subseteq 1..lastGen
  /\ ~Identity!Exists => user.gen = Identity!None
  /\ \A r \in Requests :
       /\ userRequest[r].token \/ userRequest[r].raced => userRequest[r].pc = "done"
       /\ userRequest[r].pc \in Holding \/ userRequest[r].token => userRequest[r].id # Identity!Absent
       /\ userRequest[r].token => userRequest[r].gen # Identity!None
       /\ userRequest[r].gen <= lastGen
  /\ Identity!LoginIsCurrent
  /\ Identity!SignedInStays

Admission ==
  /\ userRequest \in [Requests -> Identity!Request]
  /\ Codes
  /\ Tokens

LEMMA AdmissionType == ASSUME Admission PROVE Identity!TypeOK
BY DEF Admission, Codes, Tokens, Identity!TypeOK

LEMMA AdmissionSent == ASSUME Admission PROVE Identity!SentCodeWorks
BY DEF Admission, Codes, Identity!SentCodeWorks

-----------------------------------------------------------------------------
\* Request r goes on as x, and the others stay.
LEMMA UserBecomes ==
  ASSUME Admission, NEW r \in Requests, NEW x \in Identity!Request, Identity!Become(r, x)
  PROVE  /\ userRequest' \in [Requests -> Identity!Request]
         /\ \A s \in Requests : userRequest'[s] = IF s = r THEN x ELSE userRequest[s]
BY DEF Admission, Identity!Become

\* The codes stay when a request goes on that draws none.
LEMMA CodesStay ==
  ASSUME Admission, Identity!KeepCodes, NEW r \in Requests, NEW x \in Identity!Request,
         Identity!Become(r, x),
         x.pc \in Coded => userRequest[r].pc \in Coded /\ x.code = userRequest[r].code,
         x.pc \in {"send", "sent"} => userRequest[r].pc \in {"send", "sent"}
  PROVE  Codes'
<1>1. \A s \in Requests : userRequest'[s] = IF s = r THEN x ELSE userRequest[s]
  BY UserBecomes
<1>2. UNCHANGED <<challenge, lastCode, spent>>  BY DEF Identity!KeepCodes
<1>3. \A s \in Requests :
        /\ userRequest'[s].pc \in Coded =>
             userRequest[s].pc \in Coded /\ userRequest'[s].code = userRequest[s].code
        /\ userRequest'[s].pc \in {"send", "sent"} => userRequest[s].pc \in {"send", "sent"}
  BY <1>1
<1>4. \A s \in Requests : userRequest'[s].pc \in {"send", "sent"} => userRequest'[s].pc \in Coded
  BY DEF Coded
<1> QED BY <1>2, <1>3, <1>4 DEF Admission, Codes, Identity!Usable

\* How the row of the account may change: not at all as far as a token is concerned,
\* or to a generation that no token has, while the old one is recorded as ended.
AccountChanges ==
  /\ user' \in Identity!User
  /\ lastGen' \in 0..MaxGens /\ lastGen <= lastGen'
  /\ user'.gen <= lastGen'
  /\ user'.id = Identity!Absent => user'.gen = Identity!None
  /\ \/ /\ user'.id = user.id /\ user'.gen = user.gen /\ user'.password = user.password
        /\ UNCHANGED ended
     \/ /\ Identity!EndGeneration
        /\ user'.gen = Identity!None \/ user'.gen > lastGen

\* The requests go on without a new token.
NoToken(r, x) ==
  /\ userRequest[r].pc # "done"
  /\ ~x.token /\ ~x.raced
  /\ x.gen = userRequest[r].gen
  /\ x.pc \in Holding => x.id # Identity!Absent

LEMMA TokensStay ==
  ASSUME Admission, AccountChanges,
         \/ UNCHANGED userRequest
         \/ \E r \in Requests, x \in Identity!Request : Identity!Become(r, x) /\ NoToken(r, x)
  PROVE  Tokens'
<1>1. \A s \in Requests :
        \/ userRequest'[s] = userRequest[s]
        \/ NoToken(s, userRequest'[s])
  <2>1. CASE UNCHANGED userRequest  BY <2>1
  <2>2. CASE \E r \in Requests, x \in Identity!Request : Identity!Become(r, x) /\ NoToken(r, x)
    <3>1. PICK r \in Requests, x \in Identity!Request : Identity!Become(r, x) /\ NoToken(r, x)
      BY <2>2
    <3> QED BY <3>1, UserBecomes
  <2> QED BY <2>1, <2>2
<1>2. ended \subseteq ended' /\ ended' \subseteq 1..lastGen'
  <2>1. /\ lastGen \in Nat /\ lastGen' \in Nat /\ lastGen <= lastGen'
        /\ user.gen \in Nat /\ user.gen <= lastGen
    BY DEF AccountChanges, Admission, Tokens, Identity!User
  <2>2. ended \subseteq 1..lastGen  BY DEF Admission, Tokens
  <2>3. ended' = ended \/ ended' = ended \cup ({user.gen} \ {0})
    BY DEF AccountChanges, Identity!EndGeneration, Identity!None
  <2>4. ended \subseteq ended' /\ \A g \in ended' : g \in ended \/ (g = user.gen /\ g # 0)
    BY <2>3
  <2>5. \A g \in ended' : g \in 1..lastGen'  BY <2>1, <2>2, <2>4
  <2> QED BY <2>4, <2>5
<1>3. \A s \in Requests : userRequest[s] \in Identity!Request  BY DEF Admission
<1>4. \A s \in Requests :
        /\ userRequest'[s].token \/ userRequest'[s].raced => userRequest'[s].pc = "done"
        /\ userRequest'[s].pc \in Holding \/ userRequest'[s].token => userRequest'[s].id # Identity!Absent
        /\ userRequest'[s].token => userRequest'[s].gen # Identity!None
        /\ userRequest'[s].gen <= lastGen'
  <2> TAKE s \in Requests
  <2>1. userRequest[s].gen <= lastGen'
    BY <1>3 DEF AccountChanges, Admission, Tokens, Identity!Request
  <2> QED BY <1>1, <2>1 DEF NoToken, Admission, Tokens
<1>5. \A s \in Requests :
        userRequest'[s].token => /\ userRequest'[s] = userRequest[s]
                                 /\ userRequest[s].gen <= lastGen /\ userRequest[s].gen # Identity!None
                                 /\ userRequest[s].gen \in Nat
  BY <1>1, <1>3 DEF NoToken, Admission, Tokens, Identity!Request
<1>6. Identity!LoginIsCurrent'
  <2> SUFFICES ASSUME NEW s \in Requests, userRequest'[s].op = "login", userRequest'[s].token,
                      user'.id = userRequest'[s].id, user'.gen = userRequest'[s].gen
               PROVE  userRequest'[s].password = user'.password \/ userRequest'[s].late
    BY DEF Identity!LoginIsCurrent, Identity!TokenValid
  <2>1. user'.gen <= lastGen /\ user'.gen # Identity!None /\ user'.gen \in Nat  BY <1>5
  <2>2. lastGen \in Nat  BY DEF Admission, Tokens
  <2>3. user'.id = user.id /\ user'.gen = user.gen /\ user'.password = user.password
    BY <2>1, <2>2 DEF AccountChanges
  <2> QED BY <1>5, <2>3 DEF Admission, Tokens, Identity!LoginIsCurrent, Identity!TokenValid
<1>7. Identity!SignedInStays'
  <2> SUFFICES ASSUME NEW s \in Requests, userRequest'[s].token,
                      ~(user'.id = userRequest'[s].id /\ user'.gen = userRequest'[s].gen)
               PROVE  userRequest'[s].gen \in ended' \/ \E t \in Requests : userRequest'[t].raced
    BY DEF Identity!SignedInStays, Identity!TokenValid
  <2>1. userRequest'[s] = userRequest[s] /\ userRequest[s].gen # Identity!None  BY <1>5
  <2>2. CASE Identity!TokenValid(s)
    <3>1. Identity!EndGeneration  BY <2>1, <2>2 DEF AccountChanges, Identity!TokenValid
    <3> QED BY <2>1, <2>2, <3>1 DEF Identity!EndGeneration, Identity!TokenValid
  <2>3. CASE ~Identity!TokenValid(s)
    <3>1. userRequest[s].gen \in ended \/ \E t \in Requests : userRequest[t].raced
      BY <2>1, <2>3 DEF Admission, Tokens, Identity!SignedInStays
    <3>2. ASSUME NEW t \in Requests, userRequest[t].raced  PROVE userRequest'[t].raced
      <4>1. userRequest[t].pc = "done"  BY <3>2 DEF Admission, Tokens
      <4> QED BY <1>1, <3>2, <4>1 DEF NoToken
    <3> QED BY <1>2, <2>1, <3>1, <3>2
  <2> QED BY <2>2, <2>3
<1> QED BY <1>2, <1>4, <1>6, <1>7 DEF Tokens, AccountChanges, Identity!Exists

\* Steps that leave the account alone.
LEMMA UserStays == ASSUME Admission, Identity!KeepUser PROVE AccountChanges
BY DEF AccountChanges, Identity!KeepUser, Admission, Tokens, Identity!Exists

-----------------------------------------------------------------------------
\* A request that goes on without a code or a token.
LEMMA GoesOn ==
  ASSUME Admission, AccountChanges, Identity!KeepCodes, NEW r \in Requests,
         NEW x \in Identity!Request,
         Identity!Become(r, x), x.pc \notin Coded, NoToken(r, x)
  PROVE  Admission'
<1>1. x.pc \notin {"send", "sent"}  BY DEF Coded
<1>2. Codes'  BY <1>1, CodesStay
<1>3. Tokens'  BY TokensStay
<1> QED BY <1>2, <1>3, UserBecomes DEF Admission

\* The local state of a request that has not ended.
LEMMA UserFacts ==
  ASSUME Admission, NEW r \in Requests
  PROVE  /\ userRequest[r] \in Identity!Request
         /\ userRequest[r].pc # "done" => ~userRequest[r].token /\ ~userRequest[r].raced
         /\ userRequest[r].pc \in Holding => userRequest[r].id # Identity!Absent
BY DEF Admission, Tokens

LEMMA Finishes ==
  ASSUME Admission, AccountChanges, Identity!KeepCodes, NEW r \in Requests,
         userRequest[r].pc # "done",
         Identity!Become(r, [userRequest[r] EXCEPT !.pc = "done"])
  PROVE  Admission'
<1>1. PICK q \in Identity!Request : q = userRequest[r]  BY UserFacts
<1> DEFINE x == [q EXCEPT !.pc = "done"]
<1>2. /\ x \in Identity!Request /\ x.pc = "done" /\ x.token = q.token /\ x.raced = q.raced
      /\ x.gen = q.gen
  BY DEF Identity!Request
<1>3. Identity!Become(r, x)  BY <1>1
<1> HIDE DEF x
<1>4. x.pc \notin Coded /\ x.pc \notin Holding  BY <1>2 DEF Coded, Holding
<1>5. NoToken(r, x)  BY <1>1, <1>2, <1>4, UserFacts DEF NoToken
<1> QED BY <1>2, <1>3, <1>4, <1>5, GoesOn

-----------------------------------------------------------------------------
LEMMA ReserveAdmission ==
  ASSUME Identity!UserIdentityAssumption, Admission, NEW r \in Requests, Identity!Reserve(r)
  PROVE  Admission'
<1>1. PICK q \in Identity!Request : q = userRequest[r]  BY UserFacts
<1>2. PICK n \in 1..MaxCodes : n = lastCode + 1 /\ lastCode' = n
  BY DEF Identity!Reserve, Admission, Codes, Identity!UserIdentityAssumption
<1> DEFINE x == [q EXCEPT !.pc = "send", !.op = "verify", !.code = n]
<1>3. /\ x \in Identity!Request /\ x.pc = "send" /\ x.code = n /\ x.token = q.token
      /\ x.raced = q.raced /\ x.gen = q.gen
  <2>1. n \in 0..MaxCodes  BY DEF Identity!UserIdentityAssumption
  <2> QED BY <2>1 DEF Identity!Request
<1>4. Identity!Become(r, x) /\ q.pc = "idle"  BY <1>1, <1>2 DEF Identity!Reserve
<1> HIDE DEF x
<1>5. x.pc \in Coded /\ x.pc \notin Holding  BY <1>3 DEF Coded, Holding
<1>6. NoToken(r, x)  BY <1>1, <1>3, <1>4, <1>5, UserFacts DEF NoToken
<1>7. Tokens'
  <2>1. AccountChanges  BY UserStays DEF Identity!Reserve
  <2> QED BY <1>3, <1>4, <1>6, <2>1, TokensStay
<1>8. \A s \in Requests : userRequest'[s] = IF s = r THEN x ELSE userRequest[s]
  BY <1>3, <1>4, UserBecomes
<1>9. challenge' = [code |-> n, consumed |-> FALSE, expired |-> FALSE] /\ spent' = spent
  BY <1>2 DEF Identity!Reserve
<1>10. MaxCodes \in Nat /\ lastCode \in Nat /\ n = lastCode + 1 /\ n \in 0..MaxCodes /\ n # 0
  BY <1>2 DEF Identity!UserIdentityAssumption, Admission, Codes
<1>11. challenge' \in Identity!Challenge /\ challenge'.code = n
  BY <1>9, <1>10 DEF Identity!Challenge
<1>13. \A s \in Requests : userRequest'[s].pc \in Coded =>
         \/ s = r /\ userRequest'[s].code = n
         \/ s # r /\ userRequest'[s] = userRequest[s] /\ userRequest[s].code \in 1..lastCode
  BY <1>3, <1>8 DEF Admission, Codes
<1>14. \A s \in Requests : userRequest'[s].pc \in Coded => userRequest'[s].code \in 1..lastCode'
  BY <1>2, <1>10, <1>13
<1>15. \A s, t \in Requests :
         /\ userRequest'[s].pc \in Coded /\ userRequest'[t].pc \in Coded
         /\ userRequest'[s].code = userRequest'[t].code
         => s = t
  BY <1>10, <1>13 DEF Admission, Codes
<1>16. \A s \in Requests : userRequest'[s].pc \in {"send", "sent"} =>
         \/ userRequest'[s].code \in spent'
         \/ /\ challenge'.code = userRequest'[s].code
            /\ ~challenge'.consumed /\ ~challenge'.expired
  <2> SUFFICES ASSUME NEW s \in Requests, userRequest'[s].pc \in {"send", "sent"}
               PROVE  userRequest'[s].code \in spent' \/ challenge'.code = userRequest'[s].code
    BY <1>9
  <2>1. CASE s = r  BY <1>3, <1>8, <1>11, <2>1
  <2>2. CASE s # r
    <3>1. userRequest'[s] = userRequest[s] /\ userRequest[s].pc \in Coded
      BY <1>8, <2>2 DEF Coded
    <3>2. userRequest[s].code \in spent \/ Identity!Usable(userRequest[s].code)
      BY <3>1 DEF Admission, Codes
    <3>3. userRequest[s].code # Identity!None  BY <3>1 DEF Admission, Codes, Identity!None
    <3>4. ~Identity!Usable(userRequest[s].code)  BY <3>3
         DEF Identity!Reserve, Identity!Replaceable, Identity!Usable
    <3> QED BY <1>9, <3>1, <3>2, <3>4
  <2> QED BY <2>1, <2>2
<1>17. /\ lastCode' \in 0..MaxCodes /\ challenge'.code <= lastCode'
       /\ spent' \subseteq 1..lastCode'
  BY <1>2, <1>9, <1>10, <1>11 DEF Admission, Codes
<1>18. Codes'  BY <1>11, <1>14, <1>15, <1>16, <1>17 DEF Codes, Identity!Usable
<1> QED BY <1>3, <1>4, <1>7, <1>18, UserBecomes DEF Admission

LEMMA SendAdmission ==
  ASSUME Admission, NEW r \in Requests, Identity!Send(r)
  PROVE  Admission'
<1>1. PICK q \in Identity!Request : q = userRequest[r]  BY UserFacts
<1>2. PICK next \in {"sent", "release"} : Identity!Become(r, [q EXCEPT !.pc = next])
  BY <1>1 DEF Identity!Send
<1> DEFINE x == [q EXCEPT !.pc = next]
<1>3. /\ x \in Identity!Request /\ x.pc = next /\ x.code = q.code /\ x.token = q.token
      /\ x.raced = q.raced /\ x.gen = q.gen
  BY DEF Identity!Request
<1>4. Identity!Become(r, x) /\ q.pc = "send"  BY <1>1, <1>2 DEF Identity!Send
<1> HIDE DEF x
<1>5. x.pc \notin Holding /\ q.pc \in Coded  BY <1>3, <1>4 DEF Coded, Holding
<1>6. NoToken(r, x)  BY <1>1, <1>3, <1>4, <1>5, UserFacts DEF NoToken
<1>7. Tokens'
  <2>1. AccountChanges  BY UserStays DEF Identity!Send
  <2> QED BY <1>3, <1>4, <1>6, <2>1, TokensStay
<1>8. Codes'  BY <1>1, <1>3, <1>4, <1>5, CodesStay DEF Identity!Send
<1> QED BY <1>3, <1>4, <1>7, <1>8, UserBecomes DEF Admission

\* A request that ends takes back only the code that it has drawn itself.
LEMMA ReleaseAdmission ==
  ASSUME Identity!UserIdentityAssumption, Admission, NEW r \in Requests, Identity!Release(r)
  PROVE  Admission'
<1>1. PICK q \in Identity!Request : q = userRequest[r]  BY UserFacts
<1> DEFINE x == [q EXCEPT !.pc = "done"]
<1>2. /\ x \in Identity!Request /\ x.pc = "done" /\ x.token = q.token /\ x.raced = q.raced
      /\ x.gen = q.gen
  BY DEF Identity!Request
<1>3. Identity!Become(r, x) /\ q.pc = "release"  BY <1>1 DEF Identity!Release
<1> HIDE DEF x
<1>4. x.pc \notin Holding /\ q.pc \in Coded  BY <1>2, <1>3 DEF Coded, Holding
<1>5. NoToken(r, x)  BY <1>1, <1>2, <1>3, <1>4, UserFacts DEF NoToken
<1>6. Tokens'
  <2>1. AccountChanges  BY UserStays DEF Identity!Release
  <2> QED BY <1>2, <1>3, <1>5, <2>1, TokensStay
<1>7. Codes'
  <2>1. \A s \in Requests : userRequest'[s] = IF s = r THEN x ELSE userRequest[s]
    BY <1>2, <1>3, UserBecomes
  <2>2. UNCHANGED <<lastCode, spent>>  BY DEF Identity!Release
  <2>3. \/ challenge' = challenge
        \/ challenge' = [challenge EXCEPT !.code = Identity!None] /\ challenge.code = q.code
    BY <1>1 DEF Identity!Release
  <2>4. challenge' \in Identity!Challenge /\ challenge'.code <= lastCode
    <3>1. 0 \in 0..MaxCodes /\ 0 <= lastCode
      BY DEF Admission, Codes, Identity!UserIdentityAssumption
    <3>2. challenge \in Identity!Challenge /\ challenge.code <= lastCode  BY DEF Admission, Codes
    <3>3. CASE challenge' = challenge  BY <3>2, <3>3
    <3>4. CASE challenge' = [challenge EXCEPT !.code = Identity!None]
      BY <3>1, <3>2, <3>4 DEF Identity!Challenge, Identity!None
    <3> QED BY <2>3, <3>3, <3>4
  <2>5. \A s \in Requests : userRequest'[s].pc \in Coded => s # r /\ userRequest'[s] = userRequest[s]
    BY <1>2, <2>1 DEF Coded
  <2>6. \A s \in Requests : userRequest'[s].pc \in {"send", "sent"} =>
          \/ userRequest'[s].code \in spent
          \/ /\ challenge'.code = userRequest'[s].code
             /\ ~challenge'.consumed /\ ~challenge'.expired
    <3> SUFFICES ASSUME NEW s \in Requests, userRequest'[s].pc \in {"send", "sent"},
                        userRequest'[s].code \notin spent
                 PROVE  /\ challenge'.code = userRequest'[s].code
                        /\ ~challenge'.consumed /\ ~challenge'.expired
      OBVIOUS
    <3>1. userRequest'[s] = userRequest[s] /\ s # r /\ userRequest[s].pc \in Coded
      BY <2>5 DEF Coded
    <3>2. Identity!Usable(userRequest[s].code)  BY <3>1 DEF Admission, Codes
    <3>3. userRequest[s].code # q.code
      BY <1>1, <1>4, <3>1 DEF Admission, Codes
    <3>4. challenge' = challenge  BY <2>3, <3>2, <3>3 DEF Identity!Usable
    <3> QED BY <3>1, <3>2, <3>4 DEF Identity!Usable
  <2> QED BY <2>2, <2>4, <2>5, <2>6 DEF Admission, Codes, Identity!Usable
<1> QED BY <1>2, <1>3, <1>6, <1>7, UserBecomes DEF Admission

LEMMA ExpireAdmission ==
  ASSUME Admission, Identity!ExpireCode
  PROVE  Admission'
<1>1. UNCHANGED <<lastCode, userRequest>>  BY DEF Identity!ExpireCode
<1>2. Tokens'
  <2>1. AccountChanges  BY UserStays DEF Identity!ExpireCode
  <2> QED BY <1>1, <2>1, TokensStay
<1>3. Codes'
  <2>1. challenge' = [challenge EXCEPT !.expired = TRUE] /\ challenge.code # Identity!None
        /\ spent' = spent \cup {challenge.code}
    BY DEF Identity!ExpireCode
  <2>2. challenge' \in Identity!Challenge /\ challenge'.code = challenge.code
    BY <2>1 DEF Admission, Codes, Identity!Challenge
  <2>3. challenge.code \in 1..lastCode
    BY <2>1 DEF Admission, Codes, Identity!Challenge, Identity!None
  <2>4. \A s \in Requests : userRequest[s].pc \in {"send", "sent"} => userRequest[s].code \in spent'
    BY <2>1 DEF Admission, Codes, Identity!Usable
  <2> QED BY <1>1, <2>1, <2>2, <2>3, <2>4 DEF Admission, Codes
<1> QED BY <1>1, <1>2, <1>3 DEF Admission

LEMMA ConsumeAdmission ==
  ASSUME Identity!UserIdentityAssumption, Admission, NEW r \in Requests, Identity!Consume(r)
  PROVE  Admission'
<1>1. PICK q \in Identity!Request : q = userRequest[r]  BY UserFacts
<1>2. PICK code \in 1..lastCode, p \in Passwords :
        /\ Identity!Usable(code)
        /\ Identity!Become(r, [q EXCEPT !.pc = "register", !.op = "register", !.code = code,
                               !.password = p])
  BY <1>1 DEF Identity!Consume
<1> DEFINE x == [q EXCEPT !.pc = "register", !.op = "register", !.code = code,
                          !.password = p]
<1>3. /\ x \in Identity!Request /\ x.pc = "register" /\ x.token = q.token /\ x.raced = q.raced
      /\ x.gen = q.gen
  <2>1. code \in 0..MaxCodes
    BY DEF Identity!UserIdentityAssumption, Admission, Codes
  <2> QED BY <2>1 DEF Identity!Request
<1>4. Identity!Become(r, x) /\ q.pc = "idle"  BY <1>1, <1>2 DEF Identity!Consume
<1> HIDE DEF x
<1>5. x.pc \notin Holding /\ x.pc \notin Coded  BY <1>3 DEF Coded, Holding
<1>6. NoToken(r, x)  BY <1>1, <1>3, <1>4, <1>5, UserFacts DEF NoToken
<1>7. Tokens'
  <2>1. AccountChanges  BY UserStays DEF Identity!Consume
  <2> QED BY <1>3, <1>4, <1>6, <2>1, TokensStay
<1>8. Codes'
  <2>1. \A s \in Requests : userRequest'[s] = IF s = r THEN x ELSE userRequest[s]
    BY <1>3, <1>4, UserBecomes
  <2>2. /\ challenge' = [challenge EXCEPT !.consumed = TRUE] /\ UNCHANGED lastCode
        /\ spent' = spent \cup {challenge.code}
    BY DEF Identity!Consume
  <2>3. challenge' \in Identity!Challenge /\ challenge'.code = challenge.code
    BY <2>2 DEF Admission, Codes, Identity!Challenge
  <2>4. challenge.code \in 1..lastCode  BY <1>2 DEF Identity!Usable
  <2>5. \A s \in Requests : userRequest'[s].pc \in Coded => s # r /\ userRequest'[s] = userRequest[s]
    BY <1>5, <2>1
  <2>6. \A s \in Requests : userRequest'[s].pc \in {"send", "sent"} => userRequest'[s].code \in spent'
    BY <2>2, <2>5 DEF Admission, Codes, Identity!Usable, Coded
  <2> QED BY <2>2, <2>3, <2>4, <2>5, <2>6 DEF Admission, Codes
<1> QED BY <1>3, <1>4, <1>7, <1>8, UserBecomes DEF Admission

-----------------------------------------------------------------------------
\* The account is created, without a generation, where there is none.
LEMMA Created ==
  ASSUME Identity!UserIdentityAssumption, Admission, ~Identity!Exists, UNCHANGED <<lastGen,
         ended>>,
         NEW id \in Identity!Ids, NEW p \in Passwords \cup {NoPassword},
         user' = [id |-> id, password |-> p, legacy |-> FALSE, gen |-> Identity!None]
  PROVE  AccountChanges /\ user'.id # Identity!Absent
<1>1. Identity!None \in 0..MaxGens /\ Identity!None = 0  BY
DEF Identity!UserIdentityAssumption, Identity!None
<1>2. user' \in Identity!User /\ user'.id = id /\ user'.gen = Identity!None
  BY <1>1 DEF Identity!User
<1>3. id # Identity!Absent  BY DEF Identity!Ids, Identity!Absent
<1>4. user.gen = Identity!None  BY DEF Admission, Tokens
<1>5. lastGen \in Nat /\ lastGen' = lastGen /\ lastGen \in 0..MaxGens
  BY DEF Admission, Tokens
<1>6. Identity!EndGeneration  BY <1>4 DEF Identity!EndGeneration
<1> QED BY <1>1, <1>2, <1>3, <1>5, <1>6 DEF AccountChanges

\* The row gets a new password, and no generation or one that no token has.
LEMMA Renewed ==
  ASSUME Identity!UserIdentityAssumption, Admission, Identity!Exists, Identity!EndGeneration,
         NEW p \in Passwords, NEW g \in 0..MaxGens,
         user' = [user EXCEPT !.password = p, !.legacy = FALSE, !.gen = g],
         lastGen' \in 0..MaxGens, lastGen <= lastGen', g <= lastGen',
         g = Identity!None \/ g > lastGen
  PROVE  AccountChanges
<1>1. user \in Identity!User  BY DEF Admission, Tokens
<1>2. user' \in Identity!User /\ user'.id = user.id /\ user'.gen = g  BY <1>1 DEF Identity!User
<1>3. user'.id # Identity!Absent  BY <1>2 DEF Identity!Exists
<1> QED BY <1>2, <1>3 DEF AccountChanges

LEMMA RegisterAdmission ==
  ASSUME Identity!UserIdentityAssumption, Admission, NEW r \in Requests, Identity!Register(r)
  PROVE  Admission'
<1>1. PICK q \in Identity!Request : q = userRequest[r]  BY UserFacts
<1>2. q.pc = "register" /\ Identity!Become(r, [userRequest[r] EXCEPT !.pc = "done"])
      /\ UNCHANGED lastGen /\ Identity!KeepCodes
  BY <1>1 DEF Identity!Register
<1>3. AccountChanges
  <2>1. CASE Identity!CreateUser(q.password)
    <3>1. q.password \in Passwords \cup {NoPassword}  BY DEF Identity!Request
    <3> QED BY <1>2, <2>1, <3>1, Created DEF Identity!CreateUser
  <2>2. CASE /\ Identity!Exists /\ Identity!EndGeneration
             /\ user' = [user EXCEPT !.password = q.password, !.legacy = FALSE, !.gen = Identity!None]
    <3>1. /\ q.password \in Passwords /\ Identity!None \in 0..MaxGens
          /\ lastGen' \in 0..MaxGens /\ lastGen <= lastGen' /\ Identity!None <= lastGen'
      BY <1>2
         DEF Identity!Request, Identity!UserIdentityAssumption, Identity!None, Admission, Tokens
    <3> QED BY <2>2, <3>1, Renewed
  <2> QED BY <1>1, <2>1, <2>2 DEF Identity!Register
<1> QED BY <1>1, <1>2, <1>3, Finishes

LEMMA InsertAdmission ==
  ASSUME Identity!UserIdentityAssumption, Admission, Identity!Insert
  PROVE  Admission'
<1>1. PICK p \in Passwords : Identity!CreateUser(p)  BY DEF Identity!Insert
<1>2. AccountChanges  BY <1>1, Created DEF Identity!CreateUser, Identity!Insert
<1>3. Tokens'  BY <1>2, TokensStay DEF Identity!Insert
<1>4. Codes'  BY DEF Identity!Insert, Identity!KeepCodes, Admission, Codes, Identity!Usable
<1> QED BY <1>3, <1>4 DEF Admission, Identity!Insert

LEMMA DeleteAdmission ==
  ASSUME Identity!UserIdentityAssumption, Admission, Identity!DeleteUser
  PROVE  Admission'
<1>1. AccountChanges
  <2>1. user' = Identity!NoUser /\ Identity!EndGeneration /\ UNCHANGED lastGen  BY
  DEF Identity!DeleteUser
  <2>2. Identity!None \in 0..MaxGens /\ Identity!None = 0  BY
  DEF Identity!UserIdentityAssumption, Identity!None
  <2>3. user' \in Identity!User /\ user'.gen = Identity!None  BY <2>1, <2>2
       DEF Identity!NoUser, Identity!User
  <2>4. lastGen \in 0..MaxGens /\ lastGen \in Nat  BY DEF Admission, Tokens
  <2> QED BY <2>1, <2>2, <2>3, <2>4 DEF AccountChanges
<1>2. Tokens'  BY <1>1, TokensStay DEF Identity!DeleteUser
<1>3. Codes'  BY DEF Identity!DeleteUser, Identity!KeepCodes, Admission, Codes, Identity!Usable
<1> QED BY <1>2, <1>3 DEF Admission, Identity!DeleteUser

LEMMA AskResetAdmission ==
  ASSUME Identity!UserIdentityAssumption, Admission, NEW r \in Requests, Identity!AskReset(r)
  PROVE  Admission'
<1>1. PICK q \in Identity!Request : q = userRequest[r]  BY UserFacts
<1>2. PICK id \in Identity!Ids : id = user.id
  BY DEF Identity!AskReset, Identity!Exists, Admission, Tokens, Identity!User
<1>3. PICK p \in Passwords :
        Identity!Become(r, [q EXCEPT !.pc = "reset", !.op = "reset", !.id = id, !.password = p])
  BY <1>1, <1>2 DEF Identity!AskReset
<1> DEFINE x == [q EXCEPT !.pc = "reset", !.op = "reset", !.id = id, !.password = p]
<1>4. /\ x \in Identity!Request /\ x.pc = "reset" /\ x.token = q.token /\ x.raced = q.raced
      /\ x.gen = q.gen /\ x.id = id
  BY DEF Identity!Request
<1>5. Identity!Become(r, x) /\ q.pc = "idle"  BY <1>1, <1>3 DEF Identity!AskReset
<1> HIDE DEF x
<1>6. x.pc \notin Coded /\ x.id # Identity!Absent  BY <1>4
     DEF Coded, Identity!Ids, Identity!Absent
<1>7. NoToken(r, x)  BY <1>1, <1>4, <1>5, <1>6, UserFacts DEF NoToken
<1>8. AccountChanges  BY UserStays DEF Identity!AskReset
<1> QED BY <1>4, <1>5, <1>6, <1>7, <1>8, GoesOn DEF Identity!AskReset

LEMMA ResetAdmission ==
  ASSUME Identity!UserIdentityAssumption, Admission, NEW r \in Requests, Identity!Reset(r)
  PROVE  Admission'
<1>1. PICK q \in Identity!Request : q = userRequest[r]  BY UserFacts
<1>2. q.pc = "reset" /\ Identity!Become(r, [userRequest[r] EXCEPT !.pc = "done"])
      /\ lastGen < MaxGens /\ lastGen' = lastGen + 1 /\ Identity!KeepCodes
  BY <1>1 DEF Identity!Reset
<1>3. PICK g \in 0..MaxGens : g = lastGen + 1 /\ g > lastGen /\ g # 0
  BY <1>2 DEF Admission, Tokens, Identity!UserIdentityAssumption
<1>4. lastGen' = g /\ lastGen \in 0..MaxGens /\ lastGen <= lastGen'
  BY <1>2, <1>3 DEF Admission, Tokens
<1>5. AccountChanges
  <2>1. CASE user.id = q.id
    <3>1. Identity!Exists
      BY <1>1, <1>2, <2>1, UserFacts DEF Identity!Exists, Holding
    <3>2. /\ user' = [user EXCEPT !.password = q.password, !.legacy = FALSE, !.gen = g]
          /\ Identity!EndGeneration
      BY <1>1, <1>3, <2>1 DEF Identity!Reset, Identity!NextGen
    <3>3. q.password \in Passwords  BY DEF Identity!Request
    <3>4. lastGen' \in 0..MaxGens /\ lastGen <= lastGen' /\ g <= lastGen'
      BY <1>3, <1>4
    <3> QED BY <1>3, <3>1, <3>2, <3>3, <3>4, Renewed
  <2>2. CASE user.id # q.id
    <3>1. UNCHANGED <<user, ended>>  BY <1>1, <2>2 DEF Identity!Reset
    <3>2. user.gen <= lastGen /\ user.gen \in Nat /\ lastGen' \in Nat /\ lastGen \in Nat
      BY <1>4 DEF Admission, Tokens, Identity!User
    <3> QED BY <1>4, <3>1, <3>2 DEF AccountChanges, Admission, Tokens, Identity!Exists
  <2> QED BY <2>1, <2>2
<1> QED BY <1>1, <1>2, <1>5, Finishes

-----------------------------------------------------------------------------
LEMMA LoginAdmission ==
  ASSUME Admission, NEW r \in Requests, Identity!Login(r)
  PROVE  Admission'
<1>1. PICK q \in Identity!Request : q = userRequest[r]  BY UserFacts
<1>2. PICK id \in Identity!Ids, p \in Passwords : id = user.id /\ p = user.password
  BY DEF Identity!Login, Identity!Exists, Admission, Tokens, Identity!User
<1>3. PICK pc \in {"upgrade", "issue"} : pc = IF user.legacy THEN "upgrade" ELSE "issue"
  OBVIOUS
<1> DEFINE x == [q EXCEPT !.op = "login", !.id = id, !.password = p, !.pc = pc]
<1>4. /\ x \in Identity!Request /\ x.pc = pc /\ x.token = q.token /\ x.raced = q.raced
      /\ x.gen = q.gen /\ x.id = id
  BY DEF Identity!Request
<1>5. Identity!Become(r, x) /\ q.pc = "idle"  BY <1>1, <1>2, <1>3 DEF Identity!Login
<1> HIDE DEF x
<1>6. x.pc \notin Coded /\ x.id # Identity!Absent  BY <1>4
     DEF Coded, Identity!Ids, Identity!Absent
<1>7. NoToken(r, x)  BY <1>1, <1>4, <1>5, <1>6, UserFacts DEF NoToken
<1>8. AccountChanges  BY UserStays DEF Identity!Login
<1> QED BY <1>4, <1>5, <1>6, <1>7, <1>8, GoesOn DEF Identity!Login

LEMMA UpgradeAdmission ==
  ASSUME Admission, NEW r \in Requests, Identity!Upgrade(r)
  PROVE  Admission'
<1>1. PICK q \in Identity!Request : q = userRequest[r]  BY UserFacts
<1>2. PICK same \in BOOLEAN :
        same = (user.id = q.id /\ user.legacy /\ user.password = q.password)
  OBVIOUS
<1>3. /\ user' = IF same THEN [user EXCEPT !.legacy = FALSE] ELSE user
      /\ Identity!Become(r, [q EXCEPT !.pc = IF same THEN "issue" ELSE "done"])
      /\ UNCHANGED <<lastGen, ended>> /\ Identity!KeepCodes /\ q.pc = "upgrade"
  BY <1>1, <1>2 DEF Identity!Upgrade
<1>4. PICK pc \in {"issue", "done"} : pc = IF same THEN "issue" ELSE "done"
  OBVIOUS
<1> DEFINE x == [q EXCEPT !.pc = pc]
<1>5. /\ x \in Identity!Request /\ x.pc = pc /\ x.token = q.token /\ x.raced = q.raced
      /\ x.gen = q.gen /\ x.id = q.id
  BY DEF Identity!Request
<1>6. Identity!Become(r, x)  BY <1>3, <1>4
<1> HIDE DEF x
<1>7. x.pc \notin Coded /\ q.id # Identity!Absent
  BY <1>1, <1>3, <1>5, UserFacts DEF Coded, Holding
<1>8. NoToken(r, x)  BY <1>1, <1>3, <1>5, <1>7, UserFacts DEF NoToken
<1>9. AccountChanges
  <2>1. user \in Identity!User  BY DEF Admission, Tokens
  <2>2. /\ user' \in Identity!User /\ user'.id = user.id /\ user'.gen = user.gen
        /\ user'.password = user.password
    BY <1>3, <2>1 DEF Identity!User
  <2>3. lastGen \in 0..MaxGens /\ lastGen \in Nat /\ user.gen <= lastGen
    BY DEF Admission, Tokens
  <2>4. user.id = Identity!Absent => user.gen = Identity!None  BY
  DEF Admission, Tokens, Identity!Exists
  <2> QED BY <1>3, <2>2, <2>3, <2>4 DEF AccountChanges
<1> QED BY <1>3, <1>5, <1>6, <1>7, <1>8, <1>9, GoesOn

LEMMA EnterAdmission ==
  ASSUME Identity!UserIdentityAssumption, Admission, NEW r \in Requests, Identity!Enter(r)
  PROVE  Admission'
<1>1. PICK q \in Identity!Request : q = userRequest[r]  BY UserFacts
<1>2. AccountChanges /\ user'.id # Identity!Absent /\ user' \in Identity!User
  <2>1. CASE Identity!Exists /\ UNCHANGED user
    <3>1. Identity!KeepUser  BY <2>1 DEF Identity!Enter, Identity!KeepUser
    <3>2. AccountChanges  BY <3>1, UserStays
    <3> QED BY <2>1, <3>2 DEF AccountChanges, Identity!Exists
  <2>2. CASE /\ ~Identity!Exists
             /\ \E id \in Identity!Ids : user' = [id |-> id, password |-> NoPassword,
                                         legacy |-> FALSE, gen |-> Identity!None]
    <3>1. PICK id \in Identity!Ids : user' = [id |-> id, password |-> NoPassword,
                                     legacy |-> FALSE, gen |-> Identity!None]
      BY <2>2
    <3>2. UNCHANGED <<lastGen, ended>> /\ NoPassword \in Passwords \cup {NoPassword}
      BY DEF Identity!Enter
    <3>3. AccountChanges /\ user'.id # Identity!Absent  BY <2>2, <3>1, <3>2, Created
    <3> QED BY <3>3 DEF AccountChanges
  <2> QED BY <2>1, <2>2 DEF Identity!Enter
<1>3. PICK i \in Identity!Ids : i = user'.id  BY <1>2 DEF Identity!User
<1> DEFINE x == [q EXCEPT !.op = "enter", !.id = i, !.pc = "issue"]
<1>4. /\ x \in Identity!Request /\ x.pc = "issue" /\ x.token = q.token /\ x.raced = q.raced
      /\ x.gen = q.gen /\ x.id = i
  BY DEF Identity!Request
<1>5. Identity!Become(r, x) /\ q.pc = "idle" /\ Identity!KeepCodes  BY <1>1, <1>3
     DEF Identity!Enter
<1> HIDE DEF x
<1>6. x.pc \notin Coded /\ x.id # Identity!Absent  BY <1>2, <1>3, <1>4 DEF Coded
<1>7. NoToken(r, x)  BY <1>1, <1>4, <1>5, <1>6, UserFacts DEF NoToken
<1> QED BY <1>2, <1>4, <1>5, <1>6, <1>7, GoesOn

\* The record of a request that answers with a token.
LEMMA IssuedFacts ==
  ASSUME NEW q \in Identity!Request, NEW g \in 0..MaxGens
  PROVE  /\ Identity!Issued(q, g) \in Identity!Request
         /\ Identity!Issued(q, g).pc = "done" /\ Identity!Issued(q, g).gen = g /\ Identity!Issued(q, g).token
         /\ Identity!Issued(q, g).op = q.op /\ Identity!Issued(q, g).id = q.id
         /\ Identity!Issued(q, g).password = q.password /\ Identity!Issued(q, g).raced = q.raced
         /\ Identity!Issued(q, g).late = (q.op = "login" /\ q.password # user.password)
<1>1. PICK late \in BOOLEAN : late = (q.op = "login" /\ q.password # user.password)
  OBVIOUS
<1> DEFINE x == [q EXCEPT !.pc = "done", !.gen = g, !.token = TRUE, !.late = late]
<1>2. /\ x \in Identity!Request /\ x.pc = "done" /\ x.gen = g /\ x.token /\ x.late = late
      /\ x.op = q.op /\ x.id = q.id /\ x.password = q.password /\ x.raced = q.raced
  BY DEF Identity!Request
<1>3. Identity!Issued(q, g) = x  BY <1>1 DEF Identity!Issued
<1> HIDE DEF x
<1> QED BY <1>1, <1>2, <1>3

LEMMA IssueAdmission ==
  ASSUME Admission, NEW r \in Requests, Identity!Issue(r)
  PROVE  Admission'
<1>1. PICK q \in Identity!Request : q = userRequest[r]  BY UserFacts
<1>2. q.pc = "issue" /\ Identity!KeepUser /\ Identity!KeepCodes  BY <1>1 DEF Identity!Issue
<1>3. AccountChanges  BY <1>2, UserStays
<1>4. q.id # Identity!Absent /\ ~q.token /\ ~q.raced  BY <1>1, <1>2, UserFacts DEF Holding
<1>5. CASE user.id # q.id
  <2>1. Identity!Become(r, [userRequest[r] EXCEPT !.pc = "done"])  BY <1>1, <1>5
       DEF Identity!Issue
  <2> QED BY <1>1, <1>2, <1>3, <2>1, Finishes
<1>6. CASE user.id = q.id /\ user.gen = Identity!None
  <2> DEFINE x == [q EXCEPT !.pc = "store"]
  <2>1. /\ x \in Identity!Request /\ x.pc = "store" /\ x.token = q.token /\ x.raced = q.raced
        /\ x.gen = q.gen /\ x.id = q.id
    BY DEF Identity!Request
  <2>2. Identity!Become(r, x)  BY <1>1, <1>6 DEF Identity!Issue
  <2> HIDE DEF x
  <2>3. x.pc \notin Coded  BY <2>1 DEF Coded
  <2>4. NoToken(r, x)  BY <1>1, <1>2, <1>4, <2>1 DEF NoToken
  <2> QED BY <1>2, <1>3, <2>1, <2>2, <2>3, <2>4, GoesOn
<1>7. CASE user.id = q.id /\ user.gen # Identity!None
  <2>1. PICK g \in 0..MaxGens : g = user.gen  BY DEF Admission, Tokens, Identity!User
  <2>2. PICK x \in Identity!Request : x = Identity!Issued(q, g)  BY IssuedFacts
  <2>3. /\ x.pc = "done" /\ x.gen = g /\ x.token /\ x.op = q.op /\ x.id = q.id
        /\ x.password = q.password /\ x.raced = q.raced
        /\ x.late = (q.op = "login" /\ q.password # user.password)
    BY <2>2, IssuedFacts
  <2>4. Identity!Become(r, x)  BY <1>1, <1>7, <2>1, <2>2 DEF Identity!Issue
  <2>5. \A s \in Requests : userRequest'[s] = IF s = r THEN x ELSE userRequest[s]
    BY <2>4, UserBecomes
  <2>6. Codes'
    <3>1. x.pc \notin Coded /\ x.pc \notin {"send", "sent"}  BY <2>3 DEF Coded
    <3> QED BY <1>2, <2>4, <3>1, CodesStay
  <2>7. UNCHANGED <<user, lastGen, ended>>  BY <1>2 DEF Identity!KeepUser
  <2>8. \A s \in Requests :
          /\ userRequest'[s].token \/ userRequest'[s].raced => userRequest'[s].pc = "done"
          /\ userRequest'[s].pc \in Holding \/ userRequest'[s].token => userRequest'[s].id # Identity!Absent
          /\ userRequest'[s].token => userRequest'[s].gen # Identity!None
          /\ userRequest'[s].gen <= lastGen
    <3>1. g <= lastGen /\ x.pc \notin Holding
      BY <2>1, <2>3 DEF Admission, Tokens, Holding
    <3> QED BY <1>4, <1>7, <2>1, <2>3, <2>5, <3>1 DEF Admission, Tokens
  <2>9. Identity!LoginIsCurrent'
    BY <2>3, <2>5, <2>7 DEF Identity!LoginIsCurrent, Identity!TokenValid, Admission, Tokens
  <2>10. Identity!SignedInStays'
    <3> SUFFICES ASSUME NEW s \in Requests, userRequest'[s].token,
                        ~(user.id = userRequest'[s].id /\ user.gen = userRequest'[s].gen)
                 PROVE  userRequest'[s].gen \in ended \/ \E t \in Requests : userRequest'[t].raced
      BY <2>7 DEF Identity!SignedInStays, Identity!TokenValid
    <3>1. s # r  BY <1>7, <2>1, <2>3, <2>5
    <3>2. userRequest[s].gen \in ended \/ \E t \in Requests : userRequest[t].raced
      BY <2>5, <3>1 DEF Admission, Tokens, Identity!SignedInStays, Identity!TokenValid
    <3>3. \A t \in Requests : userRequest[t].raced => userRequest'[t].raced
      BY <1>1, <1>4, <2>5
    <3> QED BY <2>5, <3>1, <3>2, <3>3
  <2>11. Tokens'
    BY <2>7, <2>8, <2>9, <2>10 DEF Admission, Tokens, Identity!Exists
  <2> QED BY <2>4, <2>6, <2>11, UserBecomes DEF Admission
<1> QED BY <1>5, <1>6, <1>7

\* The first generation is new: only its own token can be valid after it is stored.
LEMMA StoreAdmission ==
  ASSUME Identity!UserIdentityAssumption, Admission, NEW r \in Requests, Identity!Store(r)
  PROVE  Admission'
<1>1. PICK q \in Identity!Request : q = userRequest[r]  BY UserFacts
<1>2. /\ q.pc = "store" /\ Identity!KeepCodes /\ UNCHANGED ended
      /\ lastGen < MaxGens /\ lastGen' = lastGen + 1
  BY <1>1 DEF Identity!Store
<1>3. PICK g \in 0..MaxGens : g = lastGen + 1 /\ g # 0
  BY <1>2 DEF Admission, Tokens, Identity!UserIdentityAssumption
<1>4. q.id # Identity!Absent /\ ~q.token /\ ~q.raced  BY <1>1, <1>2, UserFacts DEF Holding
<1>5. PICK raced \in BOOLEAN : raced = (user.id # q.id \/ user.gen # Identity!None)
  OBVIOUS
<1>6. PICK y \in Identity!Request : y = Identity!Issued(q, g)  BY IssuedFacts
<1>7. /\ y.pc = "done" /\ y.gen = g /\ y.token /\ y.op = q.op /\ y.id = q.id
      /\ y.password = q.password
      /\ y.late = (q.op = "login" /\ q.password # user.password)
  BY <1>6, IssuedFacts
<1> DEFINE x == [y EXCEPT !.raced = raced]
<1>8. /\ x \in Identity!Request /\ x.pc = "done" /\ x.gen = g /\ x.token /\ x.op = q.op
      /\ x.id = q.id /\ x.password = q.password /\ x.raced = raced
      /\ x.late = (q.op = "login" /\ q.password # user.password)
  BY <1>7 DEF Identity!Request
<1>9. Identity!Become(r, x)  BY <1>1, <1>3, <1>5, <1>6 DEF Identity!Store, Identity!NextGen
<1> HIDE DEF x
<1>10. \A s \in Requests : userRequest'[s] = IF s = r THEN x ELSE userRequest[s]
  BY <1>8, <1>9, UserBecomes
<1>11. user' = IF user.id = q.id THEN [user EXCEPT !.gen = g] ELSE user
  BY <1>1, <1>3 DEF Identity!Store, Identity!NextGen
<1>12. Codes'
  <2>1. x.pc \notin Coded /\ x.pc \notin {"send", "sent"}  BY <1>8 DEF Coded
  <2> QED BY <1>2, <1>8, <1>9, <2>1, CodesStay
<1>13. /\ user \in Identity!User /\ lastGen \in Nat /\ user.gen \in Nat /\ user.gen <= lastGen
       /\ g = lastGen + 1 /\ lastGen' = g
  BY <1>2, <1>3 DEF Admission, Tokens, Identity!User
<1>14. /\ user' \in Identity!User /\ user'.id = user.id /\ user'.password = user.password
       /\ user'.gen = IF user.id = q.id THEN g ELSE user.gen
  BY <1>11, <1>13 DEF Identity!User
<1>15. \A s \in Requests :
         s # r => /\ userRequest'[s] = userRequest[s]
                  /\ userRequest[s].gen <= lastGen /\ userRequest[s].gen \in Nat
                  /\ userRequest[s].token => userRequest[s].gen # Identity!None
                  /\ userRequest[s].token \/ userRequest[s].raced => userRequest[s].pc = "done"
                  /\ userRequest[s].pc \in Holding \/ userRequest[s].token => userRequest[s].id # Identity!Absent
  <2> TAKE s \in Requests
  <2>1. userRequest[s].gen \in Nat  BY DEF Admission, Identity!Request
  <2> QED BY <1>10, <2>1 DEF Admission, Tokens
<1>16. \A s \in Requests :
         /\ userRequest'[s].token \/ userRequest'[s].raced => userRequest'[s].pc = "done"
         /\ userRequest'[s].pc \in Holding \/ userRequest'[s].token => userRequest'[s].id # Identity!Absent
         /\ userRequest'[s].token => userRequest'[s].gen # Identity!None
         /\ userRequest'[s].gen <= lastGen'
  <2> TAKE s \in Requests
  <2>1. CASE s = r  BY <1>3, <1>4, <1>8, <1>10, <1>13, <2>1 DEF Identity!None
  <2>2. CASE s # r  BY <1>13, <1>15, <2>2
  <2> QED BY <2>1, <2>2
<1>17. Identity!LoginIsCurrent'
  <2> SUFFICES ASSUME NEW s \in Requests, userRequest'[s].op = "login", userRequest'[s].token,
                      user'.id = userRequest'[s].id, user'.gen = userRequest'[s].gen
               PROVE  userRequest'[s].password = user'.password \/ userRequest'[s].late
    BY DEF Identity!LoginIsCurrent, Identity!TokenValid
  <2>1. CASE s = r  BY <1>8, <1>10, <1>14, <2>1
  <2>2. CASE s # r
    <3>1. user'.gen <= lastGen  BY <1>15, <2>2
    <3>2. user'.gen = user.gen  BY <1>13, <1>14, <3>1
    <3> QED BY <1>14, <1>15, <2>2, <3>2
         DEF Identity!LoginIsCurrent, Identity!TokenValid, Admission, Tokens
  <2> QED BY <2>1, <2>2
<1>18. Identity!SignedInStays'
  <2> SUFFICES ASSUME NEW s \in Requests, userRequest'[s].token,
                      ~(user'.id = userRequest'[s].id /\ user'.gen = userRequest'[s].gen)
               PROVE  userRequest'[s].gen \in ended \/ \E t \in Requests : userRequest'[t].raced
    BY <1>2 DEF Identity!SignedInStays, Identity!TokenValid
  <2>1. CASE raced
    BY <1>8, <1>10, <2>1
  <2>2. CASE ~raced
    <3>1. user.id = q.id /\ user.gen = Identity!None  BY <1>5, <2>2
    <3>2. s # r  BY <1>8, <1>10, <1>14, <3>1
    <3>3. ~Identity!TokenValid(s) /\ userRequest[s].token  BY <1>15, <3>1, <3>2
         DEF Identity!TokenValid
    <3>4. userRequest[s].gen \in ended \/ \E t \in Requests : userRequest[t].raced
      BY <3>3 DEF Admission, Tokens, Identity!SignedInStays
    <3>5. \A t \in Requests : userRequest[t].raced => userRequest'[t].raced
      BY <1>1, <1>4, <1>10
    <3> QED BY <1>15, <3>2, <3>4, <3>5
  <2> QED BY <2>1, <2>2
<1>19. Tokens'
  <2>1. lastGen' \in 0..MaxGens /\ user'.gen <= lastGen' /\ ended' \subseteq 1..lastGen'
    <3>1. ended \subseteq 1..lastGen  BY DEF Admission, Tokens
    <3> QED BY <1>2, <1>13, <1>14, <3>1
  <2>2. user'.id = Identity!Absent => user'.gen = Identity!None
    BY <1>4, <1>14 DEF Admission, Tokens, Identity!Exists
  <2> QED BY <1>14, <1>16, <1>17, <1>18, <2>1, <2>2 DEF Tokens, Identity!Exists
<1> QED BY <1>8, <1>9, <1>12, <1>19, UserBecomes DEF Admission

LEMMA AbandonAdmission ==
  ASSUME Admission, NEW r \in Requests, Identity!Abandon(r)
  PROVE  Admission'
<1>1. AccountChanges  BY UserStays DEF Identity!Abandon
<1> QED BY <1>1, Finishes DEF Identity!Abandon

-----------------------------------------------------------------------------
LEMMA InitAdmission ==
  ASSUME Identity!UserIdentityAssumption, Identity!Init
  PROVE  Admission
<1>1. PICK id \in {Identity!Absent, 1}, p \in Passwords :
        /\ user = IF id = Identity!Absent THEN Identity!NoUser
                  ELSE [id |-> id, password |-> p, legacy |-> TRUE, gen |-> Identity!None]
        /\ userRequest = [r \in Requests |->
             [pc |-> "idle", op |-> "none", code |-> Identity!None, id |-> Identity!Absent, password |-> p,
              gen |-> Identity!None, token |-> FALSE, late |-> FALSE, raced |-> FALSE]]
  BY DEF Identity!Init
<1>2. /\ Identity!None \in 0..MaxGens /\ Identity!None \in 0..MaxCodes /\ Identity!Absent \in Identity!Ids \cup {Identity!Absent}
      /\ 1 \in Identity!Ids /\ Identity!None = 0
  BY DEF Identity!UserIdentityAssumption, Identity!None, Identity!Ids
<1>3. user \in Identity!User /\ user.gen = Identity!None
  BY <1>1, <1>2 DEF Identity!NoUser, Identity!User
<1>4. [pc |-> "idle", op |-> "none", code |-> Identity!None, id |-> Identity!Absent, password |-> p,
       gen |-> Identity!None, token |-> FALSE, late |-> FALSE, raced |-> FALSE] \in Identity!Request
  BY <1>2 DEF Identity!Request
<1>5. userRequest \in [Requests -> Identity!Request]  BY <1>1, <1>4
<1>6. \A r \in Requests : /\ userRequest[r].pc = "idle" /\ ~userRequest[r].token /\ ~userRequest[r].raced
                          /\ userRequest[r].gen = Identity!None
  BY <1>1
<1>7. /\ lastGen = 0 /\ ended = {} /\ lastCode = 0 /\ spent = {}
      /\ challenge = [code |-> Identity!None, consumed |-> FALSE, expired |-> FALSE]
  BY DEF Identity!Init
<1>8. challenge \in Identity!Challenge /\ challenge.code = Identity!None
  BY <1>2, <1>7 DEF Identity!Challenge
<1>9. Codes
  BY <1>2, <1>6, <1>7, <1>8 DEF Codes, Coded
<1>10. Tokens
  BY <1>2, <1>3, <1>6, <1>7
     DEF Tokens, Holding, Identity!LoginIsCurrent, Identity!SignedInStays, Identity!TokenValid
<1> QED BY <1>5, <1>9, <1>10 DEF Admission

LEMMA NextAdmission ==
  ASSUME Identity!UserIdentityAssumption, Admission, [Identity!Next]_(Identity!vars)
  PROVE  Admission'
<1>1. CASE UNCHANGED Identity!vars
  <2>1. UNCHANGED userRequest /\ Identity!KeepUser /\ Identity!KeepCodes  BY <1>1
       DEF Identity!vars, Identity!KeepUser, Identity!KeepCodes
  <2>2. Tokens'  BY <2>1, UserStays, TokensStay
  <2>3. Codes'  BY <2>1 DEF Identity!KeepCodes, Admission, Codes, Identity!Usable
  <2> QED BY <2>1, <2>2, <2>3 DEF Admission
<1>2. ASSUME NEW r \in Requests, Identity!Handle(r)  PROVE Admission'
  BY <1>2, ReserveAdmission, SendAdmission, ReleaseAdmission, ConsumeAdmission,
     RegisterAdmission, AskResetAdmission, ResetAdmission, LoginAdmission,
     UpgradeAdmission, EnterAdmission, IssueAdmission, StoreAdmission, AbandonAdmission
     DEF Identity!Handle
<1> QED BY <1>1, <1>2, ExpireAdmission, InsertAdmission, DeleteAdmission DEF Identity!Next

LEMMA AdmissionHolds == Identity!UserIdentityAssumption => (Identity!Spec => []Admission)
<1> SUFFICES ASSUME Identity!UserIdentityAssumption  PROVE Identity!Spec => []Admission
  OBVIOUS
<1>1. Identity!Init => Admission  BY InitAdmission
<1>2. Admission /\ [Identity!Next]_(Identity!vars) => Admission'  BY NextAdmission
<1> QED BY <1>1, <1>2, PTL DEF Identity!Spec

\* The row of the account, its challenge and the handlers are always well-formed; no
\* token, and no account, has a generation that was not drawn (issueUserAuthJwt).
THEOREM AccountTypeCorrect ==
  Identity!UserIdentityAssumption => (Identity!Spec => []Identity!TypeOK)
<1> SUFFICES ASSUME Identity!UserIdentityAssumption
             PROVE  Identity!Spec => []Identity!TypeOK
  OBVIOUS
<1>1. Identity!Spec => []Admission  BY AdmissionHolds
<1>2. Admission => Identity!TypeOK  BY AdmissionType
<1> QED BY <1>1, <1>2, PTL

\* A code that has been mailed can be used until it expires or is consumed: no other
\* request for a code replaces it, and no failure to send one removes it
\* (reserveUserVerificationChallenge, releaseUserVerificationChallenge).
THEOREM SentCodesWork ==
  Identity!UserIdentityAssumption => (Identity!Spec => []SentCodeWorks)
<1> SUFFICES ASSUME Identity!UserIdentityAssumption
             PROVE  Identity!Spec => []SentCodeWorks
  OBVIOUS
<1>1. Identity!Spec => []Admission  BY AdmissionHolds
<1>2. Admission => SentCodeWorks  BY AdmissionSent DEF SentCodeWorks
<1> QED BY <1>1, <1>2, PTL

\* A reset or a registration ends every session of an older password: whoever is in by
\* a password knows the current one, unless the login took its generation after the
\* change (issueUserAuthJwt, getOrCreateUserAuthGeneration).
THEOREM LoginsAreCurrent ==
  Identity!UserIdentityAssumption => (Identity!Spec => []LoginIsCurrent)
<1> SUFFICES ASSUME Identity!UserIdentityAssumption
             PROVE  Identity!Spec => []LoginIsCurrent
  OBVIOUS
<1>1. Identity!Spec => []Admission  BY AdmissionHolds
<1>2. Admission => LoginIsCurrent  BY DEF Admission, Tokens, LoginIsCurrent
<1> QED BY <1>1, <1>2, PTL

\* A token that was answered stays valid until its generation is ended, unless two
\* first logins of an account have raced (getOrCreateUserAuthGeneration).
THEOREM SessionsLast ==
  Identity!UserIdentityAssumption => (Identity!Spec => []SignedInStays)
<1> SUFFICES ASSUME Identity!UserIdentityAssumption
             PROVE  Identity!Spec => []SignedInStays
  OBVIOUS
<1>1. Identity!Spec => []Admission  BY AdmissionHolds
<1>2. Admission => SignedInStays  BY DEF Admission, Tokens, SignedInStays
<1> QED BY <1>1, <1>2, PTL

-----------------------------------------------------------------------------
(***************************************************************************)
(* The bindings of UserAdmin, as MCAccess instantiates it.                 *)
(***************************************************************************)

BindingProofs ==
  INSTANCE UserAdminProofs WITH
    MaxId <- 2, MaxLives <- 2, Emails <- Requests, Addresses <- Places,
    Requests <- Places, Operations <- {"delete", "bind", "unbind", "register"},
    DefaultRole <- "none", MaxAddressCount <- 1, request <- bindRequest

\* BindingProofs!Spec is Binding!Spec: one module, and the same for its parameters.
LEMMA BindingKeeps ==
  Binding!UserAdminAssumption => (Binding!Spec => []Binding!BindingOrigin)
<1> SUFFICES ASSUME Binding!UserAdminAssumption
             PROVE  Binding!Spec => []Binding!BindingOrigin
  OBVIOUS
<1>1. BindingProofs!UserAdminAssumption
  BY DEF
     Binding!UserAdminAssumption, BindingProofs!UserAdminAssumption, Binding!IsFiniteSet,
     BindingProofs!IsFiniteSet, Binding!Texts, BindingProofs!Texts, Binding!Roles,
     BindingProofs!Roles
<1>2. Binding!Init => BindingProofs!Init
  BY DEF
     Binding!Ids, BindingProofs!Ids, Binding!Root, BindingProofs!Root, Binding!Roles,
     BindingProofs!Roles, Binding!Texts, BindingProofs!Texts, Binding!NoRole,
     BindingProofs!NoRole, Binding!NoBinding, BindingProofs!NoBinding, Binding!Request,
     BindingProofs!Request, Binding!Exists, BindingProofs!Exists, Binding!Alive,
     BindingProofs!Alive, Binding!RoleRow, BindingProofs!RoleRow, Binding!BindingRow,
     BindingProofs!BindingRow, Binding!Init, BindingProofs!Init
<1>3. [Binding!Next]_(Binding!vars) => [BindingProofs!Next]_(BindingProofs!vars)
  <2>1. \A e : Binding!CreateUser(e) <=> BindingProofs!CreateUser(e)
    BY Zenon DEF
       Binding!CreateUser, BindingProofs!CreateUser, Binding!InsertUser,
       BindingProofs!InsertUser, Binding!Ids, BindingProofs!Ids, Binding!IsNextId,
       BindingProofs!IsNextId, Binding!Exists, BindingProofs!Exists
  <2>2. \A r : Binding!Register(r) <=> BindingProofs!Register(r)
    BY Zenon DEF
       Binding!Register, BindingProofs!Register, Binding!InsertUser, BindingProofs!InsertUser,
       Binding!Ids, BindingProofs!Ids, Binding!Become, BindingProofs!Become, Binding!IsNextId,
       BindingProofs!IsNextId, Binding!Exists, BindingProofs!Exists
  <2>3. \A r : Binding!FindUser(r) <=> BindingProofs!FindUser(r)
    BY Zenon DEF
       Binding!FindUser, BindingProofs!FindUser, Binding!Ids, BindingProofs!Ids,
       Binding!Become, BindingProofs!Become, Binding!Rows, BindingProofs!Rows
  <2>4. \A r : Binding!GrantDefault(r) <=> BindingProofs!GrantDefault(r)
    BY Zenon DEF
       Binding!GrantDefault, BindingProofs!GrantDefault, Binding!RoleFor,
       BindingProofs!RoleFor, Binding!Become, BindingProofs!Become, Binding!Alive,
       BindingProofs!Alive, Binding!Exists, BindingProofs!Exists
  <2>5. \A r : Binding!Ask(r) <=> BindingProofs!Ask(r)
    BY Zenon DEF
       Binding!Ask, BindingProofs!Ask, Binding!Ids, BindingProofs!Ids, Binding!Root,
       BindingProofs!Root, Binding!Texts, BindingProofs!Texts, Binding!Authorized,
       BindingProofs!Authorized, Binding!Become, BindingProofs!Become, Binding!Rows,
       BindingProofs!Rows, Binding!Roles, BindingProofs!Roles, Binding!Exists,
       BindingProofs!Exists, Binding!IsAdmin, BindingProofs!IsAdmin
  <2>6. \A r : Binding!ReadUser(r) <=> BindingProofs!ReadUser(r)
    BY Zenon DEF
       Binding!ReadUser, BindingProofs!ReadUser, Binding!Become, BindingProofs!Become,
       Binding!Exists, BindingProofs!Exists, Binding!Rows, BindingProofs!Rows
  <2>7. \A r : Binding!ReadRole(r) <=> BindingProofs!ReadRole(r)
    BY Zenon DEF
       Binding!ReadRole, BindingProofs!ReadRole, Binding!Become, BindingProofs!Become,
       Binding!Demotes, BindingProofs!Demotes, Binding!Write, BindingProofs!Write,
       Binding!Rows, BindingProofs!Rows
  <2>8. \A r : Binding!CountAdmins(r) <=> BindingProofs!CountAdmins(r)
    BY Zenon DEF
       Binding!CountAdmins, BindingProofs!CountAdmins, Binding!Become, BindingProofs!Become,
       Binding!Admins, BindingProofs!Admins, Binding!Write, BindingProofs!Write, Binding!Rows,
       BindingProofs!Rows, Binding!Ids, BindingProofs!Ids, Binding!IsAdmin,
       BindingProofs!IsAdmin, Binding!Cardinality, BindingProofs!Cardinality,
       Binding!IsFiniteSet, BindingProofs!IsFiniteSet
  <2>9. \A r : Binding!EraseUser(r) <=> BindingProofs!EraseUser(r)
    BY Zenon DEF
       Binding!EraseUser, BindingProofs!EraseUser, Binding!MayDemote, BindingProofs!MayDemote,
       Binding!NoRole, BindingProofs!NoRole, Binding!BoundTo, BindingProofs!BoundTo,
       Binding!NoBinding, BindingProofs!NoBinding, Binding!Become, BindingProofs!Become,
       Binding!Blind, BindingProofs!Blind, Binding!Demotes, BindingProofs!Demotes,
       Binding!Admins, BindingProofs!Admins, Binding!IsAdmin, BindingProofs!IsAdmin,
       Binding!Ids, BindingProofs!Ids, Binding!Cardinality, BindingProofs!Cardinality,
       Binding!IsFiniteSet, BindingProofs!IsFiniteSet
  <2>10. \A r : Binding!ChangeRole(r) <=> BindingProofs!ChangeRole(r)
    BY Zenon DEF
       Binding!ChangeRole, BindingProofs!ChangeRole, Binding!NoRole, BindingProofs!NoRole,
       Binding!RoleFor, BindingProofs!RoleFor, Binding!MayDemote, BindingProofs!MayDemote,
       Binding!IsAdmin, BindingProofs!IsAdmin, Binding!Become, BindingProofs!Become,
       Binding!Blind, BindingProofs!Blind, Binding!Alive, BindingProofs!Alive,
       Binding!Demotes, BindingProofs!Demotes, Binding!Admins, BindingProofs!Admins,
       Binding!Exists, BindingProofs!Exists, Binding!Ids, BindingProofs!Ids,
       Binding!Cardinality, BindingProofs!Cardinality, Binding!IsFiniteSet,
       BindingProofs!IsFiniteSet
  <2>11. \A r : Binding!AskBind(r) <=> BindingProofs!AskBind(r)
    BY Zenon DEF
       Binding!AskBind, BindingProofs!AskBind, Binding!Ids, BindingProofs!Ids, Binding!Become,
       BindingProofs!Become, Binding!Rows, BindingProofs!Rows
  <2>12. \A r : Binding!ReadAddress(r) <=> BindingProofs!ReadAddress(r)
    BY Zenon DEF
       Binding!ReadAddress, BindingProofs!ReadAddress, Binding!Become, BindingProofs!Become,
       Binding!Rows, BindingProofs!Rows
  <2>13. \A r : Binding!ReadBinding(r) <=> BindingProofs!ReadBinding(r)
    BY Zenon DEF
       Binding!ReadBinding, BindingProofs!ReadBinding, Binding!Become, BindingProofs!Become,
       Binding!Rows, BindingProofs!Rows
  <2>14. \A r : Binding!CountBindings(r) <=> BindingProofs!CountBindings(r)
    BY Zenon DEF
       Binding!CountBindings, BindingProofs!CountBindings, Binding!BoundTo,
       BindingProofs!BoundTo, Binding!Become, BindingProofs!Become, Binding!Full,
       BindingProofs!Full, Binding!Rows, BindingProofs!Rows, Binding!Cardinality,
       BindingProofs!Cardinality, Binding!IsFiniteSet, BindingProofs!IsFiniteSet
  <2>15. \A r : Binding!InsertBinding(r) <=> BindingProofs!InsertBinding(r)
    BY Zenon DEF
       Binding!InsertBinding, BindingProofs!InsertBinding, Binding!Alive, BindingProofs!Alive,
       Binding!Become, BindingProofs!Become, Binding!Exists, BindingProofs!Exists
  <2>16. \A r : Binding!Unbind(r) <=> BindingProofs!Unbind(r)
    BY Zenon DEF
       Binding!Unbind, BindingProofs!Unbind, Binding!NoBinding, BindingProofs!NoBinding,
       Binding!Become, BindingProofs!Become
  <2>17. \A a : Binding!RemoveAddress(a) <=> BindingProofs!RemoveAddress(a)
    BY Zenon DEF
       Binding!RemoveAddress, BindingProofs!RemoveAddress, Binding!NoBinding,
       BindingProofs!NoBinding
  <2>18. \A r : Binding!Abandon(r) <=> BindingProofs!Abandon(r)
    BY Zenon DEF
       Binding!Abandon, BindingProofs!Abandon, Binding!Become, BindingProofs!Become,
       Binding!Rows, BindingProofs!Rows
  <2> QED
    BY Zenon,
       <2>1, <2>2, <2>3, <2>4, <2>5, <2>6, <2>7, <2>8, <2>9, <2>10, <2>11, <2>12, <2>13,
       <2>14, <2>15, <2>16, <2>17, <2>18
    DEF
       Binding!HandleUser, BindingProofs!HandleUser, Binding!HandleBinding,
       BindingProofs!HandleBinding, Binding!UsersNext, BindingProofs!UsersNext, Binding!Next,
       BindingProofs!Next, Binding!vars, BindingProofs!vars
<1>4. BindingProofs!BindingOrigin => Binding!BindingOrigin
  BY DEF
     Binding!BindingOrigin, BindingProofs!BindingOrigin, Binding!Alive, BindingProofs!Alive,
     Binding!Exists, BindingProofs!Exists
<1>5. BindingProofs!Spec => []BindingProofs!BindingOrigin
  BY <1>1, BindingProofs!BindingsHaveOrigin
<1> QED BY <1>2, <1>3, <1>4, <1>5, PTL DEF Binding!Spec, BindingProofs!Spec

\* Among the three parts of MCAccess too, a row of users_address names a user and an
\* address that exist, unless bindByID inserted it late: the part keeps the promise
\* of UserAdmin for any number of addresses and requests.
THEOREM BindingsBelong ==
  Binding!UserAdminAssumption => (MCSpec => []BindingOrigin)
<1> SUFFICES ASSUME Binding!UserAdminAssumption  PROVE MCSpec => []BindingOrigin
  OBVIOUS
<1>1. MCSpec /\ part = "binding" => [](part = "binding")
  <2>1. part = "binding" /\ [MCNext]_<<part, vars, identityVars, bindingVars>>
          => (part = "binding")'
    BY DEF MCNext
  <2> QED BY <2>1, PTL DEF MCSpec
<1>2. MCSpec /\ ~(part = "binding") => [](~(part = "binding"))
  <2>1. ~(part = "binding") /\ [MCNext]_<<part, vars, identityVars, bindingVars>>
          => (~(part = "binding"))'
    BY DEF MCNext
  <2> QED BY <2>1, PTL DEF MCSpec
<1>3. MCInit /\ part = "binding" => Binding!Init  BY DEF MCInit
<1>4. part = "binding" /\ [MCNext]_<<part, vars, identityVars, bindingVars>>
        => [Binding!Next]_(Binding!vars)
  BY DEF MCNext, bindingVars, Binding!vars
<1>5. MCSpec /\ part = "binding" => Binding!Spec
  BY <1>1, <1>3, <1>4, PTL DEF MCSpec, Binding!Spec
<1>6. Binding!Spec => []Binding!BindingOrigin  BY BindingKeeps
<1>7. Binding!BindingOrigin => BindingOrigin  BY DEF BindingOrigin
<1>8. ~(part = "binding") => BindingOrigin  BY DEF BindingOrigin
<1> QED BY <1>1, <1>2, <1>5, <1>6, <1>7, <1>8, PTL
=============================================================================
