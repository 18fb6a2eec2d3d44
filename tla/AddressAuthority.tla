-------------------------- MODULE AddressAuthority --------------------------
(***************************************************************************)
(* What gives access to a mailbox: the password of its address, the        *)
(* credential version its JWTs carry, and its share links.                 *)
(*                                                                         *)
(* A JWT of an address is valid as long as the row of its address has the  *)
(* version it carries; every change of the password and every rotation     *)
(* raises the version.  A JWT of a share link is valid as long as the      *)
(* link is.  Requests run their statements one at a time and interleave.   *)
(* The module follows one address name; deleting and creating it again     *)
(* gives it another id, which AUTOINCREMENT never reuses.                  *)
(***************************************************************************)
EXTENDS Integers, FiniteSets

CONSTANTS
  Passwords,  \* passwords of the address
  NoPassword, \* a row without a password
  Requests,   \* invocations of the handlers; each runs once
  MaxId,      \* bound: how often the address is created
  MaxShares,  \* bound: how many share links are created
  OldExpiry   \* the expiry of the link that exists at first: "never" or "later"

ASSUME AddressAuthorityAssumption ==
  /\ Passwords # {}
  /\ NoPassword \notin Passwords
  /\ IsFiniteSet(Requests)
  /\ MaxId \in Nat \ {0}
  /\ MaxShares \in Nat \ {0}
  /\ OldExpiry \in {"never", "later"}

Ids    == 1..MaxId
Shares == 1..MaxShares
Absent == 0   \* the id of the address when it has no row; the address of no share

VARIABLES
  address,    \* the row of the address name
  lastId,     \* the last id given to an address
  chosen,     \* history: the password that was set last
  share,      \* address_share_tokens: id -> row
  lastShare,  \* the last id given to a share
  request     \* the local state of each handler

vars == <<address, lastId, chosen, share, lastShare, request>>

Address ==
  [id : Ids \cup {Absent},
   version : Nat \ {0},      \* credential_version
   password : Passwords \cup {NoPassword},  \* what the stored record verifies
   legacy : BOOLEAN]         \* the record is in a format that a login upgrades

Share ==
  [address : Ids \cup {Absent}, revoked : BOOLEAN, expiry : {"never", "later", "past"}]

Request ==
  [pc : {"idle", "upgrade", "update", "issue", "rotate", "find", "generate",
         "revoke", "insert", "done"},
   op : {"login", "change", "reset", "rotate", "show", "create", "share", "none"},
   id : Ids \cup {Absent},   \* the address it works on
   version : Nat,            \* the version it expects, or its token carries
   password : Passwords,     \* the password it verified or sets
   token : BOOLEAN,          \* it has answered with a JWT
   clobbers : BOOLEAN,       \* history: it replaced a password without a new version
   older : SUBSET Shares]    \* history: the links without expiry when it started

TypeOK ==
  /\ address \in Address
  /\ lastId \in Ids
  /\ address.id <= lastId
  /\ chosen \in Passwords \cup {NoPassword}
  /\ share \in [Shares -> Share]
  /\ lastShare \in 0..MaxShares
  /\ request \in [Requests -> Request]
  /\ \A r \in Requests : request[r].token => request[r].id # Absent /\ request[r].version > 0

\* The address exists and has a link, maybe from before links ceased to expire.
Init ==
  /\ \E p \in Passwords :
       /\ address = [id |-> 1, version |-> 1, password |-> p, legacy |-> TRUE]
       /\ chosen = p
       /\ request = [r \in Requests |->
            [pc |-> "idle", op |-> "none", id |-> Absent, version |-> 0,
             password |-> p, token |-> FALSE, clobbers |-> FALSE, older |-> {}]]
  /\ lastId = 1
  /\ share = [s \in Shares |->
       [address |-> IF s = 1 THEN 1 ELSE Absent, revoked |-> FALSE,
        expiry |-> IF s = 1 THEN OldExpiry ELSE "never"]]
  /\ lastShare = 1

\* Request r goes on as q.
Become(r, q) == request' = [request EXCEPT ![r] = q]

KeepAddress == UNCHANGED <<address, lastId, chosen>>
KeepShares  == UNCHANGED <<share, lastShare>>

\* validateAddressJwtPayload
Valid(id, version) == id # Absent /\ address.id = id /\ address.version = version

\* validateShareJwtPayload and findActiveShareToken
Active(s) ==
  /\ share[s].address # Absent
  /\ ~share[s].revoked
  /\ share[s].expiry # "past"
ShareValid(s) == Active(s) /\ share[s].address = address.id

-----------------------------------------------------------------------------
(***************************************************************************)
(* Login with the password of the address.                                 *)
(***************************************************************************)

\* The row is read and the password verified; nobody gets in with another one.
Login(r) ==
  LET q == request[r] IN
  /\ q.pc = "idle"
  /\ address.id # Absent
  /\ address.password # NoPassword
  /\ LET seen == [q EXCEPT !.op = "login", !.id = address.id,
                           !.version = address.version, !.password = address.password]
     IN Become(r, IF address.legacy THEN [seen EXCEPT !.pc = "upgrade"]
                  ELSE [seen EXCEPT !.pc = "done", !.token = TRUE])
  /\ KeepAddress /\ KeepShares

\* Mutant: the upgrade overwrites whatever record is there.
Upgrade_Overwrites(r) ==
  LET q == request[r] IN
  /\ q.pc = "upgrade"
  /\ address' = IF address.id = q.id
                THEN [address EXCEPT !.legacy = FALSE, !.password = q.password] ELSE address
  /\ Become(r, [q EXCEPT !.pc = "done", !.token = TRUE])
  /\ UNCHANGED <<lastId, chosen>> /\ KeepShares

\* The record is replaced if it is still the one that was read; the token carries
\* the version that was read with it.
Upgrade(r) ==
  LET q == request[r]
      same == address.id = q.id /\ address.legacy /\ address.password = q.password
  IN
  /\ q.pc = "upgrade"
  /\ address' = IF same THEN [address EXCEPT !.legacy = FALSE] ELSE address
  /\ Become(r, [q EXCEPT !.pc = "done", !.token = TRUE])
  /\ UNCHANGED <<lastId, chosen>> /\ KeepShares

-----------------------------------------------------------------------------
(***************************************************************************)
(* New passwords and rotations.                                            *)
(***************************************************************************)

\* Mutant: the version stays, and with it every token.
SetPassword_KeepsVersion(id, p) ==
  IF address.id = id
  THEN /\ \E legacy \in BOOLEAN :
            address' = [address EXCEPT !.password = p, !.legacy = legacy]
       /\ chosen' = p
  ELSE UNCHANGED <<address, chosen>>

\* UPDATE address SET password, credential_version + 1 WHERE id = ?  A client may
\* send a hash of the password, whose record the next login in plain text upgrades.
SetPassword(id, p) ==
  IF address.id = id
  THEN /\ \E legacy \in BOOLEAN :
            address' = [address EXCEPT !.password = p, !.legacy = legacy, !.version = @ + 1]
       /\ chosen' = p
  ELSE UNCHANGED <<address, chosen>>

\* The holder of a valid token asks for another password.
Change(r) ==
  LET q == request[r] IN
  /\ q.pc = "idle"
  /\ address.id # Absent
  /\ \E p \in Passwords :
       Become(r, [q EXCEPT !.pc = "update", !.op = "change", !.id = address.id, !.password = p])
  /\ KeepAddress /\ KeepShares

ChangeUpdate(r) ==
  LET q == request[r] IN
  /\ q.pc = "update"
  /\ SetPassword(q.id, q.password)
  /\ Become(r, [q EXCEPT !.pc = "issue"])
  /\ UNCHANGED lastId /\ KeepShares

\* issueAddressJwt reads the version again; 1 when the address is gone.
ChangeIssue(r) ==
  LET q == request[r] IN
  /\ q.pc = "issue"
  /\ Become(r, [q EXCEPT !.pc = "done", !.token = TRUE,
                         !.version = IF address.id = q.id THEN address.version ELSE 1])
  /\ KeepAddress /\ KeepShares

\* The administrator sets another password.
ResetPassword(r) ==
  LET q == request[r] IN
  /\ q.pc = "idle"
  /\ address.id # Absent
  /\ \E p \in Passwords :
       /\ SetPassword(address.id, p)
       /\ Become(r, [q EXCEPT !.pc = "done", !.op = "reset", !.password = p])
  /\ UNCHANGED lastId /\ KeepShares

\* The administrator's request names the version it has seen.
Rotate(r) ==
  LET q == request[r] IN
  /\ q.pc = "idle"
  /\ address.id # Absent
  /\ Become(r, [q EXCEPT !.pc = "rotate", !.op = "rotate", !.id = address.id,
                         !.version = address.version])
  /\ KeepAddress /\ KeepShares

\* The version is raised if it is the expected one, and the token carries it.
RotateUpdate(r) ==
  LET q == request[r] IN
  /\ q.pc = "rotate"
  /\ IF Valid(q.id, q.version)
     THEN /\ address' = [address EXCEPT !.version = @ + 1]
          /\ Become(r, [q EXCEPT !.pc = "done", !.token = TRUE, !.version = @ + 1])
     ELSE /\ UNCHANGED address
          /\ Become(r, [q EXCEPT !.pc = "done"])
  /\ UNCHANGED <<lastId, chosen>> /\ KeepShares

\* The credential is shown to the administrator or to a user the address is bound to.
ShowCredential(r) ==
  LET q == request[r] IN
  /\ q.pc = "idle"
  /\ address.id # Absent
  /\ Become(r, [q EXCEPT !.pc = "done", !.op = "show", !.id = address.id,
                         !.version = address.version, !.token = TRUE])
  /\ KeepAddress /\ KeepShares

-----------------------------------------------------------------------------
(***************************************************************************)
(* The life of the address.                                                *)
(***************************************************************************)

NextId == lastId + 1

\* newAddress: the name is UNIQUE.
Create(r) ==
  LET q == request[r] IN
  /\ q.pc = "idle"
  /\ address.id = Absent
  /\ NextId <= MaxId
  /\ address' = [id |-> NextId, version |-> 1, password |-> NoPassword, legacy |-> FALSE]
  /\ lastId' = NextId
  /\ chosen' = NoPassword
  /\ Become(r, [q EXCEPT !.pc = "find", !.op = "create"])
  /\ KeepShares

\* The id is looked up by the name.
CreateFind(r) ==
  LET q == request[r] IN
  /\ q.pc = "find"
  /\ Become(r, IF address.id = Absent THEN [q EXCEPT !.pc = "done"]
               ELSE [q EXCEPT !.pc = "generate", !.id = address.id])
  /\ KeepAddress /\ KeepShares

\* The generated password is stored by the name, and the version stays.
CreateGenerate(r) ==
  LET q == request[r] IN
  /\ q.pc = "generate"
  /\ \E p \in Passwords :
       IF address.id # Absent
       THEN /\ address' = [address EXCEPT !.password = p, !.legacy = FALSE]
            /\ chosen' = p
            /\ Become(r, [q EXCEPT !.pc = "issue", !.password = p,
                                   !.clobbers = address.password # NoPassword])
       ELSE /\ UNCHANGED <<address, chosen>>
            /\ Become(r, [q EXCEPT !.pc = "issue", !.password = p])
  /\ UNCHANGED lastId /\ KeepShares

\* The batch of deleteAddressLifecycle removes the row and its links.
DeleteAddress ==
  /\ address.id # Absent
  /\ address' = [address EXCEPT !.id = Absent]
  /\ share' = [s \in Shares |->
       IF share[s].address = address.id THEN [share[s] EXCEPT !.address = Absent] ELSE share[s]]
  /\ UNCHANGED <<lastId, chosen, lastShare, request>>

-----------------------------------------------------------------------------
(***************************************************************************)
(* Share links.                                                            *)
(***************************************************************************)

CreateShare(r) ==
  LET q == request[r] IN
  /\ q.pc = "idle"
  /\ address.id # Absent
  /\ Become(r, [q EXCEPT !.pc = "revoke", !.op = "share", !.id = address.id,
                         !.older = {s \in Shares : ShareValid(s) /\ share[s].expiry = "never"}])
  /\ KeepAddress /\ KeepShares

\* Mutant: a link without expiry is not replaced.
Replaces_Expiring(s, id) == Active(s) /\ share[s].address = id /\ share[s].expiry # "never"

\* The links that a new one replaces.
Replaces(s, id) == Active(s) /\ share[s].address = id

CreateShareRevoke(r) ==
  LET q == request[r] IN
  /\ q.pc = "revoke"
  /\ share' = [s \in Shares |->
       IF Replaces(s, q.id) THEN [share[s] EXCEPT !.revoked = TRUE] ELSE share[s]]
  /\ Become(r, [q EXCEPT !.pc = "insert"])
  /\ UNCHANGED lastShare /\ KeepAddress

CreateShareInsert(r) ==
  LET q == request[r] IN
  /\ q.pc = "insert"
  /\ lastShare < MaxShares
  /\ lastShare' = lastShare + 1
  /\ share' = [share EXCEPT ![lastShare + 1] =
       [address |-> q.id, revoked |-> FALSE, expiry |-> "never"]]
  /\ Become(r, [q EXCEPT !.pc = "done"])
  /\ KeepAddress

\* Mutant: an updated link is a fresh one.
UpdateShare_Revives(s) ==
  /\ share[s].address # Absent
  /\ share' = [share EXCEPT ![s].expiry = "never", ![s].revoked = FALSE]
  /\ UNCHANGED lastShare /\ KeepAddress /\ UNCHANGED request

\* The administrator updates a link: it no longer expires.
UpdateShare(s) ==
  /\ share[s].address # Absent
  /\ share' = [share EXCEPT ![s].expiry = "never"]
  /\ UNCHANGED lastShare /\ KeepAddress /\ UNCHANGED request

\* One link is revoked, or all of the address.
RevokeShares(revoked) ==
  /\ share' = [s \in Shares |->
       IF s \in revoked THEN [share[s] EXCEPT !.revoked = TRUE] ELSE share[s]]
  /\ UNCHANGED lastShare /\ KeepAddress /\ UNCHANGED request

Revoke ==
  \/ \E s \in Shares : share[s].address # Absent /\ RevokeShares({s})
  \/ /\ address.id # Absent
     /\ RevokeShares({s \in Shares : share[s].address = address.id})

\* The time of expiry passes.
Expire(s) ==
  /\ share[s].expiry = "later"
  /\ share' = [share EXCEPT ![s].expiry = "past"]
  /\ UNCHANGED lastShare /\ KeepAddress /\ UNCHANGED request

\* A statement fails without having been executed, or the runtime kills the handler.
Abandon(r) ==
  /\ request[r].pc \notin {"idle", "done"}
  /\ Become(r, [request[r] EXCEPT !.pc = "done", !.older = {}])
  /\ KeepAddress /\ KeepShares

Handle(r) ==
  \/ Login(r) \/ Upgrade(r)
  \/ Change(r) \/ ChangeUpdate(r) \/ ChangeIssue(r)
  \/ ResetPassword(r) \/ Rotate(r) \/ RotateUpdate(r) \/ ShowCredential(r)
  \/ Create(r) \/ CreateFind(r) \/ CreateGenerate(r)
  \/ CreateShare(r) \/ CreateShareRevoke(r) \/ CreateShareInsert(r)
  \/ Abandon(r)

Next ==
  \/ \E r \in Requests : Handle(r)
  \/ \E s \in Shares : UpdateShare(s) \/ Expire(s)
  \/ Revoke
  \/ DeleteAddress

Spec == Init /\ [][Next]_vars

-----------------------------------------------------------------------------
(***************************************************************************)
(* Properties.                                                             *)
(***************************************************************************)

TokenValid(r) == request[r].token /\ Valid(request[r].id, request[r].version)

\* A login that upgrades the format of the record, however late, never brings back
\* a password that was changed or reset in between.
PasswordIsLatest == address.id # Absent => address.password = chosen

\* Whoever is in by a login knows the current password: changing or resetting it
\* ends the sessions of all others, also of a login that is under way. The only
\* exception is a creation of the address that stores its generated password late.
LoginFresh ==
  \A r \in Requests : request[r].op = "login" /\ TokenValid(r) =>
    \/ request[r].password = address.password
    \/ \E c \in Requests : request[c].clobbers

\* Two rotations never both succeed from one version: the token each of them shows
\* replaces the other's.
RotatedOnce ==
  \A r, s \in Requests :
    /\ request[r].op = "rotate" /\ request[r].token
    /\ request[s].op = "rotate" /\ request[s].token
    /\ request[r].id = request[s].id
    /\ request[r].version = request[s].version
    => r = s

\* A new link replaces those that were in use when its creation began, for good.
OlderReplaced ==
  \A r \in Requests : request[r].op = "share" /\ request[r].pc = "done" =>
    \A s \in request[r].older : ~ShareValid(s)

\* Nothing that has been revoked is accepted again: no token of an earlier version
\* or of a deleted address, no revoked link, also when the same name comes back.
StaysRevoked ==
  [][/\ \A r \in Requests : request[r].token /\ ~TokenValid(r) => ~TokenValid(r)'
     /\ \A s \in Shares : s <= lastShare /\ share[s].expiry # "past" /\ ~ShareValid(s)
          => ~ShareValid(s)']_vars

\* share_tokens.ts says that one active administrator share is kept per address.
OneActiveShare ==
  \A s, t \in Shares : ShareValid(s) /\ ShareValid(t) => s = t

\* address_auth.ts says that changing the password signs out any other device.
ChangeSignsOut ==
  \A r \in Requests : request[r].op = "change" /\ TokenValid(r) =>
    request[r].password = address.password
=============================================================================
