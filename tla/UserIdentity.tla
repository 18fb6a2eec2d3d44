---------------------------- MODULE UserIdentity ----------------------------
(***************************************************************************)
(* How a user gets in: the verification code of an email address, the      *)
(* registration that consumes it, the password, and the generation that    *)
(* the user's JWTs carry.                                                  *)
(*                                                                         *)
(* A JWT is valid as long as the user_info of the account has the          *)
(* generation it carries; the first JWT of an account creates one, and a   *)
(* reset of the password replaces it.  All of this happens one statement   *)
(* at a time.  The module follows one email address; the account may be    *)
(* deleted and come back, and then it has any id, also the same one.       *)
(***************************************************************************)
EXTENDS Integers, FiniteSets

CONSTANTS
  Passwords,  \* passwords of the account
  NoPassword, \* the account of a user who comes from an OAuth2 provider
  Requests,   \* invocations of the handlers; each runs once
  MaxId,      \* bound: user ids are 1..MaxId
  MaxGens,    \* bound: how many generations are drawn
  MaxCodes    \* bound: how many codes are drawn

\* What the constants of an instance satisfy.
UserIdentityAssumption ==
  /\ Passwords # {}
  /\ NoPassword \notin Passwords
  /\ MaxId \in Nat \ {0}
  /\ MaxGens \in Nat
  /\ MaxCodes \in Nat

Ids    == 1..MaxId
Absent == 0   \* the id when there is no account
None   == 0   \* no generation, or no code

VARIABLES
  user,       \* the row of users of the email address
  lastGen,    \* the generations drawn are 1..lastGen; a UUID is never drawn twice
  ended,      \* history: generations ended by a reset, a registration or a deletion
  challenge,  \* the row of user_verification_challenges of the email address
  lastCode,   \* the codes drawn are 1..lastCode
  spent,      \* history: the codes that were consumed or expired
  request     \* the local state of each handler

vars == <<user, lastGen, ended, challenge, lastCode, spent, request>>

User ==
  [id : Ids \cup {Absent},
   password : Passwords \cup {NoPassword},  \* what the stored record verifies
   legacy : BOOLEAN,                        \* the record is one that a login upgrades
   gen : 0..MaxGens]                        \* user_info.authGeneration

Challenge ==
  [code : 0..MaxCodes, consumed : BOOLEAN, expired : BOOLEAN]

Request ==
  [pc : {"idle", "send", "sent", "release", "register", "upgrade", "issue", "store",
         "reset", "done"},
   op : {"verify", "register", "login", "enter", "reset", "none"},
   code : 0..MaxCodes,       \* the code it drew, or consumed
   id : Ids \cup {Absent},   \* the account it works on
   password : Passwords,     \* the password it verified or sets
   gen : 0..MaxGens,         \* the generation its JWT carries
   token : BOOLEAN,          \* it has answered with a JWT
   late : BOOLEAN,           \* history: the password had changed when it got a generation
   raced : BOOLEAN]          \* history: it replaced a generation it had not seen

TypeOK ==
  /\ user \in User
  /\ lastGen \in 0..MaxGens
  /\ user.gen <= lastGen
  /\ ended \subseteq 1..lastGen
  /\ challenge \in Challenge
  /\ lastCode \in 0..MaxCodes
  /\ challenge.code <= lastCode
  /\ spent \subseteq 1..lastCode
  /\ request \in [Requests -> Request]
  /\ \A r \in Requests : request[r].token => request[r].gen # None

NoUser == [id |-> Absent, password |-> NoPassword, legacy |-> FALSE, gen |-> None]

\* An account from before passwords were stored in the present format, or none.
Init ==
  /\ \E id \in {Absent, 1}, p \in Passwords :
       /\ user = IF id = Absent THEN NoUser
                 ELSE [id |-> id, password |-> p, legacy |-> TRUE, gen |-> None]
       /\ request = [r \in Requests |->
            [pc |-> "idle", op |-> "none", code |-> None, id |-> Absent, password |-> p,
             gen |-> None, token |-> FALSE, late |-> FALSE, raced |-> FALSE]]
  /\ lastGen = 0
  /\ ended = {}
  /\ challenge = [code |-> None, consumed |-> FALSE, expired |-> FALSE]
  /\ lastCode = 0
  /\ spent = {}

\* Request r goes on as q.
Become(r, q) == request' = [request EXCEPT ![r] = q]

Exists     == user.id # Absent
KeepUser   == UNCHANGED <<user, lastGen, ended>>
KeepCodes  == UNCHANGED <<challenge, lastCode, spent>>

\* The generation of the account is replaced or lost.
EndGeneration == ended' = ended \cup ({user.gen} \ {None})

-----------------------------------------------------------------------------
(***************************************************************************)
(* Verification codes.                                                     *)
(***************************************************************************)

\* The condition of the upsert: no code, or one that is of no use any more.
Replaceable == challenge.code = None \/ challenge.consumed \/ challenge.expired

\* verifyCode reserves the code before it is sent.
Reserve(r) ==
  LET q == request[r] IN
  /\ q.pc = "idle"
  /\ lastCode < MaxCodes
  /\ Replaceable
  /\ lastCode' = lastCode + 1
  /\ challenge' = [code |-> lastCode + 1, consumed |-> FALSE, expired |-> FALSE]
  /\ Become(r, [q EXCEPT !.pc = "send", !.op = "verify", !.code = lastCode + 1])
  /\ UNCHANGED spent /\ KeepUser

\* The mail is sent, or sendMail throws.
Send(r) ==
  LET q == request[r] IN
  /\ q.pc = "send"
  /\ \E next \in {"sent", "release"} : Become(r, [q EXCEPT !.pc = next])
  /\ KeepUser /\ KeepCodes

\* Mutant: whatever code is there is removed.
Release_Any(r) ==
  LET q == request[r] IN
  /\ q.pc = "release"
  /\ challenge' = IF ~challenge.consumed THEN [challenge EXCEPT !.code = None] ELSE challenge
  /\ Become(r, [q EXCEPT !.pc = "done"])
  /\ UNCHANGED <<lastCode, spent>> /\ KeepUser

\* The reservation is removed if it is this request's and has not been consumed.
Release(r) ==
  LET q == request[r] IN
  /\ q.pc = "release"
  /\ challenge' = IF challenge.code = q.code /\ ~challenge.consumed
                  THEN [challenge EXCEPT !.code = None] ELSE challenge
  /\ Become(r, [q EXCEPT !.pc = "done"])
  /\ UNCHANGED <<lastCode, spent>> /\ KeepUser

\* Five minutes have passed.
ExpireCode ==
  /\ challenge.code # None
  /\ ~challenge.expired
  /\ challenge' = [challenge EXCEPT !.expired = TRUE]
  /\ spent' = spent \cup {challenge.code}
  /\ UNCHANGED <<lastCode, request>> /\ KeepUser

\* The condition of the UPDATE that consumes a code.
Usable(code) == challenge.code = code /\ ~challenge.consumed /\ ~challenge.expired

\* register with mail verification; a wrong code is refused.
Consume(r) ==
  LET q == request[r] IN
  /\ q.pc = "idle"
  /\ \E code \in 1..lastCode, p \in Passwords :
       /\ Usable(code)
       /\ Become(r, [q EXCEPT !.pc = "register", !.op = "register", !.code = code,
                              !.password = p])
  /\ challenge' = [challenge EXCEPT !.consumed = TRUE]
  /\ spent' = spent \cup {challenge.code}
  /\ UNCHANGED lastCode /\ KeepUser

-----------------------------------------------------------------------------
(***************************************************************************)
(* The account.                                                            *)
(***************************************************************************)

\* A new row has an id of its own, which a deleted user may have had.
CreateUser(p) ==
  /\ ~Exists
  /\ \E id \in Ids :
       user' = [id |-> id, password |-> p, legacy |-> FALSE, gen |-> None]
  /\ UNCHANGED ended

\* The upsert of register: it also replaces the user_info, generation included.
Register(r) ==
  LET q == request[r] IN
  /\ q.pc = "register"
  /\ \/ CreateUser(q.password)
     \/ /\ Exists
        /\ user' = [user EXCEPT !.password = q.password, !.legacy = FALSE, !.gen = None]
        /\ EndGeneration
  /\ Become(r, [q EXCEPT !.pc = "done"])
  /\ UNCHANGED lastGen /\ KeepCodes

\* The administrator or a registration without mail verification creates the account.
Insert ==
  /\ \E p \in Passwords : CreateUser(p)
  /\ UNCHANGED <<lastGen, request>> /\ KeepCodes

DeleteUser ==
  /\ Exists
  /\ EndGeneration
  /\ user' = NoUser
  /\ UNCHANGED <<lastGen, request>> /\ KeepCodes

\* The administrator's request has read the account.
AskReset(r) ==
  LET q == request[r] IN
  /\ q.pc = "idle"
  /\ Exists
  /\ \E p \in Passwords :
       Become(r, [q EXCEPT !.pc = "reset", !.op = "reset", !.id = user.id, !.password = p])
  /\ KeepUser /\ KeepCodes

\* The generation is a new UUID.
NextGen == lastGen + 1

\* Mutant: the generation is kept.
Reset_KeepsGeneration(r) ==
  LET q == request[r] IN
  /\ q.pc = "reset"
  /\ user' = IF user.id = q.id
             THEN [user EXCEPT !.password = q.password, !.legacy = FALSE] ELSE user
  /\ Become(r, [q EXCEPT !.pc = "done"])
  /\ UNCHANGED <<lastGen, ended>> /\ KeepCodes

\* UPDATE users SET password = ?, user_info = ? WHERE id = ?, with a new generation.
Reset(r) ==
  LET q == request[r] IN
  /\ q.pc = "reset"
  /\ lastGen < MaxGens
  /\ lastGen' = lastGen + 1
  /\ IF user.id = q.id
     THEN /\ user' = [user EXCEPT !.password = q.password, !.legacy = FALSE,
                                  !.gen = NextGen]
          /\ EndGeneration
     ELSE UNCHANGED <<user, ended>>
  /\ Become(r, [q EXCEPT !.pc = "done"])
  /\ KeepCodes

-----------------------------------------------------------------------------
(***************************************************************************)
(* Login.                                                                  *)
(***************************************************************************)

\* The row is read and the password verified.
Login(r) ==
  LET q == request[r] IN
  /\ q.pc = "idle"
  /\ Exists
  /\ user.password # NoPassword
  /\ Become(r, [q EXCEPT !.op = "login", !.id = user.id, !.password = user.password,
                         !.pc = IF user.legacy THEN "upgrade" ELSE "issue"])
  /\ KeepUser /\ KeepCodes

\* The record is replaced if it is still the one that was read; otherwise the login
\* is refused.
Upgrade(r) ==
  LET q == request[r]
      same == user.id = q.id /\ user.legacy /\ user.password = q.password
  IN
  /\ q.pc = "upgrade"
  /\ user' = IF same THEN [user EXCEPT !.legacy = FALSE] ELSE user
  /\ Become(r, [q EXCEPT !.pc = IF same THEN "issue" ELSE "done"])
  /\ UNCHANGED <<lastGen, ended>> /\ KeepCodes

\* Mutant: the user_info of an account that exists is replaced by the provider's.
Enter_ReplacesInfo(r) ==
  LET q == request[r] IN
  /\ q.pc = "idle"
  /\ Exists
  /\ user' = [user EXCEPT !.gen = None]
  /\ Become(r, [q EXCEPT !.op = "enter", !.id = user'.id, !.pc = "issue"])
  /\ UNCHANGED <<lastGen, ended>> /\ KeepCodes

\* A login by a passkey or an OAuth2 provider; the latter creates the account, without
\* a password, when there is none.
Enter(r) ==
  LET q == request[r] IN
  /\ q.pc = "idle"
  /\ \/ Exists /\ UNCHANGED user
     \/ /\ ~Exists
        /\ \E id \in Ids : user' = [id |-> id, password |-> NoPassword, legacy |-> FALSE,
                                    gen |-> None]
  /\ Become(r, [q EXCEPT !.op = "enter", !.id = user'.id, !.pc = "issue"])
  /\ UNCHANGED <<lastGen, ended>> /\ KeepCodes

\* The token is issued with generation g.
Issued(q, g) ==
  [q EXCEPT !.pc = "done", !.gen = g, !.token = TRUE,
            !.late = q.op = "login" /\ q.password # user.password]

\* issueUserJwt reads the row again: it takes the generation that is there.
Issue(r) ==
  LET q == request[r] IN
  /\ q.pc = "issue"
  /\ Become(r, IF user.id # q.id THEN [q EXCEPT !.pc = "done"]
               ELSE IF user.gen # None THEN Issued(q, user.gen)
               ELSE [q EXCEPT !.pc = "store"])
  /\ KeepUser /\ KeepCodes

\* The first generation is stored, whatever is there by now.
Store(r) ==
  LET q == request[r] IN
  /\ q.pc = "store"
  /\ lastGen < MaxGens
  /\ lastGen' = lastGen + 1
  /\ user' = IF user.id = q.id THEN [user EXCEPT !.gen = NextGen] ELSE user
  /\ Become(r, [Issued(q, NextGen) EXCEPT !.raced = user.id # q.id \/ user.gen # None])
  /\ UNCHANGED ended /\ KeepCodes

\* A statement fails, or the runtime kills the handler.
Abandon(r) ==
  /\ request[r].pc \notin {"idle", "sent", "done"}
  /\ Become(r, [request[r] EXCEPT !.pc = "done"])
  /\ KeepUser /\ KeepCodes

Handle(r) ==
  \/ Reserve(r) \/ Send(r) \/ Release(r) \/ Consume(r) \/ Register(r)
  \/ AskReset(r) \/ Reset(r)
  \/ Login(r) \/ Upgrade(r) \/ Enter(r) \/ Issue(r) \/ Store(r)
  \/ Abandon(r)

Next ==
  \/ \E r \in Requests : Handle(r)
  \/ ExpireCode \/ Insert \/ DeleteUser

Spec == Init /\ [][Next]_vars

-----------------------------------------------------------------------------
(***************************************************************************)
(* Properties.                                                             *)
(***************************************************************************)

\* validateUserJwtPayload
TokenValid(r) ==
  request[r].token /\ user.id = request[r].id /\ user.gen = request[r].gen

\* A code that has been sent works until it expires or is consumed: neither another
\* request for a code nor the failure of one takes it back.
SentCodeWorks ==
  \A r \in Requests : request[r].pc = "sent" =>
    request[r].code \in spent \/ Usable(request[r].code)

\* Whoever is in by a login knows the current password: a reset or a registration ends
\* every session that began with another one. The exception is a login that has
\* verified the old password and takes the generation after the change.
LoginIsCurrent ==
  \A r \in Requests : request[r].op = "login" /\ TokenValid(r) =>
    request[r].password = user.password \/ request[r].late

\* Nobody is signed out otherwise, except by another first login of the account that
\* raced to store the generation.
SignedInStays ==
  \A r \in Requests : request[r].token /\ ~TokenValid(r) =>
    request[r].gen \in ended \/ \E s \in Requests : request[s].raced
=============================================================================
