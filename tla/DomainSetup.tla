---------------------------- MODULE DomainSetup ----------------------------
(***************************************************************************)
(* The administrator's configuration of one managed domain.                *)
(*                                                                         *)
(* A domain creates addresses only while it is active, and it becomes      *)
(* active when a mail sent to its verification address arrives.  Requests  *)
(* read the row, and write it under the condition that config_version is   *)
(* still the one they read; every write raises it.  The exceptions are the *)
(* import of the environment and the last writes of the Cloudflare setup,  *)
(* which comes back from its API calls with a row that may have changed.   *)
(***************************************************************************)
EXTENDS Integers, FiniteSets

CONSTANTS
  Modes,       \* the receive modes the administrator may choose
  Zones,       \* ids of Cloudflare zones
  NoZone,      \* no zone is configured
  EnvModes,    \* the receive mode the environment gives the domain, if it lists it
  Requests,    \* invocations of the handlers; each runs once
  MaxTokens,   \* bound: how many verifications are started
  MaxVersion   \* bound: the version that no request raises further

Statuses == {"draft", "pending_forwarding", "pending_verification", "active", "error",
             "disabled"}
NoToken  == 0

\* What the constants of an instance satisfy.
DomainSetupAssumption ==
  /\ Modes \subseteq {"cloudflare_email", "improvmx_forward", "manual"}
  /\ NoZone \notin Zones
  /\ Zones # {}
  /\ EnvModes \subseteq Modes
  /\ MaxTokens \in Nat
  /\ MaxVersion \in Nat \ {0}

VARIABLES
  row,        \* the row of managed_domains
  mail,       \* the tokens whose verification mail has arrived in time
  lastToken,  \* the tokens issued are 1..lastToken
  request     \* the local state of each handler

vars == <<row, mail, lastToken, request>>

\* "none": nothing, since an update configured it or the domain was disabled; "mail": a
\* verification mail has come in since it was configured; "kept": one had come in when a
\* Cloudflare setup configured it anew; "env": the environment lists the domain.
Grounds == {"none", "mail", "kept", "env"}

Row ==
  [enabled : BOOLEAN,
   mode : Modes,                                  \* receive_mode
   zone : Zones \cup {NoZone},                    \* cloudflare_zone_id
   creation : {"none", "allowed", "default"},     \* allow_address_creation, is_default
   status : Statuses,                             \* setup_status
   token : 0..MaxTokens,                          \* verification_token
   window : {"open", "over"},                     \* verification_expires_at
   version : 1..MaxVersion,                       \* config_version
   ground : Grounds,  \* history: what the way it receives has shown
   stale : BOOLEAN]   \* history: a setup wrote its outdated status or zone

Request ==
  [pc : {"idle", "update", "disable", "start", "check", "expire", "activate", "missing",
         "setup", "configure", "record", "finish", "done"},
   saw : Row,             \* the row it read
   zone : Zones \cup {NoZone},  \* the zone the setup has found
   own : 1..MaxVersion]   \* history: the version after its own last write

Checking == {"check", "expire", "activate", "missing"}

TypeOK ==
  /\ row \in Row
  /\ lastToken \in 0..MaxTokens
  /\ mail \subseteq 1..lastToken
  /\ row.token <= lastToken
  /\ request \in [Requests -> Request]
  /\ \A r \in Requests : request[r].pc \in Checking => request[r].saw.token # NoToken

\* What a request has read that has read nothing, or forgotten it.
Unread ==
  [enabled |-> FALSE, mode |-> CHOOSE m \in Modes : TRUE, zone |-> NoZone,
   creation |-> "none", status |-> "draft", token |-> NoToken, window |-> "over",
   version |-> 1, ground |-> "none", stale |-> FALSE]

\* The domain as the administrator creates it.
Init ==
  /\ \E enabled \in BOOLEAN, mode \in Modes, zone \in Zones \cup {NoZone} :
       /\ row = [enabled |-> enabled, mode |-> mode, zone |-> zone, creation |-> "none",
                 status |-> IF enabled THEN "draft" ELSE "disabled",
                 token |-> NoToken, window |-> "over", version |-> 1,
                 ground |-> "none", stale |-> FALSE]
       /\ request = [r \in Requests |->
            [pc |-> "idle", saw |-> Unread, zone |-> NoZone, own |-> 1]]
  /\ mail = {}
  /\ lastToken = 0

\* Request r goes on as q.
Become(r, q) == request' = [request EXCEPT ![r] = q]

\* Request r has answered; what it read is forgotten.
Finish(r) ==
  Become(r, [request[r] EXCEPT !.pc = "done", !.saw = Unread, !.zone = NoZone, !.own = 1])

\* The bound on config_version.
MayWrite == row.version < MaxVersion

-----------------------------------------------------------------------------
(***************************************************************************)
(* Requests read the row, and write it if it has the version they read.    *)
(***************************************************************************)

\* What the handlers check in the row before anything else.
Accepts(op) ==
  CASE op = "start" -> row.enabled
    [] op = "check" -> row.token # NoToken
    [] op = "setup" -> row.mode = "cloudflare_email"
    [] OTHER        -> TRUE

\* What requests look at again of the row they have read.
Noted == [row EXCEPT !.creation = "none", !.window = "over", !.ground = "none",
                     !.stale = FALSE]

Read(r) ==
  LET q == request[r] IN
  /\ q.pc = "idle"
  /\ \E op \in {"update", "disable", "start", "check", "setup"} :
       /\ Accepts(op)
       /\ Become(r, [q EXCEPT !.saw = Noted,
            !.pc = IF op = "check" /\ row.window = "over" THEN "expire" ELSE op])
  /\ UNCHANGED <<row, mail, lastToken>>

\* WHERE id = ? AND config_version = ?
Current(q) == row.version = q.saw.version

\* The end of a request that writes the row as "new" if it has not changed.
WriteIfCurrent(r, new) ==
  /\ MayWrite
  /\ row' = IF Current(request[r]) THEN [new EXCEPT !.version = @ + 1] ELSE row
  /\ Finish(r)

\* A domain that is enabled again, or receives its mail another way, starts over.
Unsettles(saw, enabled, mode, zone) ==
  \/ mode # saw.mode \/ zone # saw.zone
  \/ ~saw.enabled /\ enabled

StatusAfter(saw, enabled, mode, zone) ==
  IF ~enabled THEN "disabled"
  ELSE IF Unsettles(saw, enabled, mode, zone) THEN "draft" ELSE saw.status

\* Mutant: a verification that was started outlives the way the domain received.
Clears_DisabledOnly(saw, enabled, mode, zone) == ~enabled

\* The update ends a verification that was started.
Clears(saw, enabled, mode, zone) == ~enabled \/ Unsettles(saw, enabled, mode, zone)

MayCreate(enabled, status) == enabled /\ status = "active"

\* The receiving side is as it was.
StillProven(saw, enabled, mode, zone) ==
  saw.enabled /\ enabled /\ mode = saw.mode /\ zone = saw.zone

\* The row with the administrator's new settings.
Updated(saw, enabled, mode, zone, creation) ==
  LET clear == Clears(saw, enabled, mode, zone) IN
  [row EXCEPT !.enabled = enabled, !.mode = mode, !.zone = zone, !.creation = creation,
              !.status = StatusAfter(saw, enabled, mode, zone),
              !.token = IF clear THEN NoToken ELSE @,
              !.window = IF clear THEN "over" ELSE @,
              !.ground = IF StillProven(saw, enabled, mode, zone) THEN @ ELSE "none",
              !.stale = @ /\ ~clear]

\* PATCH of the domain.
Update(r) ==
  LET saw == request[r].saw IN
  /\ request[r].pc = "update"
  /\ \E enabled \in BOOLEAN, mode \in Modes, zone \in Zones \cup {NoZone},
        creation \in {"none", "allowed", "default"} :
       /\ creation # "none" => MayCreate(enabled, StatusAfter(saw, enabled, mode, zone))
       /\ WriteIfCurrent(r, Updated(saw, enabled, mode, zone, creation))
  /\ UNCHANGED <<mail, lastToken>>

\* Mutant: a verification that was started remains.
Disable_KeepsToken(r) ==
  /\ request[r].pc = "disable"
  /\ WriteIfCurrent(r,
       [row EXCEPT !.enabled = FALSE, !.creation = "none", !.status = "disabled",
                   !.ground = "none", !.stale = FALSE])
  /\ UNCHANGED <<mail, lastToken>>

Disable(r) ==
  /\ request[r].pc = "disable"
  /\ WriteIfCurrent(r,
       [row EXCEPT !.enabled = FALSE, !.creation = "none", !.status = "disabled",
                   !.token = NoToken, !.window = "over", !.ground = "none", !.stale = FALSE])
  /\ UNCHANGED <<mail, lastToken>>

-----------------------------------------------------------------------------
(***************************************************************************)
(* Verification.                                                           *)
(***************************************************************************)

\* A new token, valid for half an hour; an active domain stays active.
StartVerification(r) ==
  LET saw == request[r].saw IN
  /\ request[r].pc = "start"
  /\ lastToken < MaxTokens
  /\ lastToken' = lastToken + 1
  /\ WriteIfCurrent(r,
       [row EXCEPT !.token = lastToken + 1, !.window = "open",
                   !.status = IF saw.status = "active" THEN "active"
                              ELSE IF saw.mode = "improvmx_forward" THEN "pending_forwarding"
                              ELSE "pending_verification"])
  /\ UNCHANGED mail

\* The verification mail of the token arrives.
Arrive ==
  /\ row.token # NoToken
  /\ row.window = "open"
  /\ mail' = mail \cup {row.token}
  /\ row' = [row EXCEPT !.ground = "mail"]
  /\ UNCHANGED <<lastToken, request>>

\* The half hour is over.
Expire ==
  /\ row.window = "open"
  /\ row' = [row EXCEPT !.window = "over"]
  /\ UNCHANGED <<mail, lastToken, request>>

\* The check looks for the mail.
Look(r) ==
  LET q == request[r] IN
  /\ q.pc = "check"
  /\ Become(r, [q EXCEPT !.pc = IF q.saw.token \in mail THEN "activate" ELSE "missing"])
  /\ UNCHANGED <<row, mail, lastToken>>

Failed(status) == IF status = "active" THEN "active" ELSE "error"

CheckExpired(r) ==
  /\ request[r].pc = "expire"
  /\ WriteIfCurrent(r, [row EXCEPT !.status = Failed(@), !.token = NoToken])
  /\ UNCHANGED <<mail, lastToken>>

CheckMissing(r) ==
  /\ request[r].pc = "missing"
  /\ WriteIfCurrent(r, row)
  /\ UNCHANGED <<mail, lastToken>>

Activate(r) ==
  /\ request[r].pc = "activate"
  /\ WriteIfCurrent(r,
       [row EXCEPT !.status = "active", !.enabled = TRUE, !.token = NoToken,
                   !.stale = FALSE])
  /\ UNCHANGED <<mail, lastToken>>

-----------------------------------------------------------------------------
(***************************************************************************)
(* The Cloudflare setup and the import of the environment.                 *)
(***************************************************************************)

\* The setup configures the receiving side anew, and asks for no new mail.
Kept(ground) == IF ground = "none" THEN "none" ELSE "kept"

InZone(zone) ==
  [row EXCEPT !.zone = zone, !.ground = IF zone = row.zone THEN @ ELSE Kept(@)]

\* The setup has found the zone, and claims the version it has read.
ClaimSetup(r) ==
  LET q == request[r] IN
  /\ q.pc = "setup"
  /\ MayWrite
  /\ \E zone \in IF q.saw.zone = NoZone THEN Zones ELSE {q.saw.zone} :
       IF Current(q)
       THEN /\ row' = [InZone(zone) EXCEPT !.version = @ + 1]
            /\ Become(r, [q EXCEPT !.pc = "configure", !.zone = zone,
                                   !.own = row.version + 1])
       ELSE /\ UNCHANGED row
            /\ Finish(r)
  /\ UNCHANGED <<mail, lastToken>>

\* Somebody has written the row since the setup did.
Overtaken(q) == row.version # q.own

\* The calls of the API that enable the DNS records and update the catch-all rule, or
\* one of them; or both are right as they are.
Configure(r) ==
  LET q == request[r] IN
  /\ q.pc = "configure"
  /\ \/ /\ row' = [row EXCEPT !.ground = Kept(@)]
        /\ \E next \in {"record", "finish"} : Become(r, [q EXCEPT !.pc = next])
     \/ /\ UNCHANGED row
        /\ Become(r, [q EXCEPT !.pc = "finish"])
  /\ UNCHANGED <<mail, lastToken>>

\* The id of the updated rule is stored; WHERE id = ? only.
RecordRule(r) ==
  LET q == request[r] IN
  /\ q.pc = "record"
  /\ MayWrite
  /\ row' = [row EXCEPT !.version = @ + 1]
  /\ Become(r, [q EXCEPT !.pc = "finish",
                         !.own = IF Overtaken(q) THEN @ ELSE row.version + 1])
  /\ UNCHANGED <<mail, lastToken>>

\* The status is derived from the row that was read at first; WHERE id = ? only.
FinishSetup(r) ==
  LET q == request[r] IN
  /\ q.pc = "finish"
  /\ MayWrite
  /\ row' = [InZone(q.zone) EXCEPT !.version = @ + 1,
                        !.status = IF q.saw.status = "active" THEN "active"
                                   ELSE "pending_verification",
                        !.stale = @ \/ Overtaken(q)]
  /\ Finish(r)
  /\ UNCHANGED <<mail, lastToken>>

\* A call of the Cloudflare API fails; WHERE id = ? only.
FailSetup(r) ==
  LET q == request[r] IN
  /\ q.pc \in {"setup", "configure", "record", "finish"}
  /\ MayWrite
  /\ row' = [row EXCEPT !.status = Failed(@), !.version = @ + 1]
  /\ Finish(r)
  /\ UNCHANGED <<mail, lastToken>>

\* The import of a domain that the environment lists, with "overwrite".
ImportEnv ==
  /\ MayWrite
  /\ \E mode \in EnvModes, creation \in {"allowed", "default"} :
       row' = [row EXCEPT !.enabled = TRUE, !.mode = mode, !.creation = creation,
                          !.status = "active", !.version = @ + 1,
                          !.ground = "env", !.stale = FALSE]
  /\ UNCHANGED <<mail, lastToken, request>>

\* A statement fails, or the runtime kills the handler.
Abandon(r) ==
  /\ request[r].pc \notin {"idle", "done"}
  /\ Finish(r)
  /\ UNCHANGED <<row, mail, lastToken>>

Handle(r) ==
  \/ Read(r) \/ Update(r) \/ Disable(r)
  \/ StartVerification(r) \/ Look(r) \/ CheckExpired(r) \/ CheckMissing(r) \/ Activate(r)
  \/ ClaimSetup(r) \/ Configure(r) \/ RecordRule(r) \/ FinishSetup(r) \/ FailSetup(r)
  \/ Abandon(r)

Next ==
  \/ \E r \in Requests : Handle(r)
  \/ Arrive \/ Expire \/ ImportEnv

Spec == Init /\ [][Next]_vars

-----------------------------------------------------------------------------
(***************************************************************************)
(* Properties.                                                             *)
(***************************************************************************)

\* A domain is active only if a verification mail has come in since an update last
\* configured the way it receives or the domain was disabled, or the environment lists
\* it: a token of before activates nothing.  A Cloudflare setup configures the domain
\* without a new mail, and one that was overtaken may have written back the status.
ActiveIsProven == row.status = "active" => row.ground # "none" \/ row.stale

\* A domain that was disabled is enabled again only by an update that has seen it
\* disabled, or by an import: never by a check that was under way.
DisableHolds ==
  [][~row.enabled /\ row'.enabled =>
       \/ \E r \in Requests : /\ request[r].pc = "update" /\ request'[r].pc = "done"
                              /\ ~request[r].saw.enabled
       \/ UNCHANGED request]_vars
=============================================================================
