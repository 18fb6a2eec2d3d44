---------------------------- MODULE ServiceProofs ----------------------------
(***************************************************************************)
(* The proofs about the two parts of MCService.                            *)
(*                                                                         *)
(* DomainSetup, for any number of requests, zones, modes, verifications    *)
(* and versions: a request writes what it derives from the row it has      *)
(* read.  This is sound because every write raises config_version: at one  *)
(* version there is one row, but for the half hour of a verification.  The *)
(* inductive invariant says so for each request that is under way (Seen,   *)
(* Claimed), and that a verification is open only for an enabled domain.   *)
(*                                                                         *)
(* SchemaMigration, for any number of requests and any versions: a         *)
(* migration has behind it the effect of every statement that applied, and *)
(* no statement of another takes it back, but for the index of the         *)
(* authenticator tables, which whoever rebuilds these owes (Owes).         *)
(***************************************************************************)
EXTENDS MCService, TLAPS

\* A row that a request has seen is the current one, except for the time left.
Agrees(saw) ==
  /\ saw.enabled = row.enabled /\ saw.mode = row.mode /\ saw.zone = row.zone
  /\ saw.status = row.status /\ saw.token = row.token

\* What a request has read is the row, if it has the version.
Seen(q) ==
  q.pc \notin {"idle", "done"} =>
    /\ q.saw.version <= row.version
    /\ q.saw.version = row.version => Agrees(q.saw)

\* Until another write the status is the one the setup has read.
Claimed(q) ==
  q.pc \in {"configure", "record", "finish"} =>
    /\ q.own <= row.version
    /\ q.own = row.version => row.status = q.saw.status

\* What was required of the row that was read, and what has been found.
Admitted(q) ==
  /\ q.pc = "start" => q.saw.enabled
  /\ q.pc \in Checking => q.saw.token # NoToken
  /\ q.pc = "activate" => q.saw.token \in mail

OpenIfEnabled == row.token # NoToken => row.enabled

\* The mail of a verification that goes on is for the way the domain receives now.
MailIsGround == row.token \in mail => row.ground # "none"

RowOK ==
  /\ row \in Row
  /\ row.token <= lastToken
  /\ OpenIfEnabled
  /\ MailIsGround
  /\ ActiveIsProven

RequestOK(q) == Seen(q) /\ Claimed(q) /\ Admitted(q)

Config ==
  /\ TypeOK
  /\ RowOK
  /\ \A r \in Requests : RequestOK(request[r])

-----------------------------------------------------------------------------
(***************************************************************************)
(* One write of the row, one step of a request.                            *)
(***************************************************************************)

\* The row keeps its version and what requests may have seen of it, or gets the next
\* version.
Advances ==
  \/ row'.version = row.version + 1
  \/ row'.version = row.version /\ Agrees(row')

Enabling(r) ==
  request[r].pc = "update" /\ request'[r].pc = "done" /\ ~request[r].saw.enabled

Moves(r) == \E x \in Request : Become(r, x) /\ RequestOK(x)'

\* What each action of a request does.
Steps(r) ==
  /\ Moves(r) /\ Advances /\ RowOK'
  /\ lastToken' \in 0..MaxTokens /\ lastToken <= lastToken' /\ mail' = mail
  /\ ~row.enabled /\ row'.enabled => Enabling(r)

LEMMA Facts ==
  ASSUME DomainSetupAssumption, Config
  PROVE  /\ row \in Row /\ row.version \in 1..MaxVersion /\ MaxVersion \in Nat \ {0}
         /\ lastToken \in 0..MaxTokens /\ MaxTokens \in Nat /\ row.token \in Nat
         /\ mail \subseteq 1..lastToken
         /\ \A r \in Requests :
              /\ request[r] \in Request /\ request[r].saw \in Row /\ RequestOK(request[r])
              /\ request[r].saw.version \in Nat /\ request[r].own \in Nat
BY DEF Config, TypeOK, Row, Request, DomainSetupAssumption

LEMMA UnreadRow ==
  ASSUME DomainSetupAssumption, NEW mode \in Modes
  PROVE  Unread \in Row
<1>1. (CHOOSE m \in Modes : TRUE) \in Modes  OBVIOUS
<1>2. 1 \in 1..MaxVersion /\ NoToken \in 0..MaxTokens
  BY DEF DomainSetupAssumption, NoToken
<1> QED BY <1>1, <1>2 DEF Unread, Row, Statuses, Grounds

LEMMA FinishMoves ==
  ASSUME DomainSetupAssumption, Config, NEW r \in Requests, Finish(r)
  PROVE  Moves(r) /\ request'[r].pc = "done"
<1>1. PICK p \in Request : p = request[r]  BY Facts
<1> DEFINE x == [p EXCEPT !.pc = "done", !.saw = Unread, !.zone = NoZone, !.own = 1]
<1>2. Unread \in Row
  <2>1. row.mode \in Modes  BY Facts DEF Row
  <2> QED BY <2>1, UnreadRow
<1>3. Become(r, x)
  BY <1>1 DEF Finish
<1>4. x \in Request /\ x.pc = "done"
  <2>1. 1 \in 1..MaxVersion  BY Facts
  <2> QED BY <1>2, <2>1 DEF Request
<1> HIDE DEF x
<1>5. RequestOK(x)'
  BY <1>4 DEF RequestOK, Seen, Claimed, Admitted, Checking
<1>6. request'[r] = x  BY <1>3 DEF Become, Config, TypeOK
<1> QED BY <1>3, <1>4, <1>5, <1>6 DEF Moves

\* A write under the condition that the version is the one read.
LEMMA WriteSteps ==
  ASSUME DomainSetupAssumption, Config, NEW r \in Requests, NEW n \in Row,
         MayWrite, Finish(r),
         row' = IF Current(request[r]) THEN [n EXCEPT !.version = @ + 1] ELSE row,
         n.version = row.version,
         lastToken' \in 0..MaxTokens, lastToken <= lastToken', mail' = mail,
         Current(request[r]) =>
           /\ n.token <= lastToken'
           /\ n.token # NoToken => n.enabled
           /\ n.token \in mail => n.ground # "none"
           /\ n.status = "active" => n.ground # "none" \/ n.stale
           /\ ~row.enabled /\ n.enabled =>
                request[r].pc = "update" /\ ~request[r].saw.enabled
  PROVE  Steps(r)
<1>1. Moves(r) /\ request'[r].pc = "done"  BY FinishMoves
<1>2. CASE Current(request[r])
  <2>1. /\ row' \in Row /\ row'.version = row.version + 1
        /\ row'.token = n.token /\ row'.enabled = n.enabled /\ row'.status = n.status
        /\ row'.ground = n.ground /\ row'.stale = n.stale
    <3> DEFINE m == [n EXCEPT !.version = @ + 1]
    <3>1. n.version + 1 \in 1..MaxVersion  BY Facts DEF MayWrite
    <3>2. m \in Row  BY <3>1 DEF Row
    <3>3. /\ m.version = row.version + 1 /\ m.token = n.token /\ m.enabled = n.enabled
          /\ m.status = n.status /\ m.ground = n.ground /\ m.stale = n.stale
      BY DEF Row
    <3> QED BY <1>2, <3>2, <3>3
  <2>2. RowOK'  BY <1>2, <2>1 DEF RowOK, OpenIfEnabled, MailIsGround, ActiveIsProven
  <2>3. ~row.enabled /\ row'.enabled => Enabling(r)  BY <1>1, <1>2, <2>1 DEF Enabling
  <2> QED BY <1>1, <2>1, <2>2, <2>3 DEF Steps, Advances
<1>3. CASE ~Current(request[r])
  <2>1. row' = row  BY <1>3
  <2>2. RowOK'
    BY <2>1, Facts DEF Config, RowOK, OpenIfEnabled, MailIsGround, ActiveIsProven
  <2> QED BY <1>1, <2>1, <2>2 DEF Steps, Advances, Agrees
<1> QED BY <1>2, <1>3

\* A row that is still current has been seen as it is.
LEMMA SeenIsCurrent ==
  ASSUME DomainSetupAssumption, Config, NEW r \in Requests,
         request[r].pc \notin {"idle", "done"}, Current(request[r])
  PROVE  Agrees(request[r].saw)
BY Facts DEF RequestOK, Seen, Current

LEMMA ReadSteps ==
  ASSUME DomainSetupAssumption, Config, NEW r \in Requests, Read(r)
  PROVE  Steps(r)
<1>1. PICK p \in Request : p = request[r]  BY Facts
<1>2. PICK v \in Row : /\ v = Noted /\ v.version = row.version /\ Agrees(v)
                       /\ v.enabled = row.enabled /\ v.token = row.token
  <2>1. Noted \in Row  BY Facts DEF Noted, Row, Grounds
  <2>2. Noted.version = row.version /\ Agrees(Noted)  BY Facts DEF Noted, Row, Agrees
  <2> QED BY <2>1, <2>2 DEF Agrees
<1>3. PICK op \in {"update", "disable", "start", "check", "setup"} :
        /\ Accepts(op)
        /\ Become(r, [p EXCEPT !.saw = v,
             !.pc = IF op = "check" /\ row.window = "over" THEN "expire" ELSE op])
  BY <1>1, <1>2 DEF Read
<1>4. PICK pc \in {"update", "disable", "start", "check", "setup", "expire"} :
        pc = IF op = "check" /\ row.window = "over" THEN "expire" ELSE op
  OBVIOUS
<1> DEFINE x == [p EXCEPT !.saw = v, !.pc = pc]
<1>5. x \in Request /\ x.saw = v /\ x.pc = pc  BY DEF Request
<1>6. Become(r, x)  BY <1>3, <1>4
<1> HIDE DEF x
<1>7. UNCHANGED <<row, mail, lastToken>>  BY DEF Read
<1>8. Seen(x)'  BY <1>2, <1>5, <1>7, Facts DEF Seen, Agrees
<1>9. Claimed(x)'  BY <1>5 DEF Claimed
<1>10. Admitted(x)'
  BY <1>2, <1>3, <1>4, <1>5 DEF Admitted, Accepts, Checking
<1>11. RowOK'  BY <1>7 DEF Config, RowOK, OpenIfEnabled, MailIsGround, ActiveIsProven
<1> QED BY <1>5, <1>6, <1>7, <1>8, <1>9, <1>10, <1>11, Facts
        DEF Steps, Moves, RequestOK, Advances, Agrees

LEMMA UpdateSteps ==
  ASSUME DomainSetupAssumption, Config, NEW r \in Requests, Update(r)
  PROVE  Steps(r)
<1> DEFINE saw == request[r].saw
<1>1. saw \in Row  BY Facts
<1>2. PICK enabled \in BOOLEAN, mode \in Modes, zone \in Zones \cup {NoZone},
           creation \in {"none", "allowed", "default"} :
        WriteIfCurrent(r, Updated(saw, enabled, mode, zone, creation))
  BY DEF Update
<1> HIDE DEF saw
<1>3. request[r].pc = "update" /\ UNCHANGED <<mail, lastToken>>  BY DEF Update
<1>4. PICK status \in Statuses : status = StatusAfter(saw, enabled, mode, zone)
  <2>1. saw.status \in Statuses  BY <1>1 DEF Row
  <2> QED BY <2>1 DEF StatusAfter, Statuses
<1>5. PICK clear \in BOOLEAN : clear = (~enabled \/ Unsettles(saw, enabled, mode, zone))
  BY DEF Unsettles
<1>6. PICK still \in BOOLEAN : still = StillProven(saw, enabled, mode, zone)
  BY DEF StillProven
<1> DEFINE m == [row EXCEPT !.enabled = enabled, !.mode = mode, !.zone = zone,
                   !.creation = creation, !.status = status,
                   !.token = IF clear THEN NoToken ELSE @,
                   !.window = IF clear THEN "over" ELSE @,
                   !.ground = IF still THEN @ ELSE "none", !.stale = @ /\ ~clear]
<1>7. WriteIfCurrent(r, m)
  <2>1. Updated(saw, enabled, mode, zone, creation) = m
    BY <1>4, <1>5, <1>6 DEF Updated, Clears
  <2> QED BY <1>2, <2>1
<1>8. /\ m \in Row
      /\ m.version = row.version /\ m.enabled = enabled /\ m.status = status
      /\ m.token = IF clear THEN NoToken ELSE row.token
      /\ m.ground = (IF still THEN row.ground ELSE "none")
      /\ m.stale = (row.stale /\ ~clear)
  <2>1. row \in Row /\ NoToken \in 0..MaxTokens  BY Facts DEF NoToken
  <2>2. PICK t \in 0..MaxTokens : t = IF clear THEN NoToken ELSE row.token
    BY <2>1 DEF Row
  <2>3. PICK w \in {"open", "over"} : w = IF clear THEN "over" ELSE row.window
    BY <2>1 DEF Row
  <2>4. PICK g \in Grounds, c \in BOOLEAN :
          g = (IF still THEN row.ground ELSE "none") /\ c = (row.stale /\ ~clear)
    BY <2>1 DEF Row, Grounds
  <2>5. m = [row EXCEPT !.enabled = enabled, !.mode = mode, !.zone = zone,
               !.creation = creation, !.status = status, !.token = t, !.window = w,
               !.ground = g, !.stale = c]
    BY <2>2, <2>3, <2>4
  <2> HIDE DEF m
  <2>6. m \in Row  BY <2>1, <2>5 DEF Row
  <2>7. /\ m.version = row.version /\ m.enabled = enabled /\ m.status = status
        /\ m.token = t /\ m.ground = g /\ m.stale = c
    BY <2>1, <2>5 DEF Row
  <2> QED BY <2>2, <2>4, <2>6, <2>7
<1> HIDE DEF m
<1>9. PICK n \in Row : n = m  BY <1>8
<1>10. ASSUME Current(request[r])
       PROVE  /\ n.token <= lastToken
              /\ n.token # NoToken => n.enabled
              /\ n.token \in mail => n.ground # "none"
              /\ n.status = "active" => n.ground # "none" \/ n.stale
              /\ ~row.enabled /\ n.enabled => ~saw.enabled
  <2>1. Agrees(saw)  BY <1>3, <1>10, SeenIsCurrent DEF saw
  <2>2. n.token <= lastToken  BY <1>8, <1>9, Facts DEF NoToken, Config, RowOK
  <2>3. n.token # NoToken => n.enabled  BY <1>5, <1>8, <1>9
  <2>4. ASSUME n.status = "active"  PROVE n.ground # "none" \/ n.stale
    <3>1. enabled /\ ~Unsettles(saw, enabled, mode, zone) /\ saw.status = "active"
      BY <1>4, <1>8, <1>9, <2>4 DEF StatusAfter
    <3>2. still /\ ~clear  BY <1>5, <1>6, <3>1 DEF Unsettles, StillProven
    <3>3. row.ground # "none" \/ row.stale
      BY <2>1, <3>1 DEF Agrees, Config, RowOK, ActiveIsProven
    <3> QED BY <1>8, <1>9, <3>2, <3>3
  <2>5. ASSUME n.token \in mail  PROVE n.ground # "none"
    <3>1. n.token # NoToken  BY <2>5, Facts DEF NoToken
    <3>2. ~clear /\ n.token = row.token  BY <1>8, <1>9, <3>1
    <3>3. still  BY <1>5, <1>6, <3>2 DEF Unsettles, StillProven
    <3>4. row.ground # "none"  BY <2>5, <3>2 DEF Config, RowOK, MailIsGround
    <3> QED BY <1>8, <1>9, <3>3, <3>4
  <2> QED BY <2>1, <2>2, <2>3, <2>4, <2>5 DEF Agrees
<1>11. /\ MayWrite /\ Finish(r)
       /\ row' = IF Current(request[r]) THEN [n EXCEPT !.version = @ + 1] ELSE row
  BY <1>7, <1>9 DEF WriteIfCurrent
<1> QED BY <1>3, <1>8, <1>9, <1>10, <1>11, Facts, WriteSteps DEF saw

LEMMA DisableSteps ==
  ASSUME DomainSetupAssumption, Config, NEW r \in Requests, Disable(r)
  PROVE  Steps(r)
<1> DEFINE m == [row EXCEPT !.enabled = FALSE, !.creation = "none", !.status = "disabled",
                   !.token = NoToken, !.window = "over", !.ground = "none", !.stale = FALSE]
<1>1. WriteIfCurrent(r, m) /\ UNCHANGED <<mail, lastToken>>  BY DEF Disable
<1>2. m \in Row /\ m.version = row.version /\ m.token = NoToken /\ ~m.enabled
      /\ m.status = "disabled"
  <2>1. /\ row \in Row /\ NoToken \in 0..MaxTokens /\ "disabled" \in Statuses
        /\ "none" \in Grounds
    BY Facts DEF NoToken, Statuses, Grounds
  <2> QED BY <2>1 DEF Row
<1> HIDE DEF m
<1>3. PICK n \in Row : n = m  BY <1>2
<1>4. /\ MayWrite /\ Finish(r)
      /\ row' = IF Current(request[r]) THEN [n EXCEPT !.version = @ + 1] ELSE row
  BY <1>1, <1>3 DEF WriteIfCurrent
<1> QED BY <1>1, <1>2, <1>3, <1>4, Facts, WriteSteps DEF NoToken

LEMMA StartSteps ==
  ASSUME DomainSetupAssumption, Config, NEW r \in Requests, StartVerification(r)
  PROVE  Steps(r)
<1>1. request[r].pc = "start" /\ lastToken < MaxTokens /\ lastToken' = lastToken + 1
      /\ mail' = mail
  BY DEF StartVerification
<1>2. PICK status \in Statuses :
        status = IF request[r].saw.status = "active" THEN "active"
                 ELSE IF request[r].saw.mode = "improvmx_forward" THEN "pending_forwarding"
                 ELSE "pending_verification"
  BY DEF Statuses
<1>3. lastToken + 1 \in 0..MaxTokens  BY <1>1, Facts
<1> DEFINE m == [row EXCEPT !.token = lastToken + 1, !.window = "open", !.status = status]
<1>4. WriteIfCurrent(r, m)  BY <1>2 DEF StartVerification
<1>5. /\ m \in Row /\ m.version = row.version /\ m.token = lastToken + 1
      /\ m.status = status /\ m.enabled = row.enabled /\ m.ground = row.ground
      /\ m.stale = row.stale
  BY <1>3, Facts DEF Row
<1> HIDE DEF m
<1>6. PICK n \in Row : n = m  BY <1>5
<1>7. /\ MayWrite /\ Finish(r)
      /\ row' = IF Current(request[r]) THEN [n EXCEPT !.version = @ + 1] ELSE row
  BY <1>4, <1>6 DEF WriteIfCurrent
<1>8. ASSUME Current(request[r])
      PROVE  /\ n.enabled
             /\ n.token \notin mail
             /\ n.status = "active" => n.ground # "none" \/ n.stale
  <2>1. Agrees(request[r].saw)  BY <1>1, <1>8, SeenIsCurrent
  <2>2. request[r].saw.enabled  BY <1>1, Facts DEF RequestOK, Admitted
  <2>3. lastToken + 1 \notin mail  BY Facts
  <2> QED BY <1>2, <1>5, <1>6, <2>1, <2>2, <2>3 DEF Agrees, Config, RowOK, ActiveIsProven
<1> QED BY <1>1, <1>3, <1>5, <1>6, <1>7, <1>8, Facts, WriteSteps

LEMMA CheckSteps ==
  ASSUME DomainSetupAssumption, Config, NEW r \in Requests,
         CheckExpired(r) \/ CheckMissing(r)
  PROVE  Steps(r)
<1>1. PICK status \in Statuses, t \in 0..MaxTokens :
        /\ WriteIfCurrent(r, [row EXCEPT !.status = status, !.token = t])
        /\ status = "active" <=> row.status = "active"
        /\ t \in {row.token, NoToken}
  <2>1. CASE CheckExpired(r)
    <3>1. Failed(row.status) \in Statuses /\ NoToken \in 0..MaxTokens
      BY Facts DEF Failed, Statuses, NoToken
    <3>2. Failed(row.status) = "active" <=> row.status = "active"  BY DEF Failed
    <3>3. WriteIfCurrent(r, [row EXCEPT !.status = Failed(row.status), !.token = NoToken])
      BY <2>1 DEF CheckExpired
    <3> QED BY <3>1, <3>2, <3>3
  <2>2. CASE CheckMissing(r)
    <3>1. row = [row EXCEPT !.status = row.status, !.token = row.token]  BY Facts DEF Row
    <3>2. WriteIfCurrent(r, [row EXCEPT !.status = row.status, !.token = row.token])
      BY <2>2, <3>1 DEF CheckMissing
    <3> QED BY <3>2, Facts DEF Row
  <2> QED BY <2>1, <2>2
<1>2. UNCHANGED <<mail, lastToken>>  BY DEF CheckExpired, CheckMissing
<1> DEFINE m == [row EXCEPT !.status = status, !.token = t]
<1>3. /\ m \in Row /\ m.version = row.version /\ m.token = t /\ m.status = status
      /\ m.enabled = row.enabled /\ m.ground = row.ground /\ m.stale = row.stale
  BY Facts DEF Row
<1> HIDE DEF m
<1>4. PICK n \in Row : n = m  BY <1>3
<1>5. /\ MayWrite /\ Finish(r)
      /\ row' = IF Current(request[r]) THEN [n EXCEPT !.version = @ + 1] ELSE row
  BY <1>1, <1>4 DEF WriteIfCurrent, m
<1>6. /\ n.token <= lastToken
      /\ n.token # NoToken => n.enabled
      /\ n.token \in mail => n.ground # "none"
      /\ n.status = "active" => n.ground # "none" \/ n.stale
  BY <1>1, <1>3, <1>4, Facts DEF Config, RowOK, OpenIfEnabled, MailIsGround, ActiveIsProven, NoToken
<1> QED BY <1>2, <1>3, <1>4, <1>5, <1>6, Facts, WriteSteps

\* A domain that was disabled while its check was under way has lost the token.
LEMMA ActivateSteps ==
  ASSUME DomainSetupAssumption, Config, NEW r \in Requests, Activate(r)
  PROVE  Steps(r)
<1> DEFINE m == [row EXCEPT !.status = "active", !.enabled = TRUE, !.token = NoToken,
                   !.stale = FALSE]
<1>1. WriteIfCurrent(r, m) /\ UNCHANGED <<mail, lastToken>> /\ request[r].pc = "activate"
  BY DEF Activate
<1>2. m \in Row /\ m.version = row.version /\ m.token = NoToken /\ m.ground = row.ground
  <2>1. row \in Row /\ NoToken \in 0..MaxTokens /\ "active" \in Statuses
    BY Facts DEF NoToken, Statuses
  <2> QED BY <2>1 DEF Row
<1> HIDE DEF m
<1>3. PICK n \in Row : n = m  BY <1>2
<1>4. /\ MayWrite /\ Finish(r)
      /\ row' = IF Current(request[r]) THEN [n EXCEPT !.version = @ + 1] ELSE row
  BY <1>1, <1>3 DEF WriteIfCurrent
<1>5. ASSUME Current(request[r])  PROVE row.enabled /\ row.ground # "none"
  <2>1. Agrees(request[r].saw)  BY <1>1, <1>5, SeenIsCurrent
  <2>2. request[r].saw.token # NoToken  BY <1>1, Facts DEF RequestOK, Admitted, Checking
  <2>3. request[r].saw.token \in mail  BY <1>1, Facts DEF RequestOK, Admitted
  <2> QED BY <2>1, <2>2, <2>3 DEF Agrees, Config, RowOK, OpenIfEnabled, MailIsGround
<1> QED BY <1>1, <1>2, <1>3, <1>4, <1>5, Facts, WriteSteps DEF NoToken

LEMMA LookSteps ==
  ASSUME DomainSetupAssumption, Config, NEW r \in Requests,
         Look(r) \/ Abandon(r)
  PROVE  Steps(r)
<1>1. UNCHANGED <<row, mail, lastToken>>  BY DEF Look, Abandon
<1>2. RowOK' /\ Advances
  BY <1>1, Facts DEF Config, RowOK, OpenIfEnabled, MailIsGround, ActiveIsProven, Advances, Agrees
<1>3. Moves(r)
  <2>1. CASE Look(r)
    <3>1. PICK p \in Request : p = request[r]  BY Facts
    <3>2. PICK pc \in {"activate", "missing"} :
            /\ pc = IF p.saw.token \in mail THEN "activate" ELSE "missing"
            /\ pc = "activate" => p.saw.token \in mail
      OBVIOUS
    <3> DEFINE x == [p EXCEPT !.pc = pc]
    <3>3. x \in Request /\ x.pc = pc /\ x.saw = p.saw  BY DEF Request
    <3>4. Become(r, x) /\ p.pc = "check"  BY <2>1, <3>1, <3>2 DEF Look
    <3> HIDE DEF x
    <3>5. RequestOK(p)  BY <3>1, Facts
    <3>6. RequestOK(x)'
      BY <1>1, <3>2, <3>3, <3>4, <3>5
         DEF RequestOK, Seen, Claimed, Admitted, Agrees, Checking
    <3> QED BY <3>3, <3>4, <3>6 DEF Moves
  <2>2. CASE Abandon(r)  BY <2>2, FinishMoves DEF Abandon
  <2> QED BY <2>1, <2>2
<1> QED BY <1>1, <1>2, <1>3, Facts DEF Steps

LEMMA InZoneRow ==
  ASSUME DomainSetupAssumption, Config, NEW z \in Zones \cup {NoZone}
  PROVE  /\ InZone(z) \in Row /\ InZone(z).version = row.version
         /\ InZone(z).token = row.token /\ InZone(z).enabled = row.enabled
         /\ InZone(z).status = row.status /\ InZone(z).stale = row.stale
         /\ InZone(z).ground = "none" <=> row.ground = "none"
<1>1. PICK g \in Grounds : /\ g = IF z = row.zone THEN row.ground ELSE Kept(row.ground)
                           /\ g = "none" <=> row.ground = "none"
  BY Facts DEF Row, Kept, Grounds
<1>2. InZone(z) = [row EXCEPT !.zone = z, !.ground = g]  BY <1>1 DEF InZone
<1> QED BY <1>1, <1>2, Facts DEF Row

LEMMA ClaimSteps ==
  ASSUME DomainSetupAssumption, Config, NEW r \in Requests, ClaimSetup(r)
  PROVE  Steps(r)
<1>1. PICK p \in Request : p = request[r]  BY Facts
<1>2. p.pc = "setup" /\ MayWrite /\ UNCHANGED <<mail, lastToken>>
  BY <1>1 DEF ClaimSetup
<1>3. PICK z \in Zones \cup {NoZone} :
        IF Current(p)
        THEN /\ row' = [InZone(z) EXCEPT !.version = @ + 1]
             /\ Become(r, [p EXCEPT !.pc = "configure", !.zone = z,
                                    !.own = row.version + 1])
        ELSE /\ UNCHANGED row
             /\ Finish(r)
  BY <1>1 DEF ClaimSetup, Request, Row
<1>4. CASE Current(p)
  <2>1. row.version + 1 \in 1..MaxVersion  BY <1>2, Facts DEF MayWrite
  <2>2. /\ row' \in Row /\ row'.version = row.version + 1 /\ row'.token = row.token
        /\ row'.enabled = row.enabled /\ row'.status = row.status
        /\ row'.ground = "none" <=> row.ground = "none"
        /\ row'.stale = row.stale
    BY <1>3, <1>4, <2>1, InZoneRow DEF Row
  <2>3. RowOK'  BY <1>2, <2>2 DEF Config, RowOK, OpenIfEnabled, MailIsGround, ActiveIsProven
  <2>4. PICK v \in 1..MaxVersion : v = row.version + 1  BY <2>1
  <2> DEFINE x == [p EXCEPT !.pc = "configure", !.zone = z, !.own = v]
  <2>5. x \in Request /\ x.pc = "configure" /\ x.own = v /\ x.saw = p.saw  BY DEF Request
  <2>6. Become(r, x)  BY <1>3, <1>4, <2>4
  <2> HIDE DEF x
  <2>7. Agrees(p.saw)  BY <1>1, <1>2, <1>4, SeenIsCurrent
  <2>8. RequestOK(x)'
    <3>1. Seen(x)'  BY <1>4, <2>2, <2>5, Facts DEF Seen, Current
    <3>2. Claimed(x)'  BY <2>2, <2>4, <2>5, <2>7 DEF Claimed, Agrees
    <3> QED BY <2>5, <3>1, <3>2 DEF RequestOK, Admitted, Checking
  <2> QED BY <1>2, <2>2, <2>3, <2>5, <2>6, <2>8, Facts DEF Steps, Moves, Advances
<1>5. CASE ~Current(p)
  <2>1. row' = row /\ Finish(r)  BY <1>3, <1>5
  <2>2. RowOK'  BY <1>2, <2>1 DEF Config, RowOK, OpenIfEnabled, MailIsGround, ActiveIsProven
  <2> QED BY <1>2, <2>1, <2>2, FinishMoves, Facts DEF Steps, Advances, Agrees
<1> QED BY <1>4, <1>5

\* The setup goes on, with what it has written last.
LEMMA SetupMoves ==
  ASSUME DomainSetupAssumption, Config, NEW r \in Requests, NEW p \in Request,
         p = request[r], p.pc \in {"configure", "record"},
         NEW pc \in {"record", "finish"}, NEW o \in 1..MaxVersion,
         Become(r, [p EXCEPT !.pc = pc, !.own = o]),
         RowOK', Advances, ~row.enabled => ~row'.enabled, row'.status = row.status,
         \/ row'.version = row.version /\ o = p.own
         \/ /\ row'.version = row.version + 1
            /\ o = IF Overtaken(p) THEN p.own ELSE row.version + 1,
         UNCHANGED <<mail, lastToken>>
  PROVE  Steps(r)
<1> DEFINE x == [p EXCEPT !.pc = pc, !.own = o]
<1>1. x \in Request /\ x.pc = pc /\ x.own = o /\ x.saw = p.saw  BY DEF Request
<1>2. Become(r, x)  OBVIOUS
<1> HIDE DEF x
<1>3. RequestOK(p) /\ p.saw.version \in Nat /\ p.own \in 1..MaxVersion
  BY Facts DEF Request
<1>4. Seen(x)'
  BY <1>1, <1>3, Facts DEF RequestOK, Seen, Advances, Agrees
<1>5. Claimed(x)'
  BY <1>1, <1>3, Facts DEF RequestOK, Claimed, Overtaken
<1>6. RequestOK(x)'  BY <1>1, <1>4, <1>5 DEF RequestOK, Admitted, Checking
<1> QED BY <1>1, <1>2, <1>6, Facts DEF Steps, Moves

\* The setup stores the id of the rule.
LEMMA RecordSteps ==
  ASSUME DomainSetupAssumption, Config, NEW r \in Requests, RecordRule(r)
  PROVE  Steps(r)
<1>1. PICK p \in Request : p = request[r]  BY Facts
<1>2. /\ p.pc = "record" /\ MayWrite /\ row' = [row EXCEPT !.version = @ + 1]
      /\ Become(r, [p EXCEPT !.pc = "finish",
                             !.own = IF Overtaken(p) THEN @ ELSE row.version + 1])
      /\ UNCHANGED <<mail, lastToken>>
  BY <1>1 DEF RecordRule
<1>3. row.version + 1 \in 1..MaxVersion  BY <1>2, Facts DEF MayWrite
<1>4. PICK o \in 1..MaxVersion : o = IF Overtaken(p) THEN p.own ELSE row.version + 1
  BY <1>3 DEF Request
<1>5. /\ row' \in Row /\ row'.version = row.version + 1 /\ row'.token = row.token
      /\ row'.enabled = row.enabled /\ row'.status = row.status
      /\ row'.ground = row.ground /\ row'.stale = row.stale
  BY <1>2, <1>3, Facts DEF Row
<1>6. RowOK'  BY <1>2, <1>5 DEF Config, RowOK, OpenIfEnabled, MailIsGround, ActiveIsProven
<1>7. Become(r, [p EXCEPT !.pc = "finish", !.own = o])  BY <1>2, <1>4
<1> QED BY <1>1, <1>2, <1>4, <1>5, <1>6, <1>7, SetupMoves DEF Advances

\* The calls of the Cloudflare API write nothing to the row.
LEMMA ConfigureSteps ==
  ASSUME DomainSetupAssumption, Config, NEW r \in Requests, Configure(r)
  PROVE  Steps(r)
<1>1. PICK p \in Request : p = request[r]  BY Facts
<1>2. p.pc = "configure" /\ UNCHANGED <<mail, lastToken>>  BY <1>1 DEF Configure
<1>3. PICK pc \in {"record", "finish"} :
        /\ row' = row \/ row' = [row EXCEPT !.ground = Kept(@)]
        /\ Become(r, [p EXCEPT !.pc = pc])
  BY <1>1 DEF Configure
<1>4. PICK g \in Grounds : g = Kept(row.ground) /\ (g = "none" <=> row.ground = "none")
  BY Facts DEF Kept, Row, Grounds
<1>5. /\ row' \in Row /\ row'.version = row.version /\ row'.token = row.token
      /\ row'.enabled = row.enabled /\ row'.status = row.status
      /\ row'.ground = "none" <=> row.ground = "none"
      /\ row'.stale = row.stale /\ Agrees(row')
  <2>1. CASE row' = row  BY <2>1, Facts DEF Agrees
  <2>2. CASE row' = [row EXCEPT !.ground = Kept(@)]
    BY <1>4, <2>2, Facts DEF Row, Agrees
  <2> QED BY <1>3, <2>1, <2>2
<1>6. RowOK'  BY <1>2, <1>5 DEF Config, RowOK, OpenIfEnabled, MailIsGround, ActiveIsProven
<1>7. p.own \in 1..MaxVersion /\ [p EXCEPT !.pc = pc] = [p EXCEPT !.pc = pc, !.own = p.own]
  BY DEF Request
<1> QED BY <1>1, <1>2, <1>3, <1>5, <1>6, <1>7, SetupMoves DEF Advances

LEMMA SetupSteps ==
  ASSUME DomainSetupAssumption, Config, NEW r \in Requests,
         FinishSetup(r) \/ FailSetup(r)
  PROVE  Steps(r)
<1>1. PICK p \in Request : p = request[r]  BY Facts
<1>2. MayWrite /\ Finish(r) /\ UNCHANGED <<mail, lastToken>>
  BY DEF FinishSetup, FailSetup
<1>3. row.version + 1 \in 1..MaxVersion  BY <1>2, Facts DEF MayWrite
<1>4. /\ row' \in Row /\ row'.version = row.version + 1 /\ row'.token = row.token
      /\ row'.enabled = row.enabled
      /\ row'.ground = "none" <=> row.ground = "none"
      /\ row'.status = "active" => row'.ground # "none" \/ row'.stale
  <2>1. CASE FinishSetup(r)
    <3>1. PICK status \in Statuses : status = IF p.saw.status = "active" THEN "active"
                                              ELSE "pending_verification"
      BY DEF Statuses
    <3>2. PICK b \in BOOLEAN : b = (row.stale \/ Overtaken(p))
      BY Facts DEF Overtaken, Row
    <3> DEFINE n == InZone(p.zone)
               m == [n EXCEPT !.version = @ + 1, !.status = status, !.stale = b]
    <3>0. p.zone \in Zones \cup {NoZone}  BY DEF Request
    <3>3. row' = m
      <4>1. n.stale = row.stale  BY <3>0, InZoneRow
      <4>2. row' = [n EXCEPT !.version = @ + 1, !.status = status,
                             !.stale = @ \/ Overtaken(p)]
        BY <1>1, <2>1, <3>1 DEF FinishSetup
      <4> HIDE DEF n
      <4> QED BY <3>2, <4>1, <4>2
    <3>4. /\ n \in Row /\ n.version = row.version /\ n.token = row.token
          /\ n.enabled = row.enabled /\ (n.ground = "none" <=> row.ground = "none")
      BY <3>0, InZoneRow
    <3> HIDE DEF n
    <3>5. /\ m \in Row /\ m.version = row.version + 1 /\ m.token = row.token
          /\ m.enabled = row.enabled /\ m.status = status /\ m.stale = b
          /\ m.ground = "none" <=> row.ground = "none"
      BY <1>3, <3>4 DEF Row
    <3> HIDE DEF m
    <3>6. ASSUME status = "active", ~Overtaken(p)  PROVE row.status = "active"
      BY <1>1, <2>1, <3>1, <3>6, Facts DEF FinishSetup, RequestOK, Claimed, Overtaken
    <3>7. m.status = "active" => m.ground # "none" \/ m.stale
      BY <3>2, <3>5, <3>6 DEF Config, RowOK, ActiveIsProven
    <3> QED BY <3>3, <3>5, <3>7
  <2>2. CASE FailSetup(r)
    <3>1. PICK status \in Statuses : status = Failed(row.status)  BY DEF Failed, Statuses
    <3> DEFINE m == [row EXCEPT !.status = status, !.version = @ + 1]
    <3>2. row' = m  BY <2>2, <3>1 DEF FailSetup
    <3>3. m \in Row  BY <1>3, Facts DEF Row
    <3>4. /\ m.version = row.version + 1 /\ m.token = row.token /\ m.enabled = row.enabled
          /\ m.status = status /\ m.ground = row.ground /\ m.stale = row.stale
      BY Facts DEF Row
    <3> HIDE DEF m
    <3> QED BY <3>1, <3>2, <3>3, <3>4 DEF Failed, Config, RowOK, ActiveIsProven
  <2> QED BY <2>1, <2>2
<1>5. RowOK'  BY <1>2, <1>4 DEF Config, RowOK, OpenIfEnabled, MailIsGround, ActiveIsProven
<1> QED BY <1>2, <1>4, <1>5, FinishMoves, Facts DEF Steps, Advances

-----------------------------------------------------------------------------
(***************************************************************************)
(* Every step keeps the invariant.                                         *)
(***************************************************************************)

LEMMA HandleSteps ==
  ASSUME DomainSetupAssumption, Config, NEW r \in Requests, Handle(r)
  PROVE  Steps(r)
BY ReadSteps, UpdateSteps, DisableSteps, StartSteps, LookSteps, CheckSteps, ActivateSteps,
   ClaimSteps, ConfigureSteps, RecordSteps, SetupSteps DEF Handle

\* What a request knows stays true whatever others write.
LEMMA RequestKeeps ==
  ASSUME DomainSetupAssumption, Config, Advances, mail \subseteq mail', NEW r \in Requests
  PROVE  RequestOK(request[r])' \/ request'[r] # request[r]
<1> SUFFICES ASSUME request'[r] = request[r]  PROVE RequestOK(request[r])'
  OBVIOUS
<1>1. PICK p \in Request : p = request[r]  BY Facts
<1>2. RequestOK(p) /\ p.saw.version \in Nat /\ p.own \in Nat  BY <1>1, Facts
<1>3. Seen(p)'  BY <1>2, Facts DEF RequestOK, Seen, Advances, Agrees
<1>4. Claimed(p)'
  BY <1>2, Facts DEF RequestOK, Claimed, Advances, Agrees
<1>5. RequestOK(p)'  BY <1>2, <1>3, <1>4 DEF RequestOK, Admitted
<1> QED BY <1>1, <1>5 DEF RequestOK, Seen, Claimed, Admitted, Agrees

LEMMA StepConfig ==
  ASSUME DomainSetupAssumption, Config, NEW r \in Requests, Steps(r)
  PROVE  Config'
<1>1. PICK x \in Request : Become(r, x) /\ RequestOK(x)'  BY DEF Steps, Moves
<1>2. request' \in [Requests -> Request]  BY <1>1 DEF Become, Config, TypeOK
<1>3. \A q \in Requests : request'[q] = IF q = r THEN x ELSE request[q]
  BY <1>1 DEF Become, Config, TypeOK
<1>4. RowOK' /\ Advances /\ lastToken' \in 0..MaxTokens /\ lastToken <= lastToken'
      /\ mail' = mail
  BY DEF Steps
<1>5. ASSUME NEW q \in Requests  PROVE RequestOK(request[q])'
  <2>1. CASE q = r
    <3>1. request'[q] = x  BY <1>3, <2>1
    <3> QED BY <1>1, <3>1 DEF RequestOK, Seen, Claimed, Admitted, Agrees
  <2>2. CASE q # r  BY <1>3, <1>4, <2>2, RequestKeeps
  <2> QED BY <2>1, <2>2
<1>6. mail' \subseteq 1..lastToken'
  BY <1>4, Facts DEF Config, TypeOK
<1>7. TypeOK'
  BY <1>2, <1>4, <1>5, <1>6 DEF TypeOK, RowOK, RequestOK, Admitted
<1> QED BY <1>4, <1>5, <1>7 DEF Config

\* What happens without a request: a mail, the end of the half hour, an import.
LEMMA AroundConfig ==
  ASSUME DomainSetupAssumption, Config, Arrive \/ Expire \/ ImportEnv \/ UNCHANGED vars
  PROVE  Config'
<1>1. lastToken' = lastToken /\ request' = request
  BY DEF Arrive, Expire, ImportEnv, vars
<1>2. RowOK' /\ Advances
  <2>1. CASE Arrive
    <3> DEFINE m == [row EXCEPT !.ground = "mail"]
    <3>1. m \in Row  BY Facts DEF Row, Grounds
    <3>2. /\ m.version = row.version /\ m.enabled = row.enabled /\ m.mode = row.mode
          /\ m.zone = row.zone /\ m.status = row.status /\ m.token = row.token
          /\ m.ground = "mail" /\ m.stale = row.stale
      BY Facts DEF Row
    <3>3. row' = m  BY <2>1 DEF Arrive
    <3> HIDE DEF m
    <3> QED BY <1>1, <3>1, <3>2, <3>3
            DEF Config, RowOK, OpenIfEnabled, MailIsGround, ActiveIsProven, Advances, Agrees
  <2>4. CASE UNCHANGED vars
    BY <1>1, <2>4, Facts DEF Config, RowOK, OpenIfEnabled, MailIsGround, ActiveIsProven, Advances, Agrees, vars
  <2>2. CASE Expire
    <3> DEFINE m == [row EXCEPT !.window = "over"]
    <3>1. m \in Row  BY Facts DEF Row
    <3>2. /\ m.version = row.version /\ m.enabled = row.enabled /\ m.mode = row.mode
          /\ m.zone = row.zone /\ m.status = row.status /\ m.token = row.token
          /\ m.ground = row.ground /\ m.stale = row.stale
      BY Facts DEF Row
    <3>3. row' = m /\ mail' = mail  BY <2>2 DEF Expire
    <3> HIDE DEF m
    <3> QED BY <1>1, <3>1, <3>2, <3>3
            DEF Config, RowOK, OpenIfEnabled, MailIsGround, ActiveIsProven, Advances, Agrees
  <2>3. CASE ImportEnv
    <3>1. PICK mode \in EnvModes, creation \in {"allowed", "default"} :
            row' = [row EXCEPT !.enabled = TRUE, !.mode = mode, !.creation = creation,
                               !.status = "active", !.version = @ + 1,
                               !.ground = "env", !.stale = FALSE]
      BY <2>3 DEF ImportEnv
    <3> DEFINE m == [row EXCEPT !.enabled = TRUE, !.mode = mode, !.creation = creation,
                                !.status = "active", !.version = @ + 1,
                                !.ground = "env", !.stale = FALSE]
    <3>2. row.version + 1 \in 1..MaxVersion /\ mode \in Modes /\ "active" \in Statuses
      <4>0. MayWrite  BY <2>3 DEF ImportEnv
      <4>1. row.version + 1 \in 1..MaxVersion  BY <4>0, Facts DEF MayWrite
      <4>2. mode \in Modes  BY DEF DomainSetupAssumption
      <4>3. "active" \in Statuses  BY DEF Statuses
      <4> QED BY <4>1, <4>2, <4>3
    <3>3. m \in Row  BY <3>2, Facts DEF Row, Grounds
    <3>4. /\ m.version = row.version + 1 /\ m.token = row.token /\ m.enabled /\ m.ground = "env"
      BY Facts DEF Row
    <3>5. row' = m  BY <3>1
    <3> HIDE DEF m
    <3> QED BY <1>1, <3>3, <3>4, <3>5
            DEF Config, RowOK, OpenIfEnabled, MailIsGround, ActiveIsProven, Advances
  <2> QED BY <2>1, <2>2, <2>3, <2>4
<1>3. \A r \in Requests : RequestOK(request[r])'
  <2>1. mail \subseteq mail'  BY DEF Arrive, Expire, ImportEnv, vars
  <2> QED BY <1>1, <1>2, <2>1, RequestKeeps
<1>4. mail' \subseteq 1..lastToken'
  <2>1. CASE Arrive
    <3>1. row.token \in 1..lastToken  BY <2>1, Facts DEF Arrive, Config, RowOK, NoToken
    <3> QED BY <1>1, <2>1, <3>1 DEF Arrive, Config, TypeOK
  <2> QED BY <1>1, <2>1 DEF Expire, ImportEnv, vars, Config, TypeOK
<1>5. TypeOK'
  BY <1>1, <1>2, <1>3, <1>4 DEF Config, TypeOK, RowOK, RequestOK, Admitted
<1> QED BY <1>2, <1>3, <1>5 DEF Config

LEMMA InitConfig ==
  ASSUME DomainSetupAssumption, Init
  PROVE  Config
<1>1. PICK enabled \in BOOLEAN, mode \in Modes, zone \in Zones \cup {NoZone} :
        /\ row = [enabled |-> enabled, mode |-> mode, zone |-> zone, creation |-> "none",
                  status |-> IF enabled THEN "draft" ELSE "disabled",
                  token |-> NoToken, window |-> "over", version |-> 1,
                  ground |-> "none", stale |-> FALSE]
        /\ request = [r \in Requests |->
             [pc |-> "idle", saw |-> Unread, zone |-> NoZone, own |-> 1]]
  BY DEF Init
<1>2. lastToken = 0 /\ mail = {}  BY DEF Init
<1>3. 1 \in 1..MaxVersion /\ NoToken \in 0..MaxTokens /\ 0 \in 0..MaxTokens
  BY DEF NoToken, DomainSetupAssumption
<1>4. (IF enabled THEN "draft" ELSE "disabled") \in Statuses  BY DEF Statuses
<1>5. row \in Row /\ Unread \in Row  BY <1>1, <1>3, <1>4, UnreadRow DEF Row, Grounds
<1>6. row.token = NoToken /\ row.status # "active"  BY <1>1
<1>7. request \in [Requests -> Request]  BY <1>1, <1>3, <1>5 DEF Request
<1>8. \A r \in Requests : request[r].pc = "idle"  BY <1>1
<1>9. RowOK  BY <1>2, <1>5, <1>6 DEF RowOK, OpenIfEnabled, MailIsGround, ActiveIsProven, NoToken
<1>10. \A r \in Requests : RequestOK(request[r])
  BY <1>8 DEF RequestOK, Seen, Claimed, Admitted, Checking
<1>11. TypeOK  BY <1>2, <1>3, <1>7, <1>9, <1>10 DEF TypeOK, RowOK, RequestOK, Admitted
<1> QED BY <1>9, <1>10, <1>11 DEF Config

LEMMA ConfigHolds ==
  DomainSetupAssumption => (Spec => []Config)
<1> SUFFICES ASSUME DomainSetupAssumption PROVE Spec => []Config  OBVIOUS
<1>1. Init => Config  BY InitConfig
<1>2. Config /\ [Next]_vars => Config'
  BY HandleSteps, StepConfig, AroundConfig DEF Next
<1> QED BY <1>1, <1>2, PTL DEF Spec

-----------------------------------------------------------------------------
(***************************************************************************)
(* What is promised.                                                       *)
(***************************************************************************)

\* The row of managed_domains and the requests on it keep their form.
THEOREM TypeCorrect ==
  DomainSetupAssumption => (Spec => []TypeOK)
<1> SUFFICES ASSUME DomainSetupAssumption PROVE Spec => []TypeOK  OBVIOUS
<1>1. Spec => []Config  BY ConfigHolds
<1>2. Config => TypeOK  BY DEF Config
<1> QED BY <1>1, <1>2, PTL

\* setup_status says "active" only if a verification mail has come in since an update
\* last configured the receiving side or the domain was disabled, or the environment lists
\* it: a token dies with the configuration it was issued for (sanitizeUpdateInput,
\* disable, checkVerification), and only cloudflareSetup configures the domain without a
\* new mail, or writes back an older status.
THEOREM ActiveDomainsAreProven ==
  DomainSetupAssumption => (Spec => []ActiveIsProven)
<1> SUFFICES ASSUME DomainSetupAssumption PROVE Spec => []ActiveIsProven  OBVIOUS
<1>1. Spec => []Config  BY ConfigHolds
<1>2. Config => ActiveIsProven  BY DEF Config, RowOK
<1> QED BY <1>1, <1>2, PTL

\* Disabling a domain cancels its verification: the token goes with it, and none is
\* issued by a request that read the row before.
THEOREM VerificationNeedsEnabled ==
  DomainSetupAssumption => (Spec => []OpenIfEnabled)
<1> SUFFICES ASSUME DomainSetupAssumption PROVE Spec => []OpenIfEnabled  OBVIOUS
<1>1. Spec => []Config  BY ConfigHolds
<1>2. Config => OpenIfEnabled  BY DEF Config, RowOK
<1> QED BY <1>1, <1>2, PTL

\* No check that was under way enables a domain again after it was disabled; only an
\* update that has seen it disabled does, or an import of the environment.
THEOREM DisablingHolds ==
  DomainSetupAssumption => (Spec => DisableHolds)
<1> SUFFICES ASSUME DomainSetupAssumption PROVE Spec => DisableHolds  OBVIOUS
<1>1. Spec => []Config  BY ConfigHolds
<1>2. Config /\ [Next]_vars =>
        [~row.enabled /\ row'.enabled =>
           \/ \E r \in Requests : /\ request[r].pc = "update" /\ request'[r].pc = "done"
                                  /\ ~request[r].saw.enabled
           \/ UNCHANGED request]_vars
  <2> SUFFICES ASSUME Config, [Next]_vars, ~row.enabled, row'.enabled
               PROVE  \/ \E r \in Requests :
                           /\ request[r].pc = "update" /\ request'[r].pc = "done"
                           /\ ~request[r].saw.enabled
                      \/ UNCHANGED request
    OBVIOUS
  <2>1. CASE \E r \in Requests : Handle(r)
    <3>1. PICK r \in Requests : Steps(r)  BY <2>1, HandleSteps
    <3>2. Enabling(r)  BY <3>1 DEF Steps
    <3> QED BY <3>2 DEF Enabling
  <2>2. CASE Arrive \/ Expire \/ ImportEnv \/ UNCHANGED vars
    BY <2>2 DEF Arrive, Expire, ImportEnv, vars
  <2> QED BY <2>1, <2>2 DEF Next
<1> QED BY <1>1, <1>2, PTL DEF Spec, DisableHolds

-----------------------------------------------------------------------------
(***************************************************************************)
(* SchemaMigration: what a migration has behind it.                        *)
(***************************************************************************)

(* What the statements are, by position.                                   *)

LEMMA ScriptTables ==
  /\ Schema!Script[1] = Schema!Statement("table", "first")
  /\ Schema!Script[2] = Schema!Statement("table", "authenticators")
  /\ Schema!Script[3] = Schema!Statement("table", "added")
  /\ Schema!Script[4] = Schema!Statement("table", "domains")
BY DEF Schema!Script

LEMMA ScriptColumns ==
  /\ Schema!Script[5] = Schema!Statement("column", 3)
  /\ Schema!Script[6] = Schema!Statement("column", 4)
  /\ Schema!Script[7] = Schema!Statement("column", 5)
  /\ Schema!Script[10] = Schema!Statement("column", 7)
  /\ Schema!Script[11] = Schema!Statement("column", 8)
  /\ Schema!Script[13] = Schema!Statement("column", 9)
  /\ Schema!Script[15] = Schema!Statement("column", 10)
  /\ Schema!Script[20] = Schema!Statement("column", 13)
  /\ Schema!Script[27] = Schema!Statement("column", 20)
BY DEF Schema!Script

LEMMA ScriptPatches ==
  /\ Schema!Script[8] = Schema!Statement("index", 5)
  /\ Schema!Script[9] = Schema!Statement("index", 6)
  /\ Schema!Script[12] = Schema!Statement("index", 8)
  /\ Schema!Script[14] = Schema!Statement("mark", 9)
  /\ Schema!Script[16] = Schema!Statement("index", 10)
  /\ Schema!Script[17] = Schema!Statement("copy", 10)
  /\ Schema!Script[18] = Schema!Statement("index", 11)
  /\ Schema!Script[19] = Schema!Statement("index", 12)
  /\ Schema!Script[21] = Schema!Statement("erase", 13)
  /\ Schema!Script[22] = Schema!Statement("index", 14)
  /\ Schema!Script[23] = Schema!Statement("index", 15)
  /\ Schema!Script[24] = Schema!Statement("check", 18)
  /\ Schema!Script[25] = Schema!Statement("shapes", 18)
  /\ Schema!Script[26] = Schema!Statement("rebuild", 18)
BY DEF Schema!Script

LEMMA ScriptCompletion ==
  /\ Schema!Script[28] = Schema!Statement("index", 5)
  /\ Schema!Script[29] = Schema!Statement("index", 6)
  /\ Schema!Script[30] = Schema!Statement("index", 8)
  /\ Schema!Script[31] = Schema!Statement("index", 10)
  /\ Schema!Script[32] = Schema!Statement("index", 11)
  /\ Schema!Script[33] = Schema!Statement("index", 12)
  /\ Schema!Script[34] = Schema!Statement("index", 14)
  /\ Schema!Script[35] = Schema!Statement("index", 15)
  /\ Schema!Script[36] = Schema!Statement("index", 17)
  /\ Schema!Script[37] = Schema!Statement("index", 19)
  /\ Schema!Script[38] = Schema!Statement("version", 20)
BY DEF Schema!Script, Schema!DBVersion

LEMMA Statements ==
  ASSUME NEW kind, NEW of
  PROVE  Schema!Statement(kind, of).kind = kind /\ Schema!Statement(kind, of).of = of
BY DEF Schema!Statement

\* Where a statement of a kind is.
LEMMA Kinds ==
  ASSUME NEW i \in Schema!Positions
  PROVE  /\ Schema!Script[i].kind = "mark" => i = 14 /\ Schema!Script[i].of = 9
         /\ Schema!Script[i].kind = "check" => i = 24
         /\ Schema!Script[i].kind = "shapes" => i = 25
         /\ Schema!Script[i].kind = "rebuild" => i = 26
         /\ Schema!Script[i].kind = "version" => i = 38 /\ Schema!Script[i].of = 20
         /\ Schema!Script[i].kind = "table" => Schema!Script[i].of \in Schema!Tables
         /\ Schema!Script[i].kind = "column" => i \in Schema!Patching
              /\ Schema!Script[i].of \in Schema!Altered
         /\ Schema!Script[i].kind = "index" => i > 4 /\ Schema!Script[i].of \in Schema!Indexed
         /\ Schema!Script[i].kind = "copy" => i = 17
         /\ Schema!Script[i].kind = "erase" => i = 21
BY ScriptTables, ScriptColumns, ScriptPatches, ScriptCompletion, Statements
   DEF Schema!Positions, Schema!Patching, Schema!Tables, Schema!Altered, Schema!Indexed

-----------------------------------------------------------------------------
(* What statements have brought stays.                                     *)

\* A statement that has been executed has had its effect.
Effect(s) ==
  /\ s.kind = "table" => s.of \in tables
  /\ s.kind = "column" => s.of \in columns
  /\ s.kind = "index" => s.of \in indexes \cup Schema!OnAuthenticators
  /\ s.kind = "copy" => labelled
  /\ s.kind = "erase" => ~exposed
  /\ s.kind = "rebuild" => shape # "legacy"

\* What a version promises of the data.
Promised(v) ==
  /\ \A t \in Schema!Altered : t <= v => t \in columns
  /\ v >= 10 => labelled
  /\ v >= 13 => ~exposed
  /\ v >= 18 => shape = "current"

Complete == tables = Schema!Tables /\ Schema!Indexed \ indexes \subseteq Schema!OnAuthenticators

\* The tables of the authenticators have their shape from the beginning.
Shaped == "authenticators" \in tables <=> shape # "absent"

DataTyped ==
  /\ version \in 0..21 /\ version \in Versions \cup {9, 20}
  /\ tables \subseteq Schema!Tables /\ columns \subseteq Schema!Altered
  /\ indexes \subseteq Schema!Indexed
  /\ labelled \in BOOLEAN /\ exposed \in BOOLEAN
  /\ shape \in {"absent", "legacy", "current"}
  /\ grants \subseteq given /\ given \subseteq Direct \cup Links

DataFits ==
  /\ DataTyped /\ Shaped /\ Promised(version)
  /\ version = 20 => Complete

Grows ==
  /\ tables \subseteq tables' /\ columns \subseteq columns'
  /\ indexes \subseteq indexes' \cup Schema!OnAuthenticators
  /\ labelled => labelled'
  /\ exposed' => exposed
  /\ shape' = "legacy" => shape = "legacy"
  /\ shape = "current" => shape' = "current"

LEMMA EffectsStay ==
  ASSUME Grows
  PROVE  /\ \A s : Effect(s) => Effect(s)'
         /\ \A v : Promised(v) => Promised(v)'
         /\ Complete /\ tables' \subseteq Schema!Tables => Complete'
BY DEF Grows, Effect, Promised, Complete

-----------------------------------------------------------------------------
(* The requests.                                                           *)

Run ==
  [pc : {"idle", "open", "begin", "execute", "done", "failed", "killed"},
   from : Versions \cup {0, 9}, at : Schema!Positions \cup {0}, absent : BOOLEAN,
   alone : BOOLEAN]

RunsTyped == run \in [Requests -> Run]

\* A migration has behind it what applied, and finds what its first version promised.
Behind(x) ==
  /\ x.from \in {0} \cup 2..19 /\ x.at \in Schema!Positions /\ Schema!Applies(x.from, x.at)
  /\ Promised(x.from)
  /\ \A j \in Schema!Positions : j < x.at /\ Schema!Applies(x.from, j)
       => Effect(Schema!Script[j])

RunFits(r) ==
  \A x \in Run : x = run[r] /\ x.pc = "execute" => version # 21 /\ Behind(x)

\* Nothing happens under a migration that is alone.
AloneFits(r) ==
  run[r].alone =>
    /\ Schema!Active(r) => \A q \in Requests \ {r} : ~Schema!Active(q)
    /\ run[r].pc = "execute" =>
         /\ version = run[r].from \/ (version = 9 /\ run[r].from < 9)
         /\ run[r].absent => /\ Schema!Script[run[r].at].kind = "column"
                             /\ Schema!Script[run[r].at].of \notin columns
         /\ run[r].at = 25 => shape = "legacy"
    /\ run[r].pc \in {"open", "begin"} => ~run[r].absent
    /\ run[r].pc = "failed" => version = 21

\* A migration that has rebuilt the tables and not yet created their index, or never will.
Owes(r) ==
  /\ ~run[r].alone
  /\ \/ run[r].pc = "execute" /\ run[r].from < 18 /\ run[r].at \in 27..36
     \/ run[r].pc \in {"failed", "killed"}

\* The index may be missing in a complete database only if somebody owes it.
PastIndex(r) == run[r].pc = "execute" /\ run[r].at > 36

IndexFits ==
  17 \notin indexes /\ (version = 20 \/ \E r \in Requests : PastIndex(r))
  => \E r \in Requests : Owes(r)

MigrationFits ==
  /\ DataFits
  /\ RunsTyped
  /\ \A r \in Requests : RunFits(r) /\ AloneFits(r)
  /\ IndexFits

OthersStay(r) == \A q \in Requests \ {r} : run'[q] = run[q]

LEMMA RunSet ==
  ASSUME RunsTyped, NEW r \in Requests, NEW x \in Run, run' = [run EXCEPT ![r] = x]
  PROVE  RunsTyped' /\ run'[r] = x /\ OthersStay(r)
BY DEF RunsTyped, OthersStay

LEMMA BecomeSet ==
  ASSUME RunsTyped, NEW r \in Requests,
         NEW pc \in {"idle", "open", "begin", "execute", "done", "failed", "killed"},
         Schema!Become(r, pc)
  PROVE  /\ RunsTyped' /\ OthersStay(r)
         /\ run'[r].pc = pc /\ run'[r].alone = run[r].alone /\ run'[r].absent = run[r].absent
<1>1. PICK x \in Run : x = run[r]  BY DEF RunsTyped
<1>2. PICK y \in Run : y = [x EXCEPT !.pc = pc]  BY DEF Run
<1>3. y.pc = pc /\ y.alone = x.alone /\ y.absent = x.absent  BY <1>2 DEF Run
<1>4. run' = [run EXCEPT ![r] = y]  BY <1>1, <1>2 DEF Schema!Become, RunsTyped
<1> QED BY <1>1, <1>3, <1>4, RunSet

\* Another request finds what it has left behind, unless it was alone.
LEMMA OthersFit ==
  ASSUME MigrationFits, NEW r \in Requests, Schema!Active(r), OthersStay(r), Grows,
         version' = version \/ (run[r].pc = "execute" /\ version' # 21),
         NEW q \in Requests \ {r}
  PROVE  RunFits(q)' /\ AloneFits(q)'
<1>1. run'[q] = run[q]  BY DEF OthersStay
<1>2. RunFits(q) /\ AloneFits(q) /\ RunFits(r)  BY DEF MigrationFits
<1>3. RunFits(q)'
  <2>1. ASSUME NEW x \in Run, x = run[q], x.pc = "execute"
        PROVE  version' # 21 /\ Behind(x)'
    <3>1. version # 21 /\ Behind(x)  BY <1>2, <2>1 DEF RunFits
    <3>2. Behind(x)'  BY <3>1, EffectsStay DEF Behind
    <3> QED BY <3>1, <3>2
  <2> QED BY <1>1, <2>1 DEF RunFits
<1>4. AloneFits(q)'
  <2>1. run[q].alone => ~Schema!Active(q)  BY <1>2 DEF AloneFits
  <2>2. run[r].pc = "execute" => version # 21
    <3>1. PICK x \in Run : x = run[r]  BY DEF MigrationFits, RunsTyped
    <3> QED BY <1>2, <3>1 DEF RunFits
  <2>3. run[q].alone /\ run[q].pc = "failed" => version = 21 /\ version' = 21
    BY <1>2, <2>2 DEF AloneFits
  <2> QED BY <1>1, <2>1, <2>3 DEF AloneFits, Schema!Active
<1> QED BY <1>3, <1>4

-----------------------------------------------------------------------------
(* The steps of a request that change no data.                             *)

DataSame ==
  UNCHANGED <<version, tables, columns, indexes, labelled, exposed, shape, grants, given>>

LEMMA SameData ==
  ASSUME DataSame, DataFits  PROVE Grows /\ DataFits'
BY DEF DataSame, Grows, DataFits, DataTyped, Shaped, Promised, Complete

LEMMA RunKnown ==
  ASSUME MigrationFits, NEW r \in Requests
  PROVE  run[r] \in Run /\ (run[r].pc = "execute" => version # 21 /\ Behind(run[r]))
<1>1. PICK x \in Run : x = run[r]  BY DEF MigrationFits, RunsTyped
<1> QED BY <1>1 DEF MigrationFits, RunFits

LEMMA EndsFit ==
  ASSUME MigrationFits, NEW r \in Requests, Schema!Active(r), OthersStay(r), RunsTyped',
         DataSame,
         run'[r].alone = run[r].alone, run'[r].absent = run[r].absent,
         run'[r].pc \in {"begin", "done", "failed", "killed"},
         run'[r].pc = "failed" /\ run[r].alone => version = 21,
         run'[r].pc \in {"begin", "done"} => run[r].pc # "execute",
         run'[r].pc = "begin" => run[r].pc = "open"
  PROVE  MigrationFits'
<1>1. Grows /\ DataFits'  BY SameData DEF MigrationFits
<1>2. version' = version /\ indexes' = indexes  BY DEF DataSame
<1>3. ASSUME NEW q \in Requests \ {r}  PROVE RunFits(q)' /\ AloneFits(q)'
  BY <1>1, <1>2, OthersFit
<1>4. RunFits(r)'  BY DEF RunFits
<1>5. AloneFits(r)'
  <2>1. run[r].alone => /\ \A q \in Requests \ {r} : ~Schema!Active(q)
                        /\ run[r].pc = "open" => ~run[r].absent
    BY DEF MigrationFits, AloneFits
  <2>2. run[r].alone => \A q \in Requests \ {r} : ~Schema!Active(q)'
    BY <2>1 DEF OthersStay, Schema!Active
  <2> QED BY <1>2, <2>1, <2>2 DEF AloneFits, Schema!Active
<1>6. IndexFits'
  <2>1. \A q \in Requests : PastIndex(q)' => PastIndex(q)  BY DEF OthersStay, PastIndex
  <2>2. \A q \in Requests : Owes(q) => Owes(q)'
    BY DEF OthersStay, Owes, Schema!Active
  <2> QED BY <1>2, <2>1, <2>2 DEF MigrationFits, IndexFits
<1> QED BY <1>1, <1>3, <1>4, <1>5, <1>6 DEF MigrationFits

LEMMA RequestFits ==
  ASSUME MigrationFits, NEW r \in Requests, Schema!Request(r)  PROVE MigrationFits'
<1>1. DataSame /\ run[r].pc = "idle"  BY DEF Schema!Request, DataSame
<1>2. Grows /\ DataFits'  BY <1>1, SameData DEF MigrationFits
<1>3. PICK pc \in {"open", "begin"} :
       run' = [q \in Requests |->
                 CASE q = r -> [Schema!Idle EXCEPT !.pc = pc,
                                            !.alone = \A o \in Requests : ~Schema!Active(o)]
                   [] q # r /\ Schema!Active(q) -> [run[q] EXCEPT !.alone = FALSE]
                   [] OTHER -> run[q]]
  BY DEF Schema!Request
<1>4. PICK x \in Run :
      /\ x = [Schema!Idle EXCEPT !.pc = pc, !.alone = \A o \in Requests : ~Schema!Active(o)]
                       /\ x.pc = pc /\ ~x.absent
                       /\ (x.alone => \A o \in Requests : ~Schema!Active(o))
  <2>1. PICK alone \in BOOLEAN : alone = \A o \in Requests : ~Schema!Active(o)  OBVIOUS
  <2>2. Schema!Idle \in Run  BY DEF Schema!Idle, Run
  <2>3. PICK z \in Run : z = Schema!Idle  BY <2>2
  <2>4. PICK x \in Run : x = [z EXCEPT !.pc = pc, !.alone = alone]  BY DEF Run
  <2>5. x.pc = pc /\ x.alone = alone /\ ~x.absent  BY <2>3, <2>4 DEF Run, Schema!Idle
  <2> QED BY <2>1, <2>3, <2>4, <2>5
<1>5. run'[r] = x  BY <1>3, <1>4
<1>6. ASSUME NEW q \in Requests \ {r}
      PROVE  /\ run'[q] \in Run /\ run'[q].pc = run[q].pc /\ run'[q].from = run[q].from
             /\ run'[q].at = run[q].at /\ run'[q].absent = run[q].absent
             /\ run'[q].alone => run[q].alone /\ ~Schema!Active(q)
  <2>1. PICK y \in Run : y = run[q]  BY DEF MigrationFits, RunsTyped
  <2>2. CASE Schema!Active(q)
    <3>1. run'[q] = [y EXCEPT !.alone = FALSE]  BY <1>3, <2>1, <2>2
    <3>2. [y EXCEPT !.alone = FALSE] \in Run  BY DEF Run
    <3>3. PICK z \in Run : z = [y EXCEPT !.alone = FALSE]  BY <3>2
    <3>4. /\ z.pc = y.pc /\ z.from = y.from /\ z.at = y.at /\ z.absent = y.absent
          /\ z.alone = FALSE
      BY <3>3 DEF Run
    <3> QED BY <2>1, <3>1, <3>3, <3>4
  <2>3. CASE ~Schema!Active(q)
    <3>1. run'[q] = run[q]  BY <1>3, <2>3
    <3> QED BY <2>1, <2>3, <3>1
  <2> QED BY <2>2, <2>3
<1>7. RunsTyped'
  <2>1. \A q \in Requests : run'[q] \in Run  BY <1>5, <1>6
  <2>2. run' = [q \in Requests |-> run'[q]]  BY <1>3
  <2> QED BY <2>1, <2>2 DEF RunsTyped
<1>8. UNCHANGED <<version, columns, indexes, shape>>  BY <1>1 DEF DataSame
<1>9. ASSUME NEW q \in Requests \ {r}  PROVE RunFits(q)' /\ AloneFits(q)'
  <2>1. RunFits(q)'
    <3>1. ASSUME NEW y \in Run, y = run'[q], y.pc = "execute"
          PROVE  version' # 21 /\ Behind(y)'
      <4>1. run[q] \in Run /\ version # 21 /\ Behind(run[q])
        BY <1>6, <3>1, RunKnown
      <4>2. PICK z \in Run : z = run[q]  BY <4>1
      <4>3. y.from = z.from /\ y.at = z.at  BY <1>6, <3>1, <4>2
      <4>4. Behind(z)'  BY <1>2, <4>1, <4>2, EffectsStay DEF Behind
      <4>5. Behind(y)'  BY <4>3, <4>4 DEF Behind
      <4> QED BY <1>8, <4>1, <4>5
    <3> QED BY <3>1 DEF RunFits
  <2>2. AloneFits(q)'
    <3>1. AloneFits(q)  BY DEF MigrationFits
    <3> QED BY <1>6, <1>8, <3>1 DEF AloneFits, Schema!Active
  <2> QED BY <2>1, <2>2
<1>10. RunFits(r)' /\ AloneFits(r)'
  <2>1. x.alone => \A q \in Requests \ {r} : ~Schema!Active(q)'
    BY <1>4, <1>6 DEF Schema!Active
  <2> QED BY <1>4, <1>5, <2>1 DEF RunFits, AloneFits
<1>11. IndexFits'
  <2>1. \A q \in Requests : PastIndex(q)' => PastIndex(q)
    BY <1>4, <1>5, <1>6 DEF PastIndex
  <2>2. \A q \in Requests : Owes(q) => Owes(q)'
    BY <1>1, <1>6 DEF Owes
  <2> QED BY <1>8, <2>1, <2>2 DEF MigrationFits, IndexFits
<1> QED BY <1>2, <1>7, <1>9, <1>10, <1>11 DEF MigrationFits

LEMMA InitializeFits ==
  ASSUME MigrationFits, NEW r \in Requests, Schema!Initialize(r)  PROVE MigrationFits'
<1>1. DataSame /\ Schema!Active(r) /\ run[r].pc = "open"
  BY DEF Schema!Initialize, DataSame, Schema!Active
<1>2. PICK pc \in {"done", "begin"} : Schema!Become(r, pc)  BY DEF Schema!Initialize
<1>3. /\ RunsTyped' /\ OthersStay(r)
      /\ run'[r].pc = pc /\ run'[r].alone = run[r].alone
      /\ run'[r].absent = run[r].absent
  BY <1>2, BecomeSet DEF MigrationFits
<1> QED BY <1>1, <1>3, EndsFit

LEMMA KillFits ==
  ASSUME MigrationFits, NEW r \in Requests, Schema!Kill(r)  PROVE MigrationFits'
<1>1. DataSame /\ Schema!Active(r) /\ Schema!Become(r, "killed")  BY DEF Schema!Kill, DataSame
<1>2. /\ RunsTyped' /\ OthersStay(r)
      /\ run'[r].pc = "killed" /\ run'[r].alone = run[r].alone
      /\ run'[r].absent = run[r].absent
  BY <1>1, BecomeSet DEF MigrationFits
<1> QED BY <1>1, <1>2, EndsFit

LEMMA VersionsKnown ==
  ASSUME Schema!SchemaMigrationAssumption, DataTyped  PROVE version # 1
BY DEF Schema!SchemaMigrationAssumption, DataTyped

LEMMA MigrateFits ==
  ASSUME Schema!SchemaMigrationAssumption, MigrationFits, NEW r \in Requests,
         Schema!Migrate(r)  PROVE MigrationFits'
<1>1. DataSame /\ Schema!Active(r) /\ run[r].pc = "begin"
  BY DEF Schema!Migrate, DataSame, Schema!Active
<1>2. version \in 0..21 /\ version \in Versions \cup {9, 20} /\ Promised(version)
  BY DEF MigrationFits, DataFits, DataTyped
<1>3. CASE Schema!Unsupported
  <2>1. Schema!Become(r, "failed")  BY <1>3
       DEF Schema!Migrate, Schema!Unsupported, Schema!DBVersion
  <2>2. version = 21 \/ version = 1  BY <1>2, <1>3 DEF Schema!Unsupported, Schema!DBVersion
  <2>3. version # 1  BY VersionsKnown DEF MigrationFits, DataFits
  <2>4. /\ RunsTyped' /\ OthersStay(r)
        /\ run'[r].pc = "failed" /\ run'[r].alone = run[r].alone
        /\ run'[r].absent = run[r].absent
    BY <2>1, BecomeSet DEF MigrationFits
  <2> QED BY <1>1, <2>2, <2>3, <2>4, EndsFit
<1>4. CASE ~Schema!Unsupported /\ version = Schema!DBVersion
  <2>1. Schema!Become(r, "done")  BY <1>4 DEF Schema!Migrate
  <2>2. /\ RunsTyped' /\ OthersStay(r)
        /\ run'[r].pc = "done" /\ run'[r].alone = run[r].alone
        /\ run'[r].absent = run[r].absent
    BY <2>1, BecomeSet DEF MigrationFits
  <2> QED BY <1>1, <2>2, EndsFit
<1>5. CASE ~Schema!Unsupported /\ version # Schema!DBVersion
  <2>1. PICK v : v = version  OBVIOUS
  <2>2. v \in {0} \cup 2..19 /\ v \in Versions \cup {0, 9}
    BY <1>2, <1>5, <2>1 DEF Schema!Unsupported, Schema!DBVersion
  <2>3. PICK x \in Run : x = run[r]  BY DEF MigrationFits, RunsTyped
  <2>4. PICK y \in Run : y = [x EXCEPT !.pc = "execute", !.from = v, !.at = 1]
    <3>1. 1 \in Schema!Positions  BY DEF Schema!Positions
    <3> QED BY <2>2, <3>1 DEF Run
  <2>5. y.pc = "execute" /\ y.from = v /\ y.at = 1 /\ y.alone = x.alone /\ y.absent = x.absent
    BY <2>4 DEF Run
  <2>6. run' = [run EXCEPT ![r] = y]
    BY <1>5, <2>1, <2>3, <2>4 DEF Schema!Migrate, MigrationFits, RunsTyped
  <2>7. RunsTyped' /\ run'[r] = y /\ OthersStay(r)  BY <2>6, RunSet DEF MigrationFits
  <2>8. Grows /\ DataFits'  BY <1>1, SameData DEF MigrationFits
  <2>9. version' = version /\ indexes' = indexes  BY <1>1 DEF DataSame
  <2>10. ASSUME NEW q \in Requests \ {r}  PROVE RunFits(q)' /\ AloneFits(q)'
    BY <1>1, <2>7, <2>8, <2>9, OthersFit
  <2>11. Behind(y)'
    <3>1. 1 \in Schema!Positions /\ Schema!Applies(v, 1)
      BY DEF Schema!Positions, Schema!Applies, Schema!Patching
    <3>2. Promised(v)'  BY <1>2, <2>1, <2>8, EffectsStay
    <3>3. \A j \in Schema!Positions : ~(j < 1)  BY DEF Schema!Positions
    <3> QED BY <2>2, <2>5, <3>1, <3>2, <3>3 DEF Behind
  <2>12. RunFits(r)'  BY <2>1, <2>2, <2>7, <2>9, <2>11 DEF RunFits
  <2>13. AloneFits(r)'
    <3>1. AloneFits(r) /\ (x.alone => ~x.absent)  BY <1>1, <2>3 DEF MigrationFits, AloneFits
    <3> QED BY <1>1, <2>1, <2>3, <2>5, <2>7, <2>9, <3>1 DEF AloneFits, Schema!Active, OthersStay
  <2>14. IndexFits'
    <3>1. \A q \in Requests : PastIndex(q)' => PastIndex(q)
      BY <2>5, <2>7 DEF OthersStay, PastIndex
    <3>2. \A q \in Requests : Owes(q) => Owes(q)'
      BY <1>1, <2>7 DEF OthersStay, Owes
    <3> QED BY <2>9, <3>1, <3>2 DEF MigrationFits, IndexFits
  <2> QED BY <2>7, <2>8, <2>10, <2>12, <2>13, <2>14 DEF MigrationFits
<1> QED BY <1>3, <1>4, <1>5

-----------------------------------------------------------------------------
(* The steps of a migration from a statement to the next.                  *)

LEMMA AdvanceSet ==
  ASSUME MigrationFits, NEW r \in Requests, NEW n \in {1, 3}, Schema!Advance(r, n),
         run[r].pc = "execute"
  PROVE  \E j \in Schema!Positions, y \in Run :
           /\ Schema!Follows(run[r].from, run[r].at + n - 1, j)
           /\ y.pc = "execute" /\ y.from = run[r].from /\ y.at = j
           /\ y.absent = FALSE /\ y.alone = run[r].alone
           /\ run'[r] = y /\ OthersStay(r) /\ RunsTyped'
<1>1. PICK j \in Schema!Positions :
        /\ Schema!Follows(run[r].from, run[r].at + n - 1, j)
        /\ run' = [run EXCEPT ![r].at = j, ![r].absent = FALSE]
  BY DEF Schema!Advance
<1>2. PICK x \in Run : x = run[r]  BY DEF MigrationFits, RunsTyped
<1>3. PICK y \in Run : y = [x EXCEPT !.at = j, !.absent = FALSE]  BY DEF Run
<1>4. /\ y.pc = x.pc /\ y.from = x.from /\ y.at = j
      /\ y.absent = FALSE /\ y.alone = x.alone
  BY <1>3 DEF Run
<1>5. run' = [run EXCEPT ![r] = y]  BY <1>1, <1>2, <1>3 DEF MigrationFits, RunsTyped
<1>6. RunsTyped' /\ run'[r] = y /\ OthersStay(r)  BY <1>5, RunSet DEF MigrationFits
<1> QED BY <1>1, <1>2, <1>4, <1>6

\* What the statement at a position has behind it.
LEMMA BehindMoves ==
  ASSUME NEW x \in Run, NEW y \in Run, NEW n \in {1, 3}, Behind(x), Grows,
         Schema!Follows(x.from, x.at + n - 1, y.at), y.from = x.from,
         Effect(Schema!Script[x.at])',
         n = 3 => x.at = 24 /\ shape' # "legacy"
  PROVE  Behind(y)'
<1>1. /\ x.from \in {0} \cup 2..19 /\ x.at \in Schema!Positions
      /\ \A k \in Schema!Positions : k < x.at /\ Schema!Applies(x.from, k)
           => Effect(Schema!Script[k])
  BY DEF Behind
<1>2. Promised(x.from)'  BY EffectsStay DEF Behind
<1>3. /\ y.at > x.at + n - 1 /\ Schema!Applies(x.from, y.at)
      /\ \A k \in (x.at + n)..(y.at - 1) : ~Schema!Applies(x.from, k)
  BY <1>1 DEF Schema!Follows, Schema!Positions
<1>4. y.at \in Schema!Positions  BY <1>1, <1>3 DEF Run, Schema!Positions
<1>5. ASSUME NEW k \in Schema!Positions, k < y.at, Schema!Applies(x.from, k)
      PROVE  Effect(Schema!Script[k])'
  <2>1. k < x.at \/ k = x.at \/ (n = 3 /\ k \in {25, 26}) \/ k \in (x.at + n)..(y.at - 1)
    BY <1>1, <1>4, <1>5 DEF Schema!Positions
  <2>2. CASE k < x.at
    <3>1. Effect(Schema!Script[k])  BY <1>1, <1>5, <2>2
    <3> QED BY <3>1, EffectsStay
  <2>3. CASE n = 3 /\ k \in {25, 26}
    <3>1. Schema!Script[k].kind \in {"shapes", "rebuild"}  BY <2>3, ScriptPatches, Statements
    <3> QED BY <2>3, <3>1 DEF Effect
  <2> QED BY <1>3, <1>5, <2>1, <2>2, <2>3
<1> QED BY <1>1, <1>2, <1>3, <1>4, <1>5 DEF Behind

\* The position of the reconstruction and of the last index are never passed over.
LEMMA Stops ==
  ASSUME NEW x \in Run, NEW j \in Schema!Positions, NEW n \in {1, 3}, x.at \in Schema!Positions,
         x.from \in {0} \cup 2..19, Schema!Follows(x.from, x.at + n - 1, j), n = 3 => x.at = 24
  PROVE  /\ j > 36 => x.at >= 36
         /\ j = 25 => x.at = 24 /\ n = 1
         /\ j > x.at
<1>1. Schema!Applies(x.from, 36)  BY DEF Schema!Applies, Schema!Patching
<1>2. Schema!Applies(x.from, 25) => Schema!Applies(x.from, 24)
  BY ScriptPatches, Statements DEF Schema!Applies, Schema!Patching
<1>3. /\ j > x.at + n - 1 /\ Schema!Applies(x.from, j)
      /\ \A k \in (x.at + n)..(j - 1) : ~Schema!Applies(x.from, k)
  BY DEF Schema!Follows, Schema!Positions
<1>4. j > 36 => ~(36 \in (x.at + n)..(j - 1))  BY <1>1, <1>3
<1>5. j = 25 => ~(24 \in (x.at + n)..(j - 1))  BY <1>2, <1>3
<1> QED BY <1>3, <1>4, <1>5 DEF Schema!Positions

LEMMA AdvanceFits ==
  ASSUME MigrationFits, NEW r \in Requests, NEW n \in {1, 3}, Schema!Advance(r, n),
         run[r].pc = "execute", Grows, DataFits', version' # 21,
         NEW i \in Schema!Positions, i = run[r].at, Effect(Schema!Script[i])',
         n = 3 => run[r].at = 24 /\ shape' # "legacy",
         n = 1 /\ run[r].at = 24 => shape' = "legacy",
         run[r].alone => version' = run[r].from \/ (version' = 9 /\ run[r].from < 9)
  PROVE  /\ IndexFits' => MigrationFits'
         /\ OthersStay(r) /\ run'[r].pc = "execute" /\ run'[r].from = run[r].from
         /\ run'[r].at \in Schema!Positions /\ run'[r].at > run[r].at
         /\ run'[r].at > 36 => run[r].at >= 36
         /\ run'[r].alone = run[r].alone
<1>1. PICK x \in Run : x = run[r] /\ Behind(x)  BY RunKnown
<1>2. PICK j \in Schema!Positions, y \in Run :
        /\ Schema!Follows(x.from, x.at + n - 1, j)
        /\ y.pc = "execute" /\ y.from = x.from /\ y.at = j
        /\ y.absent = FALSE /\ y.alone = x.alone
        /\ run'[r] = y /\ OthersStay(r) /\ RunsTyped'
  BY <1>1, AdvanceSet
<1>3. x.at \in Schema!Positions /\ x.from \in {0} \cup 2..19  BY <1>1 DEF Behind
<1>4. (j > 36 => x.at >= 36) /\ (j = 25 => x.at = 24 /\ n = 1) /\ j > x.at
  BY <1>1, <1>2, <1>3, Stops
<1>5. ASSUME NEW q \in Requests \ {r}  PROVE RunFits(q)' /\ AloneFits(q)'
  BY <1>2, OthersFit DEF Schema!Active
<1>6. Behind(y)'
  <2>1. Effect(Schema!Script[x.at])'  BY <1>1
  <2> QED BY <1>1, <1>2, <2>1, BehindMoves
<1>7. RunFits(r)'  BY <1>2, <1>6 DEF RunFits
<1>8. AloneFits(r)'
  <2>1. x.alone => \A q \in Requests \ {r} : ~Schema!Active(q)
    BY <1>1 DEF MigrationFits, AloneFits, Schema!Active
  <2>2. x.alone => \A q \in Requests \ {r} : ~Schema!Active(q)'
    BY <1>2, <2>1 DEF OthersStay, Schema!Active
  <2>3. x.alone => version' = y.from \/ (version' = 9 /\ y.from < 9)  BY <1>1, <1>2
  <2>4. y.at = 25 => shape' = "legacy"  BY <1>1, <1>2, <1>4
  <2> QED BY <1>2, <2>2, <2>3, <2>4 DEF AloneFits
<1> QED BY <1>1, <1>2, <1>4, <1>5, <1>7, <1>8 DEF MigrationFits

\* A step that takes no index leaves every debt, and the last index settles one.
LEMMA IndexStays ==
  ASSUME MigrationFits, NEW r \in Requests, run[r].pc = "execute", version' = version,
         indexes \subseteq indexes', run[r].at = 36 => 17 \in indexes',
         OthersStay(r), run'[r].pc = "execute", run'[r].from = run[r].from,
         run'[r].at \in Schema!Positions, run'[r].at >= run[r].at,
         run[r].at \in Schema!Positions,
         run'[r].at > 36 => run[r].at >= 36,
         run'[r].alone = run[r].alone
  PROVE  IndexFits'
<1> SUFFICES ASSUME 17 \notin indexes', version' = 20 \/ \E q \in Requests : PastIndex(q)'
             PROVE  \E q \in Requests : Owes(q)'
  BY DEF IndexFits
<1>1. run[r].at # 36 /\ 17 \notin indexes  OBVIOUS
<1>2. \A q \in Requests : PastIndex(q)' => PastIndex(q)
  BY <1>1 DEF PastIndex, OthersStay, Schema!Positions
<1>3. PICK q \in Requests : Owes(q)  BY <1>1, <1>2 DEF MigrationFits, IndexFits
<1>4. Owes(q)'  BY <1>1, <1>3 DEF Owes, OthersStay, Schema!Positions
<1> QED BY <1>4

\* A statement that takes nothing away and leaves the version.
LEMMA StatementFits ==
  ASSUME MigrationFits, NEW r \in Requests, NEW n \in {1, 3}, Schema!Advance(r, n),
         run[r].pc = "execute", Grows, DataFits', version' = version,
         indexes \subseteq indexes', run[r].at = 36 => 17 \in indexes',
         NEW i \in Schema!Positions, i = run[r].at, Effect(Schema!Script[i])',
         n = 3 => run[r].at = 24 /\ shape' # "legacy",
         n = 1 /\ run[r].at = 24 => shape' = "legacy"
  PROVE  MigrationFits'
<1>1. version # 21 /\ run[r].at \in Schema!Positions  BY RunKnown DEF Behind
<1>2. run[r].alone => version' = run[r].from \/ (version' = 9 /\ run[r].from < 9)
  BY DEF MigrationFits, AloneFits
<1>3. version' # 21  BY <1>1
<1>4. /\ IndexFits' => MigrationFits'
      /\ OthersStay(r) /\ run'[r].pc = "execute" /\ run'[r].from = run[r].from
      /\ run'[r].at \in Schema!Positions /\ run'[r].at > run[r].at
      /\ run'[r].at > 36 => run[r].at >= 36
      /\ run'[r].alone = run[r].alone
  BY <1>2, <1>3, AdvanceFits
<1>5. run'[r].at >= run[r].at  BY <1>1, <1>4 DEF Schema!Positions
<1> QED BY <1>1, <1>4, <1>5, IndexStays

-----------------------------------------------------------------------------
(* The statements.                                                         *)

LEMMA AtStatement ==
  ASSUME MigrationFits, NEW r \in Requests, NEW kind, Schema!At(r, kind)
  PROVE  \E i \in Schema!Positions :
           /\ i = run[r].at /\ Schema!Script[i].kind = kind /\ Schema!Of(r) = Schema!Script[i].of
           /\ run[r].pc = "execute" /\ Schema!Active(r)
<1>1. run[r].pc = "execute" /\ Schema!Script[run[r].at].kind = kind  BY DEF Schema!At
<1>2. run[r].at \in Schema!Positions  BY <1>1, RunKnown DEF Behind
<1> QED BY <1>1, <1>2 DEF Schema!Of, Schema!Active

\* What an earlier statement has brought, or the version the migration began with.
LEMMA ColumnBehind ==
  ASSUME NEW x \in Run, Behind(x), NEW j \in Schema!Positions, j < x.at,
         Schema!Script[j].kind = "column"
  PROVE  Schema!Script[j].of \in columns
<1>1. j \in Schema!Patching /\ Schema!Script[j].of \in Schema!Altered  BY Kinds
<1>2. CASE x.from < Schema!Script[j].of
  <2>1. Effect(Schema!Script[j])  BY <1>1, <1>2 DEF Behind, Schema!Applies
  <2> QED BY <2>1 DEF Effect
<1>3. CASE ~(x.from < Schema!Script[j].of)
  <2>1. Schema!Script[j].of <= x.from  BY <1>1, <1>3 DEF Behind, Schema!Altered
  <2> QED BY <1>1, <2>1 DEF Behind, Promised
<1> QED BY <1>2, <1>3

LEMMA CreateTableFits ==
  ASSUME MigrationFits, NEW r \in Requests, Schema!CreateTable(r)  PROVE MigrationFits'
<1>1. PICK i \in Schema!Positions :
        /\ i = run[r].at /\ Schema!Script[i].kind = "table" /\ Schema!Of(r) = Schema!Script[i].of
        /\ run[r].pc = "execute"
  BY AtStatement DEF Schema!CreateTable
<1>2. PICK g : g = Schema!Of(r)  OBVIOUS
<1>3. g \in Schema!Tables /\ i # 24 /\ i # 36
  BY <1>1, <1>2, Kinds, ScriptPatches, ScriptCompletion, Statements
<1>4. /\ tables' = tables \cup {g}
      /\ columns' = IF g \in tables THEN columns ELSE columns \cup Schema!ColumnsOf[g]
      /\ shape' = IF g = "authenticators" /\ g \notin tables THEN "current" ELSE shape
      /\ Schema!Advance(r, 1)
      /\ UNCHANGED <<version, indexes, labelled, exposed, grants, given>>
  BY <1>2 DEF Schema!CreateTable
<1>5. DataTyped /\ Shaped /\ Promised(version) /\ (version = 20 => Complete)
  BY DEF MigrationFits, DataFits
<1>6. Grows
  <2>1. shape = "legacy" => g # "authenticators" \/ g \in tables  BY <1>5 DEF Shaped
  <2> QED BY <1>4, <2>1 DEF Grows
<1>7. DataFits'
  <2>1. Schema!ColumnsOf[g] \subseteq Schema!Altered  BY <1>3
       DEF Schema!ColumnsOf, Schema!Tables, Schema!Altered
  <2>2. tables' \subseteq Schema!Tables  BY <1>3, <1>4, <1>5 DEF DataTyped
  <2>3. DataTyped'  BY <1>4, <1>5, <2>1, <2>2 DEF DataTyped
  <2>4. Shaped'  BY <1>4, <1>5 DEF Shaped
  <2>5. Promised(version)'
    <3>1. PICK v : v = version  OBVIOUS
    <3>2. Promised(v)'  BY <1>5, <1>6, <3>1, EffectsStay
    <3> QED BY <1>4, <3>1, <3>2 DEF Promised
  <2>6. version' = 20 => Complete'  BY <1>4, <1>5, <1>6, <2>2, EffectsStay
  <2> QED BY <2>3, <2>4, <2>5, <2>6 DEF DataFits
<1>8. Effect(Schema!Script[i])'  BY <1>1, <1>2, <1>4 DEF Effect
<1> QED BY <1>1, <1>3, <1>4, <1>6, <1>7, <1>8, StatementFits

LEMMA LookForColumnFits ==
  ASSUME MigrationFits, NEW r \in Requests, Schema!LookForColumn(r)  PROVE MigrationFits'
<1>1. PICK i \in Schema!Positions :
        /\ i = run[r].at /\ Schema!Script[i].kind = "column"
        /\ Schema!Of(r) = Schema!Script[i].of
        /\ run[r].pc = "execute" /\ Schema!Active(r)
  BY AtStatement DEF Schema!LookForColumn
<1>2. DataSame  BY DEF Schema!LookForColumn, DataSame
<1>3. Grows /\ DataFits'  BY <1>2, SameData DEF MigrationFits
<1>4. version' = version /\ indexes' = indexes /\ columns' = columns  BY <1>2 DEF DataSame
<1>5. i # 24 /\ i # 36  BY <1>1, ScriptPatches, ScriptCompletion, Statements
<1>6. CASE Schema!Of(r) \in columns
  <2>1. Schema!Advance(r, 1)  BY <1>6 DEF Schema!LookForColumn
  <2>2. Effect(Schema!Script[i])'  BY <1>1, <1>4, <1>6 DEF Effect
  <2> QED BY <1>1, <1>3, <1>4, <1>5, <2>1, <2>2, StatementFits
<1>7. CASE Schema!Of(r) \notin columns
  <2>1. run' = [run EXCEPT ![r].absent = TRUE]  BY <1>7 DEF Schema!LookForColumn
  <2>2. PICK x \in Run : x = run[r] /\ Behind(x)  BY <1>1, RunKnown
  <2>3. PICK y \in Run : y = [x EXCEPT !.absent = TRUE]  BY DEF Run
  <2>4. /\ y.pc = x.pc /\ y.from = x.from /\ y.at = x.at /\ y.alone = x.alone
        /\ y.absent
    BY <2>3 DEF Run
  <2>5. run' = [run EXCEPT ![r] = y]  BY <2>1, <2>2, <2>3 DEF MigrationFits, RunsTyped
  <2>6. RunsTyped' /\ run'[r] = y /\ OthersStay(r)  BY <2>5, RunSet DEF MigrationFits
  <2>7. ASSUME NEW q \in Requests \ {r}  PROVE RunFits(q)' /\ AloneFits(q)'
    BY <1>1, <1>3, <1>4, <2>6, OthersFit
  <2>8. RunFits(r)'
    <3>1. Behind(x)'  BY <1>3, <2>2, EffectsStay DEF Behind
    <3>2. Behind(y)'  BY <2>4, <3>1 DEF Behind
    <3>3. version # 21  BY <1>1, RunKnown
    <3> QED BY <1>4, <2>6, <3>2, <3>3 DEF RunFits
  <2>9. AloneFits(r)'
    <3>1. x.alone => /\ \A q \in Requests \ {r} : ~Schema!Active(q)
                     /\ version = x.from \/ (version = 9 /\ x.from < 9)
      BY <1>1, <2>2 DEF MigrationFits, AloneFits
    <3>2. x.alone => \A q \in Requests \ {r} : ~Schema!Active(q)'
      BY <2>6, <3>1 DEF OthersStay, Schema!Active
    <3>3. y.at # 25 /\ Schema!Script[y.at].kind = "column"
          /\ Schema!Script[y.at].of \notin columns'
      BY <1>1, <1>4, <1>7, <2>2, <2>4, ScriptPatches, Statements
    <3>4. y.pc = "execute"  BY <1>1, <2>2, <2>4
    <3> QED BY <1>4, <2>4, <2>6, <3>1, <3>2, <3>3, <3>4 DEF AloneFits
  <2>10. IndexFits'
    <3>1. /\ run'[r].pc = "execute" /\ run'[r].from = run[r].from /\ run'[r].at = run[r].at
          /\ run'[r].alone = run[r].alone
      BY <1>1, <2>2, <2>4, <2>6
    <3> QED BY <1>1, <1>4, <1>5, <2>6, <3>1, IndexStays DEF Schema!Positions
  <2> QED BY <1>3, <2>6, <2>7, <2>8, <2>9, <2>10 DEF MigrationFits
<1> QED BY <1>6, <1>7

\* A statement fails.
LEMMA FailureFits ==
  ASSUME MigrationFits, NEW r \in Requests, Schema!Active(r), Schema!Become(r, "failed"),
         DataSame,
         ~run[r].alone
  PROVE  MigrationFits'
<1>1. /\ RunsTyped' /\ OthersStay(r)
      /\ run'[r].pc = "failed" /\ run'[r].alone = run[r].alone
      /\ run'[r].absent = run[r].absent
  BY BecomeSet DEF MigrationFits
<1> QED BY <1>1, EndsFit

LEMMA AddColumnFits ==
  ASSUME MigrationFits, NEW r \in Requests, Schema!AddColumn(r)  PROVE MigrationFits'
<1>1. PICK i \in Schema!Positions :
        /\ i = run[r].at /\ Schema!Script[i].kind = "column"
        /\ Schema!Of(r) = Schema!Script[i].of
        /\ run[r].pc = "execute" /\ Schema!Active(r)
  BY AtStatement DEF Schema!AddColumn
<1>2. UNCHANGED <<version, tables, indexes, labelled, exposed, shape, grants, given>>
  BY DEF Schema!AddColumn
<1>3. CASE Schema!Of(r) \in columns
  <2>1. Schema!Become(r, "failed") /\ DataSame  BY <1>3 DEF Schema!AddColumn, DataSame
  <2>2. ~run[r].alone
    <3>1. AloneFits(r) /\ run[r].absent  BY DEF MigrationFits, Schema!AddColumn
    <3> QED BY <1>1, <1>3, <3>1 DEF AloneFits
  <2> QED BY <1>1, <2>1, <2>2, FailureFits
<1>4. CASE Schema!Of(r) \notin columns
  <2>1. columns' = columns \cup {Schema!Script[i].of} /\ Schema!Advance(r, 1)
    BY <1>1, <1>4 DEF Schema!AddColumn
  <2>2. Schema!Script[i].of \in Schema!Altered /\ i # 24 /\ i # 36
    BY <1>1, Kinds, ScriptPatches, ScriptCompletion, Statements
  <2>3. Grows  BY <1>2, <2>1 DEF Grows
  <2>4. DataFits'
    BY <1>2, <2>1, <2>2
       DEF MigrationFits, DataFits, DataTyped, Shaped, Promised, Complete
  <2>5. Effect(Schema!Script[i])'  BY <1>1, <2>1 DEF Effect
  <2> QED BY <1>1, <1>2, <2>1, <2>2, <2>3, <2>4, <2>5, StatementFits
<1> QED BY <1>3, <1>4

\* The column of an index has been added before it.
LEMMA IndexedColumn ==
  ASSUME NEW x \in Run, Behind(x), Schema!Script[x.at].kind = "index",
         Schema!Script[x.at].of \in Schema!Altered
  PROVE  Schema!Script[x.at].of \in columns
<1>1. x.at \in Schema!Positions  BY DEF Behind
<1>2. \/ x.at \in {8, 28} /\ Schema!Script[x.at].of = Schema!Script[7].of
      \/ x.at \in {12, 30} /\ Schema!Script[x.at].of = Schema!Script[11].of
      \/ x.at \in {16, 31} /\ Schema!Script[x.at].of = Schema!Script[15].of
  BY <1>1, ScriptTables, ScriptColumns, ScriptPatches, ScriptCompletion, Statements
     DEF Schema!Positions, Schema!Altered
<1>3. /\ Schema!Script[7].kind = "column" /\ Schema!Script[11].kind = "column"
      /\ Schema!Script[15].kind = "column"
  BY ScriptColumns, Statements
<1>4. 7 \in Schema!Positions /\ 11 \in Schema!Positions /\ 15 \in Schema!Positions
  BY DEF Schema!Positions
<1> QED BY <1>2, <1>3, <1>4, ColumnBehind

LEMMA CreateIndexFits ==
  ASSUME MigrationFits, NEW r \in Requests, Schema!CreateIndex(r)  PROVE MigrationFits'
<1>1. PICK i \in Schema!Positions :
        /\ i = run[r].at /\ Schema!Script[i].kind = "index" /\ Schema!Of(r) = Schema!Script[i].of
        /\ run[r].pc = "execute" /\ Schema!Active(r)
  BY AtStatement DEF Schema!CreateIndex
<1>2. UNCHANGED <<version, tables, columns, labelled, exposed, shape, grants, given>>
  BY DEF Schema!CreateIndex
<1>3. Schema!Of(r) \notin Schema!Altered \ columns
  <2>1. PICK x \in Run : x = run[r] /\ Behind(x)  BY <1>1, RunKnown
  <2> QED BY <1>1, <2>1, IndexedColumn
<1>4. indexes' = indexes \cup {Schema!Script[i].of} /\ Schema!Advance(r, 1)
  BY <1>1, <1>3 DEF Schema!CreateIndex
<1>5. Schema!Script[i].of \in Schema!Indexed /\ i # 24 /\ (i = 36 => Schema!Script[i].of = 17)
  BY <1>1, Kinds, ScriptPatches, ScriptCompletion, Statements
<1>6. Grows  BY <1>2, <1>4 DEF Grows
<1>7. DataFits'
  BY <1>2, <1>4, <1>5
     DEF MigrationFits, DataFits, DataTyped, Shaped, Promised, Complete
<1>8. Effect(Schema!Script[i])'  BY <1>1, <1>4 DEF Effect
<1> QED BY <1>1, <1>2, <1>4, <1>5, <1>6, <1>7, <1>8, StatementFits

LEMMA CopyLabelsFits ==
  ASSUME MigrationFits, NEW r \in Requests, Schema!CopyLabels(r)  PROVE MigrationFits'
<1>1. PICK i \in Schema!Positions :
        i = run[r].at /\ Schema!Script[i].kind = "copy" /\ run[r].pc = "execute"
  BY AtStatement DEF Schema!CopyLabels
<1>2. /\ labelled' = TRUE /\ Schema!Advance(r, 1)
      /\ UNCHANGED <<version, tables, columns, indexes, exposed, shape, grants, given>>
  BY DEF Schema!CopyLabels
<1>3. i # 24 /\ i # 36  BY <1>1, ScriptPatches, ScriptCompletion, Statements
<1>4. Grows  BY <1>2 DEF Grows
<1>5. DataFits'
  BY <1>2 DEF MigrationFits, DataFits, DataTyped, Shaped, Promised, Complete
<1>6. Effect(Schema!Script[i])'  BY <1>1, <1>2 DEF Effect
<1> QED BY <1>1, <1>2, <1>3, <1>4, <1>5, <1>6, StatementFits

LEMMA EraseTokensFits ==
  ASSUME MigrationFits, NEW r \in Requests, Schema!EraseTokens(r)  PROVE MigrationFits'
<1>1. PICK i \in Schema!Positions :
        i = run[r].at /\ Schema!Script[i].kind = "erase" /\ run[r].pc = "execute"
  BY AtStatement DEF Schema!EraseTokens
<1>2. /\ exposed' = FALSE /\ Schema!Advance(r, 1)
      /\ UNCHANGED <<version, tables, columns, indexes, labelled, shape, grants, given>>
  BY DEF Schema!EraseTokens
<1>3. i # 24 /\ i # 36  BY <1>1, ScriptPatches, ScriptCompletion, Statements
<1>4. Grows  BY <1>2 DEF Grows
<1>5. DataFits'
  BY <1>2 DEF MigrationFits, DataFits, DataTyped, Shaped, Promised, Complete
<1>6. Effect(Schema!Script[i])'  BY <1>1, <1>2 DEF Effect
<1> QED BY <1>1, <1>2, <1>3, <1>4, <1>5, <1>6, StatementFits

LEMMA CheckOwnerFits ==
  ASSUME MigrationFits, NEW r \in Requests, Schema!CheckOwner(r)  PROVE MigrationFits'
<1>1. PICK i \in Schema!Positions :
        i = run[r].at /\ Schema!Script[i].kind = "check" /\ run[r].pc = "execute"
  BY AtStatement DEF Schema!CheckOwner
<1>2. i = 24  BY <1>1, Kinds
<1>3. PICK n \in {1, 3} : n = IF shape = "legacy" THEN 1 ELSE 3  OBVIOUS
<1>4. DataSame /\ Schema!Advance(r, n)  BY <1>3 DEF Schema!CheckOwner, Schema!HasLegacy, DataSame
<1>5. Grows /\ DataFits'  BY <1>4, SameData DEF MigrationFits
<1>6. version' = version /\ indexes' = indexes /\ shape' = shape  BY <1>4 DEF DataSame
<1>7. Effect(Schema!Script[i])'  BY <1>1 DEF Effect
<1>8. run[r].at = 24 /\ run[r].at # 36  BY <1>1, <1>2
<1>9. (n = 3 => shape' # "legacy") /\ (n = 1 => shape' = "legacy")  BY <1>3, <1>6
<1>10. indexes \subseteq indexes'  BY <1>6
<1> QED BY <1>1, <1>3, <1>4, <1>5, <1>6, <1>7, <1>8, <1>9, <1>10, StatementFits

LEMMA CheckShapesFits ==
  ASSUME MigrationFits, NEW r \in Requests, Schema!CheckShapes(r)  PROVE MigrationFits'
<1>1. PICK i \in Schema!Positions :
        /\ i = run[r].at /\ Schema!Script[i].kind = "shapes"
        /\ run[r].pc = "execute" /\ Schema!Active(r)
  BY AtStatement DEF Schema!CheckShapes
<1>2. i = 25  BY <1>1, Kinds
<1>3. DataSame  BY DEF Schema!CheckShapes, DataSame
<1>4. Grows /\ DataFits'  BY <1>3, SameData DEF MigrationFits
<1>5. version' = version /\ indexes' = indexes  BY <1>3 DEF DataSame
<1>6. CASE shape = "legacy"
  <2>1. Schema!Advance(r, 1)  BY <1>6 DEF Schema!CheckShapes
  <2>2. Effect(Schema!Script[i])'  BY <1>1 DEF Effect
  <2>3. run[r].at # 24 /\ run[r].at # 36  BY <1>1, <1>2
  <2>4. indexes \subseteq indexes'  BY <1>5
  <2> QED BY <1>1, <1>4, <1>5, <2>1, <2>2, <2>3, <2>4, StatementFits
<1>7. CASE shape # "legacy"
  <2>1. Schema!Become(r, "failed")  BY <1>7 DEF Schema!CheckShapes
  <2>2. ~run[r].alone  BY <1>1, <1>2, <1>7 DEF MigrationFits, AloneFits
  <2> QED BY <1>1, <1>3, <2>1, <2>2, FailureFits
<1> QED BY <1>6, <1>7

LEMMA MarkVersionFits ==
  ASSUME MigrationFits, NEW r \in Requests, Schema!MarkVersion(r)  PROVE MigrationFits'
<1>1. PICK i \in Schema!Positions :
        /\ i = run[r].at /\ Schema!Script[i].kind = "mark" /\ Schema!Of(r) = Schema!Script[i].of
        /\ run[r].pc = "execute" /\ Schema!Active(r)
  BY AtStatement DEF Schema!MarkVersion
<1>2. i = 14 /\ Schema!Script[i].of = 9  BY <1>1, Kinds
<1>3. /\ version' = IF version = 0 THEN 0 ELSE 9
      /\ Schema!Advance(r, 1)
      /\ UNCHANGED <<tables, columns, indexes, labelled, exposed, shape, grants, given>>
  BY <1>1, <1>2 DEF Schema!MarkVersion
<1>4. PICK x \in Run : x = run[r] /\ Behind(x)  BY <1>1, RunKnown
<1>5. x.at = 14 /\ x.from \in {0} \cup 2..19 /\ x.from < 9
  <2>1. 14 \in Schema!Patching  BY DEF Schema!Patching
  <2>2. Schema!Applies(x.from, 14)  BY <1>1, <1>2, <1>4 DEF Behind
  <2> QED BY <1>1, <1>2, <1>4, <2>1, <2>2 DEF Behind, Schema!Applies
<1>6. Grows  BY <1>3 DEF Grows
<1>7. Promised(9)
  <2>1. \A j \in {5, 6, 7, 10, 11, 13} : j \in Schema!Positions /\ j < x.at
    BY <1>5 DEF Schema!Positions
  <2>2. \A j \in {5, 6, 7, 10, 11, 13} : Schema!Script[j].kind = "column"
    BY ScriptColumns, Statements
  <2>3. \A j \in {5, 6, 7, 10, 11, 13} : Schema!Script[j].of \in columns
    BY <1>4, <2>1, <2>2, ColumnBehind
  <2>4. {3, 4, 5, 7, 8, 9} \subseteq columns  BY <2>3, ScriptColumns, Statements
  <2> QED BY <2>4 DEF Promised, Schema!Altered
<1>8. DataFits'
  <2>1. version' \in 0..21 /\ version' \in Versions \cup {9, 20} /\ version' # 20
    BY <1>3 DEF MigrationFits, DataFits, DataTyped
  <2>2. DataTyped' /\ Shaped'
    BY <1>3, <2>1 DEF MigrationFits, DataFits, DataTyped, Shaped
  <2>3. PICK v : v = version'  OBVIOUS
  <2>4. Promised(v)  BY <1>3, <1>7, <2>3 DEF MigrationFits, DataFits
  <2>5. Promised(v)'  BY <1>6, <2>4, EffectsStay
  <2>6. Promised(version)'  BY <2>3, <2>5 DEF Promised
  <2> QED BY <2>1, <2>2, <2>6 DEF DataFits
<1>9. Effect(Schema!Script[i])'  BY <1>1 DEF Effect
<1>10. run[r].alone => version' = run[r].from \/ (version' = 9 /\ run[r].from < 9)
  <2>1. run[r].alone => version = x.from \/ version = 9
    BY <1>1, <1>4 DEF MigrationFits, AloneFits
  <2> QED BY <1>3, <1>4, <1>5, <2>1
<1>11. run[r].at # 24  BY <1>1, <1>2
<1>12. version' # 21  BY <1>3
<1>13. /\ IndexFits' => MigrationFits'
       /\ OthersStay(r)
       /\ run'[r].at > 36 => run[r].at >= 36
  BY <1>1, <1>3, <1>6, <1>8, <1>9, <1>10, <1>11, <1>12, AdvanceFits
<1>14. IndexFits'
  <2>1. \A q \in Requests : PastIndex(q)' => q # r /\ PastIndex(q)
    BY <1>1, <1>2, <1>13 DEF PastIndex, OthersStay
  <2>2. ~Owes(r)  BY <1>1, <1>2 DEF Owes
  <2>3. \A q \in Requests \ {r} : Owes(q) => Owes(q)'  BY <1>13 DEF OthersStay, Owes
  <2> QED BY <1>3, <2>1, <2>2, <2>3 DEF MigrationFits, IndexFits
<1> QED BY <1>13, <1>14

\* Whoever rebuilds the tables while others migrate owes their index.
LEMMA RebuildFits ==
  ASSUME MigrationFits, NEW r \in Requests, Schema!Rebuild(r)  PROVE MigrationFits'
<1>1. PICK i \in Schema!Positions :
        /\ i = run[r].at /\ Schema!Script[i].kind = "rebuild"
        /\ run[r].pc = "execute" /\ Schema!Active(r)
  BY AtStatement DEF Schema!Rebuild
<1>2. i = 26  BY <1>1, Kinds
<1>3. /\ shape' = "current" /\ grants' \subseteq grants
      /\ indexes' = indexes \ Schema!OnAuthenticators /\ Schema!Advance(r, 1)
      /\ UNCHANGED <<version, tables, columns, labelled, exposed, given>>
  BY DEF Schema!Rebuild
<1>4. PICK x \in Run : x = run[r] /\ Behind(x)  BY <1>1, RunKnown
<1>5. x.at = 26 /\ x.from \in {0} \cup 2..17
  <2>1. 26 \in Schema!Patching /\ Schema!Script[26].of = 18  BY ScriptPatches, Statements
       DEF Schema!Patching
  <2>2. x.at = 26 /\ Schema!Applies(x.from, x.at) /\ x.from \in {0} \cup 2..19
    BY <1>1, <1>2, <1>4 DEF Behind
  <2>3. x.from < 18  BY <2>1, <2>2 DEF Schema!Applies
  <2> QED BY <2>2, <2>3
<1>6. Grows  BY <1>3 DEF Grows
<1>7. DataFits'
  <2>1. DataTyped /\ Shaped /\ Promised(version) /\ (version = 20 => Complete)
    BY DEF MigrationFits, DataFits
  <2>2. DataTyped'  BY <1>3, <2>1 DEF DataTyped
  <2>3. Effect(Schema!Script[2]) /\ Schema!Script[2].kind = "table"
        /\ Schema!Script[2].of = "authenticators"
    <3>1. 2 \in Schema!Positions /\ Schema!Applies(x.from, 2) /\ 2 < x.at
      BY <1>5 DEF Schema!Positions, Schema!Applies, Schema!Patching
    <3> QED BY <1>4, <3>1, ScriptTables, Statements DEF Behind
  <2>4. Shaped'  BY <1>3, <2>3 DEF Shaped, Effect
  <2>5. Promised(version)'  BY <1>3, <2>1 DEF Promised
  <2>6. version' = 20 => Complete'  BY <1>3, <1>6, <2>1, <2>2, EffectsStay DEF DataTyped
  <2> QED BY <2>2, <2>4, <2>5, <2>6 DEF DataFits
<1>8. Effect(Schema!Script[i])'  BY <1>1, <1>3 DEF Effect
<1>9. run[r].alone => version = run[r].from \/ (version = 9 /\ run[r].from < 9)
  BY <1>1 DEF MigrationFits, AloneFits
<1>10. version' # 21  BY <1>1, <1>3, RunKnown
<1>11. run[r].at # 24  BY <1>1, <1>2
<1>12. /\ IndexFits' => MigrationFits'
       /\ OthersStay(r) /\ run'[r].pc = "execute" /\ run'[r].from = run[r].from
       /\ run'[r].at \in Schema!Positions /\ run'[r].at > run[r].at
       /\ run'[r].at > 36 => run[r].at >= 36
       /\ run'[r].alone = run[r].alone
  BY <1>1, <1>3, <1>6, <1>7, <1>8, <1>9, <1>10, <1>11, AdvanceFits
<1>13. run'[r].at \in 27..36  BY <1>1, <1>2, <1>12 DEF Schema!Positions
<1>14. IndexFits'
  <2>1. CASE ~run[r].alone
    <3>1. Owes(r)'  BY <1>4, <1>5, <1>12, <1>13, <2>1 DEF Owes
    <3> QED BY <3>1 DEF IndexFits
  <2>2. CASE run[r].alone
    <3>1. \A q \in Requests \ {r} : ~Schema!Active(q)
      BY <1>1, <2>2 DEF MigrationFits, AloneFits
    <3>2. \A q \in Requests : ~PastIndex(q)'
      BY <1>12, <1>13, <3>1 DEF PastIndex, OthersStay, Schema!Active
    <3>3. version' # 20  BY <1>3, <1>4, <1>5, <1>9, <2>2
    <3> QED BY <3>2, <3>3 DEF IndexFits
  <2> QED BY <2>1, <2>2
<1> QED BY <1>12, <1>14

\* At its end a migration has brought all that its version promises.
LEMMA EndOfMigration ==
  ASSUME DataTyped, Shaped, NEW x \in Run, Behind(x), x.at = 38
  PROVE  Promised(20) /\ Complete
<1>1. /\ x.from \in {0} \cup 2..19 /\ Promised(x.from)
      /\ \A j \in Schema!Positions : j < 38 /\ Schema!Applies(x.from, j)
           => Effect(Schema!Script[j])
  BY DEF Behind
<1>2. \A j \in {1, 2, 3, 4, 28, 29, 30, 31, 32, 33, 34, 35, 36, 37} : Effect(Schema!Script[j])
  <2>1. \A j \in {1, 2, 3, 4, 28, 29, 30, 31, 32, 33, 34, 35, 36, 37} :
          j \in Schema!Positions /\ j < 38 /\ Schema!Applies(x.from, j)
    BY DEF Schema!Positions, Schema!Applies, Schema!Patching
  <2> QED BY <1>1, <2>1
<1>3. tables = Schema!Tables
  <2>1. Effect(Schema!Script[1]) /\ Effect(Schema!Script[2]) /\ Effect(Schema!Script[3])
        /\ Effect(Schema!Script[4])
    BY <1>2
  <2>2. {"first", "authenticators", "added", "domains"} \subseteq tables
    BY <2>1, ScriptTables, Statements DEF Effect
  <2> QED BY <2>2 DEF Schema!Tables, DataTyped
<1>4. Schema!Indexed \ indexes \subseteq Schema!OnAuthenticators
  <2>1. {5, 6, 8, 10, 11} \subseteq indexes \cup Schema!OnAuthenticators
    BY <1>2, ScriptCompletion, Statements DEF Effect
  <2>2. {12, 14, 15, 17, 19} \subseteq indexes \cup Schema!OnAuthenticators
    BY <1>2, ScriptCompletion, Statements DEF Effect
  <2> QED BY <2>1, <2>2 DEF Schema!Indexed
<1>5. Schema!Altered \subseteq columns
  <2>1. \A j \in {5, 6, 7, 10, 11, 13, 15, 20, 27} : j \in Schema!Positions /\ j < x.at
    BY DEF Schema!Positions
  <2>2. \A j \in {5, 6, 7, 10, 11, 13, 15, 20, 27} : Schema!Script[j].kind = "column"
    BY ScriptColumns, Statements
  <2>3. \A j \in {5, 6, 7, 10, 11, 13, 15, 20, 27} : Schema!Script[j].of \in columns
    BY <2>1, <2>2, ColumnBehind
  <2> QED BY <2>3, ScriptColumns, Statements DEF Schema!Altered
<1>6. labelled
  <2>1. CASE x.from < 10
    <3>1. 17 \in Schema!Positions /\ Schema!Applies(x.from, 17)
      BY <2>1, ScriptPatches, Statements DEF Schema!Positions, Schema!Applies, Schema!Patching
    <3> QED BY <1>1, <3>1, ScriptPatches, Statements DEF Effect
  <2> QED BY <1>1, <2>1 DEF Promised
<1>7. ~exposed
  <2>1. CASE x.from < 13
    <3>1. 21 \in Schema!Positions /\ Schema!Applies(x.from, 21)
      BY <2>1, ScriptPatches, Statements DEF Schema!Positions, Schema!Applies, Schema!Patching
    <3> QED BY <1>1, <3>1, ScriptPatches, Statements DEF Effect
  <2> QED BY <1>1, <2>1 DEF Promised
<1>8. shape = "current"
  <2>1. CASE x.from < 18
    <3>1. 26 \in Schema!Positions /\ Schema!Applies(x.from, 26)
      BY <2>1, ScriptPatches, Statements DEF Schema!Positions, Schema!Applies, Schema!Patching
    <3>2. shape # "legacy"  BY <1>1, <3>1, ScriptPatches, Statements DEF Effect
    <3>3. shape # "absent"  BY <1>3 DEF Shaped, Schema!Tables
    <3> QED BY <3>2, <3>3 DEF DataTyped
  <2> QED BY <1>1, <2>1 DEF Promised
<1> QED BY <1>3, <1>4, <1>5, <1>6, <1>7, <1>8 DEF Promised, Complete

LEMMA RecordVersionFits ==
  ASSUME MigrationFits, NEW r \in Requests, Schema!RecordVersion(r)  PROVE MigrationFits'
<1>1. PICK i \in Schema!Positions :
        /\ i = run[r].at /\ Schema!Script[i].kind = "version"
        /\ Schema!Of(r) = Schema!Script[i].of
        /\ run[r].pc = "execute" /\ Schema!Active(r)
  BY AtStatement DEF Schema!RecordVersion
<1>2. i = 38 /\ Schema!Script[i].of = 20  BY <1>1, Kinds
<1>3. /\ version' = 20 /\ Schema!Become(r, "done")
      /\ UNCHANGED <<tables, columns, indexes, labelled, exposed, shape, grants, given>>
  BY <1>1, <1>2 DEF Schema!RecordVersion
<1>4. /\ RunsTyped' /\ OthersStay(r)
      /\ run'[r].pc = "done" /\ run'[r].alone = run[r].alone
  BY <1>3, BecomeSet DEF MigrationFits
<1>5. PICK x \in Run : x = run[r] /\ Behind(x)  BY <1>1, RunKnown
<1>6. Promised(20) /\ Complete
  BY <1>1, <1>2, <1>5, EndOfMigration DEF MigrationFits, DataFits
<1>7. Grows  BY <1>3 DEF Grows
<1>8. DataFits'
  <2>1. DataTyped' /\ Shaped'
    BY <1>3 DEF MigrationFits, DataFits, DataTyped, Shaped
  <2>2. Promised(version)'
    <3>1. Promised(20)'  BY <1>6, <1>7, EffectsStay
    <3> QED BY <1>3, <3>1 DEF Promised
  <2>3. Complete'  BY <1>6, <1>7, <2>1, EffectsStay DEF DataTyped
  <2> QED BY <2>1, <2>2, <2>3 DEF DataFits
<1>9. ASSUME NEW q \in Requests \ {r}  PROVE RunFits(q)' /\ AloneFits(q)'
  <2>1. version' # 21  BY <1>3
  <2> QED BY <1>1, <1>4, <1>7, <2>1, OthersFit
<1>10. RunFits(r)' /\ AloneFits(r)'
  <2>1. run[r].alone => \A q \in Requests \ {r} : ~Schema!Active(q)
    BY <1>1 DEF MigrationFits, AloneFits
  <2>2. run[r].alone => \A q \in Requests \ {r} : ~Schema!Active(q)'
    BY <1>4, <2>1 DEF OthersStay, Schema!Active
  <2> QED BY <1>4, <2>2 DEF RunFits, AloneFits
<1>11. IndexFits'
  <2>1. PastIndex(r) /\ ~Owes(r)  BY <1>1, <1>2 DEF PastIndex, Owes
  <2>2. 17 \notin indexes => \E q \in Requests \ {r} : Owes(q)
    BY <2>1 DEF MigrationFits, IndexFits
  <2>3. \A q \in Requests \ {r} : Owes(q) => Owes(q)'  BY <1>4 DEF OthersStay, Owes
  <2> QED BY <1>3, <2>2, <2>3 DEF IndexFits
<1> QED BY <1>4, <1>8, <1>9, <1>10, <1>11 DEF MigrationFits

LEMMA GrantFits ==
  ASSUME MigrationFits, NEW g \in Direct \cup Links, Schema!Grant(g)  PROVE MigrationFits'
<1>1. /\ grants' = grants \cup {g} /\ given' = given \cup {g}
      /\ UNCHANGED <<version, tables, columns, indexes, labelled, exposed, shape, run>>
  BY DEF Schema!Grant
<1>2. Grows  BY <1>1 DEF Grows
<1>3. DataFits'
  BY <1>1 DEF MigrationFits, DataFits, DataTyped, Shaped, Promised, Complete
<1>4. RunsTyped' /\ IndexFits'
  BY <1>1 DEF MigrationFits, RunsTyped, IndexFits, PastIndex, Owes
<1>5. ASSUME NEW q \in Requests  PROVE RunFits(q)' /\ AloneFits(q)'
  <2>1. RunFits(q) /\ AloneFits(q)  BY DEF MigrationFits
  <2>2. RunFits(q)'
    <3>1. ASSUME NEW x \in Run, Behind(x)  PROVE Behind(x)'
      BY <1>2, <3>1, EffectsStay DEF Behind
    <3> QED BY <1>1, <2>1, <3>1 DEF RunFits
  <2>3. AloneFits(q)'  BY <1>1, <2>1 DEF AloneFits, Schema!Active
  <2> QED BY <2>2, <2>3
<1> QED BY <1>3, <1>4, <1>5 DEF MigrationFits

-----------------------------------------------------------------------------
(* The invariant and what follows from it.                                 *)

LEMMA InitFits ==
  ASSUME Schema!SchemaMigrationAssumption, Schema!Init  PROVE MigrationFits
<1>1. version \in Versions /\ version \in {0} \cup 2..21
  BY DEF Schema!Init, Schema!SchemaMigrationAssumption
<1>2. given \subseteq Direct \cup Links /\ grants = given
  <2>1. given \in SUBSET (Direct \cup Links)  BY DEF Schema!Init
  <2> QED BY <2>1 DEF Schema!Init
<1>3. DataTyped
  BY <1>1, <1>2 DEF Schema!Init, DataTyped, Schema!Tables, Schema!Altered, Schema!Indexed
<1>4. Shaped
  <2>1. "authenticators" \in Schema!Tables /\ Schema!Since["authenticators"] = 16
    BY DEF Schema!Tables, Schema!Since
  <2> QED BY <1>1, <2>1 DEF Schema!Init, Shaped
<1>5. Promised(version)
  <2>1. \A t \in Schema!Altered : t <= version => t \in columns  BY DEF Schema!Init
  <2>2. (version >= 10 => labelled) /\ (version >= 13 => ~exposed)
    <3>1. labelled = (version >= 10) /\ exposed = (version = 12)  BY DEF Schema!Init
    <3>2. version >= 10 => labelled  BY <3>1, Zenon
    <3>3. exposed => version = 12  BY <3>1, Zenon
    <3> QED BY <1>1, <3>2, <3>3
  <2>3. version >= 18 => shape = "current"
    BY <1>1 DEF Schema!Init
  <2> QED BY <2>1, <2>2, <2>3 DEF Promised
<1>6. version = 20 => Complete
  <2>1. \A g \in Schema!Tables : Schema!Since[g] <= 20  BY DEF Schema!Tables, Schema!Since
  <2>2. \A t \in Schema!Indexed : t <= 20  BY DEF Schema!Indexed
  <2> QED BY <2>1, <2>2 DEF Schema!Init, Complete
<1>7. Schema!Idle \in Run  BY DEF Schema!Idle, Run
<1>8. \A r \in Requests : run[r] = Schema!Idle /\ run[r].pc = "idle" /\ ~run[r].alone
  BY DEF Schema!Init, Schema!Idle
<1>9. RunsTyped  BY <1>7 DEF Schema!Init, RunsTyped
<1>10. \A r \in Requests : RunFits(r) /\ AloneFits(r)
  BY <1>8 DEF RunFits, AloneFits
<1>11. IndexFits
  <2>1. version = 20 => 17 \in indexes  BY DEF Schema!Init, Schema!Indexed
  <2> QED BY <1>8, <2>1 DEF IndexFits, PastIndex
<1> QED BY <1>3, <1>4, <1>5, <1>6, <1>9, <1>10, <1>11 DEF MigrationFits, DataFits

LEMMA ExecuteFits ==
  ASSUME MigrationFits, NEW r \in Requests, Schema!Execute(r)  PROVE MigrationFits'
<1>1. \/ Schema!CreateTable(r) \/ Schema!LookForColumn(r) \/ Schema!AddColumn(r)
           \/ Schema!CreateIndex(r)
      \/ Schema!MarkVersion(r) \/ Schema!CopyLabels(r) \/ Schema!EraseTokens(r)
      \/ Schema!CheckOwner(r) \/ Schema!CheckShapes(r) \/ Schema!Rebuild(r)
      \/ Schema!RecordVersion(r)
  BY DEF Schema!Execute
<1>2. CASE Schema!CreateTable(r) \/ Schema!LookForColumn(r) \/ Schema!AddColumn(r)
      \/ Schema!CreateIndex(r)
  BY <1>2, CreateTableFits, LookForColumnFits, AddColumnFits, CreateIndexFits
<1>3. CASE Schema!MarkVersion(r) \/ Schema!CopyLabels(r) \/ Schema!EraseTokens(r)
  BY <1>3, MarkVersionFits, CopyLabelsFits, EraseTokensFits
<1>4. CASE Schema!CheckOwner(r) \/ Schema!CheckShapes(r) \/ Schema!Rebuild(r)
      \/ Schema!RecordVersion(r)
  BY <1>4, CheckOwnerFits, CheckShapesFits, RebuildFits, RecordVersionFits
<1> QED BY <1>1, <1>2, <1>3, <1>4

LEMMA NextFits ==
  ASSUME Schema!SchemaMigrationAssumption, MigrationFits,
         [Schema!Next]_(Schema!vars)  PROVE MigrationFits'
<1>1. CASE UNCHANGED Schema!vars
  BY <1>1 DEF Schema!vars, MigrationFits, DataFits, DataTyped, Shaped, Promised, Complete,
              RunsTyped, RunFits, Behind, Effect, AloneFits, Schema!Active, IndexFits, PastIndex,
              Owes
<1>2. ASSUME NEW r \in Requests,
             Schema!Request(r) \/ Schema!Initialize(r) \/ Schema!Migrate(r) \/ Schema!Execute(r)
               \/ Schema!Kill(r)
      PROVE  MigrationFits'
  BY <1>2, RequestFits, InitializeFits, MigrateFits, ExecuteFits, KillFits
<1>3. ASSUME NEW g \in Direct \cup Links, Schema!Grant(g)  PROVE MigrationFits'
  BY <1>3, GrantFits
<1> QED BY <1>1, <1>2, <1>3 DEF Schema!Next

\* The strengthened invariant: the database keeps what its version promises, a migration
\* has behind it the effect of every statement that applied, and whoever may leave the
\* tables of the authenticators without their index still owes it (migrateDatabase,
\* execute, reconcileAuthenticatorSources).
THEOREM MigrationHolds ==
  Schema!SchemaMigrationAssumption => (Schema!Spec => []MigrationFits)
<1> SUFFICES ASSUME Schema!SchemaMigrationAssumption  PROVE Schema!Spec => []MigrationFits
  OBVIOUS
<1>1. Schema!Init => MigrationFits  BY InitFits
<1>2. MigrationFits /\ [Schema!Next]_(Schema!vars) => MigrationFits'  BY NextFits
<1> QED BY <1>1, <1>2, PTL DEF Schema!Spec

\* The database and the requests on it keep their form.
THEOREM SchemaTypeCorrect ==
  Schema!SchemaMigrationAssumption => (Schema!Spec => []Schema!TypeOK)
<1> SUFFICES ASSUME Schema!SchemaMigrationAssumption  PROVE Schema!Spec => []Schema!TypeOK
  OBVIOUS
<1>1. MigrationFits => Schema!TypeOK
  BY DEF MigrationFits, DataFits, DataTyped, RunsTyped, Run, Schema!TypeOK
<1> QED BY <1>1, MigrationHolds, PTL

\* The database has what the recorded version promises, whatever requests overlapped or
\* ended in between (migrateDatabase, execute).
THEOREM VersionsAreComplete ==
  Schema!SchemaMigrationAssumption => (Schema!Spec => []VersionMeansComplete)
<1> SUFFICES ASSUME Schema!SchemaMigrationAssumption
             PROVE Schema!Spec => []VersionMeansComplete
  OBVIOUS
<1>1. MigrationFits => VersionMeansComplete
  <2> SUFFICES ASSUME MigrationFits  PROVE VersionMeansComplete
    OBVIOUS
  <2>1. Promised(version) /\ (version = 20 => Complete) /\ indexes \subseteq Schema!Indexed
    BY DEF MigrationFits, DataFits, DataTyped
  <2>2. version = 20 => Schema!Indexed = indexes \/ \E r \in Requests : Schema!Overlapped(r)
    <3>1. version = 20 /\ Schema!Indexed # indexes => 17 \notin indexes
      BY <2>1 DEF Complete, Schema!OnAuthenticators
    <3>2. \A r \in Requests : Owes(r) => Schema!Overlapped(r)  BY DEF Owes, Schema!Overlapped
    <3> QED BY <3>1, <3>2 DEF MigrationFits, IndexFits
  <2> QED BY <2>1, <2>2
          DEF VersionMeansComplete, Schema!VersionMeansComplete, Promised, Complete,
              Schema!DBVersion
<1> QED BY <1>1, MigrationHolds, PTL

\* A migration that no other request overlaps and that is not killed succeeds, whatever
\* earlier ones have left (execute, hasLegacyAuthenticatorOwner).
THEOREM LoneMigrationsSucceed ==
  Schema!SchemaMigrationAssumption => (Schema!Spec => []AloneSucceeds)
<1> SUFFICES ASSUME Schema!SchemaMigrationAssumption  PROVE Schema!Spec => []AloneSucceeds
  OBVIOUS
<1>1. MigrationFits => AloneSucceeds
  BY DEF MigrationFits, AloneFits, AloneSucceeds, Schema!AloneSucceeds,
         Schema!Unsupported, Schema!DBVersion
<1> QED BY <1>1, MigrationHolds, PTL
=============================================================================
