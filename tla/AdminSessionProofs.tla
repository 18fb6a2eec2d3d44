------------------------- MODULE AdminSessionProofs -------------------------
(***************************************************************************)
(* The administrator's sessions implement a store of revocable sessions,   *)
(* and a sign-out holds in its tab, for any number of tabs, requests,      *)
(* sessions, configurations and failures.                                  *)
(***************************************************************************)
EXTENDS AdminSession, FiniteSetTheorems, TLAPS

-----------------------------------------------------------------------------
(* The inductive invariant.                                                *)

\* A login or a sign-out knows what it will answer.
UserPhase(t) ==
  /\ user[t].pc \in {"revoke", "insert"} => user[t].kind = "login"
  /\ user[t].pc = "delete" => user[t].kind = "logout"
  /\ user[t].pc = "ok" /\ user[t].kind = "login" => user[t].token \in Tokens

\* A renewal that found a row names it, and answers with a token.
RenewalPhase(t) ==
  /\ renewal[t].pc \in {"update", "ok"} => renewal[t].cookie \in Sessions
  /\ renewal[t].pc = "ok" => renewal[t].token \in Tokens

\* Only a tab that has been restored acts.
TabPhase(t) ==
  tab[t].auth # None \/ user[t].pc # "idle" => ~tab[t].restoring

\* A request runs its handler at most once, with a token that names a session.
CallPhase(c) ==
  /\ call[c].pc # "idle" => ~tab[call[c].tab].restoring
  /\ call[c].ran # 0 =>
       /\ call[c].ran = 1
       /\ call[c].pc \in {"ok", "done"}
       /\ call[c].header \in Tokens
       /\ session[call[c].header] # None

\* A renewal in flight in t, if any, will not be accepted.
Disowned(t) == renewal[t].pc # "idle" => ~renewal[t].same

\* While a tab signs out, and as long as it is out, no token can come to it.
OutPhase(t) ==
  /\ user[t].pc # "idle" /\ user[t].kind = "logout" => tab[t].closing /\ Disowned(t)
  /\ tab[t].out =>
       /\ tab[t].auth = None
       /\ ~tab[t].restoring
       /\ Disowned(t)
       /\ user[t].pc # "idle" => user[t].kind = "logout"

\* Sessions are opened, and tokens are issued, in the order of their numbers.
Unused ==
  /\ \A s \in Sessions : s > opened => rows[s] = None
  /\ \A k \in Tokens : k > issued => session[k] = None

\* Every renewal is owed to the opening of a tab or to the only retry of a request,
\* so no more than MaxTokens tokens are issued.
Owed     == {t \in Tabs : renewal[t].pc \in {"select", "update"}}
Restored == {t \in Tabs : ~tab[t].restoring \/ renewal[t].pc # "idle"}
Retried  == {c \in Calls : call[c].retried \/ call[c].pc \in {"waiting", "done"}}

Counted ==
  /\ opened + Cardinality(LoggingIn) <= MaxSessions
  /\ issued + Cardinality(Owed) <= opened + Cardinality(Restored) + Cardinality(Retried)

Sound ==
  /\ TypeOK
  /\ \A t \in Tabs : UserPhase(t) /\ RenewalPhase(t) /\ TabPhase(t) /\ OutPhase(t)
  /\ \A c \in Calls : CallPhase(c)
  /\ Unused
  /\ Counted

-----------------------------------------------------------------------------
(* Counting.                                                               *)

\* A subset is finite and has no more elements.
LEMMA SmallerSet ==
  ASSUME NEW S, NEW T, IsFiniteSet(T), S \subseteq T
  PROVE  IsFiniteSet(S) /\ Cardinality(S) \in Nat /\ Cardinality(S) <= Cardinality(T)
BY FS_Subset, FS_CardinalityType

LEMMA FiniteSets ==
  ASSUME AdminSessionAssumption
  PROVE  /\ IsFiniteSet(LoggingIn) /\ IsFiniteSet(Owed) /\ IsFiniteSet(Restored)
         /\ IsFiniteSet(Retried)
         /\ Cardinality(LoggingIn) \in Nat /\ Cardinality(Owed) \in Nat
         /\ Cardinality(Restored) \in Nat /\ Cardinality(Retried) \in Nat
         /\ Cardinality(Restored) <= Cardinality(Tabs)
         /\ Cardinality(Retried) <= Cardinality(Calls)
         /\ Cardinality(Tabs) \in Nat /\ Cardinality(Calls) \in Nat
<1>1. /\ LoggingIn \subseteq Tabs /\ Owed \subseteq Tabs /\ Restored \subseteq Tabs
      /\ Retried \subseteq Calls
  BY DEF LoggingIn, Owed, Restored, Retried
<1>2. IsFiniteSet(Tabs) /\ IsFiniteSet(Calls)  BY DEF AdminSessionAssumption
<1> QED BY <1>1, <1>2, SmallerSet, FS_CardinalityType

LEMMA FiniteSetsNext ==
  ASSUME AdminSessionAssumption
  PROVE  /\ IsFiniteSet(LoggingIn') /\ IsFiniteSet(Owed') /\ IsFiniteSet(Restored')
         /\ IsFiniteSet(Retried')
         /\ Cardinality(LoggingIn') \in Nat /\ Cardinality(Owed') \in Nat
         /\ Cardinality(Restored') \in Nat /\ Cardinality(Retried') \in Nat
<1>1. /\ LoggingIn' \subseteq Tabs /\ Owed' \subseteq Tabs /\ Restored' \subseteq Tabs
      /\ Retried' \subseteq Calls
  BY DEF LoggingIn, Owed, Restored, Retried
<1>2. IsFiniteSet(Tabs) /\ IsFiniteSet(Calls)  BY DEF AdminSessionAssumption
<1> QED BY <1>1, <1>2, SmallerSet, FS_CardinalityType

\* Nothing is counted anew.
LEMMA CountsKept ==
  ASSUME AdminSessionAssumption, TypeOK, Counted, opened' = opened, issued' = issued,
         LoggingIn' \subseteq LoggingIn, Owed' \subseteq Owed,
         Restored \subseteq Restored', Retried \subseteq Retried'
  PROVE  Counted'
<1>1. /\ Cardinality(LoggingIn') <= Cardinality(LoggingIn)
      /\ Cardinality(Owed') <= Cardinality(Owed)
      /\ Cardinality(Restored) <= Cardinality(Restored')
      /\ Cardinality(Retried) <= Cardinality(Retried')
  BY FiniteSets, FiniteSetsNext, SmallerSet
<1> QED BY <1>1, FiniteSets, FiniteSetsNext DEF Counted, TypeOK, AdminSessionAssumption

-----------------------------------------------------------------------------
(* The steps of the worker.                                                *)

LEMMA RenewSelectSound ==
  ASSUME AdminSessionAssumption, Sound, NEW t \in Tabs, RenewSelect(t)
  PROVE  Sound'
<1> DEFINE s == renewal[t].cookie
<1>1. /\ renewal[t].pc = "select"
      /\ renewal' = [renewal EXCEPT ![t].pc = IF Usable(s) THEN "update" ELSE "denied"]
      /\ rows' = AfterRead(s)
      /\ UNCHANGED <<opened, issued, session, old, version, cookie, tab, user,
                     call, held, faults, logouts>>
  BY DEF RenewSelect
<1>2. TypeOK /\ Unused /\ Counted  BY DEF Sound
<1>3. s \in Sessions \cup {None}  BY <1>2 DEF TypeOK, Renewal
<1>4. TypeOK'
  BY <1>1, <1>2, <1>3 DEF TypeOK, Renewal, AfterRead
<1>5. \A u \in Tabs : (UserPhase(u) /\ RenewalPhase(u) /\ TabPhase(u) /\ OutPhase(u))'
  BY <1>1, <1>2, <1>3 DEF Sound, UserPhase, RenewalPhase, TabPhase, OutPhase, Disowned, TypeOK, Renewal, Usable
<1>6. \A c \in Calls : CallPhase(c)'
  BY <1>1 DEF Sound, CallPhase
<1>7. Unused'  BY <1>1, <1>2 DEF Unused, AfterRead
<1>8. Counted'
  <2>1. /\ LoggingIn' = LoggingIn /\ Retried' = Retried /\ Owed' \subseteq Owed /\ Restored' = Restored
    BY <1>1, <1>2 DEF LoggingIn, Retried, Owed, Restored, TypeOK
  <2> QED BY <1>1, <1>2, <2>1, CountsKept
<1> QED BY <1>4, <1>5, <1>6, <1>7, <1>8 DEF Sound

LEMMA RenewUpdateSound ==
  ASSUME AdminSessionAssumption, Sound, NEW t \in Tabs, RenewUpdate(t)
  PROVE  Sound'
<1> DEFINE s == renewal[t].cookie
<1>1. /\ renewal[t].pc = "update"
      /\ UNCHANGED <<rows, opened, old, version, cookie, tab, user, call, held,
                     faults, logouts>>
  BY DEF RenewUpdate
<1>2. TypeOK /\ Unused /\ Counted  BY DEF Sound
<1>3. s \in Sessions  BY <1>1 DEF Sound, RenewalPhase
<1>4. LoggingIn' = LoggingIn /\ Retried' = Retried  BY <1>1 DEF LoggingIn, Retried
<1>5. CASE rows[s] = None
  <2>1. renewal' = [renewal EXCEPT ![t].pc = "denied"] /\ UNCHANGED <<issued, session>>
    BY <1>5 DEF RenewUpdate
  <2>2. TypeOK'  BY <1>1, <1>2, <2>1 DEF TypeOK, Renewal
  <2>3. \A u \in Tabs : (UserPhase(u) /\ RenewalPhase(u) /\ TabPhase(u) /\ OutPhase(u))'
    BY <1>1, <1>2, <2>1 DEF Sound, UserPhase, RenewalPhase, TabPhase, OutPhase, Disowned,
                            TypeOK, Renewal
  <2>4. (\A c \in Calls : CallPhase(c)') /\ Unused'
    BY <1>1, <1>2, <2>1 DEF Sound, CallPhase, Unused
  <2>5. Owed' \subseteq Owed /\ Restored' = Restored
    BY <1>1, <1>2, <2>1 DEF Owed, Restored, TypeOK
  <2>6. Counted'  BY <1>1, <1>2, <1>4, <2>1, <2>5, CountsKept
  <2> QED BY <2>2, <2>3, <2>4, <2>6 DEF Sound
<1>6. CASE rows[s] # None
  <2>1. /\ IssueToken(s)
        /\ renewal' = [renewal EXCEPT ![t].pc = "ok", ![t].token = issued + 1]
    BY <1>6 DEF RenewUpdate
  <2>2. Owed' = Owed \ {t} /\ t \in Owed /\ Restored' = Restored
    BY <1>1, <1>2, <2>1 DEF Owed, Restored, TypeOK
  <2>3. Cardinality(Owed') = Cardinality(Owed) - 1  BY <2>2, FiniteSets, FS_RemoveElement
  <2>4. issued \in Nat /\ opened \in Nat /\ opened <= MaxSessions /\ MaxSessions \in Nat
    BY <1>2 DEF TypeOK, AdminSessionAssumption, MaxTokens
  <2>5. issued + 1 + Cardinality(Owed') <= MaxTokens
    BY <1>2, <2>3, <2>4, FiniteSets, FiniteSetsNext DEF Counted, MaxTokens
  <2>6. issued + 1 \in Tokens /\ issued + 1 \in 0..MaxTokens
    BY <2>4, <2>5, FiniteSets, FiniteSetsNext DEF Tokens, MaxTokens
  <2>7. TypeOK'
    <3>1. session' \in [Tokens -> Sessions \cup {None}] /\ issued' \in 0..MaxTokens
      BY <1>2, <1>3, <2>1, <2>6 DEF TypeOK, IssueToken
    <3>2. renewal' \in [Tabs -> Renewal]
      <4> DEFINE x == [renewal[t] EXCEPT !.pc = "ok", !.token = issued + 1]
      <4>1. renewal' = [renewal EXCEPT ![t] = x]  BY <1>2, <2>1 DEF TypeOK
      <4>2. x \in Renewal  BY <1>2, <2>6 DEF TypeOK, Renewal
      <4> QED BY <1>2, <4>1, <4>2 DEF TypeOK
    <3> QED BY <1>1, <1>2, <3>1, <3>2 DEF TypeOK
  <2>8. \A u \in Tabs : (UserPhase(u) /\ RenewalPhase(u) /\ TabPhase(u) /\ OutPhase(u))'
    BY <1>1, <1>2, <1>3, <2>1, <2>6 DEF Sound, UserPhase, RenewalPhase, TabPhase, OutPhase,
                                  Disowned, TypeOK, Renewal
  <2>9. \A c \in Calls : CallPhase(c)'
    <3>1. session' = [session EXCEPT ![issued + 1] = s] /\ s # None
      BY <1>3, <2>1 DEF IssueToken, Sessions, None
    <3> QED BY <1>1, <1>2, <3>1 DEF Sound, CallPhase, TypeOK
  <2>10. Unused'  BY <1>1, <1>2, <2>1, <2>4 DEF Unused, IssueToken, TypeOK, Tokens
  <2>11. Counted'
    BY <1>1, <1>2, <1>4, <2>1, <2>2, <2>3, <2>4, FiniteSets, FiniteSetsNext
    DEF Counted, IssueToken
  <2> QED BY <2>7, <2>8, <2>9, <2>10, <2>11 DEF Sound
<1> QED BY <1>5, <1>6

\* Deleting rows disturbs nothing but their types.
LEMMA WithoutRow ==
  ASSUME TypeOK, Unused, NEW s
  PROVE  /\ Without(s) \in [Sessions -> Versions \cup {None}]
         /\ AfterRead(s) \in [Sessions -> Versions \cup {None}]
         /\ \A x \in Sessions : x > opened => Without(s)[x] = None /\ AfterRead(s)[x] = None
BY DEF TypeOK, Unused, Without, AfterRead

LEMMA LoginRevokeSound ==
  ASSUME AdminSessionAssumption, Sound, NEW t \in Tabs, LoginRevoke(t)
  PROVE  Sound'
<1> USE DEF LoginRevoke
<1>1. TypeOK /\ Unused /\ Counted  BY DEF Sound
<1>2. TypeOK'  BY <1>1, WithoutRow DEF TypeOK, User
<1>3. \A u \in Tabs : (UserPhase(u) /\ RenewalPhase(u) /\ TabPhase(u) /\ OutPhase(u))'
  BY <1>1 DEF Sound, UserPhase, RenewalPhase, TabPhase, OutPhase, Disowned, TypeOK, User
<1>4. (\A c \in Calls : CallPhase(c)') /\ Unused'
  BY <1>1, WithoutRow DEF Sound, CallPhase, Unused
<1>5. LoggingIn' = LoggingIn /\ Retried' = Retried /\ Owed' = Owed /\ Restored' = Restored
  BY <1>1 DEF LoggingIn, Retried, Owed, Restored, TypeOK
<1>6. Counted'  BY <1>1, <1>5, CountsKept
<1> QED BY <1>2, <1>3, <1>4, <1>6 DEF Sound

LEMMA LoginInsertSound ==
  ASSUME AdminSessionAssumption, Sound, NEW t \in Tabs, LoginInsert(t)
  PROVE  Sound'
<1>1. /\ user[t].pc = "insert"
      /\ opened' = opened + 1
      /\ rows' = [rows EXCEPT ![opened + 1] = user[t].version]
      /\ issued' = issued + 1
      /\ session' = [session EXCEPT ![issued + 1] = opened + 1]
      /\ user' = [user EXCEPT ![t].pc = "ok", ![t].token = issued + 1]
      /\ UNCHANGED <<old, version, cookie, tab, renewal, call, held, faults, logouts>>
  BY DEF LoginInsert, IssueToken
<1>2. TypeOK /\ Unused /\ Counted  BY DEF Sound
<1>3. /\ LoggingIn' = LoggingIn \ {t} /\ t \in LoggingIn
      /\ Retried' = Retried /\ Owed' = Owed /\ Restored' = Restored
  BY <1>1, <1>2 DEF LoggingIn, Retried, Owed, Restored, TypeOK
<1>4. Cardinality(LoggingIn') = Cardinality(LoggingIn) - 1
  BY <1>3, FiniteSets, FS_RemoveElement
<1>5. issued \in Nat /\ opened \in Nat /\ MaxSessions \in Nat
  BY <1>2 DEF TypeOK, AdminSessionAssumption
<1>6. opened + 1 <= MaxSessions
  BY <1>2, <1>4, <1>5, FiniteSets, FiniteSetsNext DEF Counted
<1>7. issued + 1 <= MaxTokens /\ MaxTokens \in Nat
  BY <1>2, <1>5, <1>6, FiniteSets DEF Counted, MaxTokens
<1>8. opened + 1 \in Sessions /\ issued + 1 \in Tokens
  BY <1>5, <1>6, <1>7 DEF Sessions, Tokens
<1>9. TypeOK'
  <2>1. rows' \in [Sessions -> Versions \cup {None}] /\ opened' \in 0..MaxSessions
    <3>1. user[t].version \in Versions  BY <1>2 DEF TypeOK, User
    <3>2. rows' \in [Sessions -> Versions \cup {None}]  BY <1>1, <1>2, <3>1 DEF TypeOK
    <3>3. opened' \in 0..MaxSessions  BY <1>1, <1>5, <1>6
    <3> QED BY <3>2, <3>3
  <2>2. session' \in [Tokens -> Sessions \cup {None}] /\ issued' \in 0..MaxTokens
    BY <1>1, <1>2, <1>5, <1>7, <1>8 DEF TypeOK
  <2>3. user' \in [Tabs -> User]
    <3> DEFINE x == [user[t] EXCEPT !.pc = "ok", !.token = issued + 1]
    <3>1. user' = [user EXCEPT ![t] = x]  BY <1>1, <1>2 DEF TypeOK
    <3>2. x \in User  BY <1>2, <1>8 DEF TypeOK, User
    <3> QED BY <1>2, <3>1, <3>2 DEF TypeOK
  <2> QED BY <1>1, <1>2, <2>1, <2>2, <2>3 DEF TypeOK
<1>10. \A u \in Tabs : (UserPhase(u) /\ RenewalPhase(u) /\ TabPhase(u) /\ OutPhase(u))'
  BY <1>1, <1>2, <1>8 DEF Sound, UserPhase, RenewalPhase, TabPhase, OutPhase, Disowned,
                        TypeOK, User
<1>11. \A c \in Calls : CallPhase(c)'
  <2>1. opened + 1 # None  BY <1>5 DEF None
  <2> QED BY <1>1, <1>2, <2>1 DEF Sound, CallPhase, TypeOK
<1>12. Unused'  BY <1>1, <1>2, <1>5 DEF Unused, TypeOK, Sessions, Tokens
<1>13. Counted'
  BY <1>1, <1>2, <1>3, <1>4, <1>5, FiniteSets, FiniteSetsNext DEF Counted
<1> QED BY <1>9, <1>10, <1>11, <1>12, <1>13 DEF Sound

LEMMA LogoutDeleteSound ==
  ASSUME AdminSessionAssumption, Sound, NEW t \in Tabs, LogoutDelete(t)
  PROVE  Sound'
<1> USE DEF LogoutDelete
<1>1. TypeOK /\ Unused /\ Counted  BY DEF Sound
<1>2. TypeOK'  BY <1>1, WithoutRow DEF TypeOK, User
<1>3. \A u \in Tabs : (UserPhase(u) /\ RenewalPhase(u) /\ TabPhase(u) /\ OutPhase(u))'
  BY <1>1 DEF Sound, UserPhase, RenewalPhase, TabPhase, OutPhase, Disowned, TypeOK, User
<1>4. (\A c \in Calls : CallPhase(c)') /\ Unused'
  BY <1>1, WithoutRow DEF Sound, CallPhase, Unused
<1>5. LoggingIn' = LoggingIn /\ Retried' = Retried /\ Owed' = Owed /\ Restored' = Restored
  BY <1>1 DEF LoggingIn, Retried, Owed, Restored, TypeOK
<1>6. Counted'  BY <1>1, <1>5, CountsKept
<1> QED BY <1>2, <1>3, <1>4, <1>6 DEF Sound

LEMMA VerifySound ==
  ASSUME AdminSessionAssumption, Sound, NEW c \in Calls, Verify(c)
  PROVE  Sound'
<1> DEFINE k == call[c].header
           s == IF k \in Tokens \ old THEN session[k] ELSE None
<1>1. /\ call[c].pc = "verify"
      /\ rows' = AfterRead(s)
      /\ call' = [call EXCEPT ![c].pc  = IF Usable(s) THEN "ok" ELSE "denied",
                              ![c].ran = IF Usable(s) THEN @ + 1 ELSE @]
      /\ UNCHANGED <<opened, issued, session, old, version, cookie, tab, renewal,
                     user, held, faults, logouts>>
  BY DEF Verify
<1>2. TypeOK /\ Unused /\ Counted /\ CallPhase(c)  BY DEF Sound
<1>3. call[c].ran = 0  BY <1>1, <1>2 DEF CallPhase, TypeOK, Call
<1>4. TypeOK'
  <2>1. rows' \in [Sessions -> Versions \cup {None}]  BY <1>1, <1>2, WithoutRow
  <2>2. call' \in [Calls -> Call]
    <3> DEFINE x == [call[c] EXCEPT !.pc  = IF Usable(s) THEN "ok" ELSE "denied",
                                    !.ran = IF Usable(s) THEN @ + 1 ELSE @]
    <3>1. call' = [call EXCEPT ![c] = x]  BY <1>1, <1>2 DEF TypeOK
    <3>2. x \in Call
      <4> HIDE DEF s
      <4>1. call[c] \in Call  BY <1>2 DEF TypeOK
      <4>2. CASE Usable(s)
        <5>1. x = [call[c] EXCEPT !.pc = "ok", !.ran = 1]  BY <1>3, <4>1, <4>2 DEF Call
        <5>2. 1 \in 0..2  OBVIOUS
        <5> HIDE DEF x
        <5> QED BY <4>1, <5>1, <5>2 DEF Call
      <4>3. CASE ~Usable(s)  BY <1>3, <4>1, <4>3 DEF Call
      <4> QED BY <4>2, <4>3
    <3> QED BY <1>2, <3>1, <3>2 DEF TypeOK
  <2> QED BY <1>1, <1>2, <2>1, <2>2 DEF TypeOK
<1>5. \A u \in Tabs : (UserPhase(u) /\ RenewalPhase(u) /\ TabPhase(u) /\ OutPhase(u))'
  BY <1>1 DEF Sound, UserPhase, RenewalPhase, TabPhase, OutPhase, Disowned
<1>6. \A d \in Calls : CallPhase(d)'
  <2>1. Usable(s) => k \in Tokens /\ session[k] # None  BY DEF Usable
  <2> HIDE DEF s
  <2> QED BY <1>1, <1>2, <1>3, <2>1 DEF Sound, CallPhase, TypeOK, Call
<1>7. Unused'  BY <1>1, <1>2, WithoutRow DEF Unused
<1>8. LoggingIn' = LoggingIn /\ Retried' = Retried /\ Owed' = Owed /\ Restored' = Restored
  BY <1>1, <1>2 DEF LoggingIn, Retried, Owed, Restored, TypeOK
<1>9. Counted'  BY <1>1, <1>2, <1>8, CountsKept
<1> QED BY <1>4, <1>5, <1>6, <1>7, <1>9 DEF Sound

-----------------------------------------------------------------------------
(* The steps of the tabs.                                                  *)

\* A renewal that begins in a tab takes the cookie along.
Fresh == [NoRenewal EXCEPT !.pc = "select", !.cookie = cookie]

LEMMA FreshType ==
  ASSUME TypeOK
  PROVE  /\ Fresh \in Renewal /\ Fresh.pc = "select"
         /\ NoRenewal \in Renewal /\ NoRenewal.pc = "idle"
BY DEF TypeOK, Fresh, NoRenewal, Renewal, None

LEMMA RestoreSound ==
  ASSUME AdminSessionAssumption, Sound, NEW t \in Tabs, Restore(t)
  PROVE  Sound'
<1>1. /\ tab[t].restoring /\ renewal[t].pc = "idle"
      /\ renewal' = [renewal EXCEPT ![t] = Fresh]
      /\ UNCHANGED <<server, old, version, cookie, tab, user, call, held, faults, logouts>>
  BY DEF Restore, Renewing, Fresh
<1>2. TypeOK /\ Unused /\ Counted  BY DEF Sound
<1>3. /\ UNCHANGED <<rows, opened, issued, session>>  BY <1>1 DEF server
<1>4. TypeOK'  BY <1>1, <1>2, <1>3, FreshType DEF TypeOK
<1>5. \A u \in Tabs : (UserPhase(u) /\ RenewalPhase(u) /\ TabPhase(u) /\ OutPhase(u))'
  <2> SUFFICES ASSUME NEW u \in Tabs
               PROVE  (UserPhase(u) /\ RenewalPhase(u) /\ TabPhase(u) /\ OutPhase(u))'
    OBVIOUS
  <2>1. UserPhase(u) /\ RenewalPhase(u) /\ TabPhase(u) /\ OutPhase(u)  BY DEF Sound
  <2>2. renewal'[u] = IF u = t THEN Fresh ELSE renewal[u]  BY <1>1, <1>2 DEF TypeOK
  <2> QED BY <1>1, <1>2, <1>3, <2>1, <2>2, FreshType
          DEF UserPhase, RenewalPhase, TabPhase, OutPhase, Disowned
<1>6. (\A c \in Calls : CallPhase(c)') /\ Unused'
  BY <1>1, <1>3 DEF Sound, CallPhase, Unused
<1>7. /\ LoggingIn' = LoggingIn /\ Retried' = Retried
      /\ Owed' = Owed \cup {t} /\ t \notin Owed
      /\ Restored' = Restored \cup {t} /\ t \notin Restored
  BY <1>1, <1>2, FreshType DEF LoggingIn, Retried, Owed, Restored, TypeOK
<1>8. /\ Cardinality(Owed') = Cardinality(Owed) + 1
      /\ Cardinality(Restored') = Cardinality(Restored) + 1
  BY <1>7, FiniteSets, FS_AddElement
<1>9. Counted'
  BY <1>2, <1>3, <1>7, <1>8, FiniteSets, FiniteSetsNext DEF Counted, TypeOK
<1> QED BY <1>4, <1>5, <1>6, <1>9 DEF Sound

\* What Begin changes in any case.
LEMMA BeginType ==
  ASSUME AdminSessionAssumption, TypeOK, NEW t \in Tabs,
         NEW kind \in {"login", "logout"}, NEW pc \in {"revoke", "delete"},
         Begin(t, kind, pc)
  PROVE  /\ user[t].pc = "idle" /\ ~tab[t].restoring
         /\ user' \in [Tabs -> User] /\ renewal' \in [Tabs -> Renewal]
         /\ \A u \in Tabs \ {t} : user'[u] = user[u] /\ renewal'[u] = renewal[u]
         /\ user'[t].pc = pc /\ user'[t].kind = kind
         /\ renewal'[t].pc = renewal[t].pc /\ renewal'[t].cookie = renewal[t].cookie
         /\ renewal'[t].token = renewal[t].token
         /\ renewal'[t].pc # "idle" => ~renewal'[t].same
         /\ held' = None
         /\ UNCHANGED <<rows, opened, issued, session, old, version, cookie, call, faults>>
<1> USE DEF Begin, Superseded
<1>1. user' \in [Tabs -> User]  BY DEF TypeOK, User, None
<1>2. renewal' \in [Tabs -> Renewal]
  <2> DEFINE same == renewal[t].same /\ renewal[t].pc = "idle"
  <2>1. renewal' = [renewal EXCEPT ![t] = [renewal[t] EXCEPT !.same = same]]
    BY DEF TypeOK
  <2>2. same \in BOOLEAN  OBVIOUS
  <2> HIDE DEF same
  <2>3. [renewal[t] EXCEPT !.same = same] \in Renewal  BY <2>2 DEF TypeOK, Renewal
  <2> QED BY <2>1, <2>3 DEF TypeOK
<1> QED BY <1>1, <1>2 DEF TypeOK, server, Renewal

LEMMA LoginSound ==
  ASSUME AdminSessionAssumption, Sound, NEW t \in Tabs, Login(t)
  PROVE  Sound'
<1>1. /\ opened + Cardinality(LoggingIn) < MaxSessions
      /\ Begin(t, "login", "revoke")
      /\ tab' = [tab EXCEPT ![t].out = FALSE]
      /\ UNCHANGED logouts
  BY DEF Login
<1>2. TypeOK /\ Unused /\ Counted  BY DEF Sound
<1>0. tab' \in [Tabs -> Tab]  BY <1>1, <1>2 DEF TypeOK, Tab
<1> USE <1>1, <1>2, BeginType
<1>3. TypeOK'
  <2>2. held' \in Sessions \cup {None}  OBVIOUS
  <2> QED BY <1>0, <2>2 DEF TypeOK
<1>4. \A u \in Tabs : (UserPhase(u) /\ RenewalPhase(u) /\ TabPhase(u) /\ OutPhase(u))'
  <2> SUFFICES ASSUME NEW u \in Tabs
               PROVE  (UserPhase(u) /\ RenewalPhase(u) /\ TabPhase(u) /\ OutPhase(u))'
    OBVIOUS
  <2>1. UserPhase(u) /\ RenewalPhase(u) /\ TabPhase(u) /\ OutPhase(u)  BY DEF Sound
  <2>2. tab'[u] = IF u = t THEN [tab[u] EXCEPT !.out = FALSE] ELSE tab[u]  BY DEF TypeOK
  <2>3. tab[u] \in Tab  BY DEF TypeOK
  <2> QED BY <2>1, <2>2, <2>3
          DEF UserPhase, RenewalPhase, TabPhase, OutPhase, Disowned, Tab
<1>5. \A c \in Calls : CallPhase(c)'
  <2>1. \A u \in Tabs : tab'[u].restoring = tab[u].restoring  BY DEF TypeOK, Tab
  <2>2. \A c \in Calls : call[c].tab \in Tabs  BY DEF TypeOK, Call
  <2> QED BY <2>1, <2>2 DEF Sound, CallPhase
<1>6. Unused'  BY DEF Unused
<1>7. /\ LoggingIn' = LoggingIn \cup {t} /\ t \notin LoggingIn
      /\ Retried' = Retried /\ Owed' = Owed /\ Restored' = Restored
  BY DEF LoggingIn, Retried, Owed, Restored, TypeOK, Tab
<1>8. Cardinality(LoggingIn') = Cardinality(LoggingIn) + 1
  BY <1>7, FiniteSets, FS_AddElement
<1>9. Counted'
  BY <1>7, <1>8, FiniteSets, FiniteSetsNext DEF Counted, TypeOK, AdminSessionAssumption
<1> QED BY <1>3, <1>4, <1>5, <1>6, <1>9 DEF Sound

LEMMA LogoutSound ==
  ASSUME AdminSessionAssumption, Sound, NEW t \in Tabs, Logout(t)
  PROVE  Sound'
<1>1. /\ logouts < MaxLogouts /\ logouts' = logouts + 1
      /\ Begin(t, "logout", "delete")
      /\ tab' = [tab EXCEPT ![t].closing = TRUE]
  BY DEF Logout
<1>2. TypeOK /\ Unused /\ Counted  BY DEF Sound
<1>0. tab' \in [Tabs -> Tab]  BY <1>1, <1>2 DEF TypeOK, Tab
<1> USE <1>1, <1>2, BeginType
<1>3. TypeOK'
  <2>2. held' \in Sessions \cup {None}  OBVIOUS
  <2>3. logouts' \in 0..MaxLogouts  BY DEF TypeOK, AdminSessionAssumption
  <2> QED BY <1>0, <2>2, <2>3 DEF TypeOK
<1>4. \A u \in Tabs : (UserPhase(u) /\ RenewalPhase(u) /\ TabPhase(u) /\ OutPhase(u))'
  <2> SUFFICES ASSUME NEW u \in Tabs
               PROVE  (UserPhase(u) /\ RenewalPhase(u) /\ TabPhase(u) /\ OutPhase(u))'
    OBVIOUS
  <2>1. UserPhase(u) /\ RenewalPhase(u) /\ TabPhase(u) /\ OutPhase(u)  BY DEF Sound
  <2>2. tab'[u] = IF u = t THEN [tab[u] EXCEPT !.closing = TRUE] ELSE tab[u]
    BY DEF TypeOK
  <2>3. tab[u] \in Tab  BY DEF TypeOK
  <2> QED BY <2>1, <2>2, <2>3
          DEF UserPhase, RenewalPhase, TabPhase, OutPhase, Disowned, Tab
<1>5. \A c \in Calls : CallPhase(c)'
  <2>1. \A u \in Tabs : tab'[u].restoring = tab[u].restoring  BY DEF TypeOK, Tab
  <2>2. \A c \in Calls : call[c].tab \in Tabs  BY DEF TypeOK, Call
  <2> QED BY <2>1, <2>2 DEF Sound, CallPhase
<1>6. Unused'  BY DEF Unused
<1>7. /\ LoggingIn' = LoggingIn /\ Retried' = Retried /\ Owed' = Owed
      /\ Restored' = Restored
  <2>1. LoggingIn' = LoggingIn /\ Retried' = Retried  BY DEF LoggingIn, Retried
  <2>2. \A u \in Tabs : /\ tab'[u].restoring = tab[u].restoring
                        /\ renewal'[u].pc = renewal[u].pc
    BY DEF TypeOK, Tab
  <2> QED BY <2>1, <2>2 DEF Owed, Restored
<1>8. Counted'  BY <1>7, CountsKept
<1> QED BY <1>3, <1>4, <1>5, <1>6, <1>8 DEF Sound

\* The answer ends the login or the sign-out.
LEMMA AnsweredSound ==
  ASSUME AdminSessionAssumption, Sound, NEW t \in Tabs, Answered(t)
  PROVE  Sound'
<1> DEFINE k == user[t].token
           In  == /\ user[t].pc = "ok" /\ user[t].kind = "login"
                  /\ cookie' = session[k]
                  /\ tab' = [tab EXCEPT ![t].auth = k, ![t].show = FALSE, ![t].out = FALSE]
                  /\ held' \in {session[k], None}
           Out == /\ user[t].pc = "ok" /\ user[t].kind = "logout"
                  /\ cookie' = None
                  /\ tab' = [tab EXCEPT ![t].auth = None, ![t].show = TRUE,
                                        ![t].closing = FALSE, ![t].out = TRUE]
                  /\ UNCHANGED held
           Bad == /\ user[t].pc = "failed"
                  /\ tab' = [tab EXCEPT ![t].closing = FALSE]
                  /\ UNCHANGED <<cookie, held>>
<1>1. TypeOK /\ Unused /\ Counted  BY DEF Sound
<1>2. /\ user[t].pc \in {"ok", "failed"}
      /\ user' = [user EXCEPT ![t] = Idle]
      /\ UNCHANGED <<rows, opened, issued, session, old, version, renewal, call, faults,
                     logouts>>
  BY DEF Answered, server
<1>3. In \/ Out \/ Bad
  <2>1. user[t].kind \in {"login", "logout"}  BY <1>1 DEF TypeOK, User
  <2> QED BY <2>1 DEF Answered
<1>4. /\ UserPhase(t) /\ RenewalPhase(t) /\ TabPhase(t) /\ OutPhase(t)
      /\ user[t] \in User /\ tab[t] \in Tab
  BY <1>1 DEF Sound, TypeOK
<1>5. ~tab[t].restoring  BY <1>2, <1>4 DEF TabPhase
<1>6. /\ tab' \in [Tabs -> Tab]
      /\ \A u \in Tabs \ {t} : tab'[u] = tab[u]
      /\ tab'[t].restoring = tab[t].restoring
      /\ tab'[t].out => /\ tab'[t].auth = None
                        /\ tab[t].out \/ user[t].kind = "logout"
  <2>1. CASE In  BY <1>1, <1>4, <2>1 DEF TypeOK, Tab, UserPhase
  <2>2. CASE Out  BY <1>1, <1>4, <2>2 DEF TypeOK, Tab
  <2>3. CASE Bad  BY <1>1, <1>4, <2>3 DEF TypeOK, Tab, OutPhase
  <2> QED BY <1>3, <2>1, <2>2, <2>3
<1>7. cookie' \in Sessions \cup {None} /\ held' \in Sessions \cup {None}
  <2>1. CASE In  BY <1>1, <1>4, <2>1 DEF TypeOK, UserPhase
  <2>2. CASE Out  BY <1>1, <2>2 DEF TypeOK
  <2>3. CASE Bad  BY <1>1, <2>3 DEF TypeOK
  <2> QED BY <1>3, <2>1, <2>2, <2>3
<1>8. Idle \in User /\ Idle.pc = "idle"
  BY DEF Idle, User, Versions, AdminSessionAssumption, None
<1>9. TypeOK'  BY <1>1, <1>2, <1>6, <1>7, <1>8 DEF TypeOK
<1>10. \A u \in Tabs : (UserPhase(u) /\ RenewalPhase(u) /\ TabPhase(u) /\ OutPhase(u))'
  <2> SUFFICES ASSUME NEW u \in Tabs
               PROVE  (UserPhase(u) /\ RenewalPhase(u) /\ TabPhase(u) /\ OutPhase(u))'
    OBVIOUS
  <2>1. UserPhase(u) /\ RenewalPhase(u) /\ TabPhase(u) /\ OutPhase(u)  BY DEF Sound
  <2>2. user'[u] = IF u = t THEN Idle ELSE user[u]  BY <1>1, <1>2 DEF TypeOK
  <2>3. CASE u # t
    BY <1>2, <1>6, <2>1, <2>2, <2>3
    DEF UserPhase, RenewalPhase, TabPhase, OutPhase, Disowned
  <2>4. CASE u = t
    <3> USE <2>4
    <3>1. UserPhase(u)' /\ RenewalPhase(u)' /\ TabPhase(u)'
      BY <1>2, <1>5, <1>6, <1>8, <2>1, <2>2 DEF UserPhase, RenewalPhase, TabPhase
    <3>2. OutPhase(u)'
      BY <1>2, <1>5, <1>6, <1>8, <2>1, <2>2 DEF OutPhase, Disowned
    <3> QED BY <3>1, <3>2
  <2> QED BY <2>3, <2>4
<1>11. \A c \in Calls : CallPhase(c)'
  <2>1. \A c \in Calls : call[c].tab \in Tabs  BY <1>1 DEF TypeOK, Call
  <2> QED BY <1>2, <1>6, <2>1 DEF Sound, CallPhase
<1>12. Unused'  BY <1>1, <1>2 DEF Unused
<1>13. /\ LoggingIn' \subseteq LoggingIn /\ Retried' = Retried /\ Owed' = Owed
       /\ Restored' = Restored
  BY <1>1, <1>2, <1>6, <1>8 DEF LoggingIn, Retried, Owed, Restored, TypeOK
<1>14. Counted'  BY <1>1, <1>2, <1>13, CountsKept
<1> QED BY <1>9, <1>10, <1>11, <1>12, <1>14 DEF Sound

\* The answer to a renewal lets go of every request that waits for it.
LEMMA RenewSettlesSound ==
  ASSUME AdminSessionAssumption, Sound, NEW t \in Tabs, RenewSettles(t)
  PROVE  Sound'
<1>1. TypeOK /\ Unused /\ Counted  BY DEF Sound
<1>2. /\ renewal[t].pc \in {"ok", "denied", "failed"}
      /\ renewal' = [renewal EXCEPT ![t] = NoRenewal]
      /\ cookie' = CASE renewal[t].pc = "ok"     -> renewal[t].cookie
                     [] renewal[t].pc = "denied" -> None
                     [] OTHER                    -> cookie
      /\ UNCHANGED <<rows, opened, issued, session, old, version, user, held, faults,
                     logouts>>
  BY DEF RenewSettles, server
<1>3. /\ UserPhase(t) /\ RenewalPhase(t) /\ TabPhase(t) /\ OutPhase(t)
      /\ renewal[t] \in Renewal /\ tab[t] \in Tab
  BY <1>1 DEF Sound, TypeOK
<1>4. /\ tab' \in [Tabs -> Tab]
      /\ \A u \in Tabs \ {t} : tab'[u] = tab[u]
      /\ ~tab'[t].restoring /\ tab'[t].out = tab[t].out /\ tab'[t].closing = tab[t].closing
      /\ tab[t].out => tab'[t].auth = None
  <2> DEFINE x == CASE Accepted(t) ->
                         [tab[t] EXCEPT !.auth = renewal[t].token, !.show = FALSE,
                                        !.restoring = FALSE]
                    [] renewal[t].pc = "denied" /\ WaitingIn(t) # {} ->
                         [tab[t] EXCEPT !.auth = None, !.show = TRUE, !.restoring = FALSE]
                    [] OTHER -> [tab[t] EXCEPT !.restoring = FALSE]
  <2>1. tab' = [tab EXCEPT ![t] = x]  BY <1>1 DEF RenewSettles, TypeOK
  <2>2. /\ x \in Tab /\ ~x.restoring /\ x.out = tab[t].out /\ x.closing = tab[t].closing
        /\ tab[t].out => x.auth = None
    <3>1. CASE Accepted(t)
      BY <1>2, <1>3, <3>1 DEF Accepted, Tab, RenewalPhase, OutPhase, Disowned
    <3>2. CASE ~Accepted(t) /\ renewal[t].pc = "denied" /\ WaitingIn(t) # {}
      BY <1>3, <3>2 DEF Tab
    <3>3. CASE ~Accepted(t) /\ ~(renewal[t].pc = "denied" /\ WaitingIn(t) # {})
      BY <1>3, <3>3 DEF Tab, OutPhase
    <3> QED BY <3>1, <3>2, <3>3
  <2> HIDE DEF x
  <2> QED BY <1>1, <2>1, <2>2 DEF TypeOK
<1>5. /\ call' \in [Calls -> Call]
      /\ \A c \in Calls :
           call'[c] \in {call[c], [call[c] EXCEPT !.pc = "begin", !.retried = TRUE],
                         [call[c] EXCEPT !.pc = "done"]}
      /\ \A c \in Calls : call'[c] # call[c] => call[c].pc = "waiting"
  <2> DEFINE begun(c) == [call[c] EXCEPT !.pc = "begin", !.retried = TRUE]
             done(c)  == [call[c] EXCEPT !.pc = "done"]
             F(c)     == IF c \notin WaitingIn(t) THEN call[c]
                         ELSE IF Accepted(t) THEN begun(c) ELSE done(c)
  <2>0. call' = [c \in Calls |-> F(c)]  BY DEF RenewSettles
  <2>1. \A c \in Calls : /\ call'[c] \in {call[c], begun(c), done(c)}
                         /\ call'[c] # call[c] => call[c].pc = "waiting"
    <3> SUFFICES ASSUME NEW c \in Calls
                 PROVE  /\ F(c) \in {call[c], begun(c), done(c)}
                        /\ F(c) # call[c] => call[c].pc = "waiting"
      BY <2>0
    <3> HIDE DEF begun, done
    <3>1. c \in WaitingIn(t) => call[c].pc = "waiting"  BY DEF WaitingIn
    <3> QED BY <3>1
  <2>2. \A c \in Calls : call'[c] \in Call
    <3> SUFFICES ASSUME NEW c \in Calls PROVE call'[c] \in Call  OBVIOUS
    <3>1. call[c] \in Call  BY <1>1 DEF TypeOK
    <3>2. begun(c) \in Call  BY <3>1 DEF Call
    <3>3. done(c) \in Call  BY <3>1 DEF Call
    <3> QED BY <2>1, <3>1, <3>2, <3>3
  <2>3. call' \in [Calls -> Call]
    <3> HIDE DEF F
    <3> QED BY <2>0, <2>2
  <2> QED BY <2>1, <2>3
<1>6. cookie' \in Sessions \cup {None}
  BY <1>1, <1>2, <1>3 DEF TypeOK, RenewalPhase
<1>7. NoRenewal \in Renewal /\ NoRenewal.pc = "idle"  BY <1>1, FreshType
<1>8. TypeOK'  BY <1>1, <1>2, <1>4, <1>5, <1>6, <1>7 DEF TypeOK
<1>9. \A u \in Tabs : (UserPhase(u) /\ RenewalPhase(u) /\ TabPhase(u) /\ OutPhase(u))'
  <2> SUFFICES ASSUME NEW u \in Tabs
               PROVE  (UserPhase(u) /\ RenewalPhase(u) /\ TabPhase(u) /\ OutPhase(u))'
    OBVIOUS
  <2>1. UserPhase(u) /\ RenewalPhase(u) /\ TabPhase(u) /\ OutPhase(u)  BY DEF Sound
  <2>2. renewal'[u] = IF u = t THEN NoRenewal ELSE renewal[u]  BY <1>1, <1>2 DEF TypeOK
  <2>3. user' = user  BY <1>2
  <2>4. CASE u # t
    BY <1>4, <2>1, <2>2, <2>3, <2>4
    DEF UserPhase, RenewalPhase, TabPhase, OutPhase, Disowned
  <2>5. CASE u = t
    BY <1>4, <1>7, <2>1, <2>2, <2>3, <2>5
    DEF UserPhase, RenewalPhase, TabPhase, OutPhase, Disowned
  <2> QED BY <2>4, <2>5
<1>10. \A c \in Calls : CallPhase(c)'
  <2> SUFFICES ASSUME NEW c \in Calls PROVE CallPhase(c)'  OBVIOUS
  <2>1. CallPhase(c) /\ call[c] \in Call  BY <1>1 DEF Sound, TypeOK
  <2>2. ~tab[call[c].tab].restoring => ~tab'[call[c].tab].restoring
    BY <1>4, <2>1 DEF Call
  <2>3. CASE call'[c] = call[c]  BY <1>2, <2>1, <2>2, <2>3 DEF CallPhase
  <2>4. CASE call'[c] # call[c]
    <3>1. call[c].pc = "waiting" /\ call[c].ran = 0  BY <1>5, <2>1, <2>4 DEF CallPhase
    <3>2. call'[c].ran = 0 /\ call'[c].tab = call[c].tab
      BY <1>5, <2>1, <3>1 DEF Call
    <3> QED BY <2>1, <2>2, <3>1, <3>2 DEF CallPhase
  <2> QED BY <2>3, <2>4
<1>11. Unused'  BY <1>1, <1>2 DEF Unused
<1>12. LoggingIn' = LoggingIn  BY <1>2 DEF LoggingIn
<1>13. Owed' \subseteq Owed /\ Restored \subseteq Restored'
  BY <1>1, <1>2, <1>4, <1>7 DEF Owed, Restored, TypeOK
<1>14. Retried \subseteq Retried'
  <2> SUFFICES ASSUME NEW c \in Retried PROVE c \in Retried'  OBVIOUS
  <2>1. c \in Calls /\ call[c] \in Call  BY <1>1 DEF Retried, TypeOK
  <2>2. call'[c].retried \/ call'[c].pc = "done" \/ call'[c] = call[c]
    BY <1>5, <2>1 DEF Call
  <2> QED BY <2>1, <2>2 DEF Retried
<1>15. Counted'  BY <1>1, <1>2, <1>12, <1>13, <1>14, CountsKept
<1> QED BY <1>8, <1>9, <1>10, <1>11, <1>15 DEF Sound

\* A request that is started, sent or answered changes nothing else.
LEMMA CallSound ==
  ASSUME AdminSessionAssumption, Sound, NEW c \in Calls,
         Start(c) \/ Send(c) \/ Succeeds(c)
  PROVE  Sound'
<1>1. TypeOK /\ Unused /\ Counted /\ CallPhase(c)  BY DEF Sound
<1>2. /\ UNCHANGED <<rows, opened, issued, session, old, version, cookie, tab, renewal,
                     user, held, faults, logouts>>
  BY DEF Start, Send, Succeeds, server
<1>3. PICK x \in Call :
        /\ call' = [call EXCEPT ![c] = x]
        /\ x.tab = call[c].tab /\ x.ran = call[c].ran
        /\ call[c].retried => x.retried
        /\ call[c].pc \notin {"waiting", "done"}
        /\ call[c].pc = "idle" => ~tab[call[c].tab].restoring
        /\ x.ran # 0 => x.pc = "done" /\ x.header = call[c].header
  <2>1. call[c] \in Call  BY <1>1 DEF TypeOK
  <2>2. tab[call[c].tab] \in Tab /\ TabPhase(call[c].tab)  BY <1>1, <2>1 DEF TypeOK, Call, Sound
  <2>3. CASE Start(c)
    <3> DEFINE x == [call[c] EXCEPT !.pc = "begin"]
    <3>1. x \in Call  BY <2>1 DEF Call
    <3> QED BY <1>1, <2>1, <2>2, <2>3, <3>1 DEF Start, TypeOK, Call, CallPhase, TabPhase
  <2>4. CASE Send(c)
    <3> DEFINE x == [call[c] EXCEPT !.pc = "verify", !.header = tab[call[c].tab].auth]
    <3>1. x \in Call  BY <2>1, <2>2 DEF Call, Tab
    <3> QED BY <1>1, <2>1, <2>2, <2>4, <3>1 DEF Send, TypeOK, Call, CallPhase
  <2>5. CASE Succeeds(c)
    <3> DEFINE x == [call[c] EXCEPT !.pc = "done"]
    <3>1. x \in Call  BY <2>1 DEF Call
    <3> QED BY <1>1, <2>1, <2>2, <2>5, <3>1 DEF Succeeds, TypeOK, Call
  <2> QED BY <2>3, <2>4, <2>5
<1>4. TypeOK'  BY <1>1, <1>2, <1>3 DEF TypeOK
<1>5. \A u \in Tabs : (UserPhase(u) /\ RenewalPhase(u) /\ TabPhase(u) /\ OutPhase(u))'
  BY <1>2 DEF Sound, UserPhase, RenewalPhase, TabPhase, OutPhase, Disowned
<1>6. \A d \in Calls : CallPhase(d)'
  BY <1>1, <1>2, <1>3 DEF Sound, CallPhase, TypeOK
<1>7. Unused'  BY <1>1, <1>2 DEF Unused
<1>8. /\ LoggingIn' = LoggingIn /\ Owed' = Owed /\ Restored' = Restored
      /\ Retried \subseteq Retried'
  BY <1>1, <1>2, <1>3 DEF LoggingIn, Retried, Owed, Restored, TypeOK
<1>9. Counted'  BY <1>1, <1>2, <1>8, CountsKept
<1> QED BY <1>4, <1>5, <1>6, <1>7, <1>9 DEF Sound

\* A denial signs the tab out, is retried with another token, or waits for a renewal,
\* which is the retry of the request.
LEMMA DeniedSound ==
  ASSUME AdminSessionAssumption, Sound, NEW c \in Calls, Denied(c)
  PROVE  Sound'
<1> DEFINE t    == call[c].tab
           Last == /\ call' = [call EXCEPT ![c].pc = "done"]
                   /\ tab' = [tab EXCEPT ![t].auth = None, ![t].show = TRUE]
                   /\ UNCHANGED renewal
           Other == /\ call' = [call EXCEPT ![c].pc = "begin", ![c].retried = TRUE]
                    /\ UNCHANGED <<tab, renewal>>
           Refused == /\ call' = [call EXCEPT ![c].pc = "done"]
                      /\ UNCHANGED <<tab, renewal>>
           Waits == /\ ~call[c].retried
                    /\ ~tab[t].closing
                    /\ call' = [call EXCEPT ![c].pc = "waiting"]
                    /\ renewal' = Renewing(t)
                    /\ tab' = [tab EXCEPT ![t].out = @ /\ renewal[t].pc # "idle"]
<1>1. TypeOK /\ Unused /\ Counted /\ CallPhase(c)  BY DEF Sound
<1>2. /\ call[c].pc = "denied"
      /\ UNCHANGED <<rows, opened, issued, session, old, version, cookie, user, held,
                     faults, logouts>>
  BY DEF Denied, server
<1>3. Last \/ Other \/ Refused \/ Waits
  BY DEF Denied
<1>4. /\ call[c] \in Call /\ t \in Tabs /\ tab[t] \in Tab /\ ~tab[t].restoring
      /\ call[c].ran = 0
  BY <1>1, <1>2 DEF TypeOK, Call, CallPhase
<1>5. PICK x \in Call :
        /\ call' = [call EXCEPT ![c] = x]
        /\ x.tab = t /\ x.ran = 0
        /\ x.pc \in {"begin", "waiting", "done"} /\ (x.pc = "begin" => x.retried)
  <2> HIDE DEF t
  <2>1. [call[c] EXCEPT !.pc = "done"] \in Call  BY <1>4 DEF Call
  <2>2. [call[c] EXCEPT !.pc = "waiting"] \in Call  BY <1>4 DEF Call
  <2>3. [call[c] EXCEPT !.pc = "begin", !.retried = TRUE] \in Call  BY <1>4 DEF Call
  <2>4. CASE Last \/ Refused
    BY <1>1, <1>4, <2>1, <2>4 DEF TypeOK, Call, t
  <2>5. CASE Waits  BY <1>1, <1>4, <2>2, <2>5 DEF TypeOK, Call, t
  <2>6. CASE Other  BY <1>1, <1>4, <2>3, <2>6 DEF TypeOK, Call, t
  <2> QED BY <1>3, <2>4, <2>5, <2>6
<1>6. /\ tab' \in [Tabs -> Tab]
      /\ \A u \in Tabs : /\ tab'[u].restoring = tab[u].restoring
                         /\ tab'[u].closing = tab[u].closing
                         /\ tab'[u].auth \in {tab[u].auth, None}
                         /\ tab'[u].out => tab[u].out /\ renewal'[u] = renewal[u]
  <2> HIDE DEF t
  <2>1. CASE Last  BY <1>1, <1>4, <2>1 DEF TypeOK, Tab
  <2>2. CASE Other \/ Refused  BY <1>1, <2>2 DEF TypeOK
  <2>3. CASE Waits
    <3> DEFINE out == tab[t].out /\ renewal[t].pc # "idle"
               y   == [tab[t] EXCEPT !.out = out]
    <3>1. tab' = [tab EXCEPT ![t] = y]  BY <1>1, <2>3 DEF TypeOK
    <3>2. out \in BOOLEAN  OBVIOUS
    <3>3. /\ y \in Tab /\ y.restoring = tab[t].restoring /\ y.closing = tab[t].closing
          /\ y.auth = tab[t].auth /\ y.out = out
      <4> HIDE DEF out
      <4> QED BY <1>4, <3>2 DEF Tab
    <3>4. /\ \A u \in Tabs \ {t} : renewal'[u] = renewal[u]
          /\ out => renewal'[t] = renewal[t]
      BY <1>1, <1>4, <2>3 DEF Renewing, TypeOK
    <3> HIDE DEF y, out
    <3>5. tab' \in [Tabs -> Tab]  BY <1>1, <3>1, <3>3 DEF TypeOK
    <3>6. \A u \in Tabs : tab'[u] = IF u = t THEN y ELSE tab[u]  BY <1>1, <3>1 DEF TypeOK
    <3> QED BY <3>3, <3>4, <3>5, <3>6 DEF out
  <2> QED BY <1>3, <2>1, <2>2, <2>3
<1>7. \/ /\ renewal[t].pc = "idle" /\ ~call[c].retried /\ x.pc = "waiting"
         /\ ~tab[t].closing
         /\ renewal' = [renewal EXCEPT ![t] = Fresh]
      \/ renewal' = renewal
  <2>1. CASE Waits  BY <1>1, <1>4, <1>5, <2>1 DEF Renewing, Fresh, TypeOK, Call
  <2> QED BY <1>3, <2>1
<1>8. TypeOK'
  <2>1. renewal' \in [Tabs -> Renewal]  BY <1>1, <1>7, FreshType DEF TypeOK
  <2> QED BY <1>1, <1>2, <1>5, <1>6, <2>1 DEF TypeOK
<1>9. \A u \in Tabs : (UserPhase(u) /\ RenewalPhase(u) /\ TabPhase(u) /\ OutPhase(u))'
  <2> SUFFICES ASSUME NEW u \in Tabs
               PROVE  (UserPhase(u) /\ RenewalPhase(u) /\ TabPhase(u) /\ OutPhase(u))'
    OBVIOUS
  <2>1. UserPhase(u) /\ RenewalPhase(u) /\ TabPhase(u) /\ OutPhase(u)  BY DEF Sound
  <2>2. \/ renewal'[u] = renewal[u]
        \/ renewal'[u] = Fresh /\ ~tab[u].closing
    BY <1>1, <1>4, <1>7 DEF TypeOK
  <2>3. UserPhase(u)' /\ RenewalPhase(u)'
    BY <1>1, <1>2, <2>1, <2>2, FreshType DEF UserPhase, RenewalPhase
  <2>4. TabPhase(u)'  BY <1>2, <1>6, <2>1 DEF TabPhase
  <2>5. OutPhase(u)'  BY <1>2, <1>6, <2>1, <2>2 DEF OutPhase, Disowned
  <2> QED BY <2>3, <2>4, <2>5
<1>10. \A d \in Calls : CallPhase(d)'
  <2> SUFFICES ASSUME NEW d \in Calls PROVE CallPhase(d)'  OBVIOUS
  <2>1. CallPhase(d) /\ call[d].tab \in Tabs  BY <1>1 DEF Sound, TypeOK, Call
  <2>2. call'[d] = IF d = c THEN x ELSE call[d]  BY <1>1, <1>5 DEF TypeOK
  <2> QED BY <1>2, <1>4, <1>5, <1>6, <2>1, <2>2 DEF CallPhase
<1>11. Unused'  BY <1>1, <1>2 DEF Unused
<1>12. LoggingIn' = LoggingIn  BY <1>2 DEF LoggingIn
<1>13. Retried \subseteq Retried' /\ c \in Retried'
  <2>1. \A d \in Calls : call'[d] = IF d = c THEN x ELSE call[d]
    BY <1>1, <1>5 DEF TypeOK
  <2>2. c \in Retried'  BY <1>5, <2>1 DEF Retried
  <2> QED BY <2>1, <2>2 DEF Retried
<1>14. Counted'
  <2>1. CASE renewal' = renewal
    <3>1. Owed' = Owed /\ Restored' = Restored  BY <1>6, <2>1 DEF Owed, Restored
    <3> QED BY <1>1, <1>2, <1>12, <1>13, <3>1, CountsKept
  <2>2. CASE renewal' # renewal
    <3>1. /\ renewal[t].pc = "idle" /\ ~call[c].retried
          /\ renewal' = [renewal EXCEPT ![t] = Fresh]
      BY <1>7, <2>2
    <3>2. Owed' = Owed \cup {t} /\ t \notin Owed /\ Restored \subseteq Restored'
      BY <1>1, <1>4, <1>6, <3>1, FreshType DEF Owed, Restored, TypeOK
    <3>3. c \notin Retried  BY <1>2, <3>1 DEF Retried
    <3>4. Cardinality(Owed') = Cardinality(Owed) + 1
      BY <3>2, FiniteSets, FS_AddElement
    <3>5. Cardinality(Retried \cup {c}) = Cardinality(Retried) + 1
      BY <3>3, FiniteSets, FS_AddElement
    <3>6. /\ Cardinality(Retried \cup {c}) <= Cardinality(Retried')
          /\ Cardinality(Restored) <= Cardinality(Restored')
      BY <1>13, <3>2, FiniteSetsNext, SmallerSet
    <3> QED BY <1>1, <1>2, <1>12, <3>4, <3>5, <3>6, FiniteSets, FiniteSetsNext
            DEF Counted, TypeOK
  <2> QED BY <2>1, <2>2
<1> QED BY <1>8, <1>9, <1>10, <1>11, <1>14 DEF Sound

-----------------------------------------------------------------------------
(* Time, configuration and failures.                                       *)

LEMMA SessionExpiresSound ==
  ASSUME AdminSessionAssumption, Sound, NEW s \in Sessions, SessionExpires(s)
  PROVE  Sound'
<1> USE DEF SessionExpires
<1>1. TypeOK /\ Unused /\ Counted  BY DEF Sound
<1>2. TypeOK'  BY <1>1, WithoutRow DEF TypeOK
<1>3. \A u \in Tabs : (UserPhase(u) /\ RenewalPhase(u) /\ TabPhase(u) /\ OutPhase(u))'
  BY DEF Sound, UserPhase, RenewalPhase, TabPhase, OutPhase, Disowned
<1>4. (\A c \in Calls : CallPhase(c)') /\ Unused'
  BY <1>1, WithoutRow DEF Sound, CallPhase, Unused
<1>5. LoggingIn' = LoggingIn /\ Retried' = Retried /\ Owed' = Owed /\ Restored' = Restored
  BY DEF LoggingIn, Retried, Owed, Restored
<1>6. Counted'  BY <1>1, <1>5, CountsKept
<1> QED BY <1>2, <1>3, <1>4, <1>6 DEF Sound

\* What leaves the rows, the tabs and their requests alone, and no variable either.
LEMMA QuietSound ==
  ASSUME AdminSessionAssumption, Sound, TypeOK',
         UNCHANGED <<rows, opened, issued, session, tab, renewal, user, call>>
  PROVE  Sound'
<1>1. TypeOK /\ Unused /\ Counted  BY DEF Sound
<1>2. \A u \in Tabs : (UserPhase(u) /\ RenewalPhase(u) /\ TabPhase(u) /\ OutPhase(u))'
  BY DEF Sound, UserPhase, RenewalPhase, TabPhase, OutPhase, Disowned
<1>3. (\A c \in Calls : CallPhase(c)') /\ Unused'  BY DEF Sound, CallPhase, Unused
<1>4. LoggingIn' = LoggingIn /\ Retried' = Retried /\ Owed' = Owed /\ Restored' = Restored
  BY DEF LoggingIn, Retried, Owed, Restored
<1>5. Counted'  BY <1>1, <1>4, CountsKept
<1> QED BY <1>2, <1>3, <1>5 DEF Sound

LEMMA TimeSound ==
  ASSUME AdminSessionAssumption, Sound,
         (\E k \in Tokens : TokenExpires(k)) \/ Reconfigure \/ UNCHANGED vars
  PROVE  Sound'
<1>1. TypeOK  BY DEF Sound
<1>2. UNCHANGED <<rows, opened, issued, session, tab, renewal, user, call>>
  BY DEF TokenExpires, Reconfigure, vars, server
<1>3. TypeOK'
  <2>1. ASSUME NEW k \in Tokens, TokenExpires(k) PROVE TypeOK'
    BY <1>1, <2>1 DEF TypeOK, TokenExpires, server
  <2>2. ASSUME Reconfigure PROVE TypeOK'
    BY <1>1, <2>2 DEF TypeOK, Reconfigure, server, Versions, AdminSessionAssumption
  <2>3. ASSUME UNCHANGED vars PROVE TypeOK'
    BY <1>1, <2>3 DEF TypeOK, vars
  <2> QED BY <2>1, <2>2, <2>3
<1> QED BY <1>2, <1>3, QuietSound

LEMMA FaultSound ==
  ASSUME AdminSessionAssumption, Sound, Fault
  PROVE  Sound'
<1> DEFINE InRenewal(t) == /\ renewal[t].pc \notin {"idle", "failed"}
                           /\ renewal' = [renewal EXCEPT ![t].pc = "failed"]
                           /\ UNCHANGED <<user, call>>
           InUser(t)    == /\ user[t].pc \notin {"idle", "failed"}
                           /\ user' = [user EXCEPT ![t].pc = "failed"]
                           /\ UNCHANGED <<renewal, call>>
           InCall(c)    == /\ call[c].pc \in {"verify", "ok", "denied"}
                           /\ \/ call' = [call EXCEPT ![c].pc = "done"]
                              \/ /\ call[c].pc = "verify"
                                 /\ call' = [call EXCEPT ![c].pc = "denied"]
                           /\ UNCHANGED <<renewal, user>>
<1>1. TypeOK /\ Unused /\ Counted  BY DEF Sound
<1>2. /\ faults < MaxFaults /\ faults' = faults + 1
      /\ UNCHANGED <<rows, opened, issued, session, old, version, cookie, tab, held, logouts>>
  BY DEF Fault, server
<1>3. \/ \E t \in Tabs : InRenewal(t) \/ InUser(t)
      \/ \E c \in Calls : InCall(c)
  BY DEF Fault, Lost, Unread
<1>4. faults' \in 0..MaxFaults
  BY <1>1, <1>2 DEF TypeOK, AdminSessionAssumption
<1>5. ASSUME NEW t \in Tabs, InRenewal(t) PROVE Sound'
  <2>1. TypeOK'
    <3>1. renewal' \in [Tabs -> Renewal]  BY <1>1, <1>5 DEF TypeOK, Renewal
    <3> QED BY <1>1, <1>2, <1>4, <1>5, <3>1 DEF TypeOK
  <2>2. \A u \in Tabs : (UserPhase(u) /\ RenewalPhase(u) /\ TabPhase(u) /\ OutPhase(u))'
    BY <1>1, <1>2, <1>5
    DEF Sound, UserPhase, RenewalPhase, TabPhase, OutPhase, Disowned, TypeOK, Renewal
  <2>3. (\A c \in Calls : CallPhase(c)') /\ Unused'
    BY <1>1, <1>2, <1>5 DEF Sound, CallPhase, Unused
  <2>4. /\ LoggingIn' = LoggingIn /\ Retried' = Retried
        /\ Owed' \subseteq Owed /\ Restored \subseteq Restored'
    BY <1>1, <1>2, <1>5 DEF LoggingIn, Retried, Owed, Restored, TypeOK, Renewal
  <2>5. Counted'  BY <1>1, <1>2, <2>4, CountsKept
  <2> QED BY <2>1, <2>2, <2>3, <2>5 DEF Sound
<1>6. ASSUME NEW t \in Tabs, InUser(t) PROVE Sound'
  <2>1. TypeOK'
    <3>1. user' \in [Tabs -> User]  BY <1>1, <1>6 DEF TypeOK, User
    <3> QED BY <1>1, <1>2, <1>4, <1>6, <3>1 DEF TypeOK
  <2>2. \A u \in Tabs : (UserPhase(u) /\ RenewalPhase(u) /\ TabPhase(u) /\ OutPhase(u))'
    BY <1>1, <1>2, <1>6
    DEF Sound, UserPhase, RenewalPhase, TabPhase, OutPhase, Disowned, TypeOK, User
  <2>3. (\A c \in Calls : CallPhase(c)') /\ Unused'
    BY <1>1, <1>2, <1>6 DEF Sound, CallPhase, Unused
  <2>4. /\ LoggingIn' \subseteq LoggingIn /\ Retried' = Retried
        /\ Owed' = Owed /\ Restored' = Restored
    BY <1>1, <1>2, <1>6 DEF LoggingIn, Retried, Owed, Restored, TypeOK, User
  <2>5. Counted'  BY <1>1, <1>2, <2>4, CountsKept
  <2> QED BY <2>1, <2>2, <2>3, <2>5 DEF Sound
<1>7. ASSUME NEW c \in Calls, InCall(c) PROVE Sound'
  <2>1. TypeOK'
    <3>1. call' \in [Calls -> Call]  BY <1>1, <1>7 DEF TypeOK, Call
    <3> QED BY <1>1, <1>2, <1>4, <1>7, <3>1 DEF TypeOK
  <2>2. \A u \in Tabs : (UserPhase(u) /\ RenewalPhase(u) /\ TabPhase(u) /\ OutPhase(u))'
    BY <1>2, <1>7 DEF Sound, UserPhase, RenewalPhase, TabPhase, OutPhase, Disowned
  <2>3. (\A d \in Calls : CallPhase(d)') /\ Unused'
    BY <1>1, <1>2, <1>7 DEF Sound, CallPhase, Unused, TypeOK, Call
  <2>4. /\ LoggingIn' = LoggingIn /\ Retried \subseteq Retried'
        /\ Owed' = Owed /\ Restored' = Restored
    BY <1>1, <1>2, <1>7 DEF LoggingIn, Retried, Owed, Restored, TypeOK, Call
  <2>5. Counted'  BY <1>1, <1>2, <2>4, CountsKept
  <2> QED BY <2>1, <2>2, <2>3, <2>5 DEF Sound
<1> HIDE DEF InRenewal, InUser, InCall
<1> QED BY <1>3, <1>5, <1>6, <1>7

-----------------------------------------------------------------------------
(* The invariant, and what follows from it.                                *)

LEMMA InitSound ==
  ASSUME AdminSessionAssumption, Init
  PROVE  Sound
<1> USE DEF Init
<1>1. 0 \in 0..MaxSessions /\ 0 \in 0..MaxFaults /\ 0 \in 0..MaxLogouts /\ 1 \in Versions
  BY DEF AdminSessionAssumption, Versions
<1>2. MaxTokens \in Nat /\ 0 \in 0..MaxTokens
  BY FiniteSets DEF MaxTokens, AdminSessionAssumption
<1>3. Idle \in User /\ Idle.pc = "idle" /\ Idle.kind = "login"
  BY <1>1 DEF Idle, User, None
<1>4. NoRenewal \in Renewal /\ NoRenewal.pc = "idle"
  BY DEF NoRenewal, Renewal, None
<1>5. tab \in [Tabs -> Tab]  BY DEF Tab, None
<1>6. /\ call \in [Calls -> Call]
      /\ \A c \in Calls : call[c].pc = "idle" /\ call[c].ran = 0 /\ ~call[c].retried
  <2>1. ASSUME NEW x \in [pc : {"idle"}, tab : Tabs, header : {None},
                          retried : {FALSE}, ran : {0}]
        PROVE  x \in Call /\ x.pc = "idle" /\ x.ran = 0 /\ ~x.retried
    <3>1. 0 \in 0..2 /\ FALSE \in BOOLEAN /\ None \in Tokens \cup {None}  OBVIOUS
    <3> QED BY <2>1, <3>1 DEF Call
  <2> QED BY <2>1
<1>7. TypeOK  BY <1>1, <1>2, <1>3, <1>4, <1>5, <1>6 DEF TypeOK
<1>8. \A t \in Tabs : UserPhase(t) /\ RenewalPhase(t) /\ TabPhase(t) /\ OutPhase(t)
  BY <1>3, <1>4 DEF UserPhase, RenewalPhase, TabPhase, OutPhase
<1>9. (\A c \in Calls : CallPhase(c)) /\ Unused  BY <1>6 DEF CallPhase, Unused
<1>10. LoggingIn = {} /\ Owed = {}
  BY <1>3, <1>4 DEF LoggingIn, Owed
<1>11. Counted
  BY <1>1, <1>10, FiniteSets, FS_EmptySet DEF Counted, AdminSessionAssumption
<1> QED BY <1>7, <1>8, <1>9, <1>11 DEF Sound

LEMMA NextSound ==
  ASSUME AdminSessionAssumption, Sound, [Next]_vars
  PROVE  Sound'
<1>1. CASE Next
  BY <1>1, RestoreSound, RenewSelectSound, RenewUpdateSound, RenewSettlesSound,
     LoginSound, LoginRevokeSound, LoginInsertSound, LogoutSound, LogoutDeleteSound,
     AnsweredSound, CallSound, VerifySound, DeniedSound, SessionExpiresSound, TimeSound,
     FaultSound
  DEF Next
<1>2. CASE UNCHANGED vars  BY <1>2, TimeSound
<1> QED BY <1>1, <1>2

LEMMA SoundAlways == AdminSessionAssumption => (Spec => []Sound)
<1> SUFFICES ASSUME AdminSessionAssumption PROVE Spec => []Sound  OBVIOUS
<1>1. Init => Sound  BY InitSound
<1>2. Sound /\ [Next]_vars => Sound'  BY NextSound
<1> QED BY <1>1, <1>2, PTL DEF Spec

\* The variables keep their types; in particular no more tokens are issued than there are
\* logins, tabs and requests, because a request renews at most once (TypeOK).
THEOREM TypeCorrect == AdminSessionAssumption => (Spec => []TypeOK)
<1> SUFFICES ASSUME AdminSessionAssumption PROVE Spec => []TypeOK  OBVIOUS
<1>1. Sound => TypeOK  BY DEF Sound
<1> QED BY <1>1, SoundAlways, PTL

\* A sign-out holds in its tab until a login or a renewal begins there: whatever was in
\* flight is not accepted (generation and adminSessionClosing of api/index.js).
THEOREM SignOutHolds == AdminSessionAssumption => (Spec => []LogoutHolds)
<1> SUFFICES ASSUME AdminSessionAssumption PROVE Spec => []LogoutHolds  OBVIOUS
<1>1. Sound => LogoutHolds  BY DEF Sound, OutPhase, LogoutHolds
<1> QED BY <1>1, SoundAlways, PTL

\* The handler of a request runs at most once, although a denied request is sent again
\* (adminSessionRetried of api/index.js).
RunsOnce == \A c \in Calls : call[c].ran <= 1

THEOREM HandlerRunsOnce == AdminSessionAssumption => (Spec => []RunsOnce)
<1> SUFFICES ASSUME AdminSessionAssumption PROVE Spec => []RunsOnce  OBVIOUS
<1>1. Sound => RunsOnce  BY DEF Sound, CallPhase, RunsOnce
<1> QED BY <1>1, SoundAlways, PTL

-----------------------------------------------------------------------------
(* Requests that wait for a renewal.                                       *)

\* A request that waits has a renewal of its tab to wait for: no renewal that
\* several requests share settles without letting go of each of them
\* (adminRefreshPromise of api/index.js).
WaitersAreServed ==
  \A c \in Calls : call[c].pc = "waiting" => renewal[call[c].tab].pc # "idle"

\* A renewal goes on, and who begins to wait finds one.
LEMMA WaitersKept ==
  ASSUME WaitersAreServed,
         \A t \in Tabs : renewal[t].pc # "idle" => renewal'[t].pc # "idle",
         \A c \in Calls : /\ call'[c].tab = call[c].tab /\ call[c].tab \in Tabs
                          /\ call'[c].pc = "waiting" =>
                               \/ call[c].pc = "waiting"
                               \/ renewal'[call[c].tab].pc # "idle"
  PROVE  WaitersAreServed'
<1> SUFFICES ASSUME NEW c \in Calls, call'[c].pc = "waiting"
             PROVE  renewal'[call'[c].tab].pc # "idle"
  BY DEF WaitersAreServed
<1>1. call'[c].tab = call[c].tab /\ call[c].tab \in Tabs  OBVIOUS
<1>2. CASE call[c].pc = "waiting"
  <2>1. renewal[call[c].tab].pc # "idle"  BY <1>2 DEF WaitersAreServed
  <2> QED BY <1>1, <2>1
<1>3. CASE call[c].pc # "waiting"  BY <1>1, <1>3
<1> QED BY <1>2, <1>3

LEMMA RenewalWaiters ==
  ASSUME TypeOK, WaitersAreServed, NEW t \in Tabs,
         Restore(t) \/ RenewSelect(t) \/ RenewUpdate(t)
  PROVE  WaitersAreServed'
<1>1. UNCHANGED call /\ \A c \in Calls : call[c].tab \in Tabs
  BY DEF Restore, RenewSelect, RenewUpdate, TypeOK, Call
<1>2. renewal \in [Tabs -> Renewal]  BY DEF TypeOK
<1>3. ASSUME NEW u \in Tabs, renewal[u].pc # "idle"  PROVE renewal'[u].pc # "idle"
  <2>1. CASE Restore(t)  BY <1>2, <1>3, <2>1 DEF Restore, Renewing
  <2>2. CASE RenewSelect(t)  BY <1>2, <1>3, <2>2 DEF RenewSelect, Renewal
  <2>3. CASE RenewUpdate(t)  BY <1>2, <1>3, <2>3 DEF RenewUpdate, Renewal
  <2> QED BY <2>1, <2>2, <2>3
<1> QED BY <1>1, <1>3, WaitersKept

\* A renewal that settles lets go of every request that waits for it.
LEMMA SettlingWaiters ==
  ASSUME TypeOK, WaitersAreServed, NEW t \in Tabs, RenewSettles(t)
  PROVE  WaitersAreServed'
<1> SUFFICES ASSUME NEW c \in Calls, call'[c].pc = "waiting"
             PROVE  renewal'[call'[c].tab].pc # "idle"
  BY DEF WaitersAreServed
<1>1. PICK x \in Call : x = call[c]  BY DEF TypeOK
<1>2. call'[c] = IF c \notin WaitingIn(t) THEN x
                 ELSE IF Accepted(t) THEN [x EXCEPT !.pc = "begin", !.retried = TRUE]
                 ELSE [x EXCEPT !.pc = "done"]
  BY <1>1 DEF RenewSettles
<1>3. c \notin WaitingIn(t) /\ call'[c] = x  BY <1>2 DEF Call
<1>4. x.pc = "waiting" /\ x.tab \in Tabs /\ x.tab # t  BY <1>1, <1>3 DEF WaitingIn, Call
<1>5. renewal'[x.tab] = renewal[x.tab]  BY <1>4 DEF RenewSettles, TypeOK
<1> QED BY <1>1, <1>3, <1>4, <1>5 DEF WaitersAreServed

LEMMA UserWaiters ==
  ASSUME TypeOK, WaitersAreServed, NEW t \in Tabs,
         \/ Login(t) \/ LoginRevoke(t) \/ LoginInsert(t)
         \/ Logout(t) \/ LogoutDelete(t) \/ Answered(t)
  PROVE  WaitersAreServed'
<1>1. UNCHANGED call /\ \A c \in Calls : call[c].tab \in Tabs
  BY DEF Login, LoginRevoke, LoginInsert, Logout, LogoutDelete, Answered, Begin, TypeOK, Call
<1>2. UNCHANGED renewal \/ renewal' = Superseded(t)
  BY DEF Login, LoginRevoke, LoginInsert, Logout, LogoutDelete, Answered, Begin
<1>3. renewal \in [Tabs -> Renewal]  BY DEF TypeOK
<1>4. ASSUME NEW u \in Tabs  PROVE renewal'[u].pc = renewal[u].pc
  BY <1>2, <1>3 DEF Superseded, Renewal
<1> QED BY <1>1, <1>4, WaitersKept

LEMMA CallWaiters ==
  ASSUME TypeOK, WaitersAreServed, NEW c \in Calls,
         Start(c) \/ Send(c) \/ Verify(c) \/ Succeeds(c)
  PROVE  WaitersAreServed'
<1>1. UNCHANGED renewal  BY DEF Start, Send, Verify, Succeeds
<1>2. \A d \in Calls : call[d] \in Call  BY DEF TypeOK
<1>3. ASSUME NEW d \in Calls
      PROVE  /\ call'[d].tab = call[d].tab /\ call[d].tab \in Tabs
             /\ call'[d].pc = "waiting" => call[d].pc = "waiting"
  <2>1. CASE Start(c)  BY <1>2, <2>1 DEF Start, Call, TypeOK
  <2>2. CASE Send(c)  BY <1>2, <2>2 DEF Send, Call, TypeOK
  <2>3. CASE Verify(c)  BY <1>2, <2>3 DEF Verify, Call, TypeOK
  <2>4. CASE Succeeds(c)  BY <1>2, <2>4 DEF Succeeds, Call, TypeOK
  <2> QED BY <2>1, <2>2, <2>3, <2>4
<1> QED BY <1>1, <1>3, WaitersKept

LEMMA DeniedWaiters ==
  ASSUME TypeOK, WaitersAreServed, NEW c \in Calls, Denied(c)
  PROVE  WaitersAreServed'
<1> DEFINE t == call[c].tab
<1>1. \A d \in Calls : call[d] \in Call /\ call[d].tab \in Tabs  BY DEF TypeOK, Call
<1>2. \/ UNCHANGED renewal /\ call'[c].pc # "waiting"
      \/ renewal' = Renewing(t)
  BY <1>1 DEF Denied, TypeOK, Call
<1>3. \A u \in Tabs : renewal[u].pc # "idle" => renewal'[u].pc # "idle"
  BY <1>2 DEF Renewing, TypeOK
<1>4. renewal' = Renewing(t) => renewal'[t].pc # "idle"
  BY <1>1 DEF Renewing, NoRenewal, TypeOK
<1>5. ASSUME NEW d \in Calls
      PROVE  call'[d].tab = call[d].tab /\ (d # c => call'[d] = call[d])
  BY <1>1 DEF Denied, TypeOK, Call
<1> QED BY <1>1, <1>2, <1>3, <1>4, <1>5, WaitersKept

LEMMA FaultWaiters ==
  ASSUME TypeOK, WaitersAreServed, Fault
  PROVE  WaitersAreServed'
<1>1. \A d \in Calls : call[d] \in Call /\ call[d].tab \in Tabs  BY DEF TypeOK, Call
<1>2. \A u \in Tabs : renewal[u].pc # "idle" => renewal'[u].pc # "idle"
  BY DEF Fault, TypeOK, Renewal
<1>3. ASSUME NEW d \in Calls
      PROVE  /\ call'[d].tab = call[d].tab
             /\ call'[d].pc = "waiting" => call[d].pc = "waiting"
  BY <1>1 DEF Fault, Lost, Unread, TypeOK, Call
<1> QED BY <1>1, <1>2, <1>3, WaitersKept

LEMMA NextWaiters ==
  ASSUME TypeOK, WaitersAreServed, [Next]_vars
  PROVE  WaitersAreServed'
<1>1. CASE \E t \in Tabs : \/ Restore(t) \/ RenewSelect(t) \/ RenewUpdate(t)
                           \/ RenewSettles(t)
  BY <1>1, RenewalWaiters, SettlingWaiters
<1>2. CASE \E t \in Tabs : \/ Login(t) \/ LoginRevoke(t) \/ LoginInsert(t)
                           \/ Logout(t) \/ LogoutDelete(t) \/ Answered(t)
  BY <1>2, UserWaiters
<1>3. CASE \E c \in Calls : \/ Start(c) \/ Send(c) \/ Verify(c) \/ Succeeds(c)
                            \/ Denied(c)
  BY <1>3, CallWaiters, DeniedWaiters
<1>4. CASE \/ \E s \in Sessions : SessionExpires(s)
           \/ \E k \in Tokens : TokenExpires(k)
           \/ Reconfigure \/ UNCHANGED vars
  BY <1>4 DEF SessionExpires, TokenExpires, Reconfigure, vars, WaitersAreServed
<1>5. CASE Fault  BY <1>5, FaultWaiters
<1> QED BY <1>1, <1>2, <1>3, <1>4, <1>5 DEF Next

\* A request never waits in vain: as long as it waits, a renewal of its tab is under way,
\* although several requests share it, a login or a sign-out supersedes it and it may fail
\* (adminRefreshPromise of api/index.js).
THEOREM NobodyWaitsInVain == AdminSessionAssumption => (Spec => []WaitersAreServed)
<1> SUFFICES ASSUME AdminSessionAssumption PROVE Spec => []WaitersAreServed  OBVIOUS
<1>1. Init => WaitersAreServed
  <2> SUFFICES ASSUME Init, NEW c \in Calls PROVE call[c].pc = "idle"
    BY DEF WaitersAreServed
  <2> QED BY DEF Init
<1>2. TypeOK /\ WaitersAreServed /\ [Next]_vars => WaitersAreServed'  BY NextWaiters
<1> QED BY <1>1, <1>2, TypeCorrect, PTL DEF Spec

-----------------------------------------------------------------------------
(***************************************************************************)
(* The refinement: each step of the worker opens or ends one session,      *)
(* grants one request by a live session, or changes nothing of the store.  *)
(***************************************************************************)

Live   == {s \in Sessions : rows[s] # None}
Grants == {<<c, session[call[c].header]>> : c \in {d \in Calls : call[d].ran > 0}}

StoreStep == [Store!Next]_(Store!vars)

LEMMA StoreStutters ==
  ASSUME Live' = Live, Gone' = Gone, Grants' = Grants
  PROVE  StoreStep
BY DEF StoreStep, Store!vars, Live, Gone, Grants

\* The requests that have run, and the sessions their tokens name, stay.
LEMMA GrantsKept ==
  ASSUME \A c \in Calls :
           /\ call'[c].ran = call[c].ran
           /\ call[c].ran > 0 => session'[call'[c].header] = session[call[c].header]
  PROVE  Grants' = Grants
BY DEF Grants

\* At most one row is deleted.
LEMMA DeletionStep ==
  ASSUME TypeOK, NEW s, rows' \in {Without(s), AfterRead(s)}, opened' = opened,
         Unused, Grants' = Grants
  PROVE  StoreStep
<1>1. \A x \in Sessions : x # s => rows'[x] = rows[x]  BY DEF Without, AfterRead
<1>2. CASE s \in Sessions /\ rows'[s] # rows[s]
  <2>1. rows[s] # None /\ rows'[s] = None  BY <1>2 DEF Without, AfterRead
  <2>2. s \in Live /\ Live' = Live \ {s}  BY <1>1, <1>2, <2>1 DEF Live
  <2>3. s <= opened  BY <1>2, <2>1 DEF Unused, TypeOK, Sessions
  <2>4. Gone' = Gone \cup {s}  BY <1>1, <1>2, <2>1, <2>3 DEF Gone
  <2>5. Store!End(s)  BY <2>2, <2>4 DEF Store!End, Live, Gone, Grants
  <2> QED BY <1>2, <2>5 DEF StoreStep, Store!Next
<1>3. CASE ~(s \in Sessions /\ rows'[s] # rows[s])
  <2>1. \A x \in Sessions : rows'[x] = rows[x]  BY <1>1, <1>3
  <2>2. Live' = Live /\ Gone' = Gone  BY <2>1 DEF Live, Gone
  <2> QED BY <2>2, StoreStutters
<1> QED BY <1>2, <1>3

\* Nothing of the server's changes, and no handler runs.
LEMMA QuietStep ==
  ASSUME UNCHANGED <<rows, opened, session>>,
         \A c \in Calls : /\ call'[c].ran = call[c].ran
                          /\ call[c].ran > 0 => call'[c].header = call[c].header
  PROVE  StoreStep
<1>1. Grants' = Grants  BY GrantsKept
<1>2. Live' = Live /\ Gone' = Gone  BY DEF Live, Gone
<1> QED BY <1>1, <1>2, StoreStutters

LEMMA WorkerRefines ==
  ASSUME Sound, NEW t \in Tabs,
         RenewSelect(t) \/ LoginRevoke(t) \/ LogoutDelete(t)
  PROVE  StoreStep
<1>1. TypeOK /\ Unused  BY DEF Sound
<1>2. UNCHANGED <<opened, session, call>>  BY DEF RenewSelect, LoginRevoke, LogoutDelete
<1>3. Grants' = Grants  BY <1>2, GrantsKept
<1>4. \E s : rows' \in {Without(s), AfterRead(s)}
  BY DEF RenewSelect, LoginRevoke, LogoutDelete
<1> QED BY <1>1, <1>2, <1>3, <1>4, DeletionStep

\* A new token is not one that a request has run with.
LEMMA IssueKeepsGrants ==
  ASSUME Sound, NEW s, IssueToken(s), UNCHANGED call
  PROVE  Grants' = Grants
<1>1. TypeOK /\ Unused /\ issued \in Nat  BY DEF Sound, TypeOK
<1>2. ASSUME NEW c \in Calls, call[c].ran > 0
      PROVE  session'[call[c].header] = session[call[c].header]
  <2>1. call[c].ran # 0  BY <1>2
  <2>2. call[c].header \in Tokens /\ session[call[c].header] # None
    BY <2>1 DEF Sound, CallPhase
  <2>3. call[c].header # issued + 1
    BY <1>1, <2>2 DEF Unused, Tokens
  <2> QED BY <1>1, <2>2, <2>3 DEF IssueToken, TypeOK
<1> QED BY <1>2, GrantsKept

LEMMA RenewalRefines ==
  ASSUME Sound, NEW t \in Tabs, RenewUpdate(t)
  PROVE  StoreStep
<1>1. UNCHANGED <<rows, opened, call>>  BY DEF RenewUpdate
<1>2. Live' = Live /\ Gone' = Gone  BY <1>1 DEF Live, Gone
<1>3. CASE UNCHANGED session  BY <1>1, <1>3, QuietStep
<1>4. CASE \E s : IssueToken(s)  BY <1>1, <1>2, <1>4, IssueKeepsGrants, StoreStutters
<1>5. UNCHANGED session \/ \E s : IssueToken(s)  BY DEF RenewUpdate
<1> QED BY <1>3, <1>4, <1>5

LEMMA LoginRefines ==
  ASSUME AdminSessionAssumption, Sound, NEW t \in Tabs, LoginInsert(t), Sound'
  PROVE  StoreStep
<1>0. PICK s : s = opened + 1  OBVIOUS
<1>1. /\ opened' = s /\ rows' = [rows EXCEPT ![s] = user[t].version]
      /\ IssueToken(s) /\ UNCHANGED call
  BY <1>0 DEF LoginInsert
<1>2. TypeOK /\ Unused /\ opened \in Nat /\ opened' <= MaxSessions /\ MaxSessions \in Nat
  BY DEF Sound, TypeOK, AdminSessionAssumption
<1>3. s \in Sessions  BY <1>0, <1>1, <1>2 DEF Sessions
<1>4. rows[s] = None  BY <1>0, <1>2, <1>3 DEF Unused
<1>5. user[t].version # None  BY <1>2 DEF TypeOK, User, Versions, None
<1>6. s \notin Live /\ s \notin Gone  BY <1>0, <1>2, <1>4 DEF Live, Gone
<1>7. Live' = Live \cup {s}  BY <1>1, <1>2, <1>3, <1>5 DEF Live, TypeOK
<1>8. Gone' = Gone
  BY <1>0, <1>1, <1>2, <1>3, <1>5 DEF Gone, TypeOK, Sessions
<1>9. Grants' = Grants  BY <1>1, IssueKeepsGrants
<1>10. Store!Open(s)  BY <1>6, <1>7, <1>8, <1>9 DEF Store!Open, Live, Gone, Grants
<1>11. Store!Next  BY <1>3, <1>10 DEF Store!Next
<1> QED BY <1>11 DEF StoreStep

LEMMA VerifyRefines ==
  ASSUME Sound, NEW c \in Calls, Verify(c)
  PROVE  StoreStep
<1> DEFINE k == call[c].header
<1>0. PICK s : s = IF k \in Tokens \ old THEN session[k] ELSE None  OBVIOUS
<1>1. /\ rows' = AfterRead(s)
      /\ call[c].pc = "verify"
      /\ call' = [call EXCEPT ![c].pc  = IF Usable(s) THEN "ok" ELSE "denied",
                              ![c].ran = IF Usable(s) THEN @ + 1 ELSE @]
      /\ UNCHANGED <<opened, session>>
  BY <1>0 DEF Verify
<1>2. TypeOK /\ Unused /\ CallPhase(c) /\ call[c] \in Call  BY DEF Sound, TypeOK
<1>3. call[c].ran = 0  BY <1>1, <1>2 DEF CallPhase
<1>4. /\ \A d \in Calls \ {c} : call'[d] = call[d]
      /\ call'[c].ran = IF Usable(s) THEN 1 ELSE 0
      /\ call'[c].header = k
  <2>1. CASE Usable(s)  BY <1>1, <1>2, <1>3, <2>1 DEF TypeOK, Call
  <2>2. CASE ~Usable(s)  BY <1>1, <1>2, <1>3, <2>2 DEF TypeOK, Call
  <2> QED BY <2>1, <2>2
<1>5. CASE Usable(s)
  <2>1. /\ k \in Tokens /\ s = session[k] /\ s # None /\ rows[s] = version
    BY <1>0, <1>5 DEF Usable
  <2>2. s \in Sessions /\ s \in Live  
    BY <1>2, <2>1 DEF TypeOK, Live, Versions, None
  <2>3. \A x \in Sessions : rows'[x] = rows[x]  BY <1>1, <2>1 DEF AfterRead
  <2>4. Live' = Live /\ Gone' = Gone  BY <1>1, <2>3 DEF Live, Gone
  <2>5. Grants' = Grants \cup {<<c, s>>}
    <3>1. \A d \in Calls \ {c} : call'[d].ran = call[d].ran /\ call'[d].header = call[d].header
      BY <1>4
    <3>2. call'[c].ran > 0 /\ session'[call'[c].header] = s  BY <1>1, <1>4, <1>5, <2>1
    <3>3. ~(call[c].ran > 0)  BY <1>3
    <3>4. ASSUME NEW g \in Grants' PROVE g \in Grants \cup {<<c, s>>}
      <4>1. PICK d \in Calls : call'[d].ran > 0 /\ g = <<d, session'[call'[d].header]>>
        BY <3>4 DEF Grants
      <4>2. CASE d = c  BY <3>2, <4>1, <4>2
      <4>3. CASE d # c
        <5>1. call[d].ran > 0 /\ g = <<d, session[call[d].header]>>
          BY <1>1, <3>1, <4>1, <4>3
        <5> QED BY <5>1 DEF Grants
      <4> QED BY <4>2, <4>3
    <3>5. ASSUME NEW g \in Grants PROVE g \in Grants'
      <4>1. PICK d \in Calls : call[d].ran > 0 /\ g = <<d, session[call[d].header]>>
        BY <3>5 DEF Grants
      <4>2. call'[d].ran > 0 /\ g = <<d, session'[call'[d].header]>>
        BY <1>1, <3>1, <3>3, <4>1
      <4> QED BY <4>2 DEF Grants
    <3>6. <<c, s>> \in Grants'  BY <3>2 DEF Grants
    <3> QED BY <3>4, <3>5, <3>6
  <2>6. Store!Grant(c, s)  BY <2>2, <2>4, <2>5 DEF Store!Grant, Live, Gone, Grants
  <2>7. s \in Sessions /\ c \in Calls  BY <2>2
  <2>8. Store!Next  BY <2>6, <2>7 DEF Store!Next
  <2> QED BY <2>8 DEF StoreStep
<1>6. CASE ~Usable(s)
  <2>1. Grants' = Grants
    <3> QED BY <1>1, <1>3, <1>4, <1>6, GrantsKept
  <2> QED BY <1>1, <1>2, <2>1, DeletionStep
<1> QED BY <1>5, <1>6

LEMMA CallRefines ==
  ASSUME Sound, NEW c \in Calls, Start(c) \/ Send(c) \/ Succeeds(c) \/ Denied(c)
  PROVE  StoreStep
<1>1. TypeOK /\ CallPhase(c) /\ call[c] \in Call  BY DEF Sound, TypeOK
<1>2. UNCHANGED <<rows, opened, session>>  BY DEF Start, Send, Succeeds, Denied, server
<1>3. /\ \A d \in Calls \ {c} : call'[d] = call[d]
      /\ call'[c].ran = call[c].ran
      /\ call[c].ran > 0 => call'[c].header = call[c].header
  <2>1. CASE Start(c)  BY <1>1, <2>1 DEF Start, TypeOK, Call
  <2>2. CASE Send(c)
    <3>1. call[c].ran = 0  BY <1>1, <2>2 DEF Send, CallPhase
    <3> QED BY <1>1, <2>2, <3>1 DEF Send, TypeOK, Call
  <2>3. CASE Succeeds(c)  BY <1>1, <2>3 DEF Succeeds, TypeOK, Call
  <2>4. CASE Denied(c)
    <3>1. \/ call' = [call EXCEPT ![c].pc = "done"]
          \/ call' = [call EXCEPT ![c].pc = "begin", ![c].retried = TRUE]
          \/ call' = [call EXCEPT ![c].pc = "waiting"]
      BY <2>4 DEF Denied
    <3> QED BY <1>1, <3>1 DEF TypeOK, Call
  <2> QED BY <2>1, <2>2, <2>3, <2>4
<1> QED BY <1>2, <1>3, QuietStep

LEMMA TabRefines ==
  ASSUME Sound, NEW t \in Tabs,
         Restore(t) \/ Login(t) \/ Logout(t) \/ Answered(t) \/ RenewSettles(t)
  PROVE  StoreStep
<1>1. TypeOK  BY DEF Sound
<1>2. UNCHANGED <<rows, opened, session>>
  BY DEF Restore, Login, Logout, Begin, Answered, RenewSettles, server
<1>3. CASE UNCHANGED call  BY <1>2, <1>3, QuietStep
<1>4. CASE RenewSettles(t)
  <2>1. ASSUME NEW c \in Calls
        PROVE  call'[c].ran = call[c].ran /\ call'[c].header = call[c].header
    <3>1. call[c] \in Call  BY <1>1 DEF TypeOK
    <3> QED BY <1>4, <3>1 DEF RenewSettles, Call
  <2> QED BY <1>2, <2>1, QuietStep
<1>5. UNCHANGED call \/ RenewSettles(t)  BY DEF Restore, Login, Logout, Begin, Answered
<1> QED BY <1>3, <1>4, <1>5

LEMMA EnvironmentRefines ==
  ASSUME Sound,
         \/ \E s \in Sessions : SessionExpires(s)
         \/ \E k \in Tokens : TokenExpires(k)
         \/ Reconfigure \/ Fault \/ UNCHANGED vars
  PROVE  StoreStep
<1>1. TypeOK /\ Unused  BY DEF Sound
<1>2. ASSUME NEW s \in Sessions, SessionExpires(s) PROVE StoreStep
  <2>1. rows' = Without(s) /\ UNCHANGED <<opened, session, call>>  BY <1>2 DEF SessionExpires
  <2>2. Grants' = Grants  BY <2>1, GrantsKept
  <2> QED BY <1>1, <2>1, <2>2, DeletionStep
<1>3. ASSUME (\E k \in Tokens : TokenExpires(k)) \/ Reconfigure \/ UNCHANGED vars
      PROVE  StoreStep
  BY <1>3, QuietStep DEF TokenExpires, Reconfigure, vars, server
<1>4. ASSUME Fault PROVE StoreStep
  <2>1. UNCHANGED <<rows, opened, session>>  BY <1>4 DEF Fault, server
  <2>2. \/ UNCHANGED call
        \/ \E c \in Calls : \/ call' = [call EXCEPT ![c].pc = "done"]
                            \/ call' = [call EXCEPT ![c].pc = "denied"]
    BY <1>4 DEF Fault, Lost, Unread
  <2>3. \A c \in Calls : call'[c].ran = call[c].ran /\ call'[c].header = call[c].header
    BY <1>1, <2>2 DEF TypeOK, Call
  <2> QED BY <2>1, <2>3, QuietStep
<1> QED BY <1>2, <1>3, <1>4

\* The worker's rows and grants are those of a store of revocable sessions: no session is
\* opened twice or comes back, and a request is granted only by a session that is live
\* (admin_browser_session.ts, verifyAdminSession).
THEOREM ImplementsStore == AdminSessionAssumption => (Spec => StoreSpec)
<1> SUFFICES ASSUME AdminSessionAssumption PROVE Spec => StoreSpec  OBVIOUS
<1>1. Init => Store!Init
  <2> SUFFICES ASSUME Init PROVE Store!Init  OBVIOUS
  <2>1. \A c \in Calls : call[c].ran = 0  BY DEF Init
  <2>2. Live = {} /\ Gone = {} /\ Grants = {}
    BY <2>1 DEF Init, Live, Gone, Grants, Sessions
  <2> QED BY <2>2 DEF Store!Init, Live, Gone, Grants
<1>2. Sound /\ Sound' /\ [Next]_vars => [Store!Next]_(Store!vars)
  <2> SUFFICES ASSUME Sound, Sound', [Next]_vars PROVE StoreStep
    BY DEF StoreStep
  <2>1. CASE Next
    BY <2>1, WorkerRefines, RenewalRefines, LoginRefines, VerifyRefines, CallRefines,
       TabRefines, EnvironmentRefines
    DEF Next
  <2>2. CASE UNCHANGED vars  BY <2>2, EnvironmentRefines
  <2> QED BY <2>1, <2>2
<1> QED BY <1>1, <1>2, SoundAlways, PTL DEF Spec, StoreSpec, Store!Spec
=============================================================================
