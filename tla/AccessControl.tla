--------------------------- MODULE AccessControl ---------------------------
(***************************************************************************)
(* The access control of the endpoints that create something               *)
(* (worker/src/worker.ts and ip_blacklist.ts): the runtime's rate limiter, *)
(* then whitelist, blacklists and the daily number of requests of an IP    *)
(* address, which is read from KV and written back one higher.             *)
(*                                                                         *)
(* Lists are sets of the clients they match.  What a fingerprint or an ASN *)
(* matches is a set of clients as well.                                    *)
(***************************************************************************)
EXTENDS Integers, FiniteSets

CONSTANTS
  Requests,  \* each made once
  Clients,   \* by cf-connecting-ip
  NoIp,      \* the client of a request without that header
  Configs,   \* settings that are saved
  NoConfig,  \* nothing is saved, or it cannot be read
  MaxDay,    \* bound: days
  MaxSaves   \* bound: changes of the settings

AccessControlAssumption ==
  /\ IsFiniteSet(Requests)
  /\ NoIp \notin Clients
  /\ NoConfig \notin Configs
  /\ MaxDay \in Nat \ {0} /\ MaxSaves \in Nat
  /\ Configs \subseteq
       [whitelist : SUBSET Clients,               \* {} if not active
        fingerprints : SUBSET (Clients \cup {NoIp}), \* {} if disabled, as the next
        blacklist : SUBSET Clients,
        daily : Nat]                              \* 0 if disabled

VARIABLES
  today,
  settings,
  saves,
  count,    \* KV: limit|ip|date
  request

vars == <<today, settings, saves, count, request>>

Days == 1..MaxDay

Statuses == {"idle", "settings", "get", "put", "admitted", "refused", "dead"}

TypeOK ==
  /\ today \in Days
  /\ settings \in Configs \cup {NoConfig}
  /\ saves \in 0..MaxSaves
  /\ count \in [Clients \X Days -> Nat]
  /\ request \in [Requests ->
       [pc : Statuses, client : Clients \cup {NoIp},
        day   : Days, limit : Nat, read : Nat,
        metered : BOOLEAN,  \* history: it was admitted by the daily count
        excused : BOOLEAN]] \* history: another one of its client changed the count
                            \* between its reading and its writing, or KV failed it

Idle == [pc |-> "idle", client |-> NoIp, day |-> 1, limit |-> 0, read |-> 0,
         metered |-> FALSE, excused |-> FALSE]

Init ==
  /\ today = 1
  /\ settings \in Configs \cup {NoConfig}
  /\ saves = 0
  /\ count = [k \in Clients \X Days |-> 0]
  /\ request = [r \in Requests |-> Idle]

Become(r, x) == request' = [request EXCEPT ![r] = x]

\* It is over for r, which has not been counted.
Ends(r, pc) == Become(r, [Idle EXCEPT !.pc = pc])

KeepWorld == UNCHANGED <<today, settings, saves>>

-----------------------------------------------------------------------------
NextDay ==
  /\ today < MaxDay
  /\ today' = today + 1
  /\ UNCHANGED <<settings, saves, count, request>>

\* saveIpBlacklistSettings, which has validated them.
SaveSettings(s) ==
  /\ saves < MaxSaves
  /\ settings' = s
  /\ saves' = saves + 1
  /\ UNCHANGED <<today, count, request>>

\* The rate limiter of the runtime, when it is bound, may refuse a request of an IP.
Begin(r, c) ==
  /\ request[r].pc = "idle"
  /\ \/ Become(r, [Idle EXCEPT !.pc = "settings", !.client = c])
     \/ c # NoIp /\ Ends(r, "refused")
  /\ UNCHANGED count
  /\ KeepWorld

Trusted(s, c) == c \in s.whitelist

Banned(s, c) == c \in s.fingerprints \cup s.blacklist

\* Whether the lists let client c in: an active whitelist decides alone.
Permits(s, c) == IF s.whitelist # {} THEN Trusted(s, c) ELSE ~Banned(s, c)

\* checkAccessControl up to the daily limit. The settings are null when they cannot be
\* read, and any error admits.
CheckLists(r) ==
  LET x == request[r] IN
  /\ x.pc = "settings"
  /\ \/ Ends(r, "admitted")
     \/ /\ settings # NoConfig
        /\ IF ~Permits(settings, x.client)
           THEN Ends(r, "refused")
           ELSE IF x.client = NoIp \/ settings.daily = 0
           THEN Ends(r, "admitted")
           ELSE Become(r, [x EXCEPT !.pc = "get", !.day = today,
                                    !.limit = settings.daily])
  /\ UNCHANGED count
  /\ KeepWorld

\* Mutant: one request too many.
ReadCount_OneMore(r) ==
  LET x == request[r]
      n == count[<<x.client, x.day>>]
  IN
  /\ x.pc = "get"
  /\ \/ IF n > x.limit
        THEN Ends(r, "refused")
        ELSE Become(r, [x EXCEPT !.pc = "put", !.read = n])
     \/ Become(r, [x EXCEPT !.pc = "admitted", !.metered = TRUE, !.excused = TRUE])
  /\ UNCHANGED count
  /\ KeepWorld

\* checkDailyLimit reads the count of the date it started with.
ReadCount(r) ==
  LET x == request[r]
      n == count[<<x.client, x.day>>]
  IN
  /\ x.pc = "get"
  /\ \/ IF n >= x.limit
        THEN Ends(r, "refused")
        ELSE Become(r, [x EXCEPT !.pc = "put", !.read = n])
     \/ Become(r, [x EXCEPT !.pc = "admitted", !.metered = TRUE, !.excused = TRUE])
  /\ UNCHANGED count
  /\ KeepWorld

\* And writes what it has read, plus one. The entry outlives its day.
Written(x) == count' = [count EXCEPT ![<<x.client, x.day>>] = x.read + 1]

\* The count is not what x has read any more.
Stale(x) == count[<<x.client, x.day>>] # x.read

WriteCount(r) ==
  LET x == request[r]
      Admit(excused) == Become(r, [x EXCEPT !.pc = "admitted", !.read = 0,
                                            !.metered = TRUE, !.excused = excused])
  IN
  /\ x.pc = "put"
  /\ \/ Written(x) /\ (Admit(Stale(x)) \/ Admit(TRUE))
     \/ UNCHANGED count /\ Admit(TRUE)
  /\ KeepWorld

\* The runtime ends the invocation when it has just written; one that it ends earlier
\* is a request that takes no further step.
Kill(r) ==
  LET x == request[r] IN
  /\ x.pc = "put"
  /\ Written(x)
  /\ Become(r, [x EXCEPT !.pc = "dead", !.read = 0, !.excused = Stale(x)])
  /\ KeepWorld

Next ==
  \/ NextDay
  \/ \E s \in Configs : SaveSettings(s)
  \/ \E r \in Requests :
       \/ \E c \in Clients \cup {NoIp} : Begin(r, c)
       \/ CheckLists(r) \/ ReadCount(r) \/ WriteCount(r) \/ Kill(r)

Spec == Init /\ [][Next]_vars

-----------------------------------------------------------------------------
(* Properties.                                                             *)

Metered(c, d) ==
  {r \in Requests : request[r].metered /\ request[r].client = c /\ request[r].day = d}

\* The highest limit any of them has met.
WithinLimit(c, d) ==
  Metered(c, d) = {} \/
    \E r \in Metered(c, d) : Cardinality(Metered(c, d)) <= request[r].limit

\* As long as no two requests of a client cross between reading and writing the count,
\* and KV does not fail, the limit of a day is kept: also by requests that run past
\* midnight, by those that are killed, and when the limit is changed meanwhile.
DailyHeld ==
  \A c \in Clients, d \in Days :
    (\A r \in Requests :
       request[r].client = c /\ request[r].day = d => ~request[r].excused)
      => WithinLimit(c, d)
=============================================================================
