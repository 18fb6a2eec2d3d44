------------------------------ MODULE MCLimits ------------------------------
(***************************************************************************)
(* What anybody may send or try, for TLC, as three parts that share no     *)
(* state: the quota of one sender, with concurrent sends across a change   *)
(* of month, limits of one and two mails and one unit of balance; logins   *)
(* of one IP address and two accounts, with two attempts in a window;      *)
(* requests of a client, or without an IP address, under a daily limit of  *)
(* one or two, a whitelist, or blacklists.  A behaviour is one of one      *)
(* part, chosen initially, while the others rest.                          *)
(***************************************************************************)
EXTENDS SendQuota, TLC

CONSTANTS
  Clients, NoConfig, MaxSaves, None, Settings,
  Logins, Ips, Accounts, Limit, Window, Keep, MaxTime

VARIABLES
  part,
  now, rows, login,
  date, settings, saves, count, use

Limits(d, m) == [kind \in Kinds |-> IF kind = "daily" THEN d ELSE m]

\* A month is one day long; -1 is no limit, -2 is off.
MCMonthOf == [d \in Days |-> d]
MCConfigs == {Limits(2, 1), Limits(1, -1), Limits(-2, -2)}

Attempts == INSTANCE AuthLimits

Open == [whitelist |-> {}, fingerprints |-> {}, blacklist |-> {}, daily |-> 1]

MCSettings ==
  {Open,
   [Open EXCEPT !.whitelist = Clients, !.blacklist = Clients, !.daily = 2],
   [Open EXCEPT !.fingerprints = {None}, !.blacklist = Clients, !.daily = 0]}

Access ==
  INSTANCE AccessControl WITH
    Requests <- Logins, NoIp <- None, Configs <- Settings, today <- date, request <- use

ASSUME SendQuotaAssumption
ASSUME Attempts!AuthLimitsAssumption /\ Access!AccessControlAssumption

limitVars  == <<now, rows, login>>
accessVars == <<date, settings, saves, count, use>>

\* A part that rests has one initial state.
MCInit ==
  /\ part \in {"quota", "logins", "access"}
  /\ Init
  /\ Attempts!Init
  /\ Access!Init
  /\ part # "logins" => rows = [k \in Attempts!RateKeys |-> None]
  /\ part # "access" => settings = NoConfig
  /\ part # "quota" => config = Limits(2, 1)

MCNext ==
  /\ UNCHANGED part
  /\ \/ part = "quota" /\ Next /\ UNCHANGED <<limitVars, accessVars>>
     \/ part = "logins" /\ Attempts!Next /\ UNCHANGED <<vars, accessVars>>
     \/ part = "access" /\ Access!Next /\ UNCHANGED <<vars, limitVars>>

MCSpec == MCInit /\ [][MCNext]_<<part, vars, limitVars, accessVars>>

\* Two of the logins have the names of the requests, so that one group serves both.
Symmetric == Permutations(Requests) \cup Permutations(Logins \ Requests) \cup Permutations(Accounts)

\* No stretch of the length of a window lets a key pass twice the limit
\* (consumeAuthRateLimit).
WindowBound == part = "logins" => Attempts!WindowBound

\* A refusal has its cause within the last window (consumeAuthRateLimit).
RefusedForRecent == part = "logins" => Attempts!RefusedForRecent

\* As long as nothing crosses and KV does not fail, a client is admitted no more often
\* in a day than the limit says (checkDailyLimit).
DailyHeld == part = "access" => Access!DailyHeld
=============================================================================
