---------------------------- MODULE MCUserAdmin ----------------------------
(***************************************************************************)
(* Three parts that share no state, for TLC: the roles of UserAdmin, with  *)
(* two user ids, each given to at most two users in turn, and three        *)
(* requests that delete, promote, demote or register (MCAccess checks the  *)
(* bindings); the access of users to one authenticator, and the logins by  *)
(* one passkey, which an id that is given anew touches too.  A behaviour   *)
(* is one of one part.                                                     *)
(***************************************************************************)
EXTENDS Passkeys, TLC

CONSTANTS
  MaxLives, Addresses, Operations, DefaultRole, MaxAddressCount, MaxPeople, MaxLinks

VARIABLES
  part,
  accounts, life, roles, addresses, bindings, handler,
  accessUsers, people, item, links, access, accessRequest, granted

Admin == INSTANCE UserAdmin
           WITH MaxId <- MaxUser, users <- accounts, request <- handler

Access == INSTANCE Authenticators WITH users <- accessUsers, request <- accessRequest

ASSUME PasskeysAssumption /\ Admin!UserAdminAssumption /\ Access!AuthenticatorsAssumption

adminVars  == <<accounts, life, roles, addresses, bindings, handler>>
accessVars == <<accessUsers, people, item, links, access, accessRequest, granted>>

\* A part that rests has one initial state; the roles then have none at all.
MCInit ==
  /\ part \in {"roles", "authenticator", "passkey"}
  /\ Init
  /\ Access!Init
  /\ part # "passkey" => device[1].user = 0
  /\ IF part = "roles"
     THEN /\ Admin!Init
          /\ users[1] = accounts[1]
     ELSE /\ accounts = 0 /\ life = 0 /\ roles = 0
          /\ addresses = 0 /\ bindings = 0 /\ handler = 0

\* Without the operations that bind, Next of UserAdmin has no other steps.
MCNext ==
  /\ UNCHANGED part
  /\ \/ part = "roles" /\ Admin!UsersNext /\ UNCHANGED <<vars, accessVars>>
     \/ part = "authenticator" /\ Access!Next /\ UNCHANGED <<vars, adminVars>>
     \/ part = "passkey" /\ Next /\ UNCHANGED <<adminVars, accessVars>>

MCSpec == MCInit /\ [][MCNext]_<<part, vars, adminVars, accessVars>>

Symmetric == Permutations(Requests) \cup Permutations(Emails)

\* A user has an authenticator exactly while something grants it
\* (user_authenticator_access).
GrantsDecide == Access!GrantsDecide

\* An admin row of user_roles is left, unless a request that had read the role before
\* removed it unseen (deleteUser, updateUserRoles).
AdminRowKept == part = "roles" => Admin!AdminRowKept

\* A role belongs to the user it was given to, and not to the next one with the id,
\* but for the overlaps its definition names (deleteUser, updateUserRoles, register).
RoleOrigin == part = "roles" => Admin!RoleOrigin
=============================================================================
