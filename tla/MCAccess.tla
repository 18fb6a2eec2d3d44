------------------------------ MODULE MCAccess ------------------------------
(***************************************************************************)
(* Three parts that share no state, for TLC: the access to an address, the *)
(* access to a user's account, and the binding of addresses to users.  A   *)
(* behaviour is one of one part, chosen initially, while the others rest.  *)
(***************************************************************************)
EXTENDS AddressAuthority, TLC

CONSTANTS
  MaxGens, MaxCodes,
  NoEmail, Places   \* the addresses that users bind

VARIABLES
  part,
  user, lastGen, ended, challenge, lastCode, spent, userRequest,
  users, life, roles, addresses, bindings, bindRequest

Identity == INSTANCE UserIdentity WITH request <- userRequest

\* The emails of the users and the requests that bind are model values of the other
\* parts, so that one small group of permutations serves all.
Binding ==
  INSTANCE UserAdmin WITH
    MaxId <- 2, MaxLives <- 2, Emails <- Requests, Addresses <- Places,
    Requests <- Places, Operations <- {"delete", "bind", "unbind", "register"},
    DefaultRole <- "none", MaxAddressCount <- 1, request <- bindRequest

ASSUME Identity!UserIdentityAssumption

identityVars == <<user, lastGen, ended, challenge, lastCode, spent, userRequest>>
bindingVars  == <<users, life, roles, addresses, bindings, bindRequest>>

\* A part that rests has one initial state; the binding then has none at all.
MCInit ==
  /\ part \in {"address", "account", "binding"}
  /\ Init
  /\ Identity!Init
  /\ \A r \in Requests : userRequest[r].password = request[r].password
  /\ part # "account" => user.id = 0
  /\ IF part = "binding"
     THEN Binding!Init
     ELSE /\ users = 0 /\ life = 0 /\ roles = 0
          /\ addresses = 0 /\ bindings = 0 /\ bindRequest = 0

MCNext ==
  /\ UNCHANGED part
  /\ \/ part = "address" /\ Next /\ UNCHANGED <<identityVars, bindingVars>>
     \/ part = "account" /\ Identity!Next /\ UNCHANGED <<vars, bindingVars>>
     \/ part = "binding" /\ Binding!Next /\ UNCHANGED <<vars, identityVars>>

MCSpec == MCInit /\ [][MCNext]_<<part, vars, identityVars, bindingVars>>

Symmetric == Permutations(Requests) \cup Permutations(Passwords)
               \cup Permutations(Places)

\* A code that has been sent works until it expires or is consumed
\* (reserveUserVerificationChallenge, releaseUserVerificationChallenge).
SentCodeWorks == Identity!SentCodeWorks

\* A login that is still accepted used the current password, except one that took
\* the generation late (issueUserAuthJwt).
LoginIsCurrent == Identity!LoginIsCurrent

\* Only what ends a generation signs a user out, or another first login that raced
\* (getOrCreateUserAuthGeneration).
SignedInStays == Identity!SignedInStays

\* A binding to nothing was written late (bindByID, the deletions).
BindingOrigin == part = "binding" => Binding!BindingOrigin
=============================================================================
