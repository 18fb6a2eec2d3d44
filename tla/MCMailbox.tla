----------------------------- MODULE MCMailbox -----------------------------
(***************************************************************************)
(* The mailbox of one address, for TLC, as two parts: two deliveries of    *)
(* one or two messages with all their integrations, and two deliveries     *)
(* against two requests that mark and delete.  A behaviour is one of one   *)
(* part, chosen initially.                                                 *)
(***************************************************************************)
EXTENDS Mailbox, TLC

CONSTANTS a1, admin

VARIABLE part

MCReach == [x \in Actors |-> Addresses]

MCInit ==
  /\ part \in {"deliveries", "rows"}
  /\ Init

\* The integrations touch no row: the part of the rows leaves them out.
MCNext ==
  /\ UNCHANGED part
  /\ Next
  /\ IF part = "deliveries" THEN UNCHANGED request
     ELSE \A d \in Deliveries : delivery'[d].next = 0

MCSpec == MCInit /\ [][MCNext]_<<part, vars>>

Symmetric == Permutations(Keys) \cup Permutations(Deliveries) \cup Permutations(Requests)
=============================================================================
