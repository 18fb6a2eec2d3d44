---------------------------- MODULE Authenticators ----------------------------
(***************************************************************************)
(* Who may use an authenticator (worker/src/authenticators.ts): a user it  *)
(* is assigned to, or one who has saved a share link that is active.       *)
(*                                                                         *)
(* One row of user_authenticator_access holds both sources of a user.      *)
(* Requests interleave between statements, users are deleted and their     *)
(* ids given to others, and the authenticator itself may be deleted.       *)
(***************************************************************************)
EXTENDS Integers, FiniteSetsExt

CONSTANTS
  Requests,   \* requests of several statements, each made once
  MaxUser,    \* bound: ids of users
  MaxPeople,  \* bound: registrations
  MaxLinks    \* bound: share links

AuthenticatorsAssumption == MaxPeople \in Nat

Ids    == 1..MaxUser
People == 1..MaxPeople
Links  == 1..MaxLinks

VARIABLES
  users,    \* the person an id belongs to, or 0
  people,   \* registrations so far
  item,     \* the authenticator exists
  links,    \* authenticator_share_tokens
  access,   \* user_authenticator_access, by user_id
  request,
  granted   \* history: <<person, source>>, what has been granted to people
            \* and not withdrawn; a source is a link, or 0 for the assignment

vars == <<users, people, item, links, access, request, granted>>

NoRow == [direct |-> FALSE, link |-> 0, for |-> {}]
Idle  == [kind |-> "none", pc |-> "idle", user |-> 0, for |-> 0, link |-> 0]

TypeOK ==
  /\ users \in [Ids -> People \cup {0}]
  /\ people \in 0..MaxPeople
  /\ item \in BOOLEAN
  /\ links \in [Links -> {"none", "active", "ended"}]
  /\ access \in [Ids -> [direct : BOOLEAN,           \* direct_assigned
                         link   : Links \cup {0},    \* share_id
                         for    : SUBSET People]]    \* history: who they were
  /\ request \in [Requests -> [kind : {"none", "assign", "save", "share"},
                               pc   : {"idle", "item", "revoke", "write", "done"},
                               user : Ids \cup {0},
                               for  : People \cup {0},  \* history: who was meant
                               link : Links \cup {0}]]
  /\ granted \subseteq People \X (Links \cup {0})

Init ==
  /\ users = [u \in Ids |-> 0]
  /\ people = 0
  /\ item = TRUE
  /\ links = [l \in Links |-> "none"]
  /\ access = [u \in Ids |-> NoRow]
  /\ request = [r \in Requests |-> Idle]
  /\ granted = {}

-----------------------------------------------------------------------------
(* Users.                                                                  *)

Known == {u \in Ids : users[u] # 0}

\* SQLite gives the id after the largest one there is.
Register ==
  LET u == Max(Known \cup {0}) + 1 IN
  /\ people < MaxPeople /\ u \in Ids
  /\ people' = people + 1
  /\ users' = [users EXCEPT ![u] = people + 1]
  /\ UNCHANGED <<item, links, access, request, granted>>

\* The batch names no authenticator, and no key ties the access of a user to users.
DeleteUser(u) ==
  /\ u \in Known
  /\ users' = [users EXCEPT ![u] = 0]
  /\ granted' = {g \in granted : g[1] # users[u]}
  /\ UNCHANGED <<people, item, links, access, request>>

-----------------------------------------------------------------------------
(* Assignments.                                                            *)

Ask(r, kind, pc, u, l) ==
  /\ request[r] = Idle
  /\ request' = [request EXCEPT ![r] =
       [kind |-> kind, pc |-> pc, user |-> u, link |-> l,
        for |-> IF u = 0 THEN 0 ELSE users[u]]]

Goes(r, pc) == request' = [request EXCEPT ![r].pc = pc]
Ends(r)     == request' = [request EXCEPT ![r] = [Idle EXCEPT !.pc = "done"]]

\* The user is read, then the authenticator.
Assign(r, u) ==
  /\ u \in Known
  /\ Ask(r, "assign", "item", u, 0)
  /\ UNCHANGED <<users, people, item, links, access, granted>>

ReadItem(r) ==
  /\ request[r].pc = "item"
  /\ IF ~item THEN Ends(r)
     ELSE Goes(r, IF request[r].kind = "share" THEN "revoke" ELSE "write")
  /\ UNCHANGED <<users, people, item, links, access, granted>>

\* The other source of the row is kept.
Assigned(row, p) == [row EXCEPT !.direct = TRUE, !.for = @ \cup {p}]

Granting(x, grants) == IF users[x.user] = x.for THEN granted \cup grants ELSE granted

\* The insert fails when the authenticator is gone (its foreign key).
WriteAssignment(r) ==
  LET x == request[r] IN
  /\ x.kind = "assign" /\ x.pc = "write"
  /\ IF item
     THEN /\ access' = [access EXCEPT ![x.user] = Assigned(@, x.for)]
          /\ granted' = Granting(x, {<<x.for, 0>>})
     ELSE UNCHANGED <<access, granted>>
  /\ Ends(r)
  /\ UNCHANGED <<users, people, item, links>>

Unassigned(row) == IF row.link = 0 THEN NoRow ELSE [row EXCEPT !.direct = FALSE]

Unassign(u) ==
  /\ access[u].direct
  /\ access' = [access EXCEPT ![u] = Unassigned(@)]
  /\ granted' = granted \ {<<users[u], 0>>}
  /\ UNCHANGED <<users, people, item, links, request>>

\* A user removes an authenticator from the own list.
Remove(u) ==
  /\ u \in Known /\ access[u] # NoRow
  /\ access' = [access EXCEPT ![u] = NoRow]
  /\ granted' = {g \in granted : g[1] # users[u]}
  /\ UNCHANGED <<users, people, item, links, request>>

-----------------------------------------------------------------------------
(* Links.                                                                  *)

\* findShare
Save(r, u, l) ==
  /\ u \in Known
  /\ links[l] = "active"
  /\ Ask(r, "save", "write", u, l)
  /\ UNCHANGED <<users, people, item, links, access, granted>>

\* The insert selects the link again, and replaces the one saved before.
Saved(row, x) == [row EXCEPT !.link = x.link, !.for = @ \cup {x.for}]

WriteSaved(r) ==
  LET x == request[r] IN
  /\ x.kind = "save" /\ x.pc = "write"
  /\ IF links[x.link] = "active"
     THEN /\ access' = [access EXCEPT ![x.user] = Saved(@, x)]
          /\ granted' = {g \in Granting(x, {<<x.for, x.link>>}) :
                           g[1] = x.for => g[2] \in {0, x.link}}
     ELSE UNCHANGED <<access, granted>>
  /\ Ends(r)
  /\ UNCHANGED <<users, people, item, links>>

Share(r) ==
  /\ Ask(r, "share", "item", 0, 0)
  /\ UNCHANGED <<users, people, item, links, access, granted>>

Ended(ls) ==
  /\ links' = [l \in Links |-> IF l \in ls /\ links[l] = "active" THEN "ended" ELSE links[l]]
  /\ granted' = {g \in granted : g[2] \notin ls}

\* createAuthenticatorShare ends the links there are, then inserts its own.
RevokeOthers(r) ==
  /\ request[r].pc = "revoke"
  /\ Ended(Links)
  /\ Goes(r, "write")
  /\ UNCHANGED <<users, people, item, access>>

\* Its id is a new UUID.
InsertLink(r) ==
  /\ request[r].kind = "share" /\ request[r].pc = "write"
  /\ \E l \in Links : /\ links[l] = "none"
                      /\ links' = IF item THEN [links EXCEPT ![l] = "active"] ELSE links
  /\ Ends(r)
  /\ UNCHANGED <<users, people, item, access, granted>>

\* An administrator revokes it, or a link of an older version expires.
EndLink(l) ==
  /\ links[l] = "active"
  /\ Ended({l})
  /\ UNCHANGED <<users, people, item, access, request>>

\* One batch.
DeleteItem ==
  /\ item
  /\ item' = FALSE
  /\ access' = [u \in Ids |-> NoRow]
  /\ Ended(Links \cup {0})
  /\ UNCHANGED <<users, people, request>>

\* The worker breaks off between two statements.
Abandon(r) ==
  /\ request[r].pc \in {"item", "revoke", "write"}
  /\ Ends(r)
  /\ UNCHANGED <<users, people, item, links, access, granted>>

\* Mutant: the list does not look whether the link is still active.
Sees_ByAnyLink(u) == access[u].direct \/ access[u].link # 0

\* GET /user_api/authenticators
Sees(u) ==
  \/ access[u].direct
  \/ access[u].link # 0 /\ links[access[u].link] = "active"

-----------------------------------------------------------------------------
Next ==
  \/ Register \/ DeleteItem
  \/ \E u \in Ids : DeleteUser(u) \/ Unassign(u) \/ Remove(u)
  \/ \E l \in Links : EndLink(l)
  \/ \E r \in Requests :
       \/ \E u \in Ids : Assign(r, u) \/ \E l \in Links : Save(r, u, l)
       \/ Share(r) \/ ReadItem(r) \/ WriteAssignment(r) \/ WriteSaved(r)
       \/ RevokeOthers(r) \/ InsertLink(r) \/ Abandon(r)

Spec == Init /\ [][Next]_vars

-----------------------------------------------------------------------------
(* Properties.                                                             *)

\* A user has the authenticator exactly while an assignment or a link that is
\* active grants it to this person: withdrawing one source neither takes the
\* other away nor leaves anything behind.  A row that was made for an earlier
\* owner of the id, whom it survives, is left out.
GrantsDecide ==
  \A u \in Known :
    access[u].for \subseteq {users[u]} =>
      (Sees(u) <=> \E g \in granted : g[1] = users[u])
=============================================================================
