------------------------- MODULE RevocableSessions -------------------------
(***************************************************************************)
(* What a store of revocable sessions promises: a session is opened once,  *)
(* is live until it is ended, stays ended, and a request is granted only   *)
(* by a session that is live at the moment of the grant.                   *)
(***************************************************************************)
CONSTANTS
  Sessions,  \* session identifiers
  Requests   \* requests that ask to be granted

VARIABLES
  live,     \* the sessions in force
  ended,    \* the sessions that were in force and are not any more
  granted   \* <<request, session>>: the grants so far

vars == <<live, ended, granted>>

Init ==
  /\ live = {}
  /\ ended = {}
  /\ granted = {}

Open(s) ==
  /\ s \notin live \cup ended
  /\ live' = live \cup {s}
  /\ UNCHANGED <<ended, granted>>

End(s) ==
  /\ s \in live
  /\ live' = live \ {s}
  /\ ended' = ended \cup {s}
  /\ UNCHANGED granted

Grant(r, s) ==
  /\ s \in live
  /\ granted' = granted \cup {<<r, s>>}
  /\ UNCHANGED <<live, ended>>

Next ==
  \/ \E s \in Sessions : Open(s) \/ End(s)
  \/ \E r \in Requests, s \in Sessions : Grant(r, s)

Spec == Init /\ [][Next]_vars
=============================================================================
