-------------------------- MODULE VerifiedDelivery --------------------------
(***************************************************************************)
(* What a code-editing task promises its user, with everything about plans,*)
(* retries, pauses, crashes and the event log left out.  A task works on   *)
(* candidate diffs; a check accepts the candidate or nothing; the task may *)
(* complete only while the accepted diff is the candidate; and nothing     *)
(* but the accepted diff of a completed task reaches the workspace.        *)
(***************************************************************************)
CONSTANTS Diffs, NoDiff

VARIABLES
  phase,     \* "open", "completed" or "failed"
  candidate, \* the diff the task would deliver
  accepted,  \* the diff verification accepted last, NoDiff if it rejected
  delivered  \* the diff in the user's workspace

vars == <<phase, candidate, accepted, delivered>>

Init ==
  /\ phase = "open"
  /\ candidate = NoDiff /\ accepted = NoDiff /\ delivered = NoDiff

Work ==
  /\ phase = "open"
  /\ candidate' \in Diffs
  /\ UNCHANGED <<phase, accepted, delivered>>

Check ==
  /\ phase = "open"
  /\ accepted' \in {candidate, NoDiff}
  /\ UNCHANGED <<phase, candidate, delivered>>

Complete ==
  /\ phase = "open"
  /\ accepted = candidate /\ accepted # NoDiff
  /\ phase' = "completed"
  /\ UNCHANGED <<candidate, accepted, delivered>>

Abandon ==
  /\ phase = "open"
  /\ phase' = "failed"
  /\ UNCHANGED <<candidate, accepted, delivered>>

Deliver ==
  /\ phase = "completed"
  /\ delivered' = accepted
  /\ UNCHANGED <<phase, candidate, accepted>>

Next == Work \/ Check \/ Complete \/ Abandon \/ Deliver

Spec == Init /\ [][Next]_vars
=============================================================================
