--------------------------- MODULE CancellableRun ---------------------------
(***************************************************************************)
(* What the desktop runner promises its user: one run at a time, and once  *)
(* the run has been asked to stop, no model call is made for it any more.  *)
(***************************************************************************)
EXTENDS Naturals

CONSTANTS Runs, NoRun

VARIABLES
  active,  \* the run in progress, or NoRun
  asked,   \* the runs that were asked to stop
  made,    \* made[r] is the number of model calls made for r
  ended    \* the runs that are over

vars == <<active, asked, made, ended>>

Init ==
  /\ active = NoRun
  /\ asked = {} /\ ended = {}
  /\ made = [r \in Runs |-> 0]

Begin(r) ==
  /\ active = NoRun /\ r \notin ended
  /\ active' = r
  /\ UNCHANGED <<asked, made, ended>>

Ask ==
  /\ active # NoRun
  /\ asked' = asked \cup {active}
  /\ UNCHANGED <<active, made, ended>>

Work ==
  /\ active # NoRun /\ active \notin asked
  /\ made' = [made EXCEPT ![active] = @ + 1]
  /\ UNCHANGED <<active, asked, ended>>

End ==
  /\ active # NoRun
  /\ active' = NoRun
  /\ ended' = ended \cup {active}
  /\ UNCHANGED <<asked, made>>

Next == (\E r \in Runs : Begin(r)) \/ Ask \/ Work \/ End

Spec == Init /\ [][Next]_vars
=============================================================================
