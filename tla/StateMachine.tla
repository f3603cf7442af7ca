---------------------------- MODULE StateMachine ----------------------------
(***************************************************************************)
(* The canonical task lifecycle of nexus/app/core/state.py: the states,    *)
(* the table of allowed edges, and the gate a target state demands of the  *)
(* evidence on the event log.  No variables: the orchestrator evaluates    *)
(* these predicates on the snapshot it has just projected from the log.    *)
(*                                                                         *)
(* A snapshot s is a record with at least the fields                       *)
(*   state         the last STATE event                                    *)
(*   contract      "none", "clear", or "unclear" (ambiguity or problems)   *)
(*   plan          number of the latest PLAN event, 0 before the first     *)
(*   observed      some OBSERVATION was logged                             *)
(*   verdict       the latest T0 VERIFICATION: "none", "pass", "fail"      *)
(*   pending       the step of the undecided APPROVAL_REQUEST, or NoStep   *)
(*   clarification a CLARIFICATION is open                                 *)
(***************************************************************************)
EXTENDS Naturals

State == {"CREATED", "INTERPRETING", "PLANNING", "WAITING_FOR_USER",
          "EXECUTING", "VERIFYING", "STALLED", "RECOVERING",
          "COMPLETED", "FAILED", "CANCELLED"}

Terminal == {"COMPLETED", "FAILED", "CANCELLED"}

ALLOWED ==
  [ CREATED          |-> {"INTERPRETING", "CANCELLED"},
    INTERPRETING     |-> {"PLANNING", "WAITING_FOR_USER", "FAILED", "CANCELLED"},
    PLANNING         |-> {"EXECUTING", "WAITING_FOR_USER", "FAILED", "CANCELLED"},
    WAITING_FOR_USER |-> {"INTERPRETING", "EXECUTING", "FAILED", "CANCELLED"},
    EXECUTING        |-> {"VERIFYING", "WAITING_FOR_USER", "STALLED",
                          "FAILED", "CANCELLED"},
    VERIFYING        |-> {"COMPLETED", "STALLED", "WAITING_FOR_USER",
                          "FAILED", "CANCELLED"},
    STALLED          |-> {"RECOVERING", "WAITING_FOR_USER", "FAILED", "CANCELLED"},
    RECOVERING       |-> {"EXECUTING", "VERIFYING", "WAITING_FOR_USER",
                          "FAILED", "CANCELLED"},
    COMPLETED        |-> {},
    FAILED           |-> {},
    CANCELLED        |-> {} ]

\* An approval request names a step by plan number and index; plans count from 1.
NoStep == <<0, 0>>

\* Is there anything to put to the user?
HasQuestion(s) ==
  \/ s.pending # NoStep
  \/ s.clarification
  \/ s.contract = "unclear"

\* gate_reason: the evidence a target state demands.  A Plan on the log always
\* has steps that name a capability and an effect: the planner supplies both.
Gate(s, target) ==
  /\ target = "PLANNING"         => s.contract = "clear"
  /\ target = "WAITING_FOR_USER" => HasQuestion(s)
  /\ target = "EXECUTING"        => s.plan # 0
  /\ target = "VERIFYING"        => s.observed
  /\ target = "COMPLETED"        => s.verdict = "pass"

TransitionOk(s, target) == target \in ALLOWED[s.state] /\ Gate(s, target)
=============================================================================
