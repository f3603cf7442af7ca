--------------------------- MODULE MCOrchestrator ---------------------------
(* Small instances of Orchestrator for TLC. *)
EXTENDS OrchestratorInvariant

CONSTANTS d1, d2

\* a two-step plan that may be re-planned into one-step plans
TwoStepPlan == [p \in Plans |-> IF p = 1 THEN 2 ELSE 1]

PlanOneExternal == {<<1, 1>>, <<1, 2>>}

SecondStepSensitive == {<<1, 2>>}

ReplanRefused == {<<2, 1>>}
=============================================================================
