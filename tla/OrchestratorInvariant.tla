------------------------ MODULE OrchestratorInvariant ------------------------
(***************************************************************************)
(* The inductive invariant behind the safety properties of Orchestrator:   *)
(* what has to hold at each point of a drive, between any two events, for  *)
(* those properties to survive every step.  TLC checks it on the instances *)
(* of MCOrchestrator; OrchestratorProofs proves it.                        *)
(***************************************************************************)
EXTENDS Orchestrator

\* the points inside a round, where the frame belongs to a running plan
InRound ==
  {"step", "build", "observe", "measure", "ladder", "askApproval", "stalled",
   "buildError", "retry", "again", "built", "verify", "t2", "flag", "critic",
   "settle"}

Retries == {"stall", "build", "verify", "critic"}

Settled == Terminal \cup {"WAITING_FOR_USER"}

\* a frame that runs a plan names it, and there is room for one more re-plan
PlanInv ==
  /\ pc \in InRound \/ (pc = "recover" /\ frame.retry # "resume") =>
       frame.plan # 0 /\ frame.running # 0
  /\ pc = "steer" => snap.plan # 0
  /\ pc = "ladder" => snap.plan < MaxPlans

\* where the lifecycle must have got to at each point of the drive
ControlInv ==
  /\ pc # "idle" \/ snap.state # "CREATED" => snap.requested
  /\ snap.plan # 0 \/ pc \notin {"idle", "begin", "reconcileAsk", "reconcilePause"} =>
       snap.state # "CREATED"
  /\ pc = "begin" => snap.state = "CREATED"
  /\ snap.state \in Terminal =>
       pc \in {"bookkeeping", "finish", "raise", "finishFailed", "idle"}
  /\ pc = "bookkeeping" => snap.state = "COMPLETED"
  /\ pc \in {"denied", "lateQuestion"} => snap.state = "WAITING_FOR_USER"
  /\ pc \in {"finish", "finishFailed"} => snap.state \in Settled

\* once there is a combined diff it is the last artifact; until then the diff
\* carried over from the previous round is
Carried ==
  IF frame.combined # NoDiff THEN frame.combined = book.artifact
                             ELSE frame.prev # NoDiff => frame.prev = book.artifact

CandidateInv ==
  /\ pc \in {"step", "build", "measure", "ladder", "built"} => Carried
  /\ pc = "observe" =>
       IF frame.out # NoDiff THEN frame.out = book.artifact ELSE Carried
  /\ \/ pc \in {"verify", "t2", "flag", "critic", "settle"}
     \/ pc \in {"retry", "recover", "again"} /\ frame.retry = "verify"
     => frame.combined \in {book.artifact, NoDiff}
  /\ pc \in {"t2", "flag", "critic", "settle"} =>
       /\ hist.checked = frame.combined
       /\ snap.verdict = "pass" => frame.combined # NoDiff

\* each of the two retries has its own marker in the frame
RoundsInv ==
  /\ frame.rounds <= 1 + frame.builder + frame.critic
  /\ pc \in {"retry", "again"} => frame.retry \in Retries
  /\ pc = "recover" => frame.retry \in Retries \cup {"resume"}
  /\ pc \in {"retry", "recover", "again"} =>
       /\ frame.retry = "critic" => frame.critic = 0
       /\ frame.retry \in {"stall", "build", "verify"} => frame.builder = 0

\* a round works with approvals the log has recorded
ApprovalInv ==
  /\ frame.approved \subseteq snap.approved
  /\ ApprovalRespected

\* no RESULT claims a completion the lifecycle has not reached
ResultInv == snap.result = "COMPLETED" => snap.state = "COMPLETED"

TypeInv == TypeOK /\ PlanInv

\* What the drive itself needs: at every point between two events the plan,
\* lifecycle, candidate diff, retry markers and approvals agree with the log, so
\* that a kill there or an exception leaves nothing inconsistent.
DriveInv ==
  /\ TypeInv /\ ControlInv /\ CandidateInv /\ RoundsInv /\ ApprovalInv
  /\ CompletedIsVerified /\ SettledUnlessInterrupted /\ ResultInv

-----------------------------------------------------------------------------
(* What a later call finds on the log.                                     *)

\* an external step that was started was proposed on the log before
InflightInv ==
  /\ hist.inflight \subseteq book.proposed
  /\ UnseenEffectAsked

\* a restart asks only for a task that is neither over nor waiting, with its
\* question on the log; what escapes from it leaves a task as it was captured
RestartInv ==
  /\ pc \in {"reconcileAsk", "reconcilePause"} => snap.state \notin Settled
  /\ pc = "reconcilePause" => snap.clarification
  /\ ending = "raised" => pc = "idle" /\ snap.requested
  /\ RaisesOnlyUnstarted

\* only a kill leaves a task between two states for resume() to reconcile
KillInv ==
  crashes = 0 =>
    /\ pc \notin {"reconcileAsk", "reconcilePause", "steer", "lateQuestion"}
    /\ pc = "recover" => frame.retry # "resume"
    /\ pc = "idle" /\ snap.requested => snap.state \in Settled

\* a question goes only when it is answered, and the answer moves the state
QuestionInv ==
  /\ pc \in {"begin", "interpret"} => snap.state # "WAITING_FOR_USER"
  /\ crashes = 0 /\ snap.state = "WAITING_FOR_USER" =>
       HasQuestion(snap) \/ pc \in {"startExecuting", "denied", "raise"}

\* an approval is asked on the way out of a round that was not verified, so no
\* later answer leads from a verdict back into a round
PassInv ==
  crashes = 0 =>
    /\ snap.pending # NoStep =>
         snap.requested /\ pc \in {"pause", "raise", "finish", "finishFailed", "idle"}
    /\ snap.verdict = "pass" =>
         /\ snap.requested /\ snap.pending = NoStep
         /\ pc \in {"t2", "flag", "critic", "settle", "bookkeeping", "pause", "raise",
                    "finish", "finishFailed", "idle"}

\* re-plans a round may ask for: with a stronger builder in reserve only the
\* last rung re-plans, afterwards each of three does
RoundReplans(builder) == IF builder = 0 /\ HasFallback THEN 1 ELSE 3

\* the re-plans the current round has had, by the rung it has reached
Replans ==
  IF Fast THEN (IF frame.rung >= 5 THEN 1 ELSE 0)
  ELSE (IF frame.rung >= 2 THEN 1 ELSE 0) + (IF frame.rung >= 3 THEN 1 ELSE 0)
       + (IF frame.rung >= 5 THEN 1 ELSE 0)

\* the most plans there can be when a round with these markers begins
PlansBefore ==
  CASE frame.builder = 0 /\ frame.critic = 0 -> 1
    [] frame.builder = 0 /\ frame.critic = 1 -> 1 + RoundReplans(0)
    [] frame.builder = 1 /\ frame.critic = 0 -> 1 + RoundReplans(0)
    [] OTHER -> 1 + RoundReplans(0) + RoundReplans(1)

\* the plans of the first call are paid for by its rounds and their rungs
LadderInv ==
  resumes = 0 =>
    /\ pc \notin {"reconcileAsk", "reconcilePause", "steer", "lateQuestion", "denied"}
    /\ pc = "recover" => frame.retry # "resume"
    /\ frame.builder = 1 \/ frame.retry \in {"stall", "build", "verify"} => HasFallback
    /\ pc \in {"begin", "interpret", "startPlanning", "route", "plan", "startExecuting"}
       \/ ~snap.requested => snap.plan <= 1
    /\ pc \in InRound \cup {"recover"} => snap.plan <= PlansBefore + Replans
    /\ ReplansBounded

\* The inductive invariant: what the drive needs and what later calls find.
IInv ==
  /\ DriveInv
  /\ InflightInv /\ RestartInv /\ KillInv /\ QuestionInv /\ PassInv /\ LadderInv
=============================================================================
