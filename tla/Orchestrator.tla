---------------------------- MODULE Orchestrator ----------------------------
(***************************************************************************)
(* One code-editing task driven by nexus/app/orchestration/orchestrator.py *)
(* over the append-only event log, together with restart reconciliation    *)
(* (services/recovery) and apply-back (services/build/apply.py).           *)
(*                                                                         *)
(* The log is durable: every append commits on its own, so the process may *)
(* be killed between any two appends.  What the code reads back from the   *)
(* log is kept as two records, each updated by one event at a time the way *)
(* the folds project_task and build_checkpoint do it: `snap` (the          *)
(* TaskSnapshot) and `book` (artifacts, proposals, observations).  What    *)
(* lives only in the call stack of a drive is `frame`; a kill loses it.    *)
(***************************************************************************)
EXTENDS StateMachine

CONSTANTS
  Diffs,       \* non-empty diffs a Builder can produce
  NoDiff,      \* the empty diff
  MaxPlans,    \* bound on PLAN events
  PlanLen,     \* PlanLen[n] is the number of steps of the n-th PLAN
  External,    \* steps whose operation is net.fetch or secret.use
  Sensitive,   \* steps that match a risk-class pattern: REQUIRE_APPROVAL
  Refused,     \* steps another policy rule denies
  HasFallback, \* fallback_builder is wired
  HasCritic,   \* critic is wired
  HasT2,       \* verifier_t2 is wired
  T2OnEscalationOnly,
  HasRouter,   \* router is wired: the stronger_model rung may act
  PerFilePolicy,
  MaxCrashes,  \* bound on kills
  MaxResumes   \* bound on resume() calls

Plans == 1 .. MaxPlans
Steps == Plans \X (Nat \ {0})
AnyDiff == Diffs \cup {NoDiff}

ASSUME ConstantsAssumption ==
  /\ NoDiff \notin Diffs
  /\ MaxPlans \in Nat \ {0}
  /\ PlanLen \in [Plans -> Nat \ {0}]
  /\ External \subseteq Steps /\ Sensitive \subseteq Steps /\ Refused \subseteq Steps
  /\ \A flag \in {HasFallback, HasCritic, HasT2, T2OnEscalationOnly,
                  HasRouter, PerFilePolicy} : flag \in BOOLEAN
  /\ MaxCrashes \in Nat
  /\ MaxResumes \in Nat

VARIABLES
  pc,        \* where the drive is; "idle" when no call is in progress
  snap,      \* TaskSnapshot: the fold of the log the gates read
  book,      \* the part of the log reconcile() and apply_task_result() read
  frame,     \* locals of the drive's stack frames
  hist,      \* history, for the properties only: the diff T0 saw last, the
             \* steps let through a gate that asked for approval, the keys
             \* completed when the last resume() began, and the external steps
             \* started and not observed since
  delivered, \* the diff applied to the user's workspace
  ending,    \* how the last call ended: "none", "returned", "raised", "killed"
  crashes, resumes

log  == <<snap, book>>
env  == <<delivered, crashes, resumes>>
vars == <<pc, snap, book, frame, hist, delivered, ending, crashes, resumes>>

-----------------------------------------------------------------------------
(* The folds: what one more event of a kind does to the snapshot.          *)

\* Fault: entering WAITING_FOR_USER closes the question it waits for.
OnStateClosesQuestion(s, t) ==
  [s EXCEPT !.state = t, !.clarification = FALSE]

OnState(s, t) ==
  [s EXCEPT !.state = t,
            !.clarification = @ /\ t \notin {"INTERPRETING", "EXECUTING"}]

\* Fault: the pending step is forgotten before it is recorded as approved.
OnDecisionForgets(s, yes) ==
  [s EXCEPT !.pending = NoStep,
            !.approved = IF yes THEN @ \cup {NoStep} ELSE @]

OnDecision(s, yes) ==
  [s EXCEPT !.pending = NoStep,
            !.approved = IF yes THEN @ \cup {s.pending} ELSE @]

\* Fault: any observation confirms every proposal before it.
UncertainUnlessSeen == IF book.seen = {} THEN book.proposed ELSE {}

\* uncertain_external_actions: external proposals of steps never observed.
Uncertain == book.proposed \ book.seen

(* The frame of a fresh _execute_verify_settle, and of its nested retries. *)

IdleFrame ==
  [plan |-> 0, running |-> 0, i |-> 1, combined |-> NoDiff, prev |-> NoDiff,
   out |-> NoDiff, failed |-> FALSE, approved |-> {}, builder |-> 0,
   critic |-> 0, rung |-> 0, measure |-> FALSE, retry |-> "none", rounds |-> 0]

\* fast_escalate: round 0 with a stronger builder still in reserve
Fast == frame.builder = 0 /\ HasFallback

Current == <<frame.running, frame.i>>

Round(plan, approved, builder, critic, prev, rounds) ==
  [IdleFrame EXCEPT
     !.plan = plan, !.running = plan, !.approved = approved,
     !.builder = builder, !.critic = critic, !.prev = prev,
     !.measure = PlanLen[plan] > 1, !.rounds = rounds]

\* Fault: a step still waiting for its decision counts as approved.
FirstRoundPendingApproved ==
  Round(snap.plan, snap.approved \cup {snap.pending}, 0, 0, NoDiff, 1)

FirstRound == Round(snap.plan, snap.approved, 0, 0, NoDiff, 1)

\* Fault: the fallback round gets a critic round of its own.
NextRoundForgetsCritic ==
  Round(frame.plan, frame.approved,
        IF frame.retry = "critic" THEN frame.builder ELSE 1,
        IF frame.retry = "critic" THEN 1 ELSE 0,
        IF frame.retry = "verify" THEN frame.combined ELSE NoDiff,
        frame.rounds + 1)

\* the arguments of the four recursive calls; frame.retry names the call site
NextRound ==
  Round(frame.plan, frame.approved,
        IF frame.retry = "critic" THEN frame.builder ELSE 1,
        IF frame.retry = "critic" THEN 1 ELSE frame.critic,
        IF frame.retry = "verify" THEN frame.combined ELSE NoDiff,
        frame.rounds + 1)

(* _transition: append STATE if the edge and its gate allow it, or raise.  *)
Enter(target, next) ==
  IF TransitionOk(snap, target)
  THEN snap' = OnState(snap, target) /\ pc' = next
  ELSE snap' = snap /\ pc' = "raise"

-----------------------------------------------------------------------------
(* run() and _drive: capture, interpret, clarify, plan                     *)

Run ==
  /\ pc = "idle" /\ ~snap.requested
  /\ snap' = [snap EXCEPT !.requested = TRUE]
  /\ pc' = "begin"
  /\ UNCHANGED <<book, frame, hist, ending, env>>

BeginInterpreting ==
  /\ pc = "begin"
  /\ Enter("INTERPRETING", "interpret")
  /\ UNCHANGED <<book, frame, hist, ending, env>>

Interpret ==
  /\ pc = "interpret"
  /\ \E c \in {"clear", "unclear"} :
       /\ snap' = [snap EXCEPT !.contract = c]
       /\ pc' = IF c = "unclear" THEN "clarify" ELSE "startPlanning"
  /\ UNCHANGED <<book, frame, hist, ending, env>>

StartPlanning ==
  /\ pc = "startPlanning"
  /\ Enter("PLANNING", "route")
  /\ UNCHANGED <<book, frame, hist, ending, env>>

\* Fault: a hardware pause returns without entering WAITING_FOR_USER.
RoutePausesSilently ==
  /\ pc = "route"
  /\ pc' \in {"plan", "finish"}
  /\ UNCHANGED <<log, frame, hist, ending, env>>

\* _route_and_check_hardware: go on, or pause to protect the hardware
Route ==
  /\ pc = "route"
  /\ pc' \in {"plan", "clarify"}
  /\ UNCHANGED <<log, frame, hist, ending, env>>

MakePlan ==
  /\ pc = "plan"
  /\ snap' = [snap EXCEPT !.plan = 1]
  /\ pc' = "startExecuting"
  /\ UNCHANGED <<book, frame, hist, ending, env>>

\* also how an approved step and a RESUME re-enter EXECUTING
StartExecuting ==
  /\ pc = "startExecuting"
  /\ Enter("EXECUTING", "step")
  /\ frame' = IF pc' = "step" THEN FirstRound ELSE frame
  /\ UNCHANGED <<book, hist, ending, env>>

-----------------------------------------------------------------------------
(* _execute and _run_step: one plan step at a time in a throwaway copy     *)

\* the gate asked for approval and found it given
PassGate(asked) == IF asked THEN hist.gated \cup {Current} ELSE hist.gated

\* grant, ACTION_PROPOSAL, POLICY_DECISION
Propose ==
  /\ pc = "step" /\ frame.i <= PlanLen[frame.running]
  /\ book' = [book EXCEPT !.proposed = @ \cup ({Current} \cap External)]
  /\ \/ /\ Current \in Refused
        /\ pc' = "buildError" /\ UNCHANGED hist
     \/ /\ Current \in Sensitive \ (Refused \cup frame.approved)
        /\ pc' = "askApproval" /\ UNCHANGED hist
     \/ /\ Current \notin Refused \cup (Sensitive \ frame.approved)
        /\ pc' = "build"
        /\ hist' = [hist EXCEPT !.gated = PassGate(Current \in Sensitive),
                                !.inflight = @ \cup ({Current} \cap External)]
  /\ UNCHANGED <<snap, frame, ending, env>>

\* the step cap or an unknown capability (BuildError), the task budget
\* (BudgetExhausted)
StopBeforeStep ==
  /\ pc = "step" /\ frame.i <= PlanLen[frame.running]
  /\ pc' \in {"buildError", "clarify"}
  /\ UNCHANGED <<log, frame, hist, ending, env>>

StepsDone ==
  /\ pc = "step" /\ frame.i > PlanLen[frame.running]
  /\ pc' = "built"
  /\ UNCHANGED <<log, frame, hist, ending, env>>

Decisions == {"ALLOW", "REQUIRE_APPROVAL", "DENY"}

\* _per_file_policy runs on a clean exit that changed files
FileDecisions(d, failed) ==
  IF PerFilePolicy /\ ~failed /\ d # NoDiff THEN Decisions ELSE {"ALLOW"}

\* builder.execute, per-file policy, ARTIFACT
Build ==
  /\ pc = "build"
  /\ \E d \in AnyDiff, failed \in BOOLEAN : \E f \in FileDecisions(d, failed) :
       \/ /\ f = "DENY"
          /\ pc' = "buildError" /\ UNCHANGED <<book, frame, hist>>
       \/ /\ f = "REQUIRE_APPROVAL" /\ Current \notin frame.approved
          /\ pc' = "askApproval" /\ UNCHANGED <<book, frame, hist>>
       \/ /\ f = "REQUIRE_APPROVAL" => Current \in frame.approved
          /\ f # "DENY"
          /\ book' = [book EXCEPT !.artifact = IF d = NoDiff THEN @ ELSE d]
          /\ frame' = [frame EXCEPT !.out = d, !.failed = failed]
          /\ hist' = [hist EXCEPT !.gated = PassGate(f = "REQUIRE_APPROVAL")]
          /\ pc' = "observe"
  /\ UNCHANGED <<snap, ending, env>>

\* OBSERVATION, then BuildError if the builder failed
Observe ==
  /\ pc = "observe"
  /\ snap' = [snap EXCEPT !.observed = TRUE]
  /\ book' = [book EXCEPT !.seen = @ \cup {Current},
                          !.completed = IF frame.failed THEN @ ELSE @ \cup {Current}]
  /\ IF frame.failed
     THEN pc' = "buildError" /\ frame' = frame
     ELSE /\ frame' = [frame EXCEPT
                         !.combined = IF frame.out = NoDiff THEN @ ELSE frame.out,
                         !.i = IF frame.measure THEN @ ELSE @ + 1]
          /\ pc' = IF frame.measure THEN "measure" ELSE "step"
  /\ hist' = [hist EXCEPT !.inflight = @ \ {Current}]
  /\ UNCHANGED <<ending, env>>

\* the acceptance test is green: skip the remaining steps
AcceptEarly ==
  /\ pc = "measure"
  /\ frame.combined # NoDiff /\ frame.i < PlanLen[frame.running]
  /\ pc' = "built"
  /\ UNCHANGED <<log, frame, hist, ending, env>>

\* Fault: the step index does not move on.
MakesProgressInPlace ==
  /\ pc = "measure"
  /\ pc' = "step"
  /\ UNCHANGED <<log, frame, hist, ending, env>>

MakesProgress ==
  /\ pc = "measure"
  /\ frame' = [frame EXCEPT !.i = @ + 1]
  /\ pc' = "step"
  /\ UNCHANGED <<log, hist, ending, env>>

\* budget.over_hard after a step, or a STALLED / LOOP_RISK classification
Stops ==
  /\ pc = "measure"
  /\ \/ pc' = "clarify"
     \/ pc' = "ladder" /\ snap.plan < MaxPlans
  /\ UNCHANGED <<log, frame, hist, ending, env>>

\* The rungs that may answer with a re-plan, by index in RUNGS.
CanReplan(r) ==
  CASE r = 1 -> ~Fast                   \* change_strategy (max_replans > 0)
    [] r = 2 -> HasCritic /\ ~Fast      \* critic rejects with findings
    [] r = 4 -> HasRouter               \* an untried stronger provider
    [] OTHER -> FALSE

\* Fault: the rung that answered may answer again.
ReplannedSameRung(r) ==
  [frame EXCEPT !.running = snap.plan + 1, !.i = 1, !.measure = TRUE]

Replanned(r) ==
  [frame EXCEPT !.running = snap.plan + 1, !.i = 1, !.measure = TRUE,
                !.rung = r + 1]

\* change_strategy always acts when it is reached, the other two may decline
LadderReplan ==
  /\ pc = "ladder"
  /\ \E r \in frame.rung .. 4 :
       /\ CanReplan(r)
       /\ r > 1 /\ CanReplan(1) => frame.rung > 1
       /\ snap' = [snap EXCEPT !.plan = @ + 1]
       /\ frame' = Replanned(r)
  /\ pc' = "step"
  /\ UNCHANGED <<book, hist, ending, env>>

LadderAskUser ==
  /\ pc = "ladder"
  /\ CanReplan(1) => frame.rung > 1
  /\ pc' = "stalled"
  /\ UNCHANGED <<log, frame, hist, ending, env>>

-----------------------------------------------------------------------------
(* The exceptions of _execute, as _execute_verify_settle handles them      *)

\* ApprovalPause -> APPROVAL_REQUEST
AskApproval ==
  /\ pc = "askApproval"
  /\ snap' = [snap EXCEPT !.pending = Current]
  /\ pc' = "pause"
  /\ UNCHANGED <<book, frame, hist, ending, env>>

\* CLARIFICATION, wherever a handler asks the user something
Clarify ==
  /\ pc = "clarify"
  /\ snap' = [snap EXCEPT !.clarification = TRUE]
  /\ pc' = "pause"
  /\ UNCHANGED <<book, frame, hist, ending, env>>

Pause ==
  /\ pc = "pause"
  /\ Enter("WAITING_FOR_USER", "finish")
  /\ UNCHANGED <<book, frame, hist, ending, env>>

HandleStalled ==
  /\ pc = "stalled"
  /\ IF Fast
     THEN pc' = "retry" /\ frame' = [frame EXCEPT !.retry = "stall"]
     ELSE pc' = "clarify" /\ frame' = frame
  /\ UNCHANGED <<log, hist, ending, env>>

HandleBuildError ==
  /\ pc = "buildError"
  /\ IF Fast
     THEN pc' = "retry" /\ frame' = [frame EXCEPT !.retry = "build"]
     ELSE pc' = "raise" /\ frame' = frame
  /\ UNCHANGED <<log, hist, ending, env>>

\* A retry walks STALLED, RECOVERING, EXECUTING and then runs one more round.
EnterStalled ==
  /\ pc = "retry"
  /\ Enter("STALLED", "recover")
  /\ UNCHANGED <<book, frame, hist, ending, env>>

EnterRecovering ==
  /\ pc = "recover"
  /\ Enter("RECOVERING", IF frame.retry = "resume" THEN "startExecuting"
                                                   ELSE "again")
  /\ UNCHANGED <<book, frame, hist, ending, env>>

\* The handler of a BuildError passes prev_diff=combined_diff, a local that is
\* unbound because _execute raised: the call raises UnboundLocalError instead.
Again ==
  /\ pc = "again"
  /\ IF frame.retry = "build"
     THEN Enter("EXECUTING", "raise") /\ frame' = frame
     ELSE /\ Enter("EXECUTING", "step")
          /\ frame' = IF pc' = "step" THEN NextRound ELSE frame
  /\ UNCHANGED <<book, hist, ending, env>>

-----------------------------------------------------------------------------
(* Verify, second opinions, settle                                         *)

\* Fault: a retry that did produce a diff verifies the previous round's.
BuiltPrefersPrevious ==
  /\ pc = "built"
  /\ frame' = [frame EXCEPT !.combined = IF frame.prev = NoDiff THEN @ ELSE frame.prev]
  /\ Enter("VERIFYING", "verify")
  /\ UNCHANGED <<book, hist, ending, env>>

\* an empty diff of a retry falls back on the previous round's diff
Built ==
  /\ pc = "built"
  /\ frame' = [frame EXCEPT !.combined = IF @ = NoDiff THEN frame.prev ELSE @]
  /\ Enter("VERIFYING", "verify")
  /\ UNCHANGED <<book, hist, ending, env>>

\* T0: an empty diff never passes
Verify ==
  /\ pc = "verify"
  /\ \E v \in {"pass", "fail"} :
       /\ v = "pass" => frame.combined # NoDiff
       /\ snap' = [snap EXCEPT !.verdict = v]
  /\ hist' = [hist EXCEPT !.checked = frame.combined]
  /\ pc' = "t2"
  /\ UNCHANGED <<book, frame, ending, env>>

\* T2 is advisory: it may ask a human about a T0 pass, nothing else
RunsT2 ==
  /\ HasT2
  /\ T2OnEscalationOnly => frame.builder # 0 \/ snap.verdict # "pass"

T2Pass ==
  /\ pc = "t2"
  /\ \/ pc' = "critic" /\ UNCHANGED snap
     \/ /\ RunsT2 /\ snap.verdict = "pass"
        /\ snap' = [snap EXCEPT !.clarification = TRUE]
        /\ pc' = "flag"
  /\ UNCHANGED <<book, frame, hist, ending, env>>

\* flag_catastrophic quarantines the experiences used, after the question
Flag ==
  /\ pc = "flag"
  /\ pc' = "pause"
  /\ UNCHANGED <<log, frame, hist, ending, env>>

\* Fault: a rejecting critic overrules a T0 pass.
CriticPassOverrules ==
  /\ pc = "critic"
  /\ \/ pc' = "settle" /\ frame' = frame
     \/ /\ HasCritic /\ frame.critic = 0
        /\ frame' = [frame EXCEPT !.retry = "critic"]
        /\ pc' = "retry"
  /\ UNCHANGED <<log, hist, ending, env>>

CriticPass ==
  /\ pc = "critic"
  /\ \/ pc' = "settle" /\ frame' = frame
     \/ /\ HasCritic /\ snap.verdict # "pass" /\ frame.critic = 0
        /\ frame' = [frame EXCEPT !.retry = "critic"]
        /\ pc' = "retry"
  /\ UNCHANGED <<log, hist, ending, env>>

Settle ==
  /\ pc = "settle"
  /\ IF snap.verdict = "pass"
     THEN Enter("COMPLETED", "bookkeeping") /\ frame' = frame
     ELSE IF Fast
     THEN pc' = "retry" /\ frame' = [frame EXCEPT !.retry = "verify"] /\ snap' = snap
     ELSE Enter("FAILED", "finish") /\ frame' = frame
  /\ UNCHANGED <<book, hist, ending, env>>

\* memory, experience, route statistics, canaries: stores outside the log
Bookkeeping ==
  /\ pc = "bookkeeping"
  /\ pc' = "finish"
  /\ UNCHANGED <<log, frame, hist, ending, env>>

\* _finish: RESULT, and the call returns
Finish ==
  /\ pc \in {"finish", "finishFailed"}
  /\ snap' = [snap EXCEPT !.result = IF pc = "finish" THEN snap.state ELSE "FAILED"]
  /\ pc' = "idle" /\ frame' = IdleFrame /\ ending' = "returned"
  /\ UNCHANGED <<book, hist, env>>

\* the calls out of the orchestrator that may raise anything, a Stop included
CallPoints ==
  {"interpret", "route", "plan", "step", "build", "measure", "ladder", "built",
   "verify", "t2", "flag", "critic", "bookkeeping"}

CallRaises ==
  /\ pc \in CallPoints
  /\ pc' = "raise"
  /\ UNCHANGED <<log, frame, hist, ending, env>>

\* Fault: an exception after completion fails the completed task.
ForceFailAlways ==
  /\ pc = "raise"
  /\ snap' = OnState(snap, "FAILED")
  /\ pc' = "finishFailed"
  /\ UNCHANGED <<book, frame, hist, ending, env>>

\* except Exception: ERROR, _force_fail, RESULT FAILED
ForceFail ==
  /\ pc = "raise"
  /\ snap' = IF snap.state \in Terminal \/ "FAILED" \notin ALLOWED[snap.state]
             THEN snap ELSE OnState(snap, "FAILED")
  /\ pc' = "finishFailed"
  /\ UNCHANGED <<book, frame, hist, ending, env>>

-----------------------------------------------------------------------------
(* resume(): approvals and restart reconciliation                          *)

CanResume == pc = "idle" /\ snap.requested /\ resumes < MaxResumes

\* terminal: the recorded result; waiting without a decision: asked again
ResumeUnchanged ==
  /\ CanResume
  /\ snap.state \in Terminal \cup {"WAITING_FOR_USER"}
  /\ snap' = IF snap.state \in Terminal THEN snap
             ELSE [snap EXCEPT !.result = "WAITING_FOR_USER"]
  /\ ending' = "returned"
  /\ resumes' = resumes + 1
  /\ UNCHANGED <<pc, book, frame, hist, delivered, crashes>>

\* _apply_approval: APPROVAL_DECISION first, then the state follows it
Decide(yes) ==
  /\ CanResume
  /\ snap.state = "WAITING_FOR_USER" /\ snap.pending # NoStep
  /\ snap' = OnDecision(snap, yes)
  /\ pc' = IF yes THEN "startExecuting" ELSE "denied"
  /\ hist' = [hist EXCEPT !.done = book.completed]
  /\ ending' = "none"
  /\ resumes' = resumes + 1
  /\ UNCHANGED <<book, frame, delivered, crashes>>

Denied ==
  /\ pc = "denied"
  /\ Enter("FAILED", "finish")
  /\ UNCHANGED <<book, frame, hist, ending, env>>

\* reconcile() and the RECONCILE event
Reconcile ==
  /\ CanResume
  /\ snap.state \notin Terminal \cup {"WAITING_FOR_USER"}
  /\ pc' = IF Uncertain # {} \/ snap.contract = "none" \/ snap.plan = 0
           THEN "reconcileAsk" ELSE "steer"
  /\ hist' = [hist EXCEPT !.done = book.completed]
  /\ ending' = "none"
  /\ resumes' = resumes + 1
  /\ UNCHANGED <<log, frame, delivered, crashes>>

\* Fault: the state is moved before the question is on the log.
ReconcileAskLater ==
  /\ pc = "reconcileAsk"
  /\ pc' = "reconcilePause"
  /\ UNCHANGED <<log, frame, hist, ending, env>>

\* ESCALATE and REPAIR: CLARIFICATION, then STATE WAITING_FOR_USER -- outside
\* the try block, so a refused transition escapes from resume()
ReconcileAsk ==
  /\ pc = "reconcileAsk"
  /\ snap' = [snap EXCEPT !.clarification = TRUE]
  /\ pc' = "reconcilePause"
  /\ UNCHANGED <<book, frame, hist, ending, env>>

ReconcilePause ==
  /\ pc = "reconcilePause"
  /\ IF TransitionOk(snap, "WAITING_FOR_USER")
     THEN /\ snap' = OnState(snap, "WAITING_FOR_USER")
          /\ pc' = "finish" /\ ending' = ending
     ELSE snap' = snap /\ pc' = "idle" /\ ending' = "raised"
  /\ UNCHANGED <<book, frame, hist, env>>

\* RESUME: steer the state machine back to EXECUTING
Steer ==
  /\ pc = "steer"
  /\ CASE snap.state = "INTERPRETING" ->
            Enter("PLANNING", "startExecuting") /\ frame' = frame
       [] snap.state \in {"PLANNING", "RECOVERING"} ->
            snap' = snap /\ pc' = "startExecuting" /\ frame' = frame
       [] snap.state = "STALLED" ->
            /\ snap' = snap /\ pc' = "recover"
            /\ frame' = [frame EXCEPT !.retry = "resume"]
       [] snap.state = "VERIFYING" ->
            Enter("WAITING_FOR_USER", "lateQuestion") /\ frame' = frame
       [] OTHER ->
            snap' = snap /\ pc' = "step" /\ frame' = FirstRound
  /\ UNCHANGED <<book, hist, ending, env>>

LateQuestion ==
  /\ pc = "lateQuestion"
  /\ snap' = [snap EXCEPT !.clarification = TRUE]
  /\ pc' = "finish"
  /\ UNCHANGED <<book, frame, hist, ending, env>>

-----------------------------------------------------------------------------
(* The environment: a kill at any point, and apply-back                    *)

Crash ==
  /\ pc # "idle" /\ crashes < MaxCrashes
  /\ pc' = "idle" /\ frame' = IdleFrame /\ ending' = "killed"
  /\ crashes' = crashes + 1
  /\ UNCHANGED <<log, hist, delivered, resumes>>

\* Fault: apply-back takes the last artifact of any task that has ended.
ApplyAnyResult ==
  /\ snap.result # "none" /\ book.artifact # NoDiff
  /\ delivered' = book.artifact
  /\ UNCHANGED <<pc, log, frame, hist, ending, crashes, resumes>>

\* apply_task_result: the RESULT says COMPLETED (and so verified); the last
\* non-empty ARTIFACT is patched in, unless git refuses the patch
ApplyResult ==
  /\ snap.result = "COMPLETED" /\ book.artifact # NoDiff
  /\ delivered' = book.artifact
  /\ UNCHANGED <<pc, log, frame, hist, ending, crashes, resumes>>

-----------------------------------------------------------------------------
Init ==
  /\ pc = "idle"
  /\ snap = [requested |-> FALSE, state |-> "CREATED", contract |-> "none",
             plan |-> 0, observed |-> FALSE, verdict |-> "none",
             result |-> "none", pending |-> NoStep, approved |-> {},
             clarification |-> FALSE]
  /\ book = [artifact |-> NoDiff, proposed |-> {}, seen |-> {}, completed |-> {}]
  /\ frame = IdleFrame
  /\ hist = [checked |-> NoDiff, gated |-> {}, done |-> {}, inflight |-> {}]
  /\ delivered = NoDiff
  /\ ending = "none"
  /\ crashes = 0 /\ resumes = 0

\* the steps of the one thread that drives the task
Drive ==
  \/ BeginInterpreting \/ Interpret \/ StartPlanning \/ Route \/ MakePlan
  \/ StartExecuting \/ Propose \/ StopBeforeStep \/ StepsDone \/ Build
  \/ Observe \/ AcceptEarly \/ MakesProgress \/ Stops
  \/ LadderReplan \/ LadderAskUser
  \/ AskApproval \/ Clarify \/ Pause \/ HandleStalled \/ HandleBuildError
  \/ EnterStalled \/ EnterRecovering \/ Again
  \/ Built \/ Verify \/ T2Pass \/ Flag \/ CriticPass \/ Settle \/ Bookkeeping
  \/ Finish \/ CallRaises \/ ForceFail
  \/ Denied \/ ReconcileAsk \/ ReconcilePause \/ Steer \/ LateQuestion

\* the user's calls
Call == Run \/ ResumeUnchanged \/ (\E yes \in BOOLEAN : Decide(yes)) \/ Reconcile

Next == Drive \/ Call \/ Crash \/ ApplyResult

Spec == Init /\ [][Next]_vars

FairSpec == Spec /\ WF_vars(Drive)

-----------------------------------------------------------------------------
(* Type correctness                                                        *)

SnapType ==
  [requested : BOOLEAN, state : State,
   contract : {"none", "clear", "unclear"}, plan : Plans \cup {0},
   observed : BOOLEAN, verdict : {"none", "pass", "fail"},
   result : State \cup {"none"}, pending : Steps \cup {NoStep},
   approved : SUBSET Steps, clarification : BOOLEAN]

BookType ==
  [artifact : AnyDiff, proposed : SUBSET Steps, seen : SUBSET Steps,
   completed : SUBSET Steps]

FrameType ==
  [plan : Plans \cup {0}, running : Plans \cup {0}, i : Nat \ {0},
   combined : AnyDiff, prev : AnyDiff, out : AnyDiff, failed : BOOLEAN,
   approved : SUBSET Steps, builder : {0, 1}, critic : {0, 1}, rung : Nat,
   measure : BOOLEAN, rounds : Nat,
   retry : {"none", "stall", "build", "verify", "critic", "resume"}]

HistType ==
  [checked : AnyDiff, gated : SUBSET Steps, done : SUBSET Steps,
   inflight : SUBSET Steps]

\* Every durable and local field holds a value of its kind; in particular an
\* approval recorded by _apply_approval names a real step, never the
\* placeholder of a request that has just been cleared.
TypeOK ==
  /\ snap \in SnapType /\ book \in BookType
  /\ frame \in FrameType /\ hist \in HistType
  /\ delivered \in AnyDiff
  /\ ending \in {"none", "returned", "raised", "killed"}
  /\ crashes \in Nat /\ resumes \in Nat

-----------------------------------------------------------------------------
(* Safety                                                                  *)

\* A COMPLETED task's last non-empty ARTIFACT, the one apply-back would write,
\* is exactly the diff the T0 verifier passed: through retries that produce an
\* empty diff, re-plans, failed builds, second opinions, restarts.
CompletedIsVerified ==
  snap.state = "COMPLETED" =>
    /\ snap.verdict = "pass"
    /\ hist.checked = book.artifact
    /\ book.artifact # NoDiff

\* A step that policy sent for approval is let through only once the user has
\* approved that very step, on whatever attempt, in whatever round.
ApprovalRespected == hist.gated \subseteq snap.approved

\* One call of run() or resume() executes at most three rounds: the critic
\* retry and the fallback retry happen once each, whichever comes first.
RetriesBounded == frame.rounds <= 3

\* Without restarts the planner is asked for a bounded number of plans: the
\* first, and as many as the ladders of its rounds answer with.  With a stronger
\* builder in reserve the first round re-plans once at most, the two retries
\* three times each; without one there are two rounds of three.
ReplansBounded == resumes = 0 => snap.plan <= IF HasFallback THEN 8 ELSE 7

\* Once a call has returned, the task is over or is waiting for its user.
SettledUnlessInterrupted ==
  pc = "idle" /\ ending = "returned" =>
    snap.state \in Terminal \cup {"WAITING_FOR_USER"}

\* A task that waits for its user has something to ask: a pending approval, an
\* open clarification or an unclear contract.  The one exception is a kill right
\* after APPROVAL_DECISION: the question is answered, the state not yet moved.
PausedHasQuestion ==
  pc = "idle" /\ snap.state = "WAITING_FOR_USER" /\ crashes = 0 => HasQuestion(snap)

\* A diff that passed T0 is never sent back to the Builder: second opinions may
\* ask a human, they cannot reject it.  Not so after a kill between an
\* APPROVAL_REQUEST and the state it explains: the request stays open on the
\* log, and answering it later rebuilds a task that passed in the meantime.
PassIsNotRebuilt == pc = "build" /\ crashes = 0 => snap.verdict # "pass"

\* A restart goes on by itself only when every external step that was started
\* and left without an observation had been observed on an earlier attempt (the
\* fold matches by step, checkpoint.py:54-59); otherwise the user is asked.
UnseenEffectAsked == pc = "steer" => hist.inflight \subseteq book.seen

\* resume() raises only on a task killed before its first STATE; from every
\* other state a restart that has to ask finds its question on the log.
RaisesOnlyUnstarted == ending = "raised" => snap.state = "CREATED"

-----------------------------------------------------------------------------
(* Action properties                                                       *)

\* Nothing resurrects or rewrites a task that has ended: its state, verdict and
\* artifacts stay, whatever bookkeeping raises and however often it is resumed.
TerminalFrozen ==
  [][snap.state \in Terminal =>
       /\ snap'.state = snap.state /\ snap'.verdict = snap.verdict
       /\ book' = book]_vars

\* A failed build is retried with the fallback builder before the task fails.
BuildErrorRetried ==
  [][pc = "again" /\ frame.retry = "build" /\ pc' # "idle" =>
       frame'.builder = 1]_vars

-----------------------------------------------------------------------------
(* Claims of comments, docs and tests that this code does not satisfy: a   *)
(* run with one of them as its property refutes it (see the README).       *)

\* A restart goes on by itself only when no external action was started and
\* left without an observation.
ExternalEffectAsked == pc = "steer" => hist.inflight = {}

\* A restart does not execute again a step already observed to have succeeded.
CompletedKeysNotRepeated == pc = "build" => Current \notin hist.done

\* An approval asked of the user is for a step of the plan that approving it
\* would resume, so that the approval can let the step through.
PendingStepIsResumable ==
  pc = "idle" /\ snap.state = "WAITING_FOR_USER" /\ snap.pending # NoStep =>
    snap.pending[1] = snap.plan

\* resume() returns a result; it does not raise.
ResumeNeverRaises == ending # "raised"

\* A task interrupted during verification is put to the user on resume.
InterruptedVerifyAsks ==
  [][pc = "steer" /\ snap.state = "VERIFYING" /\ pc' # "idle" =>
       snap'.state = "WAITING_FOR_USER"]_vars

-----------------------------------------------------------------------------
(* Liveness                                                                *)

\* Every run() and resume() comes to an end: no cycle of steps, re-plans and
\* retries drives itself for ever.
DriveEnds == pc # "idle" ~> pc = "idle"

-----------------------------------------------------------------------------
(* The task implements VerifiedDelivery                                    *)

Phase ==
  CASE snap.state = "COMPLETED" -> "completed"
    [] snap.state \in Terminal \ {"COMPLETED"} -> "failed"
    [] OTHER -> "open"

Accepted == IF snap.verdict = "pass" THEN hist.checked ELSE NoDiff

Promise ==
  INSTANCE VerifiedDelivery WITH phase <- Phase, candidate <- book.artifact,
                                 accepted <- Accepted

\* Whatever the drive, the user's calls, kills and apply-back do, the user sees
\* a task of VerifiedDelivery: only what was verified is ever delivered.
ImplementsDelivery == Promise!Spec
=============================================================================
