------------------------- MODULE OrchestratorProofs -------------------------
(***************************************************************************)
(* Proofs about Orchestrator, for every value of its constants: any number *)
(* of diffs, plans, steps, kills and resumes, any wiring of the optional   *)
(* collaborators.  First the types (TypeInv), then what the drive needs at *)
(* every point (DriveInv), the safety properties that follow from it, that *)
(* a task implements VerifiedDelivery, and last what a later call finds    *)
(* and the account of re-plans, which make the invariant IInv whole.       *)
(***************************************************************************)
EXTENDS OrchestratorInvariant, TLAPS

-----------------------------------------------------------------------------
(* Lemmas about the operators the actions share                            *)

\* _transition either raises and leaves the log alone, or enters the target;
\* it touches no field of the snapshot but the state and the clarification.
LEMMA EnterStep ==
  ASSUME snap \in SnapType, NEW t \in State, NEW STATE next, Enter(t, next)
  PROVE  /\ snap' \in SnapType
         /\ \/ snap' = snap /\ pc' = "raise"
            \/ snap'.state = t /\ pc' = next /\ TransitionOk(snap, t)
         /\ snap'.requested = snap.requested /\ snap'.plan = snap.plan
         /\ snap'.verdict = snap.verdict /\ snap'.approved = snap.approved
         /\ snap'.result = snap.result
  BY ZenonT(90) DEF Enter, OnState, SnapType

\* The frame of a drive that has not started is well formed.
LEMMA IdleType == IdleFrame \in FrameType
  BY DEF IdleFrame, FrameType, AnyDiff

\* So is the frame of a round of any plan of the task.
LEMMA RoundType ==
  ASSUME NEW plan \in Plans, NEW approved \in SUBSET Steps,
         NEW builder \in {0, 1}, NEW critic \in {0, 1}, NEW prev \in AnyDiff,
         NEW rounds \in Nat
  PROVE  Round(plan, approved, builder, critic, prev, rounds) \in FrameType
<1>1. (PlanLen[plan] > 1) \in BOOLEAN
  BY ConstantsAssumption
<1>2. IdleFrame \in FrameType
  BY IdleType
<1> QED
  BY <1>1, <1>2 DEF Round, FrameType

\* What a round starts from: its arguments, and no diff of its own.
LEMMA RoundFields ==
  ASSUME NEW plan, NEW approved, NEW builder, NEW critic, NEW prev, NEW rounds
  PROVE  LET r == Round(plan, approved, builder, critic, prev, rounds) IN
         /\ r.plan = plan /\ r.running = plan /\ r.approved = approved
         /\ r.builder = builder /\ r.critic = critic /\ r.prev = prev
         /\ r.rounds = rounds /\ r.combined = NoDiff /\ r.retry = "none"
  BY DEF Round, IdleFrame

\* The first round of a drive runs the plan the log records.
LEMMA FirstRoundType ==
  ASSUME snap \in SnapType, snap.plan # 0
  PROVE  /\ FirstRound \in FrameType
         /\ FirstRound.plan # 0 /\ FirstRound.running # 0
<1>1. snap.plan \in Plans /\ snap.approved \in SUBSET Steps /\ NoDiff \in AnyDiff
  BY DEF SnapType, AnyDiff
<1>2. FirstRound \in FrameType
  BY <1>1, RoundType DEF FirstRound
<1> QED
  BY <1>2, RoundFields DEF FirstRound

\* A retry runs the plan of the round it retries.
LEMMA NextRoundType ==
  ASSUME frame \in FrameType, frame.plan # 0
  PROVE  /\ NextRound \in FrameType
         /\ NextRound.plan # 0 /\ NextRound.running # 0
<1> DEFINE b == IF frame.retry = "critic" THEN frame.builder ELSE 1
           c == IF frame.retry = "critic" THEN 1 ELSE frame.critic
           p == IF frame.retry = "verify" THEN frame.combined ELSE NoDiff
<1>1. /\ frame.plan \in Plans /\ frame.approved \in SUBSET Steps
      /\ frame.rounds + 1 \in Nat
  BY DEF FrameType
<1>2. b \in {0, 1} /\ c \in {0, 1} /\ p \in AnyDiff
  BY DEF FrameType, AnyDiff
<1>3. NextRound = Round(frame.plan, frame.approved, b, c, p, frame.rounds + 1)
  BY DEF NextRound
<1> HIDE DEF b, c, p
<1>4. NextRound \in FrameType
  BY <1>1, <1>2, <1>3, RoundType
<1> QED
  BY <1>3, <1>4, RoundFields

\* A re-plan keeps the frame well formed.
LEMMA ReplannedType ==
  ASSUME NEW f \in FrameType, NEW n \in Plans, NEW k \in Nat
  PROVE  [f EXCEPT !.running = n, !.i = 1, !.measure = TRUE, !.rung = k] \in FrameType
<1> DEFINE g == [f EXCEPT !.running = n]
           h == [g EXCEPT !.i = 1]
<1>1. g \in FrameType
  BY DEF FrameType
<1>2. h \in FrameType
  <2> HIDE DEF g
  <2> QED
    BY <1>1 DEF FrameType
<1>3. [h EXCEPT !.measure = TRUE, !.rung = k] \in FrameType
  <2> HIDE DEF h
  <2> QED
    BY <1>2 DEF FrameType
<1> QED
  BY <1>3

\* Inside a round the frame points at a step of a plan.
LEMMA CurrentStep ==
  ASSUME TypeInv, pc \in InRound
  PROVE  Current \in Steps
  BY DEF TypeInv, TypeOK, PlanInv, FrameType, Current, Steps


-----------------------------------------------------------------------------
(* Groups of steps that leave the same parts of the state alone            *)

\* the steps that move only the program counter
Quiet ==
  \/ Route \/ StopBeforeStep \/ StepsDone \/ AcceptEarly \/ Stops
  \/ LadderAskUser \/ Flag \/ Bookkeeping \/ CallRaises

\* the steps that append events to the snapshot and stay in their state
Appends ==
  \/ Run \/ Interpret \/ MakePlan \/ AskApproval \/ Clarify \/ T2Pass
  \/ ResumeUnchanged \/ ReconcileAsk \/ LateQuestion

\* the steps that are one _transition and nothing else
Enters ==
  \/ BeginInterpreting \/ StartPlanning \/ Pause \/ EnterStalled
  \/ EnterRecovering \/ Denied

\* the steps in which a handler decides on a retry
Handles == HandleStalled \/ HandleBuildError \/ CriticPass

Decides == \E yes \in BOOLEAN : Decide(yes)

-----------------------------------------------------------------------------
(* Types                                                                   *)

LEMMA TypeInvInit == Init => TypeInv
<1> SUFFICES ASSUME Init PROVE TypeInv
  OBVIOUS
<1>1. snap \in SnapType
  BY DEF Init, SnapType, State, Steps, NoStep
<1>2. book \in BookType /\ hist \in HistType /\ delivered \in AnyDiff
  BY DEF Init, BookType, HistType, AnyDiff
<1>3. frame \in FrameType
  BY IdleType DEF Init
<1> QED
  BY <1>1, <1>2, <1>3 DEF Init, TypeInv, TypeOK, PlanInv, InRound

\* The steps that move only the program counter.
LEMMA TypeInvQuiet ==
  ASSUME TypeInv, Quiet
  PROVE  TypeInv'
<1>1. TypeOK'
  BY DEF TypeInv, TypeOK, env, log, Quiet, Route, StopBeforeStep, StepsDone,
         AcceptEarly, Stops, LadderAskUser, Flag, Bookkeeping, CallRaises
<1>2. PlanInv'
  BY DEF TypeInv, PlanInv, InRound, log, Quiet, Route, StopBeforeStep, StepsDone,
         AcceptEarly, Stops, LadderAskUser, Flag, Bookkeeping, CallRaises
<1> QED
  BY <1>1, <1>2 DEF TypeInv

\* The steps that append one event to the snapshot and nothing else.
LEMMA TypeInvAppend ==
  ASSUME TypeInv, Appends \/ ForceFail
  PROVE  TypeInv'
<1> USE DEF env
<1>1. CASE Run
  <2>1. snap' \in SnapType
    BY <1>1 DEF Run, TypeInv, TypeOK, SnapType
  <2> QED
    BY <1>1, <2>1 DEF Run, TypeInv, TypeOK, PlanInv, InRound
<1>2. CASE Interpret
  <2>1. snap' \in SnapType
    BY <1>2 DEF Interpret, TypeInv, TypeOK, SnapType
  <2> QED
    BY <1>2, <2>1 DEF Interpret, TypeInv, TypeOK, PlanInv, InRound
<1>3. CASE MakePlan
  <2>1. snap' \in SnapType
    BY <1>3, ConstantsAssumption DEF MakePlan, TypeInv, TypeOK, SnapType, Plans
  <2> QED
    BY <1>3, <2>1 DEF MakePlan, TypeInv, TypeOK, PlanInv, InRound
<1>4. CASE AskApproval
  <2>1. snap' \in SnapType
    <3>1. Current \in Steps
      BY <1>4, CurrentStep DEF AskApproval, InRound
    <3> QED
      BY <1>4, <3>1 DEF AskApproval, TypeInv, TypeOK, SnapType
  <2> QED
    BY <1>4, <2>1 DEF AskApproval, TypeInv, TypeOK, PlanInv, InRound
<1>5. CASE Clarify
  <2>1. snap' \in SnapType
    BY <1>5 DEF Clarify, TypeInv, TypeOK, SnapType
  <2> QED
    BY <1>5, <2>1 DEF Clarify, TypeInv, TypeOK, PlanInv, InRound
<1>6. CASE T2Pass
  <2>1. snap' \in SnapType
    BY <1>6 DEF T2Pass, TypeInv, TypeOK, SnapType
  <2> QED
    BY <1>6, <2>1 DEF T2Pass, TypeInv, TypeOK, PlanInv, InRound
<1>7. CASE ForceFail
  <2>1. snap' \in SnapType
    BY <1>7 DEF ForceFail, TypeInv, TypeOK, SnapType, OnState, State
  <2> QED
    BY <1>7, <2>1 DEF ForceFail, TypeInv, TypeOK, PlanInv, InRound
<1>8. CASE ResumeUnchanged
  <2>1. snap' \in SnapType
    BY <1>8 DEF ResumeUnchanged, TypeInv, TypeOK, SnapType, State
  <2> QED
    BY <1>8, <2>1 DEF ResumeUnchanged, CanResume, TypeInv, TypeOK, PlanInv, InRound
<1>9. CASE ReconcileAsk
  <2>1. snap' \in SnapType
    BY <1>9 DEF ReconcileAsk, TypeInv, TypeOK, SnapType
  <2> QED
    BY <1>9, <2>1 DEF ReconcileAsk, TypeInv, TypeOK, PlanInv, InRound
<1>10. CASE LateQuestion
  <2>1. snap' \in SnapType
    BY <1>10 DEF LateQuestion, TypeInv, TypeOK, SnapType
  <2> QED
    BY <1>10, <2>1 DEF LateQuestion, TypeInv, TypeOK, PlanInv, InRound
<1> QED
  BY <1>1, <1>2, <1>3, <1>4, <1>5, <1>6, <1>7, <1>8, <1>9, <1>10 DEF Appends

\* The steps that are one _transition.
LEMMA TypeInvEnter ==
  ASSUME TypeInv, Enters
  PROVE  TypeInv'
<1> USE DEF env
<1>1. snap' \in SnapType /\ snap'.plan = snap.plan
  BY EnterStep DEF TypeInv, TypeOK, State, Enters, BeginInterpreting, StartPlanning,
                   Pause, EnterStalled, EnterRecovering, Denied
<1>2. UNCHANGED <<book, frame, hist, ending, env>>
  BY DEF Enters, BeginInterpreting, StartPlanning, Pause, EnterStalled,
         EnterRecovering, Denied
<1>3. PlanInv'
  BY <1>1, <1>2 DEF TypeInv, PlanInv, InRound, Enter, Enters, BeginInterpreting,
                    StartPlanning, Pause, EnterStalled, EnterRecovering, Denied
<1> QED
  BY <1>1, <1>2, <1>3 DEF TypeInv, TypeOK

\* The steps that execute a plan.
LEMMA TypeInvExecute ==
  ASSUME TypeInv,
         Propose \/ Build \/ Observe \/ MakesProgress \/ LadderReplan
  PROVE  TypeInv'
<1> USE DEF env, log
<1>1. Current \in Steps
  BY CurrentStep DEF Propose, Build, Observe, MakesProgress, LadderReplan, InRound
<1>2. CASE Propose
  <2>1. book' \in BookType
    BY <1>1, <1>2 DEF Propose, TypeInv, TypeOK, BookType
  <2>2. hist' \in HistType
    <3>1. PassGate(Current \in Sensitive) \in SUBSET Steps
      BY <1>1 DEF PassGate, HistType, TypeInv, TypeOK
    <3>2. hist.inflight \cup ({Current} \cap External) \in SUBSET Steps
      BY <1>1 DEF HistType, TypeInv, TypeOK
    <3> QED
      BY <1>2, <3>1, <3>2 DEF Propose, TypeInv, TypeOK, HistType
  <2>3. pc' \in {"build", "askApproval", "buildError"}
    BY <1>2 DEF Propose
  <2> QED
    BY <1>2, <2>1, <2>2, <2>3 DEF Propose, TypeInv, TypeOK, PlanInv, InRound
<1>3. CASE Build
  <2>1. book' \in BookType
    BY <1>3 DEF Build, TypeInv, TypeOK, BookType, AnyDiff
  <2>2. /\ frame' \in FrameType
        /\ frame'.plan = frame.plan /\ frame'.running = frame.running
    BY <1>3, ZenonT(40) DEF Build, TypeInv, TypeOK, FrameType, AnyDiff
  <2>3. hist' \in HistType
    <3>1. \A asked \in BOOLEAN : PassGate(asked) \in SUBSET Steps
      BY <1>1 DEF PassGate, HistType, TypeInv, TypeOK
    <3>2. PICK f \in Decisions : \/ UNCHANGED hist
                                \/ hist' = [hist EXCEPT !.gated = PassGate(f = "REQUIRE_APPROVAL")]
      BY <1>3 DEF Build, FileDecisions, Decisions
    <3>3. PassGate(f = "REQUIRE_APPROVAL") \in SUBSET Steps
      BY <3>1
    <3> QED
      BY <3>2, <3>3 DEF TypeInv, TypeOK, HistType
  <2>4. pc' \in {"observe", "askApproval", "buildError"}
    BY <1>3 DEF Build
  <2> QED
    BY <1>3, <2>1, <2>2, <2>3, <2>4 DEF Build, TypeInv, TypeOK, PlanInv, InRound
<1>4. CASE Observe
  <2>1. snap' \in SnapType
    BY <1>4 DEF Observe, TypeInv, TypeOK, SnapType
  <2>2. book' \in BookType
    BY <1>1, <1>4 DEF Observe, TypeInv, TypeOK, BookType
  <2>3. /\ frame' \in FrameType
        /\ frame'.plan = frame.plan /\ frame'.running = frame.running
    <3>1. CASE frame.failed
      BY <1>4, <3>1 DEF Observe, TypeInv, TypeOK
    <3>2. CASE ~frame.failed
      <4> DEFINE c == IF frame.out = NoDiff THEN frame.combined ELSE frame.out
                 n == IF frame.measure THEN frame.i ELSE frame.i + 1
      <4>1. c \in AnyDiff /\ n \in Nat \ {0}
        BY DEF TypeInv, TypeOK, FrameType
      <4>2. frame' = [frame EXCEPT !.combined = c, !.i = n]
        BY <1>4, <3>2 DEF Observe
      <4> HIDE DEF c, n
      <4> QED
        BY <4>1, <4>2 DEF TypeInv, TypeOK, FrameType
    <3> QED
      BY <3>1, <3>2
  <2>4. hist' \in HistType
    BY <1>4 DEF Observe, TypeInv, TypeOK, HistType
  <2>5. pc' \in {"buildError", "measure", "step"}
    BY <1>4 DEF Observe
  <2> QED
    BY <1>4, <2>1, <2>2, <2>3, <2>4, <2>5
       DEF Observe, TypeInv, TypeOK, PlanInv, InRound
<1>5. CASE MakesProgress
  <2>1. /\ frame' \in FrameType
        /\ frame'.plan = frame.plan /\ frame'.running = frame.running
    BY <1>5 DEF MakesProgress, TypeInv, TypeOK, FrameType
  <2> QED
    BY <1>5, <2>1 DEF MakesProgress, TypeInv, TypeOK, PlanInv, InRound
<1>6. CASE LadderReplan
  <2>1. snap.plan + 1 \in Plans
    BY <1>6, ConstantsAssumption
       DEF LadderReplan, TypeInv, TypeOK, SnapType, PlanInv, Plans
  <2>2. snap' \in SnapType
    BY <1>6, <2>1 DEF LadderReplan, TypeInv, TypeOK, SnapType
  <2>3. PICK r \in frame.rung .. 4 : frame' = Replanned(r)
    BY <1>6 DEF LadderReplan
  <2>4. r + 1 \in Nat
    BY <2>3 DEF TypeInv, TypeOK, FrameType
  <2>5. /\ frame' \in FrameType
        /\ frame'.plan = frame.plan /\ frame'.running # 0
    <3> DEFINE n == snap.plan + 1
               k == r + 1
    <3>1. n \in Plans /\ n # 0 /\ k \in Nat
      BY <2>1, <2>4 DEF Plans
    <3>2. frame' = [frame EXCEPT !.running = n, !.i = 1, !.measure = TRUE, !.rung = k]
      BY <2>3 DEF Replanned
    <3> HIDE DEF n, k
    <3>3. frame \in FrameType
      BY DEF TypeInv, TypeOK
    <3>4. frame' \in FrameType
      BY <3>1, <3>2, <3>3, ReplannedType
    <3>5. frame'.plan = frame.plan /\ frame'.running = n
      BY <3>2, <3>3 DEF FrameType
    <3> QED
      BY <3>1, <3>4, <3>5
  <2> QED
    BY <1>6, <2>2, <2>5 DEF LadderReplan, TypeInv, TypeOK, PlanInv, InRound
<1> QED
  BY <1>2, <1>3, <1>4, <1>5, <1>6

\* The steps that enter a round, and its handlers.
LEMMA TypeInvRounds ==
  ASSUME TypeInv,
         StartExecuting \/ Handles \/ Again \/ Steer
  PROVE  TypeInv'
<1> USE DEF env, log
<1>1. CASE StartExecuting
  <2>1. /\ snap' \in SnapType /\ snap'.plan = snap.plan
        /\ pc' = "raise" \/ (pc' = "step" /\ snap.plan # 0 /\ snap'.approved = snap.approved)
    BY <1>1, EnterStep DEF StartExecuting, TypeInv, TypeOK, TransitionOk, Gate, State
  <2>2. frame' \in FrameType /\ (pc' = "step" => frame'.plan # 0 /\ frame'.running # 0)
    BY <1>1, <2>1, FirstRoundType DEF StartExecuting, TypeInv, TypeOK
  <2> QED
    BY <1>1, <2>1, <2>2 DEF StartExecuting, TypeInv, TypeOK, PlanInv, InRound
<1>2. CASE Handles
  <2>1. /\ frame' \in FrameType
        /\ frame'.plan = frame.plan /\ frame'.running = frame.running
    BY <1>2 DEF Handles, HandleStalled, HandleBuildError, CriticPass,
                TypeInv, TypeOK, FrameType
  <2> QED
    BY <1>2, <2>1 DEF Handles, HandleStalled, HandleBuildError, CriticPass,
                      TypeInv, TypeOK, PlanInv, InRound
<1>3. CASE Again
  <2>1. snap' \in SnapType /\ snap'.plan = snap.plan
    BY <1>3, EnterStep DEF Again, TypeInv, TypeOK, State
  <2>2. pc' \in {"step", "raise"}
    BY <1>3 DEF Again, Enter
  <2>3. frame.plan # 0 /\ frame.running # 0
    BY <1>3 DEF Again, TypeInv, PlanInv, InRound
  <2>4. frame' \in FrameType /\ frame'.plan # 0 /\ frame'.running # 0
    BY <1>3, <2>3, NextRoundType DEF Again, TypeInv, TypeOK
  <2> QED
    BY <1>3, <2>1, <2>2, <2>4 DEF Again, TypeInv, TypeOK, PlanInv, InRound
<1>4. CASE Steer
  <2>1. snap' \in SnapType /\ snap'.plan = snap.plan
    BY <1>4, EnterStep DEF Steer, TypeInv, TypeOK, State
  <2>2. snap.plan # 0
    BY <1>4 DEF Steer, TypeInv, PlanInv
  <2>3. /\ frame' \in FrameType
        /\ \/ pc' \in {"startExecuting", "lateQuestion", "raise"}
           \/ pc' = "recover" /\ frame'.retry = "resume"
           \/ pc' = "step" /\ frame'.plan # 0 /\ frame'.running # 0
    BY <1>4, <2>2, FirstRoundType
       DEF Steer, TypeInv, TypeOK, Enter, FrameType
  <2> QED
    BY <1>4, <2>1, <2>3 DEF Steer, TypeInv, TypeOK, PlanInv, InRound
<1> QED
  BY <1>1, <1>2, <1>3, <1>4

\* Verification and settlement.
LEMMA TypeInvSettle ==
  ASSUME TypeInv, Built \/ Verify \/ Settle \/ Finish
  PROVE  TypeInv'
<1> USE DEF env
<1>1. CASE Built
  <2>1. snap' \in SnapType /\ snap'.plan = snap.plan
    BY <1>1, EnterStep DEF Built, TypeInv, TypeOK, State
  <2>2. /\ frame' \in FrameType
        /\ frame'.plan = frame.plan /\ frame'.running = frame.running
    BY <1>1 DEF Built, TypeInv, TypeOK, FrameType
  <2>3. pc' \in {"verify", "raise"}
    BY <1>1 DEF Built, Enter
  <2> QED
    BY <1>1, <2>1, <2>2, <2>3 DEF Built, TypeInv, TypeOK, PlanInv, InRound
<1>2. CASE Verify
  <2>1. snap' \in SnapType
    BY <1>2 DEF Verify, TypeInv, TypeOK, SnapType
  <2>2. hist' \in HistType
    BY <1>2 DEF Verify, TypeInv, TypeOK, HistType, FrameType
  <2> QED
    BY <1>2, <2>1, <2>2 DEF Verify, TypeInv, TypeOK, PlanInv, InRound
<1>3. CASE Settle
  <2>1. snap' \in SnapType
    BY <1>3, EnterStep DEF Settle, TypeInv, TypeOK, State
  <2>2. /\ frame' \in FrameType
        /\ frame'.plan = frame.plan /\ frame'.running = frame.running
    BY <1>3 DEF Settle, TypeInv, TypeOK, FrameType
  <2>3. pc' \in {"bookkeeping", "retry", "finish", "raise"}
    BY <1>3 DEF Settle, Enter
  <2> QED
    BY <1>3, <2>1, <2>2, <2>3 DEF Settle, TypeInv, TypeOK, PlanInv, InRound
<1>4. CASE Finish
  <2>1. snap' \in SnapType
    BY <1>4 DEF Finish, TypeInv, TypeOK, SnapType, State
  <2> QED
    BY <1>4, <2>1, IdleType DEF Finish, TypeInv, TypeOK, PlanInv, InRound
<1> QED
  BY <1>1, <1>2, <1>3, <1>4

\* The user's calls, restarts and the environment.
LEMMA TypeInvCalls ==
  ASSUME TypeInv,
         Decides \/ Reconcile \/ ReconcilePause \/ Crash \/ ApplyResult
  PROVE  TypeInv'
<1> USE DEF env, log, CanResume
<1>1. ASSUME NEW yes \in BOOLEAN, Decide(yes) PROVE TypeInv'
  <2>1. snap' \in SnapType /\ snap'.plan = snap.plan
    BY <1>1 DEF Decide, OnDecision, TypeInv, TypeOK, SnapType
  <2>2. hist' \in HistType
    BY <1>1 DEF Decide, TypeInv, TypeOK, HistType, BookType
  <2> QED
    BY <1>1, <2>1, <2>2 DEF Decide, TypeInv, TypeOK, PlanInv, InRound
<1>2. CASE Reconcile
  <2>1. hist' \in HistType
    BY <1>2 DEF Reconcile, TypeInv, TypeOK, HistType, BookType
  <2> QED
    BY <1>2, <2>1 DEF Reconcile, TypeInv, TypeOK, PlanInv, InRound
<1>3. CASE ReconcilePause
  <2>1. snap' \in SnapType
    BY <1>3, ZenonT(40) DEF ReconcilePause, OnState, TypeInv, TypeOK, SnapType, State
  <2> QED
    BY <1>3, <2>1 DEF ReconcilePause, TypeInv, TypeOK, PlanInv, InRound
<1>4. CASE Crash
  BY <1>4, IdleType DEF Crash, TypeInv, TypeOK, PlanInv, InRound
<1>5. CASE ApplyResult
  BY <1>5 DEF ApplyResult, TypeInv, TypeOK, BookType, PlanInv, InRound
<1> QED
  BY <1>1, <1>2, <1>3, <1>4, <1>5 DEF Decides

LEMMA TypeInvStep == TypeInv /\ [Next]_vars => TypeInv'
<1> SUFFICES ASSUME TypeInv, [Next]_vars PROVE TypeInv'
  OBVIOUS
<1>1. CASE Next
  BY <1>1, TypeInvQuiet, TypeInvAppend, TypeInvEnter, TypeInvExecute,
     TypeInvRounds, TypeInvSettle, TypeInvCalls
     DEF Next, Drive, Call, Quiet, Appends, Enters, Handles, Decides
<1>2. CASE UNCHANGED vars
  BY <1>2 DEF vars, TypeInv, TypeOK, PlanInv
<1> QED
  BY <1>1, <1>2

\* Type correctness: whatever is logged, read back or kept in a frame has its
\* type, for any number of plans, steps, rounds, kills and resumes.
THEOREM TypeCorrect == Spec => []TypeOK
<1>1. Init => TypeInv
  BY TypeInvInit
<1>2. TypeInv /\ [Next]_vars => TypeInv'
  BY TypeInvStep
<1>3. TypeInv => TypeOK
  BY DEF TypeInv
<1> QED
  BY <1>1, <1>2, <1>3, PTL DEF Spec

-----------------------------------------------------------------------------
(* What a step leaves alone                                                *)

\* The steps that do not touch the frame of the drive.
FrameKeeps ==
  \/ Quiet \/ Appends \/ Enters \/ Propose \/ Verify \/ ForceFail
  \/ Decides \/ Reconcile \/ ReconcilePause \/ ApplyResult

LEMMA FrameKept ==
  ASSUME FrameKeeps
  PROVE  frame' = frame
<1>1. CASE Quiet
  BY <1>1 DEF Quiet, Route, StopBeforeStep, StepsDone, AcceptEarly, Stops,
              LadderAskUser, Flag, Bookkeeping, CallRaises
<1>2. CASE Appends
  BY <1>2 DEF Appends, Run, Interpret, MakePlan, AskApproval, Clarify, T2Pass,
              ResumeUnchanged, ReconcileAsk, LateQuestion
<1>3. CASE Enters
  BY <1>3 DEF Enters, BeginInterpreting, StartPlanning, Pause, EnterStalled,
              EnterRecovering, Denied
<1>4. CASE \/ Propose \/ Verify \/ ForceFail
           \/ Decides \/ Reconcile \/ ReconcilePause \/ ApplyResult
  BY <1>4 DEF Propose, Verify, ForceFail, Decides, Decide, Reconcile,
              ReconcilePause, ApplyResult
<1> QED
  BY <1>1, <1>2, <1>3, <1>4 DEF FrameKeeps

\* A step that appends events stays in its state; only run() records the
\* request, only the planner records a plan, only a return records a result.
LEMMA AppendKeeps ==
  ASSUME snap \in SnapType, Appends \/ Observe \/ LadderReplan \/ Verify
  PROVE  /\ snap'.state = snap.state /\ snap'.approved = snap.approved
         /\ snap'.requested = snap.requested \/ (Run /\ snap'.requested)
         /\ snap'.plan = snap.plan \/ pc \in {"plan", "ladder"}
         /\ snap'.result \in {snap.result, "WAITING_FOR_USER"}
<1>1. CASE Run \/ Interpret \/ MakePlan \/ AskApproval \/ Clarify
  BY <1>1 DEF SnapType, Run, Interpret, MakePlan, AskApproval, Clarify
<1>2. CASE T2Pass \/ ReconcileAsk \/ LateQuestion
  BY <1>2 DEF SnapType, T2Pass, ReconcileAsk, LateQuestion
<1>3. CASE ResumeUnchanged \/ Observe \/ LadderReplan \/ Verify
  BY <1>3 DEF SnapType, ResumeUnchanged, Observe, LadderReplan, Verify
<1> QED
  BY <1>1, <1>2, <1>3 DEF Appends

-----------------------------------------------------------------------------
(* Control                                                                 *)

\* A captured request can always be interpreted.
LEMMA InterpretingAllowed ==
  ASSUME snap \in SnapType, snap.state = "CREATED"
  PROVE  TransitionOk(snap, "INTERPRETING")
  BY DEF TransitionOk, Gate, ALLOWED

\* Every state that is neither CREATED nor terminal may fail.
LEMMA FailedAllowed ==
  ASSUME NEW s \in State, s \notin Terminal, s # "CREATED"
  PROVE  "FAILED" \in ALLOWED[s]
  BY DEF State, Terminal, ALLOWED

LEMMA ControlQuiet ==
  ASSUME ControlInv, Quiet \/ Handles \/ Propose \/ Build \/ MakesProgress
  PROVE  ControlInv'
<1> USE DEF ControlInv, Terminal, Settled, log
<1>1. CASE Quiet
  BY <1>1 DEF Quiet, CallPoints, Route, StopBeforeStep, StepsDone, AcceptEarly,
              Stops, LadderAskUser, Flag, Bookkeeping, CallRaises
<1>2. CASE Handles
  BY <1>2 DEF Handles, HandleStalled, HandleBuildError, CriticPass
<1>3. CASE Propose \/ Build \/ MakesProgress
  BY <1>3 DEF Propose, Build, MakesProgress
<1> QED
  BY <1>1, <1>2, <1>3

LEMMA ControlAppend ==
  ASSUME TypeInv, ControlInv, Appends \/ Observe \/ LadderReplan \/ Verify
  PROVE  ControlInv'
<1> USE DEF ControlInv, Terminal, Settled
<1>1. /\ snap'.state = snap.state
      /\ snap'.requested = snap.requested \/ (Run /\ snap'.requested)
      /\ snap'.plan = snap.plan \/ pc \in {"plan", "ladder"}
  BY AppendKeeps DEF TypeInv, TypeOK
<1>2. CASE Run \/ Interpret \/ MakePlan \/ AskApproval \/ Clarify
  <2>1. CASE Run
    BY <1>1, <2>1 DEF Run
  <2>2. CASE Interpret
    BY <1>1, <2>2 DEF Interpret, Run
  <2>3. CASE MakePlan
    BY <1>1, <2>3 DEF MakePlan, Run
  <2>4. CASE AskApproval \/ Clarify
    BY <1>1, <2>4 DEF AskApproval, Clarify, Run
  <2> QED
    BY <1>2, <2>1, <2>2, <2>3, <2>4
<1>3. CASE T2Pass \/ ReconcileAsk \/ LateQuestion
  BY <1>1, <1>3 DEF T2Pass, ReconcileAsk, LateQuestion, Run
<1>4. CASE ResumeUnchanged
  BY <1>1, <1>4 DEF ResumeUnchanged, CanResume
<1>5. CASE Observe \/ LadderReplan \/ Verify
  BY <1>1, <1>5 DEF Run, Observe, LadderReplan, Verify
<1> QED
  BY <1>2, <1>3, <1>4, <1>5 DEF Appends

LEMMA ControlEnter ==
  ASSUME TypeInv, ControlInv, Enters \/ StartExecuting \/ Again \/ Built
  PROVE  ControlInv'
<1> USE DEF ControlInv, Terminal, Settled, State
<1>1. snap \in SnapType
  BY DEF TypeInv, TypeOK
<1>2. snap'.requested = snap.requested /\ snap'.plan = snap.plan
  BY <1>1, EnterStep DEF Enters, BeginInterpreting, StartPlanning, Pause,
     EnterStalled, EnterRecovering, Denied, StartExecuting, Again, Built
<1>3. CASE BeginInterpreting
  BY <1>1, <1>2, <1>3, EnterStep, InterpretingAllowed DEF BeginInterpreting, Enter
<1>4. CASE \/ StartPlanning \/ Pause \/ EnterStalled \/ EnterRecovering
           \/ Denied \/ StartExecuting \/ Again \/ Built
  BY <1>1, <1>2, <1>4, EnterStep DEF StartPlanning, Pause, EnterStalled,
     EnterRecovering, Denied, StartExecuting, Again, Built
<1> QED
  BY <1>3, <1>4 DEF Enters

LEMMA ControlSettle ==
  ASSUME TypeInv, ControlInv, Settle \/ Steer \/ Finish \/ ForceFail
  PROVE  ControlInv'
<1> USE DEF ControlInv, Terminal, Settled
<1>1. snap \in SnapType
  BY DEF TypeInv, TypeOK
<1>2. CASE Settle
  BY <1>1, <1>2, EnterStep DEF Settle, State
<1>3. CASE Steer
  BY <1>1, <1>3, EnterStep DEF Steer, State
<1>4. CASE Finish
  BY <1>1, <1>4 DEF Finish, SnapType
<1>5. CASE ForceFail
  BY <1>1, <1>5, FailedAllowed DEF ForceFail, OnState, SnapType
<1> QED
  BY <1>2, <1>3, <1>4, <1>5

LEMMA ControlCalls ==
  ASSUME TypeInv, ControlInv,
         Decides \/ Reconcile \/ ReconcilePause \/ Crash \/ ApplyResult
  PROVE  ControlInv'
<1> USE DEF ControlInv, Terminal, Settled, log
<1>1. snap \in SnapType
  BY DEF TypeInv, TypeOK
<1>2. ASSUME NEW yes \in BOOLEAN, Decide(yes) PROVE ControlInv'
  BY <1>1, <1>2 DEF Decide, OnDecision, CanResume, SnapType
<1>3. CASE Reconcile
  BY <1>3 DEF Reconcile, CanResume
<1>4. CASE ReconcilePause
  BY <1>1, <1>4 DEF ReconcilePause, OnState, SnapType
<1>5. CASE Crash \/ ApplyResult
  BY <1>5 DEF Crash, ApplyResult
<1> QED
  BY <1>2, <1>3, <1>4, <1>5 DEF Decides

LEMMA ControlStep == TypeInv /\ ControlInv /\ [Next]_vars => ControlInv'
<1> SUFFICES ASSUME TypeInv, ControlInv, [Next]_vars PROVE ControlInv'
  OBVIOUS
<1>1. CASE Next
  BY <1>1, ControlQuiet, ControlAppend, ControlEnter, ControlSettle, ControlCalls
     DEF Next, Drive, Call, Quiet, Appends, Enters, Handles, Decides
<1>2. CASE UNCHANGED vars
  BY <1>2 DEF vars, ControlInv
<1> QED
  BY <1>1, <1>2

-----------------------------------------------------------------------------
(* Terminal states                                                         *)

\* Once a task has ended, only its last drive's way out, a kill, a resume that
\* returns the recorded result and apply-back can happen.
LEMMA EnabledWhenDone ==
  ASSUME ControlInv, snap.state \in Terminal, Next
  PROVE  \/ Bookkeeping \/ Finish \/ CallRaises \/ ForceFail
         \/ ResumeUnchanged \/ Crash \/ ApplyResult
<1>1. /\ pc \in {"bookkeeping", "finish", "raise", "finishFailed", "idle"}
      /\ snap.requested
  BY DEF ControlInv, Terminal
<1>2. ~(Run \/ Decides \/ Reconcile)
  BY <1>1 DEF Run, Decides, Decide, Reconcile, Terminal
<1>3. Drive => Bookkeeping \/ Finish \/ CallRaises \/ ForceFail
  BY <1>1 DEF Drive, BeginInterpreting, Interpret, StartPlanning, Route,
     MakePlan, StartExecuting, Propose, StopBeforeStep, StepsDone, Build,
     Observe, AcceptEarly, MakesProgress, Stops, LadderReplan, LadderAskUser,
     AskApproval, Clarify, Pause, HandleStalled, HandleBuildError,
     EnterStalled, EnterRecovering, Again, Built, Verify, T2Pass, Flag,
     CriticPass, Settle, Denied, ReconcileAsk, ReconcilePause, Steer,
     LateQuestion
<1> QED
  BY <1>2, <1>3 DEF Next, Call, Decides

\* A step from a terminal state changes neither the state nor the evidence.
LEMMA TerminalStep ==
  ASSUME TypeInv, ControlInv, snap.state \in Terminal, [Next]_vars
  PROVE  /\ snap'.state = snap.state /\ snap'.verdict = snap.verdict
         /\ book' = book /\ hist' = hist
<1>1. snap \in SnapType
  BY DEF TypeInv, TypeOK
<1>2. CASE UNCHANGED vars
  BY <1>2 DEF vars
<1>3. CASE Bookkeeping \/ CallRaises \/ Crash \/ ApplyResult
  BY <1>3 DEF Bookkeeping, CallRaises, Crash, ApplyResult, log
<1>4. CASE Finish \/ ForceFail \/ ResumeUnchanged
  BY <1>1, <1>4 DEF Finish, ForceFail, ResumeUnchanged, SnapType
<1> QED
  BY <1>2, <1>3, <1>4, EnabledWhenDone

-----------------------------------------------------------------------------
(* The candidate diff                                                      *)

\* The steps that leave the frame and the last artifact alone.
LEMMA CandidateKept ==
  ASSUME TypeInv, CandidateInv, FrameKeeps, ~Verify, ~T2Pass
  PROVE  CandidateInv'
<1>1. frame' = frame
  BY FrameKept
<1>2. CASE Quiet
  BY <1>1, <1>2 DEF Quiet, Route, StopBeforeStep, StepsDone, AcceptEarly,
     Stops, LadderAskUser, Flag, Bookkeeping, CallRaises, CandidateInv,
     Carried, log
<1>3. CASE ApplyResult
  BY <1>3 DEF ApplyResult, CandidateInv, Carried, log
<1>4. CASE ~Quiet /\ ~ApplyResult
  <2>1. book'.artifact = book.artifact
    BY <1>4 DEF FrameKeeps, Appends, Run, Interpret, MakePlan, AskApproval,
       Clarify, ResumeUnchanged, ReconcileAsk, LateQuestion, Enters,
       BeginInterpreting, StartPlanning, Pause, EnterStalled, EnterRecovering,
       Denied, Propose, ForceFail, Decides, Decide, Reconcile, ReconcilePause,
       log, TypeInv, TypeOK, BookType
  <2>2. /\ pc' \notin {"t2", "flag", "critic", "settle", "observe", "verify",
                       "step", "measure", "ladder", "built"}
        /\ pc' = "build" => pc = "step"
        /\ pc' \in {"retry", "recover", "again"} =>
             pc \in {"retry", "recover", "again"}
    BY <1>4 DEF FrameKeeps, Appends, Run, Interpret, MakePlan, AskApproval,
       Clarify, ResumeUnchanged, CanResume, ReconcileAsk, LateQuestion,
       Enters, BeginInterpreting, StartPlanning, Pause, EnterStalled,
       EnterRecovering, Denied, Propose, ForceFail, Decides, Decide,
       Reconcile, ReconcilePause, Enter
  <2> QED
    BY <1>1, <2>1, <2>2 DEF CandidateInv, Carried
<1> QED
  BY <1>2, <1>3, <1>4

LEMMA CandidateExecute ==
  ASSUME TypeInv, CandidateInv,
         Build \/ Observe \/ MakesProgress \/ LadderReplan
  PROVE  CandidateInv'
<1>1. frame \in FrameType /\ book \in BookType
  BY DEF TypeInv, TypeOK
<1>2. CASE Build
  <2>1. Carried
    BY <1>2 DEF Build, CandidateInv
  <2>2. CASE pc' = "observe"
    <3>1. PICK d \in AnyDiff :
            /\ book'.artifact = IF d = NoDiff THEN book.artifact ELSE d
            /\ frame'.out = d
            /\ frame'.combined = frame.combined /\ frame'.prev = frame.prev
      BY <1>1, <1>2, <2>2, ZenonT(40) DEF Build, BookType, FrameType
    <3> QED
      BY <2>1, <2>2, <3>1 DEF CandidateInv, Carried
  <2>3. CASE pc' \in {"askApproval", "buildError"}
    BY <2>3 DEF CandidateInv
  <2> QED
    BY <1>2, <2>2, <2>3 DEF Build
<1>3. CASE Observe
  BY <1>1, <1>3, ZenonT(40) DEF Observe, CandidateInv, Carried, FrameType, BookType, AnyDiff
<1>4. CASE MakesProgress \/ LadderReplan
  BY <1>1, <1>4 DEF MakesProgress, LadderReplan, Replanned, CandidateInv,
                    Carried, FrameType, log
<1> QED
  BY <1>2, <1>3, <1>4

\* A round starts without a diff of its own, carrying over at most the last one.
LEMMA CandidateRounds ==
  ASSUME TypeInv, CandidateInv,
         StartExecuting \/ Handles \/ Again \/ Steer \/ Settle
  PROVE  CandidateInv'
<1>1. frame \in FrameType
  BY DEF TypeInv, TypeOK
<1>2. CASE StartExecuting
  BY <1>2, RoundFields DEF StartExecuting, Enter, FirstRound, CandidateInv, Carried
<1>3. CASE Handles
  BY <1>1, <1>3 DEF Handles, HandleStalled, HandleBuildError, CriticPass,
                    CandidateInv, Carried, FrameType, log
<1>4. CASE Again
  BY <1>4, RoundFields DEF Again, Enter, NextRound, CandidateInv, Carried
<1>5. CASE Steer
  BY <1>1, <1>5, RoundFields DEF Steer, Enter, FirstRound, CandidateInv,
                                 Carried, FrameType
<1>6. CASE Settle
  BY <1>1, <1>6 DEF Settle, Enter, CandidateInv, Carried, FrameType
<1> QED
  BY <1>2, <1>3, <1>4, <1>5, <1>6

LEMMA CandidateVerify ==
  ASSUME TypeInv, CandidateInv,
         Built \/ Verify \/ T2Pass \/ Finish \/ Crash
  PROVE  CandidateInv'
<1>1. frame \in FrameType /\ snap \in SnapType /\ hist \in HistType
  BY DEF TypeInv, TypeOK
<1>2. CASE Built
  BY <1>1, <1>2 DEF Built, Enter, CandidateInv, Carried, FrameType
<1>3. CASE Verify
  BY <1>1, <1>3 DEF Verify, CandidateInv, Carried, SnapType, HistType
<1>4. CASE T2Pass
  BY <1>1, <1>4 DEF T2Pass, CandidateInv, Carried, SnapType
<1>5. CASE Finish \/ Crash
  BY <1>5 DEF Finish, Crash, CandidateInv, Carried, log
<1> QED
  BY <1>2, <1>3, <1>4, <1>5

LEMMA CandidateStep == TypeInv /\ CandidateInv /\ [Next]_vars => CandidateInv'
<1> SUFFICES ASSUME TypeInv, CandidateInv, [Next]_vars PROVE CandidateInv'
  OBVIOUS
<1>1. CASE Next
  BY <1>1, CandidateKept, CandidateExecute, CandidateRounds, CandidateVerify
     DEF Next, Drive, Call, FrameKeeps, Quiet, Appends, Enters, Handles, Decides
<1>2. CASE UNCHANGED vars
  BY <1>2 DEF vars, CandidateInv, Carried
<1> QED
  BY <1>1, <1>2

-----------------------------------------------------------------------------
(* Retry rounds                                                            *)

LEMMA RoundsKept ==
  ASSUME RoundsInv, FrameKeeps
  PROVE  RoundsInv'
<1>1. frame' = frame
  BY FrameKept
<1>2. \/ pc' \notin {"retry", "recover", "again"} \/ pc' = pc
      \/ pc = "retry" /\ pc' = "recover"
      \/ pc = "recover" /\ pc' = "again" /\ frame.retry # "resume"
  <2>1. CASE Quiet
    BY <2>1 DEF Quiet, Route, StopBeforeStep, StepsDone, AcceptEarly, Stops,
                LadderAskUser, Flag, Bookkeeping, CallRaises
  <2>2. CASE Appends
    BY <2>2 DEF Appends, Run, Interpret, MakePlan, AskApproval, Clarify,
                T2Pass, ResumeUnchanged, ReconcileAsk, LateQuestion
  <2>3. CASE Enters
    BY <2>3 DEF Enters, BeginInterpreting, StartPlanning, Pause, EnterStalled,
                EnterRecovering, Denied, Enter
  <2>4. CASE \/ Propose \/ Verify \/ ForceFail
             \/ Decides \/ Reconcile \/ ReconcilePause \/ ApplyResult
    BY <2>4 DEF Propose, Verify, ForceFail, Decides, Decide, Reconcile,
                ReconcilePause, ApplyResult
  <2> QED
    BY <2>1, <2>2, <2>3, <2>4 DEF FrameKeeps
<1> QED
  BY <1>1, <1>2 DEF RoundsInv, Retries

LEMMA RoundsChanged ==
  ASSUME TypeInv, RoundsInv,
         \/ Build \/ Observe \/ MakesProgress \/ LadderReplan \/ Built
         \/ StartExecuting \/ Handles \/ Again \/ Steer \/ Settle
         \/ Finish \/ Crash
  PROVE  RoundsInv'
<1>1. frame \in FrameType
  BY DEF TypeInv, TypeOK
<1>2. CASE Build \/ Observe \/ MakesProgress \/ LadderReplan \/ Built
  <2>1. /\ frame'.rounds = frame.rounds
        /\ frame'.builder = frame.builder /\ frame'.critic = frame.critic
        /\ pc' \notin {"retry", "recover", "again"}
    BY <1>1, <1>2, ZenonT(40) DEF Build, Observe, MakesProgress, LadderReplan, Replanned,
                      Built, Enter, FrameType
  <2> QED
    BY <2>1 DEF RoundsInv
<1>3. CASE StartExecuting
  BY <1>3, RoundFields DEF StartExecuting, Enter, FirstRound, RoundsInv
<1>4. CASE Handles
  BY <1>1, <1>4 DEF Handles, HandleStalled, HandleBuildError, CriticPass,
                    RoundsInv, Retries, FrameType, Fast
<1>5. CASE Again
  BY <1>1, <1>5, RoundFields DEF Again, Enter, NextRound, RoundsInv, Retries,
                                 FrameType
<1>6. CASE Steer
  BY <1>1, <1>6, RoundFields DEF Steer, Enter, FirstRound, RoundsInv,
                                 FrameType, Retries
<1>7. CASE Settle
  BY <1>1, <1>7 DEF Settle, Enter, RoundsInv, FrameType, Fast, Retries
<1>8. CASE Finish \/ Crash
  BY <1>8 DEF Finish, Crash, RoundsInv, IdleFrame
<1> QED
  BY <1>2, <1>3, <1>4, <1>5, <1>6, <1>7, <1>8

LEMMA RoundsStep == TypeInv /\ RoundsInv /\ [Next]_vars => RoundsInv'
<1> SUFFICES ASSUME TypeInv, RoundsInv, [Next]_vars PROVE RoundsInv'
  OBVIOUS
<1>1. CASE Next
  BY <1>1, RoundsKept, RoundsChanged
     DEF Next, Drive, Call, FrameKeeps, Quiet, Appends, Enters, Handles, Decides
<1>2. CASE UNCHANGED vars
  BY <1>2 DEF vars, RoundsInv
<1> QED
  BY <1>1, <1>2

-----------------------------------------------------------------------------
(* Approvals                                                               *)

\* No step takes an approval off the log, and only a decision adds one.
LEMMA ApprovedGrows ==
  ASSUME TypeInv, Next
  PROVE  /\ snap.approved \subseteq snap'.approved
         /\ ~Decides => snap'.approved = snap.approved
<1>1. snap \in SnapType
  BY DEF TypeInv, TypeOK
<1>2. CASE Decides
  BY <1>1, <1>2, ZenonT(40) DEF Decides, Decide, OnDecision, SnapType
<1>3. CASE Quiet \/ Handles
  BY <1>3 DEF Quiet, Route, StopBeforeStep, StepsDone, AcceptEarly, Stops,
              LadderAskUser, Flag, Bookkeeping, CallRaises, Handles,
              HandleStalled, HandleBuildError, CriticPass, log
<1>4. CASE Appends \/ Observe \/ LadderReplan \/ Verify
  BY <1>1, <1>4, AppendKeeps
<1>5. CASE Enters \/ StartExecuting \/ Again \/ Built \/ Settle \/ Steer
  BY <1>1, <1>5, EnterStep DEF Enters, BeginInterpreting, StartPlanning, Pause,
     EnterStalled, EnterRecovering, Denied, StartExecuting, Again, Built,
     Settle, Steer, State
<1>6. CASE Finish \/ ForceFail \/ ReconcilePause
  BY <1>1, <1>6 DEF Finish, ForceFail, ReconcilePause, OnState, SnapType
<1>7. CASE \/ Propose \/ Build \/ MakesProgress \/ Reconcile
           \/ Crash \/ ApplyResult
  BY <1>7 DEF Propose, Build, MakesProgress, Reconcile, Crash, ApplyResult, log
<1> QED
  BY <1>2, <1>3, <1>4, <1>5, <1>6, <1>7
     DEF Next, Drive, Call, Quiet, Appends, Enters, Handles, Decides

\* A frame's approvals are the ones it had, the log's, or none.
LEMMA FrameApproved ==
  ASSUME TypeInv, Next
  PROVE  frame'.approved \in {frame.approved, snap.approved, {}}
<1>1. frame \in FrameType
  BY DEF TypeInv, TypeOK
<1>2. CASE FrameKeeps
  BY <1>2, FrameKept
<1>3. CASE \/ Build \/ Observe \/ MakesProgress \/ LadderReplan \/ Built
           \/ Handles \/ Settle
  BY <1>1, <1>3 DEF Build, Observe, MakesProgress, LadderReplan, Replanned,
     Built, Handles, HandleStalled, HandleBuildError, CriticPass, Settle,
     FrameType, log
<1>4. CASE StartExecuting \/ Again \/ Steer
  BY <1>1, <1>4, RoundFields DEF StartExecuting, Again, Steer, FirstRound,
                                 NextRound, FrameType
<1>5. CASE Finish \/ Crash
  BY <1>5 DEF Finish, Crash, IdleFrame
<1> QED
  BY <1>2, <1>3, <1>4, <1>5
     DEF Next, Drive, Call, FrameKeeps, Quiet, Appends, Enters, Handles, Decides

\* A gate lets a step through only with an approval its frame holds.
LEMMA GatedApproved ==
  ASSUME TypeInv, Next
  PROVE  hist'.gated \subseteq hist.gated \cup frame.approved
<1>1. hist \in HistType
  BY DEF TypeInv, TypeOK
<1>2. CASE Propose
  <2>1. CASE UNCHANGED hist
    BY <2>1
  <2>2. CASE hist' # hist
    <3>1. /\ hist'.gated = PassGate(Current \in Sensitive)
          /\ Current \in Sensitive => Current \in frame.approved
      BY <1>1, <1>2, <2>2 DEF Propose, HistType
    <3> QED
      BY <3>1 DEF PassGate
  <2> QED
    BY <2>1, <2>2
<1>3. CASE Build
  BY <1>1, <1>3 DEF Build, PassGate, HistType
<1>4. CASE Observe \/ Verify \/ Reconcile \/ Decides
  BY <1>1, <1>4 DEF Observe, Verify, Reconcile, Decides, Decide, HistType
<1>5. CASE Quiet \/ Appends \/ Enters \/ Handles
  BY <1>5 DEF Quiet, Route, StopBeforeStep, StepsDone, AcceptEarly, Stops,
     LadderAskUser, Flag, Bookkeeping, CallRaises, Appends, Run, Interpret,
     MakePlan, AskApproval, Clarify, T2Pass, ResumeUnchanged, ReconcileAsk,
     LateQuestion, Enters, BeginInterpreting, StartPlanning, Pause,
     EnterStalled, EnterRecovering, Denied, Handles, HandleStalled,
     HandleBuildError, CriticPass
<1>6. CASE \/ MakesProgress \/ LadderReplan \/ StartExecuting \/ Again \/ Steer
           \/ Built \/ Settle \/ Finish \/ ForceFail \/ ReconcilePause
           \/ Crash \/ ApplyResult
  BY <1>6 DEF MakesProgress, LadderReplan, StartExecuting, Again, Steer, Built,
     Settle, Finish, ForceFail, ReconcilePause, Crash, ApplyResult
<1> QED
  BY <1>2, <1>3, <1>4, <1>5, <1>6
     DEF Next, Drive, Call, Quiet, Appends, Enters, Handles, Decides

LEMMA ApprovalStep == TypeInv /\ ApprovalInv /\ [Next]_vars => ApprovalInv'
<1> SUFFICES ASSUME TypeInv, ApprovalInv, [Next]_vars PROVE ApprovalInv'
  OBVIOUS
<1>1. CASE Next
  BY <1>1, ApprovedGrows, FrameApproved, GatedApproved
     DEF ApprovalInv, ApprovalRespected
<1>2. CASE UNCHANGED vars
  BY <1>2 DEF vars, ApprovalInv, ApprovalRespected
<1> QED
  BY <1>1, <1>2

-----------------------------------------------------------------------------
(* Which step changes the evidence                                         *)

\* Only the T0 verifier changes the verdict and the diff it was given for.
LEMMA OnlyVerifyDecides ==
  ASSUME TypeInv, Next, ~Verify
  PROVE  hist'.checked = hist.checked /\ snap'.verdict = snap.verdict
<1>1. snap \in SnapType /\ hist \in HistType
  BY DEF TypeInv, TypeOK
<1>2. CASE Quiet \/ Handles \/ MakesProgress \/ Crash \/ ApplyResult
  BY <1>2 DEF Quiet, Route, StopBeforeStep, StepsDone, AcceptEarly, Stops,
     LadderAskUser, Flag, Bookkeeping, CallRaises, Handles, HandleStalled,
     HandleBuildError, CriticPass, MakesProgress, Crash, ApplyResult, log
<1>3. CASE Appends
  BY <1>1, <1>3 DEF Appends, Run, Interpret, MakePlan, AskApproval, Clarify,
     T2Pass, ResumeUnchanged, ReconcileAsk, LateQuestion, SnapType
<1>4. CASE Enters \/ StartExecuting \/ Again \/ Built \/ Settle \/ Steer
  <2>1. UNCHANGED hist
    BY <1>4 DEF Enters, BeginInterpreting, StartPlanning, Pause, EnterStalled,
       EnterRecovering, Denied, StartExecuting, Again, Built, Settle, Steer
  <2>2. snap'.verdict = snap.verdict
    BY <1>1, <1>4, EnterStep DEF Enters, BeginInterpreting, StartPlanning,
       Pause, EnterStalled, EnterRecovering, Denied, StartExecuting, Again,
       Built, Settle, Steer, State
  <2> QED
    BY <2>1, <2>2
<1>5. CASE Propose \/ Build \/ Observe \/ LadderReplan \/ Reconcile \/ Decides
  BY <1>1, <1>5 DEF Propose, Build, Observe, LadderReplan, Reconcile, Decides,
     Decide, OnDecision, SnapType, HistType, log
<1>6. CASE Finish \/ ForceFail \/ ReconcilePause
  BY <1>1, <1>6 DEF Finish, ForceFail, ReconcilePause, OnState, SnapType
<1> QED
  BY <1>2, <1>3, <1>4, <1>5, <1>6
     DEF Next, Drive, Call, Quiet, Appends, Enters, Handles, Decides

\* Only a Builder's output changes the last artifact.
LEMMA OnlyBuildWrites ==
  ASSUME TypeInv, Next, ~Build
  PROVE  book'.artifact = book.artifact
<1>1. book \in BookType
  BY DEF TypeInv, TypeOK
<1>2. CASE Propose \/ Observe
  BY <1>1, <1>2 DEF Propose, Observe, BookType
<1>3. CASE Quiet \/ Handles \/ Appends \/ Enters
  BY <1>3 DEF Quiet, Route, StopBeforeStep, StepsDone, AcceptEarly, Stops,
     LadderAskUser, Flag, Bookkeeping, CallRaises, Handles, HandleStalled,
     HandleBuildError, CriticPass, Appends, Run, Interpret, MakePlan,
     AskApproval, Clarify, T2Pass, ResumeUnchanged, ReconcileAsk,
     LateQuestion, Enters, BeginInterpreting, StartPlanning, Pause,
     EnterStalled, EnterRecovering, Denied, log
<1>4. CASE \/ MakesProgress \/ LadderReplan \/ StartExecuting \/ Again \/ Steer
           \/ Built \/ Verify \/ Settle \/ Finish \/ ForceFail \/ Decides
           \/ Reconcile \/ ReconcilePause \/ Crash \/ ApplyResult
  BY <1>4 DEF MakesProgress, LadderReplan, StartExecuting, Again, Steer, Built,
     Verify, Settle, Finish, ForceFail, Decides, Decide, Reconcile,
     ReconcilePause, Crash, ApplyResult, log
<1> QED
  BY <1>2, <1>3, <1>4
     DEF Next, Drive, Call, Quiet, Appends, Enters, Handles, Decides

\* A task completes only when it settles; it fails only there, when an approval
\* is denied, or when an exception is caught.
LEMMA HowTasksEnd ==
  ASSUME TypeInv, Next, snap.state \notin Terminal, snap'.state \in Terminal
  PROVE  \/ Settle /\ snap'.state = "COMPLETED" /\ snap.verdict = "pass"
         \/ snap'.state = "FAILED" /\ (Settle \/ Denied \/ ForceFail)
<1>1. snap \in SnapType
  BY DEF TypeInv, TypeOK
<1>2. CASE Settle
  BY <1>1, <1>2, EnterStep DEF Settle, State, Terminal
<1>3. CASE Enters \/ StartExecuting \/ Again \/ Built \/ Steer
  BY <1>1, <1>3, EnterStep DEF Enters, BeginInterpreting, StartPlanning, Pause,
     EnterStalled, EnterRecovering, Denied, StartExecuting, Again, Built,
     Steer, State, Terminal
<1>4. CASE Appends \/ Observe \/ LadderReplan \/ Verify
  BY <1>1, <1>4, AppendKeeps
<1>5. CASE ForceFail \/ Finish \/ ReconcilePause \/ Decides
  BY <1>1, <1>5 DEF ForceFail, Finish, ReconcilePause, Decides, Decide,
                    OnState, OnDecision, SnapType, Terminal
<1>6. CASE \/ Quiet \/ Handles \/ Propose \/ Build \/ MakesProgress
           \/ Reconcile \/ Crash \/ ApplyResult
  BY <1>6 DEF Quiet, Route, StopBeforeStep, StepsDone, AcceptEarly, Stops,
     LadderAskUser, Flag, Bookkeeping, CallRaises, Handles, HandleStalled,
     HandleBuildError, CriticPass, Propose, Build, MakesProgress, Reconcile,
     Crash, ApplyResult, log
<1> QED
  BY <1>2, <1>3, <1>4, <1>5, <1>6
     DEF Next, Drive, Call, Quiet, Appends, Enters, Handles, Decides

\* When a task settles, what T0 passed is the last artifact.
LEMMA SettledDiff ==
  ASSUME CandidateInv, Settle, snap.verdict = "pass"
  PROVE  hist.checked = book.artifact /\ book.artifact # NoDiff
  BY DEF CandidateInv, Settle

LEMMA CompletedStep ==
  ASSUME TypeInv, ControlInv, CandidateInv, CompletedIsVerified, [Next]_vars
  PROVE  CompletedIsVerified'
<1> SUFFICES ASSUME snap'.state = "COMPLETED" PROVE CompletedIsVerified'
  BY DEF CompletedIsVerified
<1>1. CASE snap.state = "COMPLETED"
  BY <1>1, TerminalStep DEF CompletedIsVerified, Terminal
<1>2. CASE snap.state # "COMPLETED"
  <2>1. Next
    BY <1>2 DEF vars
  <2>2. snap.state \notin Terminal
    BY <1>2, TerminalStep
  <2>3. Settle /\ snap.verdict = "pass"
    BY <2>1, <2>2, HowTasksEnd DEF Terminal
  <2>4. ~Build /\ ~Verify
    BY <2>3 DEF Settle, Build, Verify
  <2> QED
    BY <2>1, <2>3, <2>4, SettledDiff, OnlyVerifyDecides, OnlyBuildWrites
       DEF CompletedIsVerified
<1> QED
  BY <1>1, <1>2

LEMMA SettledStep ==
  ASSUME TypeInv, ControlInv, SettledUnlessInterrupted, [Next]_vars
  PROVE  SettledUnlessInterrupted'
<1>1. snap \in SnapType
  BY DEF TypeInv, TypeOK
<1> SUFFICES ASSUME Next, pc' = "idle", ending' = "returned"
             PROVE  snap'.state \in Settled
  BY DEF SettledUnlessInterrupted, Settled, vars
<1>2. Finish \/ ResumeUnchanged \/ ApplyResult
  BY DEF Next, Drive, Call, BeginInterpreting, Interpret, StartPlanning, Route,
     MakePlan, StartExecuting, Propose, StopBeforeStep, StepsDone, Build,
     Observe, AcceptEarly, MakesProgress, Stops, LadderReplan, LadderAskUser,
     AskApproval, Clarify, Pause, HandleStalled, HandleBuildError,
     EnterStalled, EnterRecovering, Again, Built, Verify, T2Pass, Flag,
     CriticPass, Settle, Denied, ReconcileAsk, ReconcilePause, Steer,
     LateQuestion, Bookkeeping, CallRaises, ForceFail, Run, Decide, Reconcile,
     Crash, Enter
<1>3. CASE Finish
  BY <1>1, <1>3 DEF Finish, ControlInv, SnapType
<1>4. CASE ResumeUnchanged
  BY <1>1, <1>4 DEF ResumeUnchanged, SnapType, Settled
<1>5. CASE ApplyResult
  BY <1>5 DEF ApplyResult, SettledUnlessInterrupted, Settled, log
<1> QED
  BY <1>2, <1>3, <1>4, <1>5

LEMMA ResultStep ==
  ASSUME TypeInv, ControlInv, ResultInv, [Next]_vars
  PROVE  ResultInv'
<1>1. snap \in SnapType
  BY DEF TypeInv, TypeOK
<1>2. CASE snap.state = "COMPLETED"
  BY <1>2, TerminalStep DEF ResultInv, Terminal
<1>3. CASE snap.state # "COMPLETED"
  <2> SUFFICES ASSUME Next PROVE snap'.result # "COMPLETED"
    BY <1>3 DEF ResultInv, vars
  <2>1. snap.result # "COMPLETED"
    BY <1>3 DEF ResultInv
  <2>2. CASE Appends \/ Observe \/ LadderReplan \/ Verify
    BY <1>1, <2>1, <2>2, AppendKeeps
  <2>3. CASE Enters \/ StartExecuting \/ Again \/ Built \/ Settle \/ Steer
    BY <1>1, <2>1, <2>3, EnterStep DEF Enters, BeginInterpreting,
       StartPlanning, Pause, EnterStalled, EnterRecovering, Denied,
       StartExecuting, Again, Built, Settle, Steer, State
  <2>4. CASE Finish \/ ForceFail \/ ReconcilePause \/ Decides
    BY <1>1, <1>3, <2>1, <2>4 DEF Finish, ForceFail, ReconcilePause, Decides,
       Decide, OnState, OnDecision, SnapType
  <2>5. CASE \/ Quiet \/ Handles \/ Propose \/ Build \/ MakesProgress
             \/ Reconcile \/ Crash \/ ApplyResult
    BY <2>1, <2>5 DEF Quiet, Route, StopBeforeStep, StepsDone, AcceptEarly,
       Stops, LadderAskUser, Flag, Bookkeeping, CallRaises, Handles,
       HandleStalled, HandleBuildError, CriticPass, Propose, Build,
       MakesProgress, Reconcile, Crash, ApplyResult, log
  <2> QED
    BY <2>2, <2>3, <2>4, <2>5
       DEF Next, Drive, Call, Quiet, Appends, Enters, Handles, Decides
<1> QED
  BY <1>2, <1>3

-----------------------------------------------------------------------------
(* The inductive invariant and what follows from it                        *)

LEMMA DriveInvInit == Init => DriveInv
<1> SUFFICES ASSUME Init PROVE DriveInv
  OBVIOUS
<1>1. TypeInv
  BY TypeInvInit
<1>2. ControlInv /\ CandidateInv
  BY DEF Init, ControlInv, CandidateInv, Terminal, Settled
<1>3. RoundsInv /\ ApprovalInv
  BY DEF Init, RoundsInv, ApprovalInv, ApprovalRespected, IdleFrame
<1>4. CompletedIsVerified /\ SettledUnlessInterrupted /\ ResultInv
  BY DEF Init, CompletedIsVerified, SettledUnlessInterrupted, ResultInv
<1> QED
  BY <1>1, <1>2, <1>3, <1>4 DEF DriveInv

LEMMA DriveInvStep == DriveInv /\ [Next]_vars => DriveInv'
  BY TypeInvStep, ControlStep, CandidateStep, RoundsStep, ApprovalStep,
     CompletedStep, SettledStep, ResultStep DEF DriveInv

\* What the drive needs holds in every reachable state.
LEMMA DriveInvariance == Spec => []DriveInv
  BY DriveInvInit, DriveInvStep, PTL DEF Spec

\* A completed task's last artifact is the diff T0 passed, for any number of
\* steps, plans, retry rounds, kills and resumes.
THEOREM CompletedTasksAreVerified == Spec => []CompletedIsVerified
<1>1. DriveInv => CompletedIsVerified
  BY DEF DriveInv
<1> QED
  BY <1>1, DriveInvariance, PTL

\* No step passes a gate without the user's approval of that step.
THEOREM ApprovalsAreRespected == Spec => []ApprovalRespected
<1>1. DriveInv => ApprovalRespected
  BY DEF DriveInv, ApprovalInv
<1> QED
  BY <1>1, DriveInvariance, PTL

\* A call never runs more than three rounds.
THEOREM RetriesAreBounded == Spec => []RetriesBounded
<1>1. DriveInv => RetriesBounded
  BY DEF DriveInv, TypeInv, TypeOK, FrameType, RoundsInv, RetriesBounded
<1> QED
  BY <1>1, DriveInvariance, PTL

\* A call that returns leaves the task ended or waiting for its user.
THEOREM CallsSettle == Spec => []SettledUnlessInterrupted
<1>1. DriveInv => SettledUnlessInterrupted
  BY DEF DriveInv
<1> QED
  BY <1>1, DriveInvariance, PTL

\* A task that has ended keeps its state, its verdict and its artifacts.
THEOREM TerminalStatesAreFrozen == Spec => TerminalFrozen
<1>1. DriveInv /\ [Next]_vars =>
        [snap.state \in Terminal =>
           /\ snap'.state = snap.state /\ snap'.verdict = snap.verdict
           /\ book' = book]_vars
  BY TerminalStep DEF DriveInv
<1> QED
  BY <1>1, DriveInvariance, PTL DEF Spec, TerminalFrozen
-----------------------------------------------------------------------------
(* The task implements VerifiedDelivery                                    *)

\* Only apply-back writes the user's workspace.
LEMMA OnlyApplyDelivers ==
  ASSUME Next, ~ApplyResult
  PROVE  delivered' = delivered
  BY DEF Next, Drive, Call, BeginInterpreting, Interpret, StartPlanning, Route,
     MakePlan, StartExecuting, Propose, StopBeforeStep, StepsDone, Build,
     Observe, AcceptEarly, MakesProgress, Stops, LadderReplan, LadderAskUser,
     AskApproval, Clarify, Pause, HandleStalled, HandleBuildError,
     EnterStalled, EnterRecovering, Again, Built, Verify, T2Pass, Flag,
     CriticPass, Settle, Denied, ReconcileAsk, ReconcilePause, Steer,
     LateQuestion, Bookkeeping, Finish, CallRaises, ForceFail, Run,
     ResumeUnchanged, Decide, Reconcile, Crash, env

\* An empty log is an open task with nothing accepted and nothing delivered.
LEMMA PromiseInit == Init => Promise!Init
  BY DEF Init, Promise!Init, Phase, Accepted, Terminal

\* A task that has ended can only be delivered, and only if it completed.
LEMMA PromiseWhenDone ==
  ASSUME DriveInv, snap.state \in Terminal, [Next]_vars
  PROVE  [Promise!Next]_(Promise!vars)
<1>1. /\ snap'.state = snap.state /\ snap'.verdict = snap.verdict
      /\ book' = book /\ hist' = hist
  BY TerminalStep DEF DriveInv
<1>2. Phase' = Phase /\ Accepted' = Accepted /\ book'.artifact = book.artifact
  BY <1>1 DEF Phase, Accepted
<1>3. CASE ApplyResult
  <2>1. snap.state = "COMPLETED"
    BY <1>3 DEF ApplyResult, DriveInv, ResultInv
  <2>2. Phase = "completed" /\ delivered' = Accepted
    BY <1>3, <2>1 DEF Phase, Accepted, DriveInv, CompletedIsVerified, ApplyResult
  <2> QED
    BY <1>2, <2>2 DEF Promise!Next, Promise!Deliver
<1>4. CASE ~ApplyResult
  <2>1. delivered' = delivered
    BY <1>4, OnlyApplyDelivers DEF vars
  <2> QED
    BY <1>2, <2>1 DEF Promise!vars
<1> QED
  BY <1>3, <1>4

\* A Builder's output is work on the candidate.
LEMMA PromiseBuild ==
  ASSUME TypeInv, Build, snap.state \notin Terminal
  PROVE  [Promise!Next]_(Promise!vars)
<1>1. book \in BookType /\ hist \in HistType
  BY DEF TypeInv, TypeOK
<1>2. /\ snap' = snap /\ hist'.checked = hist.checked /\ delivered' = delivered
      /\ book'.artifact = book.artifact \/ book'.artifact \in Diffs
  BY <1>1 DEF Build, env, BookType, HistType, AnyDiff
<1>3. Phase = "open" /\ Phase' = Phase /\ Accepted' = Accepted
  BY <1>2 DEF Phase, Accepted, Terminal
<1> QED
  BY <1>2, <1>3 DEF Promise!Next, Promise!Work, Promise!vars

\* A T0 verdict accepts the candidate or nothing.
LEMMA PromiseVerify ==
  ASSUME TypeInv, CandidateInv, Verify, snap.state \notin Terminal
  PROVE  [Promise!Next]_(Promise!vars)
<1>1. snap \in SnapType /\ hist \in HistType
  BY DEF TypeInv, TypeOK
<1>2. /\ snap'.state = snap.state /\ book' = book /\ delivered' = delivered
      /\ hist'.checked = frame.combined
  BY <1>1 DEF Verify, env, SnapType, HistType
<1>3. frame.combined \in {book.artifact, NoDiff}
  BY DEF Verify, CandidateInv
<1>4. Phase = "open" /\ Phase' = Phase /\ Accepted' \in {book.artifact, NoDiff}
  BY <1>2, <1>3 DEF Phase, Accepted, Terminal
<1> QED
  BY <1>2, <1>4 DEF Promise!Next, Promise!Check

\* A task ends by completing with its candidate accepted, or by failing.
LEMMA PromiseEnd ==
  ASSUME TypeInv, CandidateInv, Next, snap.state \notin Terminal,
         snap'.state \in Terminal
  PROVE  [Promise!Next]_(Promise!vars)
<1>1. \/ Settle /\ snap'.state = "COMPLETED" /\ snap.verdict = "pass"
      \/ snap'.state = "FAILED" /\ (Settle \/ Denied \/ ForceFail)
  BY HowTasksEnd
<1>2. ~Build /\ ~Verify /\ delivered' = delivered
  BY <1>1 DEF Settle, Denied, ForceFail, Build, Verify, env
<1>3. /\ book'.artifact = book.artifact
      /\ hist'.checked = hist.checked /\ snap'.verdict = snap.verdict
  BY <1>2, OnlyVerifyDecides, OnlyBuildWrites
<1>4. Phase = "open" /\ Accepted' = Accepted
  BY <1>3 DEF Phase, Accepted, Terminal
<1>5. CASE snap'.state = "COMPLETED"
  <2>1. Accepted = book.artifact /\ book.artifact # NoDiff
    BY <1>1, <1>5, SettledDiff DEF Accepted
  <2>2. Phase' = "completed"
    BY <1>5 DEF Phase
  <2> QED
    BY <1>2, <1>3, <1>4, <2>1, <2>2 DEF Promise!Next, Promise!Complete
<1>6. CASE snap'.state = "FAILED"
  <2>1. Phase' = "failed"
    BY <1>6 DEF Phase, Terminal
  <2> QED
    BY <1>2, <1>3, <1>4, <2>1 DEF Promise!Next, Promise!Abandon
<1> QED
  BY <1>1, <1>5, <1>6

\* Every step of a task is a step of VerifiedDelivery or one it does not see.
LEMMA PromiseStep ==
  ASSUME DriveInv, [Next]_vars
  PROVE  [Promise!Next]_(Promise!vars)
<1>1. CASE snap.state \in Terminal
  BY <1>1, PromiseWhenDone
<1>2. CASE UNCHANGED vars
  BY <1>2 DEF vars, Promise!vars, Phase, Accepted
<1>3. CASE Next /\ snap.state \notin Terminal
  <2>1. TypeInv /\ CandidateInv /\ ResultInv
    BY DEF DriveInv
  <2>2. CASE Build \/ Verify
    BY <1>3, <2>1, <2>2, PromiseBuild, PromiseVerify
  <2>3. CASE snap'.state \in Terminal
    BY <1>3, <2>1, <2>3, PromiseEnd
  <2>4. CASE ~Build /\ ~Verify /\ snap'.state \notin Terminal
    <3>1. ~ApplyResult
      BY <1>3, <2>1 DEF ApplyResult, ResultInv, Terminal
    <3>2. /\ book'.artifact = book.artifact /\ delivered' = delivered
          /\ hist'.checked = hist.checked /\ snap'.verdict = snap.verdict
      BY <1>3, <2>1, <2>4, <3>1, OnlyVerifyDecides, OnlyBuildWrites,
         OnlyApplyDelivers
    <3>3. Phase' = Phase /\ Accepted' = Accepted
      BY <1>3, <2>4, <3>2 DEF Phase, Accepted, Terminal
    <3> QED
      BY <3>2, <3>3 DEF Promise!vars
  <2> QED
    BY <2>2, <2>3, <2>4
<1> QED
  BY <1>1, <1>2, <1>3

\* The orchestrator, with kills, restarts and apply-back, implements the
\* promise made to the user: only what was verified is ever delivered.
THEOREM TaskImplementsDelivery == Spec => ImplementsDelivery
<1>1. Init => Promise!Init
  BY PromiseInit
<1>2. DriveInv /\ [Next]_vars => [Promise!Next]_(Promise!vars)
  BY PromiseStep
<1> QED
  BY <1>1, <1>2, DriveInvariance, PTL DEF Spec, ImplementsDelivery, Promise!Spec
-----------------------------------------------------------------------------
(* What a later call finds on the log                                      *)

\* the steps outside Drive's own rounds that the next lemmas single out
Moves == Enters \/ StartExecuting \/ Again \/ Built \/ Settle \/ Steer

\* An external step in flight is one that was proposed.
LEMMA InflightStep ==
  ASSUME TypeInv, InflightInv, [Next]_vars
  PROVE  InflightInv'
<1> USE DEF InflightInv, UnseenEffectAsked
<1>1. book \in BookType /\ hist \in HistType
  BY DEF TypeInv, TypeOK
<1>2. CASE Propose
  <2>1. book'.proposed = book.proposed \cup ({Current} \cap External)
    BY <1>1, <1>2 DEF Propose, BookType
  <2>2. hist'.inflight \subseteq hist.inflight \cup ({Current} \cap External)
    BY <1>1, <1>2 DEF Propose, HistType
  <2>3. pc' # "steer"
    BY <1>2 DEF Propose
  <2> QED
    BY <2>1, <2>2, <2>3
<1>3. CASE Observe
  <2>1. book'.proposed = book.proposed /\ hist'.inflight \subseteq hist.inflight
    BY <1>1, <1>3 DEF Observe, BookType, HistType
  <2>2. pc' # "steer"
    BY <1>3 DEF Observe
  <2> QED
    BY <2>1, <2>2
<1>4. CASE Reconcile
  <2>1. book' = book /\ hist'.inflight = hist.inflight
    BY <1>1, <1>4 DEF Reconcile, log, HistType
  <2>2. pc' = "steer" => book.proposed \subseteq book.seen
    BY <1>4 DEF Reconcile, Uncertain
  <2> QED
    BY <2>1, <2>2
<1>5. CASE Build \/ Verify \/ Decides
  <2>1. book'.proposed = book.proposed /\ hist'.inflight = hist.inflight
    BY <1>1, <1>5 DEF Build, Verify, Decides, Decide, BookType, HistType
  <2>2. pc' # "steer"
    BY <1>5 DEF Build, Verify, Decides, Decide
  <2> QED
    BY <2>1, <2>2
<1>6. CASE \/ Quiet \/ Appends \/ Moves \/ Handles \/ MakesProgress \/ LadderReplan
           \/ Finish \/ ForceFail \/ ReconcilePause \/ Crash \/ ApplyResult
  <2>1. book' = book /\ hist' = hist
    BY <1>6 DEF Quiet, Route, StopBeforeStep, StepsDone, AcceptEarly, Stops,
       LadderAskUser, Flag, Bookkeeping, CallRaises, Appends, Run, Interpret,
       MakePlan, AskApproval, Clarify, T2Pass, ResumeUnchanged, ReconcileAsk,
       LateQuestion, Moves, Enters, BeginInterpreting, StartPlanning, Pause,
       EnterStalled, EnterRecovering, Denied, StartExecuting, Again, Built,
       Settle, Steer, Handles, HandleStalled, HandleBuildError, CriticPass,
       MakesProgress, LadderReplan, Finish, ForceFail, ReconcilePause, Crash,
       ApplyResult, log
  <2>2. pc' = "steer" => pc = "steer"
    BY <1>6 DEF Quiet, Route, StopBeforeStep, StepsDone, AcceptEarly, Stops,
       LadderAskUser, Flag, Bookkeeping, CallRaises, Appends, Run, Interpret,
       MakePlan, AskApproval, Clarify, T2Pass, ResumeUnchanged, ReconcileAsk,
       LateQuestion, Moves, Enters, BeginInterpreting, StartPlanning, Pause,
       EnterStalled, EnterRecovering, Denied, StartExecuting, Again, Built,
       Settle, Steer, Handles, HandleStalled, HandleBuildError, CriticPass,
       MakesProgress, LadderReplan, Finish, ForceFail, ReconcilePause, Crash,
       ApplyResult, Enter
  <2> QED
    BY <2>1, <2>2
<1>7. CASE UNCHANGED vars
  BY <1>7 DEF vars
<1> QED
  BY <1>2, <1>3, <1>4, <1>5, <1>6, <1>7 DEF Next, Drive, Call, Quiet, Appends,
     Moves, Enters, Handles, Decides

\* Only calls, returns and kills change how the last call ended; only calls lead
\* into a restart, and only a restart out of it.
LEMMA DriveMoves ==
  ASSUME Drive
  PROVE  /\ pc # "idle" /\ crashes' = crashes /\ resumes' = resumes
         /\ pc' \notin {"reconcileAsk", "steer", "denied"}
         /\ pc' = "reconcilePause" => ReconcileAsk
         /\ pc' = "lateQuestion" => Steer
         /\ ~Finish /\ ~ReconcilePause => ending' = ending /\ pc' # "idle"
<1> USE DEF env
<1>1. CASE Quiet \/ Handles \/ MakesProgress
  BY <1>1 DEF Quiet, Route, StopBeforeStep, StepsDone, AcceptEarly, Stops,
     LadderAskUser, Flag, Bookkeeping, CallPoints, CallRaises, Handles,
     HandleStalled, HandleBuildError, CriticPass, MakesProgress
<1>2. CASE Interpret \/ MakePlan \/ AskApproval \/ Clarify \/ T2Pass
           \/ ReconcileAsk \/ LateQuestion
  BY <1>2 DEF Interpret, MakePlan, AskApproval, Clarify, T2Pass, ReconcileAsk,
     LateQuestion
<1>3. CASE Moves
  BY <1>3 DEF Moves, Enters, BeginInterpreting, StartPlanning, Pause,
     EnterStalled, EnterRecovering, Denied, StartExecuting, Again, Built,
     Settle, Steer, Enter
<1>4. CASE Propose \/ Build \/ Observe \/ LadderReplan \/ Verify
           \/ Finish \/ ForceFail \/ ReconcilePause
  BY <1>4 DEF Propose, Build, Observe, LadderReplan, Verify, Finish, ForceFail,
     ReconcilePause
<1> QED
  BY <1>1, <1>2, <1>3, <1>4 DEF Drive, Quiet, Handles, Moves, Enters

\* With its question on the log any task that has begun and is not over may wait.
LEMMA WaitingAllowed ==
  ASSUME snap \in SnapType, snap.state \notin Settled, snap.state # "CREATED",
         snap.clarification
  PROVE  TransitionOk(snap, "WAITING_FOR_USER")
<1>1. "WAITING_FOR_USER" \in ALLOWED[snap.state]
  BY DEF SnapType, State, ALLOWED, Settled, Terminal
<1> QED
  BY <1>1 DEF TransitionOk, Gate, HasQuestion

\* What escapes from resume() leaves a task as it was captured.
LEMMA RestartStep ==
  ASSUME TypeInv, ControlInv, RestartInv, [Next]_vars
  PROVE  RestartInv'
<1> USE DEF RestartInv, RaisesOnlyUnstarted
<1>1. snap \in SnapType
  BY DEF TypeInv, TypeOK
<1>2. CASE Drive /\ ~ReconcileAsk /\ ~ReconcilePause /\ ~Finish
  <2>1. ending # "raised" /\ ending' = ending
        /\ pc' \notin {"reconcileAsk", "reconcilePause"}
    BY <1>2, DriveMoves
  <2> QED
    BY <2>1
<1>3. CASE ReconcileAsk
  BY <1>1, <1>3 DEF ReconcileAsk, SnapType
<1>4. CASE ReconcilePause
  <2>1. snap.requested /\ (snap.state = "CREATED" \/ TransitionOk(snap, "WAITING_FOR_USER"))
    BY <1>1, <1>4, WaitingAllowed DEF ReconcilePause, ControlInv
  <2> QED
    BY <1>4, <2>1 DEF ReconcilePause
<1>5. CASE Finish \/ ResumeUnchanged \/ Decides \/ Crash
  BY <1>5 DEF Finish, ResumeUnchanged, CanResume, Decides, Decide, Crash
<1>6. CASE Reconcile
  BY <1>6 DEF Reconcile, Settled, log
<1>7. CASE Run \/ ApplyResult
  BY <1>7 DEF Run, ApplyResult, log
<1>8. CASE UNCHANGED vars
  BY <1>8 DEF vars
<1> QED
  BY <1>2, <1>3, <1>4, <1>5, <1>6, <1>7, <1>8 DEF Next, Call, Decides

\* Without a kill every call leaves the task ended or waiting, and no restart
\* ever begins.
LEMMA KillStep ==
  ASSUME TypeInv, ControlInv, KillInv, RoundsInv, [Next]_vars
  PROVE  KillInv'
<1> USE DEF KillInv
<1>1. CASE Drive /\ ~Finish /\ ~ReconcilePause
  <2> SUFFICES ASSUME crashes = 0
               PROVE  /\ pc' \notin {"reconcilePause", "lateQuestion"}
                      /\ pc' = "recover" => frame'.retry # "resume"
    BY <1>1, DriveMoves
  <2>1. pc' \notin {"reconcilePause", "lateQuestion"}
    BY <1>1, DriveMoves DEF ReconcileAsk, Steer
  <2>2. ASSUME pc' = "recover" PROVE frame'.retry # "resume"
    <3>1. EnterStalled \/ Steer
      BY <1>1, <2>2 DEF Drive, BeginInterpreting, Interpret, StartPlanning,
         Route, MakePlan, StartExecuting, Propose, StopBeforeStep, StepsDone,
         Build, Observe, AcceptEarly, MakesProgress, Stops, LadderReplan,
         LadderAskUser, AskApproval, Clarify, Pause, HandleStalled,
         HandleBuildError, EnterRecovering, Again, Built, Verify, T2Pass, Flag,
         CriticPass, Settle, Bookkeeping, CallRaises, ForceFail, Denied,
         ReconcileAsk, LateQuestion, Enter
    <3>2. EnterStalled
      BY <3>1 DEF Steer
    <3> QED
      BY <3>2 DEF EnterStalled, RoundsInv, Retries
  <2> QED
    BY <2>1, <2>2
<1>2. CASE Finish
  BY <1>2 DEF Finish, ControlInv, TypeInv, TypeOK, SnapType, env
<1>3. CASE ReconcilePause
  BY <1>3 DEF ReconcilePause, env
<1>4. CASE Run
  BY <1>4 DEF Run, env
<1>5. CASE ResumeUnchanged
  BY <1>5 DEF ResumeUnchanged, CanResume, TypeInv, TypeOK, SnapType
<1>6. CASE Decides
  BY <1>6 DEF Decides, Decide
<1>7. CASE Reconcile
  BY <1>7 DEF Reconcile, CanResume, Settled
<1>8. CASE Crash
  BY <1>8 DEF Crash, TypeInv, TypeOK
<1>9. CASE ApplyResult \/ UNCHANGED vars
  BY <1>9 DEF ApplyResult, log, vars
<1> QED
  BY <1>1, <1>2, <1>3, <1>4, <1>5, <1>6, <1>7, <1>8, <1>9 DEF Next, Call, Decides

\* A question stays on the log until it is answered.
LEMMA QuestionStep ==
  ASSUME TypeInv, ControlInv, KillInv, QuestionInv, [Next]_vars
  PROVE  QuestionInv'
<1> USE DEF QuestionInv, HasQuestion
<1>1. snap \in SnapType
  BY DEF TypeInv, TypeOK
<1>2. CASE Run \/ Interpret
  BY <1>1, <1>2 DEF Run, Interpret, ControlInv, SnapType, env
<1>3. CASE Quiet \/ Handles \/ Propose \/ Build \/ MakesProgress \/ ApplyResult
  BY <1>3 DEF Quiet, Route, StopBeforeStep, StepsDone, AcceptEarly, Stops,
     LadderAskUser, Flag, Bookkeeping, CallPoints, CallRaises, Handles,
     HandleStalled, HandleBuildError, CriticPass, Propose, Build,
     MakesProgress, ApplyResult, log, env
<1>4. CASE AskApproval
  <2>1. Current # NoStep
    BY <1>4, CurrentStep DEF AskApproval, InRound, Steps, NoStep
  <2> QED
    BY <1>1, <1>4, <2>1 DEF AskApproval, SnapType, env
<1>5. CASE MakePlan \/ Clarify \/ T2Pass \/ ReconcileAsk \/ LateQuestion
  BY <1>1, <1>5 DEF MakePlan, Clarify, T2Pass, ReconcileAsk, LateQuestion,
     SnapType, env
<1>6. CASE ResumeUnchanged \/ Observe \/ LadderReplan \/ Verify \/ Finish
  BY <1>1, <1>6 DEF ResumeUnchanged, CanResume, Observe, LadderReplan, Verify,
     Finish, SnapType, env
<1>7. CASE Reconcile
  BY <1>7 DEF Reconcile, log
<1>8. CASE Moves
  <2>1. CASE Pause
    BY <1>1, <2>1 DEF Pause, Enter, TransitionOk, Gate, OnState, SnapType, env
  <2>2. CASE Steer
    BY <2>2 DEF Steer, KillInv, Enter, env
  <2>3. CASE \/ BeginInterpreting \/ StartPlanning \/ EnterStalled
             \/ EnterRecovering \/ Denied
    BY <1>1, <2>3 DEF BeginInterpreting, StartPlanning, EnterStalled,
       EnterRecovering, Denied, Enter, OnState, SnapType, env
  <2>4. CASE StartExecuting \/ Again \/ Built
    BY <1>1, <2>4 DEF StartExecuting, Again, Built, Enter, OnState, SnapType, env
  <2>5. CASE Settle
    BY <1>1, <2>5 DEF Settle, Enter, OnState, SnapType, env
  <2> QED
    BY <1>8, <2>1, <2>2, <2>3, <2>4, <2>5 DEF Moves, Enters
<1>9. CASE ForceFail
  BY <1>1, <1>9 DEF ForceFail, OnState, ALLOWED, Terminal, SnapType, env
<1>10. CASE Decides
  BY <1>10 DEF Decides, Decide
<1>11. CASE ReconcilePause
  BY <1>11 DEF ReconcilePause, KillInv, env
<1>12. CASE Crash
  BY <1>12 DEF Crash, TypeInv, TypeOK
<1>13. CASE UNCHANGED vars
  BY <1>13 DEF vars
<1> QED
  BY <1>2, <1>3, <1>4, <1>5, <1>6, <1>7, <1>8, <1>9, <1>10, <1>11, <1>12, <1>13
     DEF Next, Drive, Call, Quiet, Handles, Moves, Enters, Decides

\* Without a kill no approval is open while a round is under way, and no round
\* begins once a verdict is a pass.
LEMMA PassStep ==
  ASSUME TypeInv, ControlInv, KillInv, PassInv, [Next]_vars
  PROVE  PassInv'
<1> USE DEF PassInv
<1>1. snap \in SnapType
  BY DEF TypeInv, TypeOK
<1>2. CASE Run \/ Interpret \/ MakePlan
  BY <1>1, <1>2 DEF Run, Interpret, MakePlan, SnapType, env
<1>3. CASE Quiet \/ Propose \/ Build \/ MakesProgress \/ ApplyResult
  BY <1>3 DEF Quiet, Route, StopBeforeStep, StepsDone, AcceptEarly, Stops,
     LadderAskUser, Flag, Bookkeeping, CallPoints, CallRaises, Propose, Build,
     MakesProgress, ApplyResult, log, env
<1>4. CASE Handles
  BY <1>4 DEF Handles, HandleStalled, HandleBuildError, CriticPass, log, env
<1>5. CASE AskApproval
  BY <1>1, <1>5 DEF AskApproval, ControlInv, SnapType, env
<1>6. CASE Clarify \/ T2Pass \/ ReconcileAsk \/ LateQuestion \/ Finish
  BY <1>1, <1>6 DEF Clarify, T2Pass, ReconcileAsk, LateQuestion, Finish, KillInv,
     SnapType, env
<1>7. CASE Observe \/ LadderReplan
  BY <1>1, <1>7 DEF Observe, LadderReplan, SnapType, env
<1>8. CASE Verify
  BY <1>1, <1>8 DEF Verify, ControlInv, SnapType, env
<1>9. CASE ResumeUnchanged
  BY <1>1, <1>9 DEF ResumeUnchanged, CanResume, SnapType
<1>10. CASE Moves
  <2>1. CASE Enters
    BY <1>1, <2>1 DEF Enters, BeginInterpreting, StartPlanning, Pause,
       EnterStalled, EnterRecovering, Denied, Enter, OnState, SnapType, env
  <2>2. CASE StartExecuting \/ Again \/ Built
    BY <1>1, <2>2 DEF StartExecuting, Again, Built, Enter, OnState, SnapType, env
  <2>3. CASE Settle
    BY <1>1, <2>3 DEF Settle, Enter, OnState, SnapType, env
  <2>4. CASE Steer
    BY <2>4 DEF Steer, KillInv, env
  <2> QED
    BY <1>10, <2>1, <2>2, <2>3, <2>4 DEF Moves
<1>11. CASE ForceFail
  BY <1>1, <1>11 DEF ForceFail, OnState, SnapType, env
<1>12. CASE Decides
  BY <1>1, <1>12 DEF Decides, Decide, OnDecision, SnapType
<1>13. CASE Reconcile
  BY <1>13 DEF Reconcile, CanResume, KillInv, Settled
<1>14. CASE ReconcilePause
  BY <1>14 DEF ReconcilePause, KillInv, env
<1>15. CASE Crash
  BY <1>15 DEF Crash, TypeInv, TypeOK
<1>16. CASE UNCHANGED vars
  BY <1>16 DEF vars
<1> QED
  BY <1>2, <1>3, <1>4, <1>5, <1>6, <1>7, <1>8, <1>9, <1>10, <1>11, <1>12, <1>13,
     <1>14, <1>15, <1>16 DEF Next, Drive, Call, Quiet, Handles, Moves, Enters, Decides

-----------------------------------------------------------------------------
(* The plans of one call                                                   *)

\* A round re-plans at most as often as its markers allow, and the rounds of one
\* call together stay within the bound.
LEMMA RoundSum ==
  ASSUME frame \in FrameType, frame.builder = 1 => HasFallback
  PROVE  /\ PlansBefore \in Nat /\ Replans \in Nat
         /\ Replans <= RoundReplans(frame.builder)
         /\ PlansBefore + Replans <= IF HasFallback THEN 8 ELSE 7
<1>1. frame.builder \in {0, 1} /\ frame.critic \in {0, 1} /\ frame.rung \in Nat
  BY DEF FrameType
<1>2. Replans \in Nat /\ Replans <= RoundReplans(frame.builder)
  BY <1>1 DEF Replans, RoundReplans, Fast
<1>3. PlansBefore \in Nat
      /\ PlansBefore + RoundReplans(frame.builder) <= IF HasFallback THEN 8 ELSE 7
  BY <1>1 DEF PlansBefore, RoundReplans
<1>4. RoundReplans(frame.builder) \in Nat
  BY DEF RoundReplans
<1> QED
  BY <1>2, <1>3, <1>4

\* A retry begins with the plans of the round before paid for.
LEMMA RetryPays ==
  ASSUME frame \in FrameType, frame.plan # 0, RoundsInv, pc = "again",
         frame.builder = 1 \/ frame.retry \in {"stall", "build", "verify"} => HasFallback,
         frame' = NextRound
  PROVE  /\ frame'.builder = 1 => HasFallback
         /\ frame'.retry = "none"
         /\ PlansBefore + Replans <= PlansBefore' + Replans'
<1>1. frame.builder \in {0, 1} /\ frame.critic \in {0, 1}
  BY DEF FrameType
<1>2. /\ frame'.builder = IF frame.retry = "critic" THEN frame.builder ELSE 1
      /\ frame'.critic = IF frame.retry = "critic" THEN 1 ELSE frame.critic
      /\ frame'.rung = 0 /\ frame'.retry = "none"
  BY DEF NextRound, Round, IdleFrame
<1>3. /\ frame.retry \in {"critic", "stall", "build", "verify"}
      /\ frame.retry = "critic" => frame.critic = 0
      /\ frame.retry # "critic" => frame.builder = 0 /\ HasFallback
  BY DEF RoundsInv, Retries
<1>4. Replans' = 0
  BY <1>2 DEF Replans, Fast
<1>5. Replans \in Nat /\ Replans <= RoundReplans(frame.builder)
  BY <1>3, RoundSum
<1>6. /\ PlansBefore \in Nat /\ PlansBefore' \in Nat
      /\ PlansBefore + RoundReplans(frame.builder) <= PlansBefore'
  BY <1>1, <1>2, <1>3 DEF PlansBefore, RoundReplans
<1>7. PlansBefore + Replans <= PlansBefore' + Replans'
  <2>1. \A p, q, r \in Nat, all \in {1, 3} :
          p + all <= r /\ q <= all => p + q <= r + 0
    OBVIOUS
  <2>2. RoundReplans(frame.builder) \in {1, 3}
    BY DEF RoundReplans
  <2> QED
    BY <1>4, <1>5, <1>6, <2>1, <2>2, Zenon
<1>8. frame'.builder = 1 => HasFallback
  BY <1>2, <1>3
<1> QED
  BY <1>2, <1>7, <1>8

\* Each rung answers once.
LEMMA ReplanPays ==
  ASSUME frame \in FrameType, LadderReplan
  PROVE  /\ frame'.builder = frame.builder /\ frame'.retry = frame.retry
         /\ PlansBefore' = PlansBefore
         /\ Replans \in Nat /\ Replans' \in Nat /\ Replans + 1 <= Replans'
<1>1. PICK r \in frame.rung .. 4 : CanReplan(r) /\ frame' = Replanned(r)
  BY DEF LadderReplan
<1>2. /\ frame'.builder = frame.builder /\ frame'.critic = frame.critic
      /\ frame'.retry = frame.retry /\ frame'.rung = r + 1
  BY <1>1 DEF Replanned, FrameType
<1>3. frame.rung \in Nat /\ r \in Nat /\ r <= 4 /\ frame.rung <= r
  BY <1>1 DEF FrameType
<1>4. r \in {1, 2, 4} /\ (Fast => r = 4)
  BY <1>1, <1>3 DEF CanReplan
<1>5. Fast' = Fast
  BY <1>2 DEF Fast
<1>6. Replans \in Nat /\ Replans' \in Nat /\ Replans + 1 <= Replans'
  BY <1>2, <1>3, <1>4, <1>5 DEF Replans
<1> QED
  BY <1>2, <1>6 DEF PlansBefore

\* Every other step of a call keeps the number of plans, and stays inside or
\* outside its round.
LEMMA PlansKept ==
  ASSUME TypeInv, Drive, ~MakePlan, ~LadderReplan
  PROVE  /\ snap'.plan = snap.plan /\ snap'.requested = snap.requested
<1>1. snap \in SnapType
  BY DEF TypeInv, TypeOK
<1>2. CASE Moves
  BY <1>1, <1>2, EnterStep DEF Moves, Enters, BeginInterpreting, StartPlanning,
     Pause, EnterStalled, EnterRecovering, Denied, StartExecuting, Again, Built,
     Settle, Steer, State
<1>3. CASE Quiet \/ Handles \/ Propose \/ Build \/ MakesProgress
  BY <1>3 DEF Quiet, Route, StopBeforeStep, StepsDone, AcceptEarly, Stops,
     LadderAskUser, Flag, Bookkeeping, CallRaises, Handles, HandleStalled,
     HandleBuildError, CriticPass, Propose, Build, MakesProgress, log
<1>4. CASE \/ Interpret \/ AskApproval \/ Clarify \/ T2Pass
           \/ ReconcileAsk \/ LateQuestion
  BY <1>1, <1>4 DEF Interpret, AskApproval, Clarify, T2Pass, ReconcileAsk,
     LateQuestion, SnapType
<1>5. CASE Observe \/ Verify \/ Finish \/ ForceFail \/ ReconcilePause
  BY <1>1, <1>5 DEF Observe, Verify, Finish, ForceFail, ReconcilePause, OnState,
     SnapType
<1> QED
  BY <1>2, <1>3, <1>4, <1>5 DEF Drive, Quiet, Handles, Moves, Enters

\* the places of a call in which its round counts
Rounds == InRound \cup {"recover"}
Early == {"begin", "interpret", "startPlanning", "route", "plan", "startExecuting"}
Later == {"reconcileAsk", "reconcilePause", "steer", "lateQuestion", "denied"}

\* A step that leaves the number of plans and what the frame counts alone keeps
\* the account, if it neither begins a round nor a plan.
LEMMA LadderKept ==
  ASSUME LadderInv, resumes = 0, resumes' = 0, snap'.plan = snap.plan,
         snap'.requested = snap.requested,
         frame'.builder = frame.builder, frame'.critic = frame.critic,
         frame'.rung = frame.rung,
         frame'.retry \in {"stall", "build", "verify"} =>
           HasFallback \/ frame'.retry = frame.retry,
         pc' \in Rounds => pc \in Rounds, pc' \in Early => pc \in Early,
         pc' \notin Later, pc' = "recover" => frame'.retry # "resume"
  PROVE  LadderInv'
<1>1. PlansBefore' = PlansBefore /\ Replans' = Replans
  BY DEF PlansBefore, Replans, Fast
<1> QED
  BY <1>1 DEF LadderInv, ReplansBounded, Rounds, Early, Later

\* The same of the round a step has just begun, and what follows for its plans.
LEMMA RoundSumNext ==
  ASSUME frame' \in FrameType, frame'.builder = 1 => HasFallback
  PROVE  /\ PlansBefore' \in Nat /\ Replans' \in Nat
         /\ PlansBefore' + Replans' <= IF HasFallback THEN 8 ELSE 7
<1>1. frame'.builder \in {0, 1} /\ frame'.critic \in {0, 1} /\ frame'.rung \in Nat
  BY DEF FrameType
<1>2. Replans' \in Nat /\ Replans' <= RoundReplans(frame'.builder)
  BY <1>1 DEF Replans, RoundReplans, Fast
<1>3. PlansBefore' \in Nat
      /\ PlansBefore' + RoundReplans(frame'.builder) <= IF HasFallback THEN 8 ELSE 7
  BY <1>1 DEF PlansBefore, RoundReplans
<1>4. \A p, q \in Nat, all \in {1, 3}, most \in {7, 8} :
        p + all <= most /\ q <= all => p + q <= most
  OBVIOUS
<1>5. RoundReplans(frame'.builder) \in {1, 3} /\ (IF HasFallback THEN 8 ELSE 7) \in {7, 8}
  BY DEF RoundReplans
<1> QED
  BY <1>2, <1>3, <1>4, <1>5, Zenon

\* A round that begins or goes on within its account is within the bound.
LEMMA InBudget ==
  ASSUME frame' \in FrameType, pc' = "step", snap'.plan \in Nat, snap'.requested,
         frame'.builder = 1 \/ frame'.retry \in {"stall", "build", "verify"} => HasFallback,
         snap'.plan <= PlansBefore' + Replans'
  PROVE  LadderInv'
  BY RoundSumNext DEF LadderInv, ReplansBounded

\* The plans of the first call are paid for by its rounds and their rungs.
LEMMA LadderStep ==
  ASSUME TypeInv, ControlInv, RoundsInv, LadderInv, [Next]_vars
  PROVE  LadderInv'
<1>1. /\ snap \in SnapType /\ frame \in FrameType /\ resumes \in Nat
      /\ snap.plan \in Nat
  BY DEF TypeInv, TypeOK, SnapType, Plans
<1>15. frame' \in FrameType
  BY TypeInvStep DEF TypeInv, TypeOK
<1>2. CASE resumes' # 0
  BY <1>2 DEF LadderInv, ReplansBounded
<1> SUFFICES ASSUME resumes' = 0, ~UNCHANGED vars
             PROVE  LadderInv'
  <2>1. CASE UNCHANGED vars
    BY <2>1 DEF vars, LadderInv, ReplansBounded, PlansBefore, Replans, Fast
  <2> QED
    BY <1>2, <2>1
<1>3. CASE ResumeUnchanged \/ Decides \/ Reconcile
  BY <1>1, <1>3 DEF ResumeUnchanged, Decides, Decide, Reconcile
<1>4. CASE Quiet \/ Propose \/ Build \/ Observe \/ MakesProgress
  <2>1. /\ snap'.plan = snap.plan /\ snap'.requested = snap.requested
        /\ resumes' = resumes
    BY <1>1, <1>4 DEF Quiet, Route, StopBeforeStep, StepsDone, AcceptEarly, Stops,
       LadderAskUser, Flag, Bookkeeping, CallRaises, Propose, Build, Observe,
       MakesProgress, SnapType, log, env
  <2>2. /\ frame'.builder = frame.builder /\ frame'.critic = frame.critic
        /\ frame'.rung = frame.rung /\ frame'.retry = frame.retry
    BY <1>1, <1>4, ZenonT(40) DEF Quiet, Route, StopBeforeStep, StepsDone, AcceptEarly, Stops,
       LadderAskUser, Flag, Bookkeeping, CallRaises, Propose, Build, Observe,
       MakesProgress, FrameType
  <2>3. /\ pc' \in Rounds => pc \in Rounds
        /\ pc' \in Early => pc \in Early
        /\ pc' \notin Later \cup {"recover"}
    BY <1>4 DEF Quiet, Route, StopBeforeStep, StepsDone, AcceptEarly, Stops,
       LadderAskUser, Flag, Bookkeeping, CallRaises, Propose, Build, Observe,
       MakesProgress, Rounds, Early, InRound, Later
  <2> QED
    BY <2>1, <2>2, <2>3, LadderKept
<1>5. CASE Handles
  <2>1. snap' = snap /\ resumes' = resumes
    BY <1>5 DEF Handles, HandleStalled, HandleBuildError, CriticPass, log, env
  <2>2. /\ frame'.builder = frame.builder /\ frame'.critic = frame.critic
        /\ frame'.rung = frame.rung
        /\ frame'.retry \in {"stall", "build", "verify"} =>
             HasFallback \/ frame'.retry = frame.retry
    BY <1>1, <1>5 DEF Handles, HandleStalled, HandleBuildError, CriticPass, Fast,
       FrameType
  <2>3. pc \in Rounds /\ pc' \notin Early \cup Later \cup {"recover"}
    BY <1>5 DEF Handles, HandleStalled, HandleBuildError, CriticPass, Rounds,
       Early, InRound, Later
  <2> QED
    BY <2>1, <2>2, <2>3, LadderKept
<1>6. CASE \/ Interpret \/ AskApproval \/ Clarify \/ T2Pass \/ Verify \/ ForceFail
           \/ ApplyResult
  <2>1. /\ snap'.plan = snap.plan /\ snap'.requested = snap.requested
        /\ resumes' = resumes /\ frame' = frame
    BY <1>1, <1>6 DEF Interpret, AskApproval, Clarify, T2Pass, Verify, ForceFail,
       ApplyResult, OnState, SnapType, log, env
  <2>2. \/ pc' = pc
        \/ /\ pc' \in Rounds => pc \in Rounds
           /\ pc' \in Early => pc \in Early
           /\ pc' \notin Later \cup {"recover"}
    BY <1>6 DEF Interpret, AskApproval, Clarify, T2Pass, Verify, ForceFail,
       ApplyResult, Rounds, Early, InRound, Later
  <2>3. pc' = pc => pc' \notin Later /\ (pc' = "recover" => frame'.retry # "resume")
    BY <2>1 DEF LadderInv, Later
  <2> QED
    BY <2>1, <2>2, <2>3, LadderKept
<1>7. CASE ReconcileAsk \/ ReconcilePause \/ LateQuestion \/ Steer \/ Denied
  BY <1>7 DEF ReconcileAsk, ReconcilePause, LateQuestion, Steer, Denied, LadderInv, env
<1>8. CASE Finish \/ Crash
  <2>1. /\ snap'.plan = snap.plan /\ snap'.requested = snap.requested
        /\ resumes' = resumes /\ pc' = "idle" /\ frame' = IdleFrame
    BY <1>1, <1>8 DEF Finish, Crash, SnapType, log, env
  <2>2. frame'.builder = 0 /\ frame'.retry = "none"
    BY <2>1 DEF IdleFrame
  <2> QED
    BY <2>1, <2>2 DEF LadderInv, ReplansBounded, InRound
<1>9. CASE Run \/ MakePlan
  <2>1. /\ snap'.plan <= 1 /\ resumes' = resumes /\ frame' = frame
        /\ snap'.plan \in Nat /\ pc' \in {"begin", "startExecuting"}
    BY <1>1, <1>9 DEF Run, MakePlan, LadderInv, SnapType, env
  <2> QED
    BY <2>1 DEF LadderInv, ReplansBounded, InRound
<1>10. CASE LadderReplan
  <2>1. /\ snap'.plan = snap.plan + 1 /\ snap'.requested = snap.requested
        /\ resumes' = resumes /\ pc' = "step" /\ pc = "ladder"
    BY <1>1, <1>10 DEF LadderReplan, SnapType, env
  <2>2. /\ frame'.builder = frame.builder /\ frame'.retry = frame.retry
        /\ PlansBefore' = PlansBefore
        /\ Replans \in Nat /\ Replans' \in Nat /\ Replans + 1 <= Replans'
    BY <1>1, <1>10, ReplanPays
  <2>3. frame'.builder = 1 \/ frame'.retry \in {"stall", "build", "verify"} => HasFallback
    BY <2>1, <2>2 DEF LadderInv
  <2>4. snap.plan <= PlansBefore + Replans /\ PlansBefore \in Nat
    BY <1>1, <2>1, <2>2, <2>3, RoundSum DEF LadderInv, InRound
  <2>5. snap'.plan <= PlansBefore' + Replans'
    BY <1>1, <2>1, <2>2, <2>4
  <2>6. snap'.plan \in Nat /\ snap'.requested
    BY <1>1, <2>1 DEF ControlInv
  <2> QED
    BY <1>15, <2>1, <2>3, <2>5, <2>6, InBudget
<1>11. CASE BeginInterpreting \/ StartPlanning \/ Pause \/ EnterStalled \/ EnterRecovering
  <2>1. /\ snap'.plan = snap.plan /\ snap'.requested = snap.requested
    BY <1>1, <1>11, EnterStep DEF BeginInterpreting, StartPlanning, Pause,
       EnterStalled, EnterRecovering, State
  <2>2. resumes' = resumes /\ frame' = frame
    BY <1>11 DEF BeginInterpreting, StartPlanning, Pause, EnterStalled,
       EnterRecovering, env
  <2>3. /\ pc' \in Rounds => pc \in Rounds
        /\ pc' \in Early => pc \in Early
        /\ pc' \notin Later
        /\ pc' = "recover" => frame'.retry # "resume"
    BY <1>11, <2>2 DEF BeginInterpreting, StartPlanning, Pause, EnterStalled,
       EnterRecovering, Enter, Rounds, Early, InRound, Later, LadderInv,
       RoundsInv, Retries
  <2> QED
    BY <2>1, <2>2, <2>3, LadderKept
<1>12. CASE \/ Settle \/ Built
            \/ (StartExecuting \/ Again) /\ pc' # "step"
  <2>1. /\ snap'.plan = snap.plan /\ snap'.requested = snap.requested
    BY <1>1, <1>12, EnterStep DEF Settle, Built, StartExecuting, Again, State
  <2>2. /\ frame'.builder = frame.builder /\ frame'.critic = frame.critic
        /\ frame'.rung = frame.rung /\ resumes' = resumes
        /\ frame'.retry \in {"stall", "build", "verify"} =>
             HasFallback \/ frame'.retry = frame.retry
    BY <1>1, <1>12 DEF Settle, Built, StartExecuting, Again, Enter, Fast, FrameType, env
  <2>3. /\ pc' \in Rounds => pc \in Rounds
        /\ pc' \notin Early \cup Later \cup {"recover"}
    BY <1>12 DEF Settle, Built, StartExecuting, Again, Enter, Rounds, Early,
       InRound, Later
  <2> QED
    BY <2>1, <2>2, <2>3, LadderKept
<1>13. CASE StartExecuting /\ pc' = "step"
  <2>1. /\ snap'.plan = snap.plan /\ snap'.requested = snap.requested
        /\ resumes' = resumes
    BY <1>1, <1>13, EnterStep DEF StartExecuting, State, env
  <2>2. frame' = FirstRound /\ snap.plan <= 1
    BY <1>13, <2>1 DEF StartExecuting, LadderInv
  <2>3. /\ frame'.builder = 0 /\ frame'.critic = 0 /\ frame'.rung = 0
        /\ frame'.retry = "none"
    BY <2>2 DEF FirstRound, Round, IdleFrame
  <2>4. PlansBefore' = 1 /\ Replans' = 0
    BY <2>3 DEF PlansBefore, Replans, Fast
  <2>5. snap'.plan \in Nat /\ snap'.plan <= 1
    BY <1>1, <2>1, <2>2
  <2>6. snap'.requested
    BY <1>13, <2>1 DEF ControlInv, StartExecuting
  <2> QED
    BY <1>13, <2>3, <2>4, <2>5, <2>6 DEF LadderInv, ReplansBounded
<1>14. CASE Again /\ pc' = "step"
  <2>1. /\ snap'.plan = snap.plan /\ snap'.requested = snap.requested
        /\ resumes' = resumes
    BY <1>1, <1>14, EnterStep DEF Again, State, env
  <2>2. frame' = NextRound /\ pc = "again"
    BY <1>14 DEF Again, Enter
  <2>3. /\ frame.builder = 1 \/ frame.retry \in {"stall", "build", "verify"} => HasFallback
        /\ snap.plan <= PlansBefore + Replans
    BY <2>1, <2>2 DEF LadderInv, InRound
  <2>4. frame.plan # 0
    BY <2>2 DEF TypeInv, PlanInv, InRound
  <2>5. /\ frame'.builder = 1 => HasFallback
        /\ frame'.retry = "none"
        /\ PlansBefore + Replans <= PlansBefore' + Replans'
    BY <1>1, <2>2, <2>3, <2>4, RetryPays
  <2>7. /\ PlansBefore \in Nat /\ Replans \in Nat
        /\ PlansBefore' \in Nat /\ Replans' \in Nat
    BY <1>1, <1>15, <2>3, <2>5, RoundSum, RoundSumNext
  <2>8. snap'.plan \in Nat /\ snap'.plan <= PlansBefore' + Replans'
    BY <1>1, <2>1, <2>3, <2>5, <2>7
  <2>9. snap'.requested
    BY <2>1, <2>2 DEF ControlInv
  <2> QED
    BY <1>14, <1>15, <2>5, <2>8, <2>9, InBudget
<1> QED
  BY <1>3, <1>4, <1>5, <1>6, <1>7, <1>8, <1>9, <1>10, <1>11, <1>12, <1>13, <1>14
     DEF Next, Drive, Call, Quiet, Handles, Decides
-----------------------------------------------------------------------------
(* The whole invariant, and the properties of later calls it gives         *)

\* The inductive invariant holds of a task not yet submitted ...
LEMMA IInvInit == Init => IInv
<1> SUFFICES ASSUME Init PROVE IInv
  OBVIOUS
<1>1. DriveInv
  BY DriveInvInit
<1>2. /\ pc = "idle" /\ ~snap.requested /\ snap.state = "CREATED"
      /\ snap.plan = 0 /\ snap.pending = NoStep /\ snap.verdict = "none"
      /\ ending = "none" /\ hist.inflight = {}
      /\ frame.builder = 0 /\ frame.retry = "none"
  BY DEF Init, IdleFrame
<1>3. InflightInv /\ RestartInv /\ KillInv
  BY <1>2 DEF InflightInv, UnseenEffectAsked, RestartInv, RaisesOnlyUnstarted, KillInv
<1>4. QuestionInv /\ PassInv
  BY <1>2 DEF QuestionInv, PassInv
<1>5. LadderInv
  <2>1. snap.plan \in Nat /\ snap.plan <= 1 /\ snap.plan <= 7
    BY <1>2
  <2> QED
    BY <1>2, <2>1 DEF LadderInv, ReplansBounded, InRound
<1> QED
  BY <1>1, <1>3, <1>4, <1>5 DEF IInv

\* ... and every step of the drive, of the user and of the environment keeps it.
LEMMA IInvStep == IInv /\ [Next]_vars => IInv'
<1> SUFFICES ASSUME IInv, [Next]_vars PROVE IInv'
  OBVIOUS
<1>1. DriveInv /\ TypeInv /\ ControlInv /\ RoundsInv
  BY DEF IInv, DriveInv
<1>2. DriveInv'
  BY <1>1, DriveInvStep
<1>3. InflightInv' /\ RestartInv' /\ KillInv' /\ QuestionInv' /\ PassInv' /\ LadderInv'
  BY <1>1, InflightStep, RestartStep, KillStep, QuestionStep, PassStep, LadderStep
     DEF IInv
<1> QED
  BY <1>2, <1>3 DEF IInv

\* At every point of every run of a task - any drive, any kills, resumes and
\* apply-backs - the inductive invariant holds: what the drive needs to survive an
\* interruption there, and what a later call relies on when it reads the log.
THEOREM Invariance == Spec => []IInv
<1> QED
  BY IInvInit, IInvStep, PTL DEF Spec

\* Unless it was killed, a task that waits for its user has an approval, a
\* clarification or an unclear contract to put to them.
THEOREM PausedTasksHaveAQuestion == Spec => []PausedHasQuestion
<1>1. IInv => PausedHasQuestion
  BY DEF IInv, QuestionInv, PausedHasQuestion
<1> QED
  BY <1>1, Invariance, PTL

\* Unless it was killed, a task whose diff passed T0 never reaches a Builder again.
THEOREM PassesAreNotRebuilt == Spec => []PassIsNotRebuilt
<1>1. IInv => PassIsNotRebuilt
  BY DEF IInv, PassInv, PassIsNotRebuilt
<1> QED
  BY <1>1, Invariance, PTL

\* A restart goes on by itself only if every external step left in flight had been
\* observed on some attempt; with any other the user is asked.
THEOREM UnseenEffectsAreAsked == Spec => []UnseenEffectAsked
<1>1. IInv => UnseenEffectAsked
  BY DEF IInv, InflightInv
<1> QED
  BY <1>1, Invariance, PTL

\* An exception escapes from resume() only for a task killed before its first STATE.
THEOREM OnlyUnstartedTasksRaise == Spec => []RaisesOnlyUnstarted
<1>1. IInv => RaisesOnlyUnstarted
  BY DEF IInv, RestartInv
<1> QED
  BY <1>1, Invariance, PTL

\* The first call asks the planner for at most eight plans, seven when no stronger
\* builder is in reserve, whatever the steps measure and the critics say.
THEOREM ReplansAreBounded == Spec => []ReplansBounded
<1>1. IInv => ReplansBounded
  BY DEF IInv, LadderInv, ReplansBounded
<1> QED
  BY <1>1, Invariance, PTL
=============================================================================
