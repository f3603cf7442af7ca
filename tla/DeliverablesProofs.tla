------------------------- MODULE DeliverablesProofs -------------------------
(***************************************************************************)
(* Proofs about Deliverables, for any number of kills and resumes: PathInv *)
(* is inductive, and the properties of the run follow from it.             *)
(***************************************************************************)
EXTENDS Deliverables, TLAPS

(* A STATE event changes the state, and at most closes a clarification.    *)
Moved(t) ==
  /\ s' \in Snapshots /\ s'.state = t
  /\ s'.requested = s.requested /\ s'.class = s.class /\ s'.contract = s.contract
  /\ s'.plan = s.plan /\ s'.pending = s.pending /\ s'.answer = s.answer /\ s'.wrote = s.wrote
  /\ t \notin {"INTERPRETING", "EXECUTING"} => s'.clarification = s.clarification

(* An OBSERVATION or a RESULT leaves the rest of what the log says.        *)
Kept ==
  /\ s' \in Snapshots /\ s'.state = s.state /\ s'.clarification = s.clarification
  /\ s'.requested = s.requested /\ s'.class = s.class /\ s'.contract = s.contract
  /\ s'.plan = s.plan /\ s'.pending = s.pending /\ s'.answer = s.answer /\ s'.wrote = s.wrote

\* a CLARIFICATION opens a question
Asked ==
  /\ s' \in Snapshots /\ s'.state = s.state /\ s'.clarification
  /\ s'.requested = s.requested /\ s'.class = s.class /\ s'.contract = s.contract
  /\ s'.plan = s.plan /\ s'.answer = s.answer /\ s'.wrote = s.wrote

LEMMA AtMoves ==
  ASSUME s \in Snapshots, NEW t \in State, s' = At(t)
  PROVE  Moved(t)
<1>1. PICK c \in BOOLEAN :
        s' = [s EXCEPT !.state = t, !.clarification = c]
        /\ (t \notin {"INTERPRETING", "EXECUTING"} => c = s.clarification)
  BY DEF At, Snapshots
<1>2. QED BY <1>1 DEF Moved, Snapshots

(* _transition enters the target with its evidence, or raises and leaves   *)
(* the log alone.                                                          *)
Entered(t, next) ==
  /\ UNCHANGED <<call, folder, effects, ending, kills, resumes>>
  /\ \/ s' = s /\ pc' = "raise"
     \/ Moved(t) /\ pc' = next /\ TransitionOk(s, t)

LEMMA EnterStep ==
  ASSUME s \in Snapshots, NEW t \in State, NEW next, Enter(t, next)
  PROVE  Entered(t, next)
BY AtMoves DEF Enter, Log, Goto, Entered

LEMMA Opening ==
  ASSUME PathInv, Run \/ Begin \/ Interpret \/ Branch
  PROVE  PathInv'
<1> USE DEF PathInv, TypeOK, PlaceInv, LogInv, KillInv, FileInv, NoWorkOnUnclear, FolderOnlyAuthored,
            CodePathHasPlan, EndedOrAsked, CompletedAnswers, Settled, HasQuestion, Terminal,
            Log, Goto
<1>1. CASE Run BY <1>1, ZenonT(40) DEF Run, Snapshots
<1>2. CASE Begin
  <2>1. s' = At("INTERPRETING") /\ pc' = "interpret"
        /\ UNCHANGED <<call, folder, effects, ending, kills, resumes>>
    BY <1>2 DEF Begin, Enter, TransitionOk, ALLOWED, Gate
  <2>2. Moved("INTERPRETING") BY <2>1, AtMoves DEF State
  <2>3. QED BY <1>2, <2>1, <2>2 DEF Begin, Moved
<1>3. CASE Interpret
  <2>1. PICK class \in Classes, clarity \in {"clear", "unclear"} :
          s' = [s EXCEPT !.class = class, !.contract = clarity]
    BY <1>3 DEF Interpret, Clarity
  <2>2. pc = "interpret" /\ pc' = "branch"
        /\ UNCHANGED <<call, folder, effects, ending, kills, resumes>>
    BY <1>3 DEF Interpret
  <2>3. s' \in Snapshots /\ s'.state = s.state /\ s'.requested = s.requested
        /\ s'.plan = s.plan /\ s'.answer = s.answer /\ s'.wrote = s.wrote
    BY <2>1 DEF Snapshots
  <2>4. QED BY <2>2, <2>3
<1>4. CASE Branch BY <1>4 DEF Branch
<1>5. QED BY <1>1, <1>2, <1>3, <1>4

LEMMA Planned ==
  ASSUME PathInv, AuthoringFormat \/ Planning \/ MakePlan \/ Executing
  PROVE  PathInv'
<1> USE DEF PathInv, TypeOK, PlaceInv, LogInv, KillInv, FileInv, NoWorkOnUnclear, FolderOnlyAuthored,
            CodePathHasPlan, EndedOrAsked, CompletedAnswers, Settled, HasQuestion, Terminal,
            Log, Goto
<1>1. CASE AuthoringFormat
  <2>1. s' = At("PLANNING") /\ TransitionOk(s, "PLANNING") BY <1>1 DEF AuthoringFormat
  <2>2. call' \in [format : Formats, content : BOOLEAN,
                   loop : {"none", "ok", "loop_risk", "failed"}]
    BY <1>1 DEF AuthoringFormat
  <2>3. Moved("PLANNING") BY <2>1, AtMoves DEF State
  <2>4. QED BY <1>1, <2>1, <2>2, <2>3 DEF AuthoringFormat, Moved, TransitionOk, Gate
<1>2. CASE Planning
  <2>1. Entered("PLANNING", "plan") BY <1>2, EnterStep DEF Planning, State
  <2>2. QED BY <1>2, <2>1 DEF Planning, Entered, Moved, TransitionOk, Gate
<1>3. CASE MakePlan BY <1>3 DEF MakePlan, Snapshots
<1>4. CASE Executing
  <2>1. Entered("EXECUTING", "work") BY <1>4, EnterStep DEF Executing, State
  <2>2. QED BY <1>4, <2>1 DEF Executing, Entered, Moved
<1>5. QED BY <1>1, <1>2, <1>3, <1>4

LEMMA Working ==
  ASSUME PathInv, Research \/ Analyse \/ Answer \/ Author \/ Tools
  PROVE  PathInv'
<1> USE DEF PathInv, TypeOK, PlaceInv, LogInv, KillInv, FileInv, NoWorkOnUnclear, FolderOnlyAuthored,
            CodePathHasPlan, EndedOrAsked, CompletedAnswers, Settled, HasQuestion, Terminal,
            Log, Goto, Work
<1>1. CASE Research BY <1>1 DEF Research
<1>2. CASE Analyse BY <1>2 DEF Analyse
<1>3. CASE Answer BY <1>3 DEF Answer
<1>4. CASE Author
  <2>1. call' \in [format : Formats, content : BOOLEAN,
                   loop : {"none", "ok", "loop_risk", "failed"}]
    BY <1>4 DEF Author, Formats
  <2>2. pc = "work" /\ s.class = "authoring" /\ pc' = "write"
        /\ effects' = effects \union {"asked"}
        /\ UNCHANGED <<s, folder, ending, kills, resumes>>
    BY <1>4 DEF Author
  <2>3. QED BY <2>1, <2>2
<1>5. CASE Tools BY <1>5 DEF Tools
<1>6. QED BY <1>1, <1>2, <1>3, <1>4, <1>5

(* ERROR and AUTHORING say of the document what became of it.              *)
LEMMA WroteChanges ==
  ASSUME s \in Snapshots, NEW w \in {"none", "named", "failed"}, s' = [s EXCEPT !.wrote = w]
  PROVE  /\ s' \in Snapshots /\ s'.state = s.state /\ s'.requested = s.requested
         /\ s'.class = s.class /\ s'.contract = s.contract /\ s'.plan = s.plan
         /\ s'.answer = s.answer /\ s'.wrote = w
BY DEF Snapshots

LEMMA Writing ==
  ASSUME PathInv, SkipWrite \/ OpenDocument \/ WriteDocument \/ WriteFails \/ Report
  PROVE  PathInv'
<1> USE DEF PathInv, TypeOK, PlaceInv, LogInv, KillInv, FileInv, NoWorkOnUnclear, FolderOnlyAuthored,
            CodePathHasPlan, EndedOrAsked, CompletedAnswers, Settled, HasQuestion, Terminal,
            Log, Goto
<1>1. CASE SkipWrite BY <1>1 DEF SkipWrite
<1>2. CASE OpenDocument BY <1>2 DEF OpenDocument
<1>3. CASE WriteDocument BY <1>3 DEF WriteDocument
<1>4. CASE WriteFails
  <2>1. s' = [s EXCEPT !.wrote = "failed"] BY <1>4 DEF WriteFails
  <2>2. QED BY <1>4, <2>1, WroteChanges DEF WriteFails
<1>5. CASE Report
  <2>1. s.wrote \in {"none", "named", "failed"} BY DEF Snapshots
  <2>2. PICK w \in {"none", "named", "failed"} :
          /\ s' = [s EXCEPT !.wrote = w]
          /\ w = IF folder = "document" THEN "named" ELSE s.wrote
    BY <1>5, <2>1 DEF Report
  <2>3. pc = "report" /\ pc' = "publish"
        /\ UNCHANGED <<call, folder, effects, ending, kills, resumes>>
    BY <1>5 DEF Report
  <2>4. QED BY <2>2, <2>3, WroteChanges
<1>6. QED BY <1>1, <1>2, <1>3, <1>4, <1>5

LEMMA Publishing ==
  ASSUME PathInv, Publish \/ Observe \/ AskLoop \/ PauseLoop \/ FailTools
  PROVE  PathInv'
<1> USE DEF PathInv, TypeOK, PlaceInv, LogInv, KillInv, FileInv, NoWorkOnUnclear, FolderOnlyAuthored,
            CodePathHasPlan, EndedOrAsked, CompletedAnswers, Settled, HasQuestion, Terminal,
            Log, Goto
<1>1. CASE Publish BY <1>1 DEF Publish, Snapshots
<1>2. CASE Observe
  <2>1. s' = [s EXCEPT !.observed = TRUE] BY <1>2 DEF Observe
  <2>2. Kept BY <2>1 DEF Kept, Snapshots
  <2>3. QED BY <1>2, <2>2 DEF Observe, Kept
<1>3. CASE AskLoop
  <2>1. s' = [s EXCEPT !.clarification = TRUE] BY <1>3 DEF AskLoop
  <2>2. Asked BY <2>1 DEF Asked, Snapshots
  <2>3. QED BY <1>3, <2>2 DEF AskLoop, Asked
<1>4. CASE PauseLoop
  <2>1. Entered("WAITING_FOR_USER", "finish") BY <1>4, EnterStep DEF PauseLoop, State
  <2>2. QED BY <1>4, <2>1 DEF PauseLoop, Entered, Moved, TransitionOk, Gate
<1>5. CASE FailTools
  <2>1. Entered("FAILED", "finish") BY <1>5, EnterStep DEF FailTools, State
  <2>2. QED BY <1>5, <2>1 DEF FailTools, Entered, Moved
<1>6. QED BY <1>1, <1>2, <1>3, <1>4, <1>5

LEMMA Settling ==
  ASSUME PathInv, Verifying \/ Verify \/ PauseEmpty \/ Complete \/ Finish \/ Raises \/ ForceFail
  PROVE  PathInv'
<1> USE DEF PathInv, TypeOK, PlaceInv, LogInv, KillInv, FileInv, NoWorkOnUnclear, FolderOnlyAuthored,
            CodePathHasPlan, EndedOrAsked, CompletedAnswers, Settled, HasQuestion, Terminal,
            Log, Goto
<1>1. CASE Verifying
  <2>1. Entered("VERIFYING", "verify") BY <1>1, EnterStep DEF Verifying, State
  <2>2. QED BY <1>1, <2>1 DEF Verifying, Entered, Moved
<1>2. CASE Verify BY <1>2 DEF Verify, Snapshots
<1>3. CASE PauseEmpty
  <2>1. Entered("WAITING_FOR_USER", "finish") BY <1>3, EnterStep DEF PauseEmpty, State
  <2>2. QED BY <1>3, <2>1 DEF PauseEmpty, Entered, Moved, TransitionOk, Gate
<1>4. CASE Complete
  <2>1. Entered("COMPLETED", "finish") BY <1>4, EnterStep DEF Complete, State
  <2>2. QED BY <1>4, <2>1 DEF Complete, Entered, Moved
<1>5. CASE Finish
  <2>1. PICK end \in State : s' = [s EXCEPT !.result = end]
    BY <1>5 DEF Finish, Snapshots, State
  <2>2. NoCall \in [format : Formats, content : BOOLEAN,
                    loop : {"none", "ok", "loop_risk", "failed"}]
    BY DEF NoCall, Formats
  <2>3. Kept BY <2>1 DEF Kept, Snapshots
  <2>4. QED BY <1>5, <2>2, <2>3 DEF Finish, Kept
<1>6. CASE Raises BY <1>6 DEF Raises
<1>7. CASE ForceFail
  <2>1. \/ Moved("FAILED") /\ pc' = "finishFailed"
        \/ s' = s /\ pc' = "finishFailed" /\ s.state \in Terminal
    BY <1>7, AtMoves DEF ForceFail, State, ALLOWED, Snapshots
  <2>2. UNCHANGED <<call, folder, effects, ending, kills, resumes>> BY <1>7 DEF ForceFail
  <2>3. QED BY <1>7, <2>1, <2>2 DEF ForceFail, Moved
<1>8. QED BY <1>1, <1>2, <1>3, <1>4, <1>5, <1>6, <1>7

LEMMA Resuming ==
  ASSUME PathInv, ResumeSettled \/ Reconcile \/ Repair \/ PauseRepair \/ Steer \/ CodePath \/ Kill
  PROVE  PathInv'
<1> USE DEF PathInv, TypeOK, PlaceInv, LogInv, KillInv, FileInv, NoWorkOnUnclear, FolderOnlyAuthored,
            CodePathHasPlan, EndedOrAsked, CompletedAnswers, Settled, HasQuestion, Terminal,
            Log, Goto, Resume
<1>1. CASE ResumeSettled
  <2>1. s' = s \/ \E end \in State : s' = [s EXCEPT !.result = end]
    BY <1>1 DEF ResumeSettled, Snapshots
  <2>2. Kept BY <2>1 DEF Kept, Snapshots
  <2>3. QED BY <1>1, <2>2 DEF ResumeSettled, Kept
<1>2. CASE Reconcile
  <2>1. s.plan \in {0, 1} /\ s.state \in State BY DEF Snapshots
  <2>2. s.plan = 0 \/ s.state \in {"PLANNING", "EXECUTING", "VERIFYING"}
    BY <1>2, <2>1 DEF Reconcile, State
  <2>3. QED BY <1>2, <2>1, <2>2 DEF Reconcile
<1>3. CASE Repair
  <2>1. s' = [s EXCEPT !.clarification = TRUE] BY <1>3 DEF Repair
  <2>2. Asked BY <2>1 DEF Asked, Snapshots
  <2>3. QED BY <1>3, <2>2 DEF Repair, Asked
<1>4. CASE PauseRepair
  <2>1. \/ Moved("WAITING_FOR_USER") /\ TransitionOk(s, "WAITING_FOR_USER")
           /\ pc' = "finish" /\ UNCHANGED ending
        \/ s' = s /\ pc' = "idle" /\ ending' = "raised"
    BY <1>4, AtMoves DEF PauseRepair, State
  <2>2. UNCHANGED <<call, folder, effects, kills, resumes>> BY <1>4 DEF PauseRepair
  <2>3. QED BY <1>4, <2>1, <2>2 DEF PauseRepair, Moved, TransitionOk, Gate
<1>5. CASE Steer
  <2>1. \/ s.state = "VERIFYING" /\ Entered("WAITING_FOR_USER", "finish")
        \/ s.state = "PLANNING" /\ Entered("EXECUTING", "code")
        \/ s.state = "EXECUTING" /\ s' = s /\ Goto("code")
    BY <1>5, EnterStep DEF Steer, State
  <2>2. QED BY <1>5, <2>1 DEF Steer, Entered, Moved, TransitionOk, Gate
<1>6. CASE CodePath
  <2>1. CASE s' = s /\ Goto("raise") BY <1>6, <2>1 DEF CodePath
  <2>2. CASE Log("finish", [At("WAITING_FOR_USER") EXCEPT !.clarification = TRUE])
    <3>1. PICK a : a = At("WAITING_FOR_USER") OBVIOUS
    <3>2. s' = [a EXCEPT !.clarification = TRUE] BY <2>2, <3>1
    <3>3. a \in Snapshots /\ a.state = "WAITING_FOR_USER" /\ a.requested = s.requested
          /\ a.class = s.class /\ a.contract = s.contract /\ a.plan = s.plan
          /\ a.answer = s.answer /\ a.wrote = s.wrote
      BY <3>1, ZenonT(40) DEF At, Snapshots, State
    <3>4. s' \in Snapshots /\ s'.state = "WAITING_FOR_USER" /\ s'.clarification /\ s'.requested = s.requested
          /\ s'.class = s.class /\ s'.contract = s.contract /\ s'.plan = s.plan
          /\ s'.answer = s.answer /\ s'.wrote = s.wrote
      BY <3>2, <3>3 DEF Snapshots
    <3>5. QED BY <1>6, <2>2, <3>4 DEF CodePath
  <2>3. CASE Log("finish", [At("FAILED") EXCEPT !.observed = TRUE, !.verdict = "fail"])
    <3>1. PICK a : a = At("FAILED") OBVIOUS
    <3>2. s' = [a EXCEPT !.observed = TRUE, !.verdict = "fail"] BY <2>3, <3>1
    <3>3. a \in Snapshots /\ a.state = "FAILED" /\ a.requested = s.requested
          /\ a.class = s.class /\ a.contract = s.contract /\ a.plan = s.plan
          /\ a.answer = s.answer /\ a.wrote = s.wrote
      BY <3>1, ZenonT(40) DEF At, Snapshots, State
    <3>4. s' \in Snapshots /\ s'.state = "FAILED" /\ s'.requested = s.requested
          /\ s'.class = s.class /\ s'.contract = s.contract /\ s'.plan = s.plan
          /\ s'.answer = s.answer /\ s'.wrote = s.wrote
      BY <3>2, <3>3, ZenonT(40) DEF Snapshots
    <3>5. QED BY <1>6, <2>3, <3>4 DEF CodePath
  <2>4. CASE /\ s.class # "research_web"
             /\ Log("finish", [At("COMPLETED") EXCEPT !.observed = TRUE, !.verdict = "pass",
                                                      !.answer = "diff"])
    <3>1. PICK a : a = At("COMPLETED") OBVIOUS
    <3>2. s' = [a EXCEPT !.observed = TRUE, !.verdict = "pass", !.answer = "diff"]
      BY <2>4, <3>1
    <3>3. a \in Snapshots /\ a.state = "COMPLETED" /\ a.requested = s.requested
          /\ a.class = s.class /\ a.contract = s.contract /\ a.plan = s.plan
          /\ a.wrote = s.wrote
      BY <3>1, ZenonT(40) DEF At, Snapshots, State
    <3>4. s' \in Snapshots /\ s'.state = "COMPLETED" /\ s'.requested = s.requested
          /\ s'.class = s.class /\ s'.contract = s.contract /\ s'.plan = s.plan
          /\ s'.answer = "diff" /\ s'.wrote = s.wrote
      BY <3>2, <3>3, ZenonT(40) DEF Snapshots
    <3>5. QED BY <1>6, <2>4, <3>4 DEF CodePath
  <2>5. QED BY <1>6, <2>1, <2>2, <2>3, <2>4 DEF CodePath
<1>7. CASE Kill BY <1>7, BoundsAssumption DEF Kill, NoCall, Formats
<1>8. QED BY <1>1, <1>2, <1>3, <1>4, <1>5, <1>6, <1>7

LEMMA PathInit == Init => PathInv
BY BoundsAssumption
   DEF Init, PathInv, TypeOK, PlaceInv, LogInv, KillInv, FileInv, NoWorkOnUnclear, FolderOnlyAuthored,
       CodePathHasPlan, EndedOrAsked, CompletedAnswers, Settled, HasQuestion, Terminal,
       Snapshots, State, NoCall, Formats

LEMMA PathStep == PathInv /\ [Next]_vars => PathInv'
<1> SUFFICES ASSUME PathInv, [Next]_vars PROVE PathInv' OBVIOUS
<1>1. CASE Next
  BY <1>1, Opening, Planned, Working, Writing, Publishing, Settling, Resuming DEF Next
<1>2. CASE UNCHANGED vars
  BY <1>2 DEF vars, PathInv, TypeOK, PlaceInv, LogInv, KillInv, FileInv, NoWorkOnUnclear,
       FolderOnlyAuthored, CodePathHasPlan, EndedOrAsked, CompletedAnswers, Settled, HasQuestion
<1>3. QED BY <1>1, <1>2

(* Types, places and evidence agree on every path: no work on an unclear   *)
(* contract, nothing but documents in the user's folder, and the code path *)
(* only for a killed task with a plan.                                     *)
THEOREM PathInvariance == Spec => []PathInv
<1>1. QED BY PathInit, PathStep, PTL DEF Spec

(* A call that returns leaves its task ended, or waiting with a question.  *)
THEOREM DeliverablesSettle == Spec => []EndedOrAsked
<1>1. PathInv => EndedOrAsked BY DEF PathInv
<1>2. QED BY <1>1, PathInvariance, PTL

(* A document named on the log is there whole; and, unless a kill fell in  *)
(* between, a whole one is named on the log of its ended task, and one     *)
(* that broke off is in its ERROR, or the task failed.                     *)
THEOREM FilesAreReported == Spec => []FileIsReported
<1>1. PathInv => FileIsReported
  BY DEF PathInv, FileInv, PlaceInv, FileIsReported, Terminal
<1>2. QED BY <1>1, PathInvariance, PTL

(* A completed task gives the answer its path was asked for, or, after a   *)
(* kill and never for research, a Builder's diff.                          *)
THEOREM CompletedTasksAnswer == Spec => []CompletedAnswers
<1>1. PathInv => CompletedAnswers BY DEF PathInv
<1>2. QED BY <1>1, PathInvariance, PTL
=============================================================================
