---------------------------- MODULE Deliverables ----------------------------
(***************************************************************************)
(* The deliverable paths of the orchestrator: tasks whose result is an     *)
(* answer or a document rather than a diff (research_web, doc_analysis,    *)
(* authoring, ops, qa_explain).  _drive branches into them right after the *)
(* contract, each walks the same lifecycle with one made-up plan step, and *)
(* every append to the log commits on its own, so a kill may fall between  *)
(* any two.  resume() knows nothing of these paths: it continues whatever  *)
(* it finds as a code-editing task.                                        *)
(***************************************************************************)
EXTENDS StateMachine

CONSTANTS MaxKills, MaxResumes   \* bounds on kills and on resume() calls
ASSUME BoundsAssumption == MaxKills \in Nat /\ MaxResumes \in Nat

VARIABLES
  pc,       \* where the call is; "idle" when none is in progress
  s,        \* what the log says of the task (a snapshot of StateMachine)
  call,     \* locals of the call: format asked for, sections written, the loop's end
  folder,   \* the user's own folder: "untouched", or what was put there
  effects,  \* history: work done for the task that is not on the log
  ending,   \* how the last call ended: "none", "returned", "raised", "killed"
  kills, resumes
vars == <<pc, s, call, folder, effects, ending, kills, resumes>>

Classes == {"research_web", "doc_analysis", "authoring", "ops", "qa_explain"}
CodeClasses == {"code_edit_local", "code_edit_broad", "debug"}
TaskClasses == Classes \union CodeClasses \union {"planning_arch"}
Formats == {"md", "html", "docx", "pptx", "pdf"}
NoCall == [format |-> "md", content |-> TRUE, loop |-> "none"]

Init ==
  /\ pc = "idle"
  /\ s = [requested |-> FALSE, class |-> "none", state |-> "CREATED", contract |-> "none",
          plan |-> 0, observed |-> FALSE, verdict |-> "none", pending |-> NoStep,
          clarification |-> FALSE, answer |-> "none", wrote |-> "none", result |-> "none"]
  /\ call = NoCall /\ folder = "untouched" /\ effects = {}
  /\ ending = "none" /\ kills = 0 /\ resumes = 0

Goto(next) == pc' = next /\ UNCHANGED <<call, folder, effects, ending, kills, resumes>>
Log(next, event) == s' = event /\ Goto(next)
At(state) == [s EXCEPT !.state = state,
                       !.clarification = @ /\ state \notin {"INTERPRETING", "EXECUTING"}]
\* _transition: the STATE event, or a TransitionError
Enter(target, next) ==
  IF TransitionOk(s, target) THEN Log(next, At(target)) ELSE s' = s /\ Goto("raise")

-----------------------------------------------------------------------------
(* run(), up to the branch                                                 *)

Run == pc = "idle" /\ ~s.requested /\ s' = [s EXCEPT !.requested = TRUE]
       /\ pc' = "begin" /\ UNCHANGED <<call, folder, effects, ending, kills, resumes>>
Begin == pc = "begin" /\ Enter("INTERPRETING", "interpret")

(* The class the model proposes, corrected: a plain question is answered,  *)
(* a request for a document is authored, an unknown class is a code edit.  *)
FinalClass(proposed, question, document) ==
  LET class == IF proposed \in TaskClasses THEN proposed ELSE "code_edit_local" IN
  CASE class \in CodeClasses \union {"ops"} /\ question -> "qa_explain"
    [] class \in CodeClasses \union {"ops"} /\ ~question /\ document -> "authoring"
    [] OTHER -> class

(* A contract without an objective is a problem in any class; ambiguity is *)
(* folded into the assumptions of the classes that answer, `ops` keeps it. *)
Clarity(class, objective, ambiguous) ==
  IF ~objective \/ (class = "ops" /\ ambiguous) THEN "unclear" ELSE "clear"

(* compile(), for the classes with a path of their own.                    *)
Interpret ==
  /\ pc = "interpret"
  /\ \E proposed \in TaskClasses \union {"unknown"}, question, document, objective, ambiguous \in BOOLEAN :
       LET class == FinalClass(proposed, question, document) IN
       /\ class \in Classes
       /\ Log("branch", [s EXCEPT !.class = class, !.contract = Clarity(class, objective, ambiguous)])

(* The branches come before the question whether the contract is clear;    *)
(* qa_explain asks the model before it plans and never fails on it.        *)
Branch ==
  /\ pc = "branch"
  /\ \/ s' = s /\ Goto("planning")
     \/ /\ s.class = "qa_explain"
        /\ effects' = effects \union {"asked"} /\ pc' = "planning"
        /\ UNCHANGED <<s, call, folder, ending, kills, resumes>>

(* The first words of a format found in the brief decide; a renderer that  *)
(* cannot be made falls back to markdown.                                  *)
AuthoringFormat ==
  /\ pc = "planning" /\ s.class = "authoring" /\ TransitionOk(s, "PLANNING")
  /\ \E format \in Formats : call' = [call EXCEPT !.format = format]
  /\ s' = At("PLANNING") /\ pc' = "plan"
  /\ UNCHANGED <<folder, effects, ending, kills, resumes>>
\* the STATE event is appended without asking the gate
PlanningUngated ==
  /\ pc = "planning" /\ Log("plan", At("PLANNING"))
Planning ==
  /\ pc = "planning" /\ (s.class = "authoring" => ~TransitionOk(s, "PLANNING"))
  /\ Enter("PLANNING", "plan")
MakePlan == pc = "plan" /\ Log("executing", [s EXCEPT !.plan = 1])
Executing == pc = "executing" /\ Enter("EXECUTING", "work")

-----------------------------------------------------------------------------
(* The work of each path.                                                  *)

Work(class, next, done) ==
  /\ pc = "work" /\ s.class = class /\ pc' = next
  /\ effects' = effects \union done
  /\ UNCHANGED <<s, folder, ending, kills, resumes>>

Research == Work("research_web", "publish", {"fetched"}) /\ UNCHANGED call
Analyse == Work("doc_analysis", "publish", {"asked"}) /\ UNCHANGED call
Answer == Work("qa_explain", "publish", {}) /\ UNCHANGED call

(* outline, draft, review, render: an unavailable renderer is replaced by  *)
(* the markdown one and the whole pipeline run again.                      *)
Author ==
  \E content \in BOOLEAN, format \in {call.format, "md"} :
    /\ Work("authoring", "write", {"asked"})
    /\ call' = [call EXCEPT !.content = content, !.format = format]

\* the tool loop is handed the user's folder itself
ToolsInPlace ==
  /\ pc = "work" /\ s.class = "ops" /\ pc' = "publish"
  /\ \E loop \in {"ok", "loop_risk", "failed"} : call' = [call EXCEPT !.loop = loop]
  /\ effects' = effects \union {"tools"}
  /\ folder' \in {"untouched", "edited"}
  /\ UNCHANGED <<s, ending, kills, resumes>>
(* ToolLoop on a copy of the workspace, which is thrown away.              *)
Tools ==
  \E loop \in {"ok", "loop_risk", "failed"} :
    Work("ops", "publish", {"tools"}) /\ call' = [call EXCEPT !.loop = loop]

(* The rendered file goes straight into the user's folder, if it is one:   *)
(* opened, which empties it, then written.                                 *)
SkipWrite == pc = "write" /\ s' = s /\ Goto("report")
OpenDocument ==
  /\ pc = "write" /\ pc' = "writing" /\ folder' = "partial"
  /\ UNCHANGED <<s, call, effects, ending, kills, resumes>>
WriteDocument ==
  /\ pc = "writing" /\ pc' = "report" /\ folder' = "document"
  /\ UNCHANGED <<s, call, effects, ending, kills, resumes>>
(* An OSError is logged with the file's name, and what the file has got    *)
(* stays; any other exception is among those of Raises.                    *)
WriteFails ==
  /\ pc \in {"write", "writing"} /\ Log("report", [s EXCEPT !.wrote = "failed"])

\* the file is reported with the result only
ReportLate ==
  /\ pc = "report" /\ s' = s /\ Goto("publish")
\* AUTHORING names the file, before anything else that may raise
Report ==
  /\ pc = "report"
  /\ Log("publish", [s EXCEPT !.wrote = IF folder = "document" THEN "named" ELSE @])

-----------------------------------------------------------------------------
(* SYNTHESIS, ARTIFACT, OBSERVATION, VERIFICATION, RESULT                  *)

Publish == pc = "publish" /\ Log("observe", [s EXCEPT !.answer = "own"])
Observe ==
  /\ pc = "observe"
  /\ Log(IF call.loop = "loop_risk" THEN "askLoop"
         ELSE IF call.loop = "failed" THEN "failTools" ELSE "verifying",
         [s EXCEPT !.observed = TRUE])

\* a tool loop that repeats itself is put to the user
AskLoop == pc = "askLoop" /\ Log("pauseLoop", [s EXCEPT !.clarification = TRUE])
PauseLoop == pc = "pauseLoop" /\ Enter("WAITING_FOR_USER", "finish")
FailTools == pc = "failTools" /\ Enter("FAILED", "finish")

Verifying == pc = "verifying" /\ Enter("VERIFYING", "verify")
\* a record that says neither pass nor fail
VerifyInconclusive ==
  /\ pc = "verify"
  /\ LET empty == s.class = "authoring" /\ ~call.content IN
     Log(IF empty THEN "pauseEmpty" ELSE "complete",
         [s EXCEPT !.verdict = IF empty THEN "inconclusive" ELSE "pass"])
(* There is no oracle: reaching this point passes, save for a document     *)
(* without content.                                                        *)
Verify ==
  /\ pc = "verify"
  /\ LET empty == s.class = "authoring" /\ ~call.content IN
     Log(IF empty THEN "pauseEmpty" ELSE "complete",
         [s EXCEPT !.verdict = IF empty THEN "fail" ELSE "pass"])
\* the pause the code means to take, though nothing was asked
PauseEmptyUngated == pc = "pauseEmpty" /\ Log("finish", At("WAITING_FOR_USER"))
(* No CLARIFICATION is logged: the gate refuses, and the task fails.       *)
PauseEmpty == pc = "pauseEmpty" /\ Enter("WAITING_FOR_USER", "finish")
Complete == pc = "complete" /\ Enter("COMPLETED", "finish")

Finish ==
  /\ pc \in {"finish", "finishFailed"}
  /\ s' = [s EXCEPT !.result = IF pc = "finish" THEN s.state ELSE "FAILED"]
  /\ pc' = "idle" /\ call' = NoCall /\ ending' = "returned"
  /\ UNCHANGED <<folder, effects, kills, resumes>>

(* The interpreter, a pipeline, a tool, the store, or a Stop may raise.    *)
Raises ==
  pc \in {"interpret", "branch", "work", "write", "writing", "publish"} /\ s' = s /\ Goto("raise")
ForceFail ==
  /\ pc = "raise"
  /\ IF s.state \notin Terminal /\ "FAILED" \in ALLOWED[s.state]
     THEN Log("finishFailed", At("FAILED")) ELSE s' = s /\ Goto("finishFailed")

-----------------------------------------------------------------------------
(* resume() of a deliverable: what the code path makes of it.              *)

Resume(next) ==
  /\ pc = "idle" /\ s.requested /\ resumes < MaxResumes /\ pc' = next
  /\ resumes' = resumes + 1 /\ UNCHANGED <<call, folder, effects, kills>>

(* Terminal: the RESULT on the log.  WAITING_FOR_USER: asked again.        *)
ResumeSettled ==
  /\ s.state \in Terminal \union {"WAITING_FOR_USER"} /\ Resume("idle")
  /\ s' = IF s.state \in Terminal THEN s ELSE [s EXCEPT !.result = s.state]
  /\ ending' = "returned"

\* a plan is not looked for: the objective alone is enough to go on
ReconcileByContract ==
  /\ s.state \notin Terminal \union {"WAITING_FOR_USER"}
  /\ Resume(IF s.contract = "none" THEN "repair" ELSE "steer")
  /\ s' = s /\ ending' = "none"
Reconcile ==
  /\ s.state \notin Terminal \union {"WAITING_FOR_USER"}
  /\ Resume(IF s.contract = "none" \/ s.plan = 0 THEN "repair" ELSE "steer")
  /\ s' = s /\ ending' = "none"

Repair == pc = "repair" /\ Log("pauseRepair", [s EXCEPT !.clarification = TRUE])
PauseRepair ==
  /\ pc = "pauseRepair"
  /\ IF TransitionOk(s, "WAITING_FOR_USER") THEN Log("finish", At("WAITING_FOR_USER"))
     ELSE /\ s' = s /\ pc' = "idle" /\ ending' = "raised"
          /\ UNCHANGED <<call, folder, effects, kills, resumes>>

(* A task of the deliverable paths is never STALLED or RECOVERING.  One    *)
(* being verified has no question to ask: the transition is refused.       *)
Steer ==
  /\ pc = "steer"
  /\ CASE s.state = "VERIFYING" -> Enter("WAITING_FOR_USER", "finish")
       [] s.state = "PLANNING" -> Enter("EXECUTING", "code")
       [] OTHER -> s' = s /\ Goto("code")

\* the plan of a research task is let through
CodePathAnyHost ==
  /\ pc = "code"
  /\ Log("finish", [At("COMPLETED") EXCEPT !.observed = TRUE, !.verdict = "pass",
                                            !.answer = "diff"])
(* _execute_verify_settle with the plan found on the log, in one step (the *)
(* module Orchestrator has its own).  No grant allows a host, so the step  *)
(* of a research plan is denied; any other is handed to the Builder.       *)
CodePath ==
  /\ pc = "code"
  /\ \/ s' = s /\ Goto("raise")
     \/ /\ s.class # "research_web"
        /\ \/ Log("finish", [At("WAITING_FOR_USER") EXCEPT !.clarification = TRUE])
           \/ Log("finish", [At("FAILED") EXCEPT !.observed = TRUE, !.verdict = "fail"])
           \/ Log("finish", [At("COMPLETED") EXCEPT !.observed = TRUE, !.verdict = "pass",
                                                     !.answer = "diff"])

Kill ==
  /\ pc # "idle" /\ kills < MaxKills
  /\ pc' = "idle" /\ call' = NoCall /\ ending' = "killed" /\ kills' = kills + 1
  /\ UNCHANGED <<s, folder, effects, resumes>>

Next ==
  \/ Run \/ Begin \/ Interpret \/ Branch \/ AuthoringFormat \/ Planning \/ MakePlan \/ Executing
  \/ Research \/ Analyse \/ Answer \/ Author \/ Tools
  \/ SkipWrite \/ OpenDocument \/ WriteDocument \/ WriteFails \/ Report
  \/ Publish \/ Observe \/ AskLoop \/ PauseLoop \/ FailTools
  \/ Verifying \/ Verify \/ PauseEmpty \/ Complete \/ Finish \/ Raises \/ ForceFail
  \/ ResumeSettled \/ Reconcile \/ Repair \/ PauseRepair \/ Steer \/ CodePath \/ Kill
Spec == Init /\ [][Next]_vars

-----------------------------------------------------------------------------
Snapshots ==
  [requested: BOOLEAN, class: Classes \union {"none"}, state: State,
   contract: {"none", "clear", "unclear"}, plan: {0, 1}, observed: BOOLEAN,
   verdict: {"none", "pass", "fail"}, pending: {NoStep}, clarification: BOOLEAN,
   answer: {"none", "own", "diff"}, wrote: {"none", "named", "failed"}, result: State \union {"none"}]

TypeOK ==
  /\ s \in Snapshots
  /\ call \in [format : Formats, content : BOOLEAN,
               loop : {"none", "ok", "loop_risk", "failed"}]
  /\ folder \in {"untouched", "partial", "document"} /\ effects \subseteq {"asked", "fetched", "tools"}
  /\ ending \in {"none", "returned", "raised", "killed"} /\ kills \in 0..MaxKills

(* Every call that returns leaves the task ended, or waiting with a        *)
(* question on the log that explains the wait.                             *)
Settled == s.state \in Terminal \/ (s.state = "WAITING_FOR_USER" /\ HasQuestion(s))
EndedOrAsked == ending = "returned" /\ pc = "idle" => Settled

(* The branches run before the check for ambiguity, yet nothing is fetched,*)
(* no tool run and no file written for a contract that is not clear.       *)
NoWorkOnUnclear == s.contract # "clear" => effects \subseteq {"asked"} /\ folder = "untouched"

(* Only a document reaches the user's folder outside apply-back; what the  *)
(* tools of an ops task change is thrown away with its copy.               *)
FolderOnlyAuthored == folder # "untouched" => s.class = "authoring" /\ folder \in {"partial", "document"}

(* The log never names a document that is not there whole.  However a task *)
(* ends, a whole one put into the user's folder is named on its log, and a *)
(* broken one is either in its ERROR or the task failed; unless a kill     *)
(* fell between file and log.                                              *)
FileIsReported ==
  /\ s.wrote = "named" => folder = "document"
  /\ s.state \in Terminal /\ kills = 0 =>
       /\ folder = "document" => s.wrote = "named"
       /\ folder = "partial" => s.wrote = "failed" \/ s.state = "FAILED"

(* A completed task gives the answer its path was asked for; only a killed *)
(* one may be completed by a Builder's diff, and never a research task.    *)
CompletedAnswers ==
  s.state = "COMPLETED" =>
    s.answer = "own" \/ (s.answer = "diff" /\ kills > 0 /\ s.class # "research_web")

(* A task that was not interrupted is never restarted as a code task, and  *)
(* an interrupted one only with a plan of its own on the log.              *)
CodePathHasPlan == pc = "code" => kills > 0 /\ s.plan = 1

-----------------------------------------------------------------------------
(* The inductive invariant, proved in DeliverablesProofs.                  *)

\* at each place of a call: what the log says of the task
PlaceInv ==
  /\ pc = "begin" => s.state = "CREATED"
  /\ pc \in {"begin", "interpret"} => s.contract = "none"
  /\ pc \in {"interpret", "branch", "planning"} => s.state = "INTERPRETING"
  /\ pc \in {"plan", "executing"} => s.state = "PLANNING"
  /\ pc \in {"work", "write", "writing", "report", "publish", "observe", "askLoop", "pauseLoop",
            "failTools", "verifying", "code"} => s.state = "EXECUTING"
  /\ pc \in {"verify", "pauseEmpty", "complete"} => s.state = "VERIFYING"
  /\ pc = "steer" => s.state \in {"PLANNING", "EXECUTING", "VERIFYING"}
  /\ pc = "finish" => Settled
  /\ pc = "finishFailed" => s.state \in Terminal
  /\ pc = "raise" => s.state # "CREATED"
  /\ pc \in {"write", "writing", "report"} => s.class = "authoring"
  /\ pc \in {"observe", "verifying", "verify", "complete"} => s.answer = "own"
  /\ pc \in {"executing", "steer", "code"} => s.plan = 1

\* what a state of the task tells of the rest of its log
LogInv ==
  /\ ~s.requested => pc = "idle" /\ s.state = "CREATED" /\ s.contract = "none"
  /\ s.state \notin {"STALLED", "RECOVERING"}
  /\ s.state = "WAITING_FOR_USER" => HasQuestion(s)
  /\ s.state \in {"CREATED", "INTERPRETING"} => s.plan = 0
  /\ s.state \in {"PLANNING", "EXECUTING", "VERIFYING", "COMPLETED"} => s.contract = "clear"

\* only a killed task is found in the middle of its work
KillInv ==
  /\ pc = "idle" /\ s.requested => Settled \/ kills > 0
  /\ pc \in {"repair", "pauseRepair", "steer", "code"} => kills > 0

\* the document: what the folder holds and what the log says of it
FileInv ==
  /\ \/ ~s.requested
     \/ pc \in {"begin", "interpret", "branch", "planning", "plan", "executing", "work", "write"}
     => folder = "untouched" /\ s.wrote = "none"
  /\ pc = "writing" => folder = "partial" /\ s.wrote = "none"
  /\ s.wrote = "named" => folder = "document"
  /\ kills = 0 =>
       /\ folder = "document" => s.wrote = "named" \/ pc = "report"
       /\ folder = "partial" =>
            \/ s.wrote = "failed" \/ pc = "writing" \/ s.state = "FAILED"
            \/ pc = "raise" /\ s.state = "EXECUTING"

\* What holds on every path: no work on an unclear contract, only documents in
\* the folder, no code path without kill and plan, and what these rest on.
PathInv ==
  /\ TypeOK /\ PlaceInv /\ LogInv /\ KillInv /\ FileInv
  /\ NoWorkOnUnclear /\ FolderOnlyAuthored /\ CodePathHasPlan
  /\ EndedOrAsked /\ CompletedAnswers
=============================================================================
