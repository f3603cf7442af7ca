# A TLA+ model of the NEXUS task control plane

This directory specifies, model-checks and proves properties of the control
plane under `nexus/app`: the code that takes a request, compiles it to a
contract, plans it, has it carried out in throwaway copies of the workspace,
verifies the result, records every step in an append-only event log from which
an interrupted task is resumed, and learns from the outcome which model and which
strategy to use next time.

Check a model with `tlc -config <cfg> <module>` (section 4 names the pairs) and a
proof with `tlapm <module>` for the modules that end in `Proofs`.

## 1. Inventory

| Component | State it keeps | Operations | Interacts through |
|---|---|---|---|
| Task state machine, `core/state.py` | none (pure) | `gate_reason`, `transition_ok` | evaluated on a projected snapshot |
| Event log and projection, `events/` | the log (SQLite or Postgres, one commit per append) | `append`, `read`, `project_task` | every other component appends; the fold is the only way state is read |
| Orchestrator, `orchestration/orchestrator.py` | only call-stack locals; all that survives is on the log | `run`, `resume`; inside them interpret, clarify, plan, execute, verify, second opinions, settle, and one path per kind of deliverable | calls every service; may be killed at any append |
| Restart reconciliation, `services/recovery/` | none (folds) | `reconcile`, `build_checkpoint`, `completed_idempotency_keys` | called by `resume` |
| Apply-back, `services/build/apply.py` | the user's workspace | `apply_task_result` | reads the log, patches the folder |
| Builders, `services/build/` | a copy of the workspace; the local Builder: one loop's counters | `execute` | called per step; may fail or raise |
| Verifiers, `services/verify/`, `agents/disagreement.py` | none | T0, T2, `resolve` | T0 is authoritative, T2 advisory |
| Policy, capability, taint | grants | `decide`, `issue_grant` | ALLOW, REQUIRE_APPROVAL or DENY per step, per changed file and per tool call |
| Tool loop and adapters, `services/tools/` | one transcript and one loop detector | `run`, `dispatch`, `invoke` | policy-gated operations, MCP and network transports |
| Escalation ladder, progress, loop detection, budget | counters of one `_execute` call | `advance`, `observe`, `record`, `over_hard` | polled in the step loop |
| Research and evidence graph | the graph of one task | `run`, `crosscheck`, `resolve`, `synthesize` | the researcher and the model |
| Knowledge base and attachments | documents and chunks (SQLite), the session's folder | `save_attachments`, `ingest_text`, `search` | upload threads, the run thread |
| Routing, selection, hardware | statistics, weights, frozen set, canaries | `route`, `promote`, `demote`, `freeze`, `_after_outcome` | a route per task; a rung of the ladder; all tasks share it |
| Experience memory and canaries | experience records, controllers | `capture`, `advise`, `record_use`, `advance`, `sweep_stale`, `record` | before a plan, after a completion, and on a contradicted pass |
| Desktop runner, `ui/runner.py`, `runtime_cancel.py` | `_state`, the Stop flag | submit, Stop, `_do_run` | request threads and one run thread share both |
| Event feed, read models, server, `ui/` | a cursor | `poll`, views | tails the log |
| Artifact store | blobs, versions | `put`, `latest_for`, `archive_before` | written at each artifact |
| Interpreter, planner, authoring, LLM clients, sandbox, egress, secrets, repository intelligence | little or none | text in, text out | their answers are inputs of the above |

What makes this code hard: a *kill* can fall between any two appends, so each
order of appends is a protocol (a question before the pause it explains, the
decision before the state that follows it, a file before the artifact that names
it); *retries nest* (a critic retry and a fallback retry call the same function
recursively, each passing the other's counter and the last diff on); *second
opinions* may ask but not decide; *re-plans* change which plan a step, an
approval or an observation belongs to; what is verified is a local string while
what is delivered is read back from the log; *loops* driven by a model's replies
end by counters that several kinds of reply reset; and *shared stores* (routes,
statistics, experiences, documents, the Stop flag) are read by one task and
written by another.

Per component, what makes it correct:

- Orchestrator: only the diff T0 passed is delivered; no step gets through a
  gate without the approval of that step; ended tasks stay as they ended; every
  call ends with the task ended or waiting for its user with something to ask; a
  document that reached the user's folder is on the log, and no broken one is
  announced.
- Reconciliation: an interrupted task goes on by itself only when no external
  effect is in doubt.
- Execution loop: re-plans, rounds and turns are bounded.
- Tool loop: no effect that policy did not allow and the caller did not opt into;
  futile repetition is cut, progress is not; an expired grant ends the run.
- Research: every claim has a source; open contradictions are reported.
- Library: one text per name, one name per text; a task is grounded on what was
  attached; no document is lost to a failure.
- Routing: no task goes back to a provider it was taken from; a challenger is
  rolled back on evidence; what is told of the selection is stored, but for a write
  that is under way or was cut off.
- Experience memory: nothing retired is offered again; nothing is promoted that
  did not earn it; enough failures in a row retire.
- Desktop runner: one run at a time; a Stop reaches the run it was meant for.
- Artifact store: every version's parent is an earlier version of its key.
- Event feed: every event is delivered once, in order.

## 2. Plan

| Order | Modules | Status |
|---|---|---|
| 1 | `StateMachine`; `Orchestrator` (code-editing path, approvals, restart, apply-back); `VerifiedDelivery` (its promise); `OrchestratorInvariant`; `OrchestratorProofs`; `MCOrchestrator` | done |
| 2 | `DesktopRunner`: request threads, run thread, Stop flag; `CancellableRun` (its promise); `DesktopRunnerProofs` | done |
| 3 | `Deliverables`: research, question, document, authoring and tool paths over `StateMachine`; `DeliverablesProofs` | done |
| 4 | `LocalBuilder`, the loop behind `Build`; `BuilderProofs` | done |
| 5 | `Policy`, `LoopDetector`, `ToolLoop` (composes both); `ToolLoopProofs`; `MCToolLoop` | done |
| 6 | `Routing`, `Experience`: learning shared by tasks; `Research`; `Library` | done |
| 7 | `LibraryProofs`, `ResearchProofs`, `ExperienceProofs`; the properties of `Orchestrator` about questions, passes, interrupted steps and re-plans; the risk flags of `ToolLoop` | done |
| 8 | `Routing` in `BuilderProofs` | done |
| 9 | `ArtifactStore` with a second connection; the event feed as an exactly-once tail | later |

## 3. The models

`StateMachine` translates `core/state.py`: the states, the table `ALLOWED`, and
`Gate`, the evidence a target state demands of a snapshot.

Definitions described as a wrong version ("the age of a grant is not looked at
again", and comments that start with "Fault:") are plausible bugs next to the
definition they vary; no specification uses them. They show that each property
can fail.

### The code-editing task

`Orchestrator` is one code-editing task. The event log itself is not a variable.
What the code reads back from it is: `snap` is the `TaskSnapshot` of
`project_task`, `book` the part `reconcile` and `apply_task_result` fold
(proposals, observations, the last non-empty artifact). Each action that stands
for an append updates them by one event, as the folds do (`OnState`,
`OnDecision`); so between any two actions the state is exactly what a process
started there would project. `pc` and `frame` are the call stack of a running
`run` or `resume`: `Crash` clears them and leaves the log. Nested calls of
`_execute_verify_settle` are tail calls apart from restoring `self.builder`, so
one frame suffices: `NextRound` builds the callee's frame from the caller's.

Abstractions, all of data: a contract is clear or unclear; a diff is a model
value; a step is a pair <<plan, index>> because step ids are minted per plan; a
Builder returns any diff with a clean or a failed exit, or raises; T0 may pass
any non-empty diff; the plan-level policy decision is a function of the step
(constants `Sensitive` and `Refused`), and the per-file decision depends on the
diff and is a choice. Events that no fold reads (messages, model runs, progress)
are left out, and with them the kill points between two of them, which no reader
can tell apart. `CallRaises` is any exception of a call out of the orchestrator,
a Stop included.

Three outcomes the code may not expect are part of the model because they are
what it does: `Again` raises for a build retry (the handler reads an unbound
local), `ReconcilePause` may let an exception out of `resume`, and `Steer`
enters WAITING_FOR_USER before there is a question. The guard of `Steer`'s arm
for INTERPRETING is never true, since a plan is logged in PLANNING only; the arm
is kept because the code has it. `hist` holds history variables for properties
only; no guard reads it.

`VerifiedDelivery` is the promise: a task works on a candidate diff, a check
accepts the candidate or nothing, the task completes only with its candidate
accepted, and only the accepted diff of a completed task is delivered.
`Orchestrator!ImplementsDelivery` is its refinement, with `Phase` and `Accepted`
as mapping. `OrchestratorInvariant` is the inductive invariant `IInv`: `DriveInv`
is what one drive needs between two events, the rest (`InflightInv`, `RestartInv`,
`KillInv`, `QuestionInv`, `PassInv`, `LadderInv`) what a later call finds on the log.

### The deliverable paths

`Deliverables` is one task of a class whose result is an answer or a document.
`Branch` sends it to `Research`, `Analyse`, `Answer`, `Author` or `Tools`; all
then walk the same lifecycle with one made-up plan step, and every append is an
action. `folder` is the user's own folder, which only the authoring path writes,
and writes before the ARTIFACT event that names the file. `resume()` knows nothing
of these paths: it continues what it finds as a code task, `CodePath`, which
stands in one step for what `Orchestrator` spells out. What the research, the
document search and the tool loop do inside is in `Research` and `ToolLoop`.
A document is opened, which truncates the file, and then written (`OpenDocument`,
`WriteDocument`). An OSError leaves what got there and is logged with the name of
the file (`WriteFails`); AUTHORING then names none. Any other exception leaves it too
and is one of `Raises`.

### The local Builder

`LocalBuilder` is `execute` and `_loop` of the Builder that drives a local model:
one tool call per turn on a copy of the workspace. The files are the module the
objective names and the verification target; contents are absent, as found, or
changed. The model is any sequence of calls, prose and failures. Everything that
can end the loop is a conjunct or action: the turn cap, the patience for
unproductive turns, the churn of failing test runs after an edit, the one
directive to write the missing implementation, a passing test run, a Stop.

### Tools and policy

`Policy` is pure: the registry of capability tokens, the grant, taint as the trust
label of a proposal, and the ordered rules, of which the first that fires decides.
`LoopDetector` is pure: the window of calls, the streak of equal errors, the
history of outputs, and the flags. `ToolLoop` composes them: `dispatch` translates a
call to a proposal, `Decide` rules, the adapter answers, `Observe` records. The
decision and the deed are two steps, `Allow` and `CarryOut`, since an adapter may work
for minutes, and the grant, good for an hour, may expire before, between or after them
(`Expire`). An adapter is what it lists and what it may return: an output, a failure,
or, from the shell and from MCP servers, a failure with an output. An MCP server is
registered only if it answers while the orchestrator is wired (`full_stack.py:127`);
it may fail later. A call is a tool, a kind of path (in scope, out of it, or risk
class) and a host. `Refusal` is the part of a denial's text that the detector compares:
the age of a grant reads the same for every call, the other rules name the operation,
the host or the path.

### Research and the library

`Research` is the pipeline of a web question and of a document question. The
evidence graph is the code's (`claims` maps each claim to the source it was first
read from, `contra` and `agrees` are ordered pairs recorded once); which claims
contradict, and what a source yields, is a choice. `Library` is the way of a
document: uploads of one message after another into the session folder, next to
a run thread that reads the files twice, into a throwaway library and into the
persistent one. `tx` is what the writing connection sees, `docs` what is committed;
a failed insert raises before the task is minted and loses the transaction. An
upload whose write fails leaves the file truncated or half written and unlisted
(`SaveFails`); one whose file cannot be opened leaves nothing (`SkipFile`). The search index is rebuilt from the table in each run and is not state.

### Routing and experience

`Routing` is one task class: the static table, the measured statistics, the
switch to data-driven choice, canaries, freezing, the `stronger_model` rung, and
`_route_builder`, which reads the latest ROUTE event of *any* task. Tasks are slots
used again and again. The process runs one at a time, and `proc` is the step it is about
to take: what is written to the memory store and to the log is two steps (`Promote` and
`TellPromotion`; `Freeze`, `Demote` and `TellDemotion` of a rollback), and an exception
(`Raise`) or a kill (`Restart`) falls between any two. `torn` remembers a demotion
whose telling was cut off. A paused task is resumed after others ran, or never
(`Abandon`). With repository intelligence wired (`RepoWired`; the tests wire it,
`full_stack.py` does not) a broad build logs a ROUTE without a provider
(`ReviewRoute`), which gives the next first round the default Builder. Of the hardware
mode the router asks two questions, `Bias`: does it pause, does it prefer local models.
Scores are exact integers in units of 1/200, with the provisional score where the
weights are degenerate; the one place where floating point decides is `TooFew`, in
which a rate of exactly 0.65 is too low. `Experience` is the store of
experiences: rows are created by capture, advised to a plan, recorded as used after
the task, promoted by reports and retired by staleness, contradictions and
canaries. Each commit is a step of `proc`, so that a kill falls between any two;
trailing rates are kept in twentieths. What a query returns is a set, put in the
order of insertion where the code's loop can be killed half-way (`InOrder`). Both share the memory store across tasks,
and neither shares state with `Orchestrator` but through the outcome of a task,
which is a choice here.

### The desktop runner

`DesktopRunner` is the code around the orchestrator in the desktop application.
HTTP threads are anonymous actions (`Accept`, `Stop`, their refusals), the run
thread of each accepted submission is `thread[r]`. Its places are the points of
`_do_run` at which another thread can make a difference: `starting`, `opened`,
`preparing` (armed), `driving`, `applying`, `leaving` (in the `finally` block),
`closing` (flag cleared, waiting for the lock), `done`, and `dead` for a thread that
ended without its `finally` block. `_lock` is `locked` where a handler holds it for
two steps (a Stop sets the flag, then the status); everywhere else a critical
section is one action that needs `~locked`. The run thread's reports and both
`arm()` calls take no lock, and neither do their actions.

Inside `_drive` only the checkpoints matter here: the model proxies, the builder
proxy and the turns of the local builder (`CallModel`, `CallStopped`). `_drive`
itself catches `RunCancelled`, so `_do_run` sees a FAILED result, and its own
branch for `RunCancelled` is never taken. `AdvisoryStopped` is a checkpoint whose
exception an advisory agent swallows.

`CancellableRun` is the promise: one run is active at a time, and no model call
is made for a run that was asked to stop. A Stop counts from the first `arm()`
on; section 5 shows what happens to an earlier one.

## 4. What is checked

| Config and module | Bounds | Shows |
|---|---|---|
| `OrchestratorRestart` (`MCOrchestrator`) | all collaborators, 2 plans (2 steps and 1), a re-plan policy refuses, 1 kill, 2 resumes, 2 diffs | `IInv`, `CompletedIsVerified`, `ApprovalRespected`, `PausedHasQuestion`, `PassIsNotRebuilt`, `UnseenEffectAsked`, `RaisesOnlyUnstarted`, `TerminalFrozen`, `ImplementsDelivery` |
| `OrchestratorLadder` (`MCOrchestrator`) | no fallback builder, up to 9 plans, fairness | `ReplansBounded`, `DriveEnds` |
| `DesktopRunner` | 2 submissions, 2 checkpoints each, the log may fail to open, fairness | `IInv` (with `OneRun`'s ground `SlotInv`, and `StatusIsCurrent`), `StopIsForThisRun`, `ImplementsCancellableRun`, `RunsEnd` |
| `LocalBuilder` | 7 turns, patience 2, churn 2 | `IInv` (with `StopIsNotABuild`), `MissingImplWasDemanded`, `TurnsArePaidFor` |
| `ToolLoop` (`MCToolLoop`) | 5 turns, 2 parse failures, window 4, thresholds 3, calls of every adapter and path kind | `LoopInv` (with `EffectsAreOptedIn`, `NoUnapprovedEffect`), `RiskIsNotProgress`, `RepeatsAreCut`, `ExpiryEndsRun` |
| `Deliverables` | 2 kills, 3 resumes | `PathInv` (with `NoWorkOnUnclear`, `FolderOnlyAuthored`, `CodePathHasPlan`), `EndedOrAsked`, `FileIsReported`, `CompletedAnswers` |
| `Research` (`MCResearch`) | 3 claims, 3 sources (a page, an official page, a passage), 2 sub-questions, 2 cross-checks, 2 passages read in full, fairness | `GraphInv` (with `ClaimsHaveSources`, `NothingFromNothing`, `ContestedOnce`, `FollowUpsBounded`), `FollowUpsNeverClose`, `Answered` |
| `Routing` (`MCRouting`) | 2 task slots, 2 providers, 1 run to be eligible, 2 canary samples, 1 rung, repository intelligence wired, `Few` | `RouteInv` (with `RoutesAreFresh`, `ToldPromotionIsReal`, `CanaryCounts`), `RollbackOnEvidence` |
| `Experience` (`MCExperience`) | 1 task slot, 2 rows of situations that match each other, quarantine after 2 and stale after 3 uses, retired after 2 failures in a row, 1 shadow replay in 1 week, 2 held-out | `MemoryInv` (with `OneCandidate`, `RollbackRetires`), `FailingIsRetired`, `PromotionIsEarned`, `ContradictedIsQuarantined` |
| `Library` | 1 stem with up to 2 suffixes, 3 texts, one unreadable, 2 files a message | `LibraryInv` (with `LibraryIsKeyed`, `TurnsAgree`), `StartedIsGrounded`, `DocumentsOutliveRuns` |
| `FindBuildRetry` (`MCOrchestrator`) | 1 diff, no kill | violates `BuildErrorRetried` |
| `FindLostStop` (`DesktopRunner`) | as `DesktopRunner` | violates `StoppingRunStops` |

Invariants that belong together are conjoined under one name (`IInv`, `LoopInv`,
`PathInv`, ...), the type invariant included.

Why the bounds suffice. *Orchestrator*: two diffs tell "the verified one" from
"another one"; two plans tell a step of the current plan from one of the plan
before; a kill followed by a resume, with an approval as the second resume, covers
the interplay of restart and pause, and a resume starts from the log alone, so
further kills add no new kind of start state. In `OrchestratorLadder` the plan
bound of 9 is above the seven plans the ladder can reach, so `ReplansBounded` does
not hold because of it. *Runner*: what one run can do to another it does to
the next, through the flag or the status; with two checkpoints a call can get
through before a Stop and be caught after it. *LocalBuilder*: seven turns exceed
patience and churn together, so each ending is reached with the cap still ahead.
*ToolLoop*: five turns exceed the window and every threshold; the same call can be
repeated with and without progress in between. *Deliverables*: two kills allow one
during the resume after another. *Research*: three claims give a contradiction with
a claim found only while following up. *Routing*: two tasks are one that is
paused and one that runs meanwhile, in slots that are used again, so that a canary
collects its samples from task after task. `Few` bounds the run to one frozen provider
and to one task at the rung: a freeze is recorded under the provider's id and looked up
under the model's name, so that a second one changes no step. `WithoutBuilder`, the
VIEW of the run, leaves out `last`, which no other variable's next value and no
property of the run depends on. *Experience*: what one task does to the
rows another was advised of (a use, a contradiction, a rollback) a reported use, a
sweep or a report does between the advice and the settling of a task as well, so one
slot shows it; both rows are advised together, because their situations match. In both,
counters are scaled to the least
values at which "too few", "just enough" and "one more" differ (the code's are 5 to
20 samples). *Library*: three texts and the suffixes of one name are the ways in
which names and texts can collide; two files of one message can collide with each
other. What does not depend on the bounds is proved for nine of the components
(section 6). `Routing` uses symmetry of its tasks, and checks safety only.

All runs but `DesktopRunner` and `FindLostStop` say CHECK_DEADLOCK FALSE: tasks that
have ended, loops that have returned and bounds that are used up stop.

`PausedHasQuestion` and `PassIsNotRebuilt` speak of tasks without a kill, in a run
that has kills: one between the APPROVAL_DECISION event and the state that
follows leaves a task waiting with nothing to answer, and one between an
APPROVAL_REQUEST and its state leaves a request open that can be answered after
the task passed. `RunsEnd` excepts a run whose log did not open: `open_event_log`
is called outside the `try` of `_do_run`, so the model stays in the state the
code stays in, with the runner taken and no error reported.

Fairness. `FairSpec` of `Orchestrator` is weak fairness of `Drive`, the steps of the
one thread that runs the call: the code never blocks on another thread, and every
call it makes returns or times out. No fairness is assumed of the user, of kills or
of apply-back. `DriveEnds` says that the thread does not drive itself in circles.
`Research` assumes the same of its one call. The runner's `FairSpec` is weak
fairness of each run thread and of the second half of a Stop, and strong fairness
of `Finish`, which waits for `_lock`: weak fairness would let request threads take
the lock again and again, but a Stop holds it for two statements and there are
only as many as the user presses (the page disables the button while `cancelling`
is shown).

## 5. Where the code and its text disagree

Two disagreements are runs that TLC finds violated; the traces are short enough
to follow in the source.

| Run | Text | Code |
|---|---|---|
| `FindBuildRetry` | `orchestrator.py:495` one bounded retry before FAILED | the retry reads `combined_diff`, unbound at 515, and fails |
| `FindLostStop` | `runner.py:97` stop at its next checkpoint | a Stop before the first `arm()` is accepted, shown and cleared |

Others are stated as claims in the modules. Each is false; put its name into
the PROPERTIES or INVARIANTS of the run named here to see the trace.

| Claim, run | Text | Code |
|---|---|---|
| `PendingStepIsResumable`, restart | `orchestrator.py:662` the approved step is allowed through | after a ladder re-plan and a fallback round the approval names a step of a plan that is not resumed |
| `ResumeNeverRaises`, restart | `MILESTONE_Q_NOTES.md:43` no exception out of `resume` | killed in CREATED, the escalation's transition is refused and raises |
| `InterruptedVerifyAsks`, restart | `orchestrator.py:237` let a human decide | the question is logged after the transition that needs it; the task fails |
| `CompletedKeysNotRepeated`, restart | `MILESTONE_D_PLAN.md:27` completed keys are not re-executed | the plan starts again from its first step |
| `ExternalEffectAsked`, restart | `checkpoint.py:4` any unconfirmed external action | an observation of an earlier round confirms a later attempt |
| `StoppedIsNotApplied`, runner | `runner.py:251` Stop also reaches the agents | the critic (`critic.py:85`) and the brainstorm (`brainstorm.py:58`) take the Stop for a failed call; the diff is applied |
| `SettledIsNotContested`, research | `crosscheck.py:3` a majority or a primary source resolves | `resolve()` changes a copy (`pipeline.py:143`), the answer reads the graph |
| `BuilderIsOwnRoute`, routing | `orchestrator.py:146` the route decision picks the Builder | a task that is resumed after another was routed gets the Builder of the other's route (1388), after a pause for heat or a stricter review the default one |
| `StrongerIsCloud`, routing | `orchestrator.py:1423` the rung goes to a stronger model | the choice may be local or out of reach, and the Builder is not exchanged |
| `FrozenIsNotChosen`, routing | a rolled-back challenger is not chosen | it is frozen under its provider id and looked up under its model name |

Seen while reading, without a claim of their own:

- Attaching a document again under another name makes `ingest_text` raise
  IntegrityError (`kb/store.py:68`; `MILESTONE_L_NOTES.md:12` calls ingestion
  idempotent), and the run ends before its REQUEST. The `Library` model has it: a
  run that `Raises`.
- A third upload under one name overwrites the second (`attachments.py:60`).
- `send()` in `app.js:497` clears the pending files after two awaits; a chip added in
  between is dropped unsent.
- A plan of exactly as many steps as the budget allows runs them all and is paused
  by `over_hard`, which compares with `>=` (`orchestrator.py:740`).
- A task paused on a clarification has no operation that answers it
  (`orchestrator.py:189`).
- The idempotent return of `ArtifactStore.put` leaves its transaction open
  (`artifacts/store.py:76`).
- All verifiers that run are tier T0, so live tasks never add to the statistics;
  the regression check of the selection compares the baseline with itself
  (`orchestrator.py:1344`); a class that was demoted is promoted again by the next
  check; after an EMERGENCY route or a stricter review (`orchestrator.py:1180`), whose
  ROUTE names no provider, the next `_route_builder` gives the default Builder.
- A write of a document that breaks off leaves a part of it in the user's folder: after
  an OSError only the ERROR names it (`orchestrator.py:2018`), after any other
  exception no event does, and the task fails.
- An adapter has up to two minutes and the grant is not looked at again in that time:
  one call may be carried out after it expired (`ExpiryEndsRun` counts it).
- `flag_catastrophic` raises on a STALE experience; `try_promote` given a report whose
  subject is a bare id does not ask for the human approval a security strategy
  needs (`PromotionIsEarned` names the exception).

## 6. What is proved

Eight modules of proofs; each theorem holds for every value of the constants that
the module's ASSUMEs admit, and rests on an inductive invariant that TLC checks
in the run of section 4 (but for `ToolLoopProofs`, whose invariant speaks of all
sequences).

`OrchestratorProofs`, for any diffs, plans and lengths, kills, resumes and wiring.
`Invariance` is the whole of `IInv`. From its first half, `DriveInv`, come
`TypeCorrect`, `CompletedTasksAreVerified`, `ApprovalsAreRespected`,
`RetriesAreBounded`, `CallsSettle`, `TerminalStatesAreFrozen`, and the refinement
`TaskImplementsDelivery`. `CompletedIsVerified`
relates a local string, a verdict on the log and an artifact on the log at the
moment a task settles; to get there, `CandidateInv` carries through the round the
fact that `combined_diff`, once non-empty, is the last artifact, and until then the
diff carried over from the previous round is. It distinguishes the retries: only
one that follows a T0 failure passes its diff on, and only that one may.
`RoundsInv` bounds the rounds by the two markers in the frame, `ApprovalInv` ties
the frame's approvals to the recorded ones, `ControlInv` says which lifecycle
states each point of a drive can be in, `PlanInv` that a round has a plan,
`ResultInv` that no RESULT claims a completion early. `TerminalStep`,
`OnlyVerifyDecides`, `OnlyBuildWrites`, `OnlyApplyDelivers` and `HowTasksEnd` say
which action changes which piece of evidence, and the refinement follows.

The second half is about what outlives a call. `UnseenEffectsAreAsked`: every
external step that was started had been proposed on the log before
(`InflightInv`), so the fold over the log finds it after a kill.
`OnlyUnstartedTasksRaise`: a restart asks only for a task that is not over and not
waiting, and asks before it pauses (`RestartInv`). `PausedTasksHaveAQuestion`: an
event that takes a question away is followed by one that moves the state, and
only a kill falls between (`QuestionInv`, `KillInv`). `PassesAreNotRebuilt`: an
approval is asked on the way out of a round that was not verified, so that no
later answer leads from a verdict back into a round (`PassInv`).
`ReplansAreBounded`: an account. A round re-plans at three rungs of its ladder, at
one only while a stronger Builder is in reserve; each retry starts a new ladder, and
the retry markers say which rounds came before (`LadderInv`, with `PlansBefore` as
what those can have used).

`DesktopRunnerProofs`, for any submissions and any number of checkpoints:
`RunnerInvariance`, `OneRunAtATime`, `StopsAreForTheirRun`, `StatusStaysCurrent` and the
refinement `RunnerImplementsCancellableRun`. The one flag of the process says
nothing of a particular run by itself; what makes it do so is `SlotInv` (the only
thread alive is that of the last accepted run) together with `FlagInv` (from its
first `arm()` to its last the flag is set exactly if that run was asked to stop).
The last `arm()`, meant to keep the flag from leaking into the next run, cannot do
that alone, because a Stop may still come between it and `running = False`.

`BuilderProofs` is about the Builder of a task: the loop of the local one and the
routing that picks one. For any cap, patience and churn limit: `LocalBuilderInvariance`,
`LoopDemandsImplementation`, `StopIsNeverABuild`, `LoopPaysForTurns`. The
argument is an account: each piece of news (an edit, a file first read, the first
listing, the directive) buys `Patience` turns, all others are counted as
unproductive, and at most one turn is under way (`PaidInv`). The code resets
`unproductive` in many places; the account shows that each of them is paid for.

For any class, any tasks, any providers of the registry that include `agent_sdk` and the
class's first choice, and any numbers of runs, samples and rungs: `RoutingInvariance`,
`RollbacksHaveEvidence`. `ProvidersAssumption` is what
`DEFAULT_PROVIDERS` gives: the fallback of `route()` names a provider that may be out of
reach but is registered. What the choice comes to is a lemma (`DecisionIsAProvider`): a
score is a number, since a rate is taken of eligible models only; of finitely many
candidates one is first among the best (`BestIsOneOfThem`, one candidate at a time, as
there are five names); so every route but a pause names a provider. Then `RouteInv` is
inductive: a route adds one to what its task tried because the rung is not taken
otherwise (`RouteIsLogged`); what is told was stored by the step before, unless the
demotion in between was cut off (`StepsOK`, `torn`); and a controller without a verdict
has counted what was settled of its challenger since the start of the process, no more
and no less (`CanaryCounts`), whatever is promoted, frozen, raised or abandoned in
between. From the last comes `RollbackOnEvidence`: a verdict falls at
the `MinSamples`-th count, and the freeze, a step of its own, is still about that many
outcomes (`StepsOK`).

`DeliverablesProofs`, for any number of kills and resumes: `PathInvariance`,
`DeliverablesSettle`, `FilesAreReported`, `CompletedTasksAnswer`. `PlaceInv` says what the
log holds at each place of a call, `LogInv` what a state on the log tells of the rest
of it, `FileInv` what the folder holds and what the log says of it between opening the
file and the end of the task, and `KillInv` that only a killed task is found in the middle of its work; a
task without a kill therefore never reaches `CodePath`, which is what keeps
diffs out of answers.

`ToolLoopProofs`, for any calls, hosts, opt-ins, windows and thresholds:
`ToolsStayWithinGrant`, `RepetitionIsCut`, `ProgressIsNoRisk`, `ExpiryIsFinal`. A lemma on
the ordered rules says what ALLOW means of a proposal (every rule is silent); the
grant is that of the start but for its age; and the detector's window, its streak of
errors or its history of outputs remembers each of the counted repeats, so that a
flag is up when they reach the threshold (`PushKeeps`, `RunIsFlagged`). Conversely
nothing the detector remembers is older than the last progress (`HistoryInv`), and a
flag takes as many entries as its threshold (`FlagsNeedHistory`). How many those
are depends on the thresholds, and `RiskIsNotProgress` says it in their terms: with
a threshold of one, a single futile call is enough. `ExpiryIsFinal` is about the two
moments of a call: ALLOW means an unexpired grant (`ExpiredMeans`), so what is carried
out under an expired one was pending when it expired, and that is one call; and
refusals for age have equal error signatures, so that the streak of the detector
counts them and its flag is up when there are enough (`LateInv`, `RefusalCounts`,
`EqualErrorsAreFlagged`).

`LibraryProofs`, for any names, texts and sizes of a message, with kills and failing
inserts anywhere: `LibraryInvariance`, `StartedTasksAreGrounded`, `DocumentsAreKept`.
`TransactionInv` says that what is not committed yet is one document in the place of
its name; that makes a loss of the transaction harmless, and keying an
invariant of every commit. `GroundedInv` follows the files the run has read into the
library, the one being written apart; a later file of the same message cannot take
one of them out, because `Taken` makes it raise first.

`ResearchProofs`, for any claims, sources and limits:
`GraphInvariance` and `RoundsCloseNothing`. `PaidInv` is an account again: each call is
paid for by a sub-question or by one record of one round, and the records are those
`Detect` left, since following up relates claims but never records a contradiction.

`ExperienceProofs`, for any tasks, situations, strategies and numbers of the lifecycle
that are ordered as in `lifecycle.py`: `MemoryInvariance`, `ContradictionQuarantines`,
`PromotionsAreEarned`, `FailuresRetire`. The store is changed by one commit at a time, and an operation
of several commits may die between any two; `ProcInv` says what is still to do,
`AdvisedInv` that what a plan was advised of never returns to a state before its
promotion, `ValidatedInv` that replays are not taken away, `RollbackInv` that a canary
says rollback only while the retirement is due, `FlagInv` which of the advised
experiences are quarantined already. `PromotionIsEarned` follows from `ValidatedInv`
and from the two ways in which an experience is promoted. `FailuresRetire` says how many
failed uses in a row no experience survives. `FailingInv` is the account behind it: each
of them takes its share of the running rate, first of a growing number of uses, then of
`StaleN` of them, and `ShareTaken` is what the two have in common. `EnoughAssumption` says
when the shares add up to a rate that is too low. With the numbers of `lifecycle.py`
(5 and 20 uses, rates of 0.4 and 0.7) twelve failures are enough, and eleven are not:
after eight good uses they leave a rate of 8/19, at nineteen uses, and the experience
live. Rounding the rate down only lowers it, so twelve are enough for the code's
fractions as well.

Only model-checked:

- `DriveEnds`, `RunsEnd` and `Answered`: liveness under fairness is outside what the
  prover can do, as are ENABLED and induction over data.

## 7. Not modelled

- The numeric budget and the progress score of `_execute`: whether they stop a step is
  the choice `Stops` of `Orchestrator`. The loop detector is modelled, with the tool
  loop that uses it.
- Chunking, ranking and the index of the knowledge base; the composer's chips.
- Live availability of providers: an installation has Ollama or not. `canary_enabled`
  is off in `wire_full_stack`; the model has it on. `try_validate`, `try_promote`,
  `sweep_stale` and reported uses have no caller outside tests; they are modelled as
  calls anybody may make. `uses_60d` and `dependency_missing` are never set and are
  left out.
- The artifact store and the event feed have one writer and one reader each; a
  model of them would say little before a second connection is part of it.
- Outline, drafting and rendering, the interpreter's and planner's prompts and
  parsers, the language model clients, the sandbox, the egress broker, secrets,
  repository intelligence and project memory: text and operating system in and
  out. Their results are the nondeterministic inputs above.
- Two tasks of one process share only the stores outside the log, so each module
  but `Routing` and `Experience`, which are about those stores, is of one task.
- Two hazards have no property that holds. An agent that swallows a Stop (`critic.py:85`)
  and a Builder taken from another task's route (`orchestrator.py:1388`) are modelled,
  and what they should satisfy are the claims `StoppedIsNotApplied` and
  `BuilderIsOwnRoute` above.
