---------------------------- MODULE DesktopRunner ----------------------------
(***************************************************************************)
(* The desktop runner, nexus/app/ui/runner.py with runtime_cancel.py: the  *)
(* HTTP threads that submit a run or ask to stop it, and the daemon thread *)
(* that executes it.  They share the dict _state, guarded by _lock in the  *)
(* HTTP handlers and at the end of the run but not while the run thread    *)
(* reports, and the process-wide Stop flag, which no lock guards.          *)
(*                                                                         *)
(* A submit holds _lock for one step.  A Stop sets the flag and then       *)
(* `cancelling` while it holds _lock, and the run thread may clear the     *)
(* flag in between, so that is two steps with `locked` true.               *)
(***************************************************************************)
EXTENDS Naturals

CONSTANTS
  Runs,        \* identities of accepted submissions
  NoRun,
  MaxCalls,    \* bound on the checkpoints one run reaches
  OpenMayFail  \* open_event_log may raise

ASSUME RunnerAssumption ==
  /\ NoRun \notin Runs
  /\ MaxCalls \in Nat
  /\ OpenMayFail \in BOOLEAN

VARIABLES
  running, cancelling,  \* _state["running"], _state["cancelling"]
  current,              \* _state["request"], ["started_ts"]: the last accepted run
  lastTask, lastError,  \* _state["last_task_id"], ["last_error"]: whose they are
  locked,               \* a Stop handler is between request() and its answer
  flag,                 \* runtime_cancel._ev
  thread,               \* where each run's daemon thread is
  apply,                \* the runs submitted with apply=True
  calls,                \* checkpoints each run has reached
  made,                 \* history: model calls that got through
  outcome,              \* history: what _drive returned
  applied,              \* history: the runs whose diff went to apply_task_result
  asked,                \* history: the runs asked to stop after their first arm()
  passed                \* history: those that then came to a checkpoint

status  == <<running, cancelling, current, lastTask, lastError>>
work    == <<apply, calls, made, outcome, applied, passed>>
vars    == <<status, work, locked, flag, thread, asked>>

\* in _do_run, after the log is open and before its last arm()
Armed == {"preparing", "driving", "applying", "leaving"}
Alive == Armed \cup {"starting", "opened", "closing"}

Init ==
  /\ running = FALSE /\ cancelling = FALSE
  /\ current = NoRun /\ lastTask = NoRun /\ lastError = NoRun
  /\ locked = FALSE /\ flag = FALSE
  /\ thread = [r \in Runs |-> "none"]
  /\ apply = {} /\ applied = {}
  /\ calls = [r \in Runs |-> 0] /\ made = [r \in Runs |-> 0]
  /\ outcome = [r \in Runs |-> "none"]
  /\ asked = {} /\ passed = {}

Goto(r, place) == thread' = [thread EXCEPT ![r] = place]

-----------------------------------------------------------------------------
(* HTTP threads                                                            *)

\* Fault: whether a run is in progress is not checked under the lock.
AcceptUnchecked(r, wanted) ==
  /\ ~locked /\ thread[r] = "none"
  /\ running' = TRUE /\ cancelling' = FALSE /\ current' = r
  /\ lastTask' = NoRun /\ lastError' = NoRun
  /\ apply' = IF wanted THEN apply \cup {r} ELSE apply
  /\ Goto(r, "starting")
  /\ UNCHANGED <<calls, made, outcome, applied, passed, locked, flag, asked>>

\* Fault: the report of the run before is not reset.
AcceptKeepsReport(r, wanted) ==
  /\ ~locked /\ ~running /\ thread[r] = "none"
  /\ running' = TRUE /\ cancelling' = FALSE /\ current' = r
  /\ UNCHANGED <<lastTask, lastError>>
  /\ apply' = IF wanted THEN apply \cup {r} ELSE apply
  /\ Goto(r, "starting")
  /\ UNCHANGED <<calls, made, outcome, applied, passed, locked, flag, asked>>

\* POST /api/tasks when nothing runs; the thread starts after the lock is free
Accept(r, wanted) ==
  /\ ~locked /\ ~running /\ thread[r] = "none"
  /\ running' = TRUE /\ cancelling' = FALSE /\ current' = r
  /\ lastTask' = NoRun /\ lastError' = NoRun
  /\ apply' = IF wanted THEN apply \cup {r} ELSE apply
  /\ Goto(r, "starting")
  /\ UNCHANGED <<calls, made, outcome, applied, passed, locked, flag, asked>>

\* POST /api/tasks while a run is in progress, or for an invalid request
Refuse == ~locked /\ running /\ UNCHANGED vars

\* POST /api/cancel: under the lock, first the flag ...
Stop ==
  /\ ~locked /\ running
  /\ locked' = TRUE /\ flag' = TRUE
  /\ asked' = IF thread[current] \in Armed THEN asked \cup {current} ELSE asked
  /\ UNCHANGED <<status, work, thread>>

\* ... then the status
StopAnswered ==
  /\ locked
  /\ locked' = FALSE /\ cancelling' = TRUE
  /\ UNCHANGED <<running, current, lastTask, lastError, work, flag, thread, asked>>

\* POST /api/cancel when nothing runs
StopRefused == ~locked /\ ~running /\ UNCHANGED vars

-----------------------------------------------------------------------------
(* The run thread, _do_run                                                 *)

OpenLog(r) ==
  /\ thread[r] = "starting"
  /\ Goto(r, "opened")
  /\ UNCHANGED <<status, work, locked, flag, asked>>

\* open_event_log is called outside the try: the thread dies
OpenFails(r) ==
  /\ OpenMayFail /\ thread[r] = "starting"
  /\ Goto(r, "dead")
  /\ UNCHANGED <<status, work, locked, flag, asked>>

\* Fault: the flag is not cleared before the run.
ArmNothing(r) ==
  /\ thread[r] = "opened"
  /\ Goto(r, "preparing")
  /\ UNCHANGED <<flag, status, work, locked, asked>>

Arm(r) ==
  /\ thread[r] = "opened"
  /\ flag' = FALSE
  /\ Goto(r, "preparing")
  /\ UNCHANGED <<status, work, locked, asked>>

\* session context, attachments, wiring, REQUEST appended, last_task_id set
Prepare(r) ==
  /\ thread[r] = "preparing"
  /\ lastTask' = r
  /\ Goto(r, "driving")
  /\ UNCHANGED <<running, cancelling, current, lastError, work, locked, flag, asked>>

Reach(r) ==
  /\ thread[r] = "driving" /\ calls[r] < MaxCalls
  /\ calls' = [calls EXCEPT ![r] = @ + 1]
  /\ passed' = IF r \in asked THEN passed \cup {r} ELSE passed

Through(r) == made' = [made EXCEPT ![r] = @ + 1]

\* Fault: the call is made whatever the flag says.
CallModelUnchecked(r) ==
  /\ Reach(r) /\ Through(r)
  /\ UNCHANGED <<status, apply, outcome, applied, locked, flag, thread, asked>>

\* complete() and execute() of the proxies, and each turn of LocalBuilder
CallModel(r) ==
  /\ ~flag
  /\ Reach(r) /\ Through(r)
  /\ UNCHANGED <<status, apply, outcome, applied, locked, flag, thread, asked>>

\* check() raises RunCancelled; _drive logs it, fails the task and returns
CallStopped(r) ==
  /\ flag
  /\ Reach(r)
  /\ outcome' = [outcome EXCEPT ![r] = "stopped"]
  /\ Goto(r, "leaving")
  /\ UNCHANGED <<status, apply, made, applied, locked, flag, asked>>

\* brainstorm, critic and the answer to a question swallow RunCancelled
AdvisoryStopped(r) ==
  /\ flag
  /\ Reach(r)
  /\ UNCHANGED <<status, apply, made, outcome, applied, locked, flag, thread, asked>>

\* _drive returns a COMPLETED result or another one
Return(r) ==
  /\ thread[r] = "driving"
  /\ \E result \in {"completed", "failed"} :
       /\ outcome' = [outcome EXCEPT ![r] = result]
       /\ Goto(r, IF result = "completed" /\ r \in apply THEN "applying" ELSE "leaving")
  /\ UNCHANGED <<status, apply, calls, made, applied, passed, locked, flag, asked>>

Apply(r) ==
  /\ thread[r] = "applying"
  /\ applied' = applied \cup {r}
  /\ Goto(r, "leaving")
  /\ UNCHANGED <<status, apply, calls, made, outcome, passed, locked, flag, asked>>

\* Fault: after an exception the runner is not given free.
RaiseUnhandled(r) ==
  /\ thread[r] \in {"preparing", "driving", "applying"}
  /\ lastError' = r
  /\ Goto(r, "done")
  /\ UNCHANGED <<running, cancelling, current, lastTask, work, locked, flag, asked>>

\* any other exception is reported
Raise(r) ==
  /\ thread[r] \in {"preparing", "driving", "applying"}
  /\ lastError' = r
  /\ Goto(r, "leaving")
  /\ UNCHANGED <<running, cancelling, current, lastTask, work, locked, flag, asked>>

\* finally: the flag is cleared once more, outside the lock ...
Disarm(r) ==
  /\ thread[r] = "leaving"
  /\ flag' = FALSE
  /\ Goto(r, "closing")
  /\ UNCHANGED <<status, work, locked, asked>>

\* Fault: the Stop of this run stays on the status.
FinishKeepsCancelling(r) ==
  /\ thread[r] = "closing" /\ ~locked
  /\ running' = FALSE
  /\ Goto(r, "done")
  /\ UNCHANGED <<cancelling, current, lastTask, lastError, work, locked, flag, asked>>

\* ... and under the lock the runner is free again
Finish(r) ==
  /\ thread[r] = "closing" /\ ~locked
  /\ running' = FALSE /\ cancelling' = FALSE
  /\ Goto(r, "done")
  /\ UNCHANGED <<current, lastTask, lastError, work, locked, flag, asked>>

Thread(r) ==
  \/ OpenLog(r) \/ OpenFails(r) \/ Arm(r) \/ Prepare(r)
  \/ CallModel(r) \/ CallStopped(r) \/ AdvisoryStopped(r)
  \/ Return(r) \/ Apply(r) \/ Raise(r) \/ Disarm(r) \/ Finish(r)

Next ==
  \/ \E r \in Runs : Thread(r) \/ (\E wanted \in BOOLEAN : Accept(r, wanted))
  \/ Refuse \/ Stop \/ StopAnswered \/ StopRefused

Spec == Init /\ [][Next]_vars

\* Finish waits for a lock that request threads take too, so it needs more than
\* to be enabled from some point on.
FairSpec ==
  /\ Spec
  /\ \A r \in Runs : WF_vars(Thread(r)) /\ SF_vars(Finish(r))
  /\ WF_vars(StopAnswered)

-----------------------------------------------------------------------------
(* Properties                                                              *)

TypeOK ==
  /\ running \in BOOLEAN /\ cancelling \in BOOLEAN
  /\ current \in Runs \cup {NoRun}
  /\ lastTask \in Runs \cup {NoRun} /\ lastError \in Runs \cup {NoRun}
  /\ locked \in BOOLEAN /\ flag \in BOOLEAN
  /\ thread \in [Runs -> Alive \cup {"none", "done", "dead"}]
  /\ apply \subseteq Runs /\ applied \subseteq Runs
  /\ calls \in [Runs -> Nat] /\ made \in [Runs -> Nat]
  /\ outcome \in [Runs -> {"none", "completed", "failed", "stopped"}]
  /\ asked \subseteq Runs /\ passed \subseteq Runs

\* The runner is taken exactly while the thread of the last accepted run is
\* alive or has died without its finally block; no other thread is.
SlotInv ==
  /\ \A r \in Runs : thread[r] \in Alive \cup {"dead"} => running /\ current = r
  /\ running => current \in Runs /\ thread[current] \in Alive \cup {"dead"}
  /\ locked => running
  /\ cancelling => running

\* Between the two arm()s the flag says whether this run was asked to stop; a
\* run not yet armed was not.
FlagInv ==
  \A r \in Runs :
    /\ thread[r] \in Armed => (flag <=> r \in asked)
    /\ thread[r] \in {"none", "starting", "opened"} => r \notin asked

\* Once a check() was raised for a run, the run had been asked to stop.
StopIsForThisRun == \A r \in Runs : outcome[r] = "stopped" => r \in asked

\* The status reports a task and an error of the last accepted run, never those
\* of one before.
StatusIsCurrent ==
  /\ lastTask \in {NoRun, current}
  /\ lastError \in {NoRun, current}

IInv == TypeOK /\ SlotInv /\ FlagInv /\ StopIsForThisRun /\ StatusIsCurrent

\* At most one run thread is between the accepted POST and the end of _do_run,
\* however submissions race with each other and with the end of a run.
OneRun == \A r, s \in Runs : thread[r] \in Alive /\ thread[s] \in Alive => r = s

\* Every accepted run whose log opens gives the runner free again: whatever
\* raises, whenever a Stop comes, the next submission is accepted in the end.
RunsEnd == running ~> ~running \/ thread[current] = "dead"

\* A run the status shows as being stopped stops at its next model call.
StoppingRunStops ==
  ~locked /\ cancelling /\ thread[current] = "driving" => flag

\* A run that came to a checkpoint after it was asked to stop is not applied.
\* A claim of the comments this code does not satisfy: an advisory agent may
\* swallow the Stop (see the README).
StoppedIsNotApplied == applied \cap passed = {}

-----------------------------------------------------------------------------
(* The runner implements CancellableRun                                    *)

Promise ==
  INSTANCE CancellableRun WITH active <- IF running THEN current ELSE NoRun,
                               ended <- {r \in Runs : thread[r] = "done"}

\* Submissions, Stops and the run thread together give the user one run at a
\* time, and a run asked to stop makes no further model call.
ImplementsCancellableRun == Promise!Spec
=============================================================================
