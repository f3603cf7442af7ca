------------------------ MODULE DesktopRunnerProofs ------------------------
(***************************************************************************)
(* Proofs about DesktopRunner, for any number of runs and calls.  The slot *)
(* (SlotInv) and the flag (FlagInv) carry the argument: the thread that is *)
(* alive is the one of the last accepted run, so the one flag of the       *)
(* process, cleared when that thread arms itself, speaks of that run.      *)
(***************************************************************************)
EXTENDS DesktopRunner, TLAPS

USE DEF Armed, Alive

LEMMA InitInvariant == Init => IInv
<1> SUFFICES ASSUME Init PROVE IInv
  OBVIOUS
<1>1. TypeOK BY DEF Init, TypeOK
<1>2. SlotInv BY DEF Init, SlotInv
<1>3. FlagInv BY DEF Init, FlagInv
<1>4. StopIsForThisRun /\ StatusIsCurrent
  BY DEF Init, StopIsForThisRun, StatusIsCurrent
<1>5. QED BY <1>1, <1>2, <1>3, <1>4 DEF IInv

\* The handlers of the HTTP threads keep the invariant.
LEMMA RequestStep ==
  ASSUME IInv, NEW r \in Runs, NEW wanted \in BOOLEAN,
         Accept(r, wanted) \/ Stop \/ StopAnswered
  PROVE  IInv'
<1> USE RunnerAssumption DEF IInv
<1>1. CASE Accept(r, wanted)
  <2>1. TypeOK' BY <1>1 DEF Accept, Goto, TypeOK
  <2>2. SlotInv' BY <1>1 DEF Accept, Goto, TypeOK, SlotInv
  <2>3. FlagInv' BY <1>1 DEF Accept, Goto, TypeOK, FlagInv
  <2>4. (StopIsForThisRun /\ StatusIsCurrent)'
    BY <1>1 DEF Accept, StopIsForThisRun, StatusIsCurrent
  <2>5. QED BY <2>1, <2>2, <2>3, <2>4
<1>2. CASE Stop
  <2>1. TypeOK' BY <1>2 DEF Stop, status, work, TypeOK, SlotInv
  <2>2. SlotInv' BY <1>2 DEF Stop, status, work, SlotInv
  <2>3. FlagInv' BY <1>2 DEF Stop, status, work, SlotInv, FlagInv, TypeOK
  <2>4. (StopIsForThisRun /\ StatusIsCurrent)'
    BY <1>2 DEF Stop, status, work, StopIsForThisRun, StatusIsCurrent
  <2>5. QED BY <2>1, <2>2, <2>3, <2>4
<1>3. CASE StopAnswered
  BY <1>3 DEF StopAnswered, work, TypeOK, SlotInv, FlagInv, StopIsForThisRun,
     StatusIsCurrent
<1>4. QED BY <1>1, <1>2, <1>3

\* Moving the thread of a run to another place keeps the slot.
LEMMA ThreadKeepsSlot ==
  ASSUME IInv, NEW r \in Runs, Thread(r)
  PROVE  SlotInv'
<1> USE DEF IInv, TypeOK, SlotInv, Goto, status
<1>1. CASE OpenLog(r) \/ OpenFails(r) \/ Arm(r) \/ Prepare(r)
  BY <1>1 DEF OpenLog, OpenFails, Arm, Prepare
<1>2. CASE CallModel(r) \/ CallStopped(r) \/ AdvisoryStopped(r)
  BY <1>2 DEF CallModel, CallStopped, AdvisoryStopped, Reach, Through
<1>3. CASE Return(r) \/ Apply(r) \/ Raise(r) \/ Disarm(r)
  BY <1>3 DEF Return, Apply, Raise, Disarm
<1>4. CASE Finish(r)
  BY <1>4 DEF Finish
<1>5. QED BY <1>1, <1>2, <1>3, <1>4 DEF Thread

\* The step of a run thread keeps the meaning of the flag: when the flag is
\* cleared, the run that clears it is the only one it could speak of.
LEMMA ThreadKeepsFlag ==
  ASSUME IInv, NEW r \in Runs, Thread(r)
  PROVE  FlagInv'
<1> USE DEF IInv, TypeOK, SlotInv, FlagInv, Goto
<1>1. CASE OpenLog(r) \/ OpenFails(r) \/ Prepare(r)
  BY <1>1 DEF OpenLog, OpenFails, Prepare
<1>2. CASE Arm(r) \/ Disarm(r)
  BY <1>2 DEF Arm, Disarm
<1>3. CASE CallModel(r) \/ CallStopped(r) \/ AdvisoryStopped(r)
  BY <1>3 DEF CallModel, CallStopped, AdvisoryStopped, Reach, Through
<1>4. CASE Return(r) \/ Apply(r) \/ Raise(r) \/ Finish(r)
  BY <1>4 DEF Return, Apply, Raise, Finish
<1>5. QED BY <1>1, <1>2, <1>3, <1>4 DEF Thread

LEMMA ThreadKeepsTypes ==
  ASSUME TypeOK, NEW r \in Runs, Thread(r)
  PROVE  TypeOK'
<1> USE DEF TypeOK, Goto, status, work
<1>1. CASE OpenLog(r) \/ OpenFails(r) \/ Arm(r) \/ Prepare(r)
  BY <1>1 DEF OpenLog, OpenFails, Arm, Prepare
<1>2. CASE CallModel(r) BY <1>2 DEF CallModel, Reach, Through
<1>3. CASE CallStopped(r) BY <1>3 DEF CallStopped, Reach
<1>4. CASE AdvisoryStopped(r) BY <1>4 DEF AdvisoryStopped, Reach
<1>5. CASE Return(r) BY <1>5 DEF Return
<1>6. CASE Apply(r) \/ Raise(r) \/ Disarm(r) \/ Finish(r)
  BY <1>6 DEF Apply, Raise, Disarm, Finish
<1>7. QED BY <1>1, <1>2, <1>3, <1>4, <1>5, <1>6 DEF Thread

\* check() raises only in a run that was asked to stop, and what the run thread
\* reports it reports of the last accepted run, its own.
LEMMA ThreadKeepsReport ==
  ASSUME IInv, NEW r \in Runs, Thread(r)
  PROVE  (StopIsForThisRun /\ StatusIsCurrent)'
<1> USE DEF IInv, TypeOK, SlotInv, StopIsForThisRun, StatusIsCurrent, status, work
<1>1. CASE OpenLog(r) \/ OpenFails(r) \/ Arm(r) \/ Prepare(r)
  BY <1>1 DEF OpenLog, OpenFails, Arm, Prepare
<1>2. CASE CallModel(r) \/ AdvisoryStopped(r)
  BY <1>2 DEF CallModel, AdvisoryStopped
<1>3. CASE CallStopped(r)
  BY <1>3 DEF CallStopped, Reach, FlagInv
<1>4. CASE Return(r)
  BY <1>4 DEF Return
<1>5. CASE Apply(r) \/ Raise(r) \/ Disarm(r) \/ Finish(r)
  BY <1>5 DEF Apply, Raise, Disarm, Finish
<1>6. QED BY <1>1, <1>2, <1>3, <1>4, <1>5 DEF Thread

LEMMA InvariantStep == IInv /\ [Next]_vars => IInv'
<1> SUFFICES ASSUME IInv, [Next]_vars PROVE IInv'
  OBVIOUS
<1>1. ASSUME NEW r \in Runs, Thread(r) PROVE IInv'
  BY <1>1, ThreadKeepsTypes, ThreadKeepsSlot, ThreadKeepsFlag, ThreadKeepsReport
     DEF IInv
<1>2. ASSUME NEW r \in Runs, NEW wanted \in BOOLEAN, Accept(r, wanted) PROVE IInv'
  BY <1>2, RequestStep
<1>3. CASE Stop
  <2>1. current \in Runs BY <1>3 DEF Stop, IInv, SlotInv
  <2>2. QED BY <1>3, <2>1, RequestStep
<1>4. CASE StopAnswered
  <2>1. current \in Runs BY <1>4 DEF StopAnswered, IInv, SlotInv
  <2>2. QED BY <1>4, <2>1, RequestStep
<1>5. CASE UNCHANGED vars
  BY <1>5 DEF vars, status, work, IInv, TypeOK, SlotInv, FlagInv, StopIsForThisRun,
     StatusIsCurrent
<1>6. QED BY <1>1, <1>2, <1>3, <1>4, <1>5 DEF Next, Refuse, StopRefused

\* The inductive invariant holds always: the types, the slot, the flag and the
\* status of the runner.
THEOREM RunnerInvariance == Spec => []IInv
  BY InitInvariant, InvariantStep, PTL DEF Spec

\* However submissions race, at most one run thread is alive (runner.py:315).
THEOREM OneRunAtATime == Spec => []OneRun
<1>1. IInv => OneRun BY DEF IInv, SlotInv, OneRun
<1>2. QED BY <1>1, RunnerInvariance, PTL

\* A Stop never reaches a run it was not meant for, although the flag may be
\* set when a run ends (runner.py:293) and is shared by all of them.
THEOREM StopsAreForTheirRun == Spec => []StopIsForThisRun
<1>1. IInv => StopIsForThisRun BY DEF IInv
<1>2. QED BY <1>1, RunnerInvariance, PTL

\* What the status reports is of the last accepted run (runner.py:319-321).
THEOREM StatusStaysCurrent == Spec => []StatusIsCurrent
<1>1. IInv => StatusIsCurrent BY DEF IInv
<1>2. QED BY <1>1, RunnerInvariance, PTL

-----------------------------------------------------------------------------
(* The refinement                                                          *)

LEMMA PromiseInit == Init => Promise!Init
  BY DEF Init, Promise!Init

\* A thread step is a model call of a run not asked to stop, the end of the
\* run, or invisible.
LEMMA ThreadStepMaps ==
  ASSUME IInv, NEW r \in Runs, Thread(r)
  PROVE  [Promise!Next]_Promise!vars
<1> USE RunnerAssumption DEF IInv, TypeOK, SlotInv, Goto, status, work, Promise!vars
<1>1. CASE CallModel(r)
  <2>1. running /\ current = r /\ r \notin asked
    BY <1>1 DEF CallModel, Reach, FlagInv
  <2>2. Promise!Work
    BY <1>1, <2>1 DEF CallModel, Reach, Through, Promise!Work
  <2>3. QED BY <2>2 DEF Promise!Next
<1>2. CASE Finish(r)
  <2>1. running /\ current = r /\ r # NoRun BY <1>2 DEF Finish
  <2>2. {s \in Runs : thread'[s] = "done"} = {s \in Runs : thread[s] = "done"} \cup {r}
    BY <1>2 DEF Finish
  <2>3. Promise!End BY <1>2, <2>1, <2>2 DEF Finish, Promise!End
  <2>4. QED BY <2>3 DEF Promise!Next
<1>3. ASSUME UNCHANGED <<running, current, asked, made>>,
             thread[r] # "done",
             thread' = thread \/ \E place : place # "done" /\ Goto(r, place)
      PROVE  UNCHANGED Promise!vars
  BY <1>3
<1>4. CASE OpenLog(r) \/ OpenFails(r) \/ Arm(r) \/ Prepare(r)
  BY <1>3, <1>4 DEF OpenLog, OpenFails, Arm, Prepare
<1>5. CASE CallStopped(r) \/ AdvisoryStopped(r)
  BY <1>3, <1>5 DEF CallStopped, AdvisoryStopped, Reach
<1>6. CASE Return(r)
  BY <1>3, <1>6 DEF Return
<1>7. CASE Apply(r) \/ Raise(r) \/ Disarm(r)
  BY <1>3, <1>7 DEF Apply, Raise, Disarm
<1>8. QED BY <1>1, <1>2, <1>4, <1>5, <1>6, <1>7 DEF Thread

LEMMA PromiseStep == IInv /\ [Next]_vars => [Promise!Next]_Promise!vars
<1> SUFFICES ASSUME IInv, [Next]_vars PROVE [Promise!Next]_Promise!vars
  OBVIOUS
<1> USE RunnerAssumption DEF IInv, TypeOK, SlotInv, Promise!vars
<1>1. ASSUME NEW r \in Runs, Thread(r) PROVE [Promise!Next]_Promise!vars
  BY <1>1, ThreadStepMaps
<1>2. ASSUME NEW r \in Runs, NEW wanted \in BOOLEAN, Accept(r, wanted)
      PROVE  Promise!Next
  <2>1. {s \in Runs : thread'[s] = "done"} = {s \in Runs : thread[s] = "done"}
    BY <1>2 DEF Accept, Goto
  <2>2. Promise!Begin(r) BY <1>2, <2>1 DEF Accept, Promise!Begin
  <2>3. QED BY <2>2 DEF Promise!Next
<1>3. CASE Stop
  <2>1. current \in Runs BY <1>3 DEF Stop
  <2>2. Promise!Ask \/ UNCHANGED Promise!vars
    BY <1>3, <2>1 DEF Stop, status, work, Promise!Ask
  <2>3. QED BY <2>2 DEF Promise!Next
<1>4. CASE StopAnswered BY <1>4 DEF StopAnswered, work
<1>5. CASE UNCHANGED vars BY <1>5 DEF vars, status, work
<1>6. QED BY <1>1, <1>2, <1>3, <1>4, <1>5 DEF Next, Refuse, StopRefused

\* The runner implements CancellableRun: one run at a time, and no model call
\* for a run asked to stop while it was armed.
THEOREM RunnerImplementsCancellableRun == Spec => ImplementsCancellableRun
  BY RunnerInvariance, PromiseInit, PromiseStep, PTL
     DEF Spec, ImplementsCancellableRun, Promise!Spec
=============================================================================
