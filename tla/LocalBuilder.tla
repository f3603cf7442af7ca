---------------------------- MODULE LocalBuilder ----------------------------
(***************************************************************************)
(* The Builder that drives a local model: execute() runs _loop(), in which *)
(* the model calls one tool per turn on a copy of the workspace, and then  *)
(* delivers whatever the copy differs by.  The model is any sequence of    *)
(* calls, of replies without a call and of failures; the user may press    *)
(* Stop at any time.                                                       *)
(***************************************************************************)
EXTENDS Naturals, FiniteSets

CONSTANTS
  MaxTurns,   \* _MAX_TURNS (24)
  Patience,   \* unproductive turns in a row that end the loop (5)
  Churn       \* failing test runs that end it once something was edited (4)

ASSUME BuilderAssumption ==
  MaxTurns \in Nat \ {0} /\ Patience \in Nat \ {0} /\ Churn \in Nat \ {0}

Impl == "impl"      \* the module the objective names, if it names one
Test == "test"      \* the verification target, if there is one
Files == {Impl, Test}
Contents == {"none", "old", "new"}

VARIABLES
  task,      \* what the contract names: an implementation, a target
  base,      \* the workspace at the baseline commit
  ws,        \* the workspace now
  pc,        \* turn -> act -> turn ... -> ended -> returned
  call,      \* the tool the model called this turn
  b,         \* the locals of _loop and the metrics it decides on
  how,       \* how the loop ended
  out,       \* what execute() gave back
  stop       \* the Stop flag
vars == <<task, base, ws, pc, call, b, how, out, stop>>

Tools == {"list_dir", "read_file", "write_file", "edit_file", "run_tests", "finish"}
Locals ==
  [turns: 0..MaxTurns, unproductive: 0..Patience, forced: BOOLEAN, listed: 0..2,
   seen: SUBSET Files, edits: 0..MaxTurns, runs: 0..MaxTurns, passed: BOOLEAN]
Ends == {"no", "finished", "stalled", "churn", "cap", "error", "cancelled"}

TypeOK ==
  /\ task \in [impl: BOOLEAN, target: BOOLEAN]
  /\ base \in [Files -> Contents] /\ ws \in [Files -> Contents]
  /\ pc \in {"turn", "act", "ended", "returned"}
  /\ call \in Tools \union {"no"}
  /\ b \in Locals
  /\ how \in Ends
  /\ out \in {"no", "diff", "empty", "raised"}
  /\ stop \in BOOLEAN

(* A file the task names may be there or not; one it does not name is any  *)
(* other file of the repository.                                           *)
Init ==
  /\ task \in [impl: BOOLEAN, target: BOOLEAN]
  /\ base \in [Files -> {"none", "old"}]
  /\ ws = base
  /\ pc = "turn" /\ call = "no" /\ how = "no" /\ out = "no" /\ stop = FALSE
  /\ b = [turns |-> 0, unproductive |-> 0, forced |-> FALSE, listed |-> 0,
          seen |-> {}, edits |-> 0, runs |-> 0, passed |-> FALSE]

ImplMissing ==
  /\ task.impl /\ ws[Impl] = "none"
  /\ task.target => ws[Test] # "none"

CanForce(r) == ~r.forced /\ ImplMissing

(* One turn is over with the locals r: the next one begins, or the loop    *)
(* ends.                                                                   *)
Continue(r) == pc' = "turn" /\ call' = "no" /\ b' = r /\ UNCHANGED how
End(r, why) == pc' = "ended" /\ call' = "no" /\ b' = r /\ how' = why
Demanded(r) == [r EXCEPT !.forced = TRUE, !.unproductive = 0]
ForceImpl(r) == Continue(Demanded(r))
ForceOr(r, Otherwise) == IF CanForce(r) THEN ForceImpl(r) ELSE Otherwise

Fruitless(r) == [r EXCEPT !.unproductive = @ + 1]
Fruitful(r) == [r EXCEPT !.unproductive = 0]
\* one turn late
LostLate(r) == r.unproductive > Patience
Lost(r) == r.unproductive >= Patience

(* A turn that learned or changed nothing.                                 *)
Idle(r) ==
  LET n == Fruitless(r) IN
  IF Lost(n) THEN ForceOr(n, End(n, "stalled")) ELSE Continue(n)
IdleUncounted(r) == IF Lost(r) THEN ForceOr(r, End(r, "stalled")) ELSE Continue(r)

(***************************************************************************)
(* The top of a turn: the Stop flag, then the model, asked once more with  *)
(* its reply held to the grammar when it called nothing.                   *)
(***************************************************************************)
Cancelled ==
  /\ pc = "turn" /\ b.turns < MaxTurns /\ stop
  /\ End(b, "cancelled")
  /\ UNCHANGED <<task, base, ws, out, stop>>

CapReached ==
  /\ pc = "turn" /\ b.turns = MaxTurns
  /\ End(b, "cap")
  /\ UNCHANGED <<task, base, ws, out, stop>>

BeginTurn == pc = "turn" /\ b.turns < MaxTurns /\ ~stop
Turn == [b EXCEPT !.turns = @ + 1]

Ask(t) ==
  /\ BeginTurn
  /\ pc' = "act" /\ call' = t /\ b' = Turn
  /\ UNCHANGED <<task, base, ws, how, out, stop>>

\* prose is not counted as an unproductive turn
NoCallUncounted ==
  /\ BeginTurn
  /\ IdleUncounted(Turn)
  /\ UNCHANGED <<task, base, ws, out, stop>>
NoCall ==
  /\ BeginTurn
  /\ Idle(Turn)
  /\ UNCHANGED <<task, base, ws, out, stop>>

(* The model server or a file operation raises.                            *)
Fail ==
  /\ BeginTurn \/ (pc = "act" /\ call # "finish")
  /\ End(IF pc = "turn" THEN Turn ELSE b, "error")
  /\ UNCHANGED <<task, base, ws, out, stop>>

(***************************************************************************)
(* The tool bodies.                                                        *)
(***************************************************************************)
ListDir ==
  /\ pc = "act" /\ call = "list_dir"
  /\ LET r == [b EXCEPT !.listed = IF @ < 2 THEN @ + 1 ELSE @] IN
     IF b.listed = 0 THEN Continue(Fruitful(r)) ELSE Idle(r)
  /\ UNCHANGED <<task, base, ws, out, stop>>

\* reading a file again counts as news
ReadFileUnseen(f) ==
  /\ pc = "act" /\ call = "read_file"
  /\ LET r == [b EXCEPT !.seen = @ \union {f}] IN
     IF ws[f] # "none" THEN Continue(Fruitful(r)) ELSE Idle(r)
  /\ UNCHANGED <<task, base, ws, out, stop>>
\* a path that is not there, or is refused, is marked as seen too
ReadFile(f) ==
  /\ pc = "act" /\ call = "read_file"
  /\ LET r == [b EXCEPT !.seen = @ \union {f}] IN
     IF ws[f] # "none" /\ f \notin b.seen THEN Continue(Fruitful(r)) ELSE Idle(r)
  /\ UNCHANGED <<task, base, ws, out, stop>>

\* edit_file needs the file; called with `content` it overwrites like write_file
Edit(f, c) ==
  /\ pc = "act"
  /\ call = "write_file" \/ (call = "edit_file" /\ ws[f] # "none")
  /\ ws' = [ws EXCEPT ![f] = c]
  /\ Continue(Fruitful([b EXCEPT !.edits = @ + 1]))
  /\ UNCHANGED <<task, base, out, stop>>

\* a path outside the repo, missing arguments, `old` text that is not there
BadArgs ==
  /\ pc = "act" /\ call \in {"read_file", "write_file", "edit_file"}
  /\ Idle(b)
  /\ UNCHANGED <<task, base, ws, out, stop>>

RunTests(passed) ==
  /\ pc = "act" /\ call = "run_tests"
  /\ LET r == [Fruitless(b) EXCEPT !.runs = @ + 1, !.passed = passed] IN
     IF Lost(r) THEN ForceOr(r, End(r, "stalled"))
     ELSE IF passed THEN Continue(r)
     ELSE ForceOr(r, IF r.runs >= Churn /\ r.edits > 0 THEN End(r, "churn") ELSE Continue(r))
  /\ UNCHANGED <<task, base, ws, out, stop>>

\* finish is taken at its word
FinishUnchecked ==
  /\ pc = "act" /\ call = "finish"
  /\ End(b, "finished")
  /\ UNCHANGED <<task, base, ws, out, stop>>
Finish ==
  /\ pc = "act" /\ call = "finish"
  /\ ForceOr(b, End(b, "finished"))
  /\ UNCHANGED <<task, base, ws, out, stop>>

\* a Stop is one more failed build
DeliverStopped ==
  /\ pc = "ended"
  /\ pc' = "returned"
  /\ out' = IF ws # base THEN "diff" ELSE "empty"
  /\ UNCHANGED <<task, base, ws, call, b, how, stop>>
(* execute(): a Stop is raised again, any other end delivers the diff.     *)
Deliver ==
  /\ pc = "ended"
  /\ pc' = "returned"
  /\ out' = IF how = "cancelled" THEN "raised" ELSE IF ws # base THEN "diff" ELSE "empty"
  /\ UNCHANGED <<task, base, ws, call, b, how, stop>>

PressStop == pc # "returned" /\ ~stop /\ stop' = TRUE
             /\ UNCHANGED <<task, base, ws, pc, call, b, how, out>>

Loop ==
  \/ Cancelled \/ CapReached \/ NoCall \/ Fail \/ ListDir \/ BadArgs \/ Finish \/ Deliver
  \/ \E t \in Tools : Ask(t)
  \/ \E f \in Files : ReadFile(f) \/ \E c \in {"old", "new"} : Edit(f, c)
  \/ \E p \in BOOLEAN : RunTests(p)
Next == Loop \/ PressStop
Spec == Init /\ [][Next]_vars

(***************************************************************************)
(* Properties.                                                             *)
(***************************************************************************)
(* Whichever of its ways out the loop takes by itself, a task whose test   *)
(* is there and whose implementation is not has been told so, once, in so  *)
(* many words (_force_impl guards three returns and the success path).     *)
MissingImplWasDemanded ==
  (how \in {"finished", "stalled", "churn"} /\ ImplMissing) => b.forced

(* Turns are paid for: between two pieces of progress (an edit, a file     *)
(* read for the first time, the first listing, the one directive) fewer    *)
(* than Patience turns may pass, whatever mix of prose, refused calls and  *)
(* test runs the model produces.                                           *)
TurnsArePaidFor ==
  b.turns <= Patience * (b.edits + Cardinality(b.seen) + 3)

(* A Stop seen by the loop leaves execute() as an exception and never as a *)
(* build result, also when the copy already holds half of a change.        *)
StopIsNotABuild == out # "no" => (out = "raised" <=> how = "cancelled")

(***************************************************************************)
(* The inductive invariant: BuilderProofs proves it and, from it, the      *)
(* properties above.                                                       *)
(***************************************************************************)
\* where the loop is, what it waits for and how it ended agree
PlaceInv ==
  /\ pc = "act" <=> call # "no"
  /\ pc \in {"turn", "act"} <=> how = "no"
  /\ pc = "returned" <=> out # "no"
  /\ pc \in {"turn", "act"} => b.unproductive < Patience

\* every edit and test run took a turn, the one under way not counted
CountInv == b.edits + b.runs <= b.turns /\ (pc = "act" => b.edits + b.runs < b.turns)

\* what has bought turns so far
News(r) ==
  r.edits + Cardinality(r.seen) + (IF r.listed > 0 THEN 1 ELSE 0) + (IF r.forced THEN 1 ELSE 0)

\* each piece of news buys Patience turns; the rest is counted as unproductive,
\* but for a turn under way or cut short
UnderWay == IF pc = "turn" \/ b.unproductive = Patience THEN 0 ELSE 1
PaidInv == b.turns <= Patience * News(b) + b.unproductive + UnderWay

\* Between any two steps of the loop the counters account for its turns, and
\* its place, its end and its result agree.
IInv ==
  /\ TypeOK /\ PlaceInv /\ CountInv /\ PaidInv
  /\ MissingImplWasDemanded /\ StopIsNotABuild
=============================================================================
