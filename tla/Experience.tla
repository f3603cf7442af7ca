----------------------------- MODULE Experience -----------------------------
(***************************************************************************)
(* The memory of what worked: an experience is captured from a verified    *)
(* task, validated on shadow replays, promoted, advised to the planner of  *)
(* similar tasks, watched, and retired when it fails.  One process works   *)
(* on the store and may be killed between any two commits; tasks paused by *)
(* one process settle in another.                                          *)
(* The numbers of lifecycle.py are constants, rates are in twentieths,     *)
(* rounded down.                                                           *)
(***************************************************************************)
EXTENDS Integers, Sequences, FiniteSets, SequencesExt

CONSTANTS
  Tasks,        \* task slots, used again and again
  Signatures,   \* situations, as sets of tags of one task class
  Strategies,   \* what worked; "harden" touches security
  QuarantineN,  \* QUARANTINE_TRAILING_N: uses that make a failing rate count
  StaleN,       \* STALE_TRAILING_N: the same for a stale one, and the cap
  MinShadow, MinWeeks, MinHeldout,   \* the gates of promotion
  MinSamples,   \* samples a canary needs for a verdict
  MaxAdvised,   \* experiences a plan is advised of
  Enough,       \* failed uses in a row that no experience survives
  MaxExps,      \* bound: experiences in the store
  MaxShadow     \* bound: shadow replays of one experience

ASSUME NumbersAssumption ==
  /\ {QuarantineN, StaleN, MinShadow, MinWeeks, MinHeldout, MinSamples, MaxAdvised} \subseteq Nat \ {0}
  /\ QuarantineN <= StaleN /\ {MaxExps, MaxShadow} \subseteq Nat

(* What a running rate comes to: eight good uses and then eleven failures  *)
(* leave an experience live with the numbers of lifecycle.py (5 and 20);   *)
(* twelve are enough.                                                      *)
ASSUME EnoughAssumption ==
  /\ Enough \in Nat /\ Enough >= QuarantineN
  /\ 5 * Enough > 3 * (StaleN - 1)   \* for a rate below 8/20 before StaleN uses
  /\ 7 * Enough > 3 * StaleN         \* for one below 14/20 from then on

VARIABLES
  exps,      \* the table, in order of insertion
  tasks,     \* per slot: its situation, the experiences its log says it was advised of
  proc,      \* the operation the process is in, and what it still has to do
  canaries,  \* the controllers, in memory only
  streak,    \* history: failed uses in a row
  torn       \* history: experiences whose retirement a kill prevented
vars == <<exps, tasks, proc, canaries, streak, torn>>
Refs == DOMAIN exps
Slots == 1..MaxExps

-----------------------------------------------------------------------------
(* Gates                                                                   *)

TouchesSecurity(strategy) == strategy = "harden"
SignaturesMatch(a, b) == a = {} \/ b = {} \/ a \cap b # {}

Live == {"PROMOTED", "MONITORED"}
Retired == {"STALE", "QUARANTINED"}
States == {"OBSERVED", "CANDIDATE", "VALIDATED"} \union Live \union Retired
ALLOWED ==
  [s \in States |->
    CASE s = "OBSERVED"  -> {"CANDIDATE", "QUARANTINED"}
      [] s = "CANDIDATE" -> {"VALIDATED", "QUARANTINED"}
      [] s = "VALIDATED" -> {"PROMOTED", "QUARANTINED"}
      [] s = "PROMOTED"  -> {"MONITORED", "STALE", "QUARANTINED"}
      [] s = "MONITORED" -> {"STALE", "QUARANTINED"}
      [] s \in Retired   -> {}]

Represented(sig, strategy) ==
  \E i \in Refs : exps[i].sig = sig /\ exps[i].strategy = strategy
\* what is represented already is a candidate again
GateAlways(sig, strategy) == "CANDIDATE"
(* Verified at T0, as every task is.                                       *)
GateObserved(sig, strategy) == IF Represented(sig, strategy) THEN "OBSERVED" ELSE "CANDIDATE"

GateCandidate(shadow) ==
  /\ shadow.n >= MinShadow /\ 100 * shadow.passed >= 80 * shadow.n
  /\ shadow.n - shadow.costly > shadow.n \div 2     \* the median cost is low
  /\ shadow.weeks >= MinWeeks

(* The stub: its held-out tasks are the shadow replays, its drop is that   *)
(* of their rate from 96.875 %, the mean baseline of the guardrail set.    *)
GuardrailHolds(shadow) == 96875 * shadow.n - 100000 * shadow.passed <= 2000 * shadow.n
GateValidated(shadow) == shadow.n >= MinHeldout /\ GuardrailHolds(shadow)
\* nobody is asked
PromoteDecisionAlone(exp, approved) == GateValidated(exp.shadow)
PromoteDecision(exp, approved) ==
  GateValidated(exp.shadow) /\ (TouchesSecurity(exp.strategy) => approved)

(* A report: held-out tasks with and without the change, the guardrail,    *)
(* and a human where the text it was given touches security.  The callers  *)
(* give an experience's id, or its strategy.                               *)
ReportPromotes(r, exp, approved) ==
  /\ r.heldout >= MinHeldout /\ r.delta >= 0 /\ r.guarded
  /\ r.named /\ TouchesSecurity(exp.strategy) => approved
Reports == [heldout : {MinHeldout - 1, MinHeldout}, delta : {-1, 0}, guarded : BOOLEAN, named : BOOLEAN]

ShouldQuarantine(exp, catastrophic) ==
  catastrophic \/ (exp.n >= QuarantineN /\ exp.rate < 8)
ShouldGoStale(exp) == exp.n >= StaleN /\ exp.rate < 14

-----------------------------------------------------------------------------
NoShadow == [n |-> 0, passed |-> 0, costly |-> 0, weeks |-> 0]
Fresh(state, sig, strategy) ==
  [state |-> state, sig |-> sig, strategy |-> strategy, shadow |-> NoShadow, n |-> 0, rate |-> 20]
NoTask == [pc |-> "idle", sig |-> {}, refs |-> <<>>]
Idle == [op |-> "none", task |-> "", verified |-> FALSE, by |-> "", todo |-> <<>>, target |-> ""]
NoCanary == [n |-> 0, passed |-> 0, verdict |-> "HOLD"]

Init ==
  /\ exps = <<>> /\ proc = Idle
  /\ tasks = [t \in Tasks |-> NoTask]
  /\ canaries = [i \in Slots |-> NoCanary]
  /\ streak = [i \in Slots |-> 0] /\ torn = {}

(* record_use, first commit: the trailing rate.  Then the retirement that  *)
(* is due, if the lifecycle has that edge.                                 *)
\* the count of uses is not cut at StaleN
CountedUncut(exp, verified) ==
  [exp EXCEPT !.n = @ + 1, !.rate = (@ * exp.n + (IF verified THEN 20 ELSE 0)) \div (exp.n + 1)]
Counted(exp, verified) ==
  [exp EXCEPT !.n = IF @ < StaleN THEN @ + 1 ELSE StaleN,
              !.rate = (@ * exp.n + (IF verified THEN 20 ELSE 0)) \div (exp.n + 1)]
Due(exp, catastrophic) ==
  CASE ShouldQuarantine(exp, catastrophic) /\ exp.state # "QUARANTINED" -> "QUARANTINED"
    [] ~(ShouldQuarantine(exp, catastrophic) /\ exp.state # "QUARANTINED")
       /\ ShouldGoStale(exp) /\ exp.state \in Live -> "STALE"
    [] OTHER -> ""
Popped(p) == [p EXCEPT !.todo = Tail(@), !.target = ""]
RecordUse(i, verified, catastrophic) ==
  LET exp == IF exps[i].state \in Retired THEN exps[i] ELSE Counted(exps[i], verified)
      due == Due(exp, catastrophic) IN
  /\ exps' = [exps EXCEPT ![i] = exp]
  /\ streak' = [streak EXCEPT ![i] = IF verified \/ exp.state \in Retired THEN 0 ELSE IF @ < Enough THEN @ + 1 ELSE Enough]
  /\ IF due = "" THEN proc' = Popped(proc) /\ UNCHANGED tasks
     ELSE IF due \in ALLOWED[exp.state] THEN proc' = [proc EXCEPT !.target = due] /\ UNCHANGED tasks
     ELSE /\ proc' = Idle      \* ValueError: the task fails
          /\ tasks' = IF proc.task \in Tasks THEN [tasks EXCEPT ![proc.task] = NoTask] ELSE tasks
(* record_use, second commit.  The numbers of what is retired are not read *)
(* again.                                                                  *)
Advance ==
  /\ proc.target # ""
  /\ LET i == Head(proc.todo)
         retires == proc.target \in Retired IN
     /\ exps' = [exps EXCEPT ![i] = IF retires THEN Fresh(proc.target, @.sig, @.strategy)
                                    ELSE [@ EXCEPT !.state = proc.target]]
     /\ torn' = torn \ {i}
     /\ IF retires THEN /\ streak' = [streak EXCEPT ![i] = 0]
                        /\ canaries' = [canaries EXCEPT ![i] = NoCanary]
        ELSE UNCHANGED <<streak, canaries>>
  /\ proc' = Popped(proc) /\ UNCHANGED tasks

At(op) == proc.op = op /\ proc.target = ""

-----------------------------------------------------------------------------
(* Advice: a retrieval is recorded as a verified use, of every match, in   *)
(* order of insertion.                                                     *)
InOrder(S) ==
  {s \in UNION {[1..n -> S] : n \in 0..Len(exps)} :
     ToSet(s) = S /\ \A j, k \in DOMAIN s : j < k => s[j] < s[k]}
Retrieve(sig) == {i \in Refs : exps[i].state \in Live /\ SignaturesMatch(exps[i].sig, sig)}
Advise(t) ==
  /\ proc = Idle /\ tasks[t].pc = "idle"
  /\ \E sig \in Signatures : \E matches \in InOrder(Retrieve(sig)) :
       /\ proc' = [Idle EXCEPT !.op = "advise", !.task = t, !.todo = matches]
       /\ tasks' = [tasks EXCEPT ![t] =
            [pc |-> "planning", sig |-> sig,
             refs |-> SubSeq(matches, 1, IF Len(matches) < MaxAdvised THEN Len(matches) ELSE MaxAdvised)]]
  /\ UNCHANGED <<exps, canaries, streak, torn>>
UseAdvice ==
  /\ At("advise") /\ proc.todo # <<>>
  /\ RecordUse(Head(proc.todo), TRUE, FALSE)
  /\ UNCHANGED <<canaries, torn>>
(* The message names the first matches.                                    *)
Message ==
  /\ At("advise") /\ proc.todo = <<>>
  /\ tasks' = [tasks EXCEPT ![proc.task].pc = "work"]
  /\ proc' = Idle
  /\ UNCHANGED <<exps, canaries, streak, torn>>

-----------------------------------------------------------------------------
(* The end of a task                                                       *)

(* A task that passed is captured, whatever the plan's intents were.       *)
Capture(t) ==
  \E strategy \in Strategies :
    exps' = IF Len(exps) = MaxExps THEN exps
            ELSE Append(exps, Fresh(GateObserved(tasks[t].sig, strategy), tasks[t].sig, strategy))
Complete(t) ==
  /\ proc = Idle /\ tasks[t].pc = "work" /\ Capture(t)
  /\ proc' = [Idle EXCEPT !.op = "settle", !.task = t, !.verified = TRUE, !.todo = tasks[t].refs]
  /\ UNCHANGED <<tasks, canaries, streak, torn>>
Fail(t) ==
  /\ proc = Idle /\ tasks[t].pc = "work"
  /\ proc' = [Idle EXCEPT !.op = "settle", !.task = t, !.todo = tasks[t].refs]
  /\ UNCHANGED <<exps, tasks, canaries, streak, torn>>
(* The independent verifier contradicts a pass.                            *)
Contradict(t) ==
  /\ proc = Idle /\ tasks[t].pc = "work"
  /\ proc' = [Idle EXCEPT !.op = "flag", !.task = t, !.todo = tasks[t].refs]
  /\ UNCHANGED <<exps, tasks, canaries, streak, torn>>

\* one more failed use, no catastrophe
FlagCounted ==
  /\ At("flag") /\ proc.todo # <<>>
  /\ RecordUse(Head(proc.todo), FALSE, FALSE)
  /\ UNCHANGED <<canaries, torn>>
(* Everything advised is quarantined; one gone stale has no such edge.     *)
Flag ==
  /\ At("flag") /\ proc.todo # <<>>
  /\ RecordUse(Head(proc.todo), FALSE, TRUE)
  /\ UNCHANGED <<canaries, torn>>
Flagged ==
  /\ At("flag") /\ proc.todo = <<>>
  /\ tasks' = [tasks EXCEPT ![proc.task] = NoTask]
  /\ proc' = Idle
  /\ UNCHANGED <<exps, canaries, streak, torn>>

(* The baseline is the success score, 1.0, less 15 points.                 *)
Recorded(c, verified) ==
  LET n == c.n + 1
      passed == c.passed + (IF verified THEN 1 ELSE 0) IN
  IF n < MinSamples THEN [n |-> n, passed |-> passed, verdict |-> "HOLD"]
  ELSE [NoCanary EXCEPT !.verdict = IF 100 * passed < 85 * n THEN "ROLLBACK" ELSE "PROMOTE"]
Settling(i) == exps[i].state \in Live /\ canaries[i].verdict = "HOLD"
\* the rollback is one more failed use
RollbackCounted(i) == RecordUse(i, FALSE, FALSE)
Rollback(i) == RecordUse(i, FALSE, TRUE)
(* A task of the sample counts for the canary of what it was advised of.   *)
SettleCanary ==
  /\ At("settle") /\ proc.todo # <<>> /\ Settling(Head(proc.todo))
  /\ LET i == Head(proc.todo)
         c == Recorded(canaries[i], proc.verified) IN
     /\ canaries' = [canaries EXCEPT ![i] = c]
     /\ IF c.verdict = "ROLLBACK" THEN Rollback(i)
        ELSE proc' = Popped(proc) /\ UNCHANGED <<exps, tasks, streak>>
  /\ UNCHANGED torn
(* Retired, settled already, or not of the sample.                         *)
SettleOther ==
  /\ At("settle") /\ proc.todo # <<>>
  /\ proc' = Popped(proc)
  /\ UNCHANGED <<exps, tasks, canaries, streak, torn>>
Settled ==
  /\ At("settle") /\ proc.todo = <<>>
  /\ tasks' = [tasks EXCEPT ![proc.task] = NoTask]
  /\ proc' = Idle
  /\ UNCHANGED <<exps, canaries, streak, torn>>

-----------------------------------------------------------------------------
(* Maintenance, which only the tests of the repository run                 *)

Report(i) ==
  /\ proc = Idle /\ exps[i].state \in Live
  /\ proc' = [Idle EXCEPT !.op = "report", !.todo = <<i>>]
  /\ UNCHANGED <<exps, tasks, canaries, streak, torn>>
UseReported ==
  /\ At("report") /\ proc.todo # <<>>
  /\ \E verified \in BOOLEAN : RecordUse(Head(proc.todo), verified, FALSE)
  /\ UNCHANGED <<canaries, torn>>

AddShadow(i) ==
  /\ proc = Idle /\ exps[i].state \in {"CANDIDATE", "VALIDATED"} /\ exps[i].shadow.n < MaxShadow
  /\ \E verified, costly, week \in {0, 1} :
       exps' = [exps EXCEPT ![i].shadow =
         [n |-> @.n + 1, passed |-> @.passed + verified, costly |-> @.costly + costly,
          weeks |-> IF @.n = 0 THEN 1 ELSE IF @.weeks < MinWeeks THEN @.weeks + week ELSE @.weeks]]
  /\ UNCHANGED <<tasks, proc, canaries, streak, torn>>
TryValidate(i) ==
  /\ proc = Idle /\ exps[i].state = "CANDIDATE" /\ GateCandidate(exps[i].shadow)
  /\ exps' = [exps EXCEPT ![i].state = "VALIDATED"]
  /\ UNCHANGED <<tasks, proc, canaries, streak, torn>>
(* On whose word an experience can be promoted, if on any.                 *)
Words(exp, approved) ==
  LET word(named) == IF approved THEN "human" ELSE IF named THEN "numbers" ELSE "report" IN
  {word(r.named) : r \in {q \in Reports : ReportPromotes(q, exp, approved)}}
    \union {word(TRUE) : x \in {y \in {exp} : PromoteDecision(y, approved)}}
(* PROMOTED and MONITORED are two commits; nothing finishes the second.    *)
TryPromote(i) ==
  /\ proc = Idle /\ exps[i].state = "VALIDATED"
  /\ \E approved \in BOOLEAN :
     \E by \in Words(exps[i], approved) :
       proc' = [Idle EXCEPT !.op = "promote", !.by = by, !.todo = <<i>>, !.target = "MONITORED"]
  /\ exps' = [exps EXCEPT ![i].state = "PROMOTED", ![i].shadow = NoShadow]
  /\ UNCHANGED <<tasks, canaries, streak, torn>>
SweepStale ==
  /\ proc = Idle
  /\ \E due \in InOrder({i \in Refs : exps[i].state \in Live /\ ShouldGoStale(exps[i])}) :
       due # <<>> /\ proc' = [Idle EXCEPT !.op = "sweep", !.todo = due]
  /\ UNCHANGED <<exps, tasks, canaries, streak, torn>>
Sweep ==
  /\ At("sweep") /\ proc.todo # <<>>
  /\ proc' = [proc EXCEPT !.target = "STALE"]
  /\ UNCHANGED <<exps, tasks, canaries, streak, torn>>
Done ==
  /\ proc.op \in {"report", "promote", "sweep"} /\ proc.todo = <<>>
  /\ proc' = Idle
  /\ UNCHANGED <<exps, tasks, canaries, streak, torn>>

(* The process is killed; another takes over the store and the log.        *)
Kill ==
  /\ proc' = Idle
  /\ canaries' = [i \in Slots |-> NoCanary]
  /\ torn' = IF proc.target \in Retired THEN torn \union {Head(proc.todo)} ELSE torn
  /\ tasks' = IF proc.op \in {"advise", "settle"} THEN [tasks EXCEPT ![proc.task] = NoTask] ELSE tasks
  /\ UNCHANGED <<exps, streak>>

Next ==
  \/ \E t \in Tasks : Advise(t) \/ Complete(t) \/ Fail(t) \/ Contradict(t)
  \/ \E i \in Refs : Report(i) \/ AddShadow(i) \/ TryValidate(i) \/ TryPromote(i)
  \/ UseAdvice \/ Message \/ Flag \/ Flagged \/ SettleCanary \/ SettleOther \/ Settled
  \/ UseReported \/ SweepStale \/ Sweep \/ Advance \/ Done \/ Kill
Spec == Init /\ [][Next]_vars

-----------------------------------------------------------------------------
ShadowType == [n : 0..MaxShadow, passed : Nat, costly : Nat, weeks : Nat]
ExpType == [state : States, sig : Signatures, strategy : Strategies,
            shadow : ShadowType, n : 0..StaleN, rate : 0..20]
TaskType == {NoTask} \union [pc : {"planning", "work"}, sig : Signatures, refs : Seq(Refs)]
ProcType ==
  [op : {"none", "advise", "settle", "flag", "report", "promote", "sweep"},
   task : Tasks \union {""}, verified : BOOLEAN, by : {"", "human", "numbers", "report"},
   todo : Seq(Refs), target : {"", "MONITORED"} \union Retired]
CanaryType == [n : Nat, passed : Nat, verdict : {"HOLD", "PROMOTE", "ROLLBACK"}]
TypeOK ==
  /\ exps \in Seq(ExpType) /\ Len(exps) <= MaxExps
  /\ \A i \in Refs : exps[i].shadow.passed <= exps[i].shadow.n
  /\ tasks \in [Tasks -> TaskType] /\ \A t \in Tasks : Len(tasks[t].refs) <= MaxAdvised
  /\ proc \in ProcType /\ torn \subseteq Refs
  /\ canaries \in [Slots -> CanaryType] /\ streak \in [Slots -> 0..Enough]

(* One row of a situation and strategy gets onto the way to promotion: the *)
(* others stay what was observed.                                          *)
OneCandidate ==
  \A i, j \in Refs : i # j /\ exps[i].sig = exps[j].sig /\ exps[i].strategy = exps[j].strategy =>
    "OBSERVED" \in {exps[i].state, exps[j].state}

(* However long and well an experience served, it does not outlive enough  *)
(* failed uses in a row, unless a kill prevented its retirement.           *)
FailingIsRetired ==
  \A i \in Refs : streak[i] = Enough /\ i \notin torn /\ proc.target = "" => exps[i].state \notin Live

(* When a contradicted pass is dealt with and no exception cut it short,   *)
(* everything the task was advised of is quarantined.                      *)
ContradictedIsQuarantined ==
  [][proc.op = "flag" /\ proc'.op = "none" /\ proc.todo = <<>> =>
       \A i \in ToSet(tasks[proc.task].refs) : exps[i].state = "QUARANTINED"]_vars

(* A canary that says rollback takes its experience out of the plans,      *)
(* unless a kill came in between.                                          *)
RollbackRetires ==
  \A i \in Refs : canaries[i].verdict = "ROLLBACK" /\ i \notin torn /\ proc.target = "" =>
    exps[i].state \notin Live

(* What is promoted has enough shadow replays in enough weeks, and a human *)
(* saw it if its strategy touches security, unless it is promoted on a     *)
(* report that did not name the strategy.                                  *)
PromotionIsEarned ==
  [][\A i \in Refs : exps'[i].state = "PROMOTED" /\ exps[i].state # "PROMOTED" =>
       /\ exps[i].shadow.n >= MinShadow /\ exps[i].shadow.weeks >= MinWeeks
       /\ TouchesSecurity(exps[i].strategy) => proc'.by \in {"human", "report"}]_vars

(* What the operation the process is in has to do: what it was given, and  *)
(* was once promoted; the edge of the lifecycle that is due is that of the *)
(* first of them.                                                          *)
ProcInv ==
  /\ proc.op = "none" => proc = Idle
  /\ proc.op \in {"advise", "settle", "flag"} => proc.task \in Tasks
  /\ proc.op = "advise" => tasks[proc.task].pc = "planning"
  /\ \A i \in ToSet(proc.todo) : exps[i].state \in Live \union Retired
  /\ proc.target # "" => proc.todo # <<>>
(* What a plan was advised of is never again what it was before it was     *)
(* promoted.                                                               *)
AdvisedInv ==
  \A t \in Tasks : \A i \in ToSet(tasks[t].refs) : exps[i].state \in Live \union Retired
(* What was validated has its replays, and they are not taken away.        *)
ValidatedInv ==
  \A i \in Refs : exps[i].state = "VALIDATED" =>
    exps[i].shadow.n >= MinShadow /\ exps[i].shadow.weeks >= MinWeeks
(* A canary says rollback only for as long as the retirement is due.       *)
RollbackInv ==
  \A i \in Slots : canaries[i].verdict = "ROLLBACK" =>
    proc.op = "settle" /\ proc.target = "QUARANTINED" /\ Head(proc.todo) = i
(* While a contradicted pass is dealt with, what its task was advised of   *)
(* is quarantined or still to do.                                          *)
FlagInv ==
  proc.op = "flag" =>
    /\ proc.target \in {"", "QUARANTINED"}
    /\ \A i \in ToSet(tasks[proc.task].refs) :
         i \in ToSet(proc.todo) \/ exps[i].state = "QUARANTINED"
(* Each failure in a row has taken its share of the rate.                  *)
ShareTaken(exp, failures) ==
  /\ exp.n < StaleN => exp.rate * exp.n <= 20 * (exp.n - failures)
  /\ exp.n = StaleN => exp.rate * (StaleN + failures) <= 20 * StaleN
(* A row that has failed often enough is torn or about to be retired; what *)
(* has just been promoted has not failed.                                  *)
FailingInv ==
  /\ \A i \in Slots : streak[i] # 0 => i \in Refs /\ exps[i].state \in Live
  /\ \A i \in Refs :
       /\ ShareTaken(exps[i], streak[i])
       /\ streak[i] = Enough /\ i \notin torn =>
            proc.target \in Retired /\ Head(proc.todo) = i
  /\ proc.target = "MONITORED" => streak[Head(proc.todo)] = 0

(* What holds of the store between any two commits: types, one row of a    *)
(* situation and strategy on the way to promotion, none in the plans that  *)
(* a canary rolled back, what the operation under way still owes, and what *)
(* failures have taken from the rates.                                     *)
MemoryInv ==
  /\ TypeOK /\ OneCandidate /\ RollbackRetires
  /\ ProcInv /\ AdvisedInv /\ ValidatedInv /\ RollbackInv /\ FlagInv /\ FailingInv
=============================================================================
