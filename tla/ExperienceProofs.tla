--------------------------- MODULE ExperienceProofs ---------------------------
(***************************************************************************)
(* Proofs about Experience, for any tasks, situations, strategies and any  *)
(* gates: however the uses, replays, verdicts and kills follow each other, *)
(* one row of a situation and strategy is on the way to promotion, what a  *)
(* canary rolled back leaves the plans, a contradicted pass quarantines    *)
(* what it was advised of, what is promoted has earned it, and enough      *)
(* failures in a row retire.                                               *)
(***************************************************************************)
EXTENDS Experience, SequenceTheorems, TLAPS

-----------------------------------------------------------------------------
(* Lemmas about the sequences                                              *)

\* What is done and what is left of a list of rows.
LEMMA TodoList ==
  ASSUME NEW S, NEW s \in Seq(S), s # <<>>
  PROVE  /\ Head(s) \in S /\ Head(s) \in ToSet(s)
         /\ Tail(s) \in Seq(S)
         /\ ToSet(s) = {Head(s)} \union ToSet(Tail(s))
<1>1. /\ Len(s) \in Nat \ {0} /\ DOMAIN s = 1 .. Len(s) /\ Head(s) = s[1]
  BY LenProperties, EmptySeq
<1>2. /\ Head(s) \in S /\ Tail(s) \in Seq(S) /\ Len(Tail(s)) = Len(s) - 1
      /\ \A i \in 1 .. Len(Tail(s)) : Tail(s)[i] = s[i + 1]
  BY HeadTailProperties
<1>3. DOMAIN Tail(s) = 1 .. (Len(s) - 1)
  BY <1>2, LenProperties
<1>4. ToSet(s) \subseteq {Head(s)} \union ToSet(Tail(s))
  <2> SUFFICES ASSUME NEW i \in DOMAIN s, i # 1
               PROVE  s[i] \in ToSet(Tail(s))
    BY <1>1 DEF ToSet
  <2>1. i - 1 \in DOMAIN Tail(s) /\ Tail(s)[i - 1] = s[(i - 1) + 1] /\ (i - 1) + 1 = i
    BY <1>1, <1>2, <1>3
  <2> QED
    BY <2>1 DEF ToSet
<1>5. ToSet(Tail(s)) \subseteq ToSet(s)
  <2> SUFFICES ASSUME NEW i \in DOMAIN Tail(s)
               PROVE  Tail(s)[i] \in ToSet(s)
    BY DEF ToSet
  <2>1. i + 1 \in DOMAIN s /\ Tail(s)[i] = s[i + 1]
    BY <1>1, <1>2, <1>3
  <2> QED
    BY <2>1 DEF ToSet
<1>6. Head(s) \in ToSet(s)
  BY <1>1 DEF ToSet
<1> QED
  BY <1>2, <1>4, <1>5, <1>6

\* The elements of a list are of its set, those of the empty one are none.
LEMMA Elements ==
  /\ ToSet(<<>>) = {}
  /\ \A S : \A s \in Seq(S) : ToSet(s) \subseteq S
  /\ \A S : \A T : S \subseteq T => Seq(S) \subseteq Seq(T)
<1>1. ToSet(<<>>) = {}
  BY DEF ToSet
<1>2. ASSUME NEW S, NEW s \in Seq(S) PROVE ToSet(s) \subseteq S
  BY <1>2, LenProperties, ElementOfSeq DEF ToSet
<1>3. ASSUME NEW S, NEW T, S \subseteq T PROVE Seq(S) \subseteq Seq(T)
  BY <1>3, SeqMonotonic
<1> QED
  BY <1>1, <1>2, <1>3

\* A list of one.
LEMMA Singletons == \A S : \A x \in S : <<x>> \in Seq(S) /\ ToSet(<<x>>) = {x}
BY DEF ToSet

\* A beginning of a list is a list of some of its elements.
LEMMA Beginning ==
  ASSUME NEW S, NEW s \in Seq(S), NEW m \in Nat, m <= Len(s)
  PROVE  /\ SubSeq(s, 1, m) \in Seq(S) /\ Len(SubSeq(s, 1, m)) = m
         /\ ToSet(SubSeq(s, 1, m)) \subseteq ToSet(s)
<1>1. Len(s) \in Nat /\ DOMAIN s = 1 .. Len(s) /\ \A i \in 1 .. Len(s) : s[i] \in S
  BY LenProperties, ElementOfSeq
<1>2. \A i \in 1 .. m : i \in 1 .. Len(s)
  BY <1>1
<1>3. /\ SubSeq(s, 1, m) \in Seq(S)
      /\ Len(SubSeq(s, 1, m)) = IF 1 <= m THEN m - 1 + 1 ELSE 0
      /\ \A i \in 1 .. m - 1 + 1 : SubSeq(s, 1, m)[i] = s[1 + i - 1]
  BY <1>1, <1>2, SubSeqProperties
<1>4. Len(SubSeq(s, 1, m)) = m
  BY <1>3
<1>5. DOMAIN SubSeq(s, 1, m) = 1 .. m
  BY <1>3, <1>4, LenProperties
<1>6. \A i \in 1 .. m : SubSeq(s, 1, m)[i] = s[i]
  BY <1>3
<1> QED
  BY <1>1, <1>2, <1>3, <1>4, <1>5, <1>6 DEF ToSet

\* The rows of a set in order of insertion are a list of these rows.
LEMMA Ordered ==
  ASSUME TypeOK, NEW S \in SUBSET Refs, NEW s \in InOrder(S)
  PROVE  s \in Seq(Refs) /\ ToSet(s) = S /\ Len(s) \in Nat
<1>1. Len(exps) \in Nat
  BY LenProperties DEF TypeOK
<1>2. PICK n \in 0 .. Len(exps) : s \in [1 .. n -> S]
  BY DEF InOrder
<1>3. n \in Nat
  BY <1>1
<1>4. s \in Seq(S)
  BY <1>2, <1>3
<1> QED
  BY <1>4, Elements, LenProperties DEF InOrder

\* A row is replaced by another one.
LEMMA RowReplaced ==
  ASSUME TypeOK, NEW i \in Refs, NEW e \in ExpType
  PROVE  /\ [exps EXCEPT ![i] = e] \in Seq(ExpType)
         /\ Len([exps EXCEPT ![i] = e]) = Len(exps)
         /\ DOMAIN [exps EXCEPT ![i] = e] = Refs
         /\ [exps EXCEPT ![i] = e][i] = e
         /\ \A j \in Refs : j # i => [exps EXCEPT ![i] = e][j] = exps[j]
<1>1. exps \in Seq(ExpType) /\ Refs = 1 .. Len(exps)
  BY LenProperties DEF TypeOK, Refs
<1> QED
  BY <1>1, ExceptSeq DEF Refs

\* The operations of a process that has nothing to do.
LEMMA IdleProc ==
  /\ Idle \in ProcType /\ Idle.op = "none" /\ Idle.todo = <<>> /\ Idle.target = ""
  /\ NoTask \in TaskType /\ NoTask.refs = <<>> /\ Len(NoTask.refs) = 0
  /\ NoCanary \in CanaryType /\ NoCanary.verdict = "HOLD"
<1>1. <<>> \in Seq(Refs) /\ Len(<<>>) = 0
  BY EmptySeq
<1> QED
  BY <1>1 DEF Idle, NoTask, NoCanary, ProcType, TaskType, CanaryType

\* The rows are of their type, and there are controllers for them.
LEMMA Rows ==
  ASSUME TypeOK
  PROVE  /\ Len(exps) \in Nat /\ Refs = 1 .. Len(exps) /\ Refs \subseteq Slots
         /\ \A i \in Refs : exps[i] \in ExpType
         /\ ToSet(proc.todo) \subseteq Refs
         /\ \A t \in Tasks : ToSet(tasks[t].refs) \subseteq Refs
<1>1. Len(exps) \in Nat /\ Refs = 1 .. Len(exps) /\ Len(exps) <= MaxExps
  BY LenProperties DEF TypeOK, Refs
<1>2. MaxExps \in Nat
  BY NumbersAssumption
<1>3. Refs \subseteq Slots
  BY <1>1, <1>2 DEF Slots
<1>4. \A i \in Refs : exps[i] \in ExpType
  BY <1>1, ElementOfSeq DEF TypeOK
<1>5. proc.todo \in Seq(Refs) /\ \A t \in Tasks : tasks[t].refs \in Seq(Refs)
  BY IdleProc, EmptySeq DEF TypeOK, ProcType, TaskType
<1> QED
  BY <1>1, <1>3, <1>4, <1>5, Elements

-----------------------------------------------------------------------------
(* Lemmas about the uses of an experience                                  *)

\* A trailing rate in twentieths stays one.
LEMMA TrailingRate ==
  \A r \in 0 .. 20, n \in Nat, add \in {0, 20} : (r * n + add) \div (n + 1) \in 0 .. 20
<1> SUFFICES ASSUME NEW r \in 0 .. 20, NEW n \in Nat, NEW add \in {0, 20}
             PROVE  (r * n + add) \div (n + 1) \in 0 .. 20
  OBVIOUS
<1>1. r * n \in Nat /\ r * n <= 20 * n
  OBVIOUS
<1>2. r * n + add \in Nat /\ r * n + add <= 20 * (n + 1)
  BY <1>1
<1>3. \A x, d \in Nat : d # 0 /\ x <= 20 * d => x \div d \in 0 .. 20
  OBVIOUS
<1> QED
  BY <1>2, <1>3

\* Failed uses in a row are told apart up to Enough.
LEMMA FailedUses ==
  /\ 0 \in 0..Enough
  /\ \A k \in 0..Enough : (IF k < Enough THEN k + 1 ELSE Enough) \in 0..Enough
<1>1. Enough \in Nat
  BY EnoughAssumption
<1>2. \A k \in 0..Enough : k < Enough => k + 1 \in 0..Enough
  BY <1>1
<1>3. 0 \in 0..Enough /\ Enough \in 0..Enough
  BY <1>1
<1> QED
  BY <1>2, <1>3, Zenon

\* A counted use changes the numbers only.
LEMMA CountedRow ==
  ASSUME NEW exp \in ExpType, NEW verified \in BOOLEAN
  PROVE  /\ Counted(exp, verified) \in ExpType
         /\ Counted(exp, verified).state = exp.state
         /\ Counted(exp, verified).sig = exp.sig
         /\ Counted(exp, verified).strategy = exp.strategy
         /\ Counted(exp, verified).shadow = exp.shadow
<1> DEFINE add == IF verified THEN 20 ELSE 0
           count == IF exp.n < StaleN THEN exp.n + 1 ELSE StaleN
           rate == (exp.rate * exp.n + add) \div (exp.n + 1)
<1>1. Counted(exp, verified) = [exp EXCEPT !.n = count, !.rate = rate]
  BY DEF Counted
<1>2. exp.n \in Nat /\ exp.n \in 0 .. StaleN /\ exp.rate \in 0 .. 20 /\ StaleN \in Nat /\ add \in {0, 20}
  BY NumbersAssumption DEF ExpType
<1>3. count \in 0 .. StaleN
  BY <1>2
<1>4. rate \in 0 .. 20
  BY <1>2, TrailingRate
<1> HIDE DEF count, rate, add
<1> QED
  BY <1>1, <1>3, <1>4 DEF ExpType

\* What one use does: the row keeps its state; then nothing is due, or the
\* retirement is, or the lifecycle has no such edge and the operation is over.  A
\* catastrophe quarantines what is in the plans.
LEMMA UseOfRow ==
  ASSUME TypeOK, ProcInv, proc.todo # <<>>, proc.target = "",
         NEW verified \in BOOLEAN, NEW catastrophic \in BOOLEAN,
         RecordUse(Head(proc.todo), verified, catastrophic)
  PROVE  /\ exps' \in Seq(ExpType) /\ Len(exps') = Len(exps) /\ Refs' = Refs
         /\ \A j \in Refs : /\ exps'[j].state = exps[j].state
                            /\ exps'[j].sig = exps[j].sig
                            /\ exps'[j].strategy = exps[j].strategy
                            /\ exps'[j].shadow = exps[j].shadow
         /\ streak' \in [Slots -> 0..Enough]
         /\ \/ /\ proc' = Popped(proc) /\ tasks' = tasks
               /\ catastrophic => exps[Head(proc.todo)].state = "QUARANTINED"
            \/ /\ tasks' = tasks
               /\ \E due \in Retired : /\ proc' = [proc EXCEPT !.target = due]
                                       /\ catastrophic => due = "QUARANTINED"
            \/ /\ proc' = Idle
               /\ tasks' = IF proc.task \in Tasks THEN [tasks EXCEPT ![proc.task] = NoTask] ELSE tasks
               /\ catastrophic => exps[Head(proc.todo)].state \notin Live
<1> DEFINE i == Head(proc.todo)
           exp == IF exps[i].state \in Retired THEN exps[i] ELSE Counted(exps[i], verified)
           due == Due(exp, catastrophic)
<1>1. TypeOK /\ ProcInv
  OBVIOUS
<1>2. i \in Refs /\ i \in ToSet(proc.todo) /\ i \in Slots
  BY <1>1, TodoList, Rows DEF TypeOK, ProcType
<1>3. exps[i] \in ExpType
  BY <1>1, <1>2, Rows
<1>4. /\ exp \in ExpType /\ exp.state = exps[i].state /\ exp.sig = exps[i].sig
      /\ exp.strategy = exps[i].strategy /\ exp.shadow = exps[i].shadow
  BY <1>3, CountedRow
<1>5. exps[i].state \in Live \union Retired
  BY <1>1, <1>2 DEF ProcInv
<1>6. /\ due \in {"", "QUARANTINED", "STALE"}
      /\ catastrophic /\ due = "" => exp.state = "QUARANTINED"
      /\ catastrophic /\ due # "" => due = "QUARANTINED"
      /\ due # "" => due \in Retired
  BY <1>4, <1>5 DEF Due, ShouldQuarantine, Live, Retired
<1>7. exp.state \in Live => "QUARANTINED" \in ALLOWED[exp.state]
  BY DEF ALLOWED, Live, Retired, States
<1>8. /\ exps' = [exps EXCEPT ![i] = exp]
      /\ streak' = [streak EXCEPT ![i] = IF verified \/ exp.state \in Retired THEN 0
                                         ELSE IF @ < Enough THEN @ + 1 ELSE Enough]
      /\ IF due = "" THEN proc' = Popped(proc) /\ UNCHANGED tasks
         ELSE IF due \in ALLOWED[exp.state] THEN proc' = [proc EXCEPT !.target = due] /\ UNCHANGED tasks
         ELSE /\ proc' = Idle
              /\ tasks' = IF proc.task \in Tasks THEN [tasks EXCEPT ![proc.task] = NoTask] ELSE tasks
  BY DEF RecordUse
<1> HIDE DEF exp, due, i
<1>9. /\ exps' \in Seq(ExpType) /\ Len(exps') = Len(exps) /\ Refs' = Refs
      /\ exps'[i] = exp /\ \A j \in Refs : j # i => exps'[j] = exps[j]
  BY <1>1, <1>2, <1>4, <1>8, RowReplaced DEF Refs
<1>10. \A j \in Refs : /\ exps'[j].state = exps[j].state
                       /\ exps'[j].sig = exps[j].sig
                       /\ exps'[j].strategy = exps[j].strategy
                       /\ exps'[j].shadow = exps[j].shadow
  BY <1>2, <1>4, <1>9
<1>11. streak' \in [Slots -> 0..Enough]
  <2>1. streak \in [Slots -> 0..Enough] /\ streak[i] \in 0..Enough
    BY <1>1, <1>2 DEF TypeOK
  <2> DEFINE more == IF streak[i] < Enough THEN streak[i] + 1 ELSE Enough
             u == IF verified \/ exp.state \in Retired THEN 0 ELSE more
  <2>2. streak' = [streak EXCEPT ![i] = u]
    BY <1>8
  <2>3. 0 \in 0..Enough /\ more \in 0..Enough
    BY <2>1, FailedUses, Zenon
  <2> HIDE DEF more
  <2>4. u \in 0..Enough
    BY <2>3
  <2> HIDE DEF u
  <2> QED
    BY <2>1, <2>2, <2>4
<1>12. CASE due = ""
  <2>1. proc' = Popped(proc) /\ tasks' = tasks
    BY <1>8, <1>12
  <2>2. catastrophic => exps[i].state = "QUARANTINED"
    BY <1>4, <1>6, <1>12
  <2> QED
    BY <1>9, <1>10, <1>11, <2>1, <2>2 DEF i
<1>13. CASE due # "" /\ due \in ALLOWED[exp.state]
  <2>1. /\ proc' = [proc EXCEPT !.target = due] /\ tasks' = tasks
        /\ due \in Retired /\ (catastrophic => due = "QUARANTINED")
    BY <1>6, <1>8, <1>13
  <2> QED
    BY <1>9, <1>10, <1>11, <2>1
<1>14. CASE due # "" /\ due \notin ALLOWED[exp.state]
  <2>1. /\ proc' = Idle
        /\ tasks' = IF proc.task \in Tasks THEN [tasks EXCEPT ![proc.task] = NoTask] ELSE tasks
    BY <1>8, <1>14
  <2>2. catastrophic => exps[i].state \notin Live
    BY <1>4, <1>6, <1>7, <1>14
  <2> QED
    BY <1>9, <1>10, <1>11, <2>1, <2>2 DEF i
<1> QED
  BY <1>12, <1>13, <1>14

-----------------------------------------------------------------------------
(* Lemmas about the parts of the invariant                                 *)

\* all of MemoryInv but the failures in a row and what RollbackInv implies
Kept ==
  /\ TypeOK /\ OneCandidate
  /\ ProcInv /\ AdvisedInv /\ ValidatedInv /\ RollbackInv /\ FlagInv

\* While a canary says rollback, its retirement is due.
LEMMA KeptIsMemoryInv == Kept /\ FailingInv <=> MemoryInv
<1>1. TypeOK /\ RollbackInv => RollbackRetires
  BY Rows DEF RollbackInv, RollbackRetires
<1> QED
  BY <1>1 DEF Kept, MemoryInv

\* More rows make no list of rows ill-typed.
LEMMA TypesGrow ==
  ASSUME Refs \subseteq Refs'
  PROVE  ProcType \subseteq ProcType' /\ TaskType \subseteq TaskType'
<1>1. Seq(Refs) \subseteq Seq(Refs')
  BY Elements
<1> QED
  BY <1>1 DEF ProcType, TaskType

\* One of two rows of a situation and strategy stays what was observed, when no
\* row begins or ceases to be that.
LEMMA ObservedStays ==
  ASSUME OneCandidate, Refs' = Refs,
         \A j \in Refs : /\ exps'[j].sig = exps[j].sig
                         /\ exps'[j].strategy = exps[j].strategy
                         /\ exps'[j].state = "OBSERVED" <=> exps[j].state = "OBSERVED"
  PROVE  OneCandidate'
<1> SUFFICES ASSUME NEW i \in Refs, NEW j \in Refs, i # j,
                    exps'[i].sig = exps'[j].sig, exps'[i].strategy = exps'[j].strategy
             PROVE  "OBSERVED" \in {exps'[i].state, exps'[j].state}
  BY DEF OneCandidate
<1>1. "OBSERVED" \in {exps[i].state, exps[j].state}
  BY DEF OneCandidate
<1> QED
  BY <1>1

\* What is dealt with is taken off the list.
LEMMA PoppedProc ==
  ASSUME TypeOK, proc.todo # <<>>
  PROVE  /\ Popped(proc) \in ProcType
         /\ Popped(proc).op = proc.op /\ Popped(proc).task = proc.task
         /\ Popped(proc).target = ""
         /\ ToSet(proc.todo) = {Head(proc.todo)} \union ToSet(Popped(proc).todo)
<1>1. proc \in ProcType /\ proc.todo \in Seq(Refs)
  BY DEF TypeOK, ProcType
<1>2. /\ Tail(proc.todo) \in Seq(Refs)
      /\ ToSet(proc.todo) = {Head(proc.todo)} \union ToSet(Tail(proc.todo))
  BY <1>1, TodoList
<1> DEFINE p == [proc EXCEPT !.todo = Tail(proc.todo)]
<1>3. p \in ProcType /\ p.op = proc.op /\ p.task = proc.task /\ p.todo = Tail(proc.todo)
  BY <1>1, <1>2 DEF ProcType
<1>4. Popped(proc) = [p EXCEPT !.target = ""]
  BY <1>1 DEF Popped, ProcType
<1> HIDE DEF p
<1>5. /\ Popped(proc) \in ProcType /\ Popped(proc).op = p.op /\ Popped(proc).task = p.task
      /\ Popped(proc).target = "" /\ Popped(proc).todo = p.todo
  BY <1>3, <1>4 DEF ProcType
<1> QED
  BY <1>2, <1>3, <1>5

\* A retirement that is due leaves the rest of the operation as it is.
LEMMA DueProc ==
  ASSUME TypeOK, NEW due \in {"", "MONITORED"} \union Retired
  PROVE  /\ [proc EXCEPT !.target = due] \in ProcType
         /\ [proc EXCEPT !.target = due].target = due
         /\ [proc EXCEPT !.target = due].op = proc.op
         /\ [proc EXCEPT !.target = due].task = proc.task
         /\ [proc EXCEPT !.target = due].todo = proc.todo
<1>1. proc \in ProcType
  BY DEF TypeOK
<1> QED
  BY <1>1 DEF ProcType

\* A task that is not idle has a situation and a list of rows.
LEMMA TaskAtWork ==
  ASSUME TypeOK, NEW t \in Tasks, tasks[t].pc # "idle"
  PROVE  /\ tasks[t] \in [pc : {"planning", "work"}, sig : Signatures, refs : Seq(Refs)]
         /\ tasks[t].sig \in Signatures /\ tasks[t].refs \in Seq(Refs)
<1>1. tasks[t] \in TaskType /\ tasks[t] # NoTask
  BY DEF TypeOK, NoTask
<1> QED
  BY <1>1 DEF TaskType

\* A task that is over was advised of nothing.
LEMMA TaskOver ==
  ASSUME TypeOK, NEW t,
         tasks' = [tasks EXCEPT ![t] = NoTask] \/ tasks' = tasks
  PROVE  /\ tasks' \in [Tasks -> TaskType]
         /\ \A u \in Tasks : Len(tasks'[u].refs) <= MaxAdvised
         /\ \A u \in Tasks : tasks'[u].refs = <<>> \/ tasks'[u].refs = tasks[u].refs
<1>1. tasks \in [Tasks -> TaskType] /\ \A u \in Tasks : Len(tasks[u].refs) <= MaxAdvised
  BY DEF TypeOK
<1>2. \A u \in Tasks : tasks'[u] = tasks[u] \/ tasks'[u] = NoTask
  BY <1>1
<1>3. MaxAdvised \in Nat /\ 0 <= MaxAdvised
  BY NumbersAssumption
<1>4. tasks' \in [Tasks -> TaskType]
  BY <1>1, IdleProc
<1>5. \A u \in Tasks : Len(tasks'[u].refs) <= MaxAdvised
  BY <1>1, <1>2, <1>3, IdleProc
<1> QED
  BY <1>2, <1>4, <1>5, IdleProc

-----------------------------------------------------------------------------
(* The invariant, action by action                                         *)

LEMMA MemoryInit == Init => Kept
<1> SUFFICES ASSUME Init PROVE Kept
  OBVIOUS
<1>1. /\ exps = <<>> /\ Len(exps) = 0 /\ exps \in Seq(ExpType) /\ Refs = {}
      /\ MaxExps \in Nat /\ MaxAdvised \in Nat
  BY EmptySeq, NumbersAssumption DEF Init, Refs
<1>2. /\ tasks = [t \in Tasks |-> NoTask] /\ proc = Idle /\ torn = {}
      /\ canaries = [i \in Slots |-> NoCanary] /\ streak = [i \in Slots |-> 0]
  BY DEF Init
<1>3. TypeOK
  <2>1. exps \in Seq(ExpType) /\ Len(exps) <= MaxExps
        /\ \A i \in Refs : exps[i].shadow.passed <= exps[i].shadow.n
    BY <1>1
  <2>2. tasks \in [Tasks -> TaskType] /\ proc \in ProcType /\ torn \subseteq Refs
        /\ canaries \in [Slots -> CanaryType]
    BY <1>2, IdleProc
  <2>3. \A t \in Tasks : Len(tasks[t].refs) <= MaxAdvised
    <3>1. 0 <= MaxAdvised
      BY <1>1
    <3>2. \A t \in Tasks : Len(tasks[t].refs) = 0
      BY <1>2, IdleProc
    <3> QED
      BY <3>1, <3>2
  <2>4. streak \in [Slots -> 0..Enough]
    BY <1>2, FailedUses
  <2> QED
    BY <2>1, <2>2, <2>3, <2>4 DEF TypeOK
<1>4. OneCandidate /\ ValidatedInv
  BY <1>1 DEF OneCandidate, ValidatedInv
<1>5. ProcInv
  BY <1>2, IdleProc, Elements DEF ProcInv
<1>6. AdvisedInv
  BY <1>2, IdleProc, Elements DEF AdvisedInv
<1>7. RollbackInv /\ FlagInv
  BY <1>2, IdleProc DEF RollbackInv, FlagInv
<1> QED
  BY <1>3, <1>4, <1>5, <1>6, <1>7 DEF Kept

\* A use of the first of the list.  Only that of a rollback follows a verdict, and
\* everything that is used for a contradicted pass is a catastrophe.
LEMMA UseStep ==
  ASSUME Kept, proc.todo # <<>>, proc.target = "",
         NEW verified \in BOOLEAN, NEW catastrophic \in BOOLEAN,
         RecordUse(Head(proc.todo), verified, catastrophic),
         proc.op = "flag" => catastrophic,
         torn' = torn, canaries' \in [Slots -> CanaryType],
         \A i \in Slots : canaries'[i].verdict = "ROLLBACK" =>
           /\ proc.op = "settle" /\ i = Head(proc.todo)
           /\ catastrophic /\ exps[i].state \in Live
  PROVE  Kept'
<1> DEFINE h == Head(proc.todo)
<1>1. TypeOK /\ OneCandidate /\ ProcInv /\ AdvisedInv /\ ValidatedInv /\ FlagInv
  BY DEF Kept
<1>2. /\ exps' \in Seq(ExpType) /\ Len(exps') = Len(exps) /\ Refs' = Refs
      /\ \A j \in Refs : /\ exps'[j].state = exps[j].state
                         /\ exps'[j].sig = exps[j].sig
                         /\ exps'[j].strategy = exps[j].strategy
                         /\ exps'[j].shadow = exps[j].shadow
      /\ streak' \in [Slots -> 0..Enough]
  BY <1>1, UseOfRow
<1>3. \/ /\ proc' = Popped(proc) /\ tasks' = tasks
         /\ catastrophic => exps[h].state = "QUARANTINED"
      \/ /\ tasks' = tasks
         /\ \E due \in Retired : /\ proc' = [proc EXCEPT !.target = due]
                                 /\ catastrophic => due = "QUARANTINED"
      \/ /\ proc' = Idle
         /\ tasks' = IF proc.task \in Tasks THEN [tasks EXCEPT ![proc.task] = NoTask] ELSE tasks
         /\ catastrophic => exps[h].state \notin Live
  BY <1>1, UseOfRow
<1> HIDE DEF h
<1>4. /\ tasks' \in [Tasks -> TaskType]
      /\ \A u \in Tasks : Len(tasks'[u].refs) <= MaxAdvised
      /\ \A u \in Tasks : tasks'[u].refs = <<>> \/ tasks'[u].refs = tasks[u].refs
  <2>1. tasks' = [tasks EXCEPT ![proc.task] = NoTask] \/ tasks' = tasks
    BY <1>3
  <2> QED
    BY <1>1, <2>1, TaskOver
<1>5. /\ proc' \in ProcType
      /\ \/ /\ proc'.op = proc.op /\ proc'.task = proc.task /\ tasks' = tasks
            /\ proc'.target = "" /\ proc' = Popped(proc)
            /\ catastrophic => exps[h].state = "QUARANTINED"
         \/ /\ proc'.op = proc.op /\ proc'.task = proc.task /\ tasks' = tasks
            /\ proc'.target \in Retired /\ proc'.todo = proc.todo
            /\ catastrophic => proc'.target = "QUARANTINED"
         \/ proc' = Idle /\ (catastrophic => exps[h].state \notin Live)
  <2>1. CASE /\ proc' = Popped(proc) /\ tasks' = tasks
             /\ catastrophic => exps[h].state = "QUARANTINED"
    BY <1>1, <2>1, PoppedProc
  <2>2. ASSUME NEW due \in Retired, tasks' = tasks, proc' = [proc EXCEPT !.target = due],
               catastrophic => due = "QUARANTINED"
        PROVE  /\ proc' \in ProcType /\ proc'.op = proc.op /\ proc'.task = proc.task
               /\ proc'.target = due /\ proc'.todo = proc.todo
    BY <1>1, <2>2, DueProc
  <2>3. CASE proc' = Idle /\ (catastrophic => exps[h].state \notin Live)
    BY <2>3, IdleProc
  <2> QED
    BY <1>3, <2>1, <2>2, <2>3
<1>6. /\ ToSet(proc.todo) \subseteq Refs /\ h \in ToSet(proc.todo)
      /\ \A t \in Tasks : ToSet(tasks[t].refs) \subseteq Refs
      /\ ToSet(proc'.todo) \subseteq ToSet(proc.todo)
  <2>1. ToSet(proc.todo) = {h} \union ToSet(Popped(proc).todo)
    BY <1>1, PoppedProc DEF h
  <2> QED
    BY <1>1, <1>5, <2>1, Rows, IdleProc, Elements
<1>7. TypeOK'
  <2>1. ProcType \subseteq ProcType' /\ TaskType \subseteq TaskType'
    BY <1>2, TypesGrow
  <2>2. /\ Len(exps) <= MaxExps /\ torn \subseteq Refs
        /\ \A i \in Refs : exps[i].shadow.passed <= exps[i].shadow.n
    BY <1>1 DEF TypeOK
  <2>3. /\ exps' \in Seq(ExpType)' /\ Len(exps') <= MaxExps
        /\ \A i \in Refs' : exps'[i].shadow.passed <= exps'[i].shadow.n
    BY <1>2, <2>2
  <2>4. tasks' \in [Tasks -> TaskType'] /\ proc' \in ProcType'
    BY <1>4, <1>5, <2>1
  <2> QED
    BY <1>2, <1>4, <2>2, <2>3, <2>4 DEF TypeOK
<1>8. OneCandidate'
  BY <1>1, <1>2, ObservedStays
<1>9. ValidatedInv'
  BY <1>1, <1>2 DEF ValidatedInv
<1>10. AdvisedInv'
  <2> SUFFICES ASSUME NEW t \in Tasks, NEW i \in ToSet(tasks'[t].refs)
               PROVE  exps'[i].state \in Live \union Retired
    BY DEF AdvisedInv
  <2>1. i \in ToSet(tasks[t].refs)
    BY <1>4, Elements
  <2>2. i \in Refs /\ exps[i].state \in Live \union Retired
    BY <1>1, <1>6, <2>1 DEF AdvisedInv
  <2> QED
    BY <1>2, <2>2
<1>11. ProcInv'
  <2>1. \A i \in ToSet(proc'.todo) : exps'[i].state \in Live \union Retired
    <3> SUFFICES ASSUME NEW i \in ToSet(proc'.todo)
                 PROVE  exps'[i].state \in Live \union Retired
      OBVIOUS
    <3>1. i \in ToSet(proc.todo) /\ i \in Refs
      BY <1>6
    <3>2. exps[i].state \in Live \union Retired
      BY <1>1, <3>1 DEF ProcInv
    <3> QED
      BY <1>2, <3>1, <3>2
  <2>2. proc.op # "none"
    BY <1>1, IdleProc DEF ProcInv
  <2>3. "" \notin Retired
    BY DEF Retired
  <2>4. /\ proc'.op = "none" => proc' = Idle
        /\ proc'.op \in {"advise", "settle", "flag"} => proc'.task \in Tasks
        /\ proc'.op = "advise" => tasks'[proc'.task].pc = "planning"
        /\ proc'.target # "" => proc'.todo # <<>>
    BY <1>1, <1>5, <2>2, <2>3, IdleProc DEF ProcInv
  <2> QED
    BY <2>1, <2>4 DEF ProcInv
<1>12. RollbackInv'
  <2> SUFFICES ASSUME NEW i \in Slots, canaries'[i].verdict = "ROLLBACK"
               PROVE  /\ proc'.op = "settle" /\ proc'.target = "QUARANTINED"
                      /\ Head(proc'.todo) = i
    BY DEF RollbackInv, Slots
  <2>1. /\ proc.op = "settle" /\ i = h /\ catastrophic /\ exps[h].state \in Live
        /\ exps[h].state # "QUARANTINED"
    BY DEF h, Live
  <2> QED
    BY <1>5, <2>1 DEF h
<1>13. FlagInv'
  <2> SUFFICES ASSUME proc'.op = "flag"
               PROVE  /\ proc'.target \in {"", "QUARANTINED"}
                      /\ \A i \in ToSet(tasks'[proc'.task].refs) :
                           i \in ToSet(proc'.todo) \/ exps'[i].state = "QUARANTINED"
    BY DEF FlagInv
  <2>1. /\ proc.op = "flag" /\ proc'.task = proc.task /\ tasks' = tasks /\ catastrophic
        /\ proc.task \in Tasks
    BY <1>1, <1>5, IdleProc DEF ProcInv
  <2>2. \A i \in ToSet(tasks[proc.task].refs) :
          i \in Refs /\ (i \in ToSet(proc.todo) \/ exps[i].state = "QUARANTINED")
    BY <1>1, <1>6, <2>1 DEF FlagInv
  <2>3. CASE proc' = Popped(proc)
    <3>1. ToSet(proc.todo) = {h} \union ToSet(proc'.todo)
      BY <1>1, <2>3, PoppedProc DEF h
    <3>2. exps[h].state = "QUARANTINED" /\ proc'.target = ""
      BY <1>1, <1>5, <2>1, <2>3, IdleProc, PoppedProc DEF Retired
    <3> QED
      BY <1>2, <2>1, <2>2, <3>1, <3>2
  <2>4. CASE proc' # Popped(proc)
    <3>1. proc'.todo = proc.todo /\ proc'.target = "QUARANTINED"
      BY <1>5, <2>1, <2>4, IdleProc
    <3> QED
      BY <1>2, <2>1, <2>2, <3>1
  <2> QED
    BY <2>3, <2>4
<1> QED
  BY <1>7, <1>8, <1>9, <1>10, <1>11, <1>12, <1>13 DEF Kept

\* A step that leaves the rows alone: what it gives the process and the tasks to
\* do is what was promoted once.
LEMMA QuietStep ==
  ASSUME Kept, exps' = exps, streak' = streak, torn' \subseteq Refs,
         canaries' \in [Slots -> CanaryType],
         \A i \in Slots : canaries'[i].verdict # "ROLLBACK",
         tasks' \in [Tasks -> TaskType],
         \A t \in Tasks : Len(tasks'[t].refs) <= MaxAdvised,
         \A t \in Tasks : \A i \in ToSet(tasks'[t].refs) : exps[i].state \in Live \union Retired,
         proc' \in ProcType, proc'.op = "none" => proc' = Idle,
         proc'.op \in {"advise", "settle", "flag"} => proc'.task \in Tasks,
         proc'.op = "advise" => tasks'[proc'.task].pc = "planning",
         \A i \in ToSet(proc'.todo) : exps[i].state \in Live \union Retired,
         proc'.target # "" => proc'.todo # <<>>,
         FlagInv'
  PROVE  Kept'
<1>1. TypeOK /\ OneCandidate /\ ValidatedInv
  BY DEF Kept
<1>2. Refs' = Refs
  BY DEF Refs
<1>3. TypeOK'
  <2>1. ProcType \subseteq ProcType' /\ TaskType \subseteq TaskType'
    BY <1>2, TypesGrow
  <2>2. tasks' \in [Tasks -> TaskType'] /\ proc' \in ProcType'
    BY <2>1
  <2> QED
    BY <1>1, <1>2, <2>2 DEF TypeOK
<1>4. OneCandidate' /\ ValidatedInv'
  BY <1>1, <1>2 DEF OneCandidate, ValidatedInv
<1>5. AdvisedInv' /\ ProcInv'
  BY DEF AdvisedInv, ProcInv
<1>6. RollbackInv'
  BY DEF RollbackInv, Slots
<1> QED
  BY <1>3, <1>4, <1>5, <1>6 DEF Kept

\* Where no retirement is due, no canary says rollback.
LEMMA NoVerdict ==
  ASSUME Kept, proc.target = "" \/ proc.op # "settle"
  PROVE  \A i \in Slots : canaries[i].verdict # "ROLLBACK"
BY DEF Kept, RollbackInv

LEMMA AdviseStep == ASSUME Kept, NEW t \in Tasks, Advise(t) PROVE Kept'
<1>1. TypeOK /\ AdvisedInv /\ proc.op # "settle"
  BY IdleProc DEF Kept, Advise
<1> PICK sig \in Signatures : \E matches \in InOrder(Retrieve(sig)) :
        /\ proc' = [Idle EXCEPT !.op = "advise", !.task = t, !.todo = matches]
        /\ tasks' = [tasks EXCEPT ![t] =
             [pc |-> "planning", sig |-> sig,
              refs |-> SubSeq(matches, 1, IF Len(matches) < MaxAdvised THEN Len(matches) ELSE MaxAdvised)]]
  BY DEF Advise
<1>2. PICK matches \in InOrder(Retrieve(sig)) :
        /\ proc' = [Idle EXCEPT !.op = "advise", !.task = t, !.todo = matches]
        /\ tasks' = [tasks EXCEPT ![t] =
             [pc |-> "planning", sig |-> sig,
              refs |-> SubSeq(matches, 1, IF Len(matches) < MaxAdvised THEN Len(matches) ELSE MaxAdvised)]]
  OBVIOUS
<1>3. matches \in Seq(Refs) /\ ToSet(matches) = Retrieve(sig) /\ Len(matches) \in Nat
  BY <1>1, Ordered DEF Retrieve
<1>4. \A i \in ToSet(matches) : exps[i].state \in Live \union Retired
  BY <1>3 DEF Retrieve
<1> DEFINE top == IF Len(matches) < MaxAdvised THEN Len(matches) ELSE MaxAdvised
           refs == SubSeq(matches, 1, top)
<1>5. MaxAdvised \in Nat
  BY NumbersAssumption
<1>6. top \in Nat /\ top <= Len(matches) /\ top <= MaxAdvised
  BY <1>3, <1>5
<1> HIDE DEF top
<1>7. refs \in Seq(Refs) /\ Len(refs) <= MaxAdvised /\ ToSet(refs) \subseteq ToSet(matches)
  BY <1>3, <1>6, Beginning
<1>8. tasks' = [tasks EXCEPT ![t] = [pc |-> "planning", sig |-> sig, refs |-> refs]]
  BY <1>2 DEF top
<1> HIDE DEF refs
<1>9. [pc |-> "planning", sig |-> sig, refs |-> refs] \in TaskType
  BY <1>7 DEF TaskType
<1>10. /\ tasks \in [Tasks -> TaskType] /\ \A u \in Tasks : Len(tasks[u].refs) <= MaxAdvised
  BY <1>1 DEF TypeOK
<1>11. /\ tasks' \in [Tasks -> TaskType]
       /\ \A u \in Tasks : tasks'[u].refs = IF u = t THEN refs ELSE tasks[u].refs
       /\ tasks'[t].pc = "planning"
  BY <1>8, <1>9, <1>10
<1>12. /\ \A u \in Tasks : Len(tasks'[u].refs) <= MaxAdvised
       /\ \A u \in Tasks : \A i \in ToSet(tasks'[u].refs) : exps[i].state \in Live \union Retired
  BY <1>1, <1>4, <1>7, <1>10, <1>11 DEF AdvisedInv
<1>13. proc' = [op |-> "advise", task |-> t, verified |-> FALSE, by |-> "",
                todo |-> matches, target |-> ""]
  BY <1>2 DEF Idle
<1>14. /\ proc' \in ProcType /\ proc'.op = "advise" /\ proc'.task = t
       /\ proc'.todo = matches /\ proc'.target = ""
  BY <1>3, <1>13 DEF ProcType
<1>15. FlagInv'
  BY <1>14 DEF FlagInv
<1>16. UNCHANGED <<exps, canaries, streak, torn>>
  BY DEF Advise
<1>17. torn' \subseteq Refs /\ canaries' \in [Slots -> CanaryType]
       /\ \A i \in Slots : canaries'[i].verdict # "ROLLBACK"
  BY <1>1, <1>16, NoVerdict DEF TypeOK
<1> QED
  BY <1>4, <1>11, <1>12, <1>14, <1>15, <1>16, <1>17, QuietStep

\* A settled or contradicted task is over; what its plan was advised of is what
\* the operation works on.
LEMMA BeginStep ==
  ASSUME Kept, NEW t \in Tasks, Fail(t) \/ Contradict(t)
  PROVE  Kept'
<1>1. TypeOK /\ AdvisedInv /\ proc = Idle /\ proc.op # "settle"
  BY IdleProc DEF Kept, Fail, Contradict
<1>2. PICK op \in {"settle", "flag"} :
        proc' = [Idle EXCEPT !.op = op, !.task = t, !.todo = tasks[t].refs]
  BY DEF Fail, Contradict
<1>3. UNCHANGED <<exps, tasks, canaries, streak, torn>>
  BY DEF Fail, Contradict
<1>4. /\ tasks \in [Tasks -> TaskType] /\ tasks[t].refs \in Seq(Refs)
      /\ \A u \in Tasks : Len(tasks[u].refs) <= MaxAdvised
  <2>1. tasks[t].pc # "idle"
    BY DEF Fail, Contradict
  <2> QED
    BY <1>1, <2>1, TaskAtWork DEF TypeOK
<1>5. proc' = [op |-> op, task |-> t, verified |-> FALSE, by |-> "",
               todo |-> tasks[t].refs, target |-> ""]
  BY <1>2 DEF Idle
<1>6. /\ proc' \in ProcType /\ proc'.op = op /\ proc'.op # "none" /\ proc'.task = t
      /\ proc'.todo = tasks[t].refs /\ proc'.target = ""
  BY <1>4, <1>5 DEF ProcType
<1>7. /\ \A u \in Tasks : \A i \in ToSet(tasks[u].refs) : exps[i].state \in Live \union Retired
      /\ \A i \in ToSet(proc'.todo) : exps[i].state \in Live \union Retired
  BY <1>1, <1>6 DEF AdvisedInv
<1>8. FlagInv'
  BY <1>3, <1>6 DEF FlagInv
<1>9. torn' \subseteq Refs /\ canaries' \in [Slots -> CanaryType]
      /\ \A i \in Slots : canaries'[i].verdict # "ROLLBACK"
  BY <1>1, <1>3, NoVerdict DEF TypeOK
<1> QED
  BY <1>3, <1>4, <1>6, <1>7, <1>8, <1>9, QuietStep

\* An operation is over, and with it the task it was about, if any.
LEMMA EndStep ==
  ASSUME Kept, Message \/ Flagged \/ Settled \/ Done \/ Kill
  PROVE  Kept'
<1>1. TypeOK /\ AdvisedInv /\ ProcInv
  BY DEF Kept
<1>2. proc' = Idle /\ exps' = exps /\ streak' = streak
  BY DEF Message, Flagged, Settled, Done, Kill
<1>3. /\ canaries' \in [Slots -> CanaryType]
      /\ \A i \in Slots : canaries'[i].verdict # "ROLLBACK"
  <2>1. CASE Kill
    <3>1. canaries' = [i \in Slots |-> NoCanary]
      BY <2>1 DEF Kill
    <3> QED
      BY <3>1, IdleProc
  <2>2. CASE Message \/ Flagged \/ Settled \/ Done
    <3>1. canaries' = canaries /\ (proc.target = "" \/ proc.op # "settle")
      BY <2>2 DEF Message, Flagged, Settled, Done, At
    <3> QED
      BY <1>1, <3>1, NoVerdict DEF TypeOK
  <2> QED
    BY <2>1, <2>2
<1>4. torn' \subseteq Refs
  <2>1. ASSUME proc.target \in Retired PROVE Head(proc.todo) \in Refs
    <3>1. proc.todo # <<>> /\ proc.todo \in Seq(Refs)
      BY <1>1, <2>1 DEF ProcInv, Retired, TypeOK, ProcType
    <3> QED
      BY <3>1, TodoList
  <2>2. torn \subseteq Refs
    BY <1>1 DEF TypeOK
  <2>3. CASE Kill
    BY <2>1, <2>2, <2>3 DEF Kill
  <2>4. CASE Message \/ Flagged \/ Settled \/ Done
    BY <2>2, <2>4 DEF Message, Flagged, Settled, Done
  <2> QED
    BY <2>3, <2>4
<1>5. /\ tasks' \in [Tasks -> TaskType]
      /\ \A u \in Tasks : Len(tasks'[u].refs) <= MaxAdvised
      /\ \A u \in Tasks : tasks'[u].refs = <<>> \/ tasks'[u].refs = tasks[u].refs
  <2>1. CASE Message
    <3>1. proc.task \in Tasks
      BY <1>1, <2>1 DEF Message, At, ProcInv
    <3>2. /\ tasks \in [Tasks -> TaskType] /\ \A u \in Tasks : Len(tasks[u].refs) <= MaxAdvised
      BY <1>1 DEF TypeOK
    <3> DEFINE row == [tasks[proc.task] EXCEPT !.pc = "work"]
    <3>5. tasks[proc.task] \in [pc : {"planning", "work"}, sig : Signatures, refs : Seq(Refs)]
      <4>1. tasks[proc.task].pc = "planning"
        BY <1>1, <2>1 DEF Message, At, ProcInv
      <4> QED
        BY <1>1, <3>1, <4>1, TaskAtWork
    <3>3. row \in TaskType /\ row.refs = tasks[proc.task].refs
      BY <3>5 DEF TaskType
    <3>4. tasks' = [tasks EXCEPT ![proc.task] = row]
      BY <2>1 DEF Message
    <3> HIDE DEF row
    <3> QED
      BY <3>1, <3>2, <3>3, <3>4
  <2>2. CASE Flagged \/ Settled \/ Done \/ Kill
    <3>1. tasks' = [tasks EXCEPT ![proc.task] = NoTask] \/ tasks' = tasks
      BY <2>2 DEF Flagged, Settled, Done, Kill
    <3> QED
      BY <1>1, <3>1, TaskOver
  <2> QED
    BY <2>1, <2>2
<1>6. \A u \in Tasks : \A i \in ToSet(tasks'[u].refs) : exps[i].state \in Live \union Retired
  BY <1>1, <1>5, Elements DEF AdvisedInv
<1>7. /\ proc' \in ProcType /\ proc'.op = "none" /\ proc'.todo = <<>> /\ proc'.target = ""
  BY <1>2, IdleProc
<1>8. FlagInv'
  BY <1>7 DEF FlagInv
<1>9. \A i \in ToSet(proc'.todo) : exps[i].state \in Live \union Retired
  BY <1>7, Elements
<1> QED
  BY <1>2, <1>3, <1>4, <1>5, <1>6, <1>7, <1>8, <1>9, QuietStep

\* Maintenance takes rows that are in the plans, one after the other.
LEMMA MaintenanceStep ==
  ASSUME Kept, (\E i \in Refs : Report(i)) \/ SweepStale \/ Sweep \/ SettleOther
  PROVE  Kept'
<1>1. TypeOK /\ AdvisedInv /\ ProcInv /\ FlagInv
  BY DEF Kept
<1>2. UNCHANGED <<exps, tasks, canaries, streak, torn>>
  BY DEF Report, SweepStale, Sweep, SettleOther
<1>3. proc.target = ""
  BY IdleProc DEF Report, SweepStale, Sweep, SettleOther, At
<1>4. torn' \subseteq Refs /\ canaries' \in [Slots -> CanaryType]
      /\ \A i \in Slots : canaries'[i].verdict # "ROLLBACK"
  BY <1>1, <1>2, <1>3, NoVerdict DEF TypeOK
<1>5. /\ proc' \in ProcType /\ proc'.op # "none" /\ proc'.op # "flag" /\ proc'.op # "advise"
      /\ proc'.op \in {"advise", "settle", "flag"} => proc'.task \in Tasks
      /\ \A i \in ToSet(proc'.todo) : exps[i].state \in Live \union Retired
      /\ proc'.target # "" => proc'.todo # <<>>
  <2>1. ASSUME NEW todo \in Seq(Refs), NEW op \in {"report", "sweep"},
               \A i \in ToSet(todo) : exps[i].state \in Live,
               proc' = [Idle EXCEPT !.op = op, !.todo = todo]
        PROVE  /\ proc' \in ProcType /\ proc'.op = op /\ proc'.target = ""
               /\ \A i \in ToSet(proc'.todo) : exps[i].state \in Live \union Retired
    <3>1. proc' = [op |-> op, task |-> "", verified |-> FALSE, by |-> "",
                   todo |-> todo, target |-> ""]
      BY <2>1 DEF Idle
    <3>2. /\ proc' \in ProcType /\ proc'.op = op /\ proc'.todo = todo /\ proc'.target = ""
      BY <3>1 DEF ProcType
    <3> QED
      BY <2>1, <3>2
  <2>2. CASE \E i \in Refs : Report(i)
    <3> PICK i \in Refs : Report(i)
      BY <2>2
    <3>1. <<i>> \in Seq(Refs) /\ ToSet(<<i>>) = {i}
      BY Singletons
    <3>2. proc' = [Idle EXCEPT !.op = "report", !.todo = <<i>>] /\ exps[i].state \in Live
      BY DEF Report
    <3>3. \A j \in ToSet(<<i>>) : exps[j].state \in Live
      BY <3>1, <3>2
    <3> QED
      BY <2>1, <3>1, <3>2, <3>3
  <2>3. CASE SweepStale
    <3> DEFINE S == {i \in Refs : exps[i].state \in Live /\ ShouldGoStale(exps[i])}
    <3>1. PICK due \in InOrder(S) : proc' = [Idle EXCEPT !.op = "sweep", !.todo = due]
      BY <2>3 DEF SweepStale
    <3>2. due \in Seq(Refs) /\ ToSet(due) = S
      BY <1>1, Ordered
    <3>3. \A i \in ToSet(due) : exps[i].state \in Live
      BY <3>2
    <3> QED
      BY <2>1, <3>1, <3>2, <3>3
  <2>4. CASE Sweep
    <3>1. proc' = [proc EXCEPT !.target = "STALE"] /\ proc.todo # <<>> /\ proc.op = "sweep"
      BY <2>4 DEF Sweep, At
    <3>2. "STALE" \in {"", "MONITORED"} \union Retired
      BY DEF Retired
    <3>3. proc' \in ProcType /\ proc'.op = "sweep" /\ proc'.todo = proc.todo
      BY <1>1, <3>1, <3>2, DueProc
    <3> QED
      BY <1>1, <3>1, <3>3 DEF ProcInv
  <2>5. CASE SettleOther
    <3>1. proc' = Popped(proc) /\ proc.todo # <<>> /\ proc.op = "settle"
      BY <2>5 DEF SettleOther, At
    <3>2. /\ proc' \in ProcType /\ proc'.op = "settle" /\ proc'.task = proc.task
          /\ proc'.target = "" /\ ToSet(proc'.todo) \subseteq ToSet(proc.todo)
      BY <1>1, <3>1, PoppedProc
    <3> QED
      BY <1>1, <3>1, <3>2 DEF ProcInv
  <2> QED
    BY <2>2, <2>3, <2>4, <2>5
<1>6. FlagInv'
  BY <1>5 DEF FlagInv
<1>7. /\ tasks' \in [Tasks -> TaskType]
      /\ \A u \in Tasks : Len(tasks'[u].refs) <= MaxAdvised
      /\ \A u \in Tasks : \A i \in ToSet(tasks'[u].refs) : exps[i].state \in Live \union Retired
  BY <1>1, <1>2 DEF TypeOK, AdvisedInv
<1> QED
  BY <1>2, <1>4, <1>5, <1>6, <1>7, QuietStep

\* The uses of an advice, of a report and for a contradicted pass.
LEMMA UsingStep ==
  ASSUME Kept, UseAdvice \/ UseReported \/ Flag
  PROVE  Kept'
<1>1. /\ proc.todo # <<>> /\ proc.target = "" /\ torn' = torn /\ canaries' = canaries
      /\ \A i \in Slots : canaries'[i].verdict # "ROLLBACK"
      /\ canaries \in [Slots -> CanaryType]
  BY NoVerdict DEF UseAdvice, UseReported, Flag, At, Kept, TypeOK
<1>2. \E verified, catastrophic \in BOOLEAN :
        /\ RecordUse(Head(proc.todo), verified, catastrophic)
        /\ proc.op = "flag" => catastrophic
  BY DEF UseAdvice, UseReported, Flag, At
<1> QED
  BY <1>1, <1>2, UseStep

\* A task of the sample is counted; a rollback is one more use, a catastrophe.
LEMMA SettleStep == ASSUME Kept, SettleCanary PROVE Kept'
<1> DEFINE h == Head(proc.todo)
           c == Recorded(canaries[h], proc.verified)
<1>1. TypeOK /\ AdvisedInv /\ ProcInv
  BY DEF Kept
<1>2. /\ proc.op = "settle" /\ proc.target = "" /\ proc.todo # <<>> /\ torn' = torn
      /\ exps[h].state \in Live /\ canaries' = [canaries EXCEPT ![h] = c]
      /\ IF c.verdict = "ROLLBACK" THEN RecordUse(h, FALSE, TRUE)
         ELSE proc' = Popped(proc) /\ UNCHANGED <<exps, tasks, streak>>
  BY DEF SettleCanary, At, Settling, Rollback
<1>3. h \in Refs /\ h \in Slots
  BY <1>1, <1>2, TodoList, Rows DEF TypeOK, ProcType
<1>4. c \in CanaryType
  <2>1. canaries[h] \in CanaryType
    BY <1>1, <1>3 DEF TypeOK
  <2> DEFINE n == canaries[h].n + 1
             passed == canaries[h].passed + (IF proc.verified THEN 1 ELSE 0)
  <2>2. n \in Nat /\ passed \in Nat
    BY <2>1 DEF CanaryType
  <2>3. c = IF n < MinSamples THEN [n |-> n, passed |-> passed, verdict |-> "HOLD"]
            ELSE [NoCanary EXCEPT !.verdict = IF 100 * passed < 85 * n THEN "ROLLBACK" ELSE "PROMOTE"]
    BY DEF Recorded
  <2> HIDE DEF n, passed, c
  <2>4. CASE n < MinSamples
    BY <2>2, <2>3, <2>4 DEF CanaryType
  <2>5. CASE ~(n < MinSamples)
    <3>1. c = [NoCanary EXCEPT !.verdict = "ROLLBACK"] \/ c = [NoCanary EXCEPT !.verdict = "PROMOTE"]
      BY <2>3, <2>5
    <3> QED
      BY <3>1 DEF NoCanary, CanaryType
  <2> QED
    BY <2>4, <2>5
<1> HIDE DEF c
<1>5. /\ canaries' \in [Slots -> CanaryType]
      /\ canaries'[h] = c
      /\ \A i \in Slots : i # h => canaries'[i].verdict # "ROLLBACK"
  <2>1. canaries \in [Slots -> CanaryType] /\ \A i \in Slots : canaries[i].verdict # "ROLLBACK"
    BY <1>1, <1>2, NoVerdict DEF TypeOK
  <2> QED
    BY <1>2, <1>3, <1>4, <2>1
<1>6. CASE c.verdict = "ROLLBACK"
  <2>1. \A i \in Slots : canaries'[i].verdict = "ROLLBACK" =>
          proc.op = "settle" /\ i = h /\ TRUE /\ exps[i].state \in Live
    BY <1>2, <1>5
  <2>2. RecordUse(h, FALSE, TRUE)
    BY <1>2, <1>6
  <2> QED
    BY <1>2, <1>5, <2>1, <2>2, UseStep
<1>7. CASE c.verdict # "ROLLBACK"
  <2>1. /\ proc' = Popped(proc) /\ exps' = exps /\ tasks' = tasks /\ streak' = streak
    BY <1>2, <1>7
  <2>2. \A i \in Slots : canaries'[i].verdict # "ROLLBACK"
    BY <1>5, <1>7
  <2>3. /\ proc' \in ProcType /\ proc'.op = "settle" /\ proc'.task = proc.task
        /\ proc'.target = "" /\ ToSet(proc'.todo) \subseteq ToSet(proc.todo)
    BY <1>1, <1>2, <2>1, PoppedProc
  <2>4. /\ \A i \in ToSet(proc'.todo) : exps[i].state \in Live \union Retired
        /\ proc'.task \in Tasks
    BY <1>1, <1>2, <2>3 DEF ProcInv
  <2>5. FlagInv'
    BY <2>3 DEF FlagInv
  <2>6. /\ torn' \subseteq Refs /\ tasks' \in [Tasks -> TaskType]
        /\ \A u \in Tasks : Len(tasks'[u].refs) <= MaxAdvised
        /\ \A u \in Tasks : \A i \in ToSet(tasks'[u].refs) : exps[i].state \in Live \union Retired
    BY <1>1, <1>2, <2>1 DEF TypeOK, AdvisedInv
  <2> QED
    BY <1>5, <2>1, <2>2, <2>3, <2>4, <2>5, <2>6, QuietStep
<1> QED
  BY <1>6, <1>7

\* A step that replaces one row that is not of those merely observed.
LEMMA RowStep ==
  ASSUME Kept, NEW i \in Refs, NEW e \in ExpType, exps' = [exps EXCEPT ![i] = e],
         e.sig = exps[i].sig, e.strategy = exps[i].strategy,
         exps[i].state # "OBSERVED", e.state # "OBSERVED",
         e.shadow.passed <= e.shadow.n,
         e.state = "VALIDATED" => e.shadow.n >= MinShadow /\ e.shadow.weeks >= MinWeeks,
         exps[i].state \in Live \union Retired => e.state \in Live \union Retired,
         torn' \subseteq Refs, canaries' \in [Slots -> CanaryType],
         \A j \in Slots : canaries'[j].verdict # "ROLLBACK",
         streak' \in [Slots -> 0..Enough], tasks' = tasks,
         proc' \in ProcType, ProcInv', FlagInv'
  PROVE  Kept'
<1>1. TypeOK /\ OneCandidate /\ AdvisedInv /\ ValidatedInv
  BY DEF Kept
<1>2. /\ exps' \in Seq(ExpType) /\ Len(exps') = Len(exps) /\ Refs' = Refs
      /\ exps'[i] = e /\ \A j \in Refs : j # i => exps'[j] = exps[j]
  BY <1>1, RowReplaced DEF Refs
<1>3. TypeOK'
  <2>1. ProcType \subseteq ProcType' /\ TaskType \subseteq TaskType'
    BY <1>2, TypesGrow
  <2>2. /\ Len(exps) <= MaxExps /\ tasks \in [Tasks -> TaskType]
        /\ \A u \in Tasks : Len(tasks[u].refs) <= MaxAdvised
        /\ \A j \in Refs : exps[j].shadow.passed <= exps[j].shadow.n
    BY <1>1 DEF TypeOK
  <2>3. \A j \in Refs : exps'[j].shadow.passed <= exps'[j].shadow.n
    BY <1>2, <2>2
  <2>4. tasks' \in [Tasks -> TaskType'] /\ proc' \in ProcType'
    BY <2>1, <2>2
  <2> QED
    BY <1>2, <2>2, <2>3, <2>4 DEF TypeOK
<1>4. OneCandidate'
  <2>1. \A j \in Refs : /\ exps'[j].sig = exps[j].sig
                        /\ exps'[j].strategy = exps[j].strategy
                        /\ exps'[j].state = "OBSERVED" <=> exps[j].state = "OBSERVED"
    BY <1>2
  <2> QED
    BY <1>1, <1>2, <2>1, ObservedStays
<1>5. ValidatedInv'
  BY <1>1, <1>2 DEF ValidatedInv
<1>6. AdvisedInv'
  <2> SUFFICES ASSUME NEW t \in Tasks, NEW j \in ToSet(tasks[t].refs)
               PROVE  exps'[j].state \in Live \union Retired
    BY DEF AdvisedInv
  <2>1. j \in Refs /\ exps[j].state \in Live \union Retired
    BY <1>1, Rows DEF AdvisedInv
  <2> QED
    BY <1>2, <2>1
<1>7. RollbackInv'
  BY DEF RollbackInv, Slots
<1> QED
  BY <1>3, <1>4, <1>5, <1>6, <1>7 DEF Kept

\* A new row, or one that is retired, has no numbers.
LEMMA FreshRow ==
  ASSUME NEW state \in States, NEW sig \in Signatures, NEW strategy \in Strategies
  PROVE  /\ Fresh(state, sig, strategy) \in ExpType
         /\ Fresh(state, sig, strategy).state = state
         /\ Fresh(state, sig, strategy).sig = sig
         /\ Fresh(state, sig, strategy).strategy = strategy
         /\ Fresh(state, sig, strategy).shadow.passed = 0
         /\ Fresh(state, sig, strategy).shadow.n = 0
<1>1. StaleN \in Nat /\ MaxShadow \in Nat
  BY NumbersAssumption
<1>2. 0 \in 0 .. StaleN /\ 20 \in 0 .. 20 /\ 0 \in 0 .. MaxShadow /\ 0 \in Nat
  BY <1>1
<1>3. NoShadow \in ShadowType /\ NoShadow.passed = 0 /\ NoShadow.n = 0
  BY <1>2 DEF NoShadow, ShadowType
<1> QED
  BY <1>2, <1>3 DEF Fresh, ExpType

\* The edge of the lifecycle that is due is taken.
LEMMA AdvanceStep == ASSUME Kept, Advance PROVE Kept'
<1> DEFINE h == Head(proc.todo)
           e == IF proc.target \in Retired THEN Fresh(proc.target, exps[h].sig, exps[h].strategy)
                ELSE [exps[h] EXCEPT !.state = proc.target]
<1>1. TypeOK /\ ProcInv /\ RollbackInv /\ FlagInv
  BY DEF Kept
<1>2. /\ proc.target # "" /\ proc.todo # <<>> /\ proc' = Popped(proc) /\ tasks' = tasks
      /\ torn' = torn \ {h}
      /\ IF proc.target \in Retired THEN /\ streak' = [streak EXCEPT ![h] = 0]
                                         /\ canaries' = [canaries EXCEPT ![h] = NoCanary]
         ELSE UNCHANGED <<streak, canaries>>
  BY <1>1 DEF Advance, ProcInv
<1>3. exps' = [exps EXCEPT ![h] = e]
  BY DEF Advance
<1>4. proc \in ProcType /\ proc.target \in {"MONITORED"} \union Retired
  BY <1>1, <1>2 DEF TypeOK, ProcType
<1>5. h \in Refs /\ h \in Slots /\ h \in ToSet(proc.todo) /\ exps[h] \in ExpType
      /\ exps[h].state \in Live \union Retired
  BY <1>1, <1>2, <1>4, TodoList, Rows DEF ProcType, ProcInv
<1>6. /\ e \in ExpType /\ e.state = proc.target
      /\ e.sig = exps[h].sig /\ e.strategy = exps[h].strategy
      /\ e.shadow.passed <= e.shadow.n
  <2>1. /\ exps[h].shadow.passed <= exps[h].shadow.n /\ 0 <= 0
        /\ exps[h].sig \in Signatures /\ exps[h].strategy \in Strategies
    BY <1>1, <1>5 DEF TypeOK, ExpType
  <2>2. proc.target \in States
    BY <1>4 DEF States, Live
  <2>3. CASE proc.target \in Retired
    BY <2>1, <2>2, <2>3, FreshRow
  <2>4. CASE proc.target \notin Retired
    BY <1>5, <2>1, <2>2, <2>4 DEF ExpType
  <2> QED
    BY <2>3, <2>4
<1> HIDE DEF e, h
<1>7. /\ e.state \in Live \union Retired /\ e.state # "OBSERVED" /\ e.state # "VALIDATED"
      /\ exps[h].state # "OBSERVED"
  BY <1>4, <1>5, <1>6 DEF Live, Retired
<1>8. /\ canaries \in [Slots -> CanaryType] /\ streak \in [Slots -> 0..Enough] /\ torn \subseteq Refs
      /\ \A j \in Slots : canaries[j].verdict = "ROLLBACK" =>
           proc.target \in Retired /\ j = h
  BY <1>1 DEF TypeOK, RollbackInv, Retired, h
<1>9. /\ canaries' \in [Slots -> CanaryType]
      /\ \A j \in Slots : canaries'[j].verdict # "ROLLBACK"
      /\ streak' \in [Slots -> 0..Enough] /\ torn' \subseteq Refs
  <2>1. CASE proc.target \in Retired
    BY <1>2, <1>5, <1>8, <2>1, IdleProc, FailedUses
  <2>2. CASE proc.target \notin Retired
    BY <1>2, <1>8, <2>2
  <2> QED
    BY <2>1, <2>2
<1>10. /\ proc' \in ProcType /\ proc'.op = proc.op /\ proc'.task = proc.task /\ proc'.target = ""
       /\ ToSet(proc.todo) = {h} \union ToSet(proc'.todo)
  BY <1>1, <1>2, PoppedProc DEF h
<1>11. exps'[h] = e /\ \A j \in Refs : j # h => exps'[j] = exps[j]
  BY <1>1, <1>3, <1>5, <1>6, RowReplaced
<1>12. ProcInv'
  <2>1. proc'.op # "none"
    BY <1>1, <1>2, <1>10, IdleProc DEF ProcInv
  <2>2. \A j \in ToSet(proc'.todo) : exps'[j].state \in Live \union Retired
    <3> SUFFICES ASSUME NEW j \in ToSet(proc'.todo)
                 PROVE  exps'[j].state \in Live \union Retired
      OBVIOUS
    <3>1. j \in Refs /\ exps[j].state \in Live \union Retired
      BY <1>1, <1>10, Rows DEF ProcInv
    <3> QED
      BY <1>7, <1>11, <3>1
  <2> QED
    BY <1>1, <1>2, <1>10, <2>1, <2>2 DEF ProcInv
<1>13. FlagInv'
  <2> SUFFICES ASSUME proc'.op = "flag"
               PROVE  /\ proc'.target \in {"", "QUARANTINED"}
                      /\ \A i \in ToSet(tasks'[proc'.task].refs) :
                           i \in ToSet(proc'.todo) \/ exps'[i].state = "QUARANTINED"
    BY DEF FlagInv
  <2>1. proc.target = "QUARANTINED" /\ proc.task \in Tasks
    BY <1>1, <1>2, <1>10 DEF FlagInv, ProcInv
  <2>2. \A i \in ToSet(tasks[proc.task].refs) :
          i \in Refs /\ (i \in ToSet(proc.todo) \/ exps[i].state = "QUARANTINED")
    BY <1>1, <1>10, <2>1, Rows DEF FlagInv
  <2> QED
    BY <1>2, <1>6, <1>10, <1>11, <2>1, <2>2
<1> QED
  BY <1>2, <1>3, <1>5, <1>6, <1>7, <1>9, <1>10, <1>12, <1>13, RowStep

\* On the way to promotion: replays are counted, and do not go away.
LEMMA ShadowStep == ASSUME Kept, NEW i \in Refs, AddShadow(i) PROVE Kept'
<1>1. TypeOK /\ ValidatedInv /\ ProcInv /\ proc = Idle /\ proc.op # "flag" /\ proc.op # "settle"
  BY IdleProc DEF Kept, AddShadow
<1>2. PICK verified, costly, week \in {0, 1} :
       exps' = [exps EXCEPT ![i].shadow =
         [n |-> @.n + 1, passed |-> @.passed + verified, costly |-> @.costly + costly,
          weeks |-> IF @.n = 0 THEN 1 ELSE IF @.weeks < MinWeeks THEN @.weeks + week ELSE @.weeks]]
  BY DEF AddShadow
<1>3. /\ exps[i].state \in {"CANDIDATE", "VALIDATED"} /\ exps[i].shadow.n < MaxShadow
      /\ UNCHANGED <<tasks, proc, canaries, streak, torn>>
  BY DEF AddShadow
<1> DEFINE old == exps[i].shadow
           weeks == IF old.n = 0 THEN 1 ELSE IF old.weeks < MinWeeks THEN old.weeks + week ELSE old.weeks
           new == [n |-> old.n + 1, passed |-> old.passed + verified,
                   costly |-> old.costly + costly, weeks |-> weeks]
           e == [exps[i] EXCEPT !.shadow = new]
<1>4. exps' = [exps EXCEPT ![i] = e]
  BY <1>2
<1>5. exps[i] \in ExpType /\ old \in ShadowType /\ old.passed <= old.n
  BY <1>1, Rows DEF ExpType, TypeOK
<1>6. /\ old.n \in Nat /\ old.passed \in Nat /\ old.costly \in Nat /\ old.weeks \in Nat
      /\ old.n < MaxShadow /\ MaxShadow \in Nat
      /\ MinShadow \in Nat \ {0} /\ MinWeeks \in Nat
      /\ verified \in {0, 1} /\ costly \in {0, 1} /\ week \in {0, 1}
  BY <1>3, <1>5, NumbersAssumption DEF ShadowType
<1> HIDE DEF old
<1>7. weeks \in Nat /\ (old.n # 0 => weeks >= old.weeks)
  BY <1>6
<1>8. old.n + 1 \in 0 .. MaxShadow /\ old.passed + verified \in Nat /\ old.costly + costly \in Nat
      /\ old.passed + verified <= old.n + 1
  BY <1>5, <1>6
<1> HIDE DEF weeks
<1>9. new \in ShadowType /\ new.passed <= new.n /\ new.n = old.n + 1 /\ new.weeks = weeks
  BY <1>7, <1>8 DEF ShadowType
<1> HIDE DEF new
<1>10. /\ e \in ExpType /\ e.state = exps[i].state /\ e.sig = exps[i].sig
       /\ e.strategy = exps[i].strategy /\ e.shadow = new
  BY <1>5, <1>9 DEF ExpType
<1> HIDE DEF e
<1>11. e.state = "VALIDATED" => e.shadow.n >= MinShadow /\ e.shadow.weeks >= MinWeeks
  <2> SUFFICES ASSUME exps[i].state = "VALIDATED"
               PROVE  new.n >= MinShadow /\ new.weeks >= MinWeeks
    BY <1>10
  <2>1. old.n >= MinShadow /\ old.weeks >= MinWeeks
    BY <1>1 DEF ValidatedInv, old
  <2> QED
    BY <1>6, <1>7, <1>9, <2>1
<1>12. /\ exps[i].state # "OBSERVED" /\ exps[i].state \notin Live \union Retired
       /\ e.state # "OBSERVED"
  BY <1>3, <1>10 DEF Live, Retired
<1>13. ProcInv' /\ FlagInv'
  <2>1. proc' = Idle /\ proc'.op = "none" /\ proc'.todo = <<>> /\ proc'.target = ""
    BY <1>1, <1>3, IdleProc
  <2> QED
    BY <2>1, Elements DEF ProcInv, FlagInv
<1>14. /\ torn' \subseteq Refs /\ canaries' \in [Slots -> CanaryType]
       /\ \A j \in Slots : canaries'[j].verdict # "ROLLBACK"
       /\ streak' \in [Slots -> 0..Enough] /\ proc' \in ProcType /\ tasks' = tasks
  BY <1>1, <1>3, NoVerdict DEF TypeOK
<1> QED
  BY <1>4, <1>9, <1>10, <1>11, <1>12, <1>13, <1>14, RowStep

\* What passed the gate of a candidate has its replays.
LEMMA ValidateStep == ASSUME Kept, NEW i \in Refs, TryValidate(i) PROVE Kept'
<1> DEFINE e == [exps[i] EXCEPT !.state = "VALIDATED"]
<1>1. TypeOK /\ ProcInv /\ proc = Idle /\ proc.op # "settle"
  BY IdleProc DEF Kept, TryValidate
<1>2. /\ exps' = [exps EXCEPT ![i] = e] /\ exps[i].state = "CANDIDATE"
      /\ exps[i].shadow.n >= MinShadow /\ exps[i].shadow.weeks >= MinWeeks
      /\ UNCHANGED <<tasks, proc, canaries, streak, torn>>
  BY DEF TryValidate, GateCandidate
<1>3. exps[i] \in ExpType /\ exps[i].shadow.passed <= exps[i].shadow.n
  BY <1>1, Rows DEF TypeOK
<1>4. /\ e \in ExpType /\ e.state = "VALIDATED" /\ e.sig = exps[i].sig
      /\ e.strategy = exps[i].strategy /\ e.shadow = exps[i].shadow
  BY <1>3 DEF ExpType, States
<1> HIDE DEF e
<1>5. exps[i].state # "OBSERVED" /\ exps[i].state \notin Live \union Retired
  BY <1>2 DEF Live, Retired
<1>6. ProcInv' /\ FlagInv'
  <2>1. proc' = Idle /\ proc'.op = "none" /\ proc'.todo = <<>> /\ proc'.target = ""
    BY <1>1, <1>2, IdleProc
  <2> QED
    BY <2>1, Elements DEF ProcInv, FlagInv
<1>7. /\ torn' \subseteq Refs /\ canaries' \in [Slots -> CanaryType]
      /\ \A j \in Slots : canaries'[j].verdict # "ROLLBACK"
      /\ streak' \in [Slots -> 0..Enough] /\ proc' \in ProcType /\ tasks' = tasks
  BY <1>1, <1>2, NoVerdict DEF TypeOK
<1> QED
  BY <1>2, <1>3, <1>4, <1>5, <1>6, <1>7, RowStep

\* On whose word something is promoted; what touches security, on that of a human
\* or of a report that did not name it.
LEMMA OnWhoseWord ==
  ASSUME NEW exp, NEW approved \in BOOLEAN, NEW by \in Words(exp, approved)
  PROVE  /\ by \in {"human", "numbers", "report"}
         /\ TouchesSecurity(exp.strategy) => by \in {"human", "report"}
<1> DEFINE word(named) == IF approved THEN "human" ELSE IF named THEN "numbers" ELSE "report"
<1>1. \/ \E r \in Reports : ReportPromotes(r, exp, approved) /\ by = word(r.named)
      \/ PromoteDecision(exp, approved) /\ by = word(TRUE)
  BY DEF Words
<1>2. CASE PromoteDecision(exp, approved) /\ by = word(TRUE)
  BY <1>2 DEF PromoteDecision
<1>3. ASSUME NEW r \in Reports, ReportPromotes(r, exp, approved), by = word(r.named)
      PROVE  /\ by \in {"human", "numbers", "report"}
             /\ TouchesSecurity(exp.strategy) => by \in {"human", "report"}
  BY <1>3 DEF ReportPromotes
<1> QED
  BY <1>1, <1>2, <1>3

\* What a promotion changes.
LEMMA Promotion ==
  ASSUME Kept, NEW i \in Refs, TryPromote(i)
  PROVE  /\ exps[i].state = "VALIDATED"
         /\ exps' = [exps EXCEPT ![i] = [exps[i] EXCEPT !.state = "PROMOTED", !.shadow = NoShadow]]
         /\ UNCHANGED <<tasks, canaries, streak, torn>>
         /\ proc' \in ProcType /\ proc'.op = "promote" /\ proc'.target = "MONITORED"
         /\ proc'.todo = <<i>>
         /\ proc'.by \in {"human", "numbers", "report"}
         /\ TouchesSecurity(exps[i].strategy) => proc'.by \in {"human", "report"}
<1>1. PICK approved \in BOOLEAN : \E by \in Words(exps[i], approved) :
        proc' = [Idle EXCEPT !.op = "promote", !.by = by, !.todo = <<i>>, !.target = "MONITORED"]
  BY DEF TryPromote
<1>2. PICK by \in Words(exps[i], approved) :
        proc' = [Idle EXCEPT !.op = "promote", !.by = by, !.todo = <<i>>, !.target = "MONITORED"]
  BY <1>1
<1>3. /\ by \in {"human", "numbers", "report"}
      /\ TouchesSecurity(exps[i].strategy) => by \in {"human", "report"}
  BY OnWhoseWord
<1>4. proc' = [op |-> "promote", task |-> "", verified |-> FALSE, by |-> by,
               todo |-> <<i>>, target |-> "MONITORED"]
  BY <1>2 DEF Idle
<1>5. <<i>> \in Seq(Refs)
  BY Singletons
<1>6. /\ proc' \in ProcType /\ proc'.op = "promote" /\ proc'.target = "MONITORED"
      /\ proc'.todo = <<i>> /\ proc'.by = by
  BY <1>3, <1>4, <1>5 DEF ProcType
<1>7. /\ exps[i].state = "VALIDATED" /\ UNCHANGED <<tasks, canaries, streak, torn>>
      /\ exps' = [exps EXCEPT ![i] = [exps[i] EXCEPT !.state = "PROMOTED", !.shadow = NoShadow]]
  BY DEF TryPromote
<1> QED
  BY <1>3, <1>6, <1>7

LEMMA PromoteStep == ASSUME Kept, NEW i \in Refs, TryPromote(i) PROVE Kept'
<1> DEFINE e == [exps[i] EXCEPT !.state = "PROMOTED", !.shadow = NoShadow]
<1>1. /\ TypeOK /\ proc.op # "settle" /\ exps[i].state = "VALIDATED"
      /\ exps' = [exps EXCEPT ![i] = e]
      /\ UNCHANGED <<tasks, canaries, streak, torn>>
      /\ proc' \in ProcType /\ proc'.op = "promote" /\ proc'.target = "MONITORED"
      /\ proc'.todo = <<i>>
  BY Promotion, IdleProc DEF Kept, TryPromote
<1>2. exps[i] \in ExpType
  BY <1>1, Rows
<1>3. NoShadow \in ShadowType /\ NoShadow.passed <= NoShadow.n
  BY NumbersAssumption DEF NoShadow, ShadowType
<1>4. /\ e \in ExpType /\ e.state = "PROMOTED" /\ e.sig = exps[i].sig
      /\ e.strategy = exps[i].strategy /\ e.shadow = NoShadow
  <2> DEFINE p == [exps[i] EXCEPT !.state = "PROMOTED"]
  <2>1. /\ p \in ExpType /\ p.state = "PROMOTED" /\ p.sig = exps[i].sig
        /\ p.strategy = exps[i].strategy
    BY <1>2 DEF ExpType, States, Live
  <2>2. e = [p EXCEPT !.shadow = NoShadow]
    BY <1>2 DEF ExpType
  <2> HIDE DEF p, e
  <2> QED
    BY <1>3, <2>1, <2>2 DEF ExpType
<1> HIDE DEF e
<1>5. /\ exps[i].state # "OBSERVED" /\ exps[i].state \notin Live \union Retired
      /\ e.state # "OBSERVED" /\ e.state \in Live
  BY <1>1, <1>4 DEF Live, Retired
<1>6. exps'[i] = e
  BY <1>1, <1>4, RowReplaced
<1>7. ProcInv' /\ FlagInv'
  <2>1. \A j \in ToSet(proc'.todo) : exps'[j].state \in Live \union Retired
    BY <1>1, <1>5, <1>6, Singletons
  <2>2. proc'.todo # <<>>
    BY <1>1
  <2> QED
    BY <1>1, <2>1, <2>2 DEF ProcInv, FlagInv
<1>8. /\ torn' \subseteq Refs /\ canaries' \in [Slots -> CanaryType]
      /\ \A j \in Slots : canaries'[j].verdict # "ROLLBACK"
      /\ streak' \in [Slots -> 0..Enough] /\ tasks' = tasks
  BY <1>1, NoVerdict DEF TypeOK
<1> QED
  BY <1>1, <1>3, <1>4, <1>5, <1>7, <1>8, RowStep

\* What a task that passed teaches is on the way to promotion only where nothing
\* is of its situation and strategy.
LEMMA CompleteStep == ASSUME Kept, NEW t \in Tasks, Complete(t) PROVE Kept'
<1>1. TypeOK /\ OneCandidate /\ AdvisedInv /\ ValidatedInv /\ proc.op # "settle"
  BY IdleProc DEF Kept, Complete
<1>2. /\ proc' = [Idle EXCEPT !.op = "settle", !.task = t, !.verified = TRUE, !.todo = tasks[t].refs]
      /\ tasks[t].pc = "work" /\ UNCHANGED <<tasks, canaries, streak, torn>>
  BY DEF Complete
<1>3. tasks[t].sig \in Signatures /\ tasks[t].refs \in Seq(Refs)
  BY <1>1, <1>2, TaskAtWork
<1>4. Len(exps) \in Nat /\ Refs = 1 .. Len(exps) /\ exps \in Seq(ExpType)
      /\ Len(exps) <= MaxExps /\ MaxExps \in Nat
  BY <1>1, Rows, NumbersAssumption DEF TypeOK
<1>5. PICK strategy \in Strategies :
        exps' = IF Len(exps) = MaxExps THEN exps
                ELSE Append(exps, Fresh(GateObserved(tasks[t].sig, strategy), tasks[t].sig, strategy))
  BY DEF Complete, Capture
<1> DEFINE gate == GateObserved(tasks[t].sig, strategy)
           row == Fresh(gate, tasks[t].sig, strategy)
           last == Len(exps) + 1
<1>6. gate \in {"OBSERVED", "CANDIDATE"} /\ gate \in States
  BY DEF GateObserved, States
<1>7. /\ row \in ExpType /\ row.state = gate /\ row.sig = tasks[t].sig /\ row.strategy = strategy
      /\ row.shadow.passed <= row.shadow.n
  <2>1. /\ row \in ExpType /\ row.state = gate /\ row.sig = tasks[t].sig /\ row.strategy = strategy
        /\ row.shadow.passed = 0 /\ row.shadow.n = 0
    BY <1>3, <1>6, FreshRow
  <2> QED
    BY <2>1
<1>8. gate = "CANDIDATE" =>
        \A i \in Refs : ~(exps[i].sig = tasks[t].sig /\ exps[i].strategy = strategy)
  BY DEF GateObserved, Represented
<1> HIDE DEF row, gate
<1>9. \/ exps' = exps /\ Refs' = Refs
      \/ /\ Len(exps) < MaxExps /\ Len(exps') = last
         /\ Refs' = Refs \union {last} /\ last \notin Refs
         /\ exps' \in Seq(ExpType) /\ exps'[last] = row
         /\ \A i \in Refs : exps'[i] = exps[i]
  <2>1. CASE Len(exps) = MaxExps
    BY <1>5, <2>1 DEF Refs
  <2>2. CASE Len(exps) # MaxExps
    <3>1. exps' = Append(exps, row)
      BY <1>5, <2>2 DEF row, gate
    <3>2. /\ exps' \in Seq(ExpType) /\ Len(exps') = last
          /\ \A i \in 1 .. Len(exps) : exps'[i] = exps[i]
          /\ exps'[last] = row
      BY <1>4, <1>7, <3>1, AppendProperties
    <3>3. Refs' = 1 .. last
      BY <3>2, LenProperties DEF Refs
    <3>4. 1 .. last = (1 .. Len(exps)) \union {last} /\ last \notin 1 .. Len(exps)
          /\ Len(exps) < MaxExps
      BY <1>4, <2>2
    <3> QED
      BY <1>4, <3>2, <3>3, <3>4
  <2> QED
    BY <2>1, <2>2
<1>10. Refs \subseteq Refs' /\ \A i \in Refs : exps'[i] = exps[i]
  BY <1>9
<1>11. /\ \A i \in Refs' : i \in Refs \/ (exps'[i] = row /\ i = last)
  BY <1>9
<1>12. proc' = [op |-> "settle", task |-> t, verified |-> TRUE, by |-> "",
                todo |-> tasks[t].refs, target |-> ""]
  BY <1>2 DEF Idle
<1>13. /\ proc' \in ProcType /\ proc'.op = "settle" /\ proc'.task = t
       /\ proc'.todo = tasks[t].refs /\ proc'.target = ""
  BY <1>3, <1>12 DEF ProcType
<1>14. TypeOK'
  <2>1. ProcType \subseteq ProcType' /\ TaskType \subseteq TaskType'
    BY <1>10, TypesGrow
  <2>2. /\ tasks \in [Tasks -> TaskType] /\ torn \subseteq Refs
        /\ \A u \in Tasks : Len(tasks[u].refs) <= MaxAdvised
        /\ \A i \in Refs : exps[i].shadow.passed <= exps[i].shadow.n
        /\ canaries \in [Slots -> CanaryType] /\ streak \in [Slots -> 0..Enough]
    BY <1>1 DEF TypeOK
  <2>3. exps' \in Seq(ExpType) /\ Len(exps') <= MaxExps
    BY <1>4, <1>9
  <2>4. \A i \in Refs' : exps'[i].shadow.passed <= exps'[i].shadow.n
    BY <1>7, <1>10, <1>11, <2>2
  <2>5. tasks' \in [Tasks -> TaskType'] /\ proc' \in ProcType' /\ torn' \subseteq Refs'
    BY <1>2, <1>10, <1>13, <2>1, <2>2
  <2> QED
    BY <1>2, <2>2, <2>3, <2>4, <2>5 DEF TypeOK
<1>15. OneCandidate'
  <2> SUFFICES ASSUME NEW i \in Refs', NEW j \in Refs', i # j,
                      exps'[i].sig = exps'[j].sig, exps'[i].strategy = exps'[j].strategy
               PROVE  "OBSERVED" \in {exps'[i].state, exps'[j].state}
    BY DEF OneCandidate
  <2>1. CASE i \in Refs /\ j \in Refs
    BY <1>1, <1>10, <2>1 DEF OneCandidate
  <2>2. CASE i \in Refs /\ j \notin Refs
    <3>1. exps'[j] = row /\ exps'[i] = exps[i]
      BY <1>10, <1>11, <2>2
    <3>2. gate # "CANDIDATE"
      BY <1>7, <1>8, <2>2, <3>1
    <3> QED
      BY <1>6, <1>7, <3>1, <3>2
  <2>3. CASE i \notin Refs /\ j \in Refs
    <3>1. exps'[i] = row /\ exps'[j] = exps[j]
      BY <1>10, <1>11, <2>3
    <3>2. gate # "CANDIDATE"
      BY <1>7, <1>8, <2>3, <3>1
    <3> QED
      BY <1>6, <1>7, <3>1, <3>2
  <2> QED
    BY <1>11, <2>1, <2>2, <2>3
<1>16. ValidatedInv'
  <2> SUFFICES ASSUME NEW i \in Refs', exps'[i].state = "VALIDATED"
               PROVE  exps'[i].shadow.n >= MinShadow /\ exps'[i].shadow.weeks >= MinWeeks
    BY DEF ValidatedInv
  <2>1. i \in Refs
    BY <1>6, <1>7, <1>11
  <2> QED
    BY <1>1, <1>10, <2>1 DEF ValidatedInv
<1>17. \A u \in Tasks : \A i \in ToSet(tasks[u].refs) : exps'[i].state \in Live \union Retired
  BY <1>1, <1>10, Rows DEF AdvisedInv
<1>18. AdvisedInv' /\ ProcInv' /\ FlagInv'
  BY <1>2, <1>13, <1>17 DEF AdvisedInv, ProcInv, FlagInv
<1>19. RollbackInv'
  BY <1>1, <1>2, NoVerdict DEF RollbackInv, Slots
<1> QED
  BY <1>14, <1>15, <1>16, <1>18, <1>19 DEF Kept

\* Every step keeps the invariant.
LEMMA MemoryStep == Kept /\ [Next]_vars => Kept'
<1> SUFFICES ASSUME Kept, [Next]_vars PROVE Kept'
  OBVIOUS
<1>1. CASE \E t \in Tasks : Advise(t) \/ Complete(t) \/ Fail(t) \/ Contradict(t)
  BY <1>1, AdviseStep, CompleteStep, BeginStep
<1>2. CASE \E i \in Refs : Report(i) \/ AddShadow(i) \/ TryValidate(i) \/ TryPromote(i)
  BY <1>2, MaintenanceStep, ShadowStep, ValidateStep, PromoteStep
<1>3. CASE UseAdvice \/ UseReported \/ Flag
  BY <1>3, UsingStep
<1>4. CASE Message \/ Flagged \/ Settled \/ Done \/ Kill
  BY <1>4, EndStep
<1>5. CASE SettleOther \/ SweepStale \/ Sweep
  BY <1>5, MaintenanceStep
<1>6. CASE SettleCanary
  BY <1>6, SettleStep
<1>7. CASE Advance
  BY <1>7, AdvanceStep
<1>8. CASE UNCHANGED vars
  BY <1>8, ZenonT(40) DEF vars, Kept, TypeOK, OneCandidate, ProcInv, AdvisedInv, ValidatedInv,
     RollbackInv, FlagInv, Refs, ProcType, TaskType
<1> QED
  BY <1>1, <1>2, <1>3, <1>4, <1>5, <1>6, <1>7, <1>8 DEF Next

-----------------------------------------------------------------------------
(* Failures in a row                                                       *)

\* A failed use before the cap takes its twentieths from the sum.
LEMMA FailureBelow ==
  ASSUME NEW n \in Nat, NEW r \in 0 .. 20, NEW k \in Nat, NEW m \in Nat, m <= k + 1,
         r * n <= 20 * (n - k)
  PROVE  /\ (r * n) \div (n + 1) \in Nat
         /\ ((r * n) \div (n + 1)) * (n + 1) <= 20 * ((n + 1) - m)
<1>1. r * n \in Nat
  OBVIOUS
<1>2. \A x \in Nat, d \in Nat \ {0} : x \div d \in Nat /\ (x \div d) * d <= x
  OBVIOUS
<1>3. /\ (r * n) \div (n + 1) \in Nat
      /\ ((r * n) \div (n + 1)) * (n + 1) <= r * n
  <2> DEFINE x == r * n
             d == n + 1
  <2>1. x \in Nat /\ d \in Nat \ {0}
    BY <1>1
  <2> HIDE DEF x, d
  <2>2. x \div d \in Nat /\ (x \div d) * d <= x
    BY <1>2, <2>1
  <2> QED
    BY <2>2 DEF x, d
<1>4. 20 * (n - k) <= 20 * ((n + 1) - m)
  OBVIOUS
<1> DEFINE a == ((r * n) \div (n + 1)) * (n + 1)
           b == r * n
           c == 20 * (n - k)
           d == 20 * ((n + 1) - m)
<1>5. a \in Int /\ b \in Int /\ c \in Int /\ d \in Int
  BY <1>3
<1>6. a <= b /\ b <= c /\ c <= d
  BY <1>3, <1>4
<1> HIDE DEF a, b, c, d
<1>7. a <= d
  BY <1>5, <1>6
<1> QED
  BY <1>3, <1>7 DEF a, d

\* At the cap the share is one of the square.
LEMMA ShareAtCap ==
  ASSUME NEW S \in Nat \ {0}, NEW r \in Nat, NEW m \in Nat, r * S <= 20 * (S - m)
  PROVE  r * (S + m) <= 20 * S
<1>1. (r * S) * (S + m) <= (20 * (S - m)) * (S + m)
  <2>1. \A a, b \in Int : \A c \in Nat : a <= b => a * c <= b * c
    OBVIOUS
  <2> QED
    BY <2>1
<1>2. (r * S) * (S + m) = (r * (S + m)) * S
  OBVIOUS
<1>3. (20 * (S - m)) * (S + m) = (20 * S) * S - 20 * (m * m)
  OBVIOUS
<1>4. m * m \in Nat
  OBVIOUS
<1>5. (r * (S + m)) * S <= (20 * S) * S
  BY <1>1, <1>2, <1>3, <1>4
<1>6. \A a, b \in Nat : a * S <= b * S => a <= b
  OBVIOUS
<1>7. r * (S + m) \in Nat /\ 20 * S \in Nat
  OBVIOUS
<1> QED
  BY <1>5, <1>6, <1>7

\* A failed use at the cap takes one share more.
LEMMA FailureAtCap ==
  ASSUME NEW S \in Nat \ {0}, NEW r \in 0 .. 20, NEW k \in Nat, NEW m \in Nat, m <= k + 1,
         r * (S + k) <= 20 * S
  PROVE  ((r * S) \div (S + 1)) * (S + m) <= 20 * S
<1> DEFINE q == (r * S) \div (S + 1)
<1>1. r * S \in Nat
  OBVIOUS
<1>2. \A x \in Nat, d \in Nat \ {0} : x \div d \in Nat /\ (x \div d) * d <= x
  OBVIOUS
<1>3. q \in Nat /\ q * (S + 1) <= r * S
  BY <1>1, <1>2
<1> HIDE DEF q
<1>4. \A a, b \in Int : \A c \in Nat : a <= b => a * c <= b * c
  OBVIOUS
<1>5. (q * (S + 1)) * (S + k + 1) <= (r * S) * (S + k + 1)
  BY <1>3, <1>4
<1>6. (r * S) * (S + k + 1) = (r * (S + k)) * (S + 1) - r * k
  OBVIOUS
<1>7. r * k \in Nat
  OBVIOUS
<1>8. (r * (S + k)) * (S + 1) <= (20 * S) * (S + 1)
  BY <1>4
<1>9. (q * (S + 1)) * (S + k + 1) = (q * (S + k + 1)) * (S + 1)
  BY <1>3
<1>10. (q * (S + k + 1)) * (S + 1) <= (20 * S) * (S + 1)
  <2> DEFINE a == (q * (S + k + 1)) * (S + 1)
             b == (r * (S + k)) * (S + 1)
             c == (20 * S) * (S + 1)
  <2>1. a \in Int /\ b \in Int /\ c \in Int
    BY <1>3
  <2>2. a <= b - r * k /\ b <= c
    BY <1>5, <1>6, <1>8, <1>9
  <2> HIDE DEF a, b, c
  <2>3. a <= c
    BY <1>7, <2>1, <2>2
  <2> QED
    BY <2>3 DEF a, c
<1>11. \A a, b \in Nat : a * (S + 1) <= b * (S + 1) => a <= b
  OBVIOUS
<1>12. q * (S + k + 1) \in Nat /\ 20 * S \in Nat
  BY <1>3
<1>13. q * (S + k + 1) <= 20 * S
  BY <1>10, <1>11, <1>12
<1>14. q * (S + m) <= q * (S + k + 1)
  <2>1. \A x, y \in Nat : x <= y => q * x <= q * y
    BY <1>3
  <2>2. S + m \in Nat /\ S + k + 1 \in Nat /\ S + m <= S + k + 1
    OBVIOUS
  <2> QED
    BY <2>1, <2>2
<1>15. q * (S + m) \in Nat
  BY <1>3
<1> QED
  BY <1>12, <1>13, <1>14, <1>15 DEF q

\* A use takes or gives back the share of its row.
LEMMA UseTakesShare ==
  ASSUME NEW exp \in ExpType, NEW verified \in BOOLEAN, NEW k \in Nat, NEW m \in Nat,
         ShareTaken(exp, k), IF verified THEN m = 0 ELSE m <= k + 1
  PROVE  ShareTaken(Counted(exp, verified), m)
<1> DEFINE n == exp.n
           r == exp.rate
           n1 == IF n < StaleN THEN n + 1 ELSE StaleN
           r1 == (r * n + (IF verified THEN 20 ELSE 0)) \div (n + 1)
<1>1. StaleN \in Nat \ {0} /\ n \in 0 .. StaleN /\ n \in Nat /\ r \in 0 .. 20
  BY NumbersAssumption DEF ExpType
<1>2. Counted(exp, verified).n = n1 /\ Counted(exp, verified).rate = r1
  BY DEF Counted, ExpType
<1>3. /\ n < StaleN => r * n <= 20 * (n - k)
      /\ n = StaleN => r * (StaleN + k) <= 20 * StaleN
  BY DEF ShareTaken
<1>4. r1 \in 0 .. 20
  BY <1>1, TrailingRate
<1> SUFFICES /\ n1 < StaleN => r1 * n1 <= 20 * (n1 - m)
             /\ n1 = StaleN => r1 * (StaleN + m) <= 20 * StaleN
  BY <1>2 DEF ShareTaken
<1>5. CASE verified
  <2>1. m = 0 /\ n1 \in Nat
    BY <1>1, <1>5
  <2> HIDE DEF r1, n1
  <2>2. \A x \in Nat : r1 * x <= 20 * x
    BY <1>4
  <2> QED
    BY <1>1, <2>1, <2>2
<1>6. CASE ~verified /\ n < StaleN
  <2>1. m <= k + 1 /\ r1 = (r * n) \div (n + 1) /\ n1 = n + 1
    BY <1>1, <1>6
  <2> HIDE DEF r1, n1, r, n
  <2>2. r1 * n1 <= 20 * (n1 - m)
    BY <1>1, <1>3, <1>6, <2>1, FailureBelow
  <2>3. CASE n1 = StaleN
    <3>1. r1 \in Nat /\ r1 * StaleN <= 20 * (StaleN - m)
      BY <1>4, <2>2, <2>3
    <3>2. r1 * (StaleN + m) <= 20 * StaleN
      BY <1>1, <3>1, ShareAtCap
    <3> QED
      BY <1>1, <2>3, <3>2
  <2> QED
    BY <2>2, <2>3
<1>7. CASE ~verified /\ n = StaleN
  <2>1. m <= k + 1 /\ r1 = (r * StaleN) \div (StaleN + 1) /\ n1 = StaleN
    BY <1>1, <1>7
  <2> HIDE DEF r1, n1, r, n
  <2>2. r1 * (StaleN + m) <= 20 * StaleN
    BY <1>1, <1>3, <1>7, <2>1, FailureAtCap
  <2> QED
    BY <1>1, <2>1, <2>2
<1>8. n < StaleN \/ n = StaleN
  BY <1>1
<1> QED
  BY <1>5, <1>6, <1>7, <1>8

\* An experience in the plans that has failed often enough is due.
LEMMA EnoughIsDue ==
  ASSUME NEW exp \in ExpType, ShareTaken(exp, Enough), exp.state \in Live,
         NEW catastrophic \in BOOLEAN
  PROVE  /\ Due(exp, catastrophic) \in Retired
         /\ Due(exp, catastrophic) \in ALLOWED[exp.state]
<1> DEFINE n == exp.n
           r == exp.rate
<1>1. StaleN \in Nat \ {0} /\ n \in 0 .. StaleN /\ n \in Nat /\ r \in Nat
  BY NumbersAssumption DEF ExpType
<1>2. /\ n < StaleN => r * n <= 20 * (n - Enough)
      /\ n = StaleN => r * (StaleN + Enough) <= 20 * StaleN
  BY DEF ShareTaken
<1>3. /\ Enough \in Nat /\ Enough >= QuarantineN /\ QuarantineN \in Nat \ {0}
      /\ 5 * Enough > 3 * (StaleN - 1) /\ 7 * Enough > 3 * StaleN
  BY NumbersAssumption, EnoughAssumption
<1>4. (n >= QuarantineN /\ r < 8) \/ (n >= StaleN /\ r < 14)
  <2> HIDE DEF n, r
  <2>1. CASE n < StaleN
    <3>1. r * n \in Nat
      BY <1>1
    <3>2. n >= Enough
      BY <1>1, <1>2, <1>3, <2>1, <3>1
    <3>3. n \in Nat \ {0} /\ n >= QuarantineN
      BY <1>1, <1>3, <3>2
    <3>4. 20 * (n - Enough) < 8 * n
      BY <1>1, <1>3, <2>1
    <3>5. r * n < 8 * n
      BY <1>1, <1>2, <1>3, <2>1, <3>1, <3>4
    <3>6. \A a, b \in Nat : a >= b => a * n >= b * n
      BY <1>1
    <3>7. r < 8
      BY <1>1, <3>5, <3>6
    <3> QED
      BY <3>3, <3>7
  <2>2. CASE n = StaleN
    <3> DEFINE d == StaleN + Enough
    <3>1. d \in Nat /\ 20 * StaleN < 14 * d
      BY <1>1, <1>3
    <3>2. r * d <= 20 * StaleN
      BY <1>2, <2>2
    <3> HIDE DEF d
    <3>3. \A a, b \in Nat : a >= b => a * d >= b * d
      BY <3>1
    <3>4. r * d \in Nat /\ r * d < 14 * d
      BY <1>1, <3>1, <3>2
    <3>5. r < 14
      BY <1>1, <3>1, <3>3, <3>4
    <3> QED
      BY <1>1, <2>2, <3>5
  <2> QED
    BY <1>1, <2>1, <2>2
<1>5. ShouldQuarantine(exp, catastrophic) \/ ShouldGoStale(exp)
  BY <1>4 DEF ShouldQuarantine, ShouldGoStale
<1>6. Due(exp, catastrophic) \in Retired
  BY <1>5 DEF Due, Live, Retired
<1>7. Retired \subseteq ALLOWED[exp.state]
  BY DEF ALLOWED, Live, Retired, States
<1> QED
  BY <1>6, <1>7

\* One more failure, told apart up to Enough.
LEMMA OneMore ==
  /\ Enough \in Nat \ {0} /\ Enough # 0
  /\ \A k \in 0..Enough : /\ k \in Nat /\ 0 <= k + 1 /\ 0 \in Nat
                          /\ (IF k < Enough THEN k + 1 ELSE Enough) \in Nat
                          /\ (IF k < Enough THEN k + 1 ELSE Enough) <= k + 1
<1>1. Enough \in Nat /\ Enough >= QuarantineN /\ QuarantineN \in Nat \ {0}
  BY NumbersAssumption, EnoughAssumption
<1>2. Enough \in Nat \ {0}
  BY <1>1
<1> QED
  BY <1>2

\* What has failed often enough, in between two operations, is torn.
LEMMA EnoughIsTorn ==
  ASSUME FailingInv, proc.target = ""
  PROVE  \A i \in Refs : streak[i] = Enough => i \in torn
BY DEF FailingInv, Retired

LEMMA FailingInit == Init => FailingInv
<1> SUFFICES ASSUME Init PROVE FailingInv
  OBVIOUS
<1>1. Refs = {}
  BY EmptySeq DEF Init, Refs
<1>2. \A i \in Slots : streak[i] = 0
  BY DEF Init
<1>3. proc.target # "MONITORED"
  BY IdleProc DEF Init
<1> QED
  BY <1>1, <1>2, <1>3 DEF FailingInv

\* A use of the first of the list: a failed one is counted, and at last due.
LEMMA FailingUse ==
  ASSUME TypeOK, ProcInv, FailingInv, proc.todo # <<>>, proc.target = "",
         NEW verified \in BOOLEAN, NEW catastrophic \in BOOLEAN,
         RecordUse(Head(proc.todo), verified, catastrophic), torn' = torn
  PROVE  FailingInv'
<1> DEFINE i == Head(proc.todo)
           exp == IF exps[i].state \in Retired THEN exps[i] ELSE Counted(exps[i], verified)
           due == Due(exp, catastrophic)
           k == streak[i]
           m == IF verified \/ exp.state \in Retired THEN 0 ELSE IF k < Enough THEN k + 1 ELSE Enough
<1>1. i \in Refs /\ i \in ToSet(proc.todo) /\ i \in Slots /\ Refs \subseteq Slots
  BY TodoList, Rows DEF TypeOK, ProcType
<1>2. exps[i] \in ExpType /\ exps[i].state \in Live \union Retired
  BY <1>1, Rows DEF ProcInv
<1>3. exp \in ExpType /\ exp.state = exps[i].state
  BY <1>2, CountedRow
<1>4. streak \in [Slots -> 0..Enough] /\ k \in 0..Enough /\ k \in Nat /\ Enough # 0
  <2>1. streak \in [Slots -> 0..Enough] /\ streak[i] \in 0..Enough
    BY <1>1 DEF TypeOK
  <2> QED
    BY <2>1, OneMore
<1>5. m \in Nat /\ (IF verified THEN m = 0 ELSE m <= k + 1)
  <2> DEFINE more == IF k < Enough THEN k + 1 ELSE Enough
  <2>1. more \in Nat /\ more <= k + 1 /\ 0 <= k + 1 /\ 0 \in Nat
    BY <1>4, OneMore
  <2> HIDE DEF more, exp, k
  <2>2. m = IF verified \/ exp.state \in Retired THEN 0 ELSE more
    BY DEF more
  <2> HIDE DEF m
  <2> QED
    BY <2>1, <2>2
<1>6. k # 0 => exps[i].state \in Live
  BY <1>1 DEF FailingInv
<1>7. ShareTaken(exp, m)
  <2>1. ShareTaken(exps[i], k)
    BY <1>1 DEF FailingInv
  <2>2. CASE exps[i].state \in Retired
    <3>1. exp = exps[i] /\ m = 0 /\ k = 0
      BY <1>3, <1>6, <2>2 DEF Live, Retired
    <3> QED
      BY <2>1, <3>1
  <2>3. CASE exps[i].state \notin Retired
    <3>1. exp = Counted(exps[i], verified)
      BY <2>3
    <3> HIDE DEF exp, m, k
    <3> QED
      BY <1>2, <1>4, <1>5, <2>1, <3>1, UseTakesShare
  <2> QED
    BY <2>2, <2>3
<1>8. m # 0 => exp.state \in Live
  BY <1>2, <1>3
<1>9. m = Enough => due \in Retired /\ due \in ALLOWED[exp.state]
  <2> SUFFICES ASSUME m = Enough PROVE due \in Retired /\ due \in ALLOWED[exp.state]
    OBVIOUS
  <2>1. exp.state \in Live /\ ShareTaken(exp, Enough)
    BY <1>4, <1>7, <1>8
  <2> HIDE DEF exp, m
  <2> QED
    BY <1>3, <2>1, EnoughIsDue
<1>10. /\ exps' = [exps EXCEPT ![i] = exp] /\ streak' = [streak EXCEPT ![i] = m]
       /\ IF due = "" THEN proc' = Popped(proc) /\ UNCHANGED tasks
          ELSE IF due \in ALLOWED[exp.state] THEN proc' = [proc EXCEPT !.target = due] /\ UNCHANGED tasks
          ELSE /\ proc' = Idle
               /\ tasks' = IF proc.task \in Tasks THEN [tasks EXCEPT ![proc.task] = NoTask] ELSE tasks
  BY DEF RecordUse
<1>11. proc'.target # "MONITORED"
  <2>1. due \in Retired \union {""}
    BY DEF Due, Retired
  <2>2. CASE proc' = [proc EXCEPT !.target = due]
    BY <2>1, <2>2, DueProc DEF Retired
  <2>3. CASE proc' = Popped(proc) \/ proc' = Idle
    BY <2>3, PoppedProc, IdleProc
  <2> QED
    BY <1>10, <2>2, <2>3
<1>12. m = Enough => proc'.target \in Retired /\ Head(proc'.todo) = i
  <2> SUFFICES ASSUME m = Enough PROVE proc'.target \in Retired /\ Head(proc'.todo) = i
    OBVIOUS
  <2>1. due \in Retired /\ due # "" /\ due \in ALLOWED[exp.state]
    BY <1>9 DEF Retired
  <2>2. proc' = [proc EXCEPT !.target = due]
    BY <1>10, <2>1
  <2> HIDE DEF due
  <2> QED
    BY <2>1, <2>2, DueProc
<1> HIDE DEF exp, due, m, k, i
<1>13. /\ Refs' = Refs /\ exps'[i] = exp /\ \A j \in Refs : j # i => exps'[j] = exps[j]
  BY <1>1, <1>3, <1>10, RowReplaced DEF Refs
<1>14. streak'[i] = m /\ \A j \in Slots : j # i => streak'[j] = streak[j]
  BY <1>1, <1>4, <1>10
<1>15. \A j \in Slots : streak'[j] # 0 => j \in Refs' /\ exps'[j].state \in Live
  BY <1>8, <1>1, <1>13, <1>14 DEF FailingInv
<1>16. \A j \in Refs' : ShareTaken(exps'[j], streak'[j])
  <2> SUFFICES ASSUME NEW j \in Refs PROVE ShareTaken(exps'[j], streak'[j])
    BY <1>13
  <2>1. CASE j = i
    BY <1>7, <1>13, <1>14, <2>1
  <2>2. CASE j # i
    BY <1>1, <1>13, <1>14, <2>2 DEF FailingInv
  <2> QED
    BY <2>1, <2>2
<1>17. \A j \in Refs' : streak'[j] = Enough /\ j \notin torn' =>
         proc'.target \in Retired /\ Head(proc'.todo) = j
  BY <1>1, <1>12, <1>13, <1>14, EnoughIsTorn
<1> QED
  BY <1>11, <1>15, <1>16, <1>17 DEF FailingInv, Slots

\* A step that counts no failed use and takes nothing out of the plans.
LEMMA FailingQuiet ==
  ASSUME FailingInv, Refs \subseteq Slots, streak' = streak, Refs \subseteq Refs', Refs' \subseteq Slots,
         \A j \in Refs : /\ exps'[j].n = exps[j].n /\ exps'[j].rate = exps[j].rate
                         /\ exps[j].state \in Live => exps'[j].state \in Live,
         \A j \in Refs' : j \notin Refs => exps'[j].n = 0 /\ exps'[j].rate = 20,
         \A j \in Refs : streak[j] = Enough => j \in torn',
         proc'.target = "MONITORED" => streak[Head(proc'.todo)] = 0
  PROVE  FailingInv'
<1>1. \A j \in Slots : streak'[j] # 0 => j \in Refs' /\ exps'[j].state \in Live
  BY DEF FailingInv
<1>2. \A j \in Refs' : ShareTaken(exps'[j], streak'[j])
  <2> SUFFICES ASSUME NEW j \in Refs' PROVE ShareTaken(exps'[j], streak'[j])
    OBVIOUS
  <2>1. CASE j \in Refs
    BY <2>1 DEF FailingInv, ShareTaken
  <2>2. CASE j \notin Refs
    <3>1. exps'[j].n = 0 /\ exps'[j].rate = 20 /\ streak'[j] = 0 /\ StaleN \in Nat \ {0}
      BY <2>2, NumbersAssumption DEF FailingInv
    <3> QED
      BY <3>1 DEF ShareTaken
  <2> QED
    BY <2>1, <2>2
<1>3. \A j \in Refs' : streak'[j] = Enough => j \in torn'
  <2>1. \A j \in Refs' : streak'[j] = Enough => j \in Refs
    BY OneMore DEF FailingInv
  <2> QED
    BY <2>1
<1> QED
  BY <1>1, <1>2, <1>3 DEF FailingInv, Slots

\* The same, where the rows stay as they are.
LEMMA FailingIdle ==
  ASSUME TypeOK, FailingInv, exps' = exps, streak' = streak,
         \A j \in Refs : streak[j] = Enough => j \in torn',
         proc'.target # "MONITORED"
  PROVE  FailingInv'
<1>1. Refs' = Refs /\ Refs \subseteq Slots
  BY Rows DEF Refs
<1> QED
  BY <1>1, FailingQuiet

\* An operation begins, goes on or is over; a kill tears what was due.
LEMMA FailingOperation ==
  ASSUME Kept, FailingInv,
         \/ \E t \in Tasks : Advise(t) \/ Fail(t) \/ Contradict(t)
         \/ \E i \in Refs : Report(i)
         \/ Message \/ Flagged \/ SettleOther \/ Settled \/ SweepStale \/ Sweep \/ Done \/ Kill
  PROVE  FailingInv'
<1>1. TypeOK /\ ProcInv
  BY DEF Kept
<1>2. exps' = exps /\ streak' = streak
  BY DEF Advise, Fail, Contradict, Report, Message, Flagged, SettleOther, Settled, SweepStale,
     Sweep, Done, Kill
<1>3. proc'.target # "MONITORED"
  <2>1. ASSUME NEW p, p.target = "", proc' = p PROVE proc'.target # "MONITORED"
    BY <2>1
  <2>2. CASE Message \/ Flagged \/ Settled \/ Done \/ Kill
    BY <2>2, IdleProc DEF Message, Flagged, Settled, Done, Kill
  <2>3. CASE SettleOther
    BY <1>1, <2>3, PoppedProc DEF SettleOther
  <2>4. CASE Sweep
    BY <1>1, <2>4, DueProc DEF Sweep, Retired
  <2>5. CASE SweepStale \/ \E i \in Refs : Report(i)
    BY <2>5 DEF SweepStale, Report, Idle
  <2>6. CASE \E t \in Tasks : Advise(t) \/ Fail(t) \/ Contradict(t)
    BY <2>6 DEF Advise, Fail, Contradict, Idle
  <2> QED
    BY <2>2, <2>3, <2>4, <2>5, <2>6
<1>4. \A j \in Refs : streak[j] = Enough => j \in torn'
  <2>1. CASE Kill
    <3> SUFFICES ASSUME NEW j \in Refs, streak[j] = Enough, j \notin torn
                 PROVE  j \in torn'
      BY <2>1 DEF Kill
    <3>1. proc.target \in Retired /\ Head(proc.todo) = j
      BY DEF FailingInv
    <3> QED
      BY <2>1, <3>1 DEF Kill
  <2>2. CASE ~Kill
    <3>1. torn' = torn /\ proc.target = ""
      BY <1>1, <2>2, IdleProc DEF Advise, Fail, Contradict, Report, Message, Flagged, SettleOther,
         Settled, SweepStale, Sweep, Done, At, ProcInv
    <3> QED
      BY <3>1, EnoughIsTorn
  <2> QED
    BY <2>1, <2>2
<1> QED
  BY <1>1, <1>2, <1>3, <1>4, FailingIdle

\* On the way to promotion nothing is used; what is promoted has not failed.
LEMMA FailingMaintenance ==
  ASSUME Kept, FailingInv,
         NEW i \in Refs, AddShadow(i) \/ TryValidate(i) \/ TryPromote(i)
  PROVE  FailingInv'
<1>1. TypeOK /\ proc.target = "" /\ streak' = streak /\ torn' = torn
  BY IdleProc DEF Kept, AddShadow, TryValidate, TryPromote
<1>2. exps \in Seq(ExpType) /\ Refs = 1 .. Len(exps) /\ Refs \subseteq Slots /\ exps[i] \in ExpType
  BY <1>1, Rows DEF TypeOK
<1>3. exps[i].state \notin Live
  BY DEF AddShadow, TryValidate, TryPromote, Live
<1>4. PICK e : /\ exps' = [exps EXCEPT ![i] = e]
               /\ e.n = exps[i].n /\ e.rate = exps[i].rate
  <2>1. CASE AddShadow(i)
    <3>1. PICK shadow : exps' = [exps EXCEPT ![i] = [exps[i] EXCEPT !.shadow = shadow]]
      BY <2>1 DEF AddShadow
    <3> DEFINE row == [exps[i] EXCEPT !.shadow = shadow]
    <3>2. row.n = exps[i].n /\ row.rate = exps[i].rate
      BY <1>2 DEF ExpType
    <3>3. exps' = [exps EXCEPT ![i] = row]
      BY <3>1
    <3> HIDE DEF row
    <3> QED
      BY <3>2, <3>3
  <2>2. CASE TryValidate(i)
    <3> DEFINE row == [exps[i] EXCEPT !.state = "VALIDATED"]
    <3>1. row.n = exps[i].n /\ row.rate = exps[i].rate
      BY <1>2 DEF ExpType
    <3>2. exps' = [exps EXCEPT ![i] = row]
      BY <2>2 DEF TryValidate
    <3> HIDE DEF row
    <3> QED
      BY <3>1, <3>2
  <2>3. CASE TryPromote(i)
    <3> DEFINE row == [exps[i] EXCEPT !.state = "PROMOTED", !.shadow = NoShadow]
    <3>1. row.n = exps[i].n /\ row.rate = exps[i].rate
      BY <1>2 DEF ExpType
    <3>2. exps' = [exps EXCEPT ![i] = row]
      BY <2>3, Promotion
    <3> HIDE DEF row
    <3> QED
      BY <3>1, <3>2
  <2> QED
    BY <2>1, <2>2, <2>3
<1>5. /\ Refs' = Refs /\ \A j \in Refs : j # i => exps'[j] = exps[j]
      /\ exps'[i] = e
  BY <1>2, <1>4 DEF Refs
<1>6. proc'.target = "MONITORED" => streak[Head(proc'.todo)] = 0
  <2>1. CASE TryPromote(i)
    <3>1. proc'.todo = <<i>>
      BY <2>1, Promotion
    <3>2. Head(proc'.todo) = i
      BY <3>1
    <3> QED
      BY <1>2, <1>3, <3>2 DEF FailingInv
  <2>2. CASE AddShadow(i) \/ TryValidate(i)
    BY <1>1, <2>2 DEF AddShadow, TryValidate
  <2> QED
    BY <2>1, <2>2
<1>7. \A j \in Refs : streak[j] = Enough => j \in torn'
  BY <1>1, EnoughIsTorn
<1>8. \A j \in Refs : /\ exps'[j].n = exps[j].n /\ exps'[j].rate = exps[j].rate
                      /\ exps[j].state \in Live => exps'[j].state \in Live
  BY <1>3, <1>4, <1>5
<1> QED
  BY <1>1, <1>2, <1>5, <1>6, <1>7, <1>8, FailingQuiet

\* What a task that passed teaches has no failures yet.
LEMMA FailingComplete == ASSUME Kept, FailingInv, NEW t \in Tasks, Complete(t) PROVE FailingInv'
<1>1. TypeOK /\ TypeOK' /\ proc.target = "" /\ streak' = streak /\ torn' = torn
  BY IdleProc, CompleteStep DEF Kept, Complete
<1>2. exps \in Seq(ExpType) /\ Len(exps) \in Nat /\ Refs = 1 .. Len(exps) /\ Refs \subseteq Slots
      /\ Refs' \subseteq Slots
  <2>1. exps \in Seq(ExpType) /\ exps' \in Seq(ExpType) /\ Len(exps') <= MaxExps
    BY <1>1 DEF TypeOK
  <2>2. Len(exps') \in Nat /\ Refs' = 1 .. Len(exps') /\ MaxExps \in Nat
    BY <2>1, NumbersAssumption, LenProperties DEF Refs
  <2>3. Refs' \subseteq Slots
    BY <2>1, <2>2 DEF Slots
  <2>4. Len(exps) \in Nat /\ Refs = 1 .. Len(exps) /\ Refs \subseteq Slots
    BY <1>1, Rows
  <2> QED
    BY <2>1, <2>3, <2>4
<1>3. PICK strategy \in Strategies :
        exps' = IF Len(exps) = MaxExps THEN exps
                ELSE Append(exps, Fresh(GateObserved(tasks[t].sig, strategy), tasks[t].sig, strategy))
  BY DEF Complete, Capture
<1> DEFINE row == Fresh(GateObserved(tasks[t].sig, strategy), tasks[t].sig, strategy)
<1>4. row.n = 0 /\ row.rate = 20
  BY DEF Fresh
<1>5. row \in ExpType
  <2>1. tasks[t].sig \in Signatures
    BY <1>1, TaskAtWork DEF Complete
  <2>2. GateObserved(tasks[t].sig, strategy) \in States
    BY DEF GateObserved, States
  <2> QED
    BY <2>1, <2>2, FreshRow
<1>6. exps' = exps \/ exps' = Append(exps, row)
  BY <1>3
<1> HIDE DEF row
<1>7. /\ Refs \subseteq Refs' /\ \A j \in Refs : exps'[j] = exps[j]
      /\ \A j \in Refs' : j \notin Refs => exps'[j] = row
  <2>1. CASE exps' = exps
    BY <2>1 DEF Refs
  <2>2. CASE exps' = Append(exps, row)
    <3>1. /\ exps' \in Seq(ExpType) /\ Len(exps') = Len(exps) + 1
          /\ \A j \in 1 .. Len(exps) : exps'[j] = exps[j]
          /\ exps'[Len(exps) + 1] = row
      BY <1>2, <1>5, <2>2, AppendProperties
    <3>2. Refs' = 1 .. (Len(exps) + 1)
      BY <3>1, LenProperties DEF Refs
    <3>3. \A j \in 1 .. (Len(exps) + 1) : j \in 1 .. Len(exps) \/ j = Len(exps) + 1
      BY <1>2
    <3>4. 1 .. Len(exps) \subseteq 1 .. (Len(exps) + 1)
      BY <1>2
    <3> QED
      BY <1>2, <3>1, <3>2, <3>3, <3>4
  <2> QED
    BY <1>6, <2>1, <2>2
<1>8. proc'.target # "MONITORED"
  BY DEF Complete, Idle
<1>9. \A j \in Refs : streak[j] = Enough => j \in torn'
  BY <1>1, EnoughIsTorn
<1> QED
  BY <1>1, <1>2, <1>4, <1>7, <1>8, <1>9, FailingQuiet

\* The edge that is due is taken: what is retired has failed no more.
LEMMA FailingAdvance == ASSUME Kept, FailingInv, Advance PROVE FailingInv'
<1> DEFINE h == Head(proc.todo)
           e == IF proc.target \in Retired THEN Fresh(proc.target, exps[h].sig, exps[h].strategy)
                ELSE [exps[h] EXCEPT !.state = proc.target]
<1>1. TypeOK /\ ProcInv
  BY DEF Kept
<1>2. /\ proc.target # "" /\ proc.todo # <<>> /\ proc' = Popped(proc)
      /\ torn' = torn \ {h}
      /\ proc.target \in Retired => streak' = [streak EXCEPT ![h] = 0]
      /\ proc.target \notin Retired => streak' = streak
  BY <1>1 DEF Advance, ProcInv
<1>3. exps' = [exps EXCEPT ![h] = e]
  BY DEF Advance
<1>4. proc.target \in {"MONITORED"} \union Retired /\ h \in Refs /\ Refs \subseteq Slots
      /\ exps[h] \in ExpType
  BY <1>1, <1>2, TodoList, Rows DEF TypeOK, ProcType
<1>5. proc'.target = ""
  BY <1>1, <1>2, PoppedProc
<1>6. /\ Refs' = Refs /\ exps'[h] = e /\ \A j \in Refs : j # h => exps'[j] = exps[j]
  <2> HIDE DEF e, h
  <2> QED
    BY <1>1, <1>3, <1>4, Rows DEF Refs
<1>7. streak \in [Slots -> 0..Enough] /\ Enough # 0 /\ StaleN \in Nat \ {0}
  BY <1>1, NumbersAssumption, OneMore DEF TypeOK
<1>8. streak'[h] = 0 /\ \A j \in Slots : j # h => streak'[j] = streak[j]
  <2>1. CASE proc.target \in Retired
    BY <1>2, <1>4, <1>7, <2>1
  <2>2. CASE proc.target \notin Retired
    BY <1>2, <1>4, <2>2 DEF FailingInv
  <2> QED
    BY <2>1, <2>2
<1>9. ShareTaken(e, 0)
  <2>1. CASE proc.target \in Retired
    <3>1. e.n = 0 /\ e.rate = 20
      BY <2>1 DEF Fresh
    <3> HIDE DEF e
    <3> QED
      BY <1>7, <3>1 DEF ShareTaken
  <2>2. CASE proc.target \notin Retired
    <3>1. e.n = exps[h].n /\ e.rate = exps[h].rate
      BY <1>4, <2>2 DEF ExpType
    <3>2. streak[h] = 0
      BY <1>4, <2>2 DEF FailingInv
    <3>3. ShareTaken(exps[h], 0)
      BY <1>4, <3>2 DEF FailingInv
    <3> HIDE DEF e, h
    <3> QED
      BY <3>1, <3>3 DEF ShareTaken
  <2> QED
    BY <2>1, <2>2
<1> HIDE DEF e
<1>10. \A j \in Slots : streak'[j] # 0 => j \in Refs' /\ exps'[j].state \in Live
  BY <1>6, <1>8 DEF FailingInv
<1>11. \A j \in Refs' : ShareTaken(exps'[j], streak'[j])
  <2> SUFFICES ASSUME NEW j \in Refs PROVE ShareTaken(exps'[j], streak'[j])
    BY <1>6
  <2>1. CASE j = h
    BY <1>6, <1>8, <1>9, <2>1
  <2>2. CASE j # h
    BY <1>4, <1>6, <1>8, <2>2 DEF FailingInv
  <2> QED
    BY <2>1, <2>2
<1>12. \A j \in Refs' : streak'[j] = Enough => j \in torn'
  <2> SUFFICES ASSUME NEW j \in Refs, streak'[j] = Enough PROVE j \in torn'
    BY <1>6
  <2>1. j # h /\ streak[j] = Enough
    BY <1>4, <1>7, <1>8
  <2>2. j \in torn
    BY <2>1 DEF FailingInv
  <2> QED
    BY <1>2, <2>1, <2>2
<1> QED
  BY <1>5, <1>10, <1>11, <1>12 DEF FailingInv, Slots

\* Every step keeps what is known of the failures.
LEMMA FailingStep == Kept /\ FailingInv /\ [Next]_vars => FailingInv'
<1> SUFFICES ASSUME Kept, FailingInv, [Next]_vars PROVE FailingInv'
  OBVIOUS
<1>1. TypeOK /\ ProcInv
  BY DEF Kept
<1>2. CASE \E t \in Tasks : Advise(t) \/ Fail(t) \/ Contradict(t)
  BY <1>2, FailingOperation
<1>3. CASE \E i \in Refs : Report(i)
  BY <1>3, FailingOperation
<1>4. CASE Message \/ Flagged \/ SettleOther \/ Settled \/ SweepStale \/ Sweep \/ Done \/ Kill
  BY <1>4, FailingOperation
<1>5. CASE \E i \in Refs : AddShadow(i) \/ TryValidate(i) \/ TryPromote(i)
  BY <1>5, FailingMaintenance
<1>6. CASE \E t \in Tasks : Complete(t)
  BY <1>6, FailingComplete
<1>7. CASE Advance
  BY <1>7, FailingAdvance
<1>8. CASE UseAdvice \/ UseReported \/ Flag
  <2>1. /\ proc.todo # <<>> /\ proc.target = "" /\ torn' = torn
        /\ \E verified, catastrophic \in BOOLEAN : RecordUse(Head(proc.todo), verified, catastrophic)
    BY <1>8 DEF UseAdvice, UseReported, Flag, At
  <2> QED
    BY <1>1, <2>1, FailingUse
<1>9. CASE SettleCanary
  <2>1. /\ proc.todo # <<>> /\ proc.target = "" /\ torn' = torn
        /\ \/ RecordUse(Head(proc.todo), FALSE, TRUE)
           \/ proc' = Popped(proc) /\ UNCHANGED <<exps, tasks, streak>>
    BY <1>9 DEF SettleCanary, At, Rollback
  <2>2. CASE RecordUse(Head(proc.todo), FALSE, TRUE)
    BY <1>1, <2>1, <2>2, FailingUse
  <2>3. CASE proc' = Popped(proc) /\ UNCHANGED <<exps, tasks, streak>>
    <3>1. proc'.target # "MONITORED"
      BY <1>1, <2>1, <2>3, PoppedProc
    <3> QED
      BY <1>1, <2>1, <2>3, <3>1, EnoughIsTorn, FailingIdle
  <2> QED
    BY <2>1, <2>2, <2>3
<1>10. CASE UNCHANGED vars
  BY <1>10 DEF vars, FailingInv, Refs, ShareTaken
<1> QED
  BY <1>2, <1>3, <1>4, <1>5, <1>6, <1>7, <1>8, <1>9, <1>10 DEF Next

-----------------------------------------------------------------------------
(* The theorems                                                            *)

\* What one step keeps holds always.
LEMMA KeptAlways == Spec => []Kept
  BY MemoryInit, MemoryStep, PTL DEF Spec

\* Between any two commits, and after any kill: one row of a situation and strategy
\* is on the way to promotion, and what a canary rolled back is not in the plans.
THEOREM MemoryInvariance == Spec => []MemoryInv
<1>1. Init => Kept /\ FailingInv
  BY MemoryInit, FailingInit
<1>2. Kept /\ FailingInv /\ [Next]_vars => Kept' /\ FailingInv'
  BY MemoryStep, FailingStep
<1> QED
  BY <1>1, <1>2, KeptIsMemoryInv, PTL DEF Spec

\* No experience survives Enough failed uses in a row, however long and well it
\* served before them, unless a kill came between the last one and its retirement.
THEOREM FailuresRetire == Spec => []FailingIsRetired
<1>1. MemoryInv => FailingIsRetired
  BY EnoughIsTorn DEF MemoryInv, FailingIsRetired
<1> QED
  BY <1>1, MemoryInvariance, PTL

\* When a contradicted pass is dealt with to the end, everything its task was
\* advised of is quarantined, however many rows that is.
THEOREM ContradictionQuarantines == Spec => ContradictedIsQuarantined
<1>1. Kept /\ [Next]_vars =>
        [proc.op = "flag" /\ proc'.op = "none" /\ proc.todo = <<>> =>
           \A i \in ToSet(tasks[proc.task].refs) : exps[i].state = "QUARANTINED"]_vars
  BY Elements DEF Kept, FlagInv
<1> QED
  BY <1>1, KeptAlways, PTL DEF Spec, ContradictedIsQuarantined

\* Only a promotion makes a row promoted: a use keeps its state, and no edge of the
\* lifecycle that is due leads there.
LEMMA OnlyPromoted ==
  ASSUME Kept, Next, NEW i \in Refs, exps'[i].state = "PROMOTED", exps[i].state # "PROMOTED"
  PROVE  \E j \in Refs : TryPromote(j)
<1> SUFFICES ASSUME ~ \E j \in Refs : TryPromote(j)
             PROVE  exps'[i].state = exps[i].state \/ exps'[i].state # "PROMOTED"
  OBVIOUS
<1>1. TypeOK /\ ProcInv
  BY DEF Kept
<1>2. /\ exps \in Seq(ExpType) /\ Refs = 1 .. Len(exps) /\ Len(exps) \in Nat
      /\ exps[i] \in ExpType
  BY <1>1, Rows DEF TypeOK
<1>3. ASSUME exps' = exps PROVE exps'[i].state = exps[i].state
  BY <1>3
<1>4. ASSUME NEW t \in Tasks, Complete(t) PROVE exps'[i].state = exps[i].state
  <2>1. PICK strategy \in Strategies :
          exps' = IF Len(exps) = MaxExps THEN exps
                  ELSE Append(exps, Fresh(GateObserved(tasks[t].sig, strategy), tasks[t].sig, strategy))
    BY <1>4 DEF Complete, Capture
  <2> DEFINE row == Fresh(GateObserved(tasks[t].sig, strategy), tasks[t].sig, strategy)
  <2>2. row \in ExpType
    <3>1. tasks[t].sig \in Signatures
      BY <1>1, <1>4, TaskAtWork DEF Complete
    <3>2. GateObserved(tasks[t].sig, strategy) \in States
      BY DEF GateObserved, States
    <3> QED
      BY <3>1, <3>2, FreshRow
  <2>3. exps' = exps \/ exps' = Append(exps, row)
    BY <2>1
  <2> HIDE DEF row
  <2> QED
    BY <1>2, <2>2, <2>3, AppendProperties
<1>5. ASSUME NEW verified \in BOOLEAN, NEW catastrophic \in BOOLEAN,
             proc.todo # <<>>, proc.target = "",
             RecordUse(Head(proc.todo), verified, catastrophic)
      PROVE  exps'[i].state = exps[i].state
  BY <1>1, <1>5, UseOfRow
<1>6. CASE UseAdvice \/ UseReported \/ Flag
  BY <1>5, <1>6 DEF UseAdvice, UseReported, Flag, At
<1>7. CASE SettleCanary
  BY <1>3, <1>5, <1>7 DEF SettleCanary, Rollback, At
<1>8. CASE Advance
  <2> DEFINE h == Head(proc.todo)
             e == IF proc.target \in Retired THEN Fresh(proc.target, exps[h].sig, exps[h].strategy)
                  ELSE [exps[h] EXCEPT !.state = proc.target]
  <2>1. exps' = [exps EXCEPT ![h] = e] /\ proc.target # "" /\ proc.todo # <<>>
    BY <1>1, <1>8 DEF Advance, ProcInv
  <2>2. proc \in ProcType /\ proc.target \in {"MONITORED"} \union Retired
    BY <1>1, <2>1 DEF TypeOK, ProcType
  <2>3. h \in Refs /\ exps[h] \in ExpType
    BY <1>1, <2>1, <2>2, TodoList, Rows DEF ProcType
  <2>4. e.state = proc.target
    BY <2>3 DEF ExpType, Fresh
  <2>5. e.state # "PROMOTED"
    BY <2>2, <2>4 DEF Retired
  <2> HIDE DEF e
  <2> QED
    BY <2>1, <2>5 DEF Refs
<1>9. ASSUME NEW j \in Refs, AddShadow(j) PROVE exps'[i].state = exps[i].state
  BY <1>2, <1>9 DEF AddShadow, Refs, ExpType
<1>10. ASSUME NEW j \in Refs, TryValidate(j)
       PROVE exps'[i].state = exps[i].state \/ exps'[i].state # "PROMOTED"
  BY <1>2, <1>10 DEF TryValidate, Refs, ExpType
<1>11. CASE Message \/ Flagged \/ SettleOther \/ Settled \/ SweepStale \/ Sweep \/ Done \/ Kill
  BY <1>3, <1>11 DEF Message, Flagged, SettleOther, Settled, SweepStale, Sweep, Done, Kill
<1>12. CASE \E t \in Tasks : Advise(t) \/ Fail(t) \/ Contradict(t)
  BY <1>3, <1>12 DEF Advise, Fail, Contradict
<1>13. CASE \E j \in Refs : Report(j)
  BY <1>3, <1>13 DEF Report
<1> QED
  BY <1>4, <1>6, <1>7, <1>8, <1>9, <1>10, <1>11, <1>12, <1>13 DEF Next

\* Nothing is promoted without its replays and weeks, nor what touches security
\* without a human or a report that did not name it.
THEOREM PromotionsAreEarned == Spec => PromotionIsEarned
<1>1. Kept /\ [Next]_vars =>
        [\A i \in Refs : exps'[i].state = "PROMOTED" /\ exps[i].state # "PROMOTED" =>
           /\ exps[i].shadow.n >= MinShadow /\ exps[i].shadow.weeks >= MinWeeks
           /\ TouchesSecurity(exps[i].strategy) => proc'.by \in {"human", "report"}]_vars
  <2> SUFFICES ASSUME Kept, Next, NEW i \in Refs,
                      exps'[i].state = "PROMOTED", exps[i].state # "PROMOTED"
               PROVE  /\ exps[i].shadow.n >= MinShadow /\ exps[i].shadow.weeks >= MinWeeks
                      /\ TouchesSecurity(exps[i].strategy) => proc'.by \in {"human", "report"}
    OBVIOUS
  <2>1. PICK j \in Refs : TryPromote(j)
    BY OnlyPromoted
  <2>2. /\ exps[j].state = "VALIDATED"
        /\ exps' = [exps EXCEPT ![j] = [exps[j] EXCEPT !.state = "PROMOTED", !.shadow = NoShadow]]
        /\ TouchesSecurity(exps[j].strategy) => proc'.by \in {"human", "report"}
    BY <2>1, Promotion
  <2>3. i = j
    BY <2>2 DEF Refs
  <2> QED
    BY <2>2, <2>3 DEF Kept, ValidatedInv
<1> QED
  BY <1>1, KeptAlways, PTL DEF Spec, PromotionIsEarned
=============================================================================
