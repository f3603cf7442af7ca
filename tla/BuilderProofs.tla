---------------------------- MODULE BuilderProofs ----------------------------
(***************************************************************************)
(* Proofs about the Builder of a task: the loop of the local one, for      *)
(* every cap, patience and churn limit, and the routing that picks one,    *)
(* for every class, set of tasks and number of runs, samples and rungs.    *)
(*                                                                         *)
(* The argument of TurnsArePaidFor is an account: each piece of news buys  *)
(* Patience turns (OneMorePiece), every other turn is on the counter of    *)
(* unproductive turns, and that counter ends the loop at Patience.         *)
(*                                                                         *)
(* That of RouteInv is that route() names a provider of the registry       *)
(* (DecisionIsAProvider), which is new to the task or the rung is not      *)
(* taken (RouteIsLogged), and that the controller of a challenger counts   *)
(* what is settled and nothing else (SettlingCounts).                      *)
(***************************************************************************)
EXTENDS LocalBuilder, Routing, FiniteSetTheorems, TLAPS

(* One more piece of news buys Patience more turns.                        *)
LEMMA OneMorePiece ==
  ASSUME NEW n \in Nat
  PROVE  Patience * n \in Nat /\ Patience * (n + 1) = Patience * n + Patience
BY BuilderAssumption

(* The files seen are at most two, and seeing one adds one or none.        *)
LEMMA SeenGrows ==
  ASSUME NEW seen \in SUBSET Files, NEW f \in Files
  PROVE  /\ Cardinality(seen) \in Nat
         /\ Cardinality(seen \union {f}) =
              Cardinality(seen) + (IF f \in seen THEN 0 ELSE 1)
<1>1. IsFiniteSet(Files)
  <2>1. IsFiniteSet({}) /\ IsFiniteSet({} \union {Impl})
    BY FS_EmptySet, FS_AddElement
  <2>2. IsFiniteSet(({} \union {Impl}) \union {Test}) BY <2>1, FS_AddElement
  <2>3. ({} \union {Impl}) \union {Test} = Files BY DEF Files
  <2>4. QED BY <2>2, <2>3
<1>2. IsFiniteSet(seen) BY <1>1, FS_Subset
<1>3. QED BY <1>2, FS_CardinalityType, FS_AddElement

LEMMA NewsCounts ==
  ASSUME NEW r \in Locals
  PROVE  News(r) \in Nat
<1>1. Cardinality(r.seen) \in Nat BY SeenGrows DEF Locals, Files
<1>2. QED BY <1>1 DEF News, Locals

(* The locals r account for their turns, but for so many under way.        *)
Fits(r, slack) ==
  /\ r \in Locals /\ r.unproductive < Patience /\ r.edits + r.runs <= r.turns
  /\ r.turns <= Patience * News(r) + r.unproductive + slack

(* What a turn does not touch.                                             *)
Kept == task \in [impl: BOOLEAN, target: BOOLEAN] /\ base \in [Files -> Contents]
        /\ ws \in [Files -> Contents] /\ stop \in BOOLEAN /\ out = "no"

(* A turn that brought news, or was counted.                               *)
LEMMA ContinueKeeps ==
  ASSUME NEW r, Fits(r, 0), Kept', how = "no", Continue(r)
  PROVE  IInv'
<1> USE DEF Continue, Fits, Kept
<1>1. TypeOK' BY DEF TypeOK, Tools, Ends
<1>2. PlaceInv' BY DEF PlaceInv
<1>3. CountInv' BY DEF CountInv, Locals
<1>4. PaidInv'
  <2>1. News(r) \in Nat /\ Patience * News(r) \in Nat BY NewsCounts, OneMorePiece
  <2>2. b' = r /\ UnderWay' = 0 BY DEF UnderWay
  <2>3. r.turns \in Nat /\ r.unproductive \in Nat BY DEF Locals
  <2>4. QED BY <2>1, <2>2, <2>3 DEF PaidInv
<1>5. (MissingImplWasDemanded /\ StopIsNotABuild)'
  BY DEF MissingImplWasDemanded, StopIsNotABuild
<1>6. QED BY <1>1, <1>2, <1>3, <1>4, <1>5 DEF IInv

(* The directive buys turns once.                                          *)
LEMMA ForceKeeps ==
  ASSUME NEW r \in Locals, r.unproductive <= Patience, r.edits + r.runs <= r.turns,
         r.turns <= Patience * News(r) + Patience,
         ~r.forced, Kept', how = "no", ForceImpl(r),
         NEW d, d = Demanded(r)
  PROVE  IInv'
<1>1. d \in Locals /\ d.unproductive = 0 /\ d.turns = r.turns /\ d.edits + d.runs <= d.turns
  <2>1. 0 \in 0..Patience BY BuilderAssumption
  <2>2. d \in Locals BY <2>1 DEF Demanded, Locals
  <2>3. /\ d.unproductive = 0 /\ d.turns = r.turns
        /\ d.edits = r.edits /\ d.runs = r.runs
    BY DEF Demanded, Locals
  <2>4. QED BY <2>2, <2>3
<1>2. News(d) = News(r) + 1
  <2>1. Cardinality(r.seen) \in Nat BY SeenGrows DEF Locals, Files
  <2>2. QED BY <2>1 DEF Demanded, News, Locals
<1>3. Patience * News(d) = Patience * News(r) + Patience
  BY <1>2, NewsCounts, OneMorePiece
<1>4. Fits(d, 0)
  <2>1. Patience * News(r) \in Nat /\ r.turns \in Nat BY NewsCounts, OneMorePiece DEF Locals
  <2>2. QED BY <1>1, <1>3, <2>1, BuilderAssumption DEF Fits
<1>5. Continue(d) BY DEF ForceImpl
<1>6. QED BY <1>4, <1>5, ContinueKeeps

(* The loop ends: what it leaves is accounted for, and the implementation  *)
(* is there, was demanded, or nobody is to ask for it.                     *)
LEMMA EndKeeps ==
  ASSUME NEW r \in Locals, NEW why \in Ends \ {"no"}, r.edits + r.runs <= r.turns,
         r.turns <= Patience * News(r) + r.unproductive
                      + (IF r.unproductive = Patience THEN 0 ELSE 1),
         why \in {"finished", "stalled", "churn"} => ~CanForce(r),
         ws' = ws, task' = task, Kept', End(r, why)
  PROVE  IInv'
<1> USE DEF End, Kept
<1>1. TypeOK' BY DEF TypeOK, Tools
<1>2. PlaceInv' BY DEF PlaceInv
<1>3. CountInv' BY DEF CountInv
<1>4. PaidInv'
  <2>1. b' = r /\ UnderWay' = IF r.unproductive = Patience THEN 0 ELSE 1 BY DEF UnderWay
  <2>2. QED BY <2>1 DEF PaidInv
<1>5. (MissingImplWasDemanded /\ StopIsNotABuild)'
  BY DEF MissingImplWasDemanded, StopIsNotABuild, CanForce, ImplMissing
<1>6. QED BY <1>1, <1>2, <1>3, <1>4, <1>5 DEF IInv

(* A turn without news is counted; the last one that is ends the loop.     *)
LEMMA FruitlessFits ==
  ASSUME NEW r, Fits(r, 1), NEW n, n = Fruitless(r)
  PROVE  /\ n \in Locals /\ n.edits + n.runs <= n.turns /\ n.unproductive <= Patience
         /\ n.forced = r.forced
         /\ n.turns <= Patience * News(n) + n.unproductive
         /\ n.turns <= Patience * News(n) + Patience
         /\ ~Lost(n) => Fits(n, 0)
         /\ Lost(n) => n.unproductive = Patience
<1>1. /\ n \in Locals /\ n.edits + n.runs <= n.turns /\ n.unproductive <= Patience
      /\ n.unproductive = r.unproductive + 1 /\ n.turns = r.turns /\ n.forced = r.forced
  BY BuilderAssumption DEF Fruitless, Fits, Locals
<1>2. News(n) = News(r) BY DEF News, Fruitless, Fits, Locals
<1>3. Patience * News(r) \in Nat /\ r.turns \in Nat /\ r.unproductive \in Nat
  BY NewsCounts, OneMorePiece DEF Fits, Locals
<1>4. n.turns <= Patience * News(n) + n.unproductive BY <1>1, <1>2, <1>3 DEF Fits
<1>5. QED BY <1>1, <1>2, <1>3, <1>4, BuilderAssumption DEF Fits, Lost

LEMMA IdleKeeps ==
  ASSUME NEW r, Fits(r, 1), ws' = ws, task' = task, Kept', how = "no", Idle(r),
         NEW n, n = Fruitless(r)
  PROVE  IInv'
<1>1. /\ n \in Locals /\ n.edits + n.runs <= n.turns /\ n.unproductive <= Patience
      /\ n.turns <= Patience * News(n) + n.unproductive
      /\ n.turns <= Patience * News(n) + Patience
      /\ ~Lost(n) => Fits(n, 0)
      /\ Lost(n) => n.unproductive = Patience
  BY FruitlessFits
<1>2. CASE ~Lost(n)
  <2>1. Continue(n) BY <1>2 DEF Idle
  <2>2. QED BY <1>1, <1>2, <2>1, ContinueKeeps
<1>3. CASE Lost(n) /\ CanForce(n)
  <2>1. ForceImpl(n) /\ ~n.forced BY <1>3 DEF Idle, ForceOr, CanForce
  <2>2. QED BY <1>1, <2>1, ForceKeeps
<1>4. CASE Lost(n) /\ ~CanForce(n)
  <2>1. End(n, "stalled") BY <1>4 DEF Idle, ForceOr
  <2>2. n.turns <= Patience * News(n) + n.unproductive
                     + (IF n.unproductive = Patience THEN 0 ELSE 1)
    <3>1. Patience * News(n) \in Nat /\ n.unproductive \in Nat
      BY <1>1, NewsCounts, OneMorePiece DEF Locals
    <3>2. QED BY <1>1, <1>4, <3>1
  <2>3. "stalled" \in Ends \ {"no"} BY DEF Ends
  <2>4. QED BY <1>1, <1>4, <2>1, <2>2, <2>3, EndKeeps
<1>5. QED BY <1>2, <1>3, <1>4

(* A turn that is about to begin, or is under way, is the one not yet      *)
(* accounted for.                                                          *)
LEMMA TurnFits ==
  ASSUME IInv, BeginTurn
  PROVE  Fits(Turn, 1) /\ Turn.forced = b.forced /\ how = "no" /\ out = "no"
<1> USE DEF IInv
<1>1. b \in Locals BY DEF TypeOK
<1>2. Turn \in Locals /\ Turn.turns = b.turns + 1 /\ Turn.unproductive = b.unproductive
      /\ Turn.edits = b.edits /\ Turn.runs = b.runs /\ Turn.forced = b.forced
  BY <1>1, BuilderAssumption DEF Turn, BeginTurn, Locals
<1>3. News(Turn) = News(b) BY <1>1 DEF News, Turn, Locals
<1>4. Patience * News(b) \in Nat BY <1>1, NewsCounts, OneMorePiece
<1>5. b.turns <= Patience * News(b) + b.unproductive + 0
  BY DEF PaidInv, UnderWay, BeginTurn
<1>6. b.turns \in Nat /\ b.unproductive \in Nat /\ b.edits \in Nat /\ b.runs \in Nat
  BY <1>1 DEF Locals
<1>7. Turn.turns <= Patience * News(Turn) + Turn.unproductive + 1
  BY <1>2, <1>3, <1>4, <1>5, <1>6
<1>8. Turn.unproductive < Patience /\ how = "no" /\ out = "no"
  BY <1>2 DEF PlaceInv, BeginTurn
<1>9. Turn.edits + Turn.runs <= Turn.turns BY <1>2, <1>6 DEF CountInv
<1>10. QED BY <1>2, <1>7, <1>8, <1>9 DEF Fits

LEMMA ActFits ==
  ASSUME IInv, pc = "act"
  PROVE  Fits(b, 1) /\ b.edits + b.runs < b.turns /\ how = "no" /\ out = "no"
<1> USE DEF IInv
<1>1. b \in Locals BY DEF TypeOK
<1>2. b.unproductive < Patience /\ how = "no" /\ out = "no" BY DEF PlaceInv
<1>3. b.edits + b.runs < b.turns BY DEF CountInv
<1>4. UnderWay = 1 BY <1>1, <1>2, BuilderAssumption DEF UnderWay, Locals
<1>5. b.turns <= Patience * News(b) + b.unproductive + 1 BY <1>4 DEF PaidInv
<1>6. b.edits \in Nat /\ b.runs \in Nat /\ b.turns \in Nat BY <1>1 DEF Locals
<1>7. QED BY <1>1, <1>2, <1>3, <1>5, <1>6 DEF Fits

(* Progress: one more piece of news, and the counter starts over.          *)
LEMMA NewsKeeps ==
  ASSUME IInv, pc = "act", NEW r \in Locals, r.turns = b.turns,
         r.edits + r.runs <= r.turns, News(r) = News(b) + 1,
         Kept', Continue(Fruitful(r))
  PROVE  IInv'
<1>1. Fits(b, 1) /\ how = "no" BY ActFits
<1>2. PICK d : d = Fruitful(r) OBVIOUS
<1>3. 0 \in 0..Patience BY BuilderAssumption
<1>4. d \in Locals /\ d.unproductive = 0 /\ d.turns = r.turns /\ d.edits = r.edits
      /\ d.runs = r.runs
  BY <1>2, <1>3 DEF Fruitful, Locals
<1>5. News(d) = News(r) BY <1>2 DEF News, Fruitful, Locals
<1>6. Patience * News(b) \in Nat /\ Patience * News(d) = Patience * News(b) + Patience
  BY <1>1, <1>5, NewsCounts, OneMorePiece DEF Fits
<1>7. b.turns \in Nat /\ b.unproductive \in Nat BY <1>1 DEF Fits, Locals
<1>8. d.turns <= Patience * News(d) + 0 + 0
  BY <1>1, <1>4, <1>6, <1>7, BuilderAssumption DEF Fits
<1>9. Fits(d, 0) BY <1>4, <1>8, BuilderAssumption DEF Fits
<1>10. QED BY <1>1, <1>2, <1>9, ContinueKeeps

(* No news: the turn goes on the counter, whatever else it noted.          *)
LEMMA NoNewsKeeps ==
  ASSUME NEW r, Fits(r, 1), ws' = ws, task' = task, Kept', how = "no", Idle(r)
  PROVE  IInv'
<1>1. PICK n : n = Fruitless(r) OBVIOUS
<1>2. QED BY <1>1, IdleKeeps

(* A step that keeps the task and the baseline, leaves the contents        *)
(* contents, and returns nothing.                                          *)
LEMMA Keeping ==
  ASSUME IInv, out = "no",
         UNCHANGED <<task, base, out, stop>>, ws' \in [Files -> Contents]
  PROVE  Kept'
BY DEF IInv, TypeOK, Kept

(***************************************************************************)
(* The actions, one lemma each.                                            *)
(***************************************************************************)
LEMMA EndingKeeps ==
  ASSUME IInv, Cancelled \/ CapReached
  PROVE  IInv'
<1>1. PICK why \in {"cancelled", "cap"} : End(b, why) BY DEF Cancelled, CapReached
<1>2. b \in Locals /\ ws \in [Files -> Contents] BY DEF IInv, TypeOK
<1>3. pc = "turn" /\ UNCHANGED <<task, base, ws, out, stop>> BY DEF Cancelled, CapReached
<1>4. Kept' BY <1>2, <1>3, Keeping DEF IInv, PlaceInv
<1>5. b.edits + b.runs <= b.turns /\ b.turns <= Patience * News(b) + b.unproductive + 0
  BY <1>3 DEF IInv, CountInv, PaidInv, UnderWay
<1>6. b.turns \in Nat /\ b.unproductive \in Nat /\ Patience * News(b) \in Nat
  BY <1>2, NewsCounts, OneMorePiece DEF Locals
<1>7. b.turns <= Patience * News(b) + b.unproductive
                   + (IF b.unproductive = Patience THEN 0 ELSE 1)
  BY <1>5, <1>6
<1>8. why \in Ends \ {"no"} /\ why \notin {"finished", "stalled", "churn"} BY DEF Ends
<1>9. QED BY <1>1, <1>2, <1>3, <1>4, <1>5, <1>7, <1>8, EndKeeps

LEMMA AskKeeps ==
  ASSUME IInv, NEW t \in Tools, Ask(t)
  PROVE  IInv'
<1> USE DEF IInv, Ask
<1>1. Fits(Turn, 1) /\ how = "no" /\ out = "no" BY TurnFits
<1>2. b \in Locals BY DEF TypeOK
<1>3. Turn.turns = b.turns + 1 /\ Turn.edits = b.edits /\ Turn.runs = b.runs
      /\ b.turns \in Nat /\ b.edits \in Nat /\ b.runs \in Nat
  BY <1>2 DEF Turn, Locals
<1>4. TypeOK' BY <1>1 DEF TypeOK, Fits
<1>5. PlaceInv' BY <1>1 DEF PlaceInv, Fits, Tools
<1>6. CountInv' BY <1>3 DEF CountInv
<1>7. PaidInv'
  <2>1. Turn.unproductive < Patience /\ Turn.unproductive \in Nat
    BY <1>1 DEF Fits, Locals
  <2>2. UnderWay' = 1 BY <2>1, BuilderAssumption DEF UnderWay
  <2>3. QED BY <1>1, <2>2 DEF PaidInv, Fits
<1>8. (MissingImplWasDemanded /\ StopIsNotABuild)'
  BY <1>1 DEF MissingImplWasDemanded, StopIsNotABuild
<1>9. QED BY <1>4, <1>5, <1>6, <1>7, <1>8

LEMMA NoCallKeeps ==
  ASSUME IInv, NoCall
  PROVE  IInv'
<1>1. Fits(Turn, 1) /\ how = "no" /\ out = "no" BY TurnFits DEF NoCall
<1>2. PICK r : r = Turn OBVIOUS
<1>3. Kept' BY <1>1, Keeping DEF NoCall, IInv, TypeOK
<1>4. QED BY <1>1, <1>2, <1>3, NoNewsKeeps DEF NoCall

LEMMA FailKeeps ==
  ASSUME IInv, Fail
  PROVE  IInv'
<1>1. PICK r : /\ Fits(r, 1) /\ how = "no" /\ out = "no" /\ End(r, "error")
  BY TurnFits, ActFits DEF Fail, BeginTurn
<1>2. UNCHANGED <<task, base, ws, out, stop>> BY DEF Fail
<1>3. Kept' BY <1>1, <1>2, Keeping DEF IInv, TypeOK
<1>4. r \in Locals /\ r.edits + r.runs <= r.turns
      /\ r.turns <= Patience * News(r) + r.unproductive
                      + (IF r.unproductive = Patience THEN 0 ELSE 1)
  <2>1. r.unproductive \in Nat BY <1>1 DEF Fits, Locals
  <2>2. QED BY <1>1, <2>1, BuilderAssumption DEF Fits
<1>5. "error" \in Ends \ {"no"} /\ "error" \notin {"finished", "stalled", "churn"}
  BY DEF Ends
<1>6. QED BY <1>1, <1>2, <1>3, <1>4, <1>5, EndKeeps

LEMMA ListDirKeeps ==
  ASSUME IInv, ListDir
  PROVE  IInv'
<1>1. Fits(b, 1) /\ how = "no" /\ out = "no" BY ActFits DEF ListDir
<1>2. PICK r : r = [b EXCEPT !.listed = IF @ < 2 THEN @ + 1 ELSE @] OBVIOUS
<1>3. r \in Locals /\ r.turns = b.turns /\ r.edits = b.edits /\ r.runs = b.runs
      /\ r.unproductive = b.unproductive /\ r.edits + r.runs <= r.turns
  BY <1>1, <1>2 DEF Fits, Locals
<1>4. Kept' BY <1>1, Keeping DEF ListDir, IInv, TypeOK
<1>5. CASE b.listed = 0
  <2>1. Continue(Fruitful(r)) BY <1>2, <1>5 DEF ListDir
  <2>2. News(r) = News(b) + 1
    <3>1. Cardinality(b.seen) \in Nat BY <1>1, SeenGrows DEF Fits, Locals, Files
    <3>2. r.listed = 1 /\ r.seen = b.seen /\ r.forced = b.forced
      BY <1>1, <1>2, <1>5 DEF Fits, Locals
    <3>3. b.edits \in Nat BY <1>1 DEF Fits, Locals
    <3>4. QED BY <1>3, <1>5, <3>1, <3>2, <3>3 DEF News
  <2>3. QED BY <1>3, <1>4, <2>1, <2>2, NewsKeeps DEF ListDir
<1>6. CASE b.listed # 0
  <2>1. Idle(r) BY <1>2, <1>6 DEF ListDir
  <2>2. News(r) = News(b)
    <3>1. r.listed > 0 /\ b.listed > 0 /\ r.seen = b.seen /\ r.forced = b.forced
      BY <1>1, <1>2, <1>6 DEF Fits, Locals
    <3>2. QED BY <1>3, <3>1 DEF News
  <2>3. Fits(r, 1) BY <1>1, <1>3, <2>2 DEF Fits
  <2>4. QED BY <1>1, <1>4, <2>1, <2>3, NoNewsKeeps DEF ListDir
<1>7. QED BY <1>5, <1>6

LEMMA ReadFileKeeps ==
  ASSUME IInv, NEW f \in Files, ReadFile(f)
  PROVE  IInv'
<1>1. Fits(b, 1) /\ how = "no" /\ out = "no" BY ActFits DEF ReadFile
<1>2. PICK r : r = [b EXCEPT !.seen = @ \union {f}] OBVIOUS
<1>3. r \in Locals /\ r.turns = b.turns /\ r.edits = b.edits /\ r.runs = b.runs
      /\ r.unproductive = b.unproductive /\ r.edits + r.runs <= r.turns
      /\ r.seen = b.seen \union {f} /\ r.listed = b.listed /\ r.forced = b.forced
  BY <1>1, <1>2 DEF Fits, Locals
<1>4. Kept' BY <1>1, Keeping DEF ReadFile, IInv, TypeOK
<1>5. News(r) = News(b) + (IF f \in b.seen THEN 0 ELSE 1) /\ News(b) \in Nat
  <2>1. b.seen \in SUBSET Files /\ b.edits \in Nat BY <1>1 DEF Fits, Locals
  <2>2. /\ Cardinality(b.seen) \in Nat
        /\ Cardinality(r.seen) = Cardinality(b.seen) + (IF f \in b.seen THEN 0 ELSE 1)
    BY <1>3, <2>1, SeenGrows
  <2>3. QED BY <1>3, <2>1, <2>2 DEF News
<1>6. CASE ws[f] # "none" /\ f \notin b.seen
  <2>1. Continue(Fruitful(r)) BY <1>2, <1>6 DEF ReadFile
  <2>2. QED BY <1>3, <1>4, <1>5, <1>6, <2>1, NewsKeeps DEF ReadFile
<1>7. CASE ~(ws[f] # "none" /\ f \notin b.seen)
  <2>1. Idle(r) BY <1>2, <1>7 DEF ReadFile
  <2>2. Patience * News(b) \in Nat /\ Patience * News(b) <= Patience * News(r)
    BY <1>5, OneMorePiece, BuilderAssumption
  <2>3. b.turns \in Nat /\ b.unproductive \in Nat BY <1>1 DEF Fits, Locals
  <2>4. r.turns <= Patience * News(r) + r.unproductive + 1
    <3>1. Patience * News(r) \in Nat BY <1>3, NewsCounts, OneMorePiece
    <3>2. QED BY <1>1, <1>3, <2>2, <2>3, <3>1 DEF Fits
  <2>5. Fits(r, 1) BY <1>1, <1>3, <2>4 DEF Fits
  <2>6. ws' = ws /\ task' = task BY DEF ReadFile
  <2>7. QED BY <1>1, <1>4, <2>1, <2>5, <2>6, NoNewsKeeps
<1>8. QED BY <1>6, <1>7

LEMMA EditKeeps ==
  ASSUME IInv, NEW f \in Files, NEW c \in {"old", "new"}, Edit(f, c)
  PROVE  IInv'
<1>1. Fits(b, 1) /\ b.edits + b.runs < b.turns /\ out = "no" BY ActFits DEF Edit
<1>2. PICK r : r = [b EXCEPT !.edits = @ + 1] OBVIOUS
<1>3. b.edits \in Nat /\ b.runs \in Nat /\ b.turns \in Nat /\ b.turns <= MaxTurns
  BY <1>1, BuilderAssumption DEF Fits, Locals
<1>4. r \in Locals /\ r.turns = b.turns /\ r.edits = b.edits + 1 /\ r.runs = b.runs
      /\ r.seen = b.seen /\ r.listed = b.listed /\ r.forced = b.forced
  <2>1. b.edits + 1 \in 0..MaxTurns BY <1>1, <1>3, BuilderAssumption
  <2>2. QED BY <1>1, <1>2, <2>1 DEF Fits, Locals
<1>5. r.edits + r.runs <= r.turns BY <1>1, <1>3, <1>4
<1>6. ws' \in [Files -> Contents] BY DEF Edit, IInv, TypeOK, Contents
<1>7. Kept' BY <1>1, <1>6, Keeping DEF Edit
<1>8. News(r) = News(b) + 1
  <2>1. Cardinality(b.seen) \in Nat BY <1>1, SeenGrows DEF Fits, Locals, Files
  <2>2. QED BY <1>3, <1>4, <2>1 DEF News
<1>9. Continue(Fruitful(r)) BY <1>2 DEF Edit
<1>10. QED BY <1>4, <1>5, <1>7, <1>8, <1>9, NewsKeeps DEF Edit

LEMMA BadArgsKeeps ==
  ASSUME IInv, BadArgs
  PROVE  IInv'
<1>1. Fits(b, 1) /\ how = "no" /\ out = "no" BY ActFits DEF BadArgs
<1>2. PICK r : r = b OBVIOUS
<1>3. Kept' BY <1>1, Keeping DEF BadArgs, IInv, TypeOK
<1>4. QED BY <1>1, <1>2, <1>3, NoNewsKeeps DEF BadArgs

(* A test run is counted as unproductive and, unlike the other calls, may  *)
(* demand the implementation or end the loop before Patience is reached.   *)
LEMMA RunTestsKeeps ==
  ASSUME IInv, NEW passed \in BOOLEAN, RunTests(passed)
  PROVE  IInv'
<1>1. Fits(b, 1) /\ b.edits + b.runs < b.turns /\ how = "no" /\ out = "no"
  BY ActFits DEF RunTests
<1>2. PICK r : r = [Fruitless(b) EXCEPT !.runs = @ + 1, !.passed = passed] OBVIOUS
<1>3. b.edits \in Nat /\ b.runs \in Nat /\ b.turns \in Nat /\ b.turns <= MaxTurns
      /\ b.unproductive \in Nat
  BY <1>1, BuilderAssumption DEF Fits, Locals
<1>4. r \in Locals /\ r.turns = b.turns /\ r.edits = b.edits /\ r.runs = b.runs + 1
      /\ r.unproductive = b.unproductive + 1
      /\ r.seen = b.seen /\ r.listed = b.listed /\ r.forced = b.forced
  <2>1. b.runs + 1 \in 0..MaxTurns /\ b.unproductive + 1 \in 0..Patience
    BY <1>1, <1>3, BuilderAssumption DEF Fits
  <2>2. PICK n : n = Fruitless(b) OBVIOUS
  <2>3. n \in Locals /\ n.runs = b.runs /\ n.turns = b.turns /\ n.edits = b.edits
        /\ n.unproductive = b.unproductive + 1
        /\ n.seen = b.seen /\ n.listed = b.listed /\ n.forced = b.forced
    BY <1>1, <2>1, <2>2 DEF Fruitless, Fits, Locals
  <2>4. r = [n EXCEPT !.runs = @ + 1, !.passed = passed] BY <1>2, <2>2
  <2>5. QED BY <2>1, <2>3, <2>4 DEF Locals
<1>5. r.edits + r.runs <= r.turns BY <1>1, <1>3, <1>4
<1>6. News(r) = News(b) /\ Patience * News(r) \in Nat
  <2>1. News(r) = News(b) BY <1>4 DEF News
  <2>2. QED BY <1>4, <2>1, NewsCounts, OneMorePiece
<1>7. /\ r.turns <= Patience * News(r) + r.unproductive + 0
      /\ r.turns <= Patience * News(r) + Patience /\ r.unproductive <= Patience
  BY <1>1, <1>3, <1>4, <1>6, BuilderAssumption DEF Fits
<1>8. r.turns <= Patience * News(r) + r.unproductive
                   + (IF r.unproductive = Patience THEN 0 ELSE 1)
  BY <1>3, <1>4, <1>6, <1>7
<1>9. ws' = ws /\ task' = task /\ Kept' BY <1>1, Keeping DEF RunTests, IInv, TypeOK
<1>10. \/ CanForce(r) /\ ForceImpl(r)
       \/ ~CanForce(r) /\ \E why \in {"stalled", "churn"} : End(r, why)
       \/ ~Lost(r) /\ Continue(r)
  BY <1>2 DEF RunTests, ForceOr
<1>11. CASE CanForce(r) /\ ForceImpl(r)
  <2>1. PICK d : d = Demanded(r) OBVIOUS
  <2>2. ~r.forced BY <1>11 DEF CanForce
  <2>3. QED BY <1>1, <1>4, <1>5, <1>7, <1>9, <1>11, <2>1, <2>2, ForceKeeps
<1>12. CASE ~CanForce(r) /\ \E why \in {"stalled", "churn"} : End(r, why)
  <2>1. PICK why \in {"stalled", "churn"} : End(r, why) BY <1>12
  <2>2. why \in Ends \ {"no"} BY DEF Ends
  <2>3. QED BY <1>4, <1>5, <1>8, <1>9, <1>12, <2>1, <2>2, EndKeeps
<1>13. CASE ~Lost(r) /\ Continue(r)
  <2>1. r.unproductive < Patience BY <1>3, <1>4, <1>13, BuilderAssumption DEF Lost
  <2>2. Fits(r, 0) BY <1>4, <1>5, <1>7, <2>1 DEF Fits
  <2>3. QED BY <1>1, <1>9, <1>13, <2>2, ContinueKeeps
<1>14. QED BY <1>10, <1>11, <1>12, <1>13

LEMMA FinishKeeps ==
  ASSUME IInv, Finish
  PROVE  IInv'
<1>1. Fits(b, 1) /\ how = "no" /\ out = "no" BY ActFits DEF Finish
<1>2. ws' = ws /\ task' = task /\ Kept' BY <1>1, Keeping DEF Finish, IInv, TypeOK
<1>3. b \in Locals /\ b.unproductive \in Nat /\ b.turns \in Nat /\ b.unproductive < Patience
      /\ Patience * News(b) \in Nat /\ b.edits + b.runs <= b.turns
  BY <1>1, NewsCounts, OneMorePiece DEF Fits, Locals
<1>4. CASE CanForce(b)
  <2>1. PICK d : d = Demanded(b) OBVIOUS
  <2>2. ~b.forced /\ ForceImpl(b) BY <1>4 DEF CanForce, Finish, ForceOr
  <2>3. b.turns <= Patience * News(b) + Patience /\ b.unproductive <= Patience
    BY <1>1, <1>3, BuilderAssumption DEF Fits
  <2>4. QED BY <1>1, <1>2, <1>3, <2>1, <2>2, <2>3, ForceKeeps
<1>5. CASE ~CanForce(b)
  <2>1. End(b, "finished") BY <1>5 DEF Finish, ForceOr
  <2>2. b.turns <= Patience * News(b) + b.unproductive
                     + (IF b.unproductive = Patience THEN 0 ELSE 1)
    BY <1>1, <1>3, BuilderAssumption DEF Fits
  <2>3. "finished" \in Ends \ {"no"} BY DEF Ends
  <2>4. QED BY <1>2, <1>3, <1>5, <2>1, <2>2, <2>3, EndKeeps
<1>6. QED BY <1>4, <1>5

LEMMA DeliverKeeps ==
  ASSUME IInv, Deliver
  PROVE  IInv'
<1> USE DEF IInv, Deliver
<1>1. TypeOK' BY DEF TypeOK
<1>2. PlaceInv' BY DEF PlaceInv
<1>3. CountInv' BY DEF CountInv
<1>4. UnderWay' = UnderWay BY DEF UnderWay
<1>5. PaidInv' BY <1>4 DEF PaidInv, News
<1>6. MissingImplWasDemanded' BY DEF MissingImplWasDemanded, ImplMissing
<1>7. StopIsNotABuild' BY DEF StopIsNotABuild
<1>8. QED BY <1>1, <1>2, <1>3, <1>5, <1>6, <1>7

(* Pressing Stop, and a step that changes nothing.                         *)
LEMMA AsideKeeps ==
  ASSUME IInv, UNCHANGED <<task, base, ws, pc, call, b, how, out>>,
         stop' \in BOOLEAN
  PROVE  IInv'
<1> USE DEF IInv
<1>1. TypeOK' BY DEF TypeOK
<1>2. PlaceInv' /\ CountInv' BY DEF PlaceInv, CountInv
<1>3. PaidInv' BY DEF PaidInv, News, UnderWay
<1>4. MissingImplWasDemanded' /\ StopIsNotABuild'
  BY DEF MissingImplWasDemanded, ImplMissing, StopIsNotABuild
<1>5. QED BY <1>1, <1>2, <1>3, <1>4

LEMMA InvariantInit == Init => IInv
<1> SUFFICES ASSUME Init PROVE IInv OBVIOUS
<1> USE DEF Init
<1>1. Cardinality({}) = 0 BY FS_EmptySet
<1>2. b \in Locals
  <2>1. 0 \in 0..MaxTurns /\ 0 \in 0..Patience BY BuilderAssumption
  <2>2. QED BY <2>1 DEF Locals
<1>3. TypeOK BY <1>2 DEF TypeOK, Contents, Tools, Ends
<1>4. PlaceInv /\ CountInv BY BuilderAssumption DEF PlaceInv, CountInv, Tools
<1>5. PaidInv BY <1>1, BuilderAssumption DEF PaidInv, News, UnderWay
<1>6. MissingImplWasDemanded /\ StopIsNotABuild
  BY DEF MissingImplWasDemanded, StopIsNotABuild
<1>7. QED BY <1>3, <1>4, <1>5, <1>6 DEF IInv

LEMMA InvariantStep == IInv /\ [Next]_vars => IInv'
<1> SUFFICES ASSUME IInv, [Next]_vars PROVE IInv' OBVIOUS
<1>1. CASE Cancelled \/ CapReached BY <1>1, EndingKeeps
<1>2. CASE NoCall BY <1>2, NoCallKeeps
<1>3. CASE Fail BY <1>3, FailKeeps
<1>4. CASE ListDir BY <1>4, ListDirKeeps
<1>5. CASE BadArgs BY <1>5, BadArgsKeeps
<1>6. CASE Finish BY <1>6, FinishKeeps
<1>7. CASE Deliver BY <1>7, DeliverKeeps
<1>8. CASE \E t \in Tools : Ask(t) BY <1>8, AskKeeps
<1>9. CASE \E f \in Files : ReadFile(f) BY <1>9, ReadFileKeeps
<1>10. CASE \E f \in Files : \E c \in {"old", "new"} : Edit(f, c) BY <1>10, EditKeeps
<1>11. CASE \E p \in BOOLEAN : RunTests(p) BY <1>11, RunTestsKeeps
<1>12. CASE PressStop BY <1>12, AsideKeeps DEF PressStop
<1>13. CASE UNCHANGED vars BY <1>13, AsideKeeps DEF vars, IInv, TypeOK
<1>14. QED
  BY <1>1, <1>2, <1>3, <1>4, <1>5, <1>6, <1>7, <1>8, <1>9, <1>10, <1>11, <1>12, <1>13
     DEF Next, Loop

(* The counters account for every turn, and the loop's place, end and      *)
(* result agree, however many turns the loop is given.                     *)
THEOREM LocalBuilderInvariance == Spec => []IInv
<1>1. Init => IInv BY InvariantInit
<1>2. IInv /\ [Next]_vars => IInv' BY InvariantStep
<1>3. QED BY <1>1, <1>2, PTL DEF Spec

(* A loop that ended by itself over a missing implementation had demanded  *)
(* it.                                                                     *)
THEOREM LoopDemandsImplementation == Spec => []MissingImplWasDemanded
<1>1. IInv => MissingImplWasDemanded BY DEF IInv
<1>2. QED BY <1>1, LocalBuilderInvariance, PTL

(* A Stop is never delivered as a build, and no build is lost to one.      *)
THEOREM StopIsNeverABuild == Spec => []StopIsNotABuild
<1>1. IInv => StopIsNotABuild BY DEF IInv
<1>2. QED BY <1>1, LocalBuilderInvariance, PTL

(* The loop's length is bounded by what it achieved: Patience turns for    *)
(* each edit and each file read, and for three events that happen once.    *)
THEOREM LoopPaysForTurns == Spec => []TurnsArePaidFor
<1>1. IInv => TurnsArePaidFor
  <2> SUFFICES ASSUME IInv PROVE TurnsArePaidFor OBVIOUS
  <2>1. b \in Locals /\ b.unproductive <= Patience /\ b.unproductive \in Nat
        /\ b.turns \in Nat /\ b.edits \in Nat
    BY BuilderAssumption DEF IInv, TypeOK, Locals
  <2>2. b.unproductive + UnderWay <= Patience /\ UnderWay \in Nat
    BY <2>1, BuilderAssumption DEF IInv, UnderWay, PlaceInv
  <2>3. PICK m \in Nat : m = b.edits + Cardinality(b.seen)
    <3>1. Cardinality(b.seen) \in Nat BY <2>1, SeenGrows DEF Locals, Files
    <3>2. QED BY <2>1, <3>1
  <2>4. News(b) = m \/ News(b) = m + 1 \/ News(b) = (m + 1) + 1
    BY <2>3 DEF News
  <2>5. /\ Patience * m \in Nat
        /\ Patience * (m + 1) = Patience * m + Patience
        /\ Patience * ((m + 1) + 1) = Patience * m + Patience + Patience
        /\ Patience * (((m + 1) + 1) + 1) = Patience * m + Patience + Patience + Patience
    BY OneMorePiece
  <2>6. Patience * News(b) \in Nat /\ Patience * News(b) <= Patience * m + Patience + Patience
    BY <2>4, <2>5, BuilderAssumption
  <2>7. b.turns <= Patience * News(b) + b.unproductive + UnderWay BY DEF IInv, PaidInv
  <2>8. b.turns <= Patience * (((m + 1) + 1) + 1)
    BY <2>1, <2>2, <2>5, <2>6, <2>7, BuilderAssumption
  <2>9. ((m + 1) + 1) + 1 = b.edits + Cardinality(b.seen) + 3 BY <2>3
  <2>10. QED BY <2>8, <2>9 DEF TurnsArePaidFor
<1>2. QED BY <1>1, LocalBuilderInvariance, PTL

-----------------------------------------------------------------------------
(* What the router chooses from, and that it chooses one of those          *)

(* There are five providers, and so finitely many.                         *)
LEMMA FiveNames ==
  /\ Names = {"agent_sdk", "anthropic", "local-small", "local-coder", "local-reasoner"}
  /\ Providers \subseteq Names /\ IsFiniteSet(Providers)
<1>1. Names = {"agent_sdk", "anthropic", "local-small", "local-coder", "local-reasoner"}
  BY DEF Names, Order
<1>2. IsFiniteSet(Names)
  <2>1. IsFiniteSet({"agent_sdk"} \union {"anthropic"})
    BY FS_Singleton, FS_Union
  <2>2. IsFiniteSet({"local-small"} \union {"local-coder"} \union {"local-reasoner"})
    BY FS_Singleton, FS_Union
  <2>3. Names = ({"agent_sdk"} \union {"anthropic"})
                \union ({"local-small"} \union {"local-coder"} \union {"local-reasoner"})
    BY <1>1
  <2>4. QED BY <2>1, <2>2, <2>3, FS_Union
<1>3. QED BY <1>1, <1>2, ProvidersAssumption, FS_Subset

(* Each provider has a place of its own in the order they are listed in.   *)
LEMMA PlacesDiffer ==
  \A p, q \in Names : Index(p) \in Int /\ (Index(p) = Index(q) => p = q)
<1>1. ASSUME NEW p \in Names PROVE Index(p) \in DOMAIN Order /\ Order[Index(p)] = p
  BY DEF Names, Index
<1>2. DOMAIN Order = 1..5 BY DEF Order
<1>3. QED BY <1>1, <1>2

(* One more provider either beats the best so far or is beaten by it.      *)
LEMMA OneMoreCandidate ==
  ASSUME NEW value \in [Providers -> Int], NEW S \in SUBSET Providers, NEW x \in Names,
         S \ {x} # {} => \E p \in S \ {x} : \A q \in (S \ {x}) \ {p} : Beats(p, q, value),
         S # {}
  PROVE  \E p \in S : \A q \in S \ {p} : Beats(p, q, value)
<1>1. \A p, q \in Providers : Index(p) \in Int /\ (Index(p) = Index(q) => p = q)
  BY PlacesDiffer, FiveNames
<1>2. CASE x \notin S
  <2>1. S \ {x} = S BY <1>2
  <2>2. QED BY <2>1
<1>3. CASE S \ {x} = {}
  BY <1>3
<1>4. CASE x \in S /\ S \ {x} # {}
  <2>1. PICK p \in S \ {x} : \A q \in (S \ {x}) \ {p} : Beats(p, q, value) BY <1>4
  <2>2. Beats(p, x, value) \/ Beats(x, p, value)
    BY <1>1, <1>4 DEF Beats
  <2>3. CASE Beats(p, x, value)
    BY <2>1, <2>3
  <2>4. CASE Beats(x, p, value)
    <3>1. ASSUME NEW q \in S \ {x} PROVE Beats(x, q, value)
      <4>1. CASE q = p BY <4>1, <2>4
      <4>2. CASE q # p
        <5>1. Beats(p, q, value) BY <2>1, <4>2
        <5>2. p \in Providers /\ q \in Providers /\ x \in Providers BY <1>4
        <5>3. QED BY <5>1, <5>2, <2>4, <1>1 DEF Beats
      <4>3. QED BY <4>1, <4>2
    <3>2. QED BY <3>1, <1>4
  <2>5. QED BY <2>2, <2>3, <2>4
<1>5. QED BY <1>2, <1>3, <1>4

(* max() of some candidates is one of them.                                *)
LEMMA BestIsOneOfThem ==
  ASSUME NEW value \in [Providers -> Int], NEW S \in SUBSET Providers, S # {}
  PROVE  Best(S, value) \in S
<1> DEFINE HasBest(T) == T # {} => \E p \in T : \A q \in T \ {p} : Beats(p, q, value)
<1> DEFINE S1 == S \ {"agent_sdk"}
           S2 == S1 \ {"anthropic"}
           S3 == S2 \ {"local-small"}
           S4 == S3 \ {"local-coder"}
           S5 == S4 \ {"local-reasoner"}
<1>1. S5 = {} BY FiveNames
<1>2. /\ "agent_sdk" \in Names /\ "anthropic" \in Names /\ "local-small" \in Names
      /\ "local-coder" \in Names /\ "local-reasoner" \in Names
  BY FiveNames
<1>3. HasBest(S4)
  <2>1. S4 # {} => S4 \in SUBSET Providers OBVIOUS
  <2>2. HasBest(S5) BY <1>1
  <2>3. QED BY <2>1, <2>2, <1>2, OneMoreCandidate
<1>4. HasBest(S3) BY <1>3, <1>2, OneMoreCandidate
<1>5. HasBest(S2) BY <1>4, <1>2, OneMoreCandidate
<1>6. HasBest(S1) BY <1>5, <1>2, OneMoreCandidate
<1>7. HasBest(S) BY <1>6, <1>2, OneMoreCandidate
<1>8. QED BY <1>7 DEF Best

(* The fields of the registry have the types the scores are computed with. *)
LEMMA RegistryFields ==
  ASSUME NEW p \in Providers
  PROVE  /\ Registry[p].model \in Models /\ Registry[p].quality \in Int
         /\ Registry[p].latency \in Int /\ Registry[p].cost \in Int
         /\ Registry[p].resource \in Int /\ Registry[p].privacy \in Int
<1>1. p \in {"agent_sdk", "anthropic", "local-small", "local-coder", "local-reasoner"}
  BY FiveNames
<1>2. Registry[p].model \in Models BY DEF Models
<1> DEFINE r == Registry[p]
<1> DEFINE Typed == /\ r.quality \in Int /\ r.latency \in Int
                    /\ r.cost \in Int /\ r.resource \in Int /\ r.privacy \in Int
<1>3. Typed
  <2>1. CASE p = "agent_sdk" BY <2>1 DEF Registry, ProviderSpec
  <2>2. CASE p = "anthropic" BY <2>2 DEF Registry, ProviderSpec
  <2>3. CASE p = "local-small" BY <2>3 DEF Registry, ProviderSpec
  <2>4. CASE p = "local-coder" BY <2>4 DEF Registry, ProviderSpec
  <2>5. CASE p = "local-reasoner" BY <2>5 DEF Registry, ProviderSpec
  <2>6. QED BY <1>1, <2>1, <2>2, <2>3, <2>4, <2>5
<1>4. QED BY <1>2, <1>3

(* Every score is a number: a rate is only taken of an eligible model.     *)
LEMMA ScoresAreNumbers ==
  ASSUME RouteTypeOK, NEW selected, NEW bias
  PROVE  [p \in Providers |-> Score(selected, p, bias)] \in [Providers -> Int]
<1>1. ASSUME NEW p \in Providers PROVE Score(selected, p, bias) \in Int
  <2>1. Quality(p) \in Int
    <3>1. CASE Eligible(Registry[p].model)
      <4> DEFINE m == Registry[p].model
      <4>1. m \in Models BY RegistryFields
      <4>2. runs[m].n \in Nat /\ runs[m].passed \in Nat /\ MinRuns \in Nat \ {0}
        BY <4>1, BoundsAssumption DEF RouteTypeOK, RunsOK
      <4>3. runs[m].n >= MinRuns BY <3>1 DEF Eligible
      <4>4. (100 * runs[m].passed) \div runs[m].n \in Int BY <4>2, <4>3
      <4>5. QED BY <4>4, <3>1 DEF Quality, SuccessRate
    <3>2. CASE ~Eligible(Registry[p].model)
      BY <3>2, RegistryFields DEF Quality
    <3>3. QED BY <3>1, <3>2
  <2>2. FittedScore(p) \in Int BY <2>1 DEF FittedScore
  <2>3. ProvisionalScore(p, bias) \in Int
    BY <2>1, RegistryFields DEF ProvisionalScore
  <2>4. QED BY <2>2, <2>3 DEF Score
<1>2. QED BY <1>1

(* The static pick is a candidate.                                         *)
LEMMA PickIsCandidate ==
  ASSUME NEW candidates \in SUBSET Providers, candidates # {}, NEW escalates, NEW bias
  PROVE  StaticPick(candidates, escalates, bias).provider \in candidates
<1>1. ASSUME NEW S \in SUBSET candidates, S # {}
      PROVE  Strongest(S) \in S /\ Cheapest(S) \in S
  <2>1. [p \in Providers |-> Registry[p].quality] \in [Providers -> Int]
    BY RegistryFields
  <2>2. [p \in Providers |-> -(1000 * Registry[p].cost + Registry[p].resource)]
          \in [Providers -> Int]
    BY RegistryFields
  <2>3. S \in SUBSET Providers OBVIOUS
  <2>4. QED BY <1>1, <2>1, <2>2, <2>3, BestIsOneOfThem DEF Strongest, Cheapest
<1>2. Local(candidates) \subseteq candidates /\ Cloud(candidates) \subseteq candidates
  BY DEF Local, Cloud
<1>3. ASSUME NEW p, NEW why PROVE Decision(p, why).provider = p
  BY DEF Decision
<1> DEFINE preferred == {p \in candidates : \E i \in DOMAIN Prefer(Class) :
             Prefer(Class)[i] = p /\ \A j \in 1..(i - 1) : Prefer(Class)[j] \notin candidates}
           pick == StaticPick(candidates, escalates, bias)
           cloud == escalates /\ Cloud(candidates) # {}
           rest == IF Cloud(candidates) # {} THEN Cloud(candidates) ELSE candidates
<1>4. \/ bias = "local" /\ pick.provider \in {Strongest(Local(candidates))} /\ Local(candidates) # {}
      \/ bias = "local" /\ pick.provider = Cheapest(candidates)
      \/ pick.provider = Strongest(Cloud(candidates)) /\ Cloud(candidates) # {}
      \/ pick.provider = (CHOOSE p \in preferred : TRUE) /\ preferred # {}
      \/ pick.provider = Strongest(rest)
  <2>1. CASE bias = "local" /\ Local(candidates) # {}
    BY <2>1, <1>3 DEF StaticPick
  <2>2. CASE bias = "local" /\ Local(candidates) = {}
    BY <2>2, <1>3 DEF StaticPick
  <2>3. CASE bias # "local" /\ cloud
    BY <2>3, <1>3 DEF StaticPick
  <2>4. CASE bias # "local" /\ ~cloud /\ preferred # {}
    BY <2>4, <1>3 DEF StaticPick
  <2>5. CASE bias # "local" /\ ~cloud /\ preferred = {}
    BY <2>5, <1>3 DEF StaticPick
  <2>6. QED BY <2>1, <2>2, <2>3, <2>4, <2>5
<1>5. rest # {} /\ rest \subseteq candidates BY <1>2
<1>6. Local(candidates) # {} => Strongest(Local(candidates)) \in candidates BY <1>1, <1>2
<1>7. Cheapest(candidates) \in candidates BY <1>1
<1>8. Cloud(candidates) # {} => Strongest(Cloud(candidates)) \in candidates BY <1>1, <1>2
<1>9. preferred # {} => (CHOOSE p \in preferred : TRUE) \in candidates OBVIOUS
<1>10. Strongest(rest) \in candidates BY <1>1, <1>5
<1>11. QED BY <1>4, <1>6, <1>7, <1>8, <1>9, <1>10

(* What route() comes to is a provider; only a pause names none.  Unless   *)
(* everything was tried it is one that was not.                            *)
LEMMA DecisionIsAProvider ==
  ASSUME RouteTypeOK, NEW selected, NEW tried, NEW bias, NEW escalates,
         NEW d \in Decisions(selected, tried, bias, escalates)
  PROVE  d.provider \in Providers \/ (bias = "pause" /\ d.provider = NoProvider)
<1> DEFINE candidates == avail \ tried
           pick == StaticPick(candidates, escalates, bias)
           value == [p \in Providers |-> Score(selected, p, bias)]
           best == Best(Measured(candidates), value)
           others == IF pick.why = "escalated" \/ Eligible(Registry[pick.provider].model) THEN {}
                     ELSE candidates \ {pick.provider}
<1>1. candidates \in SUBSET Providers
  BY DEF RouteTypeOK, Installations, Cloud
<1>2. \/ bias = "pause" /\ d = Decision(NoProvider, "paused")
      \/ d = Decision(Prefer(Class)[1], "static")
      \/ candidates # {} /\ Measured(candidates) # {} /\ d = Decision(best, "data")
      \/ candidates # {} /\ d = pick
      \/ candidates # {} /\ \E p \in others : d = Decision(p, "explored")
  BY DEF Decisions
<1>3. \A p, why : Decision(p, why).provider = p BY DEF Decision
<1>4. CASE bias = "pause" /\ d = Decision(NoProvider, "paused") BY <1>3, <1>4
<1>5. CASE d = Decision(Prefer(Class)[1], "static") BY <1>3, <1>5, ProvidersAssumption
<1>6. CASE candidates # {} /\ Measured(candidates) # {} /\ d = Decision(best, "data")
  <2>1. Measured(candidates) \in SUBSET Providers BY <1>1 DEF Measured
  <2>2. value \in [Providers -> Int] BY ScoresAreNumbers
  <2>3. best \in Providers BY <1>6, <2>1, <2>2, BestIsOneOfThem
  <2>4. QED BY <1>3, <1>6, <2>3
<1>7. CASE candidates # {} /\ d = pick BY <1>1, <1>7, PickIsCandidate
<1>8. CASE candidates # {} /\ \E p \in others : d = Decision(p, "explored") BY <1>1, <1>3, <1>8
<1>9. QED BY <1>2, <1>4, <1>5, <1>6, <1>7, <1>8

(* What the steps do to the routes of the tasks                            *)

TaskInv == RoutesOK /\ RoutesAreFresh

(* A task that is put away, or that moves on with the routes it has, keeps *)
(* what is known of the routes of all tasks.                               *)
LEMMA TasksMoveOn ==
  ASSUME TaskInv, routes' \in [Tasks -> Seq(RouteEvents)],
         \A t \in Tasks : routes'[t] = <<>> \/ routes'[t] = routes[t]
  PROVE  TaskInv'
<1> USE DEF TaskInv
<1>1. RoutesOK' BY BoundsAssumption DEF RoutesOK
<1>2. RoutesAreFresh'
  <2> SUFFICES ASSUME NEW t \in Tasks PROVE Cardinality(Tried(t)') = Len(routes'[t])
    BY DEF RoutesAreFresh
  <2>1. CASE routes'[t] = <<>>
    <3>1. Tried(t)' = {} BY <2>1 DEF Tried
    <3>2. QED BY <2>1, <3>1, FS_EmptySet
  <2>2. CASE routes'[t] = routes[t]
    <3>1. Tried(t)' = Tried(t) BY <2>2 DEF Tried
    <3>2. QED BY <2>2, <3>1 DEF RoutesAreFresh
  <2>3. QED BY <2>1, <2>2
<1>3. QED BY <1>1, <1>2

(* A ROUTE of a provider the task has not tried adds one to what it tried; *)
(* one without a provider adds nothing.                                    *)
LEMMA RouteIsLogged ==
  ASSUME TaskInv, NEW t \in Tasks, NEW d, d.provider \in Providers \union {NoProvider},
         d.provider \notin Tried(t), Len(routes[t]) <= MaxRungs, LogRoute(t, d)
  PROVE  /\ TaskInv' /\ last' \in Providers \union {NoProvider}
         /\ d.provider # NoProvider => ~Unrouted(t)'
         /\ \A u \in Tasks : ~Unrouted(u) => ~Unrouted(u)'
<1> USE DEF TaskInv
<1>1. CASE d.provider = NoProvider
  <2>1. routes' = routes BY <1>1 DEF LogRoute
  <2>2. TaskInv' BY <2>1, TasksMoveOn DEF RoutesOK
  <2>3. QED BY <1>1, <2>1, <2>2 DEF LogRoute, Unrouted
<1>2. CASE d.provider # NoProvider
  <2> DEFINE e == [provider |-> d.provider, data |-> d.why = "data"]
             mine == routes[t]
  <2>1. e \in RouteEvents
    <3>1. (d.why = "data") \in BOOLEAN OBVIOUS
    <3>2. QED BY <3>1, <1>2 DEF RouteEvents
  <2>2. mine \in Seq(RouteEvents) /\ routes \in [Tasks -> Seq(RouteEvents)] BY DEF RoutesOK
  <2>3. routes' = [routes EXCEPT ![t] = Append(mine, e)] BY <1>2 DEF LogRoute
  <2> HIDE DEF e
  <2>4. routes'[t] = Append(mine, e) /\ \A u \in Tasks : u # t => routes'[u] = routes[u]
    BY <2>2, <2>3
  <2>5. /\ Append(mine, e) \in Seq(RouteEvents) /\ Len(Append(mine, e)) = Len(mine) + 1
        /\ Append(mine, e)[Len(mine) + 1] = e /\ Append(mine, e) # <<>>
        /\ \A i \in DOMAIN mine : i # Len(mine) + 1 /\ Append(mine, e)[i] = mine[i]
        /\ DOMAIN Append(mine, e) = DOMAIN mine \union {Len(mine) + 1}
        /\ Len(mine) \in Nat
    BY <2>1, <2>2
  <2>6. RoutesOK'
    <3>1. routes' \in [Tasks -> Seq(RouteEvents)] BY <2>2, <2>3, <2>5
    <3>2. \A u \in Tasks : Len(routes'[u]) <= MaxRungs + 1
      BY <2>4, <2>5, BoundsAssumption DEF RoutesOK
    <3>3. QED BY <3>1, <3>2 DEF RoutesOK
  <2>7. RoutesAreFresh'
    <3> SUFFICES ASSUME NEW u \in Tasks PROVE Cardinality(Tried(u)') = Len(routes'[u])
      BY DEF RoutesAreFresh
    <3>1. CASE u # t
      <4>1. Tried(u)' = Tried(u) BY <3>1, <2>4 DEF Tried
      <4>2. QED BY <3>1, <4>1, <2>4 DEF RoutesAreFresh
    <3>2. CASE u = t
      <4>1. Tried(t)' = Tried(t) \union {d.provider}
        <5>1. Tried(t)' = {Append(mine, e)[i].provider : i \in DOMAIN Append(mine, e)}
          BY <2>4 DEF Tried
        <5>2. Tried(t) = {Append(mine, e)[i].provider : i \in DOMAIN mine}
          BY <2>5 DEF Tried
        <5>3. Append(mine, e)[Len(mine) + 1].provider = d.provider BY <2>5 DEF e
        <5>4. QED BY <5>1, <5>2, <5>3, <2>5
      <4>2. Tried(t) \subseteq Providers
        <5>1. \A i \in DOMAIN mine : mine[i] \in RouteEvents BY <2>2
        <5>2. QED BY <5>1 DEF Tried, RouteEvents
      <4>3. IsFiniteSet(Tried(t)) BY <4>2, FiveNames, FS_Subset
      <4>4. Cardinality(Tried(t)') = Cardinality(Tried(t)) + 1
        BY <4>1, <4>3, FS_AddElement
      <4>5. Cardinality(Tried(t)) = Len(mine) BY DEF RoutesAreFresh
      <4>6. QED BY <3>2, <4>4, <4>5, <2>4, <2>5
    <3>3. QED BY <3>1, <3>2
  <2>8. ~Unrouted(t)' /\ \A u \in Tasks : ~Unrouted(u) => ~Unrouted(u)' BY <2>4, <2>5 DEF Unrouted
  <2>9. last' = d.provider BY DEF LogRoute
  <2>10. QED BY <2>6, <2>7, <2>8, <2>9
<1>3. QED BY <1>1, <1>2

-----------------------------------------------------------------------------
(* What settling a task does to the controllers                            *)

(* A ROUTE event decided by data is told by its two fields.                *)
LEMMA DataRoute ==
  ASSUME NEW r \in RouteEvents, NEW p
  PROVE  r = [provider |-> p, data |-> TRUE] <=> r.data /\ r.provider = p
<1>1. r = [provider |-> r.provider, data |-> r.data] /\ r.data \in BOOLEAN
  BY DEF RouteEvents
<1>2. CASE r.data
  <2>1. r.data = TRUE BY <1>1, <1>2
  <2>2. QED BY <1>1, <2>1
<1>3. CASE ~r.data
  <2>1. r # [provider |-> p, data |-> TRUE] BY <1>3
  <2>2. QED BY <2>1, <1>3
<1>4. QED BY <1>2, <1>3

(* The challenger of a task, if it has one, is one provider.               *)
LEMMA OneChallenger ==
  ASSUME RoutesOK, NEW t \in Tasks
  PROVE  /\ \A i \in Challengers(t) : routes[t][i].provider \in Providers
         /\ \A i, j \in Challengers(t) : i = j
         /\ \A p \in Providers :
              (\E i \in DOMAIN routes[t] :
                  /\ routes[t][i] = [provider |-> p, data |-> TRUE]
                  /\ \A j \in 1..(i - 1) : ~routes[t][j].data)
              <=> \E i \in Challengers(t) : routes[t][i].provider = p
<1> DEFINE mine == routes[t]
<1>1. mine \in Seq(RouteEvents) BY DEF RoutesOK
<1>2. /\ \A i \in DOMAIN mine : mine[i] \in RouteEvents
      /\ DOMAIN mine = 1..Len(mine) /\ Len(mine) \in Nat
  BY <1>1
<1>3. \A i \in Challengers(t) :
        /\ i \in DOMAIN mine /\ mine[i].provider \in Providers /\ mine[i].data
        /\ \A j \in 1..(i - 1) : ~mine[j].data
  BY <1>2 DEF Challengers, RouteEvents
<1>4. ASSUME NEW i \in Challengers(t), NEW j \in Challengers(t) PROVE i = j
  <2>1. i \in 1..Len(mine) /\ j \in 1..Len(mine) BY <1>2, <1>3
  <2>2. i \notin 1..(j - 1) /\ j \notin 1..(i - 1) BY <1>3
  <2>3. QED BY <1>2, <2>1, <2>2
<1>5. ASSUME NEW p \in Providers, NEW i \in DOMAIN mine
      PROVE  mine[i] = [provider |-> p, data |-> TRUE] <=> mine[i].data /\ mine[i].provider = p
  BY <1>2, DataRoute
<1>6. QED BY <1>3, <1>4, <1>5 DEF Challengers

(* One more outcome.                                                       *)
LEMMA OneMoreOutcome ==
  ASSUME NEW c \in [n : Nat, passed : Nat], NEW passed \in BOOLEAN
  PROVE  /\ Count(c, passed).n = c.n + 1
         /\ Count(c, passed).passed = c.passed + (IF passed THEN 1 ELSE 0)
         /\ Count(c, passed) \in [n : Nat, passed : Nat]
<1> DEFINE n == c.n + 1
           k == c.passed + (IF passed THEN 1 ELSE 0)
<1>1. n \in Nat /\ k \in Nat OBVIOUS
<1> HIDE DEF n, k
<1>2. Count(c, passed) = [[c EXCEPT !.n = n] EXCEPT !.passed = k] BY DEF Count, n, k
<1>3. QED BY <1>1, <1>2 DEF n, k

LEMMA OneMoreSample ==
  ASSUME NEW c \in [n : Nat, passed : Nat, done : BOOLEAN], NEW passed \in BOOLEAN
  PROVE  /\ Count(c, passed).n = c.n + 1
         /\ Count(c, passed).passed = c.passed + (IF passed THEN 1 ELSE 0)
         /\ Count(c, passed).done = c.done
         /\ Count(c, passed) \in [n : Nat, passed : Nat, done : BOOLEAN]
<1> DEFINE n == c.n + 1
           k == c.passed + (IF passed THEN 1 ELSE 0)
<1>1. n \in Nat /\ k \in Nat OBVIOUS
<1> HIDE DEF n, k
<1>2. Count(c, passed) = [[c EXCEPT !.n = n] EXCEPT !.passed = k] BY DEF Count, n, k
<1>3. QED BY <1>1, <1>2 DEF n, k

(* What is left to do after settling: nothing, or a freeze on evidence.    *)
Outcome ==
  \/ proc = Free
  \/ \E p \in Providers : proc = At("freeze", p) /\ settled[p].n = MinSamples /\ TooFew(settled[p])

(* A controller and the history count the same outcome, until the verdict; *)
(* a rollback is a verdict on MinSamples of them.                          *)
LEMMA SettlingCounts ==
  ASSUME CountsOK, CanaryCounts, RoutesOK, NEW t \in Tasks, Settle(t)
  PROVE  CountsOK' /\ CanaryCounts' /\ Outcome'
<1> DEFINE challenges(p) == \E i \in Challengers(t) : routes[t][i].provider = p
<1>1. PICK passed \in BOOLEAN :
        /\ \/ \E i \in Challengers(t) :
                /\ ~canaries[routes[t][i].provider].done
                /\ SettleCanary(routes[t][i].provider, passed)
           \/ /\ \A i \in Challengers(t) : canaries[routes[t][i].provider].done
              /\ proc' = Free /\ UNCHANGED canaries
        /\ settled' = [p \in Providers |->
             IF challenges(p) /\ settled[p].n < MinSamples
             THEN Count(settled[p], passed)
             ELSE IF settled[p].n = MinSamples THEN Spent ELSE settled[p]]
  <2>1. PICK passed \in BOOLEAN :
        /\ \/ \E i \in Challengers(t) :
                /\ ~canaries[routes[t][i].provider].done
                /\ SettleCanary(routes[t][i].provider, passed)
           \/ /\ \A i \in Challengers(t) : canaries[routes[t][i].provider].done
              /\ proc' = Free /\ UNCHANGED canaries
        /\ settled' = [p \in Providers |->
             IF /\ \E i \in DOMAIN routes[t] :
                     /\ routes[t][i] = [provider |-> p, data |-> TRUE]
                     /\ \A j \in 1..(i - 1) : ~routes[t][j].data
                /\ settled[p].n < MinSamples
             THEN Count(settled[p], passed)
             ELSE IF settled[p].n = MinSamples THEN Spent ELSE settled[p]]
    BY DEF Settle
  <2>2. \A p \in Providers :
          (\E i \in DOMAIN routes[t] :
              /\ routes[t][i] = [provider |-> p, data |-> TRUE]
              /\ \A j \in 1..(i - 1) : ~routes[t][j].data)
          <=> challenges(p)
    BY OneChallenger
  <2> HIDE DEF challenges
  <2>3. settled' = [p \in Providers |->
          IF challenges(p) /\ settled[p].n < MinSamples
          THEN Count(settled[p], passed)
          ELSE IF settled[p].n = MinSamples THEN Spent ELSE settled[p]]
    BY <2>1, <2>2, Zenon
  <2>4. QED BY <2>1, <2>3
<1>2. MinSamples \in Nat \ {0} BY BoundsAssumption
<1>3. ASSUME NEW p \in Providers
      PROVE  /\ canaries[p] \in [n : 0..(MinSamples - 1), passed : 0..(MinSamples - 1), done : BOOLEAN]
             /\ settled[p] \in [n : 0..MinSamples, passed : 0..MinSamples]
             /\ canaries[p].passed <= canaries[p].n /\ settled[p].passed <= settled[p].n
             /\ canaries[p].done => settled[p].n = MinSamples
             /\ ~canaries[p].done => canaries[p].n = settled[p].n /\ canaries[p].passed = settled[p].passed
  BY DEF CountsOK, CanaryCounts
<1> DEFINE Counted(p) ==
       /\ canaries'[p] \in [n : 0..(MinSamples - 1), passed : 0..(MinSamples - 1), done : BOOLEAN]
       /\ settled'[p] \in [n : 0..MinSamples, passed : 0..MinSamples]
       /\ canaries'[p].passed <= canaries'[p].n /\ settled'[p].passed <= settled'[p].n
       /\ canaries'[p].done => settled'[p].n = MinSamples
       /\ ~canaries'[p].done => canaries'[p].n = settled'[p].n /\ canaries'[p].passed = settled'[p].passed
\* a provider that is not challenging, or whose controller is done
<1>4. ASSUME NEW p \in Providers, canaries'[p] = canaries[p], challenges(p) => canaries[p].done
      PROVE  Counted(p)
  <2>1. settled'[p] = IF settled[p].n = MinSamples THEN Spent ELSE settled[p]
    <3>1. ~(challenges(p) /\ settled[p].n < MinSamples)
      <4>1. settled[p].n = MinSamples => ~(settled[p].n < MinSamples) BY <1>2
      <4>2. QED BY <4>1, <1>3, <1>4, Zenon
    <3> HIDE DEF challenges
    <3>2. QED BY <1>1, <3>1
  <2>2. CASE settled[p].n = MinSamples
    BY <2>1, <2>2, <1>2, <1>3, <1>4 DEF Spent
  <2>3. CASE settled[p].n # MinSamples
    BY <2>1, <2>3, <1>3, <1>4
  <2>4. QED BY <2>2, <2>3
\* the challenger the task counts for
<1>5. ASSUME NEW i \in Challengers(t), ~canaries[routes[t][i].provider].done,
             SettleCanary(routes[t][i].provider, passed)
      PROVE  /\ \A p \in Providers : Counted(p)
             /\ canaries' \in [Providers -> [n : 0..(MinSamples - 1), passed : 0..(MinSamples - 1), done : BOOLEAN]]
             /\ Outcome'
  <2> DEFINE r == routes[t][i].provider
             c == Count(canaries[r], passed)
  <2>1. r \in Providers /\ challenges(r) BY OneChallenger
  <2>2. ASSUME NEW p \in Providers, p # r PROVE ~challenges(p)
    BY <2>2, OneChallenger
  <2>3. /\ canaries' = [canaries EXCEPT ![r] = IF Verdict(c) = "HOLD" THEN c ELSE Over]
        /\ proc' = IF Verdict(c) = "ROLLBACK" THEN At("freeze", r) ELSE Free
    BY <1>5 DEF SettleCanary
  <2> HIDE DEF r
  <2>4. settled[r].n < MinSamples BY <1>2, <1>3, <1>5, <2>1 DEF r
  <2>5. settled'[r] = Count(settled[r], passed) BY <1>1, <2>1, <2>4
  <2>6. /\ c.n = settled'[r].n /\ c.passed = settled'[r].passed
        /\ c.n \in 1..MinSamples /\ c.passed \in 0..c.n /\ ~c.done
        /\ c \in [n : Nat, passed : Nat, done : BOOLEAN]
        /\ settled'[r] \in [n : Nat, passed : Nat]
    <3>1. canaries[r] \in [n : Nat, passed : Nat, done : BOOLEAN] /\ settled[r] \in [n : Nat, passed : Nat]
      BY <1>2, <1>3, <2>1
    <3>2. ~canaries[r].done BY <1>5 DEF r
    <3>3. /\ canaries[r].n = settled[r].n /\ canaries[r].passed = settled[r].passed
          /\ canaries[r].passed <= canaries[r].n
      BY <1>3, <2>1, <3>2
    <3>4. /\ c.n = canaries[r].n + 1 /\ ~c.done
          /\ c.passed = canaries[r].passed + (IF passed THEN 1 ELSE 0)
          /\ c \in [n : Nat, passed : Nat, done : BOOLEAN]
      BY <3>1, <3>2, OneMoreSample
    <3>5. /\ settled'[r].n = settled[r].n + 1
          /\ settled'[r].passed = settled[r].passed + (IF passed THEN 1 ELSE 0)
          /\ settled'[r] \in [n : Nat, passed : Nat]
      BY <3>1, <2>5, OneMoreOutcome
    <3> HIDE DEF c
    <3>6. QED BY <3>1, <3>3, <3>4, <3>5, <2>4, <1>2
  <2> HIDE DEF c
  <2>7. DOMAIN canaries = Providers BY DEF CountsOK
  <2>8. Verdict(c) = "HOLD" <=> c.n < MinSamples BY DEF Verdict
  <2>9. Counted(r)
    <3>1. canaries'[r] = IF Verdict(c) = "HOLD" THEN c ELSE Over BY <2>1, <2>3, <2>7
    <3>2. CASE c.n < MinSamples
      <4>1. canaries'[r] = c BY <3>1, <3>2, <2>8
      <4>2. QED BY <4>1, <2>6, <3>2, <1>2
    <3>3. CASE ~(c.n < MinSamples)
      <4>1. canaries'[r] = Over BY <3>1, <3>3, <2>8
      <4>2. c.n = MinSamples BY <2>6, <3>3, <1>2
      <4>3. Over \in [n : 0..(MinSamples - 1), passed : 0..(MinSamples - 1), done : BOOLEAN]
            /\ Over.done /\ Over.passed <= Over.n
        BY <1>2 DEF Over
      <4>4. settled'[r] \in [n : 0..MinSamples, passed : 0..MinSamples] /\ settled'[r].passed <= settled'[r].n
        BY <2>6, <1>2
      <4>5. QED BY <4>1, <4>2, <4>3, <4>4, <2>6
    <3>4. QED BY <3>2, <3>3
  <2>10. ASSUME NEW p \in Providers, p # r PROVE Counted(p)
    <3>1. canaries'[p] = canaries[p] BY <2>3, <2>7, <2>10
    <3>2. QED BY <3>1, <2>2, <2>10, <1>4
  <2>11. \A p \in Providers : Counted(p) BY <2>9, <2>10
  <2>12. canaries' \in [Providers -> [n : 0..(MinSamples - 1), passed : 0..(MinSamples - 1), done : BOOLEAN]]
    BY <2>11, <2>3, <2>7
  <2>13. Outcome'
    <3>1. CASE Verdict(c) = "ROLLBACK"
      <4>1. proc' = At("freeze", r) BY <2>3, <3>1
      <4>2. ~(c.n < MinSamples) /\ TooFew(c) BY <3>1 DEF Verdict
      <4>3. settled'[r].n = MinSamples BY <4>2, <2>6, <1>2
      <4>4. 100 * settled'[r].passed <= 65 * settled'[r].n BY <4>2, <2>6 DEF TooFew
      <4>5. QED BY <4>1, <4>3, <4>4, <2>1 DEF Outcome, TooFew
    <3>2. CASE Verdict(c) # "ROLLBACK"
      BY <2>3, <3>2 DEF Outcome
    <3>3. QED BY <3>1, <3>2
  <2>14. QED BY <2>11, <2>12, <2>13
<1>6. CASE /\ \A i \in Challengers(t) : canaries[routes[t][i].provider].done
           /\ proc' = Free /\ UNCHANGED canaries
  <2>1. \A p \in Providers : Counted(p) BY <1>4, <1>6
  <2>2. canaries' \in [Providers -> [n : 0..(MinSamples - 1), passed : 0..(MinSamples - 1), done : BOOLEAN]]
    BY <1>6 DEF CountsOK
  <2>3. settled' \in [Providers -> [n : 0..MinSamples, passed : 0..MinSamples]] BY <1>1, <2>1
  <2>4. Outcome' BY <1>6 DEF Outcome
  <2>5. QED BY <2>1, <2>2, <2>3, <2>4 DEF CountsOK, CanaryCounts
<1>7. CASE \E i \in Challengers(t) : /\ ~canaries[routes[t][i].provider].done
                                    /\ SettleCanary(routes[t][i].provider, passed)
  <2>1. /\ \A p \in Providers : Counted(p)
        /\ canaries' \in [Providers -> [n : 0..(MinSamples - 1), passed : 0..(MinSamples - 1), done : BOOLEAN]]
        /\ Outcome'
    BY <1>5, <1>7
  <2>2. settled' \in [Providers -> [n : 0..MinSamples, passed : 0..MinSamples]] BY <1>1, <2>1
  <2>3. QED BY <2>1, <2>2 DEF CountsOK, CanaryCounts
<1>8. QED BY <1>1, <1>6, <1>7

-----------------------------------------------------------------------------
(* The invariant, action by action                                         *)

\* a step that leaves a part of the state alone leaves what is known of it
LEMMA UntouchedParts ==
  /\ UNCHANGED routes /\ TaskInv => TaskInv'
  /\ UNCHANGED runs /\ RunsOK => RunsOK'
  /\ UNCHANGED <<canaries, settled>> /\ CountsOK /\ CanaryCounts => CountsOK' /\ CanaryCounts'
<1>1. ASSUME UNCHANGED routes, TaskInv PROVE TaskInv'
  BY <1>1, TasksMoveOn DEF TaskInv, RoutesOK
<1>2. UNCHANGED runs /\ RunsOK => RunsOK' BY DEF RunsOK
<1>3. UNCHANGED <<canaries, settled>> /\ CountsOK /\ CanaryCounts => CountsOK' /\ CanaryCounts'
  BY DEF CountsOK, CanaryCounts
<1>4. QED BY <1>1, <1>2, <1>3

LEMMA RouteInvStarts == RouteInit => RouteInv
<1> SUFFICES ASSUME RouteInit PROVE RouteInv OBVIOUS
<1> USE BoundsAssumption DEF RouteInit
<1>1. RunsOK BY DEF RunsOK, NoOutcome
<1>2. CountsOK /\ CanaryCounts BY DEF CountsOK, CanaryCounts, NoCanary, NoOutcome
<1>3. \A t \in Tasks : routes[t] = <<>> OBVIOUS
<1>4. RoutesOK BY <1>3 DEF RoutesOK
<1>5. RoutesAreFresh
  <2>1. ASSUME NEW t \in Tasks PROVE Cardinality(Tried(t)) = Len(routes[t])
    <3>1. Tried(t) = {} BY <1>3 DEF Tried
    <3>2. QED BY <1>3, <3>1, FS_EmptySet
  <2>2. QED BY <2>1 DEF RoutesAreFresh
<1>6. ToldPromotionIsReal BY DEF ToldPromotionIsReal
<1>7. StepsOK BY DEF StepsOK, Free, At
<1>8. RouteTypeOK BY <1>1, <1>2, <1>4 DEF RouteTypeOK, WeightSets, Modes, ProcOK
<1>9. QED BY <1>2, <1>5, <1>6, <1>7, <1>8 DEF RouteInv

(* Each step keeps the invariant, and rolls back on evidence only.         *)
Evidence ==
  \A p \in Providers : p \in frozen' \ frozen => settled[p].n = MinSamples /\ TooFew(settled[p])

\* the part of the invariant that is about the stores, the log and the process
SelectionInv ==
  /\ avail \in Installations /\ weights \in WeightSets
  /\ mode \in Modes /\ told \in Modes /\ torn \in BOOLEAN
  /\ frozen \subseteq Providers /\ last \in Providers \union {NoProvider}
  /\ ProcOK /\ StepsOK /\ ToldPromotionIsReal

LEMMA PartsOfRouteInv ==
  /\ RouteInv <=> SelectionInv /\ RunsOK /\ CountsOK /\ CanaryCounts /\ TaskInv
  /\ RouteInv' <=> SelectionInv' /\ RunsOK' /\ CountsOK' /\ CanaryCounts' /\ TaskInv'
BY DEF RouteInv, RouteTypeOK, SelectionInv, TaskInv

(* At two of its steps the process works on one task; the others do not    *)
(* look at what is routed.                                                 *)
LEMMA StepsAreKnown ==
  ASSUME NEW t, NEW p
  PROVE  /\ At("pick", t).step = "pick" /\ At("work", t).step = "work"
         /\ At("freeze", p).step = "freeze" /\ At("freeze", p).on = p
         /\ At("tell", p).step = "tell" /\ At("tell", p).on = p
         /\ At("route", p).step = "route" /\ At("demote", p).step = "demote"
         /\ At("tell_demotion", p).step = "tell_demotion" /\ Free.step = "free"
BY DEF At, Free

LEMMA StepTells ==
  ASSUME ProcOK
  PROVE  /\ proc.step = "tell" => \E verdict \in Modes : proc = At("tell", verdict)
         /\ proc.step = "freeze" => \E p \in Providers : proc = At("freeze", p)
         /\ proc.step \in {"pick", "work"} => proc.on \in Tasks /\ ~Unrouted(proc.on)
<1>1. CASE proc = Free BY <1>1 DEF Free, At
<1>2. CASE \E verdict \in Modes : proc = At("tell", verdict)
  <2>1. PICK verdict \in Modes : proc = At("tell", verdict) BY <1>2
  <2>2. proc.step = "tell" BY <2>1, StepsAreKnown
  <2>3. QED BY <2>1, <2>2 DEF Modes
<1>3. CASE \E step \in {"route", "demote", "tell_demotion"} : proc = At(step, "")
  <2>1. PICK step \in {"route", "demote", "tell_demotion"} : proc = At(step, "") BY <1>3
  <2>2. proc.step = step BY <2>1 DEF At
  <2>3. QED BY <2>2
<1>4. CASE \E t \in Tasks, step \in {"pick", "work"} : proc = At(step, t) /\ ~Unrouted(t) BY <1>4 DEF At
<1>5. CASE \E p \in Providers : proc = At("freeze", p) BY <1>5 DEF At
<1>6. QED BY <1>1, <1>2, <1>3, <1>4, <1>5 DEF ProcOK

(* The process begins on, or goes on with, a task that has routes.         *)
LEMMA WorkingIsOK ==
  ASSUME SelectionInv, NEW t \in Tasks, proc' \in {At("pick", t), At("work", t)}, ~Unrouted(t)',
         UNCHANGED <<avail, weights, mode, told, frozen, torn>>,
         last' \in Providers \union {NoProvider}, proc.step # "tell_demotion"
  PROVE  SelectionInv'
<1>1. PICK step \in {"pick", "work"} : proc' = At(step, t) OBVIOUS
<1>2. ProcOK' BY <1>1 DEF ProcOK
<1>3. StepsOK' BY <1>1 DEF StepsOK, At
<1>4. ToldPromotionIsReal' BY DEF SelectionInv, ToldPromotionIsReal
<1>5. QED BY <1>2, <1>3, <1>4 DEF SelectionInv

(* The process is free again: nothing is left undone but what was cut off. *)
LEMMA FreeIsOK ==
  ASSUME SelectionInv, proc' = Free, UNCHANGED <<avail, weights, mode, told, frozen>>,
         last' \in Providers \union {NoProvider}, torn' \in BOOLEAN, torn => torn',
         proc.step = "tell_demotion" => told = "static" \/ torn'
  PROVE  SelectionInv'
<1>1. ProcOK' BY DEF ProcOK
<1>2. StepsOK' BY DEF StepsOK, At, Free
<1>3. ToldPromotionIsReal' BY DEF SelectionInv, ToldPromotionIsReal
<1>4. QED BY <1>1, <1>2, <1>3 DEF SelectionInv

(* Another process feeds the stores: this one stays where it is.           *)
LEMMA FeedingIsOK ==
  ASSUME SelectionInv, UNCHANGED <<avail, mode, told, frozen, torn, last, routes, proc, settled>>,
         weights' \in WeightSets
  PROVE  SelectionInv'
<1>1. ProcOK' BY DEF SelectionInv, ProcOK, Unrouted
<1>2. StepsOK' BY DEF SelectionInv, StepsOK, TooFew
<1>3. ToldPromotionIsReal' BY DEF SelectionInv, ToldPromotionIsReal
<1>4. QED BY <1>1, <1>2, <1>3 DEF SelectionInv

LEMMA PromoteKept == ASSUME RouteInv, Promote PROVE RouteInv'
<1>1. /\ proc = Free /\ proc' = At("tell", Evaluate)
      /\ mode' = IF Evaluate = "data_driven" THEN "data_driven" ELSE mode
      /\ UNCHANGED <<avail, stores, told, frozen, canaries, last, routes, settled, torn>>
  BY DEF Promote
<1>2. Evaluate \in Modes BY DEF Evaluate, Modes
<1>3. ProcOK' BY <1>1, <1>2 DEF ProcOK
<1>4. StepsOK'
  BY <1>1 DEF StepsOK, At
<1>5. ToldPromotionIsReal'
  BY <1>1, StepsAreKnown DEF RouteInv, ToldPromotionIsReal
<1>6. mode' \in Modes BY <1>1 DEF RouteInv, RouteTypeOK, Modes
<1>7. SelectionInv'
  BY <1>1, <1>3, <1>4, <1>5, <1>6, PartsOfRouteInv DEF SelectionInv, stores
<1>8. QED BY <1>1, <1>7, PartsOfRouteInv, UntouchedParts DEF stores

LEMMA TellPromotionKept == ASSUME RouteInv, TellPromotion PROVE RouteInv'
<1>1. /\ proc.step = "tell" /\ told' = proc.on /\ torn' = FALSE /\ proc' = At("route", "")
      /\ UNCHANGED <<avail, stores, mode, frozen, canaries, last, routes, settled>>
  BY DEF TellPromotion, Told
<1>2. PICK verdict \in Modes : proc = At("tell", verdict)
  BY <1>1, StepTells DEF RouteInv, RouteTypeOK
<1>3. proc.on = verdict BY <1>2, StepsAreKnown
<1>4. ProcOK' BY <1>1 DEF ProcOK
<1>5. StepsOK' BY <1>1 DEF StepsOK, At
<1>6. ToldPromotionIsReal'
  BY <1>1, <1>2, <1>3 DEF RouteInv, StepsOK, ToldPromotionIsReal
<1>7. SelectionInv'
  BY <1>1, <1>2, <1>3, <1>4, <1>5, <1>6, PartsOfRouteInv DEF SelectionInv, stores
<1>8. QED BY <1>1, <1>7, PartsOfRouteInv, UntouchedParts DEF stores

LEMMA RouteTaskKept == ASSUME RouteInv, NEW t \in Tasks, RouteTask(t) PROVE RouteInv'
<1>1. /\ proc.step = "route" /\ Unrouted(t)
      /\ UNCHANGED <<avail, stores, selection, canaries, settled>>
  BY DEF RouteTask
<1>2. PICK bias \in Biases, esc \in FirstEscalations :
        \E d \in Decisions(mode, {}, bias, esc) :
          LogRoute(t, d) /\ proc' = IF d.provider = NoProvider THEN Free ELSE At("pick", t)
  BY DEF RouteTask, FirstDecisions
<1>3. PICK d \in Decisions(mode, {}, bias, esc) :
        LogRoute(t, d) /\ proc' = IF d.provider = NoProvider THEN Free ELSE At("pick", t)
  BY <1>2
<1>4. SelectionInv /\ TaskInv /\ RouteTypeOK BY PartsOfRouteInv DEF RouteInv
<1>5. d.provider \in Providers \union {NoProvider} BY <1>4, DecisionIsAProvider
<1>6. /\ TaskInv' /\ last' \in Providers \union {NoProvider}
      /\ d.provider # NoProvider => ~Unrouted(t)'
  <2>1. d.provider \notin Tried(t) /\ Len(routes[t]) <= MaxRungs
    BY <1>1, BoundsAssumption DEF Unrouted, Tried
  <2>2. QED BY <1>3, <1>4, <1>5, <2>1, RouteIsLogged
<1>7. SelectionInv'
  <2>1. CASE d.provider = NoProvider
    BY <2>1, <1>1, <1>3, <1>4, <1>6, FreeIsOK DEF stores, selection, SelectionInv
  <2>2. CASE d.provider # NoProvider
    BY <2>2, <1>1, <1>3, <1>4, <1>6, WorkingIsOK DEF stores, selection
  <2>3. QED BY <2>1, <2>2
<1>8. QED BY <1>1, <1>6, <1>7, PartsOfRouteInv, UntouchedParts DEF stores

LEMMA WorkKept ==
  ASSUME RouteInv, NEW t \in Tasks,
         RouteBuilder(t) \/ Retry(t) \/ Pause(t) \/ Resume(t) \/ ReviewRoute(t)
  PROVE  RouteInv'
<1>1. UNCHANGED <<avail, stores, selection, canaries, routes, settled>>
  BY DEF RouteBuilder, Retry, Pause, Resume, ReviewRoute
<1>2. SelectionInv /\ TaskInv BY PartsOfRouteInv
<1>3. last' \in Providers \union {NoProvider}
  BY <1>2 DEF RouteBuilder, Retry, Pause, Resume, ReviewRoute, SelectionInv
<1>4. proc.step # "tell_demotion"
  BY StepsAreKnown DEF RouteBuilder, Retry, Pause, Resume, ReviewRoute
<1>5. SelectionInv'
  <2>1. CASE Pause(t)
    <3>1. proc' = Free BY <2>1 DEF Pause
    <3>2. QED BY <3>1, <1>1, <1>2, <1>3, <1>4, FreeIsOK DEF stores, selection, SelectionInv
  <2>2. CASE RouteBuilder(t) \/ Retry(t) \/ Resume(t) \/ ReviewRoute(t)
    <3>1. proc' \in {At("pick", t), At("work", t)}
      BY <2>2 DEF RouteBuilder, Retry, Resume, ReviewRoute
    <3>2. ~Unrouted(t)
      <4>1. CASE Resume(t) BY <4>1 DEF Resume
      <4>2. CASE proc \in {At("pick", t), At("work", t)}
        BY <4>2, <1>2, StepTells DEF SelectionInv, At
      <4>3. QED BY <2>2, <4>1, <4>2 DEF RouteBuilder, Retry, ReviewRoute
    <3>3. ~Unrouted(t)' BY <3>2, <1>1 DEF Unrouted
    <3>4. QED BY <3>1, <3>3, <1>1, <1>2, <1>3, <1>4, WorkingIsOK DEF stores, selection
  <2>3. QED BY <2>1, <2>2
<1>6. QED BY <1>1, <1>5, PartsOfRouteInv, UntouchedParts DEF stores

LEMMA StrongerModelKept == ASSUME RouteInv, NEW t \in Tasks, StrongerModel(t) PROVE RouteInv'
<1>1. PICK d \in Decisions(mode, Tried(t), "none", TRUE) : d.provider \notin Tried(t) /\ LogRoute(t, d)
  BY DEF StrongerModel
<1>2. /\ proc = At("work", t) /\ Len(routes[t]) <= MaxRungs
      /\ UNCHANGED <<avail, stores, selection, canaries, proc, settled>>
  BY DEF StrongerModel
<1>3. SelectionInv /\ TaskInv /\ RouteTypeOK BY PartsOfRouteInv DEF RouteInv
<1>4. d.provider \in Providers \union {NoProvider}
  <2>1. PICK esc \in BOOLEAN : d \in Decisions(mode, Tried(t), "none", esc) OBVIOUS
  <2>2. QED BY <1>3, <2>1, DecisionIsAProvider
<1>5. /\ TaskInv' /\ last' \in Providers \union {NoProvider}
      /\ \A u \in Tasks : ~Unrouted(u) => ~Unrouted(u)'
  BY <1>1, <1>2, <1>3, <1>4, RouteIsLogged
<1>6. ~Unrouted(t) BY <1>2, <1>3, StepTells DEF SelectionInv, At
<1>7. proc.step # "tell_demotion" BY <1>2, StepsAreKnown
<1>8. SelectionInv'
  BY <1>2, <1>3, <1>5, <1>6, <1>7, WorkingIsOK DEF stores, selection
<1>9. QED BY <1>2, <1>5, <1>8, PartsOfRouteInv, UntouchedParts DEF stores

LEMMA SettleKept == ASSUME RouteInv, NEW t \in Tasks, Settle(t) PROVE RouteInv'
<1>1. SelectionInv /\ TaskInv /\ RunsOK /\ CountsOK /\ CanaryCounts /\ RoutesOK
  BY PartsOfRouteInv DEF TaskInv
<1>2. CountsOK' /\ CanaryCounts' /\ Outcome' BY <1>1, SettlingCounts
<1>3. /\ UNCHANGED <<avail, weights, selection, last>> /\ runs' = runs
      /\ routes' = [routes EXCEPT ![t] = <<>>] /\ proc = At("work", t)
  BY DEF Settle, Ingest
<1>4. TaskInv'
  <2>1. routes' \in [Tasks -> Seq(RouteEvents)] /\ \A u \in Tasks : routes'[u] \in {<<>>, routes[u]}
    BY <1>1, <1>3 DEF RoutesOK
  <2>2. QED BY <1>1, <2>1, TasksMoveOn
<1>5. SelectionInv'
  <2>1. CASE proc' = Free
    <3>1. proc.step # "tell_demotion" BY <1>3, StepsAreKnown
    <3>2. QED BY <2>1, <3>1, <1>1, <1>3, FreeIsOK DEF selection, SelectionInv
  <2>2. CASE \E p \in Providers :
               proc' = At("freeze", p) /\ settled'[p].n = MinSamples /\ TooFew(settled'[p])
    <3>1. PICK p \in Providers :
            proc' = At("freeze", p) /\ settled'[p].n = MinSamples /\ TooFew(settled'[p])
      BY <2>2
    <3>2. ProcOK' BY <3>1 DEF ProcOK
    <3>3. StepsOK' BY <3>1 DEF StepsOK, At, TooFew
    <3>4. ToldPromotionIsReal'
      BY <1>1, <1>3, StepsAreKnown DEF selection, SelectionInv, ToldPromotionIsReal
    <3>5. QED BY <3>2, <3>3, <3>4, <1>1, <1>3 DEF SelectionInv, selection
  <2>3. QED BY <1>2, <2>1, <2>2 DEF Outcome, TooFew
<1>6. QED BY <1>1, <1>2, <1>3, <1>4, <1>5, PartsOfRouteInv, UntouchedParts

LEMMA FreezeKept == ASSUME RouteInv, Freeze PROVE RouteInv' /\ Evidence
<1>1. /\ proc.step = "freeze" /\ frozen' = frozen \union {proc.on} /\ proc' = At("demote", "")
      /\ UNCHANGED <<avail, stores, mode, told, canaries, last, routes, settled, torn>>
  BY DEF Freeze
<1>2. PICK p \in Providers : proc = At("freeze", p)
  BY <1>1, StepTells DEF RouteInv, RouteTypeOK
<1>3. proc.on = p BY <1>2, StepsAreKnown
<1>4. SelectionInv BY PartsOfRouteInv
<1>5. settled[p].n = MinSamples /\ TooFew(settled[p])
  BY <1>1, <1>3, <1>4 DEF SelectionInv, StepsOK
<1>6. Evidence BY <1>1, <1>3, <1>5 DEF Evidence
<1>7. ProcOK' BY <1>1 DEF ProcOK
<1>8. StepsOK' BY <1>1 DEF StepsOK, At
<1>9. ToldPromotionIsReal' BY <1>1, <1>4 DEF SelectionInv, ToldPromotionIsReal
<1>10. SelectionInv' BY <1>1, <1>3, <1>4, <1>7, <1>8, <1>9 DEF SelectionInv, stores
<1>11. QED BY <1>1, <1>6, <1>10, PartsOfRouteInv, UntouchedParts DEF stores

LEMMA DemotionKept == ASSUME RouteInv, Demote \/ TellDemotion PROVE RouteInv'
<1>1. UNCHANGED <<avail, stores, frozen, canaries, last, routes, settled>> BY DEF Demote, TellDemotion
<1>2. SelectionInv BY PartsOfRouteInv
<1>3. SelectionInv'
  <2>1. CASE Demote
    <3>1. /\ mode' = "static" /\ proc' = At("tell_demotion", "") /\ UNCHANGED <<told, torn>>
      BY <2>1 DEF Demote
    <3>2. ProcOK' BY <3>1 DEF ProcOK
    <3>3. StepsOK' BY <3>1 DEF StepsOK, At
    <3>4. ToldPromotionIsReal' BY <3>1, StepsAreKnown DEF ToldPromotionIsReal
    <3>5. QED BY <1>1, <1>2, <3>1, <3>2, <3>3, <3>4 DEF SelectionInv, stores, Modes
  <2>2. CASE TellDemotion
    <3>1. told' = "static" /\ torn' = FALSE /\ proc' = Free /\ mode' = mode
      BY <2>2 DEF TellDemotion, Told
    <3>2. ProcOK' BY <3>1 DEF ProcOK
    <3>3. StepsOK' BY <3>1 DEF StepsOK, At, Free
    <3>4. ToldPromotionIsReal' BY <3>1 DEF ToldPromotionIsReal
    <3>5. QED BY <1>1, <1>2, <3>1, <3>2, <3>3, <3>4 DEF SelectionInv, stores, Modes
  <2>3. QED BY <2>1, <2>2
<1>4. QED BY <1>1, <1>3, PartsOfRouteInv, UntouchedParts DEF stores

LEMMA EndKept ==
  ASSUME RouteInv, Raise \/ Restart \/ \E t \in Tasks : Abandon(t)
  PROVE  RouteInv'
<1>1. SelectionInv /\ TaskInv /\ CountsOK /\ CanaryCounts /\ RunsOK BY PartsOfRouteInv
<1>2. /\ UNCHANGED <<avail, stores, mode, told, frozen, last>> /\ proc' = Free
      /\ torn' \in BOOLEAN
      /\ torn => torn'
      /\ proc.step = "tell_demotion" => told = "static" \/ torn'
  <2>1. CASE Raise \/ Restart
    BY <2>1, <1>1 DEF Raise, Restart, CutOff, SelectionInv
  <2>2. CASE \E t \in Tasks : Abandon(t)
    BY <2>2, <1>1, StepsAreKnown DEF Abandon, SelectionInv, selection
  <2>3. QED BY <2>1, <2>2
<1>3. SelectionInv'
  <2>1. last' \in Providers \union {NoProvider} BY <1>1, <1>2 DEF SelectionInv
  <2>2. UNCHANGED <<avail, weights, mode, told, frozen>> BY <1>2 DEF stores
  <2>3. QED BY <1>1, <1>2, <2>1, <2>2, FreeIsOK
<1>4. TaskInv'
  <2>1. routes \in [Tasks -> Seq(RouteEvents)] BY <1>1 DEF TaskInv, RoutesOK
  <2>2. routes' \in [Tasks -> Seq(RouteEvents)] /\ \A u \in Tasks : routes'[u] \in {<<>>, routes[u]}
    <3>1. CASE Raise BY <3>1, <2>1 DEF Raise
    <3>2. CASE Restart BY <3>2, <2>1 DEF Restart
    <3>3. CASE \E t \in Tasks : Abandon(t) BY <3>3, <2>1 DEF Abandon
    <3>4. QED BY <3>1, <3>2, <3>3
  <2>3. QED BY <1>1, <2>2, TasksMoveOn
<1>5. CountsOK' /\ CanaryCounts'
  <2>1. CASE Restart
    BY <2>1, BoundsAssumption DEF Restart, CountsOK, CanaryCounts, NoCanary, NoOutcome
  <2>2. CASE Raise \/ \E t \in Tasks : Abandon(t)
    BY <2>2, <1>1, UntouchedParts DEF Raise, Abandon
  <2>3. QED BY <2>1, <2>2
<1>6. QED BY <1>1, <1>2, <1>3, <1>4, <1>5, PartsOfRouteInv, UntouchedParts DEF stores

LEMMA StoresKept == ASSUME RouteInv, Benchmark \/ SetWeights \/ Expire PROVE RouteInv'
<1>1. SelectionInv /\ RunsOK BY PartsOfRouteInv
<1>2. UNCHANGED <<avail, mode, told, frozen, torn, canaries, last, routes, proc, settled>>
  BY DEF Benchmark, SetWeights, Expire, selection
<1>3. weights' \in WeightSets
  BY <1>1 DEF Benchmark, SetWeights, Expire, SelectionInv
<1>4. SelectionInv' BY <1>1, <1>2, <1>3, FeedingIsOK
<1>5. RunsOK'
  <2>1. CASE Benchmark
    <3>1. PICK m \in Models, passed \in BOOLEAN : runs[m].n < MinRuns /\ runs' = Ingest("T1", m, passed)
      BY <2>1 DEF Benchmark
    <3> DEFINE r == [n |-> runs[m].n + 1, passed |-> runs[m].passed + (IF passed THEN 1 ELSE 0)]
    <3>2. runs' = [runs EXCEPT ![m] = r] BY <3>1 DEF Ingest
    <3>3. /\ runs[m] \in [n : Nat, passed : Nat] /\ runs[m].passed <= runs[m].n
          /\ MinRuns \in Nat
      BY <1>1, BoundsAssumption DEF RunsOK
    <3>4. r \in [n : 0..MinRuns, passed : 0..MinRuns] /\ r.passed <= r.n
      BY <3>1, <3>3
    <3>5. QED BY <3>2, <3>4, <1>1 DEF RunsOK
  <2>2. CASE SetWeights BY <2>2, <1>1, UntouchedParts DEF SetWeights
  <2>3. CASE Expire BY <2>3, <1>1, BoundsAssumption DEF Expire, RunsOK, NoOutcome
  <2>4. QED BY <2>1, <2>2, <2>3
<1>6. QED BY <1>2, <1>4, <1>5, PartsOfRouteInv, UntouchedParts

LEMMA RouteInvKept == RouteInv /\ [RouteNext]_routeVars => RouteInv' /\ Evidence
<1> SUFFICES ASSUME RouteInv, [RouteNext]_routeVars PROVE RouteInv' /\ Evidence OBVIOUS
<1>1. ~Freeze => Evidence
  <2>1. UNCHANGED frozen => Evidence BY DEF Evidence
  <2>2. ASSUME ~Freeze PROVE UNCHANGED frozen
    BY <2>2 DEF RouteNext, routeVars, selection, Promote, TellPromotion, Demote, TellDemotion, Raise,
         RouteTask, RouteBuilder, StrongerModel, ReviewRoute, Retry, Pause, Resume, Settle, Abandon,
         Benchmark, SetWeights, Expire, Restart
  <2>3. QED BY <2>1, <2>2
<1>2. CASE UNCHANGED routeVars
  <2>1. SelectionInv' BY <1>2, PartsOfRouteInv, FeedingIsOK DEF routeVars, SelectionInv
  <2>2. RouteInv' BY <1>2, <2>1, PartsOfRouteInv, UntouchedParts DEF routeVars
  <2>3. Evidence BY <1>2 DEF routeVars, Evidence
  <2>4. QED BY <2>2, <2>3
<1>3. CASE Freeze BY <1>3, FreezeKept
<1>4. CASE RouteNext /\ ~Freeze
  <2>1. RouteInv'
    BY <1>4, PromoteKept, TellPromotionKept, DemotionKept, EndKept, RouteTaskKept, WorkKept,
       StrongerModelKept, SettleKept, StoresKept DEF RouteNext
  <2>2. QED BY <1>1, <1>4, <2>1
<1>5. QED BY <1>2, <1>3, <1>4

(* Between any two steps, types hold, no task was sent to a provider       *)
(* twice, no promotion was told that was not stored, a class told to be    *)
(* routed by data is, unless a rollback of it is on its way to the log or  *)
(* was cut off there, each controller has counted the settled tasks of its *)
(* challenger, and no freeze is under way without evidence.                *)
THEOREM RoutingInvariance == RoutingSpec => []RouteInv
<1>1. RouteInv /\ [RouteNext]_routeVars => RouteInv' BY RouteInvKept
<1>2. QED BY RouteInvStarts, <1>1, PTL DEF RoutingSpec

(* A challenger is rolled back on MinSamples settled tasks that were       *)
(* routed to it by data, too few of them verified.                         *)
THEOREM RollbacksHaveEvidence == RoutingSpec => RollbackOnEvidence
<1>1. RouteInv /\ [RouteNext]_routeVars => [Evidence]_routeVars BY RouteInvKept
<1>2. QED BY RoutingInvariance, <1>1, PTL DEF RoutingSpec, RollbackOnEvidence, Evidence
=============================================================================
