---------------------------- MODULE ResearchProofs ----------------------------
(***************************************************************************)
(* Proofs about Research, for any claims, sources and bounds: whatever the *)
(* model and the web return, every claim keeps a source, no answer is made *)
(* from nothing, and the calls of the researcher are paid for by what was  *)
(* found at the start.                                                     *)
(***************************************************************************)
EXTENDS Research, FiniteSetTheorems, TLAPS

-----------------------------------------------------------------------------
(* Lemmas                                                                  *)

\* What one call of the researcher finds is added: the claims known before keep
\* their source, the new ones have one of the pages just read.
LEMMA IngestAdds ==
  ASSUME TypeOK, PhaseInv, ClaimsHaveSources,
         NEW readable \in SUBSET Sources, NEW f \in Found(readable),
         NEW from \in [f.new -> f.read], Ingest(f, from)
  PROVE  /\ sources \subseteq sources' /\ sources' \subseteq Sources
         /\ Known' = Known \union f.new /\ Known' \subseteq Claims
         /\ f.new \cap Known = {} /\ f.new \subseteq Claims
         /\ IsFiniteSet(Known')
         /\ \A c \in Known : claims'[c] = claims[c]
         /\ \A c \in Known' : claims'[c] \in sources' /\ claims'[c] \in Sources
<1>1. /\ f.new \subseteq Claims \ Known /\ IsFiniteSet(f.new) /\ f.read \subseteq Sources
  BY DEF Found
<1>2. Known \subseteq Claims /\ IsFiniteSet(Known) /\ sources \subseteq Sources
      /\ \A c \in Known : claims[c] \in sources
  BY DEF TypeOK, PhaseInv, ClaimsHaveSources
<1>3. /\ sources' = sources \union f.read
      /\ claims' = [c \in Known \union f.new |-> IF c \in Known THEN claims[c] ELSE from[c]]
  BY DEF Ingest
<1>4. Known' = Known \union f.new
  BY <1>3 DEF Known
<1>5. \A c \in Known \union f.new : claims'[c] = IF c \in Known THEN claims[c] ELSE from[c]
  BY <1>3
<1>6. \A c \in f.new : from[c] \in f.read
  OBVIOUS
<1>7. IsFiniteSet(Known')
  BY <1>1, <1>2, <1>4, FS_Union
<1> QED
  BY <1>1, <1>2, <1>3, <1>4, <1>5, <1>6, <1>7

\* A relation of more claims than before is decided on the same two sources.
LEMMA SameVerdicts ==
  ASSUME TypeOK, contra' = contra, \A c \in Known : claims'[c] = claims[c]
  PROVE  Contradictions' = Contradictions
<1>1. \A r \in contra : r[1] \in Known /\ r[2] \in Known
  BY DEF TypeOK
<1>2. \A r \in contra : claims'[r[1]] = claims[r[1]] /\ claims'[r[2]] = claims[r[2]]
  BY <1>1
<1> QED
  BY <1>2 DEF Contradictions, AutoResolved, IsPrimary

\* The account in numbers: one more round costs as many calls as there are
\* records, and a round within the limit is within the account.
LEMMA Account ==
  /\ \A r, n \in Nat : r * n \in Nat /\ (r + 1) * n = r * n + n
  /\ \A r, n, max \in Nat : r <= max => r * n <= max * n
<1>1. \A r, n \in Nat : r * n \in Nat /\ (r + 1) * n = r * n + n
  OBVIOUS
<1>2. \A r, n, max \in Nat : r <= max => r * n <= max * n
  OBVIOUS
<1> QED
  BY <1>1, <1>2

\* The records of a round are finitely many.
LEMMA Records ==
  ASSUME TypeOK, PhaseInv
  PROVE  /\ IsFiniteSet(todo) /\ Cardinality(todo) \in Nat
         /\ Cardinality(contra) \in Nat
         /\ IsFiniteSet(Contradictions) /\ Cardinality(Contradictions) \in Nat
         /\ Cardinality(Contradictions) <= Cardinality(contra)
<1>1. IsFiniteSet(contra) /\ todo \in SUBSET contra /\ Contradictions \in SUBSET contra
  BY DEF TypeOK, PhaseInv, Contradictions
<1> QED
  BY <1>1, FS_Subset, FS_CardinalityType

\* What is paid for keeps within the bound.
LEMMA PaidIsBounded ==
  ASSUME TypeOK, PhaseInv, PaidInv
  PROVE  FollowUpsBounded
<1>1. /\ calls \in Nat /\ Cardinality(contra) \in Nat /\ Cardinality(todo) \in Nat
      /\ round \in Nat /\ round <= MaxCrosscheck /\ MaxCrosscheck \in Nat
      /\ MaxSubquestions \in Nat /\ left \in Nat
  BY Records, ResearchAssumption DEF TypeOK
<1>2. /\ round * Cardinality(contra) <= MaxCrosscheck * Cardinality(contra)
      /\ round * Cardinality(contra) \in Nat /\ MaxCrosscheck * Cardinality(contra) \in Nat
  BY <1>1, Account
<1>3. CASE pc \in {"ask", "read"}
  <2>1. calls <= MaxSubquestions
    BY <1>1, <1>3 DEF PaidInv
  <2> QED
    BY <1>1, <1>2, <2>1 DEF FollowUpsBounded
<1>4. CASE pc \notin {"ask", "read"}
  <2>1. calls + Cardinality(todo) <= MaxSubquestions + round * Cardinality(contra)
    BY <1>4 DEF PaidInv
  <2> QED
    BY <1>1, <1>2, <2>1 DEF FollowUpsBounded
<1> QED
  BY <1>3, <1>4

-----------------------------------------------------------------------------
(* The invariant, action by action                                         *)

\* all of GraphInv but the bound, which PaidInv implies
Kept ==
  TypeOK /\ PhaseInv /\ PaidInv /\ ClaimsHaveSources /\ NothingFromNothing /\ ContestedOnce

\* The bound adds nothing to what is kept.
LEMMA KeptIsGraphInv == GraphInv <=> Kept
  BY PaidIsBounded DEF GraphInv, Kept

LEMMA GraphInit == Init => Kept
<1> SUFFICES ASSUME Init PROVE Kept
  OBVIOUS
<1>1. Known = {}
  BY DEF Init, NoClaims, Known
<1>2. IsFiniteSet({})
  BY FS_EmptySet
<1>3. MaxCrosscheck \in Nat /\ MaxSubquestions \in Nat /\ ExtractTop \in Nat
  BY ResearchAssumption
<1>4. TypeOK
  BY <1>1, <1>3 DEF Init, TypeOK
<1>5. PhaseInv /\ PaidInv
  BY <1>1, <1>2 DEF Init, PhaseInv, PaidInv
<1>6. ClaimsHaveSources /\ NothingFromNothing /\ ContestedOnce
  BY <1>1 DEF Init, ClaimsHaveSources, NothingFromNothing, ContestedOnce, NoAnswer
<1> QED
  BY <1>4, <1>5, <1>6 DEF Kept

\* The pipeline reads and decomposes before there is anything to contradict.
LEMMA ReadingStep ==
  ASSUME Kept, Decompose \/ SubQuestion \/ AddChunk
  PROVE  Kept'
<1>1. CASE Decompose
  <2>1. /\ left' \in 0 .. (IF mode = "web" THEN MaxSubquestions ELSE ExtractTop)
        /\ pc = "ask" /\ pc' = "read"
        /\ UNCHANGED <<mode, graph, round, todo, answer, calls>>
    BY <1>1 DEF Decompose
  <2>2. MaxSubquestions \in Nat /\ ExtractTop \in Nat
    BY ResearchAssumption
  <2>3. TypeOK'
    BY <2>1, <2>2 DEF Kept, TypeOK, graph, Known
  <2>4. PhaseInv' /\ ClaimsHaveSources' /\ NothingFromNothing' /\ ContestedOnce'
    BY <2>1 DEF Kept, PhaseInv, ClaimsHaveSources, NothingFromNothing,
       ContestedOnce, graph, Known
  <2>5. PaidInv'
    <3>1. calls' = 0 /\ mode' = mode /\ pc' = "read"
      BY <2>1 DEF Kept, PaidInv
    <3>2. mode = "web" => 0 + left' <= MaxSubquestions
      <4>1. mode = "web" => left' \in 0 .. MaxSubquestions
        BY <2>1
      <4> QED
        BY <2>2, <4>1
    <3> QED
      BY <3>1, <3>2 DEF PaidInv
  <2> QED
    BY <2>3, <2>4, <2>5 DEF Kept
<1>2. CASE SubQuestion \/ AddChunk
  <2>1. \E readable \in SUBSET Sources : \E f \in Found(readable) :
          \E from \in [f.new -> f.read] : Ingest(f, from)
    <3>1. CASE SubQuestion
      BY <3>1 DEF SubQuestion
    <3>2. CASE AddChunk
      <4>1. PICK d \in Documents, f \in Found(Documents) :
              f.read = {d} /\ Ingest(f, [c \in f.new |-> d])
        BY <3>2 DEF AddChunk
      <4>2. [c \in f.new |-> d] \in [f.new -> f.read] /\ Documents \in SUBSET Sources
        BY <4>1, ResearchAssumption
      <4> QED
        BY <4>1, <4>2
    <3> QED
      BY <1>2, <3>1, <3>2
  <2>2. TypeOK /\ PhaseInv /\ ClaimsHaveSources
    BY DEF Kept
  <2>3. /\ sources \subseteq sources' /\ sources' \subseteq Sources
        /\ Known \subseteq Known' /\ Known' \subseteq Claims
        /\ IsFiniteSet(Known')
        /\ \A c \in Known' : claims'[c] \in sources' /\ claims'[c] \in Sources
    BY <2>1, <2>2, IngestAdds
  <2>4. /\ pc = "read" /\ pc' = "read" /\ left > 0 /\ left' = left - 1
        /\ UNCHANGED <<mode, contra, agrees, round, todo, answer>>
        /\ IF mode = "web" THEN calls' = calls + 1 ELSE calls' = calls
    BY <1>2 DEF SubQuestion, AddChunk
  <2>5. MaxSubquestions \in Nat /\ ExtractTop \in Nat /\ left \in Nat /\ calls \in Nat
    BY ResearchAssumption DEF Kept, TypeOK
  <2>6. TypeOK'
    <3>1. left' \in 0 .. (IF MaxSubquestions > ExtractTop THEN MaxSubquestions ELSE ExtractTop)
          /\ calls' \in Nat
      BY <2>4, <2>5 DEF Kept, TypeOK
    <3> QED
      BY <2>3, <2>4, <3>1 DEF Kept, TypeOK
  <2>7. PhaseInv' /\ ClaimsHaveSources' /\ NothingFromNothing' /\ ContestedOnce'
    BY <2>3, <2>4 DEF Kept, PhaseInv, ClaimsHaveSources, NothingFromNothing,
       ContestedOnce
  <2>8. PaidInv'
    BY <2>4, <2>5 DEF Kept, PaidInv
  <2> QED
    BY <2>6, <2>7, <2>8 DEF Kept
<1> QED
  BY <1>1, <1>2

\* Between reading and the rounds the calls made are those of the sub-questions.
LEMMA DetectingStep ==
  ASSUME Kept, ReadAll \/ Detect
  PROVE  Kept'
<1>1. /\ MaxSubquestions \in Nat /\ left \in Nat /\ calls \in Nat
      /\ contra = {} /\ round = 0 /\ todo = {}
      /\ Cardinality({}) = 0
  BY ResearchAssumption, FS_EmptySet DEF Kept, TypeOK, PhaseInv, ReadAll, Detect
<1>2. CASE ReadAll
  <2>1. /\ sources \subseteq sources' /\ sources' \subseteq sources \union Documents
        /\ pc = "read" /\ left = 0 /\ pc' \in {"detect", "answer"}
        /\ UNCHANGED <<mode, left, claims, contra, agrees, round, todo, answer, calls>>
    BY <1>2 DEF ReadAll
  <2>2. TypeOK' /\ PhaseInv' /\ ClaimsHaveSources'
    BY <2>1, ResearchAssumption DEF Kept, TypeOK, PhaseInv, ClaimsHaveSources, Known
  <2>3. NothingFromNothing' /\ ContestedOnce'
    BY <2>1 DEF Kept, NothingFromNothing, ContestedOnce, Known
  <2>4. calls + 0 <= MaxSubquestions + 0 * 0
    BY <1>1, <2>1 DEF Kept, PaidInv
  <2>5. PaidInv'
    BY <1>1, <2>1, <2>4 DEF PaidInv
  <2> QED
    BY <2>2, <2>3, <2>5 DEF Kept
<1>3. CASE Detect
  <2>1. PICK pairs \in SUBSET {r \in Known \X Known : r[1] # r[2]} :
          /\ \A r \in pairs : <<r[2], r[1]>> \notin pairs
          /\ contra' = pairs
    BY <1>3 DEF Detect
  <2>2. /\ pc = "detect" /\ pc' = "round"
        /\ UNCHANGED <<mode, left, sources, claims, agrees, round, todo, answer, calls>>
    BY <1>3 DEF Detect
  <2>3. contra' \subseteq Known \X Known /\ IsFiniteSet(contra') /\ Cardinality(contra') \in Nat
    <3>1. IsFiniteSet(Known \X Known)
      BY FS_Product DEF Kept, PhaseInv
    <3>2. contra' \in SUBSET (Known \X Known)
      BY <2>1
    <3> QED
      BY <3>1, <3>2, FS_Subset, FS_CardinalityType
  <2>4. TypeOK' /\ PhaseInv' /\ ClaimsHaveSources'
    BY <1>1, <2>1, <2>2, <2>3 DEF Kept, TypeOK, PhaseInv, ClaimsHaveSources, Known
  <2>5. NothingFromNothing' /\ ContestedOnce'
    BY <2>2 DEF Kept, NothingFromNothing, ContestedOnce, Known
  <2>6. calls + 0 <= MaxSubquestions + 0 * 0
    BY <1>1, <2>2 DEF Kept, PaidInv
  <2>7. 0 * Cardinality(contra') = 0
    BY <2>3
  <2>8. PaidInv'
    BY <1>1, <2>2, <2>6, <2>7 DEF PaidInv
  <2> QED
    BY <2>4, <2>5, <2>8 DEF Kept
<1> QED
  BY <1>2, <1>3

\* A round takes at most the contradictions there are, and pays for each.
LEMMA BeginRoundStep ==
  ASSUME Kept, BeginRound
  PROVE  Kept'
<1>1. /\ TypeOK /\ PhaseInv
      /\ calls \in Nat /\ round \in Nat /\ MaxCrosscheck \in Nat /\ MaxSubquestions \in Nat
      /\ Cardinality(contra) \in Nat /\ Cardinality(todo) \in Nat
      /\ Cardinality(Contradictions) \in Nat
      /\ Cardinality(Contradictions) <= Cardinality(contra)
  BY Records, ResearchAssumption DEF Kept, TypeOK
<1>2. /\ pc = "round" /\ pc' \in {"round", "resolve"} /\ todo = {}
      /\ UNCHANGED <<mode, left, graph, answer, calls>>
      /\ \/ todo' = todo /\ round' = round
         \/ round < MaxCrosscheck /\ round' = round + 1 /\ todo' = Contradictions
  BY DEF BeginRound
<1>3. TypeOK'
  BY <1>1, <1>2 DEF TypeOK, Contradictions, graph, Known
<1>4. PhaseInv' /\ ClaimsHaveSources' /\ NothingFromNothing' /\ ContestedOnce'
  BY <1>2 DEF Kept, PhaseInv, ClaimsHaveSources, NothingFromNothing, ContestedOnce,
     graph, Known
<1>5. PaidInv'
  <2>1. calls + 0 <= MaxSubquestions + round * Cardinality(contra)
    BY <1>1, <1>2, FS_EmptySet DEF Kept, PaidInv
  <2>2. CASE todo' = todo /\ round' = round
    BY <1>2, <2>2 DEF Kept, PaidInv, graph
  <2>3. CASE round' = round + 1 /\ todo' = Contradictions
    <3>1. /\ round * Cardinality(contra) \in Nat
          /\ (round + 1) * Cardinality(contra) = round * Cardinality(contra) + Cardinality(contra)
      BY <1>1, Account
    <3>2. \A c, n, k, p, m \in Nat : c + 0 <= m + p /\ k <= n => c + k <= m + (p + n)
      OBVIOUS
    <3>3. calls + Cardinality(Contradictions)
            <= MaxSubquestions + (round * Cardinality(contra) + Cardinality(contra))
      BY <1>1, <2>1, <3>1, <3>2, Zenon
    <3> QED
      BY <1>2, <2>3, <3>1, <3>3 DEF PaidInv, graph
  <2> QED
    BY <1>2, <2>2, <2>3
<1> QED
  BY <1>3, <1>4, <1>5 DEF Kept

\* A follow-up uses up one record, and adds claims that contradict nothing.
LEMMA FollowUpStep ==
  ASSUME Kept, FollowUp
  PROVE  Kept' /\ Contradictions' = Contradictions
<1>1. /\ TypeOK /\ PhaseInv /\ ClaimsHaveSources
      /\ calls \in Nat /\ round \in Nat /\ MaxSubquestions \in Nat
      /\ IsFiniteSet(todo) /\ Cardinality(todo) \in Nat /\ Cardinality(contra) \in Nat
  BY Records, ResearchAssumption DEF Kept, TypeOK
<1>2. PICK r \in todo :
        /\ todo' = todo \ {r}
        /\ \/ UNCHANGED <<graph, progressed, calls>>
           \/ /\ calls' = calls + 1
              /\ \E f \in Found(Sources \ Documents) : \E from \in [f.new -> f.read] :
                   /\ Ingest(f, from)
                   /\ progressed' = (progressed \/ f.read # {})
                   /\ \E link \in [f.new -> {r[1], r[2], "neither"}] :
                        agrees' = Links(agrees, f.new, link, r)
              /\ UNCHANGED contra
  BY DEF FollowUp
<1>3. pc = "round" /\ UNCHANGED <<pc, mode, left, round, settled, answer>> /\ contra' = contra
  BY <1>2 DEF FollowUp, graph
<1>4. r[1] \in Known /\ r[2] \in Known
  BY <1>1 DEF TypeOK
<1>5. /\ Cardinality(todo') + 1 = Cardinality(todo) /\ Cardinality(todo') \in Nat
      /\ calls' \in {calls, calls + 1}
  <2>1. /\ IsFiniteSet(todo \ {r}) /\ Cardinality(todo \ {r}) = Cardinality(todo) - 1
    BY <1>1, FS_RemoveElement
  <2>2. Cardinality(todo \ {r}) \in Nat
    BY <2>1, FS_CardinalityType
  <2>3. Cardinality(todo \ {r}) + 1 = Cardinality(todo)
    BY <1>1, <2>1
  <2> QED
    BY <1>2, <2>2, <2>3 DEF graph
<1>6. /\ sources \subseteq sources' /\ sources' \subseteq Sources
      /\ Known \subseteq Known' /\ Known' \subseteq Claims /\ IsFiniteSet(Known')
      /\ \A c \in Known : claims'[c] = claims[c]
      /\ \A c \in Known' : claims'[c] \in sources' /\ claims'[c] \in Sources
      /\ agrees' \subseteq Known' \X Known'
  <2>1. CASE UNCHANGED <<graph, progressed, calls>>
    BY <1>1, <2>1 DEF graph, Known, TypeOK, PhaseInv, ClaimsHaveSources
  <2>2. CASE \E f \in Found(Sources \ Documents) : \E from \in [f.new -> f.read] :
               /\ Ingest(f, from)
               /\ \E link \in [f.new -> {r[1], r[2], "neither"}] :
                    agrees' = Links(agrees, f.new, link, r)
    <3>1. PICK f \in Found(Sources \ Documents) : \E from \in [f.new -> f.read] :
            /\ Ingest(f, from)
            /\ \E link \in [f.new -> {r[1], r[2], "neither"}] :
                 agrees' = Links(agrees, f.new, link, r)
      BY <2>2
    <3>2. PICK from \in [f.new -> f.read] :
            /\ Ingest(f, from)
            /\ \E link \in [f.new -> {r[1], r[2], "neither"}] :
                 agrees' = Links(agrees, f.new, link, r)
      BY <3>1
    <3>3. /\ sources \subseteq sources' /\ sources' \subseteq Sources
          /\ Known' = Known \union f.new /\ Known' \subseteq Claims /\ IsFiniteSet(Known')
          /\ \A c \in Known : claims'[c] = claims[c]
          /\ \A c \in Known' : claims'[c] \in sources' /\ claims'[c] \in Sources
      BY <1>1, <3>2, IngestAdds
    <3>4. agrees' \subseteq Known' \X Known'
      <4>1. PICK link \in [f.new -> {r[1], r[2], "neither"}] :
              agrees' = Links(agrees, f.new, link, r)
        BY <3>2
      <4>2. \A p \in Links(agrees, f.new, link, r) :
              p \in agrees \/ \E c \in f.new : p = <<c, link[c]>> /\ link[c] \in {r[1], r[2]}
        BY DEF Links
      <4>3. agrees \subseteq Known \X Known
        BY <1>1 DEF TypeOK
      <4> QED
        BY <1>4, <3>3, <4>1, <4>2, <4>3
    <3> QED
      BY <3>3, <3>4
  <2> QED
    BY <1>2, <2>1, <2>2
<1>7. TypeOK'
  BY <1>1, <1>2, <1>3, <1>5, <1>6 DEF TypeOK
<1>8. PhaseInv' /\ ClaimsHaveSources' /\ NothingFromNothing' /\ ContestedOnce'
  BY <1>3, <1>6 DEF Kept, PhaseInv, ClaimsHaveSources, NothingFromNothing, ContestedOnce
<1>9. PaidInv'
  <2>1. calls + Cardinality(todo) <= MaxSubquestions + round * Cardinality(contra)
    BY <1>3 DEF Kept, PaidInv
  <2>2. round * Cardinality(contra) \in Nat
    BY <1>1, Account
  <2>3. \A c, t, m, p \in Nat : c + (t + 1) <= m + p => c + t <= m + p /\ (c + 1) + t <= m + p
    OBVIOUS
  <2>4. calls' + Cardinality(todo') <= MaxSubquestions + round * Cardinality(contra)
    BY <1>1, <1>5, <2>1, <2>2, <2>3, Zenon
  <2> QED
    BY <1>3, <2>4 DEF PaidInv
<1>10. Contradictions' = Contradictions
  BY <1>1, <1>3, <1>6, SameVerdicts
<1> QED
  BY <1>7, <1>8, <1>9, <1>10 DEF Kept

\* The answer is made of the claims and of what is still contradicted.
LEMMA AnsweringStep ==
  ASSUME Kept, ResolvePass \/ Synthesize
  PROVE  Kept'
<1>1. /\ pc' \in {"answer", "done"} /\ pc \in {"resolve", "answer"}
      /\ UNCHANGED <<mode, left, graph, round, todo, calls>>
  BY DEF ResolvePass, Synthesize
<1>2. /\ pc' # "done" => answer' = answer /\ pc # "done"
      /\ answer'.sections # {} => Known # {} \/ answer' = answer
      /\ answer' = answer \/ answer'.contested = Contradictions
  <2>1. CASE ResolvePass
    BY <2>1 DEF ResolvePass
  <2>2. CASE Synthesize /\ Known = {}
    <3>1. answer' = [sections |-> {}, contested |-> Contradictions, note |-> "no claims"]
      BY <2>2 DEF Synthesize
    <3> QED
      BY <2>2, <3>1 DEF Synthesize
  <2>3. CASE Synthesize /\ Known # {}
    <3>1. PICK x \in {Known, {}, {"invented"}} :
            answer' = [sections |-> x, contested |-> Contradictions, note |-> "said"]
      BY <2>3 DEF Synthesize
    <3> QED
      BY <2>3, <3>1 DEF Synthesize
  <2> QED
    BY <2>1, <2>2, <2>3
<1>3. TypeOK'
  BY <1>1 DEF Kept, TypeOK, graph, Known
<1>4. PhaseInv' /\ ClaimsHaveSources' /\ NothingFromNothing' /\ PaidInv'
  BY <1>1, <1>2 DEF Kept, PhaseInv, ClaimsHaveSources, NothingFromNothing, PaidInv,
     graph, Known
<1>5. ContestedOnce'
  BY <1>2 DEF Kept, PhaseInv, ContestedOnce, Contradictions
<1> QED
  BY <1>3, <1>4, <1>5 DEF Kept

LEMMA GraphStep == Kept /\ [Next]_vars => Kept'
<1> SUFFICES ASSUME Kept, [Next]_vars PROVE Kept'
  OBVIOUS
<1>1. CASE Pipeline
  BY <1>1, ReadingStep, DetectingStep, BeginRoundStep, FollowUpStep, AnsweringStep
     DEF Pipeline
<1>2. CASE UNCHANGED vars
  BY <1>2 DEF vars, graph, Kept, TypeOK, PhaseInv, PaidInv, ClaimsHaveSources,
     NothingFromNothing, ContestedOnce, Known
<1> QED
  BY <1>1, <1>2 DEF Next

-----------------------------------------------------------------------------
(* The theorems                                                            *)

\* What one step keeps holds always.
LEMMA KeptAlways == Spec => []Kept
  BY GraphInit, GraphStep, PTL DEF Spec

\* However many claims are found and whatever the model makes of them: each has a
\* source in the graph, no statement is made without any, a contradiction is
\* reported once, and following up costs at most MaxCrosscheck calls for each.
THEOREM GraphInvariance == Spec => []GraphInv
<1> QED
  BY KeptAlways, KeptIsGraphInv, PTL

\* Following up never closes a contradiction: no round changes which are open.
THEOREM RoundsCloseNothing == Spec => FollowUpsNeverClose
<1>1. Kept /\ [Next]_vars => [pc = "round" => Contradictions' = Contradictions]_vars
  <2> SUFFICES ASSUME Kept, Next, pc = "round"
               PROVE  Contradictions' = Contradictions
    OBVIOUS
  <2>1. FollowUp \/ UNCHANGED <<claims, contra>>
    BY DEF Next, Pipeline, Decompose, SubQuestion, AddChunk, ReadAll, Detect,
       BeginRound, ResolvePass, Synthesize, graph
  <2>2. CASE FollowUp
    BY <2>2, FollowUpStep
  <2>3. CASE UNCHANGED <<claims, contra>>
    BY <2>3 DEF Contradictions, AutoResolved, IsPrimary
  <2> QED
    BY <2>1, <2>2, <2>3
<1> QED
  BY <1>1, KeptAlways, PTL DEF Spec, FollowUpsNeverClose
=============================================================================
