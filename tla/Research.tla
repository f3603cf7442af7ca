------------------------------ MODULE Research ------------------------------
(***************************************************************************)
(* The research pipeline and the knowledge-base answer: sources are read,  *)
(* claims extracted from them into an evidence graph, contradictions among *)
(* the claims are followed up for a bounded number of rounds, and an       *)
(* answer is synthesised from the claims alone.  What the model and the    *)
(* web return is arbitrary, and each call of the model may fail.           *)
(***************************************************************************)
EXTENDS Naturals, FiniteSets

CONSTANTS
  Claims,         \* the claims there are to find
  Sources,        \* what can be read: web pages and passages of documents
  Documents,      \* the sources that are passages of the user's documents
  Official,       \* the web pages on hosts configured as official
  MaxSubquestions,\* MAX_SUBQ (5)
  MaxCrosscheck,  \* MAX_CROSSCHECK (2)
  ExtractTop      \* EXTRACT_TOP (6): passages read in full for a KB answer

ASSUME ResearchAssumption ==
  /\ Documents \subseteq Sources /\ Official \subseteq Sources \ Documents
  /\ MaxSubquestions \in Nat \ {0} /\ MaxCrosscheck \in Nat /\ ExtractTop \in Nat

VARIABLES
  pc, mode,   \* mode: "web" for research_web, "kb" for doc_analysis
  left,       \* sub-questions, or passages to be read in full, still to come
  sources,    \* the graph: sources added,
  claims,     \*   claims added, as a partial function to the source of each,
  contra,     \*   contradicts, ordered pairs,
  agrees,     \*   agrees, ordered pairs
  round, todo, progressed, \* the cross-check: rounds done, records left, any news
  settled,    \* the records resolve() closed in the final pass
  answer,     \* sections and contested records of the answer
  calls       \* history: calls of the researcher
graph == <<sources, claims, contra, agrees>>
vars == <<pc, mode, left, graph, round, todo, progressed, settled, answer, calls>>

NoAnswer == [sections |-> {}, contested |-> {}, note |-> "none"]
NoClaims == [c \in {} |-> {}]
Init ==
  /\ pc = "ask" /\ mode \in {"web", "kb"} /\ left = 0
  /\ sources = {} /\ claims = NoClaims /\ contra = {} /\ agrees = {}
  /\ round = 0 /\ todo = {} /\ progressed = FALSE
  /\ settled = {} /\ answer = NoAnswer /\ calls = 0

-----------------------------------------------------------------------------
(* The evidence graph.                                                     *)

Known == DOMAIN claims
\* a relation is not recorded again the other way round
Relate(rel, a, b) == IF <<b, a>> \in rel THEN rel ELSE rel \union {<<a, b>>}

\* a passage of a document is a primary source, a page only on an official host
IsPrimary(c) == claims[c] \in Documents \union Official
AutoResolved(r) == IsPrimary(r[1]) # IsPrimary(r[2])
Contradictions == {r \in contra : ~AutoResolved(r)}

RelationsOf(c) == {r \in agrees : c \in {r[1], r[2]}}
(* resolve(): a primary source on one side only, or two thirds of the      *)
(* claims with none on the other side.                                     *)
Resolve(r) ==
  LET a == 1 + Cardinality(RelationsOf(r[1]))
      b == 1 + Cardinality(RelationsOf(r[2])) IN
  \/ AutoResolved(r)
  \/ 3 * a >= 2 * (a + b) /\ ~IsPrimary(r[2])
  \/ 3 * b >= 2 * (a + b) /\ ~IsPrimary(r[1])

(* One call of the researcher: the broker lets some pages through, and     *)
(* each page read may support new claims, finitely many of them.           *)
Found(readable) ==
  [read : SUBSET readable,
   new : {n \in SUBSET (Claims \ Known) : IsFiniteSet(n)}]
\* the claims are added, the pages they were read from are not
IngestClaims(f, from) ==
  /\ sources' = sources
  /\ claims' = [c \in Known \union f.new |-> IF c \in Known THEN claims[c] ELSE from[c]]
\* claims found again take the source they were found in last
IngestMerges(f, from) ==
  /\ sources' = sources \union f.read
  /\ claims' \in {[c \in Known \union f.new |-> IF c \in f.new THEN from[c] ELSE x] :
                  x \in f.read \union {claims[k] : k \in Known}}
Ingest(f, from) ==
  /\ sources' = sources \union f.read
  /\ claims' = [c \in Known \union f.new |-> IF c \in Known THEN claims[c] ELSE from[c]]

-----------------------------------------------------------------------------
\* the sub-questions the model proposes are not cut off
DecomposeUncut ==
  /\ pc = "ask" /\ left' \in 0 .. (MaxSubquestions + ExtractTop + 1) /\ pc' = "read"
  /\ UNCHANGED <<mode, graph, round, todo, progressed, settled, answer, calls>>
(* decompose(), or the passages retrieved: an empty question has no        *)
(* sub-question and an empty library no passage.                           *)
Decompose ==
  /\ pc = "ask"
  /\ left' \in 0 .. (IF mode = "web" THEN MaxSubquestions ELSE ExtractTop)
  /\ pc' = "read"
  /\ UNCHANGED <<mode, graph, round, todo, progressed, settled, answer, calls>>

(* A sub-question: passages of the library first, then the researcher.     *)
SubQuestion ==
  /\ pc = "read" /\ left > 0 /\ mode = "web"
  /\ \E f \in Found(Sources) : \E from \in [f.new -> f.read] : Ingest(f, from)
  /\ left' = left - 1 /\ calls' = calls + 1
  /\ UNCHANGED <<pc, mode, contra, agrees, round, todo, progressed, settled, answer>>

\* a passage that gave nothing is read again
AddChunkAgain ==
  /\ pc = "read" /\ left > 0 /\ mode = "kb"
  /\ \E d \in Documents, f \in Found(Documents) :
       /\ f.read = {d} /\ Ingest(f, [c \in f.new |-> d])
       /\ left' = IF f.new = {} THEN left ELSE left - 1
  /\ UNCHANGED <<pc, mode, contra, agrees, round, todo, progressed, settled, answer, calls>>
(* One passage: its claims, or none if the model fails.                    *)
AddChunk ==
  /\ pc = "read" /\ left > 0 /\ mode = "kb"
  /\ \E d \in Documents, f \in Found(Documents) :
       f.read = {d} /\ Ingest(f, [c \in f.new |-> d])
  /\ left' = left - 1
  /\ UNCHANGED <<pc, mode, contra, agrees, round, todo, progressed, settled, answer, calls>>

(* Passages past ExtractTop are cited without being read.                  *)
ReadAll ==
  /\ pc = "read" /\ left = 0
  /\ sources' \in IF mode = "web" \/ sources = {} THEN {sources} ELSE {sources, sources \union Documents}
  /\ pc' = IF mode = "web" /\ Cardinality(Known) >= 2 THEN "detect" ELSE "answer"
  /\ UNCHANGED <<mode, left, claims, contra, agrees, round, todo, progressed, settled, answer, calls>>

\* both directions of a pair are recorded
DetectBothWays ==
  /\ pc = "detect" /\ pc' = "round"
  /\ contra' \in SUBSET {r \in Known \X Known : r[1] # r[2]}
  /\ UNCHANGED <<mode, left, sources, claims, agrees, round, todo, progressed, settled, answer, calls>>
(* detect(): any pairs of different claims; relate() drops the mirror ones.*)
Detect ==
  /\ pc = "detect" /\ pc' = "round"
  /\ \E pairs \in SUBSET {r \in Known \X Known : r[1] # r[2]} :
       /\ \A r \in pairs : <<r[2], r[1]>> \notin pairs
       /\ contra' = pairs
  /\ UNCHANGED <<mode, left, sources, claims, agrees, round, todo, progressed, settled, answer, calls>>

\* rounds go on for as long as they turn something up
BeginRoundWhileNews ==
  /\ pc = "round" /\ todo = {}
  /\ IF Contradictions # {} /\ (round = 0 \/ progressed)
     THEN /\ todo' = Contradictions /\ round' = 1 /\ pc' = pc
     ELSE /\ pc' = "resolve" /\ UNCHANGED <<todo, round>>
  /\ progressed' = FALSE
  /\ UNCHANGED <<mode, left, graph, settled, answer, calls>>
(* A round takes the contradictions open when it begins.                   *)
BeginRound ==
  /\ pc = "round" /\ todo = {}
  /\ IF round < MaxCrosscheck /\ Contradictions # {} /\ (round = 0 \/ progressed)
     THEN /\ todo' = Contradictions /\ round' = round + 1 /\ pc' = pc
     ELSE /\ pc' = "resolve" /\ UNCHANGED <<todo, round>>
  /\ progressed' = FALSE
  /\ UNCHANGED <<mode, left, graph, settled, answer, calls>>

\* link(c): the side a new claim shares more words with, if any
Links(rel, new, link, r) ==
  rel \union {<<c, link[c]>> : c \in {x \in new : link[x] \in {r[1], r[2]}}}
(* One record: no follow-up is proposed, or the researcher is asked again. *)
FollowUp ==
  /\ pc = "round"
  /\ \E r \in todo :
       /\ todo' = todo \ {r}
       /\ \/ UNCHANGED <<graph, progressed, calls>>
          \/ /\ calls' = calls + 1
             /\ \E f \in Found(Sources \ Documents) : \E from \in [f.new -> f.read] :
                  /\ Ingest(f, from)
                  /\ progressed' = (progressed \/ f.read # {})
                  /\ \E link \in [f.new -> {r[1], r[2], "neither"}] :
                       agrees' = Links(agrees, f.new, link, r)
             /\ UNCHANGED contra
  /\ UNCHANGED <<pc, mode, left, round, settled, answer>>

(* The final pass closes records it has just been handed: contradictions() *)
(* makes new ones on every call, and what is closed here is forgotten.     *)
ResolvePass ==
  /\ pc = "resolve" /\ pc' = "answer"
  /\ settled' = {r \in Contradictions : Resolve(r)}
  /\ UNCHANGED <<mode, left, graph, round, todo, progressed, answer, calls>>

\* the model is asked even when there is nothing to go by
SynthesizeAlways ==
  /\ pc = "answer" /\ pc' = "done"
  /\ \E sections \in SUBSET (Known \union {"invented"}) :
       answer' = [sections |-> sections, contested |-> Contradictions, note |-> "said"]
  /\ UNCHANGED <<mode, left, graph, round, todo, progressed, settled, calls>>
(* synthesize(): no claims, no statement; otherwise whatever the model     *)
(* makes of them, or the claims themselves if it fails.                    *)
Synthesize ==
  /\ pc = "answer" /\ pc' = "done"
  /\ answer' \in
       IF Known = {}
       THEN {[sections |-> {}, contested |-> Contradictions, note |-> "no claims"]}
       ELSE {[sections |-> x, contested |-> Contradictions, note |-> "said"] :
               x \in {Known, {}, {"invented"}}}
  /\ UNCHANGED <<mode, left, graph, round, todo, progressed, settled, calls>>

Pipeline == Decompose \/ SubQuestion \/ AddChunk \/ ReadAll \/ Detect \/ BeginRound \/ FollowUp
            \/ ResolvePass \/ Synthesize
Next == Pipeline
Spec == Init /\ [][Next]_vars
\* the pipeline is a single call: it goes on as long as it can
FairSpec == Spec /\ WF_vars(Pipeline)

-----------------------------------------------------------------------------
TypeOK ==
  /\ mode \in {"web", "kb"} /\ calls \in Nat
  /\ pc \in {"ask", "read", "detect", "round", "resolve", "answer", "done"}
  /\ left \in 0 .. (IF MaxSubquestions > ExtractTop THEN MaxSubquestions ELSE ExtractTop)
  /\ sources \subseteq Sources /\ Known \subseteq Claims
  /\ \A c \in Known : claims[c] \in Sources
  /\ contra \subseteq Known \X Known /\ agrees \subseteq Known \X Known
  /\ round \in 0..MaxCrosscheck /\ todo \subseteq contra

(* Every claim rests on a source of the graph, whether it was found for a  *)
(* sub-question, in a passage or while following up a contradiction.       *)
ClaimsHaveSources == \A c \in Known : claims[c] \in sources

(* An answer is never made from nothing: without a claim there is no       *)
(* statement, whatever the model would say.                                *)
NothingFromNothing == answer.sections # {} => Known # {}

(* A pair of claims that contradict each other is reported once.           *)
ContestedOnce == \A r \in answer.contested : <<r[2], r[1]>> \notin answer.contested

(* Following up is paid for by the contradictions first detected, twice    *)
(* each: claims found on the way are never cross-checked in their turn.    *)
FollowUpsBounded == calls <= MaxSubquestions + MaxCrosscheck * Cardinality(contra)

(* Only what a claim was first read from can settle it: following up never *)
(* closes a contradiction, and the answer reports all open at the start.   *)
FollowUpsNeverClose ==
  [][pc = "round" => Contradictions' = Contradictions]_vars

(* Every question comes to an answer.                                      *)
Answered == <>(pc = "done")

(* A claim this code does not satisfy (see the README):                    *)
(* "resolve a contradiction when a primary-source claim or a clear         *)
(* majority backs one side" (crosscheck.py:3): what resolve() has closed   *)
(* is not reported as contested.                                           *)
SettledIsNotContested == pc = "done" => settled \cap answer.contested = {}

-----------------------------------------------------------------------------
(* The invariant behind them.                                              *)

\* what there is to compare is finite, a pair of claims is recorded one way
\* round, and no phase leaves anything behind for the ones before it
PhaseInv ==
  /\ IsFiniteSet(Known) /\ IsFiniteSet(contra)
  /\ \A r \in contra : <<r[2], r[1]>> \notin contra
  /\ pc \in {"ask", "read", "detect"} => contra = {} /\ round = 0
  /\ pc # "done" => answer = NoAnswer

\* each call is paid for by a sub-question or by a record of some round
PaidInv ==
  /\ pc = "ask" => calls = 0
  /\ pc = "read" => IF mode = "web" THEN calls + left <= MaxSubquestions ELSE calls = 0
  /\ pc \notin {"ask", "read"} =>
       calls + Cardinality(todo) <= MaxSubquestions + round * Cardinality(contra)

(* What holds of graph and answer: types, every claim with its source, no  *)
(* section without claims, each contradiction reported once, and no more   *)
(* calls of the researcher than its contradictions pay for.                *)
GraphInv ==
  /\ TypeOK /\ PhaseInv /\ PaidInv
  /\ ClaimsHaveSources /\ NothingFromNothing /\ ContestedOnce /\ FollowUpsBounded
=============================================================================
