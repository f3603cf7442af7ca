---------------------------- MODULE LoopDetector ----------------------------
(***************************************************************************)
(* LoopDetector: three structural flags over the recent history of a run.  *)
(* The detector is a record d; Recorded(d, ...) is d after record().  Two  *)
(* texts are similar exactly when they are equal, and "" is no text.       *)
(***************************************************************************)
EXTENDS Naturals, Sequences, SequencesExt, FiniteSets

CONSTANTS
  RepeatWindow, RepeatThreshold,  \* an action 3 times among the last 5
  ErrorThreshold,                 \* the same error 3 times running
  ThrashThreshold                 \* 3 alike diffs in a row

ASSUME DetectorAssumption ==
  /\ {RepeatWindow, RepeatThreshold, ErrorThreshold, ThrashThreshold} \subseteq Nat \ {0}
  /\ RepeatThreshold <= RepeatWindow

NoText == ""
NoError == <<>>
Fresh == [hashes |-> <<>>, errors |-> <<>>, last |-> "unset", thrash |-> 0]

LastOf(s, n) == IF Len(s) <= n THEN s ELSE SubSeq(s, Len(s) - n + 1, Len(s))
Count(s, x) == Cardinality({i \in DOMAIN s : s[i] = x})

\* lists are cut to what report() can still see
Push(s, x, n) == LastOf(Append(s, x), n)

\* a step that worked does not clear the history
KeptHistory(d, text) == [d EXCEPT !.last = text]
Cleared(d, text) == [hashes |-> <<>>, errors |-> <<>>, last |-> text, thrash |-> 0]

(* hash: the action; err: its error signature, or NoError; text: the diff.  *)
Recorded(d, hash, err, text, progress) ==
  IF progress THEN Cleared(d, text)
  ELSE [hashes |-> Push(d.hashes, hash, RepeatWindow),
        errors |-> IF err = NoError THEN <<>> ELSE Push(d.errors, err, ErrorThreshold),
        thrash |-> IF d.last = "unset" \/ text = NoText THEN d.thrash
                   ELSE IF text = d.last THEN d.thrash + 1 ELSE 0,
        last |-> text]

\* only failures and diffs are watched
FlagsOfOutcomes(d) ==
  {f \in {"repeated_error", "diff_thrash"} :
     IF f = "repeated_error"
     THEN Len(d.errors) >= ErrorThreshold /\ Cardinality(Range(d.errors)) = 1
     ELSE d.thrash >= ThrashThreshold - 1}
Flags(d) ==
  {f \in {"repeated_action", "repeated_error", "diff_thrash"} :
     CASE f = "repeated_action" ->
            d.hashes # <<>> /\ Count(d.hashes, Last(d.hashes)) >= RepeatThreshold
       [] f = "repeated_error" ->
            Len(d.errors) >= ErrorThreshold /\ Cardinality(Range(d.errors)) = 1
       [] OTHER -> d.thrash >= (IF ThrashThreshold <= 2 THEN 1 ELSE ThrashThreshold - 1)}
=============================================================================
