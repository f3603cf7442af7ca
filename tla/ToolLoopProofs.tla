--------------------------- MODULE ToolLoopProofs ---------------------------
(***************************************************************************)
(* Proofs about ToolLoop, for every set of calls, every configuration and  *)
(* every bound: what the policy rules let through, and that the detector   *)
(* ends a run of equal calls.                                              *)
(***************************************************************************)
EXTENDS ToolLoop, FiniteSetTheorems, SequenceTheorems, TLAPS

-----------------------------------------------------------------------------
(* The policy.                                                             *)

(* The first of the rules that fire is one of them.                        *)
LEMMA SmallestRule ==
  ASSUME NEW S \in SUBSET (1..6), S # {}
  PROVE  Min(S) \in S
<1>1. \E i \in S : \A j \in S : i <= j
  <2>1. CASE 1 \in S BY <2>1
  <2>2. CASE 1 \notin S /\ 2 \in S BY <2>2
  <2>3. CASE 1 \notin S /\ 2 \notin S /\ 3 \in S BY <2>3
  <2>4. CASE 1 \notin S /\ 2 \notin S /\ 3 \notin S /\ 4 \in S BY <2>4
  <2>5. CASE S \subseteq {5, 6} /\ 5 \in S BY <2>5
  <2>6. CASE S = {6} BY <2>6
  <2>7. 1 \notin S /\ 2 \notin S /\ 3 \notin S /\ 4 \notin S => S \subseteq {5, 6} OBVIOUS
  <2>8. S \subseteq {5, 6} => 5 \in S \/ S = {6} OBVIOUS
  <2>9. QED BY <2>1, <2>2, <2>3, <2>4, <2>5, <2>6, <2>7, <2>8
<1>2. QED BY <1>1 DEF Min

(* No rule allows: what is allowed is what none of them refused.           *)
LEMMA AllowedMeans ==
  ASSUME NEW p, NEW g, Decide(p, g).decision = "ALLOW"
  PROVE  /\ ~g.expired /\ p.op \in g.ops /\ CoversPath(p.path)
         /\ ~(IsSideEffecting(p.op) /\ p.path = "risky")
<1> DEFINE r == OrderedRules(p, g)
           fired == {i \in DOMAIN r : r[i].fires}
<1>1. fired \in SUBSET (1..6) BY DEF OrderedRules
<1>2. \A i \in 1..6 : r[i].decision # "ALLOW" BY DEF OrderedRules, Rule
<1>3. fired = {}
  <2>1. SUFFICES ASSUME fired # {} PROVE FALSE OBVIOUS
  <2>2. Min(fired) \in 1..6 BY <1>1, <2>1, SmallestRule
  <2>3. Decide(p, g) = r[Min(fired)] BY <2>1 DEF Decide
  <2>4. QED BY <1>2, <2>2, <2>3
<1>4. 1 \in DOMAIN r /\ 2 \in DOMAIN r /\ 3 \in DOMAIN r /\ 6 \in DOMAIN r
      BY DEF OrderedRules
<1>5. ~r[1].fires /\ ~r[2].fires /\ ~r[3].fires /\ ~r[6].fires BY <1>3, <1>4
<1>6. QED BY <1>5 DEF OrderedRules, Rule

(* An expired grant refuses for its age, whatever is asked for.            *)
LEMMA ExpiredMeans ==
  ASSUME NEW p, NEW g, g.expired
  PROVE  Decide(p, g).decision = "DENY" /\ Decide(p, g).name = "capability-expired"
<1> DEFINE r == OrderedRules(p, g)
           fired == {i \in DOMAIN r : r[i].fires}
<1>1. fired \in SUBSET (1..6) /\ 1 \in fired BY DEF OrderedRules, Rule
<1>2. Min(fired) = 1 BY <1>1 DEF Min
<1>3. Decide(p, g) = r[1] BY <1>1, <1>2 DEF Decide
<1>4. QED BY <1>3 DEF OrderedRules, Rule

(* The harmless operations need a reading token.                           *)
LEMMA HarmlessCaps ==
  ASSUME NEW o \in Listed, ~Manifest[o].side
  PROVE  Manifest[o].cap \in {"fs_read", "vcs_read"}
BY DEF Listed, Manifest, FsOps, ShellOps, GitOps, NetOps, McpOps, Op

(* A side effect the grant of a run covers was opted into.                 *)
LEMMA GrantedMeans ==
  ASSUME NEW op \in ToolTaskGrant(optedIn).ops, IsSideEffecting(op)
  PROVE  \E t \in optedIn : op \in Registry[t]
<1>1. PICK t \in Tokens : /\ op \in Registry[t]
                          /\ \/ t \in optedIn
                             \/ \E o \in Listed : ~Manifest[o].side /\ t = Manifest[o].cap
  BY DEF ToolTaskGrant, Grant
<1>2. CASE t \in optedIn BY <1>1, <1>2
<1>3. CASE \E o \in Listed : ~Manifest[o].side /\ t = Manifest[o].cap
  <2>1. t \in {"fs_read", "vcs_read"} BY <1>3, HarmlessCaps
  <2>2. Registry["fs_read"] = {"file.read", "dir.list"} /\ Registry["vcs_read"] = {"vcs.read"}
    BY DEF Registry
  <2>3. QED BY <1>1, <2>1, <2>2 DEF IsSideEffecting, SideEffectingOps
<1>4. QED BY <1>1, <1>2, <1>3

LEMMA GrantedIsRegistered ==
  ToolTaskGrant(optedIn).ops \subseteq UNION {Registry[t] : t \in Tokens}
BY DEF ToolTaskGrant, Grant

-----------------------------------------------------------------------------
(* The detector.                                                           *)

(* A push keeps the newest entries, the new one last.                      *)
KeepsNewest(T, h, x, n) ==
  \E shift \in {0, 1} : LET p == Push(h, x, n) IN
    /\ shift = IF Len(h) < n THEN 0 ELSE 1
    /\ p \in Seq(T) /\ Len(p) <= n /\ Len(p) = Len(h) + 1 - shift
    /\ p[Len(p)] = x
    /\ \A i \in 1..(Len(p) - 1) : p[i] = h[i + shift]
LEMMA PushKeeps ==
  ASSUME NEW T, NEW h \in Seq(T), NEW x \in T, NEW n \in Nat \ {0}, Len(h) <= n
  PROVE  KeepsNewest(T, h, x, n)
<1> PICK p : p = Push(h, x, n) OBVIOUS
<1> PICK shift \in {0, 1} : shift = IF Len(h) < n THEN 0 ELSE 1 OBVIOUS
<1> SUFFICES /\ p \in Seq(T) /\ Len(p) <= n /\ Len(p) = Len(h) + 1 - shift
             /\ p[Len(p)] = x
             /\ \A i \in 1..(Len(p) - 1) : p[i] = h[i + shift]
  BY DEF KeepsNewest
<1> DEFINE a == Append(h, x)
<1>1. a \in Seq(T) /\ Len(a) = Len(h) + 1 /\ a[Len(h) + 1] = x
      /\ (\A i \in 1..Len(h) : a[i] = h[i]) /\ Len(h) \in Nat
  OBVIOUS
<1> HIDE DEF a
<1>2. CASE Len(h) < n
  <2>1. Push(h, x, n) = a BY <1>1, <1>2 DEF Push, LastOf, a
  <2>2. QED BY <1>1, <1>2, <2>1
<1>3. CASE Len(h) = n
  <2>1. Push(h, x, n) = SubSeq(a, 2, n + 1) BY <1>1, <1>3 DEF Push, LastOf, a
  <2>2. SubSeq(a, 2, n + 1) \in Seq(T) /\ Len(SubSeq(a, 2, n + 1)) = n
        /\ \A i \in 1..n : SubSeq(a, 2, n + 1)[i] = a[i + 1]
    BY <1>1, <1>3
  <2>3. QED BY <1>1, <1>3, <2>1, <2>2
<1>4. QED BY <1>1, <1>2, <1>3

(* A run of equal entries at the end counts as a repeated action.          *)
LEMMA RunIsFlagged ==
  ASSUME NEW T, NEW d, d.hashes \in Seq(T), NEW k \in Nat, RepeatThreshold <= k,
         k <= Len(d.hashes),
         \A i \in 1..Len(d.hashes) : i > Len(d.hashes) - k => d.hashes[i] = d.hashes[Len(d.hashes)]
  PROVE  Flags(d) # {}
<1> DEFINE n == Len(d.hashes)
           S == {i \in DOMAIN d.hashes : d.hashes[i] = Last(d.hashes)}
<1>1. n \in Nat /\ DOMAIN d.hashes = 1..n /\ RepeatThreshold \in Nat \ {0}
  BY DetectorAssumption
<1>2. (n - k + 1)..n \subseteq S BY <1>1 DEF Last
<1>3. IsFiniteSet(1..n) /\ S \subseteq 1..n BY <1>1, FS_Interval
<1>4. IsFiniteSet(S) BY <1>3, FS_Subset
<1>5. Cardinality((n - k + 1)..n) = k BY <1>1, FS_Interval
<1>6. Cardinality(S) \in Nat /\ k <= Cardinality(S)
  BY <1>2, <1>4, <1>5, FS_Subset, FS_CardinalityType
<1>7. Count(d.hashes, Last(d.hashes)) >= RepeatThreshold BY <1>1, <1>6 DEF Count
<1>8. d.hashes # <<>> BY <1>1
<1>9. "repeated_action" \in Flags(d) BY <1>7, <1>8 DEF Flags
<1>10. QED BY <1>9

-----------------------------------------------------------------------------
(* The loop.                                                               *)

\* what the detector may hear of
Heard == Calls \union {UnknownCall}

\* the grant is the one issued at the start, whatever became of its age
GrantInv ==
  /\ mcp \in McpFound /\ optedIn \in OptIns
  /\ grant \in [ops: {ToolTaskGrant(optedIn).ops}, hosts: {Hosts}, expired: BOOLEAN]

Ends == {"no", "loop_risk", "cap", "unparseable", "done"}

BoundInv ==
  /\ end \in Ends
  /\ turn \in 0..MaxIters /\ parseLeft \in 0..ParseBudget
  /\ end = "no" => parseLeft > 0
  /\ okHashes \subseteq Calls /\ effects \subseteq Calls
  /\ late \in [ran: Nat, refused: Nat]
  /\ \E T : detector.errors \in Seq(T)
  /\ Len(detector.errors) <= ErrorThreshold

\* the detector remembers the calls the history counts as repeats
RepeatInv ==
  /\ detector.hashes \in Seq(Heard)
  /\ Len(detector.hashes) <= RepeatWindow
  /\ repeats \in [idle: Nat, same: Nat, call: Heard]
  /\ repeats.same <= repeats.idle /\ repeats.idle <= turn
  /\ end = "no" =>
       /\ repeats.same < RepeatThreshold /\ repeats.same <= Len(detector.hashes)
       /\ \A i \in 1..Len(detector.hashes) :
            i > Len(detector.hashes) - repeats.same => detector.hashes[i] = repeats.call

\* what the grant covers and nobody need approve
Permitted(c) ==
  /\ Proposal(c).op \in ToolTaskGrant(optedIn).ops
  /\ IsSideEffecting(Proposal(c).op) => c.path \notin {"risky", "out"}
EffectInv ==
  /\ \A c \in pending : c \in Calls /\ Permitted(c)
  /\ \A c \in effects : Permitted(c) /\ IsSideEffecting(Proposal(c).op)

IInv == GrantInv /\ BoundInv /\ RepeatInv /\ EffectInv

(* One observation, of a call or of one no adapter knows.                  *)
LEMMA ObserveKeeps ==
  ASSUME BoundInv, RepeatInv, Step, NEW c \in Heard, NEW r,
         r.ok \in BOOLEAN, r.ok => c \in Calls, Observe(c, r)
  PROVE  /\ RepeatInv' /\ okHashes' \subseteq Calls
         /\ (\E T : detector.errors \in Seq(T))' /\ Len(detector.errors') <= ErrorThreshold
<1>1. PICK progress \in BOOLEAN : progress = (r.ok /\ c \notin okHashes) OBVIOUS
<1>2. PICK d : d = Recorded(detector, c, r.err, r.text, progress) OBVIOUS
<1>3. detector' = d /\ turn' = turn + 1 /\ end = "no" /\ turn < MaxIters /\ turn \in Nat
  BY <1>1, <1>2, ToolLoopAssumption DEF Observe, Step, Running, BoundInv
<1>4. okHashes' \subseteq Calls BY DEF Observe, BoundInv
<1>5. RepeatWindow \in Nat \ {0} /\ ErrorThreshold \in Nat \ {0}
      /\ RepeatThreshold \in Nat \ {0} /\ RepeatThreshold <= RepeatWindow
  BY DetectorAssumption
<1>6. <<>> \in Seq(Heard) /\ Len(<<>>) = 0 OBVIOUS
<1>7. CASE progress
  <2>1. d.hashes = <<>> /\ d.errors = <<>> BY <1>2, <1>7 DEF Recorded, Cleared
  <2>2. repeats' = NoRepeats BY <1>1, <1>7 DEF Observe
  <2>3. repeats' \in [idle: Nat, same: Nat, call: Heard]
        /\ repeats'.same = 0 /\ repeats'.idle = 0
    BY <2>2 DEF NoRepeats, Heard
  <2>4. detector'.hashes = <<>> /\ detector'.errors = <<>> BY <1>3, <2>1
  <2>5. RepeatInv' BY <1>3, <1>5, <1>6, <2>3, <2>4 DEF RepeatInv
  <2>6. \E T : detector'.errors \in Seq(T) BY <1>6, <2>4
  <2>7. Len(detector'.errors) <= ErrorThreshold BY <1>5, <1>6, <2>4
  <2>8. QED BY <1>4, <2>5, <2>6, <2>7
<1>8. CASE ~progress
  <2>1. PICK h : h = detector.hashes OBVIOUS
  <2>2. PICK p : p = Push(h, c, RepeatWindow) OBVIOUS
  <2>3. PICK shift : shift = IF Len(h) < RepeatWindow THEN 0 ELSE 1 OBVIOUS
  <2>4. PICK same : same = IF repeats.call = c THEN repeats.same + 1 ELSE 1 OBVIOUS
  <2>5. d.hashes = p
        /\ d.errors = IF r.err = NoError THEN <<>>
                      ELSE Push(detector.errors, r.err, ErrorThreshold)
    BY <1>2, <1>8, <2>1, <2>2 DEF Recorded
  <2>6. h \in Seq(Heard) /\ Len(h) <= RepeatWindow /\ Len(h) \in Nat
    BY <2>1 DEF RepeatInv
  <2>7. /\ p \in Seq(Heard) /\ Len(p) <= RepeatWindow /\ Len(p) = Len(h) + 1 - shift
        /\ p[Len(p)] = c /\ \A i \in 1..(Len(p) - 1) : p[i] = h[i + shift]
    <3>1. KeepsNewest(Heard, h, c, RepeatWindow) BY <1>5, <2>6, PushKeeps
    <3>2. QED BY <2>2, <2>3, <3>1 DEF KeepsNewest
  <2>8. repeats' = [idle |-> repeats.idle + 1, call |-> c, same |-> same]
    BY <1>1, <1>8, <2>4 DEF Observe
  <2>9. /\ repeats.idle \in Nat /\ repeats.same \in Nat
        /\ repeats.same <= repeats.idle /\ repeats.idle <= turn
        /\ repeats.same < RepeatThreshold /\ repeats.same <= Len(h)
        /\ \A i \in 1..Len(h) : i > Len(h) - repeats.same => h[i] = repeats.call
    BY <1>3, <2>1 DEF RepeatInv
  <2>10. same \in Nat /\ same <= repeats.idle + 1 /\ same <= Len(p)
    <3>1. shift \in {0, 1} /\ (shift = 1 => Len(h) = RepeatWindow) BY <1>5, <2>3, <2>6
    <3>2. repeats.same + 1 <= Len(p) /\ 1 <= Len(p) BY <1>5, <2>6, <2>7, <2>9, <3>1
    <3>3. QED BY <2>4, <2>9, <3>2
  <2>11. \A i \in 1..Len(p) : i > Len(p) - same => p[i] = c
    <3>1. SUFFICES ASSUME NEW i \in 1..Len(p), i > Len(p) - same PROVE p[i] = c OBVIOUS
    <3>2. shift \in {0, 1} /\ Len(p) \in Nat BY <2>3, <2>6, <2>7
    <3>3. CASE i = Len(p) BY <2>7, <3>3
    <3>4. CASE i # Len(p) /\ repeats.call = c
      <4>1. same = repeats.same + 1 BY <2>4, <3>4
      <4>2. i \in 1..(Len(p) - 1) /\ i + shift \in 1..Len(h)
            /\ i + shift > Len(h) - repeats.same
        <5>1. i \in Nat /\ 1 <= i /\ i <= Len(p) - 1 BY <3>1, <3>2, <3>4
        <5>2. Len(h) \in Nat /\ Len(p) = Len(h) + 1 - shift BY <2>6, <2>7
        <5>3. i > Len(p) - (repeats.same + 1) /\ repeats.same \in Nat BY <2>9, <3>1, <4>1
        <5>4. QED BY <3>2, <5>1, <5>2, <5>3
      <4>3. p[i] = h[i + shift] BY <2>7, <4>2
      <4>4. QED BY <2>9, <3>4, <4>2, <4>3
    <3>5. CASE i # Len(p) /\ repeats.call # c
      <4>1. same = 1 BY <2>4, <3>5
      <4>2. QED BY <3>1, <3>2, <3>5, <4>1
    <3>6. QED BY <3>3, <3>4, <3>5
  <2>12. end' = "no" => same < RepeatThreshold
    <3>1. SUFFICES ASSUME same >= RepeatThreshold PROVE end' # "no"
      BY <1>5, <2>10
    <3>2. \A i \in 1..Len(d.hashes) :
            i > Len(d.hashes) - same => d.hashes[i] = d.hashes[Len(d.hashes)]
      BY <2>5, <2>7, <2>11
    <3>3. d.hashes \in Seq(Heard) /\ RepeatThreshold <= same /\ same <= Len(d.hashes)
      BY <1>5, <2>5, <2>7, <2>10, <3>1
    <3>4. Flags(d) # {} BY <2>10, <3>2, <3>3, RunIsFlagged
    <3>5. QED BY <1>1, <1>2, <1>8, <3>4 DEF Observe
  <2>13. RepeatInv'
    <3>1. repeats' \in [idle: Nat, same: Nat, call: Heard]
          /\ repeats'.idle = repeats.idle + 1 /\ repeats'.same = same /\ repeats'.call = c
      BY <2>8, <2>9, <2>10
    <3>2. detector'.hashes = p BY <1>3, <2>5
    <3>3. same <= repeats.idle + 1 /\ repeats.idle + 1 <= turn'
      BY <1>3, <2>9, <2>10
    <3>4. QED BY <2>7, <2>10, <2>11, <2>12, <3>1, <3>2, <3>3 DEF RepeatInv
  <2>14. (\E T : detector'.errors \in Seq(T)) /\ Len(detector'.errors) <= ErrorThreshold
    <3>1. CASE r.err = NoError
      <4>1. detector'.errors = <<>> BY <1>3, <2>5, <3>1
      <4>2. QED BY <1>5, <1>6, <4>1
    <3>2. CASE r.err # NoError
      <4>1. PICK T : detector.errors \in Seq(T) BY DEF BoundInv
      <4>2. PICK U : U = T \union {r.err} OBVIOUS
      <4>3. detector.errors \in Seq(U) /\ r.err \in U BY <4>1, <4>2
      <4>4. PICK q : q = Push(detector.errors, r.err, ErrorThreshold) OBVIOUS
      <4>5. q \in Seq(U) /\ Len(q) <= ErrorThreshold
        <5>1. KeepsNewest(U, detector.errors, r.err, ErrorThreshold)
          BY <1>5, <4>3, PushKeeps DEF BoundInv
        <5>2. QED BY <4>4, <5>1 DEF KeepsNewest
      <4>6. detector'.errors = q BY <1>3, <2>5, <3>2, <4>4
      <4>7. QED BY <4>5, <4>6
    <3>3. QED BY <3>1, <3>2
  <2>15. QED BY <1>4, <2>13, <2>14
<1>9. QED BY <1>7, <1>8

(* What the loop consults does not change while it runs.                   *)
LEMMA SameRules ==
  ASSUME mcp' = mcp, optedIn' = optedIn
  PROVE  /\ ToolTaskGrant(optedIn)' = ToolTaskGrant(optedIn)
         /\ \A c : Proposal(c)' = Proposal(c) /\ Permitted(c)' = Permitted(c)
BY DEF ToolTaskGrant, Grant, Proposal, Manifest, Listed, Permitted

LEMMA ResultsAreTyped ==
  ASSUME NEW c, NEW r \in Invoke(c)
  PROVE  r.ok \in BOOLEAN
<1>1. r \in Fails(c) \union FailsAloud(c) \union Succeeds
  BY DEF Invoke, FsInvoke, ShellInvoke, GitInvoke, NetInvoke, McpInvoke
<1>2. \E ok \in BOOLEAN : \E text, err : r = Result(ok, text, err)
  BY <1>1 DEF Fails, FailsAloud, Succeeds
<1>3. QED BY <1>2 DEF Result

(* A step that observes nothing.                                           *)
LEMMA QuietKeeps ==
  ASSUME IInv, UNCHANGED <<mcp, optedIn, okHashes, detector, repeats, late, effects>>,
         \A c \in pending' : c \in Calls /\ Permitted(c),
         grant' \in [ops: {ToolTaskGrant(optedIn).ops}, hosts: {Hosts}, expired: BOOLEAN],
         turn' \in 0..MaxIters, turn <= turn', parseLeft' \in 0..ParseBudget,
         end' \in Ends, end' = "no" => end = "no" /\ parseLeft' > 0
  PROVE  IInv'
<1> USE DEF IInv
<1>1. GrantInv' BY SameRules DEF GrantInv
<1>2. BoundInv' BY DEF BoundInv
<1>3. RepeatInv' BY ToolLoopAssumption DEF RepeatInv, BoundInv
<1>4. EffectInv' BY SameRules DEF EffectInv
<1>5. QED BY <1>1, <1>2, <1>3, <1>4

(* A step that observes a call and may carry it out.                       *)
LEMMA CallKeeps ==
  ASSUME IInv, Step, NEW c \in Heard, NEW r, r.ok \in BOOLEAN, r.ok => c \in Calls,
         Observe(c, r), UNCHANGED <<mcp, optedIn, grant, parseLeft>>,
         late' \in [ran: Nat, refused: Nat],
         \/ effects' = effects
         \/ /\ effects' = effects \union {c} /\ c \in Calls
            /\ Permitted(c) /\ IsSideEffecting(Proposal(c).op)
  PROVE  IInv'
<1> USE DEF IInv
<1>1. RepeatInv' /\ okHashes' \subseteq Calls
      /\ (\E T : detector.errors \in Seq(T))' /\ Len(detector.errors') <= ErrorThreshold
  BY ObserveKeeps
<1>2. GrantInv' BY SameRules DEF GrantInv
<1>3. turn' \in 0..MaxIters
  BY ToolLoopAssumption DEF Step, Running, BoundInv
<1>4. parseLeft > 0 BY DEF BoundInv, Step, Running
<1>5. end' \in Ends BY DEF Observe, Ends
<1>6. BoundInv' BY <1>1, <1>3, <1>4, <1>5 DEF BoundInv
<1>7. pending' = {} BY DEF Step
<1>8. EffectInv' BY <1>7, SameRules DEF EffectInv
<1>9. QED BY <1>1, <1>2, <1>6, <1>8

LEMMA LoopInit == Init => IInv
<1> SUFFICES ASSUME Init PROVE IInv OBVIOUS
<1> USE DEF Init
<1>1. GrantInv BY DEF GrantInv, McpFound, ToolTaskGrant, Grant
<1>2. detector.hashes = <<>> /\ detector.errors = <<>> BY DEF Fresh
<1>3. BoundInv
  <2>1. \E T : detector.errors \in Seq(T) BY <1>2
  <2>2. Len(detector.errors) <= ErrorThreshold BY <1>2, DetectorAssumption
  <2>3. QED BY <2>1, <2>2, ToolLoopAssumption DEF BoundInv, Ends
<1>4. RepeatInv
  <2>1. repeats \in [idle: Nat, same: Nat, call: Heard]
        /\ repeats.same = 0 /\ repeats.idle = 0
    BY DEF NoRepeats, Heard
  <2>2. detector.hashes \in Seq(Heard) /\ Len(detector.hashes) = 0 BY <1>2
  <2>3. QED BY <2>1, <2>2, DetectorAssumption DEF RepeatInv
<1>5. EffectInv BY DEF EffectInv
<1>6. QED BY <1>1, <1>3, <1>4, <1>5 DEF IInv

LEMMA LateIsTyped ==
  ASSUME BoundInv, \/ late' = [late EXCEPT !.refused = 0]
                   \/ late' = [late EXCEPT !.refused = IF grant.expired THEN @ + 1 ELSE @]
                   \/ late' = [late EXCEPT !.ran = IF grant.expired THEN @ + 1 ELSE @]
  PROVE  late' \in [ran: Nat, refused: Nat]
BY DEF BoundInv

LEMMA LoopStep == IInv /\ [Next]_vars => IInv'
<1> SUFFICES ASSUME IInv, [Next]_vars PROVE IInv' OBVIOUS
<1> USE DEF IInv
<1>1. CASE NoOp
  <2>1. turn' \in 0..MaxIters /\ turn <= turn' /\ parseLeft > 0 /\ pending' = {}
    BY <1>1, ToolLoopAssumption DEF NoOp, Asked, Step, Running, BoundInv
  <2>2. parseLeft' \in 0..ParseBudget /\ (end' = "no" => parseLeft' > 0) /\ end' \in Ends
    BY <1>1, <2>1, ToolLoopAssumption DEF NoOp, BoundInv, Ends
  <2>3. QED
    BY <1>1, <2>1, <2>2, QuietKeeps DEF NoOp, Asked, Step, Running, GrantInv, Unchanged
<1>2. CASE Done
  <2>1. turn' \in 0..MaxIters /\ turn <= turn' /\ pending' = {}
    BY <1>2, ToolLoopAssumption DEF Done, Asked, Step, Running, BoundInv
  <2>2. QED BY <1>2, <2>1, QuietKeeps DEF Done, GrantInv, BoundInv, Ends, Unchanged
<1>3. CASE Expire
  <2>1. grant' \in [ops: {ToolTaskGrant(optedIn).ops}, hosts: {Hosts}, expired: BOOLEAN]
    BY <1>3 DEF Expire, GrantInv
  <2>2. turn \in 0..MaxIters /\ turn <= turn /\ parseLeft \in 0..ParseBudget
        /\ end \in Ends /\ (end = "no" => parseLeft > 0)
    BY ToolLoopAssumption DEF BoundInv
  <2>3. QED BY <1>3, <2>1, <2>2, QuietKeeps DEF Expire, EffectInv
<1>4. CASE Unknown
  <2>1. PICK r : r = Result(FALSE, NoText, <<"unknown tool op">>) OBVIOUS
  <2>2. Observe(UnknownCall, r) /\ r.ok \in BOOLEAN /\ ~r.ok BY <1>4, <2>1 DEF Unknown, Result
  <2>3. UnknownCall \in Heard BY DEF Heard
  <2>4. Step /\ UNCHANGED <<mcp, optedIn, grant, parseLeft, effects>>
    BY <1>4 DEF Unknown, Asked, Unchanged
  <2>5. late' \in [ran: Nat, refused: Nat] BY <1>4, LateIsTyped DEF Unknown
  <2>6. QED BY <2>2, <2>3, <2>4, <2>5, CallKeeps
<1>5. ASSUME NEW c \in Calls, Denied(c) PROVE IInv'
  <2>1. PICK r : r = Result(FALSE, NoText, Refusal(c, Decide(Proposal(c), grant).name)) OBVIOUS
  <2>2. Observe(c, r) /\ r.ok \in BOOLEAN /\ ~r.ok BY <1>5, <2>1 DEF Denied, Result
  <2>3. c \in Heard BY DEF Heard
  <2>4. Step /\ UNCHANGED <<mcp, optedIn, grant, parseLeft, effects>>
    BY <1>5 DEF Denied, Asked, Unchanged
  <2>5. late' \in [ran: Nat, refused: Nat] BY <1>5, LateIsTyped DEF Denied
  <2>6. QED BY <2>2, <2>3, <2>4, <2>5, CallKeeps
<1>6. ASSUME NEW c \in Calls, Allow(c) PROVE IInv'
  <2>1. PICK p : p = Proposal(c) OBVIOUS
  <2>2. p.op \in grant.ops /\ CoversPath(p.path)
        /\ ~(IsSideEffecting(p.op) /\ p.path = "risky")
    BY <1>6, <2>1, AllowedMeans DEF Allow
  <2>3. p.path = c.path /\ grant.ops = ToolTaskGrant(optedIn).ops
    BY <2>1 DEF Proposal, GrantInv
  <2>4. Permitted(c) BY <2>1, <2>2, <2>3 DEF CoversPath, Permitted
  <2>5. pending' = {c} BY <1>6 DEF Allow
  <2>6. turn \in 0..MaxIters /\ turn <= turn /\ parseLeft \in 0..ParseBudget
        /\ end \in Ends /\ (end = "no" => parseLeft > 0)
    BY ToolLoopAssumption DEF BoundInv
  <2>7. QED BY <1>6, <2>4, <2>5, <2>6, QuietKeeps DEF Allow, Unchanged, GrantInv
<1>7. ASSUME NEW c \in Calls, CarryOut(c) PROVE IInv'
  <2>1. PICK r \in Invoke(c) : Observe(c, r) BY <1>7 DEF CarryOut
  <2>2. r.ok \in BOOLEAN BY ResultsAreTyped
  <2>3. c \in Heard BY DEF Heard
  <2>4. Permitted(c) BY <1>7 DEF CarryOut, EffectInv
  <2>5. effects' = IF IsSideEffecting(Proposal(c).op) THEN effects \union {c} ELSE effects
    BY <1>7 DEF CarryOut
  <2>6. Step /\ UNCHANGED <<mcp, optedIn, grant, parseLeft>>
    BY <1>7 DEF CarryOut, Unchanged
  <2>7. late' \in [ran: Nat, refused: Nat] BY <1>7, LateIsTyped DEF CarryOut
  <2>8. CASE IsSideEffecting(Proposal(c).op)
    <3>1. effects' = effects \union {c} BY <2>5, <2>8
    <3>2. QED BY <2>1, <2>2, <2>3, <2>4, <2>6, <2>7, <2>8, <3>1, CallKeeps
  <2>9. CASE ~IsSideEffecting(Proposal(c).op)
    <3>1. effects' = effects BY <2>5, <2>9
    <3>2. QED BY <2>1, <2>2, <2>3, <2>6, <2>7, <3>1, CallKeeps
  <2>10. QED BY <2>8, <2>9
<1>8. CASE UNCHANGED vars
  <2>1. turn \in 0..MaxIters /\ turn <= turn /\ parseLeft \in 0..ParseBudget
        /\ end \in Ends /\ (end = "no" => parseLeft > 0)
    BY ToolLoopAssumption DEF BoundInv
  <2>2. QED BY <1>8, <2>1, QuietKeeps DEF vars, GrantInv, EffectInv
<1>9. QED BY <1>1, <1>2, <1>3, <1>4, <1>5, <1>6, <1>7, <1>8 DEF Next

LEMMA LoopInvariance == Spec => []IInv
BY LoopInit, LoopStep, PTL DEF Spec

(* Every side effect of a tool run was opted into and needed no approval,  *)
(* whatever calls the model makes and whatever the caller configured.      *)
THEOREM ToolsStayWithinGrant == Spec => []LoopInv
<1>1. IInv => LoopInv
  <2> SUFFICES ASSUME IInv PROVE LoopInv OBVIOUS
  <2> USE DEF IInv
  <2>1. TypeOK
    <3>1. grant.ops \subseteq UNION {Registry[t] : t \in Tokens} /\ grant.expired \in BOOLEAN
      BY GrantedIsRegistered DEF GrantInv
    <3>2. repeats.idle \in 0..MaxIters /\ repeats.same \in 0..MaxIters
      BY ToolLoopAssumption DEF RepeatInv, BoundInv
    <3>3. Len(detector.hashes) <= RepeatWindow /\ Len(detector.errors) <= ErrorThreshold
      BY DEF RepeatInv, BoundInv
    <3>4. mcp \in McpFound /\ optedIn \in OptIns BY DEF GrantInv
    <3>5. turn \in 0..MaxIters /\ parseLeft \in 0..ParseBudget
          /\ okHashes \subseteq Calls /\ effects \subseteq Calls /\ pending \subseteq Calls
          /\ late \in [ran: Nat, refused: Nat]
      BY DEF BoundInv, EffectInv
    <3>6. end \in {"no", "loop_risk", "cap", "unparseable", "done"} BY DEF BoundInv, Ends
    <3>7. QED BY <3>1, <3>2, <3>3, <3>4, <3>5, <3>6 DEF TypeOK
  <2>2. EffectsAreOptedIn
    BY GrantedMeans DEF EffectsAreOptedIn, EffectInv, Permitted
  <2>3. NoUnapprovedEffect BY DEF NoUnapprovedEffect, EffectInv, Permitted
  <2>4. QED BY <2>1, <2>2, <2>3 DEF LoopInv
<1>2. QED BY <1>1, LoopInvariance, PTL

(* No call is repeated to no avail as often as the threshold, for every    *)
(* window and threshold.                                                   *)
THEOREM RepetitionIsCut == Spec => []RepeatsAreCut
<1>1. IInv => RepeatsAreCut BY DEF IInv, RepeatInv, RepeatsAreCut
<1>2. QED BY <1>1, LoopInvariance, PTL

(* What the detector remembers happened since the last progress.           *)
HistoryInv ==
  /\ repeats.idle \in Nat /\ detector.thrash \in Nat
  /\ Len(detector.hashes) <= repeats.idle /\ Len(detector.errors) <= repeats.idle
  /\ detector.thrash <= repeats.idle
  /\ RiskIsNotProgress

(* A flag takes as many entries as its threshold.                          *)
LEMMA FlagsNeedHistory ==
  ASSUME NEW T, NEW d, d.hashes \in Seq(T), d.thrash \in Nat, Flags(d) # {}
  PROVE  \/ Len(d.hashes) >= RepeatThreshold \/ Len(d.errors) >= ErrorThreshold
         \/ d.thrash >= ThrashThreshold - 1 /\ d.thrash >= 1
<1> DEFINE S == {i \in DOMAIN d.hashes : d.hashes[i] = Last(d.hashes)}
<1>1. Len(d.hashes) \in Nat /\ DOMAIN d.hashes = 1..Len(d.hashes)
      /\ RepeatThreshold \in Nat /\ ThrashThreshold \in Nat
  BY DetectorAssumption
<1>2. IsFiniteSet(1..Len(d.hashes)) /\ Cardinality(1..Len(d.hashes)) = Len(d.hashes)
      /\ S \subseteq 1..Len(d.hashes)
  <2>1. IsFiniteSet(1..Len(d.hashes))
        /\ Cardinality(1..Len(d.hashes)) = IF 1 > Len(d.hashes) THEN 0 ELSE Len(d.hashes) - 1 + 1
    <3>1. PICK m \in Nat : m = Len(d.hashes) BY <1>1
    <3>2. 1 \in Int /\ m \in Int OBVIOUS
    <3> HIDE DEF S
    <3>3. IsFiniteSet(1..m) /\ Cardinality(1..m) = IF 1 > m THEN 0 ELSE m - 1 + 1
      BY ONLY <3>2, FS_Interval, Zenon
    <3>4. QED BY <3>1, <3>3
  <2>2. S \subseteq 1..Len(d.hashes) BY <1>1
  <2>3. QED BY <1>1, <2>1, <2>2
<1>3. Cardinality(S) \in Nat /\ Cardinality(S) <= Len(d.hashes)
  BY <1>2, FS_Subset, FS_CardinalityType
<1>4. Count(d.hashes, Last(d.hashes)) = Cardinality(S) BY DEF Count
<1> HIDE DEF S
<1>5. CASE "repeated_action" \in Flags(d)
  <2>1. Cardinality(S) >= RepeatThreshold BY <1>4, <1>5 DEF Flags
  <2>2. QED BY <1>1, <1>3, <2>1
<1>6. CASE "repeated_error" \in Flags(d) BY <1>6 DEF Flags
<1>7. CASE "diff_thrash" \in Flags(d)
  <2>1. d.thrash >= (IF ThrashThreshold <= 2 THEN 1 ELSE ThrashThreshold - 1)
    BY <1>7 DEF Flags
  <2>2. CASE ThrashThreshold <= 2 BY <1>1, <2>1, <2>2
  <2>3. CASE ~(ThrashThreshold <= 2) BY <1>1, <2>1, <2>3
  <2>4. QED BY <2>2, <2>3
<1>8. QED BY <1>5, <1>6, <1>7 DEF Flags

(* One observation more, or the history begins anew.                       *)
LEMMA ObserveRemembers ==
  ASSUME IInv, HistoryInv, Step, NEW c \in Heard, NEW r,
         r.ok \in BOOLEAN, r.ok => c \in Calls, Observe(c, r)
  PROVE  HistoryInv'
<1> USE DEF IInv
<1>1. PICK progress \in BOOLEAN : progress = (r.ok /\ c \notin okHashes) OBVIOUS
<1>2. PICK d : d = Recorded(detector, c, r.err, r.text, progress) OBVIOUS
<1>3. /\ detector' = d
      /\ repeats' = IF progress THEN NoRepeats
                    ELSE [idle |-> repeats.idle + 1, call |-> c,
                          same |-> IF repeats.call = c THEN repeats.same + 1 ELSE 1]
      /\ end' = "loop_risk" => ~progress /\ Flags(d) # {}
  BY <1>1, <1>2 DEF Observe
<1>4. d.hashes \in Seq(Heard) BY <1>3, ObserveKeeps DEF RepeatInv
<1>5. CASE progress
  <2>1. /\ d.hashes = <<>> /\ d.errors = <<>> /\ d.thrash = 0 BY <1>2, <1>5 DEF Recorded, Cleared
  <2>2. repeats'.idle = 0 BY <1>3, <1>5 DEF NoRepeats
  <2>3. end' # "loop_risk" BY <1>3, <1>5
  <2>4. QED BY <1>3, <2>1, <2>2, <2>3 DEF HistoryInv, RiskIsNotProgress
<1>6. CASE ~progress
  <2>1. repeats'.idle = repeats.idle + 1 /\ repeats.idle \in Nat
    BY <1>3, <1>6 DEF HistoryInv
  <2>2. /\ d.hashes = Push(detector.hashes, c, RepeatWindow)
        /\ d.errors = IF r.err = NoError THEN <<>> ELSE Push(detector.errors, r.err, ErrorThreshold)
        /\ d.thrash = IF detector.last = "unset" \/ r.text = NoText THEN detector.thrash
                      ELSE IF r.text = detector.last THEN detector.thrash + 1 ELSE 0
    BY <1>2, <1>6 DEF Recorded
  <2>3. RepeatWindow \in Nat \ {0} /\ ErrorThreshold \in Nat \ {0} BY DetectorAssumption
  <2>4. ASSUME NEW T, NEW h \in Seq(T), NEW x \in T, NEW n \in Nat \ {0}, Len(h) <= n,
               Len(h) <= repeats.idle
        PROVE  Len(Push(h, x, n)) <= repeats.idle + 1
    <3>1. PICK p : p = Push(h, x, n) OBVIOUS
    <3>2. PICK shift : shift = IF Len(h) < n THEN 0 ELSE 1 OBVIOUS
    <3>3. Len(p) = Len(h) + 1 - shift
      <4>1. KeepsNewest(T, h, x, n) BY <2>4, PushKeeps
      <4>2. QED BY <3>1, <3>2, <4>1 DEF KeepsNewest
    <3>4. QED BY <2>1, <2>4, <3>1, <3>2, <3>3
  <2>5. Len(d.hashes) <= repeats.idle + 1
    BY <2>2, <2>3, <2>4 DEF HistoryInv, RepeatInv
  <2>6. Len(d.errors) <= repeats.idle + 1
    <3>1. CASE r.err = NoError BY <2>1, <2>2, <3>1
    <3>2. CASE r.err # NoError
      <4>1. PICK T : detector.errors \in Seq(T) BY DEF BoundInv
      <4>2. PICK U : U = T \union {r.err} OBVIOUS
      <4>3. detector.errors \in Seq(U) /\ r.err \in U BY <4>1, <4>2
      <4>4. QED BY <2>2, <2>3, <2>4, <3>2, <4>3 DEF HistoryInv, BoundInv
    <3>3. QED BY <3>1, <3>2
  <2>7. d.thrash \in Nat /\ d.thrash <= repeats.idle + 1
    BY <2>1, <2>2 DEF HistoryInv
  <2>8. RiskIsNotProgress'
    <3>1. SUFFICES ASSUME end' = "loop_risk" PROVE RiskIsNotProgress' BY DEF RiskIsNotProgress
    <3>2. \/ Len(d.hashes) >= RepeatThreshold \/ Len(d.errors) >= ErrorThreshold
          \/ d.thrash >= ThrashThreshold - 1 /\ d.thrash >= 1
      BY <1>3, <1>4, <2>7, <3>1, FlagsNeedHistory
    <3>3. /\ RepeatThreshold \in Nat /\ ErrorThreshold \in Nat /\ ThrashThreshold \in Nat
          /\ repeats.idle + 1 \in Nat /\ Len(d.hashes) \in Nat
      BY <1>4, <2>1, DetectorAssumption
    <3>4. Len(d.errors) \in Nat
      BY <1>3, ObserveKeeps
    <3>5. \/ repeats.idle + 1 >= RepeatThreshold \/ repeats.idle + 1 >= ErrorThreshold
          \/ repeats.idle + 1 >= ThrashThreshold - 1 /\ repeats.idle + 1 >= 1
      BY <2>5, <2>6, <2>7, <3>2, <3>3, <3>4
    <3>6. QED BY <2>1, <3>5 DEF RiskIsNotProgress
  <2>9. QED BY <1>3, <2>1, <2>5, <2>6, <2>7, <2>8 DEF HistoryInv
<1>7. QED BY <1>5, <1>6

LEMMA HistoryStep == IInv /\ HistoryInv /\ [Next]_vars => HistoryInv'
<1> SUFFICES ASSUME IInv, HistoryInv, [Next]_vars PROVE HistoryInv' OBVIOUS
<1>1. CASE NoOp \/ Done \/ Expire \/ (\E c \in Calls : Allow(c)) \/ UNCHANGED vars
  <2>1. UNCHANGED <<detector, repeats>> /\ (end' = end \/ end' # "loop_risk")
    BY <1>1 DEF NoOp, Done, Expire, Allow, vars
  <2>2. QED BY <2>1 DEF HistoryInv, RiskIsNotProgress
<1>2. CASE Unknown
  <2>1. PICK r : r = Result(FALSE, NoText, <<"unknown tool op">>) OBVIOUS
  <2>2. Observe(UnknownCall, r) /\ r.ok \in BOOLEAN /\ ~r.ok BY <1>2, <2>1 DEF Unknown, Result
  <2>3. UnknownCall \in Heard /\ Step BY <1>2 DEF Heard, Unknown, Asked
  <2>4. QED BY <2>2, <2>3, ObserveRemembers
<1>3. ASSUME NEW c \in Calls, Denied(c) PROVE HistoryInv'
  <2>1. PICK r : r = Result(FALSE, NoText, Refusal(c, Decide(Proposal(c), grant).name)) OBVIOUS
  <2>2. Observe(c, r) /\ r.ok \in BOOLEAN /\ ~r.ok BY <1>3, <2>1 DEF Denied, Result
  <2>3. c \in Heard /\ Step BY <1>3 DEF Heard, Denied, Asked
  <2>4. QED BY <2>2, <2>3, ObserveRemembers
<1>4. ASSUME NEW c \in Calls, CarryOut(c) PROVE HistoryInv'
  <2>1. PICK r \in Invoke(c) : Observe(c, r) BY <1>4 DEF CarryOut
  <2>2. r.ok \in BOOLEAN BY ResultsAreTyped
  <2>3. c \in Heard /\ Step BY <1>4 DEF Heard, CarryOut
  <2>4. QED BY <2>1, <2>2, <2>3, ObserveRemembers
<1>5. QED BY <1>1, <1>2, <1>3, <1>4 DEF Next

(* A run ends as a loop only after as many calls without a new success as  *)
(* one of the thresholds, whatever was repeated before that.               *)
THEOREM ProgressIsNoRisk == Spec => []RiskIsNotProgress
<1>1. Init => HistoryInv
  <2> SUFFICES ASSUME Init PROVE HistoryInv OBVIOUS
  <2>1. /\ detector.hashes = <<>> /\ detector.errors = <<>> /\ detector.thrash = 0
        /\ repeats.idle = 0 /\ end = "no"
    BY DEF Init, Fresh, NoRepeats
  <2>2. QED BY <2>1 DEF HistoryInv, RiskIsNotProgress
<1>2. HistoryInv => RiskIsNotProgress BY DEF HistoryInv
<1>3. QED BY <1>1, <1>2, HistoryStep, LoopInvariance, PTL DEF Spec

-----------------------------------------------------------------------------
(* The age of the grant.                                                   *)

TooOld == <<"capability-expired">>

\* refusals for age are the last errors the detector holds
LateInv ==
  /\ ~grant.expired => late.ran = 0 /\ late.refused = 0
  /\ pending # {} => late.ran = 0 /\ late.refused = 0
  /\ late.ran <= 1
  /\ end = "no" =>
       /\ late.refused < ErrorThreshold /\ late.refused <= Len(detector.errors)
       /\ \A i \in 1..Len(detector.errors) :
            i > Len(detector.errors) - late.refused => detector.errors[i] = TooOld

(* As many equal errors as the threshold count as a repeated error.        *)
LEMMA EqualErrorsAreFlagged ==
  ASSUME NEW T, NEW d, d.errors \in Seq(T), NEW x,
         Len(d.errors) >= ErrorThreshold, \A i \in 1..Len(d.errors) : d.errors[i] = x
  PROVE  Flags(d) # {}
<1>1. Len(d.errors) >= 1 /\ Len(d.errors) \in Nat BY DetectorAssumption
<1>2. Range(d.errors) = {x}
  <2>1. DOMAIN d.errors = 1..Len(d.errors) /\ 1 \in 1..Len(d.errors) BY <1>1
  <2>2. QED BY <2>1 DEF Range
<1>3. Cardinality(Range(d.errors)) = 1 BY <1>2, FS_Singleton
<1>4. "repeated_error" \in Flags(d) BY <1>3 DEF Flags
<1>5. QED BY <1>4

(* A refusal for age adds one such error, and the last allowed ends the run.*)
LEMMA RefusalCounts ==
  ASSUME IInv, LateInv, NEW c \in Calls, Denied(c), grant.expired
  PROVE  LateInv'
<1> USE DEF IInv
<1>1. Refusal(c, Decide(Proposal(c), grant).name) = TooOld
  BY ExpiredMeans DEF Refusal, TooOld
<1>2. PICK r : r = Result(FALSE, NoText, TooOld) OBVIOUS
<1>3. Observe(c, r) /\ r.ok = FALSE /\ r.err = TooOld /\ Step /\ c \in Heard
  BY <1>1, <1>2 DEF Denied, Result, Asked, Heard
<1>4. PICK d : d = Recorded(detector, c, r.err, r.text, FALSE) OBVIOUS
<1>5. detector' = d /\ (end' = "no" => Flags(d) = {}) BY <1>3, <1>4 DEF Observe
<1>6. late' = [late EXCEPT !.refused = late.refused + 1] /\ grant' = grant
      /\ pending = {} /\ pending' = {} /\ end = "no"
  BY DEF Denied, Asked, Step, Running, Unchanged
<1>7. late'.ran = late.ran /\ late'.refused = late.refused + 1 /\ late.refused \in Nat
  BY <1>6 DEF BoundInv
<1>8. ErrorThreshold \in Nat \ {0} BY DetectorAssumption
<1>9. PICK h, p : h = detector.errors /\ p = Push(h, TooOld, ErrorThreshold) OBVIOUS
<1>10. PICK shift : shift = IF Len(h) < ErrorThreshold THEN 0 ELSE 1 OBVIOUS
<1>11. PICK T : h \in Seq(T) /\ TooOld \in T
  <2>1. PICK S : detector.errors \in Seq(S) BY DEF BoundInv
  <2>2. PICK U : U = S \union {TooOld} OBVIOUS
  <2>3. h \in Seq(U) /\ TooOld \in U BY <1>9, <2>1, <2>2
  <2>4. QED BY <2>3
<1>12. d.errors = p
  <2>1. r.err # NoError BY <1>3 DEF TooOld, NoError
  <2>2. d.errors = Push(detector.errors, r.err, ErrorThreshold) BY <1>4, <2>1 DEF Recorded
  <2>3. QED BY <1>3, <1>9, <2>2
<1>13. Len(h) <= ErrorThreshold /\ Len(h) \in Nat BY <1>9, <1>11 DEF BoundInv
<1>14. /\ p \in Seq(T) /\ Len(p) <= ErrorThreshold /\ Len(p) = Len(h) + 1 - shift
       /\ p[Len(p)] = TooOld /\ \A i \in 1..(Len(p) - 1) : p[i] = h[i + shift]
  <2>1. KeepsNewest(T, h, TooOld, ErrorThreshold) BY <1>8, <1>11, <1>13, PushKeeps
  <2>2. QED BY <1>9, <1>10, <2>1 DEF KeepsNewest
<1>15. /\ late.refused < ErrorThreshold /\ late.refused <= Len(h)
       /\ \A i \in 1..Len(h) : i > Len(h) - late.refused => h[i] = TooOld
  BY <1>6, <1>9 DEF LateInv
<1>16. shift \in {0, 1} /\ (shift = 1 => Len(h) = ErrorThreshold) /\ Len(p) \in Nat
  BY <1>8, <1>10, <1>13, <1>14
<1>17. late.refused + 1 <= Len(p) BY <1>7, <1>8, <1>13, <1>14, <1>15, <1>16
<1>18. \A i \in 1..Len(p) : i > Len(p) - (late.refused + 1) => p[i] = TooOld
  <2>1. SUFFICES ASSUME NEW i \in 1..Len(p), i > Len(p) - (late.refused + 1)
                 PROVE p[i] = TooOld
    OBVIOUS
  <2>2. CASE i = Len(p) BY <1>14, <2>2
  <2>3. CASE i # Len(p)
    <3>1. i \in 1..(Len(p) - 1) BY <1>16, <2>1, <2>3
    <3>2. i + shift \in 1..Len(h) /\ i + shift > Len(h) - late.refused
      <4>1. i \in Nat /\ 1 <= i /\ i <= Len(p) - 1 BY <1>16, <3>1
      <4>2. QED BY <1>7, <1>13, <1>14, <1>16, <2>1, <4>1
    <3>3. QED BY <1>14, <1>15, <3>1, <3>2
  <2>4. QED BY <2>2, <2>3
<1>19. end' = "no" => late.refused + 1 < ErrorThreshold
  <2>1. SUFFICES ASSUME late.refused + 1 >= ErrorThreshold PROVE Flags(d) # {}
    BY <1>5, <1>7, <1>8
  <2>2. Len(p) = ErrorThreshold /\ late.refused + 1 = ErrorThreshold
    BY <1>7, <1>8, <1>14, <1>15, <1>16, <1>17, <2>1
  <2>3. \A i \in 1..Len(d.errors) : d.errors[i] = TooOld BY <1>8, <1>12, <1>18, <2>2
  <2>4. QED BY <1>8, <1>12, <1>14, <2>2, <2>3, EqualErrorsAreFlagged
<1>20. detector'.errors = p BY <1>5, <1>12
<1>21. QED BY <1>6, <1>7, <1>17, <1>18, <1>19, <1>20 DEF LateInv

LEMMA LateStep == IInv /\ LateInv /\ [Next]_vars => LateInv'
<1> SUFFICES ASSUME IInv, LateInv, [Next]_vars PROVE LateInv' OBVIOUS
<1> USE DEF IInv
<1>1. late.ran \in Nat /\ late.refused \in Nat BY DEF BoundInv
<1>2. CASE NoOp \/ Done \/ Expire \/ UNCHANGED vars
  <2>1. UNCHANGED <<detector, late>> /\ (grant.expired => grant'.expired)
        /\ (pending' = {} \/ pending' = pending) /\ (end' = "no" => end = "no")
    BY <1>2 DEF NoOp, Done, Expire, Asked, Step, Running, Unchanged, vars, GrantInv
  <2>2. QED BY <2>1 DEF LateInv
<1>3. ASSUME late'.refused = 0, late'.ran \in 0..1, ~grant'.expired => late'.ran = 0,
             pending' = {}, Len(detector'.errors) \in Nat
      PROVE  LateInv'
  <2>1. 0 < ErrorThreshold BY DetectorAssumption
  <2>2. QED BY <1>3, <2>1 DEF LateInv
<1>4. CASE Unknown
  <2>1. PICK r : r = Result(FALSE, NoText, <<"unknown tool op">>) OBVIOUS
  <2>2. Observe(UnknownCall, r) /\ r.ok \in BOOLEAN /\ ~r.ok BY <1>4, <2>1 DEF Unknown, Result
  <2>3. UnknownCall \in Heard /\ Step BY <1>4 DEF Heard, Unknown, Asked
  <2>4. Len(detector'.errors) \in Nat BY <2>2, <2>3, ObserveKeeps
  <2>5. late'.refused = 0 /\ late'.ran = late.ran BY <1>4 DEF Unknown, BoundInv
  <2>6. grant' = grant /\ pending' = {} BY <1>4 DEF Unknown, Asked, Step, Unchanged
  <2>7. late.ran \in 0..1 BY <1>1 DEF LateInv
  <2>8. QED BY <1>3, <2>4, <2>5, <2>6, <2>7 DEF LateInv
<1>5. ASSUME NEW c \in Calls, Denied(c) PROVE LateInv'
  <2>1. CASE grant.expired BY <1>5, <2>1, RefusalCounts
  <2>2. CASE ~grant.expired
    <3>1. PICK r : r = Result(FALSE, NoText, Refusal(c, Decide(Proposal(c), grant).name))
      OBVIOUS
    <3>2. Observe(c, r) /\ r.ok \in BOOLEAN /\ ~r.ok BY <1>5, <3>1 DEF Denied, Result
    <3>3. c \in Heard /\ Step BY <1>5 DEF Heard, Denied, Asked
    <3>4. Len(detector'.errors) \in Nat BY <3>2, <3>3, ObserveKeeps
    <3>5. late.ran = 0 /\ late.refused = 0 BY <2>2 DEF LateInv
    <3>6. late'.ran = 0 /\ late'.refused = 0 BY <1>5, <2>2, <3>5 DEF Denied, BoundInv
    <3>7. grant' = grant /\ pending' = {} BY <1>5 DEF Denied, Asked, Step, Unchanged
    <3>8. QED BY <1>3, <3>4, <3>6, <3>7
  <2>3. QED BY <2>1, <2>2
<1>6. ASSUME NEW c \in Calls, Allow(c) PROVE LateInv'
  <2>1. PICK p : p = Proposal(c) OBVIOUS
  <2>2. ~grant.expired BY <1>6, <2>1, AllowedMeans DEF Allow
  <2>3. UNCHANGED <<detector, late, grant, end>> BY <1>6 DEF Allow, Unchanged
  <2>4. QED BY <2>2, <2>3 DEF LateInv
<1>7. ASSUME NEW c \in Calls, CarryOut(c) PROVE LateInv'
  <2>1. PICK r \in Invoke(c) : Observe(c, r) BY <1>7 DEF CarryOut
  <2>2. r.ok \in BOOLEAN BY ResultsAreTyped
  <2>3. c \in Heard /\ Step BY <1>7 DEF Heard, CarryOut
  <2>4. Len(detector'.errors) \in Nat BY <2>1, <2>2, <2>3, ObserveKeeps
  <2>5. late.ran = 0 /\ late.refused = 0 BY <1>7 DEF CarryOut, LateInv
  <2>6. late'.refused = 0 /\ late'.ran = IF grant.expired THEN 1 ELSE 0
    BY <1>7, <2>5 DEF CarryOut, BoundInv
  <2>7. grant' = grant /\ pending' = {} BY <1>7 DEF CarryOut, Step, Unchanged
  <2>8. QED BY <1>3, <2>4, <2>6, <2>7
<1>8. QED BY <1>2, <1>4, <1>5, <1>6, <1>7 DEF Next

(* When the grant expires in the middle of a run, only a call that was let *)
(* through before is still carried out, and the refusals that follow end   *)
(* the run, whatever is asked for and for every threshold.                 *)
THEOREM ExpiryIsFinal == Spec => []ExpiryEndsRun
<1>1. Init => LateInv
  <2> SUFFICES ASSUME Init PROVE LateInv OBVIOUS
  <2>1. detector.errors = <<>> /\ late.ran = 0 /\ late.refused = 0 BY DEF Init, Fresh
  <2>2. 0 < ErrorThreshold BY DetectorAssumption
  <2>3. QED BY <2>1, <2>2 DEF LateInv
<1>2. LateInv => ExpiryEndsRun BY DEF LateInv, ExpiryEndsRun
<1>3. QED BY <1>1, <1>2, LateStep, LoopInvariance, PTL DEF Spec
=============================================================================
