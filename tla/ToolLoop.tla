------------------------------ MODULE ToolLoop ------------------------------
(***************************************************************************)
(* The bounded tool-use loop of an `ops` task.  The orchestrator issues one*)
(* grant for the whole run; the model then calls one operation per turn,   *)
(* the dispatcher asks the policy engine about each, adapters carry out    *)
(* what is allowed, and the loop detector watches for repetition.          *)
(***************************************************************************)
EXTENDS Policy, LoopDetector

CONSTANTS
  MaxIters,     \* max_iters (6)
  ParseBudget,  \* replies that name no operation (2)
  Calls,        \* the calls the model may make: [op, path, host]
  OptIns,       \* tool_task_capabilities the caller may have configured
  Hosts         \* tool_task_network

ASSUME ToolLoopAssumption == MaxIters \in Nat \ {0} /\ ParseBudget \in Nat \ {0}

VARIABLES
  mcp,       \* an MCP server: "up" when the system was put together, or "absent"
  optedIn,   \* what the caller configured
  grant,     \* the capability grant of the run
  turn,      \* iterations so far
  parseLeft, okHashes, detector,
  pending,   \* the call that was allowed and whose adapter has not answered, if any
  repeats,   \* history: calls since the last progress, and how often in a row the last
  late,      \* history: calls carried out, and refused in a row, under an expired grant
  effects,   \* history: the side-effecting calls an adapter carried out
  end        \* "no" while the loop runs, else how it ended
vars == <<mcp, optedIn, grant, turn, parseLeft, okHashes, detector, pending, repeats, late,
          effects, end>>

(***************************************************************************)
(* The manifests of the adapters: which token an operation needs and       *)
(* whether it is declared side-effecting.  An MCP server joins the registry*)
(* only if it answers while the system is put together; its adapter then   *)
(* goes on listing what it found.                                          *)
(***************************************************************************)
Op(cap, side) == [cap |-> cap, side |-> side]
FsOps == [fs_read |-> Op("fs_read", FALSE), fs_list |-> Op("fs_read", FALSE),
          fs_write |-> Op("fs_write", TRUE)]
ShellOps == [shell_exec |-> Op("shell_run", TRUE)]
GitOps == [git_status |-> Op("vcs_read", FALSE), git_commit |-> Op("vcs.commit", TRUE)]
NetOps == [net_fetch |-> Op("net_fetch", TRUE)]
McpOps == [mcp_tool |-> Op("net_fetch", TRUE)]
Listed ==
  DOMAIN FsOps \union DOMAIN ShellOps \union DOMAIN GitOps \union DOMAIN NetOps
    \union IF mcp = "up" THEN DOMAIN McpOps ELSE {}
Manifest ==
  [op \in Listed |->
     CASE op \in DOMAIN FsOps -> FsOps[op] [] op \in DOMAIN ShellOps -> ShellOps[op]
       [] op \in DOMAIN GitOps -> GitOps[op] [] op \in DOMAIN NetOps -> NetOps[op]
       [] OTHER -> McpOps[op]]

\* every operation of the registry is granted
GrantEverything(opts) == Grant(opts \union {Manifest[op].cap : op \in Listed}, Hosts)
ToolTaskGrant(opts) ==
  Grant(opts \union {Manifest[op].cap : op \in {o \in Listed : ~Manifest[o].side}}, Hosts)

\* available(): the first contact decides, an error is remembered and not retried
McpFound == {"up", "absent"}

UnknownCall == [op |-> "unknown", path |-> "none", host |-> "none"]
NoRepeats == [idle |-> 0, same |-> 0, call |-> UnknownCall]

Init ==
  /\ mcp \in McpFound /\ optedIn \in OptIns
  /\ grant = ToolTaskGrant(optedIn)
  /\ turn = 0 /\ parseLeft = ParseBudget /\ okHashes = {} /\ detector = Fresh
  /\ pending = {} /\ repeats = NoRepeats /\ late = [ran |-> 0, refused |-> 0]
  /\ effects = {} /\ end = "no"

Running == end = "no" /\ turn < MaxIters

(***************************************************************************)
(* What a dispatched call may give: an ok flag, an output excerpt and an   *)
(* error signature.                                                        *)
(***************************************************************************)
Result(ok, text, err) == [ok |-> ok, text |-> text, err |-> err]
Proposal(c) ==
  [op |-> PrimaryOperation(Manifest[c.op].cap), path |-> c.path, host |-> c.host,
   trust |-> "workspace"]

Succeeds == {Result(TRUE, t, NoError) : t \in {"a", "b"}}
Fails(c) == {Result(FALSE, NoText, <<c.op, "failed">>)}
\* a command may say something and fail, and so may a tool of a server
FailsAloud(c) == {Result(FALSE, t, <<c.op, "failed">>) : t \in {"a", "b"}}

FsInvoke(c) == Fails(c) \union IF CoversPath(c.path) THEN Succeeds ELSE {}
ShellInvoke(c) == Fails(c) \union FailsAloud(c) \union Succeeds
\* branches and commits ask write_allowed(), which nothing wires
GitInvoke(c) == Fails(c) \union IF c.op = "git_commit" THEN {} ELSE Succeeds
\* the broker has an allowlist of its own, and the transport may fail
NetInvoke(c) == Fails(c) \union Succeeds
\* the server may be gone by now
McpInvoke(c) == Fails(c) \union FailsAloud(c) \union Succeeds

Invoke(c) ==
  CASE c.op \in DOMAIN FsOps -> FsInvoke(c) [] c.op \in DOMAIN ShellOps -> ShellInvoke(c)
    [] c.op \in DOMAIN GitOps -> GitInvoke(c) [] c.op \in DOMAIN NetOps -> NetInvoke(c)
    [] OTHER -> McpInvoke(c)

(* record(): a call that succeeds for the first time is progress.          *)
Observe(c, r) ==
  LET progress == r.ok /\ c \notin okHashes
      d == Recorded(detector, c, r.err, r.text, progress) IN
  /\ detector' = d
  /\ okHashes' = IF progress THEN okHashes \union {c} ELSE okHashes
  /\ repeats' = IF progress THEN NoRepeats
                ELSE [idle |-> repeats.idle + 1, call |-> c,
                      same |-> IF repeats.call = c THEN repeats.same + 1 ELSE 1]
  /\ end' = IF ~progress /\ Flags(d) # {} THEN "loop_risk"
            ELSE IF turn' = MaxIters THEN "cap" ELSE "no"

Unchanged == UNCHANGED <<mcp, optedIn, grant>>
Step == Running /\ turn' = turn + 1 /\ pending' = {}
Asked == Step /\ pending = {}

(* A reply that is not JSON, or names no operation.                        *)
NoOp ==
  /\ Asked
  /\ parseLeft' = parseLeft - 1
  /\ end' = IF parseLeft' = 0 THEN "unparseable" ELSE IF turn' = MaxIters THEN "cap" ELSE "no"
  /\ UNCHANGED <<okHashes, detector, repeats, late, effects>> /\ Unchanged

Done ==
  /\ Asked
  /\ end' = "done"
  /\ UNCHANGED <<parseLeft, okHashes, detector, repeats, late, effects>> /\ Unchanged

(* An operation no adapter lists fails without a policy decision.          *)
Unknown ==
  /\ Asked
  /\ Observe(UnknownCall, Result(FALSE, NoText, <<"unknown tool op">>))
  /\ late' = [late EXCEPT !.refused = 0]
  /\ UNCHANGED <<parseLeft, effects>> /\ Unchanged

(* What a refusal says, and so its error signature: the age of a grant is  *)
(* the same story whatever was asked for.                                  *)
Refusal(c, rule) ==
  CASE rule = "capability-expired" -> <<rule>>
    [] rule = "operation-not-granted" -> <<rule, Proposal(c).op>>
    [] rule = "egress-not-allowed" -> <<rule, c.host>>
    [] OTHER -> <<rule, c.path>>
Denied(c) ==
  /\ Asked /\ c.op \in Listed
  /\ LET decision == Decide(Proposal(c), grant) IN
     /\ decision.decision # "ALLOW"
     /\ Observe(c, Result(FALSE, NoText, Refusal(c, decision.name)))
  /\ late' = [late EXCEPT !.refused = IF grant.expired THEN @ + 1 ELSE @]
  /\ UNCHANGED <<parseLeft, effects>> /\ Unchanged

(* The decision and the deed are two moments: an adapter may take minutes. *)
Allow(c) ==
  /\ Running /\ pending = {} /\ c.op \in Listed
  /\ Decide(Proposal(c), grant).decision = "ALLOW"
  /\ pending' = {c}
  /\ UNCHANGED <<turn, parseLeft, okHashes, detector, repeats, late, effects, end>> /\ Unchanged
CarryOut(c) ==
  /\ Step /\ c \in pending
  /\ \E r \in Invoke(c) : Observe(c, r)
  /\ effects' = IF IsSideEffecting(Proposal(c).op) THEN effects \union {c} ELSE effects
  /\ late' = [late EXCEPT !.ran = IF grant.expired THEN @ + 1 ELSE @]
  /\ UNCHANGED parseLeft /\ Unchanged

(* The grant is issued without a life of its own and has an hour: a slow   *)
(* model, or a slow command, can outlive it.                               *)
Expire ==
  /\ Running /\ ~grant.expired
  /\ grant' = [grant EXCEPT !.expired = TRUE]
  /\ UNCHANGED <<mcp, optedIn, turn, parseLeft, okHashes, detector, pending, repeats, late,
                 effects, end>>

Next == NoOp \/ Done \/ Unknown \/ Expire \/ \E c \in Calls : Denied(c) \/ Allow(c) \/ CarryOut(c)
Spec == Init /\ [][Next]_vars

(***************************************************************************)
(* Properties.                                                             *)
(***************************************************************************)
TypeOK ==
  /\ mcp \in McpFound /\ optedIn \in OptIns
  /\ grant.ops \subseteq UNION {Registry[t] : t \in Tokens} /\ grant.expired \in BOOLEAN
  /\ turn \in 0..MaxIters /\ parseLeft \in 0..ParseBudget
  /\ okHashes \subseteq Calls /\ effects \subseteq Calls
  /\ pending \subseteq Calls /\ late \in [ran: Nat, refused: Nat]
  /\ repeats.idle \in 0..MaxIters /\ repeats.same \in 0..MaxIters
  /\ Len(detector.hashes) <= RepeatWindow /\ Len(detector.errors) <= ErrorThreshold
  /\ end \in {"no", "loop_risk", "cap", "unparseable", "done"}

(* "A side-effecting op the caller did not opt into is simply never        *)
(* authorised" (_tool_task_grant), computed from what adapters list.       *)
EffectsAreOptedIn == \A c \in effects : \E t \in optedIn : Proposal(c).op \in Registry[t]

(* Nobody can be asked for an approval inside the loop, so a risk-class    *)
(* path is never written, nor is anything outside the workspace.           *)
NoUnapprovedEffect == \A c \in effects : c.path \notin {"risky", "out"}

(* "A repeat that is making progress is not a loop": whatever was          *)
(* repeated before the last new success cannot end the run.  It takes as   *)
(* many calls without one as the least of the thresholds, where alike      *)
(* diffs count from the second on.                                         *)
RiskIsNotProgress ==
  end = "loop_risk" =>
    \/ repeats.idle >= RepeatThreshold
    \/ repeats.idle >= ErrorThreshold
    \/ repeats.idle >= ThrashThreshold - 1 /\ repeats.idle >= 1

(* The same call is not tried a fourth time in a row to no avail, whatever *)
(* it answers, how it fails and whether it was allowed.                    *)
RepeatsAreCut == end = "no" => repeats.same < RepeatThreshold

(* A grant that expires in the middle of a run: only the call it let       *)
(* through before is still carried out, however long its adapter takes.    *)
(* All that follow are refused, and as a refusal for age does not name     *)
(* what was asked for, the detector ends the run after ErrorThreshold of   *)
(* them in a row, different as they may be.                                *)
ExpiryEndsRun ==
  /\ late.ran <= 1
  /\ end = "no" => late.refused < ErrorThreshold

(* What holds at every turn: types, and that all side effects so far were  *)
(* opted into and needed nobody's approval.                                *)
LoopInv == TypeOK /\ EffectsAreOptedIn /\ NoUnapprovedEffect
=============================================================================
