------------------------------- MODULE Policy -------------------------------
(***************************************************************************)
(* What decides whether an action may be carried out: the registry of      *)
(* capability tokens, the grant issued from a token, the trust of what the *)
(* action was derived from, and the ordered rules of the policy engine.    *)
(* Pure operators; a proposal and a grant are records of what the rules    *)
(* tell apart.                                                             *)
(***************************************************************************)
EXTENDS Naturals, Sequences, FiniteSetsExt

SideEffectingOps ==
  {"file.write", "file.create", "file.delete", "shell.run", "net.fetch", "secret.use",
   "vcs.branch", "vcs.commit"}
IsSideEffecting(op) == op \in SideEffectingOps

Registry ==
  [fs_read |-> {"file.read", "dir.list"},
   fs_write |-> {"file.read", "dir.list", "file.write", "file.create"},
   fs_delete |-> {"file.read", "dir.list", "file.delete"},
   shell_run |-> {"shell.run"}, net_fetch |-> {"net.fetch"}, secret_use |-> {"secret.use"},
   vcs_read |-> {"vcs.read"}, vcs_write |-> {"vcs.read", "vcs.branch", "vcs.commit"}]
Tokens == DOMAIN Registry

(* An adapter may name an operation where a token is expected ("vcs.commit"*)
(* of the git tool): it then stands for itself.                            *)
PrimaryOperation(token) ==
  CASE token = "fs_read" -> "file.read" [] token = "fs_write" -> "file.write"
    [] token = "fs_delete" -> "file.delete" [] token = "shell_run" -> "shell.run"
    [] token = "net_fetch" -> "net.fetch" [] token = "secret_use" -> "secret.use"
    [] token = "vcs_read" -> "vcs.read" [] token = "vcs_write" -> "vcs.commit"
    [] OTHER -> token

Grant(tokens, hosts) ==
  [ops |-> UNION {Registry[t] : t \in tokens \cap Tokens}, hosts |-> hosts, expired |-> FALSE]

(***************************************************************************)
(* Trust: the label of a context, the least trusted part of it.            *)
(***************************************************************************)
Authorising == {"user", "workspace"}
BlocksSideEffect(p) == IsSideEffecting(p.op) /\ p.trust \notin Authorising

(***************************************************************************)
(* The rules in the order the engine tries them.  A proposal has the       *)
(* operation, the kind of path it names ("none", "in" or "out" of scope, or*)
(* "risky": in scope and matching a risk-class glob), the host and trust.  *)
(***************************************************************************)
CoversPath(path) == path # "out"
AllowsHost(g, host) == host # "none" /\ host \in g.hosts

Rule(name, fires, decision) == [name |-> name, fires |-> fires, decision |-> decision]
\* the age of a grant is not looked at again once it is issued
RulesIgnoringAge(p, g) ==
  << Rule("operation-not-granted", p.op \notin g.ops, "DENY"),
     Rule("path-out-of-scope", ~CoversPath(p.path), "DENY"),
     Rule("tainted-side-effect", BlocksSideEffect(p), "DENY"),
     Rule("egress-not-allowed", p.op = "net.fetch" /\ ~AllowsHost(g, p.host), "DENY"),
     Rule("risk-class-approval", IsSideEffecting(p.op) /\ p.path = "risky", "REQUIRE_APPROVAL") >>
OrderedRules(p, g) ==
  << Rule("capability-expired", g.expired, "DENY"),
     Rule("operation-not-granted", p.op \notin g.ops, "DENY"),
     Rule("path-out-of-scope", ~CoversPath(p.path), "DENY"),
     Rule("tainted-side-effect", BlocksSideEffect(p), "DENY"),
     Rule("egress-not-allowed", p.op = "net.fetch" /\ ~AllowsHost(g, p.host), "DENY"),
     Rule("risk-class-approval", IsSideEffecting(p.op) /\ p.path = "risky", "REQUIRE_APPROVAL") >>
Decide(p, g) ==
  LET r == OrderedRules(p, g)
      fired == {i \in DOMAIN r : r[i].fires} IN
  IF fired = {} THEN Rule("default-allow", TRUE, "ALLOW") ELSE r[Min(fired)]
=============================================================================
