------------------------------ MODULE Routing ------------------------------
(***************************************************************************)
(* Which model builds a task: hardware protection, the static table with   *)
(* its escalation triggers, the measured statistics, the switch of a class *)
(* to data-driven routing, the `stronger_model` rung of the ladder and the *)
(* canary that takes a bad challenger back.  One task is run at a time,    *)
(* and several are in flight: a paused one is resumed after others ran.    *)
(* They share the log and the memory store, two stores: what is written to *)
(* both is two steps, with an exception or a kill in between.              *)
(* Of one task class, Class.  Scores are exact, in units of 1/200; latency *)
(* stays at its prior.                                                     *)
(***************************************************************************)
EXTENDS Integers, Sequences, FiniteSets, SequencesExt

CONSTANTS
  Tasks,       \* task slots, used again and again
  Providers,   \* the specs the registry is built with
  Class,       \* the task class under study
  MinRuns,     \* ELIGIBLE_MIN_RUNS: scored runs that make a model eligible
  MinSamples,  \* samples a canary needs for a verdict
  MaxRungs,    \* bound: stronger_model rungs of one task
  RepoWired    \* repo intelligence is wired (full_stack.py wires none)

ASSUME BoundsAssumption ==
  MinRuns \in Nat \ {0} /\ MinSamples \in Nat \ {0} /\ MaxRungs \in Nat /\ RepoWired \in BOOLEAN

VARIABLES
  avail,     \* providers this installation can reach
  runs,      \* scored runs per model: how many, how many passed (memory store)
  weights,   \* the latest fitted WeightSet of the class (memory store)
  mode,      \* the latest selection_mode of the class (memory store)
  told,      \* what the latest SELECTION event says
  frozen,    \* scopes of the route_freeze records (memory store)
  canaries,  \* the controllers, in memory only
  last,      \* the provider of the latest ROUTE event of any task
  routes,    \* per slot: the ROUTE events of its task that name a provider
  proc,      \* the process: the step it is about to take, and on what
  settled,   \* history: outcomes of data-driven tasks since the last restart
  torn       \* history: a demotion was stored and its telling cut off
stores == <<runs, weights>>   \* fed by the benchmark only
selection == <<mode, told, frozen, torn>>
routeVars == <<avail, runs, weights, mode, told, frozen, canaries, last, routes, proc, settled, torn>>

-----------------------------------------------------------------------------
(* The providers and the static table                                      *)

ProviderSpec(model, local, quality, latency, cost, resource, privacy) ==
  [model |-> model, local |-> local, quality |-> quality, latency |-> latency,
   cost |-> cost, resource |-> resource, privacy |-> privacy]
Order == <<"agent_sdk", "anthropic", "local-small", "local-coder", "local-reasoner">>
Names == {Order[i] : i \in DOMAIN Order}
Registry == [p \in Providers |->
  CASE p = "agent_sdk"      -> ProviderSpec("claude", FALSE, 82, 12, 0,  0,  40)
    [] p = "anthropic"      -> ProviderSpec("claude", FALSE, 85,  9, 3,  0,  40)
    [] p = "local-small"    -> ProviderSpec("qwen",   TRUE,  45,  3, 0, 35, 100)
    [] p = "local-coder"    -> ProviderSpec("qwen",   TRUE,  60,  6, 0, 60, 100)
    [] p = "local-reasoner" -> ProviderSpec("qwen",   TRUE,  62, 10, 0, 70, 100)]
Models == {Registry[p].model : p \in Providers}
Local(S) == {p \in S : Registry[p].local}
Cloud(S) == S \ Local(S)

(* Ollama answers or not, and all local specs name one model.              *)
Installations == {Cloud(Providers), Providers}

Prefer(class) ==
  CASE class \in {"qa_explain", "ops"} -> <<"local-small", "agent_sdk">>
    [] class \in {"code_edit_local", "code_edit_broad", "debug"} -> <<"local-coder", "agent_sdk">>
    [] class \in {"research_web", "doc_analysis", "authoring"} -> <<"local-reasoner", "agent_sdk">>
    [] OTHER -> <<"agent_sdk">>
(* The registry holds the first choice of the class and agent_sdk.         *)
ASSUME ProvidersAssumption ==
  {"agent_sdk", Prefer(Class)[1]} \subseteq Providers /\ Providers \subseteq Names
AlwaysCloud(class) == class = "planning_arch"

(* What the caller knows of the task; the rung of the ladder asks for a    *)
(* cloud model, the first route looks for the word in the request.         *)
Input == [cloud : BOOLEAN, overflow : BOOLEAN, risky : BOOLEAN]
Escalates(class, in, attempt) ==
  \/ AlwaysCloud(class) \/ in.cloud \/ in.overflow
  \/ class \in {"code_edit_local", "debug"} /\ attempt >= 2
  \/ class = "code_edit_broad" /\ in.risky
FirstEscalations == {Escalates(Class, in, 0) : in \in Input}

-----------------------------------------------------------------------------
(* Hardware                                                                *)

Snapshots == [temp : {0, 80, 85, 90}, ram : {0, 80, 92}, gpu : {0, 75, 95}]
HardwareMode(s, progress) ==
  CASE s.temp >= 90 -> "EMERGENCY"
    [] s.temp \in 85..89 -> "PROTECTIVE"
    [] s.temp < 85 /\ (s.temp >= 80 \/ s.ram >= 92 \/ (s.gpu >= 95 /\ ~progress)) -> "CONSERVATION"
    [] OTHER -> IF s.gpu >= 75 \/ s.ram >= 80 THEN "EFFICIENT" ELSE "NORMAL"
(* All that the router asks of the mode: should_pause, then biases_local.  *)
Bias(hw) ==
  CASE hw = "EMERGENCY" -> "pause"
    [] hw \in {"CONSERVATION", "PROTECTIVE"} -> "local"
    [] OTHER -> "none"
Biases == {Bias(HardwareMode(s, TRUE)) : s \in Snapshots}

-----------------------------------------------------------------------------
(* Statistics, keyed by class and MODEL                                    *)

Eligible(model) == model \in DOMAIN runs /\ runs[model].n >= MinRuns
SuccessRate(model) == (100 * runs[model].passed) \div runs[model].n
(* A run counts only with a verification of tier T1 or above.              *)
Ingest(tier, model, passed) ==
  IF tier \notin {"T1", "T2", "T3"} THEN runs
  ELSE [runs EXCEPT ![model] = [n |-> @.n + 1, passed |-> @.passed + (IF passed THEN 1 ELSE 0)]]
IsFrozen(scope) == scope \in frozen

(* A guardrail baseline that is compared with itself, as the orchestrator  *)
(* does, always passes.                                                    *)
CheckRegression(candidate, baseline) ==
  candidate \subseteq baseline /\ 100 * (Cardinality(candidate) - Cardinality(baseline)) <= 2
Guarded == \A failures \in SUBSET {"g1", "g2"} : CheckRegression(failures, failures)

(* A WeightSet: "good" if fitted on enough runs and accurate, "weak" if    *)
(* not.  None at all is as a degenerate one: no score comes from it.       *)
WeightSets == {"degenerate", "weak", "good"}
Modes == {"static", "data_driven"}
Evaluate ==
  IF Cardinality({m \in Models : Eligible(m)}) >= 2 /\ weights = "good" /\ Guarded
  THEN "data_driven" ELSE "static"

(* measured quality stands in for the prior                                *)
Quality(p) == IF Eligible(Registry[p].model) THEN SuccessRate(Registry[p].model)
              ELSE Registry[p].quality
FittedScore(p) == 12 * Quality(p) - 400
ProvisionalScore(p, bias) ==
  8 * Quality(p) + 4 * Registry[p].privacy - 5 * Registry[p].latency
  - 4 * Registry[p].cost - 4 * Registry[p].resource
  + (IF Registry[p].local /\ bias = "local" THEN 200 ELSE 0)
Score(selected, p, bias) ==
  IF selected = "data_driven" /\ weights # "degenerate" THEN FittedScore(p)
  ELSE ProvisionalScore(p, bias)
StabilityMargin == 10

-----------------------------------------------------------------------------
(* Router.route                                                            *)

Index(p) == CHOOSE i \in DOMAIN Order : Order[i] = p
\* max() and min() take the first of equals
Beats(p, q, value) == value[q] < value[p] \/ (value[q] = value[p] /\ Index(p) < Index(q))
Best(S, value) == CHOOSE p \in S : \A q \in S \ {p} : Beats(p, q, value)
Strongest(S) == Best(S, [p \in Providers |-> Registry[p].quality])
Cheapest(S) == Best(S, [p \in Providers |-> -(1000 * Registry[p].cost + Registry[p].resource)])

NoProvider == ""   \* of a RouteDecision that pauses
Decision(p, why) == [provider |-> p, why |-> why]

StaticPick(candidates, escalates, bias) ==
  LET cloud == escalates /\ Cloud(candidates) # {}
      preferred == {p \in candidates : \E i \in DOMAIN Prefer(Class) :
        Prefer(Class)[i] = p /\ \A j \in 1..(i - 1) : Prefer(Class)[j] \notin candidates} IN
  CASE bias = "local" ->
         Decision(IF Local(candidates) # {} THEN Strongest(Local(candidates))
                  ELSE Cheapest(candidates), "static")
    [] bias # "local" /\ cloud -> Decision(Strongest(Cloud(candidates)), "escalated")
    [] bias # "local" /\ ~cloud /\ preferred # {} -> Decision(CHOOSE p \in preferred : TRUE, "static")
    [] OTHER ->
         Decision(Strongest(IF Cloud(candidates) # {} THEN Cloud(candidates) ELSE candidates), "static")

(* The freeze is looked up by model name.                                  *)
Measured(candidates) ==
  {p \in candidates : Eligible(Registry[p].model) /\ ~IsFrozen(Registry[p].model)}

(* The decisions route() can come to; the only chance is in exploring.     *)
Decisions(selected, tried, bias, escalates) ==
  LET candidates == avail \ tried
      pick == StaticPick(candidates, escalates, bias)
      value == [p \in Providers |-> Score(selected, p, bias)]
      best == Best(Measured(candidates), value) IN
  IF bias = "pause" THEN {Decision(NoProvider, "paused")}
  ELSE IF candidates = {} THEN {Decision(Prefer(Class)[1], "static")}
  ELSE IF /\ Measured(candidates) # {} /\ best # pick.provider
          /\ value[best] >= value[pick.provider] + StabilityMargin
       THEN {Decision(best, "data")}
  ELSE {pick} \union
       {Decision(p, "explored") :
          p \in IF pick.why = "escalated" \/ Eligible(Registry[pick.provider].model) THEN {}
                ELSE candidates \ {pick.provider}}

-----------------------------------------------------------------------------
(* The orchestrator's side                                                 *)

NoCanary == [n |-> 0, passed |-> 0, done |-> FALSE]
Spent == [n |-> MinSamples, passed |-> MinSamples]
Over == [n |-> 0, passed |-> 0, done |-> TRUE]   \* its counts are not read again
NoOutcome == [n |-> 0, passed |-> 0]

(* Where the process is.  Between two steps of one task it runs no other.  *)
At(step, on) == [step |-> step, on |-> on]
Free == At("free", "")
Unrouted(t) == routes[t] = <<>>

RouteInit ==
  /\ avail \in Installations
  /\ runs = [m \in Models |-> NoOutcome]
  /\ weights = "degenerate" /\ mode = "static" /\ told = "static" /\ frozen = {}
  /\ canaries = [p \in Providers |-> NoCanary] /\ last = NoProvider
  /\ routes = [t \in Tasks |-> <<>>] /\ proc = Free
  /\ settled = [p \in Providers |-> NoOutcome] /\ torn = FALSE

Tried(t) == {routes[t][i].provider : i \in DOMAIN routes[t]}

(* Each task has the class evaluated first.  "data_driven" is stored, the  *)
(* verdict "static" is not; then either is told.                           *)
Promote ==
  /\ proc = Free /\ \E t \in Tasks : Unrouted(t)
  /\ proc' = At("tell", Evaluate)
  /\ mode' = IF Evaluate = "data_driven" THEN "data_driven" ELSE mode
  /\ UNCHANGED <<avail, stores, told, frozen, canaries, last, routes, settled, torn>>
Told(verdict) == told' = verdict /\ torn' = FALSE
TellPromotion ==
  /\ proc.step = "tell" /\ Told(proc.on)
  /\ proc' = At("route", "")
  /\ UNCHANGED <<avail, stores, mode, frozen, canaries, last, routes, settled>>

(* The ROUTE event; one without a provider is no route of the task.        *)
LogRoute(t, d) ==
  /\ last' = d.provider
  /\ routes' = IF d.provider = NoProvider THEN routes
       ELSE [routes EXCEPT ![t] = Append(@, [provider |-> d.provider, data |-> d.why = "data"])]
(* The risk of an empty workspace is demoted before the router sees it.  A *)
(* hot machine gives no provider: the task is left waiting for good.       *)
FirstDecisions(selected) ==
  UNION {Decisions(selected, {}, bias, esc) : bias \in Biases, esc \in FirstEscalations}
RouteTask(t) ==
  /\ proc.step = "route" /\ Unrouted(t)
  /\ \E d \in FirstDecisions(mode) :
       /\ LogRoute(t, d)
       /\ proc' = IF d.provider = NoProvider THEN Free ELSE At("pick", t)
  /\ UNCHANGED <<avail, stores, selection, canaries, settled>>

(* The Builder of a first round is that of the latest ROUTE on the log,    *)
(* whichever task it belongs to; one without a provider means the default. *)
Builder == last
RouteBuilder(t) ==
  /\ proc = At("pick", t) /\ proc' = At("work", t)
  /\ UNCHANGED <<avail, stores, selection, canaries, last, routes, settled>>

\* what the task tried is not looked up
StrongerModelAgain(t) ==
  /\ proc = At("work", t) /\ Len(routes[t]) <= MaxRungs
  /\ \E d \in Decisions(mode, {}, "none", TRUE) : LogRoute(t, d)
  /\ UNCHANGED <<avail, stores, selection, canaries, proc, settled>>
(* The `stronger_model` rung: another ROUTE, of a provider the task has    *)
(* not tried.  The work goes on with the Builder it has.                   *)
StrongerModel(t) ==
  /\ proc = At("work", t) /\ Len(routes[t]) <= MaxRungs
  /\ \E d \in Decisions(mode, Tried(t), "none", TRUE) :
       /\ d.provider \notin Tried(t)
       /\ LogRoute(t, d)
  /\ UNCHANGED <<avail, stores, selection, canaries, proc, settled>>

(* A broad build asks for a stricter review by a ROUTE without a provider. *)
ReviewRoute(t) ==
  /\ RepoWired /\ proc = At("work", t)
  /\ last' = NoProvider
  /\ UNCHANGED <<avail, stores, selection, canaries, routes, proc, settled>>

(* A rejection by the critic starts a first round again.  (A fallback      *)
(* round has the cloud Builder whatever was routed, and its outcome is     *)
(* settled as that of the task.)                                           *)
Retry(t) ==
  /\ proc = At("work", t) /\ proc' = At("pick", t)
  /\ UNCHANGED <<avail, stores, selection, canaries, last, routes, settled>>
(* A paused or killed task, when it is resumed, starts a first round too.  *)
Pause(t) ==
  /\ proc = At("work", t) /\ proc' = Free
  /\ UNCHANGED <<avail, stores, selection, canaries, last, routes, settled>>
Resume(t) ==
  /\ proc = Free /\ ~Unrouted(t) /\ proc' = At("pick", t)
  /\ UNCHANGED <<avail, stores, selection, canaries, last, routes, settled>>

-----------------------------------------------------------------------------
(* Settling                                                                *)

Count(outcome, passed) == [outcome EXCEPT !.n = @ + 1, !.passed = @ + (IF passed THEN 1 ELSE 0)]
\* any ROUTE of the task, not a data-driven one
ChallengersAny(t) == {i \in DOMAIN routes[t] : i = 1}
Challengers(t) ==
  {i \in DOMAIN routes[t] : routes[t][i].data /\ \A j \in 1..(i - 1) : ~routes[t][j].data}

(* The incumbent's rate is asked for under the provider's id, where there  *)
(* are no runs: the baseline is always 0.8, less 15 points.  In floating   *)
(* point a rate of exactly 0.65 is more than 15 points below.              *)
TooFew(c) == 100 * c.passed <= 65 * c.n
Verdict(c) ==
  IF c.n < MinSamples THEN "HOLD" ELSE IF TooFew(c) THEN "ROLLBACK" ELSE "PROMOTE"
SettleCanary(p, passed) ==
  LET c == Count(canaries[p], passed) IN
  /\ canaries' = [canaries EXCEPT ![p] = IF Verdict(c) = "HOLD" THEN c ELSE Over]
  /\ proc' = IF Verdict(c) = "ROLLBACK" THEN At("freeze", p) ELSE Free

(* Verified at T0, as every verifier of the program does, or failed.       *)
Settle(t) ==
  /\ proc = At("work", t)
  /\ routes' = [routes EXCEPT ![t] = <<>>]
  /\ \E passed \in BOOLEAN :
       /\ runs' = Ingest("T0", Registry[Last(routes[t]).provider].model, passed)
       /\ \/ \E i \in Challengers(t) :
               /\ ~canaries[routes[t][i].provider].done
               /\ SettleCanary(routes[t][i].provider, passed)
          \/ /\ \A i \in Challengers(t) : canaries[routes[t][i].provider].done
             /\ proc' = Free /\ UNCHANGED canaries
       /\ settled' = [p \in Providers |->
            IF /\ \E i \in DOMAIN routes[t] :
                    /\ routes[t][i] = [provider |-> p, data |-> TRUE]
                    /\ \A j \in 1..(i - 1) : ~routes[t][j].data
               /\ settled[p].n < MinSamples
            THEN Count(settled[p], passed)
            ELSE IF settled[p].n = MinSamples THEN Spent ELSE settled[p]]
  /\ UNCHANGED <<avail, weights, selection, last>>

(* A rollback freezes the challenger, then stores that the class is back   *)
(* to static, then tells so.                                               *)
Freeze ==
  /\ proc.step = "freeze" /\ frozen' = frozen \union {proc.on}
  /\ proc' = At("demote", "")
  /\ UNCHANGED <<avail, stores, mode, told, canaries, last, routes, settled, torn>>
Demote ==
  /\ proc.step = "demote" /\ mode' = "static"
  /\ proc' = At("tell_demotion", "")
  /\ UNCHANGED <<avail, stores, told, frozen, canaries, last, routes, settled, torn>>
TellDemotion ==
  /\ proc.step = "tell_demotion" /\ Told("static") /\ proc' = Free
  /\ UNCHANGED <<avail, stores, mode, frozen, canaries, last, routes, settled>>

(* An exception, or a Stop, at any of these steps ends the task unsettled. *)
CutOff == proc' = Free /\ torn' = (torn \/ (proc.step = "tell_demotion" /\ told # "static"))
Raise ==
  /\ proc # Free /\ CutOff
  /\ routes' = [t \in Tasks |-> IF proc \in {At("pick", t), At("work", t)} THEN <<>> ELSE routes[t]]
  /\ UNCHANGED <<avail, stores, mode, told, frozen, canaries, last, settled>>
(* A paused task may never be resumed.                                     *)
Abandon(t) ==
  /\ proc = Free /\ ~Unrouted(t)
  /\ routes' = [routes EXCEPT ![t] = <<>>]
  /\ UNCHANGED <<avail, stores, selection, canaries, last, proc, settled>>

(* The benchmark, run while tasks are in flight, scores a run at T1 of a   *)
(* model, or fits the weights.                                             *)
Benchmark ==
  /\ \E m \in Models, passed \in BOOLEAN :
       runs[m].n < MinRuns /\ runs' = Ingest("T1", m, passed)
  /\ UNCHANGED <<avail, weights, selection, canaries, last, routes, proc, settled>>
SetWeights ==
  /\ weights' \in WeightSets \ {weights}
  /\ UNCHANGED <<avail, runs, selection, canaries, last, routes, proc, settled>>
(* Ninety days on, the runs no longer count.                               *)
Expire ==
  /\ \E m \in Models : runs[m].n > 0 /\ runs' = [runs EXCEPT ![m] = NoOutcome]
  /\ UNCHANGED <<avail, weights, selection, canaries, last, routes, proc, settled>>

(* The process is killed, at any step, and a new one started: the          *)
(* controllers start again, what was under way may be resumed.             *)
Restart ==
  /\ CutOff
  /\ canaries' = [p \in Providers |-> NoCanary]
  /\ settled' = [p \in Providers |-> NoOutcome]
  /\ UNCHANGED <<avail, stores, mode, told, frozen, last, routes>>

RouteNext ==
  \/ Promote \/ TellPromotion \/ Freeze \/ Demote \/ TellDemotion \/ Raise
  \/ \E t \in Tasks : RouteTask(t) \/ RouteBuilder(t) \/ StrongerModel(t) \/ ReviewRoute(t)
                      \/ Retry(t) \/ Pause(t) \/ Resume(t) \/ Settle(t) \/ Abandon(t)
  \/ Benchmark \/ SetWeights \/ Expire \/ Restart
RoutingSpec == RouteInit /\ [][RouteNext]_routeVars

-----------------------------------------------------------------------------
RouteEvents == [provider : Providers, data : BOOLEAN]
RoutesOK ==
  /\ routes \in [Tasks -> Seq(RouteEvents)]
  /\ \A t \in Tasks : Len(routes[t]) <= MaxRungs + 1
ProcOK ==
  \/ proc = Free
  \/ \E verdict \in Modes : proc = At("tell", verdict)
  \/ \E step \in {"route", "demote", "tell_demotion"} : proc = At(step, "")
  \/ \E t \in Tasks, step \in {"pick", "work"} : proc = At(step, t) /\ ~Unrouted(t)
  \/ \E p \in Providers : proc = At("freeze", p)
CountsOK ==
  /\ canaries \in [Providers -> [n : 0..(MinSamples - 1), passed : 0..(MinSamples - 1), done : BOOLEAN]]
  /\ settled \in [Providers -> [n : 0..MinSamples, passed : 0..MinSamples]]
  /\ \A p \in Providers : canaries[p].passed <= canaries[p].n /\ settled[p].passed <= settled[p].n
RunsOK ==
  /\ runs \in [Models -> [n : 0..MinRuns, passed : 0..MinRuns]]
  /\ \A m \in Models : runs[m].passed <= runs[m].n
RouteTypeOK ==
  /\ avail \in Installations /\ weights \in WeightSets
  /\ mode \in Modes /\ told \in Modes /\ torn \in BOOLEAN
  /\ frozen \subseteq Providers /\ last \in Providers \union {NoProvider}
  /\ RunsOK /\ CountsOK /\ RoutesOK /\ ProcOK

(* However often a task is sent to a stronger model, over retries and      *)
(* restarts, it is never sent to a provider it was sent to before.         *)
RoutesAreFresh == \A t \in Tasks : Cardinality(Tried(t)) = Len(routes[t])

(* When the log says that a class is routed by data, the router does so,   *)
(* but for a rollback on its way from the memory store to the log, or cut  *)
(* off there.                                                              *)
ToldPromotionIsReal ==
  told = "data_driven" => mode = "data_driven" \/ proc.step = "tell_demotion" \/ torn

(* A challenger is rolled back on MinSamples settled tasks that were       *)
(* routed to it by data, too few of them verified.                         *)
RollbackOnEvidence ==
  [][\A p \in Providers : p \in frozen' \ frozen =>
       settled[p].n = MinSamples /\ TooFew(settled[p])]_routeVars

(* Three claims of the code's comments that it does not satisfy (see the   *)
(* README).  The Builder of a first round is the one that the route        *)
(* decision of the task picked (orchestrator.py:146).                      *)
BuilderIsOwnRoute ==
  \A t \in Tasks : proc = At("pick", t) => Builder = Last(routes[t]).provider

(* The stronger_model rung is for a provider that can be reached, in the   *)
(* cloud (orchestrator.py:1423).                                           *)
StrongerIsCloud ==
  [][\A t \in Tasks : proc = At("work", t) /\ Len(routes'[t]) > Len(routes[t])
       => Last(routes'[t]).provider \in Cloud(avail)]_routeVars

(* A challenger that was rolled back is not chosen by data again.          *)
FrozenIsNotChosen ==
  [][\A t \in Tasks : Len(routes'[t]) > Len(routes[t]) /\ Last(routes'[t]).data
       => Last(routes'[t]).provider \notin frozen]_routeVars

(***************************************************************************)
(* The inductive invariant: BuilderProofs proves it and, from it,          *)
(* RollbackOnEvidence.                                                     *)
(***************************************************************************)
\* a controller has counted what was settled, until its verdict
CanaryCounts ==
  \A p \in Providers :
    IF canaries[p].done THEN settled[p].n = MinSamples
    ELSE canaries[p].n = settled[p].n /\ canaries[p].passed = settled[p].passed

\* what a step under way has done already
StepsOK ==
  /\ proc = At("tell", "data_driven") => mode = "data_driven"
  /\ proc.step = "tell_demotion" => mode = "static"
  /\ proc.step = "freeze" => settled[proc.on].n = MinSamples /\ TooFew(settled[proc.on])

(* What holds between any two steps: types, no task sent twice to one      *)
(* provider, no promotion told that was not stored, controllers that have  *)
(* counted the settled tasks of their challenger and no others, and no     *)
(* freeze under way without the evidence for it.                           *)
RouteInv ==
  RouteTypeOK /\ RoutesAreFresh /\ ToldPromotionIsReal /\ CanaryCounts /\ StepsOK
=============================================================================
