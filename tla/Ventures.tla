------------------------------ MODULE Ventures ------------------------------
(***************************************************************************)
(* From web evidence to an experiment:                                     *)
(*   aether/web_intelligence/engine.py, store.py   sources and conformance *)
(*   aether_gateway/web_intelligence/live.py       canaries, acquisition   *)
(*   aether_gateway/opportunities/                 scout, mission bridge   *)
(*   aether/opportunities/engine.py, store.py      candidates, mandates    *)
(*   aether/experiments/engine.py, store.py        plans, runs, reviews    *)
(*   aether_gateway/experiments/runner.py          the runner              *)
(*   aether_gateway/api/server.py                  their routes            *)
(*                                                                         *)
(* Every table is append-only.  What is awaited is the adapter: a canary,  *)
(* an acquisition and a scout run all hold what they read of the source's  *)
(* configuration while the operator goes on configuring it.  An experiment *)
(* runs without giving the event loop up.                                  *)
(***************************************************************************)
EXTENDS Naturals, FiniteSets, Sequences, SequencesExt

CONSTANTS
    Adapters,           \* registered sources, each its own source_id
    Catalogs,           \* the static ones, registered without a configuration
    Settings,           \* configurations, and by that their hashes
    Disabled,           \* the ones that say enabled = false
    Unconfigured,       \* the placeholder every live source starts with
    NoSetting,          \* no configuration at all
    Costs,              \* budgets, as numbers
    MinimumSources,     \* PortfolioPolicy.minimum_independent_sources
    MaxWebCalls,        \* bound on adapter calls awaited together
    MaxVentures,        \* bound on candidates, on mandates and on plans
    MaxRuns             \* bound on experiment runs

ASSUME VenturesAssumption ==
    /\ Catalogs \subseteq Adapters
    /\ Disabled \subseteq Settings /\ Unconfigured \in Disabled /\ NoSetting \notin Settings
    /\ Costs \subseteq Nat
    /\ {MinimumSources, MaxWebCalls, MaxVentures, MaxRuns} \subseteq Nat

VARIABLES
    settings,       \* adapter -> configurations entered, oldest first
    receipt,        \* adapter -> latest conformance receipt
    canaryPassed,   \* adapter, setting pairs that ever passed (a history)
    webCalls,       \* adapter calls awaited
    evidence,       \* snapshots and the claim each carries
    discoveries,    \* domains found in the evidence -> rows of the ledger
    opportunities,  \* candidates: the claims they rest on
    decisions,      \* candidate -> portfolio decision
    mandates, lapsed,           \* mandates, and the ones that expired
    plans, runs, reviews        \* experiments

webVars == <<settings, receipt, canaryPassed, webCalls, evidence, discoveries>>
ventureVars == <<opportunities, decisions, mandates, lapsed, plans, runs, reviews>>
venturesVars == <<webVars, ventureVars>>

Stances == {"supports", "contradicts"}

Claims == [source : Adapters, stance : Stances]

\* A snapshot with the claim the extractor finds in it, and the setting of its
\* source when it was let through to be fetched.
Snapshots == [claim : Claims, under : Settings \cup {NoSetting}]

Receipts == [setting : Settings, state : {"missing", "passed", "failed", "expired"}]

WebCalls == [kind : {"canary", "acquire", "scout"}, adapter : Adapters,
             setting : Settings \cup {NoSetting}]

Decisions == [what : {"none", "select", "defer", "reject"}, allocation : Costs \cup {0}]

Mandates == [candidate : SUBSET Claims, cost : Costs, external : BOOLEAN]

Plans == [mandate : Mandates, cost : Costs, last : {"preview", "measure", "external"}]

Runs == [plan : Plans, status : {"completed", "preview-ready", "waiting-external-review", "failed"}]

VenturesInit ==
    /\ settings = [a \in Adapters |-> IF a \in Catalogs THEN <<>> ELSE <<Unconfigured>>]
    /\ receipt = [a \in Adapters |-> [setting |-> Unconfigured, state |-> "missing"]]
    /\ canaryPassed = {} /\ webCalls = {} /\ evidence = {}
    /\ discoveries = {}
    /\ opportunities = {} /\ decisions = [o \in {} |-> 0]
    /\ mandates = {} /\ lapsed = {}
    /\ plans = {} /\ runs = <<>> /\ reviews = [r \in {} |-> {}]

-----------------------------------------------------------------------------
(* Sources.                                                                *)

\* latest_configuration, which may be None.
Latest(a) == IF settings[a] = <<>> THEN NoSetting ELSE Last(settings[a])

HasConfiguration(a) == Latest(a) # NoSetting

\* add_configuration: a configuration that was entered before is not entered
\* again, so it does not become the latest.
AddConfiguration(a, s) ==
    settings' = [settings EXCEPT ![a] = IF s \in ToSet(@) THEN @ ELSE Append(@, s)]

ConfigureSource(a, s) ==
    /\ AddConfiguration(a, s)
    /\ UNCHANGED <<receipt, canaryPassed, webCalls, evidence, discoveries, ventureVars>>

\* Mutant: a receipt counts whatever configuration it was issued for.
ConformanceOfAdapter(a) == receipt[a].state

\* effective_conformance: exact to the configuration in force.
EffectiveConformance(a) ==
    IF receipt[a].state = "missing" THEN "missing"
    ELSE IF receipt[a].setting # Latest(a) THEN "stale" ELSE receipt[a].state

\* The configuration in force is enabled and conformed.
Conformed(a) ==
    HasConfiguration(a) /\ Latest(a) \notin Disabled /\ EffectiveConformance(a) = "passed"

\* The guard of the mesh lets an adapter without a configuration through.
Eligible(a) == HasConfiguration(a) => Conformed(a)

Await(kind, a) ==
    /\ Cardinality(webCalls) < MaxWebCalls
    /\ webCalls' = webCalls \cup {[kind |-> kind, adapter |-> a, setting |-> Latest(a)]}
    /\ UNCHANGED <<settings, receipt, canaryPassed, evidence, discoveries, ventureVars>>

\* conform reads the configuration, then awaits health and canary.
StartConform(a) == HasConfiguration(a) /\ Await("canary", a)

\* record_conformance refuses a receipt for a configuration that is no
\* longer the latest.
RecordConformance(a, s, state) ==
    receipt' = IF s = Latest(a)
               THEN [receipt EXCEPT ![a] = [setting |-> s, state |-> state]] ELSE receipt

\* A disabled source fails its first check, and a catalog the one for
\* private-network denial, which its manifest does not promise.
FinishConform(call, state) ==
    /\ call \in webCalls /\ call.kind = "canary"
    /\ (call.setting \in Disabled \/ call.adapter \in Catalogs) => state = "failed"
    /\ RecordConformance(call.adapter, call.setting, state)
    /\ canaryPassed' = IF state = "passed"
                       THEN canaryPassed \cup {<<call.adapter, call.setting>>} ELSE canaryPassed
    /\ webCalls' = webCalls \ {call}
    /\ UNCHANGED <<settings, evidence, discoveries, ventureVars>>

\* A receipt expires, or the adapter comes with another manifest.
ReceiptLapses(a) ==
    /\ receipt[a].state = "passed"
    /\ receipt' = [receipt EXCEPT ![a].state = "expired"]
    /\ UNCHANGED <<settings, canaryPassed, webCalls, evidence, discoveries, ventureVars>>

\* acquire: checked, then the fetch is awaited.
StartAcquire(a) == Conformed(a) /\ Await("acquire", a)

\* The scout lists its eligible adapters once and fetches what a search of
\* each finds; the two live adapters' own search finds nothing today.
StartScout(a) == Eligible(a) /\ Await("scout", a)

\* record_snapshot: content that is known for the source is the known row.
RecordSnapshot(a, s, stance) ==
    LET claim == [source |-> a, stance |-> stance] IN
    evidence' = IF \E e \in evidence : e.claim = claim THEN evidence
                ELSE evidence \cup {[claim |-> claim, under |-> s]}

Fetched(call, stance) ==
    /\ call \in webCalls /\ call.kind \in {"acquire", "scout"}
    /\ RecordSnapshot(call.adapter, call.setting, stance)
    /\ webCalls' = IF call.kind = "acquire" THEN webCalls \ {call} ELSE webCalls
    /\ UNCHANGED <<settings, receipt, canaryPassed, discoveries, ventureVars>>

\* A fetch fails or returns nothing; a scout run is over.
WebCallEnds(call) ==
    /\ call \in webCalls /\ call.kind \in {"acquire", "scout"}
    /\ webCalls' = webCalls \ {call}
    /\ UNCHANGED <<settings, receipt, canaryPassed, evidence, discoveries, ventureVars>>

\* Domains named by the evidence are proposed; the decision is a row of its
\* own and the proposal stays as it is.
DiscoverSources ==
    /\ evidence # {}
    /\ discoveries' = discoveries \cup {"proposed"}
    /\ UNCHANGED <<settings, receipt, canaryPassed, webCalls, evidence, ventureVars>>

DecideSource(state) ==
    /\ "proposed" \in discoveries
    /\ discoveries' = discoveries \cup {state}
    /\ UNCHANGED <<settings, receipt, canaryPassed, webCalls, evidence, ventureVars>>

-----------------------------------------------------------------------------
(* Opportunities.                                                          *)

\* validate_candidate: enough independent sources and no contradiction.
PortfolioReady(o) ==
    /\ Cardinality({c.source : c \in {x \in o : x.stance = "supports"}}) >= MinimumSources
    /\ \A c \in o : c.stance # "contradicts"

SynthesizeCandidate(o) ==
    /\ Cardinality(opportunities \cup {o}) <= MaxVentures
    /\ o \subseteq {e.claim : e \in evidence}
    /\ opportunities' = opportunities \cup {o}
    /\ decisions' = [x \in opportunities \cup {o} |->
                        IF x \in opportunities THEN decisions[x]
                        ELSE [what |-> "none", allocation |-> 0]]
    /\ UNCHANGED <<webVars, mandates, lapsed, plans, runs, reviews>>

\* add_decision: one row per candidate.
DecideCandidate(o, what, allocation) ==
    /\ o \in opportunities /\ decisions[o].what = "none"
    /\ what = "select" => PortfolioReady(o)
    /\ decisions' = [decisions EXCEPT ![o] = [what |-> what, allocation |-> allocation]]
    /\ UNCHANGED <<webVars, opportunities, mandates, lapsed, plans, runs, reviews>>

\* Mutant: a candidate that was decided any way gets its mandate.
MandatedIfDecided(m) ==
    decisions[m.candidate].what # "none" /\ m.cost <= decisions[m.candidate].allocation

\* issue_mandate asks for the selection and its allocation.
Mandatable(m) ==
    decisions[m.candidate].what = "select" /\ m.cost <= decisions[m.candidate].allocation

IssueMandate(m) ==
    /\ m.candidate \in opportunities /\ Mandatable(m)
    /\ Cardinality(mandates \cup {m}) <= MaxVentures
    /\ mandates' = mandates \cup {m}
    /\ UNCHANGED <<webVars, opportunities, decisions, lapsed, plans, runs, reviews>>

MandateExpires(m) ==
    /\ m \in mandates \ lapsed
    /\ lapsed' = lapsed \cup {m}
    /\ UNCHANGED <<webVars, opportunities, decisions, mandates, plans, runs, reviews>>

-----------------------------------------------------------------------------
(* Experiments.                                                            *)

\* create_plan: within an unexpired mandate; the same plan is one row.
CreatePlan(p) ==
    /\ p.mandate \in mandates \ lapsed
    /\ p.cost <= p.mandate.cost
    /\ p.last = "external" => p.mandate.external
    /\ Cardinality(plans \cup {p}) <= MaxVentures
    /\ plans' = plans \cup {p}
    /\ UNCHANGED <<webVars, opportunities, decisions, mandates, lapsed, runs, reviews>>

\* A plan that succeeded is not run again; one that failed or waits is.
Succeeded(p) ==
    \E i \in DOMAIN runs : runs[i].plan = p /\ runs[i].status \in {"completed", "preview-ready"}

\* The steps in order up to the first that fails or needs a review; what
\* the run comes to depends on its last one.
RunExperiment(p, ok) ==
    /\ p \in plans /\ ~Succeeded(p) /\ Len(runs) < MaxRuns
    /\ LET status == CASE ~ok -> "failed"
                       [] ok /\ p.last = "preview" -> "preview-ready"
                       [] ok /\ p.last = "measure" -> "completed"
                       [] ok /\ p.last = "external" -> "waiting-external-review"
       IN  /\ runs' = Append(runs, [plan |-> p, status |-> status])
           /\ reviews' = IF status = "waiting-external-review"
                         THEN [r \in DOMAIN reviews \cup {Len(runs) + 1} |->
                                  IF r \in DOMAIN reviews THEN reviews[r] ELSE {}]
                         ELSE reviews
    /\ UNCHANGED <<webVars, opportunities, decisions, mandates, lapsed, plans>>

\* decide_external_review looks at the request, which is never changed, and
\* appends the decision as a row of its own.
DecideReview(r, state) ==
    /\ r \in DOMAIN reviews
    /\ reviews' = [reviews EXCEPT ![r] = @ \cup {state}]
    /\ UNCHANGED <<webVars, opportunities, decisions, mandates, lapsed, plans, runs>>

-----------------------------------------------------------------------------

WebRoutes ==
    \/ \E a \in Adapters :
          \/ \E s \in Settings : ConfigureSource(a, s)
          \/ StartConform(a) \/ StartAcquire(a)
    \/ \E call \in webCalls :
          \/ \E state \in {"passed", "failed"} : FinishConform(call, state)
          \/ \E stance \in Stances : Fetched(call, stance)
          \/ WebCallEnds(call)
    \/ DiscoverSources \/ \E state \in {"accepted", "rejected"} : DecideSource(state)

ScoutRoute == \E a \in Adapters : StartScout(a)

OpportunityRoutes ==
    \/ \E o \in SUBSET {e.claim : e \in evidence} : SynthesizeCandidate(o)
    \/ \E o \in opportunities :
          \/ \E what \in {"select", "defer", "reject"}, allocation \in Costs :
                DecideCandidate(o, what, allocation)
          \/ \E cost \in Costs, external \in BOOLEAN :
                IssueMandate([candidate |-> o, cost |-> cost, external |-> external])

ExperimentRoutes ==
    \/ \E m \in mandates, cost \in Costs, last \in {"preview", "measure", "external"} :
          CreatePlan([mandate |-> m, cost |-> cost, last |-> last])
    \/ \E p \in plans, ok \in BOOLEAN : RunExperiment(p, ok)
    \/ \E r \in DOMAIN reviews, state \in {"approved", "rejected", "expired"} : DecideReview(r, state)

VenturesNext ==
    \/ WebRoutes \/ ScoutRoute \/ OpportunityRoutes \/ ExperimentRoutes
    \/ \E a \in Adapters : ReceiptLapses(a)
    \/ \E m \in mandates : MandateExpires(m)

VenturesSpec == VenturesInit /\ [][VenturesNext]_venturesVars

-----------------------------------------------------------------------------

VenturesTypeOK ==
    /\ settings \in [Adapters -> Seq(Settings)]
    /\ receipt \in [Adapters -> Receipts]
    /\ canaryPassed \subseteq Adapters \X Settings
    /\ webCalls \subseteq WebCalls
    /\ evidence \subseteq Snapshots
    /\ discoveries \subseteq {"proposed", "accepted", "rejected"}
    /\ opportunities \subseteq SUBSET Claims
    /\ decisions \in [opportunities -> Decisions]
    /\ mandates \subseteq Mandates /\ lapsed \subseteq mandates
    /\ plans \subseteq Plans
    /\ runs \in Seq(Runs)
    /\ DOMAIN reviews \subseteq DOMAIN runs

\* Evidence from a configured source comes only from what was tried out: the
\* exact configuration in force when an acquisition or a scout run was let
\* through to the source was enabled and had passed a canary of it, though
\* configurations change while canaries and fetches are awaited.  Evidence
\* that no configuration stands behind comes from a static catalog, never from
\* a live source, whose placeholder can be replaced but not taken away.
\* (record_conformance, effective_conformance and the checks of acquire and of
\* the mesh's eligibility guard; live_web_intelligence.yaml: "source
\* conformance is exact to adapter manifest and source configuration".)
EvidenceConformed ==
    \A e \in evidence :
       IF e.under = NoSetting THEN e.claim.source \in Catalogs
       ELSE e.under \notin Disabled /\ <<e.claim.source, e.under>> \in canaryPassed

\* Nothing is tried without its reasons: behind every run stands a plan
\* within its mandate, a mandate within the allocation of a candidate that
\* was selected, and a candidate with enough independent sources, all of
\* them recorded and none of them contradicted.  (create_plan,
\* issue_mandate, decide, synthesize_candidate.)
RunsBacked ==
    \A i \in DOMAIN runs :
       LET p == runs[i].plan
           o == p.mandate.candidate
       IN  /\ p.cost <= p.mandate.cost /\ p.mandate.cost <= decisions[o].allocation
           /\ decisions[o].what = "select"
           /\ PortfolioReady(o)
           /\ \A c \in o : \E e \in evidence : e.claim = c
=============================================================================
