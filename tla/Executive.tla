------------------------------ MODULE Executive ------------------------------
(***************************************************************************)
(* The closed cognitive loop of Aether core, from a directive to the       *)
(* result of the mission it becomes:                                       *)
(*   executive/cognitive_reasoner.py   CognitiveDirective, its validation  *)
(*   executive/cognitive_planner.py    plan_from_directive, govern         *)
(*   executive/cognitive_executive.py  run_closed_loop, decide_next        *)
(*   missions/live_runner.py           run_cognitive_mission, the gate     *)
(*   missions/apcb_executor.py, canonical_mapper.py                        *)
(*                                                                         *)
(* The mission store is the one of MissionOrchestrator, the dispatcher the *)
(* one of ApcbDispatcher; here they are what the loop sees of them.  The   *)
(* workers are other programs: they write into the workspace when they     *)
(* like, also after the dispatcher has given up waiting.                   *)
(***************************************************************************)
EXTENDS Naturals, Sequences, FiniteSets

CONSTANTS
    Directives,      \* the directives a reasoner or a caller may hand over
    ExecutiveSteps,  \* CognitiveExecutive.max_steps
    StepLimit,       \* MAX_STEPS of the reasoner
    Registered,      \* principals in the profile registry
    Nobody           \* an absent principal or file

\* A directive has at least one step: one without becomes a plan of one.
ASSUME ExecutiveAssumption ==
    \A d \in Directives :
       /\ DOMAIN d = {"steps", "principal", "maxSteps", "distinct", "bound"}
       /\ d.steps # <<>> /\ d.steps \in Seq({d.steps[s] : s \in DOMAIN d.steps})
       /\ \A s \in DOMAIN d.steps : \A p \in {d.principal, d.steps[s].principal} :
             Nobody # [mission |-> "this", work |-> d.steps[s].work, principal |-> p]

VARIABLES
    directive,   \* the directive of this run
    mission,     \* current_status of the mission, or "none"
    attempts,    \* status of the one attempt of each step; max_attempts is 1
    order,       \* the steps in the order of their attempts
    receipts,    \* APCB receipts of the mission
    deliverables,   \* the file under each artifact name
    workers,     \* the worker of each step: a working one may still write
    loop,        \* where the run is: pc, step in flight, iterations
    wrote        \* steps whose own worker, or the caller's hook, delivered

executiveVars == <<directive, mission, attempts, order, receipts, deliverables,
                   workers, loop, wrote>>

-----------------------------------------------------------------------------
(* Directives and plans                                                    *)

Plan == 1..Len(directive.steps)
StepSpec(s) == directive.steps[s]

\* The effective principal: the step's own, else the directive's.
PrincipalOf(s) ==
    IF StepSpec(s).principal # Nobody THEN StepSpec(s).principal ELSE directive.principal

\* CognitiveDirective.validate for a directive with steps.
Valid(d) ==
    LET n == Len(d.steps)
        ids == {d.steps[s].id : s \in 1..n}
        effective(s) == IF d.steps[s].principal # Nobody THEN d.steps[s].principal
                                                         ELSE d.principal
    IN /\ d.maxSteps >= 1
       /\ d.principal # Nobody
       /\ Cardinality(ids) = n
       /\ n <= StepLimit
       /\ \A s \in 1..n : d.steps[s].deps \subseteq ids \ {d.steps[s].id}
       /\ d.maxSteps >= n
       /\ d.distinct => \A s, t \in 1..n : effective(s) = effective(t) => s = t

\* RuleBasedReasoner.reason: n chained steps, each with a work id and an
\* artifact of its own, and a principal of its own if principals are given; the
\* single step of a legacy directive has none.
RuleDirective(n, principal, principals) ==
    [steps |-> [s \in 1..n |->
         [id |-> s, work |-> <<"work", s>>, artifact |-> <<"file", s>>,
          deps |-> {s - 1} \ {0},
          principal |-> IF principals = <<>> \/ n = 1 THEN Nobody ELSE principals[s]]],
     principal |-> principal, maxSteps |-> n, distinct |-> principals # <<>>,
     bound |-> TRUE]

\* enforce_bounds: max_steps covers the steps and stays in its range; a
\* directive it would refuse is left as it is and refused by the planner.
EnforceBounds(d) ==
    LET wanted == IF d.maxSteps < Len(d.steps) THEN Len(d.steps) ELSE d.maxSteps
    IN IF d.principal = Nobody \/ Len(d.steps) > StepLimit THEN d
       ELSE [d EXCEPT !.maxSteps = CASE wanted < 1 -> 1
                                     [] wanted > StepLimit -> StepLimit
                                     [] OTHER -> wanted]

\* The steps that a step depends on, by position.
Needs(d, s) == {t \in 1..Len(d.steps) : d.steps[t].id \in d.steps[s].deps}

\* What create_plan adds: the dependency graph has no cycle.
Plannable(d) ==
    LET n == Len(d.steps)
    IN \E rank \in [1..n -> 1..n] : \A s \in 1..n : \A t \in Needs(d, s) : rank[t] < rank[s]

CompletedSteps == {s \in Plan : attempts[s] = "completed"}
Remaining == Cardinality(Plan \ CompletedSteps)

-----------------------------------------------------------------------------
(* Artifacts                                                               *)

Envelope(s) == [mission |-> "this", work |-> StepSpec(s).work, principal |-> PrincipalOf(s)]

VerifiedByName(s) == deliverables[StepSpec(s).artifact] # Nobody \* Mutant: any file of that name.

\* build_mission_artifact_verify: the named file carries the envelope of the
\* work item: its mission, work id, principal and attempt.
ArtifactVerified(s) == deliverables[StepSpec(s).artifact] = Envelope(s)

\* _artifact_authoritative also wants a workspace in the file system.
Authoritative(s) == directive.bound /\ ArtifactVerified(s)

-----------------------------------------------------------------------------
(* One step through the dispatcher                                         *)

ReceiptsOf(s) == {r \in receipts : r.work = StepSpec(s).work}

\* _next_step of the orchestrator.
ReadySteps == {s \in Plan \ CompletedSteps : Needs(directive, s) \subseteq CompletedSteps}
NextStepOf == CHOOSE s \in ReadySteps : \A t \in ReadySteps : s <= t

\* The first attempt of a work id that has no receipt and whose principal has
\* an execution profile can be dispatched.
Dispatchable(s) == ReceiptsOf(s) = {} /\ PrincipalOf(s) \in Registered

\* dispatch: a done worker without its artifact, and a failed or unknown one
\* with it, are judged by the artifact.
Outcome(s, observed) ==
    CASE observed = "done" /\ ~ArtifactVerified(s) -> "completed_without_artifact"
      [] observed \in {"failed", "unknown"} /\ ArtifactVerified(s) -> "completed"
      [] observed = "done" /\ ArtifactVerified(s) -> "completed"
      [] observed = "error" -> "failed"
      [] OTHER -> observed

\* _decision_to_action_result.
ResultOk(outcome) == outcome \in {"completed", "completed_without_artifact"}

\* _ArtifactGatedExecutor: done without the artifact is a failed step.
GatedOk(outcome) == ResultOk(outcome) /\ outcome # "completed_without_artifact"

Receipt(s, outcome) == [work |-> StepSpec(s).work, principal |-> PrincipalOf(s), outcome |-> outcome]

\* What run(maximum_steps=1) does with the answer: record the attempt, then
\* complete, fail or pause the mission.
Answered(s, ok) ==
    /\ attempts' = [attempts EXCEPT ![s] = IF ok THEN "completed" ELSE "failed"]
    /\ order' = Append(order, s)
    /\ mission' = CASE ~ok -> "failed"
                    [] ok /\ CompletedSteps \cup {s} = Plan -> "completed"
                    [] OTHER -> "paused"
    /\ loop' = [loop EXCEPT !.pc = IF loop.mode = "mission" THEN "done" ELSE "decide",
                            !.progress = ok]

-----------------------------------------------------------------------------
(* decide_next                                                             *)

EvidenceFails(s) == attempts[s] = "failed" \/ ~Authoritative(s)

Continues(s) ==
    /\ ~EvidenceFails(s)
    /\ mission \notin {"completed", "failed", "stopped", "cancelled", "rejected",
                       "waiting_approval", "review_required", "draft"}
    /\ mission = "paused" => loop.progress
    /\ Remaining > 0
    /\ loop.count < loop.limit

\* _last_attempted_step, or the first step of the plan.
Attempted == IF order = <<>> THEN 1 ELSE order[Len(order)]

-----------------------------------------------------------------------------
(* Actions                                                                 *)

Handed == Directives \cup {EnforceBounds(d) : d \in Directives}

\* Files of another mission may lie in the workspace when the run begins.
ExecutiveInit ==
    /\ directive \in Handed
    /\ mission = "none"
    /\ attempts = [s \in Plan |-> "none"]
    /\ order = <<>>
    /\ receipts = {}
    /\ deliverables \in [{StepSpec(s).artifact : s \in Plan} ->
                        {Nobody, [Envelope(1) EXCEPT !.mission = "other"]}]
    /\ workers = [s \in Plan |-> "idle"]
    /\ loop = [pc |-> "plan", mode |-> "loop", step |-> 0, count |-> 1,
               limit |-> 0, progress |-> FALSE]
    /\ wrote = {}

\* govern: the one approval of the mission, in the Founder's name.
Govern == mission' = "approved"

\* plan_from_directive.
PlanFromDirective == Valid(directive) /\ Plannable(directive)

\* run_closed_loop: observe, reason, plan and govern once.
PlanAndGovern ==
    /\ loop.pc = "plan"
    /\ IF PlanFromDirective
       THEN /\ Govern
            /\ loop' = [loop EXCEPT !.pc = "run",
                          !.limit = IF ExecutiveSteps < directive.maxSteps
                                    THEN ExecutiveSteps ELSE directive.maxSteps]
       ELSE loop' = [loop EXCEPT !.pc = "refused"] /\ UNCHANGED mission
    /\ UNCHANGED <<directive, attempts, order, receipts, deliverables, workers, wrote>>

\* _make_plan: the plan of one step without dependencies.
OneStepPlan == Len(directive.steps) = 1 /\ directive.bound /\ Plannable(directive)

\* run_cognitive_mission: one step, approved, with a workspace that the run
\* creates; the caller's hook may put the artifact there.
PlanOneStep ==
    /\ loop.pc = "plan" /\ OneStepPlan
    /\ mission' = "approved"
    /\ loop' = [loop EXCEPT !.pc = "run", !.mode = "mission", !.limit = 1]
    /\ \/ deliverables' = [deliverables EXCEPT ![StepSpec(1).artifact] = Envelope(1)] /\ wrote' = {1}
       \/ UNCHANGED <<deliverables, wrote>>
    /\ UNCHANGED <<directive, attempts, order, receipts, workers>>

\* The receipt is claimed and the worker prompted; the run blocks on it.
Dispatch ==
    /\ loop.pc = "run" /\ Dispatchable(NextStepOf)
    /\ receipts' = receipts \cup {Receipt(NextStepOf, "open")}
    /\ workers' = [workers EXCEPT ![NextStepOf] = "working"]
    /\ mission' = "running"
    /\ loop' = [loop EXCEPT !.pc = "wait", !.step = NextStepOf]
    /\ UNCHANGED <<directive, attempts, order, deliverables, wrote>>

\* The dispatcher refuses the work item: no profile, a receipt of that work
\* already there, not eligible, not conformant (which leaves a receipt).
DispatchRefused ==
    /\ loop.pc = "run"
    /\ LET s == NextStepOf
       IN /\ Answered(s, FALSE)
          /\ receipts' \in IF Dispatchable(s) THEN {receipts, receipts \cup {Receipt(s, "rejected")}}
                                              ELSE {receipts}
    /\ UNCHANGED <<directive, deliverables, workers, wrote>>

\* The mission's time budget has passed: run() stops it before the step.
BudgetStops ==
    /\ loop.pc = "run"
    /\ mission' = "stopped"
    /\ loop' = [loop EXCEPT !.pc = IF loop.mode = "mission" THEN "done" ELSE "decide",
                            !.progress = FALSE]
    /\ UNCHANGED <<directive, attempts, order, receipts, deliverables, workers, wrote>>

\* A worker, awaited or given up on, writes its artifact or some other file.
WorkerWrites(s) ==
    /\ workers[s] = "working"
    /\ \/ deliverables' = [deliverables EXCEPT ![StepSpec(s).artifact] = Envelope(s)]
          /\ wrote' = wrote \cup {s}
       \/ deliverables' = [deliverables EXCEPT ![StepSpec(s).artifact] = Nobody] /\ UNCHANGED wrote
    /\ UNCHANGED <<directive, mission, attempts, order, receipts, workers, loop>>

\* wait_agent answers; only a worker seen to end stops writing.
WorkerObserved(observed) ==
    /\ loop.pc = "wait"
    /\ LET s == loop.step
           outcome == Outcome(s, observed)
       IN /\ receipts' = (receipts \ {Receipt(s, "open")}) \cup {Receipt(s, outcome)}
          /\ workers' = IF observed \in {"done", "failed"}
                        THEN [workers EXCEPT ![s] = "ended"] ELSE workers
          /\ Answered(s, GatedOk(outcome))
    /\ UNCHANGED <<directive, deliverables, wrote>>

\* One turn of the loop ends: evidence of the step just tried, then the
\* bounded decision.
DecideNext ==
    /\ loop.pc = "decide"
    /\ loop' = IF Continues(Attempted)
               THEN [loop EXCEPT !.pc = "run", !.count = loop.count + 1]
               ELSE [loop EXCEPT !.pc = "done"]
    /\ UNCHANGED <<directive, mission, attempts, order, receipts, deliverables, workers, wrote>>

ExecutiveDone ==
    loop.pc \in {"done", "refused"} /\ UNCHANGED executiveVars

ExecutiveNext ==
    \/ PlanAndGovern \/ PlanOneStep \/ Dispatch \/ DispatchRefused \/ BudgetStops
    \/ \E s \in Plan : WorkerWrites(s)
    \/ \E observed \in {"done", "failed", "unknown", "error"} : WorkerObserved(observed)
    \/ DecideNext \/ ExecutiveDone

ExecutiveSpec == ExecutiveInit /\ [][ExecutiveNext]_executiveVars

-----------------------------------------------------------------------------
(* Properties                                                              *)

\* The mission, its attempts and the loop stay in range.
ExecutiveTypeOK ==
    /\ mission \in {"none", "approved", "running", "paused", "completed", "failed", "stopped"}
    /\ attempts \in [Plan -> {"none", "completed", "failed"}]
    /\ workers \in [Plan -> {"idle", "working", "ended"}] /\ wrote \subseteq Plan
    /\ loop.pc \in {"plan", "run", "wait", "decide", "done", "refused"}

\* A step the mission counts as done was delivered by the worker prompted for
\* it in this mission and has its own completed receipt, and no worker was
\* prompted before everything its step depends on was done so: files of other
\* missions, shared artifact names, shared work ids, late workers and answers
\* lost on the way included (ADR-0057, live_runner.py and canonical_mapper.py).
DeliveredInOrder ==
    \A s \in Plan :
      /\ attempts[s] = "completed" =>
           s \in wrote /\ Receipt(s, "completed") \in receipts
      /\ workers[s] # "idle" => Needs(directive, s) \subseteq CompletedSteps
=============================================================================
