------------------------- MODULE MissionOrchestrator -------------------------
(***************************************************************************)
(* One mission of Aether core, from its plan to its outcome:               *)
(*   aether/missions/orchestrator.py  MissionOrchestrator                  *)
(*   aether/missions/store.py         SQLiteMissionStore (append only)     *)
(*   aether_gateway/missions/execution.py  GovernedMissionActionAdapter    *)
(*                                                                         *)
(* run() is a coroutine that awaits only the execution of a step; between  *)
(* two awaits it is one step of the model.  The gateway starts run(),      *)
(* pause() and cancel() from HTTP handlers that know nothing of each       *)
(* other.  Overlaps names what the environment may do on top of one        *)
(* operator who waits for each answer:                                     *)
(*   "run"    start a run while another is in flight                       *)
(*   "control" pause or cancel while a run is in flight                    *)
(*   "review" pause a mission that is still under review                   *)
(*   "decide" decide on a mission that has left the review                 *)
(*   "crash"  stop the process, or drop the request, during a step         *)
(***************************************************************************)
EXTENDS Naturals, FiniteSets

CONSTANTS
    N,                \* number of steps; a step is its step_order
    Deps,             \* depends_on
    Gated,            \* steps whose action needs trusted approval
    MaxAttempts,      \* max_attempts of each step
    StopOnFailure,    \* steps with stop_on_failure
    RetryReason,      \* steps with an explicit_retry_reason
    Cost, MaxCost,    \* estimated_cost_usd and the plan's max_cost_usd
    MaxStepAttempts,  \* the plan's max_step_attempts
    StepsPerRun,      \* maximum_steps_per_run
    Runs,             \* calls of run()
    None,
    Overlaps

Steps == 1..N

\* validate_plan: positive attempts, no negative cost, known dependencies
\* without a cycle (a step may come before one that it depends on).
ValidPlan ==
    /\ N > 0
    /\ Deps \in [Steps -> SUBSET Steps]
    /\ \E rank \in [Steps -> Steps] : \A s \in Steps : \A d \in Deps[s] : rank[d] < rank[s]
    /\ MaxAttempts \in [Steps -> Nat \ {0}]
    /\ Cost \in [Steps -> Nat]
    /\ MaxStepAttempts > 0

ASSUME MissionAssumption ==
    /\ {N, MaxCost, MaxStepAttempts, StepsPerRun} \subseteq Nat /\ StepsPerRun > 0
    /\ Gated \subseteq Steps /\ StopOnFailure \subseteq Steps /\ RetryReason \subseteq Steps
    /\ ValidPlan
    /\ None \notin {"approve", "reject"}

VARIABLES
    status,    \* the last mission_transitions row
    decision,  \* the mission_decisions row
    attempts,  \* mission_step_attempts, in insertion order by row
    clock,     \* started_at of the next step execution
    overtime,  \* max_duration_seconds has passed since the first RUNNING
    outcome,   \* the mission_outcomes row: is there one
    pc, cur, did, got,   \* runs: where each is, its step, its count, the result
    completions, \* how often the action of a step was carried out and said so
    effects,   \* how often it took effect, whatever was said of it
    approval   \* the approval row of a step's action

storeVars == <<status, decision, attempts, outcome>>
runVars == <<pc, cur, did, got>>
vars == <<storeVars, clock, overtime, runVars, completions, effects, approval>>

Terminal == {"rejected", "completed", "failed", "cancelled", "stopped"}
MissionStatuses == Terminal \cup
    {"review_required", "approved", "running", "waiting_approval", "paused"}
Attempt == [row : Nat, step : Steps, number : Nat, at : Nat,
            st : {"waiting", "completed", "failed"}]

TypeOK ==
    /\ status \in MissionStatuses
    /\ decision \in {"approve", "reject", None}
    /\ attempts \subseteq Attempt
    /\ clock \in Nat
    /\ overtime \in BOOLEAN
    /\ outcome \in BOOLEAN
    /\ pc \in [Runs -> {"idle", "executing", "returned", "done", "lost"}]
    /\ cur \in [Runs -> [step : Steps, number : Nat, at : Nat] \cup {None}]
    /\ did \in [Runs -> 0..StepsPerRun]
    /\ got \in [Runs -> {"pending", "ok", "failed", None}]
    /\ {completions, effects} \subseteq [Steps -> Nat]
    /\ approval \in [Steps -> {"new", "asked", "ok", "failed", "refused"}]

\* create_plan has validated and stored the plan and asked for its review.
Init ==
    /\ status = "review_required"
    /\ decision = None
    /\ attempts = {}
    /\ clock = 0
    /\ overtime = FALSE
    /\ outcome = FALSE
    /\ pc = [r \in Runs |-> "idle"]
    /\ cur = [r \in Runs |-> None]
    /\ did = [r \in Runs |-> 0]
    /\ got = [r \in Runs |-> None]
    /\ completions = [s \in Steps |-> 0]
    /\ effects = [s \in Steps |-> 0]
    /\ approval = [s \in Steps |-> "new"]

-----------------------------------------------------------------------------
(* What the orchestrator reads from its store                              *)

\* ORDER BY started_at, rowid.
After(x, y) == x.at > y.at \/ (x.at = y.at /\ x.row > y.row)
LastOf(S) == CHOOSE x \in S : \A y \in S \ {x} : After(x, y)

AttemptsOn(att, s) == {x \in att : x.step = s}
LatestIs(att, s, st) ==
    AttemptsOn(att, s) # {} /\ LastOf(AttemptsOn(att, s)).st = st

Completed(att) == {s \in Steps : LatestIs(att, s, "completed")}

NextAttemptNumber(att, s) ==
    LET numbers == {x.number : x \in AttemptsOn(att, s)}
    IN IF numbers = {} THEN 1 ELSE 1 + CHOOSE n \in numbers : \A m \in numbers : m <= n


\* _next_step: steps whose dependencies are completed, the first in step order.
Ready(att) == {s \in Steps \ Completed(att) : Deps[s] \subseteq Completed(att)}

NextStep(att) == CHOOSE s \in Ready(att) : \A t \in Ready(att) : s <= t

\* _budget_blockers: attempts count once per step and attempt number.
UniqueAttempts(att) == {<<x.step, x.number>> : x \in att}

Spent(att) ==
    LET part[k \in 0..N] ==
          IF k = 0 THEN 0
          ELSE part[k - 1] + Cost[k] * Cardinality({u \in UniqueAttempts(att) : u[1] = k})
    IN part[N]

BudgetBlocked(att) ==
    \/ Spent(att) > MaxCost
    \/ Cardinality(UniqueAttempts(att)) >= MaxStepAttempts
    \/ overtime

AddAttempt(att, c, st) ==
    att \cup {[row |-> Cardinality(att), step |-> c.step, number |-> c.number,
               at |-> c.at, st |-> st]}

\* transition: the last row is the status.
Transition(to) == status' = to

\* add_decision: one row for a mission.
AddDecision(answer) == decision' = IF decision = None THEN answer ELSE decision

-----------------------------------------------------------------------------
(* run()                                                                   *)

InFlight == \E r \in Runs : pc[r] \in {"executing", "returned"}
Alone(overlap) == ~InFlight \/ overlap \in Overlaps

\* Mutant: a failed step is repeated without a reason.
VerdictWithoutReason(att, n) ==
    IF Completed(att) = Steps THEN "completed"
    ELSE IF n >= StepsPerRun THEN "paused"
    ELSE IF BudgetBlocked(att) \/ Ready(att) = {} THEN "stopped"
    ELSE LET s == NextStep(att)
         IN IF LatestIs(att, s, "failed") /\ NextAttemptNumber(att, s) > MaxAttempts[s]
            THEN "failed" ELSE "go"

\* What the loop of run() decides at its head, after n steps in this run.
Verdict(att, n) ==
    IF Completed(att) = Steps THEN "completed"
    ELSE IF n >= StepsPerRun THEN "paused"
    ELSE IF BudgetBlocked(att) \/ Ready(att) = {} THEN "stopped"
    ELSE LET s == NextStep(att)
         IN IF ~LatestIs(att, s, "failed") THEN "go"
            ELSE IF NextAttemptNumber(att, s) > MaxAttempts[s] THEN "failed"
            ELSE IF s \notin RetryReason THEN "paused"
            ELSE "go"

\* The loop either ends the run with a transition or starts the next step,
\* which leaves the status as it finds it.
Loop(r, att, n, found) ==
    /\ attempts' = att
    /\ \/ /\ Verdict(att, n) = "go"
          /\ status' = found
          /\ pc' = [pc EXCEPT ![r] = "executing"]
          /\ cur' = [cur EXCEPT ![r] =
                       [step |-> NextStep(att),
                        number |-> NextAttemptNumber(att, NextStep(att)),
                        at |-> clock]]
          /\ clock' = clock + 1
       \/ /\ Verdict(att, n) # "go"
          /\ Transition(Verdict(att, n))
          /\ pc' = [pc EXCEPT ![r] = "done"]
          /\ UNCHANGED <<cur, clock>>
    /\ did' = [did EXCEPT ![r] = n]
    /\ got' = [got EXCEPT ![r] = None]

EndRun(r, att, to) ==
    /\ attempts' = att
    /\ Transition(to)
    /\ pc' = [pc EXCEPT ![r] = "done"]
    /\ UNCHANGED <<cur, did, got, clock>>

\* The budget is checked once before the loop, even if nothing is left to do.
EnterLoop(r, att) ==
    IF BudgetBlocked(att) THEN EndRun(r, att, "stopped")
    ELSE Loop(r, att, 0, "running")

\* A terminal mission is left alone; one under review blocks the run.
RunRefused(r) ==
    /\ pc[r] = "idle"
    /\ Alone("run")
    /\ status \in Terminal \cup {"review_required"}
    /\ pc' = [pc EXCEPT ![r] = "done"]
    /\ UNCHANGED <<storeVars, clock, overtime, cur, did, got, completions, effects, approval>>

\* Mutant: a mission under review is run.
StartUnreviewed(r) ==
    /\ pc[r] = "idle"
    /\ Alone("run")
    /\ status \in {"review_required", "approved", "paused", "running"}
    /\ EnterLoop(r, attempts)
    /\ UNCHANGED <<decision, overtime, outcome, completions, effects, approval>>

StartRun(r) ==
    /\ pc[r] = "idle"
    /\ Alone("run")
    /\ status \in {"approved", "paused", "running"}
    /\ EnterLoop(r, attempts)
    /\ UNCHANGED <<decision, overtime, outcome, completions, effects, approval>>

\* Mutant: any settled approval counts as success.
ResumeAnyAnswer(r) ==
    /\ pc[r] = "idle"
    /\ Alone("run")
    /\ status = "waiting_approval"
    /\ LET item == LastOf({x \in attempts : x.st = "waiting"})
       IN /\ approval[item.step] # "asked"
          /\ EnterLoop(r, AddAttempt(attempts, item, "completed"))
    /\ UNCHANGED <<decision, overtime, outcome, completions, effects, approval>>

\* _resume_waiting_approval: the last waiting attempt is settled by the
\* cached result of its approval, or the mission goes on waiting.
ResumeWaiting(r) ==
    /\ pc[r] = "idle"
    /\ Alone("run")
    /\ status = "waiting_approval"
    /\ LET item == LastOf({x \in attempts : x.st = "waiting"})
           row == approval[item.step]
       IN \/ /\ row = "asked"
             /\ EndRun(r, attempts, status)
          \/ /\ row = "ok"
             /\ EnterLoop(r, AddAttempt(attempts, item, "completed"))
          \/ /\ row \in {"failed", "refused"}
             /\ EndRun(r, AddAttempt(attempts, item, "failed"), "failed")
    /\ UNCHANGED <<decision, overtime, outcome, completions, effects, approval>>

\* The governed action path answers.  A gated action finds or creates its
\* approval row by action_id, the others run.  Both may be refused before they
\* start; and a backend that raises or times out is reported failed, whether or
\* not it had taken effect by then.
ExecuteStep(r) ==
    /\ pc[r] = "executing"
    /\ LET s == cur[r].step
       IN \/ /\ s \in Gated
             /\ approval' = [approval EXCEPT ![s] = IF @ = "new" THEN "asked" ELSE @]
             /\ got' = [got EXCEPT ![r] = "pending"]
             /\ UNCHANGED <<completions, effects>>
          \/ /\ s \notin Gated
             /\ completions' = [completions EXCEPT ![s] = @ + 1]
             /\ effects' = [effects EXCEPT ![s] = @ + 1]
             /\ got' = [got EXCEPT ![r] = "ok"]
             /\ UNCHANGED approval
          \/ /\ got' = [got EXCEPT ![r] = "failed"]
             /\ \/ s \notin Gated /\ effects' = [effects EXCEPT ![s] = @ + 1]
                \/ UNCHANGED effects
             /\ UNCHANGED <<completions, approval>>
    /\ pc' = [pc EXCEPT ![r] = "returned"]
    /\ UNCHANGED <<storeVars, clock, overtime, cur, did>>

\* run() records the attempt and goes on, whatever happened meanwhile.
StepReturns(r) ==
    /\ pc[r] = "returned"
    /\ LET s == cur[r].step
           next == did[r] + 1
       IN \/ /\ got[r] = "pending"
             /\ EndRun(r, AddAttempt(attempts, cur[r], "waiting"), "waiting_approval")
          \/ /\ got[r] = "ok"
             /\ Loop(r, AddAttempt(attempts, cur[r], "completed"), next, status)
          \/ /\ got[r] = "failed"
             /\ IF s \in StopOnFailure \/ cur[r].number >= MaxAttempts[s]
                THEN EndRun(r, AddAttempt(attempts, cur[r], "failed"), "failed")
                ELSE Loop(r, AddAttempt(attempts, cur[r], "failed"), next, status)
    /\ UNCHANGED <<decision, overtime, outcome, completions, effects, approval>>

-----------------------------------------------------------------------------
(* Operators and the environment                                           *)

\* decide: the first decision is recorded and moves the mission, whatever
\* its status; a repeated one is answered from the record.
Decide(answer) ==
    /\ decision = None
    /\ status = "review_required" \/ "decide" \in Overlaps
    /\ AddDecision(answer)
    /\ Transition(IF answer = "approve" THEN "approved" ELSE "rejected")
    /\ UNCHANGED <<attempts, clock, overtime, outcome, runVars, completions, effects, approval>>

Pause ==
    /\ Alone("control")
    /\ status \notin Terminal
    /\ status = "review_required" => "review" \in Overlaps
    /\ Transition("paused")
    /\ UNCHANGED <<decision, attempts, clock, overtime, outcome, runVars, completions, effects, approval>>

Cancel ==
    /\ Alone("control")
    /\ status # "completed"
    /\ Transition("cancelled")
    /\ UNCHANGED <<decision, attempts, clock, overtime, outcome, runVars, completions, effects, approval>>

\* finalize: once, on a mission whose execution is over.
Finalize ==
    /\ status \in Terminal \ {"rejected"}
    /\ ~outcome
    /\ outcome' = TRUE
    /\ UNCHANGED <<status, decision, attempts, clock, overtime, runVars, completions, effects, approval>>

\* The founder answers the approval of a step's action (GovernedActions); one
\* that is carried out and fails may have taken effect.
SettleApproval(s, answer) ==
    /\ approval[s] = "asked"
    /\ approval' = [approval EXCEPT ![s] = answer]
    /\ completions' = [completions EXCEPT ![s] = IF answer = "ok" THEN @ + 1 ELSE @]
    /\ \/ answer # "refused" /\ effects' = [effects EXCEPT ![s] = @ + 1]
       \/ answer # "ok" /\ UNCHANGED effects
    /\ UNCHANGED <<storeVars, clock, overtime, runVars>>

\* max_duration_seconds passes after the mission has started.
DurationPasses ==
    /\ ~overtime
    /\ clock > 0
    /\ overtime' = TRUE
    /\ UNCHANGED <<storeVars, clock, runVars, completions, effects, approval>>

\* The process stops or the request is dropped while a step is awaited; the
\* shielded execution may or may not have taken effect.
Crash(r) ==
    /\ "crash" \in Overlaps
    /\ pc[r] \in {"executing", "returned"}
    /\ pc' = [pc EXCEPT ![r] = "lost"]
    /\ UNCHANGED <<storeVars, clock, overtime, cur, did, got, completions, effects, approval>>

-----------------------------------------------------------------------------

\* The routes of the gateway: run and resume, approve and reject, pause and
\* cancel.
RunRoute(r) == RunRefused(r) \/ StartRun(r) \/ ResumeWaiting(r)
DecisionRoute == \E answer \in {"approve", "reject"} : Decide(answer)
ControlRoutes == Pause \/ Cancel

Next ==
    \/ \E r \in Runs : RunRoute(r) \/ ExecuteStep(r) \/ StepReturns(r) \/ Crash(r)
    \/ DecisionRoute
    \/ ControlRoutes
    \/ Finalize
    \/ \E s \in Steps, answer \in {"ok", "failed", "refused"} : SettleApproval(s, answer)
    \/ DurationPasses

Spec == Init /\ [][Next]_vars

-----------------------------------------------------------------------------
(* Properties                                                              *)

\* No step of a mission is executed before a trusted principal has approved
\* its plan (run() blocks a mission under review).
ApprovedBeforeExecution ==
    clock > 0 => decision = "approve"

\* How often the action of a step may take effect: once, except that a plan can
\* give a reason to repeat a failed one, up to its max_attempts.  An action that
\* needs approval is never repeated.
Allowed(s) == IF s \in RetryReason \ Gated THEN MaxAttempts[s] ELSE 1

\* What a step has carried out is never carried out again, and what it did in
\* attempts that were reported failed is repeated only as the plan allows:
\* pausing, resuming from an approval, retrying and restarting repeat no side
\* effect beyond that.
StepEffectOnce == \A s \in Steps : completions[s] <= 1 /\ effects[s] <= Allowed(s)

\* No step is proposed or takes effect before the steps it depends on have been
\* carried out.
DependenciesFirst ==
    \A s \in Steps :
        (effects[s] > 0 \/ approval[s] # "new" \/ AttemptsOn(attempts, s) # {})
            => \A d \in Deps[s] : completions[d] > 0

\* A step that the store reports completed was carried out, and it was so after
\* the steps it depends on, however runs of the mission overlap.
CompletedTruthful ==
    /\ \A s \in Completed(attempts) : completions[s] > 0 /\ effects[s] > 0
    /\ DependenciesFirst

\* What a mission sees of the approvals of its steps: see ApprovalAnswer.
Inquiry == INSTANCE ApprovalAnswer WITH
    answer <- [s \in Gated |-> approval[s]],
    completed <- [s \in Gated |-> completions[s] > 0]

\* A mission counts on nothing of an approval but what ApprovalAnswer says, and
\* asks for it once, however its runs overlap.
KeepsToAnswers == Inquiry!Spec
=============================================================================
