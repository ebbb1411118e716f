-------------------------- MODULE FleetOperations --------------------------
(***************************************************************************)
(* The runtime fleet:                                                      *)
(*   aether_gateway/runtime_operations/service.py    jobs and incidents    *)
(*   aether_gateway/runtime_operations/store.py      their ledger          *)
(*   aether_gateway/runtime_operations/scheduler.py  the polling loop      *)
(*   aether_gateway/runtime_drivers/pack.py          status and receipts   *)
(*   aether_gateway/runtime_drivers/conformance.py   receipt validity      *)
(*                                                                         *)
(* Jobs run one at a time under a lock: each looks at the fleet, opens an  *)
(* incident for every condition it finds and resolves the ones it manages  *)
(* that it did not find.  An incident is known by its fingerprint: kind,   *)
(* driver and details.  Operators answer from other threads, between any   *)
(* two writes of a job.                                                    *)
(***************************************************************************)
EXTENDS Naturals, FiniteSets

CONSTANTS
    Drivers,
    AutoRenew,      \* AETHER_FLEET_AUTO_RENEW
    BudgetLimit,    \* daily_invocation_limit
    MaxSpent,       \* bound on the invocations of a day
    MaxReceipts,    \* bound on the receipts of a driver
    MaxEvents       \* changes of the fleet, operators' requests, failed jobs, crashes

ASSUME FleetAssumption ==
    /\ AutoRenew \in BOOLEAN
    /\ {BudgetLimit, MaxSpent, MaxReceipts, MaxEvents} \subseteq Nat

VARIABLES
    drv,        \* the drivers: CLI and login present, and which executable
    receipt,    \* the latest conformance receipt of each driver
    spent,      \* invocations today
    job,        \* FleetJobKind -> active, or paused
    inc,        \* fingerprint -> incident row with its latest transition
    run,        \* what the holder of the lock is doing
    events

fleetVars == <<drv, receipt, spent, job, inc, run, events>>

Jobs == {"health-probe", "receipt-renewal", "budget-evaluation", "incident-sweep"}

\* Fingerprints by the job that manages them.  Details are part of one: a
\* receipt's number, the count of the day.
Fingerprints(k) ==
    CASE k = "health-probe" ->
            ({"missing", "failed", "expired", "stale", "down"} \X Drivers \X {0})
                \cup {<<"no-route", "fleet", 0>>}
      [] k = "receipt-renewal" -> {"renewal"} \X Drivers \X (1..MaxReceipts)
      [] k = "budget-evaluation" -> {"budget"} \X {"fleet"} \X (0..MaxSpent)
      [] k = "incident-sweep" -> {}
      [] k = "scheduler" -> {"failure"} \X Jobs \X {0}

AllFingerprints == UNION {Fingerprints(k) : k \in Jobs \cup {"scheduler"}}

\* Severity high or critical.
High == {fp \in AllFingerprints :
            fp[1] \in {"no-route", "budget", "failure", "failed", "expired", "stale"}}

NoRun == [pc |-> "free", job |-> "none", todo |-> {}, active |-> {}, due |-> {}]

\* ensure_job: the policy enables every job; a row that is there is kept.
EnsureJobs == [k \in Jobs |-> TRUE]

FleetInit ==
    /\ drv = [d \in Drivers |-> [up |-> TRUE, exe |-> 0]]
    /\ \E n \in 0..1 :      \* conformed before, or not yet
          receipt = [d \in Drivers |-> [n |-> n, ok |-> TRUE, exe |-> 0, age |-> "fresh"]]
    /\ spent = BudgetLimit
    /\ job = EnsureJobs
    /\ inc = [fp \in AllFingerprints |-> [state |-> "none", seen |-> 0, trigger |-> FALSE]]
    /\ run = NoRun
    /\ events = 0

-----------------------------------------------------------------------------
(* What there is to see.                                                   *)

\* RuntimeConformanceStore.validate on the latest receipt.
Conformance(d) ==
    CASE receipt[d].n = 0 -> "missing"
      [] receipt[d].n # 0 /\ ~receipt[d].ok -> "failed"
      [] receipt[d].n # 0 /\ receipt[d].ok /\ receipt[d].age = "expired" -> "expired"
      [] receipt[d].n # 0 /\ receipt[d].ok /\ receipt[d].age # "expired" ->
            IF receipt[d].exe = drv[d].exe THEN "passed" ELSE "stale"

RenewalDue(d) == receipt[d].n # 0 /\ receipt[d].age # "fresh"

RoutingEligible(d) == drv[d].up /\ Conformance(d) = "passed"

BudgetExceeded == spent > BudgetLimit

\* The conditions of each job, from operations_console and _budget_snapshot.
\* A driver without its CLI has no status to validate: it counts as missing.
Holds(fp) ==
    CASE fp[1] = "no-route" -> \A d \in Drivers : ~RoutingEligible(d)
      [] fp[1] = "budget" -> BudgetExceeded /\ fp[3] = spent
      [] fp[1] = "down" -> ~drv[fp[2]].up
      [] fp[1] = "renewal" -> RenewalDue(fp[2]) /\ receipt[fp[2]].n = fp[3]
      [] OTHER -> fp[1] = IF drv[fp[2]].up THEN Conformance(fp[2]) ELSE "missing"

Conditions(k) == {fp \in Fingerprints(k) : Holds(fp)}

-----------------------------------------------------------------------------
(* The ledger.                                                             *)

\* open_incident: a new row, or one more occurrence (counted up to the two
\* the trigger asks for); a resolved incident is opened again.
OpenIncident(i) == [i EXCEPT !.state = IF @ \in {"none", "resolved"} THEN "open" ELSE @,
                             !.seen = IF @ < 2 THEN @ + 1 ELSE @]

Unresolved(fp) == inc[fp].state \in {"open", "acknowledged"}

\* Mutant: incidents of every job are resolved, not only the job's own.
AbsentOfAll(k, active) == {fp \in AllFingerprints : Unresolved(fp) /\ fp \notin active}

\* The incidents resolve_absent finds: unresolved, managed by the job, and
\* not among the conditions it has seen.
Absent(k, active) == {fp \in Fingerprints(k) : Unresolved(fp) /\ fp \notin active}

Event == events < MaxEvents /\ events' = events + 1

-----------------------------------------------------------------------------
(* The scheduler.                                                          *)

\* _run_job_locked: the job looks at the fleet before it writes.
StartJob(k) ==
    /\ run.pc = "free"
    /\ run' = [job |-> k,
               pc |-> CASE k = "incident-sweep" -> "trigger"
                        [] k = "receipt-renewal" -> "renew"
                        [] OTHER -> "open",
               todo |-> CASE k = "incident-sweep" ->
                                {fp \in High : Unresolved(fp) /\ ~inc[fp].trigger /\ inc[fp].seen >= 2}
                          [] k = "receipt-renewal" -> {}
                          [] OTHER -> Conditions(k),
               active |-> Conditions(k),
               due |-> IF k = "receipt-renewal" THEN {d \in Drivers : RenewalDue(d)} ELSE {}]
    /\ UNCHANGED <<drv, receipt, spent, job, inc>>

\* due_jobs: mark_job_scheduled gives an active job its next time, which comes.
Due(k) == job[k]

\* run_due, by the scheduler or an operator: a job whose time has come.  The
\* jobs that are due at one poll run one after another, in the order of their
\* times.
RunDue(k) ==
    /\ Due(k)
    /\ StartJob(k)
    /\ UNCHANGED events

\* RuntimeDriverPack.conform: the receipt of a driver that is up.  A check
\* that fails is recorded too.  The executable was hashed before the
\* handshake was awaited, so it may be the one before a change.
Conform(d, ok, exe) ==
    /\ drv[d].up /\ receipt[d].n < MaxReceipts
    /\ receipt' = [receipt EXCEPT ![d] =
                      [n |-> @.n + 1, ok |-> ok, exe |-> exe, age |-> "fresh"]]

\* renew_due_receipts, one driver.  A passed receipt takes the driver off
\* the list; after a failed one its old receipt keeps it there.
RenewReceipt(d, ok, exe) ==
    /\ run.pc = "renew" /\ AutoRenew /\ d \in run.due
    /\ Conform(d, ok, exe)
    /\ run' = [run EXCEPT !.due = @ \ {d},
                          !.active = IF ok THEN {fp \in @ : fp[2] # d} ELSE @]
    /\ UNCHANGED <<drv, spent, job, inc, events>>

\* The drivers that are still due, by the list read at the start.
QueueRenewals ==
    /\ run.pc = "renew"
    /\ AutoRenew => \A d \in run.due : ~drv[d].up \/ receipt[d].n = MaxReceipts
    /\ run' = [run EXCEPT !.pc = "open", !.todo = @ \cup run.active]
    /\ UNCHANGED <<drv, receipt, spent, job, inc, events>>

\* _open_condition, one condition.
OpenCondition(fp) ==
    /\ run.pc = "open" /\ fp \in run.todo
    /\ inc' = [inc EXCEPT ![fp] = OpenIncident(@)]
    /\ run' = [run EXCEPT !.todo = @ \ {fp}]
    /\ UNCHANGED <<drv, receipt, spent, job, events>>

\* resolve_absent reads the incidents of this job.
ListAbsent ==
    /\ run.pc = "open" /\ run.todo = {}
    /\ run' = [run EXCEPT !.pc = "resolve", !.todo = Absent(run.job, run.active)]
    /\ UNCHANGED <<drv, receipt, spent, job, inc, events>>

\* resolve_absent, one incident.
ResolveAbsent(fp) ==
    /\ run.pc = "resolve" /\ fp \in run.todo
    /\ inc' = [inc EXCEPT ![fp].state = "resolved"]
    /\ run' = [run EXCEPT !.todo = @ \ {fp}]
    /\ UNCHANGED <<drv, receipt, spent, job, events>>

\* Mutant: the trigger is not marked on the incident.
SweepUnmarked(fp) ==
    /\ run.pc = "trigger" /\ fp \in run.todo
    /\ run' = [run EXCEPT !.todo = @ \ {fp}]
    /\ UNCHANGED <<drv, receipt, spent, job, inc, events>>

\* _incident_sweep, one incident: a learning trigger, marked once.
SweepIncident(fp) ==
    /\ run.pc = "trigger" /\ fp \in run.todo
    /\ inc' = [inc EXCEPT ![fp].trigger = TRUE]
    /\ run' = [run EXCEPT !.todo = @ \ {fp}]
    /\ UNCHANGED <<drv, receipt, spent, job, events>>

\* mark_job_scheduled and finish_run.
FinishJob ==
    /\ run.pc \in {"resolve", "trigger"} /\ run.todo = {}
    /\ run' = NoRun
    /\ UNCHANGED <<drv, receipt, spent, job, inc, events>>

\* The job raises: an incident of the scheduler's own, which no job resolves.
JobFails ==
    /\ Event
    /\ run.pc # "free"
    /\ inc' = [inc EXCEPT ![<<"failure", run.job, 0>>] = OpenIncident(@)]
    /\ run' = NoRun
    /\ UNCHANGED <<drv, receipt, spent, job>>

\* The process ends inside a job: the job is still due.
FleetCrash ==
    /\ Event
    /\ run.pc # "free"
    /\ run' = NoRun
    /\ UNCHANGED <<drv, receipt, spent, job, inc>>

-----------------------------------------------------------------------------
(* Operators, on threads of their own.                                     *)

\* transition_incident takes any state to any other: an acknowledgement of a
\* resolved incident opens it again.
TransitionIncident(fp, state) ==
    /\ Event
    /\ inc[fp].state \notin {"none", state}
    /\ inc' = [inc EXCEPT ![fp].state = state]
    /\ UNCHANGED <<drv, receipt, spent, job, run>>

AcknowledgeIncident(fp) == TransitionIncident(fp, "acknowledged")
ResolveIncident(fp) == TransitionIncident(fp, "resolved")

\* POST incidents/{id}/acknowledge and .../resolve.
IncidentRoutes(fp) == AcknowledgeIncident(fp) \/ ResolveIncident(fp)

SetJob(k, active) ==
    /\ job' = [job EXCEPT ![k] = active]
    /\ UNCHANGED <<drv, receipt, spent, inc, run>>

\* update_job: pause or resume.
UpdateJob(k) == Event /\ SetJob(k, ~job[k])

\* run_job: also a paused one.
RunJob(k) == Event /\ ~Due(k) /\ StartJob(k)

\* POST jobs/{kind}/run and PATCH jobs/{kind}.
JobRoutes(k) == RunJob(k) \/ UpdateJob(k)

\* The operator's conformance check, which does not take the lock.
OperatorConform(d, ok) ==
    /\ Event
    /\ Conform(d, ok, drv[d].exe)
    /\ UNCHANGED <<drv, spent, job, inc, run>>

\* POST refresh: the receipts that are due, without the lock, then two jobs.
Refresh ==
    \/ \E d \in Drivers, ok \in BOOLEAN : RenewalDue(d) /\ OperatorConform(d, ok)
    \/ \E k \in {"health-probe", "budget-evaluation"} : RunJob(k)

-----------------------------------------------------------------------------
(* The fleet.                                                              *)

\* A CLI or its login comes or goes; an executable is replaced.
DriverChanges(d, up, exe) ==
    /\ Event
    /\ exe \in {drv[d].exe, 1}
    /\ drv[d] # [up |-> up, exe |-> exe]
    /\ drv' = [drv EXCEPT ![d] = [up |-> up, exe |-> exe]]
    /\ UNCHANGED <<receipt, spent, job, inc, run>>

ReceiptAges(d) ==
    /\ Event
    /\ receipt[d].n # 0 /\ receipt[d].age # "expired"
    /\ receipt' = [receipt EXCEPT ![d].age = IF @ = "fresh" THEN "due" ELSE "expired"]
    /\ UNCHANGED <<drv, spent, job, inc, run>>

\* Invocations, and midnight.
Spend(n) ==
    /\ Event
    /\ n \in {0, spent + 1} /\ n # spent /\ n <= MaxSpent
    /\ spent' = n
    /\ UNCHANGED <<drv, receipt, job, inc, run>>

-----------------------------------------------------------------------------
\* What the holder of the lock does next; a list is gone through in its order.
JobStep ==
    \/ \E d \in Drivers, ok \in BOOLEAN : \E exe \in 0..drv[d].exe : RenewReceipt(d, ok, exe)
    \/ QueueRenewals
    \/ run.todo # {} /\ LET fp == CHOOSE x \in run.todo : TRUE
                       IN OpenCondition(fp) \/ ResolveAbsent(fp) \/ SweepIncident(fp)
    \/ ListAbsent
    \/ FinishJob

FleetNext ==
    \/ \E k \in Jobs : RunDue(k) \/ JobRoutes(k)
    \/ JobStep \/ JobFails \/ FleetCrash
    \/ \E fp \in AllFingerprints : IncidentRoutes(fp)
    \/ \E d \in Drivers, ok \in BOOLEAN : OperatorConform(d, ok)
    \/ Refresh
    \/ \E d \in Drivers, up \in BOOLEAN, exe \in 0..1 : DriverChanges(d, up, exe)
    \/ \E d \in Drivers : ReceiptAges(d)
    \/ \E n \in 0..MaxSpent : Spend(n)

\* run_forever polls for ever, whatever run_once raised, and every active job
\* comes due again and again (strong fairness: jobs hold the lock in turn);
\* a job's steps go on.
FleetFairness ==
    /\ \A k \in Jobs : SF_fleetVars(RunDue(k))
    /\ WF_fleetVars(JobStep)

FleetSpec == FleetInit /\ [][FleetNext]_fleetVars /\ FleetFairness

-----------------------------------------------------------------------------
(* Properties.                                                             *)

\* Once the fleet and its operators come to rest, the incident list agrees
\* with the fleet: an incident is unresolved exactly if its condition holds,
\* whatever jobs failed, were cut off, or were overtaken by an operator's
\* answer before (a job that stays paused is excepted).  resolve_absent by
\* one job must leave the others' incidents alone.
IncidentsSettle ==
    \A k \in Jobs : \A fp \in Fingerprints(k) :
        <>[](job[k]) => <>[](Unresolved(fp) <=> Holds(fp))

\* A severe condition that does not go away becomes a learning trigger: its
\* incident is seen again, also across an operator's resolution, and swept.
PersistentTroubleTriggers ==
    \A k \in Jobs : \A fp \in Fingerprints(k) \cap High :
        (<>[](job[k] /\ job["incident-sweep"] /\ Holds(fp)))
            => <>(inc[fp].trigger)
=============================================================================
