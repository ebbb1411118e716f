--------------------------- MODULE GovernedActions ---------------------------
(***************************************************************************)
(* The governed action path and the trusted approval inbox of Aether core: *)
(*   aether/actions/path.py      GovernedActionPath                        *)
(*   aether/actions/approval.py  PendingActionStore, TrustedApprovalInbox  *)
(*   aether/actions/failure.py   FailureFingerprintStore                   *)
(*   aether/governance/actions.py  ActionGovernor                          *)
(*                                                                         *)
(* A request is one call of execute() or of decide_and_resume(); a control *)
(* is one call of cancel_action() or reconcile_action().  Both are used    *)
(* once, so the number of calls in a behaviour is bounded by the sets.     *)
(* A step of the model runs from one store transaction or await to the     *)
(* next.  An approval row is identified by its action_id, which is UNIQUE  *)
(* in pending_actions; the action hash of a proposal is the proposal.      *)
(***************************************************************************)
EXTENDS Naturals, FiniteSets

CONSTANTS
    Actions,       \* action ids
    Requests,      \* calls of execute() and decide_and_resume()
    Controls,      \* calls of cancel_action() and reconcile_action()
    ControlIds,    \* control_request_id values
    None,          \* no value
    Browser,       \* actions proposed in a browser session: the only ones the
                   \* founder controls reach; their ids are new with each turn
    Tools,         \* actions whose target is TOOL: they are validated first
    AutoApproved,  \* actions an auto_approve rule of the policy matches
    Vetoed,        \* actions the governor denies whatever the approval
    Cancelable,    \* actions whose backend declares cancellation
    Signature,     \* action_signature: target, operation, arguments, scopes
    Ttl,           \* approval_ttl_seconds
    MaxTime,       \* bound on the clock
    Faults         \* a subset of {"crash", "drop"}

ASSUME ConstantsAssumption ==
    /\ None \notin Actions \cup Requests \cup Controls \cup ControlIds
    /\ Browser \subseteq Actions
    /\ Tools \subseteq Actions
    /\ AutoApproved \subseteq Actions
    /\ Vetoed \subseteq Actions \ AutoApproved
    /\ Cancelable \subseteq Actions
    /\ Ttl \in Nat \ {0}
    /\ MaxTime \in Nat

VARIABLES
    now,        \* the clock
    (* pending_actions and approval_records *)
    status, held, expires, result, records,
    (* the event journal, per action: the event types seen and the latest
       terminal event, which is what _terminal_event returns *)
    seen, last,
    (* signatures with an unresolved failure fingerprint *)
    open,
    (* requests: where each call is, what it carries *)
    pc, via, prop,
    (* execution tasks and the _active_executions registry *)
    task, outcome, started, active,
    (* control calls, and the action each control_request_id is bound to *)
    ctl, ctlOf, ctlOn, ctlTask, receipt, bound

storeVars == <<status, held, expires, result, records>>
journalVars == <<seen, last>>
requestVars == <<pc, via, prop>>
taskVars == <<task, outcome, started, active>>
controlVars == <<ctl, ctlOf, ctlOn, ctlTask, receipt, bound>>
vars == <<now, storeVars, journalVars, open, requestVars, taskVars, controlVars>>

Statuses == {"absent", "pending", "approved", "rejected", "expired",
             "executing", "consumed"}
Results == {"completed", "failed", "canceled", "denied", "retry-blocked",
            "preflight-failed"}

\* An execution that returns nothing has no result.
ASSUME NoneIsNoResult == None \notin Results

\* A proposal: its action_id and whether it carries a retry_reason.
Proposals == [id : Actions, retry : BOOLEAN]

\* The event types after which _terminal_event reports an action as settled.
TerminalTypes == {"COMPLETED", "FAILED", "CANCELED", "PREFLIGHT_FAILED",
                  "GOVERNANCE_REJECTED", "APPROVAL_REJECTED",
                  "APPROVAL_EXPIRED", "RETRY_BLOCKED"}
\* The other event types that the code reads back, or that a property needs.
EventTypes == TerminalTypes \cup
    {"PROPOSED", "EXECUTION_REQUESTED", "CANCEL_INTENT_RECORDED",
     "RECONCILIATION_REQUESTED", "LATE_RESULT_DISCARDED"}

StoreType ==
    /\ status \in [Actions -> Statuses]
    /\ held \in [Actions -> Proposals \cup {None}]
    /\ expires \in [Actions -> Nat]
    /\ result \in [Actions -> Results \cup {None}]
    /\ records \subseteq [approval : Actions, approved : BOOLEAN, by : Requests]

JournalType ==
    /\ seen \in [Actions -> SUBSET EventTypes]
    /\ last \in [Actions -> TerminalTypes \cup {None}]
    /\ open \subseteq {Signature[a] : a \in Actions}

RequestType ==
    /\ pc \in [Requests -> {"idle", "decided", "preflight", "waiting", "done", "lost"}]
    /\ via \in [Requests -> {"direct", "approval"}]
    /\ prop \in [Requests -> Proposals \cup {None}]

TaskType ==
    /\ task \in [Requests -> {"none", "running", "cancelling", "ended", "lost"}]
    /\ outcome \in [Requests -> Results \cup {None}]
    /\ started \in [Requests -> 0..MaxTime]
    /\ active \in [Actions -> Requests \cup {None}]

ControlType ==
    /\ ctl \in [Controls -> {"idle", "checking", "cancelling", "done", "lost"}]
    /\ ctlOf \in [Controls -> ControlIds \cup {None}]
    /\ ctlOn \in [Controls -> Actions \cup {None}]
    /\ ctlTask \in [Controls -> Requests \cup {None}]
    /\ receipt \in [Controls -> {"none", "conflict", "unsupported", "canceled",
                                 "not-confirmed", "terminal", "replayed"}]
    /\ bound \in [ControlIds -> Actions \cup {None}]

TypeOK ==
    /\ now \in 0..MaxTime
    /\ StoreType
    /\ JournalType
    /\ RequestType
    /\ TaskType
    /\ ControlType

Init ==
    /\ now = 0
    /\ status = [a \in Actions |-> "absent"]
    /\ held = [a \in Actions |-> None]
    /\ expires = [a \in Actions |-> 0]
    /\ result = [a \in Actions |-> None]
    /\ records = {}
    /\ seen = [a \in Actions |-> {}]
    /\ last = [a \in Actions |-> None]
    /\ open = {}
    /\ pc = [r \in Requests |-> "idle"]
    /\ via = [r \in Requests |-> "direct"]
    /\ prop = [r \in Requests |-> None]
    /\ task = [r \in Requests |-> "none"]
    /\ outcome = [r \in Requests |-> None]
    /\ started = [r \in Requests |-> 0]
    /\ active = [a \in Actions |-> None]
    /\ ctl = [c \in Controls |-> "idle"]
    /\ ctlOf = [c \in Controls |-> None]
    /\ ctlOn = [c \in Controls |-> None]
    /\ ctlTask = [c \in Controls |-> None]
    /\ receipt = [c \in Controls |-> "none"]
    /\ bound = [i \in ControlIds |-> None]

-----------------------------------------------------------------------------
(* The event bus: an append-only journal, read back per action.            *)

Emit(a, types) ==
    /\ seen' = [seen EXCEPT ![a] = @ \cup types]
    /\ UNCHANGED last

EmitTerminal(a, type, types) ==
    /\ seen' = [seen EXCEPT ![a] = @ \cup types \cup {type}]
    /\ last' = [last EXCEPT ![a] = type]

-----------------------------------------------------------------------------
(* GovernedActionPath.execute                                              *)

\* Mutant: only a completed result is written back to the approval.
FinalizeOnlySuccess(r, res) ==
    LET a == prop[r].id
        finalizes == via[r] = "approval" /\ status[a] = "executing" /\ res = "completed"
    IN /\ pc' = [pc EXCEPT ![r] = "done"]
       /\ status' = IF finalizes THEN [status EXCEPT ![a] = "consumed"] ELSE status
       /\ result' = IF finalizes THEN [result EXCEPT ![a] = res] ELSE result
       /\ UNCHANGED <<held, expires, records, via, prop>>

\* execute() returns res to its caller.  decide_and_resume finalizes the
\* approval with it before anything else can run: executing becomes consumed.
Return(r, res) ==
    LET a == prop[r].id
        finalizes == via[r] = "approval" /\ status[a] = "executing"
    IN /\ pc' = [pc EXCEPT ![r] = "done"]
       /\ status' = IF finalizes THEN [status EXCEPT ![a] = "consumed"] ELSE status
       /\ result' = IF finalizes THEN [result EXCEPT ![a] = res] ELSE result
       /\ UNCHANGED <<held, expires, records, via, prop>>

\* A caller proposes p without an approval; _preflight is awaited.  The id of
\* a browser action is fresh; a mission proposes the action of a step again.
Propose(r, p) ==
    /\ pc[r] = "idle"
    /\ p.id \in Browser => "PROPOSED" \notin seen[p.id]
    /\ pc' = [pc EXCEPT ![r] = "preflight"]
    /\ via' = [via EXCEPT ![r] = "direct"]
    /\ prop' = [prop EXCEPT ![r] = p]
    /\ Emit(p.id, {"PROPOSED"})
    /\ UNCHANGED <<now, storeVars, open, taskVars, controlVars>>

\* validate_tool refuses the operation or its arguments, or raises.
PreflightFails(r) ==
    /\ pc[r] = "preflight"
    /\ prop[r].id \in Tools
    /\ EmitTerminal(prop[r].id, "PREFLIGHT_FAILED", {})
    /\ Return(r, "preflight-failed")
    /\ UNCHANGED <<now, open, taskVars, controlVars>>

\* An open failure of the same signature and no retry_reason.
RetryIsBlocked(r) ==
    Signature[prop[r].id] \in open /\ ~prop[r].retry

RetryBlocked(r) ==
    /\ pc[r] = "preflight"
    /\ RetryIsBlocked(r)
    /\ EmitTerminal(prop[r].id, "RETRY_BLOCKED", {})
    /\ Return(r, "retry-blocked")
    /\ UNCHANGED <<now, open, taskVars, controlVars>>

\* ActionGovernor.review: the approval carried by r is the claimed row of its
\* action.  It must be bound to the exact proposal and not have expired.
AnyAgeApproved(r) == \* Mutant: the expiry is not checked again on resumption.
    via[r] = "approval" /\ held[prop[r].id] = prop[r]

HumanApproved(r) ==
    /\ via[r] = "approval"
    /\ held[prop[r].id] = prop[r]
    /\ now < expires[prop[r].id]

ReviewMode(r) ==
    IF prop[r].id \in Vetoed THEN "denied"
    ELSE IF prop[r].id \in AutoApproved THEN "auto-approved"
    ELSE IF via[r] = "direct" THEN "approval-required"
    ELSE IF HumanApproved(r) THEN "human-approved"
    ELSE "denied"

Denied(r) ==
    /\ pc[r] = "preflight"
    /\ ~RetryIsBlocked(r)
    /\ ReviewMode(r) = "denied"
    /\ EmitTerminal(prop[r].id, "GOVERNANCE_REJECTED", {})
    /\ Return(r, "denied")
    /\ UNCHANGED <<now, open, taskVars, controlVars>>

\* Mutant: an expired or rejected row is opened again by a new proposal.
ReopenRow(a, p) ==
    /\ status' = [status EXCEPT ![a] =
                     IF @ \in {"absent", "expired", "rejected"} THEN "pending" ELSE @]
    /\ held' = [held EXCEPT ![a] = p]
    /\ expires' = [expires EXCEPT ![a] = now + Ttl]

\* PendingActionStore.create_or_get: a row with this action_id is returned as
\* it stands, whatever its status; otherwise p is stored as pending.
CreateOrGet(a, p) ==
    \/ /\ status[a] = "absent"
       /\ status' = [status EXCEPT ![a] = "pending"]
       /\ held' = [held EXCEPT ![a] = p]
       /\ expires' = [expires EXCEPT ![a] = now + Ttl]
    \/ /\ status[a] # "absent"
       /\ UNCHANGED <<status, held, expires>>

RequestApproval(r) ==
    /\ pc[r] = "preflight"
    /\ ~RetryIsBlocked(r)
    /\ ReviewMode(r) = "approval-required"
    /\ CreateOrGet(prop[r].id, prop[r])
    /\ pc' = [pc EXCEPT ![r] = "done"]
    /\ UNCHANGED <<now, result, records, journalVars, open, via, prop,
                   taskVars, controlVars>>

\* The decision approves: the execution task is created and registered, and
\* the request waits on it behind asyncio.shield.
Dispatch(r) ==
    /\ pc[r] = "preflight"
    /\ ~RetryIsBlocked(r)
    /\ ReviewMode(r) \in {"auto-approved", "human-approved"}
    /\ Emit(prop[r].id, {"EXECUTION_REQUESTED"})
    /\ pc' = [pc EXCEPT ![r] = "waiting"]
    /\ task' = [task EXCEPT ![r] = "running"]
    /\ started' = [started EXCEPT ![r] = now]
    /\ active' = [active EXCEPT ![prop[r].id] = r]
    /\ UNCHANGED <<now, storeVars, open, via, prop, outcome, controlVars>>

-----------------------------------------------------------------------------
(* GovernedActionPath._complete_execution                                  *)

\* The done callback forgets the registration only if it is still this task.
EndTask(r, res) ==
    /\ task' = [task EXCEPT ![r] = "ended"]
    /\ outcome' = [outcome EXCEPT ![r] = res]
    /\ active' = [a \in Actions |-> IF active[a] = r THEN None ELSE active[a]]
    /\ UNCHANGED started

NeverLate(a) == FALSE \* Mutant: the journal is not consulted after the await.

\* The journal says the action was canceled while its backend ran.
IsLate(a) == last[a] = "CANCELED"

\* The backend answers.  A canceled action discards the late result.
BackendReturns(r, ok) ==
    /\ task[r] \in {"running", "cancelling"}
    /\ LET a == prop[r].id
           sig == Signature[a]
       IN \/ /\ IsLate(a)
             /\ Emit(a, {"LATE_RESULT_DISCARDED"})
             /\ EndTask(r, "canceled")
             /\ UNCHANGED open
          \/ /\ ~IsLate(a)
             /\ ok
             /\ open' = open \ {sig}
             /\ EmitTerminal(a, "COMPLETED", {})
             /\ EndTask(r, "completed")
          \/ /\ ~IsLate(a)
             /\ ~ok
             /\ open' = open \cup {sig}
             /\ EmitTerminal(a, "FAILED", {})
             /\ EndTask(r, "failed")
    /\ UNCHANGED <<now, storeVars, requestVars, controlVars>>

\* task.cancel() lands in the awaited backend: the CancelledError becomes a
\* canceled result if the action is canceled, otherwise it is re-raised.
TaskCancelled(r) ==
    /\ task[r] = "cancelling"
    /\ EndTask(r, IF IsLate(prop[r].id) THEN "canceled" ELSE None)
    /\ UNCHANGED <<now, storeVars, journalVars, open, requestVars, controlVars>>

\* The waiter takes the task's result and execute() returns it.  A re-raised
\* CancelledError passes through decide_and_resume before finalize.
WaiterResumes(r) ==
    /\ pc[r] = "waiting"
    /\ task[r] = "ended"
    /\ IF outcome[r] # None
       THEN Return(r, outcome[r])
       ELSE /\ pc' = [pc EXCEPT ![r] = "done"]
            /\ UNCHANGED <<storeVars, via, prop>>
    /\ UNCHANGED <<now, journalVars, open, taskVars, controlVars>>

-----------------------------------------------------------------------------
(* PendingActionStore.decide, claim and TrustedApprovalInbox               *)

\* decide(): an expired pending row is marked expired; a pending one gets
\* its immutable record; any other row is returned as it stands, and
\* decide_and_resume sorts the cases out.
Decide(r, a, approved) ==
    /\ pc[r] = "idle"
    /\ status[a] # "absent"
    /\ prop' = [prop EXCEPT ![r] = held[a]]
    /\ via' = [via EXCEPT ![r] = "approval"]
    /\ \/ /\ status[a] = "pending"
          /\ expires[a] <= now
          /\ status' = [status EXCEPT ![a] = "expired"]
          /\ EmitTerminal(a, "APPROVAL_EXPIRED", {})
          /\ pc' = [pc EXCEPT ![r] = "done"]
          /\ UNCHANGED records
       \/ /\ status[a] = "pending"
          /\ now < expires[a]
          /\ records' = records \cup {[approval |-> a, approved |-> approved, by |-> r]}
          /\ status' = [status EXCEPT ![a] = IF approved THEN "approved" ELSE "rejected"]
          /\ IF approved
             THEN /\ pc' = [pc EXCEPT ![r] = "decided"]
                  /\ UNCHANGED journalVars
             ELSE /\ pc' = [pc EXCEPT ![r] = "done"]
                  /\ EmitTerminal(a, "APPROVAL_REJECTED", {})
       \/ /\ status[a] = "approved" /\ approved
          /\ pc' = [pc EXCEPT ![r] = "decided"]
          /\ UNCHANGED <<status, records, journalVars>>
       \/ /\ status[a] = "rejected"
          /\ EmitTerminal(a, "APPROVAL_REJECTED", {})
          /\ pc' = [pc EXCEPT ![r] = "done"]
          /\ UNCHANGED <<status, records>>
       \/ /\ \/ status[a] \in {"executing", "consumed", "expired"}
             \/ status[a] = "approved" /\ ~approved
          /\ pc' = [pc EXCEPT ![r] = "done"]
          /\ UNCHANGED <<status, records, journalVars>>
    /\ UNCHANGED <<now, held, expires, result, open, taskVars, controlVars>>

\* Mutant: an execution in flight can be claimed again.
ClaimAgain(r) ==
    /\ pc[r] = "decided"
    /\ status[prop[r].id] \in {"approved", "executing"}
    /\ status' = [status EXCEPT ![prop[r].id] = "executing"]
    /\ pc' = [pc EXCEPT ![r] = "preflight"]
    /\ Emit(prop[r].id, {"PROPOSED"})
    /\ UNCHANGED <<now, held, expires, result, records, open, via, prop,
                   taskVars, controlVars>>

\* claim(): only approved -> executing claims the execution.  The claimer
\* goes on to execute the stored proposal; every other caller is turned away.
Claim(r) ==
    /\ pc[r] = "decided"
    /\ LET a == prop[r].id
       IN \/ /\ status[a] = "approved"
             /\ status' = [status EXCEPT ![a] = "executing"]
             /\ pc' = [pc EXCEPT ![r] = "preflight"]
             /\ Emit(a, {"PROPOSED"})
          \/ /\ status[a] # "approved"
             /\ pc' = [pc EXCEPT ![r] = "done"]
             /\ UNCHANGED <<status, journalVars>>
    /\ UNCHANGED <<now, held, expires, result, records, open, via, prop,
                   taskVars, controlVars>>

\* Mutant: the sweep also takes rows that were approved in time.
ApprovedRowsAreDue == {a \in Actions : status[a] \in {"pending", "approved"}
                                          /\ expires[a] <= now}

\* expire_due(): the pending rows whose time has come.
DueRows == {a \in Actions : status[a] = "pending" /\ expires[a] <= now}

\* sweep_expired(): every pending row that is due expires at once.
SweepExpired ==
    LET due == DueRows
    IN /\ due # {}
       /\ status' = [a \in Actions |-> IF a \in due THEN "expired" ELSE status[a]]
       /\ seen' = [a \in Actions |->
                    IF a \in due THEN seen[a] \cup {"APPROVAL_EXPIRED"} ELSE seen[a]]
       /\ last' = [a \in Actions |-> IF a \in due THEN "APPROVAL_EXPIRED" ELSE last[a]]
       /\ UNCHANGED <<now, held, expires, result, records, open, requestVars,
                      taskVars, controlVars>>

-----------------------------------------------------------------------------
(* Founder controls: cancel_action and reconcile_action                    *)

\* _control_proposal: the action was proposed in the caller's browser session
\* and the control id is not already bound to another action.
ControlAdmitted(c, i, a) ==
    /\ ctl[c] = "idle"
    /\ a \in Browser
    /\ "PROPOSED" \in seen[a]
    /\ bound[i] \in {a, None}

FinishControl(c, i, a, answer) ==
    /\ ctl' = [ctl EXCEPT ![c] = "done"]
    /\ receipt' = [receipt EXCEPT ![c] = answer]
    /\ ctlOf' = [ctlOf EXCEPT ![c] = i]
    /\ ctlOn' = [ctlOn EXCEPT ![c] = a]

\* _control_replay: a control id already in the journal is answered from it.
ReplayControl(c, i, a) ==
    /\ ControlAdmitted(c, i, a)
    /\ bound[i] = a
    /\ FinishControl(c, i, a, IF last[a] # None THEN "terminal" ELSE "replayed")
    /\ UNCHANGED <<now, storeVars, journalVars, open, requestVars, taskVars,
                   ctlTask, bound>>

\* cancel_action up to the await of _cancel_supported: refused on an earlier
\* intent, a terminal event, or an action with no registered execution.
CancelAction(c, i, a) ==
    /\ ControlAdmitted(c, i, a)
    /\ bound[i] = None
    /\ IF \/ "CANCEL_INTENT_RECORDED" \in seen[a]
          \/ last[a] # None
          \/ active[a] = None
       THEN /\ FinishControl(c, i, a, "conflict")
            /\ UNCHANGED ctlTask
       ELSE /\ ctl' = [ctl EXCEPT ![c] = "checking"]
            /\ ctlOf' = [ctlOf EXCEPT ![c] = i]
            /\ ctlOn' = [ctlOn EXCEPT ![c] = a]
            /\ ctlTask' = [ctlTask EXCEPT ![c] = active[a]]
            /\ UNCHANGED receipt
    /\ UNCHANGED <<now, storeVars, journalVars, open, requestVars, taskVars,
                   bound>>

\* The support answer arrives; the state is checked again, the intent is
\* recorded, and a supported cancellation goes on to the backend.
CancelSupportChecked(c) ==
    /\ ctl[c] = "checking"
    /\ LET a == ctlOn[c]
           i == ctlOf[c]
       IN \/ /\ last[a] # None \/ active[a] # ctlTask[c]
             /\ FinishControl(c, i, a, "conflict")
             /\ UNCHANGED <<journalVars, bound>>
          \/ /\ last[a] = None /\ active[a] = ctlTask[c]
             /\ Emit(a, {"CANCEL_INTENT_RECORDED"})
             /\ bound' = [bound EXCEPT ![i] = a]
             /\ IF a \in Cancelable
                THEN /\ ctl' = [ctl EXCEPT ![c] = "cancelling"]
                     /\ UNCHANGED <<ctlOf, ctlOn, receipt>>
                ELSE /\ FinishControl(c, i, a, "unsupported")
    /\ UNCHANGED <<now, storeVars, open, requestVars, taskVars, ctlTask>>

\* The backend answers the cancellation.  A terminal event that came first
\* wins; an acknowledged cancellation is terminal and cancels the task.
CancelAnswered(c, ok) ==
    /\ ctl[c] = "cancelling"
    /\ LET a == ctlOn[c]
           i == ctlOf[c]
           t == ctlTask[c]
       IN \/ /\ last[a] # None
             /\ FinishControl(c, i, a, "terminal")
             /\ UNCHANGED <<journalVars, task>>
          \/ /\ last[a] = None /\ ~ok
             /\ FinishControl(c, i, a, "not-confirmed")
             /\ UNCHANGED <<journalVars, task>>
          \/ /\ last[a] = None /\ ok
             /\ EmitTerminal(a, "CANCELED", {})
             /\ task' = [task EXCEPT ![t] = IF @ = "running" THEN "cancelling" ELSE @]
             /\ FinishControl(c, i, a, "canceled")
    /\ UNCHANGED <<now, storeVars, open, requestVars, outcome, started, active,
                   ctlTask, bound>>

\* reconcile_action: it reports the terminal event, or records once that the
\* outcome is not confirmed.  It never executes anything.
ReconcileAction(c, i, a) ==
    /\ ControlAdmitted(c, i, a)
    /\ bound[i] = None
    /\ IF \/ "RECONCILIATION_REQUESTED" \in seen[a]
          \/ last[a] = None /\ "EXECUTION_REQUESTED" \notin seen[a]
       THEN /\ FinishControl(c, i, a, "conflict")
            /\ UNCHANGED <<journalVars, bound>>
       ELSE IF last[a] # None
       THEN /\ FinishControl(c, i, a, "terminal")
            /\ UNCHANGED <<journalVars, bound>>
       ELSE /\ Emit(a, {"RECONCILIATION_REQUESTED"})
            /\ bound' = [bound EXCEPT ![i] = a]
            /\ FinishControl(c, i, a, "not-confirmed")
    /\ UNCHANGED <<now, storeVars, open, requestVars, taskVars, ctlTask>>

-----------------------------------------------------------------------------
(* The environment                                                         *)

Tick ==
    /\ now < MaxTime
    /\ now' = now + 1
    /\ UNCHANGED <<storeVars, journalVars, open, requestVars, taskVars, controlVars>>

\* The caller of a request goes away (client disconnect, timeout) at an
\* await; the shielded execution task goes on.
DropWaiter(r) ==
    /\ "drop" \in Faults
    /\ pc[r] \in {"preflight", "waiting"}
    /\ pc' = [pc EXCEPT ![r] = "lost"]
    /\ UNCHANGED <<now, storeVars, journalVars, open, via, prop, taskVars, controlVars>>

\* The process stops.  The SQLite store and the JSONL journals survive;
\* requests, tasks, controls and the registry do not.
Crash ==
    /\ "crash" \in Faults
    /\ \E r \in Requests : pc[r] \in {"decided", "preflight", "waiting"}
                              \/ task[r] \in {"running", "cancelling"}
    /\ pc' = [r \in Requests |-> IF pc[r] \in {"decided", "preflight", "waiting"}
                                 THEN "lost" ELSE pc[r]]
    /\ task' = [r \in Requests |-> IF task[r] \in {"running", "cancelling"}
                                   THEN "lost" ELSE task[r]]
    /\ active' = [a \in Actions |-> None]
    /\ ctl' = [c \in Controls |-> IF ctl[c] \in {"checking", "cancelling"}
                                  THEN "lost" ELSE ctl[c]]
    /\ UNCHANGED <<now, storeVars, journalVars, open, via, prop, outcome, started,
                   ctlOf, ctlOn, ctlTask, receipt, bound>>

RequestStep(r) ==
    \/ \E p \in Proposals : Propose(r, p)
    \/ PreflightFails(r)
    \/ RetryBlocked(r)
    \/ Denied(r)
    \/ RequestApproval(r)
    \/ Dispatch(r)
    \/ WaiterResumes(r)
    \/ \E a \in Actions, approved \in BOOLEAN : Decide(r, a, approved)
    \/ Claim(r)

TaskStep(r) ==
    \/ \E ok \in BOOLEAN : BackendReturns(r, ok)
    \/ TaskCancelled(r)

ControlStep(c) ==
    \/ \E i \in ControlIds, a \in Actions :
          \/ ReplayControl(c, i, a)
          \/ CancelAction(c, i, a)
          \/ ReconcileAction(c, i, a)
    \/ CancelSupportChecked(c)
    \/ \E ok \in BOOLEAN : CancelAnswered(c, ok)

Next ==
    \/ \E r \in Requests : RequestStep(r) \/ TaskStep(r) \/ DropWaiter(r)
    \/ \E c \in Controls : ControlStep(c)
    \/ SweepExpired
    \/ Tick
    \/ Crash

Spec == Init /\ [][Next]_vars

\* The event loop runs a request that can go on, and backends answer.
Continue(r) ==
    \/ PreflightFails(r) \/ RetryBlocked(r) \/ Denied(r) \/ RequestApproval(r)
    \/ Dispatch(r) \/ WaiterResumes(r) \/ Claim(r)

FairSpec ==
    /\ Spec
    /\ \A r \in Requests : WF_vars(Continue(r)) /\ WF_vars(TaskStep(r))

-----------------------------------------------------------------------------
(* Properties                                                              *)

\* The execution tasks created for an action: each is one backend call.
Dispatched(a) == {r \in Requests : task[r] # "none" /\ prop[r].id = a}

\* An action that needs a human decision reaches its backend at most once,
\* however many clients approve, re-approve or re-propose it, across crashes
\* and dropped requests (claim() and the cached result of a consumed row).
ExecutedAtMostOnce ==
    \A a \in Actions \ AutoApproved :
        \A r, s \in Dispatched(a) : r = s

\* Nothing reaches a backend unless policy auto-approves it, or an operator
\* approved exactly this proposal and it started before the approval expired.
DispatchAuthorized ==
    \A r \in Requests : task[r] # "none" =>
        LET a == prop[r].id
        IN \/ a \in AutoApproved
           \/ /\ held[a] = prop[r]
              /\ started[r] < expires[a]
              /\ status[a] \in {"executing", "consumed"}
              /\ \E x \in records : x.approval = a /\ x.approved

\* An approval has at most one decision record, and its row never says
\* anything else than that record: a late contradictory decision, a second
\* client or the expiry sweep cannot turn an answer round.
DecisionFinal ==
    /\ \A x, y \in records : x.approval = y.approval => x = y
    /\ \A a \in Actions :
        /\ status[a] \in {"approved", "executing", "consumed"} <=>
              \E x \in records : x.approval = a /\ x.approved
        /\ status[a] = "rejected" <=>
              \E x \in records : x.approval = a /\ ~x.approved

\* An approval that was granted is eventually settled: its execution ends and
\* the result is in the store for the mission or the session to read (no
\* crash, and no dropped request).
GrantedSettles ==
    \A a \in Actions : (status[a] \in {"approved", "executing"}) ~> (status[a] = "consumed")

\* The path implements the contract of the inbox: see ApprovalContract.
Phase(a) ==
    CASE status[a] = "absent" -> "new"
      [] status[a] = "pending" -> "asked"
      [] status[a] = "approved" -> "granted"
      [] status[a] \in {"rejected", "expired"} -> "refused"
      [] status[a] = "executing" -> "claimed"
      [] OTHER -> "settled"

Contract == INSTANCE ApprovalContract WITH
    Gated <- Actions \ AutoApproved,
    phase <- [a \in Actions \ AutoApproved |-> Phase(a)],
    effect <- [a \in Actions \ AutoApproved |-> Dispatched(a) # {}]

\* Every step of the path is a step of the contract, or none.
ImplementsContract == Contract!Spec

\* GovernedMissionActionAdapter.approval_result: what the row of an action
\* tells the mission that waits for it (see ApprovalAnswer).
RowAnswer(a) ==
    CASE status[a] = "absent" -> "new"
      [] status[a] \in {"pending", "approved", "executing"} -> "asked"
      [] status[a] = "consumed" /\ result[a] = "completed" -> "ok"
      [] status[a] = "consumed" /\ result[a] # "completed" -> "failed"
      [] OTHER -> "refused"

\* An action is completed when the journal says so.
Inquiry == INSTANCE ApprovalAnswer WITH
    Gated <- Actions \ AutoApproved,
    answer <- [a \in Actions \ AutoApproved |-> RowAnswer(a)],
    completed <- [a \in Actions \ AutoApproved |-> "COMPLETED" \in seen[a]]

\* The row of an action gives whoever waits for it one final, true answer.
ImplementsAnswer == Inquiry!Spec
=============================================================================
