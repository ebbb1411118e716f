---------------------------- MODULE BrowserActions ----------------------------
(***************************************************************************)
(* What the Senses page is told of its actions:                            *)
(*   aether_gateway/browser_senses/actions.py  BrowserSenseActionProjector *)
(*   aether/contracts/browser_senses.py        the receipts and their order*)
(*                                                                         *)
(* The projector keeps no state: it replays the journal of the action path *)
(* at each call.  Its answer is a fold over an append-only journal, so the *)
(* model carries the answer along and feeds it the events of every step.   *)
(* A receipt that cannot be built raises, and so does every later replay:  *)
(* the answer is then "conflict", which the route reports as HTTP 409.     *)
(***************************************************************************)
EXTENDS GovernedActions, Sequences

\* No value is none of the event types.
ASSUME NoneIsNoEvent == None \notin TerminalTypes

VARIABLE shown  \* the current state the page is given, per browser action

browserVars == <<vars, shown>>

\* BrowserSenseCapabilityActionState, and the answer of a failing replay.
SettledStates == {"succeeded", "failed", "canceled", "rejected", "unavailable"}
ShownStates == SettledStates \cup
    {"none", "proposed", "awaiting-approval", "queued", "running",
     "canceling", "reconciling", "conflict"}

\* _BROWSER_SENSE_ACTION_TRANSITIONS
Follows(from) ==
    CASE from = "none" -> {"proposed", "unavailable"}
      [] from = "proposed" -> {"awaiting-approval", "queued", "rejected", "unavailable"}
      [] from = "awaiting-approval" -> {"queued", "rejected"}
      [] from = "queued" -> {"running"}
      [] from = "running" -> {"succeeded", "failed", "canceling", "reconciling"}
      [] from = "canceling" -> {"canceled"}
      [] from = "reconciling" -> {"succeeded", "failed"}
      [] OTHER -> {}

\* The state a journal event stands for.
StateOf(event) ==
    CASE event = "PROPOSED" -> "proposed"
      [] event = "APPROVAL_REQUESTED" -> "awaiting-approval"
      [] event \in {"GOVERNANCE_APPROVED", "APPROVAL_APPROVED"} -> "queued"
      [] event = "EXECUTION_REQUESTED" -> "running"
      [] event = "CANCEL_REQUESTED" -> "canceling"
      [] event = "CANCELED" -> "canceled"
      [] event = "RECONCILIATION_REQUESTED" -> "reconciling"
      [] event = "COMPLETED" -> "succeeded"
      [] event = "FAILED" -> "failed"
      [] event = "PREFLIGHT_FAILED" -> "unavailable"
      [] event \in {"GOVERNANCE_REJECTED", "RETRY_BLOCKED",
                    "APPROVAL_REJECTED", "APPROVAL_EXPIRED"} -> "rejected"

\* Events that leave the state alone and add a receipt to it.
Remarks == {"CANCEL_INTENT_RECORDED", "CANCEL_UNSUPPORTED", "CANCEL_NOT_CONFIRMED"}

\* require_browser_sense_action_transition
CanFollow(from, to) == to \in Follows(from) \cup {from}

\* append_receipt: the order of states is enforced, and a receipt of a
\* reconciling action must be about the reconciliation.
Receipted(current, event) ==
    IF event \in Remarks
    THEN IF current = "reconciling" THEN "conflict" ELSE current
    ELSE IF CanFollow(current, StateOf(event))
    THEN StateOf(event)
    ELSE "conflict"

\* One turn of the loop of _project: what is settled stays, and a proposal is
\* presented once.
ProjectEvent(current, event) ==
    CASE current \in SettledStates \cup {"conflict"} -> current
      [] event = "PROPOSED" /\ current # "none" -> current
      [] OTHER -> Receipted(current, event)

-----------------------------------------------------------------------------
(* The journal, as the page reads it after each step                       *)

\* The loop of _project over what a step appends: at most two events.
Replay(current, events) ==
    CASE Len(events) = 0 -> current
      [] Len(events) = 1 -> ProjectEvent(current, events[1])
      [] OTHER -> ProjectEvent(ProjectEvent(current, events[1]), events[2])

Project(a, events) ==
    shown' = [b \in Browser |-> IF b = a THEN Replay(shown[b], events) ELSE shown[b]]

DecisionEvents(a) ==
    CASE status[a] = "pending" /\ status'[a] = "expired" -> <<"APPROVAL_EXPIRED">>
      [] status'[a] = "rejected" -> <<"APPROVAL_REJECTED">>
      [] OTHER -> <<>>

ExecuteSteps(r) ==
    \/ \E p \in Proposals : Propose(r, p) /\ Project(p.id, <<"PROPOSED">>)
    \/ PreflightFails(r) /\ Project(prop[r].id, <<"PREFLIGHT_FAILED">>)
    \/ RetryBlocked(r) /\ Project(prop[r].id, <<"RETRY_BLOCKED">>)
    \/ Denied(r) /\ Project(prop[r].id, <<"GOVERNANCE_REJECTED">>)
    \/ /\ RequestApproval(r)
       /\ Project(prop[r].id, IF status[prop[r].id] = "absent"
                              THEN <<"APPROVAL_REQUESTED">> ELSE <<>>)
    \/ Dispatch(r) /\ Project(prop[r].id, <<"GOVERNANCE_APPROVED", "EXECUTION_REQUESTED">>)
    \/ /\ WaiterResumes(r) \/ TaskCancelled(r) \/ DropWaiter(r)
       /\ UNCHANGED shown
    \/ /\ \E ok \in BOOLEAN : BackendReturns(r, ok)
       /\ Project(prop[r].id, IF last' = last THEN <<>> ELSE <<last'[prop[r].id]>>)

ApprovalSteps(r) ==
    \/ \E a \in Actions, approved \in BOOLEAN :
          Decide(r, a, approved) /\ Project(a, DecisionEvents(a))
    \/ Claim(r) /\ Project(prop[r].id, <<"APPROVAL_APPROVED">>)

ControlSteps(c) ==
    \/ \E i \in ControlIds, a \in Browser :
          \/ (ReplayControl(c, i, a) \/ CancelAction(c, i, a)) /\ UNCHANGED shown
          \/ /\ ReconcileAction(c, i, a)
             /\ Project(a, IF seen' = seen THEN <<>> ELSE <<"RECONCILIATION_REQUESTED">>)
    \/ /\ CancelSupportChecked(c)
       /\ Project(ctlOn[c],
            CASE ctl'[c] = "cancelling" -> <<"CANCEL_INTENT_RECORDED">>
              [] receipt'[c] = "unsupported" ->
                    <<"CANCEL_INTENT_RECORDED", "CANCEL_UNSUPPORTED">>
              [] OTHER -> <<>>)
    \/ /\ \E ok \in BOOLEAN : CancelAnswered(c, ok)
       /\ Project(ctlOn[c],
            CASE receipt'[c] = "canceled" -> <<"CANCEL_REQUESTED", "CANCELED">>
              [] receipt'[c] = "not-confirmed" -> <<"CANCEL_NOT_CONFIRMED">>
              [] OTHER -> <<>>)

\* _events() sweeps the inbox before it replays.
SweepSteps ==
    /\ SweepExpired
    /\ shown' = [a \in Browser |-> IF a \in DueRows
                                   THEN ProjectEvent(shown[a], "APPROVAL_EXPIRED")
                                   ELSE shown[a]]

BrowserInit == Init /\ shown = [a \in Browser |-> "none"]

BrowserNext ==
    \/ \E r \in Requests : ExecuteSteps(r) \/ ApprovalSteps(r)
    \/ \E c \in Controls : ControlSteps(c)
    \/ SweepSteps
    \/ (Tick \/ Crash) /\ UNCHANGED shown

BrowserSpec == BrowserInit /\ [][BrowserNext]_browserVars

\* The fairness of GovernedActions.
BrowserFairSpec ==
    /\ BrowserSpec
    /\ \A r \in Requests : WF_vars(Continue(r)) /\ WF_vars(TaskStep(r))

-----------------------------------------------------------------------------
(* Properties                                                              *)

\* _terminal_control_receipt: what a control is answered on a settled action.
ControlAnswer ==
    [type \in TerminalTypes |->
        CASE type = "COMPLETED" -> "succeeded"
          [] type = "FAILED" -> "failed"
          [] type = "CANCELED" -> "canceled"
          [] type = "PREFLIGHT_FAILED" -> "unavailable"
          [] OTHER -> "rejected"]

\* Histories that the order of receipts does not foresee: an approved action
\* that is refused after all, a cancellation and a reconciliation of one
\* action, and an approval announced again once the action runs.
Approves(r, a) == via[r] = "approval" /\ prop[r].id = a

Unforeseen(a) ==
    \/ /\ last[a] \in {"GOVERNANCE_REJECTED", "RETRY_BLOCKED", "PREFLIGHT_FAILED"}
       /\ \E x \in records : x.approval = a /\ x.approved
    \/ {"CANCEL_INTENT_RECORDED", "RECONCILIATION_REQUESTED"} \subseteq seen[a]
    \/ /\ "EXECUTION_REQUESTED" \in seen[a]
       /\ \E r, s \in Requests : r # s /\ Approves(r, a) /\ Approves(s, a)

\* The page and the controls tell one story: through re-proposals, expiries,
\* crashes, late results and cancellations, the page shows an action settled
\* exactly when the action path answers controls that it is, and with the
\* same outcome; the replay raises on no other histories than Unforeseen.
PageAgrees ==
    \A a \in Browser :
        CASE shown[a] = "conflict" -> Unforeseen(a)
          [] shown[a] \in SettledStates -> last[a] # None /\ shown[a] = ControlAnswer[last[a]]
          [] OTHER -> last[a] = None
=============================================================================
