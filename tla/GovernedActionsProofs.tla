------------------------ MODULE GovernedActionsProofs ------------------------
(***************************************************************************)
(* Proofs about GovernedActions for every set of actions, requests and     *)
(* controls, every policy and every combination of faults, and about the   *)
(* path with the page of BrowserActions beside it.                         *)
(***************************************************************************)
EXTENDS BrowserActions, TLAPS

-----------------------------------------------------------------------------
(* Types                                                                   *)

\* A request that goes on, or has a task, carries a proposal.
CarriesProposal ==
    \A r \in Requests :
        (pc[r] \in {"decided", "preflight", "waiting"} \/ task[r] # "none")
            => prop[r] \in Proposals

\* A row of the store holds a proposal for its own action.
RowsHold ==
    \A a \in Actions : status[a] # "absent" => held[a] \in Proposals /\ held[a].id = a

TypeInv == TypeOK /\ CarriesProposal /\ RowsHold

\* The strings the actions write belong to the types of the variables.
LEMMA Literals ==
    /\ {"absent", "pending", "approved", "rejected", "expired", "executing",
        "consumed"} \subseteq Statuses
    /\ {"completed", "failed", "canceled", "denied", "retry-blocked",
        "preflight-failed"} \subseteq Results
    /\ {"COMPLETED", "FAILED", "CANCELED", "PREFLIGHT_FAILED",
        "GOVERNANCE_REJECTED", "APPROVAL_REJECTED", "APPROVAL_EXPIRED",
        "RETRY_BLOCKED"} \subseteq TerminalTypes
    /\ TerminalTypes \subseteq EventTypes
    /\ {"PROPOSED", "EXECUTION_REQUESTED", "CANCEL_INTENT_RECORDED",
        "RECONCILIATION_REQUESTED", "LATE_RESULT_DISCARDED"} \subseteq EventTypes
BY DEF Statuses, Results, TerminalTypes, EventTypes

LEMMA ProposalId ==
    ASSUME NEW p \in Proposals
    PROVE  p.id \in Actions
BY DEF Proposals

\* Emitting events of known types keeps the journal well typed.
LEMMA EmitTypes ==
    ASSUME JournalType, NEW a, NEW types \in SUBSET EventTypes, Emit(a, types),
           open' \subseteq {Signature[b] : b \in Actions}
    PROVE  JournalType'
BY DEF JournalType, Emit

LEMMA EmitTerminalTypes ==
    ASSUME JournalType, NEW a, NEW type \in TerminalTypes, EmitTerminal(a, type, {}),
           open' \subseteq {Signature[b] : b \in Actions}
    PROVE  JournalType'
BY Literals DEF JournalType, EmitTerminal

\* Returning a result keeps the store and the requests well typed.
LEMMA ReturnTypes ==
    ASSUME TypeInv, NEW r \in Requests, NEW res \in Results, Return(r, res),
           prop[r] \in Proposals, UNCHANGED task
    PROVE  StoreType' /\ RequestType' /\ CarriesProposal' /\ RowsHold'
<1>1. StoreType'
  BY Literals DEF TypeInv, TypeOK, StoreType, Return
<1>2. RequestType'
  BY DEF TypeInv, TypeOK, RequestType, Return
<1>3. CarriesProposal'
  BY DEF TypeInv, TypeOK, RequestType, CarriesProposal, Return
<1>4. RowsHold'
  BY DEF TypeInv, TypeOK, StoreType, RowsHold, Return
<1>5. QED
  BY <1>1, <1>2, <1>3, <1>4

\* Steps that leave a group of variables alone keep its type.
LEMMA StoreFrame ==
    ASSUME StoreType, RowsHold, UNCHANGED storeVars
    PROVE  StoreType' /\ RowsHold'
BY DEF StoreType, RowsHold, storeVars

LEMMA JournalFrame ==
    ASSUME JournalType, UNCHANGED <<journalVars, open>>
    PROVE  JournalType'
BY DEF JournalType, journalVars

LEMMA RequestFrame ==
    ASSUME RequestType, UNCHANGED requestVars
    PROVE  RequestType'
BY DEF RequestType, requestVars

LEMMA TaskFrame ==
    ASSUME TaskType, UNCHANGED taskVars
    PROVE  TaskType'
BY DEF TaskType, taskVars

LEMMA ControlFrame ==
    ASSUME ControlType, UNCHANGED controlVars
    PROVE  ControlType'
BY DEF ControlType, controlVars

LEMMA CarriesFrame ==
    ASSUME CarriesProposal, UNCHANGED <<requestVars, task>>
    PROVE  CarriesProposal'
BY DEF CarriesProposal, requestVars

LEMMA TypeInit == Init => TypeInv
<1> SUFFICES ASSUME Init PROVE TypeInv
  OBVIOUS
<1>1. StoreType /\ RowsHold
  BY Literals DEF Init, StoreType, RowsHold
<1>2. JournalType
  BY DEF Init, JournalType
<1>3. RequestType /\ CarriesProposal
  BY DEF Init, RequestType, CarriesProposal
<1>4. TaskType /\ now \in 0..MaxTime
  BY ConstantsAssumption DEF Init, TaskType
<1>5. ControlType
  BY DEF Init, ControlType
<1>6. QED
  BY <1>1, <1>2, <1>3, <1>4, <1>5 DEF TypeInv, TypeOK

LEMMA RequestTypes ==
    ASSUME TypeInv, NEW r \in Requests, RequestStep(r)
    PROVE  TypeInv'
<1> USE Literals
<1>0. /\ now \in 0..MaxTime /\ StoreType /\ JournalType /\ RequestType /\ TaskType
      /\ ControlType /\ CarriesProposal /\ RowsHold
  BY DEF TypeInv, TypeOK
<1>1. ASSUME NEW p \in Proposals, Propose(r, p)
      PROVE  TypeInv'
  <2>1. JournalType'
    BY <1>0, <1>1, EmitTypes DEF Propose, JournalType
  <2>2. RequestType'
    BY <1>0, <1>1 DEF Propose, RequestType
  <2>3. CarriesProposal'
    BY <1>0, <1>1 DEF Propose, RequestType, CarriesProposal, taskVars
  <2>4. QED
    BY <1>0, <1>1, <2>1, <2>2, <2>3, StoreFrame, TaskFrame, ControlFrame
       DEF Propose, TypeInv, TypeOK
<1>2. ASSUME PreflightFails(r) \/ RetryBlocked(r) \/ Denied(r)
      PROVE  TypeInv'
  <2>1. prop[r] \in Proposals /\ UNCHANGED <<now, open, taskVars, controlVars>>
    BY <1>0, <1>2 DEF PreflightFails, RetryBlocked, Denied, CarriesProposal
  <2>2. JournalType'
    BY <1>0, <1>2, <2>1, EmitTerminalTypes
       DEF PreflightFails, RetryBlocked, Denied, JournalType
  <2>3. StoreType' /\ RequestType' /\ CarriesProposal' /\ RowsHold'
    BY <1>2, <2>1, ReturnTypes DEF PreflightFails, RetryBlocked, Denied, taskVars
  <2>4. QED
    BY <1>0, <2>1, <2>2, <2>3, TaskFrame, ControlFrame DEF TypeInv, TypeOK
<1>3. ASSUME RequestApproval(r)
      PROVE  TypeInv'
  <2>1. prop[r] \in Proposals /\ prop[r].id \in Actions /\ now + Ttl \in Nat
    BY <1>0, <1>3, ProposalId, ConstantsAssumption DEF RequestApproval, CarriesProposal
  <2>2. StoreType' /\ RowsHold'
    <3>1. CASE status[prop[r].id] = "absent"
      BY <1>0, <1>3, <2>1, <3>1 DEF RequestApproval, CreateOrGet, StoreType, RowsHold
    <3>2. CASE status[prop[r].id] # "absent"
      BY <1>0, <1>3, <3>2 DEF RequestApproval, CreateOrGet, StoreType, RowsHold
    <3>3. QED
      BY <3>1, <3>2
  <2>3. RequestType' /\ CarriesProposal'
    BY <1>0, <1>3 DEF RequestApproval, RequestType, CarriesProposal, taskVars
  <2>4. QED
    BY <1>0, <1>3, <2>2, <2>3, JournalFrame, TaskFrame, ControlFrame
       DEF RequestApproval, TypeInv, TypeOK
<1>4. ASSUME Dispatch(r)
      PROVE  TypeInv'
  <2>1. JournalType'
    BY <1>0, <1>4, EmitTypes DEF Dispatch, JournalType
  <2>2. RequestType' /\ CarriesProposal'
    BY <1>0, <1>4 DEF Dispatch, RequestType, TaskType, CarriesProposal
  <2>3. TaskType'
    BY <1>0, <1>4 DEF Dispatch, TaskType
  <2>4. QED
    BY <1>0, <1>4, <2>1, <2>2, <2>3, StoreFrame, ControlFrame
       DEF Dispatch, TypeInv, TypeOK
<1>5. ASSUME WaiterResumes(r)
      PROVE  TypeInv'
  <2>1. prop[r] \in Proposals /\ outcome[r] \in Results \cup {None}
    BY <1>0, <1>5 DEF WaiterResumes, CarriesProposal, TaskType
  <2>2. StoreType' /\ RequestType' /\ CarriesProposal' /\ RowsHold'
    <3>1. CASE outcome[r] # None
      BY <1>5, <2>1, <3>1, ReturnTypes DEF WaiterResumes, taskVars
    <3>2. CASE outcome[r] = None
      <4>1. StoreType' /\ RowsHold'
        BY <1>0, <1>5, <3>2, StoreFrame DEF WaiterResumes
      <4>2. RequestType' /\ CarriesProposal'
        BY <1>0, <1>5, <3>2 DEF WaiterResumes, RequestType, CarriesProposal, taskVars
      <4>3. QED
        BY <4>1, <4>2
    <3>3. QED
      BY <3>1, <3>2
  <2>3. QED
    BY <1>0, <1>5, <2>2, JournalFrame, TaskFrame, ControlFrame
       DEF WaiterResumes, TypeInv, TypeOK
<1>6. ASSUME NEW a \in Actions, NEW approved \in BOOLEAN, Decide(r, a, approved)
      PROVE  TypeInv'
  <2>1. held[a] \in Proposals
    BY <1>0, <1>6 DEF Decide, RowsHold
  <2>2. StoreType'
    <3>1. status' \in [Actions -> Statuses]
      BY <1>0, <1>6 DEF Decide, StoreType
    <3>2. records' \subseteq [approval : Actions, approved : BOOLEAN, by : Requests]
      BY <1>0, <1>6 DEF Decide, StoreType
    <3>3. QED
      BY <1>0, <1>6, <3>1, <3>2 DEF Decide, StoreType
  <2>3. RowsHold'
    BY <1>0, <1>6 DEF Decide, StoreType, RowsHold
  <2>4. JournalType'
    <3>1. UNCHANGED open
      BY <1>6 DEF Decide
    <3>2. CASE EmitTerminal(a, "APPROVAL_EXPIRED", {})
      BY <1>0, <3>1, <3>2, EmitTerminalTypes DEF JournalType
    <3>3. CASE EmitTerminal(a, "APPROVAL_REJECTED", {})
      BY <1>0, <3>1, <3>3, EmitTerminalTypes DEF JournalType
    <3>4. CASE UNCHANGED journalVars
      BY <1>0, <3>1, <3>4, JournalFrame
    <3>5. QED
      BY <1>6, <3>2, <3>3, <3>4 DEF Decide
  <2>5. RequestType'
    BY <1>0, <1>6, <2>1 DEF Decide, RequestType
  <2>6. CarriesProposal'
    BY <1>0, <1>6, <2>1 DEF Decide, RequestType, CarriesProposal, taskVars
  <2>7. QED
    BY <1>0, <1>6, <2>2, <2>3, <2>4, <2>5, <2>6, TaskFrame, ControlFrame
       DEF Decide, TypeInv, TypeOK
<1>7. ASSUME Claim(r)
      PROVE  TypeInv'
  <2>1. StoreType' /\ RowsHold'
    BY <1>0, <1>7 DEF Claim, StoreType, RowsHold
  <2>2. JournalType'
    <3>1. CASE Emit(prop[r].id, {"PROPOSED"})
      BY <1>0, <1>7, <3>1, EmitTypes DEF Claim, JournalType
    <3>2. CASE UNCHANGED journalVars
      BY <1>0, <1>7, <3>2, JournalFrame DEF Claim
    <3>3. QED
      BY <1>7, <3>1, <3>2 DEF Claim
  <2>3. RequestType' /\ CarriesProposal'
    BY <1>0, <1>7 DEF Claim, RequestType, CarriesProposal, taskVars
  <2>4. QED
    BY <1>0, <1>7, <2>1, <2>2, <2>3, TaskFrame, ControlFrame DEF Claim, TypeInv, TypeOK
<1>8. QED
  BY <1>1, <1>2, <1>3, <1>4, <1>5, <1>6, <1>7 DEF RequestStep

\* Ending a task keeps the tasks well typed.
LEMMA EndTaskTypes ==
    ASSUME TaskType, NEW r \in Requests, NEW res \in Results \cup {None}, EndTask(r, res)
    PROVE  TaskType'
BY DEF TaskType, EndTask

LEMMA TaskTypes ==
    ASSUME TypeInv, NEW r \in Requests, TaskStep(r)
    PROVE  TypeInv'
<1> USE Literals
<1>0. /\ now \in 0..MaxTime /\ StoreType /\ JournalType /\ RequestType /\ TaskType
      /\ ControlType /\ CarriesProposal /\ RowsHold
  BY DEF TypeInv, TypeOK
<1>1. ASSUME NEW ok \in BOOLEAN, BackendReturns(r, ok)
      PROVE  TypeInv'
  <2> DEFINE a == prop[r].id
  <2>1. prop[r] \in Proposals /\ a \in Actions
    BY <1>0, <1>1, ProposalId DEF BackendReturns, CarriesProposal
  <2>2. JournalType' /\ TaskType'
    <3>1. CASE Emit(a, {"LATE_RESULT_DISCARDED"}) /\ EndTask(r, "canceled") /\ UNCHANGED open
      BY <1>0, <3>1, EmitTypes, EndTaskTypes DEF JournalType
    <3>2. CASE EmitTerminal(a, "COMPLETED", {}) /\ EndTask(r, "completed")
               /\ open' = open \ {Signature[a]}
      BY <1>0, <3>2, EmitTerminalTypes, EndTaskTypes DEF JournalType
    <3>3. CASE EmitTerminal(a, "FAILED", {}) /\ EndTask(r, "failed")
               /\ open' = open \cup {Signature[a]}
      BY <1>0, <2>1, <3>3, EmitTerminalTypes, EndTaskTypes DEF JournalType
    <3>4. QED
      BY <1>1, <3>1, <3>2, <3>3 DEF BackendReturns
  <2>3. CarriesProposal'
    BY <1>0, <1>1 DEF BackendReturns, CarriesProposal, EndTask, TaskType, requestVars
  <2>4. QED
    BY <1>0, <1>1, <2>2, <2>3, StoreFrame, RequestFrame, ControlFrame
       DEF BackendReturns, TypeInv, TypeOK
<1>2. ASSUME TaskCancelled(r)
      PROVE  TypeInv'
  <2>1. TaskType'
    BY <1>0, <1>2, EndTaskTypes DEF TaskCancelled
  <2>2. CarriesProposal'
    BY <1>0, <1>2 DEF TaskCancelled, CarriesProposal, EndTask, TaskType, requestVars
  <2>3. QED
    BY <1>0, <1>2, <2>1, <2>2, StoreFrame, JournalFrame, RequestFrame, ControlFrame
       DEF TaskCancelled, TypeInv, TypeOK
<1>3. QED
  BY <1>1, <1>2 DEF TaskStep

LEMMA ControlTypes ==
    ASSUME TypeInv, NEW c \in Controls, ControlStep(c)
    PROVE  TypeInv'
<1> USE Literals
<1>0. /\ now \in 0..MaxTime /\ StoreType /\ JournalType /\ RequestType /\ TaskType
      /\ ControlType /\ CarriesProposal /\ RowsHold
  BY DEF TypeInv, TypeOK
<1>1. ASSUME NEW i \in ControlIds, NEW a \in Actions, ReplayControl(c, i, a)
      PROVE  TypeInv'
  <2>1. ControlType'
    BY <1>0, <1>1 DEF ReplayControl, FinishControl, ControlType
  <2>2. QED
    BY <1>0, <1>1, <2>1, StoreFrame, JournalFrame, RequestFrame, TaskFrame, CarriesFrame
       DEF ReplayControl, TypeInv, TypeOK, taskVars
<1>2. ASSUME NEW i \in ControlIds, NEW a \in Actions, CancelAction(c, i, a)
      PROVE  TypeInv'
  <2>1. ControlType'
    BY <1>0, <1>2 DEF CancelAction, FinishControl, ControlType, TaskType
  <2>2. QED
    BY <1>0, <1>2, <2>1, StoreFrame, JournalFrame, RequestFrame, TaskFrame, CarriesFrame
       DEF CancelAction, TypeInv, TypeOK, taskVars
<1>3. ASSUME NEW i \in ControlIds, NEW a \in Actions, ReconcileAction(c, i, a)
      PROVE  TypeInv'
  <2>1. UNCHANGED <<now, storeVars, open, requestVars, taskVars, ctlTask>>
    BY <1>3 DEF ReconcileAction
  <2>2. \/ \E ans \in {"conflict", "terminal"} :
              FinishControl(c, i, a, ans) /\ UNCHANGED <<journalVars, bound>>
        \/ /\ FinishControl(c, i, a, "not-confirmed")
           /\ Emit(a, {"RECONCILIATION_REQUESTED"})
           /\ bound' = [bound EXCEPT ![i] = a]
    BY <1>3 DEF ReconcileAction
  <2>3. ControlType'
    BY <1>0, <2>1, <2>2 DEF FinishControl, ControlType
  <2>4. JournalType'
    <3>1. CASE Emit(a, {"RECONCILIATION_REQUESTED"})
      BY <1>0, <2>1, <3>1, EmitTypes DEF JournalType
    <3>2. CASE UNCHANGED journalVars
      BY <1>0, <2>1, <3>2, JournalFrame
    <3>3. QED
      BY <2>2, <3>1, <3>2
  <2>5. QED
    BY <1>0, <2>1, <2>3, <2>4, StoreFrame, RequestFrame, TaskFrame, CarriesFrame
       DEF TypeInv, TypeOK, taskVars
<1>4. ASSUME CancelSupportChecked(c)
      PROVE  TypeInv'
  <2>1. ControlType'
    BY <1>0, <1>4 DEF CancelSupportChecked, FinishControl, ControlType
  <2>2. JournalType'
    <3>1. CASE Emit(ctlOn[c], {"CANCEL_INTENT_RECORDED"})
      BY <1>0, <1>4, <3>1, EmitTypes DEF CancelSupportChecked, JournalType
    <3>2. CASE UNCHANGED journalVars
      BY <1>0, <1>4, <3>2, JournalFrame DEF CancelSupportChecked
    <3>3. QED
      BY <1>4, <3>1, <3>2 DEF CancelSupportChecked
  <2>3. QED
    BY <1>0, <1>4, <2>1, <2>2, StoreFrame, RequestFrame, TaskFrame, CarriesFrame
       DEF CancelSupportChecked, TypeInv, TypeOK, taskVars
<1>5. ASSUME NEW ok \in BOOLEAN, CancelAnswered(c, ok)
      PROVE  TypeInv'
  <2>1. ControlType'
    BY <1>0, <1>5 DEF CancelAnswered, FinishControl, ControlType
  <2>2. JournalType'
    <3>1. CASE EmitTerminal(ctlOn[c], "CANCELED", {})
      BY <1>0, <1>5, <3>1, EmitTerminalTypes DEF CancelAnswered, JournalType
    <3>2. CASE UNCHANGED journalVars
      BY <1>0, <1>5, <3>2, JournalFrame DEF CancelAnswered
    <3>3. QED
      BY <1>5, <3>1, <3>2 DEF CancelAnswered
  <2>3. TaskType'
    BY <1>0, <1>5 DEF CancelAnswered, TaskType
  <2>4. CarriesProposal'
    BY <1>0, <1>5 DEF CancelAnswered, CarriesProposal, TaskType, requestVars
  <2>5. QED
    BY <1>0, <1>5, <2>1, <2>2, <2>3, <2>4, StoreFrame, RequestFrame
       DEF CancelAnswered, TypeInv, TypeOK
<1>6. QED
  BY <1>1, <1>2, <1>3, <1>4, <1>5 DEF ControlStep

LEMMA EnvironmentTypes ==
    ASSUME TypeInv, SweepExpired \/ Tick \/ Crash \/ \E r \in Requests : DropWaiter(r)
    PROVE  TypeInv'
<1> USE Literals
<1>0. /\ now \in 0..MaxTime /\ StoreType /\ JournalType /\ RequestType /\ TaskType
      /\ ControlType /\ CarriesProposal /\ RowsHold
  BY DEF TypeInv, TypeOK
<1>1. CASE SweepExpired
  <2>1. StoreType' /\ RowsHold'
    BY <1>0, <1>1 DEF SweepExpired, DueRows, StoreType, RowsHold
  <2>2. JournalType'
    BY <1>0, <1>1 DEF SweepExpired, JournalType
  <2>3. QED
    BY <1>0, <1>1, <2>1, <2>2, RequestFrame, TaskFrame, ControlFrame, CarriesFrame
       DEF SweepExpired, TypeInv, TypeOK, taskVars
<1>2. CASE Tick
  <2>1. now' \in 0..MaxTime
    BY <1>0, <1>2, ConstantsAssumption DEF Tick
  <2>2. QED
    BY <1>0, <1>2, <2>1, StoreFrame, JournalFrame, RequestFrame, TaskFrame,
       ControlFrame, CarriesFrame DEF Tick, TypeInv, TypeOK, taskVars
<1>3. CASE Crash
  <2>1. RequestType' /\ TaskType'
    BY <1>0, <1>3 DEF Crash, RequestType, TaskType
  <2>2. CarriesProposal'
    BY <1>0, <1>3 DEF Crash, CarriesProposal, RequestType, TaskType
  <2>3. ControlType'
    BY <1>0, <1>3 DEF Crash, ControlType
  <2>4. QED
    BY <1>0, <1>3, <2>1, <2>2, <2>3, StoreFrame, JournalFrame DEF Crash, TypeInv, TypeOK
<1>4. ASSUME NEW r \in Requests, DropWaiter(r)
      PROVE  TypeInv'
  <2>1. RequestType' /\ CarriesProposal'
    BY <1>0, <1>4 DEF DropWaiter, RequestType, CarriesProposal, taskVars
  <2>2. QED
    BY <1>0, <1>4, <2>1, StoreFrame, JournalFrame, TaskFrame, ControlFrame
       DEF DropWaiter, TypeInv, TypeOK
<1>5. QED
  BY <1>1, <1>2, <1>3, <1>4

\* Every state of the path is well typed, and its requests and rows carry the
\* proposals that the code reads from them.
THEOREM TypeCorrect == Spec => []TypeInv
<1>1. TypeInv /\ [Next]_vars => TypeInv'
  <2> SUFFICES ASSUME TypeInv, [Next]_vars PROVE TypeInv'
    OBVIOUS
  <2>1. CASE Next
    BY <2>1, RequestTypes, TaskTypes, ControlTypes, EnvironmentTypes DEF Next
  <2>2. CASE UNCHANGED vars
    BY <2>2, StoreFrame, JournalFrame, RequestFrame, TaskFrame, ControlFrame,
       CarriesFrame DEF vars, TypeInv, TypeOK, taskVars
  <2>3. QED
    BY <2>1, <2>2
<1>2. QED
  BY TypeInit, <1>1, PTL DEF Spec

-----------------------------------------------------------------------------
(* Safety of the approval inbox                                            *)

\* A task is created only by Dispatch, at the end of the preflight.
NoTaskYet ==
    \A r \in Requests : pc[r] \in {"idle", "decided", "preflight"} => task[r] = "none"

\* r goes on with an approval, or has executed with one.
Resumed(r) ==
    /\ via[r] = "approval"
    /\ pc[r] \in {"decided", "preflight", "waiting"} \/ task[r] # "none"

\* r has claimed the execution of its action.
Owner(r) ==
    /\ via[r] = "approval"
    /\ pc[r] \in {"preflight", "waiting"} \/ task[r] # "none"

ResumedHoldsRow ==
    \A r \in Requests : Resumed(r) =>
        /\ held[prop[r].id] = prop[r]
        /\ status[prop[r].id] \in {"approved", "executing", "consumed"}

OwnerClaimed ==
    \A r \in Requests : Owner(r) =>
        /\ status[prop[r].id] \in {"executing", "consumed"}
        /\ pc[r] \in {"preflight", "waiting"} => status[prop[r].id] = "executing"

OneOwner ==
    \A r, s \in Requests : Owner(r) /\ Owner(s) /\ prop[r].id = prop[s].id => r = s

TaskAuthorized ==
    \A r \in Requests : task[r] # "none" =>
        \/ prop[r].id \in AutoApproved
        \/ via[r] = "approval" /\ started[r] < expires[prop[r].id]

Inbox == NoTaskYet /\ ResumedHoldsRow /\ OwnerClaimed /\ OneOwner /\ TaskAuthorized

SafetyInv == TypeInv /\ Inbox /\ DecisionFinal

LEMMA SafetyInit == Init => Inbox /\ DecisionFinal
BY DEF Init, Inbox, NoTaskYet, ResumedHoldsRow, Resumed, OwnerClaimed, OneOwner, Owner,
       TaskAuthorized, DecisionFinal

\* Steps that only end tasks or lose requests keep the inbox safe.
LEMMA InboxFrame ==
    ASSUME Inbox, DecisionFinal, UNCHANGED <<storeVars, via, prop, started>>,
           \A q \in Requests : task'[q] = "none" <=> task[q] = "none",
           \A q \in Requests : pc'[q] = pc[q] \/ pc'[q] = "lost"
    PROVE  Inbox' /\ DecisionFinal'
<1> USE DEF storeVars
<1>1. NoTaskYet'
  BY DEF Inbox, NoTaskYet
<1>2. \A q \in Requests : (Resumed(q)' => Resumed(q)) /\ (Owner(q)' => Owner(q))
  BY DEF Resumed, Owner
<1>3. ResumedHoldsRow'
  BY <1>2 DEF Inbox, ResumedHoldsRow
<1>4. OwnerClaimed'
  BY <1>2 DEF Inbox, OwnerClaimed
<1>5. OneOwner'
  BY <1>2 DEF Inbox, OneOwner
<1>6. TaskAuthorized'
  BY DEF Inbox, TaskAuthorized
<1>7. DecisionFinal'
  BY DEF DecisionFinal
<1>8. QED
  BY <1>1, <1>3, <1>4, <1>5, <1>6, <1>7 DEF Inbox

\* A request that returns finalizes only the row it owns.
LEMMA ReturnSafe ==
    ASSUME SafetyInv, NEW r \in Requests, NEW res, Return(r, res),
           pc[r] \in {"preflight", "waiting"}, UNCHANGED <<task, started>>
    PROVE  Inbox' /\ DecisionFinal'
<1> DEFINE a == prop[r].id
<1>1. /\ pc \in [Requests -> {"idle", "decided", "preflight", "waiting", "done", "lost"}]
      /\ status \in [Actions -> Statuses] /\ a \in Actions
      /\ \A q \in Requests : Resumed(q) => prop[q].id \in Actions
  BY ProposalId DEF SafetyInv, TypeInv, TypeOK, RequestType, StoreType, CarriesProposal, Resumed
<1>2. /\ pc' = [pc EXCEPT ![r] = "done"]
      /\ UNCHANGED <<via, prop, held, expires, records, task, started>>
      /\ \A b \in Actions : \/ status'[b] = status[b]
                            \/ b = a /\ Owner(r) /\ status[b] = "executing"
                                     /\ status'[b] = "consumed"
  BY <1>1 DEF Return, Owner
<1>3. \A q \in Requests : (Resumed(q)' => Resumed(q)) /\ (Owner(q)' => Owner(q))
  BY <1>1, <1>2 DEF Resumed, Owner
<1>4. NoTaskYet'
  BY <1>1, <1>2 DEF SafetyInv, Inbox, NoTaskYet
<1>5. ResumedHoldsRow'
  BY <1>1, <1>2, <1>3 DEF SafetyInv, Inbox, ResumedHoldsRow
<1>6. OneOwner'
  BY <1>2, <1>3 DEF SafetyInv, Inbox, OneOwner
<1>7. OwnerClaimed'
  <2> SUFFICES ASSUME NEW q \in Requests, Owner(q)'
               PROVE  /\ status'[prop[q].id] \in {"executing", "consumed"}
                      /\ pc'[q] \in {"preflight", "waiting"} => status'[prop[q].id] = "executing"
    BY <1>2 DEF OwnerClaimed
  <2>1. Owner(q) /\ prop[q].id \in Actions
    BY <1>1, <1>3 DEF Owner, Resumed
  <2>2. CASE prop[q].id = a /\ Owner(r)
    <3>1. q = r
      BY <2>1, <2>2 DEF SafetyInv, Inbox, OneOwner
    <3>2. QED
      BY <1>1, <1>2, <2>1, <3>1 DEF SafetyInv, Inbox, OwnerClaimed
  <2>3. CASE ~(prop[q].id = a /\ Owner(r))
    <3>1. status'[prop[q].id] = status[prop[q].id]
      BY <1>2, <2>1, <2>3
    <3>2. pc'[q] \in {"preflight", "waiting"} => pc'[q] = pc[q]
      BY <1>1, <1>2
    <3>3. QED
      BY <2>1, <3>1, <3>2 DEF SafetyInv, Inbox, OwnerClaimed
  <2>4. QED
    BY <2>2, <2>3
<1>8. TaskAuthorized'
  BY <1>2 DEF SafetyInv, Inbox, TaskAuthorized
<1>9. DecisionFinal'
  BY <1>2 DEF SafetyInv, DecisionFinal
<1>10. QED
  BY <1>4, <1>5, <1>6, <1>7, <1>8, <1>9 DEF Inbox

LEMMA RequestSafe ==
    ASSUME SafetyInv, NEW r \in Requests, RequestStep(r)
    PROVE  Inbox' /\ DecisionFinal'
<1>0. /\ pc \in [Requests -> {"idle", "decided", "preflight", "waiting", "done", "lost"}]
      /\ via \in [Requests -> {"direct", "approval"}]
      /\ prop \in [Requests -> Proposals \cup {None}]
      /\ task \in [Requests -> {"none", "running", "cancelling", "ended", "lost"}]
      /\ started \in [Requests -> 0..MaxTime]
      /\ status \in [Actions -> Statuses]
      /\ held \in [Actions -> Proposals \cup {None}]
      /\ expires \in [Actions -> Nat]
      /\ RowsHold
      /\ \A q \in Requests : Resumed(q) \/ Owner(q) \/ task[q] # "none" => prop[q].id \in Actions
  BY ProposalId DEF SafetyInv, TypeInv, TypeOK, RequestType, TaskType, StoreType,
     CarriesProposal, Resumed, Owner
<1>01. NoTaskYet /\ ResumedHoldsRow /\ OwnerClaimed /\ OneOwner /\ TaskAuthorized
       /\ DecisionFinal
  BY DEF SafetyInv, Inbox
<1>1. ASSUME NEW p \in Proposals, Propose(r, p)
      PROVE  Inbox' /\ DecisionFinal'
  <2>1. /\ pc' = [pc EXCEPT ![r] = "preflight"]
        /\ via' = [via EXCEPT ![r] = "direct"]
        /\ prop' = [prop EXCEPT ![r] = p]
        /\ UNCHANGED <<status, held, expires, records, task, started>>
        /\ task[r] = "none"
    BY <1>01, <1>1 DEF Propose, storeVars, taskVars, NoTaskYet
  <2>2. NoTaskYet'
    BY <1>0, <1>01, <2>1 DEF NoTaskYet
  <2>3. \A q \in Requests : (Resumed(q)' => Resumed(q) /\ q # r)
                         /\ (Owner(q)' => Owner(q) /\ q # r)
    BY <1>0, <2>1 DEF Resumed, Owner
  <2>4. \A q \in Requests : q # r => prop'[q] = prop[q] /\ pc'[q] = pc[q] /\ via'[q] = via[q]
    BY <1>0, <2>1
  <2>5. ResumedHoldsRow'
    BY <1>01, <2>1, <2>3, <2>4 DEF ResumedHoldsRow
  <2>6. OwnerClaimed' /\ OneOwner'
    BY <1>01, <2>1, <2>3, <2>4 DEF OwnerClaimed, OneOwner
  <2>7. TaskAuthorized' /\ DecisionFinal'
    BY <1>01, <2>1, <2>4 DEF TaskAuthorized, DecisionFinal
  <2>8. QED
    BY <2>2, <2>5, <2>6, <2>7 DEF Inbox
<1>2. ASSUME PreflightFails(r) \/ RetryBlocked(r) \/ Denied(r)
      PROVE  Inbox' /\ DecisionFinal'
  BY <1>2, ReturnSafe DEF PreflightFails, RetryBlocked, Denied, taskVars
<1>3. ASSUME RequestApproval(r)
      PROVE  Inbox' /\ DecisionFinal'
  <2> DEFINE a == prop[r].id
  <2>1. /\ pc' = [pc EXCEPT ![r] = "done"]
        /\ UNCHANGED <<via, prop, records, task, started>>
        /\ task[r] = "none" /\ prop[r] \in Proposals /\ a \in Actions
    BY <1>01, <1>3, ProposalId DEF RequestApproval, taskVars, NoTaskYet, SafetyInv, TypeInv,
       CarriesProposal
  <2>2. /\ \A b \in Actions : status[b] # "absent" =>
              status'[b] = status[b] /\ held'[b] = held[b] /\ expires'[b] = expires[b]
        /\ \A b \in Actions : status[b] = "absent" => status'[b] \in {"absent", "pending"}
    BY <1>0, <1>3, <2>1 DEF RequestApproval, CreateOrGet
  <2>3. NoTaskYet'
    BY <1>0, <1>01, <2>1 DEF NoTaskYet
  <2>4. \A q \in Requests : (Resumed(q)' => Resumed(q)) /\ (Owner(q)' => Owner(q))
                         /\ (Owner(q)' => pc'[q] = pc[q])
    BY <1>0, <2>1 DEF Resumed, Owner
  <2>5. \A q \in Requests : Owner(q) => Resumed(q)
    BY DEF Owner, Resumed
  <2>6. ResumedHoldsRow'
    BY <1>0, <1>01, <2>1, <2>2, <2>4 DEF ResumedHoldsRow
  <2>7. OwnerClaimed'
    BY <1>0, <1>01, <2>1, <2>2, <2>4 DEF OwnerClaimed
  <2>8. OneOwner'
    BY <1>01, <2>1, <2>4 DEF OneOwner
  <2>9. TaskAuthorized'
    <3> SUFFICES ASSUME NEW q \in Requests, task[q] # "none", prop[q].id \notin AutoApproved
                 PROVE  via[q] = "approval" /\ started[q] < expires'[prop[q].id]
      BY <2>1 DEF TaskAuthorized
    <3>1. via[q] = "approval" /\ started[q] < expires[prop[q].id]
      BY <1>01 DEF TaskAuthorized
    <3>2. status[prop[q].id] # "absent" /\ prop[q].id \in Actions
      BY <1>0, <1>01, <3>1 DEF ResumedHoldsRow, Resumed
    <3>3. QED
      BY <2>2, <3>1, <3>2
  <2>10. DecisionFinal'
    BY <1>0, <1>01, <2>1, <2>2 DEF DecisionFinal
  <2>11. QED
    BY <2>3, <2>6, <2>7, <2>8, <2>9, <2>10 DEF Inbox
<1>4. ASSUME Dispatch(r)
      PROVE  Inbox' /\ DecisionFinal'
  <2>1. /\ pc' = [pc EXCEPT ![r] = "waiting"]
        /\ task' = [task EXCEPT ![r] = "running"]
        /\ started' = [started EXCEPT ![r] = now]
        /\ pc[r] = "preflight"
        /\ UNCHANGED <<via, prop, status, held, expires, records>>
    BY <1>4 DEF Dispatch, storeVars
  <2>2. NoTaskYet'
    BY <1>0, <1>01, <2>1 DEF NoTaskYet
  <2>3. \A q \in Requests : (Resumed(q)' => Resumed(q)) /\ (Owner(q)' => Owner(q))
    BY <1>0, <2>1 DEF Resumed, Owner
  <2>4. ResumedHoldsRow' /\ OneOwner'
    BY <1>01, <2>1, <2>3 DEF ResumedHoldsRow, OneOwner
  <2>5. OwnerClaimed'
    BY <1>0, <1>01, <2>1, <2>3 DEF OwnerClaimed
  <2>6. TaskAuthorized'
    <3>1. \/ prop[r].id \in AutoApproved
          \/ via[r] = "approval" /\ now < expires[prop[r].id]
      BY <1>4 DEF Dispatch, ReviewMode, HumanApproved
    <3>2. QED
      BY <1>0, <1>01, <2>1, <3>1 DEF TaskAuthorized
  <2>7. DecisionFinal'
    BY <1>01, <2>1 DEF DecisionFinal
  <2>8. QED
    BY <2>2, <2>4, <2>5, <2>6, <2>7 DEF Inbox
<1>5. ASSUME WaiterResumes(r)
      PROVE  Inbox' /\ DecisionFinal'
  <2>1. CASE outcome[r] # None
    BY <1>5, <2>1, ReturnSafe DEF WaiterResumes, taskVars
  <2>2. CASE outcome[r] = None
    <3>1. pc' = [pc EXCEPT ![r] = "done"]
          /\ UNCHANGED <<status, held, expires, records, via, prop, task, started>>
      BY <1>5, <2>2 DEF WaiterResumes, storeVars, taskVars
    <3>2. \A q \in Requests : (Resumed(q)' => Resumed(q)) /\ (Owner(q)' => Owner(q))
                           /\ (pc'[q] = pc[q] \/ pc'[q] = "done")
      BY <1>0, <3>1 DEF Resumed, Owner
    <3>3. NoTaskYet' /\ ResumedHoldsRow' /\ OneOwner'
      BY <1>01, <3>1, <3>2 DEF NoTaskYet, ResumedHoldsRow, OneOwner
    <3>4. OwnerClaimed' /\ TaskAuthorized' /\ DecisionFinal'
      BY <1>01, <3>1, <3>2 DEF OwnerClaimed, TaskAuthorized, DecisionFinal
    <3>5. QED
      BY <3>3, <3>4 DEF Inbox
  <2>3. QED
    BY <2>1, <2>2
<1>6. ASSUME NEW a \in Actions, NEW approved \in BOOLEAN, Decide(r, a, approved)
      PROVE  Inbox' /\ DecisionFinal'
  <2>1. /\ prop' = [prop EXCEPT ![r] = held[a]]
        /\ via' = [via EXCEPT ![r] = "approval"]
        /\ UNCHANGED <<held, expires, task, started>>
        /\ task[r] = "none" /\ held[a].id = a
        /\ \A q \in Requests \ {r} : pc'[q] = pc[q] /\ prop'[q] = prop[q] /\ via'[q] = via[q]
    BY <1>0, <1>01, <1>6 DEF Decide, taskVars, NoTaskYet, RowsHold
  <2>2. pc'[r] \in {"done", "decided"} /\ (pc'[r] = "decided" => status'[a] = "approved")
    BY <1>0, <1>6 DEF Decide
  <2>3. \A b \in Actions : status'[b] = status[b] \/ status[b] = "pending"
    BY <1>0, <1>6 DEF Decide
  <2>4. NoTaskYet'
    BY <1>01, <2>1 DEF NoTaskYet
  <2>5. \A q \in Requests \ {r} : (Resumed(q)' => Resumed(q)) /\ (Owner(q)' => Owner(q))
    BY <2>1 DEF Resumed, Owner
  <2>6. ~Owner(r)' /\ (Resumed(r)' => pc'[r] = "decided")
    BY <2>1, <2>2 DEF Resumed, Owner
  <2>7. ResumedHoldsRow'
    <3> SUFFICES ASSUME NEW q \in Requests, Resumed(q)'
                 PROVE  /\ held'[prop'[q].id] = prop'[q]
                        /\ status'[prop'[q].id] \in {"approved", "executing", "consumed"}
      BY DEF ResumedHoldsRow
    <3>1. CASE q = r
      BY <1>0, <2>1, <2>2, <2>6, <3>1
    <3>2. CASE q # r
      BY <1>0, <1>01, <2>1, <2>3, <2>5, <3>2 DEF ResumedHoldsRow
    <3>3. QED
      BY <3>1, <3>2
  <2>8. OwnerClaimed'
    BY <1>0, <1>01, <2>1, <2>3, <2>5, <2>6 DEF OwnerClaimed
  <2>9. OneOwner'
    BY <1>01, <2>1, <2>5, <2>6 DEF OneOwner
  <2>10. TaskAuthorized'
    BY <1>01, <2>1 DEF TaskAuthorized
  <2>11. DecisionFinal'
    <3>1. CASE status[a] = "pending" /\ now < expires[a]
      <4> DEFINE x == [approval |-> a, approved |-> approved, by |-> r]
      <4>1. records' = records \cup {x}
            /\ status' = [status EXCEPT ![a] = IF approved THEN "approved" ELSE "rejected"]
        BY <1>0, <1>6, <3>1 DEF Decide, SafetyInv, TypeInv, TypeOK, StoreType
      <4>2. \A y \in records : y.approval # a
        BY <1>01, <3>1 DEF DecisionFinal
      <4>3. x.approval = a /\ (x.approved <=> approved)
        OBVIOUS
      <4>4. \A y, z \in records' : y.approval = z.approval => y = z
        BY <1>01, <4>1, <4>2, <4>3 DEF DecisionFinal
      <4>5. status'[a] = IF approved THEN "approved" ELSE "rejected"
        BY <1>0, <4>1
      <4>6. \A b \in Actions \ {a} : status'[b] = status[b]
        BY <1>0, <4>1
      <4>7. ASSUME NEW b \in Actions
            PROVE  /\ status'[b] \in {"approved", "executing", "consumed"} <=>
                         \E y \in records' : y.approval = b /\ y.approved
                   /\ status'[b] = "rejected" <=>
                         \E y \in records' : y.approval = b /\ ~y.approved
        <5>1. CASE b = a
          <6>1. x \in records' /\ \A y \in records' : y.approval = a => y = x
            BY <4>1, <4>2
          <6>2. /\ (\E y \in records' : y.approval = a /\ y.approved) <=> approved
                /\ (\E y \in records' : y.approval = a /\ ~y.approved) <=> ~approved
            BY <4>3, <6>1, Zenon
          <6>3. (status'[a] \in {"approved", "executing", "consumed"} <=> approved)
                /\ (status'[a] = "rejected" <=> ~approved)
            BY <4>5
          <6>4. QED
            BY <5>1, <6>2, <6>3, Zenon
        <5>2. CASE b # a
          BY <1>01, <4>1, <4>3, <4>6, <5>2 DEF DecisionFinal
        <5>3. QED
          BY <5>1, <5>2
      <4>8. QED
        BY <4>4, <4>7 DEF DecisionFinal
    <3>2. CASE ~(status[a] = "pending" /\ now < expires[a])
      <4>1. UNCHANGED records
        BY <1>6, <3>2 DEF Decide
      <4>2. \A b \in Actions : \/ status'[b] = status[b]
                               \/ status[b] = "pending" /\ status'[b] = "expired"
        BY <1>0, <1>6, <3>2 DEF Decide
      <4>3. QED
        BY <1>01, <4>1, <4>2 DEF DecisionFinal
    <3>3. QED
      BY <3>1, <3>2
  <2>12. QED
    BY <2>4, <2>7, <2>8, <2>9, <2>10, <2>11 DEF Inbox
<1>7. ASSUME Claim(r)
      PROVE  Inbox' /\ DecisionFinal'
  <2> DEFINE a == prop[r].id
  <2>1. /\ pc[r] = "decided" /\ task[r] = "none"
        /\ UNCHANGED <<via, prop, held, expires, records, task, started>>
    BY <1>01, <1>7 DEF Claim, taskVars, NoTaskYet
  <2>2. CASE status[a] = "approved"
    <3>1. status' = [status EXCEPT ![a] = "executing"] /\ pc' = [pc EXCEPT ![r] = "preflight"]
      BY <1>7, <2>2 DEF Claim
    <3>2. \A q \in Requests \ {r} : (Resumed(q)' => Resumed(q)) /\ (Owner(q)' => Owner(q))
                                 /\ pc'[q] = pc[q]
      BY <1>0, <2>1, <3>1 DEF Resumed, Owner
    <3>3. \A q \in Requests : Owner(q) => prop[q].id # a
      BY <1>01, <2>2 DEF OwnerClaimed
    <3>4. (Resumed(r)' \/ Owner(r)') => Resumed(r)
      BY <2>1 DEF Resumed, Owner
    <3>5. \A b \in Actions : \/ status'[b] = status[b] /\ b # a
                             \/ b = a /\ status'[b] = "executing"
      BY <1>0, <3>1
    <3>6. NoTaskYet'
      BY <1>0, <1>01, <2>1, <3>1 DEF NoTaskYet
    <3>7. ResumedHoldsRow'
      BY <1>0, <1>01, <2>1, <3>2, <3>4, <3>5 DEF ResumedHoldsRow
    <3>8. OneOwner'
      BY <1>01, <2>1, <3>2, <3>3 DEF OneOwner
    <3>9. OwnerClaimed'
      <4> SUFFICES ASSUME NEW q \in Requests, Owner(q)'
                   PROVE  /\ status'[prop[q].id] \in {"executing", "consumed"}
                          /\ pc'[q] \in {"preflight", "waiting"} => status'[prop[q].id] = "executing"
        BY <2>1 DEF OwnerClaimed
      <4>1. CASE q = r
        BY <1>0, <3>4, <3>5, <4>1
      <4>2. CASE q # r
        BY <1>0, <1>01, <3>2, <3>3, <3>5, <4>2 DEF OwnerClaimed
      <4>3. QED
        BY <4>1, <4>2
    <3>10. TaskAuthorized'
      BY <1>01, <2>1 DEF TaskAuthorized
    <3>11. DecisionFinal'
      BY <1>01, <2>1, <2>2, <3>5 DEF DecisionFinal
    <3>12. QED
      BY <3>6, <3>7, <3>8, <3>9, <3>10, <3>11 DEF Inbox
  <2>3. CASE status[a] # "approved"
    <3>1. pc' = [pc EXCEPT ![r] = "done"] /\ UNCHANGED status
      BY <1>7, <2>3 DEF Claim
    <3>2. \A q \in Requests : (Resumed(q)' => Resumed(q)) /\ (Owner(q)' => Owner(q))
                           /\ (pc'[q] = pc[q] \/ pc'[q] = "done")
      BY <1>0, <2>1, <3>1 DEF Resumed, Owner
    <3>3. NoTaskYet' /\ ResumedHoldsRow' /\ OneOwner'
      BY <1>01, <2>1, <3>1, <3>2 DEF NoTaskYet, ResumedHoldsRow, OneOwner
    <3>4. OwnerClaimed' /\ TaskAuthorized' /\ DecisionFinal'
      BY <1>01, <2>1, <3>1, <3>2 DEF OwnerClaimed, TaskAuthorized, DecisionFinal
    <3>5. QED
      BY <3>3, <3>4 DEF Inbox
  <2>4. QED
    BY <2>2, <2>3
<1>8. QED
  BY <1>1, <1>2, <1>3, <1>4, <1>5, <1>6, <1>7 DEF RequestStep

\* What only ends tasks, loses requests or answers controls.
LEMMA OtherQuiet ==
    ASSUME SafetyInv,
           \/ \E r \in Requests : TaskStep(r) \/ DropWaiter(r)
           \/ \E c \in Controls : ControlStep(c)
           \/ Tick
           \/ Crash
           \/ UNCHANGED vars
    PROVE  /\ UNCHANGED <<storeVars, via, prop, started>>
           /\ \A q \in Requests : task'[q] = "none" <=> task[q] = "none"
           /\ \A q \in Requests : pc'[q] = pc[q] \/ pc'[q] = "lost"
<1>0. /\ pc \in [Requests -> {"idle", "decided", "preflight", "waiting", "done", "lost"}]
      /\ task \in [Requests -> {"none", "running", "cancelling", "ended", "lost"}]
  BY DEF SafetyInv, TypeInv, TypeOK, RequestType, TaskType
<1> DEFINE Quiet == /\ UNCHANGED <<storeVars, via, prop, started>>
                    /\ \A q \in Requests : task'[q] = "none" <=> task[q] = "none"
                    /\ \A q \in Requests : pc'[q] = pc[q] \/ pc'[q] = "lost"
<1>1. ASSUME NEW r \in Requests, TaskStep(r)
      PROVE  Quiet
  <2>1. CASE \E ok \in BOOLEAN : BackendReturns(r, ok)
    BY <1>0, <2>1 DEF BackendReturns, EndTask, requestVars
  <2>2. CASE TaskCancelled(r)
    BY <1>0, <2>2 DEF TaskCancelled, EndTask, requestVars
  <2>3. QED
    BY <1>1, <2>1, <2>2 DEF TaskStep
<1>2. ASSUME NEW r \in Requests, DropWaiter(r)
      PROVE  Quiet
  BY <1>0, <1>2 DEF DropWaiter, taskVars
<1>3. ASSUME NEW c \in Controls, ControlStep(c)
      PROVE  Quiet
  <2>1. CASE \E ok \in BOOLEAN : CancelAnswered(c, ok)
    BY <1>0, <2>1 DEF CancelAnswered, requestVars
  <2>2. CASE \E i \in ControlIds, a \in Actions :
               ReplayControl(c, i, a) \/ CancelAction(c, i, a) \/ ReconcileAction(c, i, a)
    BY <2>2 DEF ReplayControl, CancelAction, ReconcileAction, requestVars, taskVars
  <2>3. CASE CancelSupportChecked(c)
    BY <2>3 DEF CancelSupportChecked, requestVars, taskVars
  <2>4. QED
    BY <1>3, <2>1, <2>2, <2>3 DEF ControlStep
<1>4. ASSUME Tick \/ UNCHANGED vars
      PROVE  Quiet
  BY <1>4 DEF Tick, vars, requestVars, taskVars
<1>5. ASSUME Crash
      PROVE  Quiet
  BY <1>0, <1>5 DEF Crash
<1>6. QED
  BY <1>1, <1>2, <1>3, <1>4, <1>5

LEMMA OtherSafe ==
    ASSUME SafetyInv,
           \/ \E r \in Requests : TaskStep(r) \/ DropWaiter(r)
           \/ \E c \in Controls : ControlStep(c)
           \/ Tick
           \/ Crash
           \/ UNCHANGED vars
    PROVE  Inbox' /\ DecisionFinal'
BY OtherQuiet, InboxFrame DEF SafetyInv

LEMMA SweepSafe ==
    ASSUME SafetyInv, SweepExpired
    PROVE  Inbox' /\ DecisionFinal'
<1>1. /\ UNCHANGED <<held, expires, records, pc, via, prop, task, started>>
      /\ \A b \in Actions : \/ status'[b] = status[b]
                            \/ status[b] = "pending" /\ status'[b] = "expired"
  BY DEF SweepExpired, DueRows, requestVars, taskVars
<1>2. \A q \in Requests : (Resumed(q)' <=> Resumed(q)) /\ (Owner(q)' <=> Owner(q))
  BY <1>1 DEF Resumed, Owner
<1>3. \A q \in Requests : Resumed(q) \/ Owner(q) => prop[q].id \in Actions
  BY ProposalId DEF SafetyInv, TypeInv, CarriesProposal, Resumed, Owner
<1>4. ResumedHoldsRow' /\ OwnerClaimed'
  BY <1>1, <1>2, <1>3 DEF SafetyInv, Inbox, ResumedHoldsRow, OwnerClaimed
<1>5. NoTaskYet' /\ OneOwner' /\ TaskAuthorized'
  BY <1>1, <1>2 DEF SafetyInv, Inbox, NoTaskYet, OneOwner, TaskAuthorized
<1>6. DecisionFinal'
  BY <1>1 DEF SafetyInv, DecisionFinal
<1>7. QED
  BY <1>4, <1>5, <1>6 DEF Inbox

\* The inductive invariant holds in every state.
THEOREM SafetyInvariant == Spec => []SafetyInv
<1>1. SafetyInv /\ TypeInv' /\ [Next]_vars => SafetyInv'
  <2> SUFFICES ASSUME SafetyInv, TypeInv', [Next]_vars PROVE Inbox' /\ DecisionFinal'
    BY DEF SafetyInv
  <2>1. CASE \E r \in Requests : RequestStep(r)
    BY <2>1, RequestSafe
  <2>2. CASE SweepExpired
    BY <2>2, SweepSafe
  <2>3. QED
    BY <2>1, <2>2, OtherSafe DEF Next
<1>2. Init => SafetyInv
  BY TypeInit, SafetyInit DEF SafetyInv
<1>3. QED
  BY <1>1, <1>2, TypeCorrect, PTL DEF Spec

\* However many clients approve, re-approve or re-propose a gated action, and
\* whatever crashes or is dropped, its backend is called at most once.
THEOREM AtMostOnce == Spec => []ExecutedAtMostOnce
<1>1. SafetyInv => ExecutedAtMostOnce
  BY DEF SafetyInv, Inbox, OneOwner, Owner, TaskAuthorized, ExecutedAtMostOnce, Dispatched
<1>2. QED
  BY <1>1, SafetyInvariant, PTL

\* Whatever reaches a backend is auto-approved by the policy, or is exactly
\* the proposal an operator approved, started before the approval expired.
THEOREM OnlyAuthorized == Spec => []DispatchAuthorized
<1>1. SafetyInv => DispatchAuthorized
  <2> SUFFICES ASSUME SafetyInv, NEW r \in Requests, task[r] # "none",
                      prop[r].id \notin AutoApproved
               PROVE  /\ held[prop[r].id] = prop[r]
                      /\ started[r] < expires[prop[r].id]
                      /\ status[prop[r].id] \in {"executing", "consumed"}
                      /\ \E x \in records : x.approval = prop[r].id /\ x.approved
    BY DEF DispatchAuthorized
  <2>1. prop[r].id \in Actions
    BY ProposalId DEF SafetyInv, TypeInv, CarriesProposal
  <2>2. via[r] = "approval" /\ started[r] < expires[prop[r].id]
    BY DEF SafetyInv, Inbox, TaskAuthorized
  <2>3. held[prop[r].id] = prop[r] /\ status[prop[r].id] \in {"executing", "consumed"}
    BY <2>2 DEF SafetyInv, Inbox, ResumedHoldsRow, OwnerClaimed, Resumed, Owner
  <2>4. \E x \in records : x.approval = prop[r].id /\ x.approved
    BY <2>1, <2>3 DEF SafetyInv, DecisionFinal
  <2>5. QED
    BY <2>2, <2>3, <2>4
<1>2. QED
  BY <1>1, SafetyInvariant, PTL

\* An approval is decided once and its row never contradicts the decision.
THEOREM DecisionsAreFinal == Spec => []DecisionFinal
<1>1. SafetyInv => DecisionFinal
  BY DEF SafetyInv
<1>2. QED
  BY <1>1, SafetyInvariant, PTL

-----------------------------------------------------------------------------
(* The path implements the contract of the inbox                           *)

Gated == Actions \ AutoApproved

\* A step of the contract, or none.
ContractStep ==
    [Contract!Next]_<<[a \in Actions \ AutoApproved |-> Phase(a)],
                      [a \in Actions \ AutoApproved |-> Dispatched(a) # {}]>>

\* A step that starts no task leaves every effect of the contract alone.
LEMMA EffectFrame ==
    ASSUME \A q \in Requests : task'[q] = "none" <=> task[q] = "none",
           \A q \in Requests : task[q] # "none" => prop'[q].id = prop[q].id
    PROVE  \A a \in Actions : Dispatched(a)' = Dispatched(a)
BY DEF Dispatched

\* A step that changes neither phases nor effects is none of the contract.
LEMMA ContractStutters ==
    ASSUME \A a \in Gated : status'[a] = status[a],
           \A a \in Gated : Dispatched(a)' = Dispatched(a)
    PROVE  ContractStep
BY DEF Gated, Phase, ContractStep

\* The moves of a row of the inbox.
RowMoves == {<<"absent", "pending">>, <<"pending", "approved">>, <<"pending", "rejected">>,
             <<"pending", "expired">>, <<"approved", "executing">>, <<"executing", "consumed">>}

\* A row that moves is a step of the contract, if its action is gated.
LEMMA ContractMoves ==
    ASSUME status \in [Actions -> Statuses], NEW a \in Actions, NEW s \in Statuses,
           status' = [status EXCEPT ![a] = s], <<status[a], s>> \in RowMoves,
           \A b \in Actions : Dispatched(b)' = Dispatched(b)
    PROVE  ContractStep
<1> DEFINE ph == [b \in Actions \ AutoApproved |-> Phase(b)]
           eff == [b \in Actions \ AutoApproved |-> Dispatched(b) # {}]
<1>1. CASE a \in AutoApproved
  BY <1>1, ContractStutters DEF Gated
<1>2. CASE a \notin AutoApproved
  <2>1. eff' = eff
    OBVIOUS
  <2>2. \A b \in Actions \ {a} : Phase(b)' = Phase(b)
    BY DEF Phase
  <2>3. ph[a] = Phase(a) /\ Phase(a)' = ph'[a]
    BY <1>2
  <2>4. CASE s \in {"rejected", "expired"}
    <3>1. Phase(a) = "asked" /\ Phase(a)' = "refused"
      BY <2>4 DEF RowMoves, Phase
    <3>2. ph' = [b \in Actions \ AutoApproved |-> IF b \in {a} THEN "refused" ELSE ph[b]]
      BY <1>2, <2>2, <3>1
    <3>3. Contract!Refuse({a})
      BY <1>2, <2>1, <3>1, <3>2 DEF Contract!Refuse
    <3>4. QED
      BY <1>2, <3>3 DEF Contract!Next, ContractStep
  <2>5. CASE s \notin {"rejected", "expired"}
    <3> DEFINE to == Phase(a)'
    <3>1. <<Phase(a), to>> \in {<<"new", "asked">>, <<"asked", "granted">>,
                                <<"granted", "claimed">>, <<"claimed", "settled">>}
      BY <2>5 DEF RowMoves, Phase
    <3>2. ph' = [ph EXCEPT ![a] = to]
      BY <1>2, <2>2
    <3>3. Contract!Move(a, Phase(a), to)
      BY <1>2, <2>1, <2>3, <3>2 DEF Contract!Move
    <3>4. QED
      BY <1>2, <3>1, <3>3 DEF Contract!Next, ContractStep
  <2>6. QED
    BY <2>4, <2>5
<1>3. QED
  BY <1>1, <1>2

\* A request that returns settles the row it owns, or moves nothing.
LEMMA ReturnContract ==
    ASSUME SafetyInv, NEW r \in Requests, NEW res, Return(r, res),
           pc[r] \in {"preflight", "waiting"}, UNCHANGED task
    PROVE  ContractStep
<1>1. status \in [Actions -> Statuses] /\ prop[r].id \in Actions
  BY ProposalId DEF SafetyInv, TypeInv, TypeOK, StoreType, CarriesProposal
<1>2. \A a \in Actions : Dispatched(a)' = Dispatched(a)
  BY EffectFrame DEF Return
<1>3. CASE via[r] = "approval" /\ status[prop[r].id] = "executing"
  <2>1. status' = [status EXCEPT ![prop[r].id] = "consumed"]
    BY <1>3 DEF Return
  <2>2. QED
    BY <1>1, <1>2, <1>3, <2>1, ContractMoves, Literals DEF RowMoves
<1>4. CASE ~(via[r] = "approval" /\ status[prop[r].id] = "executing")
  BY <1>1, <1>2, <1>4, ContractStutters DEF Return, Gated
<1>5. QED
  BY <1>3, <1>4

\* Dispatch performs the effect of a gated action, which is claimed and has
\* none yet.
LEMMA DispatchContract ==
    ASSUME SafetyInv, NEW r \in Requests, Dispatch(r)
    PROVE  ContractStep
<1> DEFINE a == prop[r].id
           ph == [b \in Actions \ AutoApproved |-> Phase(b)]
           eff == [b \in Actions \ AutoApproved |-> Dispatched(b) # {}]
<1>1. /\ a \in Actions /\ task[r] = "none"
      /\ task \in [Requests -> {"none", "running", "cancelling", "ended", "lost"}]
      /\ task' = [task EXCEPT ![r] = "running"] /\ UNCHANGED <<status, prop>>
  BY ProposalId DEF SafetyInv, TypeInv, TypeOK, TaskType, CarriesProposal, Inbox, NoTaskYet,
     Dispatch, storeVars
<1>2. \A b \in Actions \ {a} : Dispatched(b)' = Dispatched(b)
  BY <1>1 DEF Dispatched
<1>3. CASE a \in AutoApproved
  BY <1>1, <1>2, <1>3, ContractStutters DEF Gated
<1>4. CASE a \notin AutoApproved
  <2>1. via[r] = "approval"
    BY <1>4 DEF Dispatch, ReviewMode, HumanApproved
  <2>2. Owner(r) /\ status[a] = "executing"
    BY <2>1 DEF Dispatch, Owner, SafetyInv, Inbox, OwnerClaimed
  <2>3. Dispatched(a) = {}
    BY <1>1, <1>4, <2>2 DEF SafetyInv, Inbox, OneOwner, TaskAuthorized, Owner, Dispatched
  <2>4. Dispatched(a)' # {}
    BY <1>1 DEF Dispatched
  <2>5. ph' = ph
    BY <1>1 DEF Phase
  <2>6. eff' = [eff EXCEPT ![a] = TRUE]
    BY <1>1, <1>2, <1>4, <2>4
  <2>7. Contract!Perform(a)
    BY <1>1, <1>4, <2>2, <2>3, <2>5, <2>6 DEF Contract!Perform, Phase
  <2>8. QED
    BY <1>1, <1>4, <2>7 DEF Contract!Next, ContractStep
<1>5. QED
  BY <1>3, <1>4

LEMMA RequestContract ==
    ASSUME SafetyInv, NEW r \in Requests, RequestStep(r)
    PROVE  ContractStep
<1>0. /\ status \in [Actions -> Statuses]
      /\ pc \in [Requests -> {"idle", "decided", "preflight", "waiting", "done", "lost"}]
      /\ prop \in [Requests -> Proposals \cup {None}]
      /\ pc[r] \in {"idle", "decided", "preflight"} => task[r] = "none"
      /\ pc[r] \in {"decided", "preflight", "waiting"} => prop[r].id \in Actions
  BY ProposalId DEF SafetyInv, TypeInv, TypeOK, StoreType, RequestType, CarriesProposal,
     Inbox, NoTaskYet
<1>1. ASSUME NEW p \in Proposals, Propose(r, p)
      PROVE  ContractStep
  BY <1>0, <1>1, EffectFrame, ContractStutters DEF Propose, Gated, taskVars, storeVars
<1>2. ASSUME PreflightFails(r) \/ RetryBlocked(r) \/ Denied(r)
      PROVE  ContractStep
  BY <1>2, ReturnContract DEF PreflightFails, RetryBlocked, Denied, taskVars
<1>3. ASSUME RequestApproval(r)
      PROVE  ContractStep
  <2>1. \A a \in Actions : Dispatched(a)' = Dispatched(a)
    BY <1>3, EffectFrame DEF RequestApproval, taskVars
  <2>2. CASE status[prop[r].id] = "absent"
    <3>1. status' = [status EXCEPT ![prop[r].id] = "pending"]
      BY <1>3, <2>2 DEF RequestApproval, CreateOrGet
    <3>2. QED
      BY <1>0, <1>3, <2>1, <2>2, <3>1, ContractMoves, Literals DEF RequestApproval, RowMoves
  <2>3. CASE status[prop[r].id] # "absent"
    BY <1>3, <2>1, <2>3, ContractStutters DEF RequestApproval, CreateOrGet, Gated
  <2>4. QED
    BY <2>2, <2>3
<1>4. ASSUME Dispatch(r)
      PROVE  ContractStep
  BY <1>4, DispatchContract
<1>5. ASSUME WaiterResumes(r)
      PROVE  ContractStep
  <2>1. CASE outcome[r] # None
    BY <1>5, <2>1, ReturnContract DEF WaiterResumes, taskVars
  <2>2. CASE outcome[r] = None
    BY <1>5, <2>2, EffectFrame, ContractStutters DEF WaiterResumes, taskVars, storeVars, Gated
  <2>3. QED
    BY <2>1, <2>2
<1>6. ASSUME NEW a \in Actions, NEW approved \in BOOLEAN, Decide(r, a, approved)
      PROVE  ContractStep
  <2>1. \A b \in Actions : Dispatched(b)' = Dispatched(b)
    BY <1>0, <1>6, EffectFrame DEF Decide, taskVars
  <2>2. CASE status[a] = "pending"
    <3>1. \E s \in {"expired", "approved", "rejected"} : status' = [status EXCEPT ![a] = s]
      BY <1>6, <2>2 DEF Decide
    <3>2. QED
      BY <1>0, <2>1, <2>2, <3>1, ContractMoves, Literals DEF RowMoves
  <2>3. CASE status[a] # "pending"
    BY <1>6, <2>1, <2>3, ContractStutters DEF Decide, Gated
  <2>4. QED
    BY <2>2, <2>3
<1>7. ASSUME Claim(r)
      PROVE  ContractStep
  <2>1. \A a \in Actions : Dispatched(a)' = Dispatched(a)
    BY <1>7, EffectFrame DEF Claim, taskVars
  <2>2. CASE status[prop[r].id] = "approved"
    <3>1. status' = [status EXCEPT ![prop[r].id] = "executing"]
      BY <1>7, <2>2 DEF Claim
    <3>2. QED
      BY <1>0, <1>7, <2>1, <2>2, <3>1, ContractMoves, Literals DEF Claim, RowMoves
  <2>3. CASE status[prop[r].id] # "approved"
    BY <1>7, <2>1, <2>3, ContractStutters DEF Claim, Gated
  <2>4. QED
    BY <2>2, <2>3
<1>8. QED
  BY <1>1, <1>2, <1>3, <1>4, <1>5, <1>6, <1>7 DEF RequestStep

\* The sweep refuses all due actions at once.
LEMMA SweepContract ==
    ASSUME SafetyInv, SweepExpired
    PROVE  ContractStep
<1> DEFINE S == DueRows \ AutoApproved
           ph == [b \in Actions \ AutoApproved |-> Phase(b)]
           eff == [b \in Actions \ AutoApproved |-> Dispatched(b) # {}]
<1>1. /\ \A a \in Actions : status'[a] = IF a \in DueRows THEN "expired" ELSE status[a]
      /\ DueRows \subseteq Actions /\ \A a \in DueRows : status[a] = "pending"
      /\ \A a \in Actions : Dispatched(a)' = Dispatched(a)
  BY EffectFrame DEF SweepExpired, DueRows, requestVars, taskVars
<1>2. CASE S = {}
  BY <1>1, <1>2, ContractStutters DEF Gated
<1>3. CASE S # {}
  <2>1. \A a \in S : ph[a] = "asked"
    BY <1>1 DEF Phase
  <2>2. \A a \in Gated : Phase(a)' = IF a \in S THEN "refused" ELSE Phase(a)
    BY <1>1 DEF Phase, Gated
  <2>3. ph' = [a \in Actions \ AutoApproved |-> IF a \in S THEN "refused" ELSE ph[a]]
    BY <2>2 DEF Gated
  <2>4. Contract!Refuse(S)
    BY <1>1, <1>3, <2>1, <2>3 DEF Contract!Refuse
  <2>5. S \in SUBSET (Actions \ AutoApproved)
    BY <1>1
  <2>6. QED
    BY <2>4, <2>5 DEF Contract!Next, ContractStep
<1>4. QED
  BY <1>2, <1>3

\* What ends tasks, loses requests or answers controls is not seen.
LEMMA OtherContract ==
    ASSUME SafetyInv,
           \/ \E r \in Requests : TaskStep(r) \/ DropWaiter(r)
           \/ \E c \in Controls : ControlStep(c)
           \/ Tick
           \/ Crash
           \/ UNCHANGED vars
    PROVE  ContractStep
<1>0. task \in [Requests -> {"none", "running", "cancelling", "ended", "lost"}]
  BY DEF SafetyInv, TypeInv, TypeOK, TaskType
<1>1. UNCHANGED <<status, prop>> /\ \A q \in Requests : task'[q] = "none" <=> task[q] = "none"
  BY <1>0, OtherQuiet DEF storeVars
<1>2. QED
  BY <1>1, EffectFrame, ContractStutters DEF Gated

\* The governed action path implements the contract of the trusted inbox:
\* every step of execute, decide_and_resume, the sweep and the controls is a
\* step the contract allows, or one it does not see.
THEOREM PathImplementsContract == Spec => ImplementsContract
<1>1. Init => Contract!Init
  <2>1. ASSUME Init, NEW a \in Actions
        PROVE  Phase(a) = "new" /\ (Dispatched(a) # {}) = FALSE
    BY <2>1 DEF Init, Phase, Dispatched
  <2>2. QED
    BY <2>1 DEF Contract!Init
<1>2. SafetyInv /\ [Next]_vars => ContractStep
  BY RequestContract, SweepContract, OtherContract DEF Next
<1>3. QED
  BY <1>1, <1>2, SafetyInvariant, PTL DEF Spec, ImplementsContract, Contract!Spec, ContractStep

\* Every step that the page is told of is a step of the action path.
LEMMA WatchedSteps ==
  ASSUME [BrowserNext]_browserVars
  PROVE  [Next]_vars
<1>1. ASSUME NEW r \in Requests, ExecuteSteps(r)
      PROVE  Next
  BY <1>1 DEF ExecuteSteps, Next, RequestStep, TaskStep
<1>2. ASSUME NEW r \in Requests, ApprovalSteps(r)
      PROVE  Next
  BY <1>2 DEF ApprovalSteps, Next, RequestStep
<1>3. ASSUME NEW c \in Controls, ControlSteps(c)
      PROVE  Next
  BY <1>3, ConstantsAssumption DEF ControlSteps, Next, ControlStep
<1>4. CASE SweepSteps \/ ((Tick \/ Crash) /\ UNCHANGED shown)
  BY <1>4 DEF SweepSteps, Next
<1>5. CASE UNCHANGED browserVars
  BY <1>5 DEF browserVars
<1> QED
  BY <1>1, <1>2, <1>3, <1>4, <1>5 DEF BrowserNext

\* The projector of the Senses page (actions.py), which replays the journal,
\* neither adds to nor takes from what the governed action path may do.
THEOREM PageOnlyWatches == BrowserSpec => Spec
<1>1. BrowserInit => Init
  BY DEF BrowserInit
<1>2. [BrowserNext]_browserVars => [Next]_vars
  BY WatchedSteps
<1> QED
  BY <1>1, <1>2, PTL DEF BrowserSpec, Spec

\* Seen from the Senses page too, an action that needs a human decision
\* reaches its backend at most once (claim and _finalize_claimed of the path,
\* whose steps the page's routes call).
THEOREM BrowserAtMostOnce == BrowserSpec => []ExecutedAtMostOnce
  BY PageOnlyWatches, AtMostOnce, PTL

\* The same of the path with the page beside it, as the run checks it.
THEOREM BrowserImplementsContract == BrowserSpec => ImplementsContract
  BY PageOnlyWatches, PathImplementsContract, PTL

-----------------------------------------------------------------------------
(* What the path answers to whoever waits for an approval                  *)

\* The journal says that the action was completed.
Done(a) == "COMPLETED" \in seen[a]

\* Results are of tasks that have ended, the row of a gated action stays
\* claimed while its task runs, and the journal says what its task returned.
ResultInv ==
    /\ \A r \in Requests : outcome[r] # None => task[r] = "ended"
    /\ \A r \in Requests :
          task[r] \in {"running", "cancelling"} /\ prop[r].id \in Gated
              => status[prop[r].id] = "executing"
    /\ \A a \in Gated : Done(a) <=> \E r \in Dispatched(a) : outcome[r] = "completed"

\* A step of the answers, or none.
AnswerStep ==
    [Inquiry!Next]_<<[a \in Actions \ AutoApproved |-> RowAnswer(a)],
                     [a \in Actions \ AutoApproved |-> "COMPLETED" \in seen[a]]>>

\* A row that says the same, of an action that is as completed as before.
LEMMA AnswerStutters ==
    ASSUME \A a \in Gated : RowAnswer(a)' = RowAnswer(a),
           \A a \in Gated : Done(a)' <=> Done(a)
    PROVE  AnswerStep
BY DEF Gated, Done, AnswerStep

\* One row moves, to an answer that is true of its action.
LEMMA AnswerMoves ==
    ASSUME NEW a \in Actions,
           \A b \in Actions \ {a} : status'[b] = status[b] /\ result'[b] = result[b],
           \A b \in Gated : Done(b)' <=> Done(b),
           a \in Gated =>
              \/ RowAnswer(a)' = RowAnswer(a)
              \/ RowAnswer(a) = "new" /\ RowAnswer(a)' = "asked"
              \/ RowAnswer(a) = "asked" /\ RowAnswer(a)' = "ok" /\ Done(a)
              \/ RowAnswer(a) = "asked" /\ RowAnswer(a)' \in {"failed", "refused"} /\ ~Done(a)
    PROVE  AnswerStep
<1> DEFINE ans == [b \in Actions \ AutoApproved |-> RowAnswer(b)]
           com == [b \in Actions \ AutoApproved |-> "COMPLETED" \in seen[b]]
<1>1. \A b \in Actions \ {a} : RowAnswer(b)' = RowAnswer(b)
  BY DEF RowAnswer
<1>2. CASE a \notin Gated \/ RowAnswer(a)' = RowAnswer(a)
  BY <1>1, <1>2, AnswerStutters DEF Gated
<1>3. CASE a \in Gated /\ RowAnswer(a)' # RowAnswer(a)
  <2> DEFINE to == RowAnswer(a)'
  <2>1. a \in Actions \ AutoApproved
    BY <1>3 DEF Gated
  <2>2. com' = com
    BY DEF Done, Gated
  <2>3. ans' = [ans EXCEPT ![a] = to]
    BY <1>1, <2>1
  <2>4. ans[a] = RowAnswer(a) /\ (com[a] <=> Done(a))
    BY <2>1 DEF Done
  <2>5. CASE RowAnswer(a) = "new" /\ to = "asked"
    <3>1. Inquiry!Ask(a)
      BY <2>2, <2>3, <2>4, <2>5 DEF Inquiry!Ask
    <3> QED
      BY <2>1, <3>1 DEF Inquiry!Next, AnswerStep
  <2>6. CASE RowAnswer(a) = "asked" /\ to = "ok" /\ Done(a)
    <3>1. com[a] = TRUE
      BY <2>1, <2>6 DEF Done
    <3>2. com' = [com EXCEPT ![a] = TRUE]
      BY <2>1, <2>2, <3>1
    <3>3. Inquiry!Confirm(a)
      BY <2>3, <2>4, <2>6, <3>2 DEF Inquiry!Confirm
    <3> QED
      BY <2>1, <3>3 DEF Inquiry!Next, AnswerStep
  <2>7. CASE RowAnswer(a) = "asked" /\ to \in {"failed", "refused"} /\ ~Done(a)
    <3>1. ans' = [b \in Actions \ AutoApproved |-> IF b \in {a} THEN to ELSE ans[b]]
      BY <2>3
    <3>2. Inquiry!Decline({a}, to)
      BY <2>2, <2>4, <2>7, <3>1 DEF Inquiry!Decline
    <3>3. {a} \in SUBSET (Actions \ AutoApproved)
      BY <2>1
    <3> QED
      BY <2>7, <3>2, <3>3 DEF Inquiry!Next, AnswerStep
  <2> QED
    BY <1>3, <2>5, <2>6, <2>7
<1> QED
  BY <1>2, <1>3

\* Only a claimed action can have been completed.
LEMMA OpenRowNotDone ==
    ASSUME SafetyInv, ResultInv, NEW a \in Gated, status[a] \notin {"executing", "consumed"}
    PROVE  ~Done(a)
<1>1. ASSUME NEW r \in Dispatched(a) PROVE FALSE
  <2>1. r \in Requests /\ task[r] # "none" /\ prop[r].id = a /\ a \notin AutoApproved
    BY <1>1 DEF Dispatched, Gated
  <2>2. Owner(r)
    BY <2>1 DEF SafetyInv, Inbox, TaskAuthorized, Owner
  <2> QED
    BY <2>1, <2>2 DEF SafetyInv, Inbox, OwnerClaimed
<1> QED
  BY <1>1 DEF ResultInv

\* A gated action has one task at most: the one that its owner started.
LEMMA OneTask ==
    ASSUME SafetyInv, NEW a \in Gated, NEW r \in Requests, Owner(r), prop[r].id = a,
           NEW q \in Dispatched(a)
    PROVE  q = r
<1>1. q \in Requests /\ task[q] # "none" /\ prop[q].id = a /\ a \notin AutoApproved
  BY DEF Dispatched, Gated
<1>2. Owner(q)
  BY <1>1 DEF SafetyInv, Inbox, TaskAuthorized, Owner
<1> QED
  BY <1>1, <1>2 DEF SafetyInv, Inbox, OneOwner

\* Steps that neither return a result nor complete an action.
LEMMA ResultFrame ==
    ASSUME SafetyInv, ResultInv, UNCHANGED outcome,
           \A q \in Requests : task[q] # "none" => prop'[q] = prop[q],
           \A q \in Requests : \/ task'[q] = task[q]
                               \/ task[q] \in {"running", "cancelling"}
                                     /\ task'[q] \in {"cancelling", "lost"},
           \A a \in Gated : Done(a)' <=> Done(a),
           \A q \in Requests : task[q] \in {"running", "cancelling"} /\ prop[q].id \in Gated
               => status'[prop[q].id] = status[prop[q].id]
    PROVE  ResultInv'
<1>1. \A a \in Gated : Dispatched(a)' = Dispatched(a)
  BY DEF Dispatched
<1>2. \A q \in Requests : outcome'[q] # None => task'[q] = "ended"
  BY DEF ResultInv
<1>3. ASSUME NEW q \in Requests, task'[q] \in {"running", "cancelling"}, prop'[q].id \in Gated
      PROVE  status'[prop'[q].id] = "executing"
  BY <1>3 DEF ResultInv
<1>4. \A a \in Gated : Done(a)' <=> \E q \in Dispatched(a)' : outcome'[q] = "completed"
  BY <1>1 DEF ResultInv
<1>5. Gated' = Gated
  BY DEF Gated
<1> QED
  BY <1>2, <1>3, <1>4, <1>5 DEF ResultInv

\* A request that returns settles the row it owns with what became of the action.
LEMMA ReturnAnswer ==
    ASSUME SafetyInv, ResultInv, NEW r \in Requests, NEW res, Return(r, res),
           UNCHANGED <<task, outcome>>, \A b \in Actions : Done(b)' <=> Done(b),
           \/ pc[r] = "preflight" /\ res # "completed"
           \/ pc[r] = "waiting" /\ task[r] = "ended" /\ outcome[r] = res
    PROVE  ResultInv' /\ AnswerStep
<1>0. PICK a \in Actions : a = prop[r].id
  BY ProposalId DEF SafetyInv, TypeInv, CarriesProposal
<1>1. /\ status \in [Actions -> Statuses] /\ result \in [Actions -> Results \cup {None}]
      /\ (pc[r] = "preflight" => task[r] = "none")
  BY DEF SafetyInv, TypeInv, TypeOK, StoreType, Inbox, NoTaskYet
<1>2. CASE via[r] = "approval" /\ status[a] = "executing"
  <2>1. /\ status' = [status EXCEPT ![a] = "consumed"]
        /\ result' = [result EXCEPT ![a] = res] /\ UNCHANGED prop
    BY <1>0, <1>2 DEF Return
  <2>2. Owner(r)
    BY <1>0, <1>2 DEF Owner
  <2>3. ASSUME a \in Gated PROVE Done(a) <=> res = "completed"
    <3>1. CASE pc[r] = "preflight" /\ res # "completed"
      <4>1. Dispatched(a) = {}
        BY <1>1, <2>2, <2>3, <3>1, OneTask, <1>0 DEF Dispatched
      <4> QED
        BY <2>3, <3>1, <4>1 DEF ResultInv
    <3>2. CASE pc[r] = "waiting" /\ task[r] = "ended" /\ outcome[r] = res
      <4>1. \A q \in Dispatched(a) : q = r
        BY <2>2, <2>3, OneTask, <1>0
      <4>2. r \in Dispatched(a)
        BY <1>0, <3>2 DEF Dispatched
      <4> QED
        BY <2>3, <3>2, <4>1, <4>2 DEF ResultInv
    <3> QED
      BY <3>1, <3>2
  <2>4. \A b \in Actions \ {a} : status'[b] = status[b] /\ result'[b] = result[b]
    BY <1>1, <2>1
  <2>5. RowAnswer(a) = "asked" /\ RowAnswer(a)' = IF res = "completed" THEN "ok" ELSE "failed"
    BY <1>1, <1>2, <2>1 DEF RowAnswer
  <2>6. Gated \subseteq Actions
    BY DEF Gated
  <2>7. AnswerStep
    <3>1. \A b \in Gated : Done(b)' <=> Done(b)
      BY <2>6
    <3>2. a \in Gated =>
             \/ RowAnswer(a) = "asked" /\ RowAnswer(a)' = "ok" /\ Done(a)
             \/ RowAnswer(a) = "asked" /\ RowAnswer(a)' \in {"failed", "refused"} /\ ~Done(a)
      BY <2>3, <2>5
    <3> QED
      BY <1>1, <2>4, <3>1, <3>2, AnswerMoves
  <2>8. ASSUME NEW q \in Requests, task[q] \in {"running", "cancelling"}, prop[q].id \in Gated
        PROVE  status'[prop[q].id] = status[prop[q].id]
    <3>1. CASE prop[q].id = a
      <4>1. q \in Dispatched(a)
        BY <2>8, <3>1 DEF Dispatched
      <4>2. q = r
        BY <2>2, <2>8, <3>1, <4>1, OneTask, <1>0
      <4> QED
        BY <1>1, <2>8, <4>2
    <3>2. CASE prop[q].id # a
      BY <2>4, <2>6, <2>8, <3>2
    <3> QED
      BY <3>1, <3>2
  <2>9. ResultInv'
    BY <2>1, <2>6, <2>8, ResultFrame
  <2> QED
    BY <2>7, <2>9
<1>3. CASE ~(via[r] = "approval" /\ status[a] = "executing")
  <2>1. UNCHANGED <<status, result, prop>>
    BY <1>0, <1>3 DEF Return
  <2>2. AnswerStep
    BY <2>1, AnswerStutters DEF RowAnswer, Gated
  <2>3. ResultInv'
    BY <2>1, ResultFrame DEF Gated
  <2> QED
    BY <2>2, <2>3
<1> QED
  BY <1>2, <1>3

\* The preflight refuses: no event of the refusal says that anything was completed.
LEMMA RefuseAnswer ==
    ASSUME SafetyInv, ResultInv, NEW r \in Requests,
           PreflightFails(r) \/ RetryBlocked(r) \/ Denied(r)
    PROVE  ResultInv' /\ AnswerStep
<1>1. seen \in [Actions -> SUBSET EventTypes] /\ pc[r] = "preflight"
  BY DEF SafetyInv, TypeInv, TypeOK, JournalType, PreflightFails, RetryBlocked, Denied
<1>2. \A b \in Actions : Done(b)' <=> Done(b)
  BY <1>1 DEF PreflightFails, RetryBlocked, Denied, EmitTerminal, Done
<1>3. UNCHANGED <<task, outcome>>
  BY DEF PreflightFails, RetryBlocked, Denied, taskVars
<1>4. \E res \in {"preflight-failed", "retry-blocked", "denied"} : Return(r, res)
  BY DEF PreflightFails, RetryBlocked, Denied
<1> QED
  BY <1>1, <1>2, <1>3, <1>4, ReturnAnswer

\* The waiter takes the result of its task.
LEMMA WaiterAnswer ==
    ASSUME SafetyInv, ResultInv, NEW r \in Requests, WaiterResumes(r)
    PROVE  ResultInv' /\ AnswerStep
<1>1. /\ pc[r] = "waiting" /\ task[r] = "ended" /\ UNCHANGED <<task, outcome, seen>>
  BY DEF WaiterResumes, taskVars, journalVars
<1>2. CASE outcome[r] # None
  BY <1>1, <1>2, ReturnAnswer DEF WaiterResumes, Done
<1>3. CASE outcome[r] = None
  <2>1. UNCHANGED <<status, result, prop>>
    BY <1>3 DEF WaiterResumes, storeVars
  <2> QED
    BY <1>1, <2>1, AnswerStutters, ResultFrame DEF RowAnswer, Done
<1> QED
  BY <1>2, <1>3

\* A proposal that needs a decision opens the row of its action.
LEMMA AskAnswer ==
    ASSUME SafetyInv, ResultInv, NEW r \in Requests, RequestApproval(r)
    PROVE  ResultInv' /\ AnswerStep
<1> DEFINE a == prop[r].id
<1>1. /\ status \in [Actions -> Statuses] /\ a \in Actions
      /\ UNCHANGED <<seen, result, prop, task, outcome>>
      /\ \A q \in Requests : task[q] # "none" => prop[q].id \in Actions
  BY ProposalId DEF SafetyInv, TypeInv, TypeOK, StoreType, CarriesProposal, RequestApproval,
     journalVars, taskVars
<1>2. CASE status[a] = "absent"
  <2>1. status' = [status EXCEPT ![a] = "pending"]
    BY <1>2 DEF RequestApproval, CreateOrGet
  <2>2. RowAnswer(a) = "new" /\ RowAnswer(a)' = "asked"
    BY <1>1, <1>2, <2>1 DEF RowAnswer
  <2>3. \A q \in Requests : task[q] \in {"running", "cancelling"} /\ prop[q].id \in Gated
            => prop[q].id # a
    BY <1>2 DEF ResultInv
  <2> QED
    BY <1>1, <2>1, <2>2, <2>3, AnswerMoves, ResultFrame DEF Done
<1>3. CASE status[a] # "absent"
  <2>1. UNCHANGED status
    BY <1>3 DEF RequestApproval, CreateOrGet
  <2> QED
    BY <1>1, <2>1, AnswerStutters, ResultFrame DEF RowAnswer, Done
<1> QED
  BY <1>2, <1>3

\* A decision, or the expiry it comes too late for: nothing was completed yet.
LEMMA DecideAnswer ==
    ASSUME SafetyInv, ResultInv, NEW r \in Requests, NEW a \in Actions,
           NEW approved \in BOOLEAN, Decide(r, a, approved)
    PROVE  ResultInv' /\ AnswerStep
<1>1. /\ status \in [Actions -> Statuses] /\ seen \in [Actions -> SUBSET EventTypes]
      /\ prop \in [Requests -> Proposals \cup {None}] /\ task[r] = "none"
      /\ \A q \in Requests : task[q] # "none" => prop[q].id \in Actions
  BY ProposalId DEF SafetyInv, TypeInv, TypeOK, StoreType, JournalType, RequestType,
     CarriesProposal, Inbox, NoTaskYet, Decide
<1>2. /\ UNCHANGED <<result, task, outcome>>
      /\ \A q \in Requests : task[q] # "none" => prop'[q] = prop[q]
  BY <1>1 DEF Decide, taskVars
<1>3. \A b \in Actions : Done(b)' <=> Done(b)
  BY <1>1 DEF Decide, EmitTerminal, journalVars, Done
<1>4. CASE status[a] = "pending"
  <2>1. \E s \in {"expired", "approved", "rejected"} : status' = [status EXCEPT ![a] = s]
    BY <1>4 DEF Decide
  <2>2. RowAnswer(a) = "asked" /\ RowAnswer(a)' \in {"asked", "refused"}
    BY <1>1, <1>4, <2>1 DEF RowAnswer
  <2>3. a \in Gated => ~Done(a)
    BY <1>4, OpenRowNotDone
  <2>4. \A q \in Requests : task[q] \in {"running", "cancelling"} /\ prop[q].id \in Gated
            => prop[q].id # a
    BY <1>4 DEF ResultInv
  <2>5. \A b \in Actions \ {a} : status'[b] = status[b] /\ result'[b] = result[b]
    BY <1>1, <1>2, <2>1
  <2>6. AnswerStep
    BY <1>3, <2>2, <2>3, <2>5, AnswerMoves DEF Gated
  <2>7. ResultInv'
    BY <1>1, <1>2, <1>3, <2>4, <2>5, ResultFrame DEF Gated
  <2> QED
    BY <2>6, <2>7
<1>5. CASE status[a] # "pending"
  <2>1. UNCHANGED status
    BY <1>5 DEF Decide
  <2>2. AnswerStep
    BY <1>2, <1>3, <2>1, AnswerStutters DEF RowAnswer, Gated
  <2>3. ResultInv'
    BY <1>2, <1>3, <2>1, ResultFrame DEF Gated
  <2> QED
    BY <2>2, <2>3
<1> QED
  BY <1>4, <1>5

\* A claim leaves the row open.
LEMMA ClaimAnswer ==
    ASSUME SafetyInv, ResultInv, NEW r \in Requests, Claim(r)
    PROVE  ResultInv' /\ AnswerStep
<1> DEFINE a == prop[r].id
<1>1. /\ status \in [Actions -> Statuses] /\ seen \in [Actions -> SUBSET EventTypes]
      /\ UNCHANGED <<result, prop, task, outcome>> /\ a \in Actions
      /\ \A q \in Requests : task[q] # "none" => prop[q].id \in Actions
  BY ProposalId DEF SafetyInv, TypeInv, TypeOK, StoreType, JournalType, CarriesProposal,
     Claim, taskVars
<1>2. \A b \in Actions : Done(b)' <=> Done(b)
  BY <1>1 DEF Claim, Emit, journalVars, Done
<1>3. \A b \in Actions : \/ status'[b] = status[b]
                         \/ status[b] = "approved" /\ status'[b] = "executing"
  BY <1>1 DEF Claim
<1>4. AnswerStep
  BY <1>1, <1>2, <1>3, AnswerStutters DEF RowAnswer, Gated
<1>5. \A q \in Requests : task[q] \in {"running", "cancelling"} /\ prop[q].id \in Gated
          => status'[prop[q].id] = status[prop[q].id]
  BY <1>1, <1>3 DEF ResultInv
<1>6. ResultInv'
  BY <1>1, <1>2, <1>5, ResultFrame DEF Gated
<1> QED
  BY <1>4, <1>6

\* The task of a gated action starts once the action is claimed.
LEMMA DispatchAnswer ==
    ASSUME SafetyInv, ResultInv, NEW r \in Requests, Dispatch(r)
    PROVE  ResultInv' /\ AnswerStep
<1> DEFINE a == prop[r].id
<1>1. /\ a \in Actions /\ task[r] = "none" /\ seen \in [Actions -> SUBSET EventTypes]
      /\ task \in [Requests -> {"none", "running", "cancelling", "ended", "lost"}]
      /\ task' = [task EXCEPT ![r] = "running"]
      /\ UNCHANGED <<status, result, prop, outcome>>
  BY ProposalId DEF SafetyInv, TypeInv, TypeOK, JournalType, TaskType, CarriesProposal, Inbox,
     NoTaskYet, Dispatch, storeVars
<1>2. \A b \in Actions : Done(b)' <=> Done(b)
  BY <1>1 DEF Dispatch, Emit, Done
<1>3. AnswerStep
  BY <1>1, <1>2, AnswerStutters DEF RowAnswer, Gated
<1>4. \A q \in Requests : outcome'[q] # None => task'[q] = "ended"
  BY <1>1 DEF ResultInv
<1>5. outcome[r] # "completed"
  BY <1>1, NoneIsNoResult DEF ResultInv, Results
<1>6. \A b \in Gated : \A q \in Requests :
         outcome[q] = "completed" => (q \in Dispatched(b)' <=> q \in Dispatched(b))
  BY <1>1, <1>5 DEF Dispatched
<1>7. \A b \in Gated : Done(b)' <=> \E q \in Dispatched(b)' : outcome'[q] = "completed"
  <2> SUFFICES ASSUME NEW b \in Gated
               PROVE  Done(b)' <=> \E q \in Dispatched(b)' : outcome'[q] = "completed"
    OBVIOUS
  <2>1. Done(b)' <=> \E q \in Dispatched(b) : outcome[q] = "completed"
    BY <1>2 DEF ResultInv, Gated
  <2>2. Dispatched(b) \subseteq Requests /\ Dispatched(b)' \subseteq Requests
    BY DEF Dispatched
  <2> QED
    BY <1>1, <1>6, <2>1, <2>2
<1>8. ASSUME NEW q \in Requests, task'[q] \in {"running", "cancelling"}, prop'[q].id \in Gated
      PROVE  status'[prop'[q].id] = "executing"
  <2>1. CASE q = r
    <3>1. via[r] = "approval" /\ pc[r] = "preflight"
      BY <1>1, <1>8, <2>1 DEF Dispatch, ReviewMode, HumanApproved, Gated
    <3> QED
      BY <1>1, <2>1, <3>1 DEF SafetyInv, Inbox, OwnerClaimed, Owner
  <2>2. CASE q # r
    BY <1>1, <1>8, <2>2 DEF ResultInv
  <2> QED
    BY <2>1, <2>2
<1> QED
  BY <1>3, <1>4, <1>7, <1>8 DEF ResultInv, Gated

\* A task ends with a result, or with none: it is the only task of a gated
\* action, so what it reports is what became of the action.
LEMMA EndTaskAnswer ==
    ASSUME SafetyInv, ResultInv, NEW r \in Requests, task[r] \in {"running", "cancelling"},
           NEW res, EndTask(r, res), UNCHANGED <<status, result, prop>>,
           \A b \in Actions :
              Done(b)' <=> (Done(b) \/ (b = prop[r].id /\ res = "completed"))
    PROVE  ResultInv' /\ AnswerStep
<1>0. PICK a \in Actions : a = prop[r].id
  BY ProposalId DEF SafetyInv, TypeInv, CarriesProposal
<1>1. /\ outcome \in [Requests -> Results \cup {None}]
      /\ task \in [Requests -> {"none", "running", "cancelling", "ended", "lost"}]
      /\ task' = [task EXCEPT ![r] = "ended"] /\ outcome' = [outcome EXCEPT ![r] = res]
  BY DEF SafetyInv, TypeInv, TypeOK, TaskType, EndTask
<1>2. outcome[r] # "completed"
  BY <1>1, NoneIsNoResult DEF ResultInv, Results
<1>3. Gated \subseteq Actions
  BY DEF Gated
<1>4. ASSUME a \in Gated
      PROVE  /\ status[a] = "executing" /\ ~Done(a)
             /\ r \in Dispatched(a) /\ \A q \in Dispatched(a) : q = r
  <2>1. Owner(r) /\ status[a] = "executing"
    BY <1>0, <1>4 DEF SafetyInv, Inbox, TaskAuthorized, Owner, ResultInv, Gated
  <2>2. \A q \in Dispatched(a) : q = r
    BY <1>0, <1>4, <2>1, OneTask
  <2>3. r \in Dispatched(a)
    BY <1>0 DEF Dispatched
  <2>4. ~Done(a)
    BY <1>2, <1>4, <2>2 DEF ResultInv
  <2> QED
    BY <2>1, <2>2, <2>3, <2>4
<1>5. AnswerStep
  <2>1. CASE a \in Gated /\ res = "completed"
    <3> DEFINE ans == [b \in Actions \ AutoApproved |-> RowAnswer(b)]
               com == [b \in Actions \ AutoApproved |-> "COMPLETED" \in seen[b]]
    <3>1. a \in Actions \ AutoApproved /\ RowAnswer(a) = "asked"
      BY <1>4, <2>1 DEF RowAnswer, Gated
    <3>2. ans' = ans
      BY DEF RowAnswer
    <3>3. \A b \in Actions \ AutoApproved :
             ("COMPLETED" \in seen'[b]) <=> (b = a \/ "COMPLETED" \in seen[b])
      BY <1>0, <2>1 DEF Done
    <3>4. com' = [com EXCEPT ![a] = TRUE]
      <4>1. \A b \in Actions \ AutoApproved :
               ("COMPLETED" \in seen'[b]) = (IF b = a THEN TRUE ELSE com[b])
        <5> TAKE b \in Actions \ AutoApproved
        <5>1. CASE b = a
          BY <3>3, <5>1
        <5>2. CASE b # a
          <6>1. com[b] = ("COMPLETED" \in seen[b])
            OBVIOUS
          <6>2. ("COMPLETED" \in seen'[b]) = ("COMPLETED" \in seen[b])
            BY <3>3, <5>2
          <6> QED
            BY <5>2, <6>1, <6>2
        <5> QED
          BY <5>1, <5>2
      <4>2. com' = [b \in Actions \ AutoApproved |-> IF b = a THEN TRUE ELSE com[b]]
        BY <4>1
      <4> QED
        BY <4>2
    <3>5. Inquiry!Complete(a)
      BY <1>4, <2>1, <3>1, <3>2, <3>4 DEF Inquiry!Complete, Done
    <3> QED
      BY <3>1, <3>5 DEF Inquiry!Next, AnswerStep
  <2>2. CASE ~(a \in Gated /\ res = "completed")
    BY <1>0, <1>3, <2>2, AnswerStutters DEF RowAnswer
  <2> QED
    BY <2>1, <2>2
<1>6. \A q \in Requests : outcome'[q] # None => task'[q] = "ended"
  BY <1>1 DEF ResultInv
<1>7. ASSUME NEW q \in Requests, task'[q] \in {"running", "cancelling"}, prop'[q].id \in Gated
      PROVE  status'[prop'[q].id] = "executing"
  BY <1>1, <1>7 DEF ResultInv
<1>8. ASSUME NEW b \in Gated
      PROVE  Done(b)' <=> \E q \in Dispatched(b)' : outcome'[q] = "completed"
  <2>1. Dispatched(b)' = Dispatched(b) /\ Dispatched(b) \subseteq Requests
    BY <1>1 DEF Dispatched
  <2>2. CASE b = a
    BY <1>0, <1>1, <1>2, <1>3, <1>4, <1>8, <2>1, <2>2
  <2>3. CASE b # a
    <3>1. r \notin Dispatched(b)
      BY <1>0, <2>3 DEF Dispatched
    <3>2. Done(b)' <=> Done(b)
      BY <1>0, <1>3, <2>3
    <3> QED
      BY <1>1, <2>1, <3>1, <3>2 DEF ResultInv
  <2> QED
    BY <2>2, <2>3
<1>9. Gated' = Gated
  BY DEF Gated
<1> QED
  BY <1>5, <1>6, <1>7, <1>8, <1>9 DEF ResultInv

LEMMA TaskAnswer ==
    ASSUME SafetyInv, ResultInv, NEW r \in Requests, TaskStep(r)
    PROVE  ResultInv' /\ AnswerStep
<1>1. /\ task[r] \in {"running", "cancelling"} /\ UNCHANGED <<status, result, prop>>
      /\ seen \in [Actions -> SUBSET EventTypes] /\ prop[r].id \in Actions
  BY ProposalId DEF SafetyInv, TypeInv, TypeOK, JournalType, CarriesProposal, TaskStep,
     BackendReturns, TaskCancelled, storeVars, requestVars
<1>2. ASSUME NEW ok \in BOOLEAN, BackendReturns(r, ok)
      PROVE  ResultInv' /\ AnswerStep
  <2>1. CASE IsLate(prop[r].id)
    <3>1. EndTask(r, "canceled") /\ \A b \in Actions : Done(b)' <=> Done(b)
      BY <1>1, <1>2, <2>1 DEF BackendReturns, Emit, Done
    <3> QED
      BY <1>1, <3>1, EndTaskAnswer
  <2>2. CASE ~IsLate(prop[r].id) /\ ok
    <3>1. /\ EndTask(r, "completed")
          /\ \A b \in Actions : Done(b)' <=> (Done(b) \/ b = prop[r].id)
      BY <1>1, <1>2, <2>2 DEF BackendReturns, EmitTerminal, Done
    <3> QED
      BY <1>1, <3>1, EndTaskAnswer
  <2>3. CASE ~IsLate(prop[r].id) /\ ~ok
    <3>1. EndTask(r, "failed") /\ \A b \in Actions : Done(b)' <=> Done(b)
      BY <1>1, <1>2, <2>3 DEF BackendReturns, EmitTerminal, Done
    <3> QED
      BY <1>1, <3>1, EndTaskAnswer
  <2> QED
    BY <2>1, <2>2, <2>3
<1>3. CASE TaskCancelled(r)
  <2>1. PICK res \in {"canceled", None} : EndTask(r, res)
    BY <1>3 DEF TaskCancelled
  <2>2. res # "completed" /\ \A b \in Actions : Done(b)' <=> Done(b)
    BY <1>3, NoneIsNoResult DEF TaskCancelled, journalVars, Done, Results
  <2> QED
    BY <1>1, <2>1, <2>2, EndTaskAnswer
<1> QED
  BY <1>2, <1>3 DEF TaskStep

\* The sweep refuses the rows that are due, none of which was carried out.
LEMMA SweepAnswer ==
    ASSUME SafetyInv, ResultInv, SweepExpired
    PROVE  ResultInv' /\ AnswerStep
<1> DEFINE S == DueRows \ AutoApproved
           ans == [b \in Actions \ AutoApproved |-> RowAnswer(b)]
           com == [b \in Actions \ AutoApproved |-> "COMPLETED" \in seen[b]]
<1>1. /\ \A a \in Actions : status'[a] = IF a \in DueRows THEN "expired" ELSE status[a]
      /\ DueRows \subseteq Actions /\ \A a \in DueRows : status[a] = "pending"
      /\ UNCHANGED <<result, prop, task, outcome>>
  BY DEF SweepExpired, DueRows, requestVars, taskVars
<1>2. \A b \in Actions : Done(b)' <=> Done(b)
  BY <1>1 DEF SweepExpired, Done
<1>3. \A a \in S : ans[a] = "asked" /\ ~com[a]
  BY <1>1, OpenRowNotDone DEF RowAnswer, Gated, Done
<1>4. \A a \in Gated : RowAnswer(a)' = IF a \in S THEN "refused" ELSE RowAnswer(a)
  BY <1>1 DEF RowAnswer, Gated
<1>5. ans' = [a \in Actions \ AutoApproved |-> IF a \in S THEN "refused" ELSE ans[a]]
  BY <1>4 DEF Gated
<1>6. com' = com
  BY <1>2 DEF Done
<1>7. Inquiry!Decline(S, "refused")
  BY <1>3, <1>5, <1>6 DEF Inquiry!Decline
<1>8. S \in SUBSET (Actions \ AutoApproved)
  BY <1>1
<1>9. AnswerStep
  BY <1>7, <1>8 DEF Inquiry!Next, AnswerStep
<1>10. \A q \in Requests : task[q] \in {"running", "cancelling"} /\ prop[q].id \in Gated
          => status'[prop[q].id] = status[prop[q].id]
  BY <1>1 DEF ResultInv, Gated
<1>11. ResultInv'
  BY <1>1, <1>2, <1>10, ResultFrame DEF Gated
<1> QED
  BY <1>9, <1>11

\* What proposes, loses requests or answers controls tells nothing of a row.
LEMMA QuietAnswer ==
    ASSUME SafetyInv, ResultInv,
           \/ \E r \in Requests : DropWaiter(r) \/ \E p \in Proposals : Propose(r, p)
           \/ \E c \in Controls : ControlStep(c)
           \/ Tick
           \/ Crash
           \/ UNCHANGED vars
    PROVE  ResultInv' /\ AnswerStep
<1> DEFINE Quiet == /\ UNCHANGED <<status, result, outcome>>
                    /\ \A b \in Actions : Done(b)' <=> Done(b)
                    /\ \A q \in Requests : task[q] # "none" => prop'[q] = prop[q]
                    /\ \A q \in Requests : \/ task'[q] = task[q]
                                           \/ task[q] \in {"running", "cancelling"}
                                              /\ task'[q] \in {"cancelling", "lost"}
<1>0. /\ seen \in [Actions -> SUBSET EventTypes]
      /\ task \in [Requests -> {"none", "running", "cancelling", "ended", "lost"}]
      /\ prop \in [Requests -> Proposals \cup {None}]
      /\ \A r \in Requests : pc[r] = "idle" => task[r] = "none"
  BY DEF SafetyInv, TypeInv, TypeOK, JournalType, TaskType, RequestType, Inbox, NoTaskYet
<1>1. ASSUME NEW r \in Requests, NEW p \in Proposals, Propose(r, p)
      PROVE  Quiet
  BY <1>0, <1>1 DEF Propose, Emit, storeVars, taskVars, Done
<1>2. ASSUME NEW r \in Requests, DropWaiter(r)
      PROVE  Quiet
  BY <1>2 DEF DropWaiter, storeVars, taskVars, journalVars, Done
<1>3. ASSUME NEW c \in Controls, ControlStep(c)
      PROVE  Quiet
  <2>1. CASE \E ok \in BOOLEAN : CancelAnswered(c, ok)
    BY <1>0, <2>1 DEF CancelAnswered, EmitTerminal, storeVars, requestVars, journalVars, Done
  <2>2. CASE \E i \in ControlIds, a \in Actions : ReplayControl(c, i, a) \/ CancelAction(c, i, a)
    BY <2>2 DEF ReplayControl, CancelAction, requestVars, taskVars, storeVars, journalVars, Done
  <2>3. CASE \E i \in ControlIds, a \in Actions : ReconcileAction(c, i, a)
    BY <1>0, <2>3 DEF ReconcileAction, Emit, requestVars, taskVars, storeVars, journalVars, Done
  <2>4. CASE CancelSupportChecked(c)
    BY <1>0, <2>4 DEF CancelSupportChecked, Emit, requestVars, taskVars, storeVars, journalVars, Done
  <2> QED
    BY <1>3, <2>1, <2>2, <2>3, <2>4 DEF ControlStep
<1>4. ASSUME Tick \/ UNCHANGED vars
      PROVE  Quiet
  BY <1>4 DEF Tick, vars, requestVars, taskVars, storeVars, journalVars, Done
<1>5. ASSUME Crash
      PROVE  Quiet
  BY <1>0, <1>5 DEF Crash, storeVars, journalVars, Done
<1>6. Quiet
  BY <1>1, <1>2, <1>3, <1>4, <1>5
<1>7. AnswerStep
  BY <1>6, AnswerStutters DEF RowAnswer, Gated
<1>8. ResultInv'
  BY <1>6, ResultFrame DEF Gated
<1> QED
  BY <1>7, <1>8

LEMMA ResultInit == Init => ResultInv
BY DEF Init, ResultInv, Done, Dispatched, Gated

LEMMA AnswerNext ==
    ASSUME SafetyInv, ResultInv, [Next]_vars
    PROVE  ResultInv' /\ AnswerStep
<1>1. ASSUME NEW r \in Requests, RequestStep(r)
      PROVE  ResultInv' /\ AnswerStep
  BY <1>1, QuietAnswer, RefuseAnswer, AskAnswer, DispatchAnswer, WaiterAnswer, DecideAnswer,
     ClaimAnswer DEF RequestStep
<1> QED
  BY <1>1, TaskAnswer, SweepAnswer, QuietAnswer DEF Next

LEMMA ResultInvariant == Spec => [](SafetyInv /\ ResultInv)
<1>1. SafetyInv /\ ResultInv /\ [Next]_vars => ResultInv'
  BY AnswerNext
<1> QED
  BY <1>1, ResultInit, SafetyInvariant, PTL DEF Spec

LEMMA AnswerInit == Init => Inquiry!Init
<1>1. ASSUME Init, NEW a \in Actions
      PROVE  RowAnswer(a) = "new" /\ ("COMPLETED" \in seen[a]) = FALSE
  BY <1>1 DEF Init, RowAnswer
<1> QED
  BY <1>1 DEF Inquiry!Init

\* Whoever reads the row of a gated action (approval_result) is told nothing
\* until there is an answer; the answer is final, and says that the action was
\* completed exactly when the journal does: not after a refusal or an expiry,
\* a canceled or failed execution, or a late result that was discarded.
THEOREM PathAnswersTruly == Spec => ImplementsAnswer
<1>1. Init => Inquiry!Init
  BY AnswerInit
<1>2. SafetyInv /\ ResultInv /\ [Next]_vars => AnswerStep
  BY AnswerNext
<1> QED
  BY <1>1, <1>2, ResultInvariant, PTL DEF Spec, ImplementsAnswer, Inquiry!Spec, AnswerStep

\* The contract keeps what it promises: so the answers that the path gives to
\* approval_result are true at every moment, and are never taken back.
THEOREM AnswersStandTrue ==
    Spec => [](Inquiry!AnswerTruthful) /\ [][Inquiry!AnswerFinal]_vars
<1>1. Inquiry!Init => Inquiry!AnswerTruthful
  BY DEF Inquiry!Init, Inquiry!AnswerTruthful
<1>2. ASSUME Inquiry!AnswerTruthful, AnswerStep
      PROVE  Inquiry!AnswerTruthful' /\ Inquiry!AnswerFinal
  <2>1. ASSUME NEW a \in Actions \ AutoApproved, Inquiry!Ask(a)
        PROVE  Inquiry!AnswerTruthful' /\ Inquiry!AnswerFinal
    BY <1>2, <2>1 DEF Inquiry!Ask, Inquiry!AnswerTruthful, Inquiry!AnswerFinal
  <2>2. ASSUME NEW a \in Actions \ AutoApproved, Inquiry!Complete(a)
        PROVE  Inquiry!AnswerTruthful' /\ Inquiry!AnswerFinal
    BY <1>2, <2>2 DEF Inquiry!Complete, Inquiry!AnswerTruthful, Inquiry!AnswerFinal
  <2>3. ASSUME NEW a \in Actions \ AutoApproved, Inquiry!Confirm(a)
        PROVE  Inquiry!AnswerTruthful' /\ Inquiry!AnswerFinal
    BY <1>2, <2>3 DEF Inquiry!Confirm, Inquiry!AnswerTruthful, Inquiry!AnswerFinal
  <2>4. ASSUME NEW S \in SUBSET (Actions \ AutoApproved), NEW no \in {"failed", "refused"},
               Inquiry!Decline(S, no)
        PROVE  Inquiry!AnswerTruthful' /\ Inquiry!AnswerFinal
    BY <1>2, <2>4 DEF Inquiry!Decline, Inquiry!AnswerTruthful, Inquiry!AnswerFinal
  <2>5. CASE UNCHANGED <<[a \in Actions \ AutoApproved |-> RowAnswer(a)],
                         [a \in Actions \ AutoApproved |-> "COMPLETED" \in seen[a]]>>
    BY <1>2, <2>5 DEF Inquiry!AnswerTruthful, Inquiry!AnswerFinal
  <2> QED
    BY <1>2, <2>1, <2>2, <2>3, <2>4, <2>5 DEF AnswerStep, Inquiry!Next
<1>3. SafetyInv /\ ResultInv /\ [Next]_vars => AnswerStep
  BY AnswerNext
<1>4. Init => Inquiry!Init
  BY AnswerInit
<1> QED
  BY <1>1, <1>2, <1>3, <1>4, ResultInvariant, PTL DEF Spec

-----------------------------------------------------------------------------
(* What the page tells                                                     *)

Ran(a) == "EXECUTION_REQUESTED" \in seen[a]

\* r is on its way to the backend, or has been there.
Runner(r) == pc[r] \in {"preflight", "waiting"} \/ task[r] # "none"

Refusals == {"GOVERNANCE_REJECTED", "RETRY_BLOCKED", "PREFLIGHT_FAILED"}
Endings == {"COMPLETED", "FAILED", "CANCELED"}

\* How the row, the journal and the latest terminal event of an action agree.
Stage(a) ==
    \/ status[a] = "absent" /\ ~Ran(a) /\ last[a] \in Refusals \cup {None}
    \/ status[a] \in {"pending", "approved"} /\ ~Ran(a) /\ last[a] = None
    \/ /\ status[a] \in {"rejected", "expired"} /\ ~Ran(a)
       /\ last[a] \in {"APPROVAL_REJECTED", "APPROVAL_EXPIRED"}
    \/ status[a] \in {"executing", "consumed"} /\ ~Ran(a) /\ last[a] \in Refusals \cup {None}
    \/ /\ status[a] \in {"absent", "executing", "consumed"} /\ Ran(a)
       /\ last[a] \in Endings \cup {None}

Stages ==
    \A a \in Browser :
        /\ Stage(a)
        /\ "PROPOSED" \notin seen[a] => status[a] = "absent" /\ last[a] = None /\ ~Ran(a)

ProposedSeen ==
    \A r \in Requests :
        pc[r] # "idle" /\ prop[r].id \in Browser => "PROPOSED" \in seen[prop[r].id]

ViaFits ==
    \A r \in Requests : /\ pc[r] = "idle" => via[r] = "direct"
                        /\ pc[r] = "decided" => via[r] = "approval"

OneRunner ==
    \A r, s \in Requests :
        Runner(r) /\ Runner(s) /\ prop[r].id = prop[s].id /\ prop[r].id \in Browser => r = s

RunnerStands ==
    \A r \in Requests, a \in Browser : Runner(r) /\ prop[r].id = a =>
        /\ via[r] = "direct" => status[a] = "absent"
        /\ pc[r] = "preflight" => ~Ran(a) /\ last[a] = None
        /\ task[r] \in {"running", "cancelling"} => Ran(a) /\ last[a] \in {"CANCELED", None}

\* A control left its mark in the journal of the action.
Marked(a) ==
    "CANCEL_INTENT_RECORDED" \in seen[a] \/ "RECONCILIATION_REQUESTED" \in seen[a]

ControlsReach ==
    /\ \A a \in Browser : active[a] # None \/ Marked(a) => Ran(a)
    /\ \A c \in Controls : ctl[c] \in {"checking", "cancelling"} =>
          /\ ctlOn[c] \in Browser /\ Ran(ctlOn[c])
          /\ ctl[c] = "cancelling" => "CANCEL_INTENT_RECORDED" \in seen[ctlOn[c]]

ExecutorKnown ==
    \A a \in Browser : Ran(a) /\ status[a] # "absent" =>
        \E r \in Requests : Approves(r, a) /\ pc[r] \notin {"idle", "decided"}

Paths ==
    /\ Stages /\ ProposedSeen /\ ViaFits /\ OneRunner /\ RunnerStands
    /\ ControlsReach /\ ExecutorKnown

\* What the journal, the records and the approvals never lose.
Growth ==
    /\ records \subseteq records'
    /\ \A a \in Actions : seen[a] \subseteq seen'[a]
    /\ \A q \in Requests : via[q] = "approval" => via'[q] = "approval" /\ prop'[q] = prop[q]

LEMMA PathsInit == Init => Paths
<1> SUFFICES ASSUME Init PROVE Paths
  OBVIOUS
<1>1. Stages /\ ProposedSeen /\ ControlsReach /\ ExecutorKnown
  <2>1. \A a \in Browser : a \in Actions
    BY ConstantsAssumption
  <2>2. \A a \in Browser : /\ status[a] = "absent" /\ seen[a] = {}
                           /\ last[a] = None /\ active[a] = None
    BY <2>1 DEF Init
  <2>3. \A c \in Controls : ctl[c] = "idle"
    BY DEF Init
  <2>4. \A r \in Requests : pc[r] = "idle"
    BY DEF Init
  <2>5. Stages
    BY <2>2 DEF Stages, Stage, Ran
  <2> QED
    BY <2>2, <2>3, <2>4, <2>5 DEF Ran, Marked, ProposedSeen, ControlsReach, ExecutorKnown
<1>2. ViaFits /\ OneRunner /\ RunnerStands
  BY DEF Init, ViaFits, OneRunner, RunnerStands, Runner
<1> QED
  BY <1>1, <1>2 DEF Paths

\* Steps that end tasks and requests, settle a row and add remarks.
LEMMA PathsFrame ==
    ASSUME SafetyInv, Paths, UNCHANGED <<last, via, prop>>, ControlsReach',
           \A a \in Browser : /\ \/ status'[a] = status[a]
                                 \/ status[a] = "executing" /\ status'[a] = "consumed"
                              /\ seen[a] \subseteq seen'[a]
                              /\ Ran(a)' => Ran(a),
           \A q \in Requests : \/ pc'[q] = pc[q]
                               \/ pc[q] # "idle" /\ pc'[q] \in {"done", "lost"},
           \A q \in Requests : \/ task'[q] = task[q]
                               \/ task[q] # "none" /\ task'[q] \in {"ended", "lost"}
    PROVE  Paths'
<1>0. \A a \in Browser : Ran(a)' <=> Ran(a)
  BY DEF Ran
<1>01. \A q \in Requests : Runner(q)' => Runner(q)
  BY DEF Runner
<1>1. Stages'
  BY <1>0 DEF Paths, Stages, Stage
<1>2. ProposedSeen'
  BY DEF Paths, ProposedSeen
<1>3. ViaFits'
  BY DEF Paths, ViaFits
<1>4. OneRunner'
  BY <1>01 DEF Paths, OneRunner
<1>5. RunnerStands'
  BY <1>0, <1>01 DEF Paths, RunnerStands
<1>6. ExecutorKnown'
  <2> SUFFICES ASSUME NEW a \in Browser, Ran(a)', status'[a] # "absent"
               PROVE  \E r \in Requests : Approves(r, a)' /\ pc'[r] \notin {"idle", "decided"}
    BY DEF ExecutorKnown
  <2>1. PICK r \in Requests : Approves(r, a) /\ pc[r] \notin {"idle", "decided"}
    BY DEF Paths, ExecutorKnown
  <2> QED
    BY <2>1 DEF Approves
<1> QED
  BY <1>1, <1>2, <1>3, <1>4, <1>5, <1>6 DEF Paths

\* What the proofs below use of the types, all in one place.
PathTypes ==
    /\ pc \in [Requests -> {"idle", "decided", "preflight", "waiting", "done", "lost"}]
    /\ via \in [Requests -> {"direct", "approval"}]
    /\ prop \in [Requests -> Proposals \cup {None}]
    /\ task \in [Requests -> {"none", "running", "cancelling", "ended", "lost"}]
    /\ status \in [Actions -> Statuses]
    /\ seen \in [Actions -> SUBSET EventTypes]
    /\ last \in [Actions -> TerminalTypes \cup {None}]
    /\ active \in [Actions -> Requests \cup {None}]
    /\ Browser \subseteq Actions
    /\ \A q \in Requests : Runner(q) \/ pc[q] = "decided" =>
          prop[q] \in Proposals /\ prop[q].id \in Actions
    /\ \A q \in Requests : pc[q] \in {"idle", "decided", "preflight"} => task[q] = "none"
    /\ \A q \in Requests : via[q] = "approval" /\ Runner(q) =>
          /\ status[prop[q].id] \in {"executing", "consumed"}
          /\ pc[q] \in {"preflight", "waiting"} => status[prop[q].id] = "executing"
    /\ \A q \in Requests : pc[q] = "decided" /\ via[q] = "approval" =>
          status[prop[q].id] \in {"approved", "executing", "consumed"}

LEMMA PathFacts == ASSUME SafetyInv PROVE PathTypes
<1>1. \A q \in Requests : Runner(q) \/ pc[q] = "decided" =>
         prop[q] \in Proposals /\ prop[q].id \in Actions
  BY ProposalId DEF SafetyInv, TypeInv, CarriesProposal, Runner
<1>2. \A q \in Requests : pc[q] \in {"idle", "decided", "preflight"} => task[q] = "none"
  BY DEF SafetyInv, Inbox, NoTaskYet
<1>3. \A q \in Requests : via[q] = "approval" /\ Runner(q) =>
          /\ status[prop[q].id] \in {"executing", "consumed"}
          /\ pc[q] \in {"preflight", "waiting"} => status[prop[q].id] = "executing"
  BY DEF SafetyInv, Inbox, OwnerClaimed, Owner, Runner
<1>4. \A q \in Requests : pc[q] = "decided" /\ via[q] = "approval" =>
          status[prop[q].id] \in {"approved", "executing", "consumed"}
  BY DEF SafetyInv, Inbox, ResumedHoldsRow, Resumed
<1> QED
  BY <1>1, <1>2, <1>3, <1>4, ConstantsAssumption
  DEF PathTypes, SafetyInv, TypeInv, TypeOK, RequestType, TaskType, StoreType, JournalType

LEMMA ProposePaths ==
    ASSUME SafetyInv, Paths, NEW r \in Requests, NEW p \in Proposals, Propose(r, p)
    PROVE  Paths' /\ Growth
<1>0. PathTypes /\ p.id \in Actions
  BY PathFacts, ProposalId
<1>1. /\ pc[r] = "idle" /\ task[r] = "none" /\ via[r] = "direct"
      /\ p.id \in Browser => "PROPOSED" \notin seen[p.id]
      /\ pc' = [pc EXCEPT ![r] = "preflight"]
      /\ via' = [via EXCEPT ![r] = "direct"]
      /\ prop' = [prop EXCEPT ![r] = p]
      /\ seen' = [seen EXCEPT ![p.id] = @ \cup {"PROPOSED"}]
      /\ UNCHANGED <<last, status, records, task, active, ctl, ctlOn>>
  BY <1>0 DEF Propose, Emit, PathTypes, Paths, ViaFits, storeVars, taskVars, controlVars
<1>2. \A a \in Actions : /\ Ran(a)' <=> Ran(a)
                         /\ seen'[a] = seen[a] \/ seen'[a] = seen[a] \cup {"PROPOSED"}
  BY <1>0, <1>1 DEF Ran, Marked, PathTypes
<1>20. "PROPOSED" \in seen'[p.id] /\ prop'[r] = p /\ via'[r] = "direct" /\ pc'[r] = "preflight"
  BY <1>0, <1>1 DEF PathTypes
<1>3. \A q \in Requests \ {r} : /\ pc'[q] = pc[q] /\ via'[q] = via[q] /\ prop'[q] = prop[q]
                                /\ Runner(q)' <=> Runner(q)
  BY <1>0, <1>1 DEF PathTypes, Runner
<1>4. p.id \in Browser => \A q \in Requests : Runner(q) => prop[q].id # p.id
  BY <1>0, <1>1 DEF Paths, ProposedSeen, PathTypes, Runner
<1>5. Stages'
  BY <1>0, <1>1, <1>2 DEF Paths, Stages, Stage, PathTypes
<1>6. ProposedSeen'
  BY <1>0, <1>2, <1>20, <1>3 DEF Paths, ProposedSeen, PathTypes
<1>7. ViaFits'
  BY <1>20, <1>3 DEF Paths, ViaFits
<1>8. OneRunner'
  BY <1>20, <1>3, <1>4 DEF Paths, OneRunner
<1>9. RunnerStands'
  <2> SUFFICES ASSUME NEW q \in Requests, NEW a \in Browser, Runner(q)', prop'[q].id = a
               PROVE  /\ via'[q] = "direct" => status'[a] = "absent"
                      /\ pc'[q] = "preflight" => ~Ran(a)' /\ last'[a] = None
                      /\ task'[q] \in {"running", "cancelling"} =>
                            Ran(a)' /\ last'[a] \in {"CANCELED", None}
    BY DEF RunnerStands
  <2>1. CASE q = r
    BY <1>0, <1>1, <1>2, <1>20, <2>1 DEF Paths, Stages, PathTypes
  <2>2. CASE q # r
    BY <1>0, <1>1, <1>2, <1>3, <2>2 DEF Paths, RunnerStands, PathTypes
  <2> QED
    BY <2>1, <2>2
<1>10. ControlsReach'
  BY <1>0, <1>1, <1>2 DEF Paths, ControlsReach, Marked, PathTypes
<1>11. ExecutorKnown'
  BY <1>0, <1>1, <1>2, <1>3 DEF Paths, ExecutorKnown, Approves, PathTypes
<1>12. Growth
  BY <1>0, <1>1, <1>2, <1>3 DEF Growth, PathTypes
<1> QED
  BY <1>5, <1>6, <1>7, <1>8, <1>9, <1>10, <1>11, <1>12 DEF Paths
-----------------------------------------------------------------------------
\* An action refused at the end of its preflight: PreflightFails, RetryBlocked
\* and Denied.
Refuse(r, type, res) ==
    /\ pc[r] = "preflight"
    /\ EmitTerminal(prop[r].id, type, {})
    /\ Return(r, res)
    /\ UNCHANGED <<taskVars, controlVars>>

LEMMA RefusePaths ==
    ASSUME SafetyInv, Paths, NEW r \in Requests, NEW type \in Refusals, NEW res,
           Refuse(r, type, res)
    PROVE  Paths' /\ Growth
<1> DEFINE a == prop[r].id
<1>0. PathTypes /\ a \in Actions /\ Runner(r) /\ task[r] = "none"
  BY PathFacts DEF Refuse, PathTypes, Runner
<1>1. /\ pc' = [pc EXCEPT ![r] = "done"]
      /\ seen' = [seen EXCEPT ![a] = @ \cup {} \cup {type}]
      /\ last' = [last EXCEPT ![a] = type]
      /\ status' = IF via[r] = "approval" /\ status[a] = "executing"
                   THEN [status EXCEPT ![a] = "consumed"] ELSE status
      /\ UNCHANGED <<via, prop, records, task, active, ctl, ctlOn>>
  BY DEF Refuse, EmitTerminal, Return, taskVars, controlVars
<1>2. \A b \in Actions : /\ Ran(b)' <=> Ran(b)
                         /\ seen[b] \subseteq seen'[b]
                         /\ \/ status'[b] = status[b]
                            \/ status[b] = "executing" /\ status'[b] = "consumed"
                         /\ b # a => last'[b] = last[b] /\ status'[b] = status[b]
                         /\ Marked(b)' => Marked(b)
  BY <1>0, <1>1 DEF Ran, Marked, PathTypes, Refusals
<1>3. \A q \in Requests : /\ Runner(q)' => Runner(q) /\ q # r
                          /\ pc'[q] # "idle" => pc[q] # "idle"
                          /\ pc'[q] \in {"idle", "preflight"} => pc'[q] = pc[q]
                          /\ pc[q] \notin {"idle", "decided"} => pc'[q] \notin {"idle", "decided"}
  BY <1>0, <1>1 DEF Runner, PathTypes
<1>4. a \in Browser => /\ last'[a] = type /\ status'[a] \in {"absent", "consumed"}
                       /\ ~Ran(a) /\ "PROPOSED" \in seen[a]
  <2> SUFFICES ASSUME a \in Browser
               PROVE  /\ last'[a] = type /\ status'[a] \in {"absent", "consumed"}
                      /\ ~Ran(a) /\ "PROPOSED" \in seen[a]
    OBVIOUS
  <2>1. ~Ran(a) /\ (via[r] = "direct" => status[a] = "absent")
    BY <1>0 DEF Paths, RunnerStands, Refuse
  <2>2. via[r] = "approval" => status[a] = "executing"
    BY <1>0 DEF PathTypes, Refuse
  <2>3. "PROPOSED" \in seen[a]
    BY DEF Paths, ProposedSeen, Refuse
  <2> QED
    BY <1>0, <1>1, <2>1, <2>2, <2>3 DEF PathTypes
<1>5. Stages'
  <2> SUFFICES ASSUME NEW b \in Browser
               PROVE  /\ Stage(b)'
                      /\ "PROPOSED" \notin seen'[b]
                            => status'[b] = "absent" /\ last'[b] = None /\ ~Ran(b)'
    BY DEF Stages
  <2>1. CASE b = a
    BY <1>0, <1>2, <1>4, <2>1 DEF Stage, PathTypes
  <2>2. CASE b # a
    BY <1>0, <1>2, <2>2 DEF Paths, Stages, Stage, PathTypes
  <2> QED
    BY <2>1, <2>2
<1>6. ProposedSeen'
  BY <1>0, <1>1, <1>2, <1>3 DEF Paths, ProposedSeen, PathTypes
<1>7. ViaFits'
  BY <1>1, <1>3 DEF Paths, ViaFits
<1>8. OneRunner'
  BY <1>1, <1>3 DEF Paths, OneRunner
<1>9. RunnerStands'
  <2> SUFFICES ASSUME NEW q \in Requests, NEW b \in Browser, Runner(q)', prop[q].id = b
               PROVE  /\ via[q] = "direct" => status'[b] = "absent"
                      /\ pc'[q] = "preflight" => ~Ran(b)' /\ last'[b] = None
                      /\ task[q] \in {"running", "cancelling"} =>
                            Ran(b)' /\ last'[b] \in {"CANCELED", None}
    BY <1>1 DEF RunnerStands
  <2>1. b # a
    BY <1>0, <1>3 DEF Paths, OneRunner
  <2> QED
    BY <1>0, <1>2, <1>3, <2>1 DEF Paths, RunnerStands, PathTypes
<1>10. ControlsReach'
  BY <1>0, <1>1, <1>2 DEF Paths, ControlsReach, Marked, PathTypes
<1>11. ExecutorKnown'
  BY <1>0, <1>1, <1>2, <1>3 DEF Paths, ExecutorKnown, Approves, PathTypes
<1>12. Growth
  BY <1>1, <1>2 DEF Growth
<1> QED
  BY <1>5, <1>6, <1>7, <1>8, <1>9, <1>10, <1>11, <1>12 DEF Paths

LEMMA RequestApprovalPaths ==
    ASSUME SafetyInv, Paths, NEW r \in Requests, RequestApproval(r)
    PROVE  Paths' /\ Growth
<1> DEFINE a == prop[r].id
<1>0. PathTypes /\ a \in Actions /\ Runner(r) /\ task[r] = "none" /\ pc[r] = "preflight"
  BY PathFacts DEF RequestApproval, PathTypes, Runner
<1>1. /\ pc' = [pc EXCEPT ![r] = "done"]
      /\ via[r] = "direct"
      /\ \/ status[a] = "absent" /\ status' = [status EXCEPT ![a] = "pending"]
         \/ status[a] # "absent" /\ status' = status
      /\ UNCHANGED <<via, prop, records, seen, last, task, active, ctl, ctlOn>>
  BY <1>0 DEF RequestApproval, CreateOrGet, ReviewMode, PathTypes, taskVars, controlVars,
     journalVars
<1>2. \A b \in Actions : /\ Ran(b)' <=> Ran(b)
                         /\ b # a => status'[b] = status[b]
  BY <1>0, <1>1 DEF Ran, Marked, PathTypes
<1>3. \A q \in Requests : /\ Runner(q)' => Runner(q) /\ q # r
                          /\ pc'[q] # "idle" => pc[q] # "idle"
                          /\ pc'[q] \in {"idle", "preflight"} => pc'[q] = pc[q]
                          /\ pc[q] \notin {"idle", "decided"} => pc'[q] \notin {"idle", "decided"}
  BY <1>0, <1>1 DEF Runner, PathTypes
<1>4. a \in Browser => /\ status'[a] = "pending" /\ ~Ran(a) /\ last[a] = None
                       /\ "PROPOSED" \in seen[a]
  <2> SUFFICES ASSUME a \in Browser
               PROVE  /\ status'[a] = "pending" /\ ~Ran(a) /\ last[a] = None
                      /\ "PROPOSED" \in seen[a]
    OBVIOUS
  <2>1. ~Ran(a) /\ status[a] = "absent" /\ last[a] = None
    BY <1>0, <1>1 DEF Paths, RunnerStands
  <2>2. "PROPOSED" \in seen[a]
    BY <1>0 DEF Paths, ProposedSeen
  <2> QED
    BY <1>0, <1>1, <2>1, <2>2 DEF PathTypes
<1>5. Stages'
  BY <1>0, <1>1, <1>2, <1>4 DEF Paths, Stages, Stage, PathTypes
<1>6. ProposedSeen'
  BY <1>1, <1>3 DEF Paths, ProposedSeen
<1>7. ViaFits'
  BY <1>1, <1>3 DEF Paths, ViaFits
<1>8. OneRunner'
  BY <1>1, <1>3 DEF Paths, OneRunner
<1>9. RunnerStands'
  <2> SUFFICES ASSUME NEW q \in Requests, NEW b \in Browser, Runner(q)', prop[q].id = b
               PROVE  /\ via[q] = "direct" => status'[b] = "absent"
                      /\ pc'[q] = "preflight" => ~Ran(b)' /\ last[b] = None
                      /\ task[q] \in {"running", "cancelling"} =>
                            Ran(b)' /\ last[b] \in {"CANCELED", None}
    BY <1>1 DEF RunnerStands
  <2>1. b # a
    BY <1>0, <1>3 DEF Paths, OneRunner
  <2> QED
    BY <1>0, <1>2, <1>3, <2>1 DEF Paths, RunnerStands, PathTypes
<1>10. ControlsReach'
  BY <1>0, <1>1, <1>2 DEF Paths, ControlsReach, Marked, PathTypes
<1>11. ExecutorKnown'
  BY <1>0, <1>1, <1>2, <1>3, <1>4 DEF Paths, ExecutorKnown, Approves, PathTypes
<1>12. Growth
  BY <1>1 DEF Growth
<1> QED
  BY <1>5, <1>6, <1>7, <1>8, <1>9, <1>10, <1>11, <1>12 DEF Paths

LEMMA DispatchPaths ==
    ASSUME SafetyInv, Paths, NEW r \in Requests, Dispatch(r)
    PROVE  Paths' /\ Growth
<1> DEFINE a == prop[r].id
<1>0. PathTypes /\ a \in Actions /\ Runner(r) /\ task[r] = "none" /\ pc[r] = "preflight"
  BY PathFacts DEF Dispatch, PathTypes, Runner
<1>1. /\ pc' = [pc EXCEPT ![r] = "waiting"]
      /\ task' = [task EXCEPT ![r] = "running"]
      /\ active' = [active EXCEPT ![a] = r]
      /\ seen' = [seen EXCEPT ![a] = @ \cup {"EXECUTION_REQUESTED"}]
      /\ UNCHANGED <<via, prop, records, status, last, ctl, ctlOn>>
  BY DEF Dispatch, Emit, storeVars, controlVars
<1>2. \A b \in Actions : /\ seen[b] \subseteq seen'[b]
                         /\ b # a => (Ran(b)' <=> Ran(b)) /\ active'[b] = active[b]
                         /\ Marked(b)' => Marked(b)
  BY <1>0, <1>1 DEF Ran, Marked, PathTypes
<1>20. Ran(a)'
  BY <1>0, <1>1 DEF Ran, Marked, PathTypes
<1>3. \A q \in Requests : /\ Runner(q)' <=> Runner(q)
                          /\ q # r => pc'[q] = pc[q] /\ task'[q] = task[q]
  BY <1>0, <1>1 DEF Runner, PathTypes
<1>30. pc'[r] = "waiting" /\ task'[r] = "running"
  BY <1>0, <1>1 DEF PathTypes
<1>4. a \in Browser => /\ last[a] = None
                       /\ via[r] = "direct" => status[a] = "absent"
                       /\ via[r] = "approval" => status[a] = "executing"
                       /\ "PROPOSED" \in seen[a]
  BY <1>0 DEF Paths, RunnerStands, ProposedSeen, PathTypes
<1>5. Stages'
  <2> SUFFICES ASSUME NEW b \in Browser
               PROVE  /\ Stage(b)'
                      /\ "PROPOSED" \notin seen'[b]
                            => status'[b] = "absent" /\ last'[b] = None /\ ~Ran(b)'
    BY DEF Stages
  <2>1. CASE b = a
    BY <1>0, <1>1, <1>2, <1>20, <1>4, <2>1 DEF Stage, PathTypes
  <2>2. CASE b # a
    BY <1>0, <1>1, <1>2, <2>2 DEF Paths, Stages, Stage, PathTypes
  <2> QED
    BY <2>1, <2>2
<1>6. ProposedSeen'
  BY <1>0, <1>1, <1>2, <1>3, <1>30 DEF Paths, ProposedSeen, PathTypes
<1>7. ViaFits'
  BY <1>1, <1>3, <1>30 DEF Paths, ViaFits
<1>8. OneRunner'
  BY <1>1, <1>3 DEF Paths, OneRunner
<1>9. RunnerStands'
  <2> SUFFICES ASSUME NEW q \in Requests, NEW b \in Browser, Runner(q)', prop[q].id = b
               PROVE  /\ via[q] = "direct" => status[b] = "absent"
                      /\ pc'[q] = "preflight" => ~Ran(b)' /\ last[b] = None
                      /\ task'[q] \in {"running", "cancelling"} =>
                            Ran(b)' /\ last[b] \in {"CANCELED", None}
    BY <1>1 DEF RunnerStands
  <2>1. CASE q = r
    BY <1>1, <1>20, <1>30, <1>4, <2>1
  <2>2. CASE q # r
    <3>1. b # a
      BY <1>0, <1>3, <2>2 DEF Paths, OneRunner
    <3> QED
      BY <1>0, <1>2, <1>3, <2>2, <3>1 DEF Paths, RunnerStands, PathTypes
  <2> QED
    BY <2>1, <2>2
<1>10. ControlsReach'
  BY <1>0, <1>1, <1>2, <1>20 DEF Paths, ControlsReach, Marked, PathTypes
<1>11. ExecutorKnown'
  <2> SUFFICES ASSUME NEW b \in Browser, Ran(b)', status'[b] # "absent"
               PROVE  \E q \in Requests : Approves(q, b)' /\ pc'[q] \notin {"idle", "decided"}
    BY DEF ExecutorKnown
  <2>1. CASE b = a
    BY <1>0, <1>1, <1>30, <1>4, <2>1 DEF Approves, PathTypes
  <2>2. CASE b # a
    <3>1. Ran(b) /\ status[b] # "absent"
      BY <1>0, <1>1, <1>2, <2>2 DEF PathTypes
    <3>2. PICK q \in Requests : Approves(q, b) /\ pc[q] \notin {"idle", "decided"}
      BY <3>1 DEF Paths, ExecutorKnown
    <3> QED
      BY <1>1, <1>3, <2>2, <3>2 DEF Approves
  <2> QED
    BY <2>1, <2>2
<1>12. Growth
  BY <1>1, <1>2 DEF Growth
<1> QED
  BY <1>5, <1>6, <1>7, <1>8, <1>9, <1>10, <1>11, <1>12 DEF Paths

LEMMA DecidePaths ==
    ASSUME SafetyInv, Paths, NEW r \in Requests, NEW a \in Actions, NEW approved \in BOOLEAN,
           Decide(r, a, approved)
    PROVE  Paths' /\ Growth
<1>0. PathTypes /\ pc[r] = "idle" /\ task[r] = "none" /\ via[r] = "direct"
  BY PathFacts DEF Decide, PathTypes, Paths, ViaFits
<1>01. held[a] \in Proposals /\ held[a].id = a /\ status[a] # "absent"
  BY DEF Decide, SafetyInv, TypeInv, RowsHold
<1>1. /\ prop' = [prop EXCEPT ![r] = held[a]]
      /\ via' = [via EXCEPT ![r] = "approval"]
      /\ pc' = [pc EXCEPT ![r] = pc'[r]]
      /\ pc'[r] \in {"decided", "done"}
      /\ UNCHANGED <<task, active, ctl, ctlOn>>
      /\ records \subseteq records'
  BY <1>0 DEF Decide, taskVars, controlVars, PathTypes
<1>2. \/ /\ UNCHANGED <<status, seen, last>>
      \/ /\ status[a] = "pending" /\ status' = [status EXCEPT ![a] = "approved"]
         /\ UNCHANGED <<seen, last>>
      \/ \E type \in {"APPROVAL_EXPIRED", "APPROVAL_REJECTED"} :
            /\ status[a] \in {"pending", "rejected"}
            /\ status' = [status EXCEPT ![a] = status'[a]]
            /\ status'[a] \in {"rejected", "expired"}
            /\ seen' = [seen EXCEPT ![a] = @ \cup {} \cup {type}]
            /\ last' = [last EXCEPT ![a] = type]
  <2>1. CASE status[a] = "pending" /\ expires[a] <= now
    BY <1>0, <2>1 DEF Decide, EmitTerminal, journalVars, PathTypes
  <2>2. CASE status[a] = "pending" /\ ~(expires[a] <= now)
    BY <1>0, <2>2 DEF Decide, EmitTerminal, journalVars, PathTypes
  <2>3. CASE status[a] = "rejected"
    BY <1>0, <2>3 DEF Decide, EmitTerminal, journalVars, PathTypes
  <2>4. CASE status[a] \notin {"pending", "rejected"}
    BY <1>0, <2>4 DEF Decide, EmitTerminal, journalVars, PathTypes
  <2> QED
    BY <2>1, <2>2, <2>3, <2>4
<1>3. \A b \in Actions : /\ seen[b] \subseteq seen'[b]
                         /\ Ran(b)' <=> Ran(b)
                         /\ Marked(b)' => Marked(b)
                         /\ b # a => status'[b] = status[b] /\ last'[b] = last[b]
                         /\ "PROPOSED" \notin seen'[b] => "PROPOSED" \notin seen[b]
  BY <1>0, <1>2 DEF Ran, Marked, PathTypes
<1>4. a \in Browser => "PROPOSED" \in seen[a]
  BY <1>01 DEF Paths, Stages
<1>5. \A q \in Requests : /\ Runner(q)' <=> Runner(q)
                          /\ Runner(q) => q # r
                          /\ q # r => pc'[q] = pc[q] /\ via'[q] = via[q] /\ prop'[q] = prop[q]
  BY <1>0, <1>1 DEF Runner, PathTypes
<1>50. via'[r] = "approval" /\ prop'[r] = held[a]
  BY <1>0, <1>1 DEF PathTypes
<1>6. Stages'
  <2> SUFFICES ASSUME NEW b \in Browser
               PROVE  /\ Stage(b)'
                      /\ "PROPOSED" \notin seen'[b]
                            => status'[b] = "absent" /\ last'[b] = None /\ ~Ran(b)'
    BY DEF Stages
  <2>1. CASE b = a
    <3>1. Stage(a) /\ (Ran(a)' <=> Ran(a)) /\ "PROPOSED" \in seen'[a]
      BY <1>0, <1>3, <1>4, <2>1 DEF Paths, Stages
    <3>2. Stage(a)'
      BY <1>0, <1>2, <3>1 DEF Stage, PathTypes
    <3> QED
      BY <2>1, <3>1, <3>2
  <2>2. CASE b # a
    BY <1>0, <1>3, <2>2 DEF Paths, Stages, Stage, PathTypes
  <2> QED
    BY <2>1, <2>2
<1>7. ProposedSeen'
  BY <1>0, <1>01, <1>3, <1>4, <1>5, <1>50 DEF Paths, ProposedSeen, PathTypes
<1>8. ViaFits'
  BY <1>1, <1>5, <1>50 DEF Paths, ViaFits
<1>9. OneRunner'
  BY <1>5 DEF Paths, OneRunner
<1>10. RunnerStands'
  <2> SUFFICES ASSUME NEW q \in Requests, NEW b \in Browser, Runner(q)', prop'[q].id = b
               PROVE  /\ via'[q] = "direct" => status'[b] = "absent"
                      /\ pc'[q] = "preflight" => ~Ran(b)' /\ last'[b] = None
                      /\ task'[q] \in {"running", "cancelling"} =>
                            Ran(b)' /\ last'[b] \in {"CANCELED", None}
    BY DEF RunnerStands
  <2>1. /\ via[q] = "direct" => status[b] = "absent"
        /\ pc[q] = "preflight" => ~Ran(b) /\ last[b] = None
        /\ task[q] \in {"running", "cancelling"} => Ran(b) /\ last[b] \in {"CANCELED", None}
    BY <1>5 DEF Paths, RunnerStands
  <2>2. last'[b] = last[b] /\ (status[b] = "absent" => status'[b] = "absent")
    <3>1. status[b] \in {"absent", "executing", "consumed"}
      BY <1>0, <1>5, <2>1 DEF PathTypes
    <3> QED
      BY <1>0, <1>01, <1>2, <1>3, <3>1 DEF PathTypes
  <2> QED
    BY <1>0, <1>1, <1>3, <1>5, <2>1, <2>2 DEF PathTypes
<1>11. ControlsReach'
  BY <1>0, <1>1, <1>3 DEF Paths, ControlsReach, Marked, PathTypes
<1>12. ExecutorKnown'
  <2> SUFFICES ASSUME NEW b \in Browser, Ran(b)', status'[b] # "absent"
               PROVE  \E q \in Requests : Approves(q, b)' /\ pc'[q] \notin {"idle", "decided"}
    BY DEF ExecutorKnown
  <2>1. Ran(b) /\ status[b] # "absent"
    BY <1>0, <1>01, <1>3 DEF PathTypes
  <2>2. PICK q \in Requests : Approves(q, b) /\ pc[q] \notin {"idle", "decided"}
    BY <2>1 DEF Paths, ExecutorKnown
  <2> QED
    BY <1>0, <1>5, <2>2 DEF Approves
<1>13. Growth
  BY <1>0, <1>1, <1>3, <1>5 DEF Growth
<1> QED
  BY <1>6, <1>7, <1>8, <1>9, <1>10, <1>11, <1>12, <1>13 DEF Paths

LEMMA ClaimPaths ==
    ASSUME SafetyInv, Paths, NEW r \in Requests, Claim(r)
    PROVE  Paths' /\ Growth
<1> DEFINE a == prop[r].id
<1>0. PathTypes /\ a \in Actions /\ pc[r] = "decided" /\ task[r] = "none"
  BY PathFacts DEF Claim, PathTypes
<1>1. UNCHANGED <<last, via, prop, records, task, active, ctl, ctlOn>>
  BY DEF Claim, journalVars, Emit, taskVars, controlVars
<1>2. CASE status[a] # "approved"
  <2>1. UNCHANGED <<status, seen>> /\ pc' = [pc EXCEPT ![r] = "done"]
    BY <1>2 DEF Claim, journalVars
  <2>2. ControlsReach'
    BY <1>1, <2>1 DEF Paths, ControlsReach, Ran, Marked
  <2>3. \A b \in Browser : (Ran(b)' <=> Ran(b))
    BY <2>1 DEF Ran
  <2>4. Paths'
    BY <1>0, <1>1, <2>1, <2>2, <2>3, PathsFrame DEF PathTypes
  <2> QED
    BY <1>1, <2>1, <2>4 DEF Growth
<1>3. CASE status[a] = "approved"
  <2>1. /\ status' = [status EXCEPT ![a] = "executing"]
        /\ pc' = [pc EXCEPT ![r] = "preflight"]
        /\ seen' = [seen EXCEPT ![a] = @ \cup {"PROPOSED"}]
    BY <1>3 DEF Claim, Emit
  <2>2. \A b \in Actions : /\ Ran(b)' <=> Ran(b)
                           /\ seen[b] \subseteq seen'[b]
                           /\ Marked(b)' => Marked(b)
                           /\ b # a => status'[b] = status[b] /\ seen'[b] = seen[b]
    BY <1>0, <2>1 DEF Ran, Marked, PathTypes
  <2>3. /\ status'[a] = "executing" /\ pc'[r] = "preflight" /\ "PROPOSED" \in seen'[a]
        /\ \A q \in Requests \ {r} : pc'[q] = pc[q] /\ (Runner(q)' <=> Runner(q))
    BY <1>0, <1>1, <2>1 DEF Runner, PathTypes
  <2>4. a \in Browser => /\ ~Ran(a) /\ last[a] = None
                         /\ \A q \in Requests : Runner(q) => prop[q].id # a
    <3> SUFFICES ASSUME a \in Browser
                 PROVE  /\ ~Ran(a) /\ last[a] = None
                        /\ \A q \in Requests : Runner(q) => prop[q].id # a
      OBVIOUS
    <3>1. ~Ran(a) /\ last[a] = None
      BY <1>3 DEF Paths, Stages, Stage
    <3>2. ASSUME NEW q \in Requests, Runner(q), prop[q].id = a
          PROVE  FALSE
      <4>1. via[q] = "direct" => status[a] = "absent"
        BY <3>2 DEF Paths, RunnerStands
      <4>2. via[q] = "approval" => status[a] \in {"executing", "consumed"}
        BY <1>0, <3>2 DEF PathTypes
      <4> QED
        BY <1>0, <1>3, <4>1, <4>2 DEF PathTypes
    <3> QED
      BY <3>1, <3>2
  <2>40. via[r] = "approval"
    BY <1>0 DEF Paths, ViaFits
  <2>5. Stages'
    <3> SUFFICES ASSUME NEW b \in Browser
                 PROVE  /\ Stage(b)'
                        /\ "PROPOSED" \notin seen'[b]
                              => status'[b] = "absent" /\ last'[b] = None /\ ~Ran(b)'
      BY DEF Stages
    <3>1. CASE b = a
      BY <1>0, <1>1, <2>2, <2>3, <2>4, <3>1 DEF Stage, PathTypes
    <3>2. CASE b # a
      BY <1>0, <1>1, <2>2, <3>2 DEF Paths, Stages, Stage, PathTypes
    <3> QED
      BY <3>1, <3>2
  <2>6. ProposedSeen'
    BY <1>0, <1>1, <2>2, <2>3 DEF Paths, ProposedSeen, PathTypes
  <2>7. ViaFits'
    BY <1>1, <2>3 DEF Paths, ViaFits
  <2>8. OneRunner'
    BY <1>1, <2>3, <2>4 DEF Paths, OneRunner
  <2>9. RunnerStands'
    <3> SUFFICES ASSUME NEW q \in Requests, NEW b \in Browser, Runner(q)', prop[q].id = b
                 PROVE  /\ via[q] = "direct" => status'[b] = "absent"
                        /\ pc'[q] = "preflight" => ~Ran(b)' /\ last[b] = None
                        /\ task[q] \in {"running", "cancelling"} =>
                              Ran(b)' /\ last[b] \in {"CANCELED", None}
      BY <1>1 DEF RunnerStands
    <3>1. CASE q = r
      BY <1>0, <1>1, <2>2, <2>4, <2>40, <3>1
    <3>2. CASE q # r
      BY <1>0, <1>1, <2>2, <2>3, <2>4, <3>2 DEF Paths, RunnerStands, PathTypes
    <3> QED
      BY <3>1, <3>2
  <2>10. ControlsReach'
    BY <1>0, <1>1, <2>2 DEF Paths, ControlsReach, Marked, PathTypes
  <2>11. ExecutorKnown'
    BY <1>0, <1>1, <1>3, <2>2, <2>3, <2>4 DEF Paths, ExecutorKnown, Approves, PathTypes
  <2>12. Growth
    BY <1>1, <2>2 DEF Growth
  <2> QED
    BY <2>5, <2>6, <2>7, <2>8, <2>9, <2>10, <2>11, <2>12 DEF Paths
<1> QED
  BY <1>2, <1>3

LEMMA WaiterPaths ==
    ASSUME SafetyInv, Paths, NEW r \in Requests, WaiterResumes(r)
    PROVE  Paths' /\ Growth
<1>0. PathTypes
  BY PathFacts
<1>1. UNCHANGED <<last, seen, via, prop, records, task, active, ctl, ctlOn>>
  BY DEF WaiterResumes, Return, storeVars, journalVars, taskVars, controlVars
<1>2. /\ pc[r] = "waiting" /\ pc' = [pc EXCEPT ![r] = "done"]
      /\ \/ status' = status
         \/ /\ status[prop[r].id] = "executing"
            /\ status' = [status EXCEPT ![prop[r].id] = "consumed"]
  BY DEF WaiterResumes, Return, storeVars
<1>3. \A b \in Browser : (Ran(b)' <=> Ran(b))
  BY <1>1 DEF Ran
<1>4. \A b \in Browser : \/ status'[b] = status[b]
                         \/ status[b] = "executing" /\ status'[b] = "consumed"
  BY <1>0, <1>2 DEF PathTypes
<1>5. \A q \in Requests : pc'[q] = pc[q] \/ (pc[q] # "idle" /\ pc'[q] \in {"done", "lost"})
  BY <1>0, <1>2 DEF PathTypes
<1>6. ControlsReach'
  BY <1>1, <1>3 DEF Paths, ControlsReach, Marked
<1>7. Paths'
  BY <1>1, <1>3, <1>4, <1>5, <1>6, PathsFrame
<1> QED
  BY <1>1, <1>7 DEF Growth

\* The end of an execution: its task is forgotten and, unless the action was
\* canceled meanwhile, the journal has the outcome.
LEMMA TaskPaths ==
    ASSUME SafetyInv, Paths, NEW r \in Requests, TaskStep(r)
    PROVE  Paths' /\ Growth
<1> DEFINE a == prop[r].id
<1>0. PathTypes
  BY PathFacts
<1>1. /\ task[r] \in {"running", "cancelling"} /\ task' = [task EXCEPT ![r] = "ended"]
      /\ active' = [b \in Actions |-> IF active[b] = r THEN None ELSE active[b]]
      /\ UNCHANGED <<status, records, pc, via, prop, ctl, ctlOn>>
  BY DEF TaskStep, BackendReturns, TaskCancelled, EndTask, storeVars, requestVars, controlVars
<1>2. Runner(r) /\ a \in Actions
  BY <1>0, <1>1 DEF Runner, PathTypes
<1>3. \/ UNCHANGED <<seen, last>>
      \/ seen' = [seen EXCEPT ![a] = @ \cup {"LATE_RESULT_DISCARDED"}] /\ UNCHANGED last
      \/ \E type \in {"COMPLETED", "FAILED"} :
            /\ last[a] # "CANCELED"
            /\ seen' = [seen EXCEPT ![a] = @ \cup {} \cup {type}]
            /\ last' = [last EXCEPT ![a] = type]
  BY DEF TaskStep, BackendReturns, TaskCancelled, Emit, EmitTerminal, IsLate, journalVars
<1>4. \A b \in Actions : /\ seen[b] \subseteq seen'[b]
                         /\ Ran(b)' <=> Ran(b)
                         /\ Marked(b)' => Marked(b)
                         /\ b # a => last'[b] = last[b]
                         /\ active'[b] # None => active[b] # None
  BY <1>0, <1>1, <1>2, <1>3 DEF Ran, Marked, PathTypes
<1>5. \A q \in Requests : Runner(q)' => Runner(q)
  BY <1>0, <1>1 DEF Runner, PathTypes
<1>6. ControlsReach'
  BY <1>0, <1>1, <1>4 DEF Paths, ControlsReach, Marked, PathTypes
<1>7. Growth
  BY <1>1, <1>4 DEF Growth
<1>8. CASE UNCHANGED last
  <2>1. \A q \in Requests : \/ task'[q] = task[q]
                            \/ task[q] # "none" /\ task'[q] \in {"ended", "lost"}
    BY <1>0, <1>1 DEF PathTypes
  <2>2. Paths'
    BY <1>0, <1>1, <1>4, <1>6, <1>8, <2>1, PathsFrame DEF PathTypes
  <2> QED
    BY <1>7, <2>2
<1>9. CASE last'[a] \in {"COMPLETED", "FAILED"}
  <2>1. a \in Browser => Ran(a)
    BY <1>1, <1>2 DEF Paths, RunnerStands
  <2>2. Stages'
    <3> SUFFICES ASSUME NEW b \in Browser
                 PROVE  /\ Stage(b)'
                        /\ "PROPOSED" \notin seen'[b]
                              => status'[b] = "absent" /\ last'[b] = None /\ ~Ran(b)'
      BY DEF Stages
    <3>1. CASE b = a
      BY <1>0, <1>1, <1>4, <1>9, <2>1, <3>1 DEF Paths, Stages, Stage, Endings, PathTypes
    <3>2. CASE b # a
      BY <1>0, <1>1, <1>4, <3>2 DEF Paths, Stages, Stage, PathTypes
    <3> QED
      BY <3>1, <3>2
  <2>3. ProposedSeen'
    BY <1>0, <1>1, <1>4 DEF Paths, ProposedSeen, PathTypes
  <2>4. ViaFits' /\ OneRunner'
    BY <1>1, <1>5 DEF Paths, ViaFits, OneRunner
  <2>5. RunnerStands'
    <3> SUFFICES ASSUME NEW q \in Requests, NEW b \in Browser, Runner(q)', prop[q].id = b
                 PROVE  /\ via[q] = "direct" => status[b] = "absent"
                        /\ pc[q] = "preflight" => ~Ran(b)' /\ last'[b] = None
                        /\ task'[q] \in {"running", "cancelling"} =>
                              Ran(b)' /\ last'[b] \in {"CANCELED", None}
      BY <1>1 DEF RunnerStands
    <3>1. CASE q = r
      BY <1>0, <1>1, <1>5, <3>1 DEF Paths, RunnerStands, PathTypes
    <3>2. CASE q # r
      <4>1. b # a
        BY <1>2, <1>5, <3>2 DEF Paths, OneRunner
      <4> QED
        BY <1>0, <1>1, <1>4, <1>5, <3>2, <4>1 DEF Paths, RunnerStands, PathTypes
    <3> QED
      BY <3>1, <3>2
  <2>6. ExecutorKnown'
    BY <1>0, <1>1, <1>4 DEF Paths, ExecutorKnown, Approves, PathTypes
  <2> QED
    BY <1>6, <1>7, <2>2, <2>3, <2>4, <2>5, <2>6 DEF Paths
<1> QED
  BY <1>0, <1>2, <1>3, <1>8, <1>9 DEF PathTypes

\* What the founder controls add to the journal.
LEMMA ControlPaths ==
    ASSUME SafetyInv, Paths, NEW c \in Controls, ControlStep(c)
    PROVE  Paths' /\ Growth
<1>0. PathTypes /\ ctl \in [Controls -> {"idle", "checking", "cancelling", "done", "lost"}]
      /\ ctlOn \in [Controls -> Actions \cup {None}]
  BY PathFacts DEF SafetyInv, TypeInv, TypeOK, ControlType
<1>1. CASE \E i \in ControlIds, a \in Actions : ReplayControl(c, i, a)
  <2>1. /\ ctl' = [ctl EXCEPT ![c] = "done"]
        /\ \A d \in Controls \ {c} : ctlOn'[d] = ctlOn[d]
        /\ UNCHANGED <<last, via, prop, status, seen, pc, task, active, records>>
    BY <1>0, <1>1 DEF ReplayControl, FinishControl, storeVars, journalVars, requestVars, taskVars
  <2>2. ControlsReach'
    BY <1>0, <2>1 DEF Paths, ControlsReach, Ran, Marked
  <2>3. \A b \in Browser : (Ran(b)' <=> Ran(b))
    BY <2>1 DEF Ran
  <2> QED
    BY <2>1, <2>2, <2>3, PathsFrame DEF Growth
<1>2. CASE \E i \in ControlIds, a \in Actions : CancelAction(c, i, a)
  <2>1. PICK i \in ControlIds, a \in Actions : CancelAction(c, i, a)
    BY <1>2
  <2>2. UNCHANGED <<last, via, prop, status, seen, pc, task, active, records>>
    BY <2>1 DEF CancelAction, storeVars, journalVars, requestVars, taskVars
  <2>3. \A b \in Browser : (Ran(b)' <=> Ran(b))
    BY <2>2 DEF Ran
  <2>4. /\ a \in Browser
        /\ \/ ctl' = [ctl EXCEPT ![c] = "done"]
           \/ ctl' = [ctl EXCEPT ![c] = "checking"] /\ active[a] # None
        /\ ctlOn' = [ctlOn EXCEPT ![c] = a]
    BY <2>1 DEF CancelAction, ControlAdmitted, FinishControl
  <2>5. ControlsReach'
    BY <1>0, <2>2, <2>3, <2>4 DEF Paths, ControlsReach, Marked
  <2> QED
    BY <2>2, <2>3, <2>5, PathsFrame DEF Growth
<1>3. CASE \E i \in ControlIds, a \in Actions : ReconcileAction(c, i, a)
  <2>1. PICK i \in ControlIds, a \in Actions : ReconcileAction(c, i, a)
    BY <1>3
  <2>2. UNCHANGED <<last, via, prop, status, pc, task, active, records>>
    BY <2>1 DEF ReconcileAction, Emit, storeVars, journalVars, requestVars, taskVars
  <2>3. \/ seen' = seen
        \/ Ran(a) /\ seen' = [seen EXCEPT ![a] = @ \cup {"RECONCILIATION_REQUESTED"}]
    BY <2>1 DEF ReconcileAction, Emit, journalVars, Ran
  <2>4. \A b \in Actions : /\ Ran(b)' <=> Ran(b)
                           /\ seen[b] \subseteq seen'[b]
                           /\ Marked(b)' => Marked(b) \/ Ran(b)
    BY <1>0, <2>3 DEF Ran, Marked, PathTypes
  <2>5. ctl' = [ctl EXCEPT ![c] = "done"] /\ \A d \in Controls \ {c} : ctlOn'[d] = ctlOn[d]
    BY <1>0, <2>1 DEF ReconcileAction, FinishControl
  <2>6. ControlsReach'
    BY <1>0, <2>2, <2>4, <2>5 DEF Paths, ControlsReach, Marked, PathTypes
  <2>7. Paths'
    BY <1>0, <2>2, <2>4, <2>6, PathsFrame DEF PathTypes
  <2> QED
    BY <2>2, <2>4, <2>7 DEF Growth
<1>4. CASE CancelSupportChecked(c)
  <2> DEFINE a == ctlOn[c]
  <2>1. UNCHANGED <<last, via, prop, status, pc, task, active, records>> /\ ctl[c] = "checking"
    BY <1>4 DEF CancelSupportChecked, Emit, storeVars, journalVars, requestVars, taskVars
  <2>2. a \in Browser /\ Ran(a)
    BY <2>1 DEF Paths, ControlsReach, Marked
  <2>3. \/ seen' = seen /\ ctl' = [ctl EXCEPT ![c] = "done"]
        \/ /\ seen' = [seen EXCEPT ![a] = @ \cup {"CANCEL_INTENT_RECORDED"}]
           /\ ctl' = [ctl EXCEPT ![c] = "cancelling"] \/ ctl' = [ctl EXCEPT ![c] = "done"]
    BY <1>4 DEF CancelSupportChecked, FinishControl, Emit, journalVars
  <2>4. \A b \in Actions : /\ Ran(b)' <=> Ran(b)
                           /\ seen[b] \subseteq seen'[b]
                           /\ b # a => (Marked(b)' => Marked(b))
    BY <1>0, <2>2, <2>3 DEF Ran, Marked, PathTypes
  <2>5. ctlOn' = [ctlOn EXCEPT ![c] = a]
    BY <1>0, <1>4 DEF CancelSupportChecked, FinishControl
  <2>6. ControlsReach'
    BY <1>0, <2>1, <2>2, <2>3, <2>4, <2>5 DEF Paths, ControlsReach, Marked, PathTypes
  <2>7. Paths'
    BY <1>0, <2>1, <2>4, <2>6, PathsFrame DEF PathTypes
  <2> QED
    BY <2>1, <2>4, <2>7 DEF Growth
<1>5. CASE \E ok \in BOOLEAN : CancelAnswered(c, ok)
  <2> DEFINE a == ctlOn[c]
  <2>1. /\ ctl[c] = "cancelling" /\ ctl' = [ctl EXCEPT ![c] = "done"]
        /\ ctlOn' = [ctlOn EXCEPT ![c] = a]
        /\ UNCHANGED <<via, prop, status, pc, active, records>>
    BY <1>5 DEF CancelAnswered, FinishControl, storeVars, requestVars
  <2>2. a \in Browser /\ Ran(a) /\ a \in Actions
    BY <1>0, <2>1 DEF Paths, ControlsReach, Marked, PathTypes
  <2>3. \/ UNCHANGED <<seen, last, task>>
        \/ /\ last[a] = None
           /\ seen' = [seen EXCEPT ![a] = @ \cup {} \cup {"CANCELED"}]
           /\ last' = [last EXCEPT ![a] = "CANCELED"]
           /\ \E t : task' = [task EXCEPT ![t] = IF @ = "running" THEN "cancelling" ELSE @]
    BY <1>5 DEF CancelAnswered, EmitTerminal, journalVars
  <2>4. \A b \in Actions : /\ Ran(b)' <=> Ran(b)
                           /\ seen[b] \subseteq seen'[b]
                           /\ Marked(b)' => Marked(b)
                           /\ b # a => last'[b] = last[b]
    BY <1>0, <2>2, <2>3 DEF Ran, Marked, PathTypes
  <2>5. ControlsReach'
    BY <1>0, <2>1, <2>2, <2>4 DEF Paths, ControlsReach, Marked, PathTypes
  <2>6. Growth
    BY <2>1, <2>4 DEF Growth
  <2>7. CASE UNCHANGED <<seen, last, task>>
    BY <1>0, <2>1, <2>4, <2>5, <2>6, <2>7, PathsFrame DEF PathTypes
  <2>8. CASE last'[a] = "CANCELED" /\ ~UNCHANGED <<seen, last, task>>
    <3>1. \A q \in Requests : \/ task'[q] = task[q]
                              \/ task[q] = "running" /\ task'[q] = "cancelling"
      BY <1>0, <2>3, <2>8 DEF PathTypes
    <3>2. \A q \in Requests : Runner(q)' <=> Runner(q)
      BY <2>1, <3>1 DEF Runner
    <3>3. Stages'
      <4> SUFFICES ASSUME NEW b \in Browser
                   PROVE  /\ Stage(b)'
                          /\ "PROPOSED" \notin seen'[b]
                                => status'[b] = "absent" /\ last'[b] = None /\ ~Ran(b)'
        BY DEF Stages
      <4>1. CASE b = a
        BY <1>0, <2>1, <2>2, <2>4, <2>8, <4>1 DEF Paths, Stages, Stage, Endings, PathTypes
      <4>2. CASE b # a
        BY <1>0, <2>1, <2>4, <4>2 DEF Paths, Stages, Stage, PathTypes
      <4> QED
        BY <4>1, <4>2
    <3>4. ProposedSeen'
      BY <1>0, <2>1, <2>4 DEF Paths, ProposedSeen, PathTypes
    <3>5. ViaFits' /\ OneRunner'
      BY <2>1, <3>2 DEF Paths, ViaFits, OneRunner
    <3>6. RunnerStands'
      BY <1>0, <2>1, <2>2, <2>4, <2>8, <3>1, <3>2 DEF Paths, RunnerStands, PathTypes
    <3>7. ExecutorKnown'
      BY <1>0, <2>1, <2>4 DEF Paths, ExecutorKnown, Approves, PathTypes
    <3> QED
      BY <2>5, <2>6, <3>3, <3>4, <3>5, <3>6, <3>7 DEF Paths
  <2> QED
    BY <1>0, <2>2, <2>3, <2>7, <2>8 DEF PathTypes
<1> QED
  BY <1>1, <1>2, <1>3, <1>4, <1>5 DEF ControlStep

LEMMA EnvironmentPaths ==
    ASSUME SafetyInv, Paths,
           \/ \E r \in Requests : DropWaiter(r)
           \/ Tick
           \/ Crash
           \/ UNCHANGED vars
    PROVE  Paths' /\ Growth
<1>0. PathTypes /\ ctl \in [Controls -> {"idle", "checking", "cancelling", "done", "lost"}]
  BY PathFacts DEF SafetyInv, TypeInv, TypeOK, ControlType
<1>1. UNCHANGED <<last, via, prop, status, seen, records, ctlOn>>
  BY DEF DropWaiter, Tick, Crash, vars, storeVars, journalVars, requestVars, controlVars
<1>2. \A q \in Requests : pc'[q] = pc[q] \/ (pc[q] # "idle" /\ pc'[q] \in {"done", "lost"})
  BY <1>0 DEF DropWaiter, Tick, Crash, vars, requestVars, PathTypes
<1>3. \A q \in Requests : \/ task'[q] = task[q]
                          \/ task[q] # "none" /\ task'[q] \in {"ended", "lost"}
  BY <1>0 DEF DropWaiter, Tick, Crash, vars, taskVars, PathTypes
<1>4. /\ \A b \in Actions : active'[b] = active[b] \/ active'[b] = None
      /\ \A c \in Controls : ctl'[c] = ctl[c] \/ ctl'[c] = "lost"
  BY <1>0 DEF DropWaiter, Tick, Crash, vars, taskVars, controlVars, PathTypes
<1>5. \A b \in Browser : (Ran(b)' <=> Ran(b))
  BY <1>1 DEF Ran
<1>6. ControlsReach'
  BY <1>0, <1>1, <1>4, <1>5 DEF Paths, ControlsReach, Marked, PathTypes
<1>7. Paths'
  BY <1>1, <1>2, <1>3, <1>5, <1>6, PathsFrame
<1> QED
  BY <1>1, <1>7 DEF Growth

LEMMA SweepPaths ==
    ASSUME SafetyInv, Paths, SweepExpired
    PROVE  Paths' /\ Growth
<1>0. PathTypes
  BY PathFacts
<1>1. UNCHANGED <<pc, via, prop, task, active, records, ctl, ctlOn>>
  BY DEF SweepExpired, requestVars, taskVars, controlVars
<1>2. \A b \in Actions :
        /\ seen[b] \subseteq seen'[b]
        /\ Ran(b)' <=> Ran(b)
        /\ Marked(b)' => Marked(b)
        /\ \/ status'[b] = status[b] /\ last'[b] = last[b]
           \/ status[b] = "pending" /\ status'[b] = "expired" /\ last'[b] = "APPROVAL_EXPIRED"
  BY <1>0 DEF SweepExpired, DueRows, Ran, Marked, PathTypes
<1>3. \A q \in Requests : Runner(q)' <=> Runner(q)
  BY <1>1 DEF Runner
<1>4. Stages'
  BY <1>0, <1>2 DEF Paths, Stages, Stage, PathTypes
<1>5. ProposedSeen' /\ ViaFits' /\ OneRunner'
  BY <1>0, <1>1, <1>2, <1>3 DEF Paths, ProposedSeen, ViaFits, OneRunner, PathTypes
<1>6. RunnerStands'
  <2> SUFFICES ASSUME NEW q \in Requests, NEW b \in Browser, Runner(q)', prop[q].id = b
               PROVE  /\ via[q] = "direct" => status'[b] = "absent"
                      /\ pc[q] = "preflight" => ~Ran(b)' /\ last'[b] = None
                      /\ task[q] \in {"running", "cancelling"} =>
                            Ran(b)' /\ last'[b] \in {"CANCELED", None}
    BY <1>1 DEF RunnerStands
  <2>1. status[b] # "pending"
    BY <1>0, <1>3 DEF Paths, RunnerStands, PathTypes
  <2> QED
    BY <1>0, <1>2, <1>3, <2>1 DEF Paths, RunnerStands, PathTypes
<1>7. ControlsReach' /\ ExecutorKnown'
  BY <1>0, <1>1, <1>2 DEF Paths, ControlsReach, ExecutorKnown, Approves, PathTypes
<1>8. Growth
  BY <1>1, <1>2 DEF Growth
<1> QED
  BY <1>4, <1>5, <1>6, <1>7, <1>8 DEF Paths

LEMMA PathsStep ==
    ASSUME SafetyInv, Paths, [Next]_vars
    PROVE  Paths' /\ Growth
<1>1. ASSUME NEW r \in Requests, RequestStep(r)
      PROVE  Paths' /\ Growth
  <2>1. PreflightFails(r) => Refuse(r, "PREFLIGHT_FAILED", "preflight-failed")
    BY DEF PreflightFails, Refuse
  <2>2. RetryBlocked(r) => Refuse(r, "RETRY_BLOCKED", "retry-blocked")
    BY DEF RetryBlocked, Refuse
  <2>3. Denied(r) => Refuse(r, "GOVERNANCE_REJECTED", "denied")
    BY DEF Denied, Refuse
  <2>4. {"GOVERNANCE_REJECTED", "RETRY_BLOCKED", "PREFLIGHT_FAILED"} = Refusals
    BY DEF Refusals
  <2>5. CASE PreflightFails(r) \/ RetryBlocked(r) \/ Denied(r)
    BY <2>1, <2>2, <2>3, <2>4, <2>5, RefusePaths
  <2> QED
    BY <1>1, <2>5, ProposePaths, RequestApprovalPaths, DispatchPaths, WaiterPaths,
       DecidePaths, ClaimPaths DEF RequestStep
<1> QED
  BY <1>1, TaskPaths, ControlPaths, EnvironmentPaths, SweepPaths DEF Next

\* The inductive invariant of the path that the page rests on.
LEMMA PathsInvariant == Spec => [](SafetyInv /\ Paths)
<1>1. SafetyInv /\ Paths /\ [Next]_vars => Paths'
  BY PathsStep
<1>2. Spec => []SafetyInv
  BY SafetyInvariant
<1> QED
  BY PathsInit, <1>1, <1>2, PTL DEF Spec

-----------------------------------------------------------------------------
(* The page and the controls tell one story                                *)

\* What the page shows of an action, against its row and its journal.
Told(a) ==
    \/ shown[a] = "none" /\ "PROPOSED" \notin seen[a]
    \/ /\ shown[a] = "proposed" /\ "PROPOSED" \in seen[a]
       /\ status[a] = "absent" /\ ~Ran(a) /\ last[a] = None
    \/ shown[a] = "awaiting-approval" /\ status[a] \in {"pending", "approved"}
    \/ /\ shown[a] = "queued"
       /\ status[a] \in {"executing", "consumed"} /\ ~Ran(a) /\ last[a] = None
    \/ /\ shown[a] = "running" /\ "RECONCILIATION_REQUESTED" \notin seen[a]
       /\ Ran(a) /\ last[a] = None
    \/ /\ shown[a] = "reconciling" /\ "RECONCILIATION_REQUESTED" \in seen[a]
       /\ Ran(a) /\ last[a] = None
    \/ last[a] # None /\ shown[a] = ControlAnswer[last[a]]
    \/ shown[a] = "conflict" /\ Unforeseen(a)

Page == \A a \in Browser : Told(a)

PageInv == SafetyInv /\ Paths /\ Page

LEMMA ReplayFacts ==
    /\ \A c : Replay(c, <<>>) = c
    /\ \A c, e : Replay(c, <<e>>) = ProjectEvent(c, e)
    /\ \A c, e, f : Replay(c, <<e, f>>) = ProjectEvent(ProjectEvent(c, e), f)
BY DEF Replay

\* What is settled or in conflict stays so.
LEMMA SettledStays ==
    \A e : \A c \in SettledStates \cup {"conflict"} : ProjectEvent(c, e) = c
BY DEF ProjectEvent

\* The turns of the loop that the steps below take.
LEMMA Turns ==
    /\ ProjectEvent("none", "PROPOSED") = "proposed"
    /\ ProjectEvent("proposed", "PREFLIGHT_FAILED") = "unavailable"
    /\ ProjectEvent("queued", "PREFLIGHT_FAILED") = "conflict"
    /\ ProjectEvent("proposed", "RETRY_BLOCKED") = "rejected"
    /\ ProjectEvent("queued", "RETRY_BLOCKED") = "conflict"
    /\ ProjectEvent("proposed", "GOVERNANCE_REJECTED") = "rejected"
    /\ ProjectEvent("queued", "GOVERNANCE_REJECTED") = "conflict"
    /\ ProjectEvent("proposed", "APPROVAL_REQUESTED") = "awaiting-approval"
    /\ ProjectEvent("proposed", "GOVERNANCE_APPROVED") = "queued"
    /\ ProjectEvent("queued", "GOVERNANCE_APPROVED") = "queued"
    /\ ProjectEvent("queued", "EXECUTION_REQUESTED") = "running"
    /\ ProjectEvent("awaiting-approval", "APPROVAL_EXPIRED") = "rejected"
    /\ ProjectEvent("awaiting-approval", "APPROVAL_REJECTED") = "rejected"
    /\ ProjectEvent("awaiting-approval", "APPROVAL_APPROVED") = "queued"
    /\ ProjectEvent("queued", "APPROVAL_APPROVED") = "queued"
    /\ \A c \in {"running", "reconciling"} :
          /\ ProjectEvent(c, "APPROVAL_APPROVED") = "conflict"
          /\ ProjectEvent(c, "COMPLETED") = "succeeded"
          /\ ProjectEvent(c, "FAILED") = "failed"
    /\ ProjectEvent("running", "RECONCILIATION_REQUESTED") = "reconciling"
    /\ \A e \in Remarks : /\ ProjectEvent("running", e) = "running"
                          /\ ProjectEvent("reconciling", e) = "conflict"
    /\ ProjectEvent("running", "CANCEL_REQUESTED") = "canceling"
    /\ ProjectEvent("reconciling", "CANCEL_REQUESTED") = "conflict"
    /\ ProjectEvent("canceling", "CANCELED") = "canceled"
BY DEF ProjectEvent, Receipted, StateOf, CanFollow, Follows, Remarks, SettledStates

LEMMA Answers ==
    /\ \A type \in TerminalTypes : ControlAnswer[type] \in SettledStates
    /\ ControlAnswer["COMPLETED"] = "succeeded"
    /\ ControlAnswer["FAILED"] = "failed"
    /\ ControlAnswer["CANCELED"] = "canceled"
    /\ ControlAnswer["PREFLIGHT_FAILED"] = "unavailable"
    /\ \A type \in {"RETRY_BLOCKED", "GOVERNANCE_REJECTED", "APPROVAL_EXPIRED",
                    "APPROVAL_REJECTED"} : ControlAnswer[type] = "rejected"
BY DEF ControlAnswer, TerminalTypes, SettledStates

\* What _events() hands to the loop of _project after a step on one action.
LEMMA Replayed ==
    ASSUME NEW a, NEW events, Project(a, events)
    PROVE  \A b \in Browser : shown'[b] = IF b = a THEN Replay(shown[b], events) ELSE shown[b]
BY DEF Project

\* An action that has neither run nor been settled is no unforeseen history.
LEMMA Foreseen ==
    ASSUME Paths, NEW b \in Browser, ~Ran(b), last[b] = None
    PROVE  ~Unforeseen(b)
<1>1. None \notin {"GOVERNANCE_REJECTED", "RETRY_BLOCKED", "PREFLIGHT_FAILED"}
  BY NoneIsNoEvent DEF TerminalTypes
<1>2. "CANCEL_INTENT_RECORDED" \notin seen[b]
  BY DEF Paths, ControlsReach, Marked
<1> QED
  BY <1>1, <1>2 DEF Unforeseen, Ran

\* An unforeseen history stays one, as long as its terminal event stands.
LEMMA UnforeseenStays ==
    ASSUME Growth, NEW b \in Browser, Unforeseen(b), last'[b] = last[b] \/ last[b] \notin Refusals
    PROVE  Unforeseen(b)'
<1>1. b \in Actions
  BY ConstantsAssumption
<1>2. CASE last[b] \in Refusals /\ \E x \in records : x.approval = b /\ x.approved
  <2>1. PICK x \in records : x.approval = b /\ x.approved
    BY <1>2
  <2>2. x \in records' /\ last'[b] \in Refusals
    BY <1>2 DEF Growth
  <2> QED
    BY <2>1, <2>2 DEF Unforeseen, Refusals
<1>3. CASE {"CANCEL_INTENT_RECORDED", "RECONCILIATION_REQUESTED"} \subseteq seen[b]
  BY <1>1, <1>3 DEF Unforeseen, Growth
<1>4. CASE "EXECUTION_REQUESTED" \in seen[b]
           /\ \E r, s \in Requests : r # s /\ Approves(r, b) /\ Approves(s, b)
  <2>1. PICK r \in Requests, s \in Requests : r # s /\ Approves(r, b) /\ Approves(s, b)
    BY <1>4
  <2>2. Approves(r, b)' /\ Approves(s, b)'
    BY <2>1 DEF Growth, Approves
  <2>3. "EXECUTION_REQUESTED" \in seen'[b]
    BY <1>1, <1>4 DEF Growth
  <2> QED
    BY <2>1, <2>2, <2>3 DEF Unforeseen
<1> QED
  BY <1>2, <1>3, <1>4 DEF Unforeseen, Refusals

\* What a step leaves alone, the page keeps telling.
LEMMA ToldFrame ==
    ASSUME Growth, NEW b \in Browser, Told(b), shown'[b] = shown[b], last'[b] = last[b],
           \/ status'[b] = status[b]
           \/ status[b] = "executing" /\ status'[b] = "consumed"
           \/ status[b] = "pending" /\ status'[b] = "approved",
           Ran(b)' <=> Ran(b),
           "PROPOSED" \in seen'[b] => "PROPOSED" \in seen[b],
           "RECONCILIATION_REQUESTED" \in seen'[b] => "RECONCILIATION_REQUESTED" \in seen[b]
    PROVE  Told(b)'
<1>1. b \in Actions
  BY ConstantsAssumption
<1>2. seen[b] \subseteq seen'[b]
  BY <1>1 DEF Growth
<1>3. CASE shown[b] = "conflict" /\ Unforeseen(b)
  BY <1>3, UnforeseenStays DEF Told
<1>4. CASE ~(shown[b] = "conflict" /\ Unforeseen(b))
  BY <1>2, <1>4 DEF Told
<1> QED
  BY <1>3, <1>4

\* Steps that the page is told nothing of.
LEMMA QuietPage ==
    ASSUME PageInv, Growth, UNCHANGED <<shown, last>>,
           \A b \in Browser : /\ \/ status'[b] = status[b]
                                 \/ status[b] = "executing" /\ status'[b] = "consumed"
                              /\ seen'[b] = seen[b]
    PROVE  Page'
BY ToldFrame DEF PageInv, Page, Ran

LEMMA ProposePage ==
    ASSUME PageInv, Growth, NEW r \in Requests, NEW p \in Proposals, Propose(r, p),
           Project(p.id, <<"PROPOSED">>)
    PROVE  Page'
<1>0. PathTypes /\ p.id \in Actions
  BY PathFacts, ProposalId DEF PageInv
<1>1. /\ p.id \in Browser => "PROPOSED" \notin seen[p.id]
      /\ seen' = [seen EXCEPT ![p.id] = @ \cup {"PROPOSED"}]
      /\ UNCHANGED <<last, status>>
  BY DEF Propose, Emit, storeVars
<1> SUFFICES ASSUME NEW b \in Browser PROVE Told(b)'
  BY DEF Page
<1>2. Told(b) /\ b \in Actions
  BY <1>0 DEF PageInv, Page, PathTypes
<1>3. CASE b # p.id
  <2>1. shown'[b] = shown[b] /\ seen'[b] = seen[b]
    BY <1>0, <1>1, <1>2, <1>3, Replayed DEF PathTypes
  <2> QED
    BY <1>1, <1>2, <2>1, ToldFrame DEF Ran
<1>4. CASE b = p.id
  <2>1. "PROPOSED" \notin seen[b] /\ status[b] = "absent" /\ last[b] = None /\ ~Ran(b)
    BY <1>1, <1>4 DEF PageInv, Paths, Stages
  <2>2. ~Unforeseen(b)
    BY <2>1, Foreseen DEF PageInv
  <2>3. shown[b] = "none"
    BY <1>2, <2>1, <2>2 DEF Told
  <2>4. shown'[b] = "proposed"
    BY <1>4, <2>3, Replayed, ReplayFacts, Turns
  <2>5. "PROPOSED" \in seen'[b] /\ ~Ran(b)'
    BY <1>0, <1>1, <1>2, <1>4, <2>1 DEF Ran, PathTypes
  <2> QED
    BY <1>1, <2>1, <2>4, <2>5 DEF Told
<1> QED
  BY <1>3, <1>4

LEMMA RefusePage ==
    ASSUME PageInv, Growth, NEW r \in Requests, NEW type \in Refusals, NEW res,
           Refuse(r, type, res), Project(prop[r].id, <<type>>)
    PROVE  Page'
<1> DEFINE a == prop[r].id
<1>0. PathTypes /\ a \in Actions /\ Runner(r)
  BY PathFacts DEF Refuse, PathTypes, Runner, PageInv
<1>1. /\ pc[r] = "preflight"
      /\ seen' = [seen EXCEPT ![a] = @ \cup {} \cup {type}]
      /\ last' = [last EXCEPT ![a] = type]
      /\ status' = IF via[r] = "approval" /\ status[a] = "executing"
                   THEN [status EXCEPT ![a] = "consumed"] ELSE status
  BY DEF Refuse, EmitTerminal, Return
<1> SUFFICES ASSUME NEW b \in Browser PROVE Told(b)'
  BY DEF Page
<1>2. Told(b) /\ b \in Actions
  BY <1>0 DEF PageInv, Page, PathTypes
<1>3. CASE b # a
  <2>1. shown'[b] = shown[b] /\ seen'[b] = seen[b] /\ last'[b] = last[b] /\ status'[b] = status[b]
    BY <1>0, <1>1, <1>2, <1>3, Replayed DEF PathTypes
  <2> QED
    BY <1>2, <2>1, ToldFrame DEF Ran
<1>4. CASE b = a
  <2>1. ~Ran(b) /\ last[b] = None /\ (via[r] = "direct" => status[b] = "absent")
    BY <1>0, <1>1, <1>4 DEF PageInv, Paths, RunnerStands
  <2>2. "PROPOSED" \in seen[b] /\ (via[r] = "approval" => status[b] = "executing")
    BY <1>0, <1>1, <1>4 DEF PageInv, Paths, ProposedSeen, PathTypes
  <2>3. ~Unforeseen(b)
    BY <2>1, Foreseen DEF PageInv
  <2>4. last'[b] = type /\ type # None /\ type \in TerminalTypes
    BY <1>0, <1>1, <1>2, <1>4, NoneIsNoEvent DEF Refusals, TerminalTypes, PathTypes
  <2>5. shown'[b] = ProjectEvent(shown[b], type)
    BY <1>4, Replayed, ReplayFacts
  <2>6. CASE via[r] = "direct"
    <3>1. shown[b] = "proposed"
      BY <1>2, <2>1, <2>2, <2>3, <2>6 DEF Told
    <3>2. shown'[b] = ControlAnswer[type]
      BY <2>5, <3>1, Turns, Answers DEF Refusals
    <3> QED
      BY <2>4, <3>2 DEF Told
  <2>7. CASE via[r] = "approval"
    <3>1. shown[b] = "queued"
      BY <1>2, <2>1, <2>2, <2>3, <2>7 DEF Told
    <3>2. shown'[b] = "conflict"
      BY <2>5, <3>1, Turns DEF Refusals
    <3>3. PICK x \in records : x.approval = b /\ x.approved
      BY <1>2, <2>2, <2>7 DEF PageInv, SafetyInv, DecisionFinal
    <3>4. Unforeseen(b)'
      BY <2>4, <3>3 DEF Unforeseen, Growth, Refusals
    <3> QED
      BY <3>2, <3>4 DEF Told
  <2> QED
    BY <1>0, <2>6, <2>7 DEF PathTypes
<1> QED
  BY <1>3, <1>4

LEMMA RequestApprovalPage ==
    ASSUME PageInv, Growth, NEW r \in Requests, RequestApproval(r),
           Project(prop[r].id, IF status[prop[r].id] = "absent"
                               THEN <<"APPROVAL_REQUESTED">> ELSE <<>>)
    PROVE  Page'
<1> DEFINE a == prop[r].id
<1>0. PathTypes /\ a \in Actions /\ Runner(r) /\ pc[r] = "preflight"
  BY PathFacts DEF RequestApproval, PathTypes, Runner, PageInv
<1>1. /\ via[r] = "direct"
      /\ \/ status[a] = "absent" /\ status' = [status EXCEPT ![a] = "pending"]
         \/ status[a] # "absent" /\ status' = status
      /\ UNCHANGED <<seen, last>>
  BY <1>0 DEF RequestApproval, CreateOrGet, ReviewMode, PathTypes, journalVars
<1> SUFFICES ASSUME NEW b \in Browser PROVE Told(b)'
  BY DEF Page
<1>2. Told(b) /\ b \in Actions
  BY <1>0 DEF PageInv, Page, PathTypes
<1>3. CASE b # a
  <2>1. shown'[b] = shown[b] /\ status'[b] = status[b]
    BY <1>0, <1>1, <1>2, <1>3, Replayed DEF PathTypes
  <2> QED
    BY <1>1, <1>2, <2>1, ToldFrame DEF Ran
<1>4. CASE b = a
  <2>1. ~Ran(b) /\ last[b] = None /\ status[b] = "absent"
    BY <1>0, <1>1, <1>4 DEF PageInv, Paths, RunnerStands
  <2>2. "PROPOSED" \in seen[b]
    BY <1>0, <1>4 DEF PageInv, Paths, ProposedSeen
  <2>3. ~Unforeseen(b)
    BY <2>1, Foreseen DEF PageInv
  <2>4. shown[b] = "proposed"
    BY <1>2, <2>1, <2>2, <2>3 DEF Told
  <2>5. shown'[b] = Replay(shown[b], <<"APPROVAL_REQUESTED">>)
    BY <1>4, <2>1, Replayed
  <2>6. shown'[b] = "awaiting-approval"
    BY <2>4, <2>5, ReplayFacts, Turns
  <2>7. status'[b] = "pending"
    BY <1>0, <1>1, <1>4, <2>1 DEF PathTypes
  <2> QED
    BY <2>6, <2>7 DEF Told
<1> QED
  BY <1>3, <1>4

LEMMA DispatchPage ==
    ASSUME PageInv, Growth, NEW r \in Requests, Dispatch(r),
           Project(prop[r].id, <<"GOVERNANCE_APPROVED", "EXECUTION_REQUESTED">>)
    PROVE  Page'
<1> DEFINE a == prop[r].id
<1>0. PathTypes /\ a \in Actions /\ Runner(r) /\ pc[r] = "preflight"
  BY PathFacts DEF Dispatch, PathTypes, Runner, PageInv
<1>1. /\ seen' = [seen EXCEPT ![a] = @ \cup {"EXECUTION_REQUESTED"}]
      /\ UNCHANGED <<status, last>>
  BY DEF Dispatch, Emit, storeVars
<1> SUFFICES ASSUME NEW b \in Browser PROVE Told(b)'
  BY DEF Page
<1>2. Told(b) /\ b \in Actions
  BY <1>0 DEF PageInv, Page, PathTypes
<1>3. CASE b # a
  <2>1. shown'[b] = shown[b] /\ seen'[b] = seen[b]
    BY <1>0, <1>1, <1>2, <1>3, Replayed DEF PathTypes
  <2> QED
    BY <1>1, <1>2, <2>1, ToldFrame DEF Ran
<1>4. CASE b = a
  <2>1. ~Ran(b) /\ last[b] = None /\ (via[r] = "direct" => status[b] = "absent")
    BY <1>0, <1>4 DEF PageInv, Paths, RunnerStands
  <2>2. "PROPOSED" \in seen[b] /\ (via[r] = "approval" => status[b] = "executing")
    BY <1>0, <1>4 DEF PageInv, Paths, ProposedSeen, PathTypes
  <2>3. ~Unforeseen(b)
    BY <2>1, Foreseen DEF PageInv
  <2>4. shown[b] \in {"proposed", "queued"}
    BY <1>0, <1>2, <2>1, <2>2, <2>3 DEF Told, PathTypes
  <2>5. shown'[b] = "running"
    BY <1>4, <2>4, Replayed, ReplayFacts, Turns
  <2>6. Ran(b)' /\ "RECONCILIATION_REQUESTED" \notin seen[b]
    <3>1. Ran(b)'
      BY <1>0, <1>1, <1>2, <1>4 DEF Ran, PathTypes
    <3>2. "RECONCILIATION_REQUESTED" \notin seen[b]
      BY <2>1 DEF PageInv, Paths, ControlsReach, Marked
    <3> QED
      BY <3>1, <3>2
  <2>7. "RECONCILIATION_REQUESTED" \notin seen'[b]
    BY <1>0, <1>1, <1>2, <1>4, <2>6 DEF PathTypes
  <2> QED
    BY <1>1, <2>1, <2>5, <2>6, <2>7 DEF Told
<1> QED
  BY <1>3, <1>4

LEMMA DecidePage ==
    ASSUME PageInv, Growth, NEW r \in Requests, NEW a \in Actions, NEW approved \in BOOLEAN,
           Decide(r, a, approved), Project(a, DecisionEvents(a))
    PROVE  Page'
<1>0. PathTypes
  BY PathFacts DEF PageInv
<1>1. \/ UNCHANGED <<status, seen, last>> /\ status[a] # "rejected"
      \/ /\ status[a] = "pending" /\ status' = [status EXCEPT ![a] = "approved"]
         /\ UNCHANGED <<seen, last>>
      \/ \E type \in {"APPROVAL_EXPIRED", "APPROVAL_REJECTED"} :
            /\ status[a] \in {"pending", "rejected"}
            /\ status' = [status EXCEPT ![a] = status'[a]]
            /\ status[a] = "pending" /\ type = "APPROVAL_EXPIRED" => status'[a] = "expired"
            /\ status[a] = "pending" /\ type = "APPROVAL_REJECTED" => status'[a] = "rejected"
            /\ status[a] = "rejected" => status'[a] = "rejected" /\ type = "APPROVAL_REJECTED"
            /\ seen' = [seen EXCEPT ![a] = @ \cup {} \cup {type}]
            /\ last' = [last EXCEPT ![a] = type]
  <2>1. CASE status[a] = "pending" /\ expires[a] <= now
    BY <1>0, <2>1 DEF Decide, EmitTerminal, journalVars, PathTypes
  <2>2. CASE status[a] = "pending" /\ ~(expires[a] <= now)
    BY <1>0, <2>2 DEF Decide, EmitTerminal, journalVars, PathTypes
  <2>3. CASE status[a] = "rejected"
    BY <1>0, <2>3 DEF Decide, EmitTerminal, journalVars, PathTypes
  <2>4. CASE status[a] \notin {"pending", "rejected"}
    BY <1>0, <2>4 DEF Decide, EmitTerminal, journalVars, PathTypes
  <2> QED
    BY <2>1, <2>2, <2>3, <2>4
<1> SUFFICES ASSUME NEW b \in Browser PROVE Told(b)'
  BY DEF Page
<1>2. Told(b) /\ b \in Actions
  BY <1>0 DEF PageInv, Page, PathTypes
<1>3. CASE b # a
  <2>1. shown'[b] = shown[b] /\ status'[b] = status[b] /\ seen'[b] = seen[b] /\ last'[b] = last[b]
    BY <1>0, <1>1, <1>2, <1>3, Replayed DEF PathTypes
  <2> QED
    BY <1>2, <2>1, ToldFrame DEF Ran
<1>4. CASE b = a
  <2>0. shown'[b] = Replay(shown[b], DecisionEvents(a))
    BY <1>4, Replayed
  <2>1. CASE UNCHANGED <<status, seen, last>> /\ status[a] # "rejected"
    <3>1. DecisionEvents(a) = <<>>
      BY <2>1 DEF DecisionEvents
    <3>2. shown'[b] = shown[b]
      BY <2>0, <3>1, ReplayFacts
    <3> QED
      BY <1>2, <2>1, <3>2, ToldFrame DEF Ran
  <2>2. CASE /\ status[a] = "pending" /\ status' = [status EXCEPT ![a] = "approved"]
             /\ UNCHANGED <<seen, last>>
    <3>0. status'[a] = "approved"
      BY <1>0, <2>2 DEF PathTypes
    <3>1. DecisionEvents(a) = <<>>
      BY <3>0 DEF DecisionEvents
    <3>2. shown'[b] = shown[b]
      BY <2>0, <3>1, ReplayFacts
    <3> QED
      BY <1>2, <1>4, <2>2, <3>0, <3>2, ToldFrame DEF Ran
  <2>3. ASSUME NEW type \in {"APPROVAL_EXPIRED", "APPROVAL_REJECTED"},
               /\ status[a] \in {"pending", "rejected"}
               /\ status[a] = "pending" /\ type = "APPROVAL_EXPIRED" => status'[a] = "expired"
               /\ status[a] = "pending" /\ type = "APPROVAL_REJECTED" => status'[a] = "rejected"
               /\ status[a] = "rejected" => status'[a] = "rejected" /\ type = "APPROVAL_REJECTED"
               /\ last' = [last EXCEPT ![a] = type]
        PROVE  Told(b)'
    <3>1. DecisionEvents(a) = <<type>>
      BY <2>3 DEF DecisionEvents
    <3>2. shown'[b] = ProjectEvent(shown[b], type)
      BY <2>0, <3>1, ReplayFacts
    <3>3. last'[b] = type /\ type # None /\ ControlAnswer[type] = "rejected"
      BY <1>0, <1>4, <2>3, Answers, NoneIsNoEvent DEF PathTypes, TerminalTypes
    <3>4. "PROPOSED" \in seen[b] /\ ~Ran(b)
      BY <1>4, <2>3 DEF PageInv, Paths, Stages, Stage
    <3>5. CASE status[b] = "pending"
      <4>1. last[b] = None
        BY <3>5 DEF PageInv, Paths, Stages, Stage
      <4>2. ~Unforeseen(b)
        BY <3>4, <4>1, Foreseen DEF PageInv
      <4>3. shown[b] = "awaiting-approval"
        BY <1>2, <3>4, <3>5, <4>1, <4>2 DEF Told
      <4> QED
        BY <3>2, <3>3, <4>3, Turns DEF Told
    <3>6. CASE status[b] = "rejected"
      <4>1. last[b] \in {"APPROVAL_REJECTED", "APPROVAL_EXPIRED"} /\ last[b] # None
        BY <3>6, NoneIsNoEvent DEF PageInv, Paths, Stages, Stage, TerminalTypes
      <4>2. shown[b] = "rejected" \/ (shown[b] = "conflict" /\ Unforeseen(b))
        BY <1>2, <3>4, <3>6, <4>1, Answers DEF Told
      <4>3. shown'[b] = shown[b]
        BY <3>2, <4>2, SettledStays DEF SettledStates
      <4>4. CASE shown[b] = "rejected"
        BY <3>3, <4>3, <4>4 DEF Told
      <4>5. CASE shown[b] = "conflict" /\ Unforeseen(b)
        <5>1. last[b] \notin Refusals
          BY <4>1 DEF Refusals
        <5> QED
          BY <4>3, <4>5, <5>1, UnforeseenStays DEF Told
      <4> QED
        BY <4>2, <4>4, <4>5
    <3> QED
      BY <1>4, <2>3, <3>5, <3>6
  <2> QED
    BY <1>1, <2>1, <2>2, <2>3
<1> QED
  BY <1>3, <1>4

LEMMA ClaimPage ==
    ASSUME PageInv, Growth, NEW r \in Requests, Claim(r),
           Project(prop[r].id, <<"APPROVAL_APPROVED">>)
    PROVE  Page'
<1> DEFINE a == prop[r].id
<1>0. PathTypes /\ a \in Actions /\ pc[r] = "decided" /\ via[r] = "approval"
  BY PathFacts DEF Claim, PathTypes, PageInv, Paths, ViaFits
<1>1. /\ UNCHANGED <<last, via, prop>>
      /\ \/ status[a] = "approved" /\ status' = [status EXCEPT ![a] = "executing"]
            /\ seen' = [seen EXCEPT ![a] = @ \cup {"PROPOSED"}]
         \/ status[a] # "approved" /\ UNCHANGED <<status, seen>>
  BY DEF Claim, Emit, journalVars
<1> SUFFICES ASSUME NEW b \in Browser PROVE Told(b)'
  BY DEF Page
<1>2. Told(b) /\ b \in Actions
  BY <1>0 DEF PageInv, Page, PathTypes
<1>3. CASE b # a
  <2>1. shown'[b] = shown[b] /\ status'[b] = status[b] /\ seen'[b] = seen[b]
    BY <1>0, <1>1, <1>2, <1>3, Replayed DEF PathTypes
  <2> QED
    BY <1>1, <1>2, <2>1, ToldFrame DEF Ran
<1>4. CASE b = a
  <2>0. shown'[b] = ProjectEvent(shown[b], "APPROVAL_APPROVED")
    BY <1>4, Replayed, ReplayFacts
  <2>1. /\ status[b] \in {"approved", "executing", "consumed"}
        /\ "PROPOSED" \in seen[b]
    BY <1>0, <1>4 DEF PageInv, Paths, Stages, PathTypes
  <2>2. /\ Ran(b)' <=> Ran(b)
        /\ Marked(b)' <=> Marked(b)
        /\ "RECONCILIATION_REQUESTED" \in seen'[b] <=> "RECONCILIATION_REQUESTED" \in seen[b]
        /\ "PROPOSED" \in seen'[b]
    BY <1>0, <1>1, <1>2, <2>1 DEF Ran, Marked, PathTypes
  <2>3. status'[b] \in {"executing", "consumed"}
    BY <1>0, <1>1, <1>4, <2>1 DEF PathTypes
  <2>4. CASE last[b] # None /\ shown[b] = ControlAnswer[last[b]]
    <3>1. shown[b] \in SettledStates
      BY <1>0, <1>2, <2>4, Answers DEF PathTypes
    <3> QED
      BY <1>1, <2>0, <2>4, <3>1, SettledStays DEF Told
  <2>5. CASE shown[b] = "conflict" /\ Unforeseen(b)
    BY <1>1, <2>0, <2>5, SettledStays, UnforeseenStays DEF Told
  <2>6. CASE ~Ran(b) /\ last[b] = None
    <3>1. ~Unforeseen(b)
      BY <2>6, Foreseen DEF PageInv
    <3>2. shown[b] \in {"awaiting-approval", "queued"}
      BY <1>2, <2>1, <2>6, <3>1 DEF Told
    <3>3. shown'[b] = "queued"
      BY <2>0, <3>2, Turns
    <3> QED
      BY <1>1, <2>2, <2>3, <2>6, <3>3 DEF Told
  <2>7. CASE shown[b] \in {"running", "reconciling"} /\ Ran(b) /\ last[b] = None
    <3>1. shown'[b] = "conflict"
      BY <2>0, <2>7, Turns
    <3>2. PICK q \in Requests : Approves(q, b) /\ pc[q] \notin {"idle", "decided"}
      BY <2>1, <2>7 DEF PageInv, Paths, ExecutorKnown
    <3>3. Approves(q, b)' /\ Approves(r, b)' /\ q # r
      BY <1>0, <1>1, <1>4, <3>2 DEF Approves
    <3>4. Unforeseen(b)'
      BY <2>2, <2>7, <3>3 DEF Unforeseen, Ran
    <3> QED
      BY <3>1, <3>4 DEF Told
  <2> QED
    BY <1>2, <2>1, <2>4, <2>5, <2>6, <2>7 DEF Told, PageInv, Paths, Stages, Stage
<1> QED
  BY <1>3, <1>4

LEMMA BackendPage ==
    ASSUME PageInv, Growth, NEW r \in Requests, NEW ok \in BOOLEAN, BackendReturns(r, ok),
           Project(prop[r].id, IF last' = last THEN <<>> ELSE <<last'[prop[r].id]>>)
    PROVE  Page'
<1> DEFINE a == prop[r].id
<1>0. PathTypes /\ a \in Actions /\ Runner(r) /\ task[r] \in {"running", "cancelling"}
  BY PathFacts DEF BackendReturns, PathTypes, Runner, PageInv
<1>1. /\ UNCHANGED status
      /\ \/ seen' = [seen EXCEPT ![a] = @ \cup {"LATE_RESULT_DISCARDED"}] /\ UNCHANGED last
         \/ \E type \in {"COMPLETED", "FAILED"} :
               /\ last[a] # "CANCELED"
               /\ seen' = [seen EXCEPT ![a] = @ \cup {} \cup {type}]
               /\ last' = [last EXCEPT ![a] = type]
  BY DEF BackendReturns, Emit, EmitTerminal, IsLate, storeVars
<1> SUFFICES ASSUME NEW b \in Browser PROVE Told(b)'
  BY DEF Page
<1>2. Told(b) /\ b \in Actions
  BY <1>0 DEF PageInv, Page, PathTypes
<1>20. /\ Ran(b)' <=> Ran(b)
       /\ "PROPOSED" \in seen'[b] <=> "PROPOSED" \in seen[b]
       /\ "RECONCILIATION_REQUESTED" \in seen'[b] <=> "RECONCILIATION_REQUESTED" \in seen[b]
  BY <1>0, <1>1, <1>2 DEF Ran, PathTypes
<1>3. CASE b # a
  <2>1. shown'[b] = shown[b] /\ last'[b] = last[b]
    BY <1>0, <1>1, <1>2, <1>3, Replayed DEF PathTypes
  <2> QED
    BY <1>1, <1>2, <1>20, <2>1, ToldFrame
<1>4. CASE b = a /\ last' = last
  <2>1. shown'[b] = shown[b]
    BY <1>4, Replayed, ReplayFacts
  <2> QED
    BY <1>1, <1>2, <1>20, <1>4, <2>1, ToldFrame
<1>5. CASE b = a /\ last' # last
  <2>1. PICK type \in {"COMPLETED", "FAILED"} :
           last[b] # "CANCELED" /\ last' = [last EXCEPT ![b] = type]
    BY <1>1, <1>5
  <2>2. last'[b] = type /\ type # None
    BY <1>0, <1>2, <2>1, NoneIsNoEvent DEF PathTypes, TerminalTypes
  <2>3. shown'[b] = ProjectEvent(shown[b], type)
    BY <1>5, <2>2, Replayed, ReplayFacts
  <2>4. Ran(b) /\ last[b] = None
    BY <1>0, <1>5, <2>1 DEF PageInv, Paths, RunnerStands
  <2>5. "PROPOSED" \in seen[b] /\ status[b] \in {"absent", "executing", "consumed"}
    BY <2>4 DEF PageInv, Paths, Stages, Stage
  <2>6. shown[b] \in {"running", "reconciling"} \/ (shown[b] = "conflict" /\ Unforeseen(b))
    BY <1>2, <2>4, <2>5 DEF Told
  <2>7. CASE shown[b] \in {"running", "reconciling"}
    <3>1. shown'[b] = ControlAnswer[type]
      BY <2>1, <2>3, <2>7, Turns, Answers
    <3> QED
      BY <2>2, <3>1 DEF Told
  <2>8. CASE shown[b] = "conflict" /\ Unforeseen(b)
    <3>1. last[b] \notin Refusals
      BY <2>4, NoneIsNoEvent DEF Refusals, TerminalTypes
    <3> QED
      BY <2>3, <2>8, <3>1, SettledStays, UnforeseenStays DEF Told
  <2> QED
    BY <2>6, <2>7, <2>8
<1> QED
  BY <1>3, <1>4, <1>5

\* What the page can show of an execution that has not ended.
LEMMA OnTheRun ==
    ASSUME PageInv, NEW b \in Browser, Ran(b), last[b] = None
    PROVE  \/ shown[b] = "running" /\ "RECONCILIATION_REQUESTED" \notin seen[b]
           \/ shown[b] = "reconciling" /\ "RECONCILIATION_REQUESTED" \in seen[b]
           \/ shown[b] = "conflict" /\ Unforeseen(b)
<1>1. Told(b) /\ "PROPOSED" \in seen[b] /\ status[b] \in {"absent", "executing", "consumed"}
  BY DEF PageInv, Page, Paths, Stages, Stage
<1> QED
  BY <1>1 DEF Told

\* A remark leaves a running action running; a reconciling one has been asked
\* to cancel as well, which the order of receipts does not foresee.
LEMMA RemarkTold ==
    ASSUME PageInv, Growth, NEW b \in Browser, Ran(b), last[b] = None,
           Ran(b)', last'[b] = None, "CANCEL_INTENT_RECORDED" \in seen'[b],
           "RECONCILIATION_REQUESTED" \in seen'[b] => "RECONCILIATION_REQUESTED" \in seen[b],
           NEW e \in Remarks, NEW f \in Remarks,
           \/ shown'[b] = ProjectEvent(shown[b], e)
           \/ shown'[b] = ProjectEvent(ProjectEvent(shown[b], e), f)
    PROVE  Told(b)'
<1>1. "RECONCILIATION_REQUESTED" \in seen[b] => "RECONCILIATION_REQUESTED" \in seen'[b]
  BY ConstantsAssumption DEF Growth
<1>2. CASE shown[b] = "running" /\ "RECONCILIATION_REQUESTED" \notin seen[b]
  <2>1. shown'[b] = "running"
    BY <1>2, Turns
  <2> QED
    BY <1>2, <2>1 DEF Told
<1>3. CASE shown[b] = "reconciling" /\ "RECONCILIATION_REQUESTED" \in seen[b]
  <2>1. shown'[b] = "conflict"
    BY <1>3, Turns, SettledStays
  <2> QED
    BY <1>1, <1>3, <2>1 DEF Told, Unforeseen
<1>4. CASE shown[b] = "conflict" /\ Unforeseen(b)
  <2>1. shown'[b] = "conflict"
    BY <1>4, SettledStays
  <2> QED
    BY <1>4, <2>1, UnforeseenStays DEF Told
<1> QED
  BY <1>2, <1>3, <1>4, OnTheRun

LEMMA SupportPage ==
    ASSUME PageInv, Growth, NEW c \in Controls, CancelSupportChecked(c),
           Project(ctlOn[c],
             CASE ctl'[c] = "cancelling" -> <<"CANCEL_INTENT_RECORDED">>
               [] receipt'[c] = "unsupported" ->
                     <<"CANCEL_INTENT_RECORDED", "CANCEL_UNSUPPORTED">>
               [] OTHER -> <<>>)
    PROVE  Page'
<1> DEFINE events == CASE ctl'[c] = "cancelling" -> <<"CANCEL_INTENT_RECORDED">>
                       [] receipt'[c] = "unsupported" ->
                             <<"CANCEL_INTENT_RECORDED", "CANCEL_UNSUPPORTED">>
                       [] OTHER -> <<>>
<1>0. /\ PathTypes /\ ctl \in [Controls -> {"idle", "checking", "cancelling", "done", "lost"}]
      /\ receipt \in [Controls -> {"none", "conflict", "unsupported", "canceled",
                                   "not-confirmed", "terminal", "replayed"}]
  BY PathFacts DEF PageInv, SafetyInv, TypeInv, TypeOK, ControlType
<1>1. /\ UNCHANGED <<status, last>> /\ ctl[c] = "checking"
      /\ \/ /\ UNCHANGED seen /\ ctl' = [ctl EXCEPT ![c] = "done"]
            /\ receipt' = [receipt EXCEPT ![c] = "conflict"]
         \/ /\ last[ctlOn[c]] = None
            /\ seen' = [seen EXCEPT ![ctlOn[c]] = @ \cup {"CANCEL_INTENT_RECORDED"}]
            /\ \/ ctl' = [ctl EXCEPT ![c] = "cancelling"]
               \/ /\ ctl' = [ctl EXCEPT ![c] = "done"]
                  /\ receipt' = [receipt EXCEPT ![c] = "unsupported"]
  BY DEF CancelSupportChecked, FinishControl, Emit, storeVars, journalVars
<1>2. ctlOn[c] \in Browser /\ Ran(ctlOn[c])
  BY <1>1 DEF PageInv, Paths, ControlsReach
<1> SUFFICES ASSUME NEW b \in Browser PROVE Told(b)'
  BY DEF Page
<1>3. Told(b) /\ b \in Actions
  BY <1>0 DEF PageInv, Page, PathTypes
<1>4. shown'[b] = IF b = ctlOn[c] THEN Replay(shown[b], events) ELSE shown[b]
  BY Replayed
<1>5. CASE UNCHANGED seen /\ ctl'[c] = "done" /\ receipt'[c] = "conflict"
  <2>1. events = <<>>
    BY <1>5
  <2>2. shown'[b] = shown[b]
    BY <1>4, <2>1, ReplayFacts
  <2> QED
    BY <1>1, <1>3, <1>5, <2>2, ToldFrame DEF Ran
<1>6. CASE b # ctlOn[c]
  <2>1. seen'[b] = seen[b] /\ shown'[b] = shown[b]
    BY <1>0, <1>1, <1>2, <1>3, <1>4, <1>6 DEF PathTypes
  <2> QED
    BY <1>1, <1>3, <2>1, ToldFrame DEF Ran
<1>7. CASE /\ b = ctlOn[c] /\ last[b] = None
           /\ seen' = [seen EXCEPT ![b] = @ \cup {"CANCEL_INTENT_RECORDED"}]
           /\ ctl'[c] = "cancelling" \/ (ctl'[c] = "done" /\ receipt'[c] = "unsupported")
  <2>1. \/ events = <<"CANCEL_INTENT_RECORDED">>
        \/ events = <<"CANCEL_INTENT_RECORDED", "CANCEL_UNSUPPORTED">>
    BY <1>7
  <2>2. \/ shown'[b] = ProjectEvent(shown[b], "CANCEL_INTENT_RECORDED")
        \/ shown'[b] = ProjectEvent(ProjectEvent(shown[b], "CANCEL_INTENT_RECORDED"),
                                    "CANCEL_UNSUPPORTED")
    BY <1>4, <1>7, <2>1, ReplayFacts
  <2>3. /\ Ran(b) /\ Ran(b)' /\ last'[b] = None /\ "CANCEL_INTENT_RECORDED" \in seen'[b]
        /\ "RECONCILIATION_REQUESTED" \in seen'[b] => "RECONCILIATION_REQUESTED" \in seen[b]
    BY <1>0, <1>1, <1>2, <1>3, <1>7 DEF Ran, PathTypes
  <2>4. "CANCEL_INTENT_RECORDED" \in Remarks /\ "CANCEL_UNSUPPORTED" \in Remarks
    BY DEF Remarks
  <2> QED
    BY <1>7, <2>2, <2>3, <2>4, RemarkTold
<1> QED
  <2> HIDE DEF events
  <2>1. \/ UNCHANGED seen /\ ctl'[c] = "done" /\ receipt'[c] = "conflict"
        \/ /\ last[ctlOn[c]] = None
           /\ seen' = [seen EXCEPT ![ctlOn[c]] = @ \cup {"CANCEL_INTENT_RECORDED"}]
           /\ ctl'[c] = "cancelling" \/ (ctl'[c] = "done" /\ receipt'[c] = "unsupported")
    BY <1>0, <1>1
  <2> QED
    BY <2>1, <1>5, <1>6, <1>7

LEMMA AnsweredPage ==
    ASSUME PageInv, Growth, NEW c \in Controls, NEW ok \in BOOLEAN, CancelAnswered(c, ok),
           Project(ctlOn[c],
             CASE receipt'[c] = "canceled" -> <<"CANCEL_REQUESTED", "CANCELED">>
               [] receipt'[c] = "not-confirmed" -> <<"CANCEL_NOT_CONFIRMED">>
               [] OTHER -> <<>>)
    PROVE  Page'
<1> DEFINE events == CASE receipt'[c] = "canceled" -> <<"CANCEL_REQUESTED", "CANCELED">>
                       [] receipt'[c] = "not-confirmed" -> <<"CANCEL_NOT_CONFIRMED">>
                       [] OTHER -> <<>>
<1>0. /\ PathTypes
      /\ receipt \in [Controls -> {"none", "conflict", "unsupported", "canceled",
                                   "not-confirmed", "terminal", "replayed"}]
  BY PathFacts DEF PageInv, SafetyInv, TypeInv, TypeOK, ControlType
<1>1. /\ UNCHANGED status /\ ctl[c] = "cancelling"
      /\ \/ UNCHANGED <<seen, last>> /\ receipt'[c] = "terminal"
         \/ /\ UNCHANGED <<seen, last>> /\ last[ctlOn[c]] = None
            /\ receipt'[c] = "not-confirmed"
         \/ /\ last[ctlOn[c]] = None
            /\ seen' = [seen EXCEPT ![ctlOn[c]] = @ \cup {} \cup {"CANCELED"}]
            /\ last' = [last EXCEPT ![ctlOn[c]] = "CANCELED"]
            /\ receipt'[c] = "canceled"
  BY <1>0 DEF CancelAnswered, FinishControl, EmitTerminal, storeVars, journalVars
<1>2. /\ ctlOn[c] \in Browser /\ Ran(ctlOn[c])
      /\ "CANCEL_INTENT_RECORDED" \in seen[ctlOn[c]]
  BY <1>1 DEF PageInv, Paths, ControlsReach
<1> SUFFICES ASSUME NEW b \in Browser PROVE Told(b)'
  BY DEF Page
<1>3. Told(b) /\ b \in Actions
  BY <1>0 DEF PageInv, Page, PathTypes
<1>4. shown'[b] = IF b = ctlOn[c] THEN Replay(shown[b], events) ELSE shown[b]
  BY Replayed
<1>5. CASE b # ctlOn[c]
  <2>1. seen'[b] = seen[b] /\ last'[b] = last[b] /\ shown'[b] = shown[b]
    BY <1>0, <1>1, <1>2, <1>3, <1>4, <1>5 DEF PathTypes
  <2> QED
    BY <1>1, <1>3, <2>1, ToldFrame DEF Ran
<1>6. CASE b = ctlOn[c] /\ UNCHANGED <<seen, last>> /\ receipt'[c] = "terminal"
  <2>1. events = <<>>
    BY <1>6
  <2>2. shown'[b] = shown[b]
    BY <1>4, <2>1, ReplayFacts
  <2> QED
    BY <1>1, <1>3, <1>6, <2>2, ToldFrame DEF Ran
<1>7. CASE /\ b = ctlOn[c] /\ UNCHANGED <<seen, last>> /\ last[b] = None
           /\ receipt'[c] = "not-confirmed"
  <2>1. events = <<"CANCEL_NOT_CONFIRMED">>
    BY <1>7
  <2>2. shown'[b] = ProjectEvent(shown[b], "CANCEL_NOT_CONFIRMED")
    BY <1>4, <1>7, <2>1, ReplayFacts
  <2>3. Ran(b) /\ Ran(b)' /\ "CANCEL_INTENT_RECORDED" \in seen'[b]
    BY <1>2, <1>7 DEF Ran
  <2>4. "CANCEL_NOT_CONFIRMED" \in Remarks
    BY DEF Remarks
  <2> QED
    BY <1>7, <2>2, <2>3, <2>4, RemarkTold
<1>8. CASE /\ b = ctlOn[c] /\ last[b] = None /\ last' = [last EXCEPT ![b] = "CANCELED"]
           /\ receipt'[c] = "canceled"
  <2>1. events = <<"CANCEL_REQUESTED", "CANCELED">>
    BY <1>8
  <2>2. shown'[b] = ProjectEvent(ProjectEvent(shown[b], "CANCEL_REQUESTED"), "CANCELED")
    BY <1>4, <1>8, <2>1, ReplayFacts
  <2>3. last'[b] = "CANCELED" /\ "CANCELED" # None
    BY <1>0, <1>3, <1>8, NoneIsNoEvent DEF PathTypes, TerminalTypes
  <2>4. Ran(b) /\ "CANCEL_INTENT_RECORDED" \in seen[b]
    BY <1>2, <1>8
  <2>5. CASE shown[b] = "running"
    <3>1. shown'[b] = "canceled"
      BY <2>2, <2>5, Turns
    <3> QED
      BY <2>3, <3>1, Answers DEF Told
  <2>6. CASE shown[b] = "reconciling" /\ "RECONCILIATION_REQUESTED" \in seen[b]
    <3>1. shown'[b] = "conflict"
      BY <2>2, <2>6, Turns, SettledStays
    <3>2. Unforeseen(b)
      BY <2>4, <2>6 DEF Unforeseen
    <3>3. last[b] \notin Refusals
      BY <1>8, NoneIsNoEvent DEF Refusals, TerminalTypes
    <3> QED
      BY <3>1, <3>2, <3>3, UnforeseenStays DEF Told
  <2>7. CASE shown[b] = "conflict" /\ Unforeseen(b)
    <3>1. shown'[b] = "conflict"
      BY <2>2, <2>7, SettledStays
    <3>2. last[b] \notin Refusals
      BY <1>8, NoneIsNoEvent DEF Refusals, TerminalTypes
    <3> QED
      BY <2>7, <3>1, <3>2, UnforeseenStays DEF Told
  <2> QED
    BY <1>8, <2>4, <2>5, <2>6, <2>7, OnTheRun
<1> QED
  <2> HIDE DEF events
  <2> QED
    BY <1>1, <1>5, <1>6, <1>7, <1>8

LEMMA ReconcilePage ==
    ASSUME PageInv, Growth, NEW c \in Controls, NEW i \in ControlIds, NEW a \in Browser,
           ReconcileAction(c, i, a),
           Project(a, IF seen' = seen THEN <<>> ELSE <<"RECONCILIATION_REQUESTED">>)
    PROVE  Page'
<1>0. PathTypes
  BY PathFacts DEF PageInv
<1>1. /\ UNCHANGED <<status, last>>
      /\ \/ UNCHANGED seen
         \/ /\ "RECONCILIATION_REQUESTED" \notin seen[a] /\ last[a] = None /\ Ran(a)
            /\ seen' = [seen EXCEPT ![a] = @ \cup {"RECONCILIATION_REQUESTED"}]
  BY DEF ReconcileAction, Emit, storeVars, journalVars, Ran
<1> SUFFICES ASSUME NEW b \in Browser PROVE Told(b)'
  BY DEF Page
<1>2. Told(b) /\ b \in Actions
  BY <1>0 DEF PageInv, Page, PathTypes
<1>3. CASE seen' = seen
  <2>1. shown'[b] = shown[b]
    BY <1>3, Replayed, ReplayFacts
  <2> QED
    BY <1>1, <1>2, <1>3, <2>1, ToldFrame DEF Ran
<1>4. CASE b # a
  <2>1. seen'[b] = seen[b] /\ shown'[b] = shown[b]
    BY <1>0, <1>1, <1>2, <1>4, Replayed DEF PathTypes
  <2> QED
    BY <1>1, <1>2, <2>1, ToldFrame DEF Ran
<1>5. CASE b = a /\ seen' # seen
  <2>1. shown'[b] = ProjectEvent(shown[b], "RECONCILIATION_REQUESTED")
    BY <1>5, Replayed, ReplayFacts
  <2>2. Ran(b) /\ last[b] = None /\ "RECONCILIATION_REQUESTED" \notin seen[b]
    BY <1>1, <1>5
  <2>3. Ran(b)' /\ "RECONCILIATION_REQUESTED" \in seen'[b]
    BY <1>0, <1>1, <1>2, <1>5 DEF Ran, PathTypes
  <2>4. CASE shown[b] = "running"
    <3>1. shown'[b] = "reconciling"
      BY <2>1, <2>4, Turns
    <3> QED
      BY <1>1, <2>2, <2>3, <3>1 DEF Told
  <2>5. CASE shown[b] = "conflict" /\ Unforeseen(b)
    <3>1. shown'[b] = "conflict"
      BY <2>1, <2>5, SettledStays
    <3> QED
      BY <1>1, <2>5, <3>1, UnforeseenStays DEF Told
  <2> QED
    BY <2>2, <2>4, <2>5, OnTheRun
<1> QED
  BY <1>3, <1>4, <1>5

LEMMA SweepPage ==
    ASSUME PageInv, Growth, SweepSteps
    PROVE  Page'
<1>0. PathTypes
  BY PathFacts DEF PageInv
<1> SUFFICES ASSUME NEW b \in Browser PROVE Told(b)'
  BY DEF Page
<1>1. Told(b) /\ b \in Actions
  BY <1>0 DEF PageInv, Page, PathTypes
<1>2. CASE b \notin DueRows
  <2>1. shown'[b] = shown[b] /\ status'[b] = status[b] /\ seen'[b] = seen[b] /\ last'[b] = last[b]
    BY <1>1, <1>2 DEF SweepSteps, SweepExpired
  <2> QED
    BY <1>1, <2>1, ToldFrame DEF Ran
<1>3. CASE b \in DueRows
  <2>1. /\ shown'[b] = ProjectEvent(shown[b], "APPROVAL_EXPIRED")
        /\ status[b] = "pending" /\ last'[b] = "APPROVAL_EXPIRED"
    BY <1>1, <1>3 DEF SweepSteps, SweepExpired, DueRows
  <2>2. ~Ran(b) /\ last[b] = None /\ "PROPOSED" \in seen[b]
    BY <2>1 DEF PageInv, Paths, Stages, Stage
  <2>3. ~Unforeseen(b)
    BY <2>2, Foreseen DEF PageInv
  <2>4. shown[b] = "awaiting-approval"
    BY <1>1, <2>1, <2>2, <2>3 DEF Told
  <2>5. shown'[b] = ControlAnswer["APPROVAL_EXPIRED"] /\ "APPROVAL_EXPIRED" # None
    BY <2>1, <2>4, Turns, Answers, NoneIsNoEvent DEF TerminalTypes
  <2> QED
    BY <2>1, <2>5 DEF Told
<1> QED
  BY <1>2, <1>3

LEMMA PageStep ==
    ASSUME PageInv, Growth, [BrowserNext]_browserVars
    PROVE  Page'
<1>0. PathTypes
  BY PathFacts DEF PageInv
<1>1. ASSUME NEW r \in Requests, ExecuteSteps(r)
      PROVE  Page'
  <2>1. PreflightFails(r) => Refuse(r, "PREFLIGHT_FAILED", "preflight-failed")
    BY DEF PreflightFails, Refuse
  <2>2. RetryBlocked(r) => Refuse(r, "RETRY_BLOCKED", "retry-blocked")
    BY DEF RetryBlocked, Refuse
  <2>3. Denied(r) => Refuse(r, "GOVERNANCE_REJECTED", "denied")
    BY DEF Denied, Refuse
  <2>4. {"GOVERNANCE_REJECTED", "RETRY_BLOCKED", "PREFLIGHT_FAILED"} = Refusals
    BY DEF Refusals
  <2>5. CASE \/ PreflightFails(r) /\ Project(prop[r].id, <<"PREFLIGHT_FAILED">>)
             \/ RetryBlocked(r) /\ Project(prop[r].id, <<"RETRY_BLOCKED">>)
             \/ Denied(r) /\ Project(prop[r].id, <<"GOVERNANCE_REJECTED">>)
    BY <2>1, <2>2, <2>3, <2>4, <2>5, RefusePage
  <2>6. CASE (WaiterResumes(r) \/ TaskCancelled(r) \/ DropWaiter(r)) /\ UNCHANGED shown
    <3>1. /\ UNCHANGED <<last, seen>>
          /\ \/ UNCHANGED status
             \/ /\ status[prop[r].id] = "executing"
                /\ status' = [status EXCEPT ![prop[r].id] = "consumed"]
      BY <2>6 DEF WaiterResumes, Return, TaskCancelled, DropWaiter, storeVars, journalVars
    <3>2. \A b \in Browser : \/ status'[b] = status[b]
                             \/ status[b] = "executing" /\ status'[b] = "consumed"
      BY <1>0, <3>1 DEF PathTypes
    <3> QED
      BY <2>6, <3>1, <3>2, QuietPage
  <2>7. CASE \E p \in Proposals : Propose(r, p) /\ Project(p.id, <<"PROPOSED">>)
    BY <2>7, ProposePage
  <2>8. CASE /\ \E ok \in BOOLEAN : BackendReturns(r, ok)
             /\ Project(prop[r].id, IF last' = last THEN <<>> ELSE <<last'[prop[r].id]>>)
    BY <2>8, BackendPage
  <2>9. CASE /\ RequestApproval(r)
             /\ Project(prop[r].id, IF status[prop[r].id] = "absent"
                                    THEN <<"APPROVAL_REQUESTED">> ELSE <<>>)
    BY <2>9, RequestApprovalPage
  <2>10. CASE Dispatch(r) /\ Project(prop[r].id, <<"GOVERNANCE_APPROVED", "EXECUTION_REQUESTED">>)
    BY <2>10, DispatchPage
  <2> QED
    BY <1>1, <2>5, <2>6, <2>7, <2>8, <2>9, <2>10 DEF ExecuteSteps
<1>2. ASSUME NEW r \in Requests, ApprovalSteps(r)
      PROVE  Page'
  BY <1>2, DecidePage, ClaimPage DEF ApprovalSteps
<1>3. ASSUME NEW c \in Controls, ControlSteps(c)
      PROVE  Page'
  <2>1. CASE \E i \in ControlIds, a \in Browser :
                (ReplayControl(c, i, a) \/ CancelAction(c, i, a)) /\ UNCHANGED shown
    <3>1. UNCHANGED <<last, seen, status>>
      BY <2>1 DEF ReplayControl, CancelAction, storeVars, journalVars
    <3> QED
      BY <2>1, <3>1, QuietPage
  <2> QED
    BY <1>3, <2>1, ReconcilePage, SupportPage, AnsweredPage DEF ControlSteps
<1>4. CASE (Tick \/ Crash) /\ UNCHANGED shown
  BY <1>4, QuietPage DEF Tick, Crash, storeVars, journalVars
<1>5. CASE UNCHANGED browserVars
  BY <1>5, QuietPage DEF browserVars, vars, storeVars, journalVars
<1> QED
  BY <1>1, <1>2, <1>3, <1>4, <1>5, SweepPage DEF BrowserNext

\* The page of BrowserSenseActionProjector and the controls of the action path
\* (_terminal_control_receipt) agree on what is settled and how, whatever the
\* policy, the requests, the controls and the faults.
THEOREM PageIsTruthful == BrowserSpec => []PageAgrees
<1>1. BrowserInit => Page
  BY ConstantsAssumption DEF BrowserInit, Init, Page, Told
<1>2. SafetyInv /\ Paths /\ Page /\ [BrowserNext]_browserVars => Page'
  <2> SUFFICES ASSUME SafetyInv, Paths, Page, [BrowserNext]_browserVars PROVE Page'
    OBVIOUS
  <2>1. Growth
    BY WatchedSteps, PathsStep
  <2> QED
    BY <2>1, PageStep DEF PageInv
<1>3. SafetyInv /\ Paths /\ Page => PageAgrees
  <2> SUFFICES ASSUME SafetyInv, Paths, Page, NEW a \in Browser
               PROVE  CASE shown[a] = "conflict" -> Unforeseen(a)
                        [] shown[a] \in SettledStates ->
                                last[a] # None /\ shown[a] = ControlAnswer[last[a]]
                        [] OTHER -> last[a] = None
    BY DEF PageAgrees
  <2>1. Told(a) /\ last[a] \in TerminalTypes \cup {None}
    BY PathFacts DEF Page, PathTypes
  <2>2. "PROPOSED" \notin seen[a] \/ status[a] \in {"pending", "approved"} => last[a] = None
    BY DEF Paths, Stages, Stage
  <2>3. last[a] # None /\ shown[a] = ControlAnswer[last[a]] => shown[a] \in SettledStates
    BY <2>1, Answers
  <2> QED
    BY <2>1, <2>2, <2>3 DEF Told, SettledStates
<1> QED
  BY <1>1, <1>2, <1>3, PageOnlyWatches, PathsInvariant, PTL DEF BrowserSpec
=============================================================================
