--------------------------- MODULE ApcbDispatcher ---------------------------
(***************************************************************************)
(* The Aether principal coordination bridge (APCB) of Aether core:         *)
(*   aether/apcb/receipt_store.py   ReceiptStore, an append-only JSONL log *)
(*   aether/apcb/dispatcher.py      APCBDispatcher.dispatch and reconcile  *)
(*   aether/apcb/eligibility.py, conformance.py   the gates of a dispatch  *)
(*   aether/apcb/herdr_adapter.py   what the bridge sees of a Herdr pane   *)
(*                                                                         *)
(* One bridge serves the work items of one mission.  A dispatch blocks the *)
(* bridge from the claim to the recorded outcome and may stop between any  *)
(* two writes; a receipt that is already there is reconciled instead.      *)
(* Receipts of other missions have other keys and do not meet these.  The  *)
(* panes belong to Herdr, an external program, and are modelled by what    *)
(* the adapter can observe of them.                                        *)
(***************************************************************************)
EXTENDS Naturals, FiniteSets

CONSTANTS
    Works,        \* work_id
    Principals,   \* principal_id; the pane map binds each to its own pane
    Attempts,     \* attempt_number, a set of positive numbers
    PaneSend,     \* principals whose agent Herdr cannot observe
    ArtifactGate, \* is artifact_verify wired
    TornWrites,   \* may the process stop in the middle of an append
    ObserverErrors, \* may the mission store fail to be read
    MissionEnds,  \* how the mission may end
    None

ASSUME ApcbAssumption ==
    /\ Attempts \subseteq Nat \ {0}
    /\ PaneSend \subseteq Principals
    /\ {ArtifactGate, TornWrites, ObserverErrors} \subseteq BOOLEAN
    /\ MissionEnds \subseteq {"completed", "failed", "cancelled", "stopped"}

\* ReceiptIdempotencyKey, within one mission.
Keys == [work : Works, attempt : Attempts, principal : Principals]

VARIABLES
    index,     \* ReceiptStore._receipts
    disk,      \* the receipts that _recompute_from_log would read
    torn,      \* the log ends in the middle of a record
    notes,     \* keys with a reconcile_artifact_found note
    cur, pc,   \* the key of the dispatch in progress, and where it is
    pane,      \* agent_status of each principal's pane
    task,      \* the key that agent was last prompted with
    artifact,  \* the key in the envelope of a work item's expected artifact
    mission,   \* the status of the mission: "running", or how it ended
    prompts    \* how often each key was sent to Herdr

storeVars == <<index, disk, torn, notes>>
dispatchVars == <<cur, pc>>
herdrVars == <<pane, task, artifact, prompts>>
vars == <<storeVars, dispatchVars, herdrVars, mission>>

Definitive == {"completed", "failed", "blocked", "stopped", "rejected"}
Outcomes == Definitive \cup {"unknown", "completed_without_artifact", "none"}
States == {"claimed", "herdr_attached", "prompted", "reconciling", "terminal"}
Receipt == [state : States, ref : BOOLEAN, outcome : Outcomes]
ASSUME NoneAssumption == None \notin Keys /\ None \notin Receipt

AgentStatus == {"idle", "working", "done", "blocked", "missing"}

TypeOK ==
    /\ index \in [Keys -> Receipt \cup {None}]
    /\ disk \in [Keys -> Receipt \cup {None}]
    /\ torn \in BOOLEAN
    /\ notes \subseteq Keys
    /\ cur \in Keys \cup {None}
    /\ pc \in {"idle", "claimed", "attached", "sent", "waiting"}
    /\ (cur = None) <=> (pc = "idle")
    /\ pane \in [Principals -> AgentStatus]
    /\ task \in [Principals -> Keys \cup {None}]
    /\ artifact \in [Works -> Keys \cup {None}]
    /\ mission \in {"running"} \cup MissionEnds
    /\ prompts \in [Keys -> Nat]

\* An empty log; the panes exist, and an agent may show the end of work
\* that it did before the bridge came up.
Init ==
    /\ index = [k \in Keys |-> None] /\ disk = index
    /\ torn = FALSE /\ notes = {}
    /\ cur = None /\ pc = "idle"
    /\ pane \in [Principals -> {"idle", "done"}]
    /\ task = [p \in Principals |-> None]
    /\ artifact = [w \in Works |-> None]
    /\ mission = "running"
    /\ prompts = [k \in Keys |-> 0]

-----------------------------------------------------------------------------
(* The receipt store. *)

IsTerminal(r) == r # None /\ r.state = "terminal"
Closed(r) == IsTerminal(r) /\ r.outcome \in Definitive

\* A second definitive terminal raises DuplicateTerminalError and writes
\* nothing.  A record that is appended to a torn line cannot be parsed by
\* the next process, but this one has it in its index.
Persist(k, r) ==
    IF Closed(r) /\ Closed(index[k])
    THEN UNCHANGED <<index, disk, torn>>
    ELSE /\ index' = [index EXCEPT ![k] = r]
         /\ disk' = IF torn THEN disk ELSE [disk EXCEPT ![k] = r]
         /\ torn' = FALSE

\* update: a new snapshot in which an outcome that is not given is kept.
Moved(r, state) == [r EXCEPT !.state = state]
Ended(r, outcome) == [r EXCEPT !.state = "terminal", !.outcome = outcome]

\* latest_for_work: a receipt of the highest attempt; of two principals
\* with the same attempt, either.
Latest(w) ==
    {k \in Keys : /\ k.work = w /\ index[k] # None
                  /\ \A j \in Keys : j.work = w /\ index[j] # None => j.attempt <= k.attempt}

HasActiveAttempt(w, p) ==
    \E k \in Keys : /\ k.work = w /\ k.principal = p
                    /\ index[k] # None /\ ~IsTerminal(index[k])

-----------------------------------------------------------------------------
(* dispatch, one step for each durable write and each call of Herdr. *)

\* Of the eight conditions of eligibility only no_active_attempt is the
\* bridge's own; a work item that fails another one, or the workspace check,
\* leaves no trace.
Eligible(k) == ~HasActiveAttempt(k.work, k.principal)

\* The gates before the claim.  explicit says that the work item carries
\* needs_reconcile or an approval_id.
Dispatchable(k, explicit) ==
    /\ cur = None
    /\ index[k] = None
    /\ \/ Latest(k.work) = {}
       \/ \E j \in Latest(k.work) : IsTerminal(index[j]) => j.attempt < k.attempt /\ explicit
    /\ Eligible(k)

Claim(k, explicit) ==
    /\ Dispatchable(k, explicit)
    /\ Persist(k, [state |-> "claimed", ref |-> FALSE, outcome |-> "none"])
    /\ cur' = k /\ pc' = "claimed"
    /\ UNCHANGED <<notes, herdrVars, mission>>

\* Conformance fails after eligibility: a durable rejection.
RejectNonconforming(k, explicit) ==
    /\ Dispatchable(k, explicit)
    /\ Persist(k, [state |-> "terminal", ref |-> FALSE, outcome |-> "rejected"])
    /\ UNCHANGED <<notes, dispatchVars, herdrVars, mission>>

\* Mutant: the reference is kept in memory until the prompt is sent.
AttachUnrecorded ==
    /\ pc = "claimed"
    /\ pc' = "attached"
    /\ UNCHANGED <<storeVars, cur, herdrVars, mission>>

\* ensure_agent answers an opaque reference, which is recorded.
Attach ==
    /\ pc = "claimed"
    /\ Persist(cur, [state |-> "herdr_attached", ref |-> TRUE, outcome |-> "none"])
    /\ pc' = "attached"
    /\ UNCHANGED <<notes, cur, herdrVars, mission>>

\* The prompt reaches the pane and its agent starts to work.
Delivered(k) ==
    /\ pane[k.principal] # "missing"
    /\ pane' = [pane EXCEPT ![k.principal] = "working"]
    /\ task' = [task EXCEPT ![k.principal] = k]
    /\ prompts' = [prompts EXCEPT ![k] = @ + 1]
    /\ UNCHANGED artifact

\* Mutant: a prompt whose answer is lost is sent again.
PromptAgentRetried ==
    /\ pc = "attached"
    /\ Delivered(cur)
    /\ pc' \in {"sent", "attached"}
    /\ UNCHANGED <<storeVars, cur, mission>>

PromptAgent ==
    /\ pc = "attached"
    /\ Delivered(cur)
    /\ pc' = "sent"
    /\ UNCHANGED <<storeVars, cur, mission>>

RecordPrompted ==
    /\ pc = "sent"
    /\ Persist(cur, Moved(index[cur], "prompted"))
    /\ pc' = "waiting"
    /\ UNCHANGED <<notes, cur, herdrVars, mission>>

\* What observe_agent can report of a pane, and whether it is terminal.  A
\* missing agent is reported with what Herdr wrote on stderr, maybe nothing.
Observed(p) == IF p \in PaneSend THEN {"unknown"} ELSE {pane[p], "unknown"}
TerminalStatus == {"done", "blocked", "missing"}

\* wait_agent returns a terminal status or idle; at the deadline it returns
\* unknown, whatever the last poll saw.
Awaited(p) == (Observed(p) \ {"working"}) \cup {"unknown"}

OutcomeFromObservation(status) ==
    CASE status = "done"    -> {"completed"}
      [] status = "blocked" -> {"blocked"}
      [] status = "missing" -> {"failed", "unknown"}
      [] OTHER              -> {"unknown"}

\* artifact_verify: the file exists and its envelope names this very key.
ArtifactPresent(k) == artifact[k.work] = k

\* The artifact decides between completed and not, when the gate is wired.
ArtifactDecides(outcome, present) ==
    CASE ~ArtifactGate -> outcome
      [] ArtifactGate /\ outcome = "completed" /\ ~present -> "completed_without_artifact"
      [] ArtifactGate /\ outcome \in {"failed", "unknown"} /\ present -> "completed"
      [] OTHER -> outcome

Finish ==
    /\ pc = "waiting"
    /\ \E status \in Awaited(cur.principal) : \E o \in OutcomeFromObservation(status) :
          Persist(cur, Ended(index[cur], ArtifactDecides(o, ArtifactPresent(cur))))
    /\ cur' = None /\ pc' = "idle"
    /\ UNCHANGED <<notes, herdrVars, mission>>

\* A call of Herdr raises: no pane for the principal, a command that fails
\* or times out.  A prompt that fails may have been delivered.
DispatchFails ==
    /\ pc \in {"claimed", "attached", "waiting"}
    /\ Persist(cur, Ended(index[cur], "failed"))
    /\ cur' = None /\ pc' = "idle"
    /\ \/ UNCHANGED herdrVars
       \/ pc = "attached" /\ Delivered(cur)
    /\ UNCHANGED <<notes, mission>>

-----------------------------------------------------------------------------
(* reconcile, for a key that has a receipt. *)

\* The early return: closed for good, or an outcome that only an artifact
\* gate could still change.
Settled(r) ==
    /\ IsTerminal(r) /\ r.outcome # "unknown"
    /\ ~(ArtifactGate /\ r.outcome \in {"failed", "completed_without_artifact"})

Reconcilable(k) == cur = None /\ index[k] # None /\ ~Settled(index[k])

\* What reconcile takes for the end of the mission; a status that cannot be
\* read is reported as unknown, which is not an end.
SeenOver == mission \in {"completed", "failed", "cancelled"}
SeenOpen == ~SeenOver \/ ObserverErrors

\* Mutant: only an attached receipt is stopped.
ReconcileStopsAttached(k) ==
    /\ Reconcilable(k) /\ SeenOver
    /\ ~IsTerminal(index[k]) /\ index[k].ref
    /\ Persist(k, Ended(index[k], "stopped"))
    /\ UNCHANGED <<notes, dispatchVars, herdrVars, mission>>

\* The mission is terminal: stop what is open, promote nothing.
ReconcileStops(k) ==
    /\ Reconcilable(k) /\ SeenOver
    /\ ~IsTerminal(index[k]) \/ index[k].outcome = "unknown"
    /\ Persist(k, Ended(index[k], "stopped"))
    /\ UNCHANGED <<notes, dispatchVars, herdrVars, mission>>

ArtifactFound(k) ==
    /\ ArtifactGate /\ ArtifactPresent(k)
    /\ IsTerminal(index[k])
    /\ index[k].outcome \in {"failed", "unknown", "completed_without_artifact"}

\* Delivered with evidence: a durable note, the receipt stays as it is.
ReconcileNotes(k) ==
    /\ Reconcilable(k) /\ SeenOpen /\ ArtifactFound(k)
    /\ notes' = notes \cup {k}
    /\ UNCHANGED <<index, disk, torn, dispatchVars, herdrVars, mission>>

\* Mutant: a failed receipt without its artifact is observed once more.
ObservableAgain(k) ==
    /\ Reconcilable(k) /\ SeenOpen /\ ~ArtifactFound(k)
    /\ index[k].ref

\* Open, or terminal with an unknown outcome: ask Herdr.  A receipt without
\* a reference is refused before that.
Observable(k) ==
    /\ Reconcilable(k) /\ SeenOpen /\ ~ArtifactFound(k)
    /\ ~(IsTerminal(index[k]) /\ index[k].outcome # "unknown")
    /\ index[k].ref

ReconcileObserves(k) ==
    /\ Observable(k)
    /\ \E status \in Observed(k.principal) :
          CASE status = "missing" -> Persist(k, Ended(index[k], "failed"))
            [] status \in TerminalStatus \ {"missing"} ->
                  \E o \in OutcomeFromObservation(status) : Persist(k, Ended(index[k], o))
            [] OTHER -> Persist(k, Moved(index[k], "reconciling"))
    /\ UNCHANGED <<notes, dispatchVars, herdrVars, mission>>

Reconcile(k) == ReconcileStops(k) \/ ReconcileNotes(k) \/ ReconcileObserves(k)

-----------------------------------------------------------------------------
(* The process, the panes and the mission. *)

\* A stop between two steps, or simply the next call of the command line:
\* the index is read from the log.
Restart ==
    /\ index' = disk
    /\ cur' = None /\ pc' = "idle"
    /\ UNCHANGED <<disk, torn, notes, herdrVars, mission>>

\* A stop in the middle of an append: the record is lost, its first bytes
\* stay at the end of the log.
TornAppend ==
    /\ TornWrites
    /\ \/ pc \in {"claimed", "sent", "waiting"}
       \/ \E k \in Keys : Observable(k) \/ \E x \in BOOLEAN : Dispatchable(k, x)
    /\ torn' = TRUE
    /\ index' = disk
    /\ cur' = None /\ pc' = "idle"
    /\ UNCHANGED <<disk, notes, herdrVars, mission>>

\* An agent at work publishes the artifact of its work item, maybe, and
\* stops in one of the ways Herdr can tell apart.
AgentPublishes(p) ==
    /\ pane[p] = "working" /\ task[p] # None
    /\ artifact' = [artifact EXCEPT ![task[p].work] = task[p]]
    /\ UNCHANGED <<storeVars, dispatchVars, pane, task, prompts, mission>>

AgentStops(p) ==
    /\ pane[p] = "working"
    /\ \E status \in {"done", "idle", "blocked"} : pane' = [pane EXCEPT ![p] = status]
    /\ UNCHANGED <<storeVars, dispatchVars, task, artifact, prompts, mission>>

\* The agent exits and its operator may bring it back.
AgentExits(p) ==
    /\ pane[p] # "missing"
    /\ pane' = [pane EXCEPT ![p] = "missing"]
    /\ UNCHANGED <<storeVars, dispatchVars, task, artifact, prompts, mission>>

AgentReturns(p) ==
    /\ pane[p] = "missing"
    /\ pane' = [pane EXCEPT ![p] = "idle"]
    /\ task' = [task EXCEPT ![p] = None]
    /\ UNCHANGED <<storeVars, dispatchVars, artifact, prompts, mission>>

EndMission ==
    /\ mission = "running"
    /\ mission' \in MissionEnds
    /\ UNCHANGED <<storeVars, dispatchVars, herdrVars>>

Next ==
    \/ \E k \in Keys, explicit \in BOOLEAN : Claim(k, explicit) \/ RejectNonconforming(k, explicit)
    \/ Attach \/ PromptAgent \/ RecordPrompted \/ Finish \/ DispatchFails
    \/ \E k \in Keys : Reconcile(k)
    \/ Restart \/ TornAppend
    \/ \E p \in Principals :
          AgentPublishes(p) \/ AgentStops(p) \/ AgentExits(p) \/ AgentReturns(p)
    \/ EndMission

Spec == Init /\ [][Next]_vars

\* The bridge runs on and every receipt is polled again and again, whatever
\* is dispatched in between.  Nothing forces a restart, a torn write, an
\* agent to end its work or the mission to end.
Polled ==
    /\ WF_vars(Attach \/ PromptAgent \/ RecordPrompted \/ Finish \/ DispatchFails)
    /\ \A k \in Keys : SF_vars(Reconcile(k))

PolledSpec == Spec /\ Polled

-----------------------------------------------------------------------------
(* Properties. *)

\* Contract section 5, durable identity: whatever was sent to Herdr is in the
\* log with its reference, so that no later process can take the key for a
\* new one, even if the log was torn before.
PromptedIsRecorded ==
    \A k \in Keys : prompts[k] > 0 => disk[k] # None /\ disk[k].ref

\* No poll, restart or reconnect sends the same (work, attempt, principal)
\* to Herdr twice.
PromptedOnce == \A k \in Keys : prompts[k] <= 1

\* K2, terminal uniqueness: once a definitive outcome is in the log, no
\* sequence of polls, restarts, torn appends and agent reports changes it,
\* and every process sees it.
DefinitiveIsFinal ==
    [][\A k \in Keys : Closed(disk[k]) => disk'[k] = disk[k] /\ index'[k] = disk[k]]_vars

\* Polling ends what an ended mission has left behind, whatever state its
\* process, its agent and its log were left in: every receipt in the log
\* gets an outcome that no poll changes any more.
EndedMissionCloses ==
    \A k \in Keys : (SeenOver /\ disk[k] # None) ~>
                    (IsTerminal(index[k]) /\ index[k].outcome # "unknown")
=============================================================================
