----------------------------- MODULE Evolution -----------------------------
(***************************************************************************)
(* Governed internal evolution:                                            *)
(*   aether/evolution/engine.py           triggers, candidates, decisions  *)
(*   aether/evolution/store.py            the append-only ledger           *)
(*   aether/evolution/governance.py       what may be proposed and decided *)
(*   aether_gateway/evolution/local.py    sandbox and promoter             *)
(*   aether_gateway/api/server.py         the /api/evolution routes        *)
(*                                                                         *)
(* A candidate replaces one file of the workspace.  It is evaluated in a   *)
(* copy, decided once, promoted by replacing the file and may be rolled    *)
(* back.  Decisions and rollbacks run on the event loop without giving it  *)
(* up; proposals come from other threads and an evaluation is awaited.     *)
(* Whoever else works on the workspace edits its files at any time.        *)
(***************************************************************************)
EXTENDS Naturals, FiniteSets

CONSTANTS
    EvoFingerprints,    \* what a trigger is about
    EvoFiles,           \* target paths
    EvoProtected,       \* protected paths and names
    EvoContents,        \* contents, and by that content hashes
    EvoOriginal,        \* what a file holds at first
    EvoReasons,         \* reasons for another attempt
    EvoMaxCandidates,   \* bound on candidates
    EvoMaxEvents        \* edits, failing writes of the ledger, crashes

ASSUME EvolutionAssumption ==
    /\ EvoOriginal \in EvoContents
    /\ "none" \notin EvoReasons
    /\ EvoMaxCandidates \in Nat /\ EvoMaxEvents \in Nat

VARIABLES
    workspace,      \* file -> content
    triggers,       \* fingerprints with a registered trigger
    proposing,      \* candidates read from the workspace, not yet in the ledger
    candidates,     \* candidate -> its evaluation, decision and lineage
    evaluating,     \* evaluations awaited
    edited,         \* files changed other than by a recorded decision
    evoEvents

evoVars == <<workspace, triggers, proposing, candidates, evaluating, edited, evoEvents>>

\* candidate_semantic_hash and the retry reason that goes into the attempt
\* hash: two proposals with the same hash are the same row.
CandidateKeys ==
    [fingerprint : EvoFingerprints, file : EvoFiles,
     base : EvoContents, new : EvoContents, retry : {"none"} \cup EvoReasons]

\* The rows that belong to a candidate: one evaluation, one decision, one
\* lineage and one rollback at most.
CandidateRows ==
    [evaluation : {"none", "passed", "failed"},
     decision : {"none", "promote", "reject"},
     lineage : {"none", "promoted", "rolled-back"}]

NewRow == [evaluation |-> "none", decision |-> "none", lineage |-> "none"]

EvoInit ==
    /\ workspace = [f \in EvoFiles |-> EvoOriginal]
    /\ triggers = {}
    /\ proposing = {}
    /\ candidates = [c \in {} |-> NewRow]
    /\ evaluating = {}
    /\ edited = {}
    /\ evoEvents = 0

Known == DOMAIN candidates

\* _decorate_candidate.
CandidateStatus(c) ==
    CASE candidates[c].lineage = "rolled-back" -> "rolled-back"
      [] candidates[c].lineage # "rolled-back" /\ candidates[c].decision = "promote" -> "promoted"
      [] candidates[c].lineage # "rolled-back" /\ candidates[c].decision = "reject" -> "rejected"
      [] candidates[c].lineage # "rolled-back" /\ candidates[c].decision = "none" ->
            IF candidates[c].evaluation = "passed" THEN "verified" ELSE "proposed"

EvoEvent == evoEvents < EvoMaxEvents /\ evoEvents' = evoEvents + 1

-----------------------------------------------------------------------------
(* Candidates.                                                             *)

\* validate_candidate: a path that may evolve and a change of its baseline.
ValidCandidate(c) == c.file \notin EvoProtected /\ c.base # c.new

\* Another attempt at what failed or was rejected gives its reason.
FailedBefore(c) ==
    \E p \in Known :
       /\ [p EXCEPT !.retry = c.retry] = c
       /\ candidates[p].evaluation = "failed" \/ candidates[p].decision = "reject"

\* add_candidate: a new row, or the one that has this hash.
AddCandidate(c) ==
    candidates' = [x \in Known \cup {c} |-> IF x \in Known THEN candidates[x] ELSE NewRow]

AddTrigger(fp) == triggers' = triggers \cup {fp}

\* From the triggers route, and from incidents of the runtime fleet.
RegisterTrigger(fp) ==
    /\ AddTrigger(fp)
    /\ UNCHANGED <<workspace, proposing, candidates, evaluating, edited, evoEvents>>

\* POST /api/evolution/candidates, on a thread: the baseline is what the
\* file holds now.
ReadBaseline(c) ==
    /\ proposing = {} /\ Cardinality(Known) < EvoMaxCandidates
    /\ c.fingerprint \in triggers
    /\ c.base = workspace[c.file]
    /\ ValidCandidate(c)
    /\ proposing' = {c}
    /\ UNCHANGED <<workspace, triggers, candidates, evaluating, edited, evoEvents>>

\* propose_candidate enters it, unless it repeats what failed.
ProposeCandidate(c) ==
    /\ c \in proposing
    /\ IF c.retry = "none" /\ FailedBefore(c) THEN UNCHANGED candidates ELSE AddCandidate(c)
    /\ proposing' = proposing \ {c}
    /\ UNCHANGED <<workspace, triggers, evaluating, edited, evoEvents>>

-----------------------------------------------------------------------------
(* Evaluation.                                                             *)

\* The sandbox refuses a candidate whose baseline is not in the workspace,
\* and copies the workspace before its first command is awaited.
StartEvaluation(c) ==
    /\ c \in Known \ evaluating
    /\ candidates[c].evaluation = "none"
    /\ workspace[c.file] = c.base
    /\ evaluating' = evaluating \cup {c}
    /\ UNCHANGED <<triggers, proposing, workspace, candidates, edited, evoEvents>>

\* add_evaluation: the first evaluation of a candidate is the one it keeps.
AddEvaluation(c, verdict) ==
    candidates' = [candidates EXCEPT ![c].evaluation = IF @ = "none" THEN verdict ELSE @]

\* The commands end: passed means every check passed, nothing regressed and
\* the score improved.
FinishEvaluation(c, verdict) ==
    /\ c \in evaluating
    /\ AddEvaluation(c, verdict)
    /\ evaluating' = evaluating \ {c}
    /\ UNCHANGED <<triggers, proposing, workspace, edited, evoEvents>>

-----------------------------------------------------------------------------
(* Decisions.                                                              *)

\* LocalArtifactPromoter.promote: possible only on the baseline.
Promotable(c) == workspace[c.file] = c.base

\* Mutant: the rollback does not look at what the file holds.
RestorableBlindly(c) == c \in Known

\* LocalArtifactPromoter.rollback: possible only while the file holds what
\* was promoted.
Restorable(c) == workspace[c.file] = c.new

\* validate_evaluation, asked again when the decision is made.
Verified(c) == candidates[c].evaluation = "passed"

\* The decision row; the lineage row comes before it and a rollback marks it.
Decide(c, d) == candidates' = [candidates EXCEPT ![c].decision = d]

AddLineage(rows, c) == [rows EXCEPT ![c].lineage = "promoted"]

AddRollback(rows, c) == [rows EXCEPT ![c].lineage = "rolled-back"]

RejectCandidate(c) ==
    /\ c \in Known
    /\ candidates[c].decision = "none"
    /\ Decide(c, "reject")
    /\ UNCHANGED <<triggers, proposing, workspace, evaluating, edited, evoEvents>>

\* decide(approved): the file is replaced, then lineage and decision are
\* written.
ApproveCandidate(c) ==
    /\ c \in Known
    /\ candidates[c].decision = "none" /\ candidates[c].lineage = "none"
    /\ Verified(c)
    /\ Promotable(c)
    /\ workspace' = [workspace EXCEPT ![c.file] = c.new]
    /\ candidates' = [AddLineage(candidates, c) EXCEPT ![c].decision = "promote"]
    /\ UNCHANGED <<triggers, proposing, evaluating, edited, evoEvents>>

\* A row cannot be written: the promotion is undone, and a lineage that was
\* written stays without a decision.  Approving such a candidate again finds
\* that lineage and is undone as well, which changes nothing.
ApprovalFails(c, linked) ==
    /\ EvoEvent
    /\ c \in Known
    /\ candidates[c].decision = "none" /\ candidates[c].lineage = "none"
    /\ Verified(c)
    /\ Promotable(c)
    /\ candidates' = IF linked THEN AddLineage(candidates, c) ELSE candidates
    /\ edited' = IF linked THEN edited \cup {c.file} ELSE edited
    /\ UNCHANGED <<triggers, proposing, workspace, evaluating>>

\* POST /api/evolution/lineage/{id}/rollback.
RollbackLineage(c) ==
    /\ c \in Known
    /\ candidates[c].lineage = "promoted"
    /\ Restorable(c)
    /\ workspace' = [workspace EXCEPT ![c.file] = c.base]
    /\ candidates' = AddRollback(candidates, c)
    /\ UNCHANGED <<triggers, proposing, evaluating, edited, evoEvents>>

-----------------------------------------------------------------------------

\* The gateway ends: evaluations are lost, and a decision or a rollback that
\* had replaced its file may have left no record of it.
EvoCrash ==
    /\ EvoEvent
    /\ evaluating' = {} /\ proposing' = {}
    /\ UNCHANGED triggers
    /\ \/ UNCHANGED <<workspace, candidates, edited>>
       \/ \E c \in Known, linked \in BOOLEAN :
             /\ candidates[c].decision = "none" /\ candidates[c].lineage = "none"
             /\ Verified(c) /\ Promotable(c)
             /\ workspace' = [workspace EXCEPT ![c.file] = c.new]
             /\ candidates' = IF linked THEN AddLineage(candidates, c) ELSE candidates
             /\ edited' = edited \cup {c.file}
       \/ \E c \in Known :
             /\ candidates[c].lineage = "promoted" /\ Restorable(c)
             /\ workspace' = [workspace EXCEPT ![c.file] = c.base]
             /\ edited' = edited \cup {c.file}
             /\ UNCHANGED candidates

\* Somebody edits a file of the workspace.
EditFile(f, x) ==
    /\ EvoEvent
    /\ workspace[f] # x
    /\ workspace' = [workspace EXCEPT ![f] = x]
    /\ edited' = edited \cup {f}
    /\ UNCHANGED <<triggers, proposing, candidates, evaluating>>

TriggerRoute == \E fp \in EvoFingerprints : RegisterTrigger(fp)

CandidateRoute == \E c \in CandidateKeys : ReadBaseline(c) \/ ProposeCandidate(c)

EvaluateRoute ==
    \E c \in Known : StartEvaluation(c) \/ \E v \in {"passed", "failed"} : FinishEvaluation(c, v)

\* approve, reject and rollback.
DecisionRoutes ==
    \E c \in Known :
       \/ RejectCandidate(c) \/ ApproveCandidate(c) \/ RollbackLineage(c)
       \/ \E linked \in BOOLEAN : ApprovalFails(c, linked)

EvoNext ==
    \/ TriggerRoute \/ CandidateRoute \/ EvaluateRoute \/ DecisionRoutes
    \/ EvoCrash
    \/ \E f \in EvoFiles, x \in EvoContents : EditFile(f, x)

EvoSpec == EvoInit /\ [][EvoNext]_evoVars

-----------------------------------------------------------------------------

EvoTypeOK ==
    /\ workspace \in [EvoFiles -> EvoContents]
    /\ triggers \subseteq EvoFingerprints
    /\ proposing \subseteq CandidateKeys
    /\ Known \subseteq CandidateKeys
    /\ candidates \in [Known -> CandidateRows]
    /\ evaluating \subseteq Known
    /\ edited \subseteq EvoFiles
    /\ evoEvents \in 0..EvoMaxEvents

Live(f) == {c \in Known : c.file = f /\ CandidateStatus(c) = "promoted"}

\* The ledger accounts for the workspace.  However promotions and rollbacks
\* of the same file alternate, also when several candidates carry the same
\* content, the promotions that stand lead from the original content to the
\* one that is there: each content is entered as often as it is left, the
\* original once less and the present one once more.  (engine.decide and
\* engine.rollback, the hash checks of LocalArtifactPromoter; files that were
\* edited by hand or lost a record in a crash are set apart.)
LedgerAccounts ==
    \A f \in EvoFiles \ edited : \A x \in EvoContents :
       Cardinality({c \in Live(f) : c.new = x}) + (IF x = EvoOriginal THEN 1 ELSE 0)
         = Cardinality({c \in Live(f) : c.base = x}) + (IF x = workspace[f] THEN 1 ELSE 0)
=============================================================================
