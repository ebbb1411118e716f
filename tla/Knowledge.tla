----------------------------- MODULE Knowledge ------------------------------
(***************************************************************************)
(* The memory fabric and the governed promotion of knowledge:              *)
(*   aether/memory/canonical.py    the append-only records                 *)
(*   aether/memory/provider.py     the index over them, rebuilt at will    *)
(*   aether/memory/fabric.py       the only writer of both                 *)
(*   aether/knowledge/curator.py   proposals from evidence, decisions      *)
(*   aether/knowledge/store.py     proposals and decisions, immutable      *)
(*   aether/knowledge/governance.py, projection.py                         *)
(*   aether_gateway/api/server.py  their routes                            *)
(*                                                                         *)
(* None of the coroutines gives the event loop up, so a handler is one     *)
(* step; but canonical records, index, proposals and notes are stores of   *)
(* their own, and the process may end between two of them.                 *)
(***************************************************************************)
EXTENDS Integers, FiniteSets, Sequences, FiniteSetsExt

CONSTANTS
    Episodes,           \* records of what happened, by their content hash
    SourceOf,           \* episode -> source of its provenance
    MarkedFor,          \* episode -> statement its metadata marks it for
    Wordings,           \* normalized claims
    Alike,              \* pairs of wordings whose similarity is over 0.92
    ClaimKeys,
    Confidences,        \* a set of positive numbers
    MinimumEvidence,    \* minimum_supporting_evidence
    DistinctSources,    \* minimum_distinct_sources
    MaxKnowledge        \* bound on proposals

\* What a proposal says; polarity 0 takes no side.
Statements == [claim : Wordings, key : ClaimKeys, polarity : {-1, 0, 1}]

ASSUME KnowledgeAssumption ==
    /\ MarkedFor \in [Episodes -> Statements]
    /\ Alike \subseteq Wordings \X Wordings
    /\ Confidences \subseteq Nat \ {0}
    /\ {MinimumEvidence, DistinctSources, MaxKnowledge} \subseteq Nat

VARIABLES
    episodes,       \* canonical records of what happened
    knowledge,      \* proposal -> confidence of its canonical record, 0 for none
    indexed,        \* what the retrieval index holds
    rebuildCut,     \* the process ended within the last rebuild
    proposals,      \* in the order they were created
    verdicts,       \* proposal -> decision
    notes           \* proposals projected to the vault

memoryVars == <<episodes, knowledge, indexed, rebuildCut>>
knowledgeVars == <<memoryVars, proposals, verdicts, notes>>

Proposals ==
    [says : Statements, evidence : SUBSET Episodes,
     duplicateOf : 0..MaxKnowledge, contradictions : SUBSET (1..MaxKnowledge)]

KnowledgeInit ==
    /\ episodes = {} /\ indexed = {} /\ rebuildCut = FALSE
    /\ proposals = <<>> /\ notes = {}
    /\ knowledge = [n \in 1..MaxKnowledge |-> 0]
    /\ verdicts = [n \in 1..MaxKnowledge |-> "none"]

-----------------------------------------------------------------------------
(* Memory.                                                                 *)

\* append: a content hash that is known is the record that is known; a
\* record id that is taken by other content is refused.
Appendable(n, confidence) == knowledge[n] \in {0, confidence}

\* remember: the canonical record, then its index entry.
Remember(e) ==
    /\ episodes' = episodes \cup {e}
    /\ indexed' = indexed \cup {e}
    /\ UNCHANGED <<knowledge, rebuildCut, proposals, verdicts, notes>>

\* What the conversation and the approval path remember.
RecordTurn(e) == Remember(e)

RecordActionResume(e) == Remember(e)

\* The process ends in between.
RememberCut(e) ==
    /\ episodes' = episodes \cup {e}
    /\ UNCHANGED <<knowledge, indexed, rebuildCut, proposals, verdicts, notes>>

Canonical == episodes \cup {n \in 1..MaxKnowledge : knowledge[n] # 0}

\* rebuild: everything out, then record after record back in.
RebuildIndex ==
    /\ indexed' = Canonical /\ rebuildCut' = FALSE
    /\ UNCHANGED <<episodes, knowledge, proposals, verdicts, notes>>

RebuildIndexCut ==
    /\ \E S \in SUBSET Canonical : indexed' = S
    /\ rebuildCut' = TRUE
    /\ UNCHANGED <<episodes, knowledge, proposals, verdicts, notes>>

-----------------------------------------------------------------------------
(* Proposals.                                                              *)

\* find_similar: the same words, or the same key.
Similar(s) ==
    {n \in DOMAIN proposals :
       proposals[n].says.claim = s.claim \/ proposals[n].says.key = s.key}

Duplicates(s, t) == s.claim = t.claim \/ <<s.claim, t.claim>> \in Alike

Contradicts(s, t) == s.key = t.key /\ s.polarity # 0 /\ s.polarity = -t.polarity

\* Mutant: only proposals that are still open are compared with.
ComparedWithOpen(s) == {n \in Similar(s) : verdicts[n] = "none"}

ComparedWith(s) == {n \in Similar(s) : verdicts[n] # "reject"}

\* The newest first, and none after the first duplicate.
DuplicateOf(s) == Max({0} \cup {n \in ComparedWith(s) : Duplicates(proposals[n].says, s)})

Contradictions(s) ==
    {n \in ComparedWith(s) : n > DuplicateOf(s) /\ Contradicts(s, proposals[n].says)}

\* create: a proposal with the same words, key, polarity and evidence is the
\* known one.  What it duplicates and contradicts is fixed here.
Propose(s, E) ==
    /\ E # {} /\ E \subseteq episodes
    /\ IF \E n \in DOMAIN proposals : proposals[n].says = s /\ proposals[n].evidence = E
       THEN UNCHANGED proposals
       ELSE /\ Len(proposals) < MaxKnowledge
            /\ proposals' = Append(proposals,
                  [says |-> s, evidence |-> E, duplicateOf |-> DuplicateOf(s),
                   contradictions |-> Contradictions(s)])
    /\ UNCHANGED <<memoryVars, verdicts, notes>>

\* curate_explicit_candidates: the records marked for one statement, if there
\* are enough.  A run goes through the groups, each a transaction of its own.
Curate(s) ==
    LET E == {e \in episodes : MarkedFor[e] = s} IN
    Cardinality(E) >= MinimumEvidence /\ Propose(s, E)

-----------------------------------------------------------------------------
(* Decisions.                                                              *)

\* KnowledgeGovernor.review finds nothing against it.
Unblocked(p) ==
    /\ Cardinality(p.evidence) >= MinimumEvidence
    /\ Cardinality({SourceOf[e] : e \in p.evidence}) >= DistinctSources
    /\ p.duplicateOf = 0 /\ p.contradictions = {}

\* A decision that was made stands; the same one again is answered with it.
Undecided(n) == n \in DOMAIN proposals /\ verdicts[n] = "none"

RejectKnowledge(n) ==
    /\ Undecided(n)
    /\ verdicts' = [verdicts EXCEPT ![n] = "reject"]
    /\ UNCHANGED <<memoryVars, proposals, notes>>

\* _promote_record and the decision and the note, as far as the process
\* lives: "append", "index", "decide" or all of it.
ApproveKnowledge(n, confidence, upTo) ==
    /\ Undecided(n) /\ Unblocked(proposals[n]) /\ Appendable(n, confidence)
    /\ knowledge' = [knowledge EXCEPT ![n] = confidence]
    /\ indexed' = IF upTo = "append" THEN indexed ELSE indexed \cup {n}
    /\ verdicts' = IF upTo \in {"append", "index"} THEN verdicts
                   ELSE [verdicts EXCEPT ![n] = "approve"]
    /\ notes' = IF upTo = "note" THEN notes \cup {n} ELSE notes
    /\ UNCHANGED <<episodes, rebuildCut, proposals>>

ProjectKnowledge(n) ==
    /\ n \in DOMAIN proposals /\ verdicts[n] = "approve"
    /\ notes' = notes \cup {n}
    /\ UNCHANGED <<memoryVars, proposals, verdicts>>

-----------------------------------------------------------------------------

RebuildRoute == RebuildIndex \/ RebuildIndexCut

ProposeRoutes ==
    \/ \E s \in Statements, E \in SUBSET episodes : Propose(s, E)
    \/ \E s \in Statements : Curate(s)

KnowledgeDecisionRoutes ==
    \E n \in DOMAIN proposals :
       \/ RejectKnowledge(n) \/ ProjectKnowledge(n)
       \/ \E confidence \in Confidences, upTo \in {"append", "index", "decide", "note"} :
             ApproveKnowledge(n, confidence, upTo)

KnowledgeNext ==
    \/ \E e \in Episodes : RecordTurn(e) \/ RecordActionResume(e) \/ RememberCut(e)
    \/ RebuildRoute \/ ProposeRoutes \/ KnowledgeDecisionRoutes

KnowledgeSpec == KnowledgeInit /\ [][KnowledgeNext]_knowledgeVars

-----------------------------------------------------------------------------

KnowledgeTypeOK ==
    /\ episodes \subseteq Episodes
    /\ knowledge \in [1..MaxKnowledge -> Confidences \cup {0}]
    /\ indexed \subseteq Episodes \cup 1..MaxKnowledge
    /\ rebuildCut \in BOOLEAN
    /\ proposals \in Seq(Proposals) /\ Len(proposals) <= MaxKnowledge
    /\ verdicts \in [1..MaxKnowledge -> {"none", "approve", "reject"}]
    /\ notes \subseteq 1..MaxKnowledge

Promoted == {n \in DOMAIN proposals : verdicts[n] = "approve"}

\* What Aether holds for knowledge agrees with itself: no two promoted claims
\* contradict or repeat each other, whatever was proposed, rejected and
\* proposed again in between (contradictions and duplicates are looked for
\* once, when a proposal is made); each has its record, is found by retrieval
\* unless a rebuild was cut short, and only promoted claims have notes.
\* (propose, KnowledgeGovernor.review, _decide_locked.)
KnowledgeAgrees ==
    /\ \A n \in Promoted :
          /\ knowledge[n] # 0
          /\ rebuildCut \/ n \in indexed
          /\ \A m \in Promoted \ {n} :
                /\ proposals[m].says.claim # proposals[n].says.claim
                /\ ~Contradicts(proposals[m].says, proposals[n].says)
    /\ notes \subseteq Promoted
=============================================================================
