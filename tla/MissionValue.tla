---------------------------- MODULE MissionValue ----------------------------
(***************************************************************************)
(* Where missions come from and what they are worth: opportunity briefs,   *)
(* plans, value evidence and outcomes (aether/missions/orchestrator.py,    *)
(* governance.py, store.py and the routes of the gateway).  How a mission  *)
(* runs is MissionOrchestrator; here its execution is open or over.        *)
(*                                                                         *)
(* finalize runs on the event loop up to the outcome it records, while     *)
(* value evidence is recorded by requests in the thread pool: it may come  *)
(* between the evidence that finalize has read and its outcome.  Titles,   *)
(* wording and hashes are left out; requests the governor refuses for      *)
(* their wording alone write nothing.                                      *)
(***************************************************************************)
EXTENDS Integers, Sequences

CONSTANTS
    ValueMissions,   \* missions, each planned once
    ValueAmounts,    \* amounts in USD
    Unsaid,          \* no amount is given, or no mission
    MinimumIndependentSources,
    MaxBriefs, MaxEvidence

VARIABLES
    briefs,      \* opportunity_briefs
    execution,   \* of each mission: none, open or over
    values,      \* mission_value_evidence, in the order of its rows
    finalizing,  \* what finalize has read: the mission and its evidence
    outcomes,    \* mission_outcomes
    lessons      \* missions whose lessons are in memory

valueVars == <<briefs, execution, values, finalizing, outcomes, lessons>>

MissionLanes == {"internal", "external-value"}
ValueKinds == {"claimed", "realized", "verified"}
Briefs == [lane : MissionLanes, support : 0..MinimumIndependentSources,
           contradicted : BOOLEAN, hypothesis : BOOLEAN]
ValueEvidence == [mission : ValueMissions, kind : ValueKinds,
                  amount : ValueAmounts \cup {Unsaid}, related : Nat]
NoOutcome == [state |-> "none", evidence |-> {}]

MissionValueTypeOK ==
    /\ briefs \in Seq(Briefs)
    /\ execution \in [ValueMissions -> {"none", "open", "over"}]
    /\ values \in Seq(ValueEvidence)
    /\ finalizing.mission \in ValueMissions \cup {Unsaid}
    /\ \A v \in ValueMissions :
         outcomes[v].state \in {"none", "no-value"} \cup ValueKinds
    /\ lessons \subseteq ValueMissions

ValueInit ==
    /\ briefs = <<>>
    /\ execution = [v \in ValueMissions |-> "none"]
    /\ values = <<>>
    /\ finalizing = [mission |-> Unsaid, evidence |-> {}]
    /\ outcomes = [v \in ValueMissions |-> NoOutcome]
    /\ lessons = {}

-----------------------------------------------------------------------------
(* Briefs and plans                                                        *)

\* validate_brief: what keeps an opportunity from becoming a mission.
BriefBlocked(b) ==
    \/ b.contradicted
    \/ b.lane = "external-value" /\ (b.support < MinimumIndependentSources \/ ~b.hypothesis)

\* add_brief: evidence has ids of its own, so only a brief without any can
\* have the hash of one that is there, and then that one is the answer.
AddBrief(b) ==
    LET same(c) == c.lane = b.lane /\ {b.support, c.support} = {0}
                   /\ ~b.contradicted /\ ~c.contradicted
    IN briefs' = IF \E n \in DOMAIN briefs : same(briefs[n]) THEN briefs ELSE Append(briefs, b)

\* A blocked opportunity is recorded with its blockers.
IntakeOpportunity(b) ==
    /\ Len(briefs) < MaxBriefs
    /\ AddBrief(b)
    /\ UNCHANGED <<execution, values, finalizing, outcomes, lessons>>

\* The brief is validated again; a plan that is not valid is refused.
PlanMission(v, n) ==
    /\ execution[v] = "none"
    /\ ~BriefBlocked(briefs[n])
    /\ execution' = [execution EXCEPT ![v] = "open"]
    /\ UNCHANGED <<briefs, values, finalizing, outcomes, lessons>>

\* The mission ends, or a decision on a cancelled one opens it again.
ExecutionMoves(v) ==
    /\ execution[v] # "none"
    /\ execution' = [execution EXCEPT ![v] = IF @ = "open" THEN "over" ELSE "open"]
    /\ UNCHANGED <<briefs, values, finalizing, outcomes, lessons>>

-----------------------------------------------------------------------------
(* Value evidence                                                          *)

\* Mutant: evidence of any mission will do.
RelatedToAny(item) ==
    /\ item.related \in DOMAIN values
    /\ values[item.related].kind = "realized"

\* Verified value refers to realized value of the same mission and does not
\* exceed it, where both amounts are given.
RelatedRealized(item) ==
    /\ item.related \in DOMAIN values
    /\ LET related == values[item.related]
       IN /\ related.kind = "realized" /\ related.mission = item.mission
          /\ Unsaid \notin {item.amount, related.amount} => item.amount <= related.amount

AddValueEvidence(item) == values' = Append(values, item)

\* At any time in the life of a mission, and after its outcome too.
RecordValueEvidence(item) ==
    /\ Len(values) < MaxEvidence
    /\ execution[item.mission] # "none"
    /\ item.kind = "verified" => RelatedRealized(item)
    /\ AddValueEvidence(item)
    /\ UNCHANGED <<briefs, execution, finalizing, outcomes, lessons>>

-----------------------------------------------------------------------------
(* Outcomes                                                                *)

\* finalize, up to the evidence it reads ...
FinalizeReads(v) ==
    /\ finalizing.mission = Unsaid
    /\ execution[v] = "over"
    /\ outcomes[v] = NoOutcome
    /\ finalizing' = [mission |-> v,
                      evidence |-> {n \in DOMAIN values : values[n].mission = v}]
    /\ UNCHANGED <<briefs, execution, values, outcomes, lessons>>

\* The strongest kind of which an amount is reported.
OutcomeState(ns) ==
    LET worth(kind) == \E n \in ns : /\ values[n].kind = kind
                                     /\ values[n].amount \notin {0, Unsaid}
    IN IF worth("verified") THEN "verified"
       ELSE IF worth("realized") THEN "realized"
       ELSE IF worth("claimed") THEN "claimed"
       ELSE "no-value"

AddOutcome(v, ns) ==
    outcomes' = [outcomes EXCEPT ![v] = [state |-> OutcomeState(ns), evidence |-> ns]]

\* ... and from there: the outcome is recorded, whatever memory does then.
FinalizeRecords ==
    /\ finalizing.mission # Unsaid
    /\ AddOutcome(finalizing.mission, finalizing.evidence)
    /\ lessons' \in {lessons, lessons \cup {finalizing.mission}}
    /\ finalizing' = [mission |-> Unsaid, evidence |-> {}]
    /\ UNCHANGED <<briefs, execution, values>>

-----------------------------------------------------------------------------
(* The routes                                                              *)

IntakeRoute == \E b \in Briefs : IntakeOpportunity(b)
PlanRoute == \E v \in ValueMissions, n \in DOMAIN briefs : PlanMission(v, n)

\* Only a verification names the evidence that it is about.
ValueRoute ==
    \E v \in ValueMissions, kind \in ValueKinds, amount \in ValueAmounts \cup {Unsaid},
       related \in 0..MaxEvidence :
        /\ kind # "verified" => related = 0
        /\ RecordValueEvidence([mission |-> v, kind |-> kind, amount |-> amount,
                                related |-> related])

OutcomeRoute == FinalizeRecords \/ \E v \in ValueMissions : FinalizeReads(v)

ValueNext ==
    IntakeRoute \/ PlanRoute \/ ValueRoute \/ OutcomeRoute
    \/ \E v \in ValueMissions : ExecutionMoves(v)

ValueSpec == ValueInit /\ [][ValueNext]_valueVars

-----------------------------------------------------------------------------
(* Properties                                                              *)

\* ADR-0035: verified value is realized value that somebody trusted has looked
\* at.  Whatever an outcome counts as verified rests on realized evidence that
\* the same outcome counts and that is worth no less, where both amounts are
\* given: whatever evidence other missions have, and whatever is recorded while
\* the outcome is drawn up.
VerifiedFromRealized ==
    \A v \in ValueMissions : \A k \in outcomes[v].evidence :
        values[k].kind = "verified" =>
            LET n == values[k].related
            IN /\ n \in outcomes[v].evidence
               /\ values[n].kind = "realized"
               /\ Unsaid \notin {values[k].amount, values[n].amount} =>
                    values[k].amount <= values[n].amount
=============================================================================
