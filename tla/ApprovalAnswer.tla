--------------------------- MODULE ApprovalAnswer ---------------------------
(***************************************************************************)
(* What a caller that waits for an approval relies on, and all it is told: *)
(* the row of its action (PendingActionStore.get) is open until it has a   *)
(* final answer, and the answer tells whether the action was completed.    *)
(* GovernedMissionActionAdapter.approval_result reads a row so, and        *)
(* _resume_waiting_approval completes or fails the step by what it reads.  *)
(***************************************************************************)
CONSTANT Gated   \* the actions that need a decision

VARIABLES answer,      \* what the row of an action says
          completed    \* did the action complete

Answers == {"new", "asked", "ok", "failed", "refused"}

Init ==
    /\ answer = [a \in Gated |-> "new"]
    /\ completed = [a \in Gated |-> FALSE]

Ask(a) ==
    /\ answer[a] = "new"
    /\ answer' = [answer EXCEPT ![a] = "asked"]
    /\ UNCHANGED completed

\* The action completes while its row is open.
Complete(a) ==
    /\ answer[a] = "asked"
    /\ ~completed[a]
    /\ completed' = [completed EXCEPT ![a] = TRUE]
    /\ UNCHANGED answer

\* The row says that the action completed; one that is carried out and
\* answered in a single step completes with its answer.
Confirm(a) ==
    /\ answer[a] = "asked"
    /\ answer' = [answer EXCEPT ![a] = "ok"]
    /\ completed' = [completed EXCEPT ![a] = TRUE]

\* Actions fail or are refused, only if they have not completed.
Decline(S, no) ==
    /\ \A a \in S : answer[a] = "asked" /\ ~completed[a]
    /\ answer' = [a \in Gated |-> IF a \in S THEN no ELSE answer[a]]
    /\ UNCHANGED completed

Next ==
    \/ \E a \in Gated : Ask(a) \/ Complete(a) \/ Confirm(a)
    \/ \E S \in SUBSET Gated, no \in {"failed", "refused"} : Decline(S, no)

Spec == Init /\ [][Next]_<<answer, completed>>

\* The answer is true of the action: it completed if the row says so, and it
\* did not if the row says anything else that is final, or nothing yet.
AnswerTruthful ==
    \A a \in Gated :
        /\ answer[a] = "ok" => completed[a]
        /\ answer[a] \in {"new", "failed", "refused"} => ~completed[a]

\* An answer is final, and what was completed stays so.
AnswerFinal ==
    \A a \in Gated :
        /\ answer[a] \in {"ok", "failed", "refused"} =>
              answer'[a] = answer[a] /\ completed'[a] = completed[a]
        /\ completed[a] => completed'[a]
=============================================================================
