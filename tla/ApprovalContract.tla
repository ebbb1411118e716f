-------------------------- MODULE ApprovalContract --------------------------
(***************************************************************************)
(* What the trusted approval inbox promises about an action that needs a   *)
(* human decision (ADR-0010, "State machine" and "Replay behavior"): it is *)
(* decided at most once, a refusal is final, an effect happens only while  *)
(* the action is claimed, at most once, and never after it is settled.     *)
(***************************************************************************)
CONSTANT Gated   \* the actions that need a decision

VARIABLES phase, effect

Phases == {"new", "asked", "refused", "granted", "claimed", "settled"}

Init ==
    /\ phase = [a \in Gated |-> "new"]
    /\ effect = [a \in Gated |-> FALSE]

Move(a, from, to) ==
    /\ phase[a] = from
    /\ phase' = [phase EXCEPT ![a] = to]
    /\ UNCHANGED effect

\* A decision, or the lapse of several requests at once.
Refuse(S) ==
    /\ S # {}
    /\ \A a \in S : phase[a] = "asked"
    /\ phase' = [a \in Gated |-> IF a \in S THEN "refused" ELSE phase[a]]
    /\ UNCHANGED effect

Perform(a) ==
    /\ phase[a] = "claimed"
    /\ ~effect[a]
    /\ effect' = [effect EXCEPT ![a] = TRUE]
    /\ UNCHANGED phase

Next ==
    \/ \E a \in Gated :
          \/ Move(a, "new", "asked")
          \/ Move(a, "asked", "granted")
          \/ Move(a, "granted", "claimed")
          \/ Move(a, "claimed", "settled")
          \/ Perform(a)
    \/ \E S \in SUBSET Gated : Refuse(S)

Spec == Init /\ [][Next]_<<phase, effect>>
=============================================================================
