---------------------------- MODULE MissionProofs ----------------------------
(***************************************************************************)
(* Proofs about missions, for any plan, any number of runs and any budget: *)
(* what the store says of a mission's steps is true, no step is executed   *)
(* before its review, no effect is repeated, a mission relies on no more   *)
(* than the answers to its approvals, and verified value rests on realized *)
(* value.                                                                  *)
(***************************************************************************)
EXTENDS MissionOrchestrator, MissionValue, FiniteSetTheorems, TLAPS

-----------------------------------------------------------------------------
(* Minima and maxima that the orchestrator chooses. *)

LEMMA LeastNatural ==
  ASSUME NEW T \in SUBSET Nat, T # {}
  PROVE  \E x \in T : \A y \in T : x <= y
<1>1. PICK x \in T : \A y \in T : <<y, x>> \notin OpToRel(<, Nat)
  BY WFMin, NatLessThanWellFounded
<1>2. ASSUME NEW y \in T PROVE x <= y
  <2>1. x \in Nat /\ y \in Nat
    OBVIOUS
  <2>2. <<y, x>> \in Nat \X Nat /\ <<y, x>>[1] = y /\ <<y, x>>[2] = x
    BY <2>1
  <2>3. ~(y < x)
    BY <1>1, <2>2, Zenon DEF OpToRel
  <2> QED
    BY <2>1, <2>3
<1> QED
  BY <1>2

\* Attempts in which one is the last, and one has the highest number.
HasLast(S) == S # {} => \E x \in S : \A y \in S \ {x} : After(x, y)
HasMost(S) == S # {} => \E x \in S : \A y \in S : y.number <= x.number

LEMMA LastOfIsLast ==
  ASSUME NEW S, HasLast(S), S # {}
  PROVE  LastOf(S) \in S /\ \A y \in S \ {LastOf(S)} : After(LastOf(S), y)
BY DEF HasLast, LastOf

LEMMA AddToLast ==
  ASSUME NEW S \in SUBSET Attempt, NEW z \in Attempt, HasLast(S),
         \A x \in S : x.row # z.row
  PROVE  HasLast(S \cup {z})
<1>1. CASE S = {}
  BY <1>1 DEF HasLast
<1>2. CASE S # {}
  <2>1. PICK x \in S : \A y \in S \ {x} : After(x, y)
    BY <1>2 DEF HasLast
  <2>2. \A y \in S \cup {z} : y.at \in Nat /\ y.row \in Nat
    BY DEF Attempt
  <2>3. CASE After(x, z)
    BY <2>1, <2>3 DEF HasLast
  <2>4. CASE ~After(x, z)
    <3>1. After(z, x) /\ z # x
      BY <2>2, <2>4 DEF After
    <3>2. \A y \in S : After(z, y)
      BY <2>1, <2>2, <3>1 DEF After
    <3> QED
      BY <3>2 DEF HasLast
  <2> QED
    BY <2>3, <2>4
<1> QED
  BY <1>1, <1>2

LEMMA AddToMost ==
  ASSUME NEW S \in SUBSET Attempt, NEW z \in Attempt, HasMost(S)
  PROVE  HasMost(S \cup {z})
<1>1. \A y \in S \cup {z} : y.number \in Nat
  BY DEF Attempt
<1>2. CASE S = {}
  BY <1>1, <1>2 DEF HasMost
<1>3. CASE S # {}
  <2>1. PICK x \in S : \A y \in S : y.number <= x.number
    BY <1>3 DEF HasMost
  <2>2. CASE z.number <= x.number
    BY <2>1, <2>2 DEF HasMost
  <2>3. CASE ~(z.number <= x.number)
    <3>1. \A y \in S \cup {z} : y.number <= z.number
      BY <1>1, <2>1, <2>3
    <3> QED
      BY <3>1 DEF HasMost
  <2> QED
    BY <2>2, <2>3
<1> QED
  BY <1>2, <1>3

Waiting(att) == {x \in att : x.st = "waiting"}

\* Rows as the store appends them.
Orderly(att) ==
    /\ att \subseteq Attempt /\ IsFiniteSet(att)
    /\ \A x \in att : x.row < Cardinality(att)
    /\ \A s \in Steps : HasLast(AttemptsOn(att, s)) /\ HasMost(AttemptsOn(att, s))
    /\ HasLast(Waiting(att))

Execution == [step : Steps, number : Nat, at : Nat]

\* A row of a step was added.
Adds(att, new, s, st) ==
    /\ att \subseteq new
    /\ \A x \in new : x \in att \/ (x.step = s /\ x.st = st)
    /\ \E x \in new : x.step = s /\ x.st = st

LEMMA AddKeepsOrder ==
  ASSUME NEW att, Orderly(att), NEW c, c.step \in Steps, c.number \in Nat, c.at \in Nat,
         NEW st \in {"waiting", "completed", "failed"}
  PROVE  /\ Orderly(AddAttempt(att, c, st))
         /\ Adds(att, AddAttempt(att, c, st), c.step, st)
<1> DEFINE z == [row |-> Cardinality(att), step |-> c.step, number |-> c.number,
                 at |-> c.at, st |-> st]
           new == AddAttempt(att, c, st)
<1>1. new = att \cup {z}
  BY DEF AddAttempt
<1>2. Cardinality(att) \in Nat /\ IsFiniteSet(att)
  BY FS_CardinalityType DEF Orderly
<1>3. z \in Attempt /\ z.step = c.step /\ z.st = st /\ z.row = Cardinality(att)
  BY <1>2 DEF Attempt
<1>4. \A x \in att : x.row < z.row /\ x.row \in Nat
  BY <1>3 DEF Orderly, Attempt
<1>5. z \notin att /\ \A x \in att : x.row # z.row
  BY <1>2, <1>3, <1>4
<1> HIDE DEF z
<1>6. IsFiniteSet(new) /\ Cardinality(new) = Cardinality(att) + 1
  BY <1>1, <1>2, <1>5, FS_AddElement
<1>7. new \subseteq Attempt /\ \A x \in new : x.row < Cardinality(new)
  BY <1>1, <1>2, <1>3, <1>4, <1>6 DEF Orderly
<1>8. ASSUME NEW s \in Steps
      PROVE  HasLast(AttemptsOn(new, s)) /\ HasMost(AttemptsOn(new, s))
  <2>1. AttemptsOn(new, s) = AttemptsOn(att, s) \/ AttemptsOn(new, s) = AttemptsOn(att, s) \cup {z}
    BY <1>1 DEF AttemptsOn
  <2>2. /\ AttemptsOn(att, s) \in SUBSET Attempt
        /\ HasLast(AttemptsOn(att, s)) /\ HasMost(AttemptsOn(att, s))
        /\ \A x \in AttemptsOn(att, s) : x.row # z.row
    BY <1>5 DEF Orderly, AttemptsOn
  <2> QED
    BY <1>3, <2>1, <2>2, AddToLast, AddToMost
<1>9. HasLast(Waiting(new))
  <2>1. Waiting(new) = Waiting(att) \/ Waiting(new) = Waiting(att) \cup {z}
    BY <1>1 DEF Waiting
  <2>2. /\ Waiting(att) \in SUBSET Attempt /\ HasLast(Waiting(att))
        /\ \A x \in Waiting(att) : x.row # z.row
    BY <1>5 DEF Orderly, Waiting
  <2> QED
    BY <1>3, <2>1, <2>2, AddToLast
<1> QED
  BY <1>1, <1>3, <1>6, <1>7, <1>8, <1>9 DEF Orderly, Adds

LEMMA CompletedHasRow ==
  ASSUME NEW att, Orderly(att), NEW s \in Completed(att)
  PROVE  \E x \in att : x.step = s /\ x.st = "completed"
<1>1. s \in Steps /\ AttemptsOn(att, s) # {} /\ LastOf(AttemptsOn(att, s)).st = "completed"
  BY DEF Completed, LatestIs
<1>2. LastOf(AttemptsOn(att, s)) \in AttemptsOn(att, s)
  BY <1>1, LastOfIsLast DEF Orderly
<1> QED
  BY <1>1, <1>2 DEF AttemptsOn

LEMMA NextStepIsReady ==
  ASSUME NEW att, Ready(att) # {}
  PROVE  NextStep(att) \in Ready(att)
<1>1. Ready(att) \in SUBSET Nat
  BY MissionAssumption DEF Ready, Steps
<1>2. \E s \in Ready(att) : \A t \in Ready(att) : s <= t
  BY <1>1, LeastNatural
<1> QED
  BY <1>2 DEF NextStep

LEMMA NextNumberIsNatural ==
  ASSUME NEW att, Orderly(att), NEW s \in Steps
  PROVE  NextAttemptNumber(att, s) \in Nat
<1> DEFINE numbers == {x.number : x \in AttemptsOn(att, s)}
<1>1. CASE numbers = {}
  BY <1>1 DEF NextAttemptNumber
<1>2. CASE numbers # {}
  <2>1. numbers \subseteq Nat
    BY DEF Orderly, AttemptsOn, Attempt
  <2>2. \E n \in numbers : \A k \in numbers : k <= n
    BY <1>2 DEF Orderly, HasMost
  <2>3. (CHOOSE n \in numbers : \A k \in numbers : k <= n) \in Nat
    BY <2>1, <2>2
  <2> QED
    BY <1>2, <2>3 DEF NextAttemptNumber
<1> QED
  BY <1>1, <1>2

-----------------------------------------------------------------------------
(* What the store says is true. *)

Flying(r) == pc[r] \in {"executing", "returned"}

\* What a step depends on has been carried out.
Grounded(s) == \A d \in Deps[s] : completions[d] > 0

\* Rows say of a step only what happened.
Truthful(att) ==
    \A x \in att : Grounded(x.step) /\ (x.st = "completed" => completions[x.step] > 0)

\* The inductive invariant, whatever overlaps.
MissionInv ==
    /\ TypeOK
    /\ Orderly(attempts) /\ Truthful(attempts)
    /\ \A r \in Runs : Flying(r) =>
          cur[r] \in Execution /\ did[r] < StepsPerRun /\ Grounded(cur[r].step)
    /\ \A r \in Runs : pc[r] = "returned" /\ got[r] = "ok" => completions[cur[r].step] > 0
    /\ \A s \in Steps : approval[s] = "ok" => completions[s] > 0
    /\ \A s \in Steps : approval[s] # "new" \/ effects[s] > 0 => Grounded(s)
    /\ \A s \in Steps : completions[s] > 0 => effects[s] > 0
    /\ status = "waiting_approval" => Waiting(attempts) # {}

LEMMA DepsAreSteps == ASSUME NEW s \in Steps PROVE Deps[s] \subseteq Steps
BY MissionAssumption DEF ValidPlan

LEMMA MissionInvTruthful == MissionInv => CompletedTruthful
<1> SUFFICES ASSUME MissionInv PROVE CompletedTruthful
  OBVIOUS
<1>1. \A s \in Completed(attempts) : s \in Steps /\ completions[s] > 0 /\ effects[s] > 0
  BY CompletedHasRow DEF MissionInv, Truthful, Completed
<1>2. ASSUME NEW s \in Steps, effects[s] > 0 \/ approval[s] # "new" \/ AttemptsOn(attempts, s) # {}
      PROVE  Grounded(s)
  BY <1>2 DEF MissionInv, Truthful, AttemptsOn
<1> QED
  BY <1>1, <1>2 DEF CompletedTruthful, DependenciesFirst, Grounded

LEMMA MissionInit == Init => MissionInv
<1> SUFFICES ASSUME Init PROVE MissionInv
  OBVIOUS
<1>1. TypeOK
  <2>1. overtime \in BOOLEAN /\ outcome \in BOOLEAN
    BY DEF Init
  <2>2. 0 \in 0..StepsPerRun /\ status \in MissionStatuses
    BY MissionAssumption DEF Init, MissionStatuses
  <2> QED
    BY <2>1, <2>2 DEF Init, TypeOK
<1>2. Orderly({})
  BY FS_EmptySet DEF Orderly, AttemptsOn, Waiting, HasLast, HasMost
<1> QED
  BY <1>1, <1>2 DEF Init, MissionInv, Truthful, Flying

\* A step that the loop starts.
LEMMA StartedStep ==
  ASSUME NEW att, Orderly(att), Truthful(att), NEW n, Verdict(att, n) = "go"
  PROVE  /\ NextStep(att) \in Steps /\ Grounded(NextStep(att))
         /\ NextAttemptNumber(att, NextStep(att)) \in Nat /\ ~(n >= StepsPerRun)
         /\ NextStep(att) \notin Completed(att)
<1>1. Ready(att) # {} /\ ~(n >= StepsPerRun)
  BY DEF Verdict
<1>2. NextStep(att) \in Ready(att)
  BY <1>1, NextStepIsReady
<1>3. /\ NextStep(att) \in Steps /\ Deps[NextStep(att)] \subseteq Completed(att)
      /\ NextStep(att) \notin Completed(att)
  BY <1>2 DEF Ready
<1>4. \A d \in Completed(att) : completions[d] > 0
  BY CompletedHasRow DEF Truthful
<1> QED
  BY <1>1, <1>3, <1>4, NextNumberIsNatural DEF Grounded

LEMMA VerdictType ==
  ASSUME NEW att, NEW n
  PROVE  Verdict(att, n) \in {"completed", "paused", "stopped", "failed", "go"}
BY DEF Verdict

\* The loop of run(), over the rows it has written.
LEMMA LoopStep ==
  ASSUME MissionInv, NEW r \in Runs, NEW att, Orderly(att), Truthful(att),
         attempts \subseteq att, NEW n \in 0..StepsPerRun, NEW found \in MissionStatuses,
         found = "waiting_approval" => Waiting(att) # {},
         Loop(r, att, n, found), UNCHANGED <<decision, overtime, outcome, completions, effects, approval>>
  PROVE  MissionInv'
<1> DEFINE e == [step |-> NextStep(att), number |-> NextAttemptNumber(att, NextStep(att)), at |-> clock]
<1>1. attempts' = att /\ did' = [did EXCEPT ![r] = n] /\ got' = [got EXCEPT ![r] = None]
  BY DEF Loop
<1>2. TypeOK /\ clock \in Nat
  BY DEF MissionInv, TypeOK
<1>3. CASE /\ Verdict(att, n) = "go" /\ status' = found
           /\ pc' = [pc EXCEPT ![r] = "executing"] /\ cur' = [cur EXCEPT ![r] = e]
           /\ clock' = clock + 1
  <2>1. e \in Execution /\ e.step = NextStep(att) /\ Grounded(e.step) /\ n < StepsPerRun
    BY <1>2, <1>3, StartedStep, MissionAssumption DEF Execution
  <2> HIDE DEF e
  <2>2. TypeOK'
    BY <1>1, <1>2, <1>3, <2>1 DEF TypeOK, Orderly, Execution
  <2>3. \A q \in Runs : Flying(q)' =>
          cur'[q] \in Execution /\ did'[q] < StepsPerRun /\ Grounded(cur[q].step)'
    BY <1>1, <1>2, <1>3, <2>1 DEF MissionInv, TypeOK, Flying, Grounded
  <2>4. \A q \in Runs : pc'[q] = "returned" /\ got'[q] = "ok" => completions'[cur'[q].step] > 0
    BY <1>1, <1>2, <1>3 DEF MissionInv, TypeOK
  <2>5. (Orderly(attempts) /\ Truthful(attempts))'
    BY <1>1 DEF Orderly, Truthful, Grounded
  <2> QED
    BY <1>1, <1>3, <2>2, <2>3, <2>4, <2>5 DEF MissionInv, Grounded
<1>4. CASE /\ Verdict(att, n) # "go" /\ status' = Verdict(att, n)
           /\ pc' = [pc EXCEPT ![r] = "done"] /\ UNCHANGED <<cur, clock>>
  <2>1. status' \in MissionStatuses \ {"waiting_approval"}
    BY <1>4, VerdictType DEF MissionStatuses, Terminal
  <2>2. TypeOK'
    BY <1>1, <1>2, <1>4, <2>1 DEF TypeOK, Orderly
  <2>3. \A q \in Runs : Flying(q)' =>
          cur'[q] \in Execution /\ did'[q] < StepsPerRun /\ Grounded(cur[q].step)'
    BY <1>1, <1>2, <1>4 DEF MissionInv, TypeOK, Flying, Grounded
  <2>4. \A q \in Runs : pc'[q] = "returned" /\ got'[q] = "ok" => completions'[cur'[q].step] > 0
    BY <1>1, <1>2, <1>4 DEF MissionInv, TypeOK
  <2>5. (Orderly(attempts) /\ Truthful(attempts))'
    BY <1>1 DEF Orderly, Truthful, Grounded
  <2> QED
    BY <1>1, <1>4, <2>1, <2>2, <2>3, <2>4, <2>5 DEF MissionInv, Grounded
<1> QED
  BY <1>3, <1>4 DEF Loop, Transition

LEMMA EndStep ==
  ASSUME MissionInv, NEW r \in Runs, NEW att, Orderly(att), Truthful(att),
         attempts \subseteq att, NEW to \in MissionStatuses,
         to = "waiting_approval" => Waiting(att) # {},
         EndRun(r, att, to), UNCHANGED <<decision, overtime, outcome, completions, effects, approval>>
  PROVE  MissionInv'
<1>1. /\ attempts' = att /\ status' = to /\ pc' = [pc EXCEPT ![r] = "done"]
      /\ UNCHANGED <<cur, did, got, clock>>
  BY DEF EndRun, Transition
<1>2. TypeOK'
  BY <1>1 DEF MissionInv, TypeOK, Orderly
<1>3. \A q \in Runs : Flying(q)' =>
        cur'[q] \in Execution /\ did'[q] < StepsPerRun /\ Grounded(cur[q].step)'
  BY <1>1 DEF MissionInv, TypeOK, Flying, Grounded
<1>4. \A q \in Runs : pc'[q] = "returned" /\ got'[q] = "ok" => completions'[cur'[q].step] > 0
  BY <1>1 DEF MissionInv, TypeOK
<1>5. (Orderly(attempts) /\ Truthful(attempts))'
  BY <1>1 DEF Orderly, Truthful, Grounded
<1> QED
  BY <1>1, <1>2, <1>3, <1>4, <1>5 DEF MissionInv, Grounded

LEMMA EnterStep ==
  ASSUME MissionInv, NEW r \in Runs, NEW att, Orderly(att), Truthful(att),
         attempts \subseteq att,
         EnterLoop(r, att), UNCHANGED <<decision, overtime, outcome, completions, effects, approval>>
  PROVE  MissionInv'
<1>1. 0 \in 0..StepsPerRun /\ {"stopped", "running"} \subseteq MissionStatuses
  BY MissionAssumption DEF MissionStatuses, Terminal
<1>2. CASE EndRun(r, att, "stopped")
  BY <1>1, <1>2, EndStep
<1>3. CASE Loop(r, att, 0, "running")
  BY <1>1, <1>3, LoopStep
<1> QED
  BY <1>2, <1>3 DEF EnterLoop

LEMMA ResumeStep ==
  ASSUME MissionInv, NEW r \in Runs, ResumeWaiting(r)
  PROVE  MissionInv'
<1> DEFINE item == LastOf(Waiting(attempts))
           row == approval[item.step]
<1>1. Waiting(attempts) # {} /\ status = "waiting_approval" /\ Orderly(attempts) /\ Truthful(attempts)
  BY DEF ResumeWaiting, MissionInv
<1>2. item \in Waiting(attempts)
  BY <1>1, LastOfIsLast DEF Orderly
<1>3. item \in attempts /\ item.step \in Steps /\ item.number \in Nat /\ item.at \in Nat
      /\ Grounded(item.step)
  BY <1>1, <1>2 DEF Waiting, Orderly, Truthful, Attempt
<1>4. /\ \/ row = "asked" /\ EndRun(r, attempts, status)
         \/ row = "ok" /\ EnterLoop(r, AddAttempt(attempts, item, "completed"))
         \/ EndRun(r, AddAttempt(attempts, item, "failed"), "failed")
      /\ UNCHANGED <<decision, overtime, outcome, completions, effects, approval>>
  BY DEF ResumeWaiting, Waiting
<1> HIDE DEF item
<1>5. ASSUME NEW st \in {"completed", "failed"}, st = "completed" => completions[item.step] > 0
      PROVE  LET att == AddAttempt(attempts, item, st)
             IN Orderly(att) /\ Truthful(att) /\ attempts \subseteq att
  <2> DEFINE att == AddAttempt(attempts, item, st)
  <2>1. Orderly(att) /\ Adds(attempts, att, item.step, st)
    BY <1>1, <1>3, AddKeepsOrder
  <2>2. Truthful(att)
    BY <1>1, <1>3, <1>5, <2>1 DEF Truthful, Adds
  <2> QED
    BY <2>1, <2>2 DEF Adds
<1>6. CASE row = "asked" /\ EndRun(r, attempts, status)
  BY <1>1, <1>4, <1>6, EndStep DEF MissionInv, TypeOK
<1>7. CASE row = "ok" /\ EnterLoop(r, AddAttempt(attempts, item, "completed"))
  <2>1. completions[item.step] > 0
    BY <1>3, <1>7 DEF MissionInv
  <2> QED
    BY <1>4, <1>5, <1>7, <2>1, EnterStep
<1>8. CASE EndRun(r, AddAttempt(attempts, item, "failed"), "failed")
  <2>1. "failed" \in MissionStatuses
    BY DEF MissionStatuses, Terminal
  <2> QED
    BY <1>4, <1>5, <1>8, <2>1, EndStep
<1> QED
  BY <1>4, <1>6, <1>7, <1>8

LEMMA ReturnStep ==
  ASSUME MissionInv, NEW r \in Runs, StepReturns(r)
  PROVE  MissionInv'
<1> DEFINE c == cur[r]
<1>1. /\ c \in Execution /\ did[r] < StepsPerRun /\ Grounded(c.step)
      /\ Orderly(attempts) /\ Truthful(attempts) /\ status \in MissionStatuses
      /\ got[r] = "ok" => completions[c.step] > 0
      /\ status = "waiting_approval" => Waiting(attempts) # {}
      /\ did[r] \in 0..StepsPerRun
  BY DEF StepReturns, MissionInv, Flying, TypeOK
<1>2. c.step \in Steps /\ c.number \in Nat /\ c.at \in Nat /\ did[r] + 1 \in 0..StepsPerRun
  BY <1>1, MissionAssumption DEF Execution
<1>3. ASSUME NEW st \in {"waiting", "completed", "failed"}, st = "completed" => completions[c.step] > 0
      PROVE  LET att == AddAttempt(attempts, c, st)
             IN /\ Orderly(att) /\ Truthful(att) /\ attempts \subseteq att
                /\ st = "waiting" \/ status = "waiting_approval" => Waiting(att) # {}
  <2> DEFINE att == AddAttempt(attempts, c, st)
  <2>1. Orderly(att) /\ Adds(attempts, att, c.step, st)
    BY <1>1, <1>2, AddKeepsOrder
  <2>2. Truthful(att)
    BY <1>1, <1>3, <2>1 DEF Truthful, Adds
  <2>3. st = "waiting" \/ status = "waiting_approval" => Waiting(att) # {}
    BY <1>1, <2>1 DEF Waiting, Adds
  <2> QED
    BY <2>1, <2>2, <2>3 DEF Adds
<1>4. /\ \/ got[r] = "pending" /\ EndRun(r, AddAttempt(attempts, c, "waiting"), "waiting_approval")
         \/ got[r] = "ok" /\ Loop(r, AddAttempt(attempts, c, "completed"), did[r] + 1, status)
         \/ EndRun(r, AddAttempt(attempts, c, "failed"), "failed")
         \/ Loop(r, AddAttempt(attempts, c, "failed"), did[r] + 1, status)
      /\ UNCHANGED <<decision, overtime, outcome, completions, effects, approval>>
  BY DEF StepReturns
<1>5. {"waiting_approval", "failed"} \subseteq MissionStatuses
  BY DEF MissionStatuses, Terminal
<1> HIDE DEF c
<1>6. CASE EndRun(r, AddAttempt(attempts, c, "waiting"), "waiting_approval")
  BY <1>3, <1>4, <1>5, <1>6, EndStep
<1>7. CASE got[r] = "ok" /\ Loop(r, AddAttempt(attempts, c, "completed"), did[r] + 1, status)
  BY <1>1, <1>2, <1>3, <1>4, <1>7, LoopStep
<1>8. CASE EndRun(r, AddAttempt(attempts, c, "failed"), "failed")
  BY <1>3, <1>4, <1>5, <1>8, EndStep
<1>9. CASE Loop(r, AddAttempt(attempts, c, "failed"), did[r] + 1, status)
  BY <1>1, <1>2, <1>3, <1>4, <1>9, LoopStep
<1> QED
  BY <1>4, <1>6, <1>7, <1>8, <1>9

LEMMA ExecuteStepKeeps ==
  ASSUME MissionInv, NEW r \in Runs, ExecuteStep(r)
  PROVE  MissionInv'
<1> DEFINE s == cur[r].step
<1>1. /\ pc[r] = "executing" /\ pc' = [pc EXCEPT ![r] = "returned"]
      /\ UNCHANGED <<status, decision, attempts, outcome, clock, overtime, cur, did>>
  BY DEF ExecuteStep, storeVars
<1>2. TypeOK /\ s \in Steps /\ Grounded(s)
  BY <1>1 DEF MissionInv, Flying, Execution
<1>3. /\ completions' \in [Steps -> Nat] /\ \A t \in Steps : completions'[t] >= completions[t]
      /\ effects' \in [Steps -> Nat] /\ \A t \in Steps : effects'[t] >= effects[t]
      /\ got' \in [Runs -> {"pending", "ok", "failed", None}]
      /\ approval' \in [Steps -> {"new", "asked", "ok", "failed", "refused"}]
  BY <1>2 DEF ExecuteStep, TypeOK
<1>4. /\ \A q \in Runs \ {r} : got'[q] = got[q]
      /\ got'[r] = "ok" => completions'[s] > 0
  BY <1>2 DEF ExecuteStep, TypeOK
<1>5. \A t \in Steps \ {s} : /\ completions'[t] = completions[t] /\ effects'[t] = effects[t]
                           /\ approval'[t] = approval[t]
  BY <1>2 DEF ExecuteStep, TypeOK
<1>6. \A t \in Steps : approval'[t] = "ok" => approval[t] = "ok"
  BY <1>2 DEF ExecuteStep, TypeOK
<1>7. \A t \in Steps : completions[t] \in Nat /\ completions'[t] \in Nat /\ (completions[t] > 0 => completions'[t] > 0)
  BY <1>2, <1>3 DEF TypeOK
<1>8. \A t \in Steps : Grounded(t) => Grounded(t)'
  BY <1>7, DepsAreSteps DEF Grounded
<1>9. TypeOK'
  BY <1>1, <1>2, <1>3 DEF TypeOK
<1>10. (Orderly(attempts) /\ Truthful(attempts))'
  <2>1. Orderly(attempts)' /\ \A x \in attempts : x.step \in Steps
    BY <1>1 DEF MissionInv, Orderly, Attempt
  <2> QED
    BY <1>1, <1>7, <1>8, <2>1 DEF MissionInv, Truthful
<1>11. \A q \in Runs : Flying(q)' =>
         Flying(q) /\ cur'[q] \in Execution /\ did'[q] < StepsPerRun /\ Grounded(cur[q].step)'
  <2>1. \A q \in Runs : Flying(q)' => Flying(q)
    BY <1>1, <1>2 DEF Flying, TypeOK
  <2> QED
    BY <1>1, <1>8, <2>1 DEF MissionInv, Execution
<1>12. \A q \in Runs : pc'[q] = "returned" /\ got'[q] = "ok" => completions'[cur'[q].step] > 0
  <2>1. ASSUME NEW q \in Runs \ {r}, pc'[q] = "returned", got'[q] = "ok"
        PROVE  completions'[cur'[q].step] > 0
    <3>1. pc[q] = "returned" /\ got[q] = "ok" /\ Flying(q)
      BY <1>1, <1>2, <1>4, <2>1 DEF TypeOK, Flying
    <3>2. cur[q].step \in Steps /\ completions[cur[q].step] > 0
      BY <3>1 DEF MissionInv, Execution
    <3> QED
      BY <1>1, <1>7, <3>2
  <2> QED
    BY <1>1, <1>4, <2>1
<1>13. \A t \in Steps : approval'[t] = "ok" => completions'[t] > 0
  BY <1>6, <1>7 DEF MissionInv
<1>14. \A t \in Steps : approval'[t] # "new" \/ effects'[t] > 0 => Grounded(t)'
  BY <1>2, <1>5, <1>8 DEF MissionInv
<1>15. \A t \in Steps : completions'[t] > 0 => effects'[t] > 0
  <2>1. \/ UNCHANGED completions
        \/ /\ completions' = [completions EXCEPT ![s] = @ + 1]
           /\ effects' = [effects EXCEPT ![s] = @ + 1]
    BY DEF ExecuteStep
  <2>2. \A t \in Steps : effects[t] \in Nat /\ effects'[t] \in Nat
    BY <1>2, <1>3 DEF TypeOK
  <2> QED
    BY <1>2, <1>3, <2>1, <2>2 DEF MissionInv, TypeOK
<1> QED
  BY <1>1, <1>9, <1>10, <1>11, <1>12, <1>13, <1>14, <1>15 DEF MissionInv

LEMMA SettleStep ==
  ASSUME MissionInv, NEW s \in Steps, NEW answer \in {"ok", "failed", "refused"},
         SettleApproval(s, answer)
  PROVE  MissionInv'
<1>1. /\ approval[s] = "asked" /\ approval' = [approval EXCEPT ![s] = answer]
      /\ completions' = [completions EXCEPT ![s] = IF answer = "ok" THEN @ + 1 ELSE @]
      /\ \/ effects' = [effects EXCEPT ![s] = @ + 1]
         \/ answer # "ok" /\ UNCHANGED effects
      /\ UNCHANGED <<status, decision, attempts, outcome, clock, overtime, pc, cur, did, got>>
  BY DEF SettleApproval, storeVars, runVars
<1>2. TypeOK /\ Grounded(s)
  BY <1>1 DEF MissionInv
<1>3. TypeOK'
  BY <1>1, <1>2 DEF TypeOK
<1>4. \A t \in Steps : /\ completions[t] > 0 => completions'[t] > 0
                       /\ approval'[t] = "ok" => completions'[t] > 0 \/ approval[t] = "ok"
  BY <1>1, <1>2 DEF TypeOK
<1>5. \A t \in Steps \ {s} : /\ completions'[t] = completions[t] /\ effects'[t] = effects[t]
                           /\ approval'[t] = approval[t]
  BY <1>1, <1>2 DEF TypeOK
<1>6. \A t \in Steps : Grounded(t) => Grounded(t)'
  BY <1>4, DepsAreSteps DEF Grounded
<1>7. (Orderly(attempts) /\ Truthful(attempts))'
  <2>1. Orderly(attempts)' /\ \A x \in attempts : x.step \in Steps
    BY <1>1 DEF MissionInv, Orderly, Attempt
  <2> QED
    BY <1>1, <1>4, <1>6, <2>1 DEF MissionInv, Truthful
<1>8. \A q \in Runs : Flying(q)' =>
        cur'[q] \in Execution /\ did'[q] < StepsPerRun /\ Grounded(cur[q].step)'
  BY <1>1, <1>6 DEF MissionInv, Flying, Execution
<1>9. \A q \in Runs : pc'[q] = "returned" /\ got'[q] = "ok" => completions'[cur'[q].step] > 0
  BY <1>1, <1>4 DEF MissionInv, Flying, Execution
<1>10. \A t \in Steps : approval'[t] # "new" \/ effects'[t] > 0 => Grounded(t)'
  BY <1>2, <1>5, <1>6 DEF MissionInv
<1>12. \A t \in Steps : completions'[t] > 0 => effects'[t] > 0
  <2>1. effects'[s] >= effects[s] /\ (answer = "ok" => effects'[s] > 0)
    BY <1>1, <1>2 DEF TypeOK
  <2>2. effects[s] \in Nat /\ effects'[s] \in Nat /\ (answer # "ok" => completions'[s] = completions[s])
    BY <1>1, <1>2, <1>3 DEF TypeOK
  <2>3. completions'[s] > 0 => effects'[s] > 0
    BY <2>1, <2>2 DEF MissionInv
  <2> QED
    BY <1>5, <2>3 DEF MissionInv
<1>11. \A t \in Steps : approval'[t] = "ok" => completions'[t] > 0
  BY <1>4 DEF MissionInv
<1> QED
  BY <1>1, <1>3, <1>7, <1>8, <1>9, <1>10, <1>11, <1>12 DEF MissionInv

\* What operators and time do leaves rows, completions and approvals alone.
LEMMA OutsideStep ==
  ASSUME MissionInv, UNCHANGED <<attempts, clock, cur, did, got, completions, effects, approval>>,
         status' \in MissionStatuses, status' = "waiting_approval" => status = "waiting_approval",
         decision' \in {"approve", "reject", None}, overtime' \in BOOLEAN, outcome' \in BOOLEAN,
         pc' \in [Runs -> {"idle", "executing", "returned", "done", "lost"}],
         \A r \in Runs : pc'[r] \in {pc[r], "done", "lost"}
  PROVE  MissionInv'
<1>1. TypeOK'
  BY DEF MissionInv, TypeOK
<1>2. \A r \in Runs : Flying(r)' => Flying(r)
  BY DEF Flying
<1>3. \A r \in Runs : pc'[r] = "returned" => pc[r] = "returned"
  OBVIOUS
<1>4. (Orderly(attempts) /\ Truthful(attempts))'
  BY DEF MissionInv, Orderly, Truthful, Grounded
<1> QED
  BY <1>1, <1>2, <1>3, <1>4 DEF MissionInv, Grounded

LEMMA MissionStep == MissionInv /\ [Next]_vars => MissionInv'
<1> SUFFICES ASSUME MissionInv, [Next]_vars PROVE MissionInv'
  OBVIOUS
<1>0. TypeOK /\ {"approved", "rejected", "paused", "cancelled"} \subseteq MissionStatuses
  BY DEF MissionInv, MissionStatuses, Terminal
<1>1. CASE UNCHANGED vars
  BY <1>0, <1>1, OutsideStep DEF vars, storeVars, runVars, TypeOK
<1>2. ASSUME NEW r \in Runs, RunRefused(r) \/ Crash(r)
      PROVE  MissionInv'
  <2>1. /\ UNCHANGED <<status, decision, outcome, overtime, attempts, clock, cur, did, got, completions, effects, approval>>
        /\ pc' = [pc EXCEPT ![r] = "done"] \/ pc' = [pc EXCEPT ![r] = "lost"]
    BY <1>2 DEF RunRefused, Crash, storeVars
  <2>2. /\ pc' \in [Runs -> {"idle", "executing", "returned", "done", "lost"}]
        /\ \A q \in Runs : pc'[q] \in {pc[q], "done", "lost"}
    BY <1>0, <2>1 DEF TypeOK
  <2> QED
    BY <1>0, <2>1, <2>2, OutsideStep DEF TypeOK
<1>3. ASSUME NEW r \in Runs, StartRun(r)
      PROVE  MissionInv'
  <2>1. EnterLoop(r, attempts) /\ UNCHANGED <<decision, overtime, outcome, completions, effects, approval>>
    BY <1>3 DEF StartRun
  <2>2. Orderly(attempts) /\ Truthful(attempts)
    BY DEF MissionInv
  <2> QED
    BY <2>1, <2>2, EnterStep
<1>4. CASE DecisionRoute
  <2>1. PICK answer \in {"approve", "reject"} : Decide(answer)
    BY <1>4 DEF DecisionRoute
  <2>2. /\ UNCHANGED <<outcome, overtime, attempts, clock, pc, cur, did, got, completions, effects, approval>>
        /\ status' \in {"approved", "rejected"} /\ decision' \in {"approve", "reject", None}
    BY <1>0, <2>1 DEF Decide, AddDecision, Transition, runVars, TypeOK
  <2> QED
    BY <1>0, <2>2, OutsideStep DEF TypeOK
<1>5. CASE ControlRoutes
  <2>1. /\ UNCHANGED <<outcome, decision, overtime, attempts, clock, pc, cur, did, got, completions, effects, approval>>
        /\ status' \in {"paused", "cancelled"}
    BY <1>5 DEF ControlRoutes, Pause, Cancel, Transition, runVars
  <2> QED
    BY <1>0, <2>1, OutsideStep DEF TypeOK
<1>6. CASE Finalize \/ DurationPasses
  <2>1. /\ UNCHANGED <<status, decision, attempts, clock, pc, cur, did, got, completions, effects, approval>>
        /\ overtime' \in {overtime, TRUE} /\ outcome' \in {outcome, TRUE}
    BY <1>6 DEF Finalize, DurationPasses, storeVars, runVars
  <2>2. overtime' \in BOOLEAN /\ outcome' \in BOOLEAN
    BY <1>0, <2>1, Zenon DEF TypeOK
  <2> QED
    BY <1>0, <2>1, <2>2, OutsideStep DEF TypeOK
<1> QED
  BY <1>1, <1>2, <1>3, <1>4, <1>5, <1>6, ResumeStep, ReturnStep, ExecuteStepKeeps, SettleStep
  DEF Next, RunRoute

LEMMA MissionInvariant == Spec => []MissionInv
<1>1. Init => MissionInv
  BY MissionInit
<1>2. MissionInv /\ [Next]_vars => MissionInv'
  BY MissionStep
<1> QED
  BY <1>1, <1>2, PTL DEF Spec

\* Every reachable state of a mission, its runs and its approvals is well typed.
THEOREM MissionTypeCorrect == Spec => []TypeOK
<1>1. MissionInv => TypeOK
  BY DEF MissionInv
<1> QED
  BY <1>1, MissionInvariant, PTL

\* However runs, controls and decisions overlap and whatever crashes, a step
\* that the store reports completed was carried out, after the steps it depends on
\* (_next_step, _resume_waiting_approval and run of orchestrator.py).
THEOREM CompletedIsTruthful == Spec => []CompletedTruthful
<1>1. MissionInv => CompletedTruthful
  BY MissionInvTruthful
<1> QED
  BY <1>1, MissionInvariant, PTL

-----------------------------------------------------------------------------
(* The review comes first. *)

\* A mission that was executed, or that is no longer where a review can leave
\* it without approval, was approved.
ReviewInv ==
    (clock > 0 \/ status \notin {"review_required", "rejected", "cancelled"} \/ InFlight)
        => decision = "approve"

LEMMA ReviewStep ==
  ASSUME "review" \notin Overlaps, TypeOK, ReviewInv, [Next]_vars
  PROVE  ReviewInv'
<1>1. ASSUME NEW r \in Runs, StartRun(r) \/ ResumeWaiting(r) \/ ExecuteStep(r) \/ StepReturns(r)
      PROVE  ReviewInv'
  <2>1. decision = "approve"
    BY <1>1 DEF StartRun, ResumeWaiting, ExecuteStep, StepReturns, ReviewInv, InFlight
  <2>2. decision' = decision
    BY <1>1 DEF StartRun, ResumeWaiting, ExecuteStep, StepReturns, storeVars
  <2> QED
    BY <2>1, <2>2 DEF ReviewInv
<1>2. ASSUME UNCHANGED <<status, decision, clock>>, InFlight' => InFlight
      PROVE  ReviewInv'
  BY <1>2 DEF ReviewInv
<1>3. ASSUME NEW r \in Runs, RunRefused(r) \/ Crash(r)
      PROVE  ReviewInv'
  <2>1. /\ UNCHANGED <<status, decision, clock>>
        /\ pc' = [pc EXCEPT ![r] = "done"] \/ pc' = [pc EXCEPT ![r] = "lost"]
    BY <1>3 DEF RunRefused, Crash, storeVars
  <2>2. InFlight' => InFlight
    BY <2>1 DEF InFlight, TypeOK
  <2> QED
    BY <1>2, <2>1, <2>2
<1>4. CASE DecisionRoute
  <2>1. PICK answer \in {"approve", "reject"} : Decide(answer)
    BY <1>4 DEF DecisionRoute
  <2>2. /\ decision = None /\ decision' = answer /\ UNCHANGED <<clock, pc>>
        /\ status' = IF answer = "approve" THEN "approved" ELSE "rejected"
    BY <2>1 DEF Decide, AddDecision, Transition, runVars
  <2>3. ~(clock > 0) /\ ~InFlight
    BY <2>2, MissionAssumption DEF ReviewInv
  <2>4. ~(clock' > 0) /\ ~InFlight'
    BY <2>2, <2>3 DEF InFlight
  <2> QED
    BY <2>2, <2>4 DEF ReviewInv
<1>5. CASE Pause
  <2>1. status \notin {"review_required", "rejected", "cancelled"} /\ UNCHANGED decision
    BY <1>5 DEF Pause, Terminal
  <2> QED
    BY <2>1 DEF ReviewInv
<1>6. CASE Cancel
  <2>1. status' = "cancelled" /\ UNCHANGED <<decision, clock, pc>>
    BY <1>6 DEF Cancel, Transition, runVars
  <2> QED
    BY <2>1 DEF ReviewInv, InFlight
<1>7. CASE UNCHANGED <<status, decision, clock, pc>>
  BY <1>2, <1>7 DEF InFlight
<1>8. ASSUME NEW s \in Steps, NEW answer, SettleApproval(s, answer)
      PROVE  ReviewInv'
  BY <1>7, <1>8 DEF SettleApproval, storeVars, runVars
<1>9. CASE Finalize \/ DurationPasses \/ UNCHANGED vars
  BY <1>7, <1>9 DEF Finalize, DurationPasses, vars, storeVars, runVars
<1> QED
  BY <1>1, <1>3, <1>4, <1>5, <1>6, <1>8, <1>9 DEF Next, RunRoute, ControlRoutes

\* No step is executed before the plan was approved, however runs, controls
\* and decisions overlap and whatever crashes, as long as nobody pauses a
\* mission that is under review: that pause is the one way around it (run and
\* pause of orchestrator.py).
THEOREM ReviewComesFirst ==
  ASSUME "review" \notin Overlaps
  PROVE  Spec => []ApprovedBeforeExecution
<1>1. Init => ReviewInv
  BY DEF Init, ReviewInv, InFlight
<1>2. TypeOK /\ ReviewInv /\ [Next]_vars => ReviewInv'
  BY ReviewStep
<1>3. ReviewInv => ApprovedBeforeExecution
  BY DEF ReviewInv, ApprovedBeforeExecution
<1> QED
  BY <1>1, <1>2, <1>3, MissionTypeCorrect, PTL DEF Spec

-----------------------------------------------------------------------------
(* One operator's runs repeat no effect. *)

Finished(att, s) == \E x \in att : x.step = s /\ x.st = "completed"

\* A step without approval that was once completed still is; only actions
\* that need an approval wait for one.
Solid(att) ==
    \A x \in att :
        /\ x.st = "completed" /\ x.step \notin Gated => x.step \in Completed(att)
        /\ x.st = "waiting" => x.step \in Gated

\* Effects are counted once: by the approval, or by one execution.
Counted ==
    /\ \A s \in Steps : completions[s] <= 1
    /\ \A s \in Gated : completions[s] > 0 => approval[s] = "ok"
    /\ \A s \in Steps \ Gated : approval[s] = "new"

\* Every effect of a step without approval is in the rows, which are all older
\* than the next execution.
Recorded(att) ==
    /\ Solid(att)
    /\ \A x \in att : x.at < clock
    /\ \A s \in Steps \ Gated : completions[s] > 0 => Finished(att, s)

\* A step in flight is not done, and younger than every row.
Fresh(r) ==
    /\ cur[r].step \in Gated \/ cur[r].step \notin Completed(attempts)
    /\ cur[r].at < clock
    /\ \A x \in attempts : x.at < cur[r].at

OnceInv ==
    /\ Counted
    /\ \A q, r \in Runs : Flying(q) /\ Flying(r) => q = r
    /\ \A r \in Runs : Flying(r) => Fresh(r)
    /\ \A r \in Runs : pc[r] = "returned" /\ got[r] = "pending" => cur[r].step \in Gated
    /\ Solid(attempts) /\ \A x \in attempts : x.at < clock
    /\ \A s \in Steps \ Gated : completions[s] > 0 =>
          \/ Finished(attempts, s)
          \/ \E r \in Runs : pc[r] = "returned" /\ got[r] = "ok" /\ cur[r].step = s

LEMMA AddSolid ==
  ASSUME NEW att, Orderly(att), Solid(att), NEW c, c.step \in Steps, c.number \in Nat, c.at \in Nat,
         NEW st \in {"waiting", "completed", "failed"},
         \/ c.step \in Gated
         \/ c.step \notin Completed(att) /\ st # "waiting" /\ \A x \in att : x.at < c.at
  PROVE  Solid(AddAttempt(att, c, st))
<1> DEFINE z == [row |-> Cardinality(att), step |-> c.step, number |-> c.number,
                 at |-> c.at, st |-> st]
           new == AddAttempt(att, c, st)
<1>1. new = att \cup {z} /\ z.step = c.step /\ z.st = st /\ z.at = c.at
  BY DEF AddAttempt
<1>2. Orderly(new)
  BY AddKeepsOrder
<1> HIDE DEF z, new
<1>3. ASSUME NEW x \in new, x.st = "completed", x.step \notin Gated
      PROVE  x.step \in Completed(new)
  <2>1. x.step \in Steps
    BY <1>2 DEF Orderly, Attempt
  <2>2. CASE x.step # c.step
    <3>1. AttemptsOn(new, x.step) = AttemptsOn(att, x.step) /\ x \in att
      BY <1>1, <2>2 DEF AttemptsOn
    <3>2. x.step \in Completed(att)
      BY <1>3, <3>1 DEF Solid
    <3> QED
      BY <3>1, <3>2 DEF Completed, LatestIs
  <2>3. CASE x.step = c.step
    <3>1. c.step \notin Completed(att) /\ \A y \in att : y.at < c.at
      BY <1>3, <2>3
    <3>2. x = z
      BY <1>1, <1>3, <2>3, <3>1 DEF Solid
    <3> DEFINE S == AttemptsOn(new, c.step)
    <3>3. z \in S /\ S \subseteq new /\ HasLast(S)
      BY <1>1, <1>2 DEF AttemptsOn, Orderly
    <3>4. LastOf(S) \in S /\ \A y \in S \ {LastOf(S)} : After(LastOf(S), y)
      BY <3>3, LastOfIsLast
    <3>5. \A y \in new : y.at \in Nat
      BY <1>2 DEF Orderly, Attempt
    <3>6. LastOf(S) = z
      <4> DEFINE last == LastOf(S)
      <4> HIDE DEF last
      <4>1. SUFFICES ASSUME last # z PROVE FALSE
        BY DEF last
      <4>2. last \in new /\ After(last, z)
        BY <3>3, <3>4, <4>1 DEF last
      <4>3. last \in att /\ last.at \in Nat /\ z.at \in Nat
        BY <1>1, <3>3, <3>5, <4>1, <4>2
      <4> QED
        BY <1>1, <3>1, <4>2, <4>3 DEF After
    <3> QED
      BY <1>3, <2>1, <2>3, <3>2, <3>3, <3>6 DEF Completed, LatestIs
  <2> QED
    BY <2>2, <2>3
<1>4. ASSUME NEW x \in new, x.st = "waiting"
      PROVE  x.step \in Gated
  BY <1>1, <1>4 DEF Solid
<1> QED
  BY <1>3, <1>4 DEF Solid, new

\* A run that goes on, alone, from rows that record every effect.
LEMMA OnceLoop ==
  ASSUME TypeOK, Counted, NEW r \in Runs, NEW att, Orderly(att), Truthful(att), Recorded(att),
         \A q \in Runs \ {r} : ~Flying(q), NEW n, NEW found,
         Loop(r, att, n, found), UNCHANGED <<completions, effects, approval>>
  PROVE  OnceInv'
<1> DEFINE e == [step |-> NextStep(att), number |-> NextAttemptNumber(att, NextStep(att)), at |-> clock]
<1>1. attempts' = att /\ got' = [got EXCEPT ![r] = None] /\ clock \in Nat
  BY DEF Loop, TypeOK
<1>2. Counted'
  BY DEF Counted
<1>3. \A x \in att : x.at \in Nat /\ x.at < clock
  BY DEF Orderly, Attempt, Recorded
<1>4. Solid(attempts)' /\ \A s \in Steps \ Gated : completions'[s] > 0 => Finished(attempts, s)'
  BY <1>1 DEF Recorded, Solid, Completed, Finished
<1>5. CASE /\ Verdict(att, n) = "go" /\ clock' = clock + 1
           /\ pc' = [pc EXCEPT ![r] = "executing"] /\ cur' = [cur EXCEPT ![r] = e]
  <2>1. cur'[r].step \notin Completed(att) /\ cur'[r].at = clock
    BY <1>5, StartedStep DEF TypeOK
  <2>2. \A q \in Runs : Flying(q)' => q = r
    BY <1>5 DEF Flying, TypeOK
  <2>3. Fresh(r)'
    BY <1>1, <1>3, <1>5, <2>1 DEF Fresh
  <2>4. pc'[r] # "returned" /\ \A x \in attempts' : x.at < clock'
    BY <1>1, <1>3, <1>5 DEF TypeOK
  <2> QED
    BY <1>2, <1>4, <2>2, <2>3, <2>4 DEF OnceInv, Flying
<1>6. CASE pc' = [pc EXCEPT ![r] = "done"] /\ UNCHANGED <<cur, clock>>
  <2>1. \A q \in Runs : ~Flying(q)'
    BY <1>6 DEF Flying, TypeOK
  <2> QED
    BY <1>1, <1>2, <1>3, <1>4, <1>6, <2>1 DEF OnceInv, Flying
<1> QED
  BY <1>5, <1>6 DEF Loop

LEMMA OnceEnd ==
  ASSUME TypeOK, Counted, NEW r \in Runs, NEW att, Recorded(att),
         \A q \in Runs \ {r} : ~Flying(q), NEW to,
         EndRun(r, att, to), UNCHANGED <<completions, effects, approval>>
  PROVE  OnceInv'
<1>1. attempts' = att /\ pc' = [pc EXCEPT ![r] = "done"] /\ clock' = clock
  BY DEF EndRun
<1>2. \A q \in Runs : ~Flying(q)'
  BY <1>1 DEF Flying, TypeOK
<1>3. Counted'
  BY DEF Counted
<1>4. /\ Solid(attempts)' /\ \A s \in Steps \ Gated : completions'[s] > 0 => Finished(attempts, s)'
      /\ \A x \in attempts' : x.at < clock'
  BY <1>1 DEF Recorded, Solid, Completed, Finished
<1> QED
  BY <1>2, <1>3, <1>4 DEF OnceInv, Flying

\* With no run in flight, the rows record every effect.
LEMMA RestIsRecorded ==
  ASSUME OnceInv, ~InFlight
  PROVE  Recorded(attempts) /\ \A q \in Runs : ~Flying(q)
BY DEF OnceInv, InFlight, Flying, Recorded

LEMMA OnceEnter ==
  ASSUME TypeOK, Counted, NEW r \in Runs, NEW att, Orderly(att), Truthful(att), Recorded(att),
         \A q \in Runs : ~Flying(q),
         EnterLoop(r, att), UNCHANGED <<completions, effects, approval>>
  PROVE  OnceInv'
<1>1. CASE EndRun(r, att, "stopped")
  BY <1>1, OnceEnd
<1>2. CASE Loop(r, att, 0, "running")
  BY <1>2, OnceLoop
<1> QED
  BY <1>1, <1>2 DEF EnterLoop

LEMMA OnceResume ==
  ASSUME MissionInv, OnceInv, "run" \notin Overlaps, NEW r \in Runs, ResumeWaiting(r)
  PROVE  OnceInv'
<1> DEFINE item == LastOf(Waiting(attempts))
           row == approval[item.step]
<1>1. /\ Waiting(attempts) # {} /\ Orderly(attempts) /\ Truthful(attempts) /\ TypeOK /\ Counted
      /\ Recorded(attempts) /\ \A q \in Runs : ~Flying(q)
  BY RestIsRecorded DEF ResumeWaiting, MissionInv, OnceInv, Alone
<1>2. item \in Waiting(attempts)
  BY <1>1, LastOfIsLast DEF Orderly
<1>3. /\ item \in attempts /\ item.step \in Steps /\ item.number \in Nat /\ item.at \in Nat
      /\ item.at < clock /\ item.step \in Gated /\ Grounded(item.step)
  BY <1>1, <1>2 DEF Waiting, Orderly, Recorded, Solid, Truthful, Attempt
<1>4. /\ \/ EndRun(r, attempts, status)
         \/ row = "ok" /\ EnterLoop(r, AddAttempt(attempts, item, "completed"))
         \/ EndRun(r, AddAttempt(attempts, item, "failed"), "failed")
      /\ UNCHANGED <<completions, effects, approval>>
  BY DEF ResumeWaiting, Waiting
<1> HIDE DEF item
<1>5. ASSUME NEW st \in {"completed", "failed"}
      PROVE  LET att == AddAttempt(attempts, item, st)
             IN Orderly(att) /\ Recorded(att) /\ (st = "completed" /\ row = "ok" => Truthful(att))
  <2> DEFINE att == AddAttempt(attempts, item, st)
  <2>1. Orderly(att) /\ Adds(attempts, att, item.step, st)
    BY <1>1, <1>3, AddKeepsOrder
  <2>2. Solid(att)
    BY <1>1, <1>3, AddSolid DEF Recorded
  <2>3. \A x \in att : x.at < clock
    BY <1>1, <1>3 DEF AddAttempt, Recorded
  <2>4. Recorded(att)
    BY <1>1, <2>1, <2>2, <2>3 DEF Recorded, Finished, Adds
  <2>5. row = "ok" => completions[item.step] > 0
    BY <1>3 DEF MissionInv
  <2>6. row = "ok" => Truthful(att)
    BY <1>1, <1>3, <2>1, <2>5 DEF Truthful, Adds
  <2> QED
    BY <2>1, <2>4, <2>6
<1>6. CASE EndRun(r, attempts, status)
  BY <1>1, <1>4, <1>6, OnceEnd
<1>7. CASE row = "ok" /\ EnterLoop(r, AddAttempt(attempts, item, "completed"))
  BY <1>1, <1>4, <1>5, <1>7, OnceEnter
<1>8. CASE EndRun(r, AddAttempt(attempts, item, "failed"), "failed")
  BY <1>1, <1>4, <1>5, <1>8, OnceEnd
<1> QED
  BY <1>4, <1>6, <1>7, <1>8

LEMMA OnceReturn ==
  ASSUME MissionInv, OnceInv, NEW r \in Runs, StepReturns(r)
  PROVE  OnceInv'
<1> DEFINE c == cur[r]
<1>1. /\ pc[r] = "returned" /\ c \in Execution /\ Grounded(c.step) /\ Flying(r)
      /\ Orderly(attempts) /\ Truthful(attempts) /\ TypeOK
      /\ got[r] = "ok" => completions[c.step] > 0
  BY DEF StepReturns, MissionInv, Flying
<1>2. c.step \in Steps /\ c.number \in Nat /\ c.at \in Nat
  BY <1>1 DEF Execution
<1>3. /\ Counted /\ Solid(attempts) /\ \A x \in attempts : x.at < clock
      /\ c.step \in Gated \/ c.step \notin Completed(attempts)
      /\ c.at < clock /\ \A x \in attempts : x.at < c.at
      /\ \A q \in Runs \ {r} : ~Flying(q)
      /\ got[r] = "pending" => c.step \in Gated
      /\ \A s \in Steps \ Gated : completions[s] > 0 => Finished(attempts, s) \/ (got[r] = "ok" /\ c.step = s)
  BY <1>1 DEF OnceInv, Fresh, Flying
<1>4. ASSUME NEW st \in {"waiting", "completed", "failed"}, st = "completed" <=> got[r] = "ok",
             st = "waiting" <=> got[r] = "pending"
      PROVE  LET att == AddAttempt(attempts, c, st)
             IN Orderly(att) /\ Truthful(att) /\ Recorded(att)
  <2> DEFINE att == AddAttempt(attempts, c, st)
  <2>1. Orderly(att) /\ Adds(attempts, att, c.step, st)
    BY <1>1, <1>2, AddKeepsOrder
  <2>2. Truthful(att)
    BY <1>1, <1>4, <2>1 DEF Truthful, Adds
  <2>3. Solid(att)
    BY <1>1, <1>2, <1>3, <1>4, AddSolid
  <2>4. \A x \in att : x.at < clock
    BY <1>3 DEF AddAttempt
  <2>5. \A s \in Steps \ Gated : completions[s] > 0 => Finished(att, s)
    BY <1>3, <1>4, <2>1 DEF Finished, Adds
  <2> QED
    BY <2>1, <2>2, <2>3, <2>4, <2>5 DEF Recorded
<1>5. /\ \/ got[r] = "pending" /\ EndRun(r, AddAttempt(attempts, c, "waiting"), "waiting_approval")
         \/ got[r] = "ok" /\ Loop(r, AddAttempt(attempts, c, "completed"), did[r] + 1, status)
         \/ got[r] = "failed" /\ EndRun(r, AddAttempt(attempts, c, "failed"), "failed")
         \/ got[r] = "failed" /\ Loop(r, AddAttempt(attempts, c, "failed"), did[r] + 1, status)
      /\ UNCHANGED <<completions, effects, approval>>
  BY DEF StepReturns
<1> HIDE DEF c
<1>6. CASE got[r] = "pending" /\ EndRun(r, AddAttempt(attempts, c, "waiting"), "waiting_approval")
  BY <1>1, <1>3, <1>4, <1>5, <1>6, OnceEnd
<1>7. CASE got[r] = "ok" /\ Loop(r, AddAttempt(attempts, c, "completed"), did[r] + 1, status)
  BY <1>1, <1>3, <1>4, <1>5, <1>7, OnceLoop
<1>8. CASE got[r] = "failed" /\ EndRun(r, AddAttempt(attempts, c, "failed"), "failed")
  BY <1>1, <1>3, <1>4, <1>5, <1>8, OnceEnd
<1>9. CASE got[r] = "failed" /\ Loop(r, AddAttempt(attempts, c, "failed"), did[r] + 1, status)
  BY <1>1, <1>3, <1>4, <1>5, <1>9, OnceLoop
<1> QED
  BY <1>5, <1>6, <1>7, <1>8, <1>9

LEMMA OnceExecute ==
  ASSUME MissionInv, OnceInv, NEW r \in Runs, ExecuteStep(r)
  PROVE  OnceInv'
<1> DEFINE s == cur[r].step
<1>1. /\ pc[r] = "executing" /\ pc' = [pc EXCEPT ![r] = "returned"]
      /\ UNCHANGED <<attempts, clock, cur>>
  BY DEF ExecuteStep, storeVars
<1>2. TypeOK /\ s \in Steps /\ Flying(r)
  BY <1>1 DEF MissionInv, Flying, Execution
<1>3. \A q \in Runs : Flying(q)' => q = r
  BY <1>1, <1>2 DEF OnceInv, Flying, TypeOK
<1>4. Fresh(r) /\ Fresh(r)'
  BY <1>1, <1>2 DEF OnceInv, Fresh, Completed
<1>5. Solid(attempts)' /\ \A t \in Steps : Finished(attempts, t) => Finished(attempts, t)'
  BY <1>1 DEF OnceInv, Solid, Completed, Finished
<1>6. \A t \in Steps \ Gated : completions[t] > 0 => Finished(attempts, t)
  BY <1>1, <1>2 DEF OnceInv, Flying
<1>7. s \notin Gated => ~Finished(attempts, s)
  BY <1>2, <1>4 DEF Fresh, Finished, OnceInv, Solid
<1>8. /\ completions \in [Steps -> Nat] /\ got \in [Runs -> {"pending", "ok", "failed", None}]
      /\ approval \in [Steps -> {"new", "asked", "ok", "failed", "refused"}]
  BY <1>2 DEF TypeOK
<1>9. Counted' /\ (got'[r] = "pending" => s \in Gated)
                /\ \A t \in Steps \ Gated : completions'[t] > 0 => completions[t] > 0 \/ (t = s /\ got'[r] = "ok")
  <2>1. Counted /\ (s \notin Gated => completions[s] = 0)
    BY <1>2, <1>6, <1>7, <1>8 DEF OnceInv
  <2>2. CASE s \in Gated /\ approval' = [approval EXCEPT ![s] = IF @ = "new" THEN "asked" ELSE @]
             /\ UNCHANGED completions /\ got' = [got EXCEPT ![r] = "pending"]
    BY <1>2, <1>8, <2>1, <2>2 DEF Counted
  <2>3. CASE s \notin Gated /\ completions' = [completions EXCEPT ![s] = @ + 1] /\ UNCHANGED approval
             /\ got' = [got EXCEPT ![r] = "ok"]
    BY <1>2, <1>8, <2>1, <2>3, MissionAssumption DEF Counted
  <2>4. CASE UNCHANGED <<completions, approval>> /\ got' = [got EXCEPT ![r] = "failed"]
    BY <1>2, <1>8, <2>1, <2>4 DEF Counted
  <2>5. \/ /\ s \in Gated /\ approval' = [approval EXCEPT ![s] = IF @ = "new" THEN "asked" ELSE @]
           /\ UNCHANGED completions /\ got' = [got EXCEPT ![r] = "pending"]
        \/ /\ s \notin Gated /\ completions' = [completions EXCEPT ![s] = @ + 1]
           /\ UNCHANGED approval /\ got' = [got EXCEPT ![r] = "ok"]
        \/ UNCHANGED <<completions, approval>> /\ got' = [got EXCEPT ![r] = "failed"]
    BY Zenon DEF ExecuteStep
  <2> HIDE DEF s
  <2> QED
    BY <2>2, <2>3, <2>4, <2>5
<1>10. pc'[r] = "returned" /\ cur'[r].step = s /\ \A q \in Runs : pc'[q] = "returned" => q = r
  BY <1>1, <1>2, <1>3 DEF TypeOK, Flying
<1>11. \A x \in attempts' : x.at < clock'
  BY <1>1 DEF OnceInv
<1> QED
  BY <1>3, <1>4, <1>5, <1>6, <1>9, <1>10, <1>11 DEF OnceInv

LEMMA OnceSettle ==
  ASSUME MissionInv, OnceInv, NEW s \in Steps, NEW answer \in {"ok", "failed", "refused"},
         SettleApproval(s, answer)
  PROVE  OnceInv'
<1>1. /\ approval[s] = "asked" /\ approval' = [approval EXCEPT ![s] = answer]
      /\ completions' = [completions EXCEPT ![s] = IF answer = "ok" THEN @ + 1 ELSE @]
      /\ UNCHANGED <<attempts, clock, pc, cur, got>>
  BY DEF SettleApproval, storeVars, runVars
<1>2. /\ completions \in [Steps -> Nat]
      /\ approval \in [Steps -> {"new", "asked", "ok", "failed", "refused"}]
  BY DEF MissionInv, TypeOK
<1>3. Counted /\ s \in Gated /\ completions[s] = 0
  BY <1>1, <1>2 DEF OnceInv, Counted
<1>4. Counted' /\ \A t \in Steps \ Gated : completions'[t] = completions[t]
  BY <1>1, <1>2, <1>3, MissionAssumption DEF Counted
<1> QED
  BY <1>1, <1>4 DEF OnceInv, Flying, Fresh, Solid, Completed, Finished

LEMMA OnceOutside ==
  ASSUME OnceInv, UNCHANGED <<attempts, clock, cur, got, completions, effects, approval>>,
         \A r \in Runs : pc'[r] = pc[r] \/ (~Flying(r) /\ pc'[r] = "done")
  PROVE  OnceInv'
<1>1. \A r \in Runs : Flying(r)' => Flying(r)
  BY DEF Flying
<1>2. \A r \in Runs : pc'[r] = "returned" <=> pc[r] = "returned"
  BY DEF Flying
<1> QED
  BY <1>1, <1>2 DEF OnceInv, Counted, Fresh, Solid, Completed, Finished

LEMMA OnceStep ==
  ASSUME {"run", "crash"} \cap Overlaps = {}, MissionInv, OnceInv, [Next]_vars
  PROVE  OnceInv'
<1>1. CASE UNCHANGED vars \/ DecisionRoute \/ ControlRoutes \/ Finalize \/ DurationPasses
  <2>1. UNCHANGED <<attempts, clock, cur, got, completions, effects, approval, pc>>
    BY <1>1 DEF vars, storeVars, runVars, DecisionRoute, Decide, ControlRoutes, Pause, Cancel,
                Finalize, DurationPasses
  <2> QED
    BY <2>1, OnceOutside
<1>2. ASSUME NEW r \in Runs, RunRefused(r)
      PROVE  OnceInv'
  <2>1. pc[r] = "idle" /\ pc' = [pc EXCEPT ![r] = "done"] /\ TypeOK
        /\ UNCHANGED <<attempts, clock, cur, got, completions, effects, approval>>
    BY <1>2 DEF RunRefused, storeVars, MissionInv
  <2>2. \A q \in Runs : pc'[q] = pc[q] \/ (~Flying(q) /\ pc'[q] = "done")
    BY <2>1 DEF TypeOK, Flying
  <2> QED
    BY <2>1, <2>2, OnceOutside
<1>3. ASSUME NEW r \in Runs, StartRun(r)
      PROVE  OnceInv'
  <2>1. EnterLoop(r, attempts) /\ UNCHANGED <<completions, effects, approval>> /\ ~InFlight
    BY <1>3 DEF StartRun, Alone
  <2>2. Orderly(attempts) /\ Truthful(attempts) /\ TypeOK /\ Counted
    BY DEF MissionInv, OnceInv
  <2> QED
    BY <2>1, <2>2, RestIsRecorded, OnceEnter
<1>4. ASSUME NEW r \in Runs, ResumeWaiting(r)
      PROVE  OnceInv'
  BY <1>4, OnceResume
<1>5. \A r \in Runs : ~Crash(r)
  BY DEF Crash
<1> QED
  BY <1>1, <1>2, <1>3, <1>4, <1>5, OnceReturn, OnceExecute, OnceSettle DEF Next, RunRoute

-----------------------------------------------------------------------------
(* What a mission makes of the answer to an approval, whatever overlaps.   *)

\* A gated step was carried out once if its approval says so, and not otherwise;
\* it had an effect only if it was carried out or failed; no other step asks for
\* approval.
GatedInv ==
    /\ \A s \in Gated : /\ completions[s] = IF approval[s] = "ok" THEN 1 ELSE 0
                        /\ effects[s] <= 1
                        /\ effects[s] > 0 => approval[s] \in {"ok", "failed"}
    /\ \A s \in Steps \ Gated : approval[s] = "new"

\* The action of a gated step takes effect at most once, and the store reports
\* the step completed only if its approval was answered so.
GatedOnAnswer ==
    \A s \in Gated : effects[s] <= 1 /\ (s \in Completed(attempts) => approval[s] = "ok")

\* A step of the answers, or none.
AskStep ==
    [Inquiry!Next]_<<[s \in Gated |-> approval[s]], [s \in Gated |-> completions[s] > 0]>>

\* Steps of the mission that neither execute nor settle anything.
LEMMA OffPath ==
  ASSUME [Next]_vars,
         \A r \in Runs : ~ExecuteStep(r),
         \A s \in Steps, answer \in {"ok", "failed", "refused"} : ~SettleApproval(s, answer)
  PROVE  UNCHANGED <<completions, effects, approval>>
BY DEF Next, RunRoute, RunRefused, StartRun, ResumeWaiting, StepReturns, Crash, DecisionRoute,
       Decide, ControlRoutes, Pause, Cancel, Finalize, DurationPasses, vars

LEMMA ExecuteAnswer ==
  ASSUME MissionInv, GatedInv, NEW r \in Runs, ExecuteStep(r)
  PROVE  GatedInv' /\ AskStep
<1> DEFINE ans == [t \in Gated |-> approval[t]]
           eff == [t \in Gated |-> completions[t] > 0]
<1>0. PICK s \in Steps : s = cur[r].step
  BY DEF MissionInv, Flying, Execution, ExecuteStep
<1>1. /\ completions \in [Steps -> Nat] /\ effects \in [Steps -> Nat] /\ Gated \subseteq Steps
      /\ approval \in [Steps -> {"new", "asked", "ok", "failed", "refused"}]
  BY MissionAssumption DEF MissionInv, TypeOK
<1>2. CASE s \in Gated /\ approval[s] = "new" /\ approval' = [approval EXCEPT ![s] = "asked"]
           /\ UNCHANGED <<completions, effects>>
  <2>1. GatedInv'
    BY <1>1, <1>2 DEF GatedInv
  <2>2. ans' = [ans EXCEPT ![s] = "asked"] /\ eff' = eff
    BY <1>1, <1>2
  <2>3. Inquiry!Ask(s)
    BY <1>2, <2>2 DEF Inquiry!Ask
  <2> QED
    BY <1>2, <2>1, <2>3 DEF Inquiry!Next, AskStep
<1>3. CASE UNCHANGED approval /\ \A t \in Gated : completions'[t] = completions[t] /\ effects'[t] = effects[t]
  BY <1>1, <1>3 DEF GatedInv, AskStep
<1>4. CASE s \in Gated /\ approval[s] # "new"
           /\ approval' = [approval EXCEPT ![s] = IF @ = "new" THEN "asked" ELSE @]
           /\ UNCHANGED <<completions, effects>>
  BY <1>1, <1>3, <1>4
<1>5. CASE s \notin Gated /\ UNCHANGED approval
           /\ (UNCHANGED completions \/ completions' = [completions EXCEPT ![s] = @ + 1])
           /\ (UNCHANGED effects \/ effects' = [effects EXCEPT ![s] = @ + 1])
  BY <1>1, <1>3, <1>5
<1>6. CASE UNCHANGED <<completions, effects, approval>>
  BY <1>3, <1>6
<1>7. \/ /\ s \in Gated /\ approval' = [approval EXCEPT ![s] = IF @ = "new" THEN "asked" ELSE @]
         /\ UNCHANGED <<completions, effects>>
      \/ /\ s \notin Gated /\ UNCHANGED approval
         /\ (UNCHANGED completions \/ completions' = [completions EXCEPT ![s] = @ + 1])
         /\ (UNCHANGED effects \/ effects' = [effects EXCEPT ![s] = @ + 1])
      \/ UNCHANGED <<completions, effects, approval>>
  BY <1>0, Zenon DEF ExecuteStep
<1> QED
  BY <1>1, <1>2, <1>4, <1>5, <1>6, <1>7

LEMMA SettleAnswer ==
  ASSUME MissionInv, GatedInv, NEW s \in Steps, NEW answer \in {"ok", "failed", "refused"},
         SettleApproval(s, answer)
  PROVE  GatedInv' /\ AskStep
<1> DEFINE ans == [t \in Gated |-> approval[t]]
           eff == [t \in Gated |-> completions[t] > 0]
<1>1. /\ completions \in [Steps -> Nat] /\ effects \in [Steps -> Nat] /\ Gated \subseteq Steps
      /\ approval \in [Steps -> {"new", "asked", "ok", "failed", "refused"}]
  BY MissionAssumption DEF MissionInv, TypeOK
<1>2. /\ approval[s] = "asked" /\ approval' = [approval EXCEPT ![s] = answer]
      /\ completions' = [completions EXCEPT ![s] = IF answer = "ok" THEN @ + 1 ELSE @]
      /\ \/ answer # "refused" /\ effects' = [effects EXCEPT ![s] = @ + 1]
         \/ answer # "ok" /\ UNCHANGED effects
  BY DEF SettleApproval
<1>3. s \in Gated /\ completions[s] = 0 /\ effects[s] = 0
  BY <1>1, <1>2 DEF GatedInv
<1>4. GatedInv'
  BY <1>1, <1>2, <1>3 DEF GatedInv
<1>5. ans' = [ans EXCEPT ![s] = answer]
  BY <1>1, <1>2
<1>6. CASE answer = "ok"
  <2>1. \A t \in Gated : (completions'[t] > 0) = (IF t = s THEN TRUE ELSE completions[t] > 0)
    <3>1. completions'[s] = 1 /\ 1 > 0
      BY <1>1, <1>2, <1>3, <1>6
    <3>2. \A t \in Gated \ {s} : completions'[t] = completions[t]
      BY <1>1, <1>2
    <3>3. (completions'[s] > 0) = TRUE
      BY <3>1
    <3> QED
      BY <3>2, <3>3
  <2>2. eff' = [eff EXCEPT ![s] = TRUE]
    BY <2>1
  <2>3. Inquiry!Confirm(s)
    BY <1>2, <1>3, <1>5, <1>6, <2>2 DEF Inquiry!Confirm
  <2> QED
    BY <1>3, <1>4, <2>3 DEF Inquiry!Next, AskStep
<1>7. CASE answer # "ok"
  <2>1. UNCHANGED completions
    BY <1>1, <1>2, <1>7
  <2>2. ans' = [t \in Gated |-> IF t \in {s} THEN answer ELSE ans[t]]
    BY <1>5
  <2>3. \A t \in {s} : ans[t] = "asked" /\ ~eff[t]
    <3>1. ~(completions[s] > 0)
      BY <1>3
    <3>2. ans[s] = "asked" /\ eff[s] = (completions[s] > 0)
      BY <1>2, <1>3
    <3> QED
      BY <3>1, <3>2
  <2>4. Inquiry!Decline({s}, answer)
    BY <2>1, <2>2, <2>3 DEF Inquiry!Decline
  <2> QED
    BY <1>3, <1>4, <1>7, <2>4 DEF Inquiry!Next, AskStep
<1> QED
  BY <1>6, <1>7

LEMMA AnswerStep ==
  ASSUME MissionInv, GatedInv, [Next]_vars
  PROVE  GatedInv' /\ AskStep
<1>1. CASE UNCHANGED <<completions, effects, approval>>
  BY <1>1 DEF GatedInv, AskStep
<1> QED
  BY <1>1, OffPath, ExecuteAnswer, SettleAnswer

LEMMA GatedInit == Init => GatedInv /\ Inquiry!Init
<1>1. ASSUME Init PROVE GatedInv /\ Inquiry!Init
  <2>1. Gated \subseteq Steps
    BY MissionAssumption
  <2>2. \A s \in Gated : approval[s] = "new" /\ completions[s] = 0 /\ (completions[s] > 0) = FALSE
                       /\ effects[s] = 0
    BY <1>1, <2>1 DEF Init
  <2>3. GatedInv
    BY <1>1, <2>2 DEF GatedInv, Init
  <2> QED
    BY <2>2, <2>3 DEF Inquiry!Init
<1> QED
  BY <1>1

\* What a mission asks and expects of the approvals of its steps, in execute
\* and _resume_waiting_approval, is what ApprovalAnswer says and no more: it
\* asks once for a step, however its runs overlap, are lost or are retried.
\* The governed action path gives just these answers (PathAnswersTruly).
THEOREM MissionAsksOnce == Spec => KeepsToAnswers
<1>1. MissionInv /\ GatedInv /\ [Next]_vars => GatedInv' /\ AskStep
  BY AnswerStep
<1> QED
  BY <1>1, GatedInit, MissionInvariant, PTL DEF Spec, KeepsToAnswers, Inquiry!Spec, AskStep

\* Even with runs in flight together and runs lost while they await a step,
\* which may repeat other steps, a gated step takes effect at most once, and is
\* reported completed only on the answer that it was.
THEOREM GatedStepsAreOnce == Spec => []GatedOnAnswer
<1>1. MissionInv /\ GatedInv /\ [Next]_vars => GatedInv'
  BY AnswerStep
<1>2. MissionInv /\ GatedInv => GatedOnAnswer
  <2>1. ASSUME MissionInv, GatedInv, NEW s \in Gated
        PROVE  effects[s] <= 1 /\ (s \in Completed(attempts) => approval[s] = "ok")
    BY <2>1, MissionInvTruthful DEF GatedInv, CompletedTruthful
  <2> QED
    BY <2>1 DEF GatedOnAnswer
<1> QED
  BY <1>1, <1>2, GatedInit, MissionInvariant, PTL DEF Spec

-----------------------------------------------------------------------------
(* One operator's runs repeat what failed only as often as the plan allows. *)

\* The next number depends on the rows of the step.
LEMMA NumberOfRows ==
  ASSUME NEW att, NEW more, NEW s, AttemptsOn(more, s) = AttemptsOn(att, s)
  PROVE  NextAttemptNumber(more, s) = NextAttemptNumber(att, s)
BY DEF NextAttemptNumber

\* The next attempt at a step comes after the one that was recorded last.
LEMMA NextNumberAdds ==
  ASSUME NEW att, Orderly(att), NEW c, c.step \in Steps, c.at \in Nat,
         c.number = NextAttemptNumber(att, c.step),
         NEW st \in {"waiting", "completed", "failed"}
  PROVE  /\ NextAttemptNumber(AddAttempt(att, c, st), c.step) = c.number + 1
         /\ \A s \in Steps \ {c.step} :
               NextAttemptNumber(AddAttempt(att, c, st), s) = NextAttemptNumber(att, s)
<1> DEFINE z == [row |-> Cardinality(att), step |-> c.step, number |-> c.number,
                 at |-> c.at, st |-> st]
           new == AddAttempt(att, c, st)
           numbers == {x.number : x \in AttemptsOn(att, c.step)}
           more == {x.number : x \in AttemptsOn(new, c.step)}
<1>1. new = att \cup {z} /\ z.step = c.step /\ z.number = c.number
  BY DEF AddAttempt
<1> HIDE DEF z, new
<1>2. \A s \in Steps \ {c.step} : AttemptsOn(new, s) = AttemptsOn(att, s)
  BY <1>1 DEF AttemptsOn
<1>3. more = numbers \cup {c.number}
  BY <1>1 DEF AttemptsOn
<1>4. numbers \subseteq Nat /\ c.number \in Nat
  BY NextNumberIsNatural DEF Orderly, AttemptsOn, Attempt
<1> DEFINE low == CHOOSE n \in numbers : \A m \in numbers : m <= n
           top == CHOOSE n \in more : \A m \in more : m <= n
<1>5. /\ numbers # {} => \E n \in numbers : \A k \in numbers : k <= n
      /\ c.number = IF numbers = {} THEN 1 ELSE 1 + low
  BY DEF Orderly, HasMost, NextAttemptNumber
<1>6. NextAttemptNumber(new, c.step) = IF more = {} THEN 1 ELSE 1 + top
  BY DEF NextAttemptNumber
<1> HIDE DEF numbers, more
<1>7. numbers # {} => low \in numbers /\ \A k \in numbers : k <= low
  BY <1>5
<1> HIDE DEF low
<1>8. ASSUME NEW n \in numbers PROVE n <= c.number
  <2>1. numbers # {} /\ low \in Nat /\ n \in Nat /\ n <= low
    BY <1>4, <1>7
  <2>2. c.number = 1 + low
    BY <1>5, <2>1
  <2> QED
    BY <2>1, <2>2
<1>9. c.number \in more /\ \A m \in more : m <= c.number
  BY <1>3, <1>4, <1>8
<1>10. \A n \in more : (\A m \in more : m <= n) => n = c.number
  BY <1>3, <1>4, <1>9
<1>11. top = c.number
  BY <1>9, <1>10
<1> HIDE DEF top
<1>12. more # {}
  BY <1>3
<1>13. NextAttemptNumber(new, c.step) = c.number + 1
  BY <1>4, <1>6, <1>11, <1>12
<1>14. \A s \in Steps \ {c.step} : NextAttemptNumber(new, s) = NextAttemptNumber(att, s)
  BY <1>2, NumberOfRows
<1> QED
  BY <1>13, <1>14 DEF new

\* Attempts are made as the plan allows.
Within(att) ==
    \A s \in Steps \ Gated : NextAttemptNumber(att, s) <= Allowed(s) + 1

\* Every effect is of an attempt in the rows.
Tried(att) == \A s \in Steps \ Gated : effects[s] < NextAttemptNumber(att, s)

\* What is in flight is the next attempt; at most its own effect is not yet in
\* the rows.
RepeatInv ==
    /\ Within(attempts)
    /\ \A r \in Runs : Flying(r) /\ cur[r].step \notin Gated =>
          /\ cur[r].number = NextAttemptNumber(attempts, cur[r].step)
          /\ cur[r].number <= Allowed(cur[r].step)
    /\ \A s \in Steps \ Gated :
          \/ effects[s] < NextAttemptNumber(attempts, s)
          \/ /\ effects[s] = NextAttemptNumber(attempts, s)
             /\ \E r \in Runs : pc[r] = "returned" /\ cur[r].step = s

LEMMA AllowedIsNatural == ASSUME NEW s \in Steps PROVE Allowed(s) \in Nat /\ Allowed(s) >= 1
BY MissionAssumption DEF Allowed, ValidPlan

\* An attempt that the loop starts is allowed.
LEMMA StartedAllowed ==
  ASSUME NEW att, Orderly(att), Truthful(att), Solid(att), NEW n, Verdict(att, n) = "go",
         NextStep(att) \notin Gated
  PROVE  NextAttemptNumber(att, NextStep(att)) <= Allowed(NextStep(att))
<1> DEFINE s == NextStep(att)
<1>1. s \in Steps \ Gated /\ s \notin Completed(att) /\ NextAttemptNumber(att, s) \in Nat
  BY StartedStep
<1>2. LatestIs(att, s, "failed") => NextAttemptNumber(att, s) <= MaxAttempts[s] /\ s \in RetryReason
  BY <1>1, MissionAssumption DEF Verdict, ValidPlan
<1> HIDE DEF s
<1>3. CASE AttemptsOn(att, s) = {}
  BY <1>1, <1>3, AllowedIsNatural DEF NextAttemptNumber, s
<1>4. CASE AttemptsOn(att, s) # {}
  <2>1. LastOf(AttemptsOn(att, s)) \in AttemptsOn(att, s)
    BY <1>1, <1>4, LastOfIsLast DEF Orderly
  <2>2. LastOf(AttemptsOn(att, s)).st \in {"waiting", "completed", "failed"}
    BY <2>1 DEF AttemptsOn, Orderly, Attempt
  <2>3. LastOf(AttemptsOn(att, s)).st # "waiting"
    BY <1>1, <2>1 DEF AttemptsOn, Solid
  <2>4. LastOf(AttemptsOn(att, s)).st # "completed"
    BY <1>1, <1>4 DEF Completed, LatestIs
  <2>5. LatestIs(att, s, "failed")
    BY <1>4, <2>2, <2>3, <2>4 DEF LatestIs
  <2> QED
    BY <1>1, <1>2, <2>5 DEF Allowed, s
<1> QED
  BY <1>3, <1>4

LEMMA RepeatLoop ==
  ASSUME TypeOK, NEW r \in Runs, NEW att, Orderly(att), Truthful(att), Recorded(att),
         Within(att), Tried(att), \A q \in Runs \ {r} : ~Flying(q), NEW n, NEW found,
         Loop(r, att, n, found), UNCHANGED <<completions, effects, approval>>
  PROVE  RepeatInv'
<1> DEFINE e == [step |-> NextStep(att), number |-> NextAttemptNumber(att, NextStep(att)), at |-> clock]
<1>1. attempts' = att
  BY DEF Loop
<1>2. Within(attempts)' /\ Tried(attempts)'
  BY <1>1 DEF Within, Tried, Allowed, NextAttemptNumber, AttemptsOn
<1>3. CASE /\ Verdict(att, n) = "go"
           /\ pc' = [pc EXCEPT ![r] = "executing"] /\ cur' = [cur EXCEPT ![r] = e]
  <2>1. \A q \in Runs : Flying(q)' => q = r
    BY <1>3 DEF Flying, TypeOK
  <2>2. cur'[r].step = NextStep(att) /\ cur'[r].number = NextAttemptNumber(att, NextStep(att))
    BY <1>3 DEF TypeOK
  <2>3. NextStep(att) \notin Gated => NextAttemptNumber(att, NextStep(att)) <= Allowed(NextStep(att))
    BY <1>3, StartedAllowed DEF Recorded
  <2> QED
    BY <1>1, <1>2, <2>1, <2>2, <2>3 DEF RepeatInv, Tried
<1>4. CASE pc' = [pc EXCEPT ![r] = "done"]
  <2>1. \A q \in Runs : ~Flying(q)'
    BY <1>4 DEF Flying, TypeOK
  <2> QED
    BY <1>2, <2>1 DEF RepeatInv, Tried
<1> QED
  BY <1>3, <1>4 DEF Loop

LEMMA RepeatEnd ==
  ASSUME TypeOK, NEW r \in Runs, NEW att, Within(att), Tried(att),
         \A q \in Runs \ {r} : ~Flying(q), NEW to,
         EndRun(r, att, to), UNCHANGED <<completions, effects, approval>>
  PROVE  RepeatInv'
<1>1. attempts' = att /\ pc' = [pc EXCEPT ![r] = "done"]
  BY DEF EndRun
<1>2. Within(attempts)' /\ Tried(attempts)'
  BY <1>1 DEF Within, Tried
<1>3. \A q \in Runs : ~Flying(q)'
  BY <1>1 DEF Flying, TypeOK
<1> QED
  BY <1>2, <1>3 DEF RepeatInv, Tried

LEMMA RepeatEnter ==
  ASSUME TypeOK, NEW r \in Runs, NEW att, Orderly(att), Truthful(att), Recorded(att),
         Within(att), Tried(att), \A q \in Runs : ~Flying(q),
         EnterLoop(r, att), UNCHANGED <<completions, effects, approval>>
  PROVE  RepeatInv'
<1>1. CASE EndRun(r, att, "stopped")
  BY <1>1, RepeatEnd
<1>2. CASE Loop(r, att, 0, "running")
  BY <1>2, RepeatLoop
<1> QED
  BY <1>1, <1>2 DEF EnterLoop

\* With no run in flight, every effect is of a recorded attempt.
LEMMA RestIsTried ==
  ASSUME RepeatInv, ~InFlight
  PROVE  Within(attempts) /\ Tried(attempts)
BY DEF RepeatInv, InFlight, Tried

LEMMA RepeatResume ==
  ASSUME MissionInv, OnceInv, RepeatInv, "run" \notin Overlaps, NEW r \in Runs, ResumeWaiting(r)
  PROVE  RepeatInv'
<1> DEFINE item == LastOf(Waiting(attempts))
           row == approval[item.step]
<1>1. /\ Waiting(attempts) # {} /\ Orderly(attempts) /\ Truthful(attempts) /\ TypeOK
      /\ Recorded(attempts) /\ \A q \in Runs : ~Flying(q)
      /\ Within(attempts) /\ Tried(attempts)
  BY RestIsRecorded, RestIsTried DEF ResumeWaiting, MissionInv, OnceInv, Alone
<1>2. item \in Waiting(attempts)
  BY <1>1, LastOfIsLast DEF Orderly
<1>3. /\ item \in attempts /\ item.step \in Steps /\ item.number \in Nat /\ item.at \in Nat
      /\ item.at < clock /\ item.step \in Gated /\ Grounded(item.step)
  BY <1>1, <1>2 DEF Waiting, Orderly, Recorded, Solid, Truthful, Attempt
<1>4. /\ \/ EndRun(r, attempts, status)
         \/ row = "ok" /\ EnterLoop(r, AddAttempt(attempts, item, "completed"))
         \/ EndRun(r, AddAttempt(attempts, item, "failed"), "failed")
      /\ UNCHANGED <<completions, effects, approval>>
  BY DEF ResumeWaiting, Waiting
<1> HIDE DEF item
<1>5. ASSUME NEW st \in {"completed", "failed"}
      PROVE  LET att == AddAttempt(attempts, item, st)
             IN /\ Orderly(att) /\ Recorded(att) /\ (st = "completed" /\ row = "ok" => Truthful(att))
                /\ Within(att) /\ Tried(att)
  <2> DEFINE att == AddAttempt(attempts, item, st)
  <2>1. Orderly(att) /\ Adds(attempts, att, item.step, st)
    BY <1>1, <1>3, AddKeepsOrder
  <2>2. Solid(att)
    BY <1>1, <1>3, AddSolid DEF Recorded
  <2>3. \A x \in att : x.at < clock
    BY <1>1, <1>3 DEF AddAttempt, Recorded
  <2>4. Recorded(att)
    BY <1>1, <2>1, <2>2, <2>3 DEF Recorded, Finished, Adds
  <2>5. row = "ok" => completions[item.step] > 0
    BY <1>3 DEF MissionInv
  <2>6. row = "ok" => Truthful(att)
    BY <1>1, <1>3, <2>1, <2>5 DEF Truthful, Adds
  <2>7. \A s \in Steps \ Gated : AttemptsOn(att, s) = AttemptsOn(attempts, s)
    BY <1>3 DEF AddAttempt, AttemptsOn
  <2>8. \A s \in Steps \ Gated : NextAttemptNumber(att, s) = NextAttemptNumber(attempts, s)
    BY <2>7, NumberOfRows
  <2>9. Within(att) /\ Tried(att)
    BY <1>1, <2>8 DEF Within, Tried
  <2> QED
    BY <2>1, <2>4, <2>6, <2>9
<1>6. CASE EndRun(r, attempts, status)
  BY <1>1, <1>4, <1>6, RepeatEnd
<1>7. CASE row = "ok" /\ EnterLoop(r, AddAttempt(attempts, item, "completed"))
  BY <1>1, <1>4, <1>5, <1>7, RepeatEnter
<1>8. CASE EndRun(r, AddAttempt(attempts, item, "failed"), "failed")
  BY <1>1, <1>4, <1>5, <1>8, RepeatEnd
<1> QED
  BY <1>4, <1>6, <1>7, <1>8

LEMMA RepeatReturn ==
  ASSUME MissionInv, OnceInv, RepeatInv, NEW r \in Runs, StepReturns(r)
  PROVE  RepeatInv'
<1> DEFINE c == cur[r]
<1>1. /\ pc[r] = "returned" /\ c \in Execution /\ Grounded(c.step) /\ Flying(r)
      /\ Orderly(attempts) /\ Truthful(attempts) /\ TypeOK
      /\ got[r] = "ok" => completions[c.step] > 0
  BY DEF StepReturns, MissionInv, Flying
<1>2. c.step \in Steps /\ c.number \in Nat /\ c.at \in Nat
  BY <1>1 DEF Execution
<1>3. /\ Counted /\ Solid(attempts) /\ \A x \in attempts : x.at < clock
      /\ c.step \in Gated \/ c.step \notin Completed(attempts)
      /\ c.at < clock /\ \A x \in attempts : x.at < c.at
      /\ \A q \in Runs \ {r} : ~Flying(q)
      /\ got[r] = "pending" => c.step \in Gated
      /\ \A s \in Steps \ Gated : completions[s] > 0 => Finished(attempts, s) \/ (got[r] = "ok" /\ c.step = s)
  BY <1>1 DEF OnceInv, Fresh, Flying
<1>4. /\ Within(attempts)
      /\ c.step \notin Gated => c.number = NextAttemptNumber(attempts, c.step)
                             /\ c.number <= Allowed(c.step)
      /\ \A s \in Steps \ Gated : \/ effects[s] < NextAttemptNumber(attempts, s)
                                \/ (effects[s] = NextAttemptNumber(attempts, s) /\ s = c.step)
  <2>1. \A q \in Runs : pc[q] = "returned" => q = r
    BY <1>3 DEF Flying
  <2> QED
    BY <1>1, <2>1 DEF RepeatInv
<1>5. ASSUME NEW st \in {"waiting", "completed", "failed"}, st = "completed" <=> got[r] = "ok",
             st = "waiting" <=> got[r] = "pending"
      PROVE  LET att == AddAttempt(attempts, c, st)
             IN Orderly(att) /\ Truthful(att) /\ Recorded(att) /\ Within(att) /\ Tried(att)
  <2> DEFINE att == AddAttempt(attempts, c, st)
  <2>1. Orderly(att) /\ Adds(attempts, att, c.step, st)
    BY <1>1, <1>2, AddKeepsOrder
  <2>2. Truthful(att)
    BY <1>1, <1>5, <2>1 DEF Truthful, Adds
  <2>3. Solid(att)
    BY <1>1, <1>2, <1>3, <1>5, AddSolid
  <2>4. \A x \in att : x.at < clock
    BY <1>3 DEF AddAttempt
  <2>5. \A s \in Steps \ Gated : completions[s] > 0 => Finished(att, s)
    BY <1>3, <1>5, <2>1 DEF Finished, Adds
  <2>6. \A s \in Steps \ {c.step} : AttemptsOn(att, s) = AttemptsOn(attempts, s)
    BY DEF AddAttempt, AttemptsOn
  <2>7. \A s \in Steps \ {c.step} : NextAttemptNumber(att, s) = NextAttemptNumber(attempts, s)
    BY <2>6, NumberOfRows
  <2>8. c.step \notin Gated => NextAttemptNumber(att, c.step) = c.number + 1
    BY <1>1, <1>2, <1>4, NextNumberAdds
  <2>9. effects \in [Steps -> Nat] /\ \A s \in Steps : Allowed(s) \in Nat
    BY <1>1, AllowedIsNatural DEF TypeOK
  <2> HIDE DEF att
  <2>10. Within(att)
    BY <1>2, <1>4, <2>7, <2>8, <2>9 DEF Within
  <2>11. Tried(att)
    BY <1>2, <1>4, <2>7, <2>8, <2>9 DEF Tried
  <2> QED
    BY <2>1, <2>2, <2>3, <2>4, <2>5, <2>10, <2>11 DEF Recorded, att
<1>6. /\ \/ got[r] = "pending" /\ EndRun(r, AddAttempt(attempts, c, "waiting"), "waiting_approval")
         \/ got[r] = "ok" /\ Loop(r, AddAttempt(attempts, c, "completed"), did[r] + 1, status)
         \/ got[r] = "failed" /\ EndRun(r, AddAttempt(attempts, c, "failed"), "failed")
         \/ got[r] = "failed" /\ Loop(r, AddAttempt(attempts, c, "failed"), did[r] + 1, status)
      /\ UNCHANGED <<completions, effects, approval>>
  BY DEF StepReturns
<1> HIDE DEF c
<1>7. CASE got[r] = "pending" /\ EndRun(r, AddAttempt(attempts, c, "waiting"), "waiting_approval")
  BY <1>1, <1>3, <1>5, <1>6, <1>7, RepeatEnd
<1>8. CASE got[r] = "ok" /\ Loop(r, AddAttempt(attempts, c, "completed"), did[r] + 1, status)
  BY <1>1, <1>3, <1>5, <1>6, <1>8, RepeatLoop
<1>9. CASE got[r] = "failed" /\ EndRun(r, AddAttempt(attempts, c, "failed"), "failed")
  BY <1>1, <1>3, <1>5, <1>6, <1>9, RepeatEnd
<1>10. CASE got[r] = "failed" /\ Loop(r, AddAttempt(attempts, c, "failed"), did[r] + 1, status)
  BY <1>1, <1>3, <1>5, <1>6, <1>10, RepeatLoop
<1> QED
  BY <1>6, <1>7, <1>8, <1>9, <1>10

LEMMA RepeatExecute ==
  ASSUME MissionInv, OnceInv, RepeatInv, NEW r \in Runs, ExecuteStep(r)
  PROVE  RepeatInv'
<1> DEFINE s == cur[r].step
<1>1. /\ pc[r] = "executing" /\ pc' = [pc EXCEPT ![r] = "returned"]
      /\ UNCHANGED <<attempts, cur>>
      /\ UNCHANGED effects \/ (s \notin Gated /\ effects' = [effects EXCEPT ![s] = @ + 1])
  BY Zenon DEF ExecuteStep, storeVars
<1>2. TypeOK /\ s \in Steps /\ Flying(r) /\ effects \in [Steps -> Nat]
  BY <1>1 DEF MissionInv, Flying, Execution, TypeOK
<1>3. \A q \in Runs : (Flying(q) <=> Flying(q)') /\ (Flying(q) => q = r)
  BY <1>1, <1>2 DEF OnceInv, Flying, TypeOK
<1>4. \A t \in Steps \ Gated : effects[t] < NextAttemptNumber(attempts, t)
  BY <1>1, <1>3 DEF RepeatInv, Flying
<1>5. pc'[r] = "returned" /\ cur'[r].step = s
  BY <1>1, <1>2 DEF TypeOK
<1>6. \A t \in Steps \ Gated : NextAttemptNumber(attempts, t) \in Nat
  BY NextNumberIsNatural DEF MissionInv
<1>7. Within(attempts)' /\ NextAttemptNumber(attempts, s)' = NextAttemptNumber(attempts, s)
      /\ \A t \in Steps : NextAttemptNumber(attempts, t)' = NextAttemptNumber(attempts, t)
  BY <1>1 DEF RepeatInv, Within
<1>8. \A q \in Runs : Flying(q)' /\ cur'[q].step \notin Gated =>
          /\ cur'[q].number = NextAttemptNumber(attempts', cur'[q].step)
          /\ cur'[q].number <= Allowed(cur'[q].step)
  BY <1>1, <1>3 DEF RepeatInv
<1> HIDE DEF s
<1>9. \A t \in Steps \ Gated :
          \/ effects'[t] < NextAttemptNumber(attempts, t)
          \/ (effects'[t] = NextAttemptNumber(attempts, t) /\ t = s)
  BY <1>1, <1>2, <1>4, <1>6
<1> QED
  BY <1>1, <1>5, <1>7, <1>8, <1>9 DEF RepeatInv

\* What leaves rows, ungated effects and the run in flight alone.
LEMMA RepeatOutside ==
  ASSUME RepeatInv, UNCHANGED <<attempts, cur>>,
         \A s \in Steps \ Gated : effects'[s] = effects[s],
         \A r \in Runs : pc'[r] = pc[r] \/ (~Flying(r) /\ pc'[r] = "done")
  PROVE  RepeatInv'
<1>1. \A r \in Runs : Flying(r)' => Flying(r)
  BY DEF Flying
<1>2. \A r \in Runs : pc'[r] = "returned" <=> pc[r] = "returned"
  BY DEF Flying
<1> QED
  BY <1>1, <1>2 DEF RepeatInv, Within

LEMMA RepeatStep ==
  ASSUME {"run", "crash"} \cap Overlaps = {}, MissionInv, GatedInv, OnceInv, RepeatInv, [Next]_vars
  PROVE  RepeatInv'
<1>1. CASE UNCHANGED vars \/ DecisionRoute \/ ControlRoutes \/ Finalize \/ DurationPasses
  <2>1. UNCHANGED <<attempts, clock, cur, got, completions, effects, approval, pc>>
    BY <1>1 DEF vars, storeVars, runVars, DecisionRoute, Decide, ControlRoutes, Pause, Cancel,
                Finalize, DurationPasses
  <2> QED
    BY <2>1, RepeatOutside
<1>2. ASSUME NEW r \in Runs, RunRefused(r)
      PROVE  RepeatInv'
  <2>1. pc[r] = "idle" /\ pc' = [pc EXCEPT ![r] = "done"] /\ TypeOK
        /\ UNCHANGED <<attempts, cur, effects>>
    BY <1>2 DEF RunRefused, storeVars, MissionInv
  <2>2. \A q \in Runs : pc'[q] = pc[q] \/ (~Flying(q) /\ pc'[q] = "done")
    BY <2>1 DEF TypeOK, Flying
  <2> QED
    BY <2>1, <2>2, RepeatOutside
<1>3. ASSUME NEW r \in Runs, StartRun(r)
      PROVE  RepeatInv'
  <2>1. EnterLoop(r, attempts) /\ UNCHANGED <<completions, effects, approval>> /\ ~InFlight
    BY <1>3 DEF StartRun, Alone
  <2>2. Orderly(attempts) /\ Truthful(attempts) /\ TypeOK
    BY DEF MissionInv
  <2> QED
    BY <2>1, <2>2, RestIsRecorded, RestIsTried, RepeatEnter
<1>4. ASSUME NEW r \in Runs, ResumeWaiting(r)
      PROVE  RepeatInv'
  BY <1>4, RepeatResume
<1>5. ASSUME NEW s \in Steps, NEW answer \in {"ok", "failed", "refused"}, SettleApproval(s, answer)
      PROVE  RepeatInv'
  <2>1. /\ approval[s] = "asked" /\ UNCHANGED <<attempts, cur, pc>>
        /\ UNCHANGED effects \/ effects' = [effects EXCEPT ![s] = @ + 1]
    BY <1>5 DEF SettleApproval, storeVars, runVars
  <2>2. s \in Gated /\ effects \in [Steps -> Nat]
    BY <2>1 DEF GatedInv, MissionInv, TypeOK
  <2>3. \A t \in Steps \ Gated : effects'[t] = effects[t]
    BY <2>1, <2>2
  <2> QED
    BY <2>1, <2>3, RepeatOutside
<1>6. \A r \in Runs : ~Crash(r)
  BY DEF Crash
<1> QED
  BY <1>1, <1>2, <1>3, <1>4, <1>5, <1>6, RepeatReturn, RepeatExecute DEF Next, RunRoute

\* The action of a step is carried out at most once, and an attempt at it that
\* was reported failed, whatever it did, is repeated only for a reason given and
\* as often as the plan allows, never if it needs approval; whatever is paused,
\* resumed, retried, decided or cancelled meanwhile, as long as no two runs of a
\* mission are in flight together and no run is lost while it awaits a step.
THEOREM EffectsAreOnce ==
  ASSUME {"run", "crash"} \cap Overlaps = {}
  PROVE  Spec => []StepEffectOnce
<1>1. Init => OnceInv
  BY MissionAssumption DEF Init, OnceInv, Counted, Flying, Solid
<1>2. Init => RepeatInv
  <2>1. \A s \in Steps : NextAttemptNumber({}, s) = 1
    BY DEF NextAttemptNumber, AttemptsOn
  <2> QED
    BY <2>1, AllowedIsNatural DEF Init, RepeatInv, Within, Flying
<1>3. MissionInv /\ OnceInv /\ [Next]_vars => OnceInv'
  BY OnceStep
<1>4. MissionInv /\ GatedInv /\ [Next]_vars => GatedInv'
  BY AnswerStep
<1>5. MissionInv /\ GatedInv /\ OnceInv /\ RepeatInv /\ [Next]_vars => RepeatInv'
  BY RepeatStep
<1>6. MissionInv /\ GatedInv /\ OnceInv /\ RepeatInv => StepEffectOnce
  <2> SUFFICES ASSUME MissionInv, GatedInv, OnceInv, RepeatInv, NEW s \in Steps
               PROVE  completions[s] <= 1 /\ effects[s] <= Allowed(s)
    BY DEF StepEffectOnce
  <2>1. completions[s] <= 1 /\ effects[s] \in Nat /\ Allowed(s) \in Nat
    BY AllowedIsNatural DEF OnceInv, Counted, MissionInv, TypeOK
  <2>2. CASE s \in Gated
    BY <2>1, <2>2 DEF GatedInv, Allowed
  <2>3. CASE s \notin Gated
    <3>1. NextAttemptNumber(attempts, s) \in Nat /\ NextAttemptNumber(attempts, s) <= Allowed(s) + 1
      BY <2>3, NextNumberIsNatural DEF MissionInv, RepeatInv, Within
    <3>2. CASE effects[s] < NextAttemptNumber(attempts, s)
      BY <2>1, <3>1, <3>2
    <3>3. ASSUME effects[s] = NextAttemptNumber(attempts, s),
                 NEW r \in Runs, pc[r] = "returned", cur[r].step = s
          PROVE  effects[s] <= Allowed(s)
      BY <2>3, <3>3 DEF RepeatInv, Flying
    <3> QED
      BY <2>1, <2>3, <3>2, <3>3 DEF RepeatInv
  <2> QED
    BY <2>1, <2>2, <2>3
<1> QED
  BY <1>1, <1>2, <1>3, <1>4, <1>5, <1>6, GatedInit, MissionInvariant, PTL DEF Spec

-----------------------------------------------------------------------------
(* What a mission reported completed has done, whatever overlaps.          *)

\* A mission that is reported completed has carried out every step of its plan,
\* and every step that needs approval was answered so.
MissionCarriedOut ==
    status = "completed" =>
        \A s \in Steps : completions[s] > 0 /\ (s \in Gated => approval[s] = "ok")

\* run() reports completion only when it finds every step completed.
LEMMA FoundComplete ==
  ASSUME NEW r \in Runs, NEW att, NEW n, NEW found, Loop(r, att, n, found),
         status' = "completed", found # "completed"
  PROVE  attempts' = att /\ Completed(att) = Steps
BY DEF Loop, Transition, Verdict

LEMMA EnteredComplete ==
  ASSUME NEW r \in Runs, NEW att, EnterLoop(r, att), status' = "completed"
  PROVE  Completed(attempts)' = Steps
<1>1. CASE EndRun(r, att, "stopped")
  BY <1>1 DEF EndRun, Transition
<1>2. CASE Loop(r, att, 0, "running")
  BY <1>2, FoundComplete DEF Completed
<1> QED
  BY <1>1, <1>2 DEF EnterLoop

\* No other step reports it.
LEMMA CompletedByRun ==
  ASSUME [Next]_vars, status' = "completed", status # "completed"
  PROVE  Completed(attempts)' = Steps
<1>1. ASSUME NEW r \in Runs, StartRun(r) PROVE Completed(attempts)' = Steps
  BY <1>1, EnteredComplete DEF StartRun
<1>2. ASSUME NEW r \in Runs, ResumeWaiting(r) PROVE Completed(attempts)' = Steps
  <2> DEFINE item == LastOf({x \in attempts : x.st = "waiting"})
  <2>1. \/ EndRun(r, attempts, status)
        \/ EnterLoop(r, AddAttempt(attempts, item, "completed"))
        \/ EndRun(r, AddAttempt(attempts, item, "failed"), "failed")
    BY <1>2 DEF ResumeWaiting
  <2> QED
    BY <2>1, EnteredComplete DEF EndRun, Transition
<1>3. ASSUME NEW r \in Runs, StepReturns(r) PROVE Completed(attempts)' = Steps
  <2> DEFINE c == cur[r]
  <2>1. \/ EndRun(r, AddAttempt(attempts, c, "waiting"), "waiting_approval")
        \/ \E att : Loop(r, att, did[r] + 1, status)
        \/ EndRun(r, AddAttempt(attempts, c, "failed"), "failed")
    BY <1>3 DEF StepReturns
  <2>2. ASSUME NEW att, Loop(r, att, did[r] + 1, status)
        PROVE  Completed(attempts)' = Steps
    BY <2>2, FoundComplete DEF Completed
  <2> QED
    BY <2>1, <2>2 DEF EndRun, Transition
<1> QED
  BY <1>1, <1>2, <1>3
  DEF Next, RunRoute, RunRefused, ExecuteStep, Crash, DecisionRoute, Decide, Transition,
      ControlRoutes, Pause, Cancel, Finalize, SettleApproval, DurationPasses, vars, storeVars

LEMMA EffectsStay ==
  ASSUME MissionInv, [Next]_vars, NEW s \in Steps, completions[s] > 0
  PROVE  completions'[s] > 0
<1>1. completions \in [Steps -> Nat]
  BY DEF MissionInv, TypeOK
<1>2. CASE UNCHANGED <<completions, effects, approval>>
  BY <1>2
<1>3. ASSUME NEW r \in Runs, ExecuteStep(r) PROVE completions'[s] > 0
  BY <1>1, <1>3 DEF ExecuteStep
<1>4. ASSUME NEW t \in Steps, NEW answer \in {"ok", "failed", "refused"}, SettleApproval(t, answer)
      PROVE  completions'[s] > 0
  BY <1>1, <1>4 DEF SettleApproval
<1> QED
  BY <1>2, <1>3, <1>4, OffPath

\* Whatever runs, pauses, cancels, decides or crashes meanwhile, a mission is
\* reported completed (the end of the loop of run()) only when the action of
\* every step of its plan has been carried out, approved where it must be.
THEOREM CompletedMissionIsCarriedOut == Spec => []MissionCarriedOut
<1> DEFINE Carried == status = "completed" => \A s \in Steps : completions[s] > 0
<1>0. MissionInv' => CompletedTruthful'
  BY MissionInvTruthful, PTL
<1>1. Init => Carried
  BY DEF Init
<1>2. ASSUME MissionInv, MissionInv', Carried, [Next]_vars PROVE Carried'
  <2>1. CASE status = "completed"
    BY <1>2, <2>1, EffectsStay
  <2>2. CASE status' = "completed" /\ status # "completed"
    BY <1>0, <1>2, <2>2, CompletedByRun DEF CompletedTruthful
  <2> QED
    BY <2>1, <2>2
<1>3. MissionInv /\ GatedInv /\ [Next]_vars => GatedInv'
  BY AnswerStep
<1>4. GatedInv /\ Carried => MissionCarriedOut
  BY DEF GatedInv, MissionCarriedOut
<1> QED
  BY <1>1, <1>2, <1>3, <1>4, GatedInit, MissionInvariant, PTL DEF Spec

-----------------------------------------------------------------------------
(* Verified value rests on realized value.  Evidence is only appended and  *)
(* every verification is of a row of its own mission; so all that finalize *)
(* reads for a mission holds, with a verification, the row that it         *)
(* verifies.                                                               *)

\* A row of evidence is no verification, or verifies realized value.
Backed(k) ==
    values[k].kind = "verified" =>
        LET n == values[k].related
        IN /\ n \in DOMAIN values
           /\ values[n].kind = "realized" /\ values[n].mission = values[k].mission
           /\ Unsaid \notin {values[k].amount, values[n].amount} =>
                values[k].amount <= values[n].amount

\* Rows that hold, with a verification, the row that it verifies.
Closed(ns) ==
    /\ ns \subseteq DOMAIN values
    /\ \A k \in ns : values[k].kind = "verified" => values[k].related \in ns

\* The inductive invariant.
ValueInv ==
    /\ values \in Seq(ValueEvidence)
    /\ \A k \in DOMAIN values : Backed(k)
    /\ Closed(finalizing.evidence)
    /\ DOMAIN outcomes = ValueMissions
    /\ \A v \in ValueMissions : Closed(outcomes[v].evidence)

LEMMA ValueInvInit == ValueInit => ValueInv
  BY DEF ValueInit, ValueInv, Backed, Closed, NoOutcome

\* What is recorded stays as it is.
LEMMA RowsStay ==
  ASSUME ValueInv, NEW item \in ValueEvidence, AddValueEvidence(item)
  PROVE  /\ values' \in Seq(ValueEvidence)
         /\ DOMAIN values' = DOMAIN values \cup {Len(values) + 1}
         /\ Len(values) + 1 \notin DOMAIN values
         /\ \A k \in DOMAIN values : values'[k] = values[k]
         /\ values'[Len(values) + 1] = item
  BY DEF ValueInv, AddValueEvidence

LEMMA RecordStep ==
  ASSUME ValueInv, NEW item \in ValueEvidence, RecordValueEvidence(item)
  PROVE  ValueInv'
<1>1. /\ values' \in Seq(ValueEvidence)
      /\ DOMAIN values' = DOMAIN values \cup {Len(values) + 1}
      /\ \A k \in DOMAIN values : values'[k] = values[k]
      /\ values'[Len(values) + 1] = item
  BY RowsStay DEF RecordValueEvidence
<1>2. UNCHANGED <<finalizing, outcomes>> /\ (item.kind = "verified" => RelatedRealized(item))
  BY DEF RecordValueEvidence
<1>3. ASSUME NEW k \in DOMAIN values'
      PROVE  Backed(k)'
  <2>1. CASE k \in DOMAIN values
    BY <1>1, <2>1 DEF ValueInv, Backed
  <2>2. CASE k = Len(values) + 1
    BY <1>1, <1>2, <2>2 DEF Backed, RelatedRealized
  <2> QED
    BY <1>1, <2>1, <2>2
<1>4. ASSUME NEW ns, Closed(ns)
      PROVE  /\ ns \subseteq DOMAIN values'
             /\ \A k \in ns : values'[k].kind = "verified" => values'[k].related \in ns
  BY <1>1, <1>4 DEF Closed
<1>5. Closed(finalizing.evidence)'
  BY <1>2, <1>4 DEF ValueInv, Closed
<1>6. \A v \in ValueMissions : Closed(outcomes[v].evidence)'
  BY <1>2, <1>4 DEF ValueInv, Closed
<1> QED
  BY <1>1, <1>2, <1>3, <1>5, <1>6 DEF ValueInv

\* A step that records no evidence keeps the rows and what is closed.
LEMMA FinalizeStep ==
  ASSUME ValueInv, OutcomeRoute
  PROVE  ValueInv'
<1>1. UNCHANGED values
  BY DEF OutcomeRoute, FinalizeRecords, FinalizeReads
<1>2. \A k \in DOMAIN values' : Backed(k)'
  BY <1>1 DEF ValueInv, Backed
<1>3. ASSUME NEW v \in ValueMissions, FinalizeReads(v)
      PROVE  ValueInv'
  <2>1. /\ finalizing'.evidence = {n \in DOMAIN values : values[n].mission = v}
        /\ UNCHANGED outcomes
    BY <1>3 DEF FinalizeReads
  <2>2. Closed(finalizing.evidence)'
    BY <1>1, <2>1 DEF ValueInv, Closed, Backed
  <2> QED
    BY <1>1, <1>2, <2>1, <2>2 DEF ValueInv, Closed
<1>4. CASE FinalizeRecords
  <2>1. /\ finalizing'.evidence = {}
        /\ DOMAIN outcomes' = ValueMissions
        /\ \A v \in ValueMissions :
              outcomes'[v].evidence \in {outcomes[v].evidence, finalizing.evidence}
    BY <1>4 DEF FinalizeRecords, AddOutcome, ValueInv
  <2> QED
    BY <1>1, <1>2, <2>1 DEF ValueInv, Closed
<1> QED
  BY <1>3, <1>4 DEF OutcomeRoute

\* Whatever an outcome counts as verified rests on realized evidence that the
\* same outcome counts and that is worth no less (record_value_evidence and
\* finalize of the mission orchestrator), for every number of missions and of
\* rows, although evidence is recorded while an outcome is drawn up.
THEOREM VerifiedValueIsRealized == ValueSpec => []VerifiedFromRealized
<1>1. ValueInit => ValueInv
  BY ValueInvInit
<1>2. ASSUME ValueInv, [ValueNext]_valueVars
      PROVE  ValueInv'
  <2>1. CASE UNCHANGED <<values, finalizing, outcomes>>
    BY <1>2, <2>1 DEF ValueInv, Closed, Backed
  <2>2. CASE ValueRoute
    <3>1. PICK item \in ValueEvidence : RecordValueEvidence(item)
      BY <2>2 DEF ValueRoute, ValueEvidence
    <3> QED
      BY <1>2, <3>1, RecordStep
  <2>3. CASE OutcomeRoute
    BY <1>2, <2>3, FinalizeStep
  <2> QED
    BY <1>2, <2>1, <2>2, <2>3
    DEF ValueNext, valueVars, IntakeRoute, IntakeOpportunity, PlanRoute, PlanMission,
        ExecutionMoves
<1>3. ValueInv => VerifiedFromRealized
  BY DEF ValueInv, VerifiedFromRealized, Closed, Backed
<1> QED
  BY <1>1, <1>2, <1>3, PTL DEF ValueSpec
=============================================================================
