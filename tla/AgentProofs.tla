----------------------------- MODULE AgentProofs -----------------------------
(***************************************************************************)
(* Proofs about the agent at work:                                         *)
(*   Executive    a step that counts as done was delivered by its own      *)
(*                worker, after what it depends on.  Two steps of one work *)
(*                id have one receipt, so one worker at most was prompted  *)
(*                for it, and a file of this mission names that worker.    *)
(*   Skills       one capability at most holds a name, and a call does one *)
(*                action once.                                             *)
(*   Knowledge    of two promoted claims that collide, the later one says  *)
(*                so: it was proposed when the other could be seen, or the *)
(*                other was rejected before it.                            *)
(*   CodingRuntime  what production holds is whole, and verified: one      *)
(*                attempt at a time has replaced files, and the copy it    *)
(*                kept of them is what production should hold.             *)
(*   ServiceHost  the service stops with every process of its own ended.   *)
(* They share no state and each part has its own inductive invariant.      *)
(***************************************************************************)
EXTENDS Executive, Skills, Knowledge, CodingRuntime, ServiceHost,
        FiniteSetTheorems, SequenceTheorems, WellFoundedInduction, TLAPS

-----------------------------------------------------------------------------
(* Executive: delivery in the order of the plan                            *)

LEMMA LeastNatural ==
  ASSUME NEW T \in SUBSET Nat, T # {}
  PROVE  \E x \in T : \A y \in T : x <= y
<1>1. PICK x \in T : \A y \in T : <<y, x>> \notin OpToRel(<, Nat)
  BY WFMin, NatLessThanWellFounded
<1>2. ASSUME NEW y \in T PROVE x <= y
  <2>1. x \in Nat /\ y \in Nat
    OBVIOUS
  <2>2. <<y, x>> \in Nat \X Nat /\ <<y, x>>[1] = y /\ <<y, x>>[2] = x
    BY <2>1
  <2>3. ~(y < x)
    BY <1>1, <2>2, Zenon DEF OpToRel
  <2> QED
    BY <2>1, <2>3
<1> QED
  BY <1>2

Prompted == {s \in Plan : workers[s] # "idle"}

NotDone == Plan \ CompletedSteps

\* A file that says it is of this mission was put there by a worker, or by the
\* hook of a mission of one step.
Honest(f) ==
    \/ f = Nobody
    \/ f.mission = "other"
    \/ \E t \in wrote : f = Envelope(t)

ExecShape ==
    /\ Len(directive.steps) \in Nat \ {0}
    /\ directive \in Handed
    /\ DOMAIN attempts = Plan /\ DOMAIN workers = Plan /\ wrote \subseteq Plan
    /\ DOMAIN deliverables = {StepSpec(s).artifact : s \in Plan}

\* The plan can be carried on while the loop runs, and waits for a step it has
\* prompted a worker for.
LoopInv ==
    /\ loop.pc = "plan" => \A s \in Plan : attempts[s] = "none" /\ workers[s] = "idle"
    /\ loop.pc \notin {"plan", "refused"} => Plannable(directive)
    /\ loop.pc = "run" => NotDone # {}
    /\ loop.pc = "wait" => loop.step \in NotDone /\ loop.step \in Prompted

\* A worker was prompted in its turn, has a receipt, and is the only one of
\* its work.
WorkInv ==
    /\ \A s \in Prompted : ReceiptsOf(s) # {} /\ Needs(directive, s) \subseteq CompletedSteps
    /\ \A s, t \in Prompted : StepSpec(s).work = StepSpec(t).work => s = t
    /\ wrote \subseteq Prompted \/ Plan = {1}
    /\ \A s \in Plan : Honest(deliverables[StepSpec(s).artifact])
    /\ \A s \in CompletedSteps : s \in wrote /\ Receipt(s, "completed") \in receipts

ExecInv == ExecShape /\ LoopInv /\ WorkInv

LEMMA HandedSteps ==
  ASSUME NEW d \in Handed
  PROVE  /\ Len(d.steps) \in Nat \ {0}
         /\ \A s \in 1..Len(d.steps) : \A p \in {d.principal, d.steps[s].principal} :
               Nobody # [mission |-> "this", work |-> d.steps[s].work, principal |-> p]
<1>1. PICK e \in Directives : d = e \/ d = EnforceBounds(e)
  BY DEF Handed
<1>2. d.steps = e.steps /\ d.principal = e.principal
  BY <1>1, ExecutiveAssumption DEF EnforceBounds
<1>3. Len(e.steps) \in Nat \ {0} /\ DOMAIN e.steps = 1..Len(e.steps)
  <2>1. PICK S : S = {e.steps[s] : s \in DOMAIN e.steps}
    OBVIOUS
  <2>2. e.steps \in Seq(S) /\ e.steps # <<>>
    BY <2>1, ExecutiveAssumption
  <2> QED
    BY <2>2, EmptySeq, LenProperties
<1> QED
  BY <1>2, <1>3, ExecutiveAssumption

LEMMA NobodyIsNoEnvelope ==
  ASSUME ExecShape, NEW s \in Plan
  PROVE  Nobody # Envelope(s)
  BY HandedSteps DEF ExecShape, Envelope, PrincipalOf, StepSpec, Plan

\* A plan without a cycle that is not done has a step that is ready.
LEMMA SomeStepIsReady ==
  ASSUME ExecShape, Plannable(directive), NotDone # {}
  PROVE  NextStepOf \in ReadySteps
<1>0. PICK n : n = Len(directive.steps)
  OBVIOUS
<1>1. PICK rank : rank \in [1..n -> 1..n] /\ \A s \in 1..n : \A t \in Needs(directive, s) : rank[t] < rank[s]
  BY <1>0 DEF Plannable
<1>2. n \in Nat /\ Plan = 1..n /\ NotDone \subseteq 1..n
  BY <1>0 DEF ExecShape, Plan, NotDone
<1>6. \A i \in 1..n : rank[i] \in Nat
  <2>1. rank \in [1..n -> 1..n]
    BY <1>1
  <2> QED
    BY <2>1, <1>2
<1>3. ReadySteps # {}
  <2> DEFINE T == {rank[s] : s \in NotDone}
  <2>1. T \in SUBSET Nat /\ T # {}
    BY <1>2, <1>6
  <2>2. PICK x \in T : \A y \in T : x <= y
    BY <2>1, LeastNatural
  <2>3. PICK s \in NotDone : x = rank[s]
    BY <2>2
  <2>4. ASSUME NEW t \in Needs(directive, s) PROVE t \in CompletedSteps
    <3>1. s \in 1..n /\ t \in 1..n /\ rank[t] < rank[s]
      BY <1>0, <1>1, <1>2, <2>3 DEF Needs
    <3>2. rank[t] \in Nat /\ rank[s] \in Nat
      BY <1>6, <3>1
    <3>3. ~(rank[s] <= rank[t])
      BY <3>1, <3>2
    <3>4. t \notin NotDone
      BY <2>2, <2>3, <3>3
    <3> QED
      BY <1>2, <3>1, <3>4 DEF NotDone
  <2> QED
    BY <2>3, <2>4 DEF ReadySteps, NotDone
<1>4. ReadySteps \in SUBSET Nat
  BY <1>2 DEF ReadySteps
<1>5. \E s \in ReadySteps : \A t \in ReadySteps : s <= t
  BY <1>3, <1>4, LeastNatural
<1> QED
  BY <1>5 DEF NextStepOf

\* Nothing that is said of a step but through the state changes with a step.
Same ==
    /\ Plan' = Plan
    /\ \A s : /\ StepSpec(s)' = StepSpec(s) /\ PrincipalOf(s)' = PrincipalOf(s)
              /\ Envelope(s)' = Envelope(s) /\ Needs(directive, s)' = Needs(directive, s)
              /\ \A o : Receipt(s, o)' = Receipt(s, o)

LEMMA DirectiveStays ==
  ASSUME UNCHANGED directive
  PROVE  Same
  BY DEF Same, Plan, StepSpec, PrincipalOf, Envelope, Needs, Receipt

\* Steps that leave attempts, receipts, workers and files alone.
LEMMA LoopMoves ==
  ASSUME ExecInv, UNCHANGED <<directive, attempts, receipts, deliverables, workers, wrote>>, LoopInv'
  PROVE  ExecInv'
<1>1. Same
  BY DirectiveStays
<1>2. /\ CompletedSteps' = CompletedSteps /\ Prompted' = Prompted
      /\ \A s : ReceiptsOf(s)' = ReceiptsOf(s)
  BY <1>1 DEF Same, CompletedSteps, Prompted, ReceiptsOf
<1>3. ExecShape'
  BY <1>1 DEF ExecInv, ExecShape, Same
<1>4. \A s \in Plan : Honest(deliverables[StepSpec(s).artifact])'
  BY <1>1 DEF ExecInv, WorkInv, Honest, Same
<1>5. WorkInv'
  BY <1>1, <1>2, <1>4 DEF ExecInv, WorkInv, Same
<1> QED
  BY <1>3, <1>5 DEF ExecInv

LEMMA PlanStep ==
  ASSUME ExecInv, PlanAndGovern
  PROVE  ExecInv'
<1>1. Same /\ UNCHANGED <<directive, attempts, receipts, deliverables, workers, wrote>>
  BY DirectiveStays DEF PlanAndGovern
<1>2. \A s \in Plan : attempts[s] = "none"
  BY DEF PlanAndGovern, ExecInv, LoopInv
<1>3. 1 \in NotDone
  BY <1>2 DEF ExecInv, ExecShape, Plan, NotDone, CompletedSteps
<1>4. NotDone' = NotDone /\ Prompted' = Prompted
  BY <1>1 DEF Same, NotDone, CompletedSteps, Prompted
<1>5. (loop'.pc = "run" /\ Plannable(directive)) \/ loop'.pc = "refused"
  <2>1. CASE PlanFromDirective
    <3>1. Plannable(directive)
      BY <2>1 DEF PlanFromDirective
    <3>2. PICK limit : loop' = [loop EXCEPT !.pc = "run", !.limit = limit]
      BY <2>1, Zenon DEF PlanAndGovern
    <3> QED
      BY <3>1, <3>2 DEF ExecInv, ExecShape
  <2>2. CASE ~PlanFromDirective
    <3>1. loop' = [loop EXCEPT !.pc = "refused"]
      BY <2>2, Zenon DEF PlanAndGovern
    <3> QED
      BY <3>1 DEF ExecInv, ExecShape
  <2> QED
    BY <2>1, <2>2
<1>6. LoopInv'
  BY <1>1, <1>3, <1>4, <1>5 DEF LoopInv
<1> QED
  BY <1>1, <1>6, LoopMoves

\* Files, workers and receipts move; what was done stays done.
LEMMA WorkMoves ==
  ASSUME ExecInv, Same, UNCHANGED <<directive, attempts>>,
         DOMAIN workers' = Plan, DOMAIN deliverables' = DOMAIN deliverables,
         wrote \subseteq wrote', wrote' \subseteq Plan,
         receipts \subseteq receipts',
         LoopInv', WorkInv'
  PROVE  ExecInv'
  BY DEF ExecInv, ExecShape, Same

LEMMA OneStepPlanned ==
  ASSUME ExecInv, PlanOneStep
  PROVE  ExecInv'
<1>1. Same /\ UNCHANGED <<directive, attempts, receipts, workers>>
  BY DirectiveStays DEF PlanOneStep
<1>2. /\ loop.pc = "plan" /\ Plannable(directive) /\ loop'.pc = "run" /\ Plan = {1}
  BY DEF PlanOneStep, OneStepPlan, Plan
<1>3. /\ CompletedSteps = {} /\ Prompted = {}
      /\ CompletedSteps' = CompletedSteps /\ Prompted' = Prompted
  BY <1>1, <1>2 DEF ExecInv, LoopInv, CompletedSteps, Prompted, Same
<1>4. LoopInv'
  BY <1>1, <1>2, <1>3 DEF LoopInv, NotDone, Same
<1>5. /\ wrote \subseteq wrote' /\ wrote' \subseteq Plan
      /\ DOMAIN deliverables' = DOMAIN deliverables
      /\ \A s \in Plan : deliverables'[StepSpec(s).artifact] = deliverables[StepSpec(s).artifact]
                           \/ (deliverables'[StepSpec(s).artifact] = Envelope(1) /\ 1 \in wrote')
  BY <1>2 DEF PlanOneStep, ExecInv, ExecShape
<1>6. \A s \in Plan : Honest(deliverables[StepSpec(s).artifact])'
  BY <1>1, <1>5 DEF ExecInv, WorkInv, Honest, Same
<1>7. WorkInv'
  BY <1>1, <1>2, <1>3, <1>6 DEF WorkInv, Same
<1> QED
  BY <1>1, <1>4, <1>5, <1>7, WorkMoves DEF ExecInv, ExecShape

LEMMA DispatchStep ==
  ASSUME ExecInv, Dispatch
  PROVE  ExecInv'
<1>0. PICK s : s = NextStepOf
  OBVIOUS
<1>1. /\ Same /\ UNCHANGED <<directive, attempts, deliverables, wrote>>
      /\ loop.pc = "run" /\ ReceiptsOf(s) = {}
      /\ receipts' = receipts \cup {Receipt(s, "open")}
      /\ workers' = [workers EXCEPT ![s] = "working"]
      /\ loop'.pc = "wait" /\ loop'.step = s
  BY <1>0, DirectiveStays DEF Dispatch, Dispatchable
<1>2. Plannable(directive) /\ s \in ReadySteps
  BY <1>0, <1>1, SomeStepIsReady DEF ExecInv, LoopInv
<1>3. s \in NotDone /\ Needs(directive, s) \subseteq CompletedSteps /\ s \in Plan
  BY <1>2 DEF ReadySteps, NotDone
<1>4. Prompted' = Prompted \cup {s} /\ s \notin Prompted
  BY <1>1, <1>3 DEF ExecInv, ExecShape, WorkInv, Prompted, Same
<1>5. CompletedSteps' = CompletedSteps /\ NotDone' = NotDone
  BY <1>1 DEF CompletedSteps, NotDone, Same
<1>6. LoopInv'
  BY <1>1, <1>2, <1>3, <1>4, <1>5 DEF LoopInv
<1>7. \A t \in Prompted : StepSpec(t).work # StepSpec(s).work
  BY <1>1 DEF ExecInv, WorkInv, ReceiptsOf
<1>8. \A t \in Prompted' : ReceiptsOf(t)' # {}
  <2>1. \A t : ReceiptsOf(t) \subseteq ReceiptsOf(t)'
    BY <1>1 DEF ReceiptsOf, Same
  <2>2. Receipt(s, "open") \in ReceiptsOf(s)'
    BY <1>1 DEF ReceiptsOf, Receipt, Same
  <2> QED
    BY <1>4, <2>1, <2>2 DEF ExecInv, WorkInv
<1>9. \A t \in Plan : Honest(deliverables[StepSpec(t).artifact])'
  BY <1>1 DEF ExecInv, WorkInv, Honest, Same
<1>10. WorkInv'
  BY <1>1, <1>3, <1>4, <1>5, <1>7, <1>8, <1>9 DEF ExecInv, WorkInv, Same
<1> QED
  BY <1>1, <1>6, <1>10, WorkMoves DEF ExecInv, ExecShape

\* A step is answered: it is the one that was ready or awaited.
LEMMA AnswerStep ==
  ASSUME ExecInv, Same, NEW s \in NotDone, NEW ok \in BOOLEAN, Answered(s, ok),
         loop.pc \notin {"plan", "refused"},
         UNCHANGED <<directive, deliverables, wrote>>,
         DOMAIN workers' = Plan, Prompted' = Prompted,
         \A t \in Plan : ReceiptsOf(t) # {} => ReceiptsOf(t)' # {},
         \A t \in Plan : Receipt(t, "completed") \in receipts => Receipt(t, "completed") \in receipts',
         ok => s \in wrote /\ Receipt(s, "completed") \in receipts'
  PROVE  ExecInv'
<1>1. /\ attempts' = [attempts EXCEPT ![s] = IF ok THEN "completed" ELSE "failed"]
      /\ loop'.pc \in {"done", "decide"}
  BY DEF Answered
<1>2. CompletedSteps' = IF ok THEN CompletedSteps \cup {s} ELSE CompletedSteps
  BY <1>1 DEF ExecInv, ExecShape, CompletedSteps, NotDone, Same
<1>3. ExecShape'
  BY <1>1 DEF ExecInv, ExecShape, Same
<1>4. LoopInv'
  BY <1>1 DEF ExecInv, LoopInv
<1>5. \A t \in Plan : Honest(deliverables[StepSpec(t).artifact])'
  BY DEF ExecInv, WorkInv, Honest, Same
<1>6. \A t \in CompletedSteps' : t \in wrote' /\ Receipt(t, "completed")' \in receipts'
  BY <1>2 DEF ExecInv, WorkInv, Same, CompletedSteps, NotDone
<1>7. WorkInv'
  BY <1>2, <1>5, <1>6 DEF ExecInv, WorkInv, Same, Prompted
<1> QED
  BY <1>3, <1>4, <1>7 DEF ExecInv

LEMMA RefusedStep ==
  ASSUME ExecInv, DispatchRefused
  PROVE  ExecInv'
<1>0. PICK s : s = NextStepOf
  OBVIOUS
<1>1. /\ Same /\ UNCHANGED <<directive, deliverables, workers, wrote>>
      /\ loop.pc = "run" /\ Answered(s, FALSE) /\ receipts \subseteq receipts'
  BY <1>0, DirectiveStays DEF DispatchRefused
<1>2. s \in NotDone
  BY <1>0, <1>1, SomeStepIsReady DEF ExecInv, LoopInv, ReadySteps, NotDone
<1>3. Prompted' = Prompted /\ DOMAIN workers' = Plan
  BY <1>1 DEF ExecInv, ExecShape, Prompted, Same
<1>4. \A t \in Plan : ReceiptsOf(t) \subseteq ReceiptsOf(t)'
  BY <1>1 DEF ReceiptsOf, Same
<1> QED
  BY <1>1, <1>2, <1>3, <1>4, AnswerStep

\* A worker's envelope under the name of a step that was prompted is its own.
LEMMA VerifiedWrote ==
  ASSUME ExecInv, NEW s \in Prompted, ArtifactVerified(s)
  PROVE  s \in wrote
<1>1. s \in Plan /\ deliverables[StepSpec(s).artifact] = Envelope(s)
  BY DEF Prompted, ArtifactVerified
<1>2. Envelope(s).mission = "this" /\ Envelope(s).work = StepSpec(s).work
  BY DEF Envelope
<1>3. PICK t \in wrote : Envelope(s) = Envelope(t)
  BY <1>1, <1>2, NobodyIsNoEnvelope DEF ExecInv, WorkInv, Honest
<1>4. t \in Plan /\ StepSpec(t).work = StepSpec(s).work
  BY <1>2, <1>3 DEF ExecInv, ExecShape, Envelope
<1> QED
  BY <1>1, <1>3, <1>4 DEF ExecInv, WorkInv

\* Without its artifact no answer of a worker is a completed step.
LEMMA JudgedByArtifact ==
  ASSUME NEW observed \in {"done", "failed", "unknown", "error"}, NEW s,
         Outcome(s, observed) = "completed"
  PROVE  ArtifactVerified(s)
<1> SUFFICES ASSUME ~ArtifactVerified(s) PROVE FALSE
  OBVIOUS
<1>1. CASE observed = "done"
  <2>1. Outcome(s, observed) = "completed_without_artifact"
    BY <1>1 DEF Outcome
  <2> QED
    BY <2>1
<1>2. CASE observed = "error"
  <2>1. Outcome(s, observed) = "failed"
    BY <1>2 DEF Outcome
  <2> QED
    BY <2>1
<1>3. CASE observed \in {"failed", "unknown"}
  <2>1. Outcome(s, observed) = observed
    BY <1>3 DEF Outcome
  <2> QED
    BY <1>3, <2>1
<1> QED
  BY <1>1, <1>2, <1>3

LEMMA ObservedStep ==
  ASSUME ExecInv, NEW observed \in {"done", "failed", "unknown", "error"}, WorkerObserved(observed)
  PROVE  ExecInv'
<1>0. PICK s, outcome : s = loop.step /\ outcome = Outcome(s, observed)
  OBVIOUS
<1>1. /\ Same /\ UNCHANGED <<directive, deliverables, wrote>>
      /\ loop.pc = "wait"
      /\ receipts' = (receipts \ {Receipt(s, "open")}) \cup {Receipt(s, outcome)}
      /\ workers' = workers \/ workers' = [workers EXCEPT ![s] = "ended"]
      /\ Answered(s, GatedOk(outcome))
  BY <1>0, DirectiveStays DEF WorkerObserved
<1>2. s \in NotDone /\ s \in Prompted
  BY <1>0, <1>1 DEF ExecInv, LoopInv
<1>3. Prompted' = Prompted /\ DOMAIN workers' = Plan
  BY <1>1, <1>2 DEF ExecInv, ExecShape, Prompted, Same
<1>4. ASSUME NEW t \in Plan, ReceiptsOf(t) # {} PROVE ReceiptsOf(t)' # {}
  <2>1. PICK r \in receipts : r.work = StepSpec(t).work
    BY <1>4 DEF ReceiptsOf
  <2>2. CASE r = Receipt(s, "open")
    <3>1. Receipt(s, outcome).work = StepSpec(t).work
      BY <2>1, <2>2 DEF Receipt
    <3> QED
      BY <1>1, <3>1 DEF ReceiptsOf, Same
  <2>3. CASE r # Receipt(s, "open")
    BY <1>1, <2>1, <2>3 DEF ReceiptsOf, Same
  <2> QED
    BY <2>2, <2>3
<1>5. ASSUME NEW t \in Plan, Receipt(t, "completed") \in receipts
      PROVE  Receipt(t, "completed") \in receipts'
  <2>1. Receipt(t, "completed").outcome = "completed" /\ Receipt(s, "open").outcome = "open"
    BY DEF Receipt
  <2> QED
    BY <1>1, <1>5, <2>1
<1>6. ASSUME GatedOk(outcome) PROVE s \in wrote /\ Receipt(s, "completed") \in receipts'
  <2>1. outcome = "completed"
    BY <1>6 DEF GatedOk, ResultOk
  <2>2. ArtifactVerified(s)
    BY <1>0, <2>1, JudgedByArtifact
  <2> QED
    BY <1>1, <1>2, <2>1, <2>2, VerifiedWrote
<1>7. GatedOk(outcome) \in BOOLEAN
  BY DEF GatedOk, ResultOk
<1> QED
  BY <1>1, <1>2, <1>3, <1>4, <1>5, <1>6, <1>7, AnswerStep

LEMMA WritesStep ==
  ASSUME ExecInv, NEW s \in Plan, WorkerWrites(s)
  PROVE  ExecInv'
<1>1. /\ Same /\ UNCHANGED <<directive, attempts, receipts, workers, loop>>
      /\ s \in Prompted
      /\ \/ /\ deliverables' = [deliverables EXCEPT ![StepSpec(s).artifact] = Envelope(s)]
            /\ wrote' = wrote \cup {s}
         \/ /\ deliverables' = [deliverables EXCEPT ![StepSpec(s).artifact] = Nobody]
            /\ wrote' = wrote
  BY DirectiveStays DEF WorkerWrites, Prompted
<1>2. /\ wrote \subseteq wrote' /\ wrote' \subseteq Plan /\ wrote' \subseteq wrote \cup {s}
      /\ DOMAIN deliverables' = DOMAIN deliverables
  BY <1>1 DEF ExecInv, ExecShape
<1>3. /\ CompletedSteps' = CompletedSteps /\ Prompted' = Prompted /\ NotDone' = NotDone
      /\ \A t : ReceiptsOf(t)' = ReceiptsOf(t)
  BY <1>1 DEF CompletedSteps, NotDone, Prompted, ReceiptsOf, Same
<1>4. LoopInv'
  BY <1>1, <1>3 DEF ExecInv, LoopInv, Same
<1>5. ASSUME NEW t \in Plan PROVE Honest(deliverables[StepSpec(t).artifact])'
  <2>1. PICK a : a = StepSpec(t).artifact
    OBVIOUS
  <2>2. Honest(deliverables[a])
    BY <2>1 DEF ExecInv, WorkInv
  <2>3. \/ deliverables'[a] = deliverables[a]
        \/ deliverables'[a] = Nobody
        \/ deliverables'[a] = Envelope(s) /\ s \in wrote'
    BY <1>1, <2>1 DEF ExecInv, ExecShape
  <2> QED
    BY <1>1, <1>2, <2>1, <2>2, <2>3 DEF Honest, Same
<1>6. WorkInv'
  BY <1>1, <1>2, <1>3, <1>5 DEF ExecInv, WorkInv, Same
<1> QED
  BY <1>1, <1>2, <1>4, <1>6, WorkMoves DEF ExecInv, ExecShape

LEMMA DecideStep ==
  ASSUME ExecInv, DecideNext \/ BudgetStops \/ UNCHANGED executiveVars
  PROVE  ExecInv'
<1>1. Same /\ UNCHANGED <<directive, attempts, receipts, deliverables, workers, wrote>>
  BY DirectiveStays DEF DecideNext, BudgetStops, executiveVars
<1>2. NotDone' = NotDone /\ Prompted' = Prompted
  BY <1>1 DEF Same, NotDone, CompletedSteps, Prompted
<1>3. CASE UNCHANGED executiveVars
  <2>1. LoopInv'
    BY <1>1, <1>2, <1>3 DEF executiveVars, ExecInv, LoopInv, Same
  <2> QED
    BY <1>1, <2>1, LoopMoves
<1>4. CASE DecideNext \/ BudgetStops
  <2>1. /\ loop.pc \notin {"plan", "refused"} /\ loop'.pc \in {"run", "decide", "done"}
        /\ loop'.pc = "run" => Remaining > 0
    <3>1. CASE BudgetStops
      BY <3>1 DEF BudgetStops, ExecInv, ExecShape
    <3>2. CASE DecideNext /\ Continues(Attempted)
      <4>1. PICK count : loop' = [loop EXCEPT !.pc = "run", !.count = count]
        BY <3>2, Zenon DEF DecideNext
      <4>2. loop.pc = "decide" /\ Remaining > 0
        BY <3>2, Zenon DEF DecideNext, Continues
      <4> QED
        BY <4>1, <4>2 DEF ExecInv, ExecShape
    <3>3. CASE DecideNext /\ ~Continues(Attempted)
      <4>1. loop.pc = "decide" /\ loop' = [loop EXCEPT !.pc = "done"]
        BY <3>3, Zenon DEF DecideNext
      <4> QED
        BY <4>1 DEF ExecInv, ExecShape
    <3> QED
      BY <1>4, <3>1, <3>2, <3>3
  <2>2. loop'.pc = "run" => NotDone # {}
    BY <2>1, FS_EmptySet DEF Remaining, NotDone
  <2>3. LoopInv'
    BY <1>1, <1>2, <2>1, <2>2 DEF ExecInv, LoopInv
  <2> QED
    BY <1>1, <2>3, LoopMoves
<1> QED
  BY <1>3, <1>4

\* A step the mission counts as done was delivered by its own worker and has
\* its receipt, and none was prompted before what it depends on was done, for
\* any directive: shared artifact names and work ids, files of other missions
\* and late workers included (run_closed_loop, dispatch, the artifact gate).
THEOREM DeliveryIsInOrder == ExecutiveSpec => []DeliveredInOrder
<1>1. ExecutiveInit => ExecInv
  <2> SUFFICES ASSUME ExecutiveInit PROVE ExecInv
    OBVIOUS
  <2>1. ExecShape
    BY HandedSteps DEF ExecutiveInit, ExecShape
  <2>2. CompletedSteps = {} /\ Prompted = {}
    BY DEF ExecutiveInit, CompletedSteps, Prompted
  <2>3. \A s \in Plan : Honest(deliverables[StepSpec(s).artifact])
    <3>1. [Envelope(1) EXCEPT !.mission = "other"].mission = "other"
      BY DEF Envelope
    <3> QED
      BY <3>1 DEF ExecutiveInit, Honest
  <2>4. LoopInv
    BY DEF ExecutiveInit, LoopInv
  <2>5. WorkInv
    BY <2>2, <2>3 DEF ExecutiveInit, WorkInv
  <2> QED
    BY <2>1, <2>4, <2>5 DEF ExecInv
<1>2. ExecInv /\ [ExecutiveNext]_executiveVars => ExecInv'
  BY PlanStep, OneStepPlanned, DispatchStep, RefusedStep, WritesStep, ObservedStep, DecideStep
     DEF ExecutiveNext, ExecutiveDone
<1>3. ExecInv => DeliveredInOrder
  BY DEF ExecInv, ExecShape, WorkInv, DeliveredInOrder, Prompted, CompletedSteps
<1> QED
  BY <1>1, <1>2, <1>3, PTL DEF ExecutiveSpec

-----------------------------------------------------------------------------
(* Skills: one holder of a name, one action of a call                      *)

\* The skills that hold a name, and what the pointer of its slug says.
Holders(n) == {c \in Proposed : NameOf(c) = n /\ registry[c] \in {"active", "stale"}}

Pointed(n) == {pointer[Slug[n]]} \ {0}

Agrees(n) ==
    /\ \A c, d \in Holders(n) : c = d
    /\ \A c \in Pointed(n) : NameOf(c) = n => c \in Holders(n)
    /\ SlugAlone(n) => Holders(n) = Pointed(n)

\* A candidate is an identifier, and one that was never proposed holds nothing.
SkillShape ==
    /\ skillCandidates \in Seq(SkillProposals) /\ Len(skillCandidates) <= MaxSkillCandidates
    /\ registry \in [CandidateIds -> {"none", "active", "stale", "archived", "superseded"}]
    /\ DOMAIN pointer = Slugs /\ DOMAIN calls = SkillCalls
    /\ \A s \in Slugs : pointer[s] \in Proposed \cup {0}
    /\ \A c \in CandidateIds : registry[c] # "none" => c \in Proposed

\* What a call has waiting and what was done for it are one action together,
\* and nothing before it has an answer.
OneAction(x) ==
    /\ \A c, d \in x.waiting \cup x.ran : c = d
    /\ x.pc \in {"idle", "trying"} => x.waiting = {} /\ x.ran = {}

SkillsInv ==
    /\ SkillShape
    /\ \A n \in SkillNames \ unsettled : Agrees(n)
    /\ \A k \in SkillCalls : OneAction(calls[k])

LEMMA ProposedIds ==
  ASSUME SkillShape
  PROVE  /\ Proposed \subseteq CandidateIds /\ 0 \notin Proposed
         /\ \A c \in Proposed : NameOf(c) \in SkillNames
<1>1. Proposed = 1..Len(skillCandidates) /\ Len(skillCandidates) \in Nat
  BY DEF SkillShape, Proposed
<1>2. \A c \in Proposed : skillCandidates[c] \in SkillProposals
  BY <1>1 DEF SkillShape, Proposed
<1> QED
  BY <1>1, <1>2, SkillsAssumption DEF SkillShape, CandidateIds, NameOf, SkillProposals

\* The registry moves, the calls do not.
LEMMA RegistryMoves ==
  ASSUME SkillsInv, SkillShape', UNCHANGED calls,
         \A n \in SkillNames \ unsettled' : Agrees(n)'
  PROVE  SkillsInv'
  BY DEF SkillsInv

\* The candidates stay, so a slug is as much alone as before.
LEMMA AgreesStays ==
  ASSUME UNCHANGED skillCandidates, NEW n, Agrees(n),
         Holders(n)' = Holders(n), Pointed(n)' = Pointed(n)
  PROVE  Agrees(n)'
<1>1. SlugAlone(n)' <=> SlugAlone(n)
  BY DEF SlugAlone, SlugOf, NameOf, Proposed
<1>2. \A c : NameOf(c)' = NameOf(c)
  BY DEF NameOf
<1> QED
  BY <1>1, <1>2 DEF Agrees

LEMMA QuietRegistry ==
  ASSUME SkillsInv, UNCHANGED <<skillCandidates, registry, pointer, unsettled, calls>>
  PROVE  SkillsInv'
<1>1. \A n : Holders(n)' = Holders(n) /\ Pointed(n)' = Pointed(n)
  BY DEF Holders, Pointed, Proposed, NameOf
<1>2. SkillShape'
  BY DEF SkillsInv, SkillShape, Proposed
<1> QED
  BY <1>1, <1>2, AgreesStays DEF SkillsInv

LEMMA ProposeSkillStep ==
  ASSUME SkillsInv, NEW p \in SkillProposals, NEW retry, ProposeSkill(p, retry)
  PROVE  SkillsInv'
<1>1. /\ skillCandidates' = Append(skillCandidates, p) /\ Len(skillCandidates) < MaxSkillCandidates
      /\ UNCHANGED <<registry, pointer, unsettled, calls>>
  BY DEF ProposeSkill
<1> DEFINE new == Len(skillCandidates) + 1
<1>2. /\ new \in CandidateIds /\ new \notin Proposed /\ Proposed' = Proposed \cup {new}
      /\ \A c \in Proposed : skillCandidates'[c] = skillCandidates[c]
      /\ skillCandidates' \in Seq(SkillProposals) /\ Len(skillCandidates') <= MaxSkillCandidates
  BY <1>1, SkillsAssumption DEF SkillsInv, SkillShape, Proposed, CandidateIds
<1> HIDE DEF new
<1>3. registry[new] = "none"
  BY <1>2 DEF SkillsInv, SkillShape
<1>4. SkillShape'
  BY <1>1, <1>2 DEF SkillsInv, SkillShape
<1>5. ASSUME NEW n PROVE Holders(n)' = Holders(n) /\ Pointed(n)' = Pointed(n)
  BY <1>1, <1>2, <1>3 DEF Holders, Pointed, NameOf
<1>6. ASSUME NEW n \in SkillNames \ unsettled PROVE Agrees(n)'
  <2>1. Agrees(n)
    BY DEF SkillsInv
  <2>2. \A c \in Proposed : NameOf(c)' = NameOf(c)
    BY <1>2 DEF NameOf
  <2>3. Pointed(n) \subseteq Proposed
    BY DEF SkillsInv, SkillShape, Pointed, Slugs
  <2>4. SlugAlone(n)' => SlugAlone(n)
    BY <1>2, <2>2 DEF SlugAlone, SlugOf
  <2> QED
    BY <1>5, <2>1, <2>2, <2>3, <2>4 DEF Agrees
<1> QED
  BY <1>1, <1>4, <1>6, RegistryMoves

LEMMA ActivateStep ==
  ASSUME SkillsInv, NEW c \in Proposed, ActivateSkill(c)
  PROVE  SkillsInv'
<1>0. PICK m, prior : m = NameOf(c) /\ prior = skillCandidates[c].prior
  OBVIOUS
<1>1. /\ registry[c] = "none" /\ MayActivate(c)
      /\ pointer' = [pointer EXCEPT ![Slug[m]] = c]
      /\ registry' = [x \in CandidateIds |->
                         IF x = c THEN "active"
                         ELSE IF x = prior /\ x \in ActiveFor(m) THEN "superseded" ELSE registry[x]]
      /\ UNCHANGED <<skillCandidates, unsettled, calls>>
  BY <1>0 DEF ActivateSkill, Activatable, Install, SlugOf
<1>2. SkillShape /\ c \in CandidateIds /\ c # 0 /\ m \in SkillNames /\ Slug[m] \in Slugs
      /\ Proposed \subseteq CandidateIds
  BY <1>0, ProposedIds DEF SkillsInv, Slugs
<1>3. Proposed' = Proposed /\ \A x : NameOf(x)' = NameOf(x)
  BY <1>1 DEF Proposed, NameOf
<1>4. ActiveFor(m) = Holders(m) /\ (Holders(m) = {} \/ prior \in Holders(m))
  BY <1>0, <1>1 DEF ActiveFor, Holders, MayActivate
<1>5. SkillShape'
  BY <1>1, <1>2, <1>3, <1>4 DEF SkillShape, Holders
<1>6. ASSUME NEW n \in SkillNames \ unsettled PROVE Agrees(n)'
  <2>1. Agrees(n)
    BY DEF SkillsInv
  <2>2. CASE n = m
    <3>1. \A x \in Holders(m) : x = prior
      BY <1>4, <2>1, <2>2 DEF Agrees
    <3>2. ASSUME NEW x \in Proposed PROVE x \in Holders(m)' <=> x = c
      <4>1. CASE x = c
        BY <1>0, <1>1, <1>2, <1>3, <4>1 DEF Holders
      <4>2. CASE x # c /\ x \in Holders(m)
        <5>1. registry'[x] = "superseded"
          BY <1>1, <1>2, <1>4, <3>1, <4>2
        <5> QED
          BY <4>2, <5>1 DEF Holders
      <4>3. CASE x # c /\ x \notin Holders(m)
        <5>1. registry'[x] = registry[x]
          BY <1>1, <1>2, <1>4, <4>3
        <5> QED
          BY <1>3, <4>3, <5>1 DEF Holders
      <4> QED
        BY <4>1, <4>2, <4>3
    <3>3. Holders(m)' = {c}
      BY <1>3, <3>2 DEF Holders
    <3>4. pointer'[Slug[m]] = c
      BY <1>1, <1>2 DEF SkillShape
    <3>5. Pointed(m)' = {c}
      BY <1>2, <3>4 DEF Pointed
    <3> QED
      BY <2>2, <3>3, <3>5 DEF Agrees
  <2>3. CASE n # m
    <3>1. ASSUME NEW x \in Proposed, NameOf(x) = n
          PROVE  registry'[x] = registry[x]
      <4>1. x # c /\ x \notin Holders(m)
        BY <1>0, <2>3, <3>1 DEF Holders
      <4> QED
        BY <1>1, <1>2, <1>4, <4>1
    <3>2. Holders(n)' = Holders(n)
      BY <1>3, <3>1 DEF Holders
    <3>3. CASE Slug[n] # Slug[m]
      <4>0. Slug[n] \in Slugs
        BY DEF Slugs
      <4>1. Pointed(n)' = Pointed(n)
        BY <1>1, <3>3, <4>0 DEF SkillsInv, SkillShape, Pointed
      <4> QED
        BY <1>1, <2>1, <3>2, <4>1, AgreesStays
    <3>4. CASE Slug[n] = Slug[m]
      <4>1. Pointed(n)' = {c} /\ NameOf(c)' = m
        BY <1>0, <1>1, <1>2, <1>3, <3>4 DEF SkillShape, Pointed
      <4>2. ~SlugAlone(n)'
        BY <1>0, <1>3, <2>3, <3>4 DEF SlugAlone, SlugOf
      <4> QED
        BY <2>1, <2>3, <3>2, <4>1, <4>2 DEF Agrees
    <3> QED
      BY <3>3, <3>4
  <2> QED
    BY <2>2, <2>3
<1> QED
  BY <1>1, <1>5, <1>6, RegistryMoves

\* A skill that holds its name is the one the pointer names.
LEMMA ArchiveStep ==
  ASSUME SkillsInv, NEW c \in Proposed, registry[c] \in {"active", "stale"},
         pointer' = Deactivated(c),
         UNCHANGED <<skillCandidates, calls>>,
         \/ registry' = [registry EXCEPT ![c] = "archived"] /\ UNCHANGED unsettled
         \/ UNCHANGED registry /\ unsettled' = unsettled \cup {NameOf(c)}
  PROVE  SkillsInv'
<1>0. PICK m : m = NameOf(c)
  OBVIOUS
<1>1. SkillShape /\ c \in CandidateIds /\ c # 0 /\ m \in SkillNames /\ Slug[m] \in Slugs
      /\ Proposed \subseteq CandidateIds
  BY <1>0, ProposedIds DEF SkillsInv, Slugs
<1>2. Proposed' = Proposed /\ \A x : NameOf(x)' = NameOf(x)
  BY DEF Proposed, NameOf
<1>3. pointer' = pointer \/ pointer' = [pointer EXCEPT ![Slug[m]] = 0]
  BY <1>0 DEF Deactivated, SlugOf
<1>4. SkillShape'
  BY <1>1, <1>2, <1>3 DEF SkillShape
<1>5. \A x \in CandidateIds : x # c => registry'[x] = registry[x]
  BY <1>1 DEF SkillShape
<1>6. ASSUME NEW n \in SkillNames \ unsettled' PROVE Agrees(n)'
  <2>1. Agrees(n)
    BY DEF SkillsInv
  <2>0. SlugAlone(n)' <=> SlugAlone(n)
    BY <1>2 DEF SlugAlone, SlugOf
  <2>2. CASE n = m
    <3>1. registry'[c] = "archived"
      BY <1>0, <1>1, <2>2 DEF SkillShape
    <3>2. Holders(m) = {c}
      BY <1>0, <2>1, <2>2 DEF Holders, Agrees
    <3>3. Holders(m)' = {}
      BY <1>1, <1>2, <1>5, <3>1, <3>2 DEF Holders
    <3>4. CASE pointer[Slug[m]] = c
      <4>1. pointer'[Slug[m]] = 0
        BY <1>0, <1>1, <3>4 DEF Deactivated, SlugOf, SkillShape
      <4> QED
        BY <2>2, <3>3, <4>1 DEF Agrees, Pointed
    <3>5. CASE pointer[Slug[m]] # c
      <4>1. ~SlugAlone(m)
        BY <2>1, <2>2, <3>2, <3>5 DEF Agrees, Pointed
      <4>2. \A d \in Pointed(m) : NameOf(d) # m
        BY <2>1, <2>2, <3>2, <3>5 DEF Agrees, Pointed
      <4>3. Pointed(m)' \subseteq Pointed(m)
        BY <1>1, <1>3 DEF Pointed, SkillShape
      <4> QED
        BY <1>2, <2>0, <2>2, <3>3, <4>1, <4>2, <4>3 DEF Agrees
    <3> QED
      BY <3>4, <3>5
  <2>3. CASE n # m
    <3>1. Holders(n)' = Holders(n)
      BY <1>0, <1>1, <1>2, <1>5, <2>3 DEF Holders
    <3>2. CASE Slug[n] # Slug[m]
      <4>0. Slug[n] \in Slugs
        BY DEF Slugs
      <4>1. Pointed(n)' = Pointed(n)
        BY <1>1, <1>3, <3>2, <4>0 DEF SkillShape, Pointed
      <4> QED
        BY <2>1, <3>1, <4>1, AgreesStays
    <3>3. CASE Slug[n] = Slug[m]
      <4>1. ~SlugAlone(n)
        BY <1>0, <2>3, <3>3 DEF SlugAlone, SlugOf
      <4>2. Pointed(n)' \subseteq Pointed(n)
        BY <1>1, <1>3, <3>3 DEF Pointed, SkillShape
      <4> QED
        BY <1>2, <2>0, <2>1, <3>1, <4>1, <4>2 DEF Agrees
    <3> QED
      BY <3>2, <3>3
  <2> QED
    BY <2>2, <2>3
<1> QED
  BY <1>4, <1>6, RegistryMoves

LEMMA ReviewStep ==
  ASSUME SkillsInv, NEW c \in Proposed, ReviewSkill(c)
  PROVE  SkillsInv'
<1>1. /\ registry[c] = "active" /\ registry' = [registry EXCEPT ![c] = "stale"]
      /\ UNCHANGED <<skillCandidates, pointer, unsettled, calls>>
  BY DEF ReviewSkill
<1>2. SkillShape /\ c \in CandidateIds
  BY ProposedIds DEF SkillsInv
<1>3. registry'[c] = "stale" /\ \A x : x # c => registry'[x] = registry[x]
  BY <1>1, <1>2 DEF SkillShape
<1>4. SkillShape'
  BY <1>1, <1>2, <1>3 DEF SkillShape, Proposed
<1>5. ASSUME NEW n PROVE Holders(n)' = Holders(n) /\ Pointed(n)' = Pointed(n)
  BY <1>1, <1>3 DEF Holders, Pointed, Proposed, NameOf
<1> QED
  BY <1>1, <1>4, <1>5, AgreesStays, RegistryMoves DEF SkillsInv

LEMMA ActivationFault ==
  ASSUME SkillsInv, NEW c \in Proposed, NEW crash \in BOOLEAN, ActivationFails(c, crash)
  PROVE  SkillsInv'
<1>0. PICK m : m = NameOf(c)
  OBVIOUS
<1>1. /\ UNCHANGED skillCandidates
      /\ registry' = registry \/ registry' = [registry EXCEPT ![c] = "active"]
      /\ pointer' = pointer \/ pointer' = [pointer EXCEPT ![Slug[m]] = c]
      /\ \/ UNCHANGED <<registry, pointer, unsettled>> \/ unsettled' = unsettled \cup {m}
  <2>1. PICK recorded \in BOOLEAN :
          /\ registry' = [registry EXCEPT ![c] = IF recorded THEN "active" ELSE @]
          /\ unsettled' = IF recorded \/ crash THEN unsettled \cup {m} ELSE unsettled
          /\ pointer' = IF crash THEN [pointer EXCEPT ![Slug[m]] = c] ELSE pointer
    BY <1>0 DEF ActivationFails, Install, SlugOf
  <2>2. [registry EXCEPT ![c] = registry[c]] = registry
    BY DEF SkillsInv, SkillShape
  <2> QED
    BY <2>1, <2>2 DEF ActivationFails
<1>2. SkillShape /\ c \in CandidateIds /\ m \in SkillNames /\ Slug[m] \in Slugs
      /\ Proposed \subseteq CandidateIds
  BY <1>0, ProposedIds DEF SkillsInv, Slugs
<1>3. Proposed' = Proposed /\ \A x : NameOf(x)' = NameOf(x)
  BY <1>1 DEF Proposed, NameOf
<1>4. \A k \in SkillCalls : calls'[k] = calls[k] \/ calls'[k] = [calls[k] EXCEPT !.pc = "failed"]
  BY DEF ActivationFails
<1>5. DOMAIN calls' = SkillCalls
  BY <1>2 DEF ActivationFails, SkillShape
<1>6. SkillShape'
  BY <1>1, <1>2, <1>3, <1>5 DEF SkillShape
<1>7. ASSUME NEW n \in SkillNames \ unsettled' PROVE Agrees(n)'
  <2>1. Agrees(n)
    BY <1>1 DEF SkillsInv
  <2>2. CASE UNCHANGED <<registry, pointer>>
    <3>1. Holders(n)' = Holders(n) /\ Pointed(n)' = Pointed(n)
      BY <1>3, <2>2 DEF Holders, Pointed
    <3> QED
      BY <1>1, <2>1, <3>1, AgreesStays
  <2>3. CASE n # m
    <3>1. \A x \in Proposed : NameOf(x) = n => registry'[x] = registry[x]
      BY <1>0, <1>1, <1>2, <2>3 DEF SkillShape
    <3>2. Holders(n)' = Holders(n)
      BY <1>3, <3>1 DEF Holders
    <3>3. CASE Pointed(n)' = Pointed(n)
      BY <1>1, <2>1, <3>2, <3>3, AgreesStays
    <3>4. CASE Pointed(n)' # Pointed(n)
      <4>1. Slug[n] = Slug[m] /\ pointer' = [pointer EXCEPT ![Slug[m]] = c]
        <5>1. pointer'[Slug[n]] # pointer[Slug[n]]
          BY Zenon, <3>4 DEF Pointed
        <5>2. pointer' = [pointer EXCEPT ![Slug[m]] = c]
          BY <1>1, <5>1
        <5>3. Slug[n] \in Slugs /\ DOMAIN pointer = Slugs
          BY <1>2 DEF SkillShape, Slugs
        <5> QED
          BY <5>1, <5>2, <5>3
      <4>2. Pointed(n)' \subseteq {c} /\ NameOf(c)' = m
        BY <1>0, <1>2, <1>3, <4>1 DEF SkillShape, Pointed
      <4>3. ~SlugAlone(n)'
        BY <1>0, <1>3, <2>3, <4>1 DEF SlugAlone, SlugOf
      <4> QED
        BY <2>1, <2>3, <3>2, <4>2, <4>3 DEF Agrees
    <3> QED
      BY <3>3, <3>4
  <2> QED
    BY <1>1, <2>2, <2>3
<1>8. ASSUME NEW k \in SkillCalls PROVE OneAction(calls'[k])
  <2>1. OneAction(calls[k])
    BY DEF SkillsInv
  <2>2. CASE calls'[k] = calls[k]
    BY <2>1, <2>2
  <2>3. CASE calls'[k] = [calls[k] EXCEPT !.pc = "failed"]
    <3> DEFINE x == [calls[k] EXCEPT !.pc = "failed"]
    <3>1. x.waiting = calls[k].waiting /\ x.ran = calls[k].ran
      OBVIOUS
    <3>2. x.pc \notin {"idle", "trying"} \/ x.pc = calls[k].pc
      OBVIOUS
    <3> HIDE DEF x
    <3>3. OneAction(x)
      BY <2>1, <3>1, <3>2 DEF OneAction
    <3> QED
      BY <2>3, <3>3 DEF x
  <2> QED
    BY <1>4, <2>2, <2>3
<1> QED
  BY <1>6, <1>7, <1>8 DEF SkillsInv

\* A call moves, the registry does not.
LEMMA CallMoves ==
  ASSUME SkillsInv, NEW k \in SkillCalls, NEW x, calls' = [calls EXCEPT ![k] = x],
         OneAction(x), UNCHANGED registryVars
  PROVE  SkillsInv'
<1>1. UNCHANGED <<skillCandidates, registry, pointer, unsettled>>
  BY DEF registryVars
<1>2. DOMAIN calls' = SkillCalls /\ \A j \in SkillCalls : calls'[j] = calls[j] \/ calls'[j] = x
  BY DEF SkillsInv, SkillShape
<1>3. SkillShape'
  BY <1>1, <1>2 DEF SkillsInv, SkillShape, Proposed
<1>4. \A n : Holders(n)' = Holders(n) /\ Pointed(n)' = Pointed(n)
  BY <1>1 DEF Holders, Pointed, Proposed, NameOf
<1>5. \A n \in SkillNames \ unsettled' : Agrees(n)'
  BY <1>1, <1>4, AgreesStays DEF SkillsInv
<1> QED
  BY <1>2, <1>3, <1>5 DEF SkillsInv

LEMMA CallSteps ==
  ASSUME SkillsInv, NEW k \in SkillCalls,
         \/ \E route : RouteCapability(k, route)
         \/ \E out \in {"pending", "ok", "failed"} : Attempt(k, out)
         \/ \E c : \E ok \in BOOLEAN : ApprovedRun(k, c, ok)
  PROVE  SkillsInv'
<1> DEFINE old == calls[k]
<1>1. OneAction(old) /\ DOMAIN calls = SkillCalls
  BY DEF SkillsInv, SkillShape
<1>2. ASSUME NEW route, RouteCapability(k, route) PROVE SkillsInv'
  <2> DEFINE x == [old EXCEPT !.pc = "trying", !.todo = route]
  <2>1. calls' = [calls EXCEPT ![k] = x] /\ old.pc = "idle" /\ UNCHANGED registryVars
    BY <1>1, <1>2 DEF RouteCapability
  <2>2. x.waiting = old.waiting /\ x.ran = old.ran
    OBVIOUS
  <2>3. OneAction(x)
    BY <1>1, <2>1, <2>2 DEF OneAction
  <2> HIDE DEF x
  <2> QED
    BY <2>1, <2>3, CallMoves
<1>3. ASSUME NEW out \in {"pending", "ok", "failed"}, Attempt(k, out) PROVE SkillsInv'
  <2> DEFINE c == Head(old.todo)
  <2>0. old.pc = "trying" /\ UNCHANGED registryVars
    BY <1>3 DEF Attempt
  <2>1. old.waiting = {} /\ old.ran = {}
    BY <1>1, <2>0 DEF OneAction
  <2>2. CASE out = "pending"
    <3> DEFINE x == PendingApproval(old)
    <3>1. calls' = [calls EXCEPT ![k] = x]
      BY <1>3, <2>2 DEF Attempt
    <3>2. x.waiting \cup x.ran \subseteq {c} /\ x.pc = "pending"
      BY <2>1 DEF PendingApproval
    <3>3. OneAction(x)
      BY <3>2 DEF OneAction
    <3> HIDE DEF x
    <3> QED
      BY <2>0, <3>1, <3>3, CallMoves
  <2>3. CASE out = "ok"
    <3> DEFINE x == [old EXCEPT !.pc = "completed", !.ran = @ \cup {c}, !.todo = <<>>]
    <3>1. calls' = [calls EXCEPT ![k] = x]
      BY <1>3, <2>3 DEF Attempt
    <3>2. x.waiting \cup x.ran \subseteq {c} /\ x.pc = "completed"
      BY <2>1
    <3>3. OneAction(x)
      BY <3>2 DEF OneAction
    <3> HIDE DEF x
    <3> QED
      BY <2>0, <3>1, <3>3, CallMoves
  <2>4. CASE out = "failed"
    <3> DEFINE x == [old EXCEPT !.pc = IF Len(old.todo) = 1 THEN "failed" ELSE @, !.todo = Tail(@)]
    <3>1. calls' = [calls EXCEPT ![k] = x]
      BY <1>3, <2>4 DEF Attempt
    <3>2. x.waiting = {} /\ x.ran = {}
      BY <2>1
    <3>3. OneAction(x)
      BY <3>2 DEF OneAction
    <3> HIDE DEF x
    <3> QED
      BY <2>0, <3>1, <3>3, CallMoves
  <2> QED
    BY <2>2, <2>3, <2>4
<1>4. ASSUME NEW c, NEW ok \in BOOLEAN, ApprovedRun(k, c, ok) PROVE SkillsInv'
  <2> DEFINE x == [old EXCEPT !.waiting = @ \ {c}, !.ran = IF ok THEN @ \cup {c} ELSE @]
  <2>1. c \in old.waiting /\ UNCHANGED registryVars
    BY <1>4 DEF ApprovedRun
  <2>2. calls' = [calls EXCEPT ![k] = x]
    BY <1>1, <1>4 DEF ApprovedRun
  <2>3. x.waiting \subseteq old.waiting /\ x.ran \subseteq old.ran \cup old.waiting /\ x.pc = old.pc
    BY <2>1
  <2> HIDE DEF x
  <2>4. old.pc \notin {"idle", "trying"}
    BY <1>1, <2>1 DEF OneAction
  <2>5. OneAction(x)
    BY <1>1, <2>3, <2>4 DEF OneAction
  <2> QED
    BY <2>1, <2>2, <2>5, CallMoves
<1> QED
  BY <1>2, <1>3, <1>4

\* However candidates are proposed, benchmarked, activated, marked stale and
\* archived, at most one skill holds a name, the active pointer names no other
\* skill of the name and, unless another name has its slug, just that one; and however skills come and go while a request is tried, waits and
\* is approved, one skill does it (SkillFactory.decide, lifecycle and archive,
\* CapabilityRouter.execute).
THEOREM SkillsAreSound == SkillsSpec => []SkillsSound
<1>1. SkillsInit => SkillsInv
  <2> SUFFICES ASSUME SkillsInit PROVE SkillsInv
    OBVIOUS
  <2>1. skillCandidates \in Seq(SkillProposals) /\ Len(skillCandidates) = 0 /\ Proposed = {}
    BY DEF SkillsInit, Proposed
  <2>2. SkillShape
    BY <2>1, SkillsAssumption DEF SkillsInit, SkillShape
  <2>3. \A n \in SkillNames : Holders(n) = {} /\ Pointed(n) = {}
    BY <2>1 DEF SkillsInit, Holders, Pointed, Slugs
  <2>4. \A k \in SkillCalls : calls[k].waiting = {} /\ calls[k].ran = {}
    BY DEF SkillsInit
  <2> QED
    BY <2>2, <2>3, <2>4 DEF SkillsInv, OneAction, Agrees
<1>2. SkillsInv /\ [SkillsNext]_skillVars => SkillsInv'
  <2> SUFFICES ASSUME SkillsInv, [SkillsNext]_skillVars PROVE SkillsInv'
    OBVIOUS
  <2>1. CASE UNCHANGED skillVars
    BY <2>1, QuietRegistry DEF skillVars, registryVars
  <2>2. CASE ProposalRoute
    BY <2>2, ProposeSkillStep DEF ProposalRoute
  <2>3. CASE CandidateRoutes
    <3>1. ASSUME NEW c, NEW v, StartBenchmark(c) \/ FinishBenchmark(c, v) \/ RejectSkill(c)
          PROVE  SkillsInv'
      BY <3>1, QuietRegistry DEF StartBenchmark, FinishBenchmark, RejectSkill
    <3> QED
      BY <2>3, <3>1, ActivateStep, ActivationFault DEF CandidateRoutes
  <2>4. CASE SkillRoutes
    <3>1. ASSUME NEW c \in Proposed, ArchiveSkill(c) \/ ArchiveFails(c) PROVE SkillsInv'
      BY <3>1, ArchiveStep DEF ArchiveSkill, ArchiveFails
    <3> QED
      BY <2>4, <3>1, ReviewStep DEF SkillRoutes
  <2>5. CASE ExecuteRoute
    <3>1. PICK k \in SkillCalls :
            \/ \E route \in Routes : RouteCapability(k, route)
            \/ \E out \in {"pending", "ok", "failed"} : Attempt(k, out)
            \/ \E c \in CandidateIds, ok \in BOOLEAN : ApprovedRun(k, c, ok)
      BY <2>5 DEF ExecuteRoute
    <3>2. \/ \E route : RouteCapability(k, route)
          \/ \E out \in {"pending", "ok", "failed"} : Attempt(k, out)
          \/ \E c : \E ok \in BOOLEAN : ApprovedRun(k, c, ok)
      BY <3>1
    <3> QED
      BY <3>2, CallSteps
  <2> QED
    BY <2>1, <2>2, <2>3, <2>4, <2>5 DEF SkillsNext
<1>3. SkillsInv => SkillsSound
  <2> SUFFICES ASSUME SkillsInv PROVE SkillsSound
    OBVIOUS
  <2>1. SkillsAgree
    BY DEF SkillsInv, Agrees, SkillsAgree, Holders, Pointed
  <2>2. ASSUME NEW k \in SkillCalls PROVE Cardinality(calls[k].ran) <= 1
    <3>1. \A c, d \in calls[k].ran : c = d
      BY DEF SkillsInv, OneAction
    <3>2. CASE calls[k].ran = {}
      BY <3>2, FS_EmptySet
    <3>3. ASSUME NEW c \in calls[k].ran PROVE Cardinality(calls[k].ran) <= 1
      <4>1. calls[k].ran = {c}
        BY <3>1
      <4>2. Cardinality({c}) = 1
        BY FS_Singleton
      <4> QED
        BY <4>1, <4>2
    <3> QED
      BY <3>2, <3>3
  <2> QED
    BY <2>1, <2>2 DEF SkillsSound, DoneOnce
<1> QED
  BY <1>1, <1>2, <1>3, PTL DEF SkillsSpec

-----------------------------------------------------------------------------
(* Knowledge: what collides was noticed                                    *)

\* The greatest of some bounded numbers.
LEMMA GreatestNatural ==
  ASSUME NEW n \in Nat, NEW S \in SUBSET (0..n), S # {}
  PROVE  Max(S) \in S /\ \A y \in S : y <= Max(S)
<1> DEFINE T == {n - x : x \in S}
<1>1. T \in SUBSET Nat /\ T # {}
  <2>1. ASSUME NEW x \in S PROVE n - x \in Nat
    <3>1. x \in 0..n
      OBVIOUS
    <3> QED
      BY <3>1
  <2>2. T # {}
    OBVIOUS
  <2>3. ASSUME NEW b \in T PROVE b \in Nat
    BY <2>1
  <2> QED
    BY <2>2, <2>3
<1>2. PICK b \in T : \A c \in T : b <= c
  BY <1>1, LeastNatural
<1>3. PICK a \in S : b = n - a
  BY <1>2
<1>4. \A y \in S : a >= y
  <2>1. ASSUME NEW y \in S PROVE a >= y
    <3>1. n - y \in T
      OBVIOUS
    <3>2. n - a <= n - y
      BY <1>2, <1>3, <3>1
    <3> QED
      BY <3>2
  <2> QED
    BY <2>1
<1>5. Max(S) \in S /\ \A y \in S : Max(S) >= y
  BY <1>4 DEF Max
<1> QED
  BY <1>5

\* Two statements that may not both be promoted.
Collide(s, t) == s.claim = t.claim \/ Contradicts(s, t)

KnowTypes ==
    /\ episodes \subseteq Episodes
    /\ proposals \in Seq(Proposals) /\ Len(proposals) <= MaxKnowledge
    /\ DOMAIN knowledge = 1..MaxKnowledge /\ DOMAIN verdicts = 1..MaxKnowledge
    /\ \A n \in 1..MaxKnowledge : verdicts[n] # "none" => n \in DOMAIN proposals

\* A promoted proposal has nothing against it and its record in memory.
Grounded(n) ==
    /\ Unblocked(proposals[n]) /\ knowledge[n] # 0
    /\ rebuildCut \/ n \in indexed

\* Of two proposals that collide the later one says so, unless the earlier one
\* was rejected before, and a rejected one stays rejected.
Noticed(m, n) ==
    Collide(proposals[n].says, proposals[m].says) =>
       \/ verdicts[m] = "reject"
       \/ proposals[n].duplicateOf # 0 \/ proposals[n].contradictions # {}

KnowInv ==
    /\ KnowTypes
    /\ \A n \in Promoted : Grounded(n)
    /\ \A m, n \in DOMAIN proposals : m < n => Noticed(m, n)
    /\ notes \subseteq Promoted

LEMMA ProposalFacts ==
  ASSUME KnowTypes
  PROVE  /\ Len(proposals) \in Nat /\ DOMAIN proposals = 1..Len(proposals)
         /\ DOMAIN proposals \subseteq 1..MaxKnowledge /\ MaxKnowledge \in Nat
         /\ \A n \in DOMAIN proposals : proposals[n] \in Proposals
BY KnowledgeAssumption, LenProperties, ElementOfSeq DEF KnowTypes

LEMMA CollideBothWays ==
  ASSUME NEW s \in Statements, NEW t \in Statements, Collide(s, t)
  PROVE  Collide(t, s)
BY DEF Statements, Collide, Contradicts

\* What is compared with a new proposal is found.
LEMMA NewIsCompared ==
  ASSUME KnowTypes, NEW s \in Statements
  PROVE  /\ DuplicateOf(s) \in 0..MaxKnowledge
         /\ Contradictions(s) \in SUBSET (1..MaxKnowledge)
         /\ \A m \in DOMAIN proposals :
              Collide(s, proposals[m].says) =>
                 \/ verdicts[m] = "reject" \/ DuplicateOf(s) # 0 \/ Contradictions(s) # {}
<1> DEFINE S == {0} \cup {n \in ComparedWith(s) : Duplicates(proposals[n].says, s)}
<1>1. ComparedWith(s) \subseteq DOMAIN proposals
  BY DEF ComparedWith, Similar
<1>2. MaxKnowledge \in Nat /\ S \in SUBSET (0..MaxKnowledge) /\ S # {}
  BY <1>1, ProposalFacts
<1>3. Max(S) \in S /\ \A y \in S : y <= Max(S)
  BY <1>2, GreatestNatural
<1>4. DuplicateOf(s) = Max(S)
  BY DEF DuplicateOf
<1>5. ASSUME NEW m \in DOMAIN proposals, Collide(s, proposals[m].says), verdicts[m] # "reject",
             DuplicateOf(s) = 0
      PROVE  m \in Contradictions(s)
  <2>1. m \in 1..MaxKnowledge
    BY ProposalFacts
  <2>2. m \in ComparedWith(s)
    BY <1>5 DEF ComparedWith, Similar, Collide, Contradicts
  <2>3. m \notin S
    <3>1. Max(S) = 0
      BY <1>4, <1>5
    <3> HIDE DEF S
    <3>2. ASSUME m \in S PROVE FALSE
      <4>1. m <= 0
        BY <1>3, <3>1, <3>2
      <4> QED
        BY <1>2, <2>1, <4>1
    <3> QED
      BY <3>2
  <2>4. Contradicts(s, proposals[m].says)
    BY <1>5, <2>2, <2>3 DEF Collide, Duplicates
  <2> QED
    BY <1>5, <2>1, <2>2, <2>4 DEF Contradictions
<1>6. Contradictions(s) \in SUBSET (1..MaxKnowledge)
  BY <1>1, ProposalFacts DEF Contradictions
<1> HIDE DEF S
<1> QED
  BY <1>2, <1>3, <1>4, <1>5, <1>6

LEMMA ProposeStep ==
  ASSUME KnowInv, NEW s \in Statements, NEW E, Propose(s, E)
  PROVE  KnowInv'
<1>1. UNCHANGED <<memoryVars, verdicts, notes>> /\ E \in SUBSET Episodes
  BY DEF Propose, KnowInv, KnowTypes
<1>2. CASE UNCHANGED proposals
  BY <1>1, <1>2 DEF KnowInv, KnowTypes, Promoted, Grounded, Noticed, memoryVars
<1>3. CASE proposals' # proposals
  <2>1. PICK r : r = [says |-> s, evidence |-> E, duplicateOf |-> DuplicateOf(s),
                      contradictions |-> Contradictions(s)]
    OBVIOUS
  <2>2. proposals' = Append(proposals, r) /\ Len(proposals) < MaxKnowledge
    BY <1>3, <2>1 DEF Propose
  <2>3. KnowTypes
    BY DEF KnowInv
  <2>4. r \in Proposals /\ r.says = s /\ r.duplicateOf = DuplicateOf(s) /\ r.contradictions = Contradictions(s)
    <3>1. DuplicateOf(s) \in 0..MaxKnowledge /\ Contradictions(s) \in SUBSET (1..MaxKnowledge)
      BY <2>3, NewIsCompared
    <3> QED
      BY <1>1, <2>1, <3>1 DEF Proposals
  <2>5. PICK n : n = Len(proposals) + 1
    OBVIOUS
  <2>6. /\ n \in 1..MaxKnowledge /\ n \notin DOMAIN proposals
        /\ DOMAIN proposals = 1..Len(proposals) /\ Len(proposals) \in Nat /\ MaxKnowledge \in Nat
    BY <2>2, <2>3, <2>5, ProposalFacts
  <2>7. /\ proposals' \in Seq(Proposals) /\ Len(proposals') = n
        /\ DOMAIN proposals' = DOMAIN proposals \cup {n}
        /\ proposals'[n] = r /\ \A m \in DOMAIN proposals : proposals'[m] = proposals[m]
    BY <2>2, <2>3, <2>4, <2>5, <2>6, AppendProperties DEF KnowTypes
  <2>8. KnowTypes'
    BY <1>1, <2>3, <2>6, <2>7 DEF KnowTypes, memoryVars
  <2>9. verdicts[n] = "none"
    BY <2>3, <2>6 DEF KnowTypes
  <2>10. Promoted' = Promoted
    BY <1>1, <2>7, <2>9 DEF Promoted
  <2>11. \A k \in Promoted : Grounded(k)'
    BY <1>1, <2>7 DEF KnowInv, Promoted, Grounded, Unblocked, memoryVars
  <2>12. ASSUME NEW m \in DOMAIN proposals', NEW k \in DOMAIN proposals', m < k PROVE Noticed(m, k)'
    <3>1. CASE k = n
      <4>1. m \in DOMAIN proposals
        BY <2>6, <2>7, <2>12, <3>1
      <4> QED
        BY <1>1, <2>3, <2>4, <2>7, <3>1, <4>1, NewIsCompared DEF Noticed
    <3>2. CASE k # n
      <4>1. m \in DOMAIN proposals /\ k \in DOMAIN proposals
        BY <2>5, <2>6, <2>7, <2>12, <3>2
      <4> QED
        BY <1>1, <2>7, <2>12, <4>1 DEF KnowInv, Noticed
    <3> QED
      BY <3>1, <3>2
  <2> QED
    BY <1>1, <2>8, <2>10, <2>11, <2>12 DEF KnowInv
<1> QED
  BY <1>2, <1>3

LEMMA MemoryStep ==
  ASSUME KnowInv, UNCHANGED <<proposals, verdicts, notes, knowledge>>, episodes' \subseteq Episodes,
         \A n \in 1..MaxKnowledge :
            knowledge[n] # 0 /\ (rebuildCut \/ n \in indexed) => rebuildCut' \/ n \in indexed'
  PROVE  KnowInv'
<1>1. KnowTypes' /\ Promoted' = Promoted
  BY DEF KnowInv, KnowTypes, Promoted
<1>2. \A n \in Promoted : Grounded(n)'
  BY ProposalFacts DEF KnowInv, Promoted, Grounded, Unblocked
<1> QED
  BY <1>1, <1>2 DEF KnowInv, Noticed

LEMMA DecisionStep ==
  ASSUME KnowInv, NEW n \in DOMAIN proposals,
         RejectKnowledge(n) \/ ProjectKnowledge(n) \/
         \E confidence \in Confidences, upTo \in {"append", "index", "decide", "note"} :
            ApproveKnowledge(n, confidence, upTo)
  PROVE  KnowInv'
<1>0. KnowTypes /\ n \in 1..MaxKnowledge
  BY ProposalFacts DEF KnowInv
<1>1. CASE RejectKnowledge(n)
  <2>1. /\ UNCHANGED <<memoryVars, proposals, notes>> /\ verdicts[n] = "none"
        /\ verdicts' = [verdicts EXCEPT ![n] = "reject"]
    BY <1>1 DEF RejectKnowledge, Undecided
  <2>2. KnowTypes'
    BY <1>0, <2>1 DEF KnowTypes, memoryVars
  <2>3. Promoted' = Promoted
    BY <1>0, <2>1 DEF Promoted, KnowTypes
  <2>4. \A k \in Promoted : Grounded(k)'
    BY <2>1 DEF KnowInv, Grounded, Unblocked, memoryVars
  <2>5. \A m \in 1..MaxKnowledge : verdicts[m] = "reject" => verdicts'[m] = "reject"
    BY <1>0, <2>1 DEF KnowTypes
  <2>6. \A m, k \in DOMAIN proposals : m < k => Noticed(m, k)'
    BY <1>0, <2>1, <2>5, ProposalFacts DEF KnowInv, Noticed
  <2> QED
    BY <2>1, <2>2, <2>3, <2>4, <2>6 DEF KnowInv
<1>2. CASE ProjectKnowledge(n)
  <2>1. UNCHANGED <<memoryVars, proposals, verdicts>> /\ notes' \subseteq notes \cup {n} /\ n \in Promoted
    BY <1>2 DEF ProjectKnowledge, Promoted
  <2>2. KnowTypes' /\ Promoted' = Promoted /\ \A k \in Promoted : Grounded(k)'
    BY <2>1 DEF KnowInv, KnowTypes, Promoted, Grounded, Unblocked, memoryVars
  <2> QED
    BY <2>1, <2>2 DEF KnowInv, Noticed
<1>3. ASSUME NEW confidence \in Confidences, NEW upTo \in {"append", "index", "decide", "note"},
             ApproveKnowledge(n, confidence, upTo)
      PROVE  KnowInv'
  <2>1. /\ verdicts[n] = "none" /\ Unblocked(proposals[n]) /\ UNCHANGED <<episodes, proposals, rebuildCut>>
        /\ knowledge' = [knowledge EXCEPT ![n] = confidence]
        /\ indexed \subseteq indexed' /\ (upTo \in {"decide", "note"} => n \in indexed')
        /\ \/ verdicts' = verdicts /\ upTo \in {"append", "index"}
           \/ verdicts' = [verdicts EXCEPT ![n] = "approve"] /\ upTo \in {"decide", "note"}
        /\ notes' = notes \/ (notes' = notes \cup {n} /\ upTo = "note")
    BY <1>3 DEF ApproveKnowledge, Undecided
  <2>2. confidence # 0
    BY KnowledgeAssumption
  <2>3. KnowTypes'
    BY <1>0, <2>1 DEF KnowTypes
  <2>4. /\ Promoted \subseteq Promoted' /\ Promoted' \subseteq Promoted \cup {n}
        /\ upTo \in {"decide", "note"} => n \in Promoted'
        /\ upTo \in {"append", "index"} => Promoted' = Promoted
    <3>1. ASSUME upTo \in {"append", "index"} PROVE Promoted' = Promoted
      BY <2>1, <3>1 DEF Promoted
    <3>2. ASSUME upTo \in {"decide", "note"}
          PROVE  Promoted \subseteq Promoted' /\ Promoted' \subseteq Promoted \cup {n} /\ n \in Promoted'
      <4>1. verdicts' = [verdicts EXCEPT ![n] = "approve"]
        BY <2>1, <3>2
      <4> QED
        BY <1>0, <2>1, <4>1 DEF Promoted, KnowTypes
    <3>3. upTo \in {"append", "index"} => upTo \notin {"decide", "note"}
      OBVIOUS
    <3> QED
      BY <3>1, <3>2, <3>3, <1>3
  <2>5. ASSUME NEW k \in Promoted' PROVE Grounded(k)'
    <3>1. knowledge'[k] # 0
      BY <1>0, <1>3, <2>1, <2>2, <2>4, <2>5 DEF KnowInv, KnowTypes, Grounded
    <3>2. rebuildCut' \/ k \in indexed'
      BY <2>1, <2>4, <2>5 DEF KnowInv, Grounded
    <3>3. Unblocked(proposals[k])
      BY <2>1, <2>4, <2>5 DEF KnowInv, Grounded
    <3> QED
      BY <2>1, <3>1, <3>2, <3>3 DEF Grounded, Unblocked
  <2>6. \A m \in 1..MaxKnowledge : verdicts[m] = "reject" => verdicts'[m] = "reject"
    BY <1>0, <2>1 DEF KnowTypes
  <2>7. \A m, k \in DOMAIN proposals : m < k => Noticed(m, k)'
    BY <1>0, <2>1, <2>6, ProposalFacts DEF KnowInv, Noticed
  <2>8. notes' \subseteq Promoted'
    BY <2>1, <2>4 DEF KnowInv
  <2> QED
    BY <2>1, <2>3, <2>5, <2>7, <2>8 DEF KnowInv
<1> QED
  BY <1>1, <1>2, <1>3

\* No two promoted claims repeat or contradict each other, each is in memory,
\* in the index unless a rebuild was cut short, and only they have notes, for
\* any episodes, wordings and number of proposals, and wherever the process
\* ends (propose, KnowledgeGovernor.review, _decide_locked, rebuild).
THEOREM KnowledgeIsConsistent == KnowledgeSpec => []KnowledgeAgrees
<1>1. KnowledgeInit => KnowInv
  <2> SUFFICES ASSUME KnowledgeInit PROVE KnowInv
    OBVIOUS
  <2>1. proposals = <<>> /\ proposals \in Seq(Proposals) /\ Len(proposals) = 0 /\ DOMAIN proposals = {}
    BY EmptySeq DEF KnowledgeInit
  <2>2. KnowTypes
    BY <2>1, KnowledgeAssumption DEF KnowledgeInit, KnowTypes
  <2>3. Promoted = {} /\ notes = {}
    BY <2>1 DEF KnowledgeInit, Promoted
  <2> QED
    BY <2>1, <2>2, <2>3 DEF KnowInv
<1>2. KnowInv /\ [KnowledgeNext]_knowledgeVars => KnowInv'
  <2> SUFFICES ASSUME KnowInv, [KnowledgeNext]_knowledgeVars PROVE KnowInv'
    OBVIOUS
  <2>1. ASSUME NEW e \in Episodes, RecordTurn(e) \/ RecordActionResume(e) \/ RememberCut(e)
        PROVE  KnowInv'
    BY <2>1, MemoryStep DEF RecordTurn, RecordActionResume, Remember, RememberCut, KnowInv, KnowTypes
  <2>2. CASE RebuildRoute
    BY <2>2, MemoryStep DEF RebuildRoute, RebuildIndex, RebuildIndexCut, Canonical, KnowInv, KnowTypes
  <2>3. CASE ProposeRoutes
    <3>1. ASSUME NEW s \in Statements, NEW E, Propose(s, E) PROVE KnowInv'
      BY <3>1, ProposeStep
    <3> QED
      BY <2>3, <3>1, Zenon DEF ProposeRoutes, Curate
  <2>4. CASE KnowledgeDecisionRoutes
    BY <2>4, DecisionStep DEF KnowledgeDecisionRoutes
  <2>5. CASE UNCHANGED knowledgeVars
    BY <2>5, MemoryStep DEF knowledgeVars, memoryVars, KnowInv, KnowTypes
  <2> QED
    BY <2>1, <2>2, <2>3, <2>4, <2>5 DEF KnowledgeNext
<1>3. KnowInv => KnowledgeAgrees
  <2> SUFFICES ASSUME KnowInv PROVE KnowledgeAgrees
    OBVIOUS
  <2>1. \A n \in DOMAIN proposals : n \in Nat /\ proposals[n].says \in Statements
    BY ProposalFacts DEF KnowInv, Proposals
  <2>2. ASSUME NEW n \in Promoted, NEW m \in Promoted, m # n
        PROVE  ~Collide(proposals[n].says, proposals[m].says)
    <3>1. n \in DOMAIN proposals /\ m \in DOMAIN proposals /\ verdicts[n] = "approve" /\ verdicts[m] = "approve"
      BY DEF Promoted
    <3>2. ASSUME m < n PROVE ~Collide(proposals[n].says, proposals[m].says)
      BY <3>1, <3>2 DEF KnowInv, Noticed, Grounded, Unblocked
    <3>3. ASSUME n < m PROVE ~Collide(proposals[m].says, proposals[n].says)
      BY <3>1, <3>3 DEF KnowInv, Noticed, Grounded, Unblocked
    <3> QED
      BY <2>1, <2>2, <3>1, <3>2, <3>3, CollideBothWays
  <2> QED
    BY <2>2 DEF KnowledgeAgrees, KnowInv, Grounded, Collide
<1> QED
  BY <1>1, <1>2, <1>3, PTL DEF KnowledgeSpec

-----------------------------------------------------------------------------
(* CodingRuntime: production is whole and verified                         *)

BodyOf(x) == x.cands[x.n]

FieldNames == {"pc", "cands", "n", "files", "copy", "checked", "applied", "waits"}

\* Where an attempt is under way, and where it may have replaced files.
Underway == {"streaming", "staged", "applying", "editing", "checking"}
Replacing == {"applying", "editing", "checking"}

\* A task and its attempt.
TaskShape(x) ==
    /\ DOMAIN x = FieldNames
    /\ x.applied \subseteq x.files /\ x.files \subseteq Files
    /\ x.pc \notin Replacing => x.applied = {}
    /\ x.pc = "checking" => x.applied = x.files
    /\ x.pc \in {"editing", "checking"} => BodyOf(x) = Local
    /\ x.pc \in {"streaming", "staged", "applying"} => BodyOf(x) \in Vendors
    /\ x.checked \subseteq x.files
    /\ x.pc # "applying" => x.checked = {}
    /\ x.waits = "request" => x.pc = "streaming"
    /\ x.waits = "exit" => x.pc \notin {"applying", "editing"}

\* A content that is of a vendor is one of those verified.
VouchedBy(passed, c) == \A t \in Tasks, b \in Vendors : c = By(t, b) => <<t, b>> \in passed

CodeShape ==
    /\ DOMAIN task = Tasks /\ DOMAIN prod = Files /\ DOMAIN settled = Files
    /\ \A t \in Tasks : TaskShape(task[t])
    /\ \A t \in Tasks : task[t].pc \in {"applying", "editing"} <=> eventLoop = {t}

\* So are what production and the copies hold, and what is being applied.
AllVouched ==
    /\ \A f \in Files : VouchedBy(verified, prod[f])
    /\ \A t \in Tasks : \A f \in Files : VouchedBy(verified, task[t].copy[f])
    /\ \A t \in Tasks : task[t].pc = "applying" => <<t, Body(t)>> \in verified

\* The structured body is alone in the workspace; what an attempt has replaced
\* is its own there, and the copy it kept is what production should hold.
Alone == \A t, u \in Tasks : t # u /\ Running(t) /\ Running(u) => Body(t) # Local

Kept ==
    /\ \A t \in Tasks : \A f \in task[t].applied :
          prod[f] = By(t, Body(t)) /\ task[t].copy[f] = settled[f]
    /\ \A t \in Tasks : task[t].pc = "editing" =>
          \A f \in task[t].files : task[t].copy[f] = settled[f]

Whole == \A f \in Files : prod[f] = settled[f] \/ \E t \in Tasks : f \in task[t].applied

CodeInv == CodeShape /\ AllVouched /\ (Undisturbed => Alone /\ Kept /\ Whole)

\* Nothing has come between the comparison of a hash and the replacement.
Compared == \A t \in Tasks : \A f \in task[t].checked : prod[f] = task[t].copy[f]

LEMMA OtherContents ==
  ASSUME NEW V
  PROVE  /\ VouchedBy(V, Original)
         /\ \A n : VouchedBy(V, Edited(n))
         /\ \A t : VouchedBy(V, By(t, Local))
<1>1. VouchedBy(V, Original)
  BY DEF VouchedBy, Original, By
<1>2. ASSUME NEW n PROVE VouchedBy(V, Edited(n))
  BY CodingAssumption DEF VouchedBy, Edited, By
<1>3. ASSUME NEW t PROVE VouchedBy(V, By(t, Local))
  BY CodingAssumption DEF VouchedBy, By
<1> QED
  BY <1>1, <1>2, <1>3

LEMMA VouchedStays ==
  ASSUME NEW V, NEW W, V \subseteq W, NEW c, VouchedBy(V, c)
  PROVE  VouchedBy(W, c)
BY DEF VouchedBy

\* While nothing was disturbed, one attempt at a time has replaced files.
LEMMA OneReplaces ==
  ASSUME CodeInv, Undisturbed, NEW t \in Tasks, NEW u \in Tasks, task[t].pc \in Replacing, task[u].applied # {}
  PROVE  t = u
<1>1. task[u].pc \in Replacing
  BY DEF CodeInv, CodeShape, TaskShape
<1>2. Running(t) /\ Running(u)
  BY <1>1 DEF Running, Replacing
<1>3. CASE task[t].pc = "checking" \/ task[u].pc = "checking"
  <2>1. Body(t) = Local \/ Body(u) = Local
    BY <1>3 DEF CodeInv, CodeShape, TaskShape, BodyOf, Body
  <2> QED
    BY <1>2, <2>1 DEF CodeInv, Alone
<1>4. CASE task[t].pc # "checking" /\ task[u].pc # "checking"
  <2>1. eventLoop = {t} /\ eventLoop = {u}
    BY <1>1, <1>4 DEF CodeInv, CodeShape, Replacing
  <2> QED
    BY <2>1
<1> QED
  BY <1>3, <1>4

\* One task moves.
Moved(t) ==
    /\ DOMAIN task' = Tasks
    /\ \A u \in Tasks \ {t} : task'[u] = task[u]
    /\ eventLoop \in {{}, {t}} /\ eventLoop' \in {{}, {t}}
    /\ verified \subseteq verified'
    /\ Undisturbed' => Undisturbed

LEMMA TaskMoves ==
  ASSUME CodeInv, NEW t \in Tasks, Moved(t), DOMAIN prod' = Files, DOMAIN settled' = Files,
         TaskShape(task'[t]), task'[t].pc \in {"applying", "editing"} <=> eventLoop' = {t},
         \A f \in Files : VouchedBy(verified', prod'[f]) /\ VouchedBy(verified', task'[t].copy[f]),
         task'[t].pc = "applying" => <<t, BodyOf(task'[t])>> \in verified',
         Undisturbed' => (Alone /\ Kept /\ Whole)'
  PROVE  CodeInv'
<1>1. CodeShape'
  BY DEF CodeInv, CodeShape, Moved
<1>2. ASSUME NEW u \in Tasks, NEW f \in Files PROVE VouchedBy(verified', task'[u].copy[f])
  <2>1. CASE u = t
    BY <2>1
  <2>2. CASE u # t
    BY <2>2, VouchedStays DEF CodeInv, AllVouched, Moved
  <2> QED
    BY <2>1, <2>2
<1>3. ASSUME NEW u \in Tasks, task'[u].pc = "applying" PROVE <<u, Body(u)'>> \in verified'
  <2>1. CASE u = t
    BY <1>3, <2>1 DEF Body, BodyOf
  <2>2. CASE u # t
    BY <1>3, <2>2 DEF CodeInv, AllVouched, Moved, Body
  <2> QED
    BY <2>1, <2>2
<1>4. AllVouched'
  BY <1>2, <1>3 DEF AllVouched
<1> QED
  BY <1>1, <1>4 DEF CodeInv

\* A task that neither has replaced files nor comes to replace them now.
LEMMA QuietMove ==
  ASSUME CodeInv, NEW t \in Tasks, Moved(t), UNCHANGED <<prod, settled>>,
         TaskShape(task'[t]), task[t].applied = {}, task'[t].applied = {},
         task'[t].pc # "editing", task'[t].pc \in {"applying", "editing"} <=> eventLoop' = {t},
         \A f \in Files : VouchedBy(verified', task'[t].copy[f]),
         task'[t].pc = "applying" => <<t, BodyOf(task'[t])>> \in verified',
         Undisturbed' /\ task'[t].pc \in Underway =>
            \A u \in Tasks \ {t} : Running(u) => Body(u) # Local /\ BodyOf(task'[t]) # Local
  PROVE  CodeInv'
<1>1. ASSUME Undisturbed' PROVE (Alone /\ Kept /\ Whole)'
  <2>1. Alone /\ Kept /\ Whole
    BY <1>1 DEF CodeInv, Moved
  <2>2. Alone'
    BY <1>1, <2>1 DEF Alone, Moved, Running, Body, BodyOf, Underway
  <2>3. Kept'
    BY <2>1 DEF Kept, Moved, Body
  <2>4. Whole'
    <3>1. \A u \in Tasks : task'[u].applied = task[u].applied
      BY DEF Moved
    <3> QED
      BY <2>1, <3>1 DEF Whole
  <2> QED
    BY <2>2, <2>3, <2>4
<1>2. \A f \in Files : VouchedBy(verified', prod'[f])
  BY VouchedStays DEF CodeInv, AllVouched, Moved
<1>3. DOMAIN prod' = Files /\ DOMAIN settled' = Files
  BY DEF CodeInv, CodeShape
<1> QED
  BY <1>1, <1>2, <1>3, TaskMoves

\* What an attempt leaves when it is over.
Rests(x) ==
    /\ DOMAIN x = FieldNames /\ x.pc \notin Underway
    /\ x.files = {} /\ x.applied = {} /\ x.checked = {} /\ x.waits = "nothing"
    /\ \A f \in Files : x.copy[f] = Original

LEMMA Resting ==
  /\ \A r : Rests(NextAttempt(r)) /\ Rests(Done(r)) /\ Rests(Idle("lost", r.cands, 1))
  /\ \A x : Rests(x) => TaskShape(x) /\ \A V : \A f \in Files : VouchedBy(V, x.copy[f])
<1>1. ASSUME NEW pc \in {"ready", "failed", "done", "lost"}, NEW cands, NEW n PROVE Rests(Idle(pc, cands, n))
  BY DEF Rests, Idle, FieldNames, Underway
<1>2. ASSUME NEW r PROVE Rests(NextAttempt(r)) /\ Rests(Done(r)) /\ Rests(Idle("lost", r.cands, 1))
  BY <1>1 DEF NextAttempt, Done
<1>3. ASSUME NEW x, Rests(x) PROVE TaskShape(x) /\ \A V : \A f \in Files : VouchedBy(V, x.copy[f])
  BY <1>3, OtherContents DEF Rests, TaskShape, Underway, Replacing
<1> QED
  BY <1>2, <1>3

LEMMA EndedEarly ==
  ASSUME CodeInv, NEW t \in Tasks, eventLoop \in {{}, {t}}, task[t].pc \notin Replacing,
         NEW r, Rests(r), task' = [task EXCEPT ![t] = r],
         UNCHANGED <<prod, eventLoop, verified, settled, disturbed>>
  PROVE  CodeInv'
<1>1. task'[t] = r /\ TaskShape(r) /\ \A f \in Files : VouchedBy(verified', r.copy[f])
  BY Resting DEF CodeInv, CodeShape
<1>2. Moved(t)
  BY DEF Moved, CodeInv, CodeShape, Undisturbed
<1>3. task[t].applied = {} /\ r.applied = {} /\ r.pc \notin Underway
  BY DEF CodeInv, CodeShape, TaskShape, Rests
<1>4. eventLoop' # {t}
  BY DEF CodeInv, CodeShape, Replacing
<1> QED
  BY <1>1, <1>2, <1>3, <1>4, QuietMove DEF Underway

LEMMA BetweenAttempts ==
  ASSUME CodeInv, NEW t \in Tasks,
         \/ \E cands \in Candidates : Delegate(t, cands)
         \/ DispatchAction(t)
         \/ Resend(t)
         \/ Refused(t)
         \/ PrepareFails(t)
  PROVE  CodeInv'
<1>1. CASE Refused(t) \/ PrepareFails(t)
  BY <1>1, EndedEarly, Resting DEF Refused, PrepareFails, NoLineage, At, HasLoop, Replacing
<1>2. CASE (\E cands \in Candidates : Delegate(t, cands)) \/ DispatchAction(t) \/ Resend(t)
  <2>0. DOMAIN task[t] = FieldNames
    BY DEF CodeInv, CodeShape, TaskShape
  <2>1. PICK x : /\ task' = [task EXCEPT ![t] = x]
                 /\ DOMAIN x = DOMAIN task[t]
                 /\ x.pc \in {"pending", "ready"}
                 /\ x.files = task[t].files /\ x.applied = task[t].applied /\ x.copy = task[t].copy
                 /\ x.checked = task[t].checked /\ x.waits = task[t].waits
    <3>1. CASE \E cands \in Candidates : Delegate(t, cands)
      <4>1. PICK cands \in Candidates : task' = [task EXCEPT ![t] = [task[t] EXCEPT !.pc = "pending", !.cands = cands]]
        BY <3>1 DEF Delegate, CodeInv, CodeShape
      <4> DEFINE y == [task[t] EXCEPT !.pc = "pending", !.cands = cands]
      <4>2. /\ DOMAIN y = DOMAIN task[t] /\ y.pc = "pending"
            /\ y.files = task[t].files /\ y.applied = task[t].applied /\ y.copy = task[t].copy
            /\ y.checked = task[t].checked /\ y.waits = task[t].waits
        BY <2>0 DEF FieldNames
      <4> QED
        BY <4>1, <4>2, Zenon
    <3>2. CASE DispatchAction(t)
      <4>1. task' = [task EXCEPT ![t] = [task[t] EXCEPT !.pc = "ready"]]
        BY <3>2 DEF DispatchAction, CodeInv, CodeShape
      <4> DEFINE y == [task[t] EXCEPT !.pc = "ready"]
      <4>2. /\ DOMAIN y = DOMAIN task[t] /\ y.pc = "ready"
            /\ y.files = task[t].files /\ y.applied = task[t].applied /\ y.copy = task[t].copy
            /\ y.checked = task[t].checked /\ y.waits = task[t].waits
        BY <2>0 DEF FieldNames
      <4> QED
        BY <4>1, <4>2, Zenon
    <3>3. CASE Resend(t)
      <4>1. task' = [task EXCEPT ![t] = [task[t] EXCEPT !.pc = "ready", !.n = 1]]
        BY <3>3 DEF Resend, CodeInv, CodeShape
      <4> DEFINE y == [task[t] EXCEPT !.pc = "ready", !.n = 1]
      <4>2. /\ DOMAIN y = DOMAIN task[t] /\ y.pc = "ready"
            /\ y.files = task[t].files /\ y.applied = task[t].applied /\ y.copy = task[t].copy
            /\ y.checked = task[t].checked /\ y.waits = task[t].waits
        BY <2>0 DEF FieldNames
      <4> QED
        BY <4>1, <4>2, Zenon
    <3> QED
      BY <1>2, <3>1, <3>2, <3>3
  <2>2. /\ UNCHANGED <<prod, eventLoop, verified, settled, disturbed>>
        /\ task[t].pc \notin Underway /\ eventLoop \in {{}, {t}} /\ task[t].waits = "nothing"
    BY <1>2 DEF Delegate, DispatchAction, Resend, At, HasLoop, Underway
  <2>3. Moved(t) /\ task'[t] = x
    BY <2>1, <2>2 DEF Moved, CodeInv, CodeShape, Undisturbed
  <2>4. TaskShape(x) /\ task[t].applied = {}
    BY <2>1, <2>2 DEF CodeInv, CodeShape, TaskShape, Underway, Replacing
  <2>5. eventLoop' # {t}
    BY <2>2 DEF CodeInv, CodeShape, Underway
  <2>6. \A f \in Files : VouchedBy(verified', task'[t].copy[f])
    BY <2>1, <2>2, <2>3 DEF CodeInv, AllVouched
  <2> QED
    BY <2>1, <2>2, <2>3, <2>4, <2>5, <2>6, QuietMove DEF Underway
<1> QED
  BY <1>1, <1>2

LEMMA VendorStep ==
  ASSUME CodeInv, NEW t \in Tasks,
         \/ Stage(t)
         \/ \E files \in EmitPatches : StreamEnds(t, files)
         \/ \E ok \in BOOLEAN : Verify(t, ok)
  PROVE  CodeInv'
<1>2. CASE Verify(t, FALSE)
  BY <1>2, EndedEarly, Resting DEF Verify, At, HasLoop, Replacing
<1>3. CASE Stage(t) \/ (\E files \in EmitPatches : StreamEnds(t, files)) \/ Verify(t, TRUE)
  <2>0. DOMAIN task[t] = FieldNames /\ task[t].files \subseteq Files
    BY DEF CodeInv, CodeShape, TaskShape
  <2>9. task[t].pc \in {"streaming", "staged"} => Body(t) \in Vendors
    BY DEF CodeInv, CodeShape, TaskShape, Body, BodyOf
  <2>1. PICK x : /\ task' = [task EXCEPT ![t] = x]
                 /\ DOMAIN x = FieldNames
                 /\ x.pc \in {"streaming", "staged", "applying"}
                 /\ x.files \subseteq Files /\ x.applied = task[t].applied /\ BodyOf(x) = Body(t)
                 /\ x.copy = task[t].copy \/ x.copy = prod
                 /\ x.pc = "applying" => Verify(t, TRUE)
                 /\ x.checked = task[t].checked
                 /\ x.waits = "nothing" \/ (x.waits = "request" /\ x.pc = "streaming")
    <3>1. CASE Stage(t)
      <4>1. task' = [task EXCEPT ![t] = [task[t] EXCEPT !.pc = "streaming", !.files = {}, !.copy = prod, !.waits = "request"]]
        BY <3>1 DEF Stage, Begin, CodeInv, CodeShape
      <4> DEFINE y == [task[t] EXCEPT !.pc = "streaming", !.files = {}, !.copy = prod, !.waits = "request"]
      <4>2. /\ DOMAIN y = FieldNames /\ y.pc = "streaming" /\ y.files = {}
            /\ y.applied = task[t].applied /\ y.cands = task[t].cands /\ y.n = task[t].n /\ y.copy = prod
            /\ y.checked = task[t].checked /\ y.waits = "request"
        BY <2>0 DEF FieldNames
      <4>3. y.files \subseteq Files /\ BodyOf(y) = Body(t)
        BY <2>0, <4>2 DEF BodyOf, Body
      <4>4. task' = [task EXCEPT ![t] = y]
        BY <4>1
      <4>5. /\ y.pc \in {"streaming", "staged", "applying"}
            /\ y.copy = task[t].copy \/ y.copy = prod
            /\ y.pc = "applying" => Verify(t, TRUE)
            /\ y.waits = "nothing" \/ (y.waits = "request" /\ y.pc = "streaming")
        BY <4>2
      <4> HIDE DEF y
      <4> QED
        BY <4>2, <4>3, <4>4, <4>5, Zenon
    <3>2. CASE \E files \in EmitPatches : StreamEnds(t, files)
      <4>1. PICK files \in EmitPatches : task' = [task EXCEPT ![t] = [task[t] EXCEPT !.pc = "staged", !.files = files]]
        BY <3>2 DEF StreamEnds, CodeInv, CodeShape
      <4> DEFINE y == [task[t] EXCEPT !.pc = "staged", !.files = files]
      <4>2. /\ DOMAIN y = FieldNames /\ y.pc = "staged" /\ y.files \subseteq Files
            /\ y.applied = task[t].applied /\ y.cands = task[t].cands /\ y.n = task[t].n /\ y.copy = task[t].copy
            /\ y.checked = task[t].checked /\ y.waits = task[t].waits /\ task[t].waits = "nothing"
        BY <2>0, <3>2 DEF FieldNames, EmitPatches, StreamEnds, At
      <4>3. y.files \subseteq Files /\ BodyOf(y) = Body(t)
        BY <2>0, <4>2 DEF BodyOf, Body
      <4>4. task' = [task EXCEPT ![t] = y]
        BY <4>1
      <4>5. /\ y.pc \in {"streaming", "staged", "applying"}
            /\ y.copy = task[t].copy \/ y.copy = prod
            /\ y.pc = "applying" => Verify(t, TRUE)
            /\ y.waits = "nothing" \/ (y.waits = "request" /\ y.pc = "streaming")
        BY <4>2
      <4> HIDE DEF y
      <4> QED
        BY <4>2, <4>3, <4>4, <4>5, Zenon
    <3>3. CASE Verify(t, TRUE)
      <4>1. task' = [task EXCEPT ![t] = [task[t] EXCEPT !.pc = "applying"]]
        BY <3>3 DEF Verify, CodeInv, CodeShape
      <4> DEFINE y == [task[t] EXCEPT !.pc = "applying"]
      <4>2. /\ DOMAIN y = FieldNames /\ y.pc = "applying" /\ y.files = task[t].files
            /\ y.applied = task[t].applied /\ y.cands = task[t].cands /\ y.n = task[t].n /\ y.copy = task[t].copy
            /\ y.checked = task[t].checked /\ y.waits = task[t].waits /\ task[t].waits = "nothing"
        BY <2>0, <3>3 DEF FieldNames, Verify, At
      <4>3. y.files \subseteq Files /\ BodyOf(y) = Body(t)
        BY <2>0, <4>2 DEF BodyOf, Body
      <4>4. task' = [task EXCEPT ![t] = y]
        BY <4>1
      <4>5. /\ y.pc \in {"streaming", "staged", "applying"}
            /\ y.copy = task[t].copy \/ y.copy = prod
            /\ y.pc = "applying" => Verify(t, TRUE)
            /\ y.waits = "nothing" \/ (y.waits = "request" /\ y.pc = "streaming")
        BY <4>2, <3>3
      <4> HIDE DEF y
      <4> QED
        BY <4>2, <4>3, <4>4, <4>5, Zenon
    <3> QED
      BY <1>3, <3>1, <3>2, <3>3
  <2>2. /\ UNCHANGED <<prod, settled>> /\ task[t].pc \notin Replacing /\ eventLoop \in {{}, {t}}
        /\ verified \subseteq verified' /\ Body(t) \in Vendors /\ (Undisturbed' => Undisturbed)
        /\ IF x.pc = "applying" THEN eventLoop' = {t} /\ <<t, Body(t)>> \in verified' ELSE eventLoop' = eventLoop
    <3>1. CASE Stage(t)
      <4>1. task'[t].pc = "streaming" /\ task'[t] = x
        BY <2>0, <2>1, <3>1 DEF Stage, Begin, CodeInv, CodeShape, FieldNames
      <4> QED
        BY <3>1, <4>1 DEF Stage, Begin, At, HasLoop, Replacing, Undisturbed
    <3>2. CASE \E files \in EmitPatches : StreamEnds(t, files)
      <4>1. task'[t].pc = "staged" /\ task'[t] = x
        <5>1. PICK files \in EmitPatches : task' = [task EXCEPT ![t] = [task[t] EXCEPT !.pc = "staged", !.files = files]]
          BY <3>2 DEF StreamEnds, CodeInv, CodeShape
        <5> QED
          BY <2>0, <2>1, <5>1 DEF CodeInv, CodeShape, FieldNames
      <4>2. /\ task[t].pc = "streaming" /\ eventLoop \in {{}, {t}}
            /\ UNCHANGED <<prod, eventLoop, verified, settled, disturbed>>
        BY <3>2 DEF StreamEnds, At, HasLoop
      <4> QED
        BY <2>9, <4>1, <4>2 DEF Replacing, Undisturbed
    <3>3. CASE Verify(t, TRUE)
      <4>1. task'[t].pc = "applying" /\ task'[t] = x
        BY <2>0, <2>1, <3>3 DEF Verify, CodeInv, CodeShape, FieldNames
      <4>2. /\ task[t].pc = "staged" /\ eventLoop \in {{}, {t}} /\ eventLoop' = {t}
            /\ verified' = verified \cup {<<t, Body(t)>>}
            /\ UNCHANGED <<prod, settled, disturbed>>
        BY <3>3 DEF Verify, At, HasLoop
      <4> QED
        BY <2>9, <4>1, <4>2 DEF Replacing, Undisturbed
    <3> QED
      BY <1>3, <3>1, <3>2, <3>3
  <2>3. Moved(t) /\ task'[t] = x
    BY <2>1, <2>2 DEF Moved, CodeInv, CodeShape
  <2>4. TaskShape(x) /\ task[t].applied = {} /\ x.applied = {}
    BY <2>1, <2>2 DEF CodeInv, CodeShape, TaskShape, Replacing
  <2>5. x.pc \in {"applying", "editing"} <=> eventLoop' = {t}
    BY <2>1, <2>2 DEF CodeInv, CodeShape, Replacing
  <2>6. \A f \in Files : VouchedBy(verified', x.copy[f])
    BY <2>1, <2>2, VouchedStays DEF CodeInv, AllVouched
  <2>7. ASSUME Undisturbed', NEW u \in Tasks \ {t}, Running(u) PROVE Body(u) # Local /\ BodyOf(x) # Local
    <3>1. BodyOf(x) # Local
      BY <2>1, <2>2, CodingAssumption
    <3>2. CASE Stage(t)
      BY <2>7, <3>1, <3>2 DEF Stage, Begin, Undisturbed
    <3>3. CASE (\E files \in EmitPatches : StreamEnds(t, files)) \/ Verify(t, TRUE)
      <4>1. Running(t)
        BY <3>3 DEF Running, StreamEnds, Verify, At
      <4> QED
        BY <2>2, <2>7, <3>1, <4>1 DEF CodeInv, Alone
    <3> QED
      BY <1>3, <3>2, <3>3
  <2> QED
    BY <2>1, <2>2, <2>3, <2>4, <2>5, <2>6, <2>7, QuietMove
<1> QED
  BY <1>2, <1>3

\* While nothing was disturbed, where an attempt may have replaced files the
\* others have not, and do not.
LEMMA MineAlone ==
  ASSUME CodeInv, Undisturbed, NEW t \in Tasks, task[t].pc \in Replacing
  PROVE  /\ \A u \in Tasks \ {t} : task[u].applied = {} /\ task[u].pc # "editing"
         /\ \A f \in Files : prod[f] = settled[f] \/ f \in task[t].applied
<1>1. ASSUME NEW u \in Tasks \ {t} PROVE task[u].applied = {}
  BY OneReplaces
<1>2. ASSUME NEW u \in Tasks \ {t}, task[u].pc = "editing" PROVE FALSE
  <2>1. eventLoop = {u} /\ eventLoop # {t}
    BY <1>2 DEF CodeInv, CodeShape
  <2>2. task[t].pc = "checking"
    BY <2>1 DEF CodeInv, CodeShape, Replacing
  <2>3. Body(t) = Local /\ Running(t) /\ Running(u)
    BY <1>2, <2>2 DEF CodeInv, CodeShape, TaskShape, Body, BodyOf, Running
  <2> QED
    BY <2>3 DEF CodeInv, Alone
<1>3. \A f \in Files : prod[f] = settled[f] \/ f \in task[t].applied
  BY <1>1 DEF CodeInv, Whole
<1> QED
  BY <1>1, <1>2, <1>3

\* The one task that may have replaced files moves.
LEMMA MyMove ==
  ASSUME CodeInv, NEW t \in Tasks, Moved(t), DOMAIN prod' = Files, DOMAIN settled' = Files,
         NEW x, x = task'[t],
         TaskShape(x), x.pc \in {"applying", "editing"} <=> eventLoop' = {t},
         \A f \in Files : VouchedBy(verified', prod'[f]) /\ VouchedBy(verified', x.copy[f]),
         x.pc = "applying" => <<t, BodyOf(x)>> \in verified',
         Undisturbed' =>
            /\ \A u \in Tasks \ {t} : task[u].applied = {} /\ task[u].pc # "editing"
            /\ x.pc \in Underway =>
                  \A u \in Tasks \ {t} : Running(u) => Body(u) # Local /\ BodyOf(x) # Local
            /\ \A f \in x.applied : prod'[f] = By(t, BodyOf(x)) /\ x.copy[f] = settled'[f]
            /\ x.pc = "editing" => \A f \in x.files : x.copy[f] = settled'[f]
            /\ \A f \in Files : prod'[f] = settled'[f] \/ f \in x.applied
  PROVE  CodeInv'
<1>1. ASSUME Undisturbed' PROVE (Alone /\ Kept /\ Whole)'
  <2>1. Alone
    BY <1>1 DEF CodeInv, Moved
  <2>2. Alone'
    BY <1>1, <2>1 DEF Alone, Moved, Running, Body, BodyOf, Underway
  <2>3. Kept'
    <3>1. ASSUME NEW u \in Tasks, NEW f \in task'[u].applied
          PROVE  prod'[f] = By(u, Body(u)') /\ task'[u].copy[f] = settled'[f]
      BY <1>1, <3>1 DEF Moved, Body, BodyOf
    <3>2. ASSUME NEW u \in Tasks, task'[u].pc = "editing", NEW f \in task'[u].files
          PROVE  task'[u].copy[f] = settled'[f]
      BY <1>1, <3>2 DEF Moved
    <3> QED
      BY <3>1, <3>2 DEF Kept
  <2>4. Whole'
    BY <1>1 DEF Whole
  <2> QED
    BY <2>2, <2>3, <2>4
<1> QED
  BY <1>1, TaskMoves

\* The attempt is over: what it had replaced is put back, or stays.
LEMMA RollsBack ==
  ASSUME CodeInv, NEW t \in Tasks, eventLoop \in {{}, {t}}, eventLoop' = {}, task[t].pc \in Replacing,
         NEW r, Rests(r), task' = [task EXCEPT ![t] = r],
         NEW S, S = task[t].applied \/ (task[t].pc = "editing" /\ S = task[t].files),
         prod' = [f \in Files |-> IF f \in S THEN task[t].copy[f] ELSE prod[f]],
         UNCHANGED <<verified, settled, disturbed>>
  PROVE  CodeInv'
<1>1. task'[t] = r /\ TaskShape(r) /\ \A f \in Files : VouchedBy(verified', r.copy[f])
  BY Resting DEF CodeInv, CodeShape
<1>2. Moved(t) /\ DOMAIN prod' = Files /\ DOMAIN settled' = Files
  BY DEF Moved, CodeInv, CodeShape, Undisturbed
<1>3. r.applied = {} /\ r.pc \notin Underway /\ eventLoop' # {t}
  BY DEF Rests
<1>4. \A f \in Files : VouchedBy(verified', prod'[f])
  BY DEF CodeInv, AllVouched
<1>5. ASSUME Undisturbed'
      PROVE  /\ \A u \in Tasks \ {t} : task[u].applied = {} /\ task[u].pc # "editing"
             /\ \A f \in Files : prod'[f] = settled'[f]
  <2>1. Undisturbed /\ Kept
    BY <1>5 DEF Undisturbed, CodeInv
  <2>2. task[t].applied \subseteq task[t].files
    BY DEF CodeInv, CodeShape, TaskShape
  <2> QED
    BY <2>1, <2>2, MineAlone DEF Kept
<1> QED
  BY <1>1, <1>2, <1>3, <1>4, <1>5, MyMove DEF Underway

LEMMA Finishes ==
  ASSUME CodeInv, NEW t \in Tasks, eventLoop \in {{}, {t}}, eventLoop' = {}, task[t].pc \in Replacing,
         NEW r, Rests(r), task' = [task EXCEPT ![t] = r], task[t].applied = task[t].files,
         settled' = [f \in Files |-> IF f \in task[t].files THEN By(t, Body(t)) ELSE settled[f]],
         verified \subseteq verified', UNCHANGED <<prod, disturbed>>
  PROVE  CodeInv'
<1>1. task'[t] = r /\ TaskShape(r) /\ \A f \in Files : VouchedBy(verified', r.copy[f])
  BY Resting DEF CodeInv, CodeShape
<1>2. Moved(t) /\ DOMAIN prod' = Files /\ DOMAIN settled' = Files
  BY DEF Moved, CodeInv, CodeShape, Undisturbed
<1>3. r.applied = {} /\ r.pc \notin Underway /\ eventLoop' # {t}
  BY DEF Rests
<1>4. \A f \in Files : VouchedBy(verified', prod'[f])
  BY VouchedStays DEF CodeInv, AllVouched
<1>5. ASSUME Undisturbed'
      PROVE  /\ \A u \in Tasks \ {t} : task[u].applied = {} /\ task[u].pc # "editing"
             /\ \A f \in Files : prod'[f] = settled'[f]
  <2>1. Undisturbed /\ Kept
    BY <1>5 DEF Undisturbed, CodeInv
  <2> QED
    BY <2>1, MineAlone DEF Kept
<1> QED
  BY <1>1, <1>2, <1>3, <1>4, <1>5, MyMove DEF Underway

LEMMA EndOfAttempt ==
  ASSUME CodeInv, NEW t \in Tasks,
         \/ ApplyFails(t) \/ Complete(t) \/ EditFails(t)
         \/ \E ok \in BOOLEAN : Check(t, ok)
  PROVE  CodeInv'
<1>1. CASE ApplyFails(t)
  BY <1>1, RollsBack, Resting DEF ApplyFails, RolledBack, At, HasLoop, Replacing
<1>2. CASE Complete(t)
  BY <1>2, Finishes, Resting DEF Complete, At, HasLoop, Replacing
<1>3. CASE EditFails(t)
  BY <1>3, RollsBack, Resting DEF EditFails, At, HasLoop, Replacing
<1>4. ASSUME task[t].pc = "checking", At(t, "checking")
      PROVE  eventLoop = {} /\ Body(t) = Local /\ task[t].applied = task[t].files
  BY <1>4 DEF CodeInv, CodeShape, TaskShape, Body, BodyOf, At, HasLoop
<1>5. CASE Check(t, TRUE)
  BY <1>4, <1>5, Finishes, Resting DEF Check, At, HasLoop, Replacing
<1>6. CASE Check(t, FALSE)
  BY <1>4, <1>6, RollsBack, Resting DEF Check, RolledBack, At, HasLoop, Replacing
<1> QED
  BY <1>1, <1>2, <1>3, <1>5, <1>6

LEMMA ApplyStep ==
  ASSUME CodeInv, Undisturbed => Compared, NEW t \in Tasks, NEW f \in Files, ApplyFile(t, f)
  PROVE  CodeInv'
<1> DEFINE x == [task[t] EXCEPT !.applied = @ \cup {f}, !.checked = {}]
<1>1. /\ task[t].pc = "applying" /\ eventLoop \in {{}, {t}}
      /\ f \in task[t].checked /\ task[t].waits = "nothing"
      /\ prod' = [prod EXCEPT ![f] = By(t, Body(t))] /\ task' = [task EXCEPT ![t] = x]
      /\ UNCHANGED <<eventLoop, verified, settled, disturbed>>
  BY DEF ApplyFile, At, HasLoop, CodeInv, CodeShape
<1>2. TaskShape(task[t]) /\ DOMAIN task = Tasks /\ DOMAIN prod = Files /\ DOMAIN settled = Files /\ eventLoop = {t}
  BY <1>1 DEF CodeInv, CodeShape
<1>3. /\ DOMAIN x = FieldNames /\ x.pc = "applying" /\ x.files = task[t].files /\ x.copy = task[t].copy
      /\ x.applied = task[t].applied \cup {f} /\ BodyOf(x) = Body(t)
      /\ x.checked = {} /\ x.waits = "nothing" /\ f \in task[t].files
  BY <1>1, <1>2 DEF TaskShape, FieldNames, BodyOf, Body
<1> HIDE DEF x
<1>4. TaskShape(x)
  BY <1>1, <1>2, <1>3 DEF TaskShape, Body, BodyOf, Replacing
<1>5. Moved(t) /\ task'[t] = x /\ DOMAIN prod' = Files /\ DOMAIN settled' = Files
  BY <1>1, <1>2 DEF Moved, Undisturbed
<1>6. <<t, BodyOf(x)>> \in verified' /\ Body(t) # Local
  BY <1>1, <1>2, <1>3, CodingAssumption DEF CodeInv, AllVouched, TaskShape, BodyOf, Body
<1>7. VouchedBy(verified', By(t, Body(t)))
  BY <1>3, <1>6 DEF VouchedBy, By
<1>8. \A g \in Files : VouchedBy(verified', prod'[g]) /\ VouchedBy(verified', x.copy[g])
  BY <1>1, <1>2, <1>3, <1>7 DEF CodeInv, AllVouched
<1>9. ASSUME Undisturbed'
      PROVE  /\ \A u \in Tasks \ {t} : task[u].applied = {} /\ task[u].pc # "editing"
             /\ \A u \in Tasks \ {t} : Running(u) => Body(u) # Local /\ BodyOf(x) # Local
             /\ \A g \in x.applied : prod'[g] = By(t, BodyOf(x)) /\ x.copy[g] = settled'[g]
             /\ \A g \in Files : prod'[g] = settled'[g] \/ g \in x.applied
  <2>1. Undisturbed /\ Kept /\ Alone
    BY <1>1, <1>9 DEF Undisturbed, CodeInv
  <2>2. /\ \A u \in Tasks \ {t} : task[u].applied = {} /\ task[u].pc # "editing"
        /\ \A g \in Files : prod[g] = settled[g] \/ g \in task[t].applied
    BY <1>1, <2>1, MineAlone DEF Replacing
  <2>3. \A u \in Tasks \ {t} : Running(u) => Body(u) # Local /\ BodyOf(x) # Local
    BY <1>1, <1>3, <1>6, <2>1 DEF Alone, Running
  <2>4. ASSUME NEW g \in x.applied PROVE g \in Files /\ prod'[g] = By(t, BodyOf(x)) /\ x.copy[g] = settled'[g]
    <3>1. g \in Files
      BY <1>2, <1>3 DEF TaskShape
    <3>2. CASE g = f
      <4>1. CASE f \in task[t].applied
        BY <1>1, <1>2, <1>3, <2>1, <3>1, <3>2, <4>1 DEF Kept
      <4>2. CASE f \notin task[t].applied
        <5>1. prod[f] = task[t].copy[f]
          BY <1>1, <2>1 DEF Compared
        <5> QED
          BY <1>1, <1>2, <1>3, <2>2, <3>1, <3>2, <4>2, <5>1
      <4> QED
        BY <4>1, <4>2
    <3>3. CASE g # f
      BY <1>1, <1>2, <1>3, <2>1, <3>1, <3>3 DEF Kept
    <3> QED
      BY <3>1, <3>2, <3>3
  <2>5. \A g \in Files : prod'[g] = settled'[g] \/ g \in x.applied
    BY <1>1, <1>2, <1>3, <2>2
  <2> QED
    BY <2>2, <2>3, <2>4, <2>5
<1>10. x.pc \in {"applying", "editing"} <=> eventLoop' = {t}
  BY <1>1, <1>2, <1>3
<1> QED
  BY <1>3, <1>4, <1>5, <1>6, <1>8, <1>9, <1>10, MyMove

LEMMA PrepareStep ==
  ASSUME CodeInv, NEW t \in Tasks, NEW files \in EmitPatches, Prepare(t, files)
  PROVE  CodeInv'
<1> DEFINE x == [task[t] EXCEPT !.pc = "editing", !.files = files, !.copy = prod, !.waits = "nothing"]
<1>1. /\ task[t].pc = "ready" /\ eventLoop \in {{}, {t}} /\ eventLoop' = {t} /\ Body(t) = Local
      /\ disturbed' = (disturbed \/ \E u \in Tasks \ {t} : Running(u) /\ Local \in {Body(t), Body(u)})
      /\ UNCHANGED <<prod, verified, settled>>
  BY DEF Prepare, Begin, At, HasLoop
<1>2. TaskShape(task[t]) /\ DOMAIN task = Tasks /\ DOMAIN prod = Files /\ DOMAIN settled = Files
  BY DEF CodeInv, CodeShape
<1>3. task' = [task EXCEPT ![t] = x]
  BY <1>2 DEF Prepare, Begin
<1>4. /\ DOMAIN x = FieldNames /\ x.pc = "editing" /\ x.files = files /\ x.copy = prod
      /\ x.applied = task[t].applied /\ BodyOf(x) = Local
      /\ x.checked = {} /\ x.waits = "nothing"
  BY <1>1, <1>2 DEF TaskShape, FieldNames, BodyOf, Body
<1> HIDE DEF x
<1>5. x.applied = {} /\ files \subseteq Files
  BY <1>1, <1>2, <1>4 DEF TaskShape, Replacing, EmitPatches
<1>6. TaskShape(x)
  BY <1>4, <1>5 DEF TaskShape, Replacing
<1>7. Undisturbed' => Undisturbed /\ \A u \in Tasks \ {t} : ~Running(u)
  BY <1>1 DEF Undisturbed
<1>8. Moved(t) /\ task'[t] = x /\ DOMAIN prod' = Files /\ DOMAIN settled' = Files
  BY <1>1, <1>2, <1>3, <1>7 DEF Moved
<1>9. \A g \in Files : VouchedBy(verified', prod'[g]) /\ VouchedBy(verified', x.copy[g])
  BY <1>1, <1>4 DEF CodeInv, AllVouched
<1>10. ASSUME Undisturbed'
       PROVE  /\ \A u \in Tasks \ {t} : task[u].applied = {} /\ task[u].pc # "editing"
              /\ \A g \in Files : prod[g] = settled[g]
  <2>1. Undisturbed /\ Whole /\ \A u \in Tasks \ {t} : ~Running(u)
    BY <1>7, <1>10 DEF CodeInv
  <2>2. \A u \in Tasks \ {t} : task[u].applied = {} /\ task[u].pc # "editing"
    BY <2>1 DEF Running, CodeInv, CodeShape, TaskShape, Replacing
  <2>3. \A g \in Files : prod[g] = settled[g]
    BY <1>4, <1>5, <2>1, <2>2 DEF Whole
  <2> QED
    BY <2>2, <2>3
<1>11. /\ x.pc \in {"applying", "editing"} <=> eventLoop' = {t}
       /\ x.pc = "applying" => <<t, BodyOf(x)>> \in verified'
  BY <1>1, <1>4
<1>12. Undisturbed' =>
            /\ \A u \in Tasks \ {t} : task[u].applied = {} /\ task[u].pc # "editing"
            /\ x.pc \in Underway =>
                  \A u \in Tasks \ {t} : Running(u) => Body(u) # Local /\ BodyOf(x) # Local
            /\ \A f \in x.applied : prod'[f] = By(t, BodyOf(x)) /\ x.copy[f] = settled'[f]
            /\ x.pc = "editing" => \A f \in x.files : x.copy[f] = settled'[f]
            /\ \A f \in Files : prod'[f] = settled'[f] \/ f \in x.applied
  BY <1>1, <1>4, <1>5, <1>7, <1>10
<1> QED
  BY <1>6, <1>8, <1>9, <1>11, <1>12, MyMove

LEMMA EditFileStep ==
  ASSUME CodeInv, NEW t \in Tasks, NEW f \in Files, EditFile(t, f)
  PROVE  CodeInv'
<1> DEFINE applied == task[t].applied \cup {f}
           last == applied = task[t].files
           x == [task[t] EXCEPT !.applied = applied, !.pc = IF last THEN "checking" ELSE @]
<1>1. /\ task[t].pc = "editing" /\ eventLoop \in {{}, {t}}
      /\ f \in task[t].files /\ f \notin task[t].applied /\ task[t].waits = "nothing"
      /\ prod' = [prod EXCEPT ![f] = By(t, Local)]
      /\ eventLoop' = IF last THEN {} ELSE eventLoop
      /\ UNCHANGED <<verified, settled, disturbed>>
  BY DEF EditFile, At, HasLoop
<1>2. TaskShape(task[t]) /\ DOMAIN task = Tasks /\ DOMAIN prod = Files /\ DOMAIN settled = Files /\ eventLoop = {t}
  BY <1>1 DEF CodeInv, CodeShape
<1>3. task' = [task EXCEPT ![t] = x]
  BY <1>2 DEF EditFile
<1>4. /\ DOMAIN x = FieldNames /\ x.pc = IF last THEN "checking" ELSE "editing"
      /\ x.files = task[t].files /\ x.copy = task[t].copy /\ x.applied = applied /\ BodyOf(x) = Body(t)
      /\ x.checked = {} /\ x.waits = "nothing"
  BY <1>1, <1>2 DEF TaskShape, FieldNames, BodyOf, Body
<1> HIDE DEF x
<1>5. Body(t) = Local
  BY <1>1, <1>2 DEF TaskShape, Body, BodyOf
<1>6. TaskShape(x)
  BY <1>1, <1>2, <1>4, <1>5 DEF TaskShape, Replacing
<1>7. Moved(t) /\ task'[t] = x /\ DOMAIN prod' = Files /\ DOMAIN settled' = Files
  BY <1>1, <1>2, <1>3 DEF Moved, Undisturbed
<1>8. \A g \in Files : VouchedBy(verified', prod'[g]) /\ VouchedBy(verified', x.copy[g])
  BY <1>1, <1>2, <1>4, OtherContents DEF CodeInv, AllVouched
<1>9. /\ x.pc \in {"applying", "editing"} <=> eventLoop' = {t}
      /\ x.pc = "applying" => <<t, BodyOf(x)>> \in verified'
  BY <1>1, <1>2, <1>4
<1>10. ASSUME Undisturbed'
       PROVE  /\ \A u \in Tasks \ {t} : task[u].applied = {} /\ task[u].pc # "editing"
              /\ \A u \in Tasks \ {t} : ~Running(u)
              /\ \A g \in x.files : x.copy[g] = settled'[g]
              /\ \A g \in x.applied : g \in x.files /\ prod'[g] = By(t, Local)
              /\ \A g \in Files : prod'[g] = settled'[g] \/ g \in x.applied
  <2>1. Undisturbed /\ Kept /\ Alone
    BY <1>1, <1>10 DEF Undisturbed, CodeInv
  <2>2. /\ \A u \in Tasks \ {t} : task[u].applied = {} /\ task[u].pc # "editing"
        /\ \A g \in Files : prod[g] = settled[g] \/ g \in task[t].applied
    BY <1>1, <2>1, MineAlone DEF Replacing
  <2>3. \A u \in Tasks \ {t} : ~Running(u)
    BY <1>1, <1>5, <2>1 DEF Alone, Running
  <2>4. \A g \in x.files : x.copy[g] = settled'[g]
    BY <1>1, <1>4, <2>1 DEF Kept
  <2>5. ASSUME NEW g \in x.applied PROVE g \in x.files /\ prod'[g] = By(t, Local)
    BY <1>1, <1>2, <1>4, <1>5, <2>1 DEF Kept, TaskShape
  <2>6. \A g \in Files : prod'[g] = settled'[g] \/ g \in x.applied
    BY <1>1, <1>2, <1>4, <2>2
  <2> QED
    BY <2>2, <2>3, <2>4, <2>5, <2>6
<1>11. Undisturbed' =>
            /\ \A u \in Tasks \ {t} : task[u].applied = {} /\ task[u].pc # "editing"
            /\ x.pc \in Underway =>
                  \A u \in Tasks \ {t} : Running(u) => Body(u) # Local /\ BodyOf(x) # Local
            /\ \A g \in x.applied : prod'[g] = By(t, BodyOf(x)) /\ x.copy[g] = settled'[g]
            /\ x.pc = "editing" => \A g \in x.files : x.copy[g] = settled'[g]
            /\ \A g \in Files : prod'[g] = settled'[g] \/ g \in x.applied
  BY <1>4, <1>5, <1>10
<1> QED
  BY <1>6, <1>7, <1>8, <1>9, <1>11, MyMove

\* A task begins or ends one of its two awaits, or has compared a hash.
LEMMA SameWork ==
  ASSUME CodeInv, NEW t \in Tasks, HasLoop(t), NEW x, task' = [task EXCEPT ![t] = x],
         TaskShape(x),
         \A a \in FieldNames \ {"checked", "waits"} : x[a] = task[t][a],
         UNCHANGED <<prod, eventLoop, verified, settled, disturbed>>
  PROVE  CodeInv'
<1>1. DOMAIN task' = Tasks /\ task'[t] = x /\ \A u \in Tasks \ {t} : task'[u] = task[u]
  BY DEF CodeInv, CodeShape
<1>2. /\ x.pc = task[t].pc /\ x.cands = task[t].cands /\ x.n = task[t].n
      /\ x.files = task[t].files /\ x.copy = task[t].copy /\ x.applied = task[t].applied
  BY DEF FieldNames
<1>3. ASSUME NEW u \in Tasks
      PROVE  /\ task'[u].pc = task[u].pc /\ task'[u].files = task[u].files
             /\ task'[u].copy = task[u].copy /\ task'[u].applied = task[u].applied
             /\ Body(u)' = Body(u) /\ TaskShape(task'[u])
  <2>1. CASE u = t
    BY <1>1, <1>2, <2>1 DEF Body
  <2>2. CASE u # t
    BY <1>1, <2>2 DEF Body, CodeInv, CodeShape
  <2> QED
    BY <2>1, <2>2
<1>4. CodeShape'
  BY <1>1, <1>3 DEF CodeInv, CodeShape
<1>5. AllVouched'
  BY <1>3 DEF CodeInv, AllVouched
<1>6. (Undisturbed => Alone /\ Kept /\ Whole)'
  <2>1. Alone' <=> Alone
    BY <1>3 DEF Alone, Running
  <2>2. Kept' <=> Kept
    BY <1>3 DEF Kept
  <2>3. Whole' <=> Whole
    BY <1>3 DEF Whole
  <2> QED
    BY <2>1, <2>2, <2>3 DEF CodeInv, Undisturbed
<1> QED
  BY <1>4, <1>5, <1>6 DEF CodeInv

LEMMA WaitStep ==
  ASSUME CodeInv, NEW t \in Tasks,
         \/ StreamFails(t) \/ OutOfTime(t) \/ RequestRead(t, TRUE)
         \/ \E f \in Files : CheckFile(t, f)
  PROVE  CodeInv'
<1>1. DOMAIN task = Tasks /\ TaskShape(task[t])
  BY DEF CodeInv, CodeShape
<1>2. /\ HasLoop(t)
      /\ UNCHANGED <<prod, eventLoop, verified, settled, disturbed>>
  BY DEF StreamFails, OutOfTime, KillProcess, RequestRead, CheckFile, At, HasLoop
<1>3. CASE StreamFails(t) \/ OutOfTime(t)
  <2> DEFINE x == [task[t] EXCEPT !.waits = "exit"]
  <2>1. task' = [task EXCEPT ![t] = x] /\ task[t].pc \notin {"applying", "editing"}
    BY <1>1, <1>3 DEF StreamFails, OutOfTime, KillProcess, At
  <2>2. /\ DOMAIN x = FieldNames /\ x.waits = "exit" /\ x.checked = task[t].checked
        /\ \A a \in FieldNames \ {"checked", "waits"} : x[a] = task[t][a]
    BY <1>1 DEF TaskShape, FieldNames
  <2> HIDE DEF x
  <2>3. TaskShape(x)
    BY <1>1, <2>1, <2>2 DEF TaskShape, FieldNames, BodyOf
  <2> QED
    BY <1>2, <2>1, <2>2, <2>3, SameWork
<1>4. CASE RequestRead(t, TRUE)
  <2> DEFINE x == [task[t] EXCEPT !.waits = "nothing"]
  <2>1. task' = [task EXCEPT ![t] = x]
    BY <1>1, <1>4 DEF RequestRead
  <2>2. /\ DOMAIN x = FieldNames /\ x.waits = "nothing" /\ x.checked = task[t].checked
        /\ \A a \in FieldNames \ {"checked", "waits"} : x[a] = task[t][a]
    BY <1>1 DEF TaskShape, FieldNames
  <2> HIDE DEF x
  <2>3. TaskShape(x)
    BY <1>1, <2>1, <2>2 DEF TaskShape, FieldNames, BodyOf
  <2> QED
    BY <1>2, <2>1, <2>2, <2>3, SameWork
<1>5. ASSUME NEW f \in Files, CheckFile(t, f) PROVE CodeInv'
  <2> DEFINE x == [task[t] EXCEPT !.checked = {f}]
  <2>1. /\ task' = [task EXCEPT ![t] = x] /\ task[t].pc = "applying"
        /\ task[t].waits = "nothing" /\ f \in task[t].files
    BY <1>1, <1>5 DEF CheckFile, At
  <2>2. /\ DOMAIN x = FieldNames /\ x.waits = task[t].waits /\ x.checked = {f}
        /\ \A a \in FieldNames \ {"checked", "waits"} : x[a] = task[t][a]
    BY <1>1 DEF TaskShape, FieldNames
  <2> HIDE DEF x
  <2>3. TaskShape(x)
    BY <1>1, <2>1, <2>2 DEF TaskShape, FieldNames, BodyOf
  <2> QED
    BY <1>2, <2>1, <2>2, <2>3, SameWork
<1> QED
  BY <1>3, <1>4, <1>5

\* An await ends with the attempt: the structured body alone has replaced files.
LEMMA AwaitFails ==
  ASSUME CodeInv, NEW t \in Tasks, RequestRead(t, FALSE) \/ Reaped(t)
  PROVE  CodeInv'
<1>1. TaskShape(task[t]) /\ HasLoop(t) /\ DOMAIN prod = Files
      /\ task[t].pc \notin {"applying", "editing"}
  BY DEF RequestRead, Reaped, CodeInv, CodeShape, TaskShape
<1>2. CASE RequestRead(t, FALSE)
  <2>1. task[t].pc \notin Replacing
    BY <1>1, <1>2 DEF RequestRead, TaskShape, Replacing
  <2> QED
    BY <1>1, <1>2, <2>1, EndedEarly, Resting DEF RequestRead, HasLoop
<1>3. CASE Reaped(t) /\ task[t].pc = "checking"
  <2>1. eventLoop = {}
    BY <1>1, <1>3 DEF CodeInv, CodeShape, HasLoop
  <2> QED
    BY <1>3, <2>1, RollsBack, Resting DEF Reaped, RolledBack, Replacing
<1>4. CASE Reaped(t) /\ task[t].pc # "checking"
  <2>1. task[t].pc \notin Replacing
    BY <1>1, <1>4 DEF Replacing
  <2>2. prod' = prod
    BY <1>4 DEF Reaped
  <2> QED
    BY <1>1, <1>4, <2>1, <2>2, EndedEarly, Resting DEF Reaped, HasLoop
<1> QED
  BY <1>2, <1>3, <1>4

\* Another program edits a file.
LEMMA EditStep ==
  ASSUME CodeInv, NEW f \in Files, Edit(f)
  PROVE  CodeInv'
<1>1. /\ prod' = [prod EXCEPT ![f] = Edited(edits')] /\ settled' = [settled EXCEPT ![f] = Edited(edits')]
      /\ UNCHANGED <<task, eventLoop, verified>>
  BY DEF Edit
<1>2. CodeShape'
  BY <1>1 DEF CodeInv, CodeShape
<1>3. AllVouched'
  <2>1. \A g \in Files : VouchedBy(verified', prod'[g])
    BY <1>1, OtherContents DEF CodeInv, AllVouched, CodeShape
  <2> QED
    BY <1>1, <2>1 DEF CodeInv, AllVouched, Body
<1>4. ASSUME Undisturbed' PROVE (Alone /\ Kept /\ Whole)'
  <2>1. /\ Alone /\ Kept /\ Whole
        /\ \A t \in Tasks : f \notin task[t].checked \cup task[t].applied
        /\ \A t \in Tasks : ~(task[t].pc = "editing" /\ f \in task[t].files)
    BY <1>4 DEF Edit, Undisturbed, CodeInv
  <2>2. \A t \in Tasks : f \notin task[t].applied /\ task[t].applied \subseteq Files /\ task[t].files \subseteq Files
    BY <2>1 DEF CodeInv, CodeShape, TaskShape, Replacing
  <2>3. \A g \in Files \ {f} : prod'[g] = prod[g] /\ settled'[g] = settled[g]
    BY <1>1 DEF CodeInv, CodeShape
  <2>4. prod'[f] = settled'[f]
    BY <1>1 DEF CodeInv, CodeShape
  <2>5. Alone'
    BY <1>1, <2>1 DEF Alone, Running, Body
  <2>6. Kept'
    BY <1>1, <2>1, <2>2, <2>3 DEF Kept, Body
  <2>7. Whole'
    BY <1>1, <2>1, <2>3, <2>4 DEF Whole
  <2> QED
    BY <2>5, <2>6, <2>7
<1> QED
  BY <1>2, <1>3, <1>4 DEF CodeInv

LEMMA CrashStep ==
  ASSUME CodeInv, Crash
  PROVE  CodeInv'
<1>1. eventLoop' = {} /\ UNCHANGED <<prod, verified, settled>> /\ DOMAIN task' = Tasks
  BY DEF Crash
<1>2. ASSUME NEW t \in Tasks PROVE Rests(task'[t]) \/ (task'[t] = task[t] /\ ~Running(t))
  BY Resting DEF Crash
<1>3. ASSUME NEW t \in Tasks
      PROVE  /\ TaskShape(task'[t]) /\ task'[t].pc \notin Underway /\ task'[t].applied = {}
             /\ \A f \in Files : VouchedBy(verified', task'[t].copy[f])
  <2>1. CASE Rests(task'[t])
    BY <2>1, Resting DEF Rests
  <2>2. CASE task'[t] = task[t] /\ ~Running(t)
    BY <1>1, <2>2 DEF CodeInv, CodeShape, TaskShape, AllVouched, Running, Underway, Replacing
  <2> QED
    BY <1>2, <2>1, <2>2
<1>4. CodeShape'
  BY <1>1, <1>3 DEF CodeInv, CodeShape, Underway
<1>5. AllVouched'
  BY <1>1, <1>3 DEF CodeInv, AllVouched, Underway
<1>6. ASSUME Undisturbed' PROVE (Alone /\ Kept /\ Whole)'
  <2>1. /\ Whole
        /\ \A t \in Tasks : ~(task[t].pc \in {"applying", "editing", "checking"} /\ task[t].applied # {})
    BY <1>6 DEF Crash, Undisturbed, CodeInv
  <2>2. \A t \in Tasks : task[t].applied = {}
    BY <2>1 DEF CodeInv, CodeShape, TaskShape, Replacing
  <2>3. \A t \in Tasks : ~Running(t)'
    BY <1>3 DEF Running, Underway
  <2>4. Alone'
    BY <2>3 DEF Alone
  <2>5. Kept'
    BY <1>3 DEF Kept, Underway
  <2>6. Whole'
    BY <1>1, <2>1, <2>2 DEF Whole
  <2> QED
    BY <2>4, <2>5, <2>6
<1> QED
  BY <1>4, <1>5, <1>6 DEF CodeInv

\* Between the comparison of a hash and the replacement no other task has the
\* event loop, and an edit of the file disturbs.
LEMMA ComparedStays ==
  ASSUME CodeInv, Undisturbed => Compared, [Next]_vars, CodeInv', Undisturbed'
  PROVE  Compared'
<1>1. \A t \in Tasks : task[t].checked # {} => eventLoop = {t}
  BY DEF CodeInv, CodeShape, TaskShape
<1>2. \A t \in Tasks : task'[t].pc # "applying" => task'[t].checked = {}
  BY DEF CodeInv, CodeShape, TaskShape
<1>3. CASE UNCHANGED vars
  BY <1>3 DEF vars, Compared, Undisturbed
<1>4. ASSUME NEW t \in Tasks,
             \/ \E c \in Candidates : Delegate(t, c)
             \/ DispatchAction(t)
             \/ Resend(t)
             \/ Step(t)
             \/ \E files \in EmitPatches : StreamEnds(t, files)
             \/ \E ok \in BOOLEAN : RequestRead(t, ok)
             \/ Reaped(t)
      PROVE  Compared'
  <2>1. HasLoop(t)
    BY <1>4 DEF Delegate, DispatchAction, Resend, Step, StreamEnds, RequestRead, Reaped, Refused, Stage,
       StreamFails, OutOfTime, Verify, Check, CheckFile, ApplyFile, EditFile, ApplyFails, Complete, Prepare,
       PrepareFails, EditFails, NoLineage, At, HasLoop
  <2>2. \A u \in Tasks \ {t} : task'[u] = task[u]
    BY <1>4 DEF Delegate, DispatchAction, Resend, Step, StreamEnds, RequestRead, Reaped, Refused, Stage,
       StreamFails, OutOfTime, KillProcess, Verify, Check, CheckFile, ApplyFile, EditFile, ApplyFails, Complete,
       Prepare, PrepareFails, EditFails, Begin, CodeInv, CodeShape
  <2>3. \A u \in Tasks \ {t} : task'[u].checked = {}
    BY <1>1, <2>1, <2>2 DEF HasLoop
  <2>4. \A f \in task'[t].checked : prod'[f] = task'[t].copy[f]
    <3>0. DOMAIN task[t] = FieldNames /\ DOMAIN task = Tasks
      BY DEF CodeInv, CodeShape, TaskShape
    <3>1. CASE \E f \in Files : CheckFile(t, f)
      <4>1. PICK f \in Files : task' = [task EXCEPT ![t] = [task[t] EXCEPT !.checked = {f}]]
                               /\ prod' = prod /\ prod[f] = task[t].copy[f]
        BY <3>0, <3>1 DEF CheckFile
      <4> DEFINE y == [task[t] EXCEPT !.checked = {f}]
      <4>2. y.checked = {f} /\ y.copy = task[t].copy
        BY <3>0 DEF FieldNames
      <4>3. task'[t] = y
        BY <3>0, <4>1
      <4> QED
        BY <4>1, <4>2, <4>3
    <3>2. CASE \E f \in Files : ApplyFile(t, f)
      <4>1. PICK f \in Files : task' = [task EXCEPT ![t] = [task[t] EXCEPT !.applied = @ \cup {f}, !.checked = {}]]
        BY <3>0, <3>2 DEF ApplyFile
      <4> QED
        BY <3>0, <4>1 DEF FieldNames
    <3>3. CASE Verify(t, TRUE)
      <4>1. task' = [task EXCEPT ![t] = [task[t] EXCEPT !.pc = "applying"]] /\ task[t].pc = "staged"
        BY <3>0, <3>3 DEF Verify, At
      <4> QED
        BY <3>0, <4>1 DEF FieldNames, CodeInv, CodeShape, TaskShape
    <3>4. CASE ~(\E f \in Files : CheckFile(t, f) \/ ApplyFile(t, f)) /\ ~Verify(t, TRUE)
      <4>1. task'[t].pc # "applying"
        <5>1. \A x : Rests(x) => x.pc # "applying"
          BY DEF Rests, Underway
        <5>2. CASE \/ Refused(t) \/ Verify(t, FALSE) \/ (\E ok \in BOOLEAN : Check(t, ok)) \/ ApplyFails(t)
                   \/ Complete(t) \/ PrepareFails(t) \/ EditFails(t) \/ RequestRead(t, FALSE) \/ Reaped(t)
          BY <3>0, <5>1, <5>2, Resting DEF Refused, Verify, Check, ApplyFails, Complete, PrepareFails, EditFails,
             RequestRead, Reaped
        <5>3. CASE StreamFails(t) \/ OutOfTime(t) \/ RequestRead(t, TRUE)
          <6>1. PICK w : task' = [task EXCEPT ![t] = [task[t] EXCEPT !.waits = w]] /\ task[t].pc # "applying"
            <7>1. CASE StreamFails(t) \/ OutOfTime(t)
              BY <3>0, <7>1 DEF StreamFails, OutOfTime, KillProcess, At
            <7>2. CASE RequestRead(t, TRUE)
              BY <3>0, <7>2 DEF RequestRead, CodeInv, CodeShape, TaskShape
            <7> QED
              BY <5>3, <7>1, <7>2
          <6> QED
            BY <3>0, <6>1 DEF FieldNames
        <5>4. CASE \/ (\E c \in Candidates : Delegate(t, c)) \/ DispatchAction(t) \/ Resend(t) \/ Stage(t)
                   \/ (\E files \in EmitPatches : StreamEnds(t, files) \/ Prepare(t, files))
                   \/ (\E f \in Files : EditFile(t, f))
          <6>1. /\ \A c \in Candidates : Delegate(t, c) => task'[t].pc = "pending"
                /\ DispatchAction(t) \/ Resend(t) => task'[t].pc = "ready"
            BY <3>0 DEF Delegate, DispatchAction, Resend, FieldNames
          <6>2. /\ Stage(t) => task'[t].pc = "streaming"
                /\ \A files \in EmitPatches : StreamEnds(t, files) => task'[t].pc = "staged"
                /\ \A files \in EmitPatches : Prepare(t, files) => task'[t].pc = "editing"
            <7>1. ASSUME Stage(t) PROVE task'[t].pc = "streaming"
              <8>1. task' = [task EXCEPT ![t] = [task[t] EXCEPT !.pc = "streaming", !.files = {}, !.copy = prod, !.waits = "request"]]
                BY <3>0, <7>1 DEF Stage, Begin
              <8> QED
                BY <3>0, <8>1 DEF FieldNames
            <7>2. ASSUME NEW files \in EmitPatches, StreamEnds(t, files) PROVE task'[t].pc = "staged"
              <8>1. task' = [task EXCEPT ![t] = [task[t] EXCEPT !.pc = "staged", !.files = files]]
                BY <3>0, <7>2 DEF StreamEnds
              <8> QED
                BY <3>0, <8>1 DEF FieldNames
            <7>3. ASSUME NEW files \in EmitPatches, Prepare(t, files) PROVE task'[t].pc = "editing"
              <8>1. task' = [task EXCEPT ![t] = [task[t] EXCEPT !.pc = "editing", !.files = files, !.copy = prod, !.waits = "nothing"]]
                BY <3>0, <7>3 DEF Prepare, Begin
              <8> QED
                BY <3>0, <8>1 DEF FieldNames
            <7> QED
              BY <7>1, <7>2, <7>3
          <6>3. \A f \in Files : EditFile(t, f) => task'[t].pc \in {"checking", "editing"}
            BY <3>0 DEF EditFile, At, FieldNames
          <6> QED
            BY <5>4, <6>1, <6>2, <6>3
        <5> QED
          BY <1>4, <3>4, <5>2, <5>3, <5>4 DEF Step
      <4> QED
        BY <1>2, <4>1
    <3> QED
      BY <3>1, <3>2, <3>3, <3>4
  <2> QED
    BY <2>3, <2>4 DEF Compared
<1>5. ASSUME NEW g \in Files, Edit(g) PROVE Compared'
  <2>1. /\ prod' = [prod EXCEPT ![g] = Edited(edits')] /\ task' = task /\ Compared
        /\ \A t \in Tasks : g \notin task[t].checked
    BY <1>5 DEF Edit, Undisturbed
  <2>2. \A f \in Files \ {g} : prod'[f] = prod[f]
    BY <2>1 DEF CodeInv, CodeShape
  <2> QED
    BY <2>1, <2>2 DEF Compared, CodeInv, CodeShape, TaskShape
<1>6. CASE Crash
  <2>1. \A t \in Tasks : Rests(task'[t]) \/ (task'[t] = task[t] /\ ~Running(t))
    BY <1>6, Resting DEF Crash
  <2>2. \A t \in Tasks : task'[t].pc # "applying"
    BY <2>1 DEF Rests, Underway, Running
  <2> QED
    BY <1>2, <2>2 DEF Compared
<1> QED
  BY <1>3, <1>4, <1>5, <1>6 DEF Next

\* What production holds is whole and verified: unless disturbed, the latest
\* edits and completed tasks and no more than that but for the files of the
\* attempt that is being applied or checked; and, disturbed or not, content
\* of a vendor only where its verification passed (_apply_to_production,
\* _rollback_production, _run_verification).
THEOREM ProductionIsSound == Spec => []ProductionSound
<1>1. Init => CodeInv
  <2> SUFFICES ASSUME Init PROVE CodeInv
    OBVIOUS
  <2>1. ASSUME NEW t \in Tasks
        PROVE  TaskShape(task[t]) /\ task[t].pc = "new" /\ task[t].applied = {} /\ task[t].copy = [f \in Files |-> Original]
    BY DEF Init, Idle, TaskShape, FieldNames, Replacing
  <2>2. CodeShape
    BY <2>1 DEF Init, CodeShape
  <2>3. AllVouched
    BY <2>1, OtherContents DEF Init, AllVouched
  <2>4. Alone /\ Kept /\ Whole
    BY <2>1 DEF Init, Alone, Kept, Whole, Running
  <2> QED
    BY <2>2, <2>3, <2>4 DEF CodeInv
<1>2. CodeInv /\ (Undisturbed => Compared) /\ [Next]_vars => CodeInv'
  <2> SUFFICES ASSUME CodeInv, Undisturbed => Compared, [Next]_vars PROVE CodeInv'
    OBVIOUS
  <2>1. CASE UNCHANGED vars
    BY <2>1 DEF vars, CodeInv, CodeShape, AllVouched, Alone, Kept, Whole, Undisturbed, Running, Body
  <2>2. ASSUME NEW t \in Tasks,
               \/ \E c \in Candidates : Delegate(t, c)
               \/ DispatchAction(t)
               \/ Resend(t)
               \/ Step(t)
               \/ \E files \in EmitPatches : StreamEnds(t, files)
               \/ \E ok \in BOOLEAN : RequestRead(t, ok)
               \/ Reaped(t)
        PROVE  CodeInv'
    BY <2>2, BetweenAttempts, VendorStep, WaitStep, AwaitFails, EndOfAttempt, ApplyStep, PrepareStep,
       EditFileStep DEF Step
  <2> QED
    BY <2>1, <2>2, EditStep, CrashStep DEF Next
<1>4. Init => (Undisturbed => Compared)
  BY DEF Init, Idle, Compared
<1>5. CodeInv /\ (Undisturbed => Compared) /\ [Next]_vars /\ CodeInv' => (Undisturbed => Compared)'
  BY ComparedStays
<1>3. CodeInv => ProductionSound
  <2> SUFFICES ASSUME CodeInv PROVE ProductionSound
    OBVIOUS
  <2>1. AllOrNothing
    BY DEF CodeInv, CodeShape, TaskShape, Whole, AllOrNothing, Running, Replacing
  <2>2. VendorContentVerified
    BY DEF CodeInv, AllVouched, VouchedBy, VendorContentVerified
  <2> QED
    BY <2>1, <2>2 DEF ProductionSound
<1> QED
  BY <1>1, <1>2, <1>3, <1>4, <1>5, PTL DEF Spec

-----------------------------------------------------------------------------
(* ServiceHost: no orphan                                                  *)

\* Where the host is before it has a child, and where it has seen to the child.
Childless == {"new", "registered", "starting", "job"}
SeenTo == {"killing", "failing-kill", "reaped", "closing", "child-gone", "failing-reap", "over"}

\* No member of the job goes on.
JobAtRest ==
    /\ "child" \in inJob => child # "running"
    /\ "helper" \in inJob => helper # "running"

HostInv ==
    /\ inJob = {} \/ "child" \in inJob
    /\ at \in Childless => child = "none" /\ inJob = {}
    /\ at = "spawned" => inJob = {}
    /\ child = "running" /\ at \notin {"spawned", "dead"} => "child" \in inJob
    /\ job # "open" => at \notin {"job", "spawned", "assigned", "watching", "reaping"}
    /\ job # "open" => JobAtRest
    /\ at \in SeenTo => child # "running" /\ JobAtRest
    /\ at \in {"new", "child-gone", "failing-reap", "over", "dead"} => job # "open"
    /\ reported = "stopped" => at \in {"over", "dead"}

LEMMA CloseRests ==
  ASSUME HostInv, CloseJob, UNCHANGED inJob
  PROVE  /\ job' # "open" /\ JobAtRest'
         /\ child' = "running" => child = "running"
         /\ child' = "none" <=> child = "none"
  BY DEF HostInv, CloseJob, KillJob, Killed, JobAtRest

LEMMA KillRests ==
  ASSUME HostInv, IF job = "open" THEN KillJob ELSE UNCHANGED <<child, helper>>, UNCHANGED inJob
  PROVE  /\ JobAtRest' /\ (child' = "running" => child = "running")
         /\ child' = "none" <=> child = "none"
  BY DEF HostInv, KillJob, Killed, JobAtRest

LEMMA MainKeepsHost ==
  ASSUME HostInv, ServiceMain
  PROVE  HostInv'
<1> USE DEF HostInv, Childless, SeenTo
<1>1. CASE Register
  BY <1>1 DEF Register, JobAtRest
<1>2. CASE ReportStart
  BY <1>2 DEF ReportStart, ReportStatus, JobAtRest
<1>3. CASE CreateJob
  BY <1>3 DEF CreateJob, JobAtRest
<1>4. CASE SpawnChild
  <2>1. CASE child' = "running" /\ at' = "spawned" /\ UNCHANGED <<job, helper>>
    BY <1>4, <2>1 DEF SpawnChild, JobAtRest
  <2>2. CASE CloseJob /\ at' = "failed"
    BY <1>4, <2>2, CloseRests DEF SpawnChild
  <2> QED
    BY <1>4, <2>1, <2>2 DEF SpawnChild
<1>5. CASE AssignChild
  BY <1>5 DEF AssignChild, JobAtRest, Killed
<1>6. CASE ReportRunning
  BY <1>6 DEF ReportRunning, ReportStatus, JobAtRest
<1>7. CASE Watch
  <2>1. CASE stopping /\ at' = "reaping" /\ UNCHANGED <<job, child, helper>>
    BY <1>7, <2>1 DEF Watch, JobAtRest
  <2>2. CASE child = "gone" /\ CloseJob /\ at' = "child-gone"
    BY <1>7, <2>2, CloseRests DEF Watch
  <2> QED
    BY <1>7, <2>1, <2>2 DEF Watch
<1>8. CASE TerminateTree
  BY <1>8, KillRests DEF TerminateTree, JobAtRest
<1>9. CASE AwaitChild
  BY <1>9 DEF AwaitChild, JobAtRest, Killed
<1>10. CASE CloseTree
  BY <1>10, CloseRests DEF CloseTree
<1>11. CASE ReportStopped
  BY <1>11 DEF ReportStopped, ReportStatus, JobAtRest
<1> QED
  BY <1>1, <1>2, <1>3, <1>4, <1>5, <1>6, <1>7, <1>8, <1>9, <1>10, <1>11 DEF ServiceMain

LEMMA OthersKeepHost ==
  ASSUME HostInv, ControlStop \/ RequestStop \/ StartHelper \/ ProcessGoes \/ HostKilled
                  \/ UNCHANGED hostVars
  PROVE  HostInv'
<1> USE DEF HostInv, Childless, SeenTo
<1>1. CASE ControlStop \/ UNCHANGED hostVars
  BY <1>1 DEF ControlStop, hostVars, JobAtRest
<1>2. CASE RequestStop
  BY <1>2 DEF RequestStop, JobAtRest
<1>3. CASE StartHelper
  BY <1>3 DEF StartHelper, JobAtRest
<1>4. CASE ProcessGoes
  BY <1>4 DEF ProcessGoes, JobAtRest
<1>5. CASE HostKilled
  BY <1>5, CloseRests DEF HostKilled
<1> QED
  BY <1>1, <1>2, <1>3, <1>4, <1>5

\* Once the manager was told that the service has stopped, or the host has come
\* to its end, nothing in the job goes on and neither does the child, whatever
\* call of the system fails and whenever the host is killed (_stop_child_tree,
\* _close_job, service_main of WindowsServiceHost).
THEOREM NoOrphanIsLeft == HostSpec => []LeavesNoOrphan
<1>1. HostInit => HostInv
  BY DEF HostInit, HostInv, Childless, SeenTo, JobAtRest
<1>2. HostInv /\ [HostNext]_hostVars => HostInv'
  BY MainKeepsHost, OthersKeepHost DEF HostNext
<1>3. HostInv => LeavesNoOrphan
  BY DEF HostInv, LeavesNoOrphan, Childless, SeenTo, JobAtRest
<1> QED
  BY <1>1, <1>2, <1>3, PTL DEF HostSpec
=============================================================================
