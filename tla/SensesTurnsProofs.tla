-------------------------- MODULE SensesTurnsProofs --------------------------
(***************************************************************************)
(* Proofs about the turns of a browser session, for any turns, reasons and *)
(* bounds: what the gateway's ledger promises of itself, that it keeps     *)
(* promising it to the console and the worker, and that the console never  *)
(* shows what the ledger does not say; and about the leases of a session,  *)
(* for any sessions and requests: none is of use once the session is shut. *)
(***************************************************************************)
EXTENDS SensesTurns, SensesAccess, SequenceTheorems, TLAPS

-----------------------------------------------------------------------------
(* The ledger. *)

\* What is recorded of one turn is one story.
OneTurn(story) ==
    /\ story # <<>> => story[1].state = "accepted"
    /\ \A i \in 1..(Len(story) - 1) : Follows(story[i], story[i + 1])

\* The inductive invariant: a turn that nobody claimed was never started, and
\* a turn that was cut off is interrupted until the end.
LedgerInv ==
    /\ GatewayTypeOK
    /\ \A t \in Turns : OneTurn(events[t])
    /\ \A t \in Turns : starts[t] <= 1 /\ (~Claimed(t) => starts[t] = 0)
    /\ \A t \in Turns : cut[t] # None => InState(t, "interrupted")

LEMMA LedgerInvIsOneStory == LedgerInv => OneStory
  BY DEF LedgerInv, OneStory, OneTurn, CognitionOnce, Claimed

\* A story goes on with a row that may follow its last one.
LEMMA StoryGoesOn ==
  ASSUME NEW s \in Seq(Status), NEW e \in Status, OneTurn(s),
         s = <<>> => e.state = "accepted",
         s # <<>> => Follows(s[Len(s)], e)
  PROVE  /\ Append(s, e) \in Seq(Status)
         /\ Append(s, e) # <<>>
         /\ Append(s, e)[Len(Append(s, e))] = e
         /\ \A i \in DOMAIN s : Append(s, e)[i] = s[i] /\ i \in DOMAIN Append(s, e)
         /\ OneTurn(Append(s, e))
<1> DEFINE r == Append(s, e)
<1>1. /\ r \in Seq(Status) /\ Len(r) = Len(s) + 1 /\ r[Len(r)] = e
      /\ Len(s) \in Nat /\ DOMAIN s = 1..Len(s) /\ DOMAIN r = 1..Len(r)
      /\ \A i \in 1..Len(s) : r[i] = s[i]
      /\ s = <<>> <=> Len(s) = 0
  OBVIOUS
<1>2. r # <<>> => r[1].state = "accepted"
  BY <1>1 DEF OneTurn
<1>3. ASSUME NEW i \in 1..(Len(r) - 1)
      PROVE  Follows(r[i], r[i + 1])
  <2>1. CASE i = Len(s)
    BY <2>1, <1>1
  <2>2. CASE i # Len(s)
    <3>1. i \in 1..Len(s) /\ i + 1 \in 1..Len(s) /\ i \in 1..(Len(s) - 1)
      <4>1. Len(s) \in Nat /\ Len(r) - 1 = Len(s)
        BY <1>1
      <4> HIDE DEF r
      <4> QED
        BY <4>1, <2>2
    <3>2. r[i] = s[i] /\ r[i + 1] = s[i + 1]
      BY <3>1, <1>1
    <3> QED
      BY <3>1, <3>2 DEF OneTurn
  <2> QED
    BY <2>1, <2>2
<1> QED
  BY <1>1, <1>2, <1>3 DEF OneTurn

\* The row that a turn is in is a status of the ledger.
LEMMA LatestIsStatus ==
  ASSUME GatewayTypeOK, NEW t \in Turns, Claimed(t)
  PROVE  LatestStatus(t) \in Status /\ Len(events[t]) \in DOMAIN events[t]
<1>1. events[t] \in Seq(Status) /\ events[t] # <<>>
  BY DEF GatewayTypeOK, Claimed
<1>2. Len(events[t]) \in 1..Len(events[t])
  BY <1>1
<1> QED
  BY <1>1, <1>2, ElementOfSeq DEF LatestStatus

\* What a step may do to the ledger: append a row to the story of one turn.
Writes(t, e) ==
    /\ InsertEvent(t, e)
    /\ e \in Status
    /\ ~Claimed(t) => e.state = "accepted"
    /\ Claimed(t) => Follows(LatestStatus(t), e)

LEMMA WriteKeepsStories ==
  ASSUME LedgerInv, NEW t \in Turns, NEW e, Writes(t, e)
  PROVE  /\ events' \in [Turns -> Seq(Status)]
         /\ \A u \in Turns : OneTurn(events[u])'
         /\ \A u \in Turns \ {t} : events'[u] = events[u]
         /\ Claimed(t)' /\ LatestStatus(t)' = e
<1>1. events \in [Turns -> Seq(Status)] /\ OneTurn(events[t]) /\ e \in Status
  BY DEF LedgerInv, GatewayTypeOK, Writes
<1>2. events' = [events EXCEPT ![t] = Append(events[t], e)]
  BY DEF Writes, InsertEvent
<1>3. /\ events[t] = <<>> => e.state = "accepted"
      /\ events[t] # <<>> => Follows(events[t][Len(events[t])], e)
  BY DEF Writes, Claimed, LatestStatus
<1>4. /\ Append(events[t], e) \in Seq(Status)
      /\ Append(events[t], e) # <<>>
      /\ Append(events[t], e)[Len(Append(events[t], e))] = e
      /\ OneTurn(Append(events[t], e))
  BY <1>1, <1>3, StoryGoesOn
<1>5. events'[t] = Append(events[t], e) /\ \A u \in Turns \ {t} : events'[u] = events[u]
  BY <1>1, <1>2
<1>6. \A u \in Turns : OneTurn(events'[u])
  BY <1>4, <1>5 DEF LedgerInv
<1> QED
  BY <1>1, <1>2, <1>4, <1>5, <1>6 DEF Claimed, LatestStatus

LEMMA LedgerInit == GatewayInit => LedgerInv
<1> SUFFICES ASSUME GatewayInit PROVE LedgerInv
  OBVIOUS
<1>1. GatewayTypeOK
  BY DEF GatewayInit, GatewayTypeOK
<1>2. \A t \in Turns : events[t] = <<>> /\ starts[t] = 0 /\ cut[t] = None
  BY DEF GatewayInit
<1>3. OneTurn(<<>>)
  BY DEF OneTurn
<1> QED
  BY <1>1, <1>2, <1>3 DEF LedgerInv

LEMMA PlainIsStatus ==
  ASSUME NEW s \in TurnStates
  PROVE  Plain(s) \in Status /\ Plain(s).state = s
BY DEF Plain, Status, Dispositions, Evidence

\* An interruption writes the row it found, with more evidence.
LEMMA ConfirmedFollows ==
  ASSUME LedgerInv, NEW t \in Turns, NEW ev \in Evidence, InState(t, "interrupted")
  PROVE  /\ Confirmed(t, ev) \in Status /\ Confirmed(t, ev).state = "interrupted"
         /\ Follows(LatestStatus(t), Confirmed(t, ev))
<1>1. LatestStatus(t) \in Status /\ LatestStatus(t).state = "interrupted"
  BY LatestIsStatus DEF InState, LedgerInv
<1>2. LatestStatus(t).evidence \cup ev \in Evidence
  BY <1>1 DEF Status, Evidence
<1> QED
  BY <1>1, <1>2 DEF Confirmed, Follows, Status, Disposition, Dispositions, TurnStates

LEMMA ClaimStep ==
  ASSUME LedgerInv, NEW t \in Turns, ClaimAndStart(t)
  PROVE  LedgerInv'
<1>1. Writes(t, Plain("accepted"))
  BY PlainIsStatus DEF ClaimAndStart, FirstClaim, Writes, TurnStates
<1>2. /\ starts[t] = 0 /\ starts' = [starts EXCEPT ![t] = @ + 1]
      /\ task' = [task EXCEPT ![t] = "running"] /\ cut' = cut
      /\ GatewayTypeOK /\ ~Claimed(t)
  BY DEF ClaimAndStart, FirstClaim, LedgerInv
<1>3. GatewayTypeOK'
  BY <1>1, <1>2, WriteKeepsStories DEF GatewayTypeOK
<1>4. \A u \in Turns : starts'[u] <= 1 /\ (~Claimed(u)' => starts'[u] = 0)
  BY <1>1, <1>2, WriteKeepsStories DEF LedgerInv, GatewayTypeOK, Claimed
<1>5. \A u \in Turns : cut'[u] # None => InState(u, "interrupted")'
  BY <1>1, <1>2, WriteKeepsStories DEF LedgerInv, InState, Claimed, LatestStatus
<1> QED
  BY <1>1, <1>3, <1>4, <1>5, WriteKeepsStories DEF LedgerInv

LEMMA RefuseStep ==
  ASSUME LedgerInv, NEW t \in Turns, ClaimAndRefuse(t)
  PROVE  LedgerInv'
<1> DEFINE s == <<Plain("accepted"), Plain("failed")>>
<1>1. /\ events \in [Turns -> Seq(Status)] /\ events[t] = <<>>
      /\ events' = [events EXCEPT ![t] = s]
      /\ UNCHANGED <<cut, task, starts>> /\ GatewayTypeOK
  BY DEF ClaimAndRefuse, FirstClaim, Claimed, LedgerInv, GatewayTypeOK
<1>2. s \in Seq(Status) /\ OneTurn(s)
  <2>1. /\ Plain("accepted") \in Status /\ Plain("accepted").state = "accepted"
        /\ Plain("failed") \in Status /\ Plain("failed").state = "failed"
    BY PlainIsStatus DEF TurnStates
  <2>2. s \in Seq(Status) /\ Len(s) = 2 /\ s[1] = Plain("accepted") /\ s[2] = Plain("failed")
    BY <2>1
  <2>3. \A i \in 1..(Len(s) - 1) : i = 1
    BY <2>2
  <2> HIDE DEF s
  <2> QED
    BY <2>1, <2>2, <2>3 DEF OneTurn, Follows
<1>3. s # <<>>
  OBVIOUS
<1> HIDE DEF s
<1>4. events' \in [Turns -> Seq(Status)] /\ \A u \in Turns : OneTurn(events'[u])
  BY <1>1, <1>2 DEF LedgerInv
<1>5. \A u \in Turns : Claimed(u) => events'[u] = events[u]
  BY <1>1 DEF Claimed
<1>6. \A u \in Turns : ~Claimed(u)' => ~Claimed(u)
  BY <1>1, <1>3, <1>5 DEF Claimed
<1>7. \A u \in Turns : cut'[u] # None => InState(u, "interrupted")'
  BY <1>1, <1>5 DEF LedgerInv, InState, Claimed, LatestStatus
<1> QED
  BY <1>1, <1>4, <1>6, <1>7 DEF LedgerInv, GatewayTypeOK

\* A row over a claimed turn keeps the invariant if it keeps an interruption.
LEMMA WriteStep ==
  ASSUME LedgerInv, NEW t \in Turns, NEW e, Writes(t, e), Claimed(t),
         cut' \in [Turns -> Reasons \cup {None}],
         \A u \in Turns \ {t} : cut'[u] = cut[u],
         cut'[t] # None => e.state = "interrupted",
         task' \in [Turns -> {"none", "running", "canceling"}],
         UNCHANGED starts
  PROVE  LedgerInv'
<1>1. GatewayTypeOK'
  BY WriteKeepsStories DEF LedgerInv, GatewayTypeOK
<1>2. \A u \in Turns : starts'[u] <= 1 /\ (~Claimed(u)' => starts'[u] = 0)
  BY WriteKeepsStories DEF LedgerInv, Claimed
<1>3. \A u \in Turns : cut'[u] # None => InState(u, "interrupted")'
  BY WriteKeepsStories DEF LedgerInv, InState, Claimed, LatestStatus
<1> QED
  BY <1>1, <1>2, <1>3, WriteKeepsStories DEF LedgerInv

\* A step that writes nothing and cuts nothing.
LEMMA SilentStep ==
  ASSUME LedgerInv, UNCHANGED <<events, cut, starts>>,
         task' \in [Turns -> {"none", "running", "canceling"}]
  PROVE  LedgerInv'
BY DEF LedgerInv, GatewayTypeOK, OneTurn, InState, Claimed, LatestStatus

LEMMA LeaveTypes ==
  ASSUME LedgerInv, NEW t \in Turns, Leave(t)
  PROVE  task' \in [Turns -> {"none", "running", "canceling"}]
BY DEF LedgerInv, GatewayTypeOK, Leave

LEMMA CompleteStep ==
  ASSUME LedgerInv, NEW t \in Turns, CompleteTurn(t)
  PROVE  LedgerInv'
<1>1. InState(t, "accepted") /\ InsertEvent(t, Plain("completed")) /\ UNCHANGED <<cut, starts>>
  BY DEF CompleteTurn, CanComplete
<1>2. Plain("completed") \in Status /\ Plain("completed").state = "completed"
  BY PlainIsStatus DEF TurnStates
<1>3. Writes(t, Plain("completed")) /\ Claimed(t)
  BY <1>1, <1>2 DEF Writes, InState, Follows
<1>4. cut[t] = None
  BY <1>1 DEF LedgerInv, InState
<1> QED
  BY <1>1, <1>3, <1>4, WriteStep, LeaveTypes DEF CompleteTurn, LedgerInv, GatewayTypeOK

LEMMA DiscardStep ==
  ASSUME LedgerInv, NEW t \in Turns, DiscardLateResult(t)
  PROVE  LedgerInv'
<1> DEFINE e == [LatestStatus(t) EXCEPT !.disp = "discarded"]
<1>1. CASE LatestStatus(t).disp = "discarded"
  BY <1>1, SilentStep, LeaveTypes DEF DiscardLateResult
<1>2. CASE LatestStatus(t).disp # "discarded"
  <2>1. InState(t, "interrupted") /\ Claimed(t) /\ InsertEvent(t, e) /\ UNCHANGED <<cut, starts>>
    BY <1>2 DEF DiscardLateResult, InState
  <2>2. LatestStatus(t) \in Status /\ LatestStatus(t).state = "interrupted"
    BY <2>1, LatestIsStatus DEF LedgerInv, InState
  <2>3. e \in Status /\ e.state = "interrupted" /\ Follows(LatestStatus(t), e)
    BY <2>2 DEF Status, Dispositions, Follows
  <2>4. Writes(t, e)
    BY <2>1, <2>3 DEF Writes
  <2> QED
    BY <2>1, <2>3, <2>4, WriteStep, LeaveTypes DEF DiscardLateResult, LedgerInv, GatewayTypeOK
<1> QED
  BY <1>1, <1>2

LEMMA FailStep ==
  ASSUME LedgerInv, NEW t \in Turns, FailTurn(t)
  PROVE  LedgerInv'
<1>1. CASE ~InState(t, "accepted")
  BY <1>1, SilentStep, LeaveTypes DEF FailTurn
<1>2. CASE InState(t, "accepted")
  <2>1. InsertEvent(t, Plain("failed")) /\ UNCHANGED <<cut, starts>> /\ cut[t] = None
    BY <1>2 DEF FailTurn, LedgerInv, InState
  <2>2. Plain("failed") \in Status /\ Plain("failed").state = "failed"
    BY PlainIsStatus DEF TurnStates
  <2>3. Writes(t, Plain("failed")) /\ Claimed(t)
    BY <1>2, <2>1, <2>2 DEF Writes, InState, Follows
  <2> QED
    BY <2>1, <2>3, WriteStep, LeaveTypes DEF FailTurn, LedgerInv, GatewayTypeOK
<1> QED
  BY <1>1, <1>2

LEMMA InterruptStep ==
  ASSUME LedgerInv, NEW t \in Turns, NEW r \in Reasons, NEW ev \in Evidence,
         InterruptTurn(t, r, ev)
  PROVE  LedgerInv'
<1>1. task' \in [Turns -> {"none", "running", "canceling"}] /\ UNCHANGED starts
  BY DEF InterruptTurn, LedgerInv, GatewayTypeOK
<1>2. CASE NewInterruption(t, r, ev)
  <2> DEFINE e == [state |-> "interrupted", gen |-> 1, evidence |-> ev,
                   disp |-> Disposition(task[t] # "none" \/ "provider" \in ev,
                                        "not-applicable")]
  <2>1. /\ Claimed(t) /\ LatestStatus(t).state \in {"accepted", "completed"}
        /\ cut' = [cut EXCEPT ![t] = r] /\ InsertEvent(t, e)
    BY <1>2 DEF NewInterruption, Interruptible
  <2>2. e \in Status /\ e.state = "interrupted"
    BY DEF Status, TurnStates, Disposition, Dispositions
  <2> HIDE DEF e
  <2>3. Writes(t, e)
    BY <2>1, <2>2 DEF Writes, Follows
  <2>4. cut' \in [Turns -> Reasons \cup {None}] /\ \A u \in Turns \ {t} : cut'[u] = cut[u]
    BY <2>1 DEF LedgerInv, GatewayTypeOK
  <2> QED
    BY <1>1, <2>1, <2>2, <2>3, <2>4, WriteStep
<1>3. CASE ConfirmInterruption(t, r, ev)
  <2>1. UNCHANGED cut /\ InState(t, "interrupted") /\ Claimed(t)
    BY <1>3 DEF ConfirmInterruption, Confirms, LedgerInv, InState
  <2>2. CASE ev \subseteq LatestStatus(t).evidence
    BY <1>1, <1>3, <2>1, <2>2, SilentStep DEF ConfirmInterruption
  <2>3. CASE ~(ev \subseteq LatestStatus(t).evidence)
    <3>1. InsertEvent(t, Confirmed(t, ev))
      BY <1>3, <2>3 DEF ConfirmInterruption
    <3>2. Writes(t, Confirmed(t, ev)) /\ Confirmed(t, ev).state = "interrupted"
      BY <2>1, <3>1, ConfirmedFollows DEF Writes
    <3> QED
      BY <1>1, <2>1, <3>2, WriteStep DEF LedgerInv, GatewayTypeOK
  <2> QED
    BY <2>2, <2>3
<1> QED
  BY <1>2, <1>3 DEF InterruptTurn

LEMMA LedgerStep == LedgerInv /\ [GatewayNext]_gatewayVars => LedgerInv'
<1> SUFFICES ASSUME LedgerInv, [GatewayNext]_gatewayVars PROVE LedgerInv'
  OBVIOUS
<1>1. CASE UNCHANGED gatewayVars
  BY <1>1, SilentStep DEF gatewayVars, LedgerInv, GatewayTypeOK
<1>2. CASE GatewayCrash
  BY <1>2, SilentStep DEF GatewayCrash
<1>3. ASSUME NEW t \in Turns, CancelTurn(t)
      PROVE  LedgerInv'
  BY <1>3, SilentStep, LeaveTypes DEF CancelTurn
<1> QED
  BY <1>1, <1>2, <1>3, ClaimStep, RefuseStep, CompleteStep, DiscardStep, FailStep,
     InterruptStep DEF GatewayNext

\* The ledger tells one story of every turn and its cognition starts once,
\* whatever its callers do and however often the gateway stops (claim,
\* complete, fail and interrupt of turns.py).
THEOREM LedgerTellsOneStory == LedgerSpec => []OneStory
<1>1. GatewayInit => LedgerInv
  BY LedgerInit
<1>2. LedgerInv /\ [GatewayNext]_gatewayVars => LedgerInv'
  BY LedgerStep
<1>3. LedgerInv => OneStory
  BY LedgerInvIsOneStory
<1> QED
  BY <1>1, <1>2, <1>3, PTL DEF LedgerSpec

-----------------------------------------------------------------------------
(* What the others are told of the ledger stays true. *)

\* Turns that were completed once, and turns that are interrupted.
Done == {t \in Turns : Recorded(t, "completed")}
Gone == {t \in Turns : InState(t, "interrupted")}

LEMMA WriteKeepsNews ==
  ASSUME LedgerInv, NEW t \in Turns, NEW e, Writes(t, e), Claimed(t),
         InState(t, "interrupted") => e.state = "interrupted"
  PROVE  Done \subseteq Done' /\ Gone \subseteq Gone'
<1>1. /\ events'[t] = Append(events[t], e) /\ events[t] \in Seq(Status) /\ e \in Status
      /\ \A u \in Turns \ {t} : events'[u] = events[u]
  BY DEF LedgerInv, GatewayTypeOK, Writes, InsertEvent
<1>2. \A i \in DOMAIN events[t] : events'[t][i] = events[t][i] /\ i \in DOMAIN events'[t]
  BY <1>1, StoryGoesOn DEF LedgerInv, Writes, Claimed, LatestStatus
<1>3. Done \subseteq Done'
  BY <1>1, <1>2 DEF Done, Recorded
<1>4. Claimed(t)' /\ LatestStatus(t)' = e
  BY WriteKeepsStories
<1>5. Gone \subseteq Gone'
  BY <1>1, <1>4 DEF Gone, InState, Claimed, LatestStatus
<1> QED
  BY <1>3, <1>5

LEMMA SameEventsSameNews == UNCHANGED events => Done' = Done /\ Gone' = Gone
BY DEF Done, Gone, Recorded, InState, Claimed, LatestStatus

LEMMA ClaimKeepsNews ==
  ASSUME LedgerInv, NEW t \in Turns, ClaimAndStart(t) \/ ClaimAndRefuse(t)
  PROVE  Done \subseteq Done' /\ Gone \subseteq Gone'
<1>1. events[t] = <<>> /\ \A u \in Turns \ {t} : events'[u] = events[u]
  BY DEF ClaimAndStart, ClaimAndRefuse, FirstClaim, Claimed, InsertEvent, LedgerInv, GatewayTypeOK
<1>2. t \notin Done /\ t \notin Gone
  BY <1>1 DEF Done, Gone, Recorded, InState, Claimed
<1> QED
  BY <1>1, <1>2 DEF Done, Gone, Recorded, InState, Claimed, LatestStatus

LEMMA CompleteNews ==
  ASSUME LedgerInv, NEW t \in Turns, CompleteTurn(t)
  PROVE  Done \subseteq Done' /\ Gone \subseteq Gone' /\ t \in Done'
<1>1. InState(t, "accepted") /\ InsertEvent(t, Plain("completed"))
  BY DEF CompleteTurn, CanComplete
<1>2. Plain("completed") \in Status /\ Plain("completed").state = "completed"
  BY PlainIsStatus DEF TurnStates
<1>3. Writes(t, Plain("completed")) /\ Claimed(t)
  BY <1>1, <1>2 DEF Writes, InState, Follows
<1>4. Done \subseteq Done' /\ Gone \subseteq Gone'
  BY <1>1, <1>3, WriteKeepsNews DEF InState
<1>5. Claimed(t)' /\ LatestStatus(t)' = Plain("completed") /\ events' \in [Turns -> Seq(Status)]
  BY <1>3, WriteKeepsStories
<1>6. Len(events'[t]) \in DOMAIN events'[t] /\ events'[t][Len(events'[t])].state = "completed"
  BY <1>2, <1>5 DEF Claimed, LatestStatus
<1>7. Recorded(t, "completed")'
  BY <1>6 DEF Recorded
<1> QED
  BY <1>4, <1>7 DEF Done

LEMMA DiscardNews ==
  ASSUME LedgerInv, NEW t \in Turns, DiscardLateResult(t)
  PROVE  Done \subseteq Done' /\ Gone \subseteq Gone'
<1> DEFINE e == [LatestStatus(t) EXCEPT !.disp = "discarded"]
<1>1. CASE LatestStatus(t).disp = "discarded"
  BY <1>1, SameEventsSameNews DEF DiscardLateResult
<1>2. CASE LatestStatus(t).disp # "discarded"
  <2>1. InState(t, "interrupted") /\ Claimed(t) /\ InsertEvent(t, e)
    BY <1>2 DEF DiscardLateResult, InState
  <2>2. LatestStatus(t) \in Status /\ LatestStatus(t).state = "interrupted"
    BY <2>1, LatestIsStatus DEF LedgerInv, InState
  <2>3. e \in Status /\ e.state = "interrupted" /\ Follows(LatestStatus(t), e)
    BY <2>2 DEF Status, Dispositions, Follows
  <2> QED
    BY <2>1, <2>3, WriteKeepsNews DEF Writes
<1> QED
  BY <1>1, <1>2

LEMMA FailNews ==
  ASSUME LedgerInv, NEW t \in Turns, FailTurn(t)
  PROVE  Done \subseteq Done' /\ Gone \subseteq Gone'
<1>1. CASE ~InState(t, "accepted")
  BY <1>1, SameEventsSameNews DEF FailTurn
<1>2. CASE InState(t, "accepted")
  <2>1. Plain("failed") \in Status /\ Plain("failed").state = "failed"
    BY PlainIsStatus DEF TurnStates
  <2>2. Writes(t, Plain("failed")) /\ Claimed(t)
    BY <1>2, <2>1 DEF FailTurn, Writes, InState, Follows
  <2> QED
    BY <1>2, <2>2, WriteKeepsNews DEF InState
<1> QED
  BY <1>1, <1>2

LEMMA InterruptNews ==
  ASSUME LedgerInv, NEW t \in Turns, NEW r \in Reasons, NEW ev \in Evidence,
         InterruptTurn(t, r, ev)
  PROVE  Done \subseteq Done' /\ Gone \subseteq Gone' /\ t \in Gone'
<1>1. CASE NewInterruption(t, r, ev)
  <2> DEFINE e == [state |-> "interrupted", gen |-> 1, evidence |-> ev,
                   disp |-> Disposition(task[t] # "none" \/ "provider" \in ev,
                                        "not-applicable")]
  <2>1. /\ Claimed(t) /\ LatestStatus(t).state \in {"accepted", "completed"}
        /\ InsertEvent(t, e)
    BY <1>1 DEF NewInterruption, Interruptible
  <2>2. e \in Status /\ e.state = "interrupted"
    BY DEF Status, TurnStates, Disposition, Dispositions
  <2> HIDE DEF e
  <2>3. Writes(t, e)
    BY <2>1, <2>2 DEF Writes, Follows
  <2>4. InState(t, "interrupted")'
    BY <2>2, <2>3, WriteKeepsStories DEF InState
  <2> QED
    BY <2>1, <2>2, <2>3, <2>4, WriteKeepsNews DEF Gone
<1>2. CASE ConfirmInterruption(t, r, ev)
  <2>1. InState(t, "interrupted") /\ Claimed(t)
    BY <1>2 DEF ConfirmInterruption, Confirms, LedgerInv, InState
  <2>2. CASE ev \subseteq LatestStatus(t).evidence
    BY <1>2, <2>1, <2>2, SameEventsSameNews DEF ConfirmInterruption, Gone
  <2>3. CASE ~(ev \subseteq LatestStatus(t).evidence)
    <3>1. InsertEvent(t, Confirmed(t, ev))
      BY <1>2, <2>3 DEF ConfirmInterruption
    <3>2. Writes(t, Confirmed(t, ev)) /\ Confirmed(t, ev).state = "interrupted"
      BY <2>1, <3>1, ConfirmedFollows DEF Writes
    <3> QED
      BY <2>1, <3>2, WriteKeepsNews DEF Gone
  <2> QED
    BY <2>2, <2>3
<1> QED
  BY <1>1, <1>2 DEF InterruptTurn

LEMMA LatestIsNews ==
  ASSUME LedgerInv, NEW t \in Turns, Claimed(t)
  PROVE  /\ LatestStatus(t).state \in TurnStates
         /\ LatestStatus(t).state = "completed" => t \in Done
         /\ LatestStatus(t).state = "interrupted" => t \in Gone
<1>1. LatestStatus(t) \in Status /\ Len(events[t]) \in DOMAIN events[t]
  BY LatestIsStatus DEF LedgerInv
<1> QED
  BY <1>1 DEF LatestStatus, Done, Gone, Recorded, InState, Status

-----------------------------------------------------------------------------
(* The session. *)

\* The types of everything outside the gateway.
CoordType == [id : Turns \cup {None}, gen : {0, 1}, delivery : Deliveries, cut : BOOLEAN]
UiType == [turn : DOMAIN TurnTransitions, id : Turns \cup {None}, gen : {0, 1},
           delivery : Deliveries]
CallType == [TextTurns -> {"fresh", "waiting", "asking", "done"}]
SpeechType == [id : TextTurns \cup {None}, on : BOOLEAN]
HaltType == [Halters -> [pc : {"idle", "posting", "ok"}, id : Turns \cup {None}]]
AnswerType == [id : Turns, kind : {"done", "replayed", "error", "status"}, state : TurnStates]
VoiceType == [id : VoiceTurns \cup {None}, reason : Reasons \cup {None},
              phase : {"idle", "calling", "speaking"}, begun : SUBSET VoiceTurns]
ControlType == [id : Turns, reason : Reasons]
BargeType == [id : VoiceTurns, reason : Reasons, evidence : Evidence]
PacketType == [id : VoiceTurns, state : {"accepted", "response-ready",
                                         "completed", "interrupted"}]

ClientTypes ==
    /\ room \in BOOLEAN /\ open \in BOOLEAN /\ mic \in BOOLEAN
    /\ coord \in CoordType /\ ui \in UiType
    /\ call \in CallType /\ speech \in SpeechType /\ halt \in HaltType

NetTypes ==
    /\ posts \subseteq Turns /\ answers \subseteq AnswerType
    /\ voice \in VoiceType /\ barge \subseteq BargeType
    /\ controls \subseteq ControlType /\ packets \in Seq(PacketType)

LEMMA TypesAreTypeOK == TypeOK <=> GatewayTypeOK /\ ClientTypes /\ NetTypes
BY DEF TypeOK, ClientTypes, NetTypes, CoordType, UiType, CallType, SpeechType, HaltType,
       AnswerType, VoiceType, ControlType, BargeType, PacketType

LEMMA NoSpeech ==
  [id |-> None, on |-> FALSE] \in SpeechType /\ [id |-> None, on |-> FALSE].id = None
BY DEF SpeechType

LEMMA TurnNames ==
  DOMAIN TurnTransitions = {"idle", "wake_armed", "listening", "committing", "thinking",
                            "speaking", "interrupting", "awaiting_approval"}
BY DEF TurnTransitions

\* An interruption is posted for a turn, and the worker calls or speaks for one.
Occupied ==
    /\ \A h \in Halters : halt[h].pc # "idle" => halt[h].id # None
    /\ voice.phase # "idle" => voice.id # None

\* What is said of a turn, the ledger says too.
Says(state, t) ==
    /\ state = "completed" => t \in Done
    /\ state = "interrupted" => t \in Gone

PacketsTold == \A i \in DOMAIN packets : Says(packets[i].state, packets[i].id)

\* What is on its way is true: answers, an utterance, a confirmed
\* interruption, the reply that the worker plays, packets.
Told ==
    /\ \A a \in answers : Says(a.state, a.id) /\ (a.kind = "done" => a.state = "completed")
    /\ speech.id # None => speech.id \in Done
    /\ \A h \in Halters : halt[h].pc = "ok" => halt[h].id \in Gone
    /\ voice.phase = "speaking" => voice.id \in Done
    /\ PacketsTold

\* What the console shows.
Shown ==
    \A c \in {coord, ui} :
        /\ c.delivery = "completed" => c.id \in Done
        /\ c.delivery = "interrupted" => c.id \in Gone \/ crossed

SessionInv == ClientTypes /\ NetTypes /\ Occupied /\ Told /\ Shown

\* News only grow, and what crossed stays crossed.
Grows == Done \subseteq Done' /\ Gone \subseteq Gone' /\ (crossed => crossed')

\* The coordinator and the store after a reconciliation.
LEMMA ReconcileTypes ==
  ASSUME ClientTypes, NEW g \in {0, 1}, NEW d \in Deliveries, Reconcile(g, d)
  PROVE  coord' \in CoordType /\ coord'.id = coord.id /\ coord'.delivery = d
BY DEF ClientTypes, CoordType, Reconcile

LEMMA UiReceiveTypes ==
  ASSUME ClientTypes, NEW t \in Turns, NEW g \in {0, 1}, NEW turn \in DOMAIN TurnTransitions,
         NEW d \in Deliveries, UiReceive(t, g, turn, d)
  PROVE  /\ ui' \in UiType /\ ui'.id = ui.id
         /\ ui'.delivery = ui.delivery \/ (ui.id = t /\ ui'.delivery = d)
BY DEF ClientTypes, UiType, UiReceive, UiMatches

LEMMA UiReconciledTypes ==
  ASSUME ClientTypes, NEW t \in Turns, NEW g \in {0, 1},
         NEW d \in Deliveries, UiReconciled(t, g, d)
  PROVE  /\ ui' \in UiType /\ ui'.id = ui.id
         /\ ui'.delivery = ui.delivery \/ (ui.id = t /\ ui'.delivery = d)
BY TurnNames DEF ClientTypes, UiType, UiReconciled, UiMatches

\* A status that is true is shown truly.
LEMMA DispatchShows ==
  ASSUME ClientTypes, Shown, Grows, NEW t \in Turns, NEW state \in TurnStates,
         Says(state, t), DispatchReconciled(t, state)
  PROVE  coord' \in CoordType /\ ui' \in UiType /\ Shown'
<1> DEFINE g == GenOf(state)
           d == IF state = "accepted" THEN "reconciling" ELSE state
<1>1. g \in {0, 1} /\ d \in Deliveries
  BY DEF GenOf, Deliveries, Settled, TurnStates
<1>2. CASE UNCHANGED <<coord, ui>>
  BY <1>2 DEF ClientTypes, Shown, Grows
<1>3. CASE coord.id = t /\ Reconcile(g, d) /\ UiReconciled(t, g, d)
  <2>1. /\ coord' \in CoordType /\ coord'.id = coord.id /\ coord'.delivery = d
        /\ ui' \in UiType /\ ui'.id = ui.id
        /\ ui'.delivery = ui.delivery \/ (ui.id = t /\ ui'.delivery = d)
    BY <1>1, <1>3, ReconcileTypes, UiReconciledTypes
  <2> QED
    BY <1>3, <2>1 DEF Shown, Grows, Says
<1> QED
  BY <1>2, <1>3 DEF DispatchReconciled

LEMMA SendTextSafe ==
  ASSUME SessionInv, Grows, NEW t \in TextTurns, SendText(t)
  PROVE  SessionInv'
<1> USE TurnIdsAssumption DEF SessionInv, Grows, netVars, workerVars
<1>1. ClientTypes' /\ NetTypes'
  BY TurnNames DEF ClientTypes, NetTypes, SendText, StartTurn, EndCall, CoordType, UiType,
     CallType, Deliveries, Settled
<1>2. Occupied' /\ Told'
  BY DEF Occupied, Told, Says, PacketsTold, SendText, StartTurn
<1>3. Shown'
  BY DEF Shown, SendText, StartTurn
<1> QED
  BY <1>1, <1>2, <1>3

LEMMA ReceiveAnswerSafe ==
  ASSUME SessionInv, Grows, NEW t \in TextTurns, ReceiveAnswer(t)
  PROVE  SessionInv'
<1> USE TurnIdsAssumption DEF SessionInv, Grows, netVars, workerVars
<1>1. PICK a \in answers :
        /\ a.id = t /\ answers' = answers \ {a} /\ EndCall(t) /\ t \in Turns
        /\ a \in AnswerType
        /\ \/ UNCHANGED <<coord, ui, speech>>
           \/ a.kind = "done" /\ coord.id = t /\ PresentResponse(t)
           \/ DispatchReconciled(t, a.state) /\ UNCHANGED speech
           \/ Reject(t)
  BY DEF ReceiveAnswer, NetTypes, Accepts
<1>2. UNCHANGED <<crossed, room, open, mic, halt, voice, barge, posts, controls, packets>>
  BY DEF ReceiveAnswer
<1>3. a.state \in TurnStates /\ Says(a.state, t) /\ (a.kind = "done" => t \in Done)
  BY <1>1 DEF AnswerType, Told, Says
<1>4. call' \in CallType
  BY <1>1 DEF EndCall, ClientTypes, CallType
<1>5. coord' \in CoordType /\ ui' \in UiType /\ Shown' /\ speech' \in SpeechType
      /\ (speech'.id # None => speech'.id \in Done)
  <2>1. CASE UNCHANGED <<coord, ui, speech>>
    BY <2>1 DEF ClientTypes, Shown, Told
  <2>2. CASE DispatchReconciled(t, a.state) /\ UNCHANGED speech
    BY <1>1, <1>3, <2>2, DispatchShows DEF ClientTypes, Told
  <2>3. CASE Reject(t)
    <3>1. Reconcile(0, "failed") /\ UiReceive(t, 0, "idle", "failed") /\ UNCHANGED speech
      BY <2>3 DEF Reject
    <3>2. "failed" \in Deliveries /\ "idle" \in DOMAIN TurnTransitions
      BY TurnNames DEF Deliveries, Settled
    <3>3. /\ coord' \in CoordType /\ coord'.delivery = "failed"
          /\ ui' \in UiType /\ ui'.id = ui.id /\ ui'.delivery \in {ui.delivery, "failed"}
      BY <1>1, <3>1, <3>2, ReconcileTypes, UiReceiveTypes
    <3> QED
      BY <3>1, <3>3 DEF ClientTypes, Shown, Told
  <2>4. CASE PresentResponse(t) /\ coord.id = t /\ a.kind = "done"
    <3>1. CASE /\ ui' = IF UiMatches(t, 0) THEN [ui EXCEPT !.turn = "thinking"] ELSE ui
               /\ speech' = [id |-> t, on |-> FALSE] /\ UNCHANGED coord
      <4>1. ui' \in UiType /\ ui'.id = ui.id /\ ui'.delivery = ui.delivery
        BY <3>1, TurnNames DEF ClientTypes, UiType
      <4> QED
        BY <1>3, <2>4, <3>1, <4>1 DEF ClientTypes, Shown, SpeechType
    <3>2. CASE Reconcile(0, "completed") /\ UiReceive(t, 0, "idle", "completed") /\ UNCHANGED speech
      <4>1. "completed" \in Deliveries /\ "idle" \in DOMAIN TurnTransitions
        BY TurnNames DEF Deliveries, Settled
      <4>2. /\ coord' \in CoordType /\ coord'.delivery = "completed" /\ coord'.id = coord.id
            /\ ui' \in UiType /\ ui'.id = ui.id
            /\ ui'.delivery = ui.delivery \/ (ui.id = t /\ ui'.delivery = "completed")
        BY <1>1, <3>2, <4>1, ReconcileTypes, UiReceiveTypes
      <4> QED
        BY <1>3, <2>4, <3>2, <4>2 DEF ClientTypes, Shown, Told
    <3> QED
      BY <2>4, <3>1, <3>2 DEF PresentResponse
  <2> QED
    BY <1>1, <2>1, <2>2, <2>3, <2>4
<1>6. ClientTypes' /\ NetTypes' /\ Occupied'
  BY <1>1, <1>2, <1>4, <1>5 DEF ClientTypes, NetTypes, Occupied
<1>7. Told'
  BY <1>1, <1>2, <1>5 DEF Told, Says, PacketsTold
<1> QED
  BY <1>5, <1>6, <1>7

LEMMA SpeechSafe ==
  ASSUME SessionInv, Grows, SpeechStarts \/ SpeechEnds
  PROVE  SessionInv'
<1> USE TurnIdsAssumption DEF SessionInv, Grows, netVars, workerVars
<1>1. UNCHANGED <<crossed, room, open, mic, halt, call, answers, voice, barge, posts, controls, packets>>
  BY DEF SpeechStarts, SpeechEnds
<1>2. speech' \in SpeechType /\ (speech'.id # None => speech'.id \in Done)
  <2>1. CASE SpeechStarts
    <3>1. speech' = [speech EXCEPT !.on = TRUE] /\ speech \in SpeechType
      BY <2>1 DEF SpeechStarts, ClientTypes
    <3>2. speech' \in SpeechType /\ speech'.id = speech.id
      BY <3>1 DEF SpeechType
    <3> QED
      BY <3>2 DEF Told
  <2>2. CASE SpeechEnds
    <3>1. speech' = [id |-> None, on |-> FALSE]
      BY <2>2 DEF SpeechEnds
    <3> QED
      BY <3>1 DEF SpeechType
  <2> QED
    BY <2>1, <2>2
<1>3. coord' \in CoordType /\ ui' \in UiType /\ Shown'
  <2>1. CASE SpeechStarts
    <3>1. UNCHANGED coord /\ ui' \in UiType /\ ui'.id = ui.id /\ ui'.delivery = ui.delivery
      BY <2>1, TurnNames DEF SpeechStarts, ClientTypes, UiType
    <3> QED
      BY <3>1, <1>1 DEF ClientTypes, Shown
  <2>2. CASE SpeechEnds /\ UNCHANGED <<coord, ui>>
    BY <2>2, <1>1 DEF ClientTypes, Shown
  <2>3. CASE SpeechEnds /\ ~UNCHANGED <<coord, ui>>
    <3> DEFINE t == speech.id
    <3>1. t \in Turns /\ t \in Done /\ coord.id = t
          /\ Reconcile(0, "completed") /\ UiReceive(t, 0, "idle", "completed")
      BY <2>3 DEF SpeechEnds, ClientTypes, SpeechType, Told, Accepts
    <3>2. "completed" \in Deliveries /\ "idle" \in DOMAIN TurnTransitions
      BY TurnNames DEF Deliveries, Settled
    <3>3. /\ coord' \in CoordType /\ coord'.delivery = "completed" /\ coord'.id = coord.id
          /\ ui' \in UiType /\ ui'.id = ui.id
          /\ ui'.delivery = ui.delivery \/ (ui.id = t /\ ui'.delivery = "completed")
      BY <3>1, <3>2, ReconcileTypes, UiReceiveTypes
    <3> QED
      BY <1>1, <3>1, <3>3 DEF Shown
  <2> QED
    BY <2>1, <2>2, <2>3
<1>4. ClientTypes' /\ NetTypes' /\ Occupied'
  BY <1>1, <1>2, <1>3 DEF ClientTypes, NetTypes, Occupied
<1>5. Told'
  BY <1>1, <1>2 DEF Told, Says, PacketsTold
<1> QED
  BY <1>3, <1>4, <1>5

LEMMA LoseAnswerSafe ==
  ASSUME SessionInv, Grows, NEW t \in TextTurns, LoseAnswer(t)
  PROVE  SessionInv'
<1> USE TurnIdsAssumption DEF SessionInv, Grows, netVars, workerVars
<1>1. UNCHANGED <<crossed, room, open, mic, speech, halt, voice, barge, posts, controls, packets>>
      /\ answers' \subseteq answers
  BY DEF LoseAnswer
<1>2. call' \in CallType /\ coord' \in CoordType /\ ui' \in UiType
  BY TurnNames DEF LoseAnswer, EndCall, ClientTypes, CallType, CoordType, UiType, Deliveries, Settled
<1>3. /\ coord'.id = coord.id /\ coord'.delivery \in {coord.delivery, "reconciling"}
      /\ ui'.id = ui.id /\ ui'.delivery \in {ui.delivery, "reconciling"}
  BY DEF LoseAnswer, ClientTypes, CoordType, UiType
<1>4. ClientTypes' /\ NetTypes' /\ Occupied'
  BY <1>1, <1>2 DEF ClientTypes, NetTypes, Occupied
<1>5. Told'
  BY <1>1 DEF Told, Says, PacketsTold
<1>6. Shown'
  BY <1>3, <1>1 DEF Shown
<1> QED
  BY <1>4, <1>5, <1>6

LEMMA LookupSafe ==
  ASSUME SessionInv, LedgerInv, Grows, NEW t \in TextTurns, Lookup(t)
  PROVE  SessionInv'
<1> USE TurnIdsAssumption DEF SessionInv, Grows, netVars, workerVars
<1>1. UNCHANGED <<crossed, room, open, mic, speech, halt, voice, barge, posts, controls, packets>>
      /\ t \in Turns
  BY DEF Lookup
<1>2. call' \in CallType
  BY DEF Lookup, EndCall, ClientTypes, CallType
<1>3. coord' \in CoordType /\ ui' \in UiType /\ Shown'
  <2>1. CASE UNCHANGED <<coord, ui>>
    BY <1>1, <2>1 DEF ClientTypes, Shown
  <2>2. CASE Reconcile(0, "not-confirmed") /\ UiReceive(t, 0, "idle", "not-confirmed")
    <3>1. "not-confirmed" \in Deliveries /\ "idle" \in DOMAIN TurnTransitions
      BY TurnNames DEF Deliveries, Settled
    <3>2. /\ coord' \in CoordType /\ coord'.delivery = "not-confirmed"
          /\ ui' \in UiType /\ ui'.id = ui.id /\ ui'.delivery \in {ui.delivery, "not-confirmed"}
      BY <1>1, <2>2, <3>1, ReconcileTypes, UiReceiveTypes
    <3> QED
      BY <1>1, <3>2 DEF Shown
  <2> QED
    BY <2>1, <2>2 DEF Lookup
<1>4. answers' \subseteq AnswerType /\ Told'
  <2>1. CASE UNCHANGED answers
    BY <1>1, <2>1 DEF NetTypes, Told, Says, PacketsTold
  <2>2. CASE ~UNCHANGED answers
    <3> DEFINE a == [id |-> t, kind |-> "status", state |-> LatestStatus(t).state]
    <3>1. Claimed(t) /\ answers' = answers \cup {a}
      BY <2>2 DEF Lookup
    <3>2. a \in AnswerType /\ Says(a.state, a.id) /\ a.kind # "done"
      BY <1>1, <3>1, LatestIsNews DEF AnswerType, Says
    <3> HIDE DEF a
    <3> QED
      BY <1>1, <3>1, <3>2 DEF NetTypes, Told, Says, PacketsTold
  <2> QED
    BY <2>1, <2>2
<1>5. ClientTypes' /\ NetTypes' /\ Occupied'
  BY <1>1, <1>2, <1>3, <1>4 DEF ClientTypes, NetTypes, Occupied
<1> QED
  BY <1>3, <1>4, <1>5

LEMMA ReceiveStatusSafe ==
  ASSUME SessionInv, Grows, NEW t \in TextTurns, ReceiveStatus(t)
  PROVE  SessionInv'
<1> USE TurnIdsAssumption DEF SessionInv, Grows, netVars, workerVars
<1>1. PICK a \in answers : /\ a.id = t /\ answers' = answers \ {a} /\ EndCall(t)
                           /\ DispatchReconciled(t, a.state)
  BY DEF ReceiveStatus, StatusOf
<1>2. UNCHANGED <<crossed, room, open, mic, speech, halt, voice, barge, posts, controls, packets>>
  BY DEF ReceiveStatus
<1>3. a.state \in TurnStates /\ Says(a.state, t) /\ t \in Turns
  BY <1>1 DEF NetTypes, AnswerType, Told
<1>4. coord' \in CoordType /\ ui' \in UiType /\ Shown' /\ call' \in CallType
  BY <1>1, <1>3, DispatchShows DEF EndCall, ClientTypes, CallType
<1>5. ClientTypes' /\ NetTypes' /\ Occupied'
  BY <1>1, <1>2, <1>4 DEF ClientTypes, NetTypes, Occupied
<1>6. Told'
  BY <1>1, <1>2 DEF Told, Says, PacketsTold
<1> QED
  BY <1>4, <1>5, <1>6

LEMMA RequestInterruptSafe ==
  ASSUME SessionInv, Grows, NEW h \in Halters, RequestInterrupt(h)
  PROVE  SessionInv'
<1> USE TurnIdsAssumption DEF SessionInv, Grows, netVars, workerVars
<1>1. UNCHANGED <<crossed, room, open, mic, voice, barge, posts, packets>>
  BY DEF RequestInterrupt
<1>2. coord.id \in Turns /\ coord.id # None
  BY DEF RequestInterrupt, Busy, ClientTypes, CoordType
<1>3. /\ coord' \in CoordType /\ coord'.id = coord.id
      /\ coord'.delivery \in {coord.delivery, "interrupting"}
  BY DEF RequestInterrupt, Interruption, ClientTypes, CoordType, Deliveries, Settled
<1>4. /\ ui' \in UiType /\ ui'.id = ui.id /\ ui'.delivery \in {ui.delivery, "interrupting"}
  <2>1. ui \in UiType /\ "interrupting" \in DOMAIN TurnTransitions /\ "interrupting" \in Deliveries
    BY TurnNames DEF ClientTypes, Deliveries
  <2>2. \/ ui' = ui
        \/ \E n \in {ui.gen, 1}, d \in {ui.delivery, "interrupting"} :
             ui' = [ui EXCEPT !.turn = "interrupting", !.gen = n, !.delivery = d]
    BY DEF RequestInterrupt
  <2> HIDE DEF SessionInv, Grows
  <2> QED
    BY <2>1, <2>2 DEF UiType
<1>5. call' \in CallType /\ speech' \in SpeechType /\ (speech' = speech \/ speech'.id = None)
      /\ answers' \subseteq answers
  <2>1. call' \in CallType /\ answers' \subseteq answers
    BY DEF RequestInterrupt, ClientTypes, CallType
  <2>2. speech' = speech \/ speech' = [id |-> None, on |-> FALSE]
    BY DEF RequestInterrupt
  <2> QED
    BY <2>1, <2>2, NoSpeech DEF ClientTypes
<1>6. controls' \subseteq ControlType
  BY <1>2 DEF RequestInterrupt, NetTypes, ControlType, ReasonOf, Halters
<1>7. halt' = halt \/ halt' = [halt EXCEPT ![h] = [pc |-> "posting", id |-> coord.id]]
  BY DEF RequestInterrupt
<1>8. /\ halt' \in HaltType
      /\ \A k \in Halters : halt'[k] = halt[k] \/ (halt'[k].pc = "posting" /\ halt'[k].id # None)
  BY <1>2, <1>7 DEF ClientTypes, HaltType
<1>9. ClientTypes' /\ NetTypes' /\ Occupied'
  BY <1>1, <1>3, <1>4, <1>5, <1>6, <1>8 DEF ClientTypes, NetTypes, Occupied
<1>10. Told'
  BY <1>1, <1>5, <1>8 DEF Told, Says, PacketsTold
<1>11. Shown'
  BY <1>1, <1>3, <1>4 DEF Shown
<1> QED
  BY <1>9, <1>10, <1>11

LEMMA PostInterruptSafe ==
  ASSUME SessionInv, LedgerInv, Grows, NEW h \in Halters, PostInterrupt(h)
  PROVE  SessionInv'
<1> USE TurnIdsAssumption DEF SessionInv, Grows, netVars, workerVars
<1> DEFINE t == halt[h].id
<1>1. UNCHANGED <<crossed, room, open, mic, coord, ui, call, speech, voice, barge,
                  posts, answers, controls, packets>>
  BY DEF PostInterrupt
<1>2. t \in Turns
  BY DEF PostInterrupt, Occupied, ClientTypes, HaltType
<1>3. \/ halt' = [halt EXCEPT ![h] = IdleHalt]
      \/ halt' = [halt EXCEPT ![h].pc = "ok"] /\ t \in Gone'
  <2>1. ASSUME InterruptTurn(t, ReasonOf[h], {"local"}) PROVE t \in Gone'
    BY <1>2, <2>1, InterruptNews DEF ReasonOf, Halters, Evidence
  <2>2. ASSUME LookupConfirms(t) PROVE t \in Gone
    BY <1>2, <2>2 DEF LookupConfirms, Gone
  <2> QED
    BY <2>1, <2>2 DEF PostInterrupt
<1>4. /\ halt' \in HaltType
      /\ \A k \in Halters : \/ halt'[k] = halt[k] \/ halt'[k].pc = "idle"
                            \/ halt'[k].id # None /\ halt'[k].id \in Gone'
  BY <1>2, <1>3 DEF IdleHalt, ClientTypes, HaltType
<1>5. ClientTypes' /\ NetTypes' /\ Occupied'
  BY <1>1, <1>4 DEF ClientTypes, NetTypes, Occupied
<1>6. Told' /\ Shown'
  BY <1>1, <1>4 DEF Told, Says, PacketsTold, Shown
<1> QED
  BY <1>5, <1>6

\* What an acknowledgement shows: the turn that is active now.
LEMMA AcknowledgementShows ==
  ASSUME SessionInv, Grows, NEW h \in Halters, halt[h].pc = "ok", Acknowledges, Crosses(h)
  PROVE  /\ coord.id \in Gone' \/ crossed'
         /\ UiAcknowledged \in UiType /\ UiAcknowledged.id = ui.id
         /\ \/ UiAcknowledged.delivery = ui.delivery
            \/ UiAcknowledged.delivery = "interrupted" /\ ui.id = coord.id
<1>1. coord.id \in Gone' \/ crossed'
  BY DEF SessionInv, Told, Grows, Crosses
<1>2. AckTurn \in DOMAIN TurnTransitions /\ "interrupted" \in Deliveries
  BY TurnNames DEF AckTurn, Deliveries, Settled
<1>3. /\ UiAcknowledged \in UiType /\ UiAcknowledged.id = ui.id
      /\ \/ UiAcknowledged.delivery = ui.delivery
         \/ UiAcknowledged.delivery = "interrupted" /\ ui.id = coord.id
  BY <1>2 DEF SessionInv, ClientTypes, UiType, UiAcknowledged, UiMatches
<1> QED
  BY <1>1, <1>3

LEMMA AcknowledgeStopSafe ==
  ASSUME SessionInv, Grows, NEW h \in Halters, AcknowledgeStop(h)
  PROVE  SessionInv'
<1> USE TurnIdsAssumption DEF SessionInv, Grows, netVars, workerVars
<1>1. /\ UNCHANGED <<room, open, mic, call, speech, voice, barge,
                     posts, answers, controls, packets>>
      /\ halt[h].pc = "ok" /\ halt' = [halt EXCEPT ![h] = IdleHalt] /\ Crosses(h)
  BY DEF AcknowledgeStop
<1>2. /\ halt' \in HaltType
      /\ \A k \in Halters : halt'[k] = halt[k] \/ halt'[k].pc = "idle"
  BY <1>1 DEF IdleHalt, ClientTypes, HaltType
<1>3. coord' \in CoordType /\ ui' \in UiType /\ Shown'
  <2>1. CASE ~Acknowledges
    BY <2>1 DEF AcknowledgeStop, ClientTypes, Shown
  <2>2. CASE Acknowledges
    <3>1. coord' = [coord EXCEPT !.delivery = "interrupted"] /\ ui' = UiAcknowledged
      BY <2>2 DEF AcknowledgeStop
    <3>2. coord' \in CoordType /\ coord'.id = coord.id /\ coord'.delivery = "interrupted"
      BY <3>1 DEF ClientTypes, CoordType, Deliveries, Settled
    <3>3. /\ coord.id \in Gone' \/ crossed'
          /\ ui' \in UiType /\ ui'.id = ui.id
          /\ \/ ui'.delivery = ui.delivery
             \/ ui'.delivery = "interrupted" /\ ui.id = coord.id
      BY <1>1, <2>2, <3>1, AcknowledgementShows
    <3> QED
      BY <3>2, <3>3 DEF Shown
  <2> QED
    BY <2>1, <2>2
<1>4. ClientTypes' /\ NetTypes' /\ Occupied'
  BY <1>1, <1>2, <1>3 DEF ClientTypes, NetTypes, Occupied
<1>5. Told'
  BY <1>1, <1>2 DEF Told, Says, PacketsTold
<1> QED
  BY <1>3, <1>4, <1>5

LEMMA AcknowledgeSendSafe ==
  ASSUME SessionInv, Grows, NEW t \in TextTurns, AcknowledgeSend(t)
  PROVE  SessionInv'
<1> USE TurnIdsAssumption DEF SessionInv, Grows, netVars, workerVars
<1>1. /\ UNCHANGED <<room, open, mic, speech, voice, barge, answers, controls, packets>>
      /\ halt["send"].pc = "ok" /\ "send" \in Halters /\ Acknowledges /\ Crosses("send")
      /\ halt' = [halt EXCEPT !["send"] = IdleHalt] /\ StartTurn(t, UiAcknowledged)
  BY DEF AcknowledgeSend, Halters
<1>2. /\ halt' \in HaltType
      /\ \A k \in Halters : halt'[k] = halt[k] \/ halt'[k].pc = "idle"
  BY <1>1 DEF IdleHalt, ClientTypes, HaltType
<1>3. /\ coord.id \in Gone' \/ crossed'
      /\ UiAcknowledged \in UiType /\ UiAcknowledged.id = ui.id
      /\ \/ UiAcknowledged.delivery = ui.delivery
         \/ UiAcknowledged.delivery = "interrupted" /\ ui.id = coord.id
  BY <1>1, AcknowledgementShows
<1>4. coord' \in CoordType /\ coord'.delivery = "in-flight"
  BY <1>1 DEF StartTurn, CoordType, Deliveries, Settled
<1>5. ui' = UiAcknowledged \/ (ui' \in UiType /\ ui'.delivery = "in-flight")
  BY <1>1, TurnNames DEF StartTurn, UiType, Deliveries, Settled
<1>6. call' \in CallType /\ posts' \subseteq Turns
  BY <1>1 DEF StartTurn, EndCall, ClientTypes, NetTypes, CallType
<1>7. Shown'
  BY <1>3, <1>4, <1>5 DEF Shown
<1>8. ClientTypes' /\ NetTypes' /\ Occupied'
  BY <1>1, <1>2, <1>3, <1>4, <1>5, <1>6 DEF ClientTypes, NetTypes, Occupied
<1>9. Told'
  BY <1>1, <1>2 DEF Told, Says, PacketsTold
<1> QED
  BY <1>7, <1>8, <1>9

LEMMA ToggleMicSafe ==
  ASSUME SessionInv, Grows, ToggleMic
  PROVE  SessionInv'
<1> USE DEF SessionInv, Grows, netVars, workerVars
<1>1. UNCHANGED <<room, crossed, coord, call, speech, halt, open, voice, barge,
                  posts, answers, controls, packets>>
  BY DEF ToggleMic
<1>2. mic' \in BOOLEAN /\ ui' \in UiType /\ ui'.id = ui.id /\ ui'.delivery = ui.delivery
  BY TurnNames DEF ToggleMic, ClientTypes, UiType
<1>3. ClientTypes' /\ NetTypes' /\ Occupied'
  BY <1>1, <1>2 DEF ClientTypes, NetTypes, Occupied
<1>4. Told' /\ Shown'
  BY <1>1, <1>2 DEF Told, Says, PacketsTold, Shown
<1> QED
  BY <1>3, <1>4

LEMMA EndSessionSafe ==
  ASSUME SessionInv, Grows, EndSession
  PROVE  SessionInv'
<1> USE DEF SessionInv, Grows, netVars, workerVars
<1>1. /\ UNCHANGED <<room, crossed, voice, barge, posts, controls>>
      /\ open' = FALSE /\ mic' = FALSE /\ packets' = <<>> /\ answers' \subseteq answers
      /\ coord' = NoActive /\ ui' = EmptyUi /\ speech' = [id |-> None, on |-> FALSE]
      /\ call' = [t \in TextTurns |-> "done"] /\ halt' = [h \in Halters |-> IdleHalt]
  BY DEF EndSession
<1>2. coord' \in CoordType /\ coord'.delivery = "none" /\ ui' \in UiType /\ ui'.delivery = "none"
  BY <1>1, TurnNames DEF NoActive, EmptyUi, CoordType, UiType, Deliveries
<1>3. /\ speech' \in SpeechType /\ speech'.id = None
      /\ call' \in CallType /\ halt' \in HaltType
      /\ \A h \in Halters : halt'[h].pc = "idle"
  BY <1>1, NoSpeech DEF CallType, HaltType, IdleHalt
<1>4. packets' \in Seq(PacketType) /\ DOMAIN packets' = {}
  BY <1>1
<1>5. open' \in BOOLEAN /\ mic' \in BOOLEAN
  BY <1>1
<1>6. ClientTypes'
  BY <1>1, <1>2, <1>3, <1>5 DEF ClientTypes
<1>7. NetTypes' /\ Occupied'
  BY <1>1, <1>3, <1>4 DEF NetTypes, Occupied
<1>8. Told'
  BY <1>1, <1>3, <1>4 DEF Told, Says, PacketsTold
<1>9. Shown'
  BY <1>2 DEF Shown
<1> QED
  BY <1>6, <1>7, <1>8, <1>9

LEMMA ReceivePacketSafe ==
  ASSUME SessionInv, Grows, ReceivePacket
  PROVE  SessionInv'
<1> USE TurnIdsAssumption DEF SessionInv, Grows, netVars, workerVars
<1> DEFINE p == Head(packets)
<1>1. /\ UNCHANGED <<room, crossed, call, speech, halt, mic, open, voice, barge,
                     posts, answers, controls>>
      /\ packets # <<>> /\ packets' = Tail(packets) /\ packets \in Seq(PacketType)
  BY DEF ReceivePacket, NetTypes
<1>2. /\ packets' \in Seq(PacketType) /\ p \in PacketType /\ Says(p.state, p.id)
      /\ \A i \in DOMAIN packets' : i + 1 \in DOMAIN packets /\ packets'[i] = packets[i + 1]
  <2>1. 1 \in DOMAIN packets /\ p = packets[1] /\ p \in PacketType
        /\ packets' \in Seq(PacketType)
    BY <1>1
  <2>2. \A i \in DOMAIN packets' : i + 1 \in DOMAIN packets /\ packets'[i] = packets[i + 1]
    BY <1>1
  <2> QED
    BY <2>1, <2>2 DEF Told, PacketsTold
<1>3. p.id \in Turns /\ p.state \in {"accepted", "response-ready", "completed", "interrupted"}
  BY <1>2 DEF PacketType
<1>4. coord' \in CoordType /\ ui' \in UiType /\ Shown'
  <2>1. CASE UNCHANGED <<coord, ui>>
    BY <1>1, <2>1 DEF ClientTypes, Shown
  <2>2. CASE /\ coord' = [id |-> p.id, gen |-> 0, delivery |-> "in-flight", cut |-> FALSE]
             /\ ui' = [turn |-> "committing", id |-> p.id, gen |-> 0, delivery |-> "in-flight"]
    <3> HIDE DEF p
    <3>1. /\ coord' \in CoordType /\ coord'.delivery = "in-flight"
          /\ ui' \in UiType /\ ui'.delivery = "in-flight"
      BY <1>3, <2>2, TurnNames DEF CoordType, UiType, Deliveries
    <3> QED
      BY <3>1 DEF Shown
  <2>3. CASE /\ UNCHANGED coord
             /\ ui' = IF Accepts(p.id, 0) /\ UiMatches(p.id, 0) /\ MayMove("thinking")
                        THEN [ui EXCEPT !.turn = "thinking"] ELSE ui
    <3>1. ui' \in UiType /\ ui'.id = ui.id /\ ui'.delivery = ui.delivery
      BY <2>3, TurnNames DEF ClientTypes, UiType
    <3> QED
      BY <1>1, <2>3, <3>1 DEF ClientTypes, Shown
  <2>4. CASE p.state \in {"completed", "interrupted"} /\ DispatchReconciled(p.id, p.state)
    <3> HIDE DEF p
    <3>1. p.state \in TurnStates
      BY <2>4 DEF TurnStates
    <3> QED
      BY <1>2, <1>3, <2>4, <3>1, DispatchShows
  <2> QED
    BY <2>1, <2>2, <2>3, <2>4 DEF ReceivePacket
<1>5. ClientTypes' /\ NetTypes' /\ Occupied'
  BY <1>1, <1>2, <1>4 DEF ClientTypes, NetTypes, Occupied
<1>6. Told'
  BY <1>1, <1>2 DEF Told, Says, PacketsTold
<1> QED
  BY <1>4, <1>5, <1>6

\* An answer is on its way, if somebody waits for it.
LEMMA AnswerSafe ==
  ASSUME SessionInv, Grows, NEW t \in Turns,
         NEW kind \in {"done", "replayed", "error", "status"}, NEW state \in TurnStates,
         Says(state, t)', kind = "done" => state = "completed",
         Answer(t, kind, state) \/ UNCHANGED answers,
         UNCHANGED <<room, clientVars, workerVars, controls, packets>>, posts' \subseteq Turns
  PROVE  SessionInv'
<1> USE DEF SessionInv, Grows, clientVars, workerVars
<1> DEFINE a == [id |-> t, kind |-> kind, state |-> state]
<1>1. a \in AnswerType /\ a.id = t /\ a.state = state /\ a.kind = kind
  BY DEF AnswerType
<1>2. answers' = answers \/ answers' = answers \cup {a}
  BY DEF Answer
<1> HIDE DEF a
<1>3. ClientTypes' /\ NetTypes' /\ Occupied'
  BY <1>1, <1>2 DEF ClientTypes, NetTypes, Occupied
<1>4. Told'
  BY <1>1, <1>2 DEF Told, Says, PacketsTold
<1>5. Shown'
  BY DEF Shown
<1> QED
  BY <1>3, <1>4, <1>5

LEMMA HandleRequestSafe ==
  ASSUME SessionInv, LedgerInv, Grows, NEW t \in Turns, HandleRequest(t)
  PROVE  SessionInv'
<1>1. UNCHANGED <<room, clientVars, workerVars, controls, packets>> /\ posts' \subseteq Turns
  BY DEF HandleRequest, Deliver, SessionInv, NetTypes
<1>2. CASE UNCHANGED answers
  BY <1>1, <1>2, AnswerSafe DEF Says, TurnStates
<1>3. CASE Answer(t, "error", "failed")
  BY <1>1, <1>3, AnswerSafe DEF Says, TurnStates
<1>4. CASE Replay(t) /\ Answer(t, "replayed", LatestStatus(t).state)
  <2>1. LatestStatus(t).state \in TurnStates /\ Says(LatestStatus(t).state, t)
    BY <1>4, LatestIsNews DEF Replay, Says
  <2> DEFINE s == LatestStatus(t).state
  <2>2. s \in TurnStates /\ (s = "completed" => t \in Done') /\ (s = "interrupted" => t \in Gone')
    BY <2>1 DEF Says, Grows
  <2>3. ASSUME NEW r \in TurnStates, r = s PROVE SessionInv'
    BY <1>1, <1>4, <2>2, <2>3, AnswerSafe DEF Says
  <2> QED
    BY <2>2, <2>3
<1> QED
  BY <1>2, <1>3, <1>4 DEF HandleRequest

LEMMA FinishTurnSafe ==
  ASSUME SessionInv, LedgerInv, Grows, NEW t \in Turns, FinishTurn(t)
  PROVE  SessionInv'
<1>1. UNCHANGED <<room, clientVars, workerVars, controls, packets>> /\ posts' \subseteq Turns
  BY DEF FinishTurn, SessionInv, NetTypes
<1>2. CASE CompleteTurn(t) /\ Answer(t, "done", "completed")
  BY <1>1, <1>2, AnswerSafe, CompleteNews DEF Says, TurnStates
<1>3. CASE Answer(t, "error", "failed")
  BY <1>1, <1>3, AnswerSafe DEF Says, TurnStates
<1> QED
  BY <1>2, <1>3 DEF FinishTurn

LEMMA CrashSafe ==
  ASSUME SessionInv, Grows, Crash
  PROVE  SessionInv'
<1> USE DEF SessionInv, Grows, clientVars, workerVars
<1>1. posts' = {} /\ answers' = {} /\ UNCHANGED <<room, clientVars, workerVars, controls, packets>>
  BY DEF Crash
<1>2. ClientTypes' /\ NetTypes' /\ Occupied'
  BY <1>1 DEF ClientTypes, NetTypes, Occupied
<1>3. Told' /\ Shown'
  BY <1>1 DEF Told, Says, PacketsTold, Shown
<1> QED
  BY <1>2, <1>3

\* A packet is on its way, or was dropped.
LEMMA NotifySafe ==
  ASSUME SessionInv, Grows, NEW t \in VoiceTurns,
         NEW state \in {"accepted", "response-ready", "completed", "interrupted"},
         Says(state, t)',
         Notify(t, state) \/ UNCHANGED packets
  PROVE  packets' \in Seq(PacketType)
         /\ PacketsTold'
<1> DEFINE p == [id |-> t, state |-> state]
<1>1. p \in PacketType /\ p.id = t /\ p.state = state
  BY DEF PacketType
<1>2. packets' = packets \/ packets' = Append(packets, p)
  BY DEF Notify
<1>3. packets \in Seq(PacketType) /\ \A i \in DOMAIN packets : Says(packets[i].state, packets[i].id)
  BY DEF SessionInv, NetTypes, Told, PacketsTold
<1> HIDE DEF p
<1>4. packets' \in Seq(PacketType)
  BY <1>1, <1>2, <1>3
<1>5. \A i \in DOMAIN packets' : (i \in DOMAIN packets /\ packets'[i] = packets[i]) \/ packets'[i] = p
  BY <1>1, <1>2, <1>3
<1> QED
  BY <1>1, <1>3, <1>4, <1>5 DEF Says, Grows, PacketsTold

LEMMA WorkerTurnSafe ==
  ASSUME SessionInv, Grows, NEW t \in VoiceTurns, BeginVoice(t) \/ VoiceAnswer(t)
  PROVE  SessionInv'
<1> USE TurnIdsAssumption DEF SessionInv, Grows, clientVars
<1>1. UNCHANGED <<room, clientVars, barge, controls>> /\ posts' \subseteq Turns /\ answers' \subseteq answers
  BY DEF BeginVoice, VoiceAnswer, NetTypes
<1>2. /\ voice' \in VoiceType /\ (voice'.phase # "idle" => voice'.id # None)
      /\ voice'.phase = "speaking" => voice'.id \in Done'
  <2>1. CASE BeginVoice(t)
    <3>1. voice' = [id |-> t, reason |-> None, phase |-> "calling", begun |-> voice.begun \cup {t}]
          /\ voice.begun \cup {t} \in SUBSET VoiceTurns /\ t # None
      BY <2>1 DEF BeginVoice, NetTypes, VoiceType
    <3> QED
      BY <3>1 DEF VoiceType
  <2>2. CASE VoiceAnswer(t)
    <3>1. PICK a \in answers :
            /\ a.id = t
            /\ \/ UNCHANGED voice
               \/ /\ voice.id = t
                  /\ voice' = [voice EXCEPT !.phase = IF a.kind = "done" THEN "speaking" ELSE "idle"]
      BY <2>2 DEF VoiceAnswer
    <3>2. a.kind = "done" => t \in Done
      BY <3>1 DEF Told, Says, PacketsTold
    <3> QED
      BY <3>1, <3>2 DEF NetTypes, VoiceType, Occupied, Told
  <2> QED
    BY <2>1, <2>2
<1>3. packets' \in Seq(PacketType) /\ PacketsTold'
  <2>1. CASE BeginVoice(t)
    BY <2>1, NotifySafe DEF BeginVoice, Says
  <2>2. CASE VoiceAnswer(t)
    BY <2>2, NotifySafe DEF VoiceAnswer, Says
  <2> QED
    BY <2>1, <2>2
<1>4. ClientTypes' /\ NetTypes' /\ Occupied'
  BY <1>1, <1>2, <1>3 DEF ClientTypes, NetTypes, Occupied
<1>5. Told'
  BY <1>1, <1>2, <1>3 DEF Told, Says, PacketsTold
<1>6. Shown'
  BY <1>1 DEF Shown
<1> QED
  BY <1>4, <1>5, <1>6

LEMMA VoicePauses ==
  ASSUME SessionInv, Grows, VoiceTimeout \/ VoiceSpoken
  PROVE  SessionInv'
<1> USE TurnIdsAssumption DEF SessionInv, Grows, clientVars, netVars
<1>1. UNCHANGED <<room, clientVars, barge, posts, answers, controls>>
      /\ voice' = [voice EXCEPT !.phase = "idle"]
  BY DEF VoiceTimeout, VoiceSpoken
<1>2. voice' \in VoiceType /\ voice'.phase = "idle"
  BY <1>1 DEF NetTypes, VoiceType
<1>3. packets' \in Seq(PacketType) /\ PacketsTold'
  <2>1. CASE VoiceTimeout
    BY <2>1 DEF VoiceTimeout, NetTypes, Told, Says, PacketsTold
  <2>2. CASE VoiceSpoken
    <3>1. voice.id \in VoiceTurns /\ voice.id \in Done /\ Notify(voice.id, "completed")
      BY <2>2 DEF VoiceSpoken, Occupied, Told, NetTypes, VoiceType
    <3> QED
      BY <3>1, NotifySafe DEF Says
  <2> QED
    BY <2>1, <2>2
<1>4. ClientTypes' /\ NetTypes' /\ Occupied'
  BY <1>1, <1>2, <1>3 DEF ClientTypes, NetTypes, Occupied
<1>5. Told' /\ Shown'
  BY <1>1, <1>2, <1>3 DEF Told, Says, PacketsTold, Shown
<1> QED
  BY <1>4, <1>5

LEMMA PipelineSafe ==
  ASSUME SessionInv, Grows, BargeIn \/ ControlArrives
  PROVE  SessionInv'
<1> USE TurnIdsAssumption DEF SessionInv, Grows, clientVars
<1>1. UNCHANGED <<room, clientVars, posts, answers, packets>> /\ controls' \subseteq controls
  BY DEF BargeIn, ControlArrives
<1>2. \/ UNCHANGED <<voice, barge>>
      \/ \E reason \in Reasons : InterruptPipeline(reason)
  BY DEF BargeIn, ControlArrives, NetTypes, ControlType
<1>3. /\ voice' \in VoiceType /\ barge' \subseteq BargeType
      /\ voice'.id = voice.id /\ voice'.phase \in {voice.phase, "idle"}
  <2>1. CASE UNCHANGED <<voice, barge>>
    BY <2>1 DEF NetTypes
  <2>2. ASSUME NEW reason \in Reasons, InterruptPipeline(reason)
        PROVE  /\ voice' \in VoiceType /\ barge' \subseteq BargeType
               /\ voice'.id = voice.id /\ voice'.phase = "idle"
    <3> DEFINE why == IF voice.reason = None THEN reason ELSE voice.reason
    <3>1. why \in Reasons /\ voice.id \in VoiceTurns
      BY <2>2 DEF InterruptPipeline, NetTypes, VoiceType
    <3>2. voice' = [voice EXCEPT !.reason = why, !.phase = "idle"]
      BY <2>2 DEF InterruptPipeline
    <3>3. PICK done \in {{}, {"provider"}} :
            barge' = barge \cup {[id |-> voice.id, reason |-> why, evidence |-> done]}
      BY <2>2 DEF InterruptPipeline
    <3> HIDE DEF why
    <3>4. done \in Evidence
      BY DEF Evidence
    <3>5. [id |-> voice.id, reason |-> why, evidence |-> done] \in BargeType
      BY <3>1, <3>4 DEF BargeType
    <3> QED
      BY <3>1, <3>2, <3>3, <3>5 DEF NetTypes, VoiceType
  <2> QED
    BY <1>2, <2>1, <2>2
<1>4. ClientTypes' /\ NetTypes' /\ Occupied'
  BY <1>1, <1>3 DEF ClientTypes, NetTypes, Occupied
<1>5. Told' /\ Shown'
  BY <1>1, <1>3 DEF Told, Says, PacketsTold, Shown
<1> QED
  BY <1>4, <1>5

LEMMA WorkerInterruptSafe ==
  ASSUME SessionInv, LedgerInv, Grows, WorkerInterrupt
  PROVE  SessionInv'
<1> USE TurnIdsAssumption DEF SessionInv, Grows, clientVars
<1>1. PICK b \in barge :
        /\ barge' = barge \ {b}
        /\ \/ InterruptTurn(b.id, b.reason, b.evidence) /\ Notify(b.id, "interrupted")
           \/ UNCHANGED packets
  BY DEF WorkerInterrupt
<1>2. UNCHANGED <<room, clientVars, voice, posts, answers, controls>>
  BY DEF WorkerInterrupt
<1>3. b.id \in VoiceTurns /\ b.id \in Turns /\ b.reason \in Reasons /\ b.evidence \in Evidence
  BY DEF NetTypes, BargeType
<1>4. packets' \in Seq(PacketType) /\ PacketsTold'
  <2>1. CASE UNCHANGED packets
    BY <2>1 DEF NetTypes, Told, Says, PacketsTold
  <2>2. CASE InterruptTurn(b.id, b.reason, b.evidence) /\ Notify(b.id, "interrupted")
    <3>1. b.id \in Gone'
      BY <1>3, <2>2, InterruptNews
    <3> QED
      BY <1>3, <2>2, <3>1, NotifySafe DEF Says
  <2> QED
    BY <1>1, <2>1, <2>2
<1>5. ClientTypes' /\ NetTypes' /\ Occupied'
  BY <1>1, <1>2, <1>4 DEF ClientTypes, NetTypes, Occupied
<1>6. Told' /\ Shown'
  BY <1>1, <1>2, <1>4 DEF Told, Says, PacketsTold, Shown
<1> QED
  BY <1>5, <1>6

-----------------------------------------------------------------------------
(* The theorems. *)

LEMMA SessionInit == Init => SessionInv
<1> SUFFICES ASSUME Init PROVE SessionInv
  OBVIOUS
<1> USE DEF Init
<1>1. coord \in CoordType /\ coord.delivery = "none"
  BY DEF NoActive, CoordType, Deliveries
<1>2. ui \in UiType /\ ui.delivery = "none"
  BY TurnNames DEF EmptyUi, UiType, Deliveries
<1>3. call \in CallType /\ halt \in HaltType /\ \A h \in Halters : halt[h].pc = "idle"
  BY DEF CallType, HaltType, IdleHalt
<1>4. speech \in SpeechType /\ speech.id = None
  BY NoSpeech
<1>5. voice \in VoiceType /\ voice.phase = "idle"
  BY DEF Quiet, VoiceType
<1>6. packets \in Seq(PacketType) /\ DOMAIN packets = {}
  OBVIOUS
<1>7. ClientTypes /\ NetTypes
  BY <1>1, <1>2, <1>3, <1>4, <1>5, <1>6 DEF ClientTypes, NetTypes
<1>8. Occupied /\ Told /\ Shown
  BY <1>1, <1>2, <1>3, <1>4, <1>5, <1>6 DEF Occupied, Told, PacketsTold, Shown
<1> QED
  BY <1>7, <1>8 DEF SessionInv

\* A step of the session is a step of the ledger, or leaves it alone.
LEMMA SessionStepsLedger ==
  ASSUME SessionInv, [Next]_vars
  PROVE  [GatewayNext]_gatewayVars
<1> USE TurnIdsAssumption DEF gatewayVars
<1>1. CASE UNCHANGED vars
  BY <1>1 DEF vars
<1>2. ASSUME NEW h \in Halters, PostInterrupt(h)
      PROVE  [GatewayNext]_gatewayVars
  <2>1. halt[h].id \in Turns /\ ReasonOf[h] \in Reasons /\ {"local"} \in Evidence
    BY <1>2 DEF PostInterrupt, SessionInv, Occupied, ClientTypes, HaltType, ReasonOf, Halters, Evidence
  <2>2. InterruptTurn(halt[h].id, ReasonOf[h], {"local"}) \/ UNCHANGED gatewayVars
    BY <1>2 DEF PostInterrupt
  <2> QED
    BY <2>1, <2>2 DEF GatewayNext
<1>3. ASSUME WorkerInterrupt
      PROVE  [GatewayNext]_gatewayVars
  <2>1. PICK b \in barge : InterruptTurn(b.id, b.reason, b.evidence) \/ UNCHANGED gatewayVars
    BY <1>3 DEF WorkerInterrupt
  <2>2. b.id \in Turns /\ b.reason \in Reasons /\ b.evidence \in Evidence
    BY DEF SessionInv, NetTypes, BargeType
  <2> QED
    BY <2>1, <2>2 DEF GatewayNext
<1>4. ASSUME NEW t \in Turns, HandleRequest(t) \/ FinishTurn(t)
      PROVE  [GatewayNext]_gatewayVars
  BY <1>4 DEF HandleRequest, FinishTurn, Replay, GatewayNext
<1>5. CASE Crash
  BY <1>5 DEF Crash, GatewayNext
<1>6. ASSUME NEW t \in TextTurns,
             SendText(t) \/ ReceiveAnswer(t) \/ LoseAnswer(t) \/ Lookup(t) \/ ReceiveStatus(t)
               \/ AcknowledgeSend(t)
      PROVE  UNCHANGED gatewayVars
  BY <1>6 DEF SendText, ReceiveAnswer, LoseAnswer, Lookup, ReceiveStatus, AcknowledgeSend
<1>7. ASSUME \/ SpeechStarts \/ SpeechEnds \/ ToggleMic \/ EndSession \/ ReceivePacket
             \/ \E h \in Halters : RequestInterrupt(h) \/ AcknowledgeStop(h)
      PROVE  UNCHANGED gatewayVars
  BY <1>7 DEF SpeechStarts, SpeechEnds, ToggleMic, EndSession, ReceivePacket, RequestInterrupt,
     AcknowledgeStop
<1>8. ASSUME \/ \E t \in VoiceTurns : BeginVoice(t) \/ VoiceAnswer(t)
             \/ VoiceTimeout \/ VoiceSpoken \/ BargeIn \/ ControlArrives
      PROVE  UNCHANGED gatewayVars
  BY <1>8 DEF BeginVoice, VoiceAnswer, VoiceTimeout, VoiceSpoken, BargeIn, ControlArrives
<1> QED
  BY <1>1, <1>2, <1>3, <1>4, <1>5, <1>6, <1>7, <1>8 DEF Next, ClientNext, GatewaySteps, WorkerNext

\* A step of the ledger takes no news back.
LEMMA NewsGrow ==
  ASSUME LedgerInv, [GatewayNext]_gatewayVars
  PROVE  Done \subseteq Done' /\ Gone \subseteq Gone'
<1>1. CASE UNCHANGED events
  BY <1>1, SameEventsSameNews
<1>2. CASE \E t \in Turns : CancelTurn(t)
  BY <1>2, SameEventsSameNews DEF CancelTurn
<1>3. CASE GatewayCrash
  BY <1>3, SameEventsSameNews DEF GatewayCrash
<1> QED
  BY <1>1, <1>2, <1>3, ClaimKeepsNews, CompleteNews, DiscardNews, FailNews, InterruptNews
  DEF GatewayNext, gatewayVars

\* What crossed stays crossed.
LEMMA StaysCrossed ==
  ASSUME [Next]_vars, crossed
  PROVE  crossed'
BY DEF Next, vars, ClientNext, GatewaySteps, WorkerNext, clientVars, SendText, ReceiveAnswer,
   LoseAnswer, Lookup, ReceiveStatus, AcknowledgeSend, SpeechStarts, SpeechEnds, ToggleMic,
   EndSession, ReceivePacket, RequestInterrupt, PostInterrupt, AcknowledgeStop, Crosses, Crash,
   HandleRequest, FinishTurn, BeginVoice, VoiceAnswer, VoiceTimeout, VoiceSpoken, BargeIn,
   ControlArrives, WorkerInterrupt

LEMMA SessionStep == SessionInv /\ LedgerInv /\ [Next]_vars => SessionInv' /\ LedgerInv'
<1> SUFFICES ASSUME SessionInv, LedgerInv, [Next]_vars PROVE SessionInv' /\ LedgerInv'
  OBVIOUS
<1>1. [GatewayNext]_gatewayVars
  BY SessionStepsLedger
<1>2. LedgerInv' /\ Grows
  BY <1>1, LedgerStep, NewsGrow, StaysCrossed DEF Grows
<1>3. CASE UNCHANGED vars
  <2>1. UNCHANGED <<room, open, mic, coord, ui, call, speech, halt, posts, answers, voice, barge,
                    controls, packets, crossed>>
    BY <1>3 DEF vars, clientVars, workerVars, netVars
  <2>2. (ClientTypes /\ NetTypes /\ Occupied)'
    BY <2>1 DEF SessionInv, ClientTypes, NetTypes, Occupied
  <2>3. (Told /\ Shown)'
    BY <1>2, <2>1 DEF SessionInv, Told, PacketsTold, Says, Shown, Grows
  <2> QED
    BY <1>2, <2>2, <2>3 DEF SessionInv
<1>4. CASE ClientNext
  BY <1>2, <1>4, SendTextSafe, ReceiveAnswerSafe, LoseAnswerSafe, LookupSafe, ReceiveStatusSafe,
     AcknowledgeSendSafe, SpeechSafe, ToggleMicSafe, EndSessionSafe, ReceivePacketSafe,
     RequestInterruptSafe, PostInterruptSafe, AcknowledgeStopSafe DEF ClientNext
<1>5. CASE GatewaySteps
  BY <1>2, <1>5, CrashSafe, HandleRequestSafe, FinishTurnSafe DEF GatewaySteps
<1>6. CASE WorkerNext
  BY <1>2, <1>6, WorkerTurnSafe, VoicePauses, PipelineSafe, WorkerInterruptSafe DEF WorkerNext
<1> QED
  BY <1>2, <1>3, <1>4, <1>5, <1>6 DEF Next

LEMMA SessionInvariant == Spec => [](SessionInv /\ LedgerInv)
<1>1. Init => SessionInv /\ LedgerInv
  BY SessionInit, LedgerInit DEF Init
<1>2. SessionInv /\ LedgerInv /\ [Next]_vars => (SessionInv /\ LedgerInv)'
  BY SessionStep
<1> QED
  BY <1>1, <1>2, PTL DEF Spec

\* Every reachable state of console, worker, wires and ledger is well typed.
THEOREM SessionTypeCorrect == Spec => []TypeOK
<1>1. SessionInv /\ LedgerInv => TypeOK
  BY TypesAreTypeOK DEF SessionInv, LedgerInv
<1> QED
  BY <1>1, SessionInvariant, PTL

\* To the ledger the session is one of the callers it allows for: what console,
\* worker and wires do to it are steps of its own specification.
THEOREM SessionUsesLedger == Spec => LedgerSpec
<1>1. Init => GatewayInit
  BY DEF Init
<1>2. SessionInv /\ [Next]_vars => [GatewayNext]_gatewayVars
  BY SessionStepsLedger
<1> QED
  BY <1>1, <1>2, SessionInvariant, PTL DEF Spec, LedgerSpec

\* With lost, delayed and repeated requests, restarts, Stop and barge-in, the
\* ledger tells one story of every turn (turns.py behind app.js and worker.py).
THEOREM SessionTellsOneStory == Spec => []OneStory
BY SessionUsesLedger, LedgerTellsOneStory, PTL

\* The console never shows a completion that is not recorded, nor, unless two
\* interruptions were under way at a time, an interruption that is not
\* (turn_generation.js, client_state.js and app.js against turns.py).
THEOREM ConsoleIsTruthful == Spec => []ClientTruthful
<1>1. SessionInv => ClientTruthful
  BY DEF SessionInv, Shown, ClientTruthful, Done, Gone
<1> QED
  BY <1>1, SessionInvariant, PTL

-----------------------------------------------------------------------------
(* The leases of a session (SensesAccess). *)

\* The steps of a request that carries a frame.
FrameSteps == {"frame", "stage", "think"}

\* What a request carries, by the step it stands at: a frame names a lease
\* that was granted, and once admitted to a session that is shut since, one
\* that is no longer active.
Sound(q) ==
    /\ "at" \in DOMAIN q
    /\ q.at = "touch" => "route" \in DOMAIN q /\ q.route \in Routes
    /\ q.at = "touch" /\ q.route \notin {"challenge", "session"} =>
          "session" \in DOMAIN q /\ q.session \in Sessions
    /\ (q.at = "touch" /\ q.route = "frame") \/ q.at \in FrameSteps =>
          /\ {"session", "frame"} \subseteq DOMAIN q
          /\ q.frame \in Frames /\ consent[q.frame[1]] # NoConsent
    /\ q.at \in {"stage", "think"} => frame[q.frame] # "none"
    /\ q.at = "frame" /\ q.session \in shut => ~BoundActiveConsent(q.frame[1], q.session)
    /\ q.at = "issue" =>
          /\ q.session \in Sessions
          /\ challenge[q.session].state = "used" /\ session[q.session] = "none"
    /\ q.at = "active" => q.session \in Sessions /\ session[q.session] # "none"

\* A session is issued once: its challenge is used up, by one request.
IssuedOnce ==
    /\ \A s \in Sessions : challenge[s].state # "used" => session[s] = "none"
    /\ \A r, u \in Requests :
          At(r, "issue") /\ At(u, "issue") /\ req[r].session = req[u].session => r = u

Leases ==
    /\ DOMAIN consent = Consents
    /\ \A k \in Consents :
          \/ consent[k] = NoConsent
          \/ /\ DOMAIN consent[k] = {"state", "mode", "session"}
             /\ consent[k].state \in ConsentStates

AccessShape ==
    /\ DOMAIN frame = Frames /\ file \subseteq Frames
    /\ session \in [Sessions -> {"none", "issued", "active", "closed"}]
    /\ DOMAIN challenge = Sessions /\ shut \subseteq Sessions
    /\ DOMAIN req = Requests
    /\ \A f \in file : frame[f] # "none"

AccessInv ==
    /\ AccessShape /\ Leases
    /\ \A s \in shut : session[s] = "closed"
    /\ IssuedOnce
    /\ \A r \in Requests : req[r] # Idle => Sound(req[r])

\* No lease is forgotten, and a lease that was granted is not made active again.
LeasesFade ==
    \A k \in Consents : consent[k] # NoConsent =>
        consent'[k] # NoConsent /\ \A s : BoundActiveConsent(k, s)' => BoundActiveConsent(k, s)

\* A session is shut only with its leases.
ShutWithLeases ==
    \A s \in shut' \ shut :
        /\ s \in Sessions /\ session[s] = "closed"
        /\ \A k \in Consents : consent[k] # NoConsent => ~BoundActiveConsent(k, s)'

FramesStay == \A f \in Frames : frame[f] # "none" => frame'[f] # "none"

\* What is sound stays sound while sessions are as they are.
LEMMA SoundStays ==
  ASSUME LeasesFade, FramesStay, ShutWithLeases, UNCHANGED <<session, challenge>>, NEW q, Sound(q)
  PROVE  Sound(q)'
<1>1. q.at \in FrameSteps => q.frame \in Frames /\ q.frame[1] \in Consents /\ consent[q.frame[1]] # NoConsent
  BY DEF Sound, Frames
<1>2. q.at = "touch" /\ q.route = "frame" =>
        q.frame \in Frames /\ q.frame[1] \in Consents /\ consent[q.frame[1]] # NoConsent
  BY DEF Sound, Frames
<1>3. (q.at = "touch" /\ q.route = "frame") \/ q.at \in FrameSteps => consent'[q.frame[1]] # NoConsent
  BY <1>1, <1>2 DEF LeasesFade
<1>4. q.at \in {"stage", "think"} => frame'[q.frame] # "none"
  BY <1>1 DEF Sound, FramesStay, FrameSteps
<1>5. q.at = "frame" /\ q.session \in shut' => ~BoundActiveConsent(q.frame[1], q.session)'
  BY <1>1 DEF Sound, LeasesFade, ShutWithLeases, FrameSteps
<1> QED
  BY <1>3, <1>4, <1>5 DEF Sound

\* A step that leaves sessions and challenges alone.
LEMMA StepKeeps ==
  ASSUME AccessInv, Leases', LeasesFade, FramesStay,
         DOMAIN frame' = Frames, file' \subseteq Frames, \A f \in file' : frame'[f] # "none",
         ShutWithLeases, UNCHANGED <<session, challenge>>,
         NEW q, q = Idle \/ (Sound(q)' /\ q.at # "issue"),
         DOMAIN req' = Requests,
         \A u \in Requests : req'[u] = req[u] \/ req'[u] = Idle \/ req'[u] = q
  PROVE  AccessInv'
<1>1. AccessShape' /\ \A s \in shut' : session'[s] = "closed"
  BY DEF AccessInv, AccessShape, ShutWithLeases
<1>2. ASSUME NEW u \in Requests, NEW p, p = req'[u], p # Idle
      PROVE  Sound(p)' /\ (p.at = "issue" => p = req[u])
  <2>1. CASE p = req[u]
    BY <1>2, <2>1, SoundStays DEF AccessInv
  <2>2. CASE p = q
    BY <1>2, <2>2
  <2> QED
    BY <1>2, <2>1, <2>2
<1>3. IssuedOnce'
  <2>1. \A s \in Sessions : challenge'[s].state # "used" => session'[s] = "none"
    BY DEF AccessInv, IssuedOnce
  <2>2. ASSUME NEW r \in Requests, NEW u \in Requests, At(r, "issue")', At(u, "issue")',
               req'[r].session = req'[u].session
        PROVE  r = u
    <3>1. req'[r] = req[r] /\ req'[u] = req[u] /\ At(r, "issue") /\ At(u, "issue")
      BY <1>2, <2>2 DEF At
    <3> QED
      BY <2>2, <3>1 DEF AccessInv, IssuedOnce
  <2> QED
    BY <2>1, <2>2 DEF IssuedOnce
<1>4. \A r \in Requests : req'[r] # Idle => Sound(req[r])'
  <2> SUFFICES ASSUME NEW r \in Requests, req'[r] # Idle PROVE Sound(req[r])'
    OBVIOUS
  <2>1. PICK p : p = req'[r]
    OBVIOUS
  <2>2. Sound(p)'
    BY <1>2, <2>1
  <2> QED
    BY <2>1, <2>2 DEF Sound, BoundActiveConsent, Active
<1> QED
  BY <1>1, <1>3, <1>4 DEF AccessInv

\* ... and consents and frames, too.
LEMMA MoveKeeps ==
  ASSUME AccessInv, UNCHANGED <<consent, frame, file, session, challenge, shut>>,
         NEW q, q = Idle \/ (Sound(q) /\ q.at # "issue"),
         DOMAIN req' = Requests,
         \A u \in Requests : req'[u] = req[u] \/ req'[u] = Idle \/ req'[u] = q
  PROVE  AccessInv'
<1>1. Leases' /\ LeasesFade /\ FramesStay /\ ShutWithLeases
  BY DEF AccessInv, Leases, LeasesFade, FramesStay, ShutWithLeases, BoundActiveConsent, Active
<1>2. Sound(q) => Sound(q)'
  BY <1>1, SoundStays
<1>3. DOMAIN frame' = Frames /\ file' \subseteq Frames /\ \A f \in file' : frame'[f] # "none"
  BY DEF AccessInv, AccessShape
<1> QED
  BY <1>1, <1>2, <1>3, StepKeeps

LEMMA RevokedFades ==
  ASSUME Leases, NEW ks, consent' = Revoked(ks)
  PROVE  Leases' /\ LeasesFade /\ \A k \in ks \cap Consents : ~Active(k)'
<1>1. /\ DOMAIN consent' = Consents
      /\ \A k \in Consents :
            \/ consent'[k] = consent[k] /\ (k \in ks => consent[k].state # "active")
            \/ consent[k].state = "active" /\ consent'[k] = [consent[k] EXCEPT !.state = "revoked"]
  BY DEF Revoked, Active
<1>2. ASSUME NEW k \in Consents
      PROVE  /\ \/ consent'[k] = NoConsent
                \/ /\ DOMAIN consent'[k] = {"state", "mode", "session"}
                   /\ consent'[k].state \in ConsentStates
             /\ consent[k] # NoConsent =>
                   consent'[k] # NoConsent /\ \A s : BoundActiveConsent(k, s)' => BoundActiveConsent(k, s)
             /\ k \in ks => ~Active(k)'
  <2>1. CASE consent'[k] = consent[k] /\ (k \in ks => consent[k].state # "active")
    BY <2>1 DEF Leases, BoundActiveConsent, Active
  <2>2. CASE consent[k].state = "active" /\ consent'[k] = [consent[k] EXCEPT !.state = "revoked"]
    <3>1. consent[k] # NoConsent
      BY <2>2 DEF NoConsent
    <3>2. DOMAIN consent[k] = {"state", "mode", "session"}
      BY <3>1 DEF Leases
    <3>3. DOMAIN consent'[k] = {"state", "mode", "session"} /\ consent'[k].state = "revoked"
      BY <2>2, <3>2
    <3>4. consent'[k] # NoConsent
      BY <3>3 DEF NoConsent
    <3> QED
      BY <3>3, <3>4 DEF BoundActiveConsent, Active, ConsentStates
  <2> QED
    BY <1>1, <2>1, <2>2
<1> QED
  BY <1>1, <1>2 DEF Leases, LeasesFade

LEMMA ExpiredFades ==
  ASSUME Leases, NEW k \in Consents, ExpireIfNeeded(k)
  PROVE  Leases' /\ LeasesFade
<1>1. /\ consent[k].state = "active" /\ DOMAIN consent' = Consents
      /\ \A j \in Consents :
            consent'[j] = IF j = k THEN [consent[k] EXCEPT !.state = "expired"] ELSE consent[j]
  BY DEF ExpireIfNeeded, Active, Leases
<1>2. DOMAIN consent[k] = {"state", "mode", "session"}
  BY <1>1 DEF Leases, NoConsent
<1>3. DOMAIN consent'[k] = {"state", "mode", "session"} /\ consent'[k].state = "expired"
  BY <1>1, <1>2
<1>4. consent'[k] # NoConsent
  BY <1>3 DEF NoConsent
<1> QED
  BY <1>1, <1>3, <1>4 DEF Leases, LeasesFade, BoundActiveConsent, Active, ConsentStates

\* A new lease takes the place of none, the others fade.
LEMMA GrantFades ==
  ASSUME Leases, NEW k \in Consents, NEW s, NEW mode, GrantConsent(k, s, mode)
  PROVE  Leases' /\ LeasesFade
<1>1. PICK other : other = Revoked(SessionConsents(s))
  OBVIOUS
<1>2. consent[k] = NoConsent
  BY VisionAssumption DEF GrantConsent
<1>3. consent' = [other EXCEPT ![k] = [state |-> "active", mode |-> mode, session |-> s]]
  BY <1>1 DEF GrantConsent
<1>4. DOMAIN other = Consents
  BY <1>1 DEF Revoked
<1>5. ASSUME NEW j \in Consents, j # k
      PROVE  /\ \/ consent'[j] = NoConsent
                \/ /\ DOMAIN consent'[j] = {"state", "mode", "session"}
                   /\ consent'[j].state \in ConsentStates
             /\ consent[j] # NoConsent =>
                   consent'[j] # NoConsent /\ \A u : BoundActiveConsent(j, u)' => BoundActiveConsent(j, u)
  <2>1. consent'[j] = other[j]
    BY <1>3, <1>4, <1>5
  <2>2. \/ consent'[j] = consent[j]
        \/ consent[j].state = "active" /\ consent'[j] = [consent[j] EXCEPT !.state = "revoked"]
    BY <1>1, <2>1 DEF Revoked, Active
  <2>3. CASE consent'[j] = consent[j]
    BY <2>3 DEF Leases, BoundActiveConsent, Active
  <2>4. CASE consent[j].state = "active" /\ consent'[j] = [consent[j] EXCEPT !.state = "revoked"]
    <3>1. consent[j] # NoConsent
      BY <2>4 DEF NoConsent
    <3>2. DOMAIN consent[j] = {"state", "mode", "session"}
      BY <3>1 DEF Leases
    <3>3. DOMAIN consent'[j] = {"state", "mode", "session"} /\ consent'[j].state = "revoked"
      BY <2>4, <3>2
    <3>4. consent'[j] # NoConsent
      BY <3>3 DEF NoConsent
    <3> QED
      BY <3>3, <3>4 DEF BoundActiveConsent, Active, ConsentStates
  <2> QED
    BY <2>2, <2>3, <2>4
<1>6. DOMAIN consent' = Consents /\ consent'[k] = [state |-> "active", mode |-> mode, session |-> s]
  BY <1>3, <1>4
<1>7. DOMAIN consent'[k] = {"state", "mode", "session"} /\ consent'[k].state \in ConsentStates
  BY <1>6 DEF ConsentStates
<1> QED
  BY <1>2, <1>5, <1>6, <1>7 DEF Leases, LeasesFade

\* A request that goes on keeps what it carries.
LEMMA Goes ==
  ASSUME AccessInv, NEW r \in Requests, req[r] # Idle, NEW x, GoTo(r, x)
  PROVE  \E q : /\ req' = [req EXCEPT ![r] = q]
               /\ DOMAIN q = DOMAIN req[r] /\ q.at = x
               /\ \A fld \in DOMAIN q : fld # "at" => q[fld] = req[r][fld]
<1>1. PICK p : p = req[r]
  OBVIOUS
<1>2. Sound(p)
  BY <1>1 DEF AccessInv
<1>3. "at" \in DOMAIN p
  BY <1>2 DEF Sound
<1> DEFINE q == [p EXCEPT !.at = x]
<1>4. req' = [req EXCEPT ![r] = q]
  BY <1>1 DEF GoTo
<1>5. DOMAIN q = DOMAIN p /\ q.at = x /\ \A fld \in DOMAIN q : fld # "at" => q[fld] = p[fld]
  BY <1>3
<1> QED
  BY <1>1, <1>4, <1>5

LEMMA ReqUpdated ==
  ASSUME AccessInv, NEW r \in Requests, NEW q, req' = [req EXCEPT ![r] = q]
  PROVE  DOMAIN req' = Requests /\ req'[r] = q /\ \A u \in Requests : u # r => req'[u] = req[u]
BY DEF AccessInv, AccessShape

Untouched == UNCHANGED <<consent, frame, file, session, challenge, shut>>

LEMMA AnswerKeeps ==
  ASSUME AccessInv, Untouched, NEW r \in Requests, Answered(r)
  PROVE  AccessInv'
<1>1. DOMAIN req' = Requests /\ \A u \in Requests : req'[u] = req[u] \/ req'[u] = Idle
  BY DEF Answered, AccessInv, AccessShape
<1> QED
  BY <1>1, MoveKeeps DEF Untouched

LEMMA BeginsKeep ==
  ASSUME AccessInv, Untouched, NEW r \in Requests, NEW q, req' = [req EXCEPT ![r] = q], Sound(q), q.at # "issue"
  PROVE  AccessInv'
<1>1. DOMAIN req' = Requests /\ \A u \in Requests : req'[u] = req[u] \/ req'[u] = q
  BY ReqUpdated
<1> QED
  BY <1>1, MoveKeeps DEF Untouched

\* Pairings, devices, bindings and grants: requests begin, go on and end.
QuietStep(r) ==
    \/ (\E p \in Pairings : RevokeDevice(r, p) \/ BeginExchange(r, p))
    \/ (\E p \in Pairings : \E route \in {"challenge", "session"} : BeginDeviceRoute(r, p, route))
    \/ (\E s \in Sessions : \E route \in {"active", "close", "consent", "stop"} : BeginSessionRoute(r, s, route))
    \/ (\E s \in Sessions : \E f \in Frames : BeginFrame(r, s, f))
    \/ FinishExchange(r) \/ TouchDevice(r) \/ DeviceExpired(r) \/ Admit(r) \/ BindingExpired(r)
    \/ BindSession(r) \/ Refuse(r) \/ MarkBindingActive(r)
    \/ CloseGrant(r) \/ CloseBinding(r) \/ RevokeBinding(r) \/ RevokeSessionNext(r)

LEMMA QuietKeeps ==
  ASSUME AccessInv, NEW r \in Requests, QuietStep(r)
  PROVE  AccessInv'
<1>1. Untouched
  BY DEF QuietStep, RevokeDevice, BeginExchange, BeginDeviceRoute, BeginSessionRoute, BeginFrame,
         FinishExchange, TouchDevice, DeviceExpired, Admit, BindingExpired, BindSession, Refuse,
         MarkBindingActive, CloseGrant, CloseBinding, RevokeBinding, RevokeSessionNext,
         Untouched, visionVars, accessVars
<1>2. CASE Answered(r)
  BY <1>1, <1>2, AnswerKeeps
<1>3. ASSUME NEW q, req' = [req EXCEPT ![r] = q], Sound(q), q.at # "issue" PROVE AccessInv'
  BY <1>1, <1>3, BeginsKeep
<1>4. ASSUME NEW x, req[r] # Idle, GoTo(r, x), x \notin FrameSteps \cup {"touch", "issue", "active"}
      PROVE  AccessInv'
  <2>1. PICK q : req' = [req EXCEPT ![r] = q] /\ q.at = x /\ DOMAIN q = DOMAIN req[r]
    BY <1>4, Goes
  <2>2. "at" \in DOMAIN q
    BY <1>4, <2>1 DEF AccessInv, Sound
  <2> QED
    BY <1>3, <1>4, <2>1, <2>2 DEF Sound, FrameSteps
<1>5. ASSUME NEW p \in Pairings, RevokeDevice(r, p) PROVE AccessInv'
  <2>1. PICK bound : req' = [req EXCEPT ![r] = [at |-> "revoke", closed |-> {}, bound |-> bound]]
    BY <1>5 DEF RevokeDevice
  <2> DEFINE q == [at |-> "revoke", closed |-> {}, bound |-> bound]
  <2>2. Sound(q) /\ q.at # "issue"
    BY DEF Sound, FrameSteps
  <2> HIDE DEF q
  <2> QED
    BY <1>3, <2>1, <2>2 DEF q
<1>6. ASSUME NEW p \in Pairings, BeginExchange(r, p) PROVE AccessInv'
  <2> DEFINE q == [at |-> "exchange", pairing |-> p]
  <2>1. Sound(q) /\ q.at # "issue"
    BY DEF Sound, FrameSteps
  <2>2. req' = [req EXCEPT ![r] = q]
    BY <1>6 DEF BeginExchange
  <2> HIDE DEF q
  <2> QED
    BY <1>3, <2>1, <2>2
<1>7. ASSUME NEW p \in Pairings, NEW route \in {"challenge", "session"}, BeginDeviceRoute(r, p, route)
      PROVE  AccessInv'
  <2> DEFINE q == [at |-> "touch", route |-> route, device |-> p]
  <2>1. Sound(q) /\ q.at # "issue"
    BY <1>7 DEF Sound, FrameSteps, Routes
  <2>2. req' = [req EXCEPT ![r] = q]
    BY <1>7 DEF BeginDeviceRoute
  <2> HIDE DEF q
  <2> QED
    BY <1>3, <2>1, <2>2
<1>8. ASSUME NEW s \in Sessions, NEW route \in {"active", "close", "consent", "stop"}, BeginSessionRoute(r, s, route)
      PROVE  AccessInv'
  <2>1. PICK dev, read :
          req' = [req EXCEPT ![r] = [at |-> "touch", route |-> route, session |-> s, device |-> dev, read |-> read]]
    BY <1>8 DEF BeginSessionRoute
  <2> DEFINE q == [at |-> "touch", route |-> route, session |-> s, device |-> dev, read |-> read]
  <2>2. Sound(q) /\ q.at # "issue"
    BY <1>8 DEF Sound, FrameSteps, Routes
  <2> HIDE DEF q
  <2> QED
    BY <1>3, <2>1, <2>2 DEF q
<1>9. ASSUME NEW s \in Sessions, NEW f \in Frames, BeginFrame(r, s, f) PROVE AccessInv'
  <2>1. PICK dev, read :
          req' = [req EXCEPT ![r] = [at |-> "touch", route |-> "frame", session |-> s, frame |-> f,
                                     device |-> dev, read |-> read]]
    BY <1>9 DEF BeginFrame
  <2>2. consent[f[1]] # NoConsent
    BY <1>9 DEF BeginFrame, SessionConsents
  <2> DEFINE q == [at |-> "touch", route |-> "frame", session |-> s, frame |-> f,
                   device |-> dev, read |-> read]
  <2>3. Sound(q) /\ q.at # "issue"
    BY <1>9, <2>2 DEF Sound, FrameSteps, Routes
  <2> HIDE DEF q
  <2> QED
    BY <1>3, <2>1, <2>3 DEF q
<1>10. CASE TouchDevice(r)
  <2>1. req[r] # Idle /\ GoTo(r, req[r].route) /\ req[r].route \in {"challenge", "session"}
    BY <1>10 DEF TouchDevice, At
  <2> QED
    BY <1>4, <2>1 DEF FrameSteps
<1>11. CASE Admit(r) /\ ~Answered(r)
  <2>1. PICK p : p = req[r]
    OBVIOUS
  <2>2. /\ p # Idle /\ p.at = "touch" /\ p.route \notin {"challenge", "session"}
        /\ Open(p.session) /\ GoTo(r, p.route)
    BY <1>11, <2>1 DEF Admit, At
  <2>3. Sound(p)
    BY <2>1, <2>2 DEF AccessInv
  <2>4. PICK q : /\ req' = [req EXCEPT ![r] = q]
                 /\ DOMAIN q = DOMAIN p /\ q.at = p.route
                 /\ \A fld \in DOMAIN q : fld # "at" => q[fld] = p[fld]
    BY <2>1, <2>2, Goes
  <2>5. /\ "at" \in DOMAIN q /\ q.at \in {"active", "close", "consent", "stop", "frame"}
        /\ p.session \in Sessions /\ q.session = p.session
    BY <2>2, <2>3, <2>4 DEF Sound, Routes
  <2>6. session[q.session] # "none" /\ q.session \notin shut
    BY <2>2, <2>5 DEF Open, AccessInv
  <2>7. q.at = "frame" => /\ {"session", "frame"} \subseteq DOMAIN q
                          /\ q.frame \in Frames /\ consent[q.frame[1]] # NoConsent
    <3> SUFFICES ASSUME q.at = "frame"
                 PROVE  /\ {"session", "frame"} \subseteq DOMAIN q
                        /\ q.frame \in Frames /\ consent[q.frame[1]] # NoConsent
      OBVIOUS
    <3>1. /\ {"session", "frame"} \subseteq DOMAIN p
          /\ p.frame \in Frames /\ consent[p.frame[1]] # NoConsent
      BY <2>2, <2>3, <2>4 DEF Sound
    <3>2. q.frame = p.frame
      BY <2>4, <3>1
    <3> QED
      BY <2>4, <3>1, <3>2
  <2>8. Sound(q) /\ q.at # "issue"
    BY <2>5, <2>6, <2>7 DEF Sound, FrameSteps
  <2> QED
    BY <1>3, <2>4, <2>8
<1>12. CASE CloseGrant(r)
  BY <1>4, <1>12 DEF CloseGrant, AfterClose, At, FrameSteps
<1>13. CASE RevokeBinding(r)
  <2>1. PICK p : p = req[r]
    OBVIOUS
  <2>2. PICK bound, closed, less :
          /\ less = [req EXCEPT ![r] = [p EXCEPT !.bound = bound]]
          /\ req' = [less EXCEPT ![r] = [less[r] EXCEPT !.closed = closed]]
    BY <1>13, <2>1, Zenon DEF RevokeBinding
  <2>3. "at" \in DOMAIN p /\ p.at = "revoke"
    BY <1>13, <2>1 DEF AccessInv, Sound, RevokeBinding, At
  <2> DEFINE q == [[p EXCEPT !.bound = bound] EXCEPT !.closed = closed]
  <2>4. "at" \in DOMAIN q /\ q.at = "revoke"
    BY <2>3
  <2>5. less[r] = [p EXCEPT !.bound = bound]
    BY <2>2 DEF AccessInv, AccessShape
  <2>6. DOMAIN req' = Requests /\ \A u \in Requests : req'[u] = req[u] \/ req'[u] = q
    BY <2>2, <2>5 DEF AccessInv, AccessShape
  <2> HIDE DEF q
  <2>7. Sound(q)
    BY <2>4 DEF Sound, FrameSteps
  <2> QED
    BY <1>1, <2>4, <2>6, <2>7, MoveKeeps DEF Untouched
<1>14. CASE RevokeSessionNext(r) /\ ~Answered(r)
  <2>1. PICK s, closed :
          req' = [req EXCEPT ![r] = [at |-> "close", session |-> s, bound |-> {}, closed |-> closed]]
    BY <1>14 DEF RevokeSessionNext
  <2> DEFINE q == [at |-> "close", session |-> s, bound |-> {}, closed |-> closed]
  <2>2. Sound(q) /\ q.at # "issue"
    BY DEF Sound, FrameSteps
  <2> HIDE DEF q
  <2> QED
    BY <1>3, <2>1, <2>2 DEF q
<1>15. CASE FinishExchange(r) \/ DeviceExpired(r) \/ BindingExpired(r) \/ BindSession(r) \/ Refuse(r)
            \/ MarkBindingActive(r) \/ CloseBinding(r)
  <2>1. Answered(r)
    BY <1>15 DEF FinishExchange, DeviceExpired, BindingExpired, BindSession, Refuse,
                 MarkBindingActive, CloseBinding
  <2> QED
    BY <1>2, <2>1
<1> QED
  BY <1>2, <1>5, <1>6, <1>7, <1>8, <1>9, <1>10, <1>11, <1>12, <1>13, <1>14, <1>15 DEF QuietStep

\* A session changes, on behalf of a request.
LEMMA SessionStepKeeps ==
  ASSUME AccessInv, UNCHANGED <<consent, frame, file, challenge>>, NEW r \in Requests, NEW s \in Sessions,
         NEW state \in {"issued", "active", "closed"}, session' = [session EXCEPT ![s] = state],
         challenge[s].state = "used",
         \A u \in Requests : u # r /\ At(u, "issue") => req[u].session # s,
         shut' \subseteq shut, s \in shut' => state = "closed",
         NEW q, req' = [req EXCEPT ![r] = q], q = Idle \/ (Sound(q)' /\ q.at # "issue")
  PROVE  AccessInv'
<1>1. /\ DOMAIN session' = Sessions /\ session'[s] = state
      /\ \A t \in Sessions : t # s => session'[t] = session[t]
  BY DEF AccessInv, AccessShape
<1>2. DOMAIN req' = Requests /\ req'[r] = q /\ \A u \in Requests : u # r => req'[u] = req[u]
  BY DEF AccessInv, AccessShape
<1>3. AccessShape' /\ Leases' /\ \A t \in shut' : session'[t] = "closed"
  BY <1>1, <1>2 DEF AccessInv, AccessShape, Leases
<1>4. ASSUME NEW u \in Requests, u # r, NEW p, p = req[u], p # Idle PROVE Sound(p)'
  <2>1. Sound(p)
    BY <1>4 DEF AccessInv
  <2>2. p.at = "issue" => p.session # s
    BY <1>4 DEF At
  <2>3. p.at = "issue" => session'[p.session] = "none"
    BY <1>1, <2>1, <2>2 DEF Sound
  <2>4. p.at = "active" => p.session \in Sessions /\ session'[p.session] # "none"
    BY <1>1, <2>1 DEF Sound
  <2>5. p.at = "frame" /\ p.session \in shut' => ~BoundActiveConsent(p.frame[1], p.session)'
    BY <2>1 DEF Sound, BoundActiveConsent, Active
  <2> QED
    BY <2>1, <2>3, <2>4, <2>5 DEF Sound
<1>5. ASSUME NEW u \in Requests, NEW p, p = req'[u], p # Idle PROVE Sound(p)' /\ (u = r => p.at # "issue")
  BY <1>2, <1>4, <1>5
<1>6. IssuedOnce'
  <2>1. \A t \in Sessions : challenge'[t].state # "used" => session'[t] = "none"
    BY <1>1 DEF AccessInv, IssuedOnce
  <2>2. ASSUME NEW v \in Requests, NEW u \in Requests, At(v, "issue")', At(u, "issue")',
               req'[v].session = req'[u].session
        PROVE  v = u
    <3>1. v # r /\ u # r
      BY <1>5, <2>2 DEF At
    <3>2. At(v, "issue") /\ At(u, "issue") /\ req[v].session = req[u].session
      BY <1>2, <2>2, <3>1 DEF At
    <3> QED
      BY <3>2 DEF AccessInv, IssuedOnce
  <2> QED
    BY <2>1, <2>2 DEF IssuedOnce
<1>7. \A u \in Requests : req'[u] # Idle => Sound(req[u])'
  <2> SUFFICES ASSUME NEW u \in Requests, req'[u] # Idle PROVE Sound(req[u])'
    OBVIOUS
  <2>1. PICK p : p = req'[u]
    OBVIOUS
  <2>2. Sound(p)'
    BY <1>5, <2>1
  <2> QED
    BY <2>1, <2>2 DEF Sound, BoundActiveConsent, Active
<1> QED
  BY <1>3, <1>6, <1>7 DEF AccessInv

\* Issue, activation and close.
LEMMA SessionKeeps ==
  ASSUME AccessInv, NEW r \in Requests, IssueSession(r) \/ MarkActive(r) \/ CloseSession(r)
  PROVE  AccessInv'
<1>1. PICK p, s : p = req[r] /\ s = p.session
  OBVIOUS
<1>2. /\ p # Idle /\ UNCHANGED <<consent, frame, file, challenge>>
      /\ p.at \in {"issue", "active", "close"}
  BY <1>1 DEF IssueSession, MarkActive, CloseSession, At, visionVars
<1>3. Sound(p) /\ "at" \in DOMAIN p
  BY <1>1, <1>2 DEF AccessInv, Sound
<1>4. ASSUME s \in Sessions, session[s] # "none"
      PROVE  challenge[s].state = "used" /\ \A u \in Requests : At(u, "issue") => req[u].session # s
  BY <1>4 DEF AccessInv, IssuedOnce, At, Sound
<1>5. ASSUME NEW x, GoTo(r, x), x \notin FrameSteps \cup {"touch", "issue", "active"}
      PROVE  \E q : req' = [req EXCEPT ![r] = q] /\ Sound(q)' /\ Sound(q) /\ q.at # "issue"
  <2>1. PICK q : req' = [req EXCEPT ![r] = q] /\ DOMAIN q = DOMAIN p /\ q.at = x
    BY <1>1, <1>2, <1>5, Goes
  <2>2. Sound(q)' /\ Sound(q) /\ q.at # "issue"
    BY <1>3, <1>5, <2>1 DEF Sound, FrameSteps
  <2> QED
    BY <2>1, <2>2
<1>6. CASE IssueSession(r)
  <2>1. /\ p.at = "issue" /\ session' = [session EXCEPT ![s] = "issued"] /\ GoTo(r, "bind")
        /\ UNCHANGED shut
    BY <1>1, <1>6 DEF IssueSession, At
  <2>2. s \in Sessions /\ challenge[s].state = "used" /\ s \notin shut
    BY <1>1, <1>3, <2>1 DEF Sound, AccessInv
  <2>3. \A u \in Requests : u # r /\ At(u, "issue") => req[u].session # s
    BY <1>1, <1>2, <2>1 DEF AccessInv, IssuedOnce, At
  <2>4. PICK q : req' = [req EXCEPT ![r] = q] /\ Sound(q)' /\ q.at # "issue"
    BY <1>5, <2>1 DEF FrameSteps
  <2> QED
    BY <1>2, <2>1, <2>2, <2>3, <2>4, SessionStepKeeps
<1>7. CASE MarkActive(r)
  <2>1. /\ p.at = "active" /\ session' = [session EXCEPT ![s] = "active"] /\ GoTo(r, "bind active")
        /\ shut' = shut \ {s}
    BY <1>1, <1>7 DEF MarkActive, At
  <2>2. s \in Sessions /\ session[s] # "none"
    BY <1>1, <1>3, <2>1 DEF Sound
  <2>3. PICK q : req' = [req EXCEPT ![r] = q] /\ Sound(q)' /\ q.at # "issue"
    BY <1>5, <2>1 DEF FrameSteps
  <2> QED
    BY <1>2, <1>4, <2>1, <2>2, <2>3, SessionStepKeeps
<1>8. CASE CloseSession(r)
  <2>1. /\ UNCHANGED shut
        /\ \/ Open(s) /\ session' = [session EXCEPT ![s] = "closed"] /\ GoTo(r, "close consents")
           \/ GoTo(r, AfterClose(r)) /\ UNCHANGED session
    BY <1>1, <1>8 DEF CloseSession
  <2>2. ASSUME GoTo(r, AfterClose(r)), UNCHANGED session PROVE AccessInv'
    <3>1. PICK q : req' = [req EXCEPT ![r] = q] /\ Sound(q) /\ q.at # "issue"
      BY <1>5, <2>2 DEF FrameSteps, AfterClose
    <3> QED
      BY <1>2, <2>1, <2>2, <3>1, BeginsKeep DEF Untouched
  <2>3. ASSUME Open(s), session' = [session EXCEPT ![s] = "closed"], GoTo(r, "close consents")
        PROVE  AccessInv'
    <3>1. PICK q : req' = [req EXCEPT ![r] = q] /\ Sound(q)' /\ Sound(q) /\ q.at # "issue"
      BY <1>5, <2>3 DEF FrameSteps
    <3>2. CASE s \in Sessions
      <4>1. session[s] # "none"
        BY <2>3 DEF Open
      <4> QED
        BY <1>2, <1>4, <2>1, <2>3, <3>1, <3>2, <4>1, SessionStepKeeps
    <3>3. CASE s \notin Sessions
      <4>1. UNCHANGED session
        BY <2>3, <3>3 DEF AccessInv, AccessShape
      <4> QED
        BY <1>2, <2>1, <3>1, <4>1, BeginsKeep DEF Untouched
    <3> QED
      BY <3>2, <3>3
  <2> QED
    BY <2>1, <2>2, <2>3
<1> QED
  BY <1>6, <1>7, <1>8

\* A session is shut with its leases.
LEMMA CloseConsentsKeeps ==
  ASSUME AccessInv, NEW r \in Requests, CloseConsents(r)
  PROVE  AccessInv'
<1>1. PICK s : s = req[r].session
  OBVIOUS
<1>2. /\ req[r] # Idle /\ consent' = Revoked(SessionConsents(s)) /\ GoTo(r, "close grant")
      /\ shut' = shut \cup ({s} \cap {t \in Sessions : session[t] = "closed"})
      /\ UNCHANGED <<frame, file, session, challenge>>
  BY <1>1 DEF CloseConsents, RevokeSession, At, accessVars
<1>3. Leases' /\ LeasesFade /\ \A k \in SessionConsents(s) \cap Consents : ~Active(k)'
  BY <1>2, RevokedFades DEF AccessInv
<1>4. ShutWithLeases
  <2>1. ASSUME NEW k \in Consents, consent[k] # NoConsent PROVE ~BoundActiveConsent(k, s)'
    BY <1>3, <2>1 DEF LeasesFade, SessionConsents, BoundActiveConsent
  <2> QED
    BY <1>2, <2>1 DEF ShutWithLeases
<1>5. FramesStay /\ DOMAIN frame' = Frames /\ file' \subseteq Frames /\ \A f \in file' : frame'[f] # "none"
  BY <1>2 DEF AccessInv, AccessShape, FramesStay
<1>6. ASSUME NEW x, req[r] # Idle, GoTo(r, x), x \notin FrameSteps \cup {"touch", "issue", "active"}
      PROVE  AccessInv'
  <2>1. PICK q : req' = [req EXCEPT ![r] = q] /\ DOMAIN q = DOMAIN req[r] /\ q.at = x
    BY <1>6, Goes
  <2>2. "at" \in DOMAIN q
    BY <1>6, <2>1 DEF AccessInv, Sound
  <2>3. Sound(q)' /\ q.at # "issue"
    BY <1>6, <2>1, <2>2 DEF Sound, FrameSteps
  <2>4. DOMAIN req' = Requests /\ \A u \in Requests : req'[u] = req[u] \/ req'[u] = q
    BY <2>1, ReqUpdated
  <2> QED
    BY <1>2, <1>3, <1>4, <1>5, <2>3, <2>4, StepKeeps
<1> QED
  BY <1>2, <1>6 DEF FrameSteps

\* Leases are granted, stopped and expire.
LEMMA LeaseStepsKeep ==
  ASSUME AccessInv, UNCHANGED <<frame, file, session, challenge, shut>>, Leases', LeasesFade,
         DOMAIN req' = Requests, \A u \in Requests : req'[u] = req[u] \/ req'[u] = Idle
  PROVE  AccessInv'
<1>1. FramesStay /\ DOMAIN frame' = Frames /\ file' \subseteq Frames /\ \A f \in file' : frame'[f] # "none"
  BY DEF AccessInv, AccessShape, FramesStay
<1>2. ShutWithLeases
  BY DEF ShutWithLeases
<1> QED
  BY <1>1, <1>2, StepKeeps

LEMMA LeasesKeep ==
  ASSUME AccessInv,
         \/ \E r \in Requests : VisionConsent(r)
         \/ \E k \in Consents : LeaseExpires(k)
  PROVE  AccessInv'
<1>1. ASSUME NEW r \in Requests, VisionConsent(r) PROVE AccessInv'
  <2>1. Answered(r) /\ UNCHANGED <<frame, file, session, challenge, shut>>
    BY <1>1 DEF VisionConsent, RouteConsent, RouteStop, GrantConsent, RevokeConsent, accessVars
  <2>2. DOMAIN req' = Requests /\ \A u \in Requests : req'[u] = req[u] \/ req'[u] = Idle
    BY <2>1 DEF Answered, AccessInv, AccessShape
  <2>3. Leases' /\ LeasesFade
    <3>1. CASE RouteConsent(r)
      <4>1. PICK k \in Consents, mode \in Modes : GrantConsent(k, req[r].session, mode)
        BY <3>1 DEF RouteConsent
      <4> QED
        BY <4>1, GrantFades DEF AccessInv
    <3>2. CASE RouteStop(r)
      <4>1. PICK k : consent' = Revoked({k})
        BY <3>2 DEF RouteStop, RevokeConsent
      <4> QED
        BY <4>1, RevokedFades DEF AccessInv
    <3> QED
      BY <1>1, <3>1, <3>2 DEF VisionConsent
  <2> QED
    BY <2>1, <2>2, <2>3, LeaseStepsKeep
<1>2. ASSUME NEW k \in Consents, LeaseExpires(k) PROVE AccessInv'
  <2>1. UNCHANGED <<frame, file, session, challenge, shut, req>> /\ ExpireIfNeeded(k)
    BY <1>2 DEF LeaseExpires, ExpireIfNeeded, accessVars
  <2>2. Leases' /\ LeasesFade
    BY <2>1, ExpiredFades DEF AccessInv
  <2> QED
    BY <2>1, <2>2, LeaseStepsKeep DEF AccessInv, AccessShape
<1> QED
  BY <1>1, <1>2

\* Frames: of one that was accepted another outcome is recorded, its file
\* comes and goes, and its request goes on or ends.
LEMMA FrameStepKeeps ==
  ASSUME AccessInv, UNCHANGED <<consent, session, challenge, shut>>,
         NEW g \in Frames, frame[g] # "none", NEW state, state # "none",
         frame' = frame \/ frame' = [frame EXCEPT ![g] = IF @ \in ProvenDeletionStates THEN @ ELSE state],
         file' \subseteq file \cup {g},
         NEW r \in Requests, NEW q, q = Idle \/ (Sound(q) /\ q.at # "issue"),
         UNCHANGED req \/ req' = [req EXCEPT ![r] = q]
  PROVE  AccessInv'
<1>1. Leases' /\ LeasesFade /\ ShutWithLeases
  BY DEF AccessInv, Leases, LeasesFade, ShutWithLeases, BoundActiveConsent, Active
<1>2. DOMAIN frame' = Frames /\ FramesStay
  BY DEF AccessInv, AccessShape, FramesStay
<1>3. file' \subseteq Frames /\ \A f \in file' : frame'[f] # "none"
  BY <1>2 DEF AccessInv, AccessShape, FramesStay
<1>4. DOMAIN req' = Requests /\ \A u \in Requests : req'[u] = req[u] \/ req'[u] = q
  BY DEF AccessInv, AccessShape
<1>5. Sound(q) => Sound(q)'
  BY <1>1, <1>2, SoundStays
<1> QED
  BY <1>1, <1>2, <1>3, <1>4, <1>5, StepKeeps

LEMMA RouteFrameKeeps ==
  ASSUME AccessInv, NEW r \in Requests, RouteFrame(r)
  PROVE  AccessInv'
<1>1. PICK p, f : p = req[r] /\ f = p.frame
  OBVIOUS
<1>2. /\ p # Idle /\ p.at = "frame" /\ GoTo(r, "stage")
      /\ frame' = [frame EXCEPT ![f] = "accepted"]
      /\ consent' = Revoked({f[1]}) \/ consent' = consent
      /\ UNCHANGED <<file, session, challenge, shut>>
  BY <1>1 DEF RouteFrame, AcceptFrame, At, accessVars
<1>3. Sound(p) /\ f \in Frames /\ consent[f[1]] # NoConsent /\ {"at", "session", "frame"} \subseteq DOMAIN p
      /\ f[1] \in Consents
  BY <1>1, <1>2 DEF AccessInv, Sound, FrameSteps, Frames
<1>4. Leases' /\ LeasesFade
  <2>1. CASE consent' = Revoked({f[1]})
    BY <2>1, RevokedFades DEF AccessInv
  <2>2. CASE consent' = consent
    BY <2>2 DEF AccessInv, Leases, LeasesFade, BoundActiveConsent, Active
  <2> QED
    BY <1>2, <2>1, <2>2
<1>5. ShutWithLeases
  BY <1>2 DEF ShutWithLeases
<1>6. DOMAIN frame' = Frames /\ frame'[f] = "accepted" /\ FramesStay
  BY <1>2, <1>3 DEF AccessInv, AccessShape, FramesStay
<1>7. file' \subseteq Frames /\ \A g \in file' : frame'[g] # "none"
  BY <1>2, <1>6 DEF AccessInv, AccessShape, FramesStay
<1>8. PICK q : /\ req' = [req EXCEPT ![r] = q]
               /\ DOMAIN q = DOMAIN p /\ q.at = "stage"
               /\ \A fld \in DOMAIN q : fld # "at" => q[fld] = p[fld]
  BY <1>1, <1>2, Goes
<1>9. q.frame = f /\ {"at", "session", "frame"} \subseteq DOMAIN q
  BY <1>1, <1>3, <1>8
<1>10. consent'[f[1]] # NoConsent
  BY <1>3, <1>4 DEF LeasesFade
<1>11. Sound(q)' /\ q.at # "issue"
  BY <1>3, <1>6, <1>8, <1>9, <1>10 DEF Sound, FrameSteps
<1>12. DOMAIN req' = Requests /\ \A u \in Requests : req'[u] = req[u] \/ req'[u] = q
  BY <1>8, ReqUpdated
<1> QED
  BY <1>2, <1>4, <1>5, <1>6, <1>7, <1>11, <1>12, StepKeeps

LEMMA FilesKeep ==
  ASSUME AccessInv,
         \/ \E r \in Requests : WriteFrame(r) \/ WriteFails(r) \/ EndFrame(r) \/ EndFrameFails(r)
         \/ SweepOrphanFrames
  PROVE  AccessInv'
<1>1. ASSUME NEW r \in Requests, WriteFrame(r) \/ WriteFails(r) \/ EndFrame(r) \/ EndFrameFails(r)
      PROVE  AccessInv'
  <2>1. PICK p, g : p = req[r] /\ g = p.frame
    OBVIOUS
  <2>2. p # Idle /\ p.at \in {"stage", "think"} /\ UNCHANGED <<consent, session, challenge, shut>>
    BY <1>1, <2>1 DEF WriteFrame, WriteFails, EndFrame, EndFrameFails, At, accessVars, StageFile,
                      StageFails, DeleteFrame, DeletionFails
  <2>3. Sound(p) /\ g \in Frames /\ frame[g] # "none" /\ {"at", "session", "frame"} \subseteq DOMAIN p
        /\ consent[g[1]] # NoConsent
    BY <2>1, <2>2 DEF AccessInv, Sound, FrameSteps
  <2>4. CASE WriteFrame(r)
    <3>1. GoTo(r, "think") /\ frame' = frame /\ file' = file \cup {g}
      BY <2>1, <2>4 DEF WriteFrame, StageFile
    <3>2. PICK q : /\ req' = [req EXCEPT ![r] = q]
                   /\ DOMAIN q = DOMAIN p /\ q.at = "think"
                   /\ \A fld \in DOMAIN q : fld # "at" => q[fld] = p[fld]
      BY <2>1, <2>2, <3>1, Goes
    <3>3. q.frame = g
      BY <2>1, <2>3, <3>2
    <3>4. Sound(q) /\ q.at # "issue"
      BY <2>3, <3>2, <3>3 DEF Sound, FrameSteps
    <3>5. "accepted" # "none" /\ file' \subseteq file \cup {g}
      BY <3>1
    <3> QED
      BY <2>2, <2>3, <3>1, <3>2, <3>4, <3>5, FrameStepKeeps
  <2>5. CASE WriteFails(r) \/ EndFrame(r) \/ EndFrameFails(r)
    <3>1. PICK state \in {"stage-failed", "deleted", "deletion-failed"} :
            /\ frame' = [frame EXCEPT ![g] = IF @ \in ProvenDeletionStates THEN @ ELSE state]
            /\ file' \subseteq file \cup {g} /\ req' = [req EXCEPT ![r] = Idle]
      BY <2>1, <2>5
      DEF WriteFails, EndFrame, EndFrameFails, StageFails, DeleteFrame, DeletionFails, Terminal, Answered
    <3>2. state # "none"
      BY <3>1
    <3> QED
      BY <2>2, <2>3, <3>1, <3>2, FrameStepKeeps
  <2> QED
    BY <1>1, <2>4, <2>5
<1>2. CASE SweepOrphanFrames
  <2>1. PICK g \in file, state \in {"swept", "deletion-failed"} :
          /\ frame' = [frame EXCEPT ![g] = IF @ \in ProvenDeletionStates THEN @ ELSE state]
          /\ file' \subseteq file \cup {g}
          /\ UNCHANGED <<consent, session, challenge, shut, req>>
    BY <1>2 DEF SweepOrphanFrames, Sweep, SweepFails, DeleteFrame, DeletionFails, Terminal, accessVars
  <2>2. g \in Frames /\ frame[g] # "none" /\ state # "none"
    BY <2>1 DEF AccessInv, AccessShape
  <2>3. Leases' /\ LeasesFade /\ ShutWithLeases
    BY <2>1 DEF AccessInv, Leases, LeasesFade, ShutWithLeases, BoundActiveConsent, Active
  <2>4. DOMAIN frame' = Frames /\ FramesStay
    BY <2>1, <2>2 DEF AccessInv, AccessShape, FramesStay
  <2>5. file' \subseteq Frames /\ \A f \in file' : frame'[f] # "none"
    BY <2>1, <2>2, <2>4 DEF AccessInv, AccessShape, FramesStay
  <2>6. DOMAIN req' = Requests /\ \A u \in Requests : req'[u] = req[u]
    BY <2>1 DEF AccessInv, AccessShape
  <2> QED
    BY <2>1, <2>3, <2>4, <2>5, <2>6, StepKeeps
<1> QED
  BY <1>1, <1>2

\* A challenge is issued or used up: its session is not there yet.
LEMMA ChallengeStepKeeps ==
  ASSUME AccessInv, UNCHANGED <<consent, frame, file, session, shut>>, NEW r \in Requests, NEW s \in Sessions,
         challenge[s].state # "used", DOMAIN challenge' = Sessions,
         \A t \in Sessions : t # s => challenge'[t] = challenge[t],
         NEW q, req' = [req EXCEPT ![r] = q],
         q = Idle \/ ("at" \in DOMAIN q /\ q.at = "issue" /\ q.session = s /\ challenge'[s].state = "used")
  PROVE  AccessInv'
<1>1. session[s] = "none" /\ \A t \in shut : session'[t] = "closed"
  BY DEF AccessInv, IssuedOnce
<1>2. DOMAIN req' = Requests /\ req'[r] = q /\ \A u \in Requests : u # r => req'[u] = req[u]
  BY ReqUpdated
<1>3. AccessShape' /\ Leases' /\ \A t \in shut' : session'[t] = "closed"
  BY <1>1, <1>2 DEF AccessInv, AccessShape, Leases
<1>4. ASSUME NEW u \in Requests, u # r, NEW p, p = req[u], p # Idle
      PROVE  Sound(p)' /\ (p.at = "issue" => p.session # s)
  <2>1. Sound(p)
    BY <1>4 DEF AccessInv
  <2>2. p.at = "issue" => p.session \in Sessions /\ p.session # s /\ session[p.session] = "none"
                          /\ challenge'[p.session].state = "used"
    BY <2>1 DEF Sound
  <2>3. p.at = "frame" /\ p.session \in shut' => ~BoundActiveConsent(p.frame[1], p.session)'
    BY <2>1 DEF Sound, BoundActiveConsent, Active
  <2> QED
    BY <2>1, <2>2, <2>3 DEF Sound
<1>5. q # Idle => Sound(q)'
  BY <1>1 DEF Sound, FrameSteps
<1>6. IssuedOnce'
  <2>1. \A t \in Sessions : challenge'[t].state # "used" => session'[t] = "none"
    BY <1>1 DEF AccessInv, IssuedOnce
  <2>2. ASSUME NEW v \in Requests, NEW u \in Requests, At(v, "issue")', At(u, "issue")',
               req'[v].session = req'[u].session, v # u
        PROVE  FALSE
    <3>1. CASE v = r
      <4>1. u # r /\ req[u] # Idle /\ req[u].at = "issue" /\ req[u].session = s
        BY <1>2, <2>2, <3>1 DEF At
      <4> QED
        BY <1>4, <4>1
    <3>2. CASE u = r
      <4>1. v # r /\ req[v] # Idle /\ req[v].at = "issue" /\ req[v].session = s
        BY <1>2, <2>2, <3>2 DEF At
      <4> QED
        BY <1>4, <4>1
    <3>3. CASE v # r /\ u # r
      BY <1>2, <2>2, <3>3 DEF At, AccessInv, IssuedOnce
    <3> QED
      BY <3>1, <3>2, <3>3
  <2> QED
    BY <2>1, <2>2 DEF IssuedOnce
<1>7. \A u \in Requests : req'[u] # Idle => Sound(req[u])'
  <2> SUFFICES ASSUME NEW u \in Requests, req'[u] # Idle PROVE Sound(req[u])'
    OBVIOUS
  <2>1. PICK p : p = req'[u]
    OBVIOUS
  <2>2. Sound(p)'
    BY <1>2, <1>4, <1>5, <2>1
  <2> QED
    BY <2>1, <2>2 DEF Sound, BoundActiveConsent, Active
<1> QED
  BY <1>3, <1>6, <1>7 DEF AccessInv

LEMMA ChallengesKeep ==
  ASSUME AccessInv, NEW r \in Requests, NEW s \in Sessions, IssueChallenge(r, s) \/ ConsumeChallenge(r, s)
  PROVE  AccessInv'
<1>1. DOMAIN challenge = Sessions
  BY DEF AccessInv, AccessShape
<1>2. CASE IssueChallenge(r, s)
  <2>1. challenge[s].state # "used" /\ req' = [req EXCEPT ![r] = Idle]
        /\ UNCHANGED <<consent, frame, file, session, shut>>
    BY <1>2 DEF IssueChallenge, NoChallenge, Answered, visionVars
  <2>2. DOMAIN challenge' = Sessions /\ \A t \in Sessions : t # s => challenge'[t] = challenge[t]
    BY <1>1, <1>2 DEF IssueChallenge
  <2> QED
    BY <2>1, <2>2, ChallengeStepKeeps
<1>3. CASE ConsumeChallenge(r, s)
  <2>1. challenge[s].state = "issued" /\ "state" \in DOMAIN challenge[s]
        /\ UNCHANGED <<consent, frame, file, session, shut>>
    BY <1>3 DEF ConsumeChallenge, visionVars
  <2>2. DOMAIN challenge' = Sessions /\ challenge'[s].state = "used"
        /\ \A t \in Sessions : t # s => challenge'[t] = challenge[t]
    BY <1>1, <1>3, <2>1 DEF ConsumeChallenge
  <2> DEFINE q == [at |-> "issue", session |-> s]
  <2>3. req' = [req EXCEPT ![r] = q]
    BY <1>3 DEF ConsumeChallenge
  <2>4. "at" \in DOMAIN q /\ q.at = "issue" /\ q.session = s
    OBVIOUS
  <2> HIDE DEF q
  <2>5. challenge[s].state # "used"
    BY <2>1
  <2> QED
    BY <2>1, <2>2, <2>3, <2>4, <2>5, ChallengeStepKeeps
<1> QED
  BY <1>2, <1>3

LEMMA OthersKeep ==
  ASSUME AccessInv,
         \/ \E p \in Pairings : PairingRoutes(p)
         \/ \E s \in Sessions : ExpireGrant(s)
         \/ GatewayStops
         \/ UNCHANGED allVars
  PROVE  AccessInv'
<1>1. Untouched
  BY DEF PairingRoutes, RequestPairing, ExpirePairing, DecidePairing, ExpireGrant, GatewayStops,
         allVars, visionVars, accessVars, Untouched
<1>2. req' = req \/ req' = [r \in Requests |-> Idle]
  BY DEF PairingRoutes, RequestPairing, ExpirePairing, DecidePairing, ExpireGrant, GatewayStops, allVars
<1>3. DOMAIN req' = Requests /\ \A u \in Requests : req'[u] = req[u] \/ req'[u] = Idle
  BY <1>2 DEF AccessInv, AccessShape
<1> QED
  BY <1>1, <1>3, MoveKeeps DEF Untouched

LEMMA AccessBegins ==
  ASSUME AccessInit
  PROVE  AccessInv
<1>1. AccessShape
  BY DEF AccessInit, VisionInit, AccessShape
<1>2. Leases
  BY DEF AccessInit, VisionInit, Leases
<1>3. \A s \in Sessions : session[s] = "none"
  BY DEF AccessInit
<1>4. \A r \in Requests : req[r] = Idle
  BY DEF AccessInit
<1>5. shut = {}
  BY DEF AccessInit
<1> QED
  BY <1>1, <1>2, <1>3, <1>4, <1>5 DEF AccessInv, IssuedOnce, At

LEMMA AccessStepKeeps ==
  ASSUME AccessInv, [AccessNext]_allVars
  PROVE  AccessInv'
<1>1. CASE \E r \in Requests : QuietStep(r)
  BY <1>1, QuietKeeps
<1>2. CASE \E r \in Requests : IssueSession(r) \/ MarkActive(r) \/ CloseSession(r)
  BY <1>2, SessionKeeps
<1>3. CASE \E r \in Requests : CloseConsents(r)
  BY <1>3, CloseConsentsKeeps
<1>4. CASE (\E r \in Requests : VisionConsent(r)) \/ (\E k \in Consents : LeaseExpires(k))
  BY <1>4, LeasesKeep
<1>5. CASE \E r \in Requests : RouteFrame(r)
  BY <1>5, RouteFrameKeeps
<1>6. CASE (\E r \in Requests : WriteFrame(r) \/ WriteFails(r) \/ EndFrame(r) \/ EndFrameFails(r))
           \/ SweepOrphanFrames
  BY <1>6, FilesKeep
<1>7. CASE \E r \in Requests : \E s \in Sessions : IssueChallenge(r, s) \/ ConsumeChallenge(r, s)
  BY <1>7, ChallengesKeep
<1>8. CASE (\E p \in Pairings : PairingRoutes(p)) \/ (\E s \in Sessions : ExpireGrant(s)) \/ GatewayStops
           \/ UNCHANGED allVars
  BY <1>8, OthersKeep
<1> QED
  BY <1>1, <1>2, <1>3, <1>4, <1>5, <1>6, <1>7, <1>8, Zenon DEF AccessNext, QuietStep, ExchangeRoute

\* A frame is accepted by RouteFrame alone, and for a session with its lease.
LEMMA AcceptedWhileOpen ==
  ASSUME AccessInv, [AccessNext]_allVars, NEW f \in Frames, frame[f] = "none", frame'[f] # "none"
  PROVE  consent[f[1]].session \notin shut
<1>1. frame' # frame
  OBVIOUS
<1>2. ASSUME NEW r \in Requests, RouteFrame(r) PROVE consent[f[1]].session \notin shut
  <2>1. PICK p : p = req[r]
    OBVIOUS
  <2>2. /\ p # Idle /\ p.at = "frame" /\ frame' = [frame EXCEPT ![p.frame] = "accepted"]
        /\ BoundActiveConsent(p.frame[1], p.session)
    BY <1>2, <2>1 DEF RouteFrame, AcceptFrame, At
  <2>3. Sound(p) /\ f = p.frame
    BY <2>1, <2>2 DEF AccessInv
  <2> QED
    BY <2>2, <2>3 DEF Sound, BoundActiveConsent
<1>3. ASSUME NEW g, frame[g] # "none", NEW state, Terminal(g, state) PROVE FALSE
  BY <1>3 DEF Terminal
<1>4. ASSUME NEW r \in Requests, WriteFails(r) \/ EndFrame(r) \/ EndFrameFails(r) PROVE FALSE
  <2>1. PICK p : p = req[r]
    OBVIOUS
  <2>2. p # Idle /\ p.at \in {"stage", "think"} /\ \E state : Terminal(p.frame, state)
    BY <1>4, <2>1 DEF WriteFails, EndFrame, EndFrameFails, At, StageFails, DeleteFrame, DeletionFails
  <2>3. frame[p.frame] # "none"
    BY <2>1, <2>2 DEF AccessInv, Sound
  <2> QED
    BY <1>3, <2>2, <2>3
<1>5. ASSUME SweepOrphanFrames PROVE FALSE
  <2>1. PICK g \in file : \E state : Terminal(g, state)
    BY <1>5 DEF SweepOrphanFrames, Sweep, SweepFails, DeleteFrame, DeletionFails
  <2>2. frame[g] # "none"
    BY DEF AccessInv, AccessShape
  <2> QED
    BY <1>3, <2>1, <2>2
<1>6. ASSUME NEW r \in Requests, WriteFrame(r) PROVE FALSE
  BY <1>1, <1>6 DEF WriteFrame, StageFile
<1>7. ASSUME NEW r \in Requests, VisionConsent(r) PROVE FALSE
  BY <1>1, <1>7 DEF VisionConsent, RouteConsent, RouteStop, GrantConsent, RevokeConsent
<1>8. ASSUME NEW k \in Consents, LeaseExpires(k) PROVE FALSE
  BY <1>1, <1>8 DEF LeaseExpires, ExpireIfNeeded
<1>9. ASSUME NEW r \in Requests, NEW s \in Sessions, IssueChallenge(r, s) \/ ConsumeChallenge(r, s) PROVE FALSE
  BY <1>1, <1>9 DEF IssueChallenge, ConsumeChallenge, visionVars
<1>10. ASSUME NEW r \in Requests, IssueSession(r) \/ MarkActive(r) \/ CloseSession(r) PROVE FALSE
  BY <1>1, <1>10 DEF IssueSession, MarkActive, CloseSession, visionVars
<1>11. ASSUME NEW r \in Requests, CloseConsents(r) PROVE FALSE
  BY <1>1, <1>11 DEF CloseConsents, RevokeSession
<1>12. ASSUME NEW r \in Requests, QuietStep(r) PROVE FALSE
  BY <1>1, <1>12
  DEF QuietStep, RevokeDevice, BeginExchange, BeginDeviceRoute, BeginSessionRoute, BeginFrame,
      FinishExchange, TouchDevice, DeviceExpired, Admit, BindingExpired, BindSession, Refuse,
      MarkBindingActive, CloseGrant, CloseBinding, RevokeBinding, RevokeSessionNext, visionVars
<1>13. ASSUME \/ \E p \in Pairings : PairingRoutes(p)
              \/ \E s \in Sessions : ExpireGrant(s)
              \/ GatewayStops
              \/ UNCHANGED allVars
       PROVE  FALSE
  BY <1>1, <1>13
  DEF PairingRoutes, RequestPairing, ExpirePairing, DecidePairing, ExpireGrant, GatewayStops,
      allVars, visionVars
<1> QED
  BY <1>2, <1>4, <1>5, <1>6, <1>7, <1>8, <1>9, <1>10, <1>11, <1>12, <1>13, Zenon
  DEF AccessNext, QuietStep, ExchangeRoute

\* Once a close has revoked the leases of a session, no frame of it is
\* accepted, whatever the threads that serve its requests had read before
\* (vision.py revoke_session and accept_frame).
THEOREM NoFrameAfterClose == AccessSpec => NoFrameOnceShut
<1>1. AccessInit => AccessInv
  BY AccessBegins
<1>2. AccessInv /\ [AccessNext]_allVars => AccessInv'
  BY AccessStepKeeps
<1>3. AccessInv /\ [AccessNext]_allVars =>
        [\A f \in Frames :
           frame[f] = "none" /\ frame'[f] # "none" => consent[f[1]].session \notin shut]_allVars
  BY AcceptedWhileOpen
<1> QED
  BY <1>1, <1>2, <1>3, PTL DEF AccessSpec, NoFrameOnceShut
=============================================================================
