----------------------------- MODULE TurnLedger -----------------------------
(***************************************************************************)
(* The turns of a browser session at the gateway:                          *)
(*   aether_gateway/browser_senses/turns.py    the append-only turn ledger *)
(*   aether_gateway/browser_senses/service.py  the execution of a turn     *)
(*                                                                         *)
(* A turn id comes with one correlation id, one request and generation 0:  *)
(* both kinds of caller send what they first sent, so of a claim that      *)
(* differs only the id is left here.  An interruption moves a turn from    *)
(* generation 0 to 1; a claim is bound to its generation, so there is no   *)
(* second.  Every operation is one SQLite transaction, and every handler   *)
(* runs on one event loop: from the claim of a turn to the first await of  *)
(* its cognition is one step.                                              *)
(***************************************************************************)
EXTENDS Naturals, Sequences

CONSTANTS
    Turns,      \* turn ids
    Reasons,    \* interruption reasons
    None

ASSUME TurnAssumption == None \notin Reasons

VARIABLES
    events,     \* browser_sense_turn_events, by turn, oldest first
    cut,        \* browser_sense_interruptions: the reason, or None
    task,       \* _active_turns and the asyncio task behind it
    starts      \* how often the cognition of a turn was started

gatewayVars == <<events, cut, task, starts>>

TurnStates == {"accepted", "completed", "failed", "interrupted"}
Dispositions == {"none", "not-applicable", "canceled-upstream", "discarded"}
Evidence == SUBSET {"local", "provider"}
Status == [state : TurnStates, gen : {0, 1}, disp : Dispositions, evidence : Evidence]

GatewayTypeOK ==
    /\ events \in [Turns -> Seq(Status)]
    /\ cut \in [Turns -> Reasons \cup {None}]
    /\ task \in [Turns -> {"none", "running", "canceling"}]
    /\ starts \in [Turns -> Nat]

Claimed(t) == events[t] # <<>>
LatestStatus(t) == events[t][Len(events[t])]
InState(t, s) == Claimed(t) /\ LatestStatus(t).state = s
Recorded(t, s) == \E i \in DOMAIN events[t] : events[t][i].state = s

Plain(state) == [state |-> state, gen |-> 0, disp |-> "none", evidence |-> {}]
InsertEvent(t, e) == events' = [events EXCEPT ![t] = Append(@, e)]

GatewayInit ==
    /\ events = [t \in Turns |-> <<>>]
    /\ cut = [t \in Turns |-> None]
    /\ task = [t \in Turns |-> "none"]
    /\ starts = [t \in Turns |-> 0]

-----------------------------------------------------------------------------
(* Claim and execution. *)

FirstClaim(t) == ~Claimed(t)

\* handle_text, handle_worker_transcript: the first claim starts cognition.
ClaimAndStart(t) ==
    /\ FirstClaim(t)
    /\ InsertEvent(t, Plain("accepted"))
    /\ task' = [task EXCEPT ![t] = "running"]
    /\ starts' = [starts EXCEPT ![t] = @ + 1]
    /\ UNCHANGED cut

\* handle_vision: the frame is refused after the claim, and the turn fails.
ClaimAndRefuse(t) ==
    /\ FirstClaim(t)
    /\ events' = [events EXCEPT ![t] = @ \o <<Plain("accepted"), Plain("failed")>>]
    /\ UNCHANGED <<cut, task, starts>>

\* A claim that is already there is answered with the latest status.
Replay(t) == Claimed(t) /\ UNCHANGED gatewayVars

CanComplete(t) == InState(t, "accepted")
Leave(t) == task' = [task EXCEPT ![t] = "none"]

\* The cognition of a turn returns: the ledger completes the turn.
CompleteTurn(t) ==
    /\ task[t] = "running"
    /\ CanComplete(t)
    /\ InsertEvent(t, Plain("completed"))
    /\ Leave(t)
    /\ UNCHANGED <<cut, starts>>

\* It returns although it was cancelled: complete() refuses, the result is
\* recorded as discarded, and fail() then refuses too.
DiscardLateResult(t) ==
    /\ task[t] = "canceling"
    /\ InState(t, "interrupted")
    /\ IF LatestStatus(t).disp = "discarded"
         THEN UNCHANGED events
         ELSE InsertEvent(t, [LatestStatus(t) EXCEPT !.disp = "discarded"])
    /\ Leave(t)
    /\ UNCHANGED <<cut, starts>>

\* It raises: fail() writes only over an accepted turn.
FailTurn(t) ==
    /\ task[t] # "none"
    /\ IF InState(t, "accepted")
         THEN InsertEvent(t, Plain("failed"))
         ELSE UNCHANGED events
    /\ Leave(t)
    /\ UNCHANGED <<cut, starts>>

\* The cancellation reaches it: CancelledError is passed on unrecorded.
CancelTurn(t) ==
    /\ task[t] = "canceling"
    /\ Leave(t)
    /\ UNCHANGED <<events, cut, starts>>

\* The gateway stops: tasks are gone, the ledger stays.
GatewayCrash ==
    /\ \E t \in Turns : task[t] # "none"
    /\ task' = [t \in Turns |-> "none"]
    /\ UNCHANGED <<events, cut, starts>>

-----------------------------------------------------------------------------
(* Interruption: _interrupt_session_turn and BrowserSenseTurnLedger.interrupt. *)

Interruptible(t) ==
    /\ Claimed(t)
    /\ cut[t] = None
    /\ LatestStatus(t).gen = 0
    /\ LatestStatus(t).state \in {"accepted", "completed"}

\* A repeated interruption must give the reason of the first.
Confirms(t, reason) == cut[t] # None /\ cut[t] = reason

Interrupts(t, reason) == Interruptible(t) \/ Confirms(t, reason)

Disposition(upstream, otherwise) == IF upstream THEN "canceled-upstream" ELSE otherwise

NewInterruption(t, reason, ev) ==
    /\ Interruptible(t)
    /\ cut' = [cut EXCEPT ![t] = reason]
    /\ InsertEvent(t, [state |-> "interrupted", gen |-> 1, evidence |-> ev,
                       disp |-> Disposition(task[t] # "none" \/ "provider" \in ev,
                                            "not-applicable")])

\* Mutant: the disposition is computed anew.
ConfirmedAnew(t, ev) ==
    LET old == LatestStatus(t)
        all == old.evidence \cup ev
    IN  [old EXCEPT !.evidence = all,
                    !.disp = Disposition(task[t] # "none" \/ "provider" \in all, "not-applicable")]

\* Evidence only grows, and a discarded result stays discarded.
Confirmed(t, ev) ==
    LET old == LatestStatus(t)
        all == old.evidence \cup ev
    IN  [old EXCEPT !.evidence = all,
                    !.disp = IF @ = "discarded" THEN @
                             ELSE Disposition(task[t] # "none" \/ "provider" \in all, @)]

ConfirmInterruption(t, reason, ev) ==
    /\ Confirms(t, reason)
    /\ UNCHANGED cut
    /\ IF ev \subseteq LatestStatus(t).evidence
         THEN UNCHANGED events
         ELSE InsertEvent(t, Confirmed(t, ev))

\* The task of the generation is cancelled once the ledger has agreed.
InterruptTurn(t, reason, ev) ==
    /\ \/ NewInterruption(t, reason, ev)
       \/ ConfirmInterruption(t, reason, ev)
    /\ task' = [task EXCEPT ![t] = IF @ = "none" THEN @ ELSE "canceling"]
    /\ UNCHANGED starts

GatewayNext ==
    \/ \E t \in Turns :
         \/ ClaimAndStart(t) \/ ClaimAndRefuse(t)
         \/ CompleteTurn(t) \/ DiscardLateResult(t) \/ FailTurn(t) \/ CancelTurn(t)
         \/ \E r \in Reasons, ev \in Evidence : InterruptTurn(t, r, ev)
    \/ GatewayCrash

\* What the ledger promises whatever its callers do.
LedgerSpec == GatewayInit /\ [][GatewayNext]_gatewayVars

-----------------------------------------------------------------------------
(* Properties. *)

\* The cognition of a turn starts at most once: not for a second delivery of
\* its request, not after a restart, and not once the turn has been settled.
CognitionOnce == \A t \in Turns : starts[t] <= 1

\* What a row of the ledger may say after another of the same turn.
Follows(a, b) ==
    \/ a.state = "accepted" /\ b.state \in {"completed", "failed", "interrupted"}
    \/ a.state = "completed" /\ b.state = "interrupted"
    \/ /\ a.state = "interrupted" /\ b.state = "interrupted"
       /\ a.evidence \subseteq b.evidence
       /\ a.disp = "discarded" => b.disp = "discarded"

\* A turn is had once and the ledger tells one story of it: accepted first, at
\* most one of completed and failed after it, and after an interruption nothing
\* but that interruption with more evidence. (claim, complete, fail and
\* interrupt of turns.py.)
OneStory ==
    CognitionOnce /\ \A t \in Turns :
        /\ Claimed(t) => events[t][1].state = "accepted"
        /\ \A i \in 1..(Len(events[t]) - 1) : Follows(events[t][i], events[t][i + 1])
=============================================================================
