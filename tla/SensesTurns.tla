---------------------------- MODULE SensesTurns ----------------------------
(***************************************************************************)
(* A browser session's turns end to end: the Senses console, the LiveKit   *)
(* worker and the gateway's turn ledger (module TurnLedger).               *)
(*   aionui_senses_console/turn_generation.js  the turn coordinator        *)
(*   aionui_senses_console/client_state.js     the turn part of the store  *)
(*   aionui_senses_console/app.js              requests, stop, reconcile   *)
(*   browser_senses/worker.py                  voice turns and barge-in    *)
(*                                                                         *)
(* The browser runs one event loop: what lies between two awaits is one    *)
(* step.  HTTP requests and answers are lost, delayed or (a request)       *)
(* delivered twice; turn-state packets of the worker arrive in order or    *)
(* not at all.  One session: once it has ended, its turns are history.     *)
(***************************************************************************)
EXTENDS TurnLedger, FiniteSets

CONSTANTS
    TextTurns, VoiceTurns,   \* ids made by the browser and by the worker
    MaxTurns,                \* bound: turns begun
    MaxDisturbances          \* bound: requests delivered twice, stops of the
                             \* gateway, presses of mute and words of the user

VARIABLES
    room,       \* a LiveKit room is connected
    open,       \* the session lives
    mic,        \* state.micEnabled
    coord,      \* the coordinator: active turn, and whether interruption is set
    ui,         \* the store: turn state, activeTurn
    call,       \* executeBrowserTurn, by turn: where it stands
    speech,     \* the browser utterance that presents a turn
    halt,       \* interruptActiveTurn, as called by Stop and by a new text
    posts,      \* turn requests on their way
    answers,    \* answers on their way
    voice,      \* the worker: its coordinator and what it is doing
    controls,   \* turn-control packets on their way to the worker
    barge,      \* the worker's interruption requests on their way
    packets,    \* turn-state packets on their way to the browser
    spent,      \* disturbances so far
    crossed     \* the receipt of one turn has acknowledged another

clientVars == <<coord, ui, call, speech, halt, mic, open, crossed>>
workerVars == <<voice, barge>>
netVars == <<posts, answers, controls, packets, spent>>
vars == <<gatewayVars, room, clientVars, workerVars, netVars>>

ASSUME TurnIdsAssumption ==
    /\ TextTurns \cup VoiceTurns = Turns /\ TextTurns \cap VoiceTurns = {}
    /\ None \notin Turns
    /\ {"explicit_stop", "competing_input", "user_barge_in"} \subseteq Reasons

Settled == {"completed", "interrupted", "failed", "not-confirmed"}
Deliveries == Settled \cup {"none", "in-flight", "reconciling", "interrupting"}
Halters == {"stop", "send"}
ReasonOf == [h \in Halters |-> IF h = "stop" THEN "explicit_stop" ELSE "competing_input"]

\* TURN_TRANSITIONS.
TurnTransitions ==
    [idle              |-> {"wake_armed", "listening", "committing"},
     wake_armed        |-> {"idle", "listening"},
     listening         |-> {"idle", "committing"},
     committing        |-> {"idle", "thinking"},
     thinking          |-> {"idle", "speaking", "interrupting", "awaiting_approval"},
     speaking          |-> {"idle", "interrupting"},
     interrupting      |-> {"idle", "listening"},
     awaiting_approval |-> {"idle"}]

\* transitionTurn: a move that is not listed throws.
MayMove(target) == ui.turn = target \/ target \in TurnTransitions[ui.turn]

NoActive == [id |-> None, gen |-> 0, delivery |-> "none", cut |-> FALSE]
EmptyUi == [turn |-> "idle", id |-> None, gen |-> 0, delivery |-> "none"]
IdleHalt == [pc |-> "idle", id |-> None]
Quiet == [id |-> None, reason |-> None, phase |-> "idle", begun |-> {}]

TypeOK ==
    /\ GatewayTypeOK
    /\ {room, open, mic} \subseteq BOOLEAN
    /\ coord \in [id : Turns \cup {None}, gen : {0, 1}, delivery : Deliveries, cut : BOOLEAN]
    /\ ui \in [turn : DOMAIN TurnTransitions, id : Turns \cup {None}, gen : {0, 1},
               delivery : Deliveries]
    /\ call \in [TextTurns -> {"fresh", "waiting", "asking", "done"}]
    /\ speech \in [id : TextTurns \cup {None}, on : BOOLEAN]
    /\ halt \in [Halters -> [pc : {"idle", "posting", "ok"},
                             id : Turns \cup {None}]]
    /\ posts \subseteq Turns
    /\ answers \subseteq [id : Turns, kind : {"done", "replayed", "error", "status"},
                         state : TurnStates]
    /\ voice \in [id : VoiceTurns \cup {None}, reason : Reasons \cup {None},
                  phase : {"idle", "calling", "speaking"}, begun : SUBSET VoiceTurns]
    /\ controls \subseteq [id : Turns, reason : Reasons]
    /\ barge \subseteq [id : VoiceTurns, reason : Reasons, evidence : Evidence]
    /\ packets \in Seq([id : VoiceTurns, state : {"accepted", "response-ready",
                                                  "completed", "interrupted"}])

Init ==
    /\ GatewayInit
    /\ room \in BOOLEAN
    /\ open = TRUE
    /\ mic = room
    /\ coord = NoActive
    /\ ui = [EmptyUi EXCEPT !.turn = IF room THEN "listening" ELSE "idle"]
    /\ call = [t \in TextTurns |-> "fresh"]
    /\ speech = [id |-> None, on |-> FALSE]
    /\ halt = [h \in Halters |-> IdleHalt]
    /\ posts = {} /\ answers = {}
    /\ voice = Quiet
    /\ barge = {} /\ controls = {}
    /\ packets = <<>>
    /\ spent = 0
    /\ crossed = FALSE

-----------------------------------------------------------------------------
(* The coordinator and the store. *)

Accepts(t, g) == coord.id = t /\ coord.gen = g /\ t # None
UiMatches(t, g) == ui.id = t /\ ui.gen = g
Busy == coord.id # None /\ coord.delivery \notin Settled

\* turnCoordinator.reconcile, which a status of an older generation makes throw.
Reconcile(g, delivery) == coord' = [coord EXCEPT !.gen = g, !.delivery = delivery]

\* An event that names another turn or generation leaves the store as it is.
UiReceive(t, g, turn, delivery) ==
    ui' = IF UiMatches(t, g)
            THEN [ui EXCEPT !.turn = turn, !.delivery = delivery]
            ELSE ui

\* TURN_RECONCILED: also of a newer generation.
UiReconciled(t, g, delivery) ==
    ui' = IF ui.id = t /\ g >= ui.gen
            THEN [ui EXCEPT !.turn = IF delivery = "reconciling" THEN @ ELSE "idle",
                            !.gen = g, !.delivery = delivery]
            ELSE ui

GenOf(state) == IF state = "interrupted" THEN 1 ELSE 0

\* dispatchReconciledStatus, with a status that the ledger gave.  It throws
\* for another turn and for an older generation.
DispatchReconciled(t, state) ==
    LET delivery == IF state = "accepted" THEN "reconciling" ELSE state
    IN  IF coord.id = t /\ GenOf(state) >= coord.gen
          THEN Reconcile(GenOf(state), delivery) /\ UiReconciled(t, GenOf(state), delivery)
          ELSE UNCHANGED <<coord, ui>>

MayBegin == Cardinality({t \in TextTurns : call[t] # "fresh"} \cup voice.begun) < MaxTurns

Disturbance == spent < MaxDisturbances /\ spent' = spent + 1

EndCall(t) == call' = [call EXCEPT ![t] = "done"]

-----------------------------------------------------------------------------
(* Sending a text. *)

\* start(), TURN_GENERATION_STARTED and the POST of executeBrowserTurn.  The
\* store takes a new turn only when it is idle or listening; if it throws, the
\* coordinator has started a turn that nobody sends.
StartTurn(t, store) ==
    /\ call[t] = "fresh" /\ MayBegin
    /\ coord' = [id |-> t, gen |-> 0, delivery |-> "in-flight", cut |-> FALSE]
    /\ IF store.turn \in {"idle", "listening"}
         THEN /\ ui' = [turn |-> "committing", id |-> t, gen |-> 0, delivery |-> "in-flight"]
              /\ call' = [call EXCEPT ![t] = "waiting"]
              /\ posts' = posts \cup {t}
         ELSE ui' = store /\ EndCall(t) /\ UNCHANGED posts

SendText(t) ==
    /\ open /\ ~Busy /\ halt["send"].pc = "idle"
    /\ StartTurn(t, ui)
    /\ UNCHANGED <<gatewayVars, room, crossed, speech, halt, mic, open, workerVars, answers, controls, packets, spent>>

\* TURN_ACCEPTED, then the response: spoken when there is no room, and
\* finished at once when there is.  presentAssistantResponse leaves the call.
PresentResponse(t) ==
    \/ /\ ~room                      \* speechSynthesis takes the utterance
       /\ ui' = IF UiMatches(t, 0) THEN [ui EXCEPT !.turn = "thinking"] ELSE ui
       /\ speech' = [id |-> t, on |-> FALSE]
       /\ UNCHANGED coord
    \/ /\ Reconcile(0, "completed")  \* finishPresentedTurn
       /\ UiReceive(t, 0, "idle", "completed")
       /\ UNCHANGED speech

Reject(t) ==
    /\ Reconcile(0, "failed")
    /\ UiReceive(t, 0, "idle", "failed")
    /\ UNCHANGED speech

\* The answer to a turn request.  A turn that is no longer the active
\* generation ignores it.  A completed turn is rejected when the store cannot
\* take TURN_ACCEPTED, or another capability action is still open.
ReceiveAnswer(t) ==
    \E a \in answers :
      /\ a.id = t /\ a.kind # "status" /\ call[t] = "waiting"
      /\ answers' = answers \ {a}
      /\ EndCall(t)
      /\ IF ~Accepts(t, 0)
           THEN UNCHANGED <<coord, ui, speech>>
           ELSE \/ a.kind = "done" /\ (UiMatches(t, 0) => MayMove("thinking")) /\ PresentResponse(t)
                \/ a.kind = "replayed" /\ DispatchReconciled(t, a.state) /\ UNCHANGED speech
                \/ a.kind \in {"done", "error"} /\ Reject(t)
      /\ UNCHANGED <<gatewayVars, room, crossed, halt, mic, open, workerVars, posts, controls, packets, spent>>

SpeechStarts ==
    /\ speech.id # None /\ ~speech.on
    /\ speech' = [speech EXCEPT !.on = TRUE]
    /\ ui' = IF Accepts(speech.id, 0) /\ UiMatches(speech.id, 0) /\ MayMove("speaking")
               THEN [ui EXCEPT !.turn = "speaking"] ELSE ui
    /\ UNCHANGED <<gatewayVars, room, crossed, coord, call, halt, mic, open, workerVars, netVars>>

\* onend and onerror, also before onstart: finishPresentedTurn.
SpeechEnds ==
    LET t == speech.id IN
    /\ t # None
    /\ speech' = [id |-> None, on |-> FALSE]
    /\ IF Accepts(t, 0)
         THEN Reconcile(0, "completed") /\ UiReceive(t, 0, "idle", "completed")
         ELSE UNCHANGED <<coord, ui>>
    /\ UNCHANGED <<gatewayVars, room, crossed, call, halt, mic, open, workerVars, netVars>>

\* The request times out or the connection breaks: the outcome is unknown.
LoseAnswer(t) ==
    /\ call[t] = "waiting"
    /\ IF Accepts(t, 0)
         THEN /\ call' = [call EXCEPT ![t] = "asking"]
              /\ coord' = [coord EXCEPT !.delivery = "reconciling"]
              /\ ui' = IF UiMatches(t, 0) THEN [ui EXCEPT !.delivery = "reconciling"] ELSE ui
         ELSE EndCall(t) /\ UNCHANGED <<coord, ui>>
    /\ answers' = {a \in answers : a.id # t}
    /\ UNCHANGED <<gatewayVars, room, crossed, speech, halt, mic, open, workerVars,
                   posts, controls, packets, spent>>

\* reconcileAmbiguousTurn: a lookup that fails, or finds no or an accepted
\* turn, is followed by the next; after the last the turn is not confirmed.
\* Any lookup may fail, so their number does not matter here.
StatusOf(t) == {a \in answers : a.id = t /\ a.kind = "status"}

Lookup(t) ==
    /\ call[t] = "asking" /\ StatusOf(t) = {}
    /\ \/ ~Accepts(t, 0) /\ EndCall(t) /\ UNCHANGED <<coord, ui, answers>>
       \/ /\ Accepts(t, 0)
          /\ Claimed(t) /\ LatestStatus(t).state # "accepted"
          /\ answers' = answers \cup {[id |-> t, kind |-> "status", state |-> LatestStatus(t).state]}
          /\ UNCHANGED <<coord, ui, call>>
       \/ /\ Accepts(t, 0)
          /\ Reconcile(0, "not-confirmed")
          /\ UiReceive(t, 0, "idle", "not-confirmed")
          /\ EndCall(t)
          /\ UNCHANGED answers
    /\ UNCHANGED <<gatewayVars, room, crossed, speech, halt, mic, open, workerVars, posts, controls, packets, spent>>

\* The lookup's answer: whether the turn still counts is not asked again.
ReceiveStatus(t) ==
    \E a \in StatusOf(t) :
      /\ answers' = answers \ {a}
      /\ EndCall(t)
      /\ DispatchReconciled(t, a.state)
      /\ UNCHANGED <<gatewayVars, room, crossed, speech, halt, mic, open, workerVars, posts, controls, packets, spent>>

-----------------------------------------------------------------------------
(* Stop, and a text that competes with the turn before it. *)

Interruption == [coord EXCEPT !.gen = 1, !.delivery = "interrupting", !.cut = TRUE]

\* INTERRUPT_REQUESTED: a turn that the store does not know is left alone.
StoreFollows == ui.id # None => (ui.id = coord.id /\ ui.gen = 0)
RequestThrows == StoreFollows /\ ~MayMove("interrupting")

\* interruptActiveTurn up to its POST: advance the generation, tell the store,
\* abort the request, silence the browser, send a control packet to the worker.
RequestInterrupt(h) ==
    /\ open /\ Busy /\ halt[h].pc = "idle"
    /\ h = "send" => (MayBegin /\ \E t \in TextTurns : call[t] = "fresh")
    /\ coord' = IF coord.cut THEN coord ELSE Interruption
    /\ IF RequestThrows
         THEN UNCHANGED <<ui, call, speech, halt, controls, answers>>
         ELSE /\ ui' = IF StoreFollows
                         THEN [ui EXCEPT !.turn = "interrupting",
                                         !.gen = IF ui.id = None THEN @ ELSE 1,
                                         !.delivery = IF ui.id = None THEN @ ELSE "interrupting"]
                         ELSE ui
              /\ call' = [t \in TextTurns |-> IF call[t] = "waiting" THEN "done" ELSE call[t]]
              /\ answers' = {a \in answers : a.id \notin TextTurns \/ call[a.id] # "waiting"}
              /\ speech' = [id |-> None, on |-> FALSE]
              /\ controls' = IF coord.id \in VoiceTurns THEN controls \cup {[id |-> coord.id, reason |-> ReasonOf[h]]}
                                     ELSE controls
              /\ halt' = [halt EXCEPT ![h] = [pc |-> "posting", id |-> coord.id]]
    /\ UNCHANGED <<gatewayVars, room, crossed, mic, open, workerVars, posts, packets, spent>>

\* Mutant: any status of the turn will do.
LookupFindsTurn(t) == Claimed(t)

\* The status that stands in for a lost receipt.
LookupConfirms(t) == InState(t, "interrupted")

\* The POST reaches the gateway or not, and its answer the browser or not.
\* After an error the ledger is asked whether the turn is interrupted now;
\* if that is not known either, interruptActiveTurn throws.
PostInterrupt(h) ==
    LET t == halt[h].id IN
    /\ halt[h].pc = "posting"
    /\ \/ /\ open /\ Interrupts(t, ReasonOf[h])
          /\ InterruptTurn(t, ReasonOf[h], {"local"})
          /\ halt' \in {[halt EXCEPT ![h].pc = "ok"], [halt EXCEPT ![h] = IdleHalt]}
       \/ /\ open /\ LookupConfirms(t)
          /\ halt' = [halt EXCEPT ![h].pc = "ok"]
          /\ UNCHANGED gatewayVars
       \/ /\ halt' = [halt EXCEPT ![h] = IdleHalt]
          /\ UNCHANGED gatewayVars
    /\ UNCHANGED <<room, crossed, coord, ui, call, speech, mic, open, workerVars, netVars>>

\* acknowledgeInterruption takes the turn that is active now, and throws when
\* that one has no interruption.
Acknowledges == coord.id # None /\ coord.cut
AckTurn == IF mic THEN "listening" ELSE "idle"

Crosses(h) == crossed' = (crossed \/ (Acknowledges /\ coord.id # halt[h].id))

UiAcknowledged ==
    IF UiMatches(coord.id, coord.gen) /\ MayMove(AckTurn)
      THEN [ui EXCEPT !.turn = AckTurn, !.delivery = "interrupted"]
      ELSE ui

\* Stop, or a text whose interruption throws here and is not sent.
AcknowledgeStop(h) ==
    /\ halt[h].pc = "ok"
    /\ halt' = [halt EXCEPT ![h] = IdleHalt]
    /\ Crosses(h)
    /\ IF Acknowledges
         THEN /\ h = "send" => (UiMatches(coord.id, coord.gen) /\ ~MayMove(AckTurn))
              /\ coord' = [coord EXCEPT !.delivery = "interrupted"]
              /\ ui' = UiAcknowledged
         ELSE UNCHANGED <<coord, ui>>
    /\ UNCHANGED <<gatewayVars, room, call, speech, mic, open, workerVars, netVars>>

\* The competing text: it starts its turn as soon as the one before it is
\* acknowledged.
AcknowledgeSend(t) ==
    /\ halt["send"].pc = "ok"
    /\ Acknowledges
    /\ UiMatches(coord.id, coord.gen) => MayMove(AckTurn)
    /\ halt' = [halt EXCEPT !["send"] = IdleHalt]
    /\ Crosses("send")
    /\ StartTurn(t, UiAcknowledged)
    /\ UNCHANGED <<gatewayVars, room, speech, mic, open, workerVars, answers, controls, packets, spent>>

\* toggleMic: muting resets the turn state from wherever it may move to idle.
ToggleMic ==
    /\ open /\ room
    /\ Disturbance
    /\ mic' = ~mic
    /\ LET target == IF mic THEN "idle" ELSE "listening"
       IN  ui' = IF MayMove(target) THEN [ui EXCEPT !.turn = target] ELSE ui
    /\ UNCHANGED <<gatewayVars, room, crossed, coord, call, speech, halt, open, workerVars, posts, answers, controls, packets>>

\* expireLocalSession, disconnect: the coordinator and the store start over.
EndSession ==
    /\ open
    /\ open' = FALSE
    /\ mic' = FALSE
    /\ coord' = NoActive
    /\ ui' = EmptyUi
    /\ call' = [t \in TextTurns |-> "done"]
    /\ speech' = [id |-> None, on |-> FALSE]
    /\ halt' = [h \in Halters |-> IdleHalt]
    /\ answers' = {a \in answers : a.id \notin TextTurns}
    /\ packets' = <<>>
    /\ UNCHANGED <<gatewayVars, room, crossed, workerVars, posts, controls, spent>>

-----------------------------------------------------------------------------
(* The gateway's routes. *)

\* A request is read from the wire, and may be there again.
Deliver(t) ==
    /\ t \in posts
    /\ \/ posts' = posts \ {t} /\ UNCHANGED spent
       \/ Disturbance /\ UNCHANGED posts

\* An answer that nobody waits for goes nowhere.
Awaited(t) == IF t \in TextTurns THEN call[t] = "waiting"
                                 ELSE voice.id = t /\ voice.phase = "calling"
Answer(t, kind, state) ==
    answers' = IF Awaited(t) THEN answers \cup {[id |-> t, kind |-> kind, state |-> state]}
                             ELSE answers

\* The text, vision and worker routes; only the browser's check the session.
Authenticated(t) == t \in VoiceTurns \/ open

HandleRequest(t) ==
    /\ Deliver(t)
    /\ \/ Authenticated(t) /\ ClaimAndStart(t) /\ UNCHANGED answers
       \/ Authenticated(t) /\ t \in TextTurns /\ ClaimAndRefuse(t) /\ Answer(t, "error", "failed")
       \/ Authenticated(t) /\ Replay(t) /\ Answer(t, "replayed", LatestStatus(t).state)
       \/ ~Authenticated(t) /\ UNCHANGED <<gatewayVars, answers>>
    /\ UNCHANGED <<room, clientVars, workerVars, controls, packets>>

FinishTurn(t) ==
    /\ \/ CompleteTurn(t) /\ Answer(t, "done", "completed")
       \/ (DiscardLateResult(t) \/ FailTurn(t) \/ CancelTurn(t)) /\ Answer(t, "error", "failed")
    /\ UNCHANGED <<room, clientVars, workerVars, posts, controls, packets, spent>>

\* The gateway stops and starts again: what was on its wires is lost.
Crash ==
    /\ Disturbance
    /\ GatewayCrash
    /\ posts' = {} /\ answers' = {}
    /\ UNCHANGED <<room, clientVars, workerVars, controls, packets>>

-----------------------------------------------------------------------------
(* The worker. *)

\* notify_turn never fails: a packet that cannot be sent is dropped.
Notify(t, state) ==
    packets' \in {packets, Append(packets, [id |-> t, state |-> state])}

\* llm_node: a new turn, its packet, its request.
BeginVoice(t) ==
    /\ room /\ open /\ voice.phase = "idle" /\ t \notin voice.begun /\ MayBegin
    /\ voice' = [id |-> t, reason |-> None, phase |-> "calling", begun |-> voice.begun \cup {t}]
    /\ Notify(t, "accepted")
    /\ posts' = posts \cup {t}
    /\ UNCHANGED <<gatewayVars, room, clientVars, barge, answers, controls, spent>>

\* respond() returns: a completed turn is spoken, everything else ends it,
\* and so does the status of a turn without its text.
VoiceAnswer(t) ==
    \E a \in answers :
      /\ a.id = t
      /\ answers' = answers \ {a}
      /\ IF voice.id = t /\ voice.phase = "calling"
           THEN /\ voice' = [voice EXCEPT !.phase = IF a.kind = "done" THEN "speaking" ELSE "idle"]
                /\ IF a.state = "completed" THEN Notify(t, "response-ready") ELSE UNCHANGED packets
           ELSE UNCHANGED <<voice, packets>>
      /\ UNCHANGED <<gatewayVars, room, clientVars, barge, posts, controls, spent>>

\* respond() times out.
VoiceTimeout ==
    /\ voice.phase = "calling"
    /\ voice' = [voice EXCEPT !.phase = "idle"]
    /\ UNCHANGED <<gatewayVars, room, clientVars, barge, netVars>>

\* The reply has been played.
VoiceSpoken ==
    /\ voice.phase = "speaking"
    /\ voice' = [voice EXCEPT !.phase = "idle"]
    /\ Notify(voice.id, "completed")
    /\ UNCHANGED <<gatewayVars, room, clientVars, barge, posts, answers, controls, spent>>

\* interrupt_pipeline: the pipeline is stopped and the interruption sent.
\* The worker's turn stays active after it has been played, so the user's
\* next words interrupt a turn that is over; the first reason stays.
InterruptPipeline(reason) ==
    LET why == IF voice.reason = None THEN reason ELSE voice.reason IN
    /\ voice.id # None
    /\ voice' = [voice EXCEPT !.reason = why, !.phase = "idle"]
    /\ \E done \in IF voice.phase = "idle" THEN {{}} ELSE {{}, {"provider"}} :
         barge' = barge \cup {[id |-> voice.id, reason |-> why, evidence |-> done]}

BargeIn ==
    /\ room /\ open
    /\ Disturbance
    /\ InterruptPipeline("user_barge_in")
    /\ UNCHANGED <<gatewayVars, room, clientVars, posts, answers, controls, packets>>

\* A control packet counts for the generation it names.
ControlArrives ==
    \E c \in controls :
      /\ controls' = controls \ {c}
      /\ IF c.id = voice.id /\ voice.reason = None
           THEN InterruptPipeline(c.reason)
           ELSE UNCHANGED <<voice, barge>>
      /\ UNCHANGED <<gatewayVars, room, clientVars, posts, answers, packets, spent>>

\* The worker's request at the gateway: no session check; a refusal is dropped.
WorkerInterrupt ==
    \E b \in barge :
      /\ barge' = barge \ {b}
      /\ \/ /\ Interrupts(b.id, b.reason)
            /\ InterruptTurn(b.id, b.reason, b.evidence)
            /\ Notify(b.id, "interrupted")
         \/ UNCHANGED <<gatewayVars, packets>>
      /\ UNCHANGED <<room, clientVars, voice, posts, answers, controls, spent>>

\* DataReceived in the browser: adopt an accepted turn whatever is active;
\* take the other states for the active turn, never of an older generation.
ReceivePacket ==
    LET p == Head(packets) IN
    /\ packets # <<>>
    /\ packets' = Tail(packets)
    /\ \/ /\ open /\ p.state = "accepted"
          /\ coord' = [id |-> p.id, gen |-> 0, delivery |-> "in-flight", cut |-> FALSE]
          /\ ui' = [turn |-> "committing", id |-> p.id, gen |-> 0, delivery |-> "in-flight"]
       \/ /\ open /\ p.state = "response-ready"
          /\ ui' = IF Accepts(p.id, 0) /\ UiMatches(p.id, 0) /\ MayMove("thinking")
                     THEN [ui EXCEPT !.turn = "thinking"] ELSE ui
          /\ UNCHANGED coord
       \/ open /\ p.state \in {"completed", "interrupted"} /\ DispatchReconciled(p.id, p.state)
       \/ ~open /\ UNCHANGED <<coord, ui>>
    /\ UNCHANGED <<gatewayVars, room, crossed, call, speech, halt, mic, open, workerVars,
                   posts, answers, controls, spent>>

ClientNext ==
    \/ \E t \in TextTurns : SendText(t) \/ ReceiveAnswer(t) \/ LoseAnswer(t)
                          \/ Lookup(t) \/ ReceiveStatus(t) \/ AcknowledgeSend(t)
    \/ SpeechStarts \/ SpeechEnds \/ ToggleMic \/ EndSession \/ ReceivePacket
    \/ \E h \in Halters : RequestInterrupt(h) \/ PostInterrupt(h) \/ AcknowledgeStop(h)
GatewaySteps == Crash \/ \E t \in Turns : HandleRequest(t) \/ FinishTurn(t)
WorkerNext ==
    \/ \E t \in VoiceTurns : BeginVoice(t) \/ VoiceAnswer(t)
    \/ VoiceTimeout \/ VoiceSpoken \/ BargeIn \/ ControlArrives \/ WorkerInterrupt
Next == ClientNext \/ GatewaySteps \/ WorkerNext

Spec == Init /\ [][Next]_vars

-----------------------------------------------------------------------------
(* Properties. *)

\* What the console shows as completed or interrupted, the ledger says too:
\* lost answers, repeated requests, restarts of the gateway, a Stop that
\* meets the answer and packets that meet a Stop never make it claim a
\* completion that is not recorded, or an interruption that is not.  The one
\* exception is two interruptions under way at a time: the receipt of the
\* first then acknowledges the turn of the second.
ClientTruthful ==
    \A c \in {coord, ui} :
        /\ c.delivery = "completed" => Recorded(c.id, "completed")
        /\ c.delivery = "interrupted" => InState(c.id, "interrupted") \/ crossed
=============================================================================
