---------------------------- MODULE Conversation ----------------------------
(***************************************************************************)
(* The cognition gateway and its conversation store (cognition/gateway.py, *)
(* session.py), the event path from a perception to an expression          *)
(* (senses/path.py), and the surfaces that talk to it: Telegram            *)
(* (adapters/telegram_bot.py), the chat route, and the approval routes     *)
(* whose outcome is told in the conversation that asked for the action     *)
(* (approvals/coordinator.py).                                             *)
(*                                                                         *)
(* Turns overlap wherever the code awaits: a model call, an action, the    *)
(* delivery of a message.  Telegram's updates are handled one at a time.   *)
(* A turn stops at its first action that needs approval, so a turn's       *)
(* number also names its approval.  The inbox's own steps are those of     *)
(* GovernedActions, taken here as its contract.                            *)
(***************************************************************************)
EXTENDS Integers, Sequences, FiniteSets

CONSTANTS Sessions,       \* conversation sessions
          ChannelOf,      \* the surface of each: "telegram", "browser", "http"
          OperatorChat,   \* the trusted operator's private Telegram chat
          MaxMessages,    \* max_messages of the conversation store
          MaxActionRounds, \* max_action_rounds of a turn
          MaxTurns,       \* bound: perceptions
          MaxClears       \* bound: conversations cleared

ASSUME ConversationAssumption ==
    /\ ChannelOf \in [Sessions -> {"telegram", "browser", "http"}]
    /\ MaxMessages \in Nat /\ MaxMessages >= 2
    /\ MaxActionRounds \in Nat

VARIABLES history,    \* the stored messages of each session
          turns,      \* the turns, in the order they were asked
          inbox,      \* the approval row of each turn
          deciding,   \* decisions being carried out: [turn, via, step]
          memories,   \* the records appended to the memory fabric
          sent,       \* the messages Telegram was given
          clears

conversationVars == <<history, turns, inbox, deciding, memories, sent, clears>>

TurnIds == DOMAIN turns
Chats == {s \in Sessions : ChannelOf[s] = "telegram"}

Stages == {"hearing", "thinking", "acting", "speaking", "delivered", "failed"}
InFlight == {"hearing", "thinking", "acting", "speaking"}
Rows == {"none", "pending", "executing", "consumed", "rejected", "expired"}
Steps == {"acknowledging", "executing", "telling"}

Messages == [role : {"user", "system", "assistant"}, of : 1..MaxTurns]
TurnRecords == [session : Sessions, stage : Stages, round : Nat]
DecisionRecords == [turn : 1..MaxTurns, via : {"http", "telegram"},
                    approved : BOOLEAN, step : Steps]
MemoryRecords == [of : 1..MaxTurns, kind : {"turn", "resume"}]
Deliveries == [chat : Chats, of : 1..MaxTurns, kind : {"answer", "card", "result"}]

ConversationTypeOK ==
    /\ history \in [Sessions -> Seq(Messages)]
    /\ turns \in Seq(TurnRecords)
    /\ inbox \in [TurnIds -> Rows]
    /\ deciding \subseteq DecisionRecords
    /\ memories \in Seq(MemoryRecords)
    /\ sent \in Seq(Deliveries)
    /\ clears \in 0..MaxClears

SessionOf(t) == turns[t].session
Channel(t) == ChannelOf[SessionOf(t)]

\* An update or a button press is being handled.
TelegramBusy ==
    \/ \E t \in TurnIds : Channel(t) = "telegram" /\ turns[t].stage \in InFlight
    \/ \E d \in deciding : d.via = "telegram"

----------------------------------------------------------------------------
\* The conversation store.

Trimmed(h) ==
    IF Len(h) > MaxMessages
    THEN SubSeq(h, Len(h) - MaxMessages + 1, Len(h))
    ELSE h

\* Both messages of an exchange are appended in one transaction; a store that
\* fails is noted on the expression and the turn goes on.
Exchange(s, pair) ==
    \/ history' = [history EXCEPT ![s] = Trimmed(@ \o pair)]
    \/ UNCHANGED history

Record(r) ==
    \/ memories' = Append(memories, r)
    \/ UNCHANGED memories

Clear(s) ==
    /\ clears < MaxClears
    /\ clears' = clears + 1
    /\ history' = [history EXCEPT ![s] = <<>>]
    /\ UNCHANGED <<turns, inbox, deciding, memories, sent>>

----------------------------------------------------------------------------
\* A turn.

Moved(t, stage) == turns' = [turns EXCEPT ![t].stage = stage]

Asked(s, stage) ==
    /\ Len(turns) < MaxTurns
    /\ turns' = Append(turns, [session |-> s, stage |-> stage, round |-> 0])
    /\ inbox' = Append(inbox, "none")
    /\ UNCHANGED <<history, deciding, memories, sent, clears>>

\* POST /api/chat, where a command clears the session; the browser's turns
\* come through the same path.
ChatRoute(s) ==
    /\ ChannelOf[s] # "telegram"
    /\ Clear(s) \/ Asked(s, "thinking")

Update(s) == ChannelOf[s] = "telegram" /\ ~TelegramBusy

ClearCommand(s) == Update(s) /\ Clear(s)

TextUpdate(s) == Update(s) /\ Asked(s, "thinking")

VoiceUpdate(s) == Update(s) /\ Asked(s, "hearing")

\* The recording is downloaded and transcribed, or that fails.
Transcribed(t) ==
    /\ turns[t].stage = "hearing"
    /\ \/ Moved(t, "thinking")
       \/ Moved(t, "failed")
    /\ UNCHANGED <<history, inbox, deciding, memories, sent, clears>>

\* The perception and what is answered: a text, or that approval is awaited.
AnswerPair(t) == <<[role |-> "user", of |-> t], [role |-> "assistant", of |-> t]>>

\* The action's receipt and what is said of it: done, failed, or only that the
\* approval was consumed.
ResultPair(t) == <<[role |-> "system", of |-> t], [role |-> "assistant", of |-> t]>>

\* respond's tail: the exchange is stored and recorded and the expression is
\* handed to the sense.
Expressed(t) ==
    /\ Exchange(SessionOf(t), AnswerPair(t))
    /\ Record([of |-> t, kind |-> "turn"])
    /\ Moved(t, "speaking")

\* The model's answer: a text, nothing at all, or proposals, which the last
\* round may not make.
ModelAnswers(t) ==
    /\ turns[t].stage = "thinking"
    /\ \/ Expressed(t)
       \/ Moved(t, "failed") /\ UNCHANGED <<history, memories>>
       \/ /\ turns[t].round < MaxActionRounds
          /\ Moved(t, "acting")
          /\ UNCHANGED <<history, memories>>
    /\ UNCHANGED <<inbox, deciding, sent, clears>>

\* A proposal of the round returns: the next one is executed, the round ends,
\* the executor fails, or the action is left pending and the turn ends with a
\* request for approval, whose continuation is saved.
ActionReturns(t) ==
    /\ turns[t].stage = "acting"
    /\ \/ /\ turns' = [turns EXCEPT ![t].stage = "thinking", ![t].round = @ + 1]
          /\ UNCHANGED <<history, memories, inbox>>
       \/ Moved(t, "failed") /\ UNCHANGED <<history, memories, inbox>>
       \/ inbox' = [inbox EXCEPT ![t] = "pending"] /\ Expressed(t)
    /\ UNCHANGED <<deciding, sent, clears>>

\* An answer is a card with controls when the turn awaits approval.
AnswerKind(t) == IF inbox[t] = "none" THEN "answer" ELSE "card"

Express(t, kind) ==
    IF Channel(t) = "telegram"
    THEN sent' = Append(sent, [chat |-> SessionOf(t), of |-> t, kind |-> kind])
    ELSE UNCHANGED sent

\* The sense expresses the answer, or cannot.
Speak(t) ==
    /\ turns[t].stage = "speaking"
    /\ \/ /\ Moved(t, "delivered")
          /\ Express(t, AnswerKind(t))
       \/ Moved(t, "failed") /\ UNCHANGED sent
    /\ UNCHANGED <<history, inbox, deciding, memories, clears>>

\* A perception on its way to an expression.
Handle(t) == ModelAnswers(t) \/ ActionReturns(t) \/ Speak(t)

----------------------------------------------------------------------------
\* Decisions on an approval.

\* A request made in Telegram is decided in its own chat; one made by voice or
\* in the browser only in the operator's private chat; others not in Telegram.
CallbackChatMatches(t, chat) ==
    \/ Channel(t) = "telegram" /\ chat = SessionOf(t)
    \/ Channel(t) = "browser" /\ chat = OperatorChat

\* Mutant: every approval that has a result continues the conversation.
FreshIfResult(t, approved) ==
    approved /\ inbox[t] \in {"pending", "executing", "consumed"}

\* An approval that is decided and carried out now, not one answered from its
\* stored result.
Fresh(t, approved) == approved /\ inbox[t] = "pending"

\* What the decision does at once: it is the first and starts the action, or
\* refuses it, or finds the row settled or claimed and is answered so.
DecideRow(t, via, approved, others) ==
    \/ /\ Fresh(t, approved)
       /\ inbox' = [inbox EXCEPT ![t] = IF @ = "pending" THEN "executing" ELSE @]
       /\ deciding' = others \cup
             {[turn |-> t, via |-> via, approved |-> TRUE, step |-> "executing"]}
    \/ /\ ~approved /\ inbox[t] = "pending"
       /\ inbox' = [inbox EXCEPT ![t] = "rejected"]
       /\ deciding' = others
    \/ /\ ~Fresh(t, approved) /\ inbox[t] # "pending"
       /\ others # deciding
       /\ deciding' = others
       /\ UNCHANGED inbox

DecideOverHttp(t, approved) ==
    /\ inbox[t] # "none"
    /\ DecideRow(t, "http", approved, deciding)
    /\ UNCHANGED <<history, turns, memories, sent, clears>>

\* /approve, /reject, /yes and /no.
DecisionCommand(t, chat, approved) ==
    /\ ~TelegramBusy
    /\ inbox[t] # "none"
    /\ CallbackChatMatches(t, chat)
    /\ DecideRow(t, "telegram", approved, deciding)
    /\ UNCHANGED <<history, turns, memories, sent, clears>>

\* An inline control is acknowledged to Telegram before it is carried out.
ApprovalCallback(t, chat, approved) ==
    /\ ~TelegramBusy
    /\ inbox[t] # "none"
    /\ CallbackChatMatches(t, chat)
    /\ deciding' = deciding \cup
          {[turn |-> t, via |-> "telegram", approved |-> approved, step |-> "acknowledging"]}
    /\ UNCHANGED <<history, turns, inbox, memories, sent, clears>>

CallbackAnswered(d) ==
    /\ d.step = "acknowledging"
    /\ DecideRow(d.turn, "telegram", d.approved, deciding \ {d})
    /\ UNCHANGED <<history, turns, memories, sent, clears>>

Expire(t) ==
    /\ inbox[t] = "pending"
    /\ inbox' = [inbox EXCEPT ![t] = "expired"]
    /\ UNCHANGED <<history, turns, deciding, memories, sent, clears>>

\* The approved action ends, well or badly: its result is stored and told in
\* the conversation that asked, and Telegram is given the follow-up.
ResumeAfterApproval(d) ==
    /\ d.step = "executing"
    /\ inbox' = [inbox EXCEPT ![d.turn] = "consumed"]
    /\ Exchange(SessionOf(d.turn), ResultPair(d.turn))
    /\ Record([of |-> d.turn, kind |-> "resume"])
    /\ deciding' = (deciding \ {d}) \cup
          (IF Channel(d.turn) = "telegram" THEN {[d EXCEPT !.step = "telling"]} ELSE {})
    /\ UNCHANGED <<turns, sent, clears>>

FollowUp(d) ==
    /\ d.step = "telling"
    /\ deciding' = deciding \ {d}
    /\ \/ Express(d.turn, "result")
       \/ UNCHANGED sent
    /\ UNCHANGED <<history, turns, inbox, memories, clears>>

\* The gateway stops: turns and decisions in flight are gone, an action that
\* was executing leaves its row claimed.
GatewayRestarts ==
    /\ deciding # {} \/ \E t \in TurnIds : turns[t].stage \in InFlight
    /\ turns' = [t \in TurnIds |->
                    IF turns[t].stage \in InFlight THEN [turns[t] EXCEPT !.stage = "failed"]
                    ELSE turns[t]]
    /\ deciding' = {}
    /\ UNCHANGED <<history, inbox, memories, sent, clears>>

----------------------------------------------------------------------------
ConversationInit ==
    /\ history = [s \in Sessions |-> <<>>]
    /\ turns = <<>> /\ inbox = <<>>
    /\ deciding = {}
    /\ memories = <<>> /\ sent = <<>>
    /\ clears = 0

ConversationNext ==
    \/ \E s \in Sessions : ChatRoute(s) \/ ClearCommand(s) \/ TextUpdate(s) \/ VoiceUpdate(s)
    \/ \E t \in TurnIds :
          \/ Transcribed(t) \/ Handle(t) \/ Expire(t)
          \/ \E approved \in BOOLEAN :
                \/ DecideOverHttp(t, approved)
                \/ \E chat \in Chats :
                      DecisionCommand(t, chat, approved) \/ ApprovalCallback(t, chat, approved)
    \/ \E d \in deciding : CallbackAnswered(d) \/ ResumeAfterApproval(d) \/ FollowUp(d)
    \/ GatewayRestarts

ConversationSpec == ConversationInit /\ [][ConversationNext]_conversationVars

----------------------------------------------------------------------------
Occurrences(log, x) == Cardinality({i \in DOMAIN log : log[i] = x})

\* The result of an approved action is told at most once and not before it was
\* carried out, however often and from how many surfaces the approval is
\* decided, and through a restart at any point.
\* The code relies on this where ApprovalCoordinator.decide continues the
\* conversation for an outcome that is not replayed.
ToldOnce ==
    \A t \in TurnIds :
        /\ Occurrences(memories, [of |-> t, kind |-> "resume"]) <= 1
        /\ Cardinality({i \in DOMAIN sent : sent[i].of = t /\ sent[i].kind = "result"}) <= 1
        /\ \A i \in DOMAIN memories :
              memories[i] = [of |-> t, kind |-> "resume"] => inbox[t] = "consumed"

\* What a conversation remembers is whole exchanges, newest last: a message is
\* followed by its own answer, whatever turns overlap, end in an approval or
\* resume after it, and wherever clearing and trimming cut.  The model is given
\* this as its context.
ExchangesIntact ==
    \A s \in Sessions : LET h == history[s] IN
        /\ Len(h) <= MaxMessages
        /\ \A i \in DOMAIN h : (Len(h) - i) % 2 = 0 =>
              /\ h[i].role = "assistant"
              /\ i > 1 => h[i - 1].role # "assistant" /\ h[i - 1].of = h[i].of

\* What a conversation remembers and says is whole and said once.
ConversationIntact == ToldOnce /\ ExchangesIntact
=============================================================================
