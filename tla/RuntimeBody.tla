----------------------------- MODULE RuntimeBody -----------------------------
(***************************************************************************)
(* The conformed runtime body of Aether core, subordinate to the mind:     *)
(*   runtime/body.py                ConformedRuntimeBody and its routes    *)
(*   runtime/budget.py              PersistentBudgetGate                   *)
(*   runtime/tts.py                 AetherTtsAudition                      *)
(*   runtime/mcp.py                 activation and tool calls              *)
(*   runtime/founder_acceptance.py  FounderAcceptance                      *)
(*   runtime/mvp20.py               AetherMvp20Release                     *)
(*                                                                         *)
(* The routes are plain functions that a pool of threads serves, so two    *)
(* requests may meet at any line.  Receipts are counted as present or not; *)
(* evidence handed in with a request is absent, good or bad for each       *)
(* criterion that reads it.                                                *)
(***************************************************************************)
EXTENDS Naturals, FiniteSets

CONSTANTS
    Threads,       \* requests served at the same time
    Amounts,       \* max_amount_usd of requests
    Cap,           \* daily_cap_usd
    MaxDays,       \* days the model looks at
    MaxRequests,   \* requests in all
    ReleaseKeys,   \* the release criteria, each with evidence of its own
    Evidence       \* what a packet's evidence may be: each key absent, good or bad

\* Requests spend nothing or more (max_amount_usd has ge=0.0); a cap below zero
\* would be exceeded by a day on which nothing is spent.
ASSUME BodyAssumption == Amounts \subseteq Nat /\ Cap \in Nat /\ MaxDays \in Nat \ {0}

VARIABLES
    mind,       \* is the mind daemon alive
    today,      \* the UTC date
    budget,     \* the budget file: date and amount spent
    opened,        \* the request each thread serves
    served,     \* requests begun
    unguarded,  \* two requests were open at once
    taken,      \* by day, what Google billed and what runs were given to spend
    holes,      \* days of which the file may tell too little, after a death or an error
    accepted,   \* the requests that were accepted
    receiptLog, \* events in the receipt log
    voice,      \* provider of the last audition in it
    activated,  \* mcp latest activation: the required tools are listed
    mcpLog,     \* events in the MCP server's own receipt log
    record,     \* the Founder's acceptance record
    packet      \* the latest release packet

bodyVars == <<mind, today, budget, opened, served, unguarded, taken, holes, accepted,
              receiptLog, voice, activated, mcpLog, record, packet>>

SpendRequests == [kind : {"run", "tts"}, amount : Amounts, irreversible : BOOLEAN,
             external : BOOLEAN]
Progress0 == [pc |-> "asked", alive |-> FALSE, approved |-> FALSE, by |-> "none",
              billed |-> 0, date |-> 0, spent |-> 0]
NoRecord == [decision |-> "pending", pending |-> {}, criteria |-> {}]
NoPacket == [ready |-> FALSE, pending |-> {}]

BodyInit ==
    /\ mind \in BOOLEAN
    /\ today = 1
    /\ budget = [date |-> 0, spent |-> 0]
    /\ opened = [t \in Threads |-> {}]
    /\ served = 0
    /\ unguarded = FALSE
    /\ taken = [d \in 1..MaxDays |-> 0]
    /\ holes = {}
    /\ accepted = {}
    /\ receiptLog = {}
    /\ voice = "none"
    /\ activated = FALSE
    /\ mcpLog = {}
    /\ record = NoRecord
    /\ packet = NoPacket

proofVars == <<voice, activated, mcpLog, record, packet>>
bookVars == <<budget, taken, holes, accepted>>

-----------------------------------------------------------------------------
(* Requests that may spend                                                 *)

At(t, pc) == \E r \in opened[t] : r.at.pc = pc
The(t) == CHOOSE r \in opened[t] : TRUE
Moves(t, at) == opened' = [opened EXCEPT ![t] = {[The(t) EXCEPT !.at = at]}]
Ends(t) == opened' = [opened EXCEPT ![t] = {}]
Note(event) == receiptLog' = receiptLog \cup {event}

Begin(t, r) ==
    /\ opened[t] = {} /\ served < MaxRequests
    /\ opened' = [opened EXCEPT ![t] = {[ask |-> r, at |-> Progress0]}]
    /\ served' = served + 1
    /\ unguarded' = (unguarded \/ \E u \in Threads : opened[u] # {})
    /\ UNCHANGED <<mind, today, bookVars, receiptLog, proofVars>>

\* record_receipt of a refusal, and the answer.
Refuse(t) == Ends(t) /\ Note("refused") /\ UNCHANGED <<bookVars, served, unguarded>>

\* is_alive: run always asks, an audition only if it may go outside.
CheckMind(t) ==
    /\ At(t, "asked")
    /\ LET r == The(t)
           needs == r.ask.kind = "run" \/ r.ask.external
       IN IF needs /\ ~mind THEN Refuse(t)
          ELSE /\ Moves(t, [r.at EXCEPT !.pc = "budget", !.alive = needs])
               /\ UNCHANGED <<bookVars, served, unguarded, receiptLog>>
    /\ UNCHANGED <<mind, today, proofVars>>

\* snapshot: a file of another day counts as nothing spent.
Spent == IF budget.date = today THEN budget.spent ELSE 0

AllowAnything(amount) == amount <= Cap \* Mutant: what was spent is not counted.

\* PersistentBudgetGate.allow.
Allow(amount) == Spent + amount <= Cap

CheckBudget(t) ==
    /\ At(t, "budget")
    /\ LET r == The(t)
       IN IF (r.ask.kind = "run" \/ r.ask.amount > 0) /\ ~Allow(r.ask.amount) THEN Refuse(t)
          ELSE /\ Moves(t, [r.at EXCEPT !.pc = "judge"])
               /\ UNCHANGED <<bookVars, served, unguarded, receiptLog>>
    /\ UNCHANGED <<mind, today, proofVars>>

\* What the North Star must approve: a run that spends or cannot be undone,
\* an audition that spends outside.
Judged(ask) ==
    IF ask.kind = "run" THEN ask.irreversible \/ ask.amount > 0
                        ELSE ask.external /\ ask.amount > 0

\* evaluate: approved, refused or handed to the Founder, or out of reach.
Evaluate(t, approves) ==
    /\ At(t, "judge")
    /\ LET r == The(t)
           next == IF r.ask.kind = "run" THEN "record" ELSE "speak"
       IN IF ~Judged(r.ask)
          THEN /\ Moves(t, [r.at EXCEPT !.pc = next])
               /\ UNCHANGED <<bookVars, served, unguarded, receiptLog>>
          ELSE IF mind /\ approves
          THEN /\ Moves(t, [r.at EXCEPT !.pc = next, !.approved = TRUE])
               /\ UNCHANGED <<bookVars, served, unguarded, receiptLog>>
          ELSE Refuse(t)
    /\ UNCHANGED <<mind, today, proofVars>>

\* Google and gTTS answer or raise; the local tone always answers.
GoogleCloudTts == {"google-cloud-tts"}
GTtsFallback == {"gtts-fallback"}
LocalWavFallback == {"local-wav-fallback"}

\* AetherTtsAudition.synthesize: external providers only where allowed, in
\* order, then the local fallback.
Synthesize(ask) ==
    LocalWavFallback \cup IF ask.external THEN GoogleCloudTts \cup GTtsFallback ELSE {}

\* The provider that costs money, asked first.  It may bill what then fails:
\* an answer that comes too late or holds no audio is a failure.
AskGoogle(t, bills, answers) ==
    /\ At(t, "speak") /\ The(t).ask.external
    /\ answers => bills
    /\ LET r == The(t)
           owed == bills /\ r.ask.amount > 0
           answer == [r.at EXCEPT !.pc = "answered", !.by = "google-cloud-tts",
                                  !.billed = IF owed THEN today ELSE 0]
       IN /\ taken' = [taken EXCEPT ![today] = @ + IF owed THEN r.ask.amount ELSE 0]
          /\ Moves(t, IF answers THEN answer ELSE [r.at EXCEPT !.pc = "fallback"])
          /\ holes' = holes \cup IF owed /\ ~answers THEN {today} ELSE {}
    /\ UNCHANGED <<mind, today, budget, accepted, served, unguarded, receiptLog, proofVars>>

\* Is it this provider's audio that the audition goes on with?
Speaks(r, provider) ==
    \/ r.at.pc = "answered" /\ provider = r.at.by
    \/ /\ r.at.pc = "fallback" \/ (r.at.pc = "speak" /\ ~r.ask.external)
       /\ provider \in Synthesize(r.ask) \ GoogleCloudTts

\* audition: write the audio and its receipt; only Google's answer is booked,
\* and that comes after.
Audition(t, provider) ==
    /\ opened[t] # {} /\ Speaks(The(t), provider)
    /\ LET r == The(t)
       IN IF r.ask.amount > 0 /\ provider \in GoogleCloudTts
          THEN /\ Moves(t, [r.at EXCEPT !.pc = "record"])
               /\ UNCHANGED accepted
          ELSE Ends(t) /\ accepted' = accepted \cup {[ask |-> r.ask, at |-> [r.at EXCEPT !.by = provider]]}
    /\ Note("tts.audition.completed") /\ voice' = provider
    /\ UNCHANGED <<mind, today, budget, taken, holes, served, unguarded, activated, mcpLog, record, packet>>

\* PersistentBudgetGate.record reads the file and then writes it.
ReadBudget(t) ==
    /\ At(t, "record")
    /\ Moves(t, [The(t).at EXCEPT !.pc = "write", !.date = today, !.spent = Spent])
    /\ UNCHANGED <<mind, today, bookVars, served, unguarded, receiptLog, proofVars>>

WriteBudget(t) ==
    /\ At(t, "write")
    /\ LET r == The(t)
       IN /\ budget' = [date |-> r.at.date, spent |-> r.at.spent + r.ask.amount]
          /\ IF r.ask.kind = "run"
             THEN /\ taken' = [taken EXCEPT ![r.at.date] = @ + r.ask.amount]
                  /\ Note("body.run.accepted")
             ELSE UNCHANGED <<taken, receiptLog>>
          /\ accepted' = accepted \cup {r}
    /\ Ends(t)
    /\ UNCHANGED <<mind, today, holes, served, unguarded, proofVars>>

-----------------------------------------------------------------------------
(* MCP                                                                     *)

\* activate: the manifest, the server's receipt, then the activation record.
Activated == activated' = TRUE /\ mcpLog' = mcpLog \cup {"mcp.activation.completed"}

\* The body's route notes the request in the body's log too.
ActivateRoute ==
    /\ Activated
    /\ Note("mcp.activation.requested")
    /\ UNCHANGED <<mind, today, bookVars, opened, served, unguarded, voice, record, packet>>

\* _dispatch_tool raises if an argument is missing or the mind fails.
DispatchTool(ok) == IF ok THEN "mcp.tool.completed" ELSE "mcp.tool.failed"

\* call_tool: nothing is asked of a mind that is not alive.
CallTool(known, ok) ==
    /\ mcpLog' = mcpLog \cup {IF known /\ mind THEN DispatchTool(ok) ELSE "mcp.tool.refused"}
    /\ UNCHANGED activated

\* Messages of the JSON-RPC server that change anything: initialize, tools/call.
HandleMessage ==
    /\ Activated \/ \E known, ok \in BOOLEAN : CallTool(known, ok)
    /\ UNCHANGED <<mind, today, bookVars, opened, served, unguarded, receiptLog, voice, record, packet>>

-----------------------------------------------------------------------------
(* Acceptance and release packets                                          *)

\* A criterion that reads evidence only: absent is pending, bad is a failure.
Mapped(e, k) == CASE e[k] = "good" -> "pass" [] e[k] = "bad" -> "fail" [] OTHER -> "pending"

\* _mcp_activation_criterion: the evidence, else the activation on disk.
McpAccepted(e) == IF e["mcp"] = "absent" /\ activated THEN "pass" ELSE Mapped(e, "mcp")

\* _tts_fallback_criterion: good evidence, else the last audition's receipt.
TtsAccepted(e) ==
    IF e["tts"] = "good" \/ voice \in GTtsFallback \cup LocalWavFallback
    THEN "pass" ELSE "pending"

ReceiptAccepted == IF receiptLog # {} THEN "pass" ELSE "pending"

\* build_packet of the acceptance: the required criteria.
AcceptanceCriteria(e) ==
    {<<"runtime_body", "pass">>, <<"receiptLog", ReceiptAccepted>>, <<"tts", TtsAccepted(e)>>,
     <<"senses", Mapped(e, "senses")>>, <<"mcp", McpAccepted(e)>>, <<"founder", "pass">>}

PendingOf(criteria) == {c[1] : c \in {d \in criteria : d[2] # "pass"}}

\* accept: blocked on pending evidence unless the Founder allows it.
Accept(e, allowPending) ==
    LET criteria == AcceptanceCriteria(e)
        pending == PendingOf(criteria)
        ok == pending = {} \/ allowPending
    IN /\ record' = IF ok THEN [decision |-> IF pending = {} THEN "accepted"
                                             ELSE "accepted_with_boundaries",
                                pending |-> pending, criteria |-> criteria]
                    ELSE record
       /\ Note(IF ok THEN "founder.acceptance.recorded" ELSE "founder.acceptance.blocked")
       /\ UNCHANGED <<mind, today, bookVars, opened, served, unguarded, voice, activated, mcpLog, packet>>

\* _mcp_criterion of the release: the body's report, else the evidence.
McpReleased(e) == IF activated THEN "pass" ELSE Mapped(e, "mcp")

\* _founder_criterion: the base conformance says nothing of the acceptance,
\* so only evidence counts.
FounderReleased(e) == Mapped(e, "founder")

ReleaseCriteria(e) == {<<k, Mapped(e, k)>> : k \in ReleaseKeys}

\* The body conforms and says its fallback voice is proven, always.
BaseConformance == {<<"runtime_body", "pass">>, <<"tts", "pass">>}

\* mvp20_packet: build, persist and note; status reads the last one.
BuildPacket(e) ==
    LET criteria == BaseConformance \cup ReleaseCriteria(e) \cup
                    {<<"senses", Mapped(e, "senses")>>, <<"mcp", McpReleased(e)>>,
                     <<"founder", FounderReleased(e)>>}
    IN /\ packet' = [ready |-> PendingOf(criteria) = {}, pending |-> PendingOf(criteria)]
       /\ Note("mvp20.packet.generated")
       /\ UNCHANGED <<mind, today, bookVars, opened, served, unguarded, voice, activated, mcpLog, record>>

-----------------------------------------------------------------------------
(* The environment and the specification                                   *)

MindChanges ==
    /\ mind' = ~mind
    /\ UNCHANGED <<today, bookVars, opened, served, unguarded, receiptLog, proofVars>>

\* Requests are gone.  What one was billed for is in no book; the budget file is
\* written in place, and one that was cut short counts as nothing spent.
Stops(S) ==
    /\ \E t \in S : opened[t] # {}
    /\ opened' = [t \in Threads |-> IF t \in S THEN {} ELSE opened[t]]
    /\ LET unbooked == {r.at.billed : r \in UNION {opened[t] : t \in S}} \ {0}
       IN \/ UNCHANGED budget /\ holes' = holes \cup unbooked
          \/ /\ \E t \in S : At(t, "write")
             /\ budget' = [date |-> 0, spent |-> 0]
             /\ holes' = holes \cup unbooked \cup {today}
    /\ UNCHANGED <<mind, today, taken, accepted, served, unguarded, receiptLog, proofVars>>

BodyDies == Stops(Threads)

\* A file that cannot be written or read ends the one request.
Raises(t) == Stops({t})

Midnight ==
    /\ today < MaxDays
    /\ today' = today + 1
    /\ UNCHANGED <<mind, bookVars, opened, served, unguarded, receiptLog, proofVars>>

SpendRoutes ==
    \E t \in Threads :
      \/ \E r \in SpendRequests : Begin(t, r)
      \/ CheckMind(t) \/ CheckBudget(t) \/ ReadBudget(t) \/ WriteBudget(t) \/ Raises(t)
      \/ \E bills, answers \in BOOLEAN : AskGoogle(t, bills, answers)
      \/ \E approves \in BOOLEAN : Evaluate(t, approves)
      \/ \E p \in GoogleCloudTts \cup GTtsFallback \cup LocalWavFallback : Audition(t, p)

ProofRoutes ==
    \/ ActivateRoute \/ HandleMessage
    \/ \E e \in Evidence : BuildPacket(e) \/ \E allow \in BOOLEAN : Accept(e, allow)

BodyNext == SpendRoutes \/ ProofRoutes \/ BodyDies \/ MindChanges \/ Midnight

BodySpec == BodyInit /\ [][BodyNext]_bodyVars

-----------------------------------------------------------------------------
(* Properties                                                              *)

BodyTypeOK ==
    /\ mind \in BOOLEAN /\ today \in 1..MaxDays
    /\ budget \in [date : 0..MaxDays, spent : Nat]
    /\ taken \in [1..MaxDays -> Nat] /\ holes \subseteq 1..MaxDays
    /\ \A t \in Threads : Cardinality(opened[t]) <= 1
    /\ accepted \subseteq [ask : SpendRequests, at : [pc : {"speak", "fallback", "answered", "write"}, alive : BOOLEAN,
           approved : BOOLEAN, by : Synthesize([external |-> TRUE]) \cup {"none"},
           billed : 0..MaxDays, date : 0..MaxDays, spent : Nat]]

\* Nothing is accepted that the mind, found alive in the same request, did not
\* approve where it had to, and no outside voice is used without leave.  As long
\* as requests have come one at a time, what was taken today is within the cap
\* and, once no request is open, told by the budget file, over midnight,
\* restarts and errors too.  Excepted are the days that lost something: on
\* which Google billed an audition that failed, or that a death or an error kept
\* from the file, or on which one cut the file short; the days after them are
\* not (body.py run and audition_tts, budget.py; README, Known gaps).
SpendingGoverned ==
    /\ \A r \in accepted :
         /\ r.ask.kind = "run" => r.at.alive /\
              (r.ask.irreversible \/ r.ask.amount > 0 => r.at.approved)
         /\ r.at.by \in GoogleCloudTts \cup GTtsFallback => r.ask.external /\ r.at.alive
         /\ r.at.by \in GoogleCloudTts /\ r.ask.amount > 0 => r.at.approved
    /\ ~unguarded /\ today \notin holes =>
         /\ taken[today] <= Cap
         /\ (\A t \in Threads : opened[t] = {}) => taken[today] <= Spent

\* A plain acceptance stands on a packet in which every required criterion
\* passed; a boundary is in the record by name (founder_acceptance.py accept).
AcceptanceTruthful ==
    /\ record.decision = "accepted" => \A c \in record.criteria : c[2] = "pass"
    /\ \A c \in record.criteria : c[2] # "pass" => c[1] \in record.pending

\* The body claims no leave it was not given: neither for what it spends nor
\* for what the Founder has accepted.
LeaveGiven == SpendingGoverned /\ AcceptanceTruthful
=============================================================================
