---------------------------- MODULE MCLifecycles ----------------------------
(* The components that share no state with one another, in one run for TLC:  *)
(* the first state chooses the one that moves.                                *)
EXTENDS OAuthEdge, Evolution, Skills, Ventures, Knowledge, Conversation,
        DriverStream, Executive, RuntimeBody, MissionValue, ServiceHost, TLC

CONSTANTS Foci,   \* the components that are looked at
          e1, e2  \* episodes

VARIABLE focus

-----------------------------------------------------------------------------
(* Instances                                                               *)

MCSourceOf == (e1 :> 1) @@ (e2 :> 2)
MCMarkedFor == [e \in {e1, e2} |-> [claim |-> "w1", key |-> "k1", polarity |-> 1]]
\* Two names with one slug, and one with a slug of its own.
MCSlug == [n \in {"n1", "n2", "n3"} |-> IF n = "n3" THEN "s2" ELSE "s1"]

MCChannelOf == ("chat" :> "telegram") @@ ("page" :> "browser")

\* Missions of one or two steps, well formed or not, and one of three steps.
First == [id : {1}, work : {<<"work", 1>>}, artifact : {<<"file", 1>>},
          deps : {{}, {2}}, principal : {Nobody, "p1"}]
Second == [id : {1, 2}, work : {<<"work", 1>>, <<"work", 2>>},
           artifact : {<<"file", 1>>, <<"file", 2>>},
           deps : {{}, {1}, {2}, {3}}, principal : {Nobody, "p1", "p2"}]
MCDirectives ==
    [steps : {<<a>> : a \in First} \cup {<<a, b>> : a \in First, b \in Second},
     principal : {"p1", "p9"}, maxSteps : {1, 2}, distinct : BOOLEAN, bound : BOOLEAN]
    \cup {RuleDirective(3, "p1", <<>>), RuleDirective(3, "p1", <<"p1", "p2", "p9">>)}

\* All evidence is absent, or all is good but one key at most.
EvidenceKeys == {"tts", "senses", "mcp", "founder"} \cup ReleaseKeys
MCEvidence ==
    LET good == [k \in EvidenceKeys |-> "good"]
    IN {[k \in EvidenceKeys |-> "absent"], good} \cup
       {[good EXCEPT ![k] = v] : k \in {"tts", "mcp"}, v \in {"absent", "bad"}}

-----------------------------------------------------------------------------
(* The component in focus moves, the others keep their first state.        *)

LifecyclesInit ==
    /\ focus \in Foci
    /\ vendor \in IF focus = "stream" THEN Vendors ELSE {"claude"}
    /\ present \in IF focus = "stream"
                   THEN {{}, {"binary"}, {"binary", IF vendor = "opencode" THEN "key" ELSE "login"}}
                   ELSE {{}}
    /\ directive \in IF focus = "executive" THEN Handed ELSE {CHOOSE d \in Handed : Len(d.steps) = 1}
    /\ deliverables \in IF focus = "executive"
                        THEN [{StepSpec(s).artifact : s \in Plan} ->
                                {Nobody, [Envelope(1) EXCEPT !.mission = "other"]}]
                        ELSE {[a \in {StepSpec(s).artifact : s \in Plan} |-> Nobody]}
    /\ mind \in IF focus = "spend" THEN BOOLEAN ELSE {TRUE}
    /\ EdgeInit /\ EvoInit /\ SkillsInit /\ VenturesInit /\ KnowledgeInit
    /\ ConversationInit /\ DriverInit /\ ExecutiveInit /\ BodyInit /\ ValueInit
    /\ HostInit

\* Tokens are interchangeable: they are issued in order.  Bound on the edge: one
\* call is let through.
EdgeFocus ==
    /\ EdgeNext
    /\ proxied # Idle => UNCHANGED callVars
    /\ \A i, j \in Tokens : i < j /\ refresh'[j] # Unused => refresh'[i] # Unused

\* Bound on sources: the catalog is configured once at most.
SourcesNext ==
    /\ WebRoutes \/ ScoutRoute \/ \E a \in Adapters : ReceiptLapses(a)
    /\ Len(settings'["cat"]) <= 1

\* Bound on ventures: the live source is configured once and the catalog never,
\* none is discovered, no receipt lapses, and sources rest once a candidate is
\* decided.
VenturesFocus ==
    /\ VenturesNext
    /\ settings'["a1"] \in {<<"off">>, <<"off", "s1">>} /\ settings'["cat"] = <<>>
    /\ discoveries' = {} /\ \A a \in Adapters : receipt'[a].state # "expired"
    /\ (\E o \in opportunities : decisions[o].what # "none") => UNCHANGED webVars

\* Bound on knowledge: every proposal takes a side, the first and the third in
\* the same words.
KnowledgeFocus ==
    /\ KnowledgeNext
    /\ \A n \in DOMAIN proposals' :
          proposals'[n].says.polarity # 0 /\ (n # 2 => proposals'[n].says.claim = "w1")
    /\ rebuildCut' => Len(proposals') <= 1

\* Bound on conversations: the two stores fail together or not at all, and only
\* the chat is cleared.
ConversationFocus ==
    /\ ConversationNext
    /\ (history' # history /\ clears' = clears) <=> memories' # memories
    /\ clears' # clears => history'["page"] = history["page"]

\* Bound on streams: a warning or a line that is not JSON comes first or not at
\* all, and the event past the limit, which ends the task, is of one kind; the
\* hidden file becomes other text while the new one is not there yet.
StreamNext ==
    /\ DriverNext
    /\ copy'["f2"] # "none"
    /\ copy'["f3"] # "same" => copy'["f3"] = "text" /\ copy'["f2"] = "same"
    /\ Len(said') > 1 => said'[2] \notin {"warning", "malformed"}
    /\ Len(said') > MaxEvents => said'[Len(said')] = "progress"

SpendNext == SpendRoutes \/ BodyDies \/ MindChanges \/ Midnight

\* Bound on packets: one audition that costs nothing, one MCP receipt.
ProofNext ==
    /\ SpendRoutes \/ ProofRoutes
    /\ served' <= 1 /\ Cardinality(mcpLog') <= 1
    /\ \A t \in Threads : \A r \in opened'[t] : r.ask.amount = 0 /\ r.ask.kind = "tts"

\* Bound on value: a second brief comes before any mission, missions are for
\* external value, and the second begins when the first has evidence.
ValueFocus ==
    /\ ValueNext
    /\ \A v \in ValueMissions : execution'[v] # "none" =>
          Len(briefs') = 1 /\ briefs'[1].lane = "external-value"
    /\ \A v, w \in ValueMissions : v < w /\ execution'[w] # "none" => values' # <<>>

LifecyclesNext ==
    /\ UNCHANGED focus
    /\ IF focus = "edge" THEN EdgeFocus ELSE UNCHANGED edgeVars
    /\ IF focus = "evolution" THEN EvoNext ELSE UNCHANGED evoVars
    /\ IF focus = "skills" THEN SkillsNext ELSE UNCHANGED skillVars
    /\ CASE focus = "sources" -> SourcesNext
         [] focus = "ventures" -> VenturesFocus
         [] OTHER -> UNCHANGED venturesVars
    /\ IF focus = "knowledge" THEN KnowledgeFocus ELSE UNCHANGED knowledgeVars
    /\ IF focus = "conversation" THEN ConversationFocus ELSE UNCHANGED conversationVars
    /\ IF focus = "stream" THEN StreamNext ELSE UNCHANGED driverVars
    /\ IF focus = "executive" THEN ExecutiveNext ELSE UNCHANGED executiveVars
    /\ CASE focus = "spend" -> SpendNext
         [] focus = "proof" -> ProofNext
         [] OTHER -> UNCHANGED bodyVars
    /\ IF focus = "value" THEN ValueFocus ELSE UNCHANGED valueVars
    /\ IF focus = "host" THEN HostNext ELSE UNCHANGED hostVars

lifecycleVars == <<focus, edgeVars, evoVars, skillVars, venturesVars, knowledgeVars,
                   conversationVars, driverVars, executiveVars, bodyVars, valueVars,
                   hostVars>>

LifecyclesSpec == LifecyclesInit /\ [][LifecyclesNext]_lifecycleVars
=============================================================================
