# A TLA+ verification project for Aether

Aether is a single-founder "AI OS": a Python core (`aether-core`), an HTTP and messaging
gateway (`aether-gateway`), primitive tools (`aether-tools`), browser and desktop consoles,
and deployment scripts.  The text it produces is not the subject here.  This project models
the parts that decide *whether, when and how often something happens in the outside world*,
and what the records say about it afterwards; checks them with TLC on small instances; and
proves central properties with TLAPS for instances of every size.

Contents: [inventory](#inventory) · [modules](#modules-and-how-they-correspond-to-the-code) ·
[runs](#runs) · [bounds](#bounds) · [fairness](#fairness) · [proofs](#proofs) ·
[known gaps](#known-gaps-of-the-code) · [not modelled](#what-is-not-modelled) · [plan](#plan)

Below, `core/` stands for `aether-core/src/aether/`, `gw/` for
`aether-gateway/src/aether_gateway/`.

## Inventory

| part | state it keeps | operations | correct when |
|---|---|---|---|
| Governed action path (`core/actions/path.py`, `failure.py`, `core/governance/actions.py`) | event journal, open failure signatures, registry of active executions | `execute`, `cancel_action`, `reconcile_action` | nothing reaches a backend without authority; one approval is one execution |
| Trusted approval inbox (`core/actions/approval.py`) | rows of pending actions, approval records, cached results | `create_or_get`, `decide`, `claim`, `finalize`, `expire_due` | decided once, consumed once, every grant settles |
| Page projection of actions (`gw/browser_senses/actions.py`) | none: a replay of the journal | status, controls | the page and the controls tell one outcome |
| Mission orchestrator (`core/missions/`, `gw/missions/execution.py`) | transitions, decisions, step attempts, value evidence, outcomes | intake, plan, `decide`, `run`, `pause`, `cancel`, evidence, `finalize` | approved before executed, one effect per step, completion records and verified value are true |
| Coordination bridge APCB (`core/apcb/`) | JSONL log of receipts, index in memory | `dispatch`, `reconcile` | a key is prompted once across restarts; definitive outcomes stay; polling closes what is left |
| Cognitive executive (`core/executive/cognitive_*.py`, `core/missions/live_runner.py`) | the mission it runs, the receipts it reads | reason, plan, govern, dispatch, decide next | steps count as done only on their own worker's delivery, dependencies first |
| Provider router (`core/resilience/runtime.py`) | SQLite row per provider | choose, reserve, request, release, record | slots are accounted for, budgets hold |
| Browser turns (`gw/browser_senses/turns.py`, `service.py`, `worker.py`, the console's JavaScript) | turn ledger; the page's own state | send, answer, stop, barge-in, reconcile | cognition once per turn; page and ledger agree |
| Browser access (`gw/browser_senses/bootstrap.py`, `grants.py`, `vision.py`) | pairings, devices, challenges, bindings, sessions, grants, consents, raw frames | pair, exchange, open, close, revoke, consent, frame, sweep | no frame of a closed session; raw bytes go |
| OAuth edge (`gw/oauth_edge/`) | requests in memory, rows in the inbox, refresh tokens | authorize, login, approve, reject, token, revoke, proxy | the Founder's answer and scopes hold in both processes; one line of tokens per consent |
| Coding runtime (`gw/runtime_sdk/`, `gw/runtime_drivers/`, `core/runtimes/router.py`) | workspace files, staging, backups; streams of vendor processes | candidates, fallback, stage, verify, apply, roll back | all or nothing, verified first, whole results only, every task ends |
| Fleet operations (`gw/runtime_operations/`, driver pack) | jobs, incidents, receipts | four jobs, operator answers | incidents agree with the fleet; lasting trouble triggers learning |
| Internal evolution (`core/evolution/`, `gw/evolution/`) | triggers, candidates, decisions, lineage, workspace files | trigger, propose, evaluate, decide, roll back | the ledger accounts for the workspace |
| Skills and capabilities (`core/skills/`, `core/capabilities/router.py`, `gw/skills/`) | candidates, skills, pointer files | propose, benchmark, decide, archive, use | registry and pointers agree; a request is done once |
| Web sources, opportunities, experiments (`core/web_intelligence/`, `core/opportunities/`, `core/experiments/`, `gw/…`) | configurations, receipts, evidence, candidates, mandates, plans, runs | configure, conform, acquire, scout, select, mandate, plan, run, review | evidence only from what was tried out; every run is backed |
| Knowledge and memory (`core/knowledge/`, `core/memory/`) | canonical records, index, proposals, notes | remember, rebuild, propose, curate, decide, project | promoted knowledge agrees with itself and is found |
| Conversation (`core/cognition/`, `core/senses/path.py`, Telegram, approvals) | history, memories, inbox | message, model rounds, approval, clear | whole exchanges, results told once and to the one who asked |
| Runtime body (`core/runtime/`) | budget file, receipts, packets, acceptance | run, audition, MCP, packet, accept | spending has leave; acceptance stands on its packet |
| Home snapshot (`scripts/aether_home_snapshot.py`) | directories and manifests | export, verify, import | what is imported is one snapshot, over what was there |
| Capability stages (`core/capabilities/lifecycle.py`) | the JSONL log of stages | advance | stages one by one, one principal at a time |
| Behaviour monitor (`aether-tools/…/quarantine.py`) | windows of events, quarantine and its file | record, clean, trigger, restart | a burst is noticed, a quarantine kept |
| Voice (`core/voice/`, `core/resilience/provider.py`) | manifest, circuit | load, synthesize, the worker's command | only what was agreed to leaves the machine; a failing provider is spared |
| Service host (`deploy/windows/aether-windows-service.py`) | child, job object, reported state | start, stop, kill | no orphan |

The rest is listed in `PROJECT.json` with a reason each.

### How they interact

Web inbox, Telegram, browser sessions, MCP tools and missions are all *clients*: each HTTP
request is a coroutine or a pool thread that calls the components and may be dropped by its
caller.  A mission step is an action proposal; when the governor asks for a decision, the
mission waits for an approval row that another client decides, and a later `run` reads the
cached result.  The OAuth edge is another process that decides rows of the same inbox.  The
page replays the journal of the action path; a conversation tells the outcome of an approval;
fleet incidents and failed missions become evolution triggers; the executive drives missions
whose steps the bridge dispatches.  Model calls go through the router.  Shared state is in
SQLite, JSONL and JSON files, which survive a stop of the process; registries and indexes are
in memory and do not.

### What is hard

* **Interleaving at awaits and between pool threads.**  What was read before an await, or in
  another transaction, may be false after it.
* **Dropped callers and late answers.**  Executions are shielded: the caller goes, the effect
  comes.  Packets, HTTP answers and worker files arrive late, twice or not at all.
* **Crashes between two writes.**  Claim and finalize, effect and attempt, prompt and receipt,
  reservation and release, revoke and re-issue, replace and record, and the middle of an append.
* **Retries of what was done.**  Re-proposals, second approvals, polls, fallback, failover.
* **Clocks.**  Expiry of approvals, leases, codes and receipts; cooldowns; midnight.

`PROJECT.json` lists these as hazards, each at its line and with the properties about it.

## Modules and how they correspond to the code

`MC*` modules give instances for TLC, `*Proofs` modules extend the module they are about.  A
definition whose comment starts with "Mutant" is a plausible mistake in the definition that
follows it; no specification uses it, and replacing the definition by it must break a property.
`PROJECT.json` maps every definition to its lines; the head of each module says what a step is
and what is abstracted.  In all modules a step is one transaction, one file operation or one
stretch between two awaits, whichever the code interleaves at.

| module | models | composed with |
|---|---|---|
| `ApprovalContract` | what ADR-0010 promises of an action that needs a decision | implemented by `GovernedActions` |
| `ApprovalAnswer` | what `approval_result` tells whoever waits for an approval | implemented by `GovernedActions`, and relied on by `MissionOrchestrator` |
| `GovernedActions` | path and inbox; a *request* is a call of `execute` or `decide_and_resume`, its *task* the shielded execution | |
| `BrowserActions` | the projector of the Senses page: its answer is carried along and fed with the events of each step | extends `GovernedActions` |
| `MissionOrchestrator` | one mission; a *run* is a call of `run()`; `Overlaps` names what the environment does beyond one operator who waits | approvals as `ApprovalAnswer`, which `GovernedActions` implements |
| `MissionValue` | briefs, plans, value evidence, `finalize` against evidence recorded meanwhile | execution open or over, as in `MissionOrchestrator` |
| `ApcbDispatcher` | receipts, torn appends, restarts, dispatch, reconcile; panes external | |
| `Executive` | directive, plan, closed loop, live runner, late workers | mission store and dispatcher as the loop sees them |
| `ProviderRouter` | `invoke` in concurrent threads, one step per transaction | |
| `TurnLedger` | turn claims and outcomes, cognition, restarts | |
| `SensesTurns` | console, worker, lost and repeated messages, Stop, barge-in | extends `TurnLedger` |
| `VisionLifecycle` | consent leases and raw frames | |
| `SensesAccess` | pairing to session, grants, close, revocation, sweeps, two requests served at a time | extends `VisionLifecycle` |
| `OAuthEdge` | requests, rows decided by two processes, codes, rotation, proxy | the gateway's inbox as `GatewayMoves` |
| `CodingRuntime` | candidates and fallback, staging, apply and roll back, other programs that edit | |
| `DriverStream` | vendor tool, driver and gateway: three processes, two pipes | what `CodingRuntime` calls an attempt |
| `FleetOperations` | jobs, incidents, receipts, triggers, operators | proved about in `ProviderRouterProofs` |
| `Evolution` | triggers to lineage over files that others edit | |
| `Skills` | factory, installer, capability router | actions as contract |
| `Ventures` | sources, evidence, candidates, mandates, experiments | |
| `Knowledge` | canonical memory, index, proposals, decisions, notes | |
| `Conversation` | turns, Telegram, approvals told back | inbox as contract |
| `RuntimeBody` | body, budget, audition, MCP, acceptance, packet | |
| `HomeSnapshot` | overlapping exports, fallback copy, import | |
| `Stages` | the stages of a mutation surface: commands that overlap and die, lines glued to torn ones | |
| `Quarantine` | the behaviour monitor: windows cleaned by threads without a lock, the quarantine and its file, the epoch | |
| `Voice` | the exact-text runtime: manifest, privacy gates, circuit breaker; the worker's command | |
| `ServiceHost` | service_main, control handler, job | |

Details that a reader of the code will look for:

* *Actions.*  `status`, `held`, `expires`, `result`, `records` are the rows of
  `PendingActionStore`; `seen` and `last` the journal of an action; `active` the registry
  `_active_executions`; `ctl*` the founder's controls.  The policy is abstracted to which actions
  it auto-approves or vetoes, hashes to equality of proposals.  Browser ids are fresh, so an
  action that the controls can reach is proposed once.
* *Missions.*  `attempts` keeps the rows with their insertion order, because `latest_attempt`
  orders by `started_at, rowid` and a resumed attempt keeps the `started_at` of the waiting one.
  `completions` counts how often a step was carried out and said so, `effects` how often it took
  effect: a backend that raises or times out is reported failed, whether or not it had.
* *Bridge.*  `index` is the memory of the process, `disk` what the next one would read, `torn` an
  unfinished last line, to which the next record is glued and with which it is lost at a restart.
* *Router.*  `at` is the clock that `invoke` read before the choice; it is used again for
  reservation and release, while results are recorded with a new one.
* *Turns.*  An interruption moves a turn from generation 0 to 1.  The page's state is
  `client_state.js`; `turn_generation.js` decides which answers still count.
* *Access.*  `req` holds, for each request being served, its route and what it has read.
* *OAuth.*  `handler` is the route between two of its transactions; only the gateway's process,
  the clocks and a crash move meanwhile.  `proxied` is the last tool call that went upstream, with
  whether its body could be checked.
* *Ventures.*  Live sources start with a disabled placeholder, static catalogs with no
  configuration at all, which is what the eligibility guard of the mesh lets through unasked.
* *Coding.*  A file's content is known by who wrote it; `eventLoop` is the task between two file
  operations, when no other coroutine can move but other programs can: an edit may fall between
  the comparison of a file's hash (`CheckFile`) and its replacement (`ApplyFile`).  `waits` names
  the two awaits that nothing bounds.
* *Streams.*  `said` is what the tool wrote, `frames` what the driver wrote; each driver keeps its
  own rule of what counts as success.  A file of `copy` is text, binary, missing or as it was; the
  driver's snapshots (`Before`, `After`) hold text in the allowed and not ignored paths only.
* *Body.*  `taken` is the money itself, what Google bills and what runs are given, by day; `budget`
  is the file.  A request carries the day it was `billed` on until it is booked.

## Runs

Every property of a passing run is broken by a mutant (see `PROJECT.json`).

| run | instance | what it shows |
|---|---|---|
| `actions_faults` | 3 actions (cancelable browser, plain tool, vetoed), 3 requests, 2 controls, expiry, drops, crashes, the page beside them | `ExecutedAtMostOnce`, `DispatchAuthorized`, `DecisionFinal`; `PageAgrees`: the page shows an action settled exactly when controls are told so, with the same outcome, and its replay raises only on the histories named in `Unforeseen`; the refinement `ImplementsContract` |
| `actions_live` | 2 actions, 3 requests, 1 control, fair, no faults | `GrantedSettles`: a granted approval ends consumed, also if it is then denied, blocked or fails |
| `mission_serial` | 3 steps, one with a retry reason, 5 runs of one step, no overlap | `ApprovedBeforeExecution`, `StepEffectOnce` (nothing carried out is carried out again, nothing that failed is repeated but as the plan allows): what a patient operator can rely on |
| `mission_overlap` | 3 steps, 2 runs of up to three, all overlaps and crashes | `CompletedTruthful`: completion records are true and dependencies come first whatever clients do |
| `mission_review_pause` (violation) | pause during review | `ApprovedBeforeExecution` fails: see the finding |
| `apcb_bridge` | 1 work item, 2 attempts, torn appends, restarts, polled | `PromptedIsRecorded`, `PromptedOnce`, `DefinitiveIsFinal`, and the liveness `EndedMissionCloses` |
| `router_calls` | 2 providers, 3 calls, a midnight, stops; or 3 exports of 2 files and two imports, into an empty destination or over another file; or 2 commands for 2 principals; or 2 threads, 3 events and a restart; or 3 calls of a voice | `SlotsAreRequests`, `BudgetHoldsInDay`; `RestoredWhole`; `StagesTrue`; `QuarantineHolds`; `SpeechGoverned` |
| `senses_turns` | 2 typed turns and a spoken one, at most 2 of them sent, 2 disturbances (loss, repetition, restart) | `OneStory` (with `CognitionOnce`: a turn is had once), `ClientTruthful` |
| `senses_access` | 1 device, 1 session, 1 consent, 2 frames, 2 requests at a time, 1 disturbance | `NoFrameOnceShut` (an action property), `RawFramesGo` (liveness) |
| `coding_runtime` | 2 tasks, 2 files, a vendor and the structured body, 2 attempts, 1 fault | `ProductionSound` (`AllOrNothing` and `VendorContentVerified`), `TaskEnds` (liveness) |
| `fleet_operations` | 1 driver, 4 jobs, 2 events | `IncidentsSettle`, `PersistentTroubleTriggers` (liveness) |
| `lifecycles` | thirteen foci, see below | one invariant or two for each component that shares no state with another |

`lifecycles` and `router_calls` check several specifications in one state space: the first state
chooses a `focus`, and only that component moves.  Nothing is gained or lost against separate
runs, since the components share no variable.  What the foci show:

* *edge*: `ConsentHonoured` (a code only for an approved row, a denial only for a rejected one,
  scopes as shown to the Founder, in tokens and in the proxied calls whose body could be checked),
  `OneLinePerConsent`;
* *evolution*: `LedgerAccounts`; *skills*: `SkillsSound` (registry and pointers
  agree, with names that share a slug among the three, and a request is done once);
* *sources*, *ventures*: `EvidenceConformed`, `RunsBacked`; *knowledge*: `KnowledgeAgrees`;
* *conversation*: `ConversationIntact`; *stream*: `WholeResult`; *executive*: `DeliveredInOrder`;
* *spend*, *proof*: `LeaveGiven`; *value*: `VerifiedFromRealized`; *host*: `LeavesNoOrphan`.

To repeat one: `tlc -config RouterCalls.cfg MCProviderRouter`.

### Bounds

* `MaxTime`, `Ttl` (actions): with a time to live of 1, a clock up to 2 passes before, at and
  after the expiry of a row that was created late.
* `Requests` (actions): three calls suffice for a proposal and two competing decisions, or a
  decision, a re-proposal and a late resumption.  Three `Actions` are one of each kind and share
  one failure signature, so that a failure of one blocks another.  Proofs cover every size.
* `Runs`, `StepsPerRun` (missions): serially, five runs of one step pass the attempt budget and
  the retry limit, and a step with a retry reason fails after its effect as often as it may be
  tried; with overlaps, two runs of up to three steps cross at every await.
* `Attempts` (bridge): two attempts meet the gate on earlier receipts, the pane that still shows
  the first task and the artifact that the second overwrites.
* `DailyLimit = 2`, `ConcurrencyLimit = 1`, `FailureThreshold = 2`, `MaxTime = DayLength`
  (router): three calls exceed each limit, a circuit opens and cools down, and midnight falls
  between any two steps of a call; one of the three records no failure: the other two
  open the circuit that it meets.  Three exports: one that is killed or published, one that copies
  into or removes its output, and, where an output may be removed, one that comes after; the
  destination holds a file at first where directories are renamed at once, and after an import
  that ended early everywhere.
* `MaxLines = 7` (stages): one principal is proven and the other active.  `WindowLength = 1`,
  `MaxClock = 2`, `MaxRecords = 3` (quarantine): an event falls out of the window, and two of the
  others are a burst; tool calls and errors stand for all four metrics, whose code is the same.
  `VoiceThreshold = 2`, `VoiceCooldown = 2`, `MaxVoiceTime = 3`, `MaxVoiceCalls = 3` (voice): two
  failures open the circuit, it cools down, and the third call is its probe.
* `MaxTurns = 2`, `MaxDisturbances` (turns): a Stop of one turn meets the answer of the other;
  two disturbances are, say, a lost answer and a restart before the reconciliation.
* Access: one session suffices for a close against an activation, a frame and a consent; the
  second frame is only sent while nothing was disturbed, which `MCSensesAccess` states.
* `MaxFaults`, `MaxAttempts` (coding): one edit, crash or repeated command at any moment, and a
  fallback after each kind of failure.
* `MaxEvents`, `MaxSpent`, `MaxReceipts` (fleet): the driver changes twice, the budget is passed
  and renewed receipts age again.
* Lifecycles: the constants in `Lifecycles.cfg`, and the restrictions that `MCLifecycles` writes
  down as "Bound on": a live source and a catalog, the catalog configured once at most in *sources*
  and never in *ventures*; two tokens are one rotation, and one call of *edge* is let through; two missions are the evidence of another; three steps are a dependency chain.

`CHECK_DEADLOCK FALSE` where a finite number of requests, runs, calls or events simply ends.

### Fairness

* `actions_live`: weak fairness of `Continue(r)` (the event loop resumes a coroutine that can go
  on) and of `TaskStep(r)` (assumed of the backends, which are external: a call returns or
  raises).  None for clients, the founder or the clock.  Crashes and dropped requests are
  excluded: ADR-0011 states that a row claimed at a crash stays `executing`.
* `apcb_bridge`: weak fairness of the dispatch in progress, sequential code with bounded waits,
  and strong fairness of `Reconcile(k)`: the command line polls every receipt again and again,
  whatever is dispatched in between.  None for agents, restarts, the end of the mission.
* `senses_access`: weak fairness of the sweeper, a loop of the gateway that a restart starts again.
* `coding_runtime`: weak fairness of a task's own steps, the event loop; a vendor need never end
  its stream, the time-out of the gateway is a step of the task.  Two awaits have no time-out, and
  no fairness here: the request is written to the driver before the time-out runs
  (`external_stream.py:497-499`), and a killed process is waited for with its pipes
  (`external_stream.py:731-732`, `local_coding.py:305`), which a descendant may keep open.
  `TaskEnds` is about the tasks that are not left for ever in one of the two.
* `fleet_operations`: strong fairness of each job that is due (the scheduler polls, and jobs take
  the lock in turn) and weak fairness of the job in progress.  None for operators and drivers.

## Proofs

Checked by TLAPS for every value of the constants; the assumptions are the named `ASSUME`s of
the modules: types of the constants, that `None`, `Unsaid`, `NoFile` or `NoTime` is no member of
the sets it is added to where that matters, that the calls of the router are finitely many, that
a mission's plan is one the code accepts (`ValidPlan`: dependencies go back), that a directive has
at least one step, that a voice's threshold and cooldown are positive, that a task of the coding
runtime is not confused with an edit by hand, and that what a body may spend is not negative
(`ge=0.0` in `body.py:97,113`; of the cap, a configuration, the code checks no such thing, but a
cap below zero would be exceeded by spending nothing).  Two theorems about missions assume more of the environment,
and say so in their statement.

**`GovernedActionsProofs`.**  `TypeCorrect` proves the types with two facts they need to be
inductive: a request that goes on carries a proposal, and a row holds a proposal for its own
action.  `SafetyInvariant` then proves `Inbox` together with `DecisionFinal`.  `Inbox` connects
row, claim and task: tasks are created at the end of a preflight only (`NoTaskYet`); a request
that goes on with an approval carries the proposal that its row holds (`ResumedHoldsRow`); once
it has claimed, the row is executing or consumed (`OwnerClaimed`); no two requests have claimed
the same action (`OneOwner`); a task was auto-approved or started before the expiry
(`TaskAuthorized`).  Without it nothing rules out a second request between claim and dispatch.
From it follow `AtMostOnce`, `OnlyAuthorized` and `DecisionsAreFinal`.

The same module proves the refinement `PathImplementsContract`: the abstract approval contract
sees of an action only whether a decision was asked for, given, refused, claimed and settled, and
of its effects their number; each action of the path is shown to be one of the contract's steps
or a stutter, which takes `SafetyInv` for the claim and the dispatch (`ContractMoves`,
`RequestContract`).  `PageOnlyWatches`: the specification that the runs check, with the page beside
the path, implements `GovernedActions`, step by step, so that what is proved of the path holds of
it (`BrowserAtMostOnce`, `BrowserImplementsContract`).

A mission does not follow an approval move by move: `approval_result` reads the row and answers
nothing, completed or not.  `ApprovalAnswer` is that interface.  `PathAnswersTruly` proves that the
path implements it, with completed meaning that the journal says so, and `AnswersStandTrue` what
it comes to: an answer is final and true of the action.  This needs `ResultInv` beside `SafetyInv`: only a task
that has ended has a result, the row of a gated action stays claimed while its task runs, and the
journal says of a gated action what its one task returned.  So the cached result of a row cannot say completed
after a cancellation whose late result was discarded, nor failed after one that came too late.  It assumes
that `None` is not the name of a result.  `MissionAsksOnce`, in `MissionProofs`, is the other side.
TLC agrees with both refinements on the constants of `actions_faults` and `mission_overlap`.

`PageIsTruthful` proves `PageAgrees` of every policy and every set of actions, requests and controls,
from `None` not being the name of an event.  Its invariant has two layers.  `Paths` speaks of the
path alone: row, journal and latest terminal event of a browser action agree (`Stages`), one request
at a time is on its way to the backend with it (`OneRunner`) and has nothing terminal before it
unless a cancellation came first (`RunnerStands`), a control that waits is about an execution that
was requested (`ControlsReach`), and who executed is not who decides again (`ExecutorKnown`); the
last one is why an approval announced late is always a second one.  `Told` then says what the page
can show at each stage, and the lemmas go through the steps with the events that each one appends.

**`MissionProofs`.**  `CompletedIsTruthful` rests on `MissionInv`: a step in flight or awaiting an
approval has its dependencies completed (`Grounded`), the result a run carries and the row it
writes say "ok" only for a step that was carried out, and attempts keep the order of their
insertion, because the orchestrator takes the latest attempt for a step's state.  It holds for
overlapping runs and any crash.  `ReviewComesFirst` assumes that nobody pauses a mission
under review (`"review" \notin Overlaps`), the finding below being the reason.  `EffectsAreOnce` assumes
that runs do not overlap and none is lost while it awaits a step (`"run"` and `"crash"` not in
`Overlaps`), which is what the code relies on: then everything an ungated step carried out has its
row or is about to get it (`Solid`, `Fresh`), and a gated one is carried out as its approval is
consumed.  What it may have done in attempts reported failed is bounded by their number
(`RepeatInv`): an attempt follows a failed one only with a retry reason and up to `max_attempts`.
`MissionAsksOnce` proves that a mission, whatever overlaps, uses its approvals as `ApprovalAnswer`
allows, so that its own `approval` may stand for the governed action path, of which the same is
proved; an approval settled in one step of the mission is `Confirm` or `Decline` there.  With it
`GatedStepsAreOnce` needs no assumption on `Overlaps`, as `EffectsAreOnce` does: runs that overlap
or are lost may repeat a free step, never one that needs approval (`GatedInv`).
`CompletedMissionIsCarriedOut` holds with any overlap too: only the head of the loop of `run()` reports
completion (`CompletedByRun`), over rows that are true, and nothing carried out is undone.
The minimum and maximum that the code chooses exist by the least-number principle (`LeastNatural`,
from the well-foundedness of the naturals).  `VerifiedValueIsRealized`: rows are only appended,
every verification names a realized row of its own mission, and so what `finalize` reads for a
mission is closed under "verifies" and stays so.

**`SensesTurnsProofs`.**  `LedgerTellsOneStory` for the ledger alone: the events of a turn have one of
a few shapes (`OneTurn`), and only a claimed turn starts.  `SessionUsesLedger`: every step of
console, worker and wires is a step of the ledger's specification or leaves it alone, so that the
ledger's theorem holds in the session too.  `ConsoleIsTruthful` needs what is on its way:
each answer, packet, utterance and receipt says what the ledger already says (`Told`), each row
of the page what it was told (`Shown`), and the ledger only grows, so that nothing said becomes
false.  `NoFrameAfterClose`, an action property of `SensesAccess`: a lease that is not active
stays so (`LeasesFade`), and a session joins `shut` only as its leases are revoked.  A request that
read an open session before that may still be at any step (`Sound`), but it names a lease that was
granted then, and `accept_frame` looks at the lease again.  A session that is shut stays closed, for
its challenge is used up by one request (`IssuedOnce`), so that no late issue opens it again; an
activation that does takes it out of `shut`.

**`ApcbDispatcherProofs`.**  `BridgeInvariant`: the index knows what the log knows
(`AheadOfLog`); the claim of the dispatch in progress has ended any torn line, so that its
reference is on disk before its prompt is sent (`InFlight`).  The order "claim, reference,
prompt" is what the argument turns on: the claim is the append that a torn line swallows.  From
it `BridgeTypes`, `DurableIdentity`, `NoDuplicateDispatch`, and with two more facts
`TerminalUniqueness`, an action property.

**`ProviderRouterProofs`.**  `SlotsCountRequests`: of a row only `in_flight` matters; each
transaction keeps it or moves it with the set of operating calls, whose cardinality the finite
set theorems give.  That a call under way has chosen a provider makes it inductive.
`BudgetHolds`: as long as every transaction uses a clock of the present day, a row only moves
to that day, and it counts the requests of the day it is at (`Counts`), so that the check under the
lock is a check of what was sent.  `SpendsWithLeave` is about the body: a request has, at the line it
stands at, the leave that the lines before it ask for (`HasLeave`); a lone one finds room for its
amount over what the file tells, or it belongs to a day that has passed (`FindsRoom`); and the file
tells what was taken today, but for what that one request still owes it (`Told`).  With two at once
the books need not balance, and the property does not say so; a bill that a failure, an error or a
death keeps from the file, or a file cut short, takes its day out (`holes`), not the days after it.
The fleet's two run properties are liveness; what its jobs may never do on the way is proved of
any drivers, receipts and limits, from an invariant about the holder of the lock (`FleetInv`): its
list is of its own job's incidents, what it resolves it has not found, and what it sweeps is severe
and was seen twice, which neither a crash, a failed job nor an operator between two writes takes
back.  `SweepTriggersEarned`: every learning trigger is of such an incident.  `JobsShareTheTable`:
unless an operator, a fault or the fleet itself moves, an incident is written only by the job that
manages its kind, and no sighting or trigger is forgotten.  `FoundIsNotResolved`: a job never
resolves what it found, even if an operator opened it again meanwhile.  These three are no run's
property.

**`LifecyclesProofs`.**  Components that may act only on what was agreed.  OAuth edge,
`OneConsentOneLine`: a request whose code was exchanged is gone from memory and never comes back;
before that it has no token and none is being issued; from then on its line is carried by one
live token or by the handler that consumed it, never by both.  `ConsentIsHonoured`: an answer in
the gateway's row stays, and so does what the row asked (`AnswersStay`); a request says "approved"
only after the row does; what is issued, live, in a call or proxied is within what the row of its
request showed (`Fine`, `Vouched`), which a rotation only narrows; a call that went upstream
unchecked has its caller vouched for, not its tool (`Proper`).  Ventures,
`EvidenceIsConformed`: a receipt that says "passed" names an enabled configuration with a passed
canary, and so does a fetch that is awaited, whatever is configured after, unless it is from a
catalog without a configuration (`Vetted`).  The theorem says nothing of what catalogs hold.  `RunsAreBacked`: the
reasons of a run, link by link (`BackedInv`), none of which is taken back.  Evolution,
`LedgerIsComplete`: a promotion that stands leaves its baseline and enters its new content, so the
ledger counts, per content, as many arrivals as departures but for the original and the present
one (`LeadsTo`, a statement about cardinalities that `OneMore` moves by one).  A row with a
lineage but no decision is a failed write, and its file is set apart (`RowsTrue`); a rollback of
that row would otherwise take back a promotion that was never counted.  Conversation,
`ConversationIsIntact`: of the decisions on one row at most one carries it out and tells of it, the
others only acknowledge (`RowsAreDecidedOnce`), so that it is resumed and told once
(`ResultsAreTold`); messages pair up counted from the newest (`Paired`), which appending an exchange
keeps, and so does trimming, wherever it cuts.  Streams,
`ResultIsWhole`: the frames carry what the driver has emitted, nothing before it compared and all
new or changed text in what it compares once it ended well (`FramesCarry`), the host has read a part of them, all of it when
it returns (`HostFollows`), and nothing read so far held a failure unknown to the driver (`ReadWell`).

**`UpkeepProofs`.**  Four components that keep a home in order.  `ImportRestoresOneSnapshot`: every
manifest in sight (temporary directory, output, import) is one that an export sealed, an export
seals once, and an import reports success only with every listed file in place, having touched no
other (`Untouched`).  `StagesAreTrue`:
without overlap the advance a command is about to append is still allowed by the log it will meet;
a line that is torn, and the one glued to it, are lost together, so that what remains
was granted by what remains (`AllBut`, `Stepwise`).  The attempt to prove `OnePrincipal` in the form "of
two active principals one is proven" failed, and TLC has the reason: once one is proven a second
and a third may be active together, for the gate asks for one proven principal, not for the
others to be.  The property now says what the gate grants.  `MonitorHolds`: a window holds a
suffix of what was recorded, and what it lacks is old (`Faithful`), so that it counts at least the
recent events; a window is over its limit only while a thread is on its way to the trigger;
every file says what memory says unless a thread is saving.  `SpeechIsGoverned`: the failures
that the circuit counts are the failed calls since the last success (`Pending`), an open circuit
was opened no earlier than the last of them, a half-open one has cooled down, and what
is at the provider was admitted by both (`Admitted`).

**`AgentProofs`.**  The agent at work.  `DeliveryIsInOrder`: a worker is prompted only for a step
that is ready, which a plan that can be ranked always has while a step is left (`SomeStepIsReady`);
a step with a receipt is never dispatched, so two steps that share a work id never both have a
worker, and a file that says it is of this mission and this work is that worker's
(`Honest`, `VerifiedWrote`).  The steps done only grow, which keeps what was prompted in
order.  `SkillsAreSound`: for a name without a decision cut short, one skill at most
holds it, no other of the name is pointed at, and the holder is, unless another name has the same
slug (`Agrees`), through every order of activation, supersession, staleness and archive; what a
call has waiting and what was done for it are one action together (`OneAction`).
`KnowledgeIsConsistent`: contradictions and duplicates are looked for once, when a proposal is made,
but of two that collide the later one says so, unless the earlier one was rejected before and
stays rejected (`Noticed`); what says so is not promoted, and what is promoted has its record first
(`Grounded`).
`ProductionIsSound`: while nothing was disturbed one attempt at a time has replaced files (`Alone`),
the copy it keeps of each is what production should hold (`Kept`), so that a roll back restores it;
contents a vendor wrote are verified wherever they are found, in copies too (`AllVouched`),
which no crash changes; and what an attempt is about to replace is still what it compared
(`Compared`), for no other task has the event loop and an edit there disturbs.
`NoOrphanIsLeft`: a running child is in the job from its assignment on, a closed job has nothing
that runs, and every way to the end of `service_main` passes a kill or a close
(`HostInv`).

**Only model-checked:** liveness (`GrantedSettles`, `EndedMissionCloses`, `RawFramesGo`,
`TaskEnds`, `IncidentsSettle`, `PersistentTroubleTriggers`), since fairness is out of this
prover's reach.  Every other property of a run is a theorem.

## Known gaps of the code

Where the model shows, or reading for it showed, that the code does less than a document, a
comment or a reader would expect.  The pause under review is the one that a run demonstrates
(`mission_review_pause`); the properties of the other runs say what the code does guarantee.

**Governed actions.**  Two concurrent cancels both reach the backend: `cancel_action` does not
look again for an intent after awaiting `_cancel_supported` (`actions/path.py:376`), while
`test_governed_action_path.py:250` asserts one call.  The page's projector raises, and every
later status call answers HTTP 409, when an approved action is refused after all (QUEUED to
REJECTED or UNAVAILABLE is not in the transition table), when an action is both cancelled and
reconciled, or when a second approver's event is emitted after execution began.

**Missions.**  A mission paused while it waits for review can be resumed and executed without
the review (`orchestrator.py:349`).  A pause or cancel during an awaited step is overwritten by the run; two runs of
one mission execute a step twice; a crash between a step's effect and its receipt repeats it
(`orchestrator.py:274`, ADR-0035:43); a first decision after cancel and finalize under review
revives the mission (ADR-0035:30).  A backend that raises or times out after its side effect is
reported failed (`actions/path.py:242-243`), and a step with an `explicit_retry_reason` is then
executed again (`orchestrator.py:255-274`): `StepEffectOnce` bounds how often.  Several verifications of one realized row may sum to more
than it (ADR-0035:26-28 holds per row only); a realized row without an amount backs any verified
amount; evidence recorded while the outcome is drawn up is not counted.

**APCB.**  After a restart a second principal may claim a work item whose first attempt is still
open (`receipt_store.py:200`); `reconcile` turns an observed "done" into "completed" without
verifying the artifact (`dispatcher.py:563`); a mission that ends "stopped" or "rejected" is
unknown to the observer (`dispatcher.py:412`); a poll before the artifact is published moves a
receipt to reconciling, and later polls no longer look for the artifact (`dispatcher.py:458`); the record
appended after a torn line is lost at the next restart (`receipt_store.py:64`).

**Executive and drivers.**  Two steps may share an artifact name; a crash mid-loop leaves the
mission RUNNING with an open receipt; `BoundedDirectiveGuard` has no caller.  Killing a driver on
timeout does not kill the vendor tool behind it; OpenCode needs no completion event.
The snapshots that a driver compares pass over files with NUL bytes, files that are not UTF-8 and
files under ignored directories without a word (`driver_common.py:66-76`, `codex_cli.py:175-186`,
`opencode_cli.py:209-220`): a task can succeed with a binary file that the tool added or changed
missing from its patches.  `WholeResult` is about the text they compare; text that the tool turns
into binary counts as deleted and fails.

**Provider router.**  A half-open circuit lets several probes through (the baseline document
says one); a call that loses the race for the last slot raises an error of unknown kind and gives
up; a stop leaks its slot; a call that uses the store with yesterday's clock moves the day row
back, and the daily limit may be passed.

**Browser senses.**  Stop on a turn that is committing throws in the client
(`client_state.js:138`) though the interaction contract promises it; interrupting a failed turn
leaves the client interrupting; a replayed "accepted" leaves it reconciling; a barge-in before
the POST arrives gets 404 and the turn runs; a barge-in marks an already played voice turn
interrupted.  Device touch, binding append and mark-active write stale reads; a `revoke_device`
cut short by a crash is not resumed; a session issued while its device is revoked keeps its
LiveKit grant; a frame that cannot be deleted aborts `sweep_orphans`; a consent granted while
the session closes stays active until its lease ends.

**OAuth edge.**  After login the redirect to `next` mints a new request though the comment says
"SAME authorization request"; approving the row in the general inbox consumes it, so that the
edge can never issue its code; a crash between the revocation of a refresh token and its
replacement loses the line; a refresh that names no client yields a token bound to none.  The
scope check of `mcp_proxy` is inside `except Exception: pass` (`oauth_edge/server.py:1005-1006`): a
body on which it raises (a batch, `params` that are no object, text that does not decode) is
forwarded unchecked under the MCP token, with its caller's scopes in a header, though the docstring
says that enforcement "stays deny-by-default (TOOL_SCOPE_MAP) for ALL sources".  `ConsentHonoured`
claims nothing of the tool in such a call.

**Coding runtime.**  An edit of a file between the comparison of its hash
(`external_stream.py:759-762`) and `os.replace` (773), while the backup and the new content are
written, is overwritten by the patch, and by nothing restored: `AllOrNothing` says nothing once that
happened (`disturbed`).  A driver that does not read its request, when the request is larger than a
pipe, keeps its task for good, and so does a killed process whose descendant holds its pipes; the
finally block's `proc.wait()` is taken to be of the second kind.  The structured body rolls back after an awaited verification and overwrites
what other tasks patched meanwhile; a crash mid-apply leaves production partly patched, for
`production-backup` is never read; a cancelled task is not rolled back; verification covers the
staging copy, from which production may differ in files not patched.

**Fleet.**  Changes to a job made while it runs are overwritten when it is rescheduled;
fingerprints that contain counts never reach a second occurrence while the number moves; runs
left RUNNING by a crash are never finished; acknowledging a resolved incident reopens it; a crash
between `register_trigger` and `mark_cee_trigger` registers a second trigger.  `resolve_absent` and
the sweep read the 1000 incidents seen last (`store.py:434,475`); the model has no more than that.

**Evolution and skills.**  A crash between `promoter.promote` and `decide` leaves promoted
content with no decision; an orphan lineage blocks its candidate for good; an older lineage can
be rolled back while a later one with equal content is live.  Skill names with one slug share a
pointer file (`skills/local.py:28-34,174,183`, and `governance.py:93` does not forbid it): the one
activated later takes it over, and archiving that one leaves the first active without a pointer,
so `SkillsAgree` says of such names only that no stale holder is pointed at; a failed activation leaves a record ACTIVE without a decision.

**Web intelligence and experiments.**  Re-entering an earlier configuration is silently ignored
(`UNIQUE(adapter_id, configuration_hash)`), so that disabling a source a second time answers
`enabled=false` while it stays enabled; the guard of the mesh lets an adapter without a
configuration through (`server.py:410-411`), so what a scout run finds in the two static catalogs
(361-390) becomes evidence, and counts as an independent source, with no receipt or canary;
a discovered source, and an external review, can be both
accepted and rejected; `runner.run` does not look at the mandate again; several plans under one
mandate may together exceed its cost.

**Knowledge and conversation.**  A crash between `_promote_record` and `decide` leaves a record
without a decision; a proposal blocked by a contradiction stays blocked after the other is
rejected; mission outcomes marked `knowledge_candidate: True` are never curated, for the curator
takes dictionaries only.  Turns in flight at a restart are lost; an action executing at a restart
is never told of; a clear during a turn is followed by that turn's append.

**Runtime body.**  The daily budget's `allow` and `record` are check-then-act between pool
threads.  Google bills an audition, and its receipt is written (`body.py:484`), before
`budget.record` (491-492): a death or an error between them leaves spending that the file never
tells, and so does a bill for an answer that counts as failed, after which a free voice speaks.
What an audition may cost is the request's word: one that says 0, the default, is neither judged nor
booked.  The budget file is written in place (`budget.py:75`), and one that a death cut short counts
as nothing spent (`budget.py:46-47`).  A run is booked before its receipt (`body.py:388-396`), one
step here: a death between them leaves it booked though never accepted.  The first founder acceptance on a fresh body is refused for lack of receipts, and the
refusal writes one; an accepted founder record does not satisfy `founder_attestation`.

**Home snapshots and the service host.**  A second export to the same output can remove the
first one's published snapshot in its clean-up; files are copied while the gateway writes, so
that a snapshot may mix moments; a failed import leaves a partial destination.  With
`--allow-nonempty` (and, under `provisioning-evidence`, without it) an import goes over what the
destination holds, reports `imported`, and looks at the listed files only: other files survive, so
that the destination is then a snapshot on top of them, which is what `RestoredWhole` says.  A helper that
the child starts before it is assigned to the job object, and the child itself when the host is
killed in that window, are orphaned; a child that outlives the kill makes `service_main` raise
without reporting STOPPED.

**Capability lifecycle.**  As soon as two principals have a line in the log and none is proven,
neither can become active (`lifecycle.py:313`), though the comment above says that "the first
principal may advance freely"; a wired second principal is enough.  Commands that overlap read
the log before the other's line, and two principals may become active or proven; the MCP server
reads the log once, so that what it shows is stale until it is restarted.

**Behaviour monitor.**  Two threads that clean a window at the same time may pop an event that
still counts; a process that dies while it saves the quarantine loses it.
`check_quarantine_release` has no caller, so a quarantine never ends though the profiles give it a
`cooldown_minutes: 30`; and its "strict" profile is only reported (`server.py`), no tool asks for
it.  Profiles that cannot be read make every tool call fail.

**Voice.**  `synthesize` asks the circuit before it compiles the prompt, so a turn that the compiler
refuses keeps the half-open probe and the circuit then answers no later turn
(`voice/runtime.py`).  The Gemini wrapper of the gateway does not go through this runtime, and
builds a request with a field that the request does not have.

**Reflection.**  A crash, or a failed save, between the canonical record of a reflection and
`_save_reflection_state` (`executive/engine.py:208`) leads to a second record within the 24 hours of
"at most one reflection"; the activity time that can trigger one is written by no code.

## What is not modelled

Whole components, each with its reason in `PROJECT.json`: the command line (it formats what the
modelled components answer, or starts their scripts), the hash-chained ledger and the event bus
(one writer appends; the journal of `GovernedActions` is what the bus keeps), genome and North
Star (read-only configuration), the consciousness loops (numeric heuristics with no statement of
what is correct), ingestion and notes, the legacy adapter daemon, nutrition, MCP servers (tool
schemas over the action path) and the deployment scripts.

Within modelled components: wording, prompts, scores and thresholds over text; hashing, PKCE,
authentication and signatures (a token is a model value that cannot be guessed); the lock
timeouts of SQLite (a transaction is one step); the trust score
of the behaviour monitor and the file and shell primitives (backends of the action path);
demand signals, skill reactivation (no caller),
workspace bindings and progress rows; the retry policy, daily budget and breaker that
`provider.py` keeps in memory beside the durable ones.

## Plan

Done: the core (actions, missions, APCB, router), then the browser side, the edge, coding,
fleet, the lifecycles, the executive, the body, snapshots, the host, stages, quarantine and voice;
eight proof modules.

Next, in this order:

1. Theorems: further refinements, such as the provider router as a counter of slots and the
   conversation's approvals as `ApprovalAnswer`, which would have to tell a result that is
   completed from one that is not; stronger conclusions for `AllOrNothing` after a crash.
2. Composition: the coding runtime under the router.
3. Models: the adapter task queue, reflection.
