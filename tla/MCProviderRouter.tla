-------------------------- MODULE MCProviderRouter --------------------------
(* Two providers and a few concurrent calls, for TLC, or one of four small   *)
(* specifications that share no state with them or with each other: the      *)
(* snapshots of the home, the stages of a mutation surface, the monitor of   *)
(* the agent's behaviour, the voice.  The first state chooses which moves.   *)
EXTENDS ProviderRouter, HomeSnapshot, Stages, Quarantine, Voice, TLC

CONSTANTS c1, c2, c3

VARIABLE focus

\* Calls are interchangeable.
Symmetric == Permutations(Calls)

Foci == {"router", "snapshot", "stages", "quarantine", "voice"}

\* The home has its first file to begin with; the second may be in the
\* destination already.
HomesAtFirst == {IF focus = "snapshot" THEN [Nothing EXCEPT ![1] = 1] ELSE Nothing}
DestinationsAtFirst ==
    IF focus = "snapshot" /\ ~windows THEN {Nothing, [Nothing EXCEPT ![2] = 2]} ELSE {Nothing}

UpkeepInit ==
    /\ focus \in Foci
    /\ Init
    /\ windows \in IF focus = "snapshot" THEN BOOLEAN ELSE {FALSE}
    /\ home \in HomesAtFirst /\ restored \in DestinationsAtFirst
    /\ SnapshotInit
    /\ StagesInit
    /\ QuarantineInit
    /\ VoiceInit
    /\ focus # "quarantine" => configured = "on"
    /\ configured = "on" => epochFile = 0

\* Bound on calls: one of them records no failure, and time passes while one is
\* under way or a circuit is open.
RouterFocus ==
    /\ Next
    /\ clock' # clock => \/ \E c \in Calls : pc[c] \in Active
                         \/ \E p \in Providers : row[p].circuit = "open"
    /\ \E c \in Calls : untried'[c] = Providers

\* Bound on snapshots: exports begin in order and only the first is killed;
\* the home changes before the second, each file once at most; a third comes only
\* where an output may be removed again.
SnapshotFocus ==
    /\ SnapshotNext
    /\ \A x, y \in Exports : x < y /\ exporting'[y] # "idle" => exporting'[x] # "idle"
    /\ home' # home => exporting[1] # "idle" /\ exporting[2] = "idle" /\ (writes = 1 => home'[1] = home[1])
    /\ \A x \in Exports \ {1} : exporting'[x] # "killed"
    /\ \A x \in Exports \ {1, 2} : exporting'[x] = "idle" \/ windows

\* Bound on stages: principals are interchangeable, so one of them is the first
\* of the log.
StagesFocus ==
    /\ StagesNext
    /\ lines' # <<>> => lines'[1].who = CHOOSE p \in Principals : TRUE

\* Bound on quarantine: so are threads, and one of them begins while none is busy.
QuarantineFocus ==
    LET first == CHOOSE t \in Threads : TRUE IN
    /\ QuarantineNext
    /\ (\A t \in Threads : thread[t] = Resting) =>
          \A t \in Threads \ {first} : thread'[t] = Resting

UpkeepNext ==
    /\ UNCHANGED focus
    /\ \/ focus = "router" /\ RouterFocus /\ UNCHANGED <<snapshotVars, stageVars, quarantineVars, voiceVars>>
       \/ focus = "snapshot" /\ SnapshotFocus /\ UNCHANGED <<vars, stageVars, quarantineVars, voiceVars>>
       \/ focus = "stages" /\ StagesFocus /\ UNCHANGED <<vars, snapshotVars, quarantineVars, voiceVars>>
       \/ focus = "quarantine" /\ QuarantineFocus /\ UNCHANGED <<vars, snapshotVars, stageVars, voiceVars>>
       \/ focus = "voice" /\ VoiceNext /\ UNCHANGED <<vars, snapshotVars, stageVars, quarantineVars>>

UpkeepSpec ==
    UpkeepInit /\ [][UpkeepNext]_<<focus, vars, snapshotVars, stageVars, quarantineVars, voiceVars>>
=============================================================================
