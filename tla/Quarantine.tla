----------------------------- MODULE Quarantine -----------------------------
(***************************************************************************)
(* The monitor of the agent's behaviour:                                   *)
(*   aether_tools/quarantine.py      BehaviorMonitor, MetricWindow         *)
(*   aether_tools/registry.py        ToolRegistry.execute, in threads      *)
(*   adapters/telegram_bot.py        handle_text_update                    *)
(*                                                                         *)
(* Threads record what they do without a lock: a window is cleaned by      *)
(* looking at its oldest event and then popping whatever is the oldest by  *)
(* then.  The quarantine is kept in memory and in a file that is emptied   *)
(* before it is written.  Nothing in the program ends a quarantine.        *)
(***************************************************************************)
EXTENDS Naturals, Sequences, FiniteSets

CONSTANTS
    Threads,
    Metrics,       \* those of "error", "tool", "write" and "api" that are watched
    MaxEvents,     \* max_errors, max_calls, max_writes
    WindowLength,
    MaxClock,      \* bound: time
    MaxRecords,    \* bound: events of a process
    MaxStarts,     \* bound: restarts
    NoTime

ASSUME QuarantineAssumption ==
    /\ Metrics \subseteq {"error", "tool", "write", "api"}
    /\ MaxEvents \in Nat /\ WindowLength \in Nat
    /\ MaxClock \in Nat /\ MaxRecords \in Nat /\ MaxStarts \in Nat
    /\ NoTime \notin Nat

VARIABLES
    instant,
    window,        \* the events of each metric, oldest first
    configured,    \* the profiles the process read: quarantine on, off, or no file
    quarantined,   \* state.in_quarantine
    stateFile,     \* quarantine_state.json: absent, emptied, or in quarantine
    thread,        \* [pc, at, todo]: its place, the metric it pops, what it has left to record
    epoch,         \* profile_start_time
    epochFile,     \* profile_start.json
    starts,
    made,          \* history: the events of this process
    due,           \* history: a quarantine began
    spoiled,       \* history: a save failed, or the process died in one
    raced          \* history: a thread popped an event that another had left

quarantineVars == <<instant, window, configured, quarantined, stateFile, thread,
                    epoch, epochFile, starts, made, due, spoiled, raced>>

Resting == [pc |-> "idle", at |-> "none", todo |-> <<>>]

QuarantineTypeOK ==
    /\ instant \in 0..MaxClock /\ starts \in 0..MaxStarts
    /\ window \in [Metrics -> Seq(0..MaxClock)] /\ made \in [Metrics -> Seq(0..MaxClock)]
    /\ stateFile \in {"absent", "empty", "quarantine"}
    /\ \A t \in Threads :
          /\ thread[t].pc \in {"idle", "add", "clean", "pop", "trigger", "open", "write"}
          /\ thread[t].at \in Metrics \cup {"none"}
          /\ thread[t].todo \in Seq(Metrics)
    /\ epoch \in 0..MaxClock /\ epochFile \in 0..MaxClock \cup {NoTime}
    /\ configured \in {"on", "off", "unreadable"}
    /\ {quarantined, due, spoiled, raced} \subseteq BOOLEAN

-----------------------------------------------------------------------------
(* A process starts.                                                       *)

\* _load_profile_start_time: a file that is absent is no epoch.
LoadEpoch(now, file) == IF file = NoTime THEN now ELSE file

\* The windows start empty.  The profiles may be unreadable; the epoch is
\* saved again, atomically, and the save may fail (_save_profile_start_time).
StartsAt(now, file, epochIn) ==
    /\ window' = [m \in Metrics |-> <<>>] /\ made' = [m \in Metrics |-> <<>>]
    /\ thread' = [t \in Threads |-> Resting]
    /\ configured' \in {"on", "off", "unreadable"}
    /\ quarantined' = (file = "quarantine")
    /\ epoch' = LoadEpoch(now, epochIn)
    /\ epochFile' \in {epochIn, epoch'}

QuarantineInit ==
    /\ instant = 0 /\ starts = 0
    /\ window = [m \in Metrics |-> <<>>] /\ made = [m \in Metrics |-> <<>>]
    /\ thread = [t \in Threads |-> Resting]
    /\ configured \in {"on", "off", "unreadable"}
    /\ quarantined = FALSE /\ stateFile = "absent"
    /\ epoch = 0 /\ epochFile \in {NoTime, 0}
    /\ due = FALSE /\ spoiled = FALSE /\ raced = FALSE

\* The process dies, between any two steps of its threads, and starts anew.
Restarts ==
    /\ starts < MaxStarts /\ starts' = starts + 1
    /\ StartsAt(instant, stateFile, epochFile)
    /\ spoiled' = (spoiled \/ \E t \in Threads : thread[t].pc \in {"open", "write"})
    /\ UNCHANGED <<instant, stateFile, due, raced>>

-----------------------------------------------------------------------------
(* What is recorded.                                                       *)

\* ToolRegistry.execute: an unknown tool is an error; a known one counts, as a
\* write too if it writes files, and again as an error if it fails.
ToolCalls == {<<"error">>, <<"tool">>, <<"tool", "error">>,
              <<"tool", "write">>, <<"tool", "write", "error">>}

\* handle_text_update: the message counts, and again if its answer fails.
Messages == {<<"api">>, <<"api", "error">>}

Begins(t) ==
    /\ thread[t] = Resting
    /\ \E todo \in ToolCalls \cup Messages :
          /\ \A i \in DOMAIN todo : todo[i] \in Metrics
          /\ thread' = [thread EXCEPT ![t] = [Resting EXCEPT !.pc = "add", !.todo = todo]]
    /\ UNCHANGED <<instant, window, configured, quarantined, stateFile, epoch,
                   epochFile, starts, made, due, spoiled, raced>>

Events == LET count[S \in SUBSET Metrics] ==
                IF S = {} THEN 0
                ELSE LET m == CHOOSE m \in S : TRUE
                     IN Len(made[m]) + count[S \ {m}]
          IN count[Metrics]

\* The rest of the call, once an event is counted.
Onward(call) ==
    IF Len(call.todo) > 1 THEN [Resting EXCEPT !.pc = "add", !.todo = Tail(call.todo)] ELSE Resting

\* A monitor that raises ends the call, or has the handler around it record an
\* error first (execute and handle_text_update: except Exception).
Raised == {Resting} \cup {[Resting EXCEPT !.pc = "add", !.todo = <<m>>] : m \in Metrics \cap {"error"}}

\* record_error, record_tool_call, record_file_write, record_api_call: the
\* event of now, then cleaning and counting, if quarantine is enabled.  Without
\* profiles the counting raises.
Add(t) ==
    LET m == Head(thread[t].todo) IN
    /\ thread[t].pc = "add" /\ Events < MaxRecords
    /\ window' = [window EXCEPT ![m] = Append(@, instant)]
    /\ made' = [made EXCEPT ![m] = Append(@, instant)]
    /\ \E next \in CASE configured = "on" -> {[thread[t] EXCEPT !.pc = "clean"]}
                      [] configured = "off" -> {Onward(thread[t])}
                      [] configured = "unreadable" -> Raised :
          thread' = [thread EXCEPT ![t] = next]
    /\ UNCHANGED <<instant, configured, quarantined, stateFile, epoch, epochFile,
                   starts, due, spoiled, raced>>

\* Mutant: an event of the window's first moment is taken for an old one.
OldOnEdge(e) == e + WindowLength <= instant

\* _cleanup: older than the window.
Old(e) == e + WindowLength < instant

Stale(m) == window[m] # <<>> /\ Old(Head(window[m]))

\* _cleanup looks at the oldest event of a window; what it pops, in a step of
\* its own, is the oldest by then (an error, if another thread left none).
Look(t) ==
    /\ thread[t].pc = "clean"
    /\ \E m \in Metrics : Stale(m) /\ thread' = [thread EXCEPT ![t].pc = "pop", ![t].at = m]
    /\ UNCHANGED <<instant, window, configured, quarantined, stateFile, epoch,
                   epochFile, starts, made, due, spoiled, raced>>

Pop(t) ==
    LET m == thread[t].at IN
    /\ thread[t].pc = "pop"
    /\ IF window[m] = <<>>
         THEN /\ \E next \in Raised : thread' = [thread EXCEPT ![t] = next]
              /\ UNCHANGED window
         ELSE /\ window' = [window EXCEPT ![m] = Tail(@)]
              /\ thread' = [thread EXCEPT ![t].pc = "clean", ![t].at = "none"]
    /\ raced' = (raced \/ ~Stale(m))
    /\ UNCHANGED <<instant, configured, quarantined, stateFile, epoch, epochFile,
                   starts, made, due, spoiled>>

\* _check_quarantine_triggers: more events than allowed, and no quarantine yet.
Count(t) ==
    LET over == \E m \in Metrics : Len(window[m]) > MaxEvents IN
    /\ thread[t].pc = "clean" /\ \A m \in Metrics : ~Stale(m)
    /\ thread' = [thread EXCEPT ![t] =
                    IF over /\ ~quarantined THEN [@ EXCEPT !.pc = "trigger"] ELSE Onward(@)]
    /\ UNCHANGED <<instant, window, configured, quarantined, stateFile, epoch,
                   epochFile, starts, made, due, spoiled, raced>>

-----------------------------------------------------------------------------
(* _trigger_quarantine and _save_state.                                    *)

Trigger(t) ==
    /\ thread[t].pc = "trigger"
    /\ quarantined' = TRUE /\ due' = TRUE
    /\ thread' = [thread EXCEPT ![t].pc = "open"]
    /\ UNCHANGED <<instant, window, configured, stateFile, epoch, epochFile,
                   starts, made, spoiled, raced>>

\* Opening the file empties it; a failure is logged and the call goes on.
Open(t) ==
    /\ thread[t].pc = "open"
    /\ \/ /\ stateFile' = "empty" /\ UNCHANGED spoiled
          /\ thread' = [thread EXCEPT ![t].pc = "write"]
       \/ /\ UNCHANGED stateFile /\ spoiled' = TRUE
          /\ thread' = [thread EXCEPT ![t] = Onward(@)]
    /\ UNCHANGED <<instant, window, configured, quarantined, epoch, epochFile,
                   starts, made, due, raced>>

Write(t) ==
    /\ thread[t].pc = "write"
    /\ \/ stateFile' = "quarantine" /\ UNCHANGED spoiled
       \/ UNCHANGED stateFile /\ spoiled' = TRUE
    /\ thread' = [thread EXCEPT ![t] = Onward(@)]
    /\ UNCHANGED <<instant, window, configured, quarantined, epoch, epochFile,
                   starts, made, due, raced>>

Passes ==
    /\ instant < MaxClock /\ instant' = instant + 1
    /\ UNCHANGED <<window, configured, quarantined, stateFile, thread, epoch,
                   epochFile, starts, made, due, spoiled, raced>>

QuarantineNext ==
    \/ Restarts \/ Passes
    \/ \E t \in Threads : \/ Begins(t) \/ Add(t) \/ Look(t) \/ Pop(t) \/ Count(t)
                          \/ Trigger(t) \/ Open(t) \/ Write(t)

QuarantineSpec == QuarantineInit /\ [][QuarantineNext]_quarantineVars

-----------------------------------------------------------------------------
(* Properties                                                              *)

\* More events of a metric than allowed, within the window, put the agent in
\* quarantine by the time no thread is recording, unless two threads cleaned
\* one window at a time ("More than 10 errors in 15 mins -> quarantine",
\* security_profiles.yaml).
BurstsNoticed ==
    configured = "on" /\ ~raced /\ (\A t \in Threads : thread[t] = Resting) =>
       \A m \in Metrics :
          Cardinality({i \in DOMAIN made[m] : made[m][i] + WindowLength >= instant})
            > MaxEvents => quarantined

\* A quarantine is kept, through restarts too, unless its save failed or the
\* process died in one (_load_state takes an emptied file for none).
QuarantineKept == due /\ ~spoiled => quarantined

\* "The profile observation clock must survive Gateway restarts": once it is on
\* disk every process goes by it.
EpochKept == epochFile # NoTime => epoch = epochFile

\* The monitor does what its comments say of bursts, quarantine and epoch, with
\* threads that record at the same time and processes that die
\* (record_* and _trigger_quarantine of quarantine.py).
QuarantineHolds == BurstsNoticed /\ QuarantineKept /\ EpochKept
=============================================================================
