----------------------------- MODULE ServiceHost -----------------------------
(***************************************************************************)
(* The Windows service that owns an Aether process tree:                   *)
(*   deploy/windows/aether-windows-service.py  WindowsServiceHost          *)
(*                                                                         *)
(* Two threads: service_main, and the control handler that the Service     *)
(* Control Manager calls.  The child may start a helper; whoever is in the *)
(* job dies with it.  A process that is killed takes a while to go.  Any   *)
(* call of the system may fail, and the host itself may be killed.         *)
(***************************************************************************)
EXTENDS Naturals

VARIABLES
    at,         \* where service_main is
    control,    \* the control handler: idle, or it has found the service up
    state,      \* current_state
    reported,   \* what the manager was told last
    stopped,    \* stopped_reported
    stopping,   \* stop_requested
    job,        \* the job object: none, open or closed
    child,      \* the child process
    helper,     \* a process that the child has started
    inJob       \* processes that are in the job

hostVars == <<at, control, state, reported, stopped, stopping, job, child, helper, inJob>>

ServiceStates == {"none", "start-pending", "running", "stop-pending", "stopped"}
ProcessStates == {"none", "running", "dying", "gone"}

HostTypeOK ==
    /\ at \in {"new", "registered", "starting", "job", "spawned", "assigned", "watching",
               "child-gone", "reaping", "killing", "reaped", "failed", "failing-reap",
               "failing-kill", "closing", "over", "dead"}
    /\ control \in {"idle", "up"}
    /\ state \in ServiceStates /\ reported \in ServiceStates
    /\ stopped \in BOOLEAN /\ stopping \in BOOLEAN
    /\ job \in {"none", "open", "closed"}
    /\ child \in ProcessStates /\ helper \in ProcessStates
    /\ inJob \subseteq {"child", "helper"}

HostInit ==
    /\ at = "new" /\ control = "idle"
    /\ state = "stopped" /\ reported = "none"
    /\ stopped = FALSE /\ stopping = FALSE
    /\ job = "none" /\ child = "none" /\ helper = "none" /\ inJob = {}

-----------------------------------------------------------------------------

Killed(p) == IF p = "running" THEN "dying" ELSE p

\* TerminateJobObject, or the job's last handle is closed.
KillJob ==
    /\ child' = IF "child" \in inJob THEN Killed(child) ELSE child
    /\ helper' = IF "helper" \in inJob THEN Killed(helper) ELSE helper

\* Mutant: the handle is kept until the process of the host ends.
ForgetJob == UNCHANGED <<job, child, helper>>

CloseJob ==
    IF job = "open" THEN job' = "closed" /\ KillJob ELSE UNCHANGED <<job, child, helper>>

\* _report_status: whatever the manager answers, the host remembers; a call
\* that fails raises, and service_main goes on where `failed` says.
ReportStatus(s, next, failed) ==
    /\ state' = s
    /\ stopped' = (stopped \/ s = "stopped")
    /\ \/ reported' = s /\ at' = next
       \/ UNCHANGED reported /\ at' = failed

-----------------------------------------------------------------------------
(* service_main                                                            *)

Register ==
    /\ at = "new"
    /\ at' \in {"registered", "over"}
    /\ UNCHANGED <<control, state, reported, stopped, stopping, job, child, helper, inJob>>

ReportStart ==
    /\ at = "registered"
    /\ ReportStatus("start-pending", "starting", "failed")
    /\ UNCHANGED <<control, stopping, job, child, helper, inJob>>

CreateJob ==
    /\ at = "starting"
    /\ \/ job' = "open" /\ at' = "job"
       \/ UNCHANGED job /\ at' = "failed"
    /\ UNCHANGED <<control, state, reported, stopped, stopping, child, helper, inJob>>

\* Popen; the job is closed when it fails.
SpawnChild ==
    /\ at = "job"
    /\ \/ child' = "running" /\ at' = "spawned" /\ UNCHANGED <<job, helper>>
       \/ CloseJob /\ at' = "failed"
    /\ UNCHANGED <<control, state, reported, stopped, stopping, inJob>>

\* AssignProcessToJobObject: a helper that is there already stays outside.
\* When it fails the child is killed, and the job closed if it goes in time.
AssignChild ==
    /\ at = "spawned"
    /\ \/ /\ inJob' = {"child"} /\ at' = "assigned"
          /\ UNCHANGED <<job, child, helper>>
       \/ /\ child' = Killed(child) /\ at' = "failed"
          /\ job' \in {"closed", "open"}
          /\ UNCHANGED <<helper, inJob>>
    /\ UNCHANGED <<control, state, reported, stopped, stopping>>

ReportRunning ==
    /\ at = "assigned"
    /\ ReportStatus("running", "watching", "failed")
    /\ UNCHANGED <<control, stopping, job, child, helper, inJob>>

\* The loop: a stop comes first, then the exit of the child.
Watch ==
    /\ at = "watching"
    /\ \/ stopping /\ at' = "reaping" /\ UNCHANGED <<job, child, helper>>
       \/ ~stopping /\ child = "gone" /\ CloseJob /\ at' = "child-gone"
    /\ UNCHANGED <<control, state, reported, stopped, stopping, inJob>>

\* _stop_child_tree: the job is terminated ...
TerminateTree ==
    /\ \/ at = "reaping" /\ at' = "killing"
       \/ at = "failed" /\ at' = "failing-kill"
    /\ IF job = "open" THEN KillJob ELSE UNCHANGED <<child, helper>>
    /\ UNCHANGED <<control, state, reported, stopped, stopping, job, inJob>>

\* ... and the child waited for, and killed if it takes too long; one that
\* will not go raises.
AwaitChild ==
    /\ at \in {"killing", "failing-kill"}
    /\ \/ /\ child \in {"gone", "none"}
          /\ at' = IF at = "killing" THEN "reaped" ELSE "closing"
          /\ UNCHANGED <<job, child, helper>>
       \/ /\ child \in {"running", "dying"}
          /\ IF at = "killing"
               THEN at' = "failed" /\ child' = Killed(child) /\ UNCHANGED <<job, helper>>
               ELSE /\ at' = "over" /\ job' = IF job = "open" THEN "closed" ELSE job
                    /\ child' = Killed(child)
                    /\ helper' = IF job = "open" /\ "helper" \in inJob THEN Killed(helper) ELSE helper
    /\ UNCHANGED <<control, state, reported, stopped, stopping, inJob>>

CloseTree ==
    /\ \/ at = "reaped" /\ at' = "child-gone"
       \/ at = "closing" /\ at' = IF stopped THEN "over" ELSE "failing-reap"
    /\ CloseJob
    /\ UNCHANGED <<control, state, reported, stopped, stopping, inJob>>

\* A report that fails on the way out of the normal path is not repeated.
ReportStopped ==
    /\ \/ at = "child-gone" /\ ReportStatus("stopped", "over", "failed")
       \/ at = "failing-reap" /\ ReportStatus("stopped", "over", "over")
    /\ UNCHANGED <<control, stopping, job, child, helper, inJob>>

-----------------------------------------------------------------------------
(* The manager, and everything else                                        *)

\* _control_handler: STOP or SHUTDOWN, accepted while the service runs.
ControlStop ==
    /\ control = "idle" /\ at # "dead"
    /\ reported = "running"
    /\ control' = IF state \in {"stopped", "stop-pending"} THEN "idle" ELSE "up"
    /\ UNCHANGED <<at, state, reported, stopped, stopping, job, child, helper, inJob>>

\* It reports, and then asks service_main to stop; an error is only logged.
RequestStop ==
    /\ control = "up" /\ at # "dead"
    /\ control' = "idle"
    /\ state' = "stop-pending"
    /\ \/ reported' = "stop-pending" /\ stopping' = TRUE
       \/ UNCHANGED <<reported, stopping>>
    /\ UNCHANGED <<at, stopped, job, child, helper, inJob>>

StartHelper ==
    /\ child = "running" /\ helper = "none"
    /\ helper' = "running"
    /\ inJob' = IF "child" \in inJob THEN inJob \cup {"helper"} ELSE inJob
    /\ UNCHANGED <<at, control, state, reported, stopped, stopping, job, child>>

ProcessGoes ==
    /\ \/ child \in {"running", "dying"} /\ child' = "gone" /\ UNCHANGED helper
       \/ helper \in {"running", "dying"} /\ helper' = "gone" /\ UNCHANGED child
    /\ UNCHANGED <<at, control, state, reported, stopped, stopping, job, inJob>>

\* The host is killed: the system closes its handles.
HostKilled ==
    /\ at \notin {"over", "dead"}
    /\ at' = "dead"
    /\ CloseJob
    /\ UNCHANGED <<control, state, reported, stopped, stopping, inJob>>

ServiceMain ==
    \/ Register \/ ReportStart \/ CreateJob \/ SpawnChild \/ AssignChild
    \/ ReportRunning \/ Watch \/ TerminateTree \/ AwaitChild \/ CloseTree \/ ReportStopped

HostNext ==
    \/ ServiceMain
    \/ ControlStop \/ RequestStop
    \/ StartHelper \/ ProcessGoes \/ HostKilled

HostSpec == HostInit /\ [][HostNext]_hostVars

-----------------------------------------------------------------------------
(* Properties                                                              *)

\* "Closing or stopping the service therefore cannot leave an orphaned Gateway
\* or watchdog process": once the manager has been told that the service has
\* stopped, or the host has come to its end by itself or by force, nothing
\* that is in the job goes on, and neither does the child, unless the host was
\* killed before it could put the child into the job.
LeavesNoOrphan ==
    (reported = "stopped" \/ at \in {"over", "dead"}) =>
        /\ "helper" \in inJob => helper # "running"
        /\ child = "running" => at = "dead" /\ inJob = {}
=============================================================================
