--------------------------- MODULE CodingRuntime ---------------------------
(***************************************************************************)
(* Coding tasks on one bound workspace:                                    *)
(*   aether/runtimes/router.py                        candidates           *)
(*   aether_gateway/runtime_sdk/dispatch.py           fallback             *)
(*   aether_gateway/runtime_sdk/external_stream.py    vendor bodies        *)
(*   aether_gateway/runtime_sdk/local_coding.py       the structured body  *)
(*   aether_gateway/runtime_drivers/*.py              the vendor drivers   *)
(*                                                                         *)
(* A vendor body works on a staging copy: what it returns is verified      *)
(* there and then applied, file by file, to production.  The structured    *)
(* body applies first, verifies in place and rolls back.  Tasks are        *)
(* coroutines of one event loop, which they leave only while a process     *)
(* runs (the vendor's, or a verification command); `eventLoop` holds the   *)
(* task that is between two file operations.  Other programs edit          *)
(* production at any time.  A file's content is known by who wrote it.     *)
(***************************************************************************)
EXTENDS Naturals, Sequences, FiniteSets

CONSTANTS
    Tasks, Files,
    Vendors,        \* adapters behind ConformanceGatedRuntimeAdapter
    Local,          \* LocalStructuredCodingRuntimeAdapter
    MaxAttempts,    \* CodingRuntimePolicy.maximum_attempts
    MaxFaults       \* edits by other programs, crashes and repeated commands

Bodies == Vendors \cup {Local}

ASSUME CodingAssumption ==
    /\ Local \notin Vendors
    /\ "edit" \notin Tasks
    /\ MaxAttempts \in Nat \ {0}
    /\ MaxFaults \in Nat

VARIABLES
    prod,       \* content of the production files
    task,       \* the tasks
    eventLoop,  \* the task between two of its file operations, or {}
    lineage,    \* run and backup directories: <<task, body>>
    verified,   \* <<task, body>> whose verification commands all passed
    settled,    \* what production should hold: the last edit or completed task
    disturbed,  \* see Undisturbed below
    edits,      \* edits of production by other programs
    faults

vars == <<prod, task, eventLoop, lineage, verified, settled, disturbed, edits, faults>>

\* A content by its writer: the original, the n-th edit or a body's patch.
Original == <<"original">>
Edited(n) == <<"edit", n>>
By(t, b) == <<t, b>>

Candidates == {s \in UNION {[1..n -> Bodies] : n \in 1..MaxAttempts} :
                  \A i, j \in DOMAIN s : s[i] = s[j] => i = j}

\* A task between attempts.  An attempt adds the files it changes, their
\* content before (the staging copy or the backup), the one whose hash it has
\* compared and is about to replace, and the ones it has replaced so far.
\* `waits` tells the two awaits that have no bound of their own: for a driver
\* to read its "request", and for the "exit" of a killed process, pipes and all.
Idle(pc, cands, n) ==
    [pc |-> pc, cands |-> cands, n |-> n,
     files |-> {}, copy |-> [f \in Files |-> Original], checked |-> {}, applied |-> {},
     waits |-> "nothing"]

Init ==
    /\ prod = [f \in Files |-> Original]
    /\ task = [t \in Tasks |-> Idle("new", <<>>, 1)]
    /\ eventLoop = {}
    /\ lineage = {}
    /\ verified = {}
    /\ settled = prod
    /\ disturbed = FALSE
    /\ edits = 0
    /\ faults = 0

Body(t) == task[t].cands[task[t].n]

\* At a state of the task where it has the event loop.
HasLoop(t) == eventLoop \in {{}, {t}}
At(t, pc) == task[t].pc = pc /\ task[t].waits = "nothing" /\ HasLoop(t)

Running(t) == task[t].pc \in {"streaming", "staged", "applying", "editing", "checking"}

-----------------------------------------------------------------------------
(* Routing and dispatch.                                                   *)

\* CodingRuntimeRouter.execute: the compatible runtimes by priority, at most
\* maximum_attempts of them, are bound to the proposed action.
Delegate(t, cands) ==
    /\ At(t, "new")
    /\ task' = [task EXCEPT ![t].pc = "pending", ![t].cands = cands]
    /\ UNCHANGED <<prod, eventLoop, lineage, verified, settled, disturbed, edits, faults>>

Fault == faults < MaxFaults /\ faults' = faults + 1

\* CodingRuntimeDispatchAdapter.execute: the approved action tries its
\* candidates in order.
DispatchAction(t) ==
    /\ At(t, "pending")
    /\ task' = [task EXCEPT ![t].pc = "ready"]
    /\ UNCHANGED <<prod, eventLoop, lineage, verified, settled, disturbed, edits, faults>>

\* The same command again, after a failure or a crash.
Resend(t) ==
    /\ At(t, "failed") \/ At(t, "lost")
    /\ Fault
    /\ task' = [task EXCEPT ![t].pc = "ready", ![t].n = 1]
    /\ UNCHANGED <<prod, eventLoop, lineage, verified, settled, disturbed, edits>>

\* The attempt has failed: the next candidate, if there is one.
NextAttempt(rec) ==
    IF rec.n < Len(rec.cands) THEN Idle("ready", rec.cands, rec.n + 1)
                              ELSE Idle("failed", rec.cands, rec.n)

\* A refusal before anything is touched: no valid conformance receipt, no
\* handshake, a workspace binding that does not hold, or a run directory
\* from an earlier attempt.
Refused(t) ==
    /\ At(t, "ready")
    /\ task' = [task EXCEPT ![t] = NextAttempt(@)]
    /\ UNCHANGED <<prod, eventLoop, lineage, verified, settled, disturbed, edits, faults>>

\* The body has not run this task id before.
NoLineage(t) == At(t, "ready") /\ <<t, Body(t)>> \notin lineage

\* An attempt starts from the production files as they are.
Begin(t, pc, files, waits) ==
    /\ NoLineage(t)
    /\ lineage' = lineage \cup {<<t, Body(t)>>}
    \* A structured body in the same workspace as another attempt.
    /\ disturbed' = (disturbed \/ \E u \in Tasks \ {t} :
                        Running(u) /\ Local \in {Body(t), Body(u)})
    /\ task' = [task EXCEPT ![t].pc = pc, ![t].files = files, ![t].copy = prod,
                              ![t].waits = waits]

-----------------------------------------------------------------------------
(* A vendor body.                                                          *)

\* execute, up to the start of the process: the staging copy.  The request is
\* then written to the process, before its timeout runs.
Stage(t) ==
    /\ At(t, "ready") /\ Body(t) \in Vendors
    /\ Begin(t, "streaming", {}, "request")
    /\ UNCHANGED <<prod, eventLoop, verified, settled, edits, faults>>

\* The driver reads its request, or goes without reading it, which is an error
\* (external: it may do neither).
RequestRead(t, ok) ==
    /\ task[t].waits = "request" /\ HasLoop(t)
    /\ task' = [task EXCEPT ![t] = IF ok THEN [@ EXCEPT !.waits = "nothing"] ELSE NextAttempt(@)]
    /\ UNCHANGED <<prod, eventLoop, lineage, verified, settled, disturbed, edits, faults>>

\* A process is killed and waited for.
KillProcess(t) ==
    /\ task' = [task EXCEPT ![t].waits = "exit"]
    /\ UNCHANGED <<prod, eventLoop, lineage, verified, settled, disturbed, edits, faults>>

\* A handshake or a verification command outlasts its timeout.
OutOfTime(t) ==
    /\ \/ At(t, "ready") /\ Body(t) \in Vendors
       \/ At(t, "staged") \/ At(t, "checking")
    /\ KillProcess(t)

\* emit_patches: the files the vendor changed in its own copy, each with the
\* hash it had.  A deletion or no change at all is an error.
EmitPatches == SUBSET Files \ {{}}

\* run_task and _run_external_process: the stream has ended with
\* task.completed and exit code 0, and _ingest_patches has put the patches
\* in staging.
StreamEnds(t, files) ==
    /\ At(t, "streaming")
    /\ files \in EmitPatches
    /\ task' = [task EXCEPT ![t].pc = "staged", ![t].files = files]
    /\ UNCHANGED <<prod, eventLoop, lineage, verified, settled, disturbed, edits, faults>>

\* Mutant: the process is waited for without a timeout.
StreamHangs(t) == At(t, "streaming") /\ FALSE /\ UNCHANGED vars

\* An error frame, a frame out of order or over a limit, a bad exit code, a
\* patch that is refused or a timeout: a process that still runs is killed.
StreamFails(t) == At(t, "streaming") /\ KillProcess(t)

\* _run_verification in staging; a failure or a timeout ends the attempt.
Verify(t, ok) ==
    /\ At(t, "staged")
    /\ IF ok
       THEN /\ task' = [task EXCEPT ![t].pc = "applying"]
            /\ verified' = verified \cup {<<t, Body(t)>>}
            /\ eventLoop' = {t}
       ELSE /\ task' = [task EXCEPT ![t] = NextAttempt(@)]
            /\ UNCHANGED <<verified, eventLoop>>
    /\ UNCHANGED <<prod, lineage, settled, disturbed, edits, faults>>

\* _apply_to_production, one file: its hash is what was staged.
CheckFile(t, f) ==
    /\ At(t, "applying") /\ task[t].checked = {}
    /\ f \in task[t].files \ task[t].applied
    /\ prod[f] = task[t].copy[f]
    /\ task' = [task EXCEPT ![t].checked = {f}]
    /\ UNCHANGED <<prod, eventLoop, lineage, verified, settled, disturbed, edits, faults>>

\* The backup and the new content are written, and the file is replaced: not
\* looked at again.
ApplyFile(t, f) ==
    /\ At(t, "applying")
    /\ f \in task[t].checked
    /\ prod' = [prod EXCEPT ![f] = By(t, Body(t))]
    /\ task' = [task EXCEPT ![t].applied = @ \cup {f}, ![t].checked = {}]
    /\ UNCHANGED <<eventLoop, lineage, verified, settled, disturbed, edits, faults>>

\* Mutant: the files already applied stay.
KeepApplied(t) == prod

\* _rollback_production and _rollback: the files already applied get the
\* content they had.
RolledBack(t) ==
    [f \in Files |-> IF f \in task[t].applied THEN task[t].copy[f] ELSE prod[f]]

\* A file has changed or cannot be written.
ApplyFails(t) ==
    /\ At(t, "applying")
    /\ task[t].applied # task[t].files
    /\ prod' = RolledBack(t)
    /\ task' = [task EXCEPT ![t] = NextAttempt(@)]
    /\ eventLoop' = {}
    /\ UNCHANGED <<lineage, verified, settled, disturbed, edits, faults>>

Done(rec) == Idle("done", rec.cands, rec.n)

\* execute returns ok: the task is completed.
Complete(t) ==
    /\ At(t, "applying")
    /\ task[t].applied = task[t].files
    /\ task' = [task EXCEPT ![t] = Done(@)]
    /\ settled' = [f \in Files |-> IF f \in task[t].files THEN By(t, Body(t)) ELSE settled[f]]
    /\ eventLoop' = {}
    /\ UNCHANGED <<prod, lineage, verified, disturbed, edits, faults>>

-----------------------------------------------------------------------------
(* The structured body.                                                    *)

\* execute, up to _prepare_changes: every file has the hash its edit names,
\* and a backup.
Prepare(t, files) ==
    /\ At(t, "ready") /\ Body(t) = Local
    /\ Begin(t, "editing", files, "nothing")
    /\ eventLoop' = {t}
    /\ UNCHANGED <<prod, verified, settled, edits, faults>>

\* A hash does not match; the backup directory has been made.
PrepareFails(t) ==
    /\ NoLineage(t) /\ Body(t) = Local
    /\ lineage' = lineage \cup {<<t, Local>>}
    /\ task' = [task EXCEPT ![t] = NextAttempt(@)]
    /\ UNCHANGED <<prod, eventLoop, verified, settled, disturbed, edits, faults>>

\* _apply_changes, one file.  After the last one the verification starts,
\* and the loop is free.
EditFile(t, f) ==
    /\ At(t, "editing")
    /\ f \in task[t].files \ task[t].applied
    /\ prod' = [prod EXCEPT ![f] = By(t, Local)]
    /\ LET applied == task[t].applied \cup {f}
           last == applied = task[t].files
       IN /\ task' = [task EXCEPT ![t].applied = applied,
                                  ![t].pc = IF last THEN "checking" ELSE @]
          /\ eventLoop' = IF last THEN {} ELSE eventLoop
    /\ UNCHANGED <<lineage, verified, settled, disturbed, edits, faults>>

\* A file cannot be written: every file is restored, applied or not.
EditFails(t) ==
    /\ At(t, "editing")
    /\ prod' = [f \in Files |-> IF f \in task[t].files THEN task[t].copy[f] ELSE prod[f]]
    /\ task' = [task EXCEPT ![t] = NextAttempt(@)]
    /\ eventLoop' = {}
    /\ UNCHANGED <<lineage, verified, settled, disturbed, edits, faults>>

\* _run_verification in production, and _rollback when it fails.
Check(t, ok) ==
    /\ At(t, "checking")
    /\ IF ok
       THEN /\ task' = [task EXCEPT ![t] = Done(@)]
            /\ verified' = verified \cup {<<t, Local>>}
            /\ settled' = [f \in Files |-> IF f \in task[t].files THEN By(t, Local)
                                                                  ELSE settled[f]]
            /\ UNCHANGED prod
       ELSE /\ prod' = RolledBack(t)
            /\ task' = [task EXCEPT ![t] = NextAttempt(@)]
            /\ UNCHANGED <<verified, settled>>
    /\ UNCHANGED <<eventLoop, lineage, disturbed, edits, faults>>

\* communicate and wait return after a kill, once no descendant of the process
\* holds its pipes (external: it may hold them for ever); the attempt has
\* failed, and the structured body rolls back.
Reaped(t) ==
    /\ task[t].waits = "exit" /\ HasLoop(t)
    /\ prod' = IF task[t].pc = "checking" THEN RolledBack(t) ELSE prod
    /\ task' = [task EXCEPT ![t] = NextAttempt(@)]
    /\ UNCHANGED <<eventLoop, lineage, verified, settled, disturbed, edits, faults>>

-----------------------------------------------------------------------------
(* Other programs, and a crash.                                            *)

Edit(f) ==
    /\ Fault
    /\ edits' = edits + 1
    /\ prod' = [prod EXCEPT ![f] = Edited(edits')]
    /\ settled' = [settled EXCEPT ![f] = Edited(edits')]
    /\ disturbed' = (disturbed \/ \E t \in Tasks :
                        \/ f \in task[t].checked \cup task[t].applied
                        \/ task[t].pc = "editing" /\ f \in task[t].files)
    /\ UNCHANGED <<task, eventLoop, lineage, verified>>

\* The gateway dies.  Directories stay; nothing takes up an attempt again.
Crash ==
    /\ Fault
    /\ eventLoop' = {}
    /\ disturbed' = (disturbed \/ \E t \in Tasks :
                        task[t].pc \in {"applying", "editing", "checking"} /\ task[t].applied # {})
    /\ task' = [t \in Tasks |-> IF Running(t) \/ task[t].pc = "ready"
                                THEN Idle("lost", task[t].cands, 1)
                                ELSE task[t]]
    /\ UNCHANGED <<prod, lineage, verified, settled, edits>>

\* What the gateway does for a dispatched task: a process that has its request
\* has a timeout.
Step(t) ==
    \/ Refused(t)
    \/ Stage(t)
    \/ StreamFails(t) \/ OutOfTime(t)
    \/ \E ok \in BOOLEAN : Verify(t, ok) \/ Check(t, ok)
    \/ \E f \in Files : CheckFile(t, f) \/ ApplyFile(t, f) \/ EditFile(t, f)
    \/ ApplyFails(t) \/ Complete(t)
    \/ \E files \in EmitPatches : Prepare(t, files)
    \/ PrepareFails(t) \/ EditFails(t)

Next ==
    \/ \E t \in Tasks :
          \/ \E c \in Candidates : Delegate(t, c)
          \/ DispatchAction(t)
          \/ Resend(t)
          \/ Step(t)
          \/ \E files \in EmitPatches : StreamEnds(t, files)
          \/ \E ok \in BOOLEAN : RequestRead(t, ok)
          \/ Reaped(t)
    \/ \E f \in Files : Edit(f)
    \/ Crash

Spec == Init /\ [][Next]_vars

\* The event loop runs every coroutine that can go on.  A vendor need not ever
\* end its stream, nor read its request, nor let go of its pipes.
FairSpec == Spec /\ \A t \in Tasks : WF_vars(Step(t))

-----------------------------------------------------------------------------
(* Properties.                                                             *)

\* `disturbed` is set by what the two bodies do not guard against: an
\* attempt of the structured body that overlaps another attempt in the
\* workspace, an edit of a file between the comparison of its hash and its
\* replacement, which overwrites it, or between its replacement and a roll
\* back, and a crash after the first file of an attempt was replaced.
Undisturbed == ~disturbed

\* All or nothing: unless disturbed, and but for the files of the attempt
\* that is being applied or checked, production holds exactly the latest
\* edits and completed tasks.  A task that failed left nothing behind, a
\* completed one left every file, and no roll back or apply has overwritten
\* an edit or another task (external_stream.py, "atomically applying it to
\* production").
AllOrNothing ==
    Undisturbed =>
        \A f \in Files :
            \/ prod[f] = settled[f]
            \/ \E t \in Tasks : Running(t) /\ f \in task[t].applied

\* Whatever happens, crashes and overlapping tasks included, production has
\* content of a vendor only if the verification commands of its task passed
\* ("Aether independently validates and verifies the resulting patch before
\* atomically applying it").
VendorContentVerified ==
    \A f \in Files, t \in Tasks, b \in Vendors :
        prod[f] = By(t, b) => <<t, b>> \in verified

\* What production holds is whole and verified (_apply_to_production and
\* _rollback_production against edits, other tasks and crashes).
ProductionSound == AllOrNothing /\ VendorContentVerified

\* A dispatched task whose drivers read their requests, or go, and whose killed
\* processes leave no one with their pipes, comes to an end: fallback goes
\* through its candidates and, those two awaits apart, none has no bound.
TaskEnds ==
    \A t \in Tasks :
        []<>(task[t].waits = "nothing") =>
            (task[t].pc = "ready" ~> task[t].pc \in {"done", "failed", "lost"})
=============================================================================
