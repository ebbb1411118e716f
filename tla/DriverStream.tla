---------------------------- MODULE DriverStream ----------------------------
(***************************************************************************)
(* One coding task handed to a vendor's command line tool: the tool, the   *)
(* driver that runs it in its own copy of the staging workspace and turns  *)
(* its events into frames (runtime_drivers/), and the gateway that reads   *)
(* the frames (external_stream.py, _run_external_process).  Three          *)
(* processes and two pipes: the tool may still edit after it reported      *)
(* success, the driver may die between two patches, the gateway may time   *)
(* out at any moment and kills the driver, though not the tool.            *)
(***************************************************************************)
EXTENDS Integers, Sequences, FiniteSets

CONSTANTS Vendors,        \* subset of "claude", "codex", "gemini", "opencode"
          Files,          \* the files of the workspace, or that a tool may add
          Texts,          \* those of them that are in the workspace and read as text
          Hidden,         \* under an ignored directory, or no allowed path of the task
          MaxFiles,       \* the task's maximum_files
          MaxEvents,      \* the driver's limit on events
          MaxNormalized,  \* progress frames before the rest is summarised
          MaxFrames       \* the gateway's maximum_frames

VARIABLES vendor,    \* the tool that was chosen
          present,   \* what the driver finds: "binary", "key", "login"
          tool,      \* the tool's process: state and exit status
          said,      \* the events it has written
          copy,      \* its copy of each file, against the workspace
          driver,    \* the driver's process
          frames,    \* the frames it has written
          host       \* the gateway's reader

driverVars == <<vendor, present, tool, said, copy, driver, frames, host>>

Kinds == {"progress", "warning", "failure", "result", "failed result", "malformed"}

\* As the workspace has it, other text, bytes that are no text, no file.
Contents == {"same", "text", "binary", "none"}

ToolStates == [state : {"off", "running", "exited"}, ok : BOOLEAN]
DriverStates == [stage : {"checking", "reading", "emitting", "exited"},
                 read : Nat, frames : Nat, fatal : BOOLEAN, completed : BOOLEAN,
                 todo : SUBSET Files, ok : BOOLEAN]
FrameTypes == {"accepted", "progress", "patch", "completed", "error"}
Frames == [type : FrameTypes, file : SUBSET Files]
HostStates == [stage : {"reading", "returned", "failed"}, read : Nat,
               patches : SUBSET Files, completed : BOOLEAN]

DriverTypeOK ==
    /\ vendor \in Vendors
    /\ present \subseteq {"binary", "key", "login"}
    /\ tool \in ToolStates
    /\ said \in Seq(Kinds)
    /\ copy \in [Files -> Contents]
    /\ driver \in DriverStates
    /\ frames \in Seq(Frames)
    /\ host \in HostStates

----------------------------------------------------------------------------
\* How each driver reads an event of its tool: whether it is the end of the
\* task, and whether it is a failure.

ClaudeSummary(e) ==
    [fatal |-> e \in {"failure", "failed result"}, completed |-> e \in {"result", "failed result"}]

\* An item's error is a warning; a failed turn does not complete.
CodexSummary(e) ==
    [fatal |-> e \in {"failure", "failed result"}, completed |-> e = "result"]

\* An error is a warning unless it is marked fatal.
GeminiSummary(e) ==
    [fatal |-> e \in {"failure", "failed result"}, completed |-> e \in {"result", "failed result"}]

\* No event says that the task is complete.
OpenCodeSummary(e) ==
    [fatal |-> e \in {"failure", "failed result"}, completed |-> FALSE]

EventSummary(e) ==
    CASE vendor = "claude" -> ClaudeSummary(e)
      [] vendor = "codex" -> CodexSummary(e)
      [] vendor = "gemini" -> GeminiSummary(e)
      [] vendor = "opencode" -> OpenCodeSummary(e)

\* A key or a login; the OpenCode driver runs only with a key.
AuthReady == present \cap {"key", "login"} # {}
CanRun == "binary" \in present /\ AuthReady /\ (vendor = "opencode" => "key" \in present)

----------------------------------------------------------------------------
\* The tool.

ToolUnchanged == UNCHANGED <<tool, said, copy>>

ToolEdits(f) ==
    /\ tool.state = "running"
    /\ \E c \in Contents : copy' = [copy EXCEPT ![f] = c]
    /\ UNCHANGED <<vendor, present, tool, said, driver, frames, host>>

ToolSays(e) ==
    /\ tool.state = "running"
    /\ Len(said) <= MaxEvents
    /\ said' = Append(said, e)
    /\ UNCHANGED <<vendor, present, tool, copy, driver, frames, host>>

ToolExits(ok) ==
    /\ tool.state = "running"
    /\ tool' = [state |-> "exited", ok |-> ok]
    /\ UNCHANGED <<vendor, present, said, copy, driver, frames, host>>

----------------------------------------------------------------------------
\* The driver.

Emit(type, file) == frames' = Append(frames, [type |-> type, file |-> file])

\* Every failure ends in one error frame and a failing exit.
DriverFails ==
    /\ Emit("error", {})
    /\ driver' = [driver EXCEPT !.stage = "exited", !.ok = FALSE]

DriverStarts ==
    /\ driver.stage = "checking"
    /\ IF CanRun
       THEN /\ Emit("accepted", {})
            /\ driver' = [driver EXCEPT !.stage = "reading"]
            /\ tool' = [tool EXCEPT !.state = "running"]
       ELSE DriverFails /\ UNCHANGED tool
    /\ UNCHANGED <<vendor, present, said, copy, host>>

\* A driver that gives up on the stream kills the tool.
DriverAbandons ==
    /\ DriverFails
    /\ tool' = [state |-> "exited", ok |-> IF tool.state = "exited" THEN tool.ok ELSE FALSE]

Progress(s) ==
    \/ driver.frames < MaxNormalized
    \/ s.fatal
    \/ s.completed

DriverReads ==
    /\ driver.stage = "reading"
    /\ driver.read < Len(said)
    /\ LET e == said[driver.read + 1]
           s == EventSummary(e)
       IN IF driver.read + 1 > MaxEvents \/ e = "malformed"
          THEN DriverAbandons
          ELSE /\ driver' = [driver EXCEPT !.read = @ + 1,
                                           !.fatal = @ \/ s.fatal,
                                           !.completed = @ \/ s.completed,
                                           !.frames = IF Progress(s) THEN @ + 1 ELSE @]
               /\ IF Progress(s) THEN Emit("progress", {}) ELSE UNCHANGED frames
               /\ UNCHANGED tool
    /\ UNCHANGED <<vendor, present, said, copy, host>>

\* Mutant: a result event is taken as success, whatever the exit status.
SucceededOnResult == driver.completed /\ ~driver.fatal

\* The tool ended well, reported no failure and, where its stream has one,
\* reported the end.
StreamSucceeded ==
    /\ tool.ok
    /\ ~driver.fatal
    /\ vendor # "opencode" => driver.completed

\* What the driver's two snapshots hold: the text files that are not hidden.
\* Any other file is passed over without a word.
Before == Texts \ Hidden
After == {f \in Before : copy[f] = "same"} \cup {f \in Files \ Hidden : copy[f] = "text"}

Changed == {f \in After : f \notin Before \/ copy[f] # "same"}
Deleted == Before \ After

\* The stream ended and the tool is gone: the text of its copy is compared with
\* that of the workspace.  Text that is no longer there, no change at all, more
\* than the task may change or too large a file is a failure; events left out
\* are summed up in a frame.
DriverCompares ==
    /\ driver.stage = "reading"
    /\ tool.state = "exited"
    /\ driver.read = Len(said)
    /\ \/ /\ StreamSucceeded
          /\ Deleted = {} /\ Changed # {} /\ Cardinality(Changed) <= MaxFiles
          /\ driver' = [driver EXCEPT !.stage = "emitting", !.todo = Changed]
          /\ IF driver.read > driver.frames THEN Emit("progress", {}) ELSE UNCHANGED frames
       \/ DriverFails
    /\ UNCHANGED <<vendor, present, host>> /\ ToolUnchanged

DriverEmits ==
    /\ driver.stage = "emitting"
    /\ IF driver.todo # {}
       THEN \E f \in driver.todo :
               /\ Emit("patch", {f})
               /\ driver' = [driver EXCEPT !.todo = @ \ {f}]
       ELSE /\ Emit("completed", {})
            /\ driver' = [driver EXCEPT !.stage = "exited", !.ok = TRUE]
    /\ UNCHANGED <<vendor, present, host>> /\ ToolUnchanged

DriverDies ==
    /\ driver.stage # "exited"
    /\ driver' = [driver EXCEPT !.stage = "exited", !.ok = FALSE]
    /\ UNCHANGED <<vendor, present, frames, host>> /\ ToolUnchanged

RunTask == DriverStarts \/ DriverReads \/ DriverCompares \/ DriverEmits

ClaudeRun == vendor = "claude" /\ RunTask
CodexRun == vendor = "codex" /\ RunTask
GeminiRun == vendor = "gemini" /\ RunTask
OpenCodeRun == vendor = "opencode" /\ RunTask

----------------------------------------------------------------------------
\* The gateway.

\* Whatever ends the reading, the driver is killed.
HostFails ==
    /\ host' = [host EXCEPT !.stage = "failed"]
    /\ driver' = [driver EXCEPT !.stage = "exited",
                                !.ok = IF driver.stage = "exited" THEN @ ELSE FALSE]

HostReads ==
    /\ host.stage = "reading"
    /\ host.read < Len(frames)
    /\ LET frame == frames[host.read + 1]
       IN IF host.read + 1 > MaxFrames \/ frame.type = "error"
          THEN HostFails
          ELSE /\ host' = [host EXCEPT !.read = @ + 1,
                                       !.patches = @ \cup frame.file,
                                       !.completed = @ \/ frame.type = "completed"]
               /\ UNCHANGED driver
    /\ UNCHANGED <<vendor, present, frames>> /\ ToolUnchanged

HostTimesOut ==
    /\ host.stage = "reading"
    /\ HostFails
    /\ UNCHANGED <<vendor, present, frames>> /\ ToolUnchanged

\* The stream ended and the driver is gone.
HostEnds ==
    /\ host.stage = "reading"
    /\ host.read = Len(frames)
    /\ driver.stage = "exited"
    /\ host' = [host EXCEPT !.stage =
                   IF driver.ok /\ host.completed THEN "returned" ELSE "failed"]
    /\ UNCHANGED <<vendor, present, driver, frames>> /\ ToolUnchanged

RunExternalProcess == HostReads \/ HostTimesOut \/ HostEnds

----------------------------------------------------------------------------
DriverInit ==
    /\ vendor \in Vendors
    /\ present \in SUBSET {"binary", "key", "login"}
    /\ tool = [state |-> "off", ok |-> FALSE]
    /\ said = <<>>
    /\ copy = [f \in Files |-> "same"]
    /\ driver = [stage |-> "checking", read |-> 0, frames |-> 0, fatal |-> FALSE,
                 completed |-> FALSE, todo |-> {}, ok |-> FALSE]
    /\ frames = <<>>
    /\ host = [stage |-> "reading", read |-> 0, patches |-> {}, completed |-> FALSE]

DriverNext ==
    \/ \E f \in Files : ToolEdits(f)
    \/ \E e \in Kinds : ToolSays(e)
    \/ \E ok \in BOOLEAN : ToolExits(ok)
    \/ ClaudeRun \/ CodexRun \/ GeminiRun \/ OpenCodeRun
    \/ DriverDies
    \/ RunExternalProcess

DriverSpec == DriverInit /\ [][DriverNext]_driverVars

----------------------------------------------------------------------------
\* The patches the gateway goes on with are all the text that the tool left
\* new or changed in what the driver compares, where no text of the workspace
\* is gone or no text any more, and the tool ended well without reporting a
\* failure anywhere in its stream: never the part a killed driver, a tool that
\* failed after editing or an edit after the result event leaves.  Of a binary
\* file that the tool adds or changes, and of a file that is hidden, a whole
\* result knows nothing.  _run_external_process returns the patches to be
\* verified and written to production.
WholeResult ==
    host.stage = "returned" =>
        /\ host.patches = {f \in Files \ Hidden : copy[f] = "text"}
        /\ \A f \in Texts \ Hidden : copy[f] \in {"same", "text"}
        /\ tool = [state |-> "exited", ok |-> TRUE]
        /\ \A i \in DOMAIN said : ~EventSummary(said[i]).fatal /\ said[i] # "malformed"
=============================================================================
