------------------------------- MODULE Stages -------------------------------
(***************************************************************************)
(* The lifecycle of a mutation surface, per principal:                     *)
(*   capabilities/lifecycle.py       CapabilityLifecycle                   *)
(*   capabilities/lifecycle_cli.py   one process per command               *)
(*                                                                         *)
(* State is what a process reads from the log: the last stage of each      *)
(* principal, 0 for "implemented", which no line ever says.  A command     *)
(* reads the log once, decides, and appends a line; commands may overlap,  *)
(* and may die on the way, in the middle of the line included.  The next   *)
(* line is then glued to what is there and neither can be read.            *)
(***************************************************************************)
EXTENDS Naturals, Sequences

CONSTANTS
    Principals,
    Commands,     \* processes of the command line
    MaxLines      \* bound: lines of the log

ASSUME StagesAssumption == MaxLines \in Nat

VARIABLES
    lines,        \* the lines of the log that can be read
    tail,         \* the last line: ended, cut off, or whole but not ended
    command,      \* what each command is about to append
    overlapped,   \* history: two commands were under way at a time
    glued         \* history: a line was glued to a whole one

stageVars == <<lines, tail, command, overlapped, glued>>

wired == 1
conformed == 2
active == 3
proven == 4
Advances == [who : Principals, to : wired..proven]
Idle == [who |-> "nobody", to |-> 0]

StagesTypeOK ==
    /\ lines \in Seq(Advances)
    /\ tail \in {"ended", "cut", "whole"}
    /\ command \in [Commands -> Advances \cup {Idle}]
    /\ overlapped \in BOOLEAN /\ glued \in BOOLEAN

StagesInit ==
    /\ lines = <<>> /\ tail = "ended"
    /\ command = [c \in Commands |-> Idle]
    /\ overlapped = FALSE /\ glued = FALSE

-----------------------------------------------------------------------------

\* _load and _apply_entry: later lines replace earlier ones.
StageIn(log, p) ==
    LET own == {i \in DOMAIN log : log[i].who = p}
    IN IF own = {} THEN 0 ELSE log[CHOOSE i \in own : \A j \in own : j <= i].to

\* Mutant: only the founder-proven stage is kept for one principal.
GateProvenOnly(log, p, s) ==
    ~(s = proven /\ \E q \in Principals \ {p} : StageIn(log, q) = proven)

\* _single_principal_gate: whoever has a line of its own is a sibling.
Gate(log, p, s) ==
    LET siblings == {q \in Principals \ {p} : StageIn(log, q) > 0}
        someProven == \E q \in siblings : StageIn(log, q) = proven
    IN /\ s = proven => ~someProven
       /\ s = active /\ siblings # {} => someProven

\* advance: the stages one after the other (with their evidence; a command
\* without it is refused), and the gate.
MayAdvance(log, p, s) == StageIn(log, p) = s - 1 /\ Gate(log, p, s)

\* A command reads the log and is allowed to go on.
Read(c) ==
    /\ command[c] = Idle
    /\ \E a \in Advances :
          /\ MayAdvance(lines, a.who, a.to)
          /\ command' = [command EXCEPT ![c] = a]
    /\ overlapped' = (overlapped \/ \E d \in Commands : command[d] # Idle)
    /\ UNCHANGED <<lines, tail, glued>>

\* What a line, or a part of it, becomes after the tail of the log: a whole
\* line that was never ended is lost with the one glued to it.
Glue(a, end) ==
    /\ IF tail = "ended"
         THEN /\ lines' = IF end = "cut" THEN lines ELSE Append(lines, a)
              /\ tail' = end
         ELSE /\ lines' = IF tail = "whole" THEN SubSeq(lines, 1, Len(lines) - 1) ELSE lines
              /\ tail' = IF end = "ended" THEN "ended" ELSE "cut"
    /\ glued' = (glued \/ tail = "whole")

\* _append, to the end of the line or until the process dies.
AppendLine(c) ==
    /\ command[c] # Idle /\ Len(lines) < MaxLines
    /\ \E end \in {"ended", "cut", "whole"} : Glue(command[c], end)
    /\ command' = [command EXCEPT ![c] = Idle]
    /\ UNCHANGED overlapped

Dies(c) ==
    /\ command[c] # Idle
    /\ command' = [command EXCEPT ![c] = Idle]
    /\ UNCHANGED <<lines, tail, overlapped, glued>>

StagesNext == \E c \in Commands : Read(c) \/ AppendLine(c) \/ Dies(c)

StagesSpec == StagesInit /\ [][StagesNext]_stageVars

-----------------------------------------------------------------------------
(* Properties                                                              *)

\* Every stage in the log was reached from the one below it, in the log too,
\* whatever dies or overlaps (but not both).
Climbed ==
    ~(overlapped /\ glued) =>
       \A i \in DOMAIN lines : lines[i].to > wired =>
          \E j \in 1..(i - 1) :
             lines[j] = [who |-> lines[i].who, to |-> lines[i].to - 1]

\* "No second principal may reach ACTIVE on that surface until the first
\* principal is FOUNDER-PROVEN" (ADR-0055, prerequisite 4): however commands
\* die, at most one principal is proven, and nobody is active beside another
\* before one is.  Commands that overlap read the log before the other's line.
OnePrincipal ==
    ~overlapped =>
       \A p, q \in Principals :
          p # q /\ StageIn(lines, p) >= active /\ StageIn(lines, q) >= active =>
             /\ ~(StageIn(lines, p) = proven /\ StageIn(lines, q) = proven)
             /\ \E r \in Principals : StageIn(lines, r) = proven

\* The log can be relied on: stages one by one, one principal at a time
\* (advance and _single_principal_gate over a log that processes share).
StagesTrue == Climbed /\ OnePrincipal
=============================================================================
