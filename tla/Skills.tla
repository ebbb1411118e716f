------------------------------- MODULE Skills -------------------------------
(***************************************************************************)
(* The skill factory and the router that runs its skills:                  *)
(*   aether/skills/factory.py, store.py, governance.py                     *)
(*   aether_gateway/skills/local.py       benchmark sandbox, installer     *)
(*   aether_gateway/skills/runtime.py     the runtime that invokes a skill *)
(*   aether/capabilities/router.py        from a capability to a skill     *)
(*   aether_gateway/api/server.py         /api/skills, /api/capabilities   *)
(*                                                                         *)
(* A candidate is benchmarked, decided once and becomes a skill of its     *)
(* name; a pointer file per slug of a name says which artifact is active,  *)
(* and nothing keeps two names from having one slug.  A call asks for a    *)
(* capability: the router lists the active skills that have it and tries   *)
(* them as governed actions, which may have to wait for an approval while  *)
(* the registry moves on.                                                  *)
(***************************************************************************)
EXTENDS Naturals, FiniteSets, Sequences

CONSTANTS
    SkillNames,
    Slug,               \* name -> the name of its files (_slug)
    Artifacts,          \* manifests, and by that artifact hashes, per name
    MaxSkillCandidates, \* bound on candidates
    SkillCalls,         \* capability requests
    MaximumAttempts,    \* capability_router.yaml: matching.maximum_attempts
    MaxSkillEvents      \* failing writes of the registry, crashes

ASSUME SkillsAssumption ==
    {MaxSkillCandidates, MaximumAttempts, MaxSkillEvents} \subseteq Nat

VARIABLES
    skillCandidates,    \* what was proposed, in the order of proposal
    benchmarks,         \* candidate -> verdict of its benchmark
    benchmarking,       \* benchmarks awaited
    skillDecisions,     \* candidate -> decision
    registry,           \* candidate -> lifecycle of the skill it became
    pointer,            \* slug -> candidate its active pointer names, 0: none
    unsettled,          \* names with a failed or interrupted activation
    calls,              \* capability requests under way
    skillEvents

registryVars == <<skillCandidates, benchmarks, benchmarking, skillDecisions,
                  registry, pointer, unsettled, skillEvents>>
skillVars == <<registryVars, calls>>

CandidateIds == 1..MaxSkillCandidates
Proposed == DOMAIN skillCandidates
Slugs == {Slug[n] : n \in SkillNames}

\* A proposal and the revision it is bound to; 0 stands for no prior skill.
SkillProposals ==
    [name : SkillNames, artifact : Artifacts, prior : 0..MaxSkillCandidates]

CallStates ==
    [pc : {"idle", "trying", "pending", "completed", "failed"},
     todo : Seq(CandidateIds),          \* skills to try, best first
     waiting : SUBSET CandidateIds,     \* actions that wait for an approval
     ran : SUBSET CandidateIds]         \* skills that did what was asked

SkillsInit ==
    /\ skillCandidates = <<>>
    /\ benchmarks = [c \in CandidateIds |-> "none"]
    /\ benchmarking = {}
    /\ skillDecisions = [c \in CandidateIds |-> "none"]
    /\ registry = [c \in CandidateIds |-> "none"]
    /\ pointer = [s \in Slugs |-> 0]
    /\ unsettled = {}
    /\ calls = [k \in SkillCalls |-> [pc |-> "idle", todo |-> <<>>, waiting |-> {}, ran |-> {}]]
    /\ skillEvents = 0

NameOf(c) == skillCandidates[c].name
ArtifactOf(c) == skillCandidates[c].artifact
SlugOf(c) == Slug[NameOf(c)]

SkillEvent == skillEvents < MaxSkillEvents /\ skillEvents' = skillEvents + 1

-----------------------------------------------------------------------------
(* The factory.                                                            *)

\* validate_candidate: a revision keeps the name and changes the artifact of
\* a skill that exists.
ValidSkill(p) ==
    p.prior # 0 => /\ p.prior \in Proposed /\ registry[p.prior] # "none"
                   /\ NameOf(p.prior) = p.name
                   /\ ArtifactOf(p.prior) # p.artifact

\* The same proposal again is refused: by the factory when it failed or was
\* rejected, by the unique index otherwise.  A retry reason makes it a
\* proposal of its own.
Repeats(p) == \E c \in Proposed : skillCandidates[c] = p

\* POST /api/skills/candidates.
ProposeSkill(p, retry) ==
    /\ Len(skillCandidates) < MaxSkillCandidates
    /\ ValidSkill(p)
    /\ retry \/ ~Repeats(p)
    /\ skillCandidates' = Append(skillCandidates, p)
    /\ UNCHANGED <<benchmarks, benchmarking, skillDecisions, registry, pointer,
                   unsettled, skillEvents, calls>>

\* POST .../benchmark: the sandbox copies the workspace and awaits the checks.
StartBenchmark(c) ==
    /\ c \in Proposed \ benchmarking /\ benchmarks[c] = "none"
    /\ benchmarking' = benchmarking \cup {c}
    /\ UNCHANGED <<skillCandidates, benchmarks, skillDecisions, registry, pointer,
                   unsettled, skillEvents, calls>>

\* The first benchmark of a candidate is the only one the store takes.
FinishBenchmark(c, verdict) ==
    /\ c \in benchmarking
    /\ benchmarks' = [benchmarks EXCEPT ![c] = verdict]
    /\ benchmarking' = benchmarking \ {c}
    /\ UNCHANGED <<skillCandidates, skillDecisions, registry, pointer, unsettled,
                   skillEvents, calls>>

RejectSkill(c) ==
    /\ c \in Proposed /\ skillDecisions[c] = "none"
    /\ skillDecisions' = [skillDecisions EXCEPT ![c] = "reject"]
    /\ UNCHANGED <<skillCandidates, benchmarks, benchmarking, registry, pointer,
                   unsettled, skillEvents, calls>>

\* Mutant: a stale skill is not counted.
ActiveOnly(n) == {c \in Proposed : NameOf(c) = n /\ registry[c] = "active"}

\* active_for_name: a stale skill still holds its name.  After a failed
\* activation there may be two, and the code takes the one activated last.
ActiveFor(n) == {c \in Proposed : NameOf(c) = n /\ registry[c] \in {"active", "stale"}}

\* A name in use is taken over only by a revision of the skill that uses it.
MayActivate(c) ==
    ActiveFor(NameOf(c)) = {} \/ skillCandidates[c].prior \in ActiveFor(NameOf(c))

\* validate_benchmark, asked again when the decision is made.
Benchmarked(c) == benchmarks[c] = "passed"

\* install: the artifact is kept and the pointer of the slug replaced, whatever
\* name it was for.
Install(c) == [pointer EXCEPT ![SlugOf(c)] = c]

Activatable(c) ==
    /\ c \in Proposed
    /\ skillDecisions[c] = "none" /\ registry[c] = "none"
    /\ Benchmarked(c)
    /\ MayActivate(c)

\* decide(approved): pointer, record, decision, then the prior skill is
\* superseded.
ActivateSkill(c) ==
    /\ Activatable(c)
    /\ pointer' = Install(c)
    /\ skillDecisions' = [skillDecisions EXCEPT ![c] = "activate"]
    /\ registry' = [x \in CandidateIds |->
                       IF x = c THEN "active"
                       ELSE IF x = skillCandidates[c].prior /\ x \in ActiveFor(NameOf(c))
                            THEN "superseded" ELSE registry[x]]
    /\ UNCHANGED <<skillCandidates, benchmarks, benchmarking, unsettled, skillEvents, calls>>

\* One of the writes fails and the pointer is put back as it was; or the
\* gateway ends there and it is not.  What was written before stays.
ActivationFails(c, crash) ==
    /\ SkillEvent
    /\ Activatable(c)
    /\ \E recorded, decided \in BOOLEAN :
          /\ decided => recorded /\ ActiveFor(NameOf(c)) # {}
          /\ registry' = [registry EXCEPT ![c] = IF recorded THEN "active" ELSE @]
          /\ skillDecisions' = [skillDecisions EXCEPT ![c] = IF decided THEN "activate" ELSE @]
          /\ unsettled' = IF recorded \/ crash THEN unsettled \cup {NameOf(c)} ELSE unsettled
    /\ pointer' = IF crash THEN Install(c) ELSE pointer
    /\ benchmarking' = IF crash THEN {} ELSE benchmarking
    /\ calls' = IF crash
                THEN [k \in SkillCalls |-> IF calls[k].pc = "trying" THEN [calls[k] EXCEPT !.pc = "failed"]
                                           ELSE calls[k]]
                ELSE calls
    /\ UNCHANGED <<skillCandidates, benchmarks>>

\* apply_review: unused for too long, or failing too often.
ReviewSkill(c) ==
    /\ registry[c] = "active"
    /\ registry' = [registry EXCEPT ![c] = "stale"]
    /\ UNCHANGED <<skillCandidates, benchmarks, benchmarking, skillDecisions, pointer,
                   unsettled, skillEvents, calls>>

\* deactivate: the pointer is cleared if it names the skill's artifact, whose
\* hash covers the name.
Deactivated(c) ==
    LET p == pointer[SlugOf(c)] IN
    IF p # 0 /\ NameOf(p) = NameOf(c) /\ ArtifactOf(p) = ArtifactOf(c)
    THEN [pointer EXCEPT ![SlugOf(c)] = 0] ELSE pointer

\* POST /api/skills/{skill_id}/archive: refused for a superseded skill.
ArchiveSkill(c) ==
    /\ registry[c] \in {"active", "stale"}
    /\ pointer' = Deactivated(c)
    /\ registry' = [registry EXCEPT ![c] = "archived"]
    /\ UNCHANGED <<skillCandidates, benchmarks, benchmarking, skillDecisions, unsettled,
                   skillEvents, calls>>

\* The lifecycle event cannot be written after the pointer is gone.
ArchiveFails(c) ==
    /\ SkillEvent
    /\ registry[c] \in {"active", "stale"}
    /\ pointer' = Deactivated(c)
    /\ unsettled' = unsettled \cup {NameOf(c)}
    /\ UNCHANGED <<skillCandidates, benchmarks, benchmarking, skillDecisions, registry, calls>>

-----------------------------------------------------------------------------
(* Running a skill.                                                        *)

\* CapabilityRouter.route: the active skills, best score first.  The score
\* is the success rate of earlier uses, so any order; one only when the
\* request allows no fallback.
Routes ==
    LET active == {c \in Proposed : registry[c] = "active"} IN
    {s \in UNION {[1..n -> active] : n \in 1..MaximumAttempts} :
        /\ \A i, j \in DOMAIN s : s[i] = s[j] => i = j
        /\ Len(s) \in {1, MaximumAttempts, Cardinality(active)}}

RouteCapability(k, route) ==
    /\ calls[k].pc = "idle"
    /\ calls' = [calls EXCEPT ![k].pc = "trying", ![k].todo = route]
    /\ UNCHANGED registryVars

\* The runtime validates the record when it is invoked; what it runs may
\* still fail on its input or its template.
Invoke(c, ok) == ok => registry[c] = "active"

\* do_not_fallback_on_pending_approval: an action that needs an approval
\* ends the call.
PendingApproval(call) ==
    [call EXCEPT !.pc = "pending", !.waiting = @ \cup {Head(call.todo)}, !.todo = <<>>]

\* CapabilityRouter.execute, one attempt: refused or failed, the next skill
\* is tried; done, the call is complete.
Attempt(k, out) ==
    LET call == calls[k]
        c == Head(call.todo)
    IN  /\ call.pc = "trying"
        /\ Invoke(c, out = "ok")
        /\ calls' = [calls EXCEPT ![k] =
              CASE out = "pending" -> PendingApproval(call)
                [] out = "ok" -> [call EXCEPT !.pc = "completed", !.ran = @ \cup {c}, !.todo = <<>>]
                [] out = "failed" -> [call EXCEPT !.pc = IF Len(call.todo) = 1 THEN "failed" ELSE @,
                                                  !.todo = Tail(@)]]
        /\ UNCHANGED registryVars

\* The approval is given and the action runs, once.
ApprovedRun(k, c, ok) ==
    /\ c \in calls[k].waiting
    /\ Invoke(c, ok)
    /\ calls' = [calls EXCEPT ![k].waiting = @ \ {c}, ![k].ran = IF ok THEN @ \cup {c} ELSE @]
    /\ UNCHANGED registryVars

ProposalRoute == \E p \in SkillProposals, retry \in BOOLEAN : ProposeSkill(p, retry)

\* benchmark, activate and reject.
CandidateRoutes ==
    \E c \in Proposed :
       \/ StartBenchmark(c)
       \/ \E v \in {"passed", "failed"} : FinishBenchmark(c, v)
       \/ RejectSkill(c) \/ ActivateSkill(c)
       \/ \E crash \in BOOLEAN : ActivationFails(c, crash)

\* review and archive.
SkillRoutes == \E c \in Proposed : ReviewSkill(c) \/ ArchiveSkill(c) \/ ArchiveFails(c)

ExecuteRoute ==
    \E k \in SkillCalls :
       \/ \E route \in Routes : RouteCapability(k, route)
       \/ \E out \in {"pending", "ok", "failed"} : Attempt(k, out)
       \/ \E c \in CandidateIds, ok \in BOOLEAN : ApprovedRun(k, c, ok)

SkillsNext == ProposalRoute \/ CandidateRoutes \/ SkillRoutes \/ ExecuteRoute

SkillsSpec == SkillsInit /\ [][SkillsNext]_skillVars

-----------------------------------------------------------------------------

SkillsTypeOK ==
    /\ skillCandidates \in Seq(SkillProposals) /\ Len(skillCandidates) <= MaxSkillCandidates
    /\ benchmarks \in [CandidateIds -> {"none", "passed", "failed"}]
    /\ benchmarking \subseteq Proposed
    /\ skillDecisions \in [CandidateIds -> {"none", "activate", "reject"}]
    /\ registry \in [CandidateIds -> {"none", "active", "stale", "archived", "superseded"}]
    /\ pointer \in [Slugs -> 0..MaxSkillCandidates]
    /\ unsettled \subseteq SkillNames
    /\ calls \in [SkillCalls -> CallStates]
    /\ skillEvents \in 0..MaxSkillEvents

\* No candidate has another name with the slug of n.
SlugAlone(n) == \A c \in Proposed : SlugOf(c) = Slug[n] => NameOf(c) = n

\* Registry and runtime directory agree: however candidates for one name are
\* proposed, benchmarked, activated, marked stale and archived, in whatever
\* order, at most one skill holds the name; the active pointer never names a
\* skill of the name that does not hold it; and as long as no other name has
\* the slug, it names the one that does, or nothing when there is none.
\* (SkillFactory.decide and lifecycle, LocalRuntimeSkillInstaller; names whose
\* activation was cut off are set apart.)
SkillsAgree ==
    \A n \in SkillNames \ unsettled :
       LET holders == {c \in Proposed : NameOf(c) = n /\ registry[c] \in {"active", "stale"}}
           named == {pointer[Slug[n]]} \ {0}
       IN  /\ \A c, d \in holders : c = d
           /\ \A c \in named : NameOf(c) = n => c \in holders
           /\ SlugAlone(n) => holders = named

\* A capability request is done once: fallback, approvals given late and
\* skills that come and go in between never make two skills do it.
\* (CapabilityRouter.execute, do_not_fallback_on_pending_approval.)
DoneOnce == \A k \in SkillCalls : Cardinality(calls[k].ran) <= 1

\* The skill that a name calls is the one the registry means, and a request for
\* a capability is done by one skill (SkillFactory and CapabilityRouter).
SkillsSound == SkillsAgree /\ DoneOnce
=============================================================================
