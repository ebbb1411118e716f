------------------------ MODULE MCMissionOrchestrator ------------------------
(* A mission of three steps for TLC: 1 depends on 2 and needs an approval, 2 *)
(* is free, 3 depends on 1; the plan lists 1 before its dependency.          *)
EXTENDS MissionOrchestrator, TLC

CONSTANTS r1, r2, r3, r4, r5

MCDeps == (1 :> {2}) @@ (2 :> {}) @@ (3 :> {1})
MCMaxAttempts == (1 :> 1) @@ (2 :> 2) @@ (3 :> 2)
MCCost == (1 :> 2) @@ (2 :> 1) @@ (3 :> 1)

\* Runs are interchangeable.
Symmetric == Permutations(Runs)
=============================================================================
