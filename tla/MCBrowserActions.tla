--------------------------- MODULE MCBrowserActions ---------------------------
(* Small instances of BrowserActions, and of GovernedActions in it, for TLC. *)
EXTENDS BrowserActions, TLC

CONSTANTS a1, a2, a3, r1, r2, r3, c1, c2, i1, i2

\* All actions of an instance share one signature, so that a failure of one
\* blocks the retry of another.
OneSignature == [a \in Actions |-> "signature"]

\* Requests, controls and control ids are interchangeable.
Symmetric == Permutations(Requests) \cup Permutations(Controls) \cup Permutations(ControlIds)
=============================================================================
