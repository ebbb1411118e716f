--------------------------- MODULE MCSensesAccess ---------------------------
(* One device with one session and two requests at a time for TLC. *)
EXTENDS SensesAccess

\* Bounds: a challenge is asked for only while there is a session left to
\* ask it for, and a second frame is sent only while nothing was disturbed.
MCNext ==
    /\ AccessNext
    /\ \A r \in Requests :
         req[r] = Idle /\ req'[r] # Idle /\ req'[r].at = "touch" /\ req'[r].route = "challenge"
            => \E s \in Sessions : challenge[s] = NoChallenge
    /\ disturbances' > 0 => \A k \in Consents : frame'[<<k, 2>>] = "none"

MCSpec == AccessInit /\ [][MCNext]_allVars /\ WF_allVars(Sweep)
=============================================================================
