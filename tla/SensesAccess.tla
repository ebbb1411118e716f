---------------------------- MODULE SensesAccess ----------------------------
(***************************************************************************)
(* Who may use the browser senses: pairing, devices, challenges, session   *)
(* bindings, sessions, LiveKit grants and vision consents:                 *)
(*   aether_gateway/browser_senses/bootstrap.py   pairing to bindings      *)
(*   aether_gateway/browser_senses/service.py     sessions                 *)
(*   aether_gateway/browser_senses/grants.py      LiveKit grants           *)
(*   aether_gateway/browser_senses/vision.py      module VisionLifecycle   *)
(*   aether_gateway/api/server.py                 the routes, the sweeper  *)
(*                                                                         *)
(* Routes are served by a thread pool, and each database transaction is a  *)
(* step: `req` holds, for each request being served, the route and what it *)
(* has read.  A pairing has at most one device and a challenge at most one *)
(* session, so both are known by the id they come from; `rows` counts what *)
(* was really created.  Secrets, signatures and CSRF nonces are taken as   *)
(* valid, and clocks are abstracted: a check of an expiry or of a rate     *)
(* limit may go either way, and a refusal by one that writes nothing is no *)
(* step.                                                                   *)
(***************************************************************************)
EXTENDS VisionLifecycle

CONSTANTS
    Pairings,           \* bootstrap ids
    Requests,           \* requests that are served at once
    Idle,
    MaxMishaps     \* crashes, failed file operations and expiries

ASSUME AccessAssumption == MaxMishaps \in Nat

VARIABLES
    pairing,        \* latest browser_pairing_events
    device,         \* latest browser_device_events
    rows,           \* browser_paired_devices of a pairing
    challenge,      \* latest browser_session_challenge_events, with the device
    binding,        \* latest browser_session_binding_events
    session,        \* browser_sense_sessions
    grant,          \* latest livekit_grant_events of a session
    req,
    shut,           \* sessions whose close has revoked their consents
    disturbances

accessVars == <<pairing, device, rows, challenge, binding, session, grant>>
allVars == <<visionVars, accessVars, req, shut, disturbances>>

NoChallenge == [state |-> "none"]
Closed == {"closed", "expired"}
Routes == {"challenge", "session", "active", "close", "consent", "stop", "frame"}

AccessTypeOK ==
    /\ VisionTypeOK
    /\ pairing \in [Pairings -> {"none", "pending", "approved", "denied", "expired", "exchanged"}]
    /\ device \in [Pairings -> {"none", "active", "expired", "revoked"}]
    /\ rows \in [Pairings -> Nat]
    /\ challenge \in [Sessions -> [state : {"issued", "used"}, device : Pairings] \cup {NoChallenge}]
    /\ binding \in [Sessions -> {"none", "issued", "active"} \cup Closed]
    /\ session \in [Sessions -> {"none", "issued", "active", "closed"}]
    /\ grant \in [Sessions -> {"none", "issued", "revoked", "expired"}]
    /\ shut \subseteq Sessions
    /\ disturbances \in 0..MaxMishaps

AccessInit ==
    /\ VisionInit
    /\ pairing = [p \in Pairings |-> "none"]
    /\ device = [p \in Pairings |-> "none"]
    /\ rows = [p \in Pairings |-> 0]
    /\ challenge = [s \in Sessions |-> NoChallenge]
    /\ binding = [s \in Sessions |-> "none"]
    /\ session = [s \in Sessions |-> "none"]
    /\ grant = [s \in Sessions |-> "none"]
    /\ req = [r \in Requests |-> Idle]
    /\ shut = {}
    /\ disturbances = 0

\* The request moves on to step `at`, or is answered.
At(r, at) == req[r] # Idle /\ req[r].at = at
GoTo(r, at) == req' = [req EXCEPT ![r].at = at]
Answered(r) == req' = [req EXCEPT ![r] = Idle]
Open(s) == session[s] \in {"issued", "active"}
Disturb ==
    /\ disturbances < MaxMishaps
    /\ disturbances' = disturbances + 1

-----------------------------------------------------------------------------
(* Pairing. *)

AppendPairing(p, state) == pairing' = [pairing EXCEPT ![p] = state]

RequestPairing(p) ==
    /\ pairing[p] = "none"
    /\ AppendPairing(p, "pending")
    /\ UNCHANGED <<visionVars, device, rows, challenge, binding, session, grant, req,
                   shut, disturbances>>

\* _request_state, called by every poll, list, decision and exchange.
ExpirePairing(p) ==
    /\ pairing[p] \in {"pending", "approved"}
    /\ AppendPairing(p, "expired")
    /\ UNCHANGED <<visionVars, device, rows, challenge, binding, session, grant, req,
                   shut, disturbances>>

DecidePairing(p, target) ==
    /\ pairing[p] = "pending"
    /\ AppendPairing(p, target)
    /\ UNCHANGED <<visionVars, device, rows, challenge, binding, session, grant, req,
                   shut, disturbances>>

\* The routes under bootstrap/requests: create, status, list and decision.
PairingRoutes(p) ==
    \/ RequestPairing(p) \/ ExpirePairing(p)
    \/ \E target \in {"approved", "denied"} : DecidePairing(p, target)

\* exchange reads the state first ...
BeginExchange(r, p) ==
    /\ req[r] = Idle
    /\ pairing[p] = "approved"
    /\ req' = [req EXCEPT ![r] = [at |-> "exchange", pairing |-> p]]
    /\ UNCHANGED <<visionVars, accessVars, shut, disturbances>>

NotConsumed(p) == rows[p] = 0

\* ... and looks only for a device when it writes.
FinishExchange(r) ==
    /\ At(r, "exchange")
    /\ LET p == req[r].pairing
       IN  IF NotConsumed(p)
             THEN /\ rows' = [rows EXCEPT ![p] = @ + 1]
                  /\ device' = [device EXCEPT ![p] = "active"]
                  /\ AppendPairing(p, "exchanged")
             ELSE UNCHANGED <<rows, device, pairing>>
    /\ Answered(r)
    /\ UNCHANGED <<visionVars, challenge, binding, session, grant, shut, disturbances>>

\* POST exchange.
ExchangeRoute(r) == (\E p \in Pairings : BeginExchange(r, p)) \/ FinishExchange(r)

-----------------------------------------------------------------------------
(* Authentication of a device and of a session. *)

\* A route that a device calls: POST challenges, POST session.
BeginDeviceRoute(r, p, route) ==
    /\ req[r] = Idle
    /\ device[p] = "active"
    /\ req' = [req EXCEPT ![r] = [at |-> "touch", route |-> route, device |-> p]]
    /\ UNCHANGED <<visionVars, accessVars, shut, disturbances>>

\* A route that a session calls: binding and device are read.
BeginSessionRoute(r, s, route) ==
    /\ req[r] = Idle
    /\ binding[s] \in {"issued", "active"}
    /\ device[challenge[s].device] = "active"
    /\ req' = [req EXCEPT ![r] = [at |-> "touch", route |-> route, session |-> s,
                                  device |-> challenge[s].device, read |-> binding[s]]]
    /\ UNCHANGED <<visionVars, accessVars, shut, disturbances>>

\* authenticate_device: _device_state writes the state it read ...
TouchDevice(r) ==
    /\ At(r, "touch")
    /\ req[r].route \in {"challenge", "session"}
    /\ device' = [device EXCEPT ![req[r].device] = "active"]
    /\ GoTo(r, req[r].route)
    /\ UNCHANGED <<visionVars, pairing, rows, challenge, binding, session, grant, shut,
                   disturbances>>

\* ... or that the credential has expired.
DeviceExpired(r) ==
    /\ At(r, "touch")
    /\ Disturb
    /\ device' = [device EXCEPT ![req[r].device] = "expired"]
    /\ Answered(r)
    /\ UNCHANGED <<visionVars, pairing, rows, challenge, binding, session, grant, shut>>

\* authenticate_session writes the states it read of device and binding, and the
\* service then looks at the session itself.
Admit(r) ==
    /\ At(r, "touch")
    /\ req[r].route \notin {"challenge", "session"}
    /\ LET s == req[r].session
       IN  /\ device' = [device EXCEPT ![req[r].device] = "active"]
           /\ binding' = [binding EXCEPT ![s] = req[r].read]
           /\ IF Open(s) THEN GoTo(r, req[r].route) ELSE Answered(r)
    /\ UNCHANGED <<visionVars, pairing, rows, challenge, session, grant, shut,
                   disturbances>>

\* The session has expired: only the binding is closed.
BindingExpired(r) ==
    /\ At(r, "touch")
    /\ req[r].route \notin {"challenge", "session"}
    /\ Disturb
    /\ device' = [device EXCEPT ![req[r].device] = "active"]
    /\ LET s == req[r].session
       IN  binding' = [binding EXCEPT ![s] = IF @ \in Closed THEN @ ELSE "expired"]
    /\ Answered(r)
    /\ UNCHANGED <<visionVars, pairing, rows, challenge, session, grant, shut>>

-----------------------------------------------------------------------------
(* Challenges and sessions. *)

AppendBinding(s, state) == binding' = [binding EXCEPT ![s] = state]

IssueChallenge(r, s) ==
    /\ At(r, "challenge")
    /\ challenge[s] = NoChallenge
    /\ challenge' = [challenge EXCEPT ![s] = [state |-> "issued", device |-> req[r].device]]
    /\ Answered(r)
    /\ UNCHANGED <<visionVars, pairing, device, rows, binding, session, grant, shut,
                   disturbances>>

ConsumeChallenge(r, s) ==
    /\ At(r, "session")
    /\ challenge[s] = [state |-> "issued", device |-> req[r].device]
    /\ challenge' = [challenge EXCEPT ![s].state = "used"]
    /\ req' = [req EXCEPT ![r] = [at |-> "issue", session |-> s]]
    /\ UNCHANGED <<visionVars, pairing, device, rows, binding, session, grant, shut,
                   disturbances>>

RecordGrant(s) == grant' = [grant EXCEPT ![s] = "issued"]

\* issue_session: with a grant when LiveKit is ready.
IssueSession(r) ==
    /\ At(r, "issue")
    /\ LET s == req[r].session
       IN  /\ RecordGrant(s) \/ UNCHANGED grant
           /\ session' = [session EXCEPT ![s] = "issued"]
    /\ GoTo(r, "bind")
    /\ UNCHANGED <<visionVars, pairing, device, rows, challenge, binding, shut, disturbances>>

BindSession(r) ==
    /\ At(r, "bind")
    /\ AppendBinding(req[r].session, "issued")
    /\ Answered(r)
    /\ UNCHANGED <<visionVars, pairing, device, rows, challenge, session, grant, shut,
                   disturbances>>

\* A refusal ends the request: a challenge, lease or frame that is not valid, or
\* a session that was closed since Admit.
Refuse(r) ==
    /\ \/ \E route \in {"session", "consent", "stop", "frame"} : At(r, route)
       \/ \E route \in {"active", "close"} : At(r, route) /\ ~Open(req[r].session)
    /\ Answered(r)
    /\ UNCHANGED <<visionVars, accessVars, shut, disturbances>>

\* mark_active: a session that was closed since Admit is opened again.
MarkActive(r) ==
    /\ At(r, "active")
    /\ session' = [session EXCEPT ![req[r].session] = "active"]
    /\ shut' = shut \ {req[r].session}
    /\ GoTo(r, "bind active")
    /\ UNCHANGED <<visionVars, pairing, device, rows, challenge, binding, grant,
                   disturbances>>

MarkBindingActive(r) ==
    /\ At(r, "bind active")
    /\ AppendBinding(req[r].session, "active")
    /\ Answered(r)
    /\ UNCHANGED <<visionVars, pairing, device, rows, challenge, session, grant, shut,
                   disturbances>>

-----------------------------------------------------------------------------
(* The end of a session: the close route, and the sessions of a device. *)

\* Where close_session returns to: the close route, or revoke_device.
AfterClose(r) == IF "closed" \in DOMAIN req[r] THEN "revoke" ELSE "close binding"

\* close_session of the service: a closed session is left as it is.
CloseSession(r) ==
    /\ At(r, "close")
    /\ IF Open(req[r].session)
         THEN /\ session' = [session EXCEPT ![req[r].session] = "closed"]
              /\ GoTo(r, "close consents")
         ELSE GoTo(r, AfterClose(r)) /\ UNCHANGED session
    /\ UNCHANGED <<visionVars, pairing, device, rows, challenge, binding, grant, shut,
                   disturbances>>

CloseConsents(r) ==
    /\ At(r, "close consents")
    /\ RevokeSession(req[r].session)
    /\ shut' = shut \cup ({req[r].session} \cap {s \in Sessions : session[s] = "closed"})
    /\ GoTo(r, "close grant")
    /\ UNCHANGED <<accessVars, disturbances>>

\* revoke_for_session: LiveKit is told first, whatever it answers.
CloseGrant(r) ==
    /\ At(r, "close grant")
    /\ grant' = [grant EXCEPT ![req[r].session] = IF @ = "issued" THEN "revoked" ELSE @]
    /\ GoTo(r, AfterClose(r))
    /\ UNCHANGED <<visionVars, pairing, device, rows, challenge, binding, session, shut,
                   disturbances>>

CloseBinding(r) ==
    /\ At(r, "close binding")
    /\ binding' = [binding EXCEPT ![req[r].session] = IF @ \in Closed THEN @ ELSE "closed"]
    /\ Answered(r)
    /\ UNCHANGED <<visionVars, pairing, device, rows, challenge, session, grant, shut,
                   disturbances>>

\* Any read of a grant may find it expired.
ExpireGrant(s) ==
    /\ grant[s] = "issued"
    /\ Disturb
    /\ grant' = [grant EXCEPT ![s] = "expired"]
    /\ UNCHANGED <<visionVars, pairing, device, rows, challenge, binding, session, req,
                   shut>>

\* revoke_device: the device and the list of its bindings in one transaction.
RevokeDevice(r, p) ==
    /\ req[r] = Idle
    /\ rows[p] > 0
    /\ device' = [device EXCEPT ![p] = "revoked"]
    /\ req' = [req EXCEPT ![r] = [at |-> "revoke", closed |-> {}, bound |->
                 {s \in Sessions : binding[s] # "none" /\ challenge[s].device = p}]]
    /\ UNCHANGED <<visionVars, pairing, rows, challenge, binding, session, grant, shut,
                   disturbances>>

\* The bindings that are not closed yet are closed one after the other ...
RevokeBinding(r) ==
    /\ At(r, "revoke")
    /\ \E s \in req[r].bound :
         /\ binding' = [binding EXCEPT ![s] = IF @ \in Closed THEN @ ELSE "closed"]
         /\ req' = [req EXCEPT ![r].bound = @ \ {s},
                               ![r].closed = IF binding[s] \in Closed THEN @ ELSE @ \cup {s}]
    /\ UNCHANGED <<visionVars, pairing, device, rows, challenge, session, grant, shut,
                   disturbances>>

\* ... and then the sessions of those that this call has closed.
RevokeSessionNext(r) ==
    /\ At(r, "revoke")
    /\ req[r].bound = {}
    /\ IF req[r].closed = {}
         THEN Answered(r)
         ELSE \E s \in req[r].closed :
                req' = [req EXCEPT ![r] = [at |-> "close", session |-> s, bound |-> {},
                                           closed |-> @.closed \ {s}]]
    /\ UNCHANGED <<visionVars, accessVars, shut, disturbances>>

-----------------------------------------------------------------------------
(* Vision. *)

RouteConsent(r) ==
    /\ At(r, "consent")
    /\ \E k \in Consents, mode \in Modes : GrantConsent(k, req[r].session, mode)
    /\ Answered(r)
    /\ UNCHANGED <<accessVars, shut, disturbances>>

RouteStop(r) ==
    /\ At(r, "stop")
    /\ \E k \in SessionConsents(req[r].session) : RevokeConsent(k)
    /\ Answered(r)
    /\ UNCHANGED <<accessVars, shut, disturbances>>

\* grant_vision_consent and revoke_vision_consent of the service.
VisionConsent(r) == RouteConsent(r) \/ RouteStop(r)

LeaseExpires(k) ==
    /\ ExpireIfNeeded(k)
    /\ Disturb
    /\ UNCHANGED <<accessVars, req, shut>>

\* A frame request names a lease that its session was granted.
BeginFrame(r, s, f) ==
    /\ f[1] \in SessionConsents(s)
    /\ req[r] = Idle
    /\ binding[s] \in {"issued", "active"}
    /\ device[challenge[s].device] = "active"
    /\ req' = [req EXCEPT ![r] = [at |-> "touch", route |-> "frame", session |-> s, frame |-> f,
                                  device |-> challenge[s].device, read |-> binding[s]]]
    /\ UNCHANGED <<visionVars, accessVars, shut, disturbances>>

RouteFrame(r) ==
    /\ At(r, "frame")
    /\ AcceptFrame(req[r].frame, req[r].session)
    /\ GoTo(r, "stage")
    /\ UNCHANGED <<accessVars, shut, disturbances>>

WriteFrame(r) ==
    /\ At(r, "stage")
    /\ StageFile(req[r].frame)
    /\ GoTo(r, "think")
    /\ UNCHANGED <<accessVars, shut, disturbances>>

WriteFails(r) ==
    /\ At(r, "stage")
    /\ Disturb
    /\ StageFails(req[r].frame)
    /\ Answered(r)
    /\ UNCHANGED <<accessVars, shut>>

\* The turn has ended, well or not: handle_vision's finally.
EndFrame(r) ==
    /\ At(r, "think")
    /\ DeleteFrame(req[r].frame, "deleted")
    /\ Answered(r)
    /\ UNCHANGED <<accessVars, shut, disturbances>>

EndFrameFails(r) ==
    /\ At(r, "think")
    /\ Disturb
    /\ DeletionFails(req[r].frame)
    /\ Answered(r)
    /\ UNCHANGED <<accessVars, shut>>

\* vision_orphan_sweeper_loop: any file that is old enough.
Sweep ==
    /\ \E f \in file : DeleteFrame(f, "swept")
    /\ UNCHANGED <<accessVars, req, shut, disturbances>>

SweepFails ==
    /\ Disturb
    /\ \E f \in file : DeletionFails(f)
    /\ UNCHANGED <<accessVars, req, shut>>

SweepOrphanFrames == Sweep \/ SweepFails

\* The gateway stops: what was being served is gone.
GatewayStops ==
    /\ Disturb
    /\ \E r \in Requests : req[r] # Idle
    /\ req' = [r \in Requests |-> Idle]
    /\ UNCHANGED <<visionVars, accessVars, shut>>

AccessNext ==
    \/ \E p \in Pairings : PairingRoutes(p)
    \/ \E r \in Requests :
         \/ \E p \in Pairings :
              \/ RevokeDevice(r, p)
              \/ \E route \in {"challenge", "session"} : BeginDeviceRoute(r, p, route)
         \/ \E s \in Sessions :
              \/ \E route \in {"active", "close", "consent", "stop"} : BeginSessionRoute(r, s, route)
              \/ \E f \in Frames : BeginFrame(r, s, f)
              \/ IssueChallenge(r, s) \/ ConsumeChallenge(r, s)
         \/ ExchangeRoute(r) \/ TouchDevice(r) \/ DeviceExpired(r) \/ Admit(r) \/ BindingExpired(r)
         \/ IssueSession(r) \/ BindSession(r) \/ Refuse(r)
         \/ MarkActive(r) \/ MarkBindingActive(r)
         \/ CloseSession(r) \/ CloseConsents(r) \/ CloseGrant(r) \/ CloseBinding(r)
         \/ RevokeBinding(r) \/ RevokeSessionNext(r)
         \/ VisionConsent(r) \/ RouteFrame(r)
         \/ WriteFrame(r) \/ WriteFails(r) \/ EndFrame(r) \/ EndFrameFails(r)
    \/ \E s \in Sessions : ExpireGrant(s)
    \/ \E k \in Consents : LeaseExpires(k)
    \/ SweepOrphanFrames \/ GatewayStops

\* The sweeper is a loop of the gateway; a restart starts it again.
AccessSpec == AccessInit /\ [][AccessNext]_allVars /\ WF_allVars(Sweep)

-----------------------------------------------------------------------------
(* Properties. *)

\* Once a close has revoked the consents of a session no frame of it is
\* accepted, whatever was being served at the time, unless a concurrent
\* activation has opened the session again.
NoFrameOnceShut ==
    [][\A f \in Frames :
         frame[f] = "none" /\ frame'[f] # "none" => consent[f[1]].session \notin shut]_allVars

\* Raw bytes do not stay: the turn deletes them or the sweeper does.
RawFramesGo == \A f \in Frames : f \in file ~> f \notin file
=============================================================================
