-------------------------- MODULE VisionLifecycle --------------------------
(***************************************************************************)
(* Consent leases and raw camera or screen frames of browser sessions:     *)
(*   aether_gateway/browser_senses/vision.py                               *)
(*                                                                         *)
(* The tables are append-only; of a consent and of a frame the latest      *)
(* event is kept.  A frame is known by its consent and its sequence        *)
(* number, and its raw bytes are a file.  Every operator is one SQLite     *)
(* transaction or one file operation.  Clocks are abstracted: a lease may  *)
(* be found expired whenever it is read.  A session shows one source; the  *)
(* leases of two sources do not touch each other.                          *)
(***************************************************************************)
EXTENDS Naturals

CONSTANTS
    Consents,   \* consent ids, in the order in which they are granted
    Sessions,   \* browser sessions
    MaxFrames   \* frames per consent

ASSUME VisionAssumption == Consents \subseteq Nat /\ MaxFrames \in Nat

VARIABLES
    consent,    \* vision_consents with the latest vision_consent_events
    frame,      \* the latest vision_frame_events, by frame
    file        \* frames whose raw file is in frames_root

visionVars == <<consent, frame, file>>

Modes == {"one-shot", "bounded"}
Frames == Consents \X (1..MaxFrames)
NoConsent == [state |-> "none"]
ConsentStates == {"active", "revoked", "expired"}
Lease == [state : ConsentStates, mode : Modes, session : Sessions]
FrameStates == {"none", "accepted", "stage-failed", "deletion-failed", "deleted", "swept"}
ProvenDeletionStates == {"deleted", "swept"}

VisionTypeOK ==
    /\ consent \in [Consents -> Lease \cup {NoConsent}]
    /\ frame \in [Frames -> FrameStates]
    /\ file \subseteq Frames

VisionInit ==
    /\ consent = [k \in Consents |-> NoConsent]
    /\ frame = [f \in Frames |-> "none"]
    /\ file = {}

Active(k) == consent[k].state = "active"
SessionConsents(s) == {k \in Consents : consent[k] # NoConsent /\ consent[k].session = s}

\* Any read of a lease may find it expired and say so first.
ExpireIfNeeded(k) ==
    /\ Active(k)
    /\ consent' = [consent EXCEPT ![k].state = "expired"]
    /\ UNCHANGED <<frame, file>>

\* The leases of `ks` that are active are revoked.
Revoked(ks) ==
    [k \in Consents |->
        IF k \in ks /\ Active(k) THEN [consent[k] EXCEPT !.state = "revoked"] ELSE consent[k]]

\* A new lease supersedes the active ones of its session (and source).
GrantConsent(k, s, mode) ==
    /\ \A j \in Consents : consent[j] = NoConsent <=> j >= k
    /\ consent' = [Revoked(SessionConsents(s)) EXCEPT
                     ![k] = [state |-> "active", mode |-> mode, session |-> s]]
    /\ UNCHANGED <<frame, file>>

RevokeConsent(k) ==
    /\ consent' = Revoked({k})
    /\ UNCHANGED <<frame, file>>

RevokeSession(s) ==
    /\ consent' = Revoked(SessionConsents(s))
    /\ UNCHANGED <<frame, file>>

\* Mutant: the lease is read without a look at its latest event.
AnyConsent(k, s) == consent[k] # NoConsent /\ consent[k].session = s

BoundActiveConsent(k, s) == Active(k) /\ consent[k].session = s

\* The next number of the lease, and 1 for a one-shot lease.
ExpectedSequence(f) ==
    /\ \A n \in 1..(f[2] - 1) : frame[<<f[1], n>>] # "none"
    /\ frame[f] = "none"
    /\ consent[f[1]].mode = "one-shot" => f[2] = 1

\* accept_frame, its transaction: a one-shot lease is consumed with it.
AcceptFrame(f, s) ==
    /\ BoundActiveConsent(f[1], s)
    /\ ExpectedSequence(f)
    /\ frame' = [frame EXCEPT ![f] = "accepted"]
    /\ consent' = IF consent[f[1]].mode = "one-shot" THEN Revoked({f[1]}) ELSE consent
    /\ UNCHANGED file

\* accept_frame, the file.
StageFile(f) ==
    /\ file' = file \cup {f}
    /\ UNCHANGED <<consent, frame>>

\* What is recorded last of a frame, unless its deletion is proven already.
Terminal(f, state) ==
    frame' = [frame EXCEPT ![f] = IF @ \in ProvenDeletionStates THEN @ ELSE state]

\* The write fails, with or without a file left behind.
StageFails(f) ==
    /\ file' \in {file, file \cup {f}}
    /\ Terminal(f, "stage-failed")
    /\ UNCHANGED consent

\* Mutant: the outcome is recorded and the file is left.
DeleteFrameRecordOnly(f, outcome) ==
    /\ Terminal(f, outcome)
    /\ UNCHANGED <<consent, file>>

\* delete_frame: the file is gone before the ledger says so.
DeleteFrame(f, outcome) ==
    /\ file' = file \ {f}
    /\ Terminal(f, outcome)
    /\ UNCHANGED consent

\* unlink fails: the caller gets VisionDeletionError and the file stays.
DeletionFails(f) ==
    /\ f \in file
    /\ Terminal(f, "deletion-failed")
    /\ UNCHANGED <<consent, file>>
=============================================================================
