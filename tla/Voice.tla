------------------------------- MODULE Voice -------------------------------
(***************************************************************************)
(* Exact-text speech of Aether core:                                       *)
(*   aether/voice/runtime.py   VoiceDeploymentManifest, the runtime        *)
(*   aether/voice/worker.py    CredentialedVoiceWorker, its command        *)
(*   aether/voice/policy.py, contracts.py, adapters.py   what a turn meets *)
(*   aether/resilience/provider.py   CircuitBreaker                        *)
(*                                                                         *)
(* A runtime speaks one turn after the other.  Each run of the worker      *)
(* builds a runtime, and a circuit, of its own.  The text of a turn is     *)
(* abstracted to what the gates ask of it.                                 *)
(***************************************************************************)
EXTENDS Naturals, FiniteSets, Sequences

CONSTANTS
    VoiceThreshold, VoiceCooldown,  \* the circuit of the manifest
    MaxVoiceTime, MaxVoiceCalls     \* bounds: the clock, calls of a runtime

ASSUME VoiceAssumption ==
    {VoiceThreshold, VoiceCooldown, MaxVoiceTime, MaxVoiceCalls} \subseteq Nat \ {0}

VARIABLES
    voiceClock,
    deployment,  \* the loaded deployment manifest: none or one
    runtime,   \* its circuit breaker, its provider calls so far (history) and
               \* whether a turn raised while it held the probe (history)
    speaking,  \* the turn at the provider: none or one
    answer     \* the receipt of the latest turn

voiceVars == <<voiceClock, deployment, runtime, speaking, answer>>

\* What from_yaml asks of a manifest: Founder consent, a text-only path, and
\* the free tier without a way out of it.
Manifests == [consent : BOOLEAN, textOnly : BOOLEAN, free : BOOLEAN]

Accepted(m) == m.consent /\ m.textOnly /\ m.free

\* VoiceTurnRequest; unfit: the prompt compiler raises (too long, or a NUL).
VoiceTurns == [private : BOOLEAN, consent : BOOLEAN, secret : BOOLEAN, unfit : BOOLEAN]

\* BoundedVoicePromptCompiler.compile refuses the text.
Refused(t) == t.unfit

\* What the adapter may meet, and how the error it raises counts: a reply
\* without usable audio or a missing credential says nothing about the
\* provider (an unknown kind), and neither does a rejected request.
Replies == {"audio", "throttled", "down", "rejected", "no audio", "no credential"}

Verdict(reply) ==
    CASE reply = "audio" -> "success"
      [] reply \in {"throttled", "down"} -> "counted"
      [] OTHER -> "ignored"

VoiceCalls == [turn : VoiceTurns, at : Nat, done : Nat,
               verdict : {"success", "counted", "ignored"}]
Breakers == [state : {"closed", "open", "half_open"}, failures : Nat,
             opened : Nat, probe : BOOLEAN]

NewBreaker == [state |-> "closed", failures |-> 0, opened |-> 0, probe |-> FALSE]
NewRuntime == [breaker |-> NewBreaker, calls |-> <<>>, lost |-> FALSE]

VoiceType ==
    /\ voiceClock \in 0..MaxVoiceTime
    /\ deployment \in SUBSET Manifests
    /\ runtime \in [breaker : Breakers, calls : Seq(VoiceCalls), lost : BOOLEAN]
    /\ speaking \in SUBSET [turn : VoiceTurns, at : Nat]
    /\ answer.turn \in SUBSET VoiceTurns

VoiceInit ==
    /\ voiceClock = 0
    /\ deployment = {}
    /\ runtime = NewRuntime
    /\ speaking = {}
    /\ answer = [turn |-> {}, outcome |-> "none", fallback |-> "none"]

-----------------------------------------------------------------------------
(* CircuitBreaker                                                          *)

\* Mutant: an open circuit is tried again as soon as there is a turn.
TriedAtOnce(b) ==
    IF b.state = "open" THEN [b EXCEPT !.state = "half_open", !.probe = FALSE] ELSE b

\* allow_request, first half: an open circuit that cooled down is half open.
Cooled(b) ==
    IF b.state = "open" /\ voiceClock - b.opened >= VoiceCooldown
    THEN [b EXCEPT !.state = "half_open", !.probe = FALSE]
    ELSE b

\* allow_request, second half: one probe at a time goes through it.
Allows(b) == b.state = "closed" \/ (b.state = "half_open" /\ ~b.probe)

\* record_success and record_failure
Recorded(b, verdict) ==
    CASE verdict = "success" -> NewBreaker
      [] verdict = "ignored" -> [b EXCEPT !.probe = FALSE]
      [] /\ verdict = "counted"
         /\ b.state = "half_open" \/ b.failures + 1 >= VoiceThreshold ->
            [state |-> "open", failures |-> b.failures + 1, opened |-> voiceClock,
             probe |-> FALSE]
      [] OTHER -> [b EXCEPT !.failures = @ + 1, !.probe = FALSE]

-----------------------------------------------------------------------------
(* ExactTextVoiceRuntime                                                   *)

LoadManifest(m) ==
    /\ deployment = {}
    /\ Accepted(m)
    /\ deployment' = {m}
    /\ UNCHANGED <<voiceClock, runtime, speaking, answer>>

\* The gates of synthesize, in their order.
PrivacyGate(m, t) ==
    IF t.private THEN "private_text_only"
    ELSE IF m.consent /\ ~t.consent THEN "consent_required"
    ELSE IF t.secret THEN "secret_class" ELSE "passed"

\* _receipt: a turn suppressed for its privacy stays text; any other that was
\* not spoken goes to the first fallback, which may be another speech engine.
Answer(t, outcome) ==
    [turn |-> {t}, outcome |-> outcome,
     fallback |-> CASE outcome \in {"private_text_only", "consent_required", "secret_class"}
                           -> "text-only"
                    [] outcome \in {"succeeded", "raised"} -> "none"
                    [] OTHER -> "first"]

\* synthesize of t on the runtime rt, up to its call of the provider.  The
\* circuit is asked before the prompt is compiled, so a turn that the compiler
\* refuses keeps the probe it was given.
Synthesize(t, rt) ==
    /\ speaking = {}
    /\ Len(rt.calls) < MaxVoiceCalls
    /\ \E m \in deployment :
        LET gate == PrivacyGate(m, t)
            b == IF gate = "passed" THEN Cooled(rt.breaker) ELSE rt.breaker
        IN \/ /\ gate # "passed" \/ ~Allows(b)
              /\ answer' = Answer(t, IF gate # "passed" THEN gate ELSE "circuit_open")
              /\ runtime' = [rt EXCEPT !.breaker = b]
              /\ UNCHANGED speaking
           \/ /\ gate = "passed" /\ Allows(b)
              /\ runtime' = [rt EXCEPT !.breaker = [b EXCEPT !.probe = (b.state = "half_open")],
                                       !.lost = @ \/ (Refused(t) /\ b.state = "half_open")]
              /\ speaking' = IF Refused(t) THEN {} ELSE {[turn |-> t, at |-> voiceClock]}
              /\ answer' = IF Refused(t) THEN Answer(t, "raised") ELSE answer
    /\ UNCHANGED <<voiceClock, deployment>>

\* The provider call returns or raises, and the circuit is told.
ProviderAnswers(reply) ==
    /\ \E s \in speaking :
        /\ runtime' = [runtime EXCEPT
              !.breaker = Recorded(@, Verdict(reply)),
              !.calls = Append(@, [turn |-> s.turn, at |-> s.at, done |-> voiceClock,
                                   verdict |-> Verdict(reply)])]
        /\ answer' = Answer(s.turn, IF reply = "audio" THEN "succeeded" ELSE "fallback_required")
    /\ speaking' = {}
    /\ UNCHANGED <<voiceClock, deployment>>

\* The command of the worker, told to execute (by --execute or the gate in its
\* environment, and not --dry-run; else it only reports): it speaks one turn,
\* which the command cannot mark private, on a runtime of its own.
WorkerRun(t) ==
    /\ ~t.private
    /\ Synthesize(t, NewRuntime)

VoiceTick ==
    /\ voiceClock < MaxVoiceTime
    /\ voiceClock' = voiceClock + 1
    /\ UNCHANGED <<deployment, runtime, speaking, answer>>

VoiceNext ==
    \/ \E m \in Manifests : LoadManifest(m)
    \/ \E t \in VoiceTurns : Synthesize(t, runtime) \/ WorkerRun(t)
    \/ \E reply \in Replies : ProviderAnswers(reply)
    \/ VoiceTick

VoiceSpec == VoiceInit /\ [][VoiceNext]_voiceVars

-----------------------------------------------------------------------------
(* Properties                                                              *)

\* The counted failures of the calls before i, since the last success.
CountedBefore(i) ==
    {j \in 1..i - 1 : /\ runtime.calls[j].verdict = "counted"
                      /\ \A k \in j..i - 1 : runtime.calls[k].verdict # "success"}

\* A provider that failed as often as the threshold says is left alone for the
\* cooldown after each of its failures, however many turns ask for it.
ProviderSpared ==
    \A i \in DOMAIN runtime.calls :
        Cardinality(CountedBefore(i)) >= VoiceThreshold =>
            \A j \in CountedBefore(i) :
                runtime.calls[i].at >= runtime.calls[j].done + VoiceCooldown

\* Only a turn that its speaker agreed to, on a manifest that cannot be billed,
\* leaves the machine; any other is not handed to another speech engine either.
SpokenWithConsent ==
    /\ \A t \in {s.turn : s \in speaking} \cup
                {runtime.calls[i].turn : i \in DOMAIN runtime.calls} :
          t.consent /\ ~t.private /\ ~t.secret /\ \A m \in deployment : m.free
    /\ \A t \in answer.turn :
          t.private \/ ~t.consent \/ t.secret => answer.fallback = "text-only"

\* The half-open probe comes back, so that a recovered provider is used again,
\* unless a turn raised between being allowed and the call.
ProbeReturns ==
    speaking = {} /\ runtime.breaker.probe => runtime.lost

\* synthesize: the circuit and the privacy gates, turn after turn.
SpeechGoverned ==
    ProviderSpared /\ SpokenWithConsent /\ ProbeReturns
=============================================================================
