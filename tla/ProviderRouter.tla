--------------------------- MODULE ProviderRouter ---------------------------
(***************************************************************************)
(* The resilient model router of Aether:                                   *)
(*   aether/resilience/runtime.py   ProviderRuntimeStateStore (SQLite) and *)
(*                                  ResilientProviderRouter.invoke         *)
(*   aether/resilience/provider.py  select_fallback, error kinds           *)
(*   aether_gateway/providers/configured.py  ConfiguredModelProvider       *)
(*                                                                         *)
(* The gateway runs each invoke() in a thread of its own; every            *)
(* transaction of the store is one step, and a request to a provider takes *)
(* as long as it takes.  invoke() reads the clock once for the choice, the *)
(* reservation and its release, and again to record the result.            *)
(***************************************************************************)
EXTENDS Naturals, FiniteSets

CONSTANTS
    NProviders,       \* providers in the order of their priority
    Fit,              \* enabled, with the capability and an allowed data policy
    DailyLimit, ConcurrencyLimit, FailureThreshold, CooldownSeconds,
    DayLength,        \* seconds of a day
    MaxTime,          \* bound of the clock
    Calls,            \* calls of invoke()
    Crashes,          \* may the process stop
    None

Providers == 1..NProviders

ASSUME RouterAssumption ==
    /\ {NProviders, DailyLimit, ConcurrencyLimit, FailureThreshold,
        CooldownSeconds, DayLength} \subseteq Nat \ {0}
    /\ MaxTime \in Nat
    /\ Fit \subseteq Providers
    /\ Crashes \in BOOLEAN

ASSUME NoneNotNumber == None \notin Nat

ASSUME FinitelyManyCalls == IsFiniteSet(Calls)

VARIABLES
    row,       \* provider_state, one row for each provider
    clock,
    pc,        \* where each call is
    untried,   \* remaining
    chosen,    \* the selected provider
    at,        \* now, as read before the choice
    failed,    \* the result of the request counts as a failure
    sent,      \* requests sent to a provider on each day
    leaked,    \* requests of each provider that a stop of the process killed
    straddled  \* has a call used a clock of another day than today

callVars == <<pc, untried, chosen, at, failed>>
ghosts == <<sent, leaked, straddled>>
vars == <<row, clock, callVars, ghosts>>

Day(now) == now \div DayLength
Days == 0..Day(MaxTime)
Times == 0..MaxTime

Row == [day : Days, consumed : 0..DailyLimit, in_flight : 0..ConcurrencyLimit,
        circuit : {"closed", "open"}, failures : Nat, until : Nat \cup {None}]

TypeOK ==
    /\ row \in [Providers -> Row]
    /\ clock \in Times
    /\ pc \in [Calls -> {"ready", "chosen", "operating", "released", "done", "raised", "lost"}]
    /\ untried \in [Calls -> SUBSET Providers]
    /\ chosen \in [Calls -> Providers \cup {None}]
    /\ at \in [Calls -> Times]
    /\ failed \in [Calls -> BOOLEAN]
    /\ sent \in [Providers -> [Days -> Nat]]
    /\ leaked \in [Providers -> Nat]
    /\ straddled \in BOOLEAN

NewRow == [day |-> 0, consumed |-> 0, in_flight |-> 0, circuit |-> "closed",
           failures |-> 0, until |-> None]

Init ==
    /\ row = [p \in Providers |-> NewRow]
    /\ clock = 0
    /\ pc = [c \in Calls |-> "ready"]
    /\ untried = [c \in Calls |-> Providers]
    /\ chosen = [c \in Calls |-> None]
    /\ at = [c \in Calls |-> 0]
    /\ failed = [c \in Calls |-> FALSE]
    /\ sent = [p \in Providers |-> [d \in Days |-> 0]]
    /\ leaked = [p \in Providers |-> 0]
    /\ straddled = FALSE

-----------------------------------------------------------------------------
(* The store. *)

\* _ensure: the row of the day of now; a row of any other day is reset.
Ensured(r, now) ==
    IF r.day = Day(now) THEN r ELSE [r EXCEPT !.day = Day(now), !.consumed = 0]

\* candidate: an open circuit whose cooldown has passed is presented as half
\* open, which is not stored.
Presented(r, now) ==
    IF r.circuit = "open" /\ r.until # None /\ now >= r.until THEN "half_open" ELSE r.circuit

\* ineligibility_reasons has nothing to say.
Eligible(p, now) ==
    LET r == Ensured(row[p], now)
    IN  /\ p \in Fit
        /\ r.consumed < DailyLimit
        /\ r.in_flight < ConcurrencyLimit
        /\ Presented(r, now) # "open"

\* classify_provider_error and fallback_eligible_error: errors that say
\* something about the provider, and errors that do not (an invalid request,
\* an unknown kind), which are neither recorded nor given to a fallback.
Results == {"success", "counted", "ignored"}

\* Mutant: only the concurrency is checked again under the lock.
ReservesLate(r) ==
    r.in_flight < ConcurrencyLimit

\* The checks of reservation, under the lock of the database.
Reserves(r) ==
    r.consumed < DailyLimit /\ r.in_flight < ConcurrencyLimit

\* record_failure, for a kind that says something about the provider.  The
\* state half_open is never stored.
Failed(r, now) ==
    IF r.failures + 1 >= FailureThreshold
    THEN [r EXCEPT !.failures = @ + 1, !.circuit = "open", !.until = now + CooldownSeconds]
    ELSE [r EXCEPT !.failures = @ + 1]

\* record_success.
Succeeded(r) == [r EXCEPT !.circuit = "closed", !.failures = 0, !.until = None]

-----------------------------------------------------------------------------
(* invoke, one step for each transaction. *)

Go(c, to) == pc' = [pc EXCEPT ![c] = to]

\* Kept for the properties: the store is used with the clock of the choice.
Straddles(c) == straddled' = (straddled \/ Day(at[c]) # Day(clock))

\* select_fallback over the untried providers; reading a candidate moves its
\* row to today.
Select(c) ==
    LET best == {p \in untried[c] : Eligible(p, clock)}
    IN  /\ pc[c] = "ready"
        /\ row' = [p \in Providers |->
                     IF p \in untried[c] THEN Ensured(row[p], clock) ELSE row[p]]
        /\ at' = [at EXCEPT ![c] = clock]
        /\ \/ /\ best = {}
              /\ Go(c, "raised")
              /\ UNCHANGED chosen
           \/ \E p \in best :
                 /\ \A q \in best : p <= q
                 /\ chosen' = [chosen EXCEPT ![c] = p]
                 /\ Go(c, "chosen")
        /\ UNCHANGED <<clock, untried, failed, ghosts>>

\* reservation: the last free slot or request may be gone.  The error it
\* raises is of unknown kind, so invoke raises it too.
Reserve(c) ==
    LET p == chosen[c]
        r == Ensured(row[p], at[c])
    IN  /\ pc[c] = "chosen"
        /\ \/ /\ Reserves(r)
              /\ row' = [row EXCEPT ![p] = [r EXCEPT !.consumed = @ + 1, !.in_flight = @ + 1]]
              /\ sent' = [sent EXCEPT ![p][Day(at[c])] = @ + 1]
              /\ Go(c, "operating")
           \/ /\ ~Reserves(r)
              /\ Go(c, "raised")
              /\ UNCHANGED <<row, sent>>
        /\ Straddles(c)
        /\ UNCHANGED <<clock, untried, chosen, at, failed, leaked>>

\* Mutant: an error of the operation leaves the slot taken.
ReleaseOnSuccess(c) ==
    LET p == chosen[c]
        r == Ensured(row[p], at[c])
        free(n) == IF n = 0 THEN 0 ELSE n - 1
    IN  /\ pc[c] = "operating"
        /\ \/ /\ row' = [row EXCEPT ![p] = [r EXCEPT !.in_flight = free(@)]]
              /\ Go(c, "released") /\ failed' = [failed EXCEPT ![c] = FALSE]
           \/ /\ row' = row
              /\ Go(c, "released") /\ failed' = [failed EXCEPT ![c] = TRUE]
        /\ Straddles(c)
        /\ UNCHANGED <<clock, untried, chosen, at, sent, leaked>>

\* The operation ends and the reservation is released, with the clock of the
\* choice; an ignored error is raised.
Release(c) ==
    LET p == chosen[c]
        r == Ensured(row[p], at[c])
        free(n) == IF n = 0 THEN 0 ELSE n - 1
    IN  /\ pc[c] = "operating"
        /\ row' = [row EXCEPT ![p] = [r EXCEPT !.in_flight = free(@)]]
        /\ \E result \in Results :
              /\ Go(c, IF result = "ignored" THEN "raised" ELSE "released")
              /\ failed' = [failed EXCEPT ![c] = result = "counted"]
        /\ Straddles(c)
        /\ UNCHANGED <<clock, untried, chosen, at, sent, leaked>>

RecordSuccess(c) ==
    LET p == chosen[c]
    IN  /\ pc[c] = "released" /\ ~failed[c]
        /\ row' = [row EXCEPT ![p] = Succeeded(Ensured(@, clock))]
        /\ Go(c, "done")
        /\ UNCHANGED <<clock, untried, chosen, at, failed, ghosts>>

RecordFailure(c) ==
    LET p == chosen[c]
    IN  /\ pc[c] = "released" /\ failed[c]
        /\ row' = [row EXCEPT ![p] = Failed(Ensured(@, clock), clock)]
        /\ untried' = [untried EXCEPT ![c] = @ \ {p}]
        /\ Go(c, "ready")
        /\ UNCHANGED <<clock, chosen, at, failed, ghosts>>

\* The requests to a provider that are under way.
Holding(p) == {c \in Calls : pc[c] = "operating" /\ chosen[c] = p}

Active == {"chosen", "operating", "released"}

\* The process stops: its calls are gone, the database stays.
Crash ==
    /\ Crashes
    /\ \E c \in Calls : pc[c] \in Active
    /\ pc' = [c \in Calls |-> IF pc[c] \in Active THEN "lost" ELSE pc[c]]
    /\ leaked' = [p \in Providers |-> leaked[p] + Cardinality(Holding(p))]
    /\ UNCHANGED <<row, clock, untried, chosen, at, failed, sent, straddled>>

Tick ==
    /\ clock < MaxTime
    /\ clock' = clock + 1
    /\ UNCHANGED <<row, callVars, ghosts>>

Next ==
    \/ \E c \in Calls : \/ Select(c) \/ Reserve(c) \/ Release(c)
                        \/ RecordSuccess(c) \/ RecordFailure(c)
    \/ Crash \/ Tick

Spec == Init /\ [][Next]_vars

-----------------------------------------------------------------------------
(* Properties. *)

\* The slots of a provider are the requests that are under way and those
\* that a stop of the process killed: no path of reservation, whatever fails
\* and whenever the day changes, loses a slot or gives one back twice.
SlotsAreRequests ==
    \A p \in Providers : row[p].in_flight = Cardinality(Holding(p)) + leaked[p]

\* No provider gets more requests on a day than its daily limit.
DailyBudgetHolds == \A p \in Providers, d \in Days : sent[p][d] <= DailyLimit

\* The only way past the daily limit is a call that uses the store with a
\* clock of the day before.
BudgetHoldsInDay == ~straddled => DailyBudgetHolds
=============================================================================
