------------------------- MODULE ProviderRouterProofs -------------------------
(***************************************************************************)
(* Proofs about what may be asked and spent in a day, and about the jobs   *)
(* that watch over it:                                                     *)
(*   ProviderRouter  for any number of providers, calls and stops of the   *)
(*                   process, any limits and any clock.  The slots of a    *)
(*                   provider are its requests: of a row only in_flight    *)
(*                   matters, and each transaction keeps it, or moves it   *)
(*                   together with the set of calls that are operating.    *)
(*                   The budget of a day holds: of a row only day and      *)
(*                   consumed matter; a row is only ever moved to today,   *)
(*                   when nothing has been sent today.                     *)
(*   RuntimeBody     for any requests, amounts, cap and days.  A request   *)
(*                   has been given leave by the line it stands at, and a  *)
(*                   lone one finds in the file what was taken today.      *)
(*   FleetOperations for any drivers, receipts and limits.  What the       *)
(*                   holder of the lock goes through is of its own job,    *)
(*                   what it resolves it has not found, and what it sweeps *)
(*                   was seen twice; whatever comes between two of its     *)
(*                   writes takes no sighting back.                        *)
(* They share no state and each part has its own inductive invariant.      *)
(***************************************************************************)
EXTENDS ProviderRouter, RuntimeBody, FleetOperations, FiniteSetTheorems, TLAPS

-----------------------------------------------------------------------------
(* ProviderRouter: the slots are the requests, and the budget holds         *)

\* A row, without the bounds of its numbers but for the slots.
StoredRow == [day : Int, consumed : Int, in_flight : Nat,
              circuit : {"closed", "open"}, failures : Int, until : Int \cup {None}]

Shapes ==
    /\ row \in [Providers -> StoredRow]
    /\ clock \in Nat
    /\ pc \in [Calls -> {"ready", "chosen", "operating", "released", "done", "raised", "lost"}]
    /\ chosen \in [Calls -> Providers \cup {None}]
    /\ at \in [Calls -> Nat]
    /\ leaked \in [Providers -> Nat]

\* A call that is under way has chosen.
ActiveHasChosen == \A c \in Calls : pc[c] \in Active => chosen[c] \in Providers

\* The inductive invariant.
SlotsInv == Shapes /\ ActiveHasChosen /\ SlotsAreRequests

-----------------------------------------------------------------------------
(* The functions of the store                                              *)

LEMMA DayIsNumber ==
  ASSUME NEW now \in Nat
  PROVE  Day(now) \in Int
<1>1. DayLength \in Nat \ {0}
  BY RouterAssumption
<1> QED
  BY <1>1 DEF Day

LEMMA EnsuredKeepsSlots ==
  ASSUME NEW r \in StoredRow, NEW now \in Nat
  PROVE  Ensured(r, now) \in StoredRow /\ Ensured(r, now).in_flight = r.in_flight
<1>1. Day(now) \in Int
  BY DayIsNumber
<1>2. ASSUME NEW d \in Int, NEW n \in Int
      PROVE  /\ [r EXCEPT !.day = d, !.consumed = n] \in StoredRow
             /\ [r EXCEPT !.day = d, !.consumed = n].in_flight = r.in_flight
  BY DEF StoredRow
<1>3. 0 \in Int
  OBVIOUS
<1> QED
  BY <1>1, <1>2, <1>3 DEF Ensured

LEMMA RecordsKeepSlots ==
  ASSUME NEW r \in StoredRow, NEW now \in Nat
  PROVE  /\ Succeeded(r) \in StoredRow /\ Succeeded(r).in_flight = r.in_flight
         /\ Failed(r, now) \in StoredRow /\ Failed(r, now).in_flight = r.in_flight
<1>1. now + CooldownSeconds \in Int
  BY RouterAssumption
<1>2. Failed(r, now) \in StoredRow /\ Failed(r, now).in_flight = r.in_flight
  <2> DEFINE n == r.failures + 1
             u == now + CooldownSeconds
  <2>1. n \in Int /\ u \in Int
    BY <1>1 DEF StoredRow
  <2>2. \/ Failed(r, now) = [r EXCEPT !.failures = n]
        \/ Failed(r, now) = [r EXCEPT !.failures = n, !.circuit = "open", !.until = u]
    BY DEF Failed
  <2> HIDE DEF n, u
  <2>3. /\ [r EXCEPT !.failures = n] \in StoredRow
        /\ [r EXCEPT !.failures = n].in_flight = r.in_flight
        /\ [r EXCEPT !.failures = n, !.circuit = "open", !.until = u] \in StoredRow
        /\ [r EXCEPT !.failures = n, !.circuit = "open", !.until = u].in_flight = r.in_flight
    BY <2>1 DEF StoredRow
  <2> QED
    BY <2>2, <2>3, Zenon
<1>3. Succeeded(r) \in StoredRow /\ Succeeded(r).in_flight = r.in_flight
  <2>1. ASSUME NEW n \in Int, NEW u \in Int \cup {None}, NEW k \in {"closed", "open"}
        PROVE  /\ [r EXCEPT !.circuit = k, !.failures = n, !.until = u] \in StoredRow
               /\ [r EXCEPT !.circuit = k, !.failures = n, !.until = u].in_flight = r.in_flight
    BY DEF StoredRow
  <2>2. 0 \in Int /\ None \in Int \cup {None} /\ "closed" \in {"closed", "open"}
    OBVIOUS
  <2> QED
    BY <2>1, <2>2 DEF Succeeded
<1> QED
  BY <1>2, <1>3

LEMMA HoldingFinite ==
  ASSUME NEW p
  PROVE  IsFiniteSet(Holding(p)) /\ Cardinality(Holding(p)) \in Nat
<1>1. Holding(p) \subseteq Calls
  BY DEF Holding
<1> QED
  BY <1>1, FinitelyManyCalls, FS_Subset, FS_CardinalityType

LEMMA SlotsInvInit == Init => SlotsInv
<1> SUFFICES ASSUME Init PROVE SlotsInv
  OBVIOUS
<1>1. NewRow \in StoredRow /\ NewRow.in_flight = 0
  BY DEF NewRow, StoredRow
<1>2. Shapes /\ ActiveHasChosen
  BY <1>1 DEF Init, Shapes, ActiveHasChosen, Active
<1>3. \A p \in Providers : Holding(p) = {}
  BY DEF Init, Holding
<1>4. ASSUME NEW p \in Providers
      PROVE  row[p].in_flight = Cardinality(Holding(p)) + leaked[p]
  <2>1. row[p].in_flight = 0 /\ leaked[p] = 0
    BY <1>1 DEF Init
  <2>2. Cardinality(Holding(p)) = 0
    BY <1>3, FS_EmptySet
  <2> QED
    BY <2>1, <2>2
<1> QED
  BY <1>2, <1>4 DEF SlotsInv, SlotsAreRequests

-----------------------------------------------------------------------------
(* The steps                                                               *)

\* Steps that neither take nor give back a slot.
LEMMA SlotsKept ==
  ASSUME SlotsInv, UNCHANGED leaked,
         row' \in [Providers -> StoredRow],
         \A p \in Providers : row'[p].in_flight = row[p].in_flight,
         \A p \in Providers : Holding(p)' = Holding(p)
  PROVE  SlotsAreRequests'
  BY DEF SlotsInv, SlotsAreRequests

LEMMA SelectStep ==
  ASSUME SlotsInv, NEW c \in Calls, Select(c)
  PROVE  SlotsInv'
<1>1. /\ pc[c] = "ready" /\ UNCHANGED <<clock, leaked>>
      /\ row' = [p \in Providers |->
                   IF p \in untried[c] THEN Ensured(row[p], clock) ELSE row[p]]
      /\ at' = [at EXCEPT ![c] = clock]
      /\ \/ UNCHANGED chosen /\ pc' = [pc EXCEPT ![c] = "raised"]
         \/ \E p \in untried[c] : /\ p \in Fit
                                  /\ chosen' = [chosen EXCEPT ![c] = p]
                                  /\ pc' = [pc EXCEPT ![c] = "chosen"]
  BY DEF Select, Go, ghosts, Eligible
<1>2. /\ row' \in [Providers -> StoredRow]
      /\ \A p \in Providers : row'[p].in_flight = row[p].in_flight
  BY <1>1, EnsuredKeepsSlots DEF SlotsInv, Shapes
<1>3. Shapes' /\ ActiveHasChosen'
  BY <1>1, <1>2, RouterAssumption DEF SlotsInv, Shapes, ActiveHasChosen, Active
<1>4. \A p \in Providers : Holding(p)' = Holding(p)
  BY <1>1 DEF Holding, SlotsInv, Shapes
<1> QED
  BY <1>1, <1>2, <1>3, <1>4, SlotsKept DEF SlotsInv

LEMMA RecordStep ==
  ASSUME SlotsInv, NEW c \in Calls, RecordSuccess(c) \/ RecordFailure(c)
  PROVE  SlotsInv'
<1> DEFINE p == chosen[c]
           r == Ensured(row[p], clock)
<1>1. /\ pc[c] = "released" /\ UNCHANGED <<clock, chosen, at, leaked>>
      /\ \E s \in {"done", "ready"} : pc' = [pc EXCEPT ![c] = s]
      /\ \E new \in {Succeeded(r), Failed(r, clock)} : row' = [row EXCEPT ![p] = new]
  BY DEF RecordSuccess, RecordFailure, Go, ghosts
<1>2. p \in Providers /\ row[p] \in StoredRow /\ clock \in Nat
  BY <1>1 DEF SlotsInv, Shapes, ActiveHasChosen, Active
<1>3. r \in StoredRow /\ r.in_flight = row[p].in_flight
  BY <1>2, EnsuredKeepsSlots
<1>4. \A new \in {Succeeded(r), Failed(r, clock)} :
         new \in StoredRow /\ new.in_flight = row[p].in_flight
  BY <1>2, <1>3, RecordsKeepSlots
<1> HIDE DEF r
<1>5. /\ row' \in [Providers -> StoredRow]
      /\ \A q \in Providers : row'[q].in_flight = row[q].in_flight
  BY <1>1, <1>2, <1>4 DEF SlotsInv, Shapes
<1>6. Shapes' /\ ActiveHasChosen'
  BY <1>1, <1>5 DEF SlotsInv, Shapes, ActiveHasChosen, Active
<1>7. \A q \in Providers : Holding(q)' = Holding(q)
  BY <1>1 DEF Holding, SlotsInv, Shapes
<1> QED
  BY <1>1, <1>5, <1>6, <1>7, SlotsKept DEF SlotsInv

\* The provider of a call that is under way, and its row in the store.
LEMMA ActiveRow ==
  ASSUME SlotsInv, NEW c \in Calls, pc[c] \in Active
  PROVE  /\ chosen[c] \in Providers
         /\ Ensured(row[chosen[c]], at[c]) \in StoredRow
         /\ Ensured(row[chosen[c]], at[c]).in_flight = row[chosen[c]].in_flight
<1>1. chosen[c] \in Providers
  BY DEF SlotsInv, ActiveHasChosen
<1>2. row[chosen[c]] \in StoredRow /\ at[c] \in Nat
  BY <1>1 DEF SlotsInv, Shapes
<1> QED
  BY <1>1, <1>2, EnsuredKeepsSlots

LEMMA ReserveStep ==
  ASSUME SlotsInv, NEW c \in Calls, Reserve(c)
  PROVE  SlotsInv'
<1> DEFINE p == chosen[c]
           r == Ensured(row[p], at[c])
<1>1. pc[c] = "chosen" /\ UNCHANGED <<clock, chosen, at, leaked>>
  BY DEF Reserve
<1>2. p \in Providers /\ r \in StoredRow /\ r.in_flight = row[p].in_flight
  BY <1>1, ActiveRow DEF Active
<1>3. \/ /\ row' = [row EXCEPT ![p] = [r EXCEPT !.consumed = @ + 1, !.in_flight = @ + 1]]
         /\ pc' = [pc EXCEPT ![c] = "operating"]
      \/ UNCHANGED row /\ pc' = [pc EXCEPT ![c] = "raised"]
  BY DEF Reserve, Go
<1> HIDE DEF r
<1>4. CASE UNCHANGED row /\ pc' = [pc EXCEPT ![c] = "raised"]
  <2>1. Shapes' /\ ActiveHasChosen'
    BY <1>1, <1>4 DEF SlotsInv, Shapes, ActiveHasChosen, Active
  <2>2. \A q \in Providers : Holding(q)' = Holding(q)
    BY <1>1, <1>4 DEF Holding, SlotsInv, Shapes
  <2> QED
    BY <1>1, <1>4, <2>1, <2>2, SlotsKept DEF SlotsInv, Shapes
<1>5. CASE /\ row' = [row EXCEPT ![p] = [r EXCEPT !.consumed = @ + 1, !.in_flight = @ + 1]]
           /\ pc' = [pc EXCEPT ![c] = "operating"]
  <2>1. ASSUME NEW m \in Int, NEW n \in Nat
        PROVE  /\ [r EXCEPT !.consumed = m, !.in_flight = n] \in StoredRow
               /\ [r EXCEPT !.consumed = m, !.in_flight = n].in_flight = n
    BY <1>2 DEF StoredRow
  <2>2. r.consumed + 1 \in Int /\ r.in_flight + 1 \in Nat
    BY <1>2 DEF StoredRow
  <2>3. /\ row' \in [Providers -> StoredRow]
        /\ row'[p].in_flight = row[p].in_flight + 1
        /\ \A q \in Providers \ {p} : row'[q] = row[q]
    <3> DEFINE new == [r EXCEPT !.consumed = r.consumed + 1, !.in_flight = r.in_flight + 1]
    <3>1. new \in StoredRow /\ new.in_flight = r.in_flight + 1
      BY <2>1, <2>2
    <3>2. row' = [row EXCEPT ![p] = new]
      BY <1>5
    <3> HIDE DEF new
    <3>3. row \in [Providers -> StoredRow]
      BY DEF SlotsInv, Shapes
    <3> QED
      BY <1>2, <3>1, <3>2, <3>3
  <2>4. Shapes' /\ ActiveHasChosen'
    BY <1>1, <1>2, <1>5, <2>3 DEF SlotsInv, Shapes, ActiveHasChosen, Active
  <2>5. \A q \in Providers : IF q = p THEN Holding(q)' = Holding(q) \cup {c} /\ c \notin Holding(q)
                                      ELSE Holding(q)' = Holding(q)
    BY <1>1, <1>5 DEF Holding, SlotsInv, Shapes
  <2>6. ASSUME NEW q \in Providers, q = p
        PROVE  Cardinality(Holding(q)') = Cardinality(Holding(q)) + 1
    <3>1. Holding(q)' = Holding(q) \cup {c} /\ c \notin Holding(q)
      BY <2>5, <2>6
    <3> QED
      BY <3>1, HoldingFinite, FS_AddElement
  <2>7. ASSUME NEW q \in Providers
        PROVE  row'[q].in_flight = Cardinality(Holding(q)') + leaked'[q]
    <3>1. /\ row[q].in_flight = Cardinality(Holding(q)) + leaked[q]
          /\ Cardinality(Holding(q)) \in Nat /\ leaked[q] \in Nat /\ leaked'[q] = leaked[q]
      BY <1>1, HoldingFinite DEF SlotsInv, SlotsAreRequests, Shapes
    <3>2. CASE q = p
      BY <2>3, <2>6, <3>1, <3>2
    <3>3. CASE q # p
      BY <2>3, <2>5, <3>1, <3>3
    <3> QED
      BY <3>2, <3>3
  <2> QED
    BY <2>4, <2>7 DEF SlotsInv, SlotsAreRequests
<1> QED
  BY <1>3, <1>4, <1>5

LEMMA ReleaseStep ==
  ASSUME SlotsInv, NEW c \in Calls, Release(c)
  PROVE  SlotsInv'
<1> DEFINE p == chosen[c]
           r == Ensured(row[p], at[c])
           free(n) == IF n = 0 THEN 0 ELSE n - 1
<1>1. /\ pc[c] = "operating" /\ UNCHANGED <<clock, chosen, at, leaked>>
      /\ \E s \in {"raised", "released"} : pc' = [pc EXCEPT ![c] = s]
      /\ row' = [row EXCEPT ![p] = [r EXCEPT !.in_flight = free(@)]]
  BY DEF Release, Go
<1>2. p \in Providers /\ r \in StoredRow /\ r.in_flight = row[p].in_flight
  BY <1>1, ActiveRow DEF Active
<1> HIDE DEF r
<1>3. /\ c \in Holding(p)
      /\ \A q \in Providers : Holding(q)' = IF q = p THEN Holding(q) \ {c} ELSE Holding(q)
  BY <1>1 DEF Holding, SlotsInv, Shapes
<1>4. ASSUME NEW q \in Providers, q = p
      PROVE  Cardinality(Holding(q)') = Cardinality(Holding(q)) - 1
  <2>1. Holding(q)' = Holding(q) \ {c} /\ c \in Holding(q)
    BY <1>3, <1>4
  <2> QED
    BY <2>1, HoldingFinite, FS_RemoveElement
<1>5. Cardinality(Holding(p)) # 0
  BY <1>3, HoldingFinite, FS_EmptySet
<1>6. /\ row[p].in_flight = Cardinality(Holding(p)) + leaked[p] /\ leaked[p] \in Nat
      /\ Cardinality(Holding(p)) \in Nat
  BY <1>2, HoldingFinite DEF SlotsInv, SlotsAreRequests, Shapes
<1>7. free(r.in_flight) = row[p].in_flight - 1 /\ free(r.in_flight) \in Nat
  BY <1>2, <1>5, <1>6
<1>8. /\ row' \in [Providers -> StoredRow]
      /\ row'[p].in_flight = row[p].in_flight - 1
      /\ \A q \in Providers \ {p} : row'[q] = row[q]
  <2>1. ASSUME NEW n \in Nat
        PROVE  [r EXCEPT !.in_flight = n] \in StoredRow /\ [r EXCEPT !.in_flight = n].in_flight = n
    BY <1>2 DEF StoredRow
  <2> HIDE DEF free
  <2> QED
    BY <1>1, <1>2, <1>7, <2>1 DEF SlotsInv, Shapes
<1>9. Shapes' /\ ActiveHasChosen'
  BY <1>1, <1>2, <1>8 DEF SlotsInv, Shapes, ActiveHasChosen, Active
<1>10. ASSUME NEW q \in Providers
       PROVE  row'[q].in_flight = Cardinality(Holding(q)') + leaked'[q]
  <2>1. row[q].in_flight = Cardinality(Holding(q)) + leaked[q] /\ leaked'[q] = leaked[q]
    BY <1>1 DEF SlotsInv, SlotsAreRequests
  <2>2. CASE q = p
    BY <1>4, <1>6, <1>8, <2>1, <2>2
  <2>3. CASE q # p
    BY <1>3, <1>8, <2>1, <2>3
  <2> QED
    BY <2>2, <2>3
<1> QED
  BY <1>9, <1>10 DEF SlotsInv, SlotsAreRequests

\* What a stop kills is counted as leaked, and nothing is under way after it.
LEMMA CrashStep ==
  ASSUME SlotsInv, Crash
  PROVE  SlotsInv'
<1>1. /\ pc' = [c \in Calls |-> IF pc[c] \in Active THEN "lost" ELSE pc[c]]
      /\ leaked' = [p \in Providers |-> leaked[p] + Cardinality(Holding(p))]
      /\ UNCHANGED <<row, clock, chosen, at>>
  BY DEF Crash
<1>2. \A p : Cardinality(Holding(p)) \in Nat
  BY HoldingFinite
<1>3. leaked' \in [Providers -> Nat]
  BY <1>1, <1>2 DEF SlotsInv, Shapes
<1>4. Shapes' /\ ActiveHasChosen'
  BY <1>1, <1>3 DEF SlotsInv, Shapes, ActiveHasChosen, Active
<1>5. ASSUME NEW q \in Providers
      PROVE  row'[q].in_flight = Cardinality(Holding(q)') + leaked'[q]
  <2>1. Holding(q)' = {}
    BY <1>1 DEF Holding, Active
  <2>2. Cardinality(Holding(q)') = 0
    BY <2>1, FS_EmptySet
  <2>3. /\ row[q].in_flight = Cardinality(Holding(q)) + leaked[q]
        /\ leaked'[q] = leaked[q] + Cardinality(Holding(q)) /\ leaked[q] \in Nat
    BY <1>1 DEF SlotsInv, SlotsAreRequests, Shapes
  <2> QED
    BY <1>1, <1>2, <2>2, <2>3
<1> QED
  BY <1>4, <1>5 DEF SlotsInv, SlotsAreRequests

LEMMA ClockStep ==
  ASSUME SlotsInv, Tick \/ UNCHANGED vars
  PROVE  SlotsInv'
<1>1. UNCHANGED <<row, pc, chosen, at, leaked>> /\ clock' \in Nat
  BY DEF Tick, vars, callVars, ghosts, SlotsInv, Shapes
<1>2. \A q \in Providers : Holding(q)' = Holding(q)
  BY <1>1 DEF Holding
<1> QED
  BY <1>1, <1>2 DEF SlotsInv, Shapes, ActiveHasChosen, SlotsAreRequests

LEMMA SlotsInvariant == Spec => []SlotsInv
<1>1. Init => SlotsInv
  BY SlotsInvInit
<1>2. SlotsInv /\ [Next]_vars => SlotsInv'
  BY SelectStep, ReserveStep, ReleaseStep, RecordStep, CrashStep, ClockStep DEF Next
<1> QED
  BY <1>1, <1>2, PTL DEF Spec

\* The in_flight column of a provider is the number of its requests under way
\* and of those a stop of the process killed (_ensure, reservation,
\* record_success, record_failure of ProviderRuntimeStateStore), for any
\* number of calls and providers, any limits and any moves of the clock.
THEOREM SlotsCountRequests == Spec => []SlotsAreRequests
<1>1. SlotsInv => SlotsAreRequests
  BY DEF SlotsInv
<1> QED
  BY <1>1, SlotsInvariant, PTL

-----------------------------------------------------------------------------
(* The budget of a day                                                     *)

\* The row of a provider counts the requests of its day, the last one on which
\* any was sent.
Counts(p) ==
    LET r == row[p]
    IN /\ r.day \in Nat /\ r.day <= Day(clock) /\ r.day \in Days
       /\ sent[p][r.day] = r.consumed /\ r.consumed <= DailyLimit
       /\ \A d \in Days : d > r.day => sent[p][d] = 0
       /\ \A d \in Days : sent[p][d] <= DailyLimit

BudgetTypes ==
    /\ clock \in Times /\ at \in [Calls -> Times]
    /\ sent \in [Providers -> [Days -> Nat]]

BudgetInv == BudgetTypes /\ (~straddled => \A p \in Providers : Counts(p))

LEMMA DayOrder ==
  ASSUME NEW a \in Nat, NEW b \in Nat, a <= b
  PROVE  Day(a) \in Nat /\ Day(b) \in Nat /\ Day(a) <= Day(b)
<1>1. DayLength \in Nat \ {0}
  BY RouterAssumption
<1> QED
  BY <1>1 DEF Day

LEMMA TimesHaveDays ==
  ASSUME NEW t \in Times
  PROVE  t \in Nat /\ Day(t) \in Nat /\ Day(t) \in Days
<1>1. t \in Nat /\ MaxTime \in Nat /\ t <= MaxTime
  BY RouterAssumption DEF Times
<1>2. Day(t) \in Nat /\ Day(MaxTime) \in Nat /\ Day(t) <= Day(MaxTime)
  BY <1>1, DayOrder
<1> QED
  BY <1>1, <1>2 DEF Days

\* A row brought to today still counts, and says today or what it said.
LEMMA EnsuredCounts ==
  ASSUME BudgetTypes, SlotsInv, NEW p \in Providers, Counts(p), NEW now \in Times, Day(now) = Day(clock),
         NEW new, \/ new.day = row[p].day /\ new.consumed = row[p].consumed
                  \/ new.day = Ensured(row[p], now).day /\ new.consumed = Ensured(row[p], now).consumed
  PROVE  /\ new.day \in Nat /\ new.day <= Day(clock) /\ new.day \in Days
         /\ sent[p][new.day] = new.consumed /\ new.consumed <= DailyLimit
         /\ \A d \in Days : d > new.day => sent[p][d] = 0
<1>1. Day(clock) \in Nat /\ Day(clock) \in Days
  BY TimesHaveDays DEF BudgetTypes
<1>2. CASE new.day = row[p].day /\ new.consumed = row[p].consumed
  BY <1>2 DEF Counts
<1>3. CASE row[p].day # Day(clock) /\ new.day = Day(clock) /\ new.consumed = 0
  <2>1. row[p].day < Day(clock)
    BY <1>1, <1>3 DEF Counts
  <2>2. sent[p][Day(clock)] = 0 /\ \A d \in Days : d > Day(clock) => sent[p][d] = 0
    BY <1>1, <2>1 DEF Counts, Days
  <2> QED
    BY <1>1, <1>3, <2>2, RouterAssumption
<1>4. row[p] \in StoredRow
  BY DEF SlotsInv, Shapes
<1>5. ASSUME row[p].day # Day(now)
      PROVE  Ensured(row[p], now).day = Day(now) /\ Ensured(row[p], now).consumed = 0
  <2>1. Ensured(row[p], now) = [row[p] EXCEPT !.day = Day(now), !.consumed = 0]
    BY <1>5 DEF Ensured
  <2> QED
    BY <1>4, <2>1 DEF StoredRow
<1>6. ASSUME row[p].day = Day(now) PROVE Ensured(row[p], now) = row[p]
  BY <1>6 DEF Ensured
<1> QED
  BY <1>2, <1>3, <1>5, <1>6

\* A step that sends nothing and brings rows to today at most.
LEMMA CountsKept ==
  ASSUME BudgetTypes, SlotsInv, NEW p \in Providers, Counts(p), NEW now \in Times, Day(now) = Day(clock),
         UNCHANGED <<clock, sent>>,
         \/ row'[p].day = row[p].day /\ row'[p].consumed = row[p].consumed
         \/ row'[p].day = Ensured(row[p], now).day /\ row'[p].consumed = Ensured(row[p], now).consumed
  PROVE  Counts(p)'
<1>1. PICK new : new = row'[p]
  OBVIOUS
<1>2. /\ new.day \in Nat /\ new.day <= Day(clock) /\ new.day \in Days
      /\ sent[p][new.day] = new.consumed /\ new.consumed <= DailyLimit
      /\ \A d \in Days : d > new.day => sent[p][d] = 0
  BY <1>1, EnsuredCounts
<1> QED
  BY <1>1, <1>2 DEF Counts

LEMMA RowStays ==
  ASSUME BudgetInv, SlotsInv, UNCHANGED <<clock, sent>>, at' \in [Calls -> Times],
         NEW now \in Times, ~straddled' => ~straddled /\ Day(now) = Day(clock),
         \A p \in Providers :
            \/ row'[p].day = row[p].day /\ row'[p].consumed = row[p].consumed
            \/ row'[p].day = Ensured(row[p], now).day /\ row'[p].consumed = Ensured(row[p], now).consumed
  PROVE  BudgetInv'
<1>1. BudgetTypes'
  BY DEF BudgetInv, BudgetTypes
<1>2. ASSUME ~straddled', NEW p \in Providers PROVE Counts(p)'
  <2>1. BudgetTypes /\ Counts(p) /\ Day(now) = Day(clock)
    BY <1>2 DEF BudgetInv
  <2> QED
    BY <2>1, CountsKept
<1> QED
  BY <1>1, <1>2 DEF BudgetInv

\* What the transactions write of a row but the slots.
LEMMA RecordsKeepDay ==
  ASSUME NEW r \in StoredRow, NEW now \in Nat, NEW n
  PROVE  /\ Succeeded(r).day = r.day /\ Succeeded(r).consumed = r.consumed
         /\ Failed(r, now).day = r.day /\ Failed(r, now).consumed = r.consumed
         /\ [r EXCEPT !.in_flight = n].day = r.day /\ [r EXCEPT !.in_flight = n].consumed = r.consumed
  BY DEF StoredRow, Succeeded, Failed

LEMMA BudgetSelect ==
  ASSUME BudgetInv, SlotsInv, NEW c \in Calls, Select(c)
  PROVE  BudgetInv'
<1>1. /\ UNCHANGED <<clock, sent, straddled>> /\ at' = [at EXCEPT ![c] = clock]
      /\ row' = [p \in Providers |->
                   IF p \in untried[c] THEN Ensured(row[p], clock) ELSE row[p]]
  BY DEF Select, ghosts
<1>2. clock \in Times /\ at' \in [Calls -> Times]
  BY <1>1 DEF BudgetInv, BudgetTypes
<1>3. \A p \in Providers : row'[p] = row[p] \/ row'[p] = Ensured(row[p], clock)
  BY <1>1
<1> QED
  BY <1>1, <1>2, <1>3, RowStays DEF BudgetInv

\* A transaction writes the row of a call that is under way, brought to a day.
LEMMA RowWritten ==
  ASSUME BudgetInv, SlotsInv, NEW c \in Calls, pc[c] \in Active,
         UNCHANGED <<clock, at, sent>>, NEW now \in {clock, at[c]},
         ~straddled' => ~straddled /\ Day(now) = Day(clock),
         NEW new, row' = [row EXCEPT ![chosen[c]] = new],
         new.day = Ensured(row[chosen[c]], now).day,
         new.consumed = Ensured(row[chosen[c]], now).consumed
  PROVE  BudgetInv'
<1>1. chosen[c] \in Providers
  BY ActiveRow
<1>2. now \in Times /\ at' \in [Calls -> Times]
  BY DEF BudgetInv, BudgetTypes
<1>3. \A q \in Providers :
         \/ row'[q].day = row[q].day /\ row'[q].consumed = row[q].consumed
         \/ row'[q].day = Ensured(row[q], now).day /\ row'[q].consumed = Ensured(row[q], now).consumed
  BY <1>1 DEF SlotsInv, Shapes
<1> QED
  BY <1>2, <1>3, RowStays

\* The row that a call under way reads, brought to a day.
LEMMA RowRead ==
  ASSUME BudgetInv, SlotsInv, NEW c \in Calls, pc[c] \in Active, NEW now \in {clock, at[c]}
  PROVE  now \in Nat /\ Ensured(row[chosen[c]], now) \in StoredRow
<1>1. now \in Nat
  BY TimesHaveDays DEF BudgetInv, BudgetTypes
<1>2. row[chosen[c]] \in StoredRow
  BY ActiveRow DEF SlotsInv, Shapes
<1> QED
  BY <1>1, <1>2, EnsuredKeepsSlots

LEMMA BudgetRecord ==
  ASSUME BudgetInv, SlotsInv, NEW c \in Calls, RecordSuccess(c) \/ RecordFailure(c)
  PROVE  BudgetInv'
<1>1. PICK r : r = Ensured(row[chosen[c]], clock)
  OBVIOUS
<1>2. /\ pc[c] \in Active /\ UNCHANGED <<clock, at, sent, straddled>>
      /\ row' = [row EXCEPT ![chosen[c]] = Succeeded(r)] \/ row' = [row EXCEPT ![chosen[c]] = Failed(r, clock)]
  BY <1>1 DEF RecordSuccess, RecordFailure, ghosts, Active
<1>3. clock \in Nat /\ r \in StoredRow
  BY <1>1, <1>2, RowRead
<1>4. PICK new : row' = [row EXCEPT ![chosen[c]] = new] /\ new.day = r.day /\ new.consumed = r.consumed
  BY <1>2, <1>3, RecordsKeepDay
<1>5. ~straddled' => ~straddled /\ Day(clock) = Day(clock)
  BY <1>2
<1> QED
  BY <1>1, <1>2, <1>4, <1>5, RowWritten

LEMMA BudgetRelease ==
  ASSUME BudgetInv, SlotsInv, NEW c \in Calls, Release(c)
  PROVE  BudgetInv'
<1>1. PICK r : r = Ensured(row[chosen[c]], at[c])
  OBVIOUS
<1>2. pc[c] \in Active /\ UNCHANGED <<clock, at, sent>> /\ Straddles(c)
  BY DEF Release, Active
<1>3. PICK n : row' = [row EXCEPT ![chosen[c]] = [r EXCEPT !.in_flight = n]]
  BY <1>1 DEF Release
<1>4. at[c] \in Nat /\ r \in StoredRow
  BY <1>1, <1>2, RowRead
<1>5. PICK new : row' = [row EXCEPT ![chosen[c]] = new] /\ new.day = r.day /\ new.consumed = r.consumed
  BY <1>3, <1>4, RecordsKeepDay
<1>6. ~straddled' => ~straddled /\ Day(at[c]) = Day(clock)
  BY <1>2, Zenon DEF Straddles
<1> QED
  BY <1>1, <1>2, <1>5, <1>6, RowWritten

LEMMA BudgetReserve ==
  ASSUME BudgetInv, SlotsInv, NEW c \in Calls, Reserve(c)
  PROVE  BudgetInv'
<1>1. PICK p : p = chosen[c]
  OBVIOUS
<1>2. PICK r : r = Ensured(row[p], at[c])
  OBVIOUS
<1>3. PICK now : now = Day(at[c])
  OBVIOUS
<1>4. /\ pc[c] \in Active /\ UNCHANGED <<clock, at>> /\ Straddles(c)
      /\ \/ UNCHANGED <<row, sent>>
         \/ /\ Reserves(r)
            /\ row' = [row EXCEPT ![p] = [r EXCEPT !.consumed = @ + 1, !.in_flight = @ + 1]]
            /\ sent' = [sent EXCEPT ![p][now] = @ + 1]
  BY <1>1, <1>2, <1>3 DEF Reserve, Active
<1>5. p \in Providers /\ r \in StoredRow /\ now \in Days /\ now \in Nat
  BY <1>1, <1>2, <1>3, <1>4, ActiveRow, TimesHaveDays DEF BudgetInv, BudgetTypes
<1>6. sent' \in [Providers -> [Days -> Nat]]
  BY <1>4, <1>5 DEF BudgetInv, BudgetTypes
<1>7. BudgetTypes'
  BY <1>4, <1>6 DEF BudgetInv, BudgetTypes
<1>8. ASSUME ~straddled', NEW q \in Providers PROVE Counts(q)'
  <2>0. ~straddled /\ Day(at[c]) = Day(clock)
    BY <1>4, <1>8, Zenon DEF Straddles
  <2>1. Counts(q) /\ now = Day(clock)
    BY <1>3, <2>0 DEF BudgetInv
  <2>2. CASE UNCHANGED <<row, sent>>
    BY <1>4, <2>1, <2>2 DEF Counts
  <2>3. CASE /\ Reserves(r)
             /\ row' = [row EXCEPT ![p] = [r EXCEPT !.consumed = @ + 1, !.in_flight = @ + 1]]
             /\ sent' = [sent EXCEPT ![p][now] = @ + 1]
    <3>1. CASE q # p
      <4>1. row'[q] = row[q] /\ sent'[q] = sent[q]
        BY <2>3, <3>1 DEF SlotsInv, Shapes, BudgetInv, BudgetTypes
      <4> QED
        BY <1>4, <2>1, <4>1 DEF Counts
    <3>2. CASE q = p
      <4>1. r.day = now
        <5>1. row[p] \in StoredRow
          BY <1>5 DEF SlotsInv, Shapes
        <5> QED
          BY <1>2, <1>3, <5>1 DEF Ensured, StoredRow
      <4>2. /\ sent[p][r.day] = r.consumed /\ r.consumed < DailyLimit
            /\ \A d \in Days : d > r.day => sent[p][d] = 0
        <5>1. at[c] \in Times /\ BudgetTypes
          BY DEF BudgetInv, BudgetTypes
        <5>2. r.day = Ensured(row[p], at[c]).day /\ r.consumed = Ensured(row[p], at[c]).consumed
          BY <1>2
        <5>3. Counts(p) /\ Day(at[c]) = Day(clock)
          BY <2>0, <2>1, <3>2
        <5>4. sent[p][r.day] = r.consumed /\ \A d \in Days : d > r.day => sent[p][d] = 0
          BY <1>5, <5>1, <5>2, <5>3, EnsuredCounts
        <5> QED
          BY <2>3, <5>4 DEF Reserves
      <4>3. PICK n : n = r.consumed
        OBVIOUS
      <4>4. row'[p].day = now /\ row'[p].consumed = n + 1
        <5>1. row' = [row EXCEPT ![p] = [r EXCEPT !.consumed = r.consumed + 1, !.in_flight = r.in_flight + 1]]
          BY <2>3
        <5>2. [r EXCEPT !.consumed = r.consumed + 1, !.in_flight = r.in_flight + 1].day = now
          BY <1>5, <4>1 DEF StoredRow
        <5>3. [r EXCEPT !.consumed = r.consumed + 1, !.in_flight = r.in_flight + 1].consumed = n + 1
          BY <1>5, <4>3 DEF StoredRow
        <5> QED
          BY <1>5, <5>1, <5>2, <5>3 DEF SlotsInv, Shapes
      <4>5. /\ sent'[p][now] = sent[p][now] + 1
            /\ \A d \in Days \ {now} : sent'[p][d] = sent[p][d]
        BY <1>5, <2>3 DEF BudgetInv, BudgetTypes
      <4>6. n \in Nat /\ n < DailyLimit /\ sent[p][now] = n /\ DailyLimit \in Nat
        BY <1>5, <4>1, <4>2, <4>3, RouterAssumption DEF BudgetInv, BudgetTypes
      <4>7. n + 1 <= DailyLimit /\ sent'[p][now] = n + 1
        BY <4>5, <4>6
      <4>8. now <= Day(clock)'
        BY <1>4, <1>5, <2>1
      <4>9. \A d \in Days : /\ d > now => sent'[p][d] = 0
                            /\ sent'[p][d] <= DailyLimit
        BY <1>5, <2>1, <3>2, <4>1, <4>2, <4>5, <4>7 DEF Counts, Days
      <4> QED
        BY <1>5, <3>2, <4>4, <4>7, <4>8, <4>9 DEF Counts
    <3> QED
      BY <3>1, <3>2
  <2> QED
    BY <1>4, <2>2, <2>3
<1> QED
  BY <1>7, <1>8 DEF BudgetInv

LEMMA BudgetElse ==
  ASSUME BudgetInv, SlotsInv, Crash \/ Tick \/ UNCHANGED vars
  PROVE  BudgetInv'
<1>1. /\ UNCHANGED <<row, at, sent, straddled>>
      /\ clock' = clock \/ (clock' = clock + 1 /\ clock < MaxTime)
  BY DEF Crash, Tick, vars, callVars, ghosts
<1>2. clock \in Times /\ clock' \in Times /\ clock \in Nat /\ clock' \in Nat /\ clock <= clock'
  BY <1>1, RouterAssumption DEF Times, BudgetInv, BudgetTypes
<1>3. Day(clock) \in Nat /\ Day(clock') \in Nat /\ Day(clock) <= Day(clock')
  BY <1>2, DayOrder
<1>4. BudgetTypes'
  BY <1>1, <1>2 DEF BudgetInv, BudgetTypes
<1>5. ASSUME ~straddled', NEW p \in Providers PROVE Counts(p)'
  <2>1. Counts(p)
    BY <1>1, <1>5 DEF BudgetInv
  <2>2. row[p].day <= Day(clock')
    BY <1>3, <2>1 DEF Counts
  <2> QED
    BY <1>1, <2>1, <2>2 DEF Counts
<1> QED
  BY <1>4, <1>5 DEF BudgetInv

\* No provider is sent more requests on a day than its daily limit, unless a
\* call uses the store with a clock of the day before (_ensure and the check
\* under the lock in reservation), for any calls, limits, providers and clock.
THEOREM BudgetHolds == Spec => []BudgetHoldsInDay
<1>1. Init => BudgetInv
  <2> SUFFICES ASSUME Init PROVE BudgetInv
    OBVIOUS
  <2>1. 0 \in Times /\ clock = 0
    BY RouterAssumption DEF Times, Init
  <2>2. Day(clock) \in Nat /\ 0 \in Days /\ Day(0) >= 0
    <3>1. Day(0) \in Nat /\ Day(MaxTime) \in Nat
      BY RouterAssumption, DayOrder
    <3> QED
      BY <2>1, <3>1 DEF Days
  <2>3. BudgetTypes
    BY <2>1 DEF Init, BudgetTypes
  <2>4. \A p \in Providers : row[p].day = 0 /\ row[p].consumed = 0 /\ \A d \in Days : sent[p][d] = 0
    BY DEF Init, NewRow
  <2>5. DailyLimit \in Nat
    BY RouterAssumption
  <2> QED
    BY <2>2, <2>3, <2>4, <2>5 DEF BudgetInv, Counts
<1>2. SlotsInv /\ BudgetInv /\ [Next]_vars => BudgetInv'
  BY BudgetSelect, BudgetReserve, BudgetRelease, BudgetRecord, BudgetElse DEF Next
<1>3. BudgetInv => BudgetHoldsInDay
  BY DEF BudgetInv, Counts, BudgetHoldsInDay, DailyBudgetHolds
<1> QED
  BY <1>1, <1>2, <1>3, SlotsInvariant, PTL DEF Spec

-----------------------------------------------------------------------------
(* RuntimeBody: nothing without leave                                      *)

Steps == {"asked", "budget", "judge", "speak", "answered", "fallback", "record", "write"}
Voices == GoogleCloudTts \cup GTtsFallback \cup LocalWavFallback \cup {"none"}
OpenRequests ==
    [ask : SpendRequests,
     at : [pc : Steps, alive : BOOLEAN, approved : BOOLEAN, by : Voices, billed : Nat,
           date : Nat, spent : Nat]]

\* What a request has been given so far, by the line it stands at.
HasLeave(r) ==
    /\ r.at.pc # "asked" /\ (r.ask.kind = "run" \/ r.ask.external = TRUE) => r.at.alive = TRUE
    /\ r.at.pc \notin {"asked", "budget", "judge"} /\ Judged(r.ask) => r.at.approved = TRUE
    /\ r.at.pc \in {"speak", "fallback", "answered"} => r.ask.kind = "tts"
    /\ r.at.by \in GoogleCloudTts \cup {"none"}
    /\ r.at.by \in GoogleCloudTts => r.ask.kind = "tts" /\ r.ask.external = TRUE
    /\ r.at.pc = "answered" => r.at.by \in GoogleCloudTts
    /\ r.at.billed # 0 => /\ r.at.pc \in {"answered", "record", "write"}
                          /\ r.ask.kind = "tts" /\ r.ask.amount > 0

\* What an accepted request must have been given.
Governed(r) ==
    /\ r.ask.kind = "run" => r.at.alive /\
         (r.ask.irreversible \/ r.ask.amount > 0 => r.at.approved)
    /\ r.at.by \in GoogleCloudTts \cup GTtsFallback => r.ask.external /\ r.at.alive
    /\ r.at.by \in GoogleCloudTts /\ r.ask.amount > 0 => r.at.approved

\* A lone request finds room for its amount, and what it read of the file is
\* what the file says, or of a day that has passed.
FindsRoom(r) ==
    /\ r.at.billed <= today
    /\ r.at.pc \notin {"asked", "budget", "write"} => Spent + r.ask.amount <= Cap
    /\ r.at.pc = "write" =>
          /\ r.at.date \in 1..today /\ r.at.billed <= r.at.date
          /\ r.at.date = today => r.at.spent = Spent /\ Spent + r.ask.amount <= Cap
          /\ r.at.date # today => Spent = 0

\* Billed today and not in the file, which tells all else.
Owes(r) == r.at.billed = today /\ taken[today] <= Spent + r.ask.amount

Told ==
    today \notin holes =>
        \/ taken[today] <= Spent
        \/ \E t \in Threads : \E r \in opened[t] : Owes(r)

\* The books balance as long as requests have come one at a time.
Books ==
    /\ \A t, u \in Threads : opened[t] # {} /\ opened[u] # {} => t = u
    /\ Told /\ Spent <= Cap /\ budget.date <= today
    /\ \A d \in 1..MaxDays : d > today => taken[d] = 0
    /\ \A t \in Threads : \A r \in opened[t] : FindsRoom(r)

BodyShape ==
    /\ today \in 1..MaxDays
    /\ budget \in [date : Nat, spent : Nat]
    /\ taken \in [1..MaxDays -> Nat]
    /\ opened \in [Threads -> SUBSET OpenRequests]
    /\ \A t \in Threads : \A r, q \in opened[t] : r = q

LeaveInv ==
    /\ BodyShape
    /\ \A t \in Threads : \A r \in opened[t] : HasLeave(r)
    /\ \A r \in accepted : Governed(r)
    /\ ~unguarded => Books
    /\ AcceptanceTruthful

\* The request a thread serves.
LEMMA TheRequest ==
  ASSUME LeaveInv, NEW t \in Threads, opened[t] # {}
  PROVE  /\ opened[t] = {The(t)} /\ The(t) \in OpenRequests /\ HasLeave(The(t))
         /\ ~unguarded => FindsRoom(The(t))
         /\ \A line : At(t, line) <=> The(t).at.pc = line
<1>1. PICK r \in opened[t] : TRUE
  OBVIOUS
<1>2. opened[t] = {r} /\ opened[t] \in SUBSET OpenRequests
  BY <1>1 DEF LeaveInv, BodyShape
<1>3. The(t) = r
  BY <1>2 DEF The
<1>4. \A line : At(t, line) <=> r.at.pc = line
  BY <1>2, Zenon DEF At
<1> QED
  BY <1>2, <1>3, <1>4 DEF LeaveInv, Books

\* Of a lone request the file tells as much as before while its debt stays.
LEMMA StillTold ==
  ASSUME LeaveInv, ~unguarded, NEW t \in Threads, opened[t] # {}, NEW q,
         q.ask = The(t).ask, q.at.billed = The(t).at.billed, opened' = [opened EXCEPT ![t] = {q}],
         UNCHANGED <<today, budget, taken, holes>>
  PROVE  Told'
<1>1. Spent' = Spent /\ Books
  BY DEF Spent, LeaveInv
<1>2. opened'[t] = {q} /\ opened[t] = {The(t)}
  BY TheRequest DEF LeaveInv, BodyShape
<1>3. SUFFICES ASSUME today \notin holes, ~(taken[today] <= Spent)
               PROVE  \E u \in Threads : \E r \in opened'[u] : Owes(r)'
  BY <1>1 DEF Told
<1>4. PICK u \in Threads : \E r \in opened[u] : Owes(r)
  BY <1>1, <1>3 DEF Books, Told, LeaveInv, BodyShape, Spent
<1>5. Owes(The(t))
  BY <1>1, <1>2, <1>4 DEF Books
<1>6. Owes(q)'
  BY <1>1, <1>5 DEF Owes
<1> QED
  BY <1>2, <1>6

\* A request goes on; the books stay.
LEMMA GoesOn ==
  ASSUME LeaveInv, NEW t \in Threads, NEW q, q \in OpenRequests, HasLeave(q), ~unguarded => FindsRoom(q),
         opened[t] # {}, opened' = [opened EXCEPT ![t] = {q}],
         UNCHANGED <<today, budget, unguarded, record>>,
         taken' \in [1..MaxDays -> Nat], \A d \in 1..MaxDays : d > today => taken'[d] = taken[d],
         ~unguarded => Told',
         \A r \in accepted' : Governed(r)
  PROVE  LeaveInv'
<1>1. BodyShape'
  BY DEF LeaveInv, BodyShape
<1>2. \A u \in Threads : opened'[u] = IF u = t THEN {q} ELSE opened[u]
  BY DEF LeaveInv, BodyShape
<1>3. ASSUME NEW u \in Threads, NEW r \in opened'[u] PROVE HasLeave(r) /\ (~unguarded => FindsRoom(r))
  BY <1>2, <1>3 DEF LeaveInv, Books
<1>4. Spent' = Spent
  BY DEF Spent
<1>5. ~unguarded => Books'
  <2> SUFFICES ASSUME ~unguarded PROVE Books'
    OBVIOUS
  <2>1. \A u, v \in Threads : opened'[u] # {} /\ opened'[v] # {} => u = v
    BY <1>2 DEF LeaveInv, Books
  <2>2. \A u \in Threads : \A r \in opened'[u] : FindsRoom(r)'
    BY <1>3, <1>4 DEF FindsRoom
  <2> QED
    BY <2>1, <2>2, <1>4 DEF LeaveInv, Books
<1>6. AcceptanceTruthful'
  BY DEF LeaveInv, AcceptanceTruthful
<1>7. \A u \in Threads : \A r \in opened'[u] : HasLeave(r)
  BY <1>3
<1> QED
  BY <1>1, <1>5, <1>6, <1>7 DEF LeaveInv

\* A request that owes nothing ends without a booking.
LEMMA EndsUnbooked ==
  ASSUME LeaveInv, NEW t \in Threads, Ends(t), opened[t] # {}, \A r \in opened[t] : r.at.billed = 0,
         UNCHANGED <<today, budget, taken, holes, unguarded, record>>,
         \A r \in accepted' : Governed(r)
  PROVE  LeaveInv'
<1>1. BodyShape'
  BY DEF LeaveInv, BodyShape, Ends
<1>2. \A u \in Threads : opened'[u] \subseteq opened[u]
  BY DEF LeaveInv, BodyShape, Ends
<1>3. Spent' = Spent
  BY DEF Spent
<1>4. ~unguarded => Books'
  <2> SUFFICES ASSUME ~unguarded PROVE Books'
    OBVIOUS
  <2>1. \A u, v \in Threads : opened'[u] # {} /\ opened'[v] # {} => u = v
    BY <1>2 DEF LeaveInv, Books
  <2>2. \A u \in Threads : \A r \in opened'[u] : FindsRoom(r)'
    BY <1>2, <1>3 DEF LeaveInv, Books, FindsRoom
  <2>3. ASSUME NEW u \in Threads, NEW r \in opened[u] PROVE ~Owes(r)
    BY <2>3 DEF LeaveInv, Books, BodyShape, Owes
  <2>4. Told'
    BY <1>3, <2>3 DEF LeaveInv, Books, Told
  <2> QED
    BY <2>1, <2>2, <2>4, <1>3 DEF LeaveInv, Books
<1>5. AcceptanceTruthful'
  BY DEF LeaveInv, AcceptanceTruthful
<1> QED
  BY <1>1, <1>2, <1>4, <1>5 DEF LeaveInv

LEMMA BeginKeeps ==
  ASSUME LeaveInv, NEW t \in Threads, NEW r \in SpendRequests, Begin(t, r)
  PROVE  LeaveInv'
<1> DEFINE q == [ask |-> r, at |-> Progress0]
<1>1. /\ opened[t] = {} /\ opened' = [opened EXCEPT ![t] = {q}]
      /\ UNCHANGED <<today, budget, taken, holes, accepted, record>>
      /\ unguarded' = (unguarded \/ \E u \in Threads : opened[u] # {})
  BY DEF Begin, bookVars, proofVars
<1>2. q \in OpenRequests /\ HasLeave(q) /\ FindsRoom(q)
  BY BodyAssumption
  DEF LeaveInv, BodyShape, OpenRequests, HasLeave, FindsRoom, Progress0, Steps, Voices, GoogleCloudTts
<1> HIDE DEF q
<1>3. BodyShape'
  BY <1>1, <1>2 DEF LeaveInv, BodyShape
<1>4. \A u \in Threads : opened'[u] = IF u = t THEN {q} ELSE opened[u]
  BY <1>1 DEF LeaveInv, BodyShape
<1>5. \A u \in Threads : \A x \in opened'[u] : HasLeave(x)
  BY <1>2, <1>4 DEF LeaveInv
<1>6. Spent' = Spent
  BY <1>1 DEF Spent
<1>7. ~unguarded' => Books'
  <2> SUFFICES ASSUME ~unguarded' PROVE Books'
    OBVIOUS
  <2>1. Books /\ \A u \in Threads : opened[u] = {}
    BY <1>1 DEF LeaveInv
  <2>2. \A u \in Threads : u # t => opened'[u] = {}
    BY <1>4, <2>1
  <2>3. \A u \in Threads : \A x \in opened'[u] : FindsRoom(x)'
    BY <1>1, <1>2, <1>4, <1>6, <2>1 DEF FindsRoom
  <2>4. Told'
    BY <1>1, <1>6, <2>1 DEF Books, Told
  <2> QED
    BY <1>1, <1>6, <2>1, <2>2, <2>3, <2>4 DEF Books
<1>8. AcceptanceTruthful'
  BY <1>1 DEF LeaveInv, AcceptanceTruthful
<1> QED
  BY <1>1, <1>3, <1>5, <1>7, <1>8 DEF LeaveInv

LEMMA RequestSteps ==
  ASSUME LeaveInv, NEW t \in Threads,
         \/ CheckMind(t) \/ CheckBudget(t) \/ ReadBudget(t)
         \/ \E approves \in BOOLEAN : Evaluate(t, approves)
  PROVE  LeaveInv'
<1> DEFINE r == The(t)
<1>1. opened[t] # {} /\ UNCHANGED <<today, bookVars, unguarded, record>>
  BY DEF CheckMind, CheckBudget, ReadBudget, Evaluate, At, proofVars, bookVars, Refuse
<1>2. /\ r \in OpenRequests /\ HasLeave(r)
      /\ ~unguarded => FindsRoom(r)
      /\ \A line : At(t, line) <=> r.at.pc = line
      /\ Spent \in Nat /\ r.ask.amount \in Nat
      /\ today \in 1..MaxDays /\ (~unguarded => Spent <= Cap)
  <2>1. /\ r \in OpenRequests /\ HasLeave(r)
        /\ ~unguarded => FindsRoom(r)
        /\ \A line : At(t, line) <=> r.at.pc = line
    BY <1>1, TheRequest
  <2>2. r.ask.amount \in Nat
    BY <2>1, BodyAssumption DEF OpenRequests, SpendRequests
  <2>3. Spent \in Nat /\ today \in 1..MaxDays /\ (~unguarded => Spent <= Cap)
    BY DEF LeaveInv, BodyShape, Spent, Books
  <2> QED
    BY <2>1, <2>2, <2>3
<1> HIDE DEF r
<1>3. \A x \in accepted' : Governed(x)
  BY <1>1 DEF LeaveInv, bookVars
<1>4. ASSUME NEW moved, Moves(t, moved), [r EXCEPT !.at = moved] \in OpenRequests,
             HasLeave([r EXCEPT !.at = moved]), ~unguarded => FindsRoom([r EXCEPT !.at = moved]),
             moved.billed = r.at.billed
      PROVE  LeaveInv'
  <2>1. PICK q : q = [r EXCEPT !.at = moved]
    OBVIOUS
  <2>2. q.ask = r.ask /\ q.at.billed = r.at.billed
    BY <1>2, <1>4, <2>1 DEF OpenRequests
  <2>3. opened' = [opened EXCEPT ![t] = {q}] /\ UNCHANGED <<today, budget, taken, holes>>
    BY <1>1, <1>4, <2>1 DEF Moves, bookVars, r
  <2>4. ~unguarded => Told'
    BY <1>1, <2>2, <2>3, StillTold DEF r
  <2>5. taken' \in [1..MaxDays -> Nat] /\ taken' = taken
    BY <2>3 DEF LeaveInv, BodyShape
  <2> QED
    BY <1>1, <1>3, <1>4, <2>1, <2>3, <2>4, <2>5, GoesOn
<1>5. ASSUME Refuse(t), r.at.pc \in {"asked", "budget", "judge"} PROVE LeaveInv'
  <2>1. \A q \in opened[t] : q.at.billed = 0
    BY <1>1, <1>2, <1>5, TheRequest DEF HasLeave, r
  <2> QED
    BY <1>1, <1>3, <1>5, <2>1, EndsUnbooked DEF Refuse, bookVars
<1>6. CASE CheckMind(t)
  <2> DEFINE needs == r.ask.kind = "run" \/ r.ask.external
             moved == [r.at EXCEPT !.pc = "budget", !.alive = needs]
  <2>1. r.at.pc = "asked" /\ (Refuse(t) \/ Moves(t, moved))
    BY <1>2, <1>6 DEF CheckMind, r
  <2>2. [r EXCEPT !.at = moved] \in OpenRequests
    BY <1>2 DEF OpenRequests, Steps, SpendRequests
  <2>3. /\ HasLeave([r EXCEPT !.at = moved]) /\ (~unguarded => FindsRoom([r EXCEPT !.at = moved]))
        /\ moved.billed = r.at.billed
    BY <1>2, <2>1 DEF OpenRequests, HasLeave, FindsRoom, SpendRequests
  <2> HIDE DEF moved
  <2> QED
    BY <1>4, <1>5, <2>1, <2>2, <2>3
<1>7. CASE CheckBudget(t)
  <2> DEFINE moved == [r.at EXCEPT !.pc = "judge"]
  <2>1. r.at.pc = "budget" /\ (Refuse(t) \/ (Moves(t, moved) /\ (r.ask.amount = 0 \/ Allow(r.ask.amount))))
    <3>1. /\ r.at.pc = "budget"
          /\ Refuse(t) \/ (Moves(t, moved) /\ ~((r.ask.kind = "run" \/ r.ask.amount > 0) /\ ~Allow(r.ask.amount)))
      BY <1>2, <1>7, Zenon DEF CheckBudget, r
    <3> QED
      BY <1>2, <3>1
  <2>2. [r EXCEPT !.at = moved] \in OpenRequests
    BY <1>2 DEF OpenRequests, Steps
  <2>3. HasLeave([r EXCEPT !.at = moved]) /\ moved.billed = r.at.billed
    BY <1>2, <2>1 DEF OpenRequests, HasLeave
  <2>4. CASE r.ask.amount = 0 \/ Allow(r.ask.amount)
    <3>1. ~unguarded => FindsRoom([r EXCEPT !.at = moved])
      BY <1>2, <2>4, BodyAssumption DEF OpenRequests, FindsRoom, Allow
    <3> HIDE DEF moved
    <3> QED
      BY <1>4, <1>5, <2>1, <2>2, <2>3, <3>1
  <2> QED
    BY <1>5, <2>1, <2>4
<1>8. CASE ReadBudget(t)
  <2>1. PICK date, booked : date = today /\ booked = Spent
    OBVIOUS
  <2> DEFINE moved == [r.at EXCEPT !.pc = "write", !.date = date, !.spent = booked]
  <2>2. r.at.pc = "record" /\ Moves(t, moved)
    BY <1>2, <1>8, <2>1, Zenon DEF ReadBudget, r
  <2>3. date \in Nat /\ booked \in Nat /\ date \in 1..date
    BY <1>2, <2>1, BodyAssumption
  <2>4. /\ [r EXCEPT !.at = moved] \in OpenRequests
        /\ [r EXCEPT !.at = moved].ask = r.ask /\ [r EXCEPT !.at = moved].at = moved
        /\ moved.pc = "write" /\ moved.date = date /\ moved.spent = booked
        /\ moved.alive = r.at.alive /\ moved.approved = r.at.approved /\ moved.by = r.at.by
        /\ moved.billed = r.at.billed
    BY <1>2, <2>3 DEF OpenRequests, Steps
  <2> HIDE DEF moved
  <2>5. HasLeave([r EXCEPT !.at = moved])
    BY <1>2, <2>2, <2>4 DEF HasLeave
  <2>6. ~unguarded => FindsRoom([r EXCEPT !.at = moved])
    BY <1>2, <2>1, <2>2, <2>3, <2>4 DEF FindsRoom
  <2> QED
    BY <1>4, <2>2, <2>4, <2>5, <2>6
<1>9. ASSUME NEW approves \in BOOLEAN, Evaluate(t, approves) PROVE LeaveInv'
  <2> DEFINE next == IF r.ask.kind = "run" THEN "record" ELSE "speak"
             plain == [r.at EXCEPT !.pc = next]
             approved == [r.at EXCEPT !.pc = next, !.approved = TRUE]
  <2>1. /\ r.at.pc = "judge"
        /\ \/ ~Judged(r.ask) /\ Moves(t, plain)
           \/ Moves(t, approved)
           \/ Refuse(t)
    BY <1>2, <1>9 DEF Evaluate, r
  <2>2. ASSUME NEW moved, moved = plain \/ moved = approved, Judged(r.ask) => moved.approved = TRUE, Moves(t, moved)
        PROVE  LeaveInv'
    <3>1. /\ [r EXCEPT !.at = moved] \in OpenRequests
          /\ [r EXCEPT !.at = moved].ask = r.ask /\ [r EXCEPT !.at = moved].at = moved
          /\ moved.pc = next /\ moved.alive = r.at.alive /\ moved.by = r.at.by
          /\ moved.billed = r.at.billed /\ (Judged(r.ask) => moved.approved = TRUE)
      BY <1>2, <2>2 DEF OpenRequests, Steps
    <3>2. r.ask.kind \in {"run", "tts"}
      BY <1>2 DEF OpenRequests, SpendRequests
    <3>3. HasLeave([r EXCEPT !.at = moved])
      BY <1>2, <2>1, <3>1, <3>2 DEF HasLeave
    <3>4. ~unguarded => FindsRoom([r EXCEPT !.at = moved])
      BY <1>2, <2>1, <3>1 DEF FindsRoom
    <3> QED
      BY <1>4, <2>2, <3>1, <3>3, <3>4
  <2>3. approved.approved = TRUE
    BY <1>2 DEF OpenRequests
  <2> HIDE DEF plain, approved
  <2> QED
    BY <1>5, <2>1, <2>2, <2>3
<1> QED
  BY <1>6, <1>7, <1>8, <1>9

LEMMA AuditionKeeps ==
  ASSUME LeaveInv, NEW t \in Threads, NEW provider, Audition(t, provider)
  PROVE  LeaveInv'
<1> DEFINE r == The(t)
<1>1. opened[t] # {} /\ Speaks(r, provider)
      /\ UNCHANGED <<today, budget, taken, holes, unguarded, record>>
  BY DEF Audition
<1>2. /\ r \in OpenRequests /\ HasLeave(r) /\ opened[t] = {r}
      /\ ~unguarded => FindsRoom(r)
  BY <1>1, TheRequest
<1>3. /\ r.ask.external \in BOOLEAN /\ r.ask.amount \in Nat /\ r.at.billed \in Nat
      /\ r.at.pc \in {"speak", "fallback", "answered"} /\ r.ask.kind = "tts"
  BY <1>1, <1>2, BodyAssumption DEF OpenRequests, SpendRequests, HasLeave, Speaks
<1>4. /\ provider \in GoogleCloudTts => r.at.pc = "answered" /\ provider = r.at.by
      /\ provider \in GoogleCloudTts \cup GTtsFallback => r.ask.external = TRUE /\ r.at.alive = TRUE
      /\ r.at.pc = "answered" => provider \in GoogleCloudTts
  BY <1>1, <1>2, <1>3
  DEF Speaks, Synthesize, GoogleCloudTts, GTtsFallback, LocalWavFallback, HasLeave
<1>5. CASE r.ask.amount > 0 /\ provider \in GoogleCloudTts
  <2> DEFINE moved == [r.at EXCEPT !.pc = "record"]
             q == [r EXCEPT !.at = moved]
  <2>1. opened' = [opened EXCEPT ![t] = {q}] /\ accepted' = accepted
    BY <1>5 DEF Audition, Moves, r
  <2>2. /\ q \in OpenRequests /\ q.ask = r.ask /\ q.at = moved
        /\ moved.pc = "record" /\ moved.by = r.at.by /\ moved.billed = r.at.billed
        /\ moved.alive = r.at.alive /\ moved.approved = r.at.approved
    BY <1>2 DEF OpenRequests, Steps
  <2> HIDE DEF moved, q
  <2>3. HasLeave(q)
    BY <1>2, <1>3, <1>5, <2>2 DEF HasLeave
  <2>4. ~unguarded => FindsRoom(q)
    BY <1>2, <1>3, <2>2 DEF FindsRoom
  <2>5. ~unguarded => Told'
    BY <1>1, <2>1, <2>2, StillTold DEF r
  <2>6. (\A x \in accepted' : Governed(x)) /\ taken' = taken /\ taken \in [1..MaxDays -> Nat]
    BY <1>1, <2>1 DEF LeaveInv, BodyShape
  <2> QED
    BY <1>1, <2>1, <2>2, <2>3, <2>4, <2>5, <2>6, GoesOn
<1>6. CASE ~(r.ask.amount > 0 /\ provider \in GoogleCloudTts)
  <2> DEFINE q == [ask |-> r.ask, at |-> [r.at EXCEPT !.by = provider]]
  <2>1. Ends(t) /\ accepted' = accepted \cup {q}
    BY <1>6 DEF Audition, r
  <2>2. q.ask = r.ask /\ q.at.by = provider /\ q.at.alive = r.at.alive
    BY <1>2 DEF OpenRequests
  <2> HIDE DEF q
  <2>3. Governed(q)
    BY <1>3, <1>4, <1>6, <2>2 DEF Governed
  <2>4. \A x \in accepted' : Governed(x)
    BY <2>1, <2>3 DEF LeaveInv
  <2>5. \A x \in opened[t] : x.at.billed = 0
    BY <1>2, <1>3, <1>4, <1>6 DEF HasLeave
  <2> QED
    BY <1>1, <2>1, <2>4, <2>5, EndsUnbooked
<1> QED
  BY <1>5, <1>6

\* What Google bills is owed until it is booked, or the day has a hole.
LEMMA AskKeeps ==
  ASSUME LeaveInv, NEW t \in Threads, NEW bills \in BOOLEAN, NEW answers \in BOOLEAN,
         AskGoogle(t, bills, answers)
  PROVE  LeaveInv'
<1> DEFINE r == The(t)
           owed == bills /\ r.ask.amount > 0
           sum == IF owed THEN r.ask.amount ELSE 0
           answer == [r.at EXCEPT !.pc = "answered", !.by = "google-cloud-tts",
                                  !.billed = IF owed THEN today ELSE 0]
           moved == IF answers THEN answer ELSE [r.at EXCEPT !.pc = "fallback"]
           q == [r EXCEPT !.at = moved]
<1>1. /\ opened[t] # {} /\ At(t, "speak") /\ r.ask.external /\ (answers => bills)
      /\ UNCHANGED <<today, budget, accepted, unguarded, record>>
      /\ opened' = [opened EXCEPT ![t] = {q}]
      /\ taken' = [taken EXCEPT ![today] = @ + sum]
      /\ holes' = holes \cup IF owed /\ ~answers THEN {today} ELSE {}
  BY Zenon DEF AskGoogle, Moves, At, proofVars
<1>2. /\ r \in OpenRequests /\ HasLeave(r) /\ r.at.pc = "speak" /\ opened[t] = {r}
      /\ ~unguarded => FindsRoom(r)
  BY <1>1, TheRequest
<1>3. /\ r.ask.external = TRUE /\ r.ask.amount \in Nat /\ sum \in Nat /\ r.at.billed = 0
      /\ today \in 1..MaxDays /\ today \in Nat /\ today # 0 /\ Spent \in Nat
  BY <1>1, <1>2, BodyAssumption DEF OpenRequests, SpendRequests, HasLeave, LeaveInv, BodyShape, Spent
<1>4. /\ q \in OpenRequests /\ q.ask = r.ask
      /\ q.at.pc = (IF answers THEN "answered" ELSE "fallback")
      /\ q.at.by = (IF answers THEN "google-cloud-tts" ELSE r.at.by)
      /\ q.at.billed = (IF answers /\ owed THEN today ELSE 0)
      /\ q.at.alive = r.at.alive /\ q.at.approved = r.at.approved
  BY <1>2, <1>3 DEF OpenRequests, Steps, Voices, GoogleCloudTts
<1>5. (owed => r.ask.amount > 0) /\ (answers => bills)
  BY <1>1
<1>6. r.ask.amount = 0 => ~owed
  OBVIOUS
<1>7. opened'[t] = {q}
  BY <1>1 DEF LeaveInv, BodyShape
<1> HIDE DEF q, moved, answer
<1>8. HasLeave(q)
  BY <1>2, <1>3, <1>4, <1>5 DEF HasLeave, GoogleCloudTts
<1>9. ~unguarded => FindsRoom(q)
  BY <1>2, <1>3, <1>4 DEF FindsRoom
<1>10. /\ taken \in [1..MaxDays -> Nat] /\ taken' \in [1..MaxDays -> Nat]
       /\ \A d \in 1..MaxDays : d > today => taken'[d] = taken[d]
       /\ taken'[today] = taken[today] + sum /\ taken[today] \in Nat
  BY <1>1, <1>3 DEF LeaveInv, BodyShape
<1>11. ASSUME ~unguarded, today \notin holes'
       PROVE  taken'[today] <= Spent \/ (q.at.billed = today /\ taken'[today] <= Spent + q.ask.amount)
  <2>1. taken[today] <= Spent
    <3>1. \A u \in Threads : \A x \in opened[u] : ~Owes(x)
      BY <1>1, <1>2, <1>3, <1>11 DEF LeaveInv, Books, Owes
    <3> QED
      BY <1>1, <1>11, <3>1 DEF LeaveInv, Books, Told
  <2>2. CASE owed /\ answers
    BY <1>3, <1>4, <1>10, <2>1, <2>2
  <2>3. CASE ~owed
    BY <1>3, <1>10, <2>1, <2>3
  <2>4. ~owed \/ answers
    BY <1>1, <1>11
  <2> QED
    BY <2>2, <2>3, <2>4
<1>12. ~unguarded => Told'
  <2>1. Spent' = Spent /\ today' = today
    BY <1>1 DEF Spent
  <2> QED
    BY <1>7, <1>11, <2>1 DEF Told, Owes
<1>13. \A x \in accepted' : Governed(x)
  BY <1>1 DEF LeaveInv
<1> QED
  BY <1>1, <1>4, <1>8, <1>9, <1>10, <1>12, <1>13, GoesOn

\* A booking of today adds to what was read; one of a day that has passed
\* leaves nothing spent today.
LEMMA WriteKeeps ==
  ASSUME LeaveInv, NEW t \in Threads, WriteBudget(t)
  PROVE  LeaveInv'
<1>1. PICK r, amount, date, booked :
        r = The(t) /\ amount = r.ask.amount /\ date = r.at.date /\ booked = r.at.spent
  OBVIOUS
<1>2. /\ opened[t] # {} /\ At(t, "write") /\ Ends(t)
      /\ UNCHANGED <<today, holes, unguarded, record>>
      /\ budget' = [date |-> date, spent |-> booked + amount]
      /\ taken' = IF r.ask.kind = "run" THEN [taken EXCEPT ![date] = @ + amount] ELSE taken
      /\ accepted' = accepted \cup {r}
  BY <1>1 DEF WriteBudget, At, proofVars
<1>3. /\ r \in OpenRequests /\ HasLeave(r) /\ r.at.pc = "write" /\ opened[t] = {r}
      /\ ~unguarded => FindsRoom(r)
  BY <1>1, <1>2, TheRequest
<1>4. amount \in Nat /\ date \in Nat /\ booked \in Nat
  BY <1>1, <1>3, BodyAssumption DEF OpenRequests, SpendRequests
<1>5. Governed(r)
  BY <1>1, <1>3, <1>4 DEF HasLeave, Governed, Judged, GoogleCloudTts, GTtsFallback, OpenRequests, SpendRequests
<1>6. BodyShape'
  <2>1. budget' \in [date : Nat, spent : Nat]
    BY <1>2, <1>4
  <2>2. taken \in [1..MaxDays -> Nat]
    BY DEF LeaveInv, BodyShape
  <2>3. \A d \in 1..MaxDays : taken[d] \in Nat /\ taken[d] + amount \in Nat
    BY <1>4, <2>2
  <2>4. taken' \in [1..MaxDays -> Nat]
    <3>1. [taken EXCEPT ![date] = @ + amount] \in [1..MaxDays -> Nat]
      BY <2>2, <2>3
    <3> QED
      BY <1>2, <2>2, <3>1
  <2> QED
    BY <1>2, <2>1, <2>4 DEF LeaveInv, BodyShape, Ends
<1>7. \A u \in Threads : opened'[u] \subseteq opened[u] /\ (u = t => opened'[u] = {})
  BY <1>2 DEF LeaveInv, BodyShape, Ends
<1>8. ~unguarded => Books'
  <2> SUFFICES ASSUME ~unguarded PROVE Books'
    OBVIOUS
  <2>1. \A u \in Threads : opened'[u] = {}
    BY <1>2, <1>7 DEF LeaveInv, Books
  <2>2. /\ date \in 1..today
        /\ date = today => booked = Spent /\ Spent + amount <= Cap
        /\ date # today => Spent = 0
    BY <1>1, <1>3 DEF FindsRoom
  <2>3. today \in 1..MaxDays /\ MaxDays \in Nat /\ taken \in [1..MaxDays -> Nat]
        /\ Spent \in Nat /\ taken[today] \in Nat /\ \A d \in 1..MaxDays : d > today => taken[d] = 0
    BY BodyAssumption DEF LeaveInv, BodyShape, Books, Spent
  <2>4. budget'.date = date /\ budget'.spent = booked + amount
    BY <1>2
  <2>5. \A d \in 1..MaxDays : d > today => taken'[d] = 0
    BY <1>2, <2>2, <2>3
  <2>6. Spent' <= Cap /\ budget'.date <= today
    BY <1>2, <1>4, <2>2, <2>3, <2>4, BodyAssumption DEF Spent
  <2>7. ASSUME today \notin holes PROVE taken'[today] <= Spent'
    <3>1. r.at.billed \in Nat /\ r.at.billed <= date /\ (r.at.billed # 0 => r.ask.kind # "run")
      BY <1>1, <1>3 DEF OpenRequests, HasLeave, FindsRoom
    <3>2. taken[today] <= Spent \/ (r.at.billed = today /\ taken[today] <= Spent + amount)
      BY <1>1, <1>2, <1>3, <2>7 DEF LeaveInv, Books, Told, Owes
    <3>3. CASE date = today
      <4>1. Spent' = Spent + amount
        BY <1>2, <2>2, <2>4, <3>3 DEF Spent
      <4>2. CASE r.ask.kind = "run"
        <5>1. taken[today] <= Spent
          BY <2>3, <3>1, <3>2, <4>2
        <5>2. taken'[today] = taken[today] + amount
          BY <1>2, <2>3, <3>3, <4>2
        <5> QED
          BY <1>4, <2>3, <4>1, <5>1, <5>2
      <4>3. CASE r.ask.kind # "run"
        BY <1>2, <1>4, <2>3, <3>2, <4>1, <4>3
      <4> QED
        BY <4>2, <4>3
    <3>4. CASE date # today
      <4>1. Spent' = 0 /\ Spent = 0 /\ taken'[today] = taken[today]
        BY <1>2, <2>2, <2>3, <2>4, <3>4 DEF Spent
      <4> QED
        BY <1>4, <2>2, <2>3, <3>1, <3>2, <3>4, <4>1
    <3> QED
      BY <3>3, <3>4
  <2>8. Told'
    BY <1>2, <2>7 DEF Told
  <2> QED
    BY <1>2, <2>1, <2>5, <2>6, <2>8 DEF Books
<1>9. AcceptanceTruthful'
  BY <1>2 DEF LeaveInv, AcceptanceTruthful
<1> QED
  BY <1>2, <1>5, <1>6, <1>7, <1>8, <1>9 DEF LeaveInv

LEMMA MidnightKeeps ==
  ASSUME LeaveInv, Midnight
  PROVE  LeaveInv'
<1>1. /\ today < MaxDays /\ today' = today + 1
      /\ UNCHANGED <<budget, taken, holes, accepted, opened, unguarded, record>>
  BY DEF Midnight, bookVars, proofVars
<1>2. today \in 1..MaxDays /\ MaxDays \in Nat /\ Spent \in Nat /\ today' \in 1..MaxDays
  BY <1>1, BodyAssumption DEF LeaveInv, BodyShape, Spent
<1>3. BodyShape'
  BY <1>1, <1>2 DEF LeaveInv, BodyShape
<1>4. ~unguarded => Books'
  <2> SUFFICES ASSUME ~unguarded PROVE Books'
    OBVIOUS
  <2>1. budget.date <= today /\ budget.date \in Nat /\ taken[today'] = 0
    BY <1>1, <1>2 DEF LeaveInv, BodyShape, Books
  <2>2. Spent' = 0
    BY <1>1, <1>2, <2>1 DEF Spent
  <2>3. ASSUME NEW t \in Threads, NEW r \in opened[t] PROVE FindsRoom(r)'
    <3>1. r.ask.amount \in Nat /\ r.at.billed \in Nat
      <4>1. r \in OpenRequests
        BY <2>3 DEF LeaveInv, BodyShape
      <4> QED
        BY <4>1, BodyAssumption DEF OpenRequests, SpendRequests
    <3>2. FindsRoom(r)
      BY <2>3 DEF LeaveInv, Books
    <3>3. /\ r.at.pc \notin {"asked", "budget", "write"} => r.ask.amount <= Cap
          /\ r.at.billed <= today'
      BY <1>1, <1>2, <3>1, <3>2, BodyAssumption DEF FindsRoom
    <3>4. r.at.pc = "write" => /\ r.at.date \in 1..today' /\ r.at.date # today'
                              /\ r.at.billed <= r.at.date
      BY <1>1, <1>2, <3>2 DEF FindsRoom
    <3> QED
      BY <2>2, <3>1, <3>3, <3>4 DEF FindsRoom
  <2>4. \A d \in 1..MaxDays : d > today' => taken[d] = 0
    BY <1>1, <1>2 DEF LeaveInv, Books
  <2>5. budget.date <= today'
    BY <1>1, <1>2, <2>1
  <2>6. \A t, u \in Threads : opened[t] # {} /\ opened[u] # {} => t = u
    BY DEF LeaveInv, Books
  <2>7. Told'
    BY <1>1, <2>1, <2>2 DEF Told
  <2> QED
    BY <1>1, <2>1, <2>2, <2>3, <2>4, <2>5, <2>6, <2>7, BodyAssumption DEF Books
<1>5. AcceptanceTruthful'
  BY <1>1 DEF LeaveInv, AcceptanceTruthful
<1> QED
  BY <1>1, <1>3, <1>4, <1>5 DEF LeaveInv

\* A death takes requests along, and an error one; what they owed is a hole in
\* its day, and a file cut short one in this.
LEMMA DeathKeeps ==
  ASSUME LeaveInv, NEW S \in SUBSET Threads, Stops(S)
  PROVE  LeaveInv'
<1> DEFINE unbooked == {r.at.billed : r \in UNION {opened[t] : t \in S}} \ {0}
<1>1. /\ UNCHANGED <<today, taken, unguarded, accepted, record>> /\ \E t \in S : opened[t] # {}
      /\ \A t \in Threads : opened'[t] = IF t \in S THEN {} ELSE opened[t]
      /\ unbooked \subseteq holes' /\ holes \subseteq holes'
      /\ budget' = budget \/ (budget' = [date |-> 0, spent |-> 0] /\ today \in holes')
  BY Zenon DEF Stops, proofVars
<1>2. BodyShape'
  <2>1. opened' \in [Threads -> SUBSET OpenRequests]
    BY DEF Stops, LeaveInv, BodyShape
  <2>2. budget' \in [date : Nat, spent : Nat]
    BY <1>1 DEF LeaveInv, BodyShape
  <2> QED
    BY <1>1, <2>1, <2>2 DEF LeaveInv, BodyShape
<1>3. ~unguarded' => Books'
  <2> SUFFICES ASSUME ~unguarded PROVE Books'
    BY <1>1
  <2>0. Books /\ today \in Nat /\ today # 0
    BY BodyAssumption DEF LeaveInv, BodyShape
  <2>1. \A t \in Threads : opened'[t] = {}
    BY <1>1, <2>0 DEF Books
  <2>2. Spent' <= Cap /\ budget'.date <= today
    BY <1>1, <2>0, BodyAssumption DEF Books, Spent
  <2>3. ASSUME today \notin holes' PROVE taken[today] <= Spent'
    <3>1. Spent' = Spent /\ today \notin holes /\ today \notin unbooked
      BY <1>1, <2>3 DEF Spent
    <3>2. ASSUME NEW t \in Threads, NEW r \in opened[t] PROVE ~Owes(r)
      <4>1. t \in S
        BY <1>1, <2>0, <3>2 DEF Books
      <4> QED
        BY <2>0, <3>1, <3>2, <4>1 DEF Owes
    <3> QED
      BY <2>0, <2>3, <3>1, <3>2 DEF Books, Told
  <2>4. Told'
    BY <1>1, <2>3 DEF Told
  <2> QED
    BY <1>1, <2>0, <2>1, <2>2, <2>4 DEF Books
<1>4. \A t \in Threads : \A r \in opened'[t] : HasLeave(r)
  BY <1>1 DEF LeaveInv
<1> QED
  BY <1>1, <1>2, <1>3, <1>4 DEF LeaveInv, AcceptanceTruthful

\* What leaves requests, books and record alone.
LEMMA AsideKeeps ==
  ASSUME LeaveInv, UNCHANGED <<today, budget, taken, holes, accepted, opened, unguarded>>,
         AcceptanceTruthful'
  PROVE  LeaveInv'
<1>1. Spent' = Spent
  BY DEF Spent
<1>2. BodyShape' /\ (~unguarded => Books')
  BY <1>1 DEF LeaveInv, BodyShape, Books, FindsRoom, Told, Owes
<1> QED
  BY <1>2 DEF LeaveInv

LEMMA AcceptTruthful ==
  ASSUME AcceptanceTruthful, NEW e, NEW allow, Accept(e, allow)
  PROVE  AcceptanceTruthful'
<1>1. PICK criteria, pending :
        /\ pending = {c[1] : c \in {d \in criteria : d[2] # "pass"}}
        /\ \/ record' = [decision |-> IF pending = {} THEN "accepted" ELSE "accepted_with_boundaries",
                         pending |-> pending, criteria |-> criteria]
           \/ record' = record
  BY Zenon DEF Accept, PendingOf
<1>2. CASE record' = record
  BY <1>2 DEF AcceptanceTruthful
<1>3. CASE record' = [decision |-> IF pending = {} THEN "accepted" ELSE "accepted_with_boundaries",
                      pending |-> pending, criteria |-> criteria]
  <2>1. \A c \in criteria : c[2] # "pass" => c[1] \in pending
    BY <1>1
  <2>2. /\ record'.criteria = criteria /\ record'.pending = pending
        /\ record'.decision = "accepted" => pending = {}
    BY <1>3
  <2> QED
    BY <2>1, <2>2 DEF AcceptanceTruthful
<1> QED
  BY <1>1, <1>2, <1>3

\* The body spends, speaks and says it was accepted only with the leave it was
\* given (body.py run and audition_tts, budget.py, founder_acceptance.py accept).
THEOREM SpendsWithLeave == BodySpec => []LeaveGiven
<1>1. BodyInit => LeaveInv
  <2> SUFFICES ASSUME BodyInit PROVE LeaveInv
    OBVIOUS
  <2>1. today = 1 /\ 1 \in 1..MaxDays /\ Spent = 0 /\ budget.date <= today
    BY BodyAssumption DEF BodyInit, Spent
  <2>2. BodyShape
    BY <2>1 DEF BodyInit, BodyShape
  <2>3. Books
    BY <2>1, BodyAssumption DEF BodyInit, Books, Told
  <2>4. AcceptanceTruthful
    BY DEF BodyInit, AcceptanceTruthful, NoRecord
  <2> QED
    BY <2>2, <2>3, <2>4 DEF BodyInit, LeaveInv
<1>2. LeaveInv /\ [BodyNext]_bodyVars => LeaveInv'
  <2> SUFFICES ASSUME LeaveInv, [BodyNext]_bodyVars PROVE LeaveInv'
    OBVIOUS
  <2>1. CASE SpendRoutes
    <3>1. PICK t \in Threads :
            \/ \E r \in SpendRequests : Begin(t, r)
            \/ CheckMind(t) \/ CheckBudget(t) \/ ReadBudget(t) \/ WriteBudget(t) \/ Raises(t)
            \/ \E bills, answers \in BOOLEAN : AskGoogle(t, bills, answers)
            \/ \E approves \in BOOLEAN : Evaluate(t, approves)
            \/ \E p \in GoogleCloudTts \cup GTtsFallback \cup LocalWavFallback : Audition(t, p)
      BY <2>1 DEF SpendRoutes
    <3>2. CASE Raises(t)
      BY <3>2, DeathKeeps DEF Raises
    <3> QED
      BY <3>1, <3>2, BeginKeeps, RequestSteps, WriteKeeps, AuditionKeeps, AskKeeps
  <2>2. CASE ActivateRoute \/ HandleMessage \/ (\E e \in Evidence : BuildPacket(e)) \/ MindChanges
             \/ UNCHANGED bodyVars
    <3>1. UNCHANGED <<today, budget, taken, holes, accepted, opened, unguarded, record>>
      BY <2>2
      DEF ActivateRoute, HandleMessage, BuildPacket, MindChanges, bookVars, proofVars, bodyVars
    <3>2. AcceptanceTruthful'
      BY <3>1 DEF LeaveInv, AcceptanceTruthful
    <3> QED
      BY <3>1, <3>2, AsideKeeps
  <2>3. ASSUME NEW e \in Evidence, NEW allow \in BOOLEAN, Accept(e, allow) PROVE LeaveInv'
    <3>1. UNCHANGED <<today, budget, taken, holes, accepted, opened, unguarded>>
      BY <2>3, Zenon DEF Accept, bookVars
    <3>2. AcceptanceTruthful'
      BY <2>3, AcceptTruthful DEF LeaveInv
    <3> QED
      BY <3>1, <3>2, AsideKeeps
  <2>4. CASE Midnight
    BY <2>4, MidnightKeeps
  <2>5. CASE BodyDies
    BY <2>5, DeathKeeps DEF BodyDies
  <2> QED
    BY <2>1, <2>2, <2>3, <2>4, <2>5 DEF BodyNext, ProofRoutes
<1>3. LeaveInv => LeaveGiven
  <2> SUFFICES ASSUME LeaveInv PROVE LeaveGiven
    OBVIOUS
  <2>1. ASSUME ~unguarded, today \notin holes
        PROVE  /\ taken[today] <= Cap
               /\ (\A t \in Threads : opened[t] = {}) => taken[today] <= Spent
    <3>1. /\ Books /\ today \in 1..MaxDays /\ today \in Nat /\ today # 0
          /\ Spent \in Nat /\ taken[today] \in Nat
      BY <2>1, BodyAssumption DEF LeaveInv, BodyShape, Spent
    <3>2. CASE taken[today] <= Spent
      BY <3>1, <3>2, BodyAssumption DEF Books
    <3>3. ASSUME NEW t \in Threads, NEW r \in opened[t], Owes(r) PROVE taken[today] <= Cap
      <4>0. r \in OpenRequests /\ HasLeave(r) /\ FindsRoom(r)
        BY <2>1, <3>3 DEF LeaveInv, BodyShape, Books
      <4>1. r \in OpenRequests /\ r.ask.amount \in Nat /\ HasLeave(r) /\ FindsRoom(r)
        BY <4>0, BodyAssumption DEF OpenRequests, SpendRequests
      <4>2. r.at.pc \in {"answered", "record", "write"} /\ r.at.billed = today
        BY <3>1, <3>3, <4>1 DEF HasLeave, Owes
      <4>3. Spent + r.ask.amount <= Cap
        BY <3>1, <4>1, <4>2 DEF FindsRoom
      <4> QED
        BY <3>1, <3>3, <4>1, <4>3, BodyAssumption DEF Owes
    <3> QED
      BY <2>1, <3>1, <3>2, <3>3 DEF Books, Told
  <2> QED
    BY <2>1 DEF LeaveInv, Governed, LeaveGiven, SpendingGoverned
<1> QED
  BY <1>1, <1>2, <1>3, PTL DEF BodySpec

-----------------------------------------------------------------------------
(* FleetOperations: the jobs of the fleet keep to their own incidents      *)

FleetStates == {"none", "open", "acknowledged", "resolved"}

\* What the job that holds the lock goes through is of its own incidents, what
\* it resolves it has not found, and what it is to sweep has been seen twice.
RunKeepsToItsJob ==
    /\ run.pc = "trigger" =>
          /\ run.job = "incident-sweep"
          /\ \A fp \in run.todo : fp \in High /\ inc[fp].seen = 2
    /\ run.pc \in {"renew", "open", "resolve"} =>
          /\ run.job \in Jobs \ {"incident-sweep"}
          /\ run.todo \subseteq Fingerprints(run.job)
          /\ run.active \subseteq Fingerprints(run.job)
    /\ run.pc = "resolve" => run.todo \cap run.active = {}

FleetShapes ==
    /\ inc \in [AllFingerprints -> [state : FleetStates, seen : 0..2, trigger : BOOLEAN]]
    /\ run \in [pc : {"free", "renew", "open", "resolve", "trigger"}, job : Jobs \cup {"none"},
                todo : SUBSET AllFingerprints, active : SUBSET AllFingerprints,
                due : SUBSET Drivers]
    /\ events \in Nat

\* A learning trigger is of a severe incident, found at least twice.
TriggersEarned ==
    \A fp \in AllFingerprints : inc[fp].trigger => fp \in High /\ inc[fp].seen = 2

\* The inductive invariant.
FleetInv == FleetShapes /\ RunKeepsToItsJob /\ TriggersEarned

\* What changes without an operator, a fault or a change of the fleet is the
\* work of the job that holds the lock: it opens and resolves its own
\* incidents, forgetting neither a sighting nor a trigger, and only the sweep
\* marks a trigger.
JobsKeepToTheirOwn ==
    \A fp \in AllFingerprints :
        events' = events /\ inc'[fp] # inc[fp] =>
            \/ /\ run.job # "incident-sweep" /\ fp \in Fingerprints(run.job)
               /\ inc'[fp].trigger = inc[fp].trigger
               /\ inc'[fp].seen >= inc[fp].seen
            \/ run.job = "incident-sweep" /\ inc'[fp] = [inc[fp] EXCEPT !.trigger = TRUE]

\* Incidents are resolved by whoever manages them, an operator or the job that
\* looked for their condition and did not find it.
ResolvedIfAbsent ==
    \A fp \in AllFingerprints :
        events' = events /\ Unresolved(fp) /\ inc'[fp].state = "resolved" =>
            fp \notin run.active

\* The incidents of a job, its conditions and the absent ones are of the fleet.
LEMMA OwnFingerprints ==
    /\ \A k \in Jobs : /\ Fingerprints(k) \subseteq AllFingerprints
                      /\ Conditions(k) \subseteq Fingerprints(k)
    /\ \A k \in Jobs : \A active : /\ Absent(k, active) \subseteq Fingerprints(k)
                                 /\ Absent(k, active) \cap active = {}
    /\ \A k \in Jobs : <<"failure", k, 0>> \in AllFingerprints
    /\ High \subseteq AllFingerprints
    /\ Fingerprints("incident-sweep") = {}
<1>1. \A k \in Jobs \cup {"scheduler"} : Fingerprints(k) \subseteq AllFingerprints
  BY DEF AllFingerprints
<1>2. \A k \in Jobs : Conditions(k) \subseteq Fingerprints(k)
  BY DEF Conditions
<1>3. \A k \in Jobs : \A active : /\ Absent(k, active) \subseteq Fingerprints(k)
                                 /\ Absent(k, active) \cap active = {}
  BY DEF Absent
<1>4. \A k \in Jobs : <<"failure", k, 0>> \in Fingerprints("scheduler")
  BY DEF Fingerprints
<1>5. Fingerprints("incident-sweep") = {}
  BY DEF Fingerprints
<1> QED
  BY <1>1, <1>2, <1>3, <1>4, <1>5 DEF High

\* open_incident forgets neither a sighting nor a trigger.
LEMMA OpeningForgetsNothing ==
    ASSUME NEW i \in [state : FleetStates, seen : 0..2, trigger : BOOLEAN]
    PROVE  /\ OpenIncident(i) \in [state : FleetStates, seen : 0..2, trigger : BOOLEAN]
           /\ OpenIncident(i).trigger = i.trigger
           /\ OpenIncident(i).seen >= i.seen
           /\ i.seen = 2 => OpenIncident(i).seen = 2
           /\ OpenIncident(i).state # "resolved"
<1> DEFINE state == IF i.state \in {"none", "resolved"} THEN "open" ELSE i.state
           seen == IF i.seen < 2 THEN i.seen + 1 ELSE i.seen
<1>1. i.state \in FleetStates /\ i.seen \in 0..2
  OBVIOUS
<1>2. state \in FleetStates /\ state # "resolved"
  BY <1>1 DEF FleetStates
<1>3. seen \in 0..2 /\ seen >= i.seen /\ (i.seen = 2 => seen = 2)
  BY <1>1
<1>4. OpenIncident(i) = [i EXCEPT !.state = state, !.seen = seen]
  BY DEF OpenIncident
<1> HIDE DEF state, seen
<1> QED
  BY <1>2, <1>3, <1>4

\* A job goes on with an element of its list.
LEMMA JobGoesOn ==
    ASSUME JobStep
    PROVE  \/ \E d \in Drivers, ok \in BOOLEAN : \E exe \in 0..drv[d].exe : RenewReceipt(d, ok, exe)
           \/ QueueRenewals \/ ListAbsent \/ FinishJob
           \/ \E fp \in run.todo : OpenCondition(fp) \/ ResolveAbsent(fp) \/ SweepIncident(fp)
BY DEF JobStep

\* The fleet starts with no incident and nobody at work.
LEMMA FleetStarts == FleetInit => FleetInv
BY DEF FleetInit, FleetInv, FleetShapes, RunKeepsToItsJob, TriggersEarned, NoRun, FleetStates, Jobs

\* A job that starts looks at its own incidents, a sweep at those seen twice.
LEMMA StartKeeps ==
    ASSUME FleetInv, NEW k \in Jobs, StartJob(k), events' \in Nat
    PROVE  FleetInv'
<1> USE DEF FleetInv, FleetShapes
<1>1. inc' = inc
  BY DEF StartJob
<1>2. /\ run'.job = k
      /\ run'.active = Conditions(k)
      /\ run'.due \subseteq Drivers
  BY DEF StartJob
<1>3. CASE k = "incident-sweep"
  <2>1. /\ run'.pc = "trigger"
        /\ run'.todo = {fp \in High : Unresolved(fp) /\ ~inc[fp].trigger /\ inc[fp].seen >= 2}
        /\ run'.due = {}
    BY <1>3 DEF StartJob
  <2>2. \A fp \in run'.todo : fp \in High /\ inc[fp].seen = 2
    BY <2>1, OwnFingerprints
  <2>3. run' \in [pc : {"free", "renew", "open", "resolve", "trigger"}, job : Jobs \cup {"none"},
                 todo : SUBSET AllFingerprints, active : SUBSET AllFingerprints,
                 due : SUBSET Drivers]
    BY <1>3, <2>1, OwnFingerprints DEF StartJob
  <2> QED
    BY <1>1, <1>2, <1>3, <2>1, <2>2, <2>3 DEF RunKeepsToItsJob, TriggersEarned
<1>4. CASE k # "incident-sweep"
  <2>1. /\ run'.pc \in {"renew", "open"}
        /\ run'.todo \subseteq Conditions(k)
    BY <1>4 DEF StartJob
  <2>2. run' \in [pc : {"free", "renew", "open", "resolve", "trigger"}, job : Jobs \cup {"none"},
                 todo : SUBSET AllFingerprints, active : SUBSET AllFingerprints,
                 due : SUBSET Drivers]
    BY <1>2, <2>1, OwnFingerprints DEF StartJob
  <2> QED
    BY <1>1, <1>2, <1>4, <2>1, <2>2, OwnFingerprints DEF RunKeepsToItsJob, TriggersEarned
<1> QED
  BY <1>3, <1>4

\* The lock is given back.
LEMMA ReleaseKeeps ==
    ASSUME FleetInv, run' = NoRun, events' \in Nat,
           inc' \in [AllFingerprints -> [state : FleetStates, seen : 0..2, trigger : BOOLEAN]],
           TriggersEarned'
    PROVE  FleetInv'
BY DEF FleetInv, FleetShapes, RunKeepsToItsJob, NoRun

\* One incident changes and loses no sighting and no trigger; the lists of the
\* job stay or get shorter.
LEMMA IncidentKeeps ==
    ASSUME FleetInv, NEW fp \in AllFingerprints,
           NEW i \in [state : FleetStates, seen : 0..2, trigger : BOOLEAN],
           inc' = [inc EXCEPT ![fp] = i],
           i.trigger = inc[fp].trigger,
           inc[fp].seen = 2 => i.seen = 2
    PROVE  /\ inc' \in [AllFingerprints -> [state : FleetStates, seen : 0..2, trigger : BOOLEAN]]
           /\ TriggersEarned'
           /\ \A x \in AllFingerprints : inc[x].seen = 2 => inc'[x].seen = 2
<1>1. /\ inc' \in [AllFingerprints -> [state : FleetStates, seen : 0..2, trigger : BOOLEAN]]
      /\ inc'[fp] = i
      /\ \A x \in AllFingerprints \ {fp} : inc'[x] = inc[x]
  BY DEF FleetInv, FleetShapes
<1> QED
  BY <1>1 DEF FleetInv, TriggersEarned

\* The lock is held on, by the same job, with the list it had or less.
LEMMA HoldingKeeps ==
    ASSUME FleetInv, events' \in Nat,
           inc' \in [AllFingerprints -> [state : FleetStates, seen : 0..2, trigger : BOOLEAN]],
           TriggersEarned',
           \A x \in AllFingerprints : inc[x].seen = 2 => inc'[x].seen = 2,
           NEW todo \in SUBSET run.todo,
           run' = [run EXCEPT !.todo = todo]
    PROVE  FleetInv'
<1>1. /\ run'.pc = run.pc /\ run'.job = run.job
      /\ run'.todo = todo /\ run'.active = run.active
      /\ run' \in [pc : {"free", "renew", "open", "resolve", "trigger"}, job : Jobs \cup {"none"},
                 todo : SUBSET AllFingerprints, active : SUBSET AllFingerprints,
                 due : SUBSET Drivers]
  BY DEF FleetInv, FleetShapes
<1>2. RunKeepsToItsJob'
  BY <1>1 DEF FleetInv, FleetShapes, RunKeepsToItsJob, High
<1> QED
  BY <1>1, <1>2 DEF FleetInv, FleetShapes

\* The holder of the lock keeps the invariant.
LEMMA JobStepKeeps ==
    ASSUME FleetInv, JobStep
    PROVE  FleetInv'
<1>0. events' = events /\ events' \in Nat
  BY JobGoesOn DEF FleetInv, FleetShapes, RenewReceipt, QueueRenewals, ListAbsent, FinishJob,
                   OpenCondition, ResolveAbsent, SweepIncident
<1>1. ASSUME NEW d \in Drivers, NEW ok \in BOOLEAN, NEW exe, RenewReceipt(d, ok, exe)
      PROVE  FleetInv'
  <2> DEFINE left == IF ok THEN {fp \in run.active : fp[2] # d} ELSE run.active
  <2>0. left \subseteq run.active
    OBVIOUS
  <2>1. /\ run' = [run EXCEPT !.due = @ \ {d}, !.active = left]
        /\ inc' = inc /\ run.pc = "renew"
    BY <1>1 DEF RenewReceipt
  <2> HIDE DEF left
  <2>2. /\ run'.pc = "renew" /\ run'.job = run.job /\ run'.todo = run.todo
        /\ run'.active = left
        /\ run' \in [pc : {"free", "renew", "open", "resolve", "trigger"}, job : Jobs \cup {"none"},
                   todo : SUBSET AllFingerprints, active : SUBSET AllFingerprints,
                   due : SUBSET Drivers]
    BY <2>0, <2>1 DEF FleetInv, FleetShapes
  <2> QED
    BY <1>0, <2>0, <2>1, <2>2 DEF FleetInv, FleetShapes, RunKeepsToItsJob, TriggersEarned
<1>2. ASSUME QueueRenewals
      PROVE  FleetInv'
  <2>1. /\ run' = [run EXCEPT !.pc = "open", !.todo = run.todo \cup run.active]
        /\ inc' = inc /\ run.pc = "renew"
    BY <1>2 DEF QueueRenewals
  <2>2. /\ run'.pc = "open" /\ run'.job = run.job /\ run'.active = run.active
        /\ run'.todo = run.todo \cup run.active
        /\ run' \in [pc : {"free", "renew", "open", "resolve", "trigger"}, job : Jobs \cup {"none"},
                   todo : SUBSET AllFingerprints, active : SUBSET AllFingerprints,
                   due : SUBSET Drivers]
    BY <2>1 DEF FleetInv, FleetShapes
  <2> QED
    BY <1>0, <2>1, <2>2 DEF FleetInv, FleetShapes, RunKeepsToItsJob, TriggersEarned
<1>3. ASSUME ListAbsent
      PROVE  FleetInv'
  <2> DEFINE absent == Absent(run.job, run.active)
  <2>1. /\ run' = [run EXCEPT !.pc = "resolve", !.todo = absent]
        /\ inc' = inc /\ run.pc = "open"
    BY <1>3 DEF ListAbsent
  <2>2. run.job \in Jobs
    BY <2>1 DEF FleetInv, RunKeepsToItsJob
  <2>3. /\ absent \subseteq Fingerprints(run.job) /\ absent \cap run.active = {}
        /\ absent \subseteq AllFingerprints
    BY <2>2, OwnFingerprints
  <2> HIDE DEF absent
  <2>4. /\ run'.pc = "resolve" /\ run'.job = run.job /\ run'.active = run.active
        /\ run'.todo = absent
        /\ run' \in [pc : {"free", "renew", "open", "resolve", "trigger"}, job : Jobs \cup {"none"},
                   todo : SUBSET AllFingerprints, active : SUBSET AllFingerprints,
                   due : SUBSET Drivers]
    BY <2>1, <2>3 DEF FleetInv, FleetShapes
  <2> QED
    BY <1>0, <2>1, <2>3, <2>4 DEF FleetInv, FleetShapes, RunKeepsToItsJob, TriggersEarned
<1>4. ASSUME FinishJob
      PROVE  FleetInv'
  <2>1. run' = NoRun /\ inc' = inc
    BY <1>4 DEF FinishJob
  <2>2. /\ inc' \in [AllFingerprints -> [state : FleetStates, seen : 0..2, trigger : BOOLEAN]]
        /\ TriggersEarned'
    BY <2>1 DEF FleetInv, FleetShapes, TriggersEarned
  <2> QED
    BY <1>0, <2>1, <2>2, ReleaseKeeps
<1>5. ASSUME NEW fp \in run.todo, OpenCondition(fp)
      PROVE  FleetInv'
  <2>1. /\ fp \in AllFingerprints
        /\ inc[fp] \in [state : FleetStates, seen : 0..2, trigger : BOOLEAN]
    BY DEF FleetInv, FleetShapes
  <2>2. PICK i : i = OpenIncident(inc[fp])
    OBVIOUS
  <2>3. inc' = [inc EXCEPT ![fp] = i] /\ run' = [run EXCEPT !.todo = run.todo \ {fp}]
    BY <1>5, <2>2 DEF OpenCondition
  <2>4. /\ i \in [state : FleetStates, seen : 0..2, trigger : BOOLEAN]
        /\ i.trigger = inc[fp].trigger
        /\ inc[fp].seen = 2 => i.seen = 2
    BY <2>1, <2>2, OpeningForgetsNothing
  <2>5. /\ inc' \in [AllFingerprints -> [state : FleetStates, seen : 0..2, trigger : BOOLEAN]]
        /\ TriggersEarned'
        /\ \A x \in AllFingerprints : inc[x].seen = 2 => inc'[x].seen = 2
    BY <2>1, <2>3, <2>4, IncidentKeeps
  <2>6. run.todo \ {fp} \in SUBSET run.todo
    OBVIOUS
  <2> QED
    BY <1>0, <2>3, <2>5, <2>6, HoldingKeeps
<1>6. ASSUME NEW fp \in run.todo, ResolveAbsent(fp)
      PROVE  FleetInv'
  <2>1. /\ fp \in AllFingerprints
        /\ inc[fp] \in [state : FleetStates, seen : 0..2, trigger : BOOLEAN]
    BY DEF FleetInv, FleetShapes
  <2>2. PICK i : i = [inc[fp] EXCEPT !.state = "resolved"]
    OBVIOUS
  <2>3. inc' = [inc EXCEPT ![fp] = i] /\ run' = [run EXCEPT !.todo = run.todo \ {fp}]
    BY <1>6, <2>2 DEF ResolveAbsent
  <2>4. /\ i \in [state : FleetStates, seen : 0..2, trigger : BOOLEAN]
        /\ i.trigger = inc[fp].trigger
        /\ inc[fp].seen = 2 => i.seen = 2
    BY <2>1, <2>2 DEF FleetStates
  <2>5. /\ inc' \in [AllFingerprints -> [state : FleetStates, seen : 0..2, trigger : BOOLEAN]]
        /\ TriggersEarned'
        /\ \A x \in AllFingerprints : inc[x].seen = 2 => inc'[x].seen = 2
    BY <2>1, <2>3, <2>4, IncidentKeeps
  <2>6. run.todo \ {fp} \in SUBSET run.todo
    OBVIOUS
  <2> QED
    BY <1>0, <2>3, <2>5, <2>6, HoldingKeeps
<1>7. ASSUME NEW fp \in run.todo, SweepIncident(fp)
      PROVE  FleetInv'
  <2>1. /\ fp \in AllFingerprints
        /\ inc[fp] \in [state : FleetStates, seen : 0..2, trigger : BOOLEAN]
        /\ fp \in High /\ inc[fp].seen = 2
    BY <1>7 DEF SweepIncident, FleetInv, FleetShapes, RunKeepsToItsJob
  <2>2. PICK i : i = [inc[fp] EXCEPT !.trigger = TRUE]
    OBVIOUS
  <2>3. inc' = [inc EXCEPT ![fp] = i] /\ run' = [run EXCEPT !.todo = run.todo \ {fp}]
    BY <1>7, <2>2 DEF SweepIncident
  <2>4. /\ i \in [state : FleetStates, seen : 0..2, trigger : BOOLEAN]
        /\ i.seen = 2
    BY <2>1, <2>2
  <2>5. /\ inc' \in [AllFingerprints -> [state : FleetStates, seen : 0..2, trigger : BOOLEAN]]
        /\ inc'[fp] = i
        /\ \A x \in AllFingerprints \ {fp} : inc'[x] = inc[x]
    BY <2>1, <2>3, <2>4 DEF FleetInv, FleetShapes
  <2>6. /\ TriggersEarned'
        /\ \A x \in AllFingerprints : inc[x].seen = 2 => inc'[x].seen = 2
    BY <2>1, <2>4, <2>5 DEF FleetInv, TriggersEarned, High
  <2>7. run.todo \ {fp} \in SUBSET run.todo
    OBVIOUS
  <2> QED
    BY <1>0, <2>3, <2>5, <2>6, <2>7, HoldingKeeps
<1> QED
  BY <1>1, <1>2, <1>3, <1>4, <1>5, <1>6, <1>7, JobGoesOn

\* The invariant of the fleet.
THEOREM FleetKeepsInv == FleetSpec => []FleetInv
<1>1. ASSUME FleetInv, [FleetNext]_fleetVars
      PROVE  FleetInv'
  <2>0. events' = events + 1 => events' \in Nat
    BY <1>1 DEF FleetInv, FleetShapes
  <2>1. ASSUME NEW k \in Jobs, RunDue(k) \/ RunJob(k)
        PROVE  FleetInv'
    <3>1. StartJob(k) /\ events' \in Nat
      BY <1>1, <2>0, <2>1 DEF RunDue, RunJob, Event, FleetInv, FleetShapes
    <3> QED
      BY <1>1, <3>1, StartKeeps
  <2>2. ASSUME inc' = inc, run' = run \/ run' = NoRun, events' \in Nat
        PROVE  FleetInv'
    <3>1. /\ inc' \in [AllFingerprints -> [state : FleetStates, seen : 0..2, trigger : BOOLEAN]]
          /\ TriggersEarned'
      BY <1>1, <2>2 DEF FleetInv, FleetShapes, TriggersEarned
    <3>2. CASE run' = NoRun
      BY <1>1, <2>2, <3>1, <3>2, ReleaseKeeps
    <3>3. CASE run' = run
      BY <1>1, <2>2, <3>1, <3>3 DEF FleetInv, FleetShapes, RunKeepsToItsJob
    <3> QED
      BY <2>2, <3>2, <3>3
  <2>3. CASE JobStep
    BY <1>1, <2>3, JobStepKeeps
  <2>4. CASE JobFails
    <3>1. /\ run.pc # "free" /\ run' = NoRun /\ events' \in Nat
          /\ inc' = [inc EXCEPT ![<<"failure", run.job, 0>>] = OpenIncident(@)]
      BY <2>0, <2>4 DEF JobFails, Event
    <3>2. run.job \in Jobs
      BY <1>1, <3>1 DEF FleetInv, FleetShapes, RunKeepsToItsJob, Jobs
    <3>3. PICK fp : fp = <<"failure", run.job, 0>>
      OBVIOUS
    <3>4. /\ fp \in AllFingerprints
          /\ inc[fp] \in [state : FleetStates, seen : 0..2, trigger : BOOLEAN]
      BY <1>1, <3>2, <3>3, OwnFingerprints DEF FleetInv, FleetShapes
    <3>5. PICK i : i = OpenIncident(inc[fp])
      OBVIOUS
    <3>6. /\ i \in [state : FleetStates, seen : 0..2, trigger : BOOLEAN]
          /\ i.trigger = inc[fp].trigger
          /\ inc[fp].seen = 2 => i.seen = 2
      BY <3>4, <3>5, OpeningForgetsNothing
    <3>7. inc' = [inc EXCEPT ![fp] = i]
      BY <3>1, <3>3, <3>5
    <3>8. /\ inc' \in [AllFingerprints -> [state : FleetStates, seen : 0..2, trigger : BOOLEAN]]
          /\ TriggersEarned'
      BY <1>1, <3>4, <3>6, <3>7, IncidentKeeps
    <3> QED
      BY <1>1, <3>1, <3>8, ReleaseKeeps
  <2>5. CASE FleetCrash
    BY <2>0, <2>2, <2>5 DEF FleetCrash, Event
  <2>6. ASSUME NEW fp \in AllFingerprints, IncidentRoutes(fp)
        PROVE  FleetInv'
    <3>1. PICK state \in {"acknowledged", "resolved"} : TransitionIncident(fp, state)
      BY <2>6 DEF IncidentRoutes, AcknowledgeIncident, ResolveIncident
    <3>2. PICK i : i = [inc[fp] EXCEPT !.state = state]
      OBVIOUS
    <3>3. inc' = [inc EXCEPT ![fp] = i] /\ run' = run /\ events' \in Nat
      BY <2>0, <3>1, <3>2 DEF TransitionIncident, Event
    <3>4. inc[fp] \in [state : FleetStates, seen : 0..2, trigger : BOOLEAN]
      BY <1>1 DEF FleetInv, FleetShapes
    <3>5. /\ i \in [state : FleetStates, seen : 0..2, trigger : BOOLEAN]
          /\ i.trigger = inc[fp].trigger
          /\ inc[fp].seen = 2 => i.seen = 2
      BY <3>2, <3>4 DEF FleetStates
    <3>6. /\ inc' \in [AllFingerprints -> [state : FleetStates, seen : 0..2, trigger : BOOLEAN]]
          /\ TriggersEarned'
          /\ \A x \in AllFingerprints : inc[x].seen = 2 => inc'[x].seen = 2
      BY <1>1, <3>3, <3>5, IncidentKeeps
    <3>7. run' = [run EXCEPT !.todo = run.todo]
      BY <1>1, <3>3 DEF FleetInv, FleetShapes
    <3>8. run.todo \in SUBSET run.todo
      OBVIOUS
    <3> QED
      BY <1>1, <3>3, <3>6, <3>7, <3>8, HoldingKeeps
  <2>7. ASSUME NEW k \in Jobs, UpdateJob(k)
        PROVE  FleetInv'
    BY <2>0, <2>2, <2>7 DEF UpdateJob, SetJob, Event
  <2>8. ASSUME NEW d, NEW ok, OperatorConform(d, ok)
        PROVE  FleetInv'
    BY <2>0, <2>2, <2>8 DEF OperatorConform, Event
  <2>9. ASSUME NEW d, NEW up, NEW exe, DriverChanges(d, up, exe)
        PROVE  FleetInv'
    BY <2>0, <2>2, <2>9 DEF DriverChanges, Event
  <2>10. ASSUME NEW d, ReceiptAges(d)
         PROVE  FleetInv'
    BY <2>0, <2>2, <2>10 DEF ReceiptAges, Event
  <2>11. ASSUME NEW n, Spend(n)
         PROVE  FleetInv'
    BY <2>0, <2>2, <2>11 DEF Spend, Event
  <2>12. CASE UNCHANGED fleetVars
    BY <1>1, <2>2, <2>12 DEF fleetVars, FleetInv, FleetShapes
  <2>13. CASE Refresh
    BY <2>1, <2>8, <2>13 DEF Refresh, Jobs
  <2> QED
    BY <1>1, <2>1, <2>3, <2>4, <2>5, <2>6, <2>7, <2>8, <2>9, <2>10, <2>11, <2>12, <2>13
    DEF FleetNext, JobRoutes
<1> QED
  BY <1>1, FleetStarts, PTL DEF FleetSpec

\* A learning trigger is earned: the incident is severe and was found at least
\* twice, whatever jobs were cut off or operators answered in between.
THEOREM SweepTriggersEarned == FleetSpec => []TriggersEarned
<1>1. FleetInv => TriggersEarned
  BY DEF FleetInv
<1> QED
  BY <1>1, FleetKeepsInv, PTL

\* Without a request, a fault or a change of the fleet, an incident is written
\* only by the job that has it on its list.
LEMMA WhoWrites ==
    ASSUME FleetInv, [FleetNext]_fleetVars, events' = events
    PROVE  \/ inc' = inc
           \/ \E fp \in run.todo : OpenCondition(fp) \/ ResolveAbsent(fp) \/ SweepIncident(fp)
<1>1. ~Event
  BY DEF Event, FleetInv, FleetShapes
<1>2. CASE UNCHANGED fleetVars
  BY <1>2 DEF fleetVars
<1>3. CASE \E k \in Jobs : RunDue(k)
  BY <1>3 DEF RunDue, StartJob
<1>4. CASE JobStep
  BY <1>4, JobGoesOn DEF RenewReceipt, QueueRenewals, ListAbsent, FinishJob
<1>5. ~JobFails /\ ~FleetCrash
  BY <1>1 DEF JobFails, FleetCrash
<1>6. \A k : ~RunJob(k) /\ ~UpdateJob(k)
  BY <1>1 DEF RunJob, UpdateJob
<1>7. \A fp : ~IncidentRoutes(fp)
  BY <1>1 DEF IncidentRoutes, AcknowledgeIncident, ResolveIncident, TransitionIncident
<1>8. \A d, ok : ~OperatorConform(d, ok)
  BY <1>1 DEF OperatorConform
<1>9. ~Refresh
  BY <1>6, <1>8 DEF Refresh
<1>10. /\ \A d, up, exe : ~DriverChanges(d, up, exe)
       /\ \A d : ~ReceiptAges(d)
       /\ \A n : ~Spend(n)
  BY <1>1 DEF DriverChanges, ReceiptAges, Spend
<1> QED
  BY <1>2, <1>3, <1>4, <1>5, <1>6, <1>7, <1>8, <1>9, <1>10 DEF FleetNext, JobRoutes

\* Four jobs write to one table of incidents, and each only to its own: a job
\* opens and resolves incidents of the kinds it manages, losing neither a
\* sighting nor a trigger, and only the sweep marks one.
THEOREM JobsShareTheTable == FleetSpec => [][JobsKeepToTheirOwn]_fleetVars
<1>1. ASSUME FleetInv, [FleetNext]_fleetVars
      PROVE  JobsKeepToTheirOwn
  <2> SUFFICES ASSUME NEW fp \in AllFingerprints, events' = events, inc'[fp] # inc[fp]
               PROVE  \/ /\ run.job # "incident-sweep" /\ fp \in Fingerprints(run.job)
                         /\ inc'[fp].trigger = inc[fp].trigger
                         /\ inc'[fp].seen >= inc[fp].seen
                      \/ /\ run.job = "incident-sweep"
                         /\ inc'[fp] = [inc[fp] EXCEPT !.trigger = TRUE]
    BY DEF JobsKeepToTheirOwn
  <2>1. PICK x \in run.todo : OpenCondition(x) \/ ResolveAbsent(x) \/ SweepIncident(x)
    BY <1>1, WhoWrites
  <2>2. /\ inc \in [AllFingerprints -> [state : FleetStates, seen : 0..2, trigger : BOOLEAN]]
        /\ inc[fp] \in [state : FleetStates, seen : 0..2, trigger : BOOLEAN]
    BY <1>1 DEF FleetInv, FleetShapes
  <2>3. PICK i : i = inc[fp]
    OBVIOUS
  <2>4. CASE OpenCondition(x)
    <3>1. fp = x /\ inc'[fp] = OpenIncident(i)
      BY <2>2, <2>3, <2>4 DEF OpenCondition
    <3>2. run.job # "incident-sweep" /\ fp \in Fingerprints(run.job)
      BY <1>1, <2>4, <3>1 DEF OpenCondition, FleetInv, RunKeepsToItsJob
    <3> QED
      BY <2>2, <2>3, <3>1, <3>2, OpeningForgetsNothing
  <2>5. CASE ResolveAbsent(x)
    <3>1. fp = x /\ inc'[fp] = [i EXCEPT !.state = "resolved"]
      BY <2>2, <2>3, <2>5 DEF ResolveAbsent
    <3>2. run.job # "incident-sweep" /\ fp \in Fingerprints(run.job)
      BY <1>1, <2>5, <3>1 DEF ResolveAbsent, FleetInv, RunKeepsToItsJob
    <3> QED
      BY <2>2, <2>3, <3>1, <3>2
  <2>6. CASE SweepIncident(x)
    <3>1. fp = x /\ inc'[fp] = [i EXCEPT !.trigger = TRUE]
      BY <2>2, <2>3, <2>6 DEF SweepIncident
    <3>2. run.job = "incident-sweep"
      BY <1>1, <2>6 DEF SweepIncident, FleetInv, RunKeepsToItsJob
    <3> QED
      BY <2>3, <3>1, <3>2
  <2> QED
    BY <2>1, <2>4, <2>5, <2>6
<1> QED
  BY <1>1, FleetKeepsInv, PTL DEF FleetSpec

\* resolve_absent takes no incident from the list whose condition the job has
\* found, not even one an operator opened again after the job read the list.
THEOREM FoundIsNotResolved == FleetSpec => [][ResolvedIfAbsent]_fleetVars
<1>1. ASSUME FleetInv, [FleetNext]_fleetVars
      PROVE  ResolvedIfAbsent
  <2> SUFFICES ASSUME NEW fp \in AllFingerprints, events' = events,
                      Unresolved(fp), inc'[fp].state = "resolved"
               PROVE  fp \notin run.active
    BY DEF ResolvedIfAbsent
  <2>1. /\ inc \in [AllFingerprints -> [state : FleetStates, seen : 0..2, trigger : BOOLEAN]]
        /\ inc[fp] \in [state : FleetStates, seen : 0..2, trigger : BOOLEAN]
        /\ inc[fp].state # "resolved"
    BY <1>1 DEF FleetInv, FleetShapes, Unresolved
  <2>2. PICK x \in run.todo : OpenCondition(x) \/ ResolveAbsent(x) \/ SweepIncident(x)
    BY <1>1, <2>1, WhoWrites
  <2>3. ~OpenCondition(x)
    BY <2>1, OpeningForgetsNothing DEF OpenCondition
  <2>4. ~SweepIncident(x)
    BY <2>1 DEF SweepIncident
  <2>5. fp = x /\ run.pc = "resolve"
    BY <2>1, <2>2, <2>3, <2>4 DEF ResolveAbsent
  <2> QED
    BY <1>1, <2>2, <2>5 DEF FleetInv, RunKeepsToItsJob
<1> QED
  BY <1>1, FleetKeepsInv, PTL DEF FleetSpec
=============================================================================
