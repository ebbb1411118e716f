------------------------ MODULE ApcbDispatcherProofs ------------------------
(***************************************************************************)
(* The bridge sends a key to Herdr at most once, for every set of work     *)
(* items, principals and attempts, and through every torn append, restart  *)
(* and failed call.                                                        *)
(***************************************************************************)
EXTENDS ApcbDispatcher, TLAPS

\* The index is ahead of the log, never behind it: what the log knows, the
\* index knows too, with the reference to the execution.
AheadOfLog ==
    \A k \in Keys : disk[k] # None => /\ index[k] # None
                                      /\ disk[k].ref => index[k].ref

\* The dispatch in progress: its claim has ended any torn line, so that its
\* reference reaches the log before its prompt is sent.
InFlight ==
    cur # None =>
        /\ torn = FALSE
        /\ index[cur] # None
        /\ pc # "claimed" => disk[cur] # None /\ disk[cur].ref
        /\ pc \in {"claimed", "attached"} => prompts[cur] = 0

Inv == TypeOK /\ AheadOfLog /\ InFlight /\ PromptedIsRecorded /\ PromptedOnce

-----------------------------------------------------------------------------
(* Receipts. *)

LEMMA NewReceipts ==
    /\ [state |-> "claimed", ref |-> FALSE, outcome |-> "none"] \in Receipt
    /\ [state |-> "terminal", ref |-> FALSE, outcome |-> "rejected"] \in Receipt
    /\ [state |-> "herdr_attached", ref |-> TRUE, outcome |-> "none"] \in Receipt
BY DEF Receipt, States, Outcomes, Definitive

\* A snapshot made by update is a receipt with the reference of the old one.
LEMMA Updated ==
    ASSUME NEW r \in Receipt, NEW st \in States, NEW o \in Outcomes
    PROVE  /\ Moved(r, st) \in Receipt /\ Moved(r, st).ref = r.ref
           /\ Ended(r, o) \in Receipt /\ Ended(r, o).ref = r.ref
BY DEF Moved, Ended, Receipt, States

LEMMA OutcomeTypes ==
    /\ \A s : OutcomeFromObservation(s) \subseteq Outcomes
    /\ \A o \in Outcomes, b \in BOOLEAN : ArtifactDecides(o, b) \in Outcomes
<1>1. \A s : OutcomeFromObservation(s) \subseteq Outcomes
  BY DEF OutcomeFromObservation, Outcomes, Definitive
<1>2. \A o \in Outcomes, b \in BOOLEAN : ArtifactDecides(o, b) \in Outcomes
  BY ApcbAssumption DEF ArtifactDecides, Outcomes, Definitive
<1> QED BY <1>1, <1>2

\* What an append may do to the store when its snapshot keeps the reference
\* of the receipt that it replaces.
LEMMA PersistKeeps ==
    ASSUME TypeOK, AheadOfLog, NEW k \in Keys, NEW r \in Receipt, Persist(k, r),
           index[k] # None /\ index[k].ref => r.ref
    PROVE  /\ index' \in [Keys -> Receipt \cup {None}]
           /\ disk' \in [Keys -> Receipt \cup {None}]
           /\ torn' \in BOOLEAN
           /\ AheadOfLog'
           /\ \A j \in Keys : index[j] # None => index'[j] # None
           /\ \A j \in Keys : disk[j] # None /\ disk[j].ref => disk'[j] # None /\ disk'[j].ref
           /\ torn = FALSE => torn' = FALSE
<1> USE NoneAssumption
<1>1. CASE Closed(r) /\ Closed(index[k])
  BY <1>1 DEF Persist, TypeOK, AheadOfLog
<1>2. CASE ~(Closed(r) /\ Closed(index[k]))
  <2>1. /\ index' = [index EXCEPT ![k] = r]
        /\ disk' = IF torn THEN disk ELSE [disk EXCEPT ![k] = r]
        /\ torn' = FALSE
    BY <1>2 DEF Persist
  <2>2. r # None
    OBVIOUS
  <2>3. AheadOfLog'
    BY <2>1, <2>2 DEF AheadOfLog, TypeOK
  <2>4. \A j \in Keys : disk[j] # None /\ disk[j].ref => disk'[j] # None /\ disk'[j].ref
    BY <2>1, <2>2 DEF AheadOfLog, TypeOK
  <2> QED BY <2>1, <2>2, <2>3, <2>4 DEF TypeOK
<1> QED BY <1>1, <1>2

\* An append that is not refused, on a log that is not torn, is on disk.
LEMMA PersistRecords ==
    ASSUME TypeOK, NEW k \in Keys, NEW r \in Receipt, Persist(k, r), ~Closed(r)
    PROVE  index'[k] = r /\ torn' = FALSE /\ (torn = FALSE => disk'[k] = r)
BY DEF Persist, TypeOK

\* A step that changes neither the prompts nor the dispatch, and appends at
\* most a snapshot that keeps the reference, preserves the invariant.
LEMMA StoreStep ==
    ASSUME Inv, UNCHANGED <<cur, pc, herdrVars>>, notes' \subseteq Keys, UNCHANGED mission,
           NEW k \in Keys, NEW r \in Receipt, Persist(k, r),
           index[k] # None /\ index[k].ref => r.ref
    PROVE  Inv'
<1>1. TypeOK' /\ AheadOfLog'
  BY PersistKeeps DEF Inv, TypeOK, herdrVars
<1>2. InFlight'
  BY PersistKeeps DEF Inv, InFlight, TypeOK, herdrVars
<1>3. PromptedIsRecorded' /\ PromptedOnce'
  BY PersistKeeps DEF Inv, PromptedIsRecorded, PromptedOnce, herdrVars
<1> QED BY <1>1, <1>2, <1>3 DEF Inv

-----------------------------------------------------------------------------
(* One lemma for each group of actions. *)

LEMMA ClaimStep ==
    ASSUME Inv, NEW k \in Keys, NEW x \in BOOLEAN, Claim(k, x) \/ RejectNonconforming(k, x)
    PROVE  Inv'
<1>1. /\ index[k] = None /\ cur = None
      /\ disk[k] = None /\ prompts[k] = 0
  BY DEF Claim, RejectNonconforming, Dispatchable, Inv, AheadOfLog, PromptedIsRecorded, TypeOK
<1>2. CASE RejectNonconforming(k, x)
  BY <1>1, <1>2, NewReceipts, StoreStep
     DEF RejectNonconforming, dispatchVars, Inv, TypeOK
<1>3. CASE Claim(k, x)
  <2> DEFINE r == [state |-> "claimed", ref |-> FALSE, outcome |-> "none"]
  <2>1. /\ Persist(k, r) /\ cur' = k /\ pc' = "claimed"
        /\ UNCHANGED <<notes, herdrVars, mission>>
    BY <1>3 DEF Claim
  <2>2. r \in Receipt /\ ~Closed(r)
    BY NewReceipts DEF Closed, IsTerminal
  <2> HIDE DEF r
  <2>3. /\ index' \in [Keys -> Receipt \cup {None}]
        /\ disk' \in [Keys -> Receipt \cup {None}]
        /\ torn' \in BOOLEAN
        /\ AheadOfLog'
        /\ \A j \in Keys : disk[j] # None /\ disk[j].ref => disk'[j] # None /\ disk'[j].ref
    BY <1>1, <2>1, <2>2, PersistKeeps DEF Inv
  <2>4. index'[k] = r /\ torn' = FALSE
    BY <2>1, <2>2, PersistRecords DEF Inv
  <2>5. TypeOK'
    BY <2>1, <2>3, NoneAssumption DEF TypeOK, Inv, herdrVars
  <2>6. InFlight'
    BY <1>1, <2>1, <2>2, <2>4, NoneAssumption DEF InFlight, herdrVars
  <2>7. PromptedIsRecorded' /\ PromptedOnce'
    BY <2>1, <2>3 DEF Inv, PromptedIsRecorded, PromptedOnce, herdrVars
  <2> QED BY <2>3, <2>5, <2>6, <2>7 DEF Inv
<1> QED BY <1>2, <1>3

LEMMA AttachStep == ASSUME Inv, Attach PROVE Inv'
<1> DEFINE r == [state |-> "herdr_attached", ref |-> TRUE, outcome |-> "none"]
<1>1. /\ Persist(cur, r) /\ pc = "claimed" /\ pc' = "attached"
      /\ UNCHANGED <<notes, cur, herdrVars, mission>>
  BY DEF Attach
<1>2. r \in Receipt /\ ~Closed(r) /\ r.ref
  BY NewReceipts DEF Closed, IsTerminal
<1>3. cur \in Keys /\ cur # None
  BY <1>1, NoneAssumption DEF Inv, TypeOK
<1>4. torn = FALSE /\ prompts[cur] = 0
  BY <1>1, <1>3 DEF Inv, InFlight
<1> HIDE DEF r
<1>5. /\ index' \in [Keys -> Receipt \cup {None}]
      /\ disk' \in [Keys -> Receipt \cup {None}]
      /\ torn' \in BOOLEAN
      /\ AheadOfLog'
      /\ \A j \in Keys : disk[j] # None /\ disk[j].ref => disk'[j] # None /\ disk'[j].ref
  BY <1>1, <1>2, <1>3, PersistKeeps DEF Inv
<1>6. index'[cur] = r /\ torn' = FALSE /\ disk'[cur] = r
  BY <1>1, <1>2, <1>3, <1>4, PersistRecords DEF Inv
<1>7. TypeOK'
  BY <1>1, <1>3, <1>5 DEF TypeOK, Inv, herdrVars
<1>8. InFlight'
  BY <1>1, <1>2, <1>4, <1>6, NoneAssumption DEF InFlight, herdrVars
<1>9. PromptedIsRecorded' /\ PromptedOnce'
  BY <1>1, <1>5 DEF Inv, PromptedIsRecorded, PromptedOnce, herdrVars
<1> QED BY <1>5, <1>7, <1>8, <1>9 DEF Inv

\* The only place where prompts grow: the key has none yet, and its
\* reference is on disk.
LEMMA PromptStep == ASSUME Inv, PromptAgent PROVE Inv'
<1>1. /\ pc = "attached" /\ pc' = "sent" /\ Delivered(cur)
      /\ UNCHANGED <<storeVars, cur, mission>>
  BY DEF PromptAgent
<1>2. cur \in Keys /\ cur # None
  BY <1>1, NoneAssumption DEF Inv, TypeOK
<1>3. disk[cur] # None /\ disk[cur].ref /\ prompts[cur] = 0
  BY <1>1, <1>2 DEF Inv, InFlight
<1>4. /\ cur.principal \in Principals
      /\ pane' = [pane EXCEPT ![cur.principal] = "working"]
      /\ task' = [task EXCEPT ![cur.principal] = cur]
      /\ prompts' = [prompts EXCEPT ![cur] = @ + 1]
      /\ UNCHANGED artifact
  BY <1>1, <1>2 DEF Delivered, Keys
<1>5. TypeOK'
  <2>1. prompts' \in [Keys -> Nat]
    BY <1>2, <1>4 DEF Inv, TypeOK
  <2>2. pane' \in [Principals -> AgentStatus] /\ task' \in [Principals -> Keys \cup {None}]
    BY <1>2, <1>4 DEF Inv, TypeOK, AgentStatus
  <2> QED BY <1>1, <1>2, <1>4, <2>1, <2>2 DEF Inv, TypeOK, storeVars
<1>6. AheadOfLog' /\ InFlight'
  BY <1>1, <1>2, <1>4 DEF Inv, AheadOfLog, InFlight, storeVars
<1>7. PromptedIsRecorded' /\ PromptedOnce'
  BY <1>1, <1>2, <1>3, <1>4 DEF Inv, PromptedIsRecorded, PromptedOnce, storeVars, TypeOK
<1> QED BY <1>5, <1>6, <1>7 DEF Inv

LEMMA RecordStep == ASSUME Inv, RecordPrompted PROVE Inv'
<1> DEFINE r == Moved(index[cur], "prompted")
<1>1. /\ Persist(cur, r) /\ pc = "sent" /\ pc' = "waiting"
      /\ UNCHANGED <<notes, cur, herdrVars, mission>>
  BY DEF RecordPrompted
<1>2. cur \in Keys /\ cur # None
  BY <1>1, NoneAssumption DEF Inv, TypeOK
<1>3. index[cur] \in Receipt /\ index[cur] # None
  BY <1>2 DEF Inv, InFlight, TypeOK
<1>4. r \in Receipt /\ r.ref = index[cur].ref
  BY <1>3, Updated DEF States, Outcomes
<1> HIDE DEF r
<1>5. /\ index' \in [Keys -> Receipt \cup {None}]
      /\ disk' \in [Keys -> Receipt \cup {None}]
      /\ torn' \in BOOLEAN
      /\ AheadOfLog'
      /\ \A j \in Keys : index[j] # None => index'[j] # None
      /\ \A j \in Keys : disk[j] # None /\ disk[j].ref => disk'[j] # None /\ disk'[j].ref
      /\ torn = FALSE => torn' = FALSE
  BY <1>1, <1>2, <1>4, PersistKeeps DEF Inv
<1>6. TypeOK'
  BY <1>1, <1>2, <1>5 DEF TypeOK, Inv, herdrVars
<1>7. InFlight'
  BY <1>1, <1>2, <1>5 DEF Inv, InFlight, herdrVars
<1>8. PromptedIsRecorded' /\ PromptedOnce'
  BY <1>1, <1>5 DEF Inv, PromptedIsRecorded, PromptedOnce, herdrVars
<1> QED BY <1>5, <1>6, <1>7, <1>8 DEF Inv

\* The end of a dispatch: an outcome is recorded, and the bridge is free.
LEMMA EndStep ==
    ASSUME Inv, cur \in Keys, cur' = None, pc' = "idle", NEW o \in Outcomes,
           Persist(cur, Ended(index[cur], o)), UNCHANGED <<notes, mission>>,
           UNCHANGED herdrVars \/ (pc = "attached" /\ Delivered(cur))
    PROVE  Inv'
<1> DEFINE r == Ended(index[cur], o)
<1>1. cur # None
  BY NoneAssumption
<1>2. index[cur] \in Receipt /\ index[cur] # None
  BY <1>1 DEF Inv, InFlight, TypeOK
<1>3. r \in Receipt /\ r.ref = index[cur].ref
  BY <1>2, Updated DEF States
<1>4. Persist(cur, r)
  OBVIOUS
<1> HIDE DEF r
<1>5. /\ index' \in [Keys -> Receipt \cup {None}]
      /\ disk' \in [Keys -> Receipt \cup {None}]
      /\ torn' \in BOOLEAN
      /\ AheadOfLog'
      /\ \A j \in Keys : disk[j] # None /\ disk[j].ref => disk'[j] # None /\ disk'[j].ref
  BY <1>3, <1>4, PersistKeeps DEF Inv
<1>6. InFlight'
  BY DEF InFlight
<1>7. CASE UNCHANGED herdrVars
  <2>1. TypeOK'
    BY <1>5, <1>7 DEF TypeOK, Inv, herdrVars
  <2>2. PromptedIsRecorded' /\ PromptedOnce'
    BY <1>5, <1>7 DEF Inv, PromptedIsRecorded, PromptedOnce, herdrVars
  <2> QED BY <1>5, <1>6, <2>1, <2>2 DEF Inv
<1>8. CASE pc = "attached" /\ Delivered(cur)
  <2>1. /\ cur.principal \in Principals
        /\ pane' = [pane EXCEPT ![cur.principal] = "working"]
        /\ task' = [task EXCEPT ![cur.principal] = cur]
        /\ prompts' = [prompts EXCEPT ![cur] = @ + 1]
        /\ UNCHANGED artifact
    BY <1>8 DEF Delivered, Keys
  <2>2. disk[cur] # None /\ disk[cur].ref /\ prompts[cur] = 0
    BY <1>1, <1>8 DEF Inv, InFlight
  <2>3. prompts' \in [Keys -> Nat]
    BY <2>1 DEF Inv, TypeOK
  <2>4. pane' \in [Principals -> AgentStatus] /\ task' \in [Principals -> Keys \cup {None}]
    BY <2>1 DEF Inv, TypeOK, AgentStatus
  <2>5. TypeOK'
    BY <1>5, <2>1, <2>3, <2>4 DEF TypeOK, Inv
  <2>6. PromptedIsRecorded' /\ PromptedOnce'
    BY <1>5, <2>1, <2>2 DEF Inv, PromptedIsRecorded, PromptedOnce, TypeOK
  <2> QED BY <1>5, <1>6, <2>5, <2>6 DEF Inv
<1> QED BY <1>7, <1>8

LEMMA FinishStep == ASSUME Inv, Finish \/ DispatchFails PROVE Inv'
<1>1. cur \in Keys
  BY DEF Finish, DispatchFails, Inv, TypeOK
<1>2. CASE DispatchFails
  BY <1>1, <1>2, EndStep DEF DispatchFails, Outcomes, Definitive
<1>3. CASE Finish
  <2>1. PICK s \in Awaited(cur.principal) : \E o \in OutcomeFromObservation(s) :
            Persist(cur, Ended(index[cur], ArtifactDecides(o, ArtifactPresent(cur))))
    BY <1>3 DEF Finish
  <2>2. PICK o \in OutcomeFromObservation(s) :
            Persist(cur, Ended(index[cur], ArtifactDecides(o, ArtifactPresent(cur))))
    BY <2>1
  <2>3. ArtifactPresent(cur) \in BOOLEAN
    BY DEF ArtifactPresent
  <2>4. ArtifactDecides(o, ArtifactPresent(cur)) \in Outcomes
    BY <2>3, OutcomeTypes
  <2> QED BY <1>1, <1>3, <2>2, <2>4, EndStep DEF Finish
<1> QED BY <1>2, <1>3

LEMMA ReconcileStep == ASSUME Inv, NEW k \in Keys, Reconcile(k) PROVE Inv'
<1>1. index[k] \in Receipt
  BY DEF Reconcile, ReconcileStops, ReconcileNotes, ReconcileObserves, Observable,
         Reconcilable, Inv, TypeOK
<1>2. CASE ReconcileNotes(k)
  BY <1>2 DEF ReconcileNotes, Inv, TypeOK, AheadOfLog, InFlight, PromptedIsRecorded,
         PromptedOnce, dispatchVars, herdrVars
<1>3. ASSUME NEW o \in Outcomes, Persist(k, Ended(index[k], o)),
             UNCHANGED <<notes, dispatchVars, herdrVars, mission>>
      PROVE  Inv'
  <2>1. Ended(index[k], o) \in Receipt /\ Ended(index[k], o).ref = index[k].ref
    BY <1>1, Updated DEF States
  <2> QED BY <1>3, <2>1, StoreStep DEF dispatchVars, Inv, TypeOK
<1>4. CASE ReconcileStops(k)
  BY <1>3, <1>4 DEF ReconcileStops, Outcomes, Definitive
<1>5. CASE ReconcileObserves(k)
  <2>1. UNCHANGED <<notes, dispatchVars, herdrVars, mission>>
    BY <1>5 DEF ReconcileObserves
  <2>2. \/ \E o \in Outcomes : Persist(k, Ended(index[k], o))
        \/ Persist(k, Moved(index[k], "reconciling"))
    <3>1. PICK s \in Observed(k.principal) :
             CASE s = "missing" -> Persist(k, Ended(index[k], "failed"))
               [] s \in TerminalStatus \ {"missing"} ->
                     \E o \in OutcomeFromObservation(s) : Persist(k, Ended(index[k], o))
               [] OTHER -> Persist(k, Moved(index[k], "reconciling"))
      BY <1>5 DEF ReconcileObserves
    <3>2. "failed" \in Outcomes
      BY DEF Outcomes, Definitive
    <3> QED BY <3>1, <3>2, OutcomeTypes
  <2>3. Moved(index[k], "reconciling") \in Receipt
        /\ Moved(index[k], "reconciling").ref = index[k].ref
    BY <1>1, Updated DEF States, Outcomes
  <2>4. CASE Persist(k, Moved(index[k], "reconciling"))
    BY <2>1, <2>3, <2>4, StoreStep DEF dispatchVars, Inv, TypeOK
  <2> QED BY <1>3, <2>1, <2>2, <2>4
<1> QED BY <1>2, <1>4, <1>5 DEF Reconcile

LEMMA EnvironmentStep ==
    ASSUME Inv,
           \/ Restart \/ TornAppend \/ EndMission
           \/ \E p \in Principals :
                 AgentPublishes(p) \/ AgentStops(p) \/ AgentExits(p) \/ AgentReturns(p)
    PROVE  Inv'
<1>1. CASE Restart \/ TornAppend
  <2>1. /\ index' = disk /\ cur' = None /\ pc' = "idle" /\ torn' \in BOOLEAN
        /\ UNCHANGED <<disk, notes, herdrVars, mission>>
    BY <1>1 DEF Restart, TornAppend, Inv, TypeOK
  <2>2. TypeOK'
    BY <2>1 DEF Inv, TypeOK, herdrVars
  <2>3. AheadOfLog' /\ InFlight'
    BY <2>1 DEF AheadOfLog, InFlight
  <2>4. PromptedIsRecorded' /\ PromptedOnce'
    BY <2>1 DEF Inv, PromptedIsRecorded, PromptedOnce, herdrVars
  <2> QED BY <2>2, <2>3, <2>4 DEF Inv
<1>2. ASSUME UNCHANGED <<storeVars, dispatchVars, prompts>>
      PROVE  AheadOfLog' /\ InFlight' /\ PromptedIsRecorded' /\ PromptedOnce'
  BY <1>2 DEF Inv, AheadOfLog, InFlight, PromptedIsRecorded, PromptedOnce, storeVars, dispatchVars
<1>3. CASE EndMission
  <2>1. TypeOK'
    BY <1>3 DEF EndMission, Inv, TypeOK, storeVars, dispatchVars, herdrVars
  <2> QED BY <1>2, <1>3, <2>1 DEF EndMission, Inv, herdrVars
<1>4. ASSUME NEW p \in Principals,
             AgentPublishes(p) \/ AgentStops(p) \/ AgentExits(p) \/ AgentReturns(p)
      PROVE  Inv'
  <2>1. UNCHANGED <<storeVars, dispatchVars, prompts, mission>>
    BY <1>4 DEF AgentPublishes, AgentStops, AgentExits, AgentReturns
  <2>2. pane' \in [Principals -> AgentStatus] /\ task' \in [Principals -> Keys \cup {None}]
    BY <1>4 DEF AgentPublishes, AgentStops, AgentExits, AgentReturns, Inv, TypeOK, AgentStatus
  <2>3. artifact' \in [Works -> Keys \cup {None}]
    <3>1. task[p] # None => task[p] \in Keys /\ task[p].work \in Works
      BY DEF Inv, TypeOK, Keys
    <3> QED BY <1>4, <3>1 DEF AgentPublishes, AgentStops, AgentExits, AgentReturns, Inv, TypeOK
  <2>4. TypeOK'
    BY <2>1, <2>2, <2>3 DEF Inv, TypeOK, storeVars, dispatchVars
  <2> QED BY <1>2, <2>1, <2>4 DEF Inv
<1> QED BY <1>1, <1>3, <1>4

-----------------------------------------------------------------------------

LEMMA InvInit == Init => Inv
<1> SUFFICES ASSUME Init PROVE Inv
  OBVIOUS
<1>1. index \in [Keys -> Receipt \cup {None}] /\ disk \in [Keys -> Receipt \cup {None}]
  BY DEF Init
<1>2. pane \in [Principals -> AgentStatus]
  BY DEF Init, AgentStatus
<1>3. TypeOK
  BY <1>1, <1>2 DEF Init, TypeOK
<1>4. AheadOfLog /\ InFlight
  BY DEF Init, AheadOfLog, InFlight
<1>5. PromptedIsRecorded /\ PromptedOnce
  BY DEF Init, PromptedIsRecorded, PromptedOnce
<1> QED BY <1>3, <1>4, <1>5 DEF Inv

LEMMA InvNext == Inv /\ [Next]_vars => Inv'
<1> SUFFICES ASSUME Inv, [Next]_vars PROVE Inv'
  OBVIOUS
<1>1. CASE UNCHANGED vars
  BY <1>1 DEF vars, storeVars, dispatchVars, herdrVars, Inv, TypeOK, AheadOfLog, InFlight,
         PromptedIsRecorded, PromptedOnce
<1>2. CASE Next
  BY <1>2, ClaimStep, AttachStep, PromptStep, RecordStep, FinishStep, ReconcileStep,
     EnvironmentStep DEF Next
<1> QED BY <1>1, <1>2

\* The inductive invariant of the bridge.
THEOREM BridgeInvariant == Spec => []Inv
BY InvInit, InvNext, PTL DEF Spec

\* The types of the receipt log, of the dispatch and of the panes.
THEOREM BridgeTypes == Spec => []TypeOK
<1>1. Inv => TypeOK
  BY DEF Inv
<1> QED BY <1>1, BridgeInvariant, PTL

\* ReceiptStore and dispatch: what was sent to Herdr is in the log with its
\* reference, whatever was torn and whoever restarted.
THEOREM DurableIdentity == Spec => []PromptedIsRecorded
<1>1. Inv => PromptedIsRecorded
  BY DEF Inv
<1> QED BY <1>1, BridgeInvariant, PTL

\* dispatch: no key is sent to Herdr twice.
THEOREM NoDuplicateDispatch == Spec => []PromptedOnce
<1>1. Inv => PromptedOnce
  BY DEF Inv
<1> QED BY <1>1, BridgeInvariant, PTL

-----------------------------------------------------------------------------
(* Terminal uniqueness.  It needs that a process knows the definitive      *)
(* outcomes of the log, and that the receipt of a dispatch is open.        *)

OpenInFlight == cur # None => ~IsTerminal(index[cur])
ClosedIsKnown == \A k \in Keys : Closed(disk[k]) => index[k] = disk[k]
LogInv == Inv /\ OpenInFlight /\ ClosedIsKnown

ClosedKept == \A k \in Keys : Closed(disk[k]) => disk'[k] = disk[k] /\ index'[k] = disk[k]

\* An append for a key whose receipt is open leaves every closed one alone.
LEMMA OpenAppend ==
    ASSUME TypeOK, ClosedIsKnown, NEW k \in Keys, NEW r, Persist(k, r), ~Closed(index[k])
    PROVE  ClosedIsKnown' /\ ClosedKept
<1>1. /\ index' = [index EXCEPT ![k] = r]
      /\ disk' = IF torn THEN disk ELSE [disk EXCEPT ![k] = r]
  BY DEF Persist
<1>2. ~Closed(disk[k])
  BY DEF ClosedIsKnown
<1>3. \A j \in Keys : j # k => index'[j] = index[j] /\ disk'[j] = disk[j]
  BY <1>1 DEF TypeOK
<1>4. index'[k] = r /\ disk'[k] \in {r, disk[k]}
  BY <1>1 DEF TypeOK
<1>5. ClosedKept
  BY <1>2, <1>3 DEF ClosedKept, ClosedIsKnown
<1>6. ASSUME NEW j \in Keys, Closed(disk'[j]) PROVE index'[j] = disk'[j]
  BY <1>2, <1>3, <1>4, <1>6 DEF ClosedIsKnown
<1>7. ClosedIsKnown'
  BY <1>6 DEF ClosedIsKnown, Closed, IsTerminal
<1> QED BY <1>5, <1>7

\* Every step leaves the definitive outcomes of the log as they are.
LEMMA LogStep ==
    ASSUME LogInv, [Next]_vars
    PROVE  LogInv' /\ ClosedKept
<1> USE DEF LogInv
<1>a. TypeOK
  BY DEF Inv
<1>0. Inv'
  BY InvNext
<1>1. CASE UNCHANGED vars
  BY <1>0, <1>1 DEF vars, storeVars, dispatchVars, OpenInFlight, ClosedIsKnown, ClosedKept
<1>2. ASSUME NEW k \in Keys, NEW x \in BOOLEAN, Claim(k, x)
      PROVE  LogInv' /\ ClosedKept
  <2> DEFINE r == [state |-> "claimed", ref |-> FALSE, outcome |-> "none"]
  <2>1. Persist(k, r) /\ ~Closed(index[k]) /\ cur' = k
    BY <1>2 DEF Claim, Dispatchable, Closed, IsTerminal
  <2>2. r \in Receipt /\ ~Closed(r) /\ ~IsTerminal(r)
    BY NewReceipts DEF Closed, IsTerminal
  <2> HIDE DEF r
  <2>3. index'[k] = r
    BY <2>1, <2>2, PersistRecords DEF Inv
  <2>4. OpenInFlight'
    BY <2>1, <2>2, <2>3 DEF OpenInFlight, IsTerminal
  <2> QED BY <1>0, <2>1, <2>4, <1>a, OpenAppend
<1>3. ASSUME NEW k \in Keys, NEW x \in BOOLEAN, RejectNonconforming(k, x)
      PROVE  LogInv' /\ ClosedKept
  <2> DEFINE r == [state |-> "terminal", ref |-> FALSE, outcome |-> "rejected"]
  <2>1. Persist(k, r) /\ ~Closed(index[k]) /\ cur = None /\ cur' = None
    BY <1>3 DEF RejectNonconforming, Dispatchable, Closed, IsTerminal, dispatchVars
  <2> HIDE DEF r
  <2> QED BY <1>0, <2>1, <1>a, OpenAppend DEF OpenInFlight
<1>4. CASE Attach \/ RecordPrompted
  <2>1. PICK r \in Receipt : Persist(cur, r) /\ ~IsTerminal(r) /\ cur' = cur /\ cur \in Keys
    <3>1. CASE Attach
      BY <3>1, NewReceipts DEF Attach, IsTerminal, Inv, TypeOK
    <3>2. CASE RecordPrompted
      <4>1. cur \in Keys /\ cur # None
        BY <3>2, NoneAssumption DEF RecordPrompted, Inv, TypeOK
      <4>2. index[cur] \in Receipt
        BY <4>1 DEF Inv, InFlight, TypeOK
      <4>3. Moved(index[cur], "prompted") \in Receipt
        BY <4>2, Updated DEF States, Outcomes
      <4>4. ~IsTerminal(Moved(index[cur], "prompted"))
        BY <4>2 DEF Moved, IsTerminal, Receipt
      <4> QED BY <3>2, <4>1, <4>3, <4>4 DEF RecordPrompted
    <3> QED BY <1>4, <3>1, <3>2
  <2>2. ~Closed(index[cur]) /\ ~Closed(r)
    BY <2>1, NoneAssumption DEF OpenInFlight, Closed
  <2>3. index'[cur] = r
    BY <2>1, <2>2, PersistRecords DEF Inv
  <2>4. OpenInFlight'
    BY <2>1, <2>3 DEF OpenInFlight
  <2> QED BY <1>0, <2>1, <2>2, <2>4, <1>a, OpenAppend
<1>5. CASE PromptAgent
  BY <1>0, <1>5 DEF PromptAgent, storeVars, OpenInFlight, ClosedIsKnown, ClosedKept
<1>6. CASE Finish \/ DispatchFails
  <2>1. cur \in Keys /\ cur # None /\ cur' = None
    BY <1>6, NoneAssumption DEF Finish, DispatchFails, Inv, TypeOK
  <2>2. PICK r : Persist(cur, r)
    BY <1>6 DEF Finish, DispatchFails
  <2>3. ~Closed(index[cur])
    BY <2>1 DEF OpenInFlight, Closed
  <2> QED BY <1>0, <2>1, <2>2, <2>3, <1>a, OpenAppend DEF OpenInFlight
<1>7. ASSUME NEW k \in Keys, Reconcile(k)
      PROVE  LogInv' /\ ClosedKept
  <2>1. cur = None /\ cur' = None
    BY <1>7 DEF Reconcile, ReconcileStops, ReconcileNotes, ReconcileObserves, Observable,
           Reconcilable, dispatchVars
  <2>2. CASE ReconcileNotes(k)
    BY <1>0, <2>1, <2>2 DEF ReconcileNotes, OpenInFlight, ClosedIsKnown, ClosedKept
  <2>3. CASE ReconcileStops(k) \/ ReconcileObserves(k)
    <3>1. PICK r : Persist(k, r)
      <4>1. CASE ReconcileStops(k)
        BY <4>1 DEF ReconcileStops
      <4>2. CASE ReconcileObserves(k)
        BY <4>2 DEF ReconcileObserves
      <4> QED BY <2>3, <4>1, <4>2
    <3>2. ~Closed(index[k])
      BY <2>3 DEF ReconcileStops, ReconcileObserves, Observable, Closed, Definitive
    <3> QED BY <1>0, <2>1, <3>1, <3>2, <1>a, OpenAppend DEF OpenInFlight
  <2> QED BY <1>7, <2>2, <2>3 DEF Reconcile
<1>8. CASE Restart \/ TornAppend
  BY <1>0, <1>8 DEF Restart, TornAppend, OpenInFlight, ClosedIsKnown, ClosedKept
<1>9. CASE EndMission \/ \E p \in Principals :
             AgentPublishes(p) \/ AgentStops(p) \/ AgentExits(p) \/ AgentReturns(p)
  <2>1. UNCHANGED <<storeVars, dispatchVars>>
    BY <1>9 DEF EndMission, AgentPublishes, AgentStops, AgentExits, AgentReturns
  <2> QED BY <1>0, <2>1 DEF storeVars, dispatchVars, OpenInFlight, ClosedIsKnown, ClosedKept
<1> QED BY <1>1, <1>2, <1>3, <1>4, <1>5, <1>6, <1>7, <1>8, <1>9 DEF Next

\* K2, ReceiptStore.persist and reconcile: a definitive outcome in the log
\* is the last word on its key, through torn appends and restarts.
THEOREM TerminalUniqueness == Spec => DefinitiveIsFinal
<1>1. Init => LogInv
  BY InvInit DEF LogInv, OpenInFlight, ClosedIsKnown, Init
<1>2. LogInv /\ [Next]_vars => LogInv'
  BY LogStep
<1>3. LogInv /\ [Next]_vars =>
        [\A k \in Keys : Closed(disk[k]) => disk'[k] = disk[k] /\ index'[k] = disk[k]]_vars
  BY LogStep DEF ClosedKept
<1> QED BY <1>1, <1>2, <1>3, PTL DEF Spec, DefinitiveIsFinal
=============================================================================
