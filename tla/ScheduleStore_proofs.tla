------------------------ MODULE ScheduleStore_proofs ------------------------
(***************************************************************************)
(* Proofs about ScheduleStore, for every value of its constants.           *)
(***************************************************************************)
EXTENDS ScheduleStore, TLAPS

Rec == [state : OccStates, gen : Nat, runNow : BOOLEAN, lease : Nat \cup {NoTime}]
RunRec == [state : RunStates, delivered : BOOLEAN, handedOff : BOOLEAN,
           deadline : Nat \cup {NoTime}, cancel : BOOLEAN, issued : BOOLEAN]

\* A settled run is a run row.
LEMMA SettledType == \A o \in Outcomes : Settled(o) \in RunRec /\ Settled(o).state = o
  BY DEF Settled, NoRun, RunRec, RunStates, Outcomes, ActiveStates, NoTime

\* An occurrence without a run has a well-typed (empty) run row.
LEMMA NoRunType == NoRun \in RunRec
  BY DEF NoRun, RunRec, RunStates, Outcomes, ActiveStates, NoTime

\* Inserting at an instant leaves well-typed rows.
LEMMA InsertedType ==
  ASSUME NEW o \in [Slots -> Rec], NEW s \in Slots, NEW b \in BOOLEAN
  PROVE  Inserted(o, s, b) \in [Slots -> Rec]
  BY DEF Inserted, Rec, OccStates, Closed, NoTime

\* Changing the state or the lease of one occurrence leaves well-typed rows.
LEMMA StateSet ==
  ASSUME NEW o \in [Slots -> Rec], NEW s \in Slots, NEW x \in OccStates
  PROVE  [o EXCEPT ![s].state = x] \in [Slots -> Rec]
  BY DEF Rec

LEMMA LeaseSet ==
  ASSUME NEW o \in [Slots -> Rec], NEW s \in Slots, NEW l \in Nat \cup {NoTime}
  PROVE  [o EXCEPT ![s].lease = l] \in [Slots -> Rec]
  BY DEF Rec

LEMMA StateAndLeaseSet ==
  ASSUME NEW o \in [Slots -> Rec], NEW s \in Slots, NEW x \in OccStates,
         NEW l \in Nat \cup {NoTime}
  PROVE  [o EXCEPT ![s].state = x, ![s].lease = l] \in [Slots -> Rec]
  BY DEF Rec

LEMMA LeaseClearedType ==
  ASSUME occ \in [Slots -> Rec], NEW s \in Slots
  PROVE  LeaseCleared(s) \in [Slots -> Rec]
<1>1. occ[s].lease \in Nat \cup {NoTime}
  BY DEF Rec
<1> DEFINE l == IF occ[s].state = "claimed" THEN NoTime ELSE occ[s].lease
<1>2. l \in Nat \cup {NoTime}
  BY <1>1
<1>3. [occ EXCEPT ![s].lease = l] \in [Slots -> Rec]
  BY <1>2, LeaseSet
<1> QED BY <1>3 DEF LeaseCleared

\* Changing one column of one run leaves well-typed rows.
LEMMA RunFieldSet ==
  ASSUME NEW r \in [Slots -> RunRec], NEW s \in Slots
  PROVE  /\ [r EXCEPT ![s].delivered = TRUE] \in [Slots -> RunRec]
         /\ [r EXCEPT ![s].cancel = TRUE] \in [Slots -> RunRec]
         /\ [r EXCEPT ![s].issued = TRUE] \in [Slots -> RunRec]
         /\ \A x \in RunStates : [r EXCEPT ![s].state = x] \in [Slots -> RunRec]
<1>1. [r EXCEPT ![s].delivered = TRUE] \in [Slots -> RunRec]
  BY DEF RunRec
<1>2. [r EXCEPT ![s].cancel = TRUE] \in [Slots -> RunRec]
  BY DEF RunRec
<1>3. [r EXCEPT ![s].issued = TRUE] \in [Slots -> RunRec]
  BY DEF RunRec
<1>4. ASSUME NEW x \in RunStates PROVE [r EXCEPT ![s].state = x] \in [Slots -> RunRec]
  BY DEF RunRec
<1> QED BY <1>1, <1>2, <1>3, <1>4

LEMMA DeadlineSet ==
  ASSUME NEW r \in [Slots -> RunRec], NEW s \in Slots, NEW d \in Nat
  PROVE  [r EXCEPT ![s].deadline = d] \in [Slots -> RunRec]
  BY DEF RunRec

LEMMA HandedOffType ==
  ASSUME NEW r \in RunRec, NEW d \in Nat
  PROVE  [r EXCEPT !.state = "running", !.delivered = TRUE, !.handedOff = TRUE,
                   !.deadline = d] \in RunRec
  BY DEF RunRec, RunStates, ActiveStates

\* The types of the columns, by the names used below.
LEMMA Typed ==
  TypeOK <=> /\ now \in Nat /\ def \in Definition /\ edits \in Nat
             /\ occ \in [Slots -> Rec] /\ run \in [Slots -> RunRec]
  BY DEF TypeOK, Rec, RunRec

LEMMA TypedNext ==
  ASSUME now' \in Nat, def' \in Definition, edits' \in Nat,
         occ' \in [Slots -> Rec], run' \in [Slots -> RunRec]
  PROVE  TypeOK'
  BY DEF TypeOK, Rec, RunRec

\* The store starts well-typed.
LEMMA InitTyped == Init => TypeOK
  BY StoreAssumption, NoRunType DEF Init, TypeOK, Definition, NoRow, NoTime, RunRec, OccStates

\* Every transaction keeps the columns well-typed.
LEMMA TypeKept == TypeOK /\ [Next]_vars => TypeOK'
<1> SUFFICES ASSUME TypeOK, [Next]_vars PROVE TypeOK'
  OBVIOUS
<1>a. /\ now \in Nat /\ def \in Definition /\ edits \in Nat
      /\ occ \in [Slots -> Rec] /\ run \in [Slots -> RunRec]
  BY Typed
<1>b. "skipped" \in OccStates /\ "missed" \in OccStates /\ "interrupted" \in OccStates
      /\ "claimed" \in OccStates /\ "none" \in OccStates
  BY DEF OccStates, Closed
<1>c. "running" \in RunStates /\ "dispatching" \in RunStates
  BY DEF RunStates, ActiveStates
<1>d. \A t \in Readings : t + Lease \in Nat /\ t + Timeout \in Nat
  BY StoreAssumption, <1>a DEF Readings
<1>e. Settled("skipped") \in RunRec /\ Settled("unknown") \in RunRec
  BY SettledType DEF Outcomes
<1>1. CASE UNCHANGED vars
  BY <1>1, <1>a, TypedNext DEF vars
<1>2. CASE Tick
  BY <1>2, <1>a, TypedNext DEF Tick
<1>3. CASE CreateDefinition
  <2>1. def' \in Definition
    BY <1>3, <1>a DEF CreateDefinition, Definition
  <2>2. occ' \in [Slots -> Rec]
    BY <1>3, <1>a, InsertedType DEF CreateDefinition
  <2> QED BY <1>3, <1>a, <2>1, <2>2, TypedNext DEF CreateDefinition
<1>4. CASE DeleteDefinition
  <2>1. def' \in Definition
    BY <1>4, <1>a DEF DeleteDefinition, Definition
  <2>2. \A s \in Slots : [NoRow EXCEPT !.gen = occ[s].gen] \in Rec
    BY <1>a, <1>b DEF NoRow, Rec, NoTime
  <2>3. occ' \in [Slots -> Rec] /\ run' \in [Slots -> RunRec]
    BY <1>4, <2>2, NoRunType DEF DeleteDefinition
  <2> QED BY <1>4, <1>a, <2>1, <2>3, TypedNext DEF DeleteDefinition
<1>5. CASE \E b \in BOOLEAN : SetEnabled(b)
  <2>1. def' \in Definition
    BY <1>5, <1>a DEF SetEnabled, Definition
  <2> QED BY <1>5, <1>a, <2>1, TypedNext DEF SetEnabled
<1>6. ASSUME NEW trigger \in Triggers, NEW overlap \in Overlaps, NEW misfire \in Misfires,
             NEW action \in Actions, NEW t \in Readings,
             UpdateDefinition(trigger, overlap, misfire, action, t)
      PROVE  TypeOK'
  <2> DEFINE kept == [s \in Slots |-> IF Kept(s) THEN occ[s] ELSE [NoRow EXCEPT !.gen = occ[s].gen]]
  <2>1. kept \in [Slots -> Rec]
    <3>1. \A s \in Slots : [NoRow EXCEPT !.gen = occ[s].gen] \in Rec
      BY <1>a, <1>b DEF NoRow, Rec, NoTime
    <3> QED BY <1>a, <3>1
  <2>2. occ' \in [Slots -> Rec]
    <3>1. CASE trigger = def.trigger
      BY <1>6, <1>a, <3>1 DEF UpdateDefinition
    <3>2. CASE trigger # def.trigger
      <4> DEFINE slot == ReplacementOccurrence(trigger, t)
      <4>1. slot \in Slots /\ occ' = Inserted(kept, slot, FALSE)
        BY <1>6, <3>2 DEF UpdateDefinition
      <4> QED BY <4>1, <2>1, InsertedType
    <3> QED BY <3>1, <3>2
  <2>3. def' \in Definition
    BY <1>6, <1>a DEF UpdateDefinition, Definition
  <2>4. run' = run /\ now' = now /\ edits' = edits + 1
    BY <1>6 DEF UpdateDefinition
  <2>5. edits' \in Nat
    BY <1>a, <2>4
  <2> QED BY <1>a, <2>2, <2>3, <2>4, <2>5, TypedNext
<1>7. ASSUME NEW s \in Slots, InsertNext(s) \/ CreateRunNow(s) PROVE TypeOK'
  <2>1. occ' \in [Slots -> Rec]
    BY <1>7, <1>a, InsertedType DEF InsertNext, CreateRunNow
  <2> QED BY <1>7, <1>a, <2>1, TypedNext DEF InsertNext, CreateRunNow
<1>8. ASSUME NEW s \in Slots, SkipSlot(s) \/ MissSlot(s) PROVE TypeOK'
  <2>1. occ' \in [Slots -> Rec]
    BY <1>8, <1>a, <1>b, StateSet DEF SkipSlot, MissSlot
  <2>2. run' \in [Slots -> RunRec]
    BY <1>8, <1>a, <1>e DEF SkipSlot, MissSlot
  <2> QED BY <1>8, <1>a, <2>1, <2>2, TypedNext DEF SkipSlot, MissSlot
<1>9. ASSUME NEW s \in Slots, RecoverSlot(s) PROVE TypeOK'
  <2>1. occ' \in [Slots -> Rec]
    BY <1>9, <1>a, <1>b, StateAndLeaseSet DEF RecoverSlot
  <2>2. run' \in [Slots -> RunRec]
    BY <1>9, <1>a, <1>e DEF RecoverSlot
  <2> QED BY <1>9, <1>a, <2>1, <2>2, TypedNext DEF RecoverSlot
<1>10. ASSUME NEW s \in Slots, NEW t \in Readings, ClaimSlot(s, t) PROVE TypeOK'
  <2>1. occ' \in [Slots -> Rec]
    BY <1>10, <1>a, <1>b, <1>d, StateAndLeaseSet DEF ClaimSlot
  <2>2. [NoRun EXCEPT !.state = "dispatching"] \in RunRec
    BY NoRunType, <1>c DEF RunRec
  <2>3. run' \in [Slots -> RunRec]
    BY <1>10, <1>a, <2>2 DEF ClaimSlot
  <2> QED BY <1>10, <1>a, <2>1, <2>3, TypedNext DEF ClaimSlot
<1>11. ASSUME NEW s \in Slots, NEW t \in Readings, RenewLease(s, t) PROVE TypeOK'
  <2>1. occ' \in [Slots -> Rec]
    BY <1>11, <1>a, <1>d, LeaseSet DEF RenewLease
  <2> QED BY <1>11, <1>a, <2>1, TypedNext DEF RenewLease
<1>12. ASSUME NEW s \in Slots,
              MarkDelivered(s) \/ MarkRunning(s) \/ RequestCancel(s) \/ MarkCancelIssued(s)
       PROVE  TypeOK'
  <2>1. run' \in [Slots -> RunRec]
    <3>1. CASE MarkDelivered(s)
      BY <3>1, <1>a, RunFieldSet DEF MarkDelivered
    <3>2. CASE MarkRunning(s)
      BY <3>2, <1>a, <1>c, RunFieldSet DEF MarkRunning
    <3>3. CASE RequestCancel(s)
      BY <3>3, <1>a, RunFieldSet DEF RequestCancel
    <3>4. CASE MarkCancelIssued(s)
      BY <3>4, <1>a, RunFieldSet DEF MarkCancelIssued
    <3> QED BY <1>12, <3>1, <3>2, <3>3, <3>4
  <2> QED BY <1>12, <1>a, <2>1, TypedNext
          DEF MarkDelivered, MarkRunning, RequestCancel, MarkCancelIssued
<1>13. ASSUME NEW s \in Slots, NEW t \in Readings,
              MarkHandedOff(s, t) \/ ReleaseShellObservation(s, t)
       PROVE  TypeOK'
  <2>1. run' \in [Slots -> RunRec]
    <3>1. CASE MarkHandedOff(s, t)
      <4>1. run[s] \in RunRec /\ t + Timeout \in Nat
        BY <1>a, <1>d
      <4> QED BY <3>1, <4>1, <1>a, HandedOffType DEF MarkHandedOff
    <3>2. CASE ReleaseShellObservation(s, t)
      BY <3>2, <1>a, <1>d, DeadlineSet DEF ReleaseShellObservation
    <3> QED BY <1>13, <3>1, <3>2
  <2>2. occ' \in [Slots -> Rec]
    BY <1>13, <1>a, LeaseClearedType DEF MarkHandedOff, ReleaseShellObservation
  <2> QED BY <1>13, <1>a, <2>1, <2>2, TypedNext DEF MarkHandedOff, ReleaseShellObservation
<1>14. ASSUME NEW s \in Slots, NEW o \in Verdicts, FinishRun(s, o) PROVE TypeOK'
  <2>1. OccurrenceState(o) \in OccStates /\ o \in Outcomes
    BY StoreAssumption DEF OccurrenceState, OccStates, Closed, Outcomes
  <2>2. Settled(o) \in RunRec
    BY <2>1, SettledType
  <2>3. run' \in [Slots -> RunRec]
    BY <1>14, <1>a, <2>2 DEF FinishRun
  <2>4. occ[s] \in Rec
    BY <1>a
  <2>5. [occ[s] EXCEPT !.state = OccurrenceState(o), !.lease = NoTime] \in Rec
    BY <2>1, <2>4 DEF Rec
  <2>6. occ' \in [Slots -> Rec]
    BY <1>14, <1>a, <2>4, <2>5 DEF FinishRun
  <2> QED BY <1>14, <1>a, <2>3, <2>6, TypedNext DEF FinishRun
<1> QED
  BY <1>1, <1>2, <1>3, <1>4, <1>5, <1>6, <1>7, <1>8, <1>9, <1>10, <1>11, <1>12, <1>13, <1>14
     DEF Next, DefinitionStep, OccurrenceStep, RunStep

\* The columns hold what their types say after every transaction of store.rs,
\* whatever its caller read and when.
THEOREM TypeCorrect == Spec => []TypeOK
  BY InitTyped, TypeKept, PTL DEF Spec
-----------------------------------------------------------------------------
(***************************************************************************)
(* The two tables agree.  RowsAgree and LeaselessHasDeadline speak of one  *)
(* instant at a time, and every transaction but the three that edit the    *)
(* definition touches one instant: its step is proved at that instant.     *)
(***************************************************************************)
SlotOK(s) == RowAgrees(s) /\ HasDeadline(s)

SlotsOK == \A s \in Slots : SlotOK(s)

\* A transaction that touches one instant need only re-establish that instant.
LEMMA OneSlotStep ==
  ASSUME SlotsOK, NEW s \in Slots, SlotOK(s)', Live' <=> Live,
         \A i \in Slots \ {s} : occ'[i] = occ[i] /\ run'[i] = run[i]
  PROVE  SlotsOK'
  BY DEF SlotsOK, SlotOK, RowAgrees, HasDeadline, Active

\* Every transaction of store.rs keeps the agreement of the two tables.
LEMMA SlotsOKInductive == TypeOK /\ SlotsOK /\ [Next]_vars => SlotsOK'
<1> SUFFICES ASSUME TypeOK, SlotsOK, [Next]_vars PROVE SlotsOK'
  OBVIOUS
<1> USE StoreAssumption
<1>a. CASE UNCHANGED vars
  BY <1>a DEF vars, SlotsOK, SlotOK, RowAgrees, HasDeadline, Active, Live
<1>b. CASE Tick
  BY <1>b DEF Tick, SlotsOK, SlotOK, RowAgrees, HasDeadline, Active, Live
<1>1. ASSUME NEW s \in Slots, occ[s].state = "none", NEW b \in BOOLEAN,
             occ' = Inserted(occ, s, b), run' = run, Live', Live
      PROVE  SlotsOK'
  <2>1. SlotOK(s)'
    BY <1>1 DEF TypeOK, Inserted, SlotsOK, SlotOK, RowAgrees, HasDeadline, Active,
                ActiveStates, Outcomes
  <2>2. \A i \in Slots \ {s} : occ'[i] = occ[i] /\ run'[i] = run[i]
    BY <1>1 DEF TypeOK, Inserted
  <2> QED BY <1>1, <2>1, <2>2, OneSlotStep
<1>2. CASE DeleteDefinition
  BY <1>2 DEF DeleteDefinition, SlotsOK, SlotOK, RowAgrees, HasDeadline, Active,
              NoRow, NoRun, ActiveStates, Outcomes
<1>3. ASSUME NEW b \in BOOLEAN, SetEnabled(b) PROVE SlotsOK'
  <2>1. Live' <=> Live
    BY <1>3 DEF SetEnabled, TypeOK, Definition, Live
  <2> QED BY <1>3, <2>1 DEF SetEnabled, SlotsOK, SlotOK, RowAgrees, HasDeadline, Active
<1>4. ASSUME NEW trigger \in Triggers, NEW overlap \in Overlaps, NEW misfire \in Misfires,
             NEW action \in Actions, NEW t \in Readings,
             UpdateDefinition(trigger, overlap, misfire, action, t)
      PROVE  SlotsOK'
  <2> DEFINE kept == [s \in Slots |-> IF Kept(s) THEN occ[s] ELSE [NoRow EXCEPT !.gen = occ[s].gen]]
             slot == ReplacementOccurrence(trigger, t)
  <2>0. Live' /\ Live
    BY <1>4 DEF UpdateDefinition, TypeOK, Definition, Live
  <2>1. CASE trigger = def.trigger
    BY <1>4, <2>0, <2>1 DEF UpdateDefinition, SlotsOK, SlotOK, RowAgrees, HasDeadline, Active
  <2>2. CASE trigger # def.trigger
    <3>1. /\ slot \in Slots
          /\ kept[slot].state = "none"
          /\ occ' = Inserted(kept, slot, FALSE)
          /\ run' = run
      BY <1>4, <2>2 DEF UpdateDefinition
    <3>2. \A i \in Slots \ {slot} : occ'[i] = kept[i]
      BY <3>1 DEF Inserted
    <3>3. occ'[slot].state = "pending"
      BY <3>1 DEF Inserted
    <3>4. ASSUME NEW i \in Slots PROVE SlotOK(i)'
      <4> HIDE DEF kept, slot
      <4>1. occ[i].state \in {"none", "pending", "missed"} => run[i].state = "none"
        BY DEF SlotsOK, SlotOK, RowAgrees
      <4>2. kept[i] = IF Kept(i) THEN occ[i] ELSE [NoRow EXCEPT !.gen = occ[i].gen]
        BY DEF kept
      <4>3. CASE i = slot
        <5>1. occ[i].state \in {"none", "pending"}
          BY <3>1, <4>2, <4>3 DEF Kept
        <5> QED BY <2>0, <3>1, <3>3, <4>1, <4>3, <5>1
                DEF SlotOK, RowAgrees, HasDeadline, Active, ActiveStates, Outcomes
      <4>4. CASE i # slot /\ Kept(i)
        <5>1. occ'[i] = occ[i] /\ run'[i] = run[i]
          BY <3>1, <3>2, <4>2, <4>4
        <5>2. RowAgrees(i) /\ HasDeadline(i)
          BY DEF SlotsOK, SlotOK
        <5> QED BY <2>0, <5>1, <5>2 DEF SlotOK, RowAgrees, HasDeadline, Active
      <4>5. CASE i # slot /\ ~Kept(i)
        <5>1. occ'[i].state = "none"
          BY <3>2, <4>2, <4>5 DEF NoRow
        <5>2. run'[i].state = "none"
          BY <3>1, <4>1, <4>5 DEF Kept
        <5> QED BY <2>0, <5>1, <5>2 DEF SlotOK, RowAgrees, HasDeadline, Active, ActiveStates, Outcomes
      <4> QED BY <4>3, <4>4, <4>5
    <3> QED BY <3>4 DEF SlotsOK
  <2> QED BY <2>1, <2>2
<1>5. CASE CreateDefinition
  <2> DEFINE first == FirstOccurrence(def.trigger)
  <2>1. /\ first \in Slots
        /\ occ' = Inserted(occ, first, FALSE)
        /\ run' = run
        /\ Live'
        /\ ~Live
    BY <1>5 DEF CreateDefinition, Live, TypeOK, Definition
  <2>2. ASSUME NEW i \in Slots PROVE SlotOK(i)'
    <3> HIDE DEF first
    <3>1. occ[i].state = "none" /\ run[i].state = "none"
      BY <2>1 DEF SlotsOK, SlotOK, RowAgrees
    <3>2. occ'[i].state \in {"none", "pending"}
      BY <2>1, <3>1 DEF Inserted, TypeOK
    <3> QED BY <2>1, <3>1, <3>2
            DEF SlotOK, RowAgrees, HasDeadline, Active, ActiveStates, Outcomes
  <2> QED BY <2>2 DEF SlotsOK
<1>6. ASSUME NEW s \in Slots, InsertNext(s) PROVE SlotsOK'
  BY <1>1, <1>6 DEF InsertNext, Live
<1>7. ASSUME NEW s \in Slots, CreateRunNow(s) PROVE SlotsOK'
  BY <1>1, <1>7 DEF CreateRunNow, Live
<1> DEFINE RowsStep(s) == /\ occ' = [occ EXCEPT ![s] = occ'[s]]
                          /\ run' = [run EXCEPT ![s] = run'[s]]
                          /\ def' = def
<1>8. ASSUME NEW s \in Slots, RowsStep(s), SlotOK(s)' PROVE SlotsOK'
  <2>1. \A i \in Slots \ {s} : occ'[i] = occ[i] /\ run'[i] = run[i]
    BY <1>8 DEF TypeOK
  <2> QED BY <1>8, <2>1, OneSlotStep DEF Live
<1>9. ASSUME NEW s \in Slots, SkipSlot(s) PROVE SlotsOK'
  <2>1. RowsStep(s) /\ SlotOK(s)'
    BY <1>9 DEF SkipSlot, TypeOK, SlotsOK, SlotOK, RowAgrees, HasDeadline, Active,
                ActiveStates, Outcomes, Settled, NoRun, OccurrenceState, Live
  <2> QED BY <1>8, <2>1
<1>10. ASSUME NEW s \in Slots, MissSlot(s) PROVE SlotsOK'
  <2>1. RowsStep(s) /\ SlotOK(s)'
    BY <1>10 DEF MissSlot, TypeOK, SlotsOK, SlotOK, RowAgrees, HasDeadline, Active,
                ActiveStates, Outcomes, Live
  <2> QED BY <1>8, <2>1
<1>11. ASSUME NEW s \in Slots, RecoverSlot(s) PROVE SlotsOK'
  <2>1. RowsStep(s)
    BY <1>11 DEF RecoverSlot, TypeOK
  <2>2. Active(s) /\ Live
    BY <1>11 DEF RecoverSlot, SlotsOK, SlotOK, RowAgrees
  <2>3. occ'[s].state = "interrupted" /\ run'[s] = Settled("unknown")
    BY <1>11, <2>2 DEF RecoverSlot, TypeOK
  <2>4. run'[s].state = "unknown"
    BY <2>3 DEF Settled, NoRun
  <2>5. SlotOK(s)'
    BY <2>1, <2>2, <2>3, <2>4 DEF SlotOK, RowAgrees, HasDeadline, Active, ActiveStates, Outcomes, Live
  <2> QED BY <1>8, <2>1, <2>5
<1>12. ASSUME NEW s \in Slots, NEW t \in Readings, ClaimSlot(s, t) PROVE SlotsOK'
  <2>1. t + Lease # NoTime
    BY <1>12 DEF Readings, NoTime, TypeOK
  <2>2. RowsStep(s) /\ Live'
    BY <1>12 DEF ClaimSlot, TypeOK, Live
  <2>3. /\ occ'[s].state = "claimed"
        /\ occ'[s].lease = t + Lease
        /\ run'[s].state = "dispatching"
    BY <1>12 DEF ClaimSlot, TypeOK, NoRun
  <2>4. SlotOK(s)'
    BY <2>1, <2>2, <2>3 DEF SlotOK, RowAgrees, HasDeadline, Active, ActiveStates, Outcomes
  <2> QED BY <1>8, <2>2, <2>4
<1>13. ASSUME NEW s \in Slots, NEW t \in Readings, RenewLease(s, t) PROVE SlotsOK'
  <2>1. t + Lease # NoTime
    BY <1>13 DEF Readings, NoTime, TypeOK
  <2>2. RowsStep(s) /\ SlotOK(s)'
    BY <1>13, <2>1 DEF RenewLease, TypeOK, SlotsOK, SlotOK, RowAgrees, HasDeadline, Active, Live
  <2> QED BY <1>8, <2>2
<1>14. ASSUME NEW s \in Slots, MarkDelivered(s) PROVE SlotsOK'
  <2>1. RowsStep(s) /\ SlotOK(s)'
    BY <1>14 DEF MarkDelivered, TypeOK, SlotsOK, SlotOK, RowAgrees, HasDeadline, Active, Live
  <2> QED BY <1>8, <2>1
<1>15. ASSUME NEW s \in Slots, MarkRunning(s) PROVE SlotsOK'
  <2>1. RowsStep(s) /\ SlotOK(s)'
    BY <1>15 DEF MarkRunning, TypeOK, SlotsOK, SlotOK, RowAgrees, HasDeadline, Active,
                ActiveStates, Outcomes, Live
  <2> QED BY <1>8, <2>1
<1>16. ASSUME NEW s \in Slots, RequestCancel(s) PROVE SlotsOK'
  <2>1. RowsStep(s) /\ SlotOK(s)'
    BY <1>16 DEF RequestCancel, TypeOK, SlotsOK, SlotOK, RowAgrees, HasDeadline, Active, Live
  <2> QED BY <1>8, <2>1
<1>17. ASSUME NEW s \in Slots, MarkCancelIssued(s) PROVE SlotsOK'
  <2>1. RowsStep(s) /\ SlotOK(s)'
    BY <1>17 DEF MarkCancelIssued, TypeOK, SlotsOK, SlotOK, RowAgrees, HasDeadline, Active, Live
  <2> QED BY <1>8, <2>1
<1>18. ASSUME NEW s \in Slots, NEW t \in Readings, MarkHandedOff(s, t) PROVE SlotsOK'
  <2>1. t + Timeout # NoTime
    BY <1>18 DEF Readings, NoTime, TypeOK
  <2>2. RowsStep(s) /\ SlotOK(s)'
    BY <1>18, <2>1 DEF MarkHandedOff, LeaseCleared, TypeOK, SlotsOK, SlotOK, RowAgrees,
                HasDeadline, Active, ActiveStates, Outcomes, Live
  <2> QED BY <1>8, <2>2
<1>19. ASSUME NEW s \in Slots, NEW t \in Readings, ReleaseShellObservation(s, t) PROVE SlotsOK'
  <2>1. t + Timeout # NoTime
    BY <1>19 DEF Readings, NoTime, TypeOK
  <2>2. RowsStep(s) /\ SlotOK(s)'
    BY <1>19, <2>1 DEF ReleaseShellObservation, LeaseCleared, TypeOK, SlotsOK, SlotOK, RowAgrees,
                HasDeadline, Active, ActiveStates, Outcomes, Live
  <2> QED BY <1>8, <2>2
<1>20. ASSUME NEW s \in Slots, NEW o \in Verdicts, FinishRun(s, o) PROVE SlotsOK'
  <2>1. o \in Outcomes /\ Settled(o).state = o
    BY SettledType
  <2>2. OccurrenceState(o) \notin {"claimed", "none", "pending", "missed", "interrupted"}
    BY <2>1 DEF OccurrenceState, Outcomes
  <2>3. RowsStep(s)
    BY <1>20 DEF FinishRun, TypeOK
  <2>4. SlotOK(s)'
    BY <1>20, <2>1, <2>2 DEF FinishRun, TypeOK, SlotsOK, SlotOK, RowAgrees, HasDeadline, Active,
                ActiveStates, Outcomes, Live
  <2> QED BY <1>8, <2>3, <2>4
<1> QED
  BY <1>a, <1>b, <1>2, <1>3, <1>4, <1>5, <1>6, <1>7, <1>9, <1>10, <1>11, <1>12, <1>13, <1>14,
     <1>15, <1>16, <1>17, <1>18, <1>19, <1>20
     DEF Next, DefinitionStep, OccurrenceStep, RunStep

\* An occurrence and its run agree in every reachable state, and a claim that
\* lost its lease can be observed (both tables of store.rs).
THEOREM RowsConsistent == Spec => [](RowsAgree /\ LeaselessHasDeadline)
<1>1. Init => SlotsOK
  BY DEF Init, SlotsOK, SlotOK, RowAgrees, HasDeadline, Active, NoRow, NoRun, ActiveStates, Outcomes
<1>2. SlotsOK => RowsAgree /\ LeaselessHasDeadline
  BY DEF SlotsOK, SlotOK, RowsAgree, LeaselessHasDeadline
<1> QED
  BY <1>1, <1>2, TypeCorrect, SlotsOKInductive, PTL DEF Spec

\* No claim is left without a way to its end: the commit that clears the lease
\* records a delivered run and its deadline (mark_handed_off,
\* release_shell_observation), whoever committed before it.
THEOREM ClaimsStayReachable == Spec => []LeaselessHasDeadline
  BY RowsConsistent, PTL
-----------------------------------------------------------------------------
(***************************************************************************)
(* Overlap.  A run becomes active only in ClaimSlot, whose UPDATE carries  *)
(* the overlap predicate; every other transaction keeps the set of active  *)
(* runs or shrinks it.                                                     *)
(***************************************************************************)
NoNewRun == \A i \in Slots : Active(i)' => Active(i)

\* No statement but the one of the claims makes a run active.
LEMMA OnlyClaimsActivate ==
  TypeOK /\ [Next]_vars =>
     NoNewRun \/ \E s \in Slots, t \in Readings : ClaimSlot(s, t)
<1> SUFFICES ASSUME TypeOK, [Next]_vars,
                    ~\E s \in Slots, t \in Readings : ClaimSlot(s, t)
             PROVE  NoNewRun
  OBVIOUS
<1>1. CASE run' = run
  BY <1>1 DEF NoNewRun, Active
<1>2. CASE DeleteDefinition
  BY <1>2 DEF DeleteDefinition, NoNewRun, Active, NoRun, ActiveStates
<1>3. ASSUME NEW s \in Slots, NEW o \in Outcomes, run' = [run EXCEPT ![s] = Settled(o)]
      PROVE  NoNewRun
  <2>1. run'[s].state = o
    BY <1>3, SettledType DEF TypeOK
  <2>2. o \notin ActiveStates
    BY DEF ActiveStates, Outcomes
  <2> QED BY <1>3, <2>1, <2>2 DEF NoNewRun, Active, TypeOK
<1>4. ASSUME NEW s \in Slots, RecoverSlot(s) PROVE NoNewRun
  <2>1. CASE Active(s)
    BY <1>3, <1>4, <2>1 DEF RecoverSlot, Outcomes
  <2>2. CASE ~Active(s)
    BY <1>4, <2>2 DEF RecoverSlot, NoNewRun, Active, TypeOK
  <2> QED BY <2>1, <2>2
<1>5. ASSUME NEW s \in Slots, MarkDelivered(s) PROVE NoNewRun
  BY <1>5 DEF MarkDelivered, NoNewRun, Active, TypeOK
<1>6. ASSUME NEW s \in Slots, MarkRunning(s) PROVE NoNewRun
  BY <1>6 DEF MarkRunning, NoNewRun, Active, TypeOK, ActiveStates
<1>7. ASSUME NEW s \in Slots, RequestCancel(s) PROVE NoNewRun
  BY <1>7 DEF RequestCancel, NoNewRun, Active, TypeOK
<1>8. ASSUME NEW s \in Slots, MarkCancelIssued(s) PROVE NoNewRun
  BY <1>8 DEF MarkCancelIssued, NoNewRun, Active, TypeOK
<1>9. ASSUME NEW s \in Slots, NEW t \in Readings, MarkHandedOff(s, t) PROVE NoNewRun
  BY <1>9 DEF MarkHandedOff, NoNewRun, Active, TypeOK, ActiveStates
<1>10. ASSUME NEW s \in Slots, NEW t \in Readings, ReleaseShellObservation(s, t) PROVE NoNewRun
  BY <1>10 DEF ReleaseShellObservation, NoNewRun, Active, TypeOK
<1>11. ASSUME NEW s \in Slots, SkipSlot(s) PROVE NoNewRun
  BY <1>3, <1>11 DEF SkipSlot, Outcomes
<1>12. ASSUME NEW s \in Slots, NEW o \in Verdicts, FinishRun(s, o) PROVE NoNewRun
  BY <1>3, <1>12, StoreAssumption DEF FinishRun
<1> QED
  BY <1>1, <1>2, <1>4, <1>5, <1>6, <1>7, <1>8, <1>9, <1>10, <1>11, <1>12
     DEF Next, DefinitionStep, OccurrenceStep, RunStep, vars, Tick, CreateDefinition, SetEnabled,
         UpdateDefinition, InsertNext, CreateRunNow, MissSlot, RenewLease

\* Racing dispatchers never hold two active runs of a definition that may not
\* run concurrently (the overlap predicate inside the claims' UPDATE).
THEOREM OverlapExcluded == Spec => []OneActiveRun
<1>1. Init => OneActiveRun
  BY DEF Init, OneActiveRun, Active, NoRun, ActiveStates
<1>2. TypeOK /\ OneActiveRun /\ [Next]_vars => OneActiveRun'
  <2> SUFFICES ASSUME TypeOK, OneActiveRun, [Next]_vars,
                      "allow-concurrent" \notin Overlaps
               PROVE  \A s, o \in Slots : Active(s)' /\ Active(o)' => s = o
    BY DEF OneActiveRun
  <2>1. CASE NoNewRun
    BY <2>1 DEF NoNewRun, OneActiveRun
  <2>2. ASSUME NEW s \in Slots, NEW t \in Readings, ClaimSlot(s, t)
        PROVE  \A i, o \in Slots : Active(i)' /\ Active(o)' => i = o
    <3>1. NoneActive
      BY <2>2 DEF ClaimSlot, OverlapAllows, TypeOK, Definition
    <3>2. \A i \in Slots \ {s} : ~Active(i)'
      BY <2>2, <3>1 DEF ClaimSlot, NoneActive, Active, TypeOK
    <3> QED BY <3>2
  <2> QED BY <2>1, <2>2, OnlyClaimsActivate
<1> QED
  BY <1>1, <1>2, TypeCorrect, PTL DEF Spec

-----------------------------------------------------------------------------
(***************************************************************************)
(* History.                                                                *)
(***************************************************************************)
\* No transaction but a removal touches a closed instant.
LEMMA ClosedIsKept ==
  ASSUME TypeOK, SlotsOK, [Next]_vars, ~DeleteDefinition,
         NEW i \in Slots, occ[i].state \in Closed
  PROVE  occ'[i].state = occ[i].state /\ run'[i].state = run[i].state
<1>1. occ[i].state \notin {"none", "pending", "claimed"} /\ ~Active(i)
  BY DEF SlotsOK, SlotOK, RowAgrees, Closed
<1>2. ASSUME NEW o, NEW s \in Slots, NEW b \in BOOLEAN, o \in [Slots -> Rec], o[i] = occ[i],
             o[s].state = "none", occ' = Inserted(o, s, b), run' = run
      PROVE  occ'[i].state = occ[i].state /\ run'[i].state = run[i].state
  BY <1>1, <1>2 DEF Inserted
<1>3. CASE CreateDefinition
  BY <1>1, <1>3 DEF CreateDefinition, SlotsOK, SlotOK, RowAgrees, Live
<1>4. CASE occ' = occ /\ run' = run
  BY <1>4
<1>5. ASSUME NEW trigger \in Triggers, NEW overlap \in Overlaps, NEW misfire \in Misfires,
             NEW action \in Actions, NEW t \in Readings,
             UpdateDefinition(trigger, overlap, misfire, action, t)
      PROVE  occ'[i].state = occ[i].state /\ run'[i].state = run[i].state
  <2> DEFINE kept == [s \in Slots |-> IF Kept(s) THEN occ[s] ELSE [NoRow EXCEPT !.gen = occ[s].gen]]
             slot == ReplacementOccurrence(trigger, t)
  <2>1. CASE trigger = def.trigger
    BY <1>5, <2>1 DEF UpdateDefinition
  <2>2. CASE trigger # def.trigger
    <3>1. /\ slot \in Slots
          /\ kept[slot].state = "none"
          /\ occ' = Inserted(kept, slot, FALSE)
          /\ run' = run
      BY <1>5, <2>2 DEF UpdateDefinition
    <3>2. kept \in [Slots -> Rec]
      BY DEF NoRow, OccStates, NoTime, TypeOK, Rec
    <3>3. kept[i] = occ[i]
      BY <1>1 DEF Kept
    <3> HIDE DEF kept, slot
    <3> QED BY <1>2, <3>1, <3>2, <3>3
  <2> QED BY <2>1, <2>2
<1>6. ASSUME NEW s \in Slots, InsertNext(s) \/ CreateRunNow(s)
      PROVE  occ'[i].state = occ[i].state /\ run'[i].state = run[i].state
  BY <1>2, <1>6 DEF InsertNext, CreateRunNow, TypeOK, Rec
<1>7. ASSUME NEW s \in Slots,
             \/ SkipSlot(s) \/ MissSlot(s) \/ RecoverSlot(s)
             \/ \E t \in Readings : ClaimSlot(s, t) \/ RenewLease(s, t)
      PROVE  occ'[i].state = occ[i].state /\ run'[i].state = run[i].state
  BY <1>1, <1>7 DEF SkipSlot, MissSlot, RecoverSlot, ClaimSlot, RenewLease, TypeOK
<1>8. ASSUME NEW s \in Slots,
             \/ MarkDelivered(s) \/ MarkRunning(s) \/ RequestCancel(s) \/ MarkCancelIssued(s)
             \/ \E t \in Readings : MarkHandedOff(s, t) \/ ReleaseShellObservation(s, t)
             \/ \E o \in Verdicts : FinishRun(s, o)
      PROVE  occ'[i].state = occ[i].state /\ run'[i].state = run[i].state
  <2>1. Active(s)
    BY <1>8 DEF MarkDelivered, MarkRunning, RequestCancel, MarkCancelIssued, MarkHandedOff,
                ReleaseShellObservation, FinishRun, Active, ActiveStates
  <2>2. i # s
    BY <1>1, <2>1
  <2> QED
    BY <1>8, <2>2 DEF MarkDelivered, MarkRunning, RequestCancel, MarkCancelIssued, MarkHandedOff,
                ReleaseShellObservation, FinishRun, LeaseCleared, TypeOK
<1> QED
  BY <1>3, <1>4, <1>5, <1>6, <1>7, <1>8
     DEF Next, DefinitionStep, OccurrenceStep, RunStep, vars, Tick, SetEnabled

\* Only an edit of the trigger takes a row away, and only a pending rule slot.
LEMMA OnlyRuleSlotsVanish ==
  ASSUME TypeOK, SlotsOK, [Next]_vars, ~DeleteDefinition,
         NEW i \in Slots, occ[i].state # "none", occ'[i].state = "none"
  PROVE  occ[i].state = "pending" /\ ~occ[i].runNow
<1>1. ASSUME NEW s \in Slots, NEW b \in BOOLEAN, occ' = Inserted(occ, s, b) PROVE FALSE
  BY <1>1 DEF Inserted, TypeOK
<1>2. CASE occ' = occ
  BY <1>2
<1>3. CASE CreateDefinition
  BY <1>1, <1>3 DEF CreateDefinition
<1>4. ASSUME NEW trigger \in Triggers, NEW overlap \in Overlaps, NEW misfire \in Misfires,
             NEW action \in Actions, NEW t \in Readings,
             UpdateDefinition(trigger, overlap, misfire, action, t)
      PROVE  occ[i].state = "pending" /\ ~occ[i].runNow
  <2> DEFINE kept == [s \in Slots |-> IF Kept(s) THEN occ[s] ELSE [NoRow EXCEPT !.gen = occ[s].gen]]
             slot == ReplacementOccurrence(trigger, t)
  <2>1. CASE trigger = def.trigger
    BY <1>4, <2>1 DEF UpdateDefinition
  <2>2. CASE trigger # def.trigger
    <3>1. slot \in Slots /\ occ' = Inserted(kept, slot, FALSE)
      BY <1>4, <2>2 DEF UpdateDefinition
    <3>2. occ'[i].state = kept[i].state \/ occ'[i].state = "pending"
      BY <3>1 DEF Inserted
    <3> QED BY <3>2 DEF Kept
  <2> QED BY <2>1, <2>2
<1>5. ASSUME NEW s \in Slots, InsertNext(s) \/ CreateRunNow(s) PROVE FALSE
  BY <1>1, <1>5 DEF InsertNext, CreateRunNow
<1>6. ASSUME NEW s \in Slots,
             \/ SkipSlot(s) \/ MissSlot(s) \/ RecoverSlot(s)
             \/ \E t \in Readings : ClaimSlot(s, t) \/ RenewLease(s, t)
      PROVE  FALSE
  <2>0. occ \in [Slots -> Rec]
    BY Typed
  <2>1. CASE SkipSlot(s)
    BY <2>0, <2>1 DEF SkipSlot
  <2>5. CASE MissSlot(s)
    BY <2>0, <2>5 DEF MissSlot
  <2>2. CASE RecoverSlot(s)
    BY <2>0, <2>2 DEF RecoverSlot
  <2>3. ASSUME NEW t \in Readings, ClaimSlot(s, t) PROVE FALSE
    BY <2>0, <2>3 DEF ClaimSlot
  <2>4. ASSUME NEW t \in Readings, RenewLease(s, t) PROVE FALSE
    BY <2>0, <2>4 DEF RenewLease
  <2> QED BY <1>6, <2>1, <2>2, <2>3, <2>4, <2>5
<1>7. ASSUME NEW s \in Slots, NEW t \in Readings,
             MarkHandedOff(s, t) \/ ReleaseShellObservation(s, t)
      PROVE  FALSE
  BY <1>7 DEF MarkHandedOff, ReleaseShellObservation, LeaseCleared, TypeOK
<1>8. ASSUME NEW s \in Slots, NEW o \in Verdicts, FinishRun(s, o) PROVE FALSE
  <2>1. OccurrenceState(o) # "none"
    BY StoreAssumption DEF OccurrenceState, Outcomes
  <2> QED BY <1>8, <2>1 DEF FinishRun, TypeOK
<1> QED
  BY <1>2, <1>3, <1>4, <1>5, <1>6, <1>7, <1>8
     DEF Next, DefinitionStep, OccurrenceStep, RunStep, vars, Tick, SetEnabled,
         MarkDelivered, MarkRunning, RequestCancel, MarkCancelIssued

\* A claimed slot stays claimed or is closed, unless its definition is removed.
LEMMA ClaimedOpens ==
  ASSUME TypeOK, SlotsOK, [Next]_vars, ~DeleteDefinition,
         NEW i \in Slots, occ[i].state = "claimed"
  PROVE  occ'[i].state \notin {"none", "pending"}
<1>1. Active(i) /\ Live
  BY DEF SlotsOK, SlotOK, RowAgrees
<1>2. occ'[i].state # "none"
  BY OnlyRuleSlotsVanish
<1>3. ASSUME NEW o \in [Slots -> Rec], NEW s \in Slots, NEW b \in BOOLEAN, o[i] = occ[i],
             o[s].state = "none", occ' = Inserted(o, s, b)
      PROVE  occ'[i] = occ[i]
  BY <1>3 DEF Inserted
<1>4. CASE occ' = occ
  BY <1>4
<1>5. ASSUME NEW trigger \in Triggers, NEW overlap \in Overlaps, NEW misfire \in Misfires,
             NEW action \in Actions, NEW t \in Readings,
             UpdateDefinition(trigger, overlap, misfire, action, t)
      PROVE  occ'[i] = occ[i]
  <2> DEFINE kept == [s \in Slots |-> IF Kept(s) THEN occ[s] ELSE [NoRow EXCEPT !.gen = occ[s].gen]]
             slot == ReplacementOccurrence(trigger, t)
  <2>1. CASE trigger = def.trigger
    BY <1>5, <2>1 DEF UpdateDefinition
  <2>2. CASE trigger # def.trigger
    <3>1. slot \in Slots /\ kept[slot].state = "none" /\ occ' = Inserted(kept, slot, FALSE)
      BY <1>5, <2>2 DEF UpdateDefinition
    <3>2. kept \in [Slots -> Rec]
      BY DEF NoRow, OccStates, NoTime, TypeOK, Rec
    <3>3. kept[i] = occ[i]
      BY DEF Kept
    <3> HIDE DEF kept, slot
    <3> QED BY <1>3, <3>1, <3>2, <3>3
  <2> QED BY <2>1, <2>2
<1>6. ASSUME NEW s \in Slots, InsertNext(s) \/ CreateRunNow(s) PROVE occ'[i] = occ[i]
  BY <1>3, <1>6 DEF InsertNext, CreateRunNow, TypeOK, Rec
<1>7. ASSUME NEW s \in Slots,
             \/ SkipSlot(s) \/ MissSlot(s) \/ RecoverSlot(s)
             \/ \E t \in Readings : ClaimSlot(s, t) \/ RenewLease(s, t)
      PROVE  occ'[i].state # "pending"
  <2>0. occ \in [Slots -> Rec]
    BY Typed
  <2>1. CASE SkipSlot(s)
    BY <2>0, <2>1 DEF SkipSlot
  <2>5. CASE MissSlot(s)
    BY <2>0, <2>5 DEF MissSlot
  <2>2. CASE RecoverSlot(s)
    BY <2>0, <2>2 DEF RecoverSlot
  <2>3. ASSUME NEW t \in Readings, ClaimSlot(s, t) PROVE occ'[i].state # "pending"
    BY <2>0, <2>3 DEF ClaimSlot
  <2>4. ASSUME NEW t \in Readings, RenewLease(s, t) PROVE occ'[i].state # "pending"
    BY <2>0, <2>4 DEF RenewLease
  <2> QED BY <1>7, <2>1, <2>2, <2>3, <2>4, <2>5
<1>10. ASSUME NEW s \in Slots, NEW t \in Readings,
              MarkHandedOff(s, t) \/ ReleaseShellObservation(s, t)
       PROVE  occ'[i].state # "pending"
  BY <1>10 DEF MarkHandedOff, ReleaseShellObservation, LeaseCleared, TypeOK
<1>8. ASSUME NEW s \in Slots, NEW o \in Verdicts, FinishRun(s, o) PROVE occ'[i].state # "pending"
  <2>1. OccurrenceState(o) # "pending"
    BY StoreAssumption DEF OccurrenceState, Outcomes
  <2> QED BY <1>8, <2>1 DEF FinishRun, TypeOK
<1>9. ~CreateDefinition
  BY <1>1 DEF CreateDefinition, Live
<1> QED
  BY <1>2, <1>4, <1>5, <1>6, <1>7, <1>8, <1>9, <1>10
     DEF Next, DefinitionStep, OccurrenceStep, RunStep, vars, Tick, SetEnabled,
         MarkDelivered, MarkRunning, RequestCancel, MarkCancelIssued

\* What the store recorded of a slot is never rewritten (WHERE state = ... of
\* every UPDATE, and the DELETE of update_definition).
THEOREM HistoryKept == Spec => HistoryIsFinal
<1>1. ASSUME TypeOK, SlotsOK, [Next]_vars
      PROVE  [def'.status # "removed" => \A s \in Slots : KeepsHistory(s)]_vars
  <2> SUFFICES ASSUME def'.status # "removed", NEW s \in Slots PROVE KeepsHistory(s)
    OBVIOUS
  <2>1. ~DeleteDefinition
    BY <1>1 DEF DeleteDefinition, TypeOK, Definition
  <2>2. ASSUME occ[s].state \in Closed
        PROVE  occ'[s].state = occ[s].state /\ run'[s].state = run[s].state
    BY <1>1, <2>1, <2>2, ClosedIsKept
  <2>3. ASSUME occ[s].state # "none", occ'[s].state = "none"
        PROVE  occ[s].state = "pending" /\ ~occ[s].runNow
    BY <1>1, <2>1, <2>3, OnlyRuleSlotsVanish
  <2> QED BY <2>2, <2>3 DEF KeepsHistory
<1>2. Init => SlotsOK
  BY DEF Init, SlotsOK, SlotOK, RowAgrees, HasDeadline, Active, NoRow, NoRun, ActiveStates, Outcomes
<1> QED
  BY <1>1, <1>2, TypeCorrect, SlotsOKInductive, PTL DEF Spec, HistoryIsFinal
-----------------------------------------------------------------------------
(***************************************************************************)
(* Refinement.  A transaction that moves one instant from one phase to the *)
(* next is that phase change of OccurrenceLifecycle; a new trigger is      *)
(* Redeclare; all others stutter.                                          *)
(***************************************************************************)
Phase == [s \in Slots |-> PhaseOf(occ[s].state)]

Removed == def.status = "removed"

\* A change of one row is a change of one phase.
LEMMA PhaseStep ==
  ASSUME NEW s \in Slots, NEW p,
         \A i \in Slots \ {s} : occ'[i].state = occ[i].state,
         PhaseOf(occ'[s].state) = p
  PROVE  Phase' = [Phase EXCEPT ![s] = p]
  BY DEF Phase

\* A transaction that keeps every state keeps every phase.
LEMMA SamePhases ==
  ASSUME \A i \in Slots : occ'[i].state = occ[i].state
  PROVE  Phase' = Phase
  BY DEF Phase

\* Every transaction of store.rs is a step of OccurrenceLifecycle or a stutter.
LEMMA LifecycleStep ==
  TypeOK /\ SlotsOK /\ [Next]_vars => [Lifecycle!Next]_<<Phase, Removed>>
<1> SUFFICES ASSUME TypeOK, SlotsOK, [Next]_vars
             PROVE  Lifecycle!Next \/ (Phase' = Phase /\ Removed' = Removed)
  OBVIOUS
<1> DEFINE Goal == Lifecycle!Next \/ (Phase' = Phase /\ Removed' = Removed)
<1>1. CASE occ' = occ /\ Removed' = Removed
  BY <1>1, SamePhases
<1>2. CASE DeleteDefinition
  <2>1. Lifecycle!Remove
    BY <1>2 DEF DeleteDefinition, Lifecycle!Remove, Phase, PhaseOf, NoRow, Live, Removed, TypeOK,
                Definition
  <2> QED BY <2>1 DEF Lifecycle!Next
<1>3. ASSUME NEW s \in Slots, NEW b \in BOOLEAN, occ[s].state = "none",
             occ' = Inserted(occ, s, b), ~Removed, ~Removed'
      PROVE  Goal
  <2>1. occ'[s].state = "pending" /\ \A i \in Slots \ {s} : occ'[i].state = occ[i].state
    BY <1>3 DEF Inserted, TypeOK
  <2>2. Phase' = [Phase EXCEPT ![s] = "waiting"]
    BY <1>3, <2>1, PhaseStep DEF PhaseOf
  <2>3. Phase[s] = "free"
    BY <1>3 DEF Phase, PhaseOf
  <2>4. Lifecycle!Offer(s)
    BY <1>3, <2>2, <2>3 DEF Lifecycle!Offer, Phase, Removed
  <2> QED BY <2>4 DEF Lifecycle!Next
<1>4. ASSUME NEW s \in Slots, occ[s].state \in {"pending", "claimed"}, Removed' = Removed,
             occ'[s].state \in Closed,
             \A i \in Slots \ {s} : occ'[i].state = occ[i].state
      PROVE  Goal
  <2>1. PhaseOf(occ'[s].state) = "closed"
    BY <1>4 DEF PhaseOf, Closed
  <2>2. Phase' = [Phase EXCEPT ![s] = "closed"]
    BY <1>4, <2>1, PhaseStep
  <2>3. Phase[s] \in {"waiting", "attempt"}
    BY <1>4 DEF Phase, PhaseOf
  <2>4. Lifecycle!Close(s)
    BY <1>4, <2>2, <2>3 DEF Lifecycle!Close, Phase, Removed
  <2> QED BY <2>4 DEF Lifecycle!Next
<1>5. ASSUME NEW s \in Slots, NEW t \in Readings, ClaimSlot(s, t) PROVE Goal
  <2>1. /\ occ[s].state = "pending"
        /\ occ'[s].state = "claimed"
        /\ Removed' = Removed
        /\ ~Removed
        /\ \A i \in Slots \ {s} : occ'[i].state = occ[i].state
    BY <1>5 DEF ClaimSlot, TypeOK, Live, Removed
  <2>2. Phase' = [Phase EXCEPT ![s] = "attempt"]
    BY <2>1, PhaseStep DEF PhaseOf
  <2>3. Phase[s] = "waiting"
    BY <2>1 DEF Phase, PhaseOf
  <2>4. Lifecycle!Attempt(s)
    BY <2>1, <2>2, <2>3 DEF Lifecycle!Attempt, Phase, Removed
  <2> QED BY <2>4 DEF Lifecycle!Next
<1>6. ASSUME NEW trigger \in Triggers, NEW overlap \in Overlaps, NEW misfire \in Misfires,
             NEW action \in Actions, NEW t \in Readings,
             UpdateDefinition(trigger, overlap, misfire, action, t)
      PROVE  Goal
  <2> DEFINE kept == [s \in Slots |-> IF Kept(s) THEN occ[s] ELSE [NoRow EXCEPT !.gen = occ[s].gen]]
             slot == ReplacementOccurrence(trigger, t)
             gone == {i \in Slots : ~Kept(i)}
  <2>0. ~Removed /\ ~Removed'
    BY <1>6 DEF UpdateDefinition, Live, Removed, TypeOK, Definition
  <2>1. CASE trigger = def.trigger
    BY <1>1, <1>6, <2>0, <2>1 DEF UpdateDefinition, Removed
  <2>2. CASE trigger # def.trigger
    <3>1. /\ slot \in Slots
          /\ kept[slot].state = "none"
          /\ occ' = Inserted(kept, slot, FALSE)
      BY <1>6, <2>2 DEF UpdateDefinition
    <3>2. \A i \in gone : Phase[i] = "waiting"
      BY DEF Phase, PhaseOf, Kept
    <3>3. Phase[slot] = "free" \/ slot \in gone
      BY <3>1 DEF Phase, PhaseOf
    <3>4. \A i \in Slots : occ'[i].state = IF i = slot THEN "pending" ELSE kept[i].state
      <4>1. DOMAIN kept = Slots /\ kept = [i \in Slots |-> kept[i]]
        OBVIOUS
      <4> HIDE DEF kept, slot
      <4> QED BY <3>1, <4>1 DEF Inserted
    <3>5. \A i \in Slots : kept[i].state = IF i \in gone THEN "none" ELSE occ[i].state
      BY DEF NoRow
    <3> HIDE DEF kept, slot, gone
    <3>6. \A i \in Slots : PhaseOf(occ'[i].state) = IF i = slot THEN "waiting"
                                                   ELSE IF i \in gone THEN "free"
                                                   ELSE Phase[i]
      BY <3>4, <3>5 DEF Phase, PhaseOf
    <3>7. Phase' = [i \in Slots |-> IF i = slot THEN "waiting"
                                    ELSE IF i \in gone THEN "free" ELSE Phase[i]]
      BY <3>6 DEF Phase
    <3>8. Lifecycle!Redeclare(gone, slot)
      BY <2>0, <3>2, <3>3, <3>7 DEF Lifecycle!Redeclare, Phase, Removed
    <3>9. gone \in SUBSET Slots
      BY DEF gone
    <3> QED BY <3>1, <3>8, <3>9 DEF Lifecycle!Next
  <2> QED BY <2>1, <2>2
<1>7. CASE CreateDefinition
  <2>1. /\ FirstOccurrence(def.trigger) \in Slots
        /\ occ' = Inserted(occ, FirstOccurrence(def.trigger), FALSE)
        /\ occ[FirstOccurrence(def.trigger)].state = "none"
        /\ ~Removed
        /\ ~Removed'
    BY <1>7 DEF CreateDefinition, SlotsOK, SlotOK, RowAgrees, Live, Removed, TypeOK, Definition
  <2> QED BY <1>3, <2>1
<1>8. ASSUME NEW s \in Slots, InsertNext(s) \/ CreateRunNow(s) PROVE Goal
  BY <1>3, <1>8 DEF InsertNext, CreateRunNow, Live, Removed
<1>9. ASSUME NEW s \in Slots, SkipSlot(s) \/ MissSlot(s) \/ RecoverSlot(s) PROVE Goal
  <2>1. /\ occ[s].state \in {"pending", "claimed"}
        /\ occ'[s].state \in Closed
        /\ \A i \in Slots \ {s} : occ'[i].state = occ[i].state
        /\ Removed' = Removed
    BY <1>9 DEF SkipSlot, MissSlot, RecoverSlot, TypeOK, Closed, Removed
  <2> QED BY <1>4, <2>1
<1>10. ASSUME NEW s \in Slots, NEW o \in Verdicts, FinishRun(s, o) PROVE Goal
  <2>1. OccurrenceState(o) \in Closed
    BY StoreAssumption DEF OccurrenceState, Outcomes, Closed
  <2>2. occ[s].state = "claimed"
    BY <1>10 DEF FinishRun, SlotsOK, SlotOK, RowAgrees
  <2>3. /\ occ'[s].state \in Closed
        /\ \A i \in Slots \ {s} : occ'[i].state = occ[i].state
        /\ Removed' = Removed
    BY <1>10, <2>1, <2>2 DEF FinishRun, TypeOK, Removed
  <2> QED BY <1>4, <2>2, <2>3
<1>11. ASSUME \A i \in Slots : occ'[i].state = occ[i].state, Removed' = Removed PROVE Goal
  BY <1>11, SamePhases
<1>12. ASSUME NEW s \in Slots, NEW t \in Readings,
              RenewLease(s, t) \/ MarkHandedOff(s, t) \/ ReleaseShellObservation(s, t)
       PROVE  Goal
  BY <1>11, <1>12 DEF RenewLease, MarkHandedOff, ReleaseShellObservation, LeaseCleared, TypeOK, Removed
<1>13. ASSUME NEW b \in BOOLEAN, SetEnabled(b) PROVE Goal
  BY <1>1, <1>13 DEF SetEnabled, Removed, TypeOK, Definition
<1>14. ASSUME NEW s \in Slots,
              MarkDelivered(s) \/ MarkRunning(s) \/ RequestCancel(s) \/ MarkCancelIssued(s)
       PROVE  Goal
  BY <1>1, <1>14 DEF MarkDelivered, MarkRunning, RequestCancel, MarkCancelIssued, Removed
<1>15. CASE Tick \/ UNCHANGED vars
  BY <1>1, <1>15 DEF Tick, vars, Removed
<1> QED
  BY <1>2, <1>5, <1>6, <1>7, <1>8, <1>9, <1>10, <1>12, <1>13, <1>14, <1>15
     DEF Next, DefinitionStep, OccurrenceStep, RunStep

\* The rows behave as OccurrenceLifecycle promises: an instant is attempted at
\* most once (the at-most-once delivery of lib.rs).
THEOREM StoreImplementsLifecycle == Spec => ImplementsLifecycle
<1>1. Init => Lifecycle!Init
  BY DEF Init, Lifecycle!Init, NoRow, PhaseOf
<1>2. Init => SlotsOK
  BY DEF Init, SlotsOK, SlotOK, RowAgrees, HasDeadline, Active, NoRow, NoRun, ActiveStates, Outcomes
<1>3. [Lifecycle!Next]_<<Phase, Removed>>
        <=> [Lifecycle!Next]_<<[s \in Slots |-> PhaseOf(occ[s].state)], def.status = "removed">>
  BY DEF Phase, Removed
<1> QED
  BY <1>1, <1>2, <1>3, TypeCorrect, SlotsOKInductive, LifecycleStep, PTL
     DEF Spec, ImplementsLifecycle, Lifecycle!Spec
=============================================================================
