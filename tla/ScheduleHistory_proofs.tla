------------------------- MODULE ScheduleHistory_proofs -------------------------
(***************************************************************************)
(* Proofs about ScheduleDispatch, for every value of its constants: what   *)
(* the recorded history says of effects, who will reach an active run,     *)
(* what a removal may delete, how deep the horizon is, and what an outage  *)
(* costs.                                                                  *)
(***************************************************************************)
EXTENDS ScheduleDispatch_proofs

Early == {"start", "deliver"}

-----------------------------------------------------------------------------
(***************************************************************************)
(* What a step does to one slot.  Most steps leave the task and the action *)
(* of a slot alone, or only end them, and do to its row nothing that these *)
(* proofs could mind (Ordinary); a run ends only by its own task or by an  *)
(* observation of it, and its lease is cleared only by its own task.       *)
(***************************************************************************)
Quiet(s) ==
    /\ work'[s] \in {work[s], NoWork}
    /\ starts'[s] = starts[s]
    /\ exec'[s] = exec[s] \/ (exec[s] = "live" /\ exec'[s] = "done")

Started(s) ==
    /\ occ[s].state = "pending" /\ occ'[s].state = "claimed"
    /\ def' = def /\ edits' = edits
    /\ starts'[s] = starts[s] /\ exec'[s] = exec[s]
    /\ work'[s].pc = "start" /\ work'[s].kind = def.action

Ordinary(s) ==
    /\ \/ occ'[s].state \in {occ[s].state, "none", "pending", "claimed", "interrupted"}
       \/ occ[s].state = "pending" /\ occ'[s].state \in {"missed", "skipped"}
    /\ run'[s].state = "succeeded" => run[s].state = "succeeded"
    /\ run'[s].handedOff => run[s].handedOff
    /\ run'[s].handedOff /\ Active(s)' => Active(s) /\ run'[s].state \in {run[s].state, "running"}
    /\ Active(s)' /\ occ'[s].lease = NoTime =>
          Active(s) /\ occ[s].lease = NoTime /\ run'[s].handedOff = run[s].handedOff

Observed(s) ==
    \E t \in Nat : \E outcome \in Observation(s, t) : FinishRun(s, outcome)

TaskMoves(s) ==
    \/ Reread(s) \/ Deliver(s) \/ Execute(s) \/ Delivered(s) \/ Poll(s) \/ Release(s)
    \/ HandOff(s) \/ NativeReport(s) \/ SettleTask(s)

\* A slot whose row and run stay as they are has an ordinary step.
LEMMA SameIsOrdinary ==
  ASSUME NEW s \in Slots, occ'[s] = occ[s], run'[s] = run[s]
  PROVE  Ordinary(s)
  BY DEF Ordinary, Active

\* A transaction on another slot, or on the definition, is ordinary at s.
LEMMA StoreOrdinary ==
  ASSUME TypeOK, SlotsOK, NEW s \in Slots,
         \/ UNCHANGED vars \/ Tick \/ DefinitionStep \/ OccurrenceStep
         \/ \E o \in Slots : \/ MarkDelivered(o) \/ MarkRunning(o)
                             \/ RequestCancel(o) \/ MarkCancelIssued(o)
  PROVE  Ordinary(s)
<1>0. /\ occ \in [Slots -> Rec] /\ run \in [Slots -> RunRec]
      /\ now \in Nat
  BY Typed
<1>1. /\ run[s].state = "none" => ~Active(s)
      /\ occ[s].state \in {"none", "pending", "missed"} => run[s].state = "none"
      /\ ~Live => occ[s].state = "none"
  BY DEF SlotsOK, SlotOK, RowAgrees, Active, ActiveStates
<1>2. CASE UNCHANGED vars \/ Tick \/ \E b \in BOOLEAN : SetEnabled(b)
  BY <1>2, SameIsOrdinary DEF vars, Tick, SetEnabled
<1>3. ASSUME run' = run, occ[s].state = "none" \/ occ[s].state = "pending",
             occ'[s].state \in {"none", "pending"}
      PROVE  Ordinary(s)
  BY <1>1, <1>3 DEF Ordinary, Active
<1>4. ASSUME NEW o \in Slots, NEW b \in BOOLEAN, occ' = Inserted(occ, o, b), run' = run,
             occ[o].state = "none"
      PROVE  Ordinary(s)
  <2>1. CASE o = s
    BY <1>0, <1>3, <1>4, <2>1 DEF Inserted
  <2>2. CASE o # s
    BY <1>0, <1>4, <2>2, SameIsOrdinary DEF Inserted
  <2> QED BY <2>1, <2>2
<1>5. CASE CreateDefinition
  <2>1. occ[FirstOccurrence(def.trigger)].state = "none"
    BY <1>5 DEF CreateDefinition, SlotsOK, SlotOK, RowAgrees, Live
  <2> QED BY <1>4, <1>5, <2>1 DEF CreateDefinition
<1>6. CASE DeleteDefinition
  BY <1>6 DEF DeleteDefinition, Ordinary, NoRow, NoRun, Active, ActiveStates
<1>7. ASSUME NEW trigger \in Triggers, NEW overlap \in Overlaps, NEW misfire \in Misfires,
             NEW action \in Actions, NEW t \in Readings,
             UpdateDefinition(trigger, overlap, misfire, action, t)
      PROVE  Ordinary(s)
  <2> DEFINE kept == [o \in Slots |-> IF Kept(o) THEN occ[o] ELSE [NoRow EXCEPT !.gen = occ[o].gen]]
             slot == ReplacementOccurrence(trigger, t)
  <2>1. CASE trigger = def.trigger
    BY <1>7, <2>1, SameIsOrdinary DEF UpdateDefinition
  <2>2. CASE trigger # def.trigger
    <3>1. /\ slot \in Slots
          /\ kept[slot].state = "none"
          /\ occ' = Inserted(kept, slot, FALSE)
          /\ run' = run
      BY <1>7, <2>2 DEF UpdateDefinition
    <3> HIDE DEF slot
    <3>2. kept[s] = occ[s] \/ (occ[s].state = "pending" /\ kept[s].state = "none")
      BY DEF Kept, NoRow
    <3>3. kept \in [Slots -> Rec]
      <4>1. \A o \in Slots : [NoRow EXCEPT !.gen = occ[o].gen] \in Rec
        BY <1>0 DEF NoRow, Rec, NoTime, OccStates
      <4> QED BY <1>0, <4>1
    <3> HIDE DEF kept
    <3>4. CASE s = slot
      <4>1. occ'[s].state = "pending"
        BY <3>1, <3>3, <3>4 DEF Inserted
      <4> QED BY <1>3, <3>1, <3>2, <3>4, <4>1
    <3>5. CASE s # slot
      <4>1. occ'[s] = kept[s]
        BY <3>1, <3>3, <3>5 DEF Inserted
      <4>2. CASE kept[s] = occ[s]
        BY <3>1, <4>1, <4>2, SameIsOrdinary
      <4>3. CASE occ[s].state = "pending" /\ kept[s].state = "none"
        BY <1>3, <3>1, <4>1, <4>3
      <4> QED BY <3>2, <4>2, <4>3
    <3> QED BY <3>4, <3>5
  <2> QED BY <2>1, <2>2
<1>8. ASSUME NEW o \in Slots, InsertNext(o) \/ CreateRunNow(o) PROVE Ordinary(s)
  BY <1>4, <1>8 DEF InsertNext, CreateRunNow
<1>9. ASSUME NEW o \in Slots, SkipSlot(o) \/ MissSlot(o) PROVE Ordinary(s)
  <2>1. CASE o # s
    BY <1>0, <1>9, <2>1, SameIsOrdinary DEF SkipSlot, MissSlot
  <2>2. CASE o = s
    <3>1. occ[s].state = "pending" /\ occ'[s].state \in {"missed", "skipped"}
      BY <1>0, <1>9, <2>2 DEF SkipSlot, MissSlot, Rec
    <3>2. run'[s] = run[s] \/ run'[s] = Settled("skipped")
      BY <1>0, <1>9, <2>2 DEF SkipSlot, MissSlot
    <3>3. ~Active(s)' /\ run'[s].state # "succeeded" /\ (run'[s].handedOff => run[s].handedOff)
      BY <1>1, <3>1, <3>2 DEF Settled, NoRun, Active, ActiveStates
    <3> QED BY <3>1, <3>3 DEF Ordinary
  <2> QED BY <2>1, <2>2
<1>10. ASSUME NEW o \in Slots, RecoverSlot(o) PROVE Ordinary(s)
  <2>1. CASE o # s
    BY <1>0, <1>10, <2>1, SameIsOrdinary DEF RecoverSlot
  <2>2. CASE o = s
    <3>1. occ'[s].state = "interrupted"
      BY <1>0, <1>10, <2>2 DEF RecoverSlot, Rec
    <3>2. run'[s] = Settled("unknown") \/ (run'[s] = run[s] /\ ~Active(s))
      BY <1>0, <1>10, <2>2 DEF RecoverSlot
    <3>3. ~Active(s)' /\ (run'[s].state = "succeeded" => run[s].state = "succeeded")
          /\ (run'[s].handedOff => run[s].handedOff)
      BY <3>2 DEF Settled, NoRun, Active, ActiveStates
    <3> QED BY <3>1, <3>3 DEF Ordinary
  <2> QED BY <2>1, <2>2
<1>11. ASSUME NEW o \in Slots, NEW t \in Readings, ClaimSlot(o, t) PROVE Ordinary(s)
  <2>1. CASE o # s
    BY <1>0, <1>11, <2>1, SameIsOrdinary DEF ClaimSlot
  <2>2. CASE o = s
    <3>1. occ'[s].state = "claimed" /\ occ'[s].lease = t + Lease
      BY <1>0, <1>11, <2>2 DEF ClaimSlot, Rec
    <3>2. run'[s].state = "dispatching" /\ ~run'[s].handedOff
      BY <1>0, <1>11, <2>2 DEF ClaimSlot, NoRun
    <3>3. t + Lease # NoTime
      BY <1>0, StoreAssumption DEF Readings, NoTime
    <3> QED BY <3>1, <3>2, <3>3 DEF Ordinary
  <2> QED BY <2>1, <2>2
<1>12. ASSUME NEW o \in Slots, NEW t \in Readings, RenewLease(o, t) PROVE Ordinary(s)
  <2>1. CASE o # s
    BY <1>0, <1>12, <2>1, SameIsOrdinary DEF RenewLease
  <2>2. CASE o = s
    <3>1. occ'[s].state = occ[s].state /\ occ'[s].lease = t + Lease /\ run' = run
      BY <1>0, <1>12, <2>2 DEF RenewLease, Rec
    <3>2. t + Lease # NoTime
      BY <1>0, StoreAssumption DEF Readings, NoTime
    <3> QED BY <3>1, <3>2 DEF Ordinary, Active
  <2> QED BY <2>1, <2>2
<1>13. ASSUME NEW o \in Slots,
              MarkDelivered(o) \/ MarkRunning(o) \/ RequestCancel(o) \/ MarkCancelIssued(o)
       PROVE  Ordinary(s)
  <2>1. CASE o # s
    BY <1>0, <1>13, <2>1, SameIsOrdinary
       DEF MarkDelivered, MarkRunning, RequestCancel, MarkCancelIssued
  <2>2. CASE o = s
    <3>1. occ' = occ /\ Active(s)
      BY <1>13, <2>2 DEF MarkDelivered, MarkRunning, RequestCancel, MarkCancelIssued, Active,
                         ActiveStates
    <3>2. run'[s].handedOff = run[s].handedOff /\ run'[s].state \in {run[s].state, "running"}
      BY <1>0, <1>13, <2>2 DEF MarkDelivered, MarkRunning, RequestCancel, MarkCancelIssued, RunRec
    <3> QED BY <3>1, <3>2 DEF Ordinary
  <2> QED BY <2>1, <2>2
<1> QED
  BY <1>2, <1>5, <1>6, <1>7, <1>8, <1>9, <1>10, <1>11, <1>12, <1>13
     DEF DefinitionStep, OccurrenceStep

\* A transaction on a run of another slot is ordinary at s.
LEMMA OthersOrdinary ==
  ASSUME TypeOK, NEW s \in Slots, NEW o \in Slots \ {s},
         \/ \E t \in Nat : MarkHandedOff(o, t) \/ ReleaseShellObservation(o, t)
         \/ \E outcome : FinishRun(o, outcome)
  PROVE  Ordinary(s)
  BY SameIsOrdinary DEF MarkHandedOff, ReleaseShellObservation, FinishRun, LeaseCleared, TypeOK

\* A step of ensure_next_occurrence leaves tasks and actions alone and is
\* ordinary at every slot.
LEMMA EnsureMoves ==
  ASSUME TypeOK, DispatchTypeOK, SlotsOK, NEW s \in Slots, NEW q \in Processes, EnsureStep(q)
  PROVE  Ordinary(s) /\ UNCHANGED <<work, exec, starts>>
<1>1. UNCHANGED vars \/ OccurrenceStep
  <2>1. EnsureInsert(q) => ens[q].slot \in Slots
    BY TypeParts DEF EnsureInsert, EnsOK
  <2> QED BY <2>1 DEF EnsureStep, EnsureDefinition, EnsureCount, EnsureLast, EnsureInsert, store,
                      OccurrenceStep
<1>2. UNCHANGED <<work, exec, starts>>
  BY DEF EnsureStep, EnsureDefinition, EnsureCount, EnsureLast, EnsureInsert
<1> QED BY <1>1, <1>2, StoreOrdinary

\* An observation settles the run it looks at, or its step is ordinary.
LEMMA ObserveMoves ==
  ASSUME TypeOK, DispatchTypeOK, SlotsOK, NEW s \in Slots, NEW p \in Dispatchers, Observe(p)
  PROVE  (Ordinary(s) \/ Observed(s)) /\ UNCHANGED <<work, exec, starts>>
<1> SUFFICES Ordinary(s) \/ Observed(s)
  BY DEF Observe
<1>1. PICK k \in pass[p].todo :
         ObserveSettles(p, k) \/ ObserveCancels(p, k) \/ ObserveRuns(p, k) \/ ObserveLeaves(p, k)
  BY DEF Observe
<1>2. k.slot \in Slots /\ pass[p].t \in Nat
  BY PassReads DEF Readings, TypeOK
<1>3. CASE ObserveSettles(p, k)
  <2>1. PICK outcome \in Observation(k.slot, pass[p].t) : FinishRun(k.slot, outcome)
    BY <1>3 DEF ObserveSettles
  <2>2. CASE k.slot = s
    BY <1>2, <2>1, <2>2 DEF Observed
  <2>3. CASE k.slot # s
    BY <1>2, <2>1, <2>3, OthersOrdinary
  <2> QED BY <2>2, <2>3
<1>4. CASE ObserveCancels(p, k) \/ ObserveRuns(p, k) \/ ObserveLeaves(p, k)
  <2>1. \/ UNCHANGED vars
        \/ \E o \in Slots : MarkCancelIssued(o) \/ MarkRunning(o)
    BY <1>2, <1>4 DEF ObserveCancels, ObserveRuns, ObserveLeaves, store
  <2> QED BY <2>1, StoreOrdinary
<1> QED BY <1>1, <1>3, <1>4

\* A claim starts the task of one slot.
LEMMA ClaimMoves ==
  ASSUME TypeOK, DispatchTypeOK, SlotsOK, NEW s \in Slots, NEW p \in Dispatchers, Claim(p)
  PROVE  Ordinary(s) /\ (Quiet(s) \/ Started(s))
<1>1. PICK k \in pass[p].todo :
         \/ UNCHANGED <<store, work>>
         \/ /\ ClaimSlot(k.slot, pass[p].t)
            /\ work' = [work EXCEPT ![k.slot] = [NoWork EXCEPT !.pc = "start", !.owner = p,
                                                               !.kind = def.action]]
  BY DEF Claim, Oldest
<1>2. k.slot \in Slots /\ pass[p].t \in Readings
  BY PassReads
<1>3. Ordinary(s)
  <2>1. UNCHANGED vars \/ OccurrenceStep
    BY <1>1, <1>2 DEF store, OccurrenceStep
  <2> QED BY <2>1, StoreOrdinary
<1>4. exec' = exec /\ starts' = starts
  BY DEF Claim
<1>5. CASE work'[s] = work[s]
  BY <1>3, <1>4, <1>5 DEF Quiet
<1>6. ASSUME k.slot = s, ClaimSlot(s, pass[p].t),
             work' = [work EXCEPT ![s] = [NoWork EXCEPT !.pc = "start", !.owner = p,
                                                        !.kind = def.action]]
      PROVE  Started(s)
  <2>1. work'[s].pc = "start" /\ work'[s].kind = def.action
    BY <1>6, TypeParts DEF WorkOK, NoWork
  <2>2. occ[s].state = "pending" /\ occ'[s].state = "claimed" /\ def' = def /\ edits' = edits
    BY <1>6, Typed DEF ClaimSlot, Rec
  <2> QED BY <1>4, <2>1, <2>2 DEF Started
<1>7. k.slot # s => work'[s] = work[s]
  BY <1>1, TypeParts DEF WorkOK, store
<1> QED BY <1>1, <1>3, <1>5, <1>6, <1>7

\* A task's own step leaves the tasks, the actions and the rows of other slots.
LEMMA TaskKeepsOthers ==
  ASSUME TypeOK, DispatchTypeOK, NEW s \in Slots, NEW o \in Slots \ {s}, TaskMoves(o)
  PROVE  Quiet(s) /\ Ordinary(s)
<1>1. work \in [Slots -> WorkRec] /\ exec \in [Slots -> {"none", "live", "done"}]
      /\ starts \in [Slots -> Nat]
  BY TypeParts DEF WorkOK, ExecOK
<1>2. work'[s] = work[s]
  BY <1>1 DEF TaskMoves, Reread, Begin, Deliver, Execute, Delivered, Poll, Release, HandOff,
              NativeReport, SettleTask, Goto, Settle, Done
<1>3. exec'[s] = exec[s] /\ starts'[s] = starts[s]
  BY <1>1 DEF TaskMoves, Reread, Deliver, Execute, Delivered, Poll, Release, HandOff,
              NativeReport, SettleTask, Starts
<1>4. occ'[s] = occ[s] /\ run'[s] = run[s]
  <2>0. occ \in [Slots -> Rec] /\ run \in [Slots -> RunRec]
    BY Typed
  <2>1. CASE Reread(o) \/ Deliver(o) \/ Execute(o) \/ NativeReport(o)
    BY <2>1 DEF Reread, Deliver, Execute, NativeReport, store, vars
  <2>2. CASE Delivered(o) \/ Poll(o)
    BY <2>0, <2>2 DEF Delivered, Poll, MarkDelivered, MarkRunning, store, vars
  <2>3. CASE Release(o) \/ HandOff(o) \/ SettleTask(o)
    BY <2>0, <2>3 DEF Release, HandOff, SettleTask, ReleaseShellObservation, MarkHandedOff,
                      FinishRun, LeaseCleared, store, vars
  <2> QED BY <2>1, <2>2, <2>3 DEF TaskMoves
<1> QED BY <1>2, <1>3, <1>4, SameIsOrdinary DEF Quiet

\* The steps of the system as one slot sees them.
LEMMA SlotMoves ==
  ASSUME TypeOK, DispatchTypeOK, SlotsOK, [DispatchNext]_all, NEW s \in Slots
  PROVE  \/ Quiet(s) /\ (Ordinary(s) \/ Observed(s))
         \/ Started(s) /\ Ordinary(s)
         \/ TaskMoves(s)
<1> DEFINE Goal == \/ Quiet(s) /\ (Ordinary(s) \/ Observed(s))
                   \/ Started(s) /\ Ordinary(s)
                   \/ TaskMoves(s)
<1>a. ASSUME UNCHANGED <<work, exec, starts>> PROVE Quiet(s)
  BY <1>a DEF Quiet
<1>1. CASE UNCHANGED all \/ Time \/ Manage \/ RemoveCount \/ RemoveDelete
  <2>1. UNCHANGED <<work, exec, starts>>
    BY <1>1 DEF all, Time, Manage, RemoveCount, RemoveDelete, procs
  <2>2. \/ UNCHANGED vars \/ Tick \/ DefinitionStep \/ OccurrenceStep
        \/ \E o \in Slots : RequestCancel(o)
    <3>1. now \in Readings
      BY DEF Readings, TypeOK
    <3>2. SetEnabled(~def.enabled) => DefinitionStep
      BY DEF DefinitionStep, TypeOK, Definition
    <3>3. CASE Manage
      BY <3>1, <3>2, <3>3 DEF Manage, DefinitionStep, OccurrenceStep
    <3> QED BY <1>1, <3>3 DEF all, vars, Time, RemoveCount, RemoveDelete, store, DefinitionStep
  <2> QED BY <2>1, <2>2, <1>a, StoreOrdinary
<1>2. ASSUME NEW p \in Dispatchers,
             StartPass(p) \/ StartRunNow(p) \/ Read(p) \/ EnsureHorizon(p)
      PROVE  Goal
  <2>1. UNCHANGED <<work, exec, starts>> /\ UNCHANGED vars
    BY <1>2 DEF StartPass, StartRunNow, Read, EnsureHorizon, store
  <2> QED BY <2>1, <1>a, StoreOrdinary
<1>3. ASSUME NEW p \in Dispatchers, FinishPass(p) \/ Crash(p) PROVE Goal
  <2>1. work'[s] \in {work[s], NoWork} /\ UNCHANGED <<exec, starts>> /\ UNCHANGED vars
    BY <1>3 DEF FinishPass, Crash, store
  <2> QED BY <2>1, StoreOrdinary DEF Quiet
<1>4. ASSUME NEW p \in Dispatchers, Recover(p) \/ ReconcileOverlap(p) \/ ReconcileMisfire(p)
      PROVE  Goal
  <2>1. PICK k \in pass[p].todo :
           RecoverSlot(k.slot) \/ SkipSlot(k.slot) \/ MissSlot(k.slot) \/ UNCHANGED vars
    BY <1>4 DEF Recover, ReconcileOverlap, ReconcileMisfire, Each, Oldest, store
  <2>2. k.slot \in Slots
    BY PassReads
  <2>3. UNCHANGED vars \/ OccurrenceStep
    BY <2>1, <2>2 DEF OccurrenceStep
  <2>4. UNCHANGED <<work, exec, starts>>
    BY <1>4 DEF Recover, ReconcileOverlap, ReconcileMisfire, Each
  <2> QED BY <2>3, <2>4, <1>a, StoreOrdinary
<1>5. ASSUME NEW p \in Dispatchers, Observe(p) PROVE Goal
  BY <1>5, <1>a, ObserveMoves
<1>6. ASSUME NEW p \in Dispatchers, Claim(p) PROVE Goal
  BY <1>6, ClaimMoves
<1>7. ASSUME NEW q \in Processes, EnsureStep(q) PROVE Goal
  BY <1>7, <1>a, EnsureMoves
<1>8. ASSUME NEW o \in Slots, TaskMoves(o) PROVE Goal
  BY <1>8, TaskKeepsOthers
<1>9. ASSUME NEW o \in Slots, ActionEnds(o) PROVE Goal
  <2>1. UNCHANGED vars /\ UNCHANGED <<work, starts>>
    BY <1>9 DEF ActionEnds, store
  <2>2. exec'[s] = exec[s] \/ (exec[s] = "live" /\ exec'[s] = "done")
    BY <1>9, TypeParts DEF ActionEnds, ExecOK
  <2> QED BY <2>1, <2>2, StoreOrdinary DEF Quiet
<1> QED
  BY <1>1, <1>2, <1>3, <1>4, <1>5, <1>6, <1>7, <1>8, <1>9
     DEF DispatchNext, PassStep, TaskStep, TaskMoves, Processes

-----------------------------------------------------------------------------
(* What the steps of a task do to its slot.                                *)

SameRow(s)    == occ'[s] = occ[s] /\ run'[s] = run[s]
SameAction(s) == exec'[s] = exec[s] /\ starts'[s] = starts[s]
ToSettle(s)   == work'[s].pc = "settle" /\ work'[s].kind = work[s].kind
Launches(s)   == exec'[s] = "live" /\ starts'[s] = starts[s] + 1

\* The helpers that move a task, field by field.
LEMMA TaskFields ==
  ASSUME DispatchTypeOK, NEW s \in Slots
  PROVE  /\ \A pc : Goto(s, pc) => work'[s].pc = pc /\ work'[s].kind = work[s].kind
         /\ \A v : Settle(s, v) => ToSettle(s) /\ work'[s].verdict = v
         /\ Done(s) => work'[s].pc = "done"
         /\ Begin(s) => work'[s].pc = "deliver" /\ work'[s].kind = def.action
         /\ Starts(s) => Launches(s)
<1>1. work \in [Slots -> WorkRec] /\ exec \in [Slots -> {"none", "live", "done"}]
      /\ starts \in [Slots -> Nat]
  BY TypeParts DEF WorkOK, ExecOK
<1>2. \A pc : Goto(s, pc) => work'[s].pc = pc /\ work'[s].kind = work[s].kind
  BY <1>1 DEF Goto, WorkRec
<1>3. \A v : Settle(s, v) => ToSettle(s) /\ work'[s].verdict = v
  BY <1>1 DEF Settle, ToSettle, WorkRec
<1>4. Done(s) => work'[s].pc = "done"
  BY <1>1 DEF Done, NoWork
<1>5. Begin(s) => work'[s].pc = "deliver" /\ work'[s].kind = def.action
  BY <1>1 DEF Begin, WorkRec
<1>6. Starts(s) => Launches(s)
  BY <1>1 DEF Starts, Launches
<1> QED BY <1>2, <1>3, <1>4, <1>5, <1>6

\* A task's steps leave the definition alone.
LEMMA TaskKeepsDefinition ==
  ASSUME NEW s \in Slots, TaskMoves(s) PROVE def' = def /\ edits' = edits
  BY DEF TaskMoves, Reread, Deliver, Execute, Delivered, Poll, Release, HandOff, NativeReport,
         SettleTask, MarkDelivered, MarkRunning, ReleaseShellObservation, MarkHandedOff,
         FinishRun, store, vars

\* The second reading of the definition: the run is refused, or goes on.
LEMMA RereadEffect ==
  ASSUME DispatchTypeOK, NEW s \in Slots, Reread(s)
  PROVE  /\ work[s].pc = "start" /\ SameRow(s) /\ SameAction(s)
         /\ \/ ToSettle(s) /\ work'[s].verdict \in {"blocked", "failed", "skipped"}
            \/ work'[s].pc = "deliver" /\ work'[s].kind = def.action
<1>1. work[s].pc = "start" /\ SameRow(s) /\ SameAction(s)
  BY DEF Reread, AtTask, store, vars, SameRow, SameAction
<1>2. Begin(s) \/ \E v \in {"blocked", "failed", "skipped"} : Settle(s, v)
  BY DEF Reread, Refusals
<1> QED BY <1>1, <1>2, TaskFields

\* Delivery and execution: started or not, and what the task makes of it.
LEMMA DeliverEffect ==
  ASSUME DispatchTypeOK, NEW s \in Slots, Deliver(s)
  PROVE  /\ work[s].pc = "deliver" /\ work[s].kind # "native" /\ SameRow(s)
         /\ \/ Launches(s) /\ work'[s].pc = "delivered" /\ work'[s].kind = work[s].kind
            \/ Launches(s) /\ ToSettle(s) /\ work'[s].verdict = "unknown"
            \/ SameAction(s) /\ ToSettle(s) /\ work'[s].verdict = "failed"
<1>1. work[s].pc = "deliver" /\ work[s].kind # "native" /\ SameRow(s)
  BY DEF Deliver, AtTask, store, vars, SameRow
<1>2. \/ Starts(s) /\ Goto(s, "delivered")
      \/ Starts(s) /\ Settle(s, "unknown")
      \/ SameAction(s) /\ Settle(s, "failed")
  BY DEF Deliver, SameAction
<1> QED BY <1>1, <1>2, TaskFields

LEMMA ExecuteEffect ==
  ASSUME DispatchTypeOK, NEW s \in Slots, Execute(s)
  PROVE  /\ work[s].pc = "deliver" /\ work[s].kind = "native" /\ SameRow(s)
         /\ \/ Launches(s) /\ work'[s].pc = "executing" /\ work'[s].kind = work[s].kind
            \/ SameAction(s) /\ ToSettle(s) /\ work'[s].verdict \in {"blocked", "failed", "unknown"}
<1>1. work[s].pc = "deliver" /\ work[s].kind = "native" /\ SameRow(s)
  BY DEF Execute, AtTask, store, vars, SameRow
<1>2. \/ Starts(s) /\ Goto(s, "executing")
      \/ SameAction(s) /\ \E v \in {"blocked", "failed", "unknown"} : Settle(s, v)
  BY DEF Execute, SameAction
<1> QED BY <1>1, <1>2, TaskFields

LEMMA DeliveredEffect ==
  ASSUME TypeOK, DispatchTypeOK, NEW s \in Slots, Delivered(s)
  PROVE  /\ work[s].pc = "delivered" /\ SameAction(s) /\ occ' = occ
         /\ run'[s].state = run[s].state /\ run'[s].handedOff = run[s].handedOff
         /\ work'[s].kind = work[s].kind
         /\ work'[s].pc = IF work[s].kind = "agent" THEN "handOff" ELSE "poll"
<1>1. work \in [Slots -> WorkRec] /\ run \in [Slots -> RunRec]
  BY TypeParts, Typed DEF WorkOK
<1>2. work[s].pc = "delivered" /\ SameAction(s) /\ occ' = occ
  BY DEF Delivered, AtTask, store, vars, SameAction, MarkDelivered
<1>3. run'[s].state = run[s].state /\ run'[s].handedOff = run[s].handedOff
  BY <1>1 DEF Delivered, MarkDelivered, store, vars, RunRec
<1>4. work'[s].kind = work[s].kind
      /\ work'[s].pc = IF work[s].kind = "agent" THEN "handOff" ELSE "poll"
  BY <1>1 DEF Delivered, WorkRec
<1> QED BY <1>2, <1>3, <1>4

LEMMA PollEffect ==
  ASSUME TypeOK, DispatchTypeOK, NEW s \in Slots, Poll(s)
  PROVE  /\ work[s].pc = "poll" /\ SameAction(s) /\ occ' = occ
         /\ run'[s].handedOff = run[s].handedOff
         /\ \/ run'[s].state = run[s].state
            \/ run[s].state = "dispatching" /\ run'[s].state = "running"
         /\ \/ work'[s].pc = "release" /\ work'[s].kind = work[s].kind
            \/ /\ ToSettle(s)
               /\ work'[s].verdict \in {"succeeded", "failed", "cancelled", "unknown"}
               /\ work'[s].verdict = "succeeded" => exec[s] = "done"
<1>1. run \in [Slots -> RunRec]
  BY Typed
<1>2. work[s].pc = "poll" /\ SameAction(s) /\ occ' = occ
  BY DEF Poll, AtTask, store, vars, SameAction, MarkRunning
<1>3. UNCHANGED run \/ MarkRunning(s)
  BY DEF Poll, store, vars
<1>4. run'[s].handedOff = run[s].handedOff
      /\ \/ run'[s].state = run[s].state
         \/ run[s].state = "dispatching" /\ run'[s].state = "running"
  BY <1>1, <1>3 DEF MarkRunning, RunRec
<1>5. \/ Goto(s, "release")
      \/ Settle(s, "unknown")
      \/ exec[s] = "done" /\ \E v \in {"succeeded", "failed", "cancelled", "unknown"} : Settle(s, v)
  BY DEF Poll, ShellOutcomes
<1>6. \/ work'[s].pc = "release" /\ work'[s].kind = work[s].kind
      \/ /\ ToSettle(s)
         /\ work'[s].verdict \in {"succeeded", "failed", "cancelled", "unknown"}
         /\ work'[s].verdict = "succeeded" => exec[s] = "done"
  BY <1>5, TaskFields
<1> QED BY <1>2, <1>4, <1>6

LEMMA ReleaseEffect ==
  ASSUME TypeOK, DispatchTypeOK, NEW s \in Slots, Release(s)
  PROVE  /\ work[s].pc = "release" /\ SameAction(s) /\ work'[s].pc = "done"
         /\ occ'[s].state = occ[s].state
         /\ run'[s].state = run[s].state /\ run'[s].handedOff = run[s].handedOff
<1>1. occ \in [Slots -> Rec] /\ run \in [Slots -> RunRec]
  BY Typed
<1>2. work[s].pc = "release" /\ SameAction(s) /\ work'[s].pc = "done"
  BY TaskFields DEF Release, AtTask, SameAction
<1>3. UNCHANGED rows \/ ReleaseShellObservation(s, work[s].since)
  BY DEF Release, store, vars, rows
<1>4. occ'[s].state = occ[s].state
  BY <1>1, <1>3 DEF ReleaseShellObservation, LeaseCleared, rows, Rec
<1>5. run'[s].state = run[s].state /\ run'[s].handedOff = run[s].handedOff
  BY <1>1, <1>3 DEF ReleaseShellObservation, rows, RunRec
<1> QED BY <1>2, <1>4, <1>5

LEMMA HandOffEffect ==
  ASSUME TypeOK, DispatchTypeOK, NEW s \in Slots, HandOff(s)
  PROVE  /\ work[s].pc = "handOff" /\ SameAction(s) /\ work'[s].pc = "done"
         /\ occ'[s].state = occ[s].state
         /\ SameRow(s) \/ (run'[s].state = "running" /\ run'[s].handedOff)
<1>1. occ \in [Slots -> Rec] /\ run \in [Slots -> RunRec]
  BY Typed
<1>2. work[s].pc = "handOff" /\ SameAction(s) /\ work'[s].pc = "done"
  BY TaskFields DEF HandOff, AtTask, SameAction
<1>3. UNCHANGED rows \/ MarkHandedOff(s, now)
  BY DEF HandOff, store, vars, rows
<1>4. occ'[s].state = occ[s].state
  BY <1>1, <1>3 DEF MarkHandedOff, LeaseCleared, rows, Rec
<1>5. SameRow(s) \/ (run'[s].state = "running" /\ run'[s].handedOff)
  BY <1>1, <1>3 DEF MarkHandedOff, rows, RunRec, SameRow
<1> QED BY <1>2, <1>4, <1>5

LEMMA ReportEffect ==
  ASSUME DispatchTypeOK, NEW s \in Slots, NativeReport(s)
  PROVE  /\ work[s].pc = "executing" /\ exec[s] = "done" /\ SameRow(s) /\ SameAction(s)
         /\ ToSettle(s) /\ work'[s].verdict # "skipped"
<1>1. work[s].pc = "executing" /\ exec[s] = "done" /\ SameRow(s) /\ SameAction(s)
  BY DEF NativeReport, AtTask, store, vars, SameRow, SameAction
<1>2. \E v \in Verdicts \ {"skipped"} : Settle(s, v)
  BY DEF NativeReport
<1> QED BY <1>1, <1>2, TaskFields

\* What a run is settled with is what its two rows say.
LEMMA FinishEffect ==
  ASSUME TypeOK, NEW s \in Slots, NEW outcome, FinishRun(s, outcome)
  PROVE  /\ ~run'[s].handedOff /\ run'[s].state = outcome
         /\ occ'[s].state \in {occ[s].state, "completed", outcome}
<1>1. occ \in [Slots -> Rec] /\ run \in [Slots -> RunRec]
  BY Typed
<1>2. ~run'[s].handedOff /\ run'[s].state = outcome
  BY <1>1 DEF FinishRun, Settled, NoRun
<1>3. occ'[s].state \in {occ[s].state, "completed", outcome}
  BY <1>1 DEF FinishRun, OccurrenceState, Rec
<1> QED BY <1>2, <1>3

LEMMA SettleEffect ==
  ASSUME TypeOK, DispatchTypeOK, NEW s \in Slots, SettleTask(s)
  PROVE  /\ work[s].pc = "settle" /\ SameAction(s) /\ work'[s].pc = "done"
         /\ SameRow(s) \/ FinishRun(s, work[s].verdict)
<1>1. work[s].pc = "settle" /\ SameAction(s) /\ work'[s].pc = "done"
  BY TaskFields DEF SettleTask, AtTask, SameAction
<1>2. SameRow(s) \/ FinishRun(s, work[s].verdict)
  BY DEF SettleTask, store, vars, SameRow
<1> QED BY <1>1, <1>2

-----------------------------------------------------------------------------
(***************************************************************************)
(* History does not lie about effects.  HonestHistory is not inductive: it *)
(* says nothing of a task that is about to settle its run.  HonestTask     *)
(* says what a verdict has to rest on, HonestRow what a row rests on.      *)
(***************************************************************************)
HonestTask(s) ==
    /\ exec[s] # "none" => starts[s] > 0
    /\ work[s].pc = "settle" /\ work[s].verdict = "skipped" => starts[s] = 0
    /\ work[s].pc = "settle" /\ work[s].verdict = "succeeded" => exec[s] = "done"

HonestRow(s) ==
    /\ occ[s].state \in {"missed", "skipped"} => starts[s] = 0 /\ work[s].pc \notin Early
    /\ run[s].state = "succeeded" => exec[s] = "done"

HonestInv == \A s \in Slots : HonestTask(s) /\ HonestRow(s)

\* A pending slot, and a slot before its start, was never started.
LEMMA NotYetStarted ==
  ASSUME DispatchTypeOK, SlotsOK, StartsInv, NEW s \in Slots
  PROVE  /\ occ[s].state = "pending" => starts[s] = 0 /\ work[s].pc \notin Early
         /\ work[s].pc \in Early => starts[s] = 0
<1>1. starts[s] \in Nat
  BY TypeParts DEF ExecOK
<1>2. StartedOnce(s) /\ RowAgrees(s)
  BY DEF StartsInv, SlotsOK, SlotOK
<1> QED BY <1>1, <1>2 DEF StartedOnce, Opened, RowAgrees, Live, Early

\* What an observation may say of a run (interpret_shell, agent_outcome).
LEMMA ObservationSays ==
  ASSUME NEW s \in Slots, NEW t, NEW outcome \in Observation(s, t)
  PROVE  /\ outcome \notin {"missed", "skipped"}
         /\ outcome = "succeeded" => exec[s] = "done"
         /\ outcome = "blocked" => run[s].handedOff
<1>1. outcome \in {"blocked", "unknown", "waiting_approval", "succeeded", "failed", "cancelled"}
  BY DEF Observation, AgentOutcomes, ShellOutcomes
<1>2. outcome = "succeeded" => exec[s] = "done"
  BY DEF Observation
<1>3. outcome = "blocked" => run[s].handedOff
  BY DEF Observation, ShellOutcomes
<1> QED BY <1>1, <1>2, <1>3

\* A quiet step keeps what a task's verdict rests on.
LEMMA QuietIsHonest ==
  ASSUME NEW s \in Slots, Quiet(s), HonestTask(s)
  PROVE  HonestTask(s)'
  BY DEF Quiet, HonestTask, NoWork

\* So does every step of every process, for the slot and for its task.
LEMMA HonestInductive ==
  TypeOK /\ DispatchTypeOK /\ SlotsOK /\ StartsInv /\ HonestInv /\ [DispatchNext]_all => HonestInv'
<1> SUFFICES ASSUME TypeOK, DispatchTypeOK, SlotsOK, StartsInv, HonestInv, [DispatchNext]_all,
                    NEW s \in Slots
             PROVE  HonestTask(s)' /\ HonestRow(s)'
  BY DEF HonestInv
<1>a. HonestTask(s) /\ HonestRow(s) /\ starts[s] \in Nat
  BY TypeParts DEF HonestInv, ExecOK
<1>1. CASE Quiet(s) /\ Ordinary(s)
  <2>1. HonestTask(s)'
    BY <1>a, <1>1, QuietIsHonest
  <2>2. work'[s].pc \in Early => work[s].pc \in Early
    BY <1>1 DEF Quiet, NoWork, Early
  <2>3. HonestRow(s)'
    BY <1>a, <1>1, <2>2, NotYetStarted DEF Quiet, Ordinary, HonestRow
  <2> QED BY <2>1, <2>3
<1>2. CASE Quiet(s) /\ Observed(s)
  <2>1. HonestTask(s)'
    BY <1>a, <1>2, QuietIsHonest
  <2>a. PICK t \in Nat : \E outcome \in Observation(s, t) : FinishRun(s, outcome)
    BY <1>2 DEF Observed
  <2>2. PICK outcome \in Observation(s, t) : FinishRun(s, outcome)
    BY <2>a
  <2>3. /\ occ'[s].state \in {occ[s].state, "completed", outcome}
        /\ run'[s].state = outcome
    BY <2>2, FinishEffect
  <2>4. outcome \notin {"missed", "skipped"} /\ (outcome = "succeeded" => exec[s] = "done")
    BY ObservationSays
  <2>5. work'[s].pc \in Early => work[s].pc \in Early
    BY <1>2 DEF Quiet, NoWork, Early
  <2>6. HonestRow(s)'
    BY <1>a, <1>2, <2>3, <2>4, <2>5 DEF Quiet, HonestRow
  <2> QED BY <2>1, <2>6
<1>3. CASE Started(s) /\ Ordinary(s)
  <2>1. starts[s] = 0
    BY <1>3, NotYetStarted DEF Started
  <2> QED BY <1>a, <1>3, <2>1 DEF Started, Ordinary, HonestTask, HonestRow
<1>4. ASSUME SameRow(s), SameAction(s), work'[s].pc \in Early => work[s].pc \in Early
      PROVE  HonestRow(s)'
  BY <1>a, <1>4 DEF SameRow, SameAction, HonestRow
<1>5. CASE Reread(s)
  <2>1. starts[s] = 0
    BY <1>5, RereadEffect, NotYetStarted DEF Early
  <2>2. HonestTask(s)'
    BY <1>a, <1>5, <2>1, RereadEffect DEF HonestTask, SameAction, ToSettle
  <2>3. work[s].pc \in Early
    BY <1>5, RereadEffect DEF Early
  <2> QED BY <1>4, <1>5, <2>2, <2>3, RereadEffect
<1>6. CASE Deliver(s) \/ Execute(s)
  <2>1. starts[s] = 0 /\ work[s].pc \in Early /\ SameRow(s)
    BY <1>6, DeliverEffect, ExecuteEffect, NotYetStarted DEF Early
  <2>2. /\ Launches(s) \/ SameAction(s)
        /\ \/ work'[s].pc \in {"delivered", "executing"}
           \/ work'[s].pc = "settle" /\ work'[s].verdict \in {"blocked", "failed", "unknown"}
    BY <1>6, DeliverEffect, ExecuteEffect DEF ToSettle
  <2>3. HonestTask(s)'
    BY <1>a, <2>1, <2>2 DEF HonestTask, Launches, SameAction
  <2>4. occ[s].state \notin {"missed", "skipped"} /\ run[s].state # "succeeded"
    <3>1. exec[s] = "none"
      BY <1>a, <2>1, TypeParts DEF HonestTask, ExecOK
    <3> QED BY <1>a, <2>1, <3>1 DEF HonestRow
  <2> QED BY <2>1, <2>3, <2>4 DEF HonestRow, SameRow
<1>7. CASE Delivered(s)
  <2>1. /\ SameAction(s) /\ occ' = occ /\ run'[s].state = run[s].state
        /\ work'[s].pc \in {"handOff", "poll"}
    BY <1>7, DeliveredEffect
  <2> QED BY <1>a, <2>1 DEF HonestTask, HonestRow, SameAction, Early
<1>8. CASE Poll(s)
  <2>1. /\ SameAction(s) /\ occ' = occ
        /\ run'[s].state = "succeeded" => run[s].state = "succeeded"
        /\ \/ work'[s].pc = "release"
           \/ /\ work'[s].pc = "settle" /\ work'[s].verdict # "skipped"
              /\ work'[s].verdict = "succeeded" => exec[s] = "done"
    BY <1>8, PollEffect DEF ToSettle
  <2> QED BY <1>a, <2>1 DEF HonestTask, HonestRow, SameAction, Early
<1>9. CASE Release(s) \/ HandOff(s)
  <2>1. /\ SameAction(s) /\ work'[s].pc = "done" /\ occ'[s].state = occ[s].state
        /\ run'[s].state = "succeeded" => run[s].state = "succeeded"
    BY <1>9, ReleaseEffect, HandOffEffect DEF SameRow
  <2> QED BY <1>a, <2>1 DEF HonestTask, HonestRow, SameAction, Early
<1>10. CASE NativeReport(s)
  <2>1. HonestTask(s)'
    BY <1>a, <1>10, ReportEffect DEF HonestTask, SameAction, ToSettle
  <2> QED BY <1>4, <1>10, <2>1, ReportEffect DEF ToSettle, Early
<1>11. CASE SettleTask(s)
  <2>1. work[s].pc = "settle" /\ SameAction(s) /\ work'[s].pc = "done"
    BY <1>11, SettleEffect
  <2>2. HonestTask(s)'
    BY <1>a, <2>1 DEF HonestTask, SameAction
  <2>3. CASE SameRow(s)
    BY <1>4, <2>1, <2>2, <2>3 DEF Early
  <2>4. CASE FinishRun(s, work[s].verdict)
    <3>1. /\ occ'[s].state \in {occ[s].state, "completed", work[s].verdict}
          /\ run'[s].state = work[s].verdict
      BY <2>4, FinishEffect
    <3>2. work[s].verdict # "missed"
      BY StoreAssumption, TypeParts DEF WorkOK, WorkRec, Outcomes
    <3> QED BY <1>a, <2>1, <2>2, <3>1, <3>2 DEF HonestTask, HonestRow, SameAction, Early
  <2> QED BY <1>11, <2>3, <2>4, SettleEffect
<1> QED
  BY <1>1, <1>2, <1>3, <1>5, <1>6, <1>7, <1>8, <1>9, <1>10, <1>11, SlotMoves DEF TaskMoves

-----------------------------------------------------------------------------
(***************************************************************************)
(* The kind of action.  A task and a run are of the kind the definition    *)
(* declared when they were started; an update may declare another one, and *)
(* then a reconciler that selects by the present kind passes the run over. *)
(* Steady says that no update did: none was committed, or there is only    *)
(* one kind to declare.                                                    *)
(***************************************************************************)
Steady == edits = 0 \/ \A a, b \in Actions : a = b

TaskKind(s) ==
    /\ work[s].pc \notin {"none", "done"} => work[s].kind = def.action
    /\ work[s].pc = "handOff" => work[s].kind = "agent"
    /\ work[s].pc \in {"poll", "release"} => work[s].kind = "shell"
    /\ work[s].pc = "executing" => work[s].kind = "native"
    /\ work[s].pc = "delivered" => work[s].kind # "native"

RunKind(s) ==
    /\ run[s].handedOff => def.action = "agent" /\ (Active(s) => run[s].state = "running")
    /\ Active(s) /\ occ[s].lease = NoTime => run[s].handedOff \/ def.action = "shell"

BlockedUnstarted(s) ==
    def.action = "shell" =>
        /\ work[s].pc = "settle" /\ work[s].verdict = "blocked" => starts[s] = 0
        /\ occ[s].state = "blocked" => starts[s] = 0 /\ work[s].pc \notin Early

KindInv == Steady => \A s \in Slots : TaskKind(s) /\ RunKind(s) /\ BlockedUnstarted(s)

\* No step makes a definition steady again, and a steady one keeps its kind.
LEMMA SteadyKept ==
  ASSUME TypeOK, TypeOK', [Next]_vars, Steady'
  PROVE  Steady /\ def'.action = def.action
<1>1. def.action \in Actions /\ def'.action \in Actions /\ edits \in Nat
  BY DEF TypeOK, Definition
<1>2. (edits' = edits /\ def'.action = def.action) \/ edits' = edits + 1
  <2>1. CASE UNCHANGED <<def, edits>>
    BY <2>1
  <2>2. CASE CreateDefinition \/ DeleteDefinition \/ \E b \in BOOLEAN : SetEnabled(b)
    BY <2>2 DEF CreateDefinition, DeleteDefinition, SetEnabled, TypeOK, Definition
  <2>3. CASE \E trigger \in Triggers, overlap \in Overlaps, misfire \in Misfires,
              action \in Actions, t \in Readings :
              UpdateDefinition(trigger, overlap, misfire, action, t)
    BY <2>3 DEF UpdateDefinition
  <2>4. CASE Tick \/ OccurrenceStep \/ RunStep
    BY <2>1, <2>4
       DEF OccurrenceStep, RunStep, Tick, InsertNext, CreateRunNow, SkipSlot, MissSlot,
           RecoverSlot, ClaimSlot, RenewLease, MarkDelivered, MarkRunning, MarkHandedOff,
           ReleaseShellObservation, RequestCancel, MarkCancelIssued, FinishRun
  <2> QED BY <2>1, <2>2, <2>3, <2>4 DEF Next, DefinitionStep, vars
<1> QED BY <1>1, <1>2 DEF Steady

\* Every step of every process keeps tasks and runs of the declared kind.
LEMMA KindInductive ==
  /\ TypeOK /\ TypeOK' /\ DispatchTypeOK /\ SlotsOK /\ StartsInv /\ KindInv
  /\ [DispatchNext]_all
  => KindInv'
<1> SUFFICES ASSUME TypeOK, TypeOK', DispatchTypeOK, SlotsOK, StartsInv, KindInv,
                    [DispatchNext]_all, Steady', NEW s \in Slots
             PROVE  TaskKind(s)' /\ RunKind(s)' /\ BlockedUnstarted(s)'
  BY DEF KindInv
<1>a. Steady /\ def'.action = def.action
  BY StoreSteps, SteadyKept
<1>b. TaskKind(s) /\ RunKind(s) /\ BlockedUnstarted(s) /\ starts[s] \in Nat
  BY <1>a, TypeParts DEF KindInv, ExecOK
<1>c. work[s].kind \in Action
  BY TypeParts DEF WorkOK, WorkRec
<1>1. ASSUME Quiet(s) PROVE TaskKind(s)' /\ (work'[s].pc \in Early => work[s].pc \in Early)
  BY <1>a, <1>b, <1>1 DEF Quiet, TaskKind, NoWork, Early
<1>2. ASSUME Ordinary(s) PROVE RunKind(s)'
  BY <1>a, <1>b, <1>2 DEF Ordinary, RunKind
<1>3. CASE Quiet(s) /\ Ordinary(s)
  <2>1. BlockedUnstarted(s)'
    BY <1>a, <1>b, <1>1, <1>3 DEF Quiet, Ordinary, BlockedUnstarted, NoWork
  <2> QED BY <1>1, <1>2, <1>3, <2>1
<1>4. ASSUME NEW outcome, FinishRun(s, outcome), outcome \in Outcomes PROVE RunKind(s)'
  <2>1. ~run'[s].handedOff /\ run'[s].state = outcome
    BY <1>4, FinishEffect
  <2> QED BY <1>4, <2>1 DEF RunKind, Active, ActiveStates, Outcomes
<1>5. CASE Quiet(s) /\ Observed(s)
  <2>1. PICK t \in Nat : \E outcome \in Observation(s, t) : FinishRun(s, outcome)
    BY <1>5 DEF Observed
  <2>2. PICK outcome \in Observation(s, t) : FinishRun(s, outcome)
    BY <2>1
  <2>3. occ'[s].state \in {occ[s].state, "completed", outcome}
    BY <2>2, FinishEffect
  <2>4. outcome = "blocked" => def.action = "agent"
    BY <1>b, ObservationSays DEF RunKind
  <2>5. BlockedUnstarted(s)'
    BY <1>a, <1>b, <1>1, <1>5, <2>3, <2>4 DEF Quiet, BlockedUnstarted, NoWork
  <2>6. outcome \in Outcomes
    BY ObservationType, StoreAssumption
  <2> QED BY <1>1, <1>4, <1>5, <2>2, <2>5, <2>6
<1>6. CASE Started(s) /\ Ordinary(s)
  <2>1. TaskKind(s)'
    BY <1>a, <1>6 DEF Started, TaskKind
  <2>2. BlockedUnstarted(s)'
    BY <1>6 DEF Started, BlockedUnstarted
  <2> QED BY <1>2, <1>6, <2>1, <2>2
<1>7. ASSUME SameRow(s) PROVE Ordinary(s) /\ occ'[s].state = occ[s].state
  BY <1>7, SameIsOrdinary DEF SameRow
<1>8. CASE Reread(s)
  <2>1. starts'[s] = 0 /\ work[s].pc \in Early
    BY <1>8, RereadEffect, NotYetStarted DEF Early, SameAction
  <2>2. TaskKind(s)'
    BY <1>a, <1>b, <1>8, RereadEffect DEF TaskKind, ToSettle
  <2>3. occ'[s].state = "blocked" => def.action # "shell"
    BY <1>b, <1>7, <1>8, <2>1, RereadEffect DEF BlockedUnstarted
  <2> QED BY <1>a, <1>2, <1>7, <1>8, <2>1, <2>2, <2>3, RereadEffect DEF BlockedUnstarted
<1>9. CASE Deliver(s) \/ Execute(s)
  <2>1. work[s].pc = "deliver" /\ SameRow(s)
    BY <1>9, DeliverEffect, ExecuteEffect
  <2>2. /\ work'[s].kind = work[s].kind
        /\ \/ work'[s].pc = "delivered" /\ work[s].kind # "native"
           \/ work'[s].pc = "executing" /\ work[s].kind = "native"
           \/ /\ work'[s].pc = "settle"
              /\ work'[s].verdict = "blocked" => work[s].kind = "native"
    BY <1>9, DeliverEffect, ExecuteEffect DEF ToSettle
  <2>3. work[s].kind = def.action
    BY <1>b, <2>1 DEF TaskKind
  <2>4. TaskKind(s)'
    BY <1>a, <2>2, <2>3 DEF TaskKind
  <2>5. occ'[s].state = "blocked" => def.action # "shell"
    BY <1>b, <1>7, <2>1 DEF BlockedUnstarted, Early
  <2>6. BlockedUnstarted(s)'
    BY <1>a, <2>2, <2>3, <2>5 DEF BlockedUnstarted
  <2> QED BY <1>2, <1>7, <2>1, <2>4, <2>6
<1>10. CASE Delivered(s)
  <2>1. /\ work[s].pc = "delivered" /\ SameAction(s) /\ occ' = occ
        /\ run'[s].state = run[s].state /\ run'[s].handedOff = run[s].handedOff
        /\ work'[s].kind = work[s].kind
        /\ work'[s].pc = IF work[s].kind = "agent" THEN "handOff" ELSE "poll"
    BY <1>10, DeliveredEffect
  <2>2. TaskKind(s)'
    BY <1>a, <1>b, <1>c, <2>1 DEF TaskKind, Action
  <2>3. RunKind(s)'
    BY <1>a, <1>b, <2>1 DEF RunKind, Active
  <2>4. BlockedUnstarted(s)'
    BY <1>a, <1>b, <2>1 DEF BlockedUnstarted, SameAction, Early
  <2> QED BY <2>2, <2>3, <2>4
<1>11. CASE Poll(s)
  <2>1. /\ work[s].pc = "poll" /\ SameAction(s) /\ occ' = occ
        /\ run'[s].handedOff = run[s].handedOff
        /\ \/ run'[s].state = run[s].state
           \/ run[s].state = "dispatching" /\ run'[s].state = "running"
    BY <1>11, PollEffect
  <2>2. /\ work'[s].kind = work[s].kind
        /\ \/ work'[s].pc = "release"
           \/ work'[s].pc = "settle" /\ work'[s].verdict # "blocked"
    BY <1>11, PollEffect DEF ToSettle
  <2>3. TaskKind(s)'
    BY <1>a, <1>b, <2>1, <2>2 DEF TaskKind
  <2>4. RunKind(s)'
    BY <1>a, <1>b, <2>1 DEF RunKind, Active, ActiveStates
  <2>5. BlockedUnstarted(s)'
    BY <1>a, <1>b, <2>1, <2>2 DEF BlockedUnstarted, SameAction, Early
  <2> QED BY <2>3, <2>4, <2>5
<1>12. CASE Release(s) \/ HandOff(s)
  <2>1. /\ SameAction(s) /\ work'[s].pc = "done" /\ occ'[s].state = occ[s].state
    BY <1>12, ReleaseEffect, HandOffEffect
  <2>2. TaskKind(s)' /\ BlockedUnstarted(s)'
    BY <1>a, <1>b, <2>1 DEF TaskKind, BlockedUnstarted, SameAction, Early
  <2>3. CASE Release(s)
    <3>1. /\ def.action = "shell"
          /\ run'[s].state = run[s].state /\ run'[s].handedOff = run[s].handedOff
      BY <1>b, <2>3, ReleaseEffect DEF TaskKind
    <3> QED BY <1>a, <1>b, <2>2, <3>1 DEF RunKind, Active
  <2>4. CASE HandOff(s)
    <3>1. def.action = "agent"
      BY <1>b, <2>4, HandOffEffect DEF TaskKind
    <3>2. CASE SameRow(s)
      BY <1>2, <1>7, <2>2, <3>2
    <3>3. CASE run'[s].state = "running" /\ run'[s].handedOff
      BY <1>a, <2>2, <3>1, <3>3 DEF RunKind
    <3> QED BY <2>4, <3>2, <3>3, HandOffEffect
  <2> QED BY <1>12, <2>3, <2>4
<1>13. CASE NativeReport(s)
  <2>1. /\ work[s].pc = "executing" /\ SameRow(s)
        /\ work'[s].pc = "settle" /\ work'[s].kind = work[s].kind
    BY <1>13, ReportEffect DEF ToSettle
  <2>2. work[s].kind = def.action /\ def.action = "native"
    BY <1>b, <2>1 DEF TaskKind
  <2>3. TaskKind(s)' /\ BlockedUnstarted(s)'
    BY <1>a, <2>1, <2>2 DEF TaskKind, BlockedUnstarted
  <2> QED BY <1>2, <1>7, <2>1, <2>3
<1>14. CASE SettleTask(s)
  <2>1. work[s].pc = "settle" /\ SameAction(s) /\ work'[s].pc = "done"
    BY <1>14, SettleEffect
  <2>2. TaskKind(s)'
    BY <2>1 DEF TaskKind
  <2>3. CASE SameRow(s)
    <3>1. BlockedUnstarted(s)'
      BY <1>a, <1>b, <1>7, <2>1, <2>3 DEF BlockedUnstarted, SameAction, Early
    <3> QED BY <1>2, <1>7, <2>2, <2>3, <3>1
  <2>4. CASE FinishRun(s, work[s].verdict)
    <3>1. work[s].verdict \in Outcomes
      BY StoreAssumption, TypeParts DEF WorkOK, WorkRec
    <3>2. occ'[s].state \in {occ[s].state, "completed", work[s].verdict}
      BY <2>4, FinishEffect
    <3>3. BlockedUnstarted(s)'
      BY <1>a, <1>b, <2>1, <3>2 DEF BlockedUnstarted, SameAction, Early
    <3> QED BY <1>4, <2>2, <2>4, <3>1, <3>3
  <2> QED BY <1>14, <2>3, <2>4, SettleEffect
<1> QED
  BY <1>3, <1>5, <1>6, <1>8, <1>9, <1>10, <1>11, <1>12, <1>13, <1>14, SlotMoves DEF TaskMoves

\* What the invariants above rest on and say, in one formula.
HistoryInv ==
    TypeOK /\ DispatchTypeOK /\ SlotsOK /\ StartsInv /\ HonestInv /\ KindInv

\* The dispatchers start with it and keep it.
LEMMA HistoryInvariant == DispatchSpec => []HistoryInv
<1>1. DispatchInit => HistoryInv
  <2> SUFFICES ASSUME DispatchInit PROVE HistoryInv
    OBVIOUS
  <2>1. Init /\ TypeOK
    BY InitTyped DEF DispatchInit
  <2>2. DispatchTypeOK
    BY InitTypes
  <2>3. SlotsOK
    BY <2>1 DEF Init, SlotsOK, SlotOK, RowAgrees, HasDeadline, Active, NoRow, NoRun, ActiveStates,
                Outcomes
  <2>4. StartsInv
    BY DEF DispatchInit, StartsInv, StartedOnce, NoWork
  <2>5. \A s \in Slots : /\ occ[s].state = "none" /\ run[s].state = "none" /\ ~run[s].handedOff
                         /\ exec[s] = "none" /\ work[s].pc = "none" /\ ~Active(s)
    BY <2>1 DEF DispatchInit, Init, NoRow, NoRun, NoWork, Active, ActiveStates
  <2>6. HonestInv /\ KindInv
    BY <2>5 DEF HonestInv, HonestTask, HonestRow, KindInv, TaskKind, RunKind, BlockedUnstarted
  <2> QED BY <2>1, <2>2, <2>3, <2>4, <2>6 DEF HistoryInv
<1>2. HistoryInv /\ [DispatchNext]_all => HistoryInv'
  <2> SUFFICES ASSUME HistoryInv, [DispatchNext]_all PROVE HistoryInv'
    OBVIOUS
  <2>1. TypeOK /\ DispatchTypeOK /\ SlotsOK /\ StartsInv /\ HonestInv /\ KindInv
    BY DEF HistoryInv
  <2>2. [Next]_vars
    BY <2>1, StoreSteps
  <2>3. TypeOK' /\ DispatchTypeOK' /\ SlotsOK'
    BY <2>1, <2>2, TypeKept, ProcessesTyped, SlotsOKInductive
  <2>4. StartsInv' /\ HonestInv' /\ KindInv'
    BY <2>1, <2>3, StartsInductive, HonestInductive, KindInductive
  <2> QED BY <2>3, <2>4 DEF HistoryInv
<1> QED BY <1>1, <1>2, PTL DEF DispatchSpec

\* A slot recorded as missed or skipped was never started, neither was a shell
\* run recorded as blocked, and a run recorded as succeeded has ended
\* (reconcile_misfires, reconcile_overlaps, finish_run_with_facts).
THEOREM HistoryIsHonest == DispatchSpec => []HonestHistory
<1>1. HistoryInv => HonestHistory
  <2> SUFFICES ASSUME HistoryInv, NEW s \in Slots
               PROVE  /\ Refused(s) => starts[s] = 0
                      /\ run[s].state = "succeeded" => exec[s] = "done"
    BY DEF HonestHistory
  <2>1. HonestRow(s)
    BY DEF HistoryInv, HonestInv
  <2>2. edits = 0 => BlockedUnstarted(s)
    BY DEF HistoryInv, KindInv, Steady
  <2> QED BY <2>1, <2>2 DEF HonestRow, BlockedUnstarted, Refused
<1> QED BY <1>1, HistoryInvariant, PTL

\* While no update changed the kind of action, every active run has a lease
\* that recovery watches or is selected by one of the two reconcilers
\* (recover_expired, handed_off_runs, observable_shell_runs).
THEOREM RunsAreReached == DispatchSpec => [](Steady => NoOrphanedRun)
<1>1. HistoryInv => (Steady => NoOrphanedRun)
  <2> SUFFICES ASSUME HistoryInv, Steady, NEW s \in Slots, Active(s), occ[s].lease = NoTime
               PROVE  s \in HandedOff \/ s \in ObservableShells
    BY DEF NoOrphanedRun
  <2>1. RunKind(s)
    BY DEF HistoryInv, KindInv
  <2>2. run[s].handedOff \in BOOLEAN
    BY Typed DEF HistoryInv, RunRec
  <2>3. CASE run[s].handedOff
    BY <2>1, <2>3 DEF RunKind, HandedOff
  <2>4. CASE ~run[s].handedOff
    <3>1. RowAgrees(s) /\ HasDeadline(s)
      BY DEF HistoryInv, SlotsOK, SlotOK
    <3>2. run[s].delivered /\ run[s].deadline # NoTime
      BY <3>1 DEF RowAgrees, HasDeadline
    <3> QED BY <2>1, <2>4, <3>2 DEF RunKind, ObservableShells
  <2> QED BY <2>2, <2>3, <2>4
<1> QED BY <1>1, HistoryInvariant, PTL

-----------------------------------------------------------------------------
(***************************************************************************)
(* Effects under edits and removals.  RunKind holds only while no update   *)
(* changed the kind of action; what holds in any case is that an active    *)
(* run that was handed off is running, so handed_off_runs selects it, and  *)
(* that a run without a lease has the delivery and the deadline            *)
(* observable_shell_runs asks for.                                         *)
(***************************************************************************)
HandOffRuns(s) == run[s].handedOff /\ Active(s) => run[s].state = "running"

\* Every step of every process keeps it.
LEMMA HandOffRunsKept ==
  ASSUME TypeOK, DispatchTypeOK, SlotsOK, [DispatchNext]_all, NEW s \in Slots, HandOffRuns(s)
  PROVE  HandOffRuns(s)'
<1>1. ASSUME Ordinary(s) PROVE HandOffRuns(s)'
  BY <1>1 DEF Ordinary, HandOffRuns
<1>2. ASSUME SameRow(s) PROVE HandOffRuns(s)'
  BY <1>1, <1>2, SameIsOrdinary DEF SameRow
<1>3. ASSUME NEW outcome, FinishRun(s, outcome) PROVE HandOffRuns(s)'
  BY <1>3, FinishEffect DEF HandOffRuns
<1>4. CASE Observed(s)
  BY <1>3, <1>4 DEF Observed
<1>5. ASSUME run'[s].handedOff = run[s].handedOff,
             run'[s].state = run[s].state \/ run'[s].state = "running"
      PROVE  HandOffRuns(s)'
  BY <1>5 DEF HandOffRuns, Active
<1>6. CASE TaskMoves(s)
  <2>1. CASE Reread(s) \/ Deliver(s) \/ Execute(s) \/ NativeReport(s)
    BY <1>2, <2>1, RereadEffect, DeliverEffect, ExecuteEffect, ReportEffect
  <2>2. CASE Delivered(s) \/ Poll(s) \/ Release(s)
    BY <1>5, <2>2, DeliveredEffect, PollEffect, ReleaseEffect
  <2>3. CASE HandOff(s)
    BY <1>2, <2>3, HandOffEffect DEF HandOffRuns
  <2>4. CASE SettleTask(s)
    BY <1>2, <1>3, <2>4, SettleEffect
  <2> QED BY <1>6, <2>1, <2>2, <2>3, <2>4 DEF TaskMoves
<1> QED BY <1>1, <1>4, <1>6, SlotMoves

\* While its definition is there, a started action is settled in the history,
\* under a lease, or selected by a reconciler; the one exception is a released
\* shell run whose definition was edited to another kind (recover_expired,
\* handed_off_runs, observable_shell_runs, update_definition).
THEOREM EffectsStayOnRecord == DispatchSpec => []EffectsOnRecord
<1> DEFINE Runs == \A s \in Slots : HandOffRuns(s)
<1>1. DispatchInit => Runs
  BY DEF DispatchInit, Init, NoRun, HandOffRuns
<1>2. HistoryInv /\ Runs /\ [DispatchNext]_all => Runs'
  BY HandOffRunsKept DEF HistoryInv
<1>3. HistoryInv /\ Runs => EffectsOnRecord
  <2> SUFFICES ASSUME HistoryInv, Runs, Live, NEW s \in StartedSlots, occ[s].state \notin Closed,
                      ~(Active(s) /\ occ[s].lease # NoTime), ~Disowned(s)
               PROVE  s \in HandedOff \/ s \in ObservableShells
    BY DEF EffectsOnRecord
  <2>1. s \in Slots /\ starts[s] > 0
    BY DEF StartedSlots
  <2>2. Active(s) /\ occ[s].state = "claimed" /\ occ[s].lease = NoTime
    <3>1. Opened(s) /\ RowAgrees(s) /\ occ[s].state \in OccStates
      BY <2>1, Typed DEF HistoryInv, StartsInv, StartedOnce, SlotsOK, SlotOK, Rec
    <3>2. occ[s].state = "claimed"
      BY <3>1 DEF Opened, Live, OccStates
    <3> QED BY <3>1, <3>2 DEF RowAgrees
  <2>3. run[s].delivered /\ run[s].deadline # NoTime
    BY <2>1, <2>2 DEF HistoryInv, SlotsOK, SlotOK, HasDeadline
  <2>4. CASE run[s].handedOff
    BY <2>1, <2>2, <2>4 DEF HandOffRuns, HandedOff
  <2>5. CASE ~run[s].handedOff
    <3>1. edits \in Nat
      BY DEF HistoryInv, TypeOK
    <3>2. def.action = "shell"
      <4>1. edits = 0 \/ def.action = "shell"
        BY <2>2, <2>3, <2>5, <3>1 DEF Disowned
      <4>2. edits = 0 => RunKind(s)
        BY <2>1 DEF HistoryInv, KindInv, Steady
      <4> QED BY <2>2, <2>5, <4>1, <4>2 DEF RunKind
    <3> QED BY <2>1, <2>2, <2>3, <2>5, <3>2 DEF ObservableShells
  <2> QED BY <2>4, <2>5
<1> HIDE DEF Runs
<1> QED BY <1>1, <1>2, <1>3, HistoryInvariant, PTL DEF DispatchSpec

\* Between the COUNT and the DELETE the definition is there, and what had been
\* started at the COUNT is final.
RemovalInv == mgr.step = "delete" => Live /\ \A s \in mgr.started : occ[s].state \in Closed

\* Every step of every process keeps it.
LEMMA RemovalInductive == HistoryInv /\ RemovalInv /\ [DispatchNext]_all => RemovalInv'
<1> SUFFICES ASSUME HistoryInv, RemovalInv, [DispatchNext]_all PROVE RemovalInv'
  OBVIOUS
<1>0. TypeOK /\ DispatchTypeOK /\ SlotsOK /\ [Next]_vars /\ mgr.started \subseteq Slots
  BY StoreSteps, TypeParts DEF HistoryInv, MgrOK
<1>1. CASE RemoveCount
  <2>1. mgr'.started = StartedSlots /\ Live' /\ occ' = occ /\ Live /\ NoneActive
    BY <1>1 DEF RemoveCount, ToDelete, store, vars, Live
  <2>2. ASSUME NEW s \in StartedSlots PROVE occ[s].state \in Closed
    <3>1. s \in Slots /\ starts[s] > 0
      BY DEF StartedSlots
    <3>2. Opened(s) /\ RowAgrees(s) /\ occ[s].state \in OccStates
      BY <3>1, Typed DEF HistoryInv, StartsInv, StartedOnce, SlotsOK, SlotOK, Rec
    <3>3. occ[s].state # "claimed"
      BY <2>1, <3>1, <3>2 DEF RowAgrees, NoneActive
    <3> QED BY <2>1, <3>2, <3>3 DEF Opened, Live, OccStates
  <2> QED BY <2>1, <2>2 DEF RemovalInv
<1>2. CASE RemoveDelete
  BY <1>2 DEF RemoveDelete, NoRemoval, RemovalInv
<1>3. CASE mgr' = mgr /\ (Live => Live')
  <2>1. SUFFICES ASSUME mgr.step = "delete", NEW s \in mgr.started
                 PROVE  Live' /\ occ'[s].state \in Closed
    BY <1>3 DEF RemovalInv
  <2>2. Live /\ Live' /\ occ[s].state \in Closed
    BY <1>3, <2>1 DEF RemovalInv
  <2>3. ~DeleteDefinition
    BY <2>2, Typed, <1>0 DEF DeleteDefinition, Live, Definition
  <2> QED BY <1>0, <2>2, <2>3, ClosedIsKept
<1> QED BY <1>0, <1>1, <1>2, <1>3, RemovalMoves

\* remove_definition deletes the record of a started action only when it is
\* final, or when the action was started after its COUNT (store.rs,
\* remove_definition).
THEOREM RemovalIsSettled == DispatchSpec => RemovalSettles
<1> DEFINE Step == Live /\ ~Live' =>
                      \A s \in StartedSlots : occ[s].state \in Closed \/ s \notin mgr.started
<1>1. DispatchInit => RemovalInv
  BY DEF DispatchInit, RemovalInv, NoRemoval
<1>2. HistoryInv /\ RemovalInv /\ [DispatchNext]_all => [Step]_all
  <2> SUFFICES ASSUME HistoryInv, RemovalInv, [DispatchNext]_all, Live, ~Live' PROVE Step
    OBVIOUS
  <2>1. RemoveDelete
    BY RemovalMoves DEF HistoryInv, RemoveCount, store, vars, Live
  <2> QED BY <2>1 DEF RemoveDelete, RemovalInv
<1>3. RemovalSettles <=> [][Step]_all
  BY DEF RemovalSettles
<1> HIDE DEF Step
<1> QED BY <1>1, <1>2, <1>3, RemovalInductive, HistoryInvariant, PTL DEF DispatchSpec

-----------------------------------------------------------------------------
(***************************************************************************)
(* Rows that appear.  A row is inserted by a command (the first slot, the  *)
(* slot of a new rule, a run-now) or by the INSERT of                      *)
(* ensure_next_occurrence; no other step makes one, and none turns a row   *)
(* back into a pending slot of the rule.                                   *)
(***************************************************************************)
Still == Present' \subseteq Present /\ Generated' \subseteq Generated

Appears(n) == n \in Slots /\ Present' \subseteq Present \cup {n} /\ Generated' \subseteq Generated \cup {n}

\* A step that keeps or closes each row makes none.
LEMMA StillRows ==
  ASSUME TypeOK,
         \/ UNCHANGED vars \/ Tick \/ DeleteDefinition \/ RunStep
         \/ \E b \in BOOLEAN : SetEnabled(b)
         \/ \E o \in Slots : \/ SkipSlot(o) \/ MissSlot(o) \/ RecoverSlot(o)
                             \/ \E t \in Readings : ClaimSlot(o, t) \/ RenewLease(o, t)
  PROVE  Still
<1>0. occ \in [Slots -> Rec]
  BY Typed
<1> DEFINE Fades(s) == \/ occ'[s].state = "none"
                       \/ /\ occ'[s].state = occ[s].state /\ occ'[s].runNow = occ[s].runNow
                       \/ occ[s].state # "none" /\ occ'[s].state # "pending"
<1>1. ASSUME NEW s \in Slots PROVE Fades(s)
  <2>1. CASE \/ UNCHANGED vars \/ Tick \/ \E b \in BOOLEAN : SetEnabled(b)
    BY <2>1 DEF vars, Tick, SetEnabled
  <2>2. CASE DeleteDefinition
    BY <2>2 DEF DeleteDefinition, NoRow
  <2>3. ASSUME NEW o \in Slots, SkipSlot(o) \/ MissSlot(o) \/ RecoverSlot(o) PROVE Fades(s)
    <3>1. CASE o = s
      BY <1>0, <2>3, <3>1 DEF SkipSlot, MissSlot, RecoverSlot, Rec
    <3>2. CASE o # s
      BY <1>0, <2>3, <3>2 DEF SkipSlot, MissSlot, RecoverSlot
    <3> QED BY <3>1, <3>2
  <2>4. ASSUME NEW o \in Slots, NEW t \in Readings, ClaimSlot(o, t) \/ RenewLease(o, t)
        PROVE  Fades(s)
    <3>1. CASE o = s
      BY <1>0, <2>4, <3>1 DEF ClaimSlot, RenewLease, Rec
    <3>2. CASE o # s
      BY <1>0, <2>4, <3>2 DEF ClaimSlot, RenewLease
    <3> QED BY <3>1, <3>2
  <2>5. ASSUME NEW o \in Slots, MarkDelivered(o) \/ MarkRunning(o) \/ RequestCancel(o)
                                \/ MarkCancelIssued(o)
        PROVE  Fades(s)
    BY <2>5 DEF MarkDelivered, MarkRunning, RequestCancel, MarkCancelIssued
  <2>6. ASSUME NEW o \in Slots, NEW t \in Readings, MarkHandedOff(o, t) \/ ReleaseShellObservation(o, t)
        PROVE  Fades(s)
    BY <1>0, <2>6 DEF MarkHandedOff, ReleaseShellObservation, LeaseCleared, Rec
  <2>7. ASSUME NEW o \in Slots, NEW v \in Verdicts, FinishRun(o, v) PROVE Fades(s)
    <3>1. OccurrenceState(v) \notin {"none", "pending"}
      BY StoreAssumption DEF OccurrenceState, Outcomes
    <3>2. CASE o = s
      BY <1>0, <2>7, <3>1, <3>2 DEF FinishRun, Rec
    <3>3. CASE o # s
      BY <1>0, <2>7, <3>3 DEF FinishRun
    <3> QED BY <3>2, <3>3
  <2> QED BY <2>1, <2>2, <2>3, <2>4, <2>5, <2>6, <2>7 DEF RunStep
<1> QED BY <1>1 DEF Still, Present, Generated, Pending

\* An insertion adds its instant, and no slot of the rule when it is a run-now.
LEMMA InsertedRow ==
  ASSUME TypeOK, NEW n \in Slots, NEW b \in BOOLEAN, occ[n].state = "none", occ' = Inserted(occ, n, b)
  PROVE  Appears(n) /\ (b => Generated' \subseteq Generated)
<1>0. occ \in [Slots -> Rec]
  BY Typed
<1>1. \A s \in Slots \ {n} : occ'[s] = occ[s]
  BY <1>0 DEF Inserted
<1>2. occ'[n].runNow = b
  BY <1>0 DEF Inserted
<1> QED BY <1>1, <1>2 DEF Appears, Present, Generated, Pending

\* So does an update that replaces the pending slots of the old rule.
LEMMA ReplacedRow ==
  ASSUME TypeOK, NEW trigger \in Triggers, NEW overlap \in Overlaps, NEW misfire \in Misfires,
         NEW action \in Actions, NEW t \in Readings,
         UpdateDefinition(trigger, overlap, misfire, action, t)
  PROVE  \/ Still
         \/ trigger # def.trigger /\ Appears(ReplacementOccurrence(trigger, t))
<1>1. CASE trigger = def.trigger
  BY <1>1 DEF UpdateDefinition, Still, Present, Generated, Pending
<1>2. CASE trigger # def.trigger
  <2> DEFINE kept == [o \in Slots |-> IF Kept(o) THEN occ[o] ELSE [NoRow EXCEPT !.gen = occ[o].gen]]
             slot == ReplacementOccurrence(trigger, t)
  <2>1. slot \in Slots /\ occ' = Inserted(kept, slot, FALSE)
    BY <1>2 DEF UpdateDefinition
  <2>2. \A s \in Slots : kept[s] = occ[s] \/ kept[s].state = "none"
    BY DEF NoRow
  <2>3. \A s \in Slots \ {slot} : occ'[s] = kept[s]
    BY <2>1 DEF Inserted
  <2> HIDE DEF kept, slot
  <2>4. Appears(slot)
    BY <2>1, <2>2, <2>3 DEF Appears, Present, Generated, Pending
  <2> QED BY <1>2, <2>4 DEF slot
<1> QED BY <1>1, <1>2

Inserts(q) == EnsureInsert(q) /\ Live /\ InsertNext(ens[q].slot)

Commanded ==
    \/ CreateDefinition
    \/ CreateRunNow(now)
    \/ \E trigger \in Triggers, overlap \in Overlaps, misfire \in Misfires, action \in Actions :
          "update" \in Commands /\ UpdateDefinition(trigger, overlap, misfire, action, now)

\* No other step of the system makes a row.
LEMMA RowsAppear ==
  ASSUME TypeOK, DispatchTypeOK, [DispatchNext]_all
  PROVE  Still \/ (Manage /\ Commanded) \/ \E q \in Processes : Inserts(q)
<1>a. UNCHANGED vars => Still
  BY StillRows
<1>1. CASE UNCHANGED all \/ Time \/ RemoveCount \/ RemoveDelete
  <2>1. UNCHANGED vars \/ Tick \/ DeleteDefinition
    BY <1>1 DEF all, vars, Time, RemoveCount, RemoveDelete, store
  <2> QED BY <2>1, StillRows
<1>2. CASE Manage
  <2>1. SetEnabled(~def.enabled) => Still
    BY StillRows DEF TypeOK, Definition
  <2>2. \A s \in Slots : RequestCancel(s) => Still
    BY StillRows DEF RunStep
  <2> QED BY <1>2, <2>1, <2>2 DEF Manage, Commanded
<1>3. ASSUME NEW p \in Dispatchers, StartPass(p) \/ Read(p) \/ EnsureHorizon(p) \/ FinishPass(p)
                                    \/ StartRunNow(p) \/ Crash(p)
      PROVE  Still
  BY <1>3, <1>a DEF StartPass, Read, EnsureHorizon, FinishPass, StartRunNow, Crash, store
<1>4. ASSUME NEW p \in Dispatchers, Recover(p) \/ ReconcileOverlap(p) \/ ReconcileMisfire(p)
      PROVE  Still
  <2>1. PICK k \in pass[p].todo :
           RecoverSlot(k.slot) \/ SkipSlot(k.slot) \/ MissSlot(k.slot) \/ UNCHANGED vars
    BY <1>4 DEF Recover, ReconcileOverlap, ReconcileMisfire, Each, Oldest, store
  <2>2. k.slot \in Slots
    BY PassReads
  <2> QED BY <2>1, <2>2, StillRows
<1>5. ASSUME NEW p \in Dispatchers, Claim(p) PROVE Still
  <2>1. PICK k \in pass[p].todo : ClaimSlot(k.slot, pass[p].t) \/ UNCHANGED vars
    BY <1>5 DEF Claim, Oldest, store
  <2>2. k.slot \in Slots /\ pass[p].t \in Readings
    BY PassReads
  <2> QED BY <2>1, <2>2, StillRows
<1>6. ASSUME NEW p \in Dispatchers, Observe(p) PROVE Still
  <2>1. PICK k \in pass[p].todo :
           ObserveSettles(p, k) \/ ObserveCancels(p, k) \/ ObserveRuns(p, k) \/ ObserveLeaves(p, k)
    BY <1>6 DEF Observe
  <2>2. k.slot \in Slots
    BY PassReads
  <2>3. RunStep \/ UNCHANGED vars
    <3>1. CASE ObserveSettles(p, k)
      <4>1. PICK o \in Observation(k.slot, pass[p].t) : FinishRun(k.slot, o)
        BY <3>1 DEF ObserveSettles
      <4> QED BY <2>2, <4>1, ObservationType DEF RunStep
    <3>2. CASE ObserveCancels(p, k) \/ ObserveRuns(p, k) \/ ObserveLeaves(p, k)
      BY <2>2, <3>2 DEF ObserveCancels, ObserveRuns, ObserveLeaves, store, RunStep
    <3> QED BY <2>1, <3>1, <3>2
  <2> QED BY <2>3, StillRows
<1>7. ASSUME NEW q \in Processes, EnsureStep(q) PROVE Still \/ Inserts(q)
  <2>1. UNCHANGED vars \/ Inserts(q)
    BY <1>7 DEF EnsureStep, EnsureDefinition, EnsureCount, EnsureLast, EnsureInsert, store, Inserts
  <2> QED BY <1>a, <2>1
<1>8. ASSUME NEW s \in Slots, TaskMoves(s) \/ ActionEnds(s) PROVE Still
  <2>0. work[s].since \in Readings /\ now \in Readings /\ work[s].verdict \in Verdicts
    BY TypeParts DEF WorkOK, WorkRec, SinceOK, Readings, TypeOK
  <2>1. CASE Reread(s) \/ Deliver(s) \/ Execute(s) \/ NativeReport(s) \/ ActionEnds(s)
    BY <1>a, <2>1 DEF Reread, Deliver, Execute, NativeReport, ActionEnds, store
  <2>2. CASE Delivered(s) \/ Poll(s) \/ Release(s) \/ HandOff(s) \/ SettleTask(s)
    <3>1. UNCHANGED vars \/ RunStep
      BY <2>0, <2>2 DEF Delivered, Poll, Release, HandOff, SettleTask, store, RunStep
    <3> QED BY <3>1, StillRows
  <2> QED BY <1>8, <2>1, <2>2 DEF TaskMoves
<1> QED
  BY <1>1, <1>2, <1>3, <1>4, <1>5, <1>6, <1>7, <1>8
     DEF DispatchNext, PassStep, TaskStep, TaskMoves, Processes

-----------------------------------------------------------------------------
(***************************************************************************)
(* Rules.  next_after is later than the instant it is asked for, and by an *)
(* interval at most unless it is the anchor.                               *)
(***************************************************************************)
LEMMA TriggerFields ==
  ASSUME NEW trigger \in Triggers
  PROVE  \/ trigger.kind = "once" /\ trigger.at \in Int
         \/ trigger.kind = "every" /\ trigger.anchor \in Int /\ trigger.every \in Nat
  BY TriggerAssumption

\* A product with a natural number grows with its other factor.
LEMMA TimesGrows ==
  ASSUME NEW a \in Int, NEW b \in Int, NEW c \in Nat, a <= b
  PROVE  a * c \in Int /\ b * c \in Int /\ a * c <= b * c
  OBVIOUS

LEMMA NextEveryBound ==
  ASSUME NEW anchor \in Int, NEW every \in Nat \ {0}, NEW t \in Int
  PROVE  /\ NextEvery(anchor, every, t) \in Int
         /\ NextEvery(anchor, every, t) > t
         /\ \/ NextEvery(anchor, every, t) = anchor
            \/ NextEvery(anchor, every, t) <= t + every * TicksPerSecond
<1>1. CASE t < anchor
  BY <1>1 DEF NextEvery
<1>2. CASE ~(t < anchor)
  <2> DEFINE elapsed == (t - anchor) \div TicksPerSecond
             rest == every - (elapsed % every)
  <2>1. TicksPerSecond \in Nat \ {0}
    BY TicksPerSecondAssumption
  <2>2. elapsed \in Int
    BY <2>1
  <2> HIDE DEF elapsed
  <2>3. elapsed % every \in 0 .. every - 1
    BY <2>2
  <2>4. rest \in Int /\ 1 <= rest /\ rest <= every
    BY <2>3
  <2> HIDE DEF rest
  <2>5. /\ rest * TicksPerSecond \in Int /\ every * TicksPerSecond \in Int
        /\ 1 * TicksPerSecond <= rest * TicksPerSecond
        /\ rest * TicksPerSecond <= every * TicksPerSecond
    BY <2>1, <2>4, TimesGrows
  <2>6. NextEvery(anchor, every, t) = t + rest * TicksPerSecond
    BY <1>2 DEF NextEvery, rest, elapsed
  <2> QED BY <2>1, <2>5, <2>6
<1> QED BY <1>1, <1>2

\* What next_after answers for a valid rule.
LEMMA NextAfterBound ==
  ASSUME NEW trigger \in Triggers, Valid(trigger), NEW t \in Int
  PROVE  \/ NextAfter(trigger, t) = NoTime
         \/ /\ NextAfter(trigger, t) \in Int /\ NextAfter(trigger, t) > t
            /\ \/ NextAfter(trigger, t) = FirstOccurrence(trigger)
               \/ NextAfter(trigger, t) <= t + Interval(trigger)
<1>1. CASE trigger.kind = "once"
  BY <1>1 DEF NextAfter
<1>2. CASE trigger.kind = "every"
  <2>1. trigger.anchor \in Int /\ trigger.every \in Nat \ {0}
    BY <1>2, TriggerFields DEF Valid
  <2> QED BY <1>2, <2>1, NextEveryBound DEF NextAfter, FirstOccurrence, Interval
<1> QED BY <1>1, <1>2, TriggerFields

\* An interval is a number of ticks.
LEMMA IntervalType == ASSUME NEW trigger \in Triggers PROVE Interval(trigger) \in Nat
<1>1. TicksPerSecond \in Nat
  BY TicksPerSecondAssumption
<1>2. CASE trigger.kind = "every"
  <2>1. trigger.every \in Nat
    BY <1>2, TriggerFields
  <2> QED BY <1>1, <1>2, <2>1 DEF Interval
<1>3. CASE trigger.kind # "every"
  BY <1>3 DEF Interval
<1> QED BY <1>2, <1>3

-----------------------------------------------------------------------------
(***************************************************************************)
(* The latest row.  MAX is taken of the rows there are: they always have a *)
(* latest one, because they appear one by one.                             *)
(***************************************************************************)
HasTop(S) == \A T \in SUBSET S : T # {} => \E x \in T : \A y \in T : y <= x

LEMMA TopOfSubset == ASSUME NEW S, NEW R \in SUBSET S, HasTop(S) PROVE HasTop(R)
  BY DEF HasTop

LEMMA TopAdded ==
  ASSUME NEW S \in SUBSET Int, HasTop(S), NEW n \in Int
  PROVE  HasTop(S \cup {n})
<1> SUFFICES ASSUME NEW T \in SUBSET (S \cup {n}), T # {}
             PROVE  \E x \in T : \A y \in T : y <= x
  BY DEF HasTop
<1>1. CASE T \ {n} = {}
  <2>1. n \in T /\ \A y \in T : y = n
    BY <1>1
  <2> QED BY <2>1
<1>2. CASE T \ {n} # {}
  <2>1. PICK m \in T \ {n} : \A y \in T \ {n} : y <= m
    <3>1. T \ {n} \in SUBSET S
      OBVIOUS
    <3> QED BY <1>2, <3>1 DEF HasTop
  <2>2. m \in Int /\ \A y \in T : y \in Int
    OBVIOUS
  <2>3. CASE n \in T /\ m < n
    BY <2>1, <2>2, <2>3
  <2>4. CASE n \in T => n <= m
    BY <2>1, <2>2, <2>4
  <2> QED BY <2>2, <2>3, <2>4
<1> QED BY <1>1, <1>2

LEMMA MaxIsIn == ASSUME NEW S, HasTop(S), S # {} PROVE Max(S) \in S
<1>1. \E x \in S : \A y \in S : y <= x
  BY DEF HasTop
<1>2. \E x \in S : \A y \in S : x >= y
  BY <1>1
<1> QED BY <1>2 DEF Max

\* Where a slot of the rule that appears comes from.
Source(n) ==
    \/ CreateDefinition /\ n = FirstOccurrence(def.trigger)
    \/ \E trigger \in Triggers : /\ "update" \in Commands /\ edits' = edits + 1 /\ now' = now
                                 /\ Valid(trigger) /\ n = ReplacementOccurrence(trigger, now)
    \/ \E q \in Processes : Inserts(q) /\ n = ens[q].slot

LEMMA NewSlots ==
  ASSUME TypeOK, DispatchTypeOK, SlotsOK, [DispatchNext]_all
  PROVE  Still \/ \E n : Appears(n) /\ (n \in Generated' => n \in Generated \/ Source(n))
<1> DEFINE Goal == Still \/ \E n : Appears(n) /\ (n \in Generated' => n \in Generated \/ Source(n))
<1>1. CASE CreateDefinition
  <2> DEFINE first == FirstOccurrence(def.trigger)
  <2>1. first \in Slots /\ occ' = Inserted(occ, first, FALSE)
    BY <1>1 DEF CreateDefinition
  <2>2. occ[first].state = "none"
    BY <1>1, <2>1 DEF CreateDefinition, SlotsOK, SlotOK, RowAgrees, Live
  <2>3. Source(first)
    BY <1>1 DEF Source
  <2> HIDE DEF first
  <2>4. Appears(first)
    BY <2>1, <2>2, InsertedRow
  <2> QED BY <2>3, <2>4
<1>2. CASE CreateRunNow(now)
  <2>1. CASE now \in Slots
    <3>1. Appears(now) /\ Generated' \subseteq Generated
      BY <1>2, <2>1, InsertedRow DEF CreateRunNow
    <3> QED BY <3>1
  <2>2. CASE now \notin Slots
    <3>1. \A s \in Slots : occ'[s] = occ[s]
      BY <1>2, <2>2, Typed DEF CreateRunNow, Inserted
    <3> QED BY <3>1 DEF Still, Present, Generated, Pending
  <2> QED BY <2>1, <2>2
<1>3. ASSUME NEW trigger \in Triggers, NEW overlap \in Overlaps, NEW misfire \in Misfires,
             NEW action \in Actions, "update" \in Commands,
             UpdateDefinition(trigger, overlap, misfire, action, now)
      PROVE  Goal
  <2> DEFINE n == ReplacementOccurrence(trigger, now)
  <2>1. Still \/ Appears(n)
    <3>1. now \in Readings
      BY DEF Readings, TypeOK
    <3> QED BY <1>3, <3>1, ReplacedRow
  <2>2. Source(n)
    BY <1>3 DEF Source, UpdateDefinition
  <2> HIDE DEF n
  <2> QED BY <2>1, <2>2
<1>4. ASSUME NEW q \in Processes, Inserts(q) PROVE Goal
  <2>1. ens[q].slot \in Slots
    BY <1>4, TypeParts DEF Inserts, EnsureInsert, EnsOK
  <2>2. Appears(ens[q].slot)
    BY <1>4, <2>1, InsertedRow DEF Inserts, InsertNext
  <2>3. Source(ens[q].slot)
    BY <1>4 DEF Source
  <2> QED BY <2>2, <2>3
<1> QED BY <1>1, <1>2, <1>3, <1>4, RowsAppear DEF Commanded

\* The rows keep a latest one.
LEMMA LatestKept ==
  ASSUME TypeOK, DispatchTypeOK, SlotsOK, [DispatchNext]_all, HasTop(Present)
  PROVE  HasTop(Present')
<1>1. Present \in SUBSET Int
  <2>1. Present \subseteq Slots
    BY DEF Present
  <2> QED BY <2>1, StoreAssumption
<1>2. ASSUME NEW n, Appears(n) PROVE HasTop(Present')
  <2>1. n \in Int /\ Present' \in SUBSET (Present \cup {n})
    BY <1>2, StoreAssumption DEF Appears
  <2>2. HasTop(Present \cup {n})
    BY <1>1, <2>1, TopAdded
  <2> QED BY <2>1, <2>2, TopOfSubset
<1>3. CASE Still
  BY <1>3, TopOfSubset DEF Still
<1> QED BY <1>2, <1>3, NewSlots

-----------------------------------------------------------------------------
\* What a step does to the ensure_next_occurrence call of one process.
LEMMA FrameMoves ==
  ASSUME TypeOK, DispatchTypeOK, [DispatchNext]_all, NEW q \in Processes
  PROVE  \/ ens'[q] = ens[q] \/ ens'[q] = NoFrame
         \/ \E t \in Nat : t <= now /\ ens'[q] = [NoFrame EXCEPT !.step = "definition", !.t = t]
         \/ EnsureDefinition(q) \/ EnsureCount(q) \/ EnsureLast(q)
<1>0. ens \in [Processes -> FrameRec] /\ now \in Nat /\ now <= now
  BY TypeParts DEF EnsOK, TypeOK
<1> DEFINE Goal == \/ ens'[q] = ens[q] \/ ens'[q] = NoFrame
                   \/ \E t \in Nat :
                         t <= now /\ ens'[q] = [NoFrame EXCEPT !.step = "definition", !.t = t]
                   \/ EnsureDefinition(q) \/ EnsureCount(q) \/ EnsureLast(q)
<1>a. ASSUME NEW o \in Processes, NEW t \in Nat, t <= now, EnsureFrom(o, t) PROVE Goal
  <2>1. CASE o = q
    BY <1>0, <1>a, <2>1 DEF EnsureFrom
  <2>2. CASE o # q
    BY <1>0, <1>a, <2>2 DEF EnsureFrom
  <2> QED BY <2>1, <2>2
<1>b. ASSUME NEW o \in Processes, Leave(o) PROVE Goal
  BY <1>0, <1>b DEF Leave
<1>1. CASE UNCHANGED all \/ Time \/ Manage \/ RemoveCount \/ RemoveDelete
  BY <1>1 DEF all, Time, Manage, RemoveCount, RemoveDelete, procs
<1>2. ASSUME NEW p \in Dispatchers,
             StartPass(p) \/ StartRunNow(p) \/ Read(p) \/ Claim(p) \/ FinishPass(p)
      PROVE  ens' = ens
  BY <1>2 DEF StartPass, StartRunNow, Read, Claim, FinishPass
<1>3. ASSUME NEW p \in Dispatchers, Crash(p) PROVE Goal
  BY <1>3 DEF Crash
<1>4. ASSUME NEW p \in Dispatchers,
             Recover(p) \/ ReconcileOverlap(p) \/ ReconcileMisfire(p) \/ EnsureHorizon(p) \/ Observe(p)
      PROVE  Goal
  <2>1. ens' = ens \/ EnsureFrom(p, pass[p].t) \/ EnsureFrom(p, now)
    BY <1>4 DEF Recover, ReconcileOverlap, ReconcileMisfire, Each, EnsureHorizon, Observe,
                ObserveSettles, ObserveCancels, ObserveRuns, ObserveLeaves
  <2>2. pass[p].t \in Nat /\ pass[p].t <= now /\ p \in Processes
    BY TypeParts DEF PassOK, PassRec, Processes
  <2>3. CASE EnsureFrom(p, pass[p].t)
    BY <1>a, <2>2, <2>3
  <2>4. CASE EnsureFrom(p, now)
    BY <1>0, <1>a, <2>2, <2>4
  <2> QED BY <2>1, <2>3, <2>4
<1>5. ASSUME NEW s \in Slots, TaskMoves(s) \/ ActionEnds(s) PROVE Goal
  <2>1. ens' = ens \/ EnsureFrom(s, now)
    BY <1>5 DEF TaskMoves, Reread, Deliver, Execute, Delivered, Poll, Release, HandOff,
                NativeReport, SettleTask, ActionEnds
  <2>2. s \in Processes
    BY DEF Processes
  <2>3. CASE EnsureFrom(s, now)
    BY <1>0, <1>a, <2>2, <2>3
  <2> QED BY <2>1, <2>3
<1>6. ASSUME NEW o \in Processes, EnsureStep(o) PROVE Goal
  <2>1. CASE o = q
    BY <1>6, <1>b, <2>1 DEF EnsureStep, EnsureInsert
  <2>2. CASE o # q
    BY <1>0, <1>6, <2>2
       DEF EnsureStep, EnsureDefinition, EnsureCount, EnsureLast, EnsureInsert, Leave
  <2> QED BY <2>1, <2>2
<1> QED
  BY <1>1, <1>2, <1>3, <1>4, <1>5, <1>6 DEF DispatchNext, PassStep, TaskStep, TaskMoves, Processes

-----------------------------------------------------------------------------
(***************************************************************************)
(* The horizon.  NearHorizon speaks of rows; a row of the future may also  *)
(* be on its way in a frame that has read a rule, or chosen the slot, and  *)
(* not inserted it yet.  The invariant therefore says of every frame that  *)
(* its clock is a past one, that the rule it read may be the definition's, *)
(* and that the slot it is about to insert is near.                        *)
(***************************************************************************)
Rules == IF edits = 0 THEN {def.trigger} ELSE Triggers

Near(x) ==
    x > now => \E trigger \in Rules : x = FirstOccurrence(trigger) \/ x <= now + Interval(trigger)

FrameNear(q) ==
    /\ ens[q].t <= now
    /\ ens[q].step \in {"count", "last"} => ens[q].trigger \in Rules /\ Valid(ens[q].trigger)
    /\ ens[q].step = "insert" => Near(ens[q].slot)

HorizonInv ==
    /\ HasTop(Present)
    /\ Live => Valid(def.trigger)
    /\ \A s \in Generated : Near(s)
    /\ \A q \in Processes : FrameNear(q)

\* An update lets every trigger be the rule; no other step changes the rule.
LEMMA RulesGrow ==
  ASSUME TypeOK, [Next]_vars
  PROVE  /\ Rules \subseteq Rules' /\ Rules' \subseteq Triggers
         /\ (Live => Valid(def.trigger)) => (Live => Valid(def.trigger))'
<1>0. def \in Definition /\ edits \in Nat
  BY DEF TypeOK
<1>1. CASE UNCHANGED <<def, edits>>
  BY <1>0, <1>1 DEF Rules, Live, Definition
<1>2. CASE CreateDefinition \/ DeleteDefinition \/ \E b \in BOOLEAN : SetEnabled(b)
  <2>1. def'.trigger = def.trigger /\ edits' = edits
    BY <1>0, <1>2 DEF CreateDefinition, DeleteDefinition, SetEnabled, Definition
  <2>2. Live' => Valid(def.trigger) \/ Live
    BY <1>0, <1>2 DEF CreateDefinition, DeleteDefinition, SetEnabled, Definition, Live
  <2>3. Rules' = Rules /\ Rules \subseteq Triggers
    BY <1>0, <2>1 DEF Rules, Definition
  <2> QED BY <2>1, <2>2, <2>3 DEF Valid
<1>3. ASSUME NEW trigger \in Triggers, NEW overlap \in Overlaps, NEW misfire \in Misfires,
             NEW action \in Actions, NEW t \in Readings,
             UpdateDefinition(trigger, overlap, misfire, action, t)
      PROVE  /\ Rules \subseteq Rules' /\ Rules' \subseteq Triggers
             /\ (Live => Valid(def.trigger)) => (Live => Valid(def.trigger))'
  <2>1. edits' = edits + 1 /\ def'.trigger = trigger /\ Valid(trigger)
    BY <1>0, <1>3 DEF UpdateDefinition, Definition
  <2>2. Rules' = Triggers /\ Rules \subseteq Triggers
    BY <1>0, <2>1 DEF Rules, Definition
  <2> QED BY <2>1, <2>2 DEF Valid
<1>4. CASE Tick \/ OccurrenceStep \/ RunStep
  BY <1>1, <1>4
     DEF OccurrenceStep, RunStep, Tick, InsertNext, CreateRunNow, SkipSlot, MissSlot,
         RecoverSlot, ClaimSlot, RenewLease, MarkDelivered, MarkRunning, MarkHandedOff,
         ReleaseShellObservation, RequestCancel, MarkCancelIssued, FinishRun
<1> QED BY <1>1, <1>2, <1>3, <1>4 DEF Next, DefinitionStep, vars

\* What is near stays near as the clock advances and rules are added.
LEMMA NearKept ==
  ASSUME TypeOK, [Next]_vars, NEW x \in Int, Near(x)
  PROVE  Near(x)'
<1>1. now \in Nat /\ now' \in Nat /\ now <= now' /\ Rules \subseteq Rules' /\ Rules' \subseteq Triggers
  BY ClockAdvances, RulesGrow DEF TypeOK
<1> SUFFICES ASSUME x > now'
             PROVE  \E trigger \in Rules' : x = FirstOccurrence(trigger) \/ x <= now' + Interval(trigger)
  BY DEF Near, FirstOccurrence, Interval
<1>2. PICK trigger \in Rules : x = FirstOccurrence(trigger) \/ x <= now + Interval(trigger)
  BY <1>1 DEF Near
<1>3. Interval(trigger) \in Nat
  BY <1>1, IntervalType
<1>4. x = FirstOccurrence(trigger) \/ x <= now' + Interval(trigger)
  BY <1>1, <1>2, <1>3
<1> QED BY <1>1, <1>4

\* The slot a frame chooses to insert is near: next_after is asked for the
\* latest row or for the frame's clock, and neither is in the future then.
LEMMA ChosenIsNear ==
  ASSUME TypeOK, DispatchTypeOK, HorizonInv, NEW q \in Processes, EnsureLast(q)
  PROVE  \/ ens'[q] = NoFrame
         \/ /\ ens'[q].step = "insert" /\ ens'[q].t <= now /\ ens'[q].slot \in Slots
            /\ Near(ens'[q].slot)
<1>0. ens \in [Processes -> FrameRec] /\ now \in Nat /\ FrameNear(q) /\ HasTop(Present)
  BY TypeParts DEF EnsOK, TypeOK, HorizonInv
<1>1. ens[q].step = "last" /\ ens[q].t \in Nat /\ ens[q].t <= now
  BY <1>0 DEF EnsureLast, FrameNear, FrameRec
<1>2. ens[q].trigger \in Rules /\ Valid(ens[q].trigger) /\ ens[q].trigger \in Triggers
  <2>1. Rules \subseteq Triggers
    BY DEF Rules, TypeOK, Definition
  <2> QED BY <1>0, <1>1, <2>1 DEF FrameNear
<1> DEFINE last == IF Present = {} THEN NoTime ELSE Max(Present)
           base == IF last = NoTime THEN ens[q].t ELSE last
           next == Successor(ens[q].trigger, base, ens[q].t)
<1>3. last \in Int
  <2>1. Present \subseteq Slots
    BY DEF Present
  <2>2. Present # {} => Max(Present) \in Int
    <3>1. Present # {} => Max(Present) \in Present
      BY <1>0, MaxIsIn
    <3>2. Slots \subseteq Int
      BY StoreAssumption
    <3> QED BY <2>1, <3>1, <3>2
  <2>3. NoTime \in Int
    BY DEF NoTime
  <2> QED BY <2>2, <2>3
<1>4. CASE last <= ens[q].t /\ next \in Slots /\ next > last
  <2>1. base \in Int /\ base <= now
    BY <1>0, <1>1, <1>3, <1>4
  <2>2. ens'[q] = [NoFrame EXCEPT !.step = "insert", !.slot = next]
    BY <1>0, <1>4 DEF EnsureLast
  <2> HIDE DEF base, last
  <2>3. PICK b \in {base, ens[q].t} : next = NextAfter(ens[q].trigger, b) \/ next = NoTime
    BY DEF Successor
  <2>4. b \in Int /\ b <= now
    BY <1>0, <1>1, <2>1, <2>3
  <2>5. next \in Nat
    BY <1>4, StoreAssumption
  <2>6. next = FirstOccurrence(ens[q].trigger) \/ next <= b + Interval(ens[q].trigger)
    BY <1>2, <2>3, <2>4, <2>5, NextAfterBound DEF NoTime
  <2>7. Interval(ens[q].trigger) \in Nat
    BY <1>2, IntervalType
  <2> HIDE DEF next
  <2>8. next = FirstOccurrence(ens[q].trigger) \/ next <= now + Interval(ens[q].trigger)
    BY <1>0, <2>4, <2>5, <2>6, <2>7
  <2>9. Near(next)
    BY <1>2, <2>8 DEF Near
  <2>10. ens'[q].slot = next /\ ens'[q].step = "insert" /\ ens'[q].t = 0
    BY <2>2 DEF NoFrame
  <2> QED BY <1>0, <1>4, <2>9, <2>10 DEF next
<1>5. CASE ~(last <= ens[q].t /\ next \in Slots /\ next > last)
  BY <1>0, <1>5 DEF EnsureLast, Leave
<1> QED BY <1>4, <1>5

\* Every step of every process keeps the frames near.
LEMMA FramesNear ==
  ASSUME TypeOK, DispatchTypeOK, HorizonInv, [DispatchNext]_all, NEW q \in Processes
  PROVE  FrameNear(q)'
<1>0. ens \in [Processes -> FrameRec] /\ now \in Nat /\ FrameNear(q)
  BY TypeParts DEF EnsOK, TypeOK, HorizonInv
<1>1. [Next]_vars /\ now' \in Nat /\ now <= now' /\ Rules \subseteq Rules'
  BY StoreSteps, ClockAdvances, RulesGrow
<1>2. ens[q].t \in Nat
  BY <1>0 DEF FrameRec
<1>3. CASE ens'[q] = ens[q]
  <2>1. ens[q].step = "insert" => ens[q].slot \in Int
    <3>1. ens[q].step = "insert" => ens[q].slot \in Slots
      BY TypeParts DEF EnsOK
    <3>2. Slots \subseteq Int
      BY StoreAssumption
    <3> QED BY <3>1, <3>2
  <2>2. ens[q].step = "insert" => Near(ens[q].slot)'
    <3>1. ASSUME ens[q].step = "insert" PROVE Near(ens[q].slot)'
      <4> DEFINE x == ens[q].slot
      <4>1. x \in Int /\ Near(x)
        BY <1>0, <2>1, <3>1 DEF FrameNear
      <4>2. \A y \in Int : Near(y) => Near(y)'
        BY <1>1, NearKept
      <4>3. ens'[q].slot = x
        BY <1>3
      <4> HIDE DEF x
      <4> QED BY <4>1, <4>2, <4>3
    <3> QED BY <3>1
  <2>3. ens'[q].t <= now'
    BY <1>0, <1>1, <1>2, <1>3 DEF FrameNear
  <2>4. ens'[q].step \in {"count", "last"} => ens'[q].trigger \in Rules' /\ Valid(ens[q].trigger)
    BY <1>0, <1>1, <1>3 DEF FrameNear
  <2> QED BY <1>3, <2>2, <2>3, <2>4 DEF FrameNear, Valid
<1>4. CASE ens'[q] = NoFrame
  BY <1>0, <1>1, <1>4 DEF FrameNear, NoFrame
<1>5. ASSUME NEW t \in Nat, t <= now, ens'[q] = [NoFrame EXCEPT !.step = "definition", !.t = t]
      PROVE  FrameNear(q)'
  <2>1. ens'[q].step = "definition" /\ ens'[q].t = t
    BY <1>5 DEF NoFrame
  <2> QED BY <1>0, <1>1, <1>5, <2>1 DEF FrameNear
<1>6. CASE EnsureDefinition(q)
  <2>1. CASE Live /\ def.enabled
    <3>1. ens'[q].step \in {"count", "last"} /\ ens'[q].trigger = def.trigger
          /\ ens'[q].t = ens[q].t
      BY <1>0, <1>6, <2>1 DEF EnsureDefinition, FrameRec
    <3>2. def.trigger \in Rules /\ Valid(def.trigger)
      BY <2>1 DEF Rules, HorizonInv, TypeOK, Definition
    <3> QED BY <1>0, <1>1, <1>2, <3>1, <3>2 DEF FrameNear, Valid
  <2>2. CASE ~(Live /\ def.enabled)
    BY <1>0, <1>4, <1>6, <2>2 DEF EnsureDefinition, Leave
  <2> QED BY <2>1, <2>2
<1>7. CASE EnsureCount(q)
  <2>1. CASE Pending = {}
    <3>1. ens'[q].step = "last" /\ ens[q].step = "count" /\ ens'[q].trigger = ens[q].trigger
          /\ ens'[q].t = ens[q].t
      BY <1>0, <1>7, <2>1 DEF EnsureCount, FrameRec
    <3> QED BY <1>0, <1>1, <1>2, <3>1 DEF FrameNear, Valid
  <2>2. CASE Pending # {}
    BY <1>0, <1>4, <1>7, <2>2 DEF EnsureCount, Leave
  <2> QED BY <2>1, <2>2
<1>8. CASE EnsureLast(q)
  <2>1. CASE ens'[q] = NoFrame
    BY <1>4, <2>1
  <2>2. CASE /\ ens'[q].step = "insert" /\ ens'[q].t <= now /\ ens'[q].slot \in Slots
             /\ Near(ens'[q].slot)
    <3>1. now' = now /\ Rules' = Rules
      BY <1>8 DEF EnsureLast, store, vars, Rules
    <3>2. Near(ens[q].slot)'
      BY <2>2, <3>1 DEF Near, FirstOccurrence, Interval
    <3> QED BY <2>2, <3>1, <3>2 DEF FrameNear
  <2> QED BY <1>8, <2>1, <2>2, ChosenIsNear
<1> QED BY <1>3, <1>4, <1>5, <1>6, <1>7, <1>8, FrameMoves

\* A slot of the rule is near when it appears.
LEMMA NewIsNear ==
  ASSUME TypeOK, DispatchTypeOK, HorizonInv, [DispatchNext]_all, NEW n \in Slots, Source(n)
  PROVE  Near(n)'
<1>1. [Next]_vars /\ now' \in Nat /\ now <= now' /\ Rules \subseteq Rules' /\ n \in Int
  BY StoreSteps, ClockAdvances, RulesGrow, StoreAssumption
<1>2. CASE n = FirstOccurrence(def.trigger)
  <2>1. def.trigger \in Rules'
    BY <1>1 DEF Rules, TypeOK, Definition
  <2> QED BY <1>2, <2>1 DEF Near, FirstOccurrence, Interval
<1>3. ASSUME NEW trigger \in Triggers, edits' = edits + 1, now' = now, Valid(trigger),
             n = ReplacementOccurrence(trigger, now)
      PROVE  Near(n)'
  <2>1. trigger \in Rules'
    BY <1>3 DEF Rules, TypeOK
  <2>2. now \in Int /\ n # NoTime
    BY StoreAssumption DEF TypeOK, NoTime
  <2>3. n = FirstOccurrence(trigger) \/ n = NextAfter(trigger, now)
    BY <1>3 DEF ReplacementOccurrence, FirstOccurrence
  <2>4. n = FirstOccurrence(trigger) \/ n <= now + Interval(trigger)
    BY <1>3, <2>2, <2>3, NextAfterBound
  <2> QED BY <1>3, <2>1, <2>4 DEF Near, FirstOccurrence, Interval
<1>4. ASSUME NEW q \in Processes, Inserts(q), n = ens[q].slot PROVE Near(n)'
  <2>1. Near(n)
    BY <1>4 DEF Inserts, EnsureInsert, HorizonInv, FrameNear
  <2> QED BY <1>1, <2>1, NearKept
<1> QED BY <1>2, <1>3, <1>4 DEF Source

\* The dispatchers start with the horizon's invariant and keep it.
LEMMA HorizonInvariant == DispatchSpec => [](HistoryInv /\ HorizonInv)
<1>1. DispatchInit => HorizonInv
  <2> SUFFICES ASSUME DispatchInit PROVE HorizonInv
    OBVIOUS
  <2>1. Present = {} /\ Generated = {} /\ ~Live
    BY DEF DispatchInit, Init, NoRow, Present, Generated, Pending, Live
  <2>2. \A q \in Processes : FrameNear(q)
    BY DEF DispatchInit, Init, NoFrame, FrameNear
  <2> QED BY <2>1, <2>2 DEF HorizonInv, HasTop
<1>2. HistoryInv /\ HorizonInv /\ [DispatchNext]_all => HorizonInv'
  <2> SUFFICES ASSUME HistoryInv, HorizonInv, [DispatchNext]_all PROVE HorizonInv'
    OBVIOUS
  <2>1. TypeOK /\ DispatchTypeOK /\ SlotsOK /\ [Next]_vars
    BY StoreSteps DEF HistoryInv
  <2>2. HasTop(Present')
    BY <2>1, LatestKept DEF HorizonInv
  <2>3. (Live => Valid(def.trigger))'
    BY <2>1, RulesGrow DEF HorizonInv
  <2>4. \A q \in Processes : FrameNear(q)'
    BY <2>1, FramesNear
  <2>5. ASSUME NEW s \in Generated' PROVE Near(s)'
    <3>1. s \in Slots /\ s \in Int
      BY StoreAssumption DEF Generated, Pending
    <3>2. s \in Generated => Near(s)'
      BY <2>1, <3>1, NearKept DEF HorizonInv
    <3>3. s \in Generated \/ Source(s)
      BY <2>1, <2>5, NewSlots DEF Still, Appears
    <3> QED BY <2>1, <3>1, <3>2, <3>3, NewIsNear
  <2> QED BY <2>2, <2>3, <2>4, <2>5 DEF HorizonInv, HasTop
<1> QED BY <1>1, <1>2, HistoryInvariant, PTL DEF DispatchSpec

\* Whatever reads the dispatchers and their tasks mix, a generated slot of the
\* future is the anchor of its rule or at most an interval away
\* (ensure_next_occurrence, update_definition, create_definition).
THEOREM HorizonIsNear == DispatchSpec => []NearHorizon
<1>1. HorizonInv => NearHorizon
  BY DEF HorizonInv, NearHorizon, Near, Rules
<1> QED BY <1>1, HorizonInvariant, PTL

-----------------------------------------------------------------------------
(***************************************************************************)
(* An outage.  NoCatchUpBurst is about one dispatcher and a definition     *)
(* nobody pauses or edits meanwhile: a second dispatcher, or a command     *)
(* between the misfire policy and the claim, can make slots late that the  *)
(* policy never saw.                                                       *)
(*                                                                         *)
(* The argument follows the clock of the pass.  It is read once before the *)
(* horizon is ensured; from there to the claims no slot becomes late at    *)
(* that reading, because what ensure_next_occurrence inserts is within the *)
(* grace of it and the tasks of an earlier pass are over (Orderly).  The   *)
(* misfire policy lists every slot it must still decide, so none is left   *)
(* to decide when the claims begin (Left).                                 *)
(***************************************************************************)
Alone ==
    /\ \A p, q \in Dispatchers : p = q
    /\ "enable" \notin Commands /\ "update" \notin Commands

Deciding == {"overlap", "misfire", "claim"}

\* The late slots a pass must mark missed before it may claim.
Left(t) ==
    {s \in Slots : /\ Late(s, t)
                   /\ def.misfire = "skip" \/ \E o \in Slots : Late(o, t) /\ o > s}

Owned(s) ==
    /\ work[s].pc # "none" => work[s].owner \in Dispatchers
    /\ Ensuring(s) => work[s].owner \in Dispatchers /\ pass[work[s].owner].phase = "work"

\* What the frame of a pass that decides may still insert is not late.
FrameInOrder(p) ==
    /\ Ensuring(p) => pass[p].phase \notin {"idle", "work"}
    /\ pass[p].phase \in Deciding =>
          /\ ens[p].step \in {"definition", "count", "last"} => ens[p].t = pass[p].t
          /\ ens[p].step = "insert" => ens[p].slot + Grace >= pass[p].t

Requested(k) ==
    k.gen <= occ[k.slot].gen /\ (IsThere(k) => occ[k.slot].runNow)

ListInOrder(p) ==
    /\ pass[p].phase = "misfire" /\ ~pass[p].reads =>
          \A s \in Left(pass[p].t) : Row(s) \in pass[p].todo
    /\ pass[p].phase = "claim" /\ pass[p].target = NoTime => Left(pass[p].t) = {}
    /\ pass[p].phase = "claim" /\ pass[p].target # NoTime /\ ~pass[p].reads =>
          \A k \in pass[p].todo : Requested(k)

OutageInv ==
    /\ Live => def.enabled
    /\ \A s \in Slots : Owned(s)
    /\ \A p \in Dispatchers : FrameInOrder(p) /\ ListInOrder(p)

\* Nothing but the creation and the removal of the definition changes it.
LEMMA DefinitionMoves ==
  ASSUME Alone, TypeOK, DispatchTypeOK, [DispatchNext]_all
  PROVE  CreateDefinition \/ DeleteDefinition \/ (def' = def /\ edits' = edits)
<1>1. CASE UNCHANGED all \/ Time \/ RemoveCount \/ RemoveDelete
  BY <1>1 DEF all, Time, Tick, RemoveCount, RemoveDelete, store, vars
<1>2. CASE Manage
  BY <1>2 DEF Alone, Manage, CreateRunNow, RequestCancel
<1>3. ASSUME NEW p \in Dispatchers, StartPass(p) \/ Read(p) \/ EnsureHorizon(p) \/ FinishPass(p)
                                    \/ StartRunNow(p) \/ Crash(p)
      PROVE  def' = def /\ edits' = edits
  BY <1>3 DEF StartPass, Read, EnsureHorizon, FinishPass, StartRunNow, Crash, store, vars
<1>4. ASSUME NEW p \in Dispatchers, Recover(p) \/ ReconcileOverlap(p) \/ ReconcileMisfire(p)
      PROVE  def' = def /\ edits' = edits
  BY <1>4 DEF Recover, ReconcileOverlap, ReconcileMisfire, Each, RecoverSlot, SkipSlot, MissSlot,
              store, vars
<1>5. ASSUME NEW p \in Dispatchers, Claim(p) \/ Observe(p) PROVE def' = def /\ edits' = edits
  BY <1>5 DEF Claim, ClaimSlot, Observe, ObserveSettles, ObserveCancels, ObserveRuns,
              ObserveLeaves, FinishRun, MarkCancelIssued, MarkRunning, store, vars
<1>6. ASSUME NEW q \in Processes, EnsureStep(q) PROVE def' = def /\ edits' = edits
  BY <1>6 DEF EnsureStep, EnsureDefinition, EnsureCount, EnsureLast, EnsureInsert, InsertNext,
              store, vars
<1>7. ASSUME NEW s \in Slots, TaskMoves(s) \/ ActionEnds(s) PROVE def' = def /\ edits' = edits
  BY <1>7, TaskKeepsDefinition DEF ActionEnds, store, vars
<1> QED
  BY <1>1, <1>2, <1>3, <1>4, <1>5, <1>6, <1>7
     DEF DispatchNext, PassStep, TaskStep, TaskMoves, Processes

\* So its rule and its policy stay, and it stays enabled.
LEMMA DefinitionStays ==
  ASSUME Alone, TypeOK, DispatchTypeOK, [DispatchNext]_all
  PROVE  /\ def'.trigger = def.trigger /\ def'.misfire = def.misfire
         /\ (Live => def.enabled) => (Live => def.enabled)'
<1>0. def \in Definition
  BY DEF TypeOK
<1>1. CASE CreateDefinition
  BY <1>0, <1>1 DEF CreateDefinition, Definition, Live
<1>2. CASE DeleteDefinition
  BY <1>0, <1>2 DEF DeleteDefinition, Definition, Live
<1>3. CASE def' = def /\ edits' = edits
  BY <1>3 DEF Live
<1> QED BY <1>1, <1>2, <1>3, DefinitionMoves

\* The slot a frame chooses is within the grace of its clock, or after it.
LEMMA ChosenIsNotLate ==
  ASSUME TypeOK, DispatchTypeOK, HorizonInv, NEW q \in Processes, EnsureLast(q),
         ens'[q].step = "insert"
  PROVE  ens'[q].slot + Grace >= ens[q].t
<1>0. ens \in [Processes -> FrameRec] /\ FrameNear(q) /\ HasTop(Present)
  BY TypeParts DEF EnsOK, HorizonInv
<1>1. ens[q].step = "last" /\ ens[q].t \in Nat /\ Grace \in Nat
  BY <1>0, DispatchAssumption DEF EnsureLast, FrameRec
<1>2. Valid(ens[q].trigger) /\ ens[q].trigger \in Triggers
  <2>1. Rules \subseteq Triggers
    BY DEF Rules, TypeOK, Definition
  <2> QED BY <1>0, <1>1, <2>1 DEF FrameNear
<1> DEFINE last == IF Present = {} THEN NoTime ELSE Max(Present)
           base == IF last = NoTime THEN ens[q].t ELSE last
           next == Successor(ens[q].trigger, base, ens[q].t)
<1>3. ~Leave(q)
  BY <1>0 DEF Leave, NoFrame
<1>4. next \in Slots /\ ens'[q].slot = next
  BY <1>0, <1>3 DEF EnsureLast, NoFrame
<1>5. next \in Nat
  BY <1>4, StoreAssumption
<1> HIDE DEF base, last
<1>6. \/ next = NextAfter(ens[q].trigger, ens[q].t)
      \/ /\ next = NextAfter(ens[q].trigger, base)
         /\ ~(next # NoTime /\ next <= ens[q].t /\ ens[q].t - next > Grace)
  BY DEF Successor
<1> HIDE DEF next
<1>7. CASE next = NextAfter(ens[q].trigger, ens[q].t)
  <2>1. next > ens[q].t
    BY <1>1, <1>2, <1>5, <1>7, NextAfterBound DEF NoTime
  <2> QED BY <1>1, <1>4, <1>5, <2>1
<1>8. CASE ~(next # NoTime /\ next <= ens[q].t /\ ens[q].t - next > Grace)
  <2>1. next # NoTime
    BY <1>5 DEF NoTime
  <2> QED BY <1>1, <1>4, <1>5, <1>8, <2>1
<1> QED BY <1>6, <1>7, <1>8

\* An instant that has the row it had keeps what the row was asked for.
LEMMA RowsAge ==
  ASSUME TypeOK, SlotsOK, [Next]_vars, NEW s \in Slots
  PROVE  /\ occ[s].gen <= occ'[s].gen /\ occ[s].gen \in Nat /\ occ'[s].gen \in Nat
         /\ occ'[s].gen = occ[s].gen /\ occ'[s].state # "none" =>
               occ[s].state # "none" /\ occ'[s].runNow = occ[s].runNow
         /\ occ[s].state # "none" => occ'[s].gen = occ[s].gen \/ edits' = edits + 1
<1>0. occ \in [Slots -> Rec] /\ occ[s].gen \in Nat
  BY Typed DEF Rec
<1> DEFINE Aged == \/ /\ occ'[s].gen = occ[s].gen /\ occ'[s].runNow = occ[s].runNow
                      /\ occ[s].state = "none" => occ'[s].state = "none"
                   \/ occ'[s].gen = occ[s].gen /\ occ'[s].state = "none"
                   \/ occ'[s].gen = occ[s].gen + 1 /\ (occ[s].state = "none" \/ edits' = edits + 1)
<1> SUFFICES Aged
  BY <1>0
<1>a. ASSUME NEW o \in Slots, NEW b \in BOOLEAN, occ[o].state = "none",
             occ' = Inserted(occ, o, b)
      PROVE  Aged
  BY <1>0, <1>a DEF Inserted, Rec
<1>1. CASE \/ UNCHANGED vars \/ Tick \/ \E b \in BOOLEAN : SetEnabled(b)
  BY <1>1 DEF vars, Tick, SetEnabled
<1>2. CASE CreateDefinition
  <2>1. CASE FirstOccurrence(def.trigger) \in Slots
    <3>1. occ[FirstOccurrence(def.trigger)].state = "none"
      BY <1>2, <2>1 DEF CreateDefinition, SlotsOK, SlotOK, RowAgrees, Live
    <3> QED BY <1>2, <1>a, <2>1, <3>1 DEF CreateDefinition
  <2> QED BY <1>2, <2>1 DEF CreateDefinition
<1>3. CASE DeleteDefinition
  BY <1>3 DEF DeleteDefinition, NoRow
<1>4. ASSUME NEW trigger \in Triggers, NEW overlap \in Overlaps, NEW misfire \in Misfires,
             NEW action \in Actions, NEW t \in Readings,
             UpdateDefinition(trigger, overlap, misfire, action, t)
      PROVE  Aged
  <2> DEFINE kept == [o \in Slots |-> IF Kept(o) THEN occ[o] ELSE [NoRow EXCEPT !.gen = occ[o].gen]]
             slot == ReplacementOccurrence(trigger, t)
  <2>1. CASE trigger = def.trigger
    BY <1>4, <2>1 DEF UpdateDefinition
  <2>2. CASE trigger # def.trigger
    <3>1. slot \in Slots /\ occ' = Inserted(kept, slot, FALSE) /\ edits' = edits + 1
      BY <1>4, <2>2 DEF UpdateDefinition
    <3>2. kept[s].gen = occ[s].gen /\ (kept[s] = occ[s] \/ kept[s].state = "none")
      BY DEF NoRow
    <3>3. kept = [o \in Slots |-> kept[o]]
      OBVIOUS
    <3> HIDE DEF kept, slot
    <3>4. CASE s = slot
      BY <3>1, <3>2, <3>3, <3>4 DEF Inserted
    <3>5. CASE s # slot
      BY <3>1, <3>2, <3>3, <3>5 DEF Inserted
    <3> QED BY <3>4, <3>5
  <2> QED BY <2>1, <2>2
<1>5. ASSUME NEW o \in Slots, InsertNext(o) \/ CreateRunNow(o) PROVE Aged
  BY <1>5, <1>a DEF InsertNext, CreateRunNow
<1>6. ASSUME NEW o \in Slots, SkipSlot(o) \/ MissSlot(o) \/ RecoverSlot(o) PROVE Aged
  BY <1>0, <1>6 DEF SkipSlot, MissSlot, RecoverSlot, Rec
<1>7. ASSUME NEW o \in Slots, NEW t \in Readings, ClaimSlot(o, t) \/ RenewLease(o, t) PROVE Aged
  BY <1>0, <1>7 DEF ClaimSlot, RenewLease, Rec
<1>8. CASE RunStep
  <2>1. ASSUME NEW o \in Slots, NEW t \in Readings, MarkHandedOff(o, t) \/ ReleaseShellObservation(o, t)
        PROVE  Aged
    BY <1>0, <2>1 DEF MarkHandedOff, ReleaseShellObservation, LeaseCleared, Rec
  <2>2. ASSUME NEW o \in Slots, NEW v \in Verdicts, FinishRun(o, v) PROVE Aged
    <3>1. CASE o = s
      BY <1>0, <2>2, <3>1 DEF FinishRun, Rec
    <3>2. CASE o # s
      BY <1>0, <2>2, <3>2 DEF FinishRun
    <3> QED BY <3>1, <3>2
  <2>3. ASSUME occ' = occ PROVE Aged
    BY <2>3
  <2> QED BY <1>8, <2>1, <2>2, <2>3 DEF RunStep, MarkDelivered, MarkRunning, RequestCancel, MarkCancelIssued
<1> QED
  BY <1>1, <1>2, <1>3, <1>4, <1>5, <1>6, <1>7, <1>8 DEF Next, DefinitionStep, OccurrenceStep

\* While a pass decides, no slot becomes late at its clock.
LEMMA NoneBecomesLate ==
  ASSUME Alone, TypeOK, DispatchTypeOK, SlotsOK, OutageInv, [DispatchNext]_all,
         NEW p \in Dispatchers, pass[p].phase \in Deciding, NEW t, t = pass[p].t,
         NEW s \in Slots, Late(s, t)'
  PROVE  Late(s, t)
<1>1. s # FirstOccurrence(def.trigger) /\ t - s > Grace /\ s \in Generated'
  <2>1. s # FirstOccurrence(def'.trigger) /\ t - s > Grace /\ s \in Generated'
    BY DEF Late, FirstOccurrence
  <2> QED BY <2>1, DefinitionStays
<1>2. CASE s \in Generated
  BY <1>1, <1>2 DEF Late
<1>3. CASE Source(s)
  <2>1. PICK q \in Processes : Inserts(q) /\ s = ens[q].slot
    BY <1>1, <1>3 DEF Source, Alone
  <2>2. Ensuring(q) /\ ens[q].step = "insert"
    BY <2>1 DEF Inserts, EnsureInsert, Ensuring
  <2>3. CASE q \in Dispatchers
    <3>1. s + Grace >= t
      BY <2>1, <2>2, <2>3 DEF Alone, OutageInv, FrameInOrder
    <3>2. s \in Nat /\ Grace \in Nat /\ t \in Nat
      BY StoreAssumption, DispatchAssumption, PassReads DEF Readings, TypeOK
    <3> QED BY <1>1, <3>1, <3>2
  <2>4. CASE q \in Slots
    <3>1. work[q].owner = p /\ pass[p].phase = "work"
      BY <2>2, <2>4 DEF Alone, OutageInv, Owned
    <3> QED BY <3>1 DEF Deciding
  <2> QED BY <2>3, <2>4 DEF Processes
<1> QED BY <1>1, <1>2, <1>3, NewSlots DEF Still, Appears

\* So nothing is added to what it must still decide.
LEMMA LeftShrinks ==
  ASSUME Alone, TypeOK, DispatchTypeOK, SlotsOK, OutageInv, [DispatchNext]_all,
         NEW p \in Dispatchers, pass[p].phase \in Deciding, NEW t, t = pass[p].t
  PROVE  Left(t)' \subseteq Left(t)
<1>1. \A s \in Slots : Late(s, t)' => Late(s, t)
  BY NoneBecomesLate
<1>2. def'.misfire = def.misfire
  BY DefinitionStays
<1> QED BY <1>1, <1>2 DEF Left

\* A row that is there before and after a step is the same row.
LEMMA RowStays ==
  ASSUME Alone, TypeOK, DispatchTypeOK, SlotsOK, [DispatchNext]_all, NEW s \in Slots,
         occ[s].state # "none"
  PROVE  Row(s)' = Row(s)
<1>1. [Next]_vars
  BY StoreSteps
<1>2. edits' = edits
  BY DefinitionMoves DEF CreateDefinition, DeleteDefinition
<1>3. edits' # edits + 1
  BY <1>2 DEF TypeOK
<1> QED BY <1>1, <1>3, RowsAge DEF Row

\* A claim that was asked for stays one that was asked for.
LEMMA RequestStays ==
  ASSUME TypeOK, SlotsOK, [Next]_vars, NEW k \in RowRef, Requested(k)
  PROVE  Requested(k)'
<1>1. k.slot \in Slots /\ k.gen \in Nat
  BY DEF RowRef
<1>2. /\ occ[k.slot].gen <= occ'[k.slot].gen /\ occ[k.slot].gen \in Nat /\ occ'[k.slot].gen \in Nat
      /\ occ'[k.slot].gen = occ[k.slot].gen /\ occ'[k.slot].state # "none" =>
            occ[k.slot].state # "none" /\ occ'[k.slot].runNow = occ[k.slot].runNow
  BY <1>1, RowsAge
<1>3. k.gen <= occ[k.slot].gen /\ (IsThere(k) => occ[k.slot].runNow)
  BY DEF Requested
<1>4. k.gen <= occ'[k.slot].gen
  BY <1>1, <1>2, <1>3
<1>5. occ'[k.slot].gen = k.gen => occ[k.slot].gen = k.gen /\ occ'[k.slot].gen = occ[k.slot].gen
  BY <1>1, <1>2, <1>3
<1>6. IsThere(k)' => occ'[k.slot].runNow
  BY <1>2, <1>3, <1>5 DEF IsThere
<1> QED BY <1>4, <1>6 DEF Requested

\* Where Advance takes a pass.
LEMMA AdvanceMoves ==
  ASSUME DispatchTypeOK, NEW p \in Dispatchers, NEW todo
  PROVE  /\ Advance(p, todo).target = pass[p].target
         /\ todo # {} => /\ Advance(p, todo).phase = pass[p].phase /\ Advance(p, todo).t = pass[p].t
                         /\ Advance(p, todo).todo = todo
         /\ todo = {} =>
              /\ Advance(p, todo).reads
              /\ Advance(p, todo).phase =
                    IF pass[p].phase = "overlap" /\ pass[p].target # NoTime THEN "claim"
                    ELSE Following(pass[p].phase)
              /\ Advance(p, todo).phase \notin {"horizon", "work"} => Advance(p, todo).t = pass[p].t
<1>1. pass[p] \in PassRec
  BY TypeParts DEF PassOK
<1>2. CASE todo # {}
  BY <1>1, <1>2 DEF Advance, PassRec
<1>3. CASE todo = {}
  <2> DEFINE next == IF pass[p].phase = "overlap" /\ pass[p].target # NoTime THEN "claim"
                     ELSE Following(pass[p].phase)
             t == CASE next = "horizon" -> now [] next = "work" -> 0 [] OTHER -> pass[p].t
  <2>1. Advance(p, todo) = [pass[p] EXCEPT !.reads = TRUE, !.todo = {}, !.phase = next, !.t = t]
    BY <1>3 DEF Advance
  <2>2. next \notin {"horizon", "work"} => t = pass[p].t
    OBVIOUS
  <2> HIDE DEF next, t
  <2>3. /\ Advance(p, todo).target = pass[p].target /\ Advance(p, todo).reads
        /\ Advance(p, todo).phase = next /\ Advance(p, todo).t = t
    BY <1>1, <2>1 DEF PassRec
  <2>4. Advance(p, todo).phase \notin {"horizon", "work"} => Advance(p, todo).t = pass[p].t
    BY <2>2, <2>3
  <2> QED BY <1>3, <2>3, <2>4 DEF next
<1> QED BY <1>2, <1>3

\* With one dispatcher, every other process leaves its pass and its frame alone.
LEMMA OthersLeavePass ==
  ASSUME Alone, DispatchTypeOK, [DispatchNext]_all, NEW p \in Dispatchers
  PROVE  PassStep(p) \/ StartRunNow(p) \/ Crash(p) \/ (pass' = pass /\ ens'[p] = ens[p])
<1>0. ens \in [Processes -> FrameRec] /\ p \in Processes
  BY TypeParts DEF EnsOK, Processes
<1>1. CASE UNCHANGED all \/ Time \/ Manage \/ RemoveCount \/ RemoveDelete
  BY <1>1 DEF all, Time, Manage, RemoveCount, RemoveDelete, procs
<1>2. ASSUME NEW s \in Slots, TaskStep(s) \/ ActionEnds(s) PROVE pass' = pass /\ ens'[p] = ens[p]
  <2>1. s # p /\ s \notin Dispatchers
    BY DispatchAssumption
  <2>2. CASE EnsureStep(s)
    BY <1>0, <2>1, <2>2 DEF EnsureStep, EnsureDefinition, EnsureCount, EnsureLast, EnsureInsert, Leave
  <2>3. CASE TaskMoves(s) \/ ActionEnds(s)
    BY <1>0, <2>1, <2>3
       DEF TaskMoves, Reread, Deliver, Execute, Delivered, Poll, Release, HandOff, NativeReport,
           SettleTask, ActionEnds, EnsureFrom
  <2> QED BY <1>2, <2>2, <2>3 DEF TaskStep, TaskMoves
<1>3. ASSUME NEW q \in Dispatchers, PassStep(q) \/ StartRunNow(q) \/ Crash(q)
      PROVE  PassStep(p) \/ StartRunNow(p) \/ Crash(p)
  <2>1. q = p
    BY DEF Alone
  <2> QED BY <1>3, <2>1
<1> QED BY <1>1, <1>2, <1>3 DEF DispatchNext

\* Every step of every process keeps the owners of tasks.
LEMMA OwnersKept ==
  ASSUME Alone, DispatchTypeOK, OutageInv, [DispatchNext]_all, NEW s \in Slots
  PROVE  Owned(s)'
<1>0. /\ pass \in [Dispatchers -> PassRec] /\ work \in [Slots -> WorkRec]
      /\ ens \in [Processes -> FrameRec] /\ s \in Processes /\ s \notin Dispatchers
  BY TypeParts, DispatchAssumption DEF PassOK, WorkOK, EnsOK, Processes
<1>1. Owned(s)
  BY DEF OutageInv
<1>2. ASSUME pass' = pass, work'[s] = work[s], ens'[s] = ens[s] PROVE Owned(s)'
  BY <1>1, <1>2 DEF Owned, Ensuring
<1>3. CASE UNCHANGED all \/ Time \/ Manage \/ RemoveCount \/ RemoveDelete
  BY <1>2, <1>3 DEF all, Time, Manage, RemoveCount, RemoveDelete, procs
<1>4. ASSUME NEW o \in Slots, EnsureStep(o) PROVE Owned(s)'
  <2>1. o \notin Dispatchers /\ o \in Processes
    BY DispatchAssumption DEF Processes
  <2>2. pass' = pass /\ work' = work
    BY <1>4, <2>1 DEF EnsureStep, EnsureDefinition, EnsureCount, EnsureLast, EnsureInsert
  <2>3. Ensuring(s)' => Ensuring(s)
    <3>1. CASE o = s
      BY <1>4, <3>1 DEF EnsureStep, EnsureDefinition, EnsureCount, EnsureLast, EnsureInsert, Ensuring
    <3>2. CASE o # s
      BY <1>0, <1>4, <3>2
         DEF EnsureStep, EnsureDefinition, EnsureCount, EnsureLast, EnsureInsert, Leave, Ensuring
    <3> QED BY <3>1, <3>2
  <2> QED BY <1>1, <2>2, <2>3 DEF Owned
<1>5. ASSUME NEW o \in Slots, TaskMoves(o) \/ ActionEnds(o) PROVE Owned(s)'
  <2>1. pass' = pass
    BY <1>5 DEF TaskMoves, Reread, Deliver, Execute, Delivered, Poll, Release, HandOff,
                NativeReport, SettleTask, ActionEnds
  <2>2. CASE ActionEnds(o)
    BY <1>2, <2>1, <2>2 DEF ActionEnds
  <2>3. CASE TaskMoves(o) /\ o # s
    <3>1. work'[s] = work[s]
      BY <1>0, <2>3 DEF TaskMoves, Reread, Begin, Deliver, Execute, Delivered, Poll, Release,
                        HandOff, NativeReport, SettleTask, Goto, Settle, Done
    <3>2. ens'[s] = ens[s]
      BY <1>0, <2>3 DEF TaskMoves, Reread, Deliver, Execute, Delivered, Poll, Release, HandOff,
                        NativeReport, SettleTask, EnsureFrom
    <3> QED BY <1>2, <2>1, <3>1, <3>2
  <2>4. CASE TaskMoves(s)
    <3>1. work[s].pc # "none" /\ pass[work[s].owner].phase = "work"
      BY <2>4 DEF TaskMoves, Reread, Deliver, Execute, Delivered, Poll, Release, HandOff,
                  NativeReport, SettleTask, AtTask
    <3>2. work'[s].owner = work[s].owner
      <4>a. \A pc : Goto(s, pc) => work'[s].owner = work[s].owner
        BY <1>0 DEF Goto, WorkRec
      <4>b. \A verdict : Settle(s, verdict) => work'[s].owner = work[s].owner
        BY <1>0 DEF Settle, WorkRec
      <4>c. Done(s) => work'[s].owner = work[s].owner
        BY <1>0 DEF Done, NoWork
      <4>d. Begin(s) => work'[s].owner = work[s].owner
        BY <1>0 DEF Begin, WorkRec
      <4>e. Delivered(s) => work'[s].owner = work[s].owner
        BY <1>0 DEF Delivered, WorkRec
      <4>1. CASE Reread(s)
        BY <4>1, <4>b, <4>d DEF Reread
      <4>2. CASE Deliver(s) \/ Execute(s)
        BY <4>2, <4>a, <4>b DEF Deliver, Execute
      <4>3. CASE Poll(s)
        BY <4>3, <4>a, <4>b DEF Poll
      <4>4. CASE Release(s) \/ HandOff(s) \/ NativeReport(s) \/ SettleTask(s)
        BY <4>4, <4>b, <4>c DEF Release, HandOff, NativeReport, SettleTask
      <4> QED BY <2>4, <4>1, <4>2, <4>3, <4>4, <4>e DEF TaskMoves
    <3> QED BY <1>1, <2>1, <3>1, <3>2 DEF Owned
  <2> QED BY <1>5, <2>2, <2>3, <2>4
<1>6. ASSUME NEW p \in Dispatchers, pass[p].phase # "work", ens'[s] = ens[s],
             work'[s] = work[s] \/ work'[s].owner = p
      PROVE  Owned(s)'
  <2>1. ~Ensuring(s)
    BY <1>1, <1>6 DEF Alone, Owned
  <2> QED BY <1>1, <1>6, <2>1 DEF Owned, Ensuring
<1>7. ASSUME NEW p \in Dispatchers,
             \/ StartPass(p) \/ StartRunNow(p) \/ Read(p) \/ Recover(p) \/ Observe(p)
             \/ EnsureHorizon(p) \/ ReconcileOverlap(p) \/ ReconcileMisfire(p)
      PROVE  Owned(s)'
  <2>a. work' = work
    BY <1>7 DEF StartPass, StartRunNow, Read, Recover, Observe, EnsureHorizon, ReconcileOverlap,
                ReconcileMisfire, Each
  <2>b. pass[p].phase \in {"idle", "recover", "agent", "shell", "horizon", "overlap", "misfire", "claim"}
    <3>1. Idle.phase = "idle"
      BY DEF Idle
    <3>2. CASE StartPass(p) \/ StartRunNow(p)
      BY <3>1, <3>2 DEF StartPass, StartRunNow
    <3>3. CASE Read(p)
      BY <3>3 DEF Read
    <3>4. CASE Recover(p) \/ Observe(p) \/ EnsureHorizon(p)
      BY <3>4 DEF Recover, Observe, EnsureHorizon, At
    <3>5. CASE ReconcileOverlap(p) \/ ReconcileMisfire(p)
      BY <3>5 DEF ReconcileOverlap, ReconcileMisfire, At
    <3> QED BY <1>7, <3>2, <3>3, <3>4, <3>5
  <2>1. pass[p].phase # "work" /\ work' = work
    BY <2>a, <2>b
  <2>2. p # s
    BY <1>0
  <2>3. ens' = ens \/ EnsureFrom(p, pass[p].t) \/ EnsureFrom(p, now)
    BY <1>7 DEF StartPass, StartRunNow, Read, Recover, Observe, EnsureHorizon, ReconcileOverlap,
                ReconcileMisfire, Each, ObserveSettles, ObserveCancels, ObserveRuns, ObserveLeaves
  <2>4. ens'[s] = ens[s]
    BY <1>0, <2>2, <2>3 DEF EnsureFrom
  <2> QED BY <1>6, <2>1, <2>4
<1>8. ASSUME NEW p \in Dispatchers, Claim(p) PROVE Owned(s)'
  <2>1. pass[p].phase # "work" /\ ens' = ens
    BY <1>8 DEF Claim, At
  <2>2. PICK k \in pass[p].todo :
           \/ work' = work
           \/ work' = [work EXCEPT ![k.slot] = [NoWork EXCEPT !.pc = "start", !.owner = p,
                                                              !.kind = def.action]]
    BY <1>8 DEF Claim, Oldest
  <2>3. work'[s] = work[s] \/ work'[s].owner = p
    BY <1>0, <2>2 DEF NoWork
  <2> QED BY <1>6, <2>1, <2>3
<1>9. ASSUME NEW p \in Dispatchers, FinishPass(p) \/ Crash(p) PROVE Owned(s)'
  <2>1. work'[s] = IF work[s].owner = p THEN NoWork ELSE work[s]
    BY <1>9 DEF FinishPass, Crash
  <2>2. work[s].owner \in Dispatchers => work[s].owner = p
    BY DEF Alone
  <2>3. work'[s].pc = "none"
    BY <1>1, <2>1, <2>2 DEF NoWork, Owned
  <2>4. CASE FinishPass(p)
    BY <1>1, <2>2, <2>3, <2>4 DEF FinishPass, Owned, Ensuring
  <2>5. CASE Crash(p)
    BY <1>0, <1>1, <2>2, <2>3, <2>5 DEF Crash, Owned, Ensuring, NoFrame
  <2> QED BY <1>9, <2>4, <2>5
<1>10. ASSUME NEW p \in Dispatchers, EnsureStep(p) PROVE Owned(s)'
  <2>1. pass[p].phase # "work" /\ work' = work
    BY <1>10 DEF EnsureStep, EnsureDefinition, EnsureCount, EnsureLast, EnsureInsert, OutageInv,
                 FrameInOrder, Ensuring
  <2>2. p # s
    BY <1>0
  <2>3. ens'[s] = ens[s]
    BY <1>0, <1>10, <2>2
       DEF EnsureStep, EnsureDefinition, EnsureCount, EnsureLast, EnsureInsert, Leave
  <2> QED BY <1>6, <2>1, <2>3
<1> QED
  BY <1>3, <1>4, <1>5, <1>7, <1>8, <1>9, <1>10 DEF DispatchNext, PassStep, TaskStep, TaskMoves

\* A pass's own step keeps its frame in order.
LEMMA FrameStaysInOrder ==
  ASSUME Alone, TypeOK, DispatchTypeOK, HorizonInv, OutageInv, [DispatchNext]_all,
         NEW p \in Dispatchers
  PROVE  FrameInOrder(p)'
<1>0. /\ pass \in [Dispatchers -> PassRec] /\ pass[p] \in PassRec
      /\ ens \in [Processes -> FrameRec] /\ p \in Processes
  BY TypeParts DEF PassOK, EnsOK, Processes
<1>1. FrameInOrder(p)
  BY DEF OutageInv
<1>2. ASSUME pass'[p] = pass[p], ens'[p] = ens[p] PROVE FrameInOrder(p)'
  BY <1>1, <1>2 DEF FrameInOrder, Ensuring
<1>3. ASSUME ens'[p].step = "none" PROVE FrameInOrder(p)'
  BY <1>3 DEF FrameInOrder, Ensuring
<1>4. ASSUME NEW t, EnsureFrom(p, t) PROVE ens'[p].step = "definition" /\ ens'[p].t = t
  BY <1>0, <1>4 DEF EnsureFrom, NoFrame
<1>5. ASSUME NEW todo, pass' = [pass EXCEPT ![p] = Advance(p, todo)] PROVE pass'[p] = Advance(p, todo)
  BY <1>0, <1>5
<1>6. CASE StartPass(p) \/ StartRunNow(p)
  <2>0. Idle.phase = "idle"
    BY DEF Idle
  <2>1. ens' = ens /\ pass[p].phase = "idle"
    BY <1>6, <2>0 DEF StartPass, StartRunNow
  <2> QED BY <1>1, <1>3, <2>1 DEF FrameInOrder, Ensuring
<1>7. CASE Read(p) \/ Claim(p) \/ FinishPass(p)
  BY <1>3, <1>7 DEF Read, Claim, FinishPass, At, Ensuring
<1>8. CASE Crash(p)
  BY <1>0, <1>3, <1>8 DEF Crash, NoFrame
<1>9. CASE EnsureHorizon(p)
  <2>0. pass'[p] = Advance(p, {}) /\ pass[p].phase = "horizon"
    BY <1>5, <1>9 DEF EnsureHorizon, At
  <2>1. pass'[p].phase = "overlap" /\ pass'[p].t = pass[p].t
    BY <2>0, AdvanceMoves DEF Following
  <2>2. ens'[p].step = "definition" /\ ens'[p].t = pass[p].t
    BY <1>4, <1>9 DEF EnsureHorizon
  <2> QED BY <2>1, <2>2 DEF FrameInOrder
<1>10. CASE Recover(p) \/ Observe(p)
  <2>1. pass[p].phase \in {"recover", "agent", "shell"}
    BY <1>10 DEF Recover, Observe, At
  <2>2. PICK todo : pass' = [pass EXCEPT ![p] = Advance(p, todo)]
    BY <1>10 DEF Recover, Observe, Each
  <2>3. pass'[p].phase \in {"recover", "agent", "shell", "horizon"}
    BY <1>5, <2>1, <2>2, AdvanceMoves DEF Following
  <2> QED BY <2>3 DEF FrameInOrder, Deciding
<1>11. CASE ReconcileOverlap(p) \/ ReconcileMisfire(p)
  <2>1. pass[p].phase \in {"overlap", "misfire"} /\ ~Ensuring(p)
    BY <1>11 DEF ReconcileOverlap, ReconcileMisfire, At
  <2>2. PICK todo : pass' = [pass EXCEPT ![p] = Advance(p, todo)]
    BY <1>11 DEF ReconcileOverlap, ReconcileMisfire, Each
  <2>3. pass'[p].phase \in {"overlap", "misfire", "claim"} /\ pass'[p].t = pass[p].t
    BY <1>5, <2>1, <2>2, AdvanceMoves DEF Following
  <2>4. ens' = ens \/ EnsureFrom(p, pass[p].t)
    BY <1>11 DEF ReconcileOverlap, ReconcileMisfire, Each
  <2>5. CASE ens' = ens
    BY <1>3, <2>1, <2>5 DEF Ensuring
  <2>6. CASE EnsureFrom(p, pass[p].t)
    BY <1>4, <2>3, <2>6 DEF FrameInOrder
  <2> QED BY <2>4, <2>5, <2>6
<1>12. CASE EnsureDefinition(p) \/ EnsureCount(p)
  <2>1. pass' = pass /\ Ensuring(p) /\ ens[p].step \in {"definition", "count"}
    BY <1>12 DEF EnsureDefinition, EnsureCount, Ensuring
  <2>2. ens'[p].step = "none" \/ (ens'[p].step \in {"count", "last"} /\ ens'[p].t = ens[p].t)
    <3>1. Leave(p) => ens'[p].step = "none"
      BY <1>0 DEF Leave, NoFrame
    <3>2. CASE EnsureDefinition(p)
      BY <1>0, <3>1, <3>2 DEF EnsureDefinition, FrameRec
    <3>3. CASE EnsureCount(p)
      BY <1>0, <3>1, <3>3 DEF EnsureCount, FrameRec
    <3> QED BY <1>12, <3>2, <3>3
  <2> QED BY <1>1, <1>3, <2>1, <2>2 DEF FrameInOrder
<1>13. CASE EnsureLast(p)
  <2>1. pass' = pass /\ Ensuring(p) /\ ens[p].step = "last"
    BY <1>13 DEF EnsureLast, Ensuring
  <2>2. ens'[p].step \in {"none", "insert"}
    <3>1. Leave(p) \/ \E s : ens' = [ens EXCEPT ![p] = [NoFrame EXCEPT !.step = "insert", !.slot = s]]
      BY <1>13 DEF EnsureLast
    <3>2. NoFrame.step = "none" /\ \A s : [NoFrame EXCEPT !.step = "insert", !.slot = s].step = "insert"
      BY DEF NoFrame
    <3>3. CASE Leave(p)
      BY <1>0, <3>2, <3>3 DEF Leave
    <3>4. ASSUME NEW s, ens' = [ens EXCEPT ![p] = [NoFrame EXCEPT !.step = "insert", !.slot = s]]
          PROVE  ens'[p].step = "insert"
      BY <1>0, <3>2, <3>4
    <3> QED BY <3>1, <3>3, <3>4
  <2>3. ens'[p].step = "insert" => ens'[p].slot + Grace >= ens[p].t
    BY <1>0, <1>13, ChosenIsNotLate
  <2>4. pass[p].phase \in Deciding => ens[p].t = pass[p].t
    BY <1>1, <2>1 DEF FrameInOrder
  <2> QED BY <1>1, <1>3, <2>1, <2>2, <2>3, <2>4 DEF FrameInOrder
<1>14. CASE EnsureInsert(p)
  BY <1>0, <1>3, <1>14 DEF EnsureInsert, Leave, NoFrame
<1> QED
  BY <1>2, <1>6, <1>7, <1>8, <1>9, <1>10, <1>11, <1>12, <1>13, <1>14, OthersLeavePass
     DEF PassStep, EnsureStep

\* What reconcile_misfires reads covers every slot it must decide.
LEMMA MissedCoversLeft ==
  ASSUME TypeOK, SlotsOK, OutageInv, NEW t \in Nat
  PROVE  Left(t) \subseteq Missed(t)
<1>1. ASSUME NEW s \in Slots, Late(s, t) PROVE s \in Overdue(t)
  <2>1. s \in Pending /\ ~occ[s].runNow /\ t - s > Grace
    BY <1>1 DEF Late, Generated
  <2>2. Live
    BY <2>1 DEF Pending, SlotsOK, SlotOK, RowAgrees
  <2>3. s <= t
    BY <2>1, StoreAssumption, DispatchAssumption
  <2> QED BY <2>1, <2>2, <2>3 DEF Overdue, Due, OutageInv
<1>2. Misfires \subseteq Misfire /\ def.misfire \in Misfires
  BY StoreAssumption DEF TypeOK, Definition
<1> QED BY <1>1, <1>2 DEF Left, Missed

\* A pass's own step keeps the list of what it must still decide.
LEMMA ListStaysInOrder ==
  ASSUME Alone, TypeOK, DispatchTypeOK, SlotsOK, OutageInv, [DispatchNext]_all,
         NEW p \in Dispatchers
  PROVE  ListInOrder(p)'
<1>0. /\ pass \in [Dispatchers -> PassRec] /\ pass[p] \in PassRec
      /\ pass[p].t \in Nat /\ pass[p].todo \subseteq RowRef
  BY TypeParts DEF PassOK, PassRec
<1>t. PICK t \in Nat : t = pass[p].t
  BY <1>0
<1>1. ListInOrder(p) /\ [Next]_vars
  BY StoreSteps DEF OutageInv
<1>2. ASSUME pass[p].phase \in Deciding
      PROVE  /\ Left(t)' \subseteq Left(t)
             /\ \A s \in Left(t) : s \in Slots /\ occ[s].state = "pending" /\ Row(s)' = Row(s)
  <2>1. Left(t)' \subseteq Left(t)
    BY <1>t, <1>2, LeftShrinks
  <2>2. ASSUME NEW s \in Left(t) PROVE s \in Slots /\ occ[s].state = "pending"
    BY <2>2 DEF Left, Late, Generated, Pending
  <2> QED BY <2>1, <2>2, RowStays
<1>3. \A k \in pass[p].todo : Requested(k) => Requested(k)'
  BY <1>0, <1>1, RequestStays
<1>a. ASSUME pass'[p].phase \notin {"misfire", "claim"} PROVE ListInOrder(p)'
  BY <1>a DEF ListInOrder
<1>b. ASSUME pass'[p].phase = "misfire",
             ~pass'[p].reads => pass'[p].t = t /\ \A s \in Left(t)' : Row(s)' \in pass'[p].todo
      PROVE  ListInOrder(p)'
  BY <1>b DEF ListInOrder
<1>c. ASSUME pass'[p].phase = "claim",
             pass'[p].target = NoTime => pass'[p].t = t /\ Left(t)' = {},
             pass'[p].target # NoTime /\ ~pass'[p].reads => \A k \in pass'[p].todo : Requested(k)'
      PROVE  ListInOrder(p)'
  BY <1>c DEF ListInOrder
<1>4. ASSUME NEW todo, pass' = [pass EXCEPT ![p] = Advance(p, todo)]
      PROVE  /\ pass'[p].target = pass[p].target
             /\ todo # {} => /\ pass'[p].phase = pass[p].phase /\ pass'[p].t = t
                             /\ pass'[p].todo = todo
             /\ todo = {} =>
                  /\ pass'[p].reads
                  /\ pass'[p].phase =
                        IF pass[p].phase = "overlap" /\ pass[p].target # NoTime THEN "claim"
                        ELSE Following(pass[p].phase)
                  /\ pass'[p].phase \notin {"horizon", "work"} => pass'[p].t = t
  <2>1. pass'[p] = Advance(p, todo)
    BY <1>0, <1>4
  <2> QED BY <1>t, <2>1, AdvanceMoves
<1>5. CASE pass'[p] = pass[p]
  <2>1. CASE pass[p].phase = "misfire"
    <3>1. ~pass[p].reads => \A s \in Left(t)' : Row(s)' \in pass[p].todo
      BY <1>1, <1>2, <1>t, <2>1 DEF ListInOrder, Deciding
    <3> QED BY <1>5, <1>b, <1>t, <2>1, <3>1
  <2>2. CASE pass[p].phase = "claim"
    <3>1. pass[p].target = NoTime => Left(t)' = {}
      BY <1>1, <1>2, <1>t, <2>2 DEF ListInOrder, Deciding
    <3>2. pass[p].target # NoTime /\ ~pass[p].reads => \A k \in pass[p].todo : Requested(k)'
      BY <1>1, <1>3, <2>2 DEF ListInOrder
    <3> QED BY <1>5, <1>c, <1>t, <2>2, <3>1, <3>2
  <2>3. CASE pass[p].phase \notin {"misfire", "claim"}
    BY <1>5, <1>a, <2>3
  <2> QED BY <2>1, <2>2, <2>3
<1>6. CASE pass'[p].phase \notin {"misfire", "claim"}
  BY <1>6, <1>a
<1>7. CASE StartPass(p) \/ StartRunNow(p) \/ FinishPass(p) \/ Crash(p) \/ EnsureStep(p)
  <2>1. Idle.phase = "idle"
    BY DEF Idle
  <2>2. pass'[p] = pass[p] \/ pass'[p].phase \in {"idle", "recover", "overlap"}
    <3>1. CASE StartPass(p) \/ StartRunNow(p)
      <4>1. StartPass(p) => pass'[p].phase = "recover"
        BY <1>0 DEF StartPass, Idle
      <4>2. StartRunNow(p) => pass'[p].phase = "overlap"
        BY <1>0 DEF StartRunNow, Idle
      <4> QED BY <3>1, <4>1, <4>2
    <3>2. CASE FinishPass(p) \/ Crash(p)
      BY <1>0, <2>1, <3>2 DEF FinishPass, Crash
    <3>3. CASE EnsureStep(p)
      BY <1>0, <2>1, <3>3 DEF EnsureStep, EnsureDefinition, EnsureCount, EnsureLast, EnsureInsert
    <3> QED BY <1>7, <3>1, <3>2, <3>3
  <2> QED BY <1>5, <1>6, <2>2
<1>8. CASE Recover(p) \/ Observe(p) \/ EnsureHorizon(p)
  <2>1. pass[p].phase \in {"recover", "agent", "shell", "horizon"}
    BY <1>8 DEF Recover, Observe, EnsureHorizon, At
  <2>2. PICK todo : pass' = [pass EXCEPT ![p] = Advance(p, todo)]
    BY <1>8 DEF Recover, Observe, EnsureHorizon, Each
  <2>3. pass'[p].phase \in {"recover", "agent", "shell", "horizon", "overlap"}
    BY <1>4, <2>1, <2>2 DEF Following
  <2> QED BY <1>6, <2>3
<1>9. ASSUME pass[p].phase = "overlap", NEW todo, pass' = [pass EXCEPT ![p] = Advance(p, todo)]
      PROVE  ListInOrder(p)'
  <2>1. CASE todo # {}
    BY <1>4, <1>6, <1>9, <2>1
  <2>2. CASE todo = {}
    <3>1. /\ pass'[p].reads /\ pass'[p].target = pass[p].target
          /\ pass'[p].phase = IF pass[p].target # NoTime THEN "claim" ELSE "misfire"
      BY <1>4, <1>9, <2>2 DEF Following
    <3> QED BY <1>b, <1>c, <3>1
  <2> QED BY <2>1, <2>2
<1>10. ASSUME pass[p].phase = "misfire", NEW todo, pass' = [pass EXCEPT ![p] = Advance(p, todo)],
              \A s \in Left(t)' : Row(s)' \in todo
       PROVE  ListInOrder(p)'
  <2>1. CASE todo # {}
    <3>1. pass'[p].phase = "misfire" /\ pass'[p].t = t /\ pass'[p].todo = todo
      BY <1>4, <1>10, <2>1
    <3> QED BY <1>b, <1>10, <3>1
  <2>2. CASE todo = {}
    <3>1. pass'[p].phase = "claim" /\ pass'[p].t = t /\ pass'[p].reads
      BY <1>4, <1>10, <2>2 DEF Following
    <3>2. Left(t)' = {}
      BY <1>10, <2>2
    <3> QED BY <1>c, <3>1, <3>2
  <2> QED BY <2>1, <2>2
<1>11. ASSUME pass[p].phase = "claim", NEW todo, pass' = [pass EXCEPT ![p] = Advance(p, todo)],
              pass[p].target # NoTime => \A k \in todo : Requested(k)'
       PROVE  ListInOrder(p)'
  <2>1. CASE todo # {}
    <3>1. /\ pass'[p].phase = "claim" /\ pass'[p].t = t /\ pass'[p].todo = todo
          /\ pass'[p].target = pass[p].target
      BY <1>4, <1>11, <2>1
    <3>2. pass[p].target = NoTime => Left(t)' = {}
      BY <1>1, <1>2, <1>11, <1>t DEF ListInOrder, Deciding
    <3> QED BY <1>c, <1>11, <3>1, <3>2
  <2>2. CASE todo = {}
    <3>1. pass'[p].phase = "work"
      BY <1>4, <1>11, <2>2 DEF Following
    <3> QED BY <1>6, <3>1
  <2> QED BY <2>1, <2>2
<1>12. CASE Read(p)
  <2>1. pass' = [pass EXCEPT ![p] =
                   Advance(p, RowsOf(Candidates(pass[p].phase, pass[p].t, pass[p].target)))]
        /\ pass[p].phase \in {"recover", "agent", "shell", "overlap", "misfire", "claim"}
        /\ UNCHANGED store
    BY <1>12 DEF Read
  <2>2. CASE pass[p].phase \in {"recover", "agent", "shell"}
    <3>1. pass'[p].phase \in {"recover", "agent", "shell", "horizon"}
      BY <1>4, <2>1, <2>2 DEF Following
    <3> QED BY <1>6, <3>1
  <2>3. CASE pass[p].phase = "overlap"
    BY <1>9, <2>1, <2>3
  <2>4. CASE pass[p].phase = "misfire"
    <3>1. Candidates(pass[p].phase, pass[p].t, pass[p].target) = Missed(t)
      BY <1>t, <2>4 DEF Candidates
    <3>2. Left(t) \subseteq Missed(t)
      BY MissedCoversLeft
    <3>3. \A s \in Left(t)' : Row(s)' \in RowsOf(Missed(t))
      BY <1>2, <2>4, <3>2 DEF RowsOf, Deciding
    <3> QED BY <1>10, <2>1, <2>4, <3>1, <3>3
  <2>5. CASE pass[p].phase = "claim"
    <3> DEFINE todo == RowsOf(Candidates(pass[p].phase, pass[p].t, pass[p].target))
    <3>1. ASSUME pass[p].target # NoTime, NEW k \in todo PROVE Requested(k)'
      <4>1. PICK s \in Claimable(pass[p].t, pass[p].target) : k = Row(s)
        BY <2>5 DEF Candidates, RowsOf
      <4>2. s \in Slots /\ occ[s].runNow
        BY <3>1, <4>1 DEF Claimable, Pending
      <4>3. k.slot = s /\ k.gen = occ[s].gen /\ occ[s].gen \in Nat
        BY <4>1, <4>2, Typed DEF Row, Rec
      <4>4. k \in RowRef
        BY <4>1, <4>2, <4>3 DEF Row, RowRef
      <4>5. Requested(k)
        BY <4>2, <4>3 DEF Requested
      <4> QED BY <1>1, <4>4, <4>5, RequestStays
    <3> QED BY <1>11, <2>1, <2>5, <3>1
  <2> QED BY <2>1, <2>2, <2>3, <2>4, <2>5
<1>13. CASE ReconcileOverlap(p)
  BY <1>9, <1>13 DEF ReconcileOverlap, Each, At
<1>14. CASE ReconcileMisfire(p)
  <2>1. pass[p].phase = "misfire"
    BY <1>14 DEF ReconcileMisfire, At
  <2>2. PICK k \in pass[p].todo : Each(p, k, occ[k.slot].state = "pending", MissSlot(k.slot))
    BY <1>14 DEF ReconcileMisfire, Oldest
  <2>3. ~pass[p].reads /\ pass' = [pass EXCEPT ![p] = Advance(p, pass[p].todo \ {k})]
    BY <2>2 DEF Each
  <2>4. ASSUME NEW s \in Left(t)' PROVE Row(s)' \in pass[p].todo \ {k}
    <3>1. s \in Left(t) /\ s \in Slots /\ occ[s].state = "pending" /\ Row(s)' = Row(s)
      BY <1>2, <2>1, <2>4 DEF Deciding
    <3>2. Row(s) \in pass[p].todo
      BY <1>1, <1>t, <2>1, <2>3, <3>1 DEF ListInOrder
    <3>3. occ'[s].state = "pending"
      BY <2>4 DEF Left, Late, Generated, Pending
    <3>4. Row(s) # k
      <4>1. SUFFICES ASSUME Row(s) = k PROVE FALSE
        OBVIOUS
      <4>2. k.slot = s /\ IsThere(k)
        BY <3>1, <4>1 DEF Row, IsThere
      <4>3. MissSlot(s)
        BY <2>2, <3>1, <4>2 DEF Each
      <4>4. occ'[s].state = "missed"
        BY <3>1, <4>3, Typed DEF MissSlot, Rec
      <4> QED BY <3>3, <4>4
    <3> QED BY <3>1, <3>2, <3>4
  <2> QED BY <1>10, <2>1, <2>3, <2>4
<1>15. CASE Claim(p)
  <2>1. pass[p].phase = "claim" /\ ~pass[p].reads
    BY <1>15 DEF Claim, At
  <2>2. PICK k : pass' = [pass EXCEPT ![p] = Advance(p, pass[p].todo \ {k})]
    BY <1>15 DEF Claim
  <2>3. pass[p].target # NoTime => \A o \in pass[p].todo \ {k} : Requested(o)'
    BY <1>1, <1>3, <2>1 DEF ListInOrder
  <2> QED BY <1>11, <2>1, <2>2, <2>3
<1> QED
  BY <1>5, <1>7, <1>8, <1>12, <1>13, <1>14, <1>15, OthersLeavePass DEF PassStep

\* No transaction but the one of the claims claims a slot.
LEMMA NoClaims ==
  ASSUME TypeOK, NEW s \in Slots,
         \/ UNCHANGED vars \/ Tick \/ DefinitionStep \/ RunStep
         \/ \E o \in Slots : InsertNext(o) \/ CreateRunNow(o) \/ SkipSlot(o) \/ MissSlot(o)
                             \/ RecoverSlot(o)
  PROVE  ~Claims(s)
<1>0. occ \in [Slots -> Rec]
  BY Typed
<1> DEFINE Calm == occ'[s].state = occ[s].state \/ occ[s].state = "claimed" \/ occ'[s].state # "claimed"
<1> SUFFICES Calm
  BY DEF Claims
<1>a. ASSUME NEW o, NEW b, occ' = Inserted(occ, o, b) PROVE Calm
  BY <1>0, <1>a DEF Inserted
<1>1. CASE \/ UNCHANGED vars \/ Tick \/ \E b \in BOOLEAN : SetEnabled(b)
  BY <1>1 DEF vars, Tick, SetEnabled
<1>2. CASE CreateDefinition
  BY <1>2, <1>a DEF CreateDefinition
<1>3. CASE DeleteDefinition
  BY <1>3 DEF DeleteDefinition, NoRow
<1>4. ASSUME NEW trigger \in Triggers, NEW overlap \in Overlaps, NEW misfire \in Misfires,
             NEW action \in Actions, NEW t \in Readings,
             UpdateDefinition(trigger, overlap, misfire, action, t)
      PROVE  Calm
  <2> DEFINE kept == [o \in Slots |-> IF Kept(o) THEN occ[o] ELSE [NoRow EXCEPT !.gen = occ[o].gen]]
             slot == ReplacementOccurrence(trigger, t)
  <2>1. CASE trigger = def.trigger
    BY <1>4, <2>1 DEF UpdateDefinition
  <2>2. CASE trigger # def.trigger
    <3>1. slot \in Slots /\ occ' = Inserted(kept, slot, FALSE)
      BY <1>4, <2>2 DEF UpdateDefinition
    <3>2. kept[s] = occ[s] \/ kept[s].state = "none"
      BY DEF NoRow
    <3>3. kept = [o \in Slots |-> kept[o]]
      OBVIOUS
    <3> HIDE DEF kept, slot
    <3>4. CASE s = slot
      BY <3>1, <3>3, <3>4 DEF Inserted
    <3>5. CASE s # slot
      BY <3>1, <3>2, <3>3, <3>5 DEF Inserted
    <3> QED BY <3>4, <3>5
  <2> QED BY <2>1, <2>2
<1>5. ASSUME NEW o \in Slots, InsertNext(o) \/ CreateRunNow(o) PROVE Calm
  BY <1>5, <1>a DEF InsertNext, CreateRunNow
<1>6. ASSUME NEW o \in Slots, SkipSlot(o) \/ MissSlot(o) \/ RecoverSlot(o) PROVE Calm
  BY <1>0, <1>6 DEF SkipSlot, MissSlot, RecoverSlot, Rec
<1>7. CASE RunStep
  <2>1. ASSUME NEW o \in Slots, NEW t \in Readings, MarkHandedOff(o, t) \/ ReleaseShellObservation(o, t)
        PROVE  Calm
    BY <1>0, <2>1 DEF MarkHandedOff, ReleaseShellObservation, LeaseCleared, Rec
  <2>2. ASSUME NEW o \in Slots, NEW v \in Verdicts, FinishRun(o, v) PROVE Calm
    <3>1. CASE o = s
      BY <1>0, <2>2, <3>1 DEF FinishRun, Rec
    <3>2. CASE o # s
      BY <1>0, <2>2, <3>2 DEF FinishRun
    <3> QED BY <3>1, <3>2
  <2>3. ASSUME occ' = occ PROVE Calm
    BY <2>3
  <2> QED BY <1>7, <2>1, <2>2, <2>3
          DEF RunStep, MarkDelivered, MarkRunning, RequestCancel, MarkCancelIssued
<1> QED
  BY <1>1, <1>2, <1>3, <1>4, <1>5, <1>6, <1>7 DEF DefinitionStep

\* A slot is claimed by the claim phase of a pass, from its list and at its clock.
ClaimedBy(s, p) ==
    /\ pass[p].phase = "claim" /\ ~pass[p].reads
    /\ \E k \in pass[p].todo : k.slot = s /\ IsThere(k)
    /\ ClaimSlot(s, pass[p].t)

LEMMA ClaimsAreOfPasses ==
  ASSUME TypeOK, DispatchTypeOK, [DispatchNext]_all, NEW s \in Slots, Claims(s)
  PROVE  \E p \in Dispatchers : ClaimedBy(s, p)
<1> SUFFICES ASSUME \A p \in Dispatchers : ~ClaimedBy(s, p)
             PROVE  \/ UNCHANGED vars \/ Tick \/ DefinitionStep \/ RunStep
                    \/ \E o \in Slots : InsertNext(o) \/ CreateRunNow(o) \/ SkipSlot(o) \/ MissSlot(o)
                                        \/ RecoverSlot(o)
  BY NoClaims
<1> DEFINE Goal == \/ UNCHANGED vars \/ Tick \/ DefinitionStep \/ RunStep
                   \/ \E o \in Slots : InsertNext(o) \/ CreateRunNow(o) \/ SkipSlot(o) \/ MissSlot(o)
                                       \/ RecoverSlot(o)
<1>1. CASE UNCHANGED all \/ Time \/ RemoveCount \/ RemoveDelete
  BY <1>1 DEF all, vars, Time, RemoveCount, RemoveDelete, store, DefinitionStep
<1>2. CASE Manage
  <2>1. now \in Readings
    BY DEF Readings, TypeOK
  <2>2. SetEnabled(~def.enabled) => DefinitionStep
    BY DEF DefinitionStep, TypeOK, Definition
  <2> QED BY <1>2, <2>1, <2>2 DEF Manage, DefinitionStep, RunStep
<1>3. ASSUME NEW p \in Dispatchers, StartPass(p) \/ Read(p) \/ EnsureHorizon(p) \/ FinishPass(p)
                                    \/ StartRunNow(p) \/ Crash(p)
      PROVE  Goal
  BY <1>3 DEF StartPass, Read, EnsureHorizon, FinishPass, StartRunNow, Crash, store
<1>4. ASSUME NEW p \in Dispatchers, Recover(p) \/ ReconcileOverlap(p) \/ ReconcileMisfire(p)
      PROVE  Goal
  <2>1. PICK k \in pass[p].todo :
           RecoverSlot(k.slot) \/ SkipSlot(k.slot) \/ MissSlot(k.slot) \/ UNCHANGED vars
    BY <1>4 DEF Recover, ReconcileOverlap, ReconcileMisfire, Each, Oldest, store
  <2>2. k.slot \in Slots
    BY PassReads
  <2> QED BY <2>1, <2>2
<1>5. ASSUME NEW p \in Dispatchers, Claim(p) PROVE Goal
  <2>1. PICK k \in pass[p].todo : UNCHANGED vars \/ (IsThere(k) /\ ClaimSlot(k.slot, pass[p].t))
    BY <1>5 DEF Claim, Oldest, store
  <2>2. pass[p].phase = "claim" /\ ~pass[p].reads
    BY <1>5 DEF Claim, At
  <2>3. CASE IsThere(k) /\ ClaimSlot(k.slot, pass[p].t)
    <3>1. k.slot \in Slots
      BY PassReads
    <3>2. k.slot # s
      BY <2>2, <2>3 DEF ClaimedBy
    <3>3. occ'[s] = occ[s]
      BY <2>3, <3>1, <3>2, Typed DEF ClaimSlot
    <3> QED BY <3>3 DEF Claims
  <2> QED BY <2>1, <2>3
<1>6. ASSUME NEW p \in Dispatchers, Observe(p) PROVE Goal
  <2>1. PICK k \in pass[p].todo :
           ObserveSettles(p, k) \/ ObserveCancels(p, k) \/ ObserveRuns(p, k) \/ ObserveLeaves(p, k)
    BY <1>6 DEF Observe
  <2>2. k.slot \in Slots
    BY PassReads
  <2>3. CASE ObserveSettles(p, k)
    <3>1. PICK o \in Observation(k.slot, pass[p].t) : FinishRun(k.slot, o)
      BY <2>3 DEF ObserveSettles
    <3> QED BY <2>2, <3>1, ObservationType DEF RunStep
  <2>4. CASE ObserveCancels(p, k) \/ ObserveRuns(p, k) \/ ObserveLeaves(p, k)
    BY <2>2, <2>4 DEF ObserveCancels, ObserveRuns, ObserveLeaves, store, RunStep
  <2> QED BY <2>1, <2>3, <2>4
<1>7. ASSUME NEW q \in Processes, EnsureStep(q) PROVE Goal
  <2>1. EnsureInsert(q) => ens[q].slot \in Slots
    BY TypeParts DEF EnsureInsert, EnsOK
  <2> QED BY <1>7, <2>1 DEF EnsureStep, EnsureDefinition, EnsureCount, EnsureLast, EnsureInsert, store
<1>8. ASSUME NEW o \in Slots, TaskMoves(o) \/ ActionEnds(o) PROVE Goal
  <2>1. work[o].since \in Readings /\ now \in Readings /\ work[o].verdict \in Verdicts
    BY TypeParts DEF WorkOK, WorkRec, SinceOK, Readings, TypeOK
  <2>2. CASE Reread(o) \/ Deliver(o) \/ Execute(o) \/ NativeReport(o) \/ ActionEnds(o)
    BY <2>2 DEF Reread, Deliver, Execute, NativeReport, ActionEnds, store
  <2>3. CASE Delivered(o) \/ Poll(o) \/ Release(o) \/ HandOff(o) \/ SettleTask(o)
    BY <2>1, <2>3 DEF Delivered, Poll, Release, HandOff, SettleTask, store, RunStep
  <2> QED BY <1>8, <2>2, <2>3 DEF TaskMoves
<1> QED
  BY <1>1, <1>2, <1>3, <1>4, <1>5, <1>6, <1>7, <1>8
     DEF DispatchNext, PassStep, TaskStep, TaskMoves, Processes

\* In order, a claim of a late slot is the only one, and under run-once.
LEMMA InOrderNoBurst ==
  ASSUME TypeOK, DispatchTypeOK, OutageInv, [DispatchNext]_all, NEW s \in Slots, Claims(s),
         NEW t, t = occ'[s].lease - Lease, Late(s, t)
  PROVE  def.misfire = "run-once" /\ \A o \in Slots : Late(o, t) => o = s
<1>1. PICK p \in Dispatchers : ClaimedBy(s, p)
  BY ClaimsAreOfPasses
<1>2. pass[p].t \in Nat /\ Lease \in Nat
  BY PassReads, StoreAssumption DEF Readings, TypeOK
<1>3. t = pass[p].t
  <2>1. occ'[s].lease = pass[p].t + Lease
    BY <1>1, Typed DEF ClaimedBy, ClaimSlot, Rec
  <2> QED BY <1>2, <2>1
<1>4. ListInOrder(p)
  BY DEF OutageInv
<1>5. pass[p].target = NoTime
  <2>1. SUFFICES ASSUME pass[p].target # NoTime PROVE FALSE
    OBVIOUS
  <2>2. PICK k \in pass[p].todo : k.slot = s /\ IsThere(k)
    BY <1>1 DEF ClaimedBy
  <2>3. Requested(k)
    BY <1>1, <1>4, <2>1, <2>2 DEF ClaimedBy, ListInOrder
  <2> QED BY <2>2, <2>3 DEF Requested, Late, Generated
<1>6. Left(t) = {}
  BY <1>1, <1>3, <1>4, <1>5 DEF ClaimedBy, ListInOrder
<1>7. def.misfire \in {"skip", "run-once"}
  BY StoreAssumption DEF TypeOK, Definition, Misfire
<1>8. def.misfire # "skip"
  BY <1>6 DEF Left
<1>9. ASSUME NEW o \in Slots, Late(o, t) PROVE o = s
  <2>1. ~(o > s) /\ ~(s > o)
    BY <1>6, <1>9 DEF Left
  <2>2. o \in Nat /\ s \in Nat
    BY StoreAssumption
  <2> QED BY <2>1, <2>2
<1> QED BY <1>7, <1>8, <1>9

\* One dispatcher, and no pause or edit, keep the passes in order.
LEMMA PassesInOrder ==
  ASSUME Alone PROVE DispatchSpec => [](HistoryInv /\ HorizonInv /\ OutageInv)
<1>1. DispatchInit => OutageInv
  <2> SUFFICES ASSUME DispatchInit PROVE OutageInv
    OBVIOUS
  <2>1. ~Live
    BY DEF DispatchInit, Init, Live
  <2>2. \A s \in Slots : Owned(s)
    BY DEF DispatchInit, Owned, Ensuring, NoWork, NoFrame, Processes
  <2>3. \A p \in Dispatchers : pass[p].phase = "idle" /\ ens[p].step = "none"
    BY DEF DispatchInit, Idle, NoFrame, Processes
  <2>4. \A p \in Dispatchers : FrameInOrder(p) /\ ListInOrder(p)
    BY <2>3 DEF FrameInOrder, ListInOrder, Ensuring, Deciding
  <2> QED BY <2>1, <2>2, <2>4 DEF OutageInv
<1>2. HistoryInv /\ HorizonInv /\ OutageInv /\ [DispatchNext]_all => OutageInv'
  <2> SUFFICES ASSUME HistoryInv, HorizonInv, OutageInv, [DispatchNext]_all PROVE OutageInv'
    OBVIOUS
  <2>1. TypeOK /\ DispatchTypeOK /\ SlotsOK
    BY DEF HistoryInv
  <2>2. (Live => def.enabled)'
    BY <2>1, DefinitionStays DEF OutageInv
  <2>3. \A s \in Slots : Owned(s)'
    BY <2>1, OwnersKept
  <2>4. \A p \in Dispatchers : FrameInOrder(p)' /\ ListInOrder(p)'
    BY <2>1, FrameStaysInOrder, ListStaysInOrder
  <2> QED BY <2>2, <2>3, <2>4 DEF OutageInv
<1> QED BY <1>1, <1>2, HorizonInvariant, PTL DEF DispatchSpec

\* With one dispatcher, and a definition nobody pauses or edits meanwhile, an
\* outage past the grace costs at most one late claim, and none under the
\* skip policy (reconcile_misfires, claim_due, ensure_next_occurrence).
THEOREM OutageIsNoBurst == ASSUME Alone PROVE DispatchSpec => NoCatchUpBurst
<1> DEFINE Step ==
      \A s \in Slots :
          LET t == occ'[s].lease - Lease
          IN  Claims(s) /\ Late(s, t) =>
                 /\ def.misfire = "run-once"
                 /\ \A o \in Slots : Late(o, t) => o = s
<1>1. HistoryInv /\ OutageInv /\ [DispatchNext]_all => [Step]_all
  <2> SUFFICES ASSUME HistoryInv, OutageInv, [DispatchNext]_all PROVE Step
    OBVIOUS
  <2>1. TypeOK /\ DispatchTypeOK
    BY DEF HistoryInv
  <2> QED BY <2>1, InOrderNoBurst
<1>2. NoCatchUpBurst <=> [][Step]_all
  BY DEF NoCatchUpBurst
<1> HIDE DEF Step
<1> QED BY <1>1, <1>2, PassesInOrder, PTL DEF DispatchSpec

=============================================================================
