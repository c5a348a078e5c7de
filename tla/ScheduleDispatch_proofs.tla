------------------------ MODULE ScheduleDispatch_proofs ------------------------
(***************************************************************************)
(* Proofs about ScheduleDispatch, for every value of its constants: any    *)
(* number of dispatchers, of slots and of crashes, any lease, timeout,     *)
(* grace and batch, any set of policies, actions and commands.             *)
(*                                                                         *)
(* Every step of a process is a transaction of ScheduleStore or leaves the *)
(* rows alone, with a slot and a clock reading the store allows            *)
(* (StoreSteps).  So all that ScheduleStore_proofs says of the rows holds  *)
(* whatever the dispatchers do, and AtMostOnce needs only one more         *)
(* invariant, which ties a task and its action to the row of its slot.     *)
(***************************************************************************)
EXTENDS ScheduleDispatch, ScheduleStore_proofs

RowRef   == [slot : Slots, gen : Nat]
PassRec  == [phase : Phases, reads : BOOLEAN, t : Nat, todo : SUBSET RowRef,
             target : Slots \cup {NoTime}]
WorkRec  == [pc : Points, owner : Dispatchers \cup {NoTime}, kind : Action,
             since : Nat, verdict : Verdicts]
FrameRec == [step : Steps, t : Nat, trigger : Triggers \cup {Once(0)},
             slot : Slots \cup {NoTime}]

PassOK == /\ pass \in [Dispatchers -> PassRec]
          /\ \A p \in Dispatchers : pass[p].t <= now
WorkOK == work \in [Slots -> WorkRec]
SinceOK == \A s \in Slots : work[s].since <= now
EnsOK  == /\ ens \in [Processes -> FrameRec]
          /\ \A q \in Processes : ens[q].step = "insert" => ens[q].slot \in Slots
ExecOK == /\ exec \in [Slots -> {"none", "live", "done"}]
          /\ starts \in [Slots -> Nat]
MgrOK  == mgr \in [step : {"idle", "delete"}, started : SUBSET Slots]

\* DispatchTypeOK, variable by variable.
LEMMA TypeParts == DispatchTypeOK <=> PassOK /\ WorkOK /\ SinceOK /\ EnsOK /\ ExecOK /\ MgrOK
  BY DEF DispatchTypeOK, PassOK, WorkOK, SinceOK, EnsOK, ExecOK, MgrOK, PassRec, RowRef, WorkRec,
         FrameRec

\* The outcomes an observation settles a run with are verdicts.
LEMMA ObservationType ==
  ASSUME NEW s \in Slots, NEW t PROVE Observation(s, t) \subseteq Verdicts
  BY DispatchAssumption DEF Observation, AgentOutcomes, ShellOutcomes

\* What a pass remembers of a row names a slot, and its clock is a reading.
LEMMA PassReads ==
  ASSUME TypeOK, DispatchTypeOK, NEW p \in Dispatchers
  PROVE  pass[p].t \in Readings /\ now \in Readings /\ \A k \in pass[p].todo : k.slot \in Slots
<1>1. pass[p] \in PassRec /\ pass[p].t <= now
  BY TypeParts DEF PassOK
<1> QED BY <1>1 DEF PassRec, RowRef, Readings, TypeOK

-----------------------------------------------------------------------------
\* A step of a dispatcher, a task, a command or an action is a transaction of
\* the store, or it leaves every row and the clock as they are.
LEMMA StoreSteps == TypeOK /\ DispatchTypeOK /\ [DispatchNext]_all => [Next]_vars
<1> SUFFICES ASSUME TypeOK, DispatchTypeOK, [DispatchNext]_all PROVE Next \/ UNCHANGED vars
  OBVIOUS
<1> DEFINE Goal == Next \/ UNCHANGED vars
<1>a. CASE UNCHANGED all
  BY <1>a DEF all, vars
<1>b. CASE Time
  BY <1>b DEF Time, Next
<1>c. now \in Readings
  BY DEF Readings, TypeOK
<1>1. CASE Manage
  <2>1. ASSUME SetEnabled(~def.enabled) PROVE Next
    BY <2>1 DEF Next, DefinitionStep, TypeOK, Definition
  <2> QED BY <1>1, <1>c, <2>1 DEF Manage, Next, DefinitionStep, OccurrenceStep, RunStep
<1>2. CASE RemoveCount \/ RemoveDelete
  BY <1>2 DEF RemoveCount, RemoveDelete, store, Next, DefinitionStep
<1>3. ASSUME NEW p \in Dispatchers, StartPass(p) \/ Read(p) \/ EnsureHorizon(p) \/ FinishPass(p)
                                    \/ StartRunNow(p) \/ Crash(p)
      PROVE  Goal
  BY <1>3 DEF StartPass, Read, EnsureHorizon, FinishPass, StartRunNow, Crash, store
<1>4. ASSUME NEW p \in Dispatchers, Recover(p) \/ ReconcileOverlap(p) \/ ReconcileMisfire(p)
      PROVE  Goal
  <2>1. PICK k \in pass[p].todo :
           RecoverSlot(k.slot) \/ SkipSlot(k.slot) \/ MissSlot(k.slot) \/ UNCHANGED vars
    BY <1>4 DEF Recover, ReconcileOverlap, ReconcileMisfire, Each, Oldest, store
  <2>2. k.slot \in Slots
    BY PassReads
  <2> QED BY <2>1, <2>2 DEF Next, OccurrenceStep
<1>5. ASSUME NEW p \in Dispatchers, Claim(p) PROVE Goal
  <2>1. PICK k \in pass[p].todo : ClaimSlot(k.slot, pass[p].t) \/ UNCHANGED vars
    BY <1>5 DEF Claim, Oldest, store
  <2>2. k.slot \in Slots /\ pass[p].t \in Readings
    BY PassReads
  <2> QED BY <2>1, <2>2 DEF Next, OccurrenceStep
<1>6. ASSUME NEW p \in Dispatchers, Observe(p) PROVE Goal
  <2>1. PICK k \in pass[p].todo :
           ObserveSettles(p, k) \/ ObserveCancels(p, k) \/ ObserveRuns(p, k) \/ ObserveLeaves(p, k)
    BY <1>6 DEF Observe
  <2>2. k.slot \in Slots
    BY PassReads
  <2>3. CASE ObserveSettles(p, k)
    <3>1. PICK o \in Observation(k.slot, pass[p].t) : FinishRun(k.slot, o)
      BY <2>3 DEF ObserveSettles
    <3> QED BY <2>2, <3>1, ObservationType DEF Next, RunStep
  <2>4. CASE ObserveCancels(p, k) \/ ObserveRuns(p, k) \/ ObserveLeaves(p, k)
    BY <2>2, <2>4 DEF ObserveCancels, ObserveRuns, ObserveLeaves, store, Next, RunStep
  <2> QED BY <2>1, <2>3, <2>4
<1>7. ASSUME NEW q \in Processes, EnsureStep(q) PROVE Goal
  <2>1. CASE EnsureInsert(q)
    <3>1. ens[q].slot \in Slots
      BY <2>1, TypeParts DEF EnsureInsert, EnsOK
    <3> QED BY <2>1, <3>1 DEF EnsureInsert, store, Next, OccurrenceStep
  <2> QED BY <1>7, <2>1 DEF EnsureStep, EnsureDefinition, EnsureCount, EnsureLast, store
<1>8. ASSUME NEW s \in Slots, Reread(s) \/ Deliver(s) \/ Execute(s) \/ NativeReport(s)
                              \/ ActionEnds(s)
      PROVE  Goal
  BY <1>8 DEF Reread, Deliver, Execute, NativeReport, ActionEnds, store
<1>9. ASSUME NEW s \in Slots, Delivered(s) \/ Poll(s) \/ Release(s) \/ HandOff(s) PROVE Goal
  <2>1. work[s].since \in Readings
    BY TypeParts DEF WorkOK, WorkRec, SinceOK, Readings, TypeOK
  <2> QED BY <1>9, <1>c, <2>1 DEF Delivered, Poll, Release, HandOff, store, Next, RunStep
<1>10. ASSUME NEW s \in Slots, SettleTask(s) PROVE Goal
  <2>1. work[s].verdict \in Verdicts
    BY TypeParts DEF WorkOK, WorkRec
  <2> QED BY <1>10, <2>1 DEF SettleTask, store, Next, RunStep
<1> QED
  BY <1>a, <1>b, <1>1, <1>2, <1>3, <1>4, <1>5, <1>6, <1>7, <1>8, <1>9, <1>10
     DEF DispatchNext, PassStep, TaskStep, Processes

\* The clock never runs backwards.
LEMMA ClockAdvances == TypeOK /\ [Next]_vars => now <= now' /\ now' \in Nat
<1> SUFFICES ASSUME TypeOK, [Next]_vars PROVE now <= now' /\ now' \in Nat
  OBVIOUS
<1>1. now' = now \/ now' = now + 1
  BY DEF Next, DefinitionStep, OccurrenceStep, RunStep, vars, Tick, CreateDefinition,
         DeleteDefinition, SetEnabled, UpdateDefinition, InsertNext, CreateRunNow, SkipSlot,
         MissSlot, RecoverSlot, ClaimSlot, RenewLease, MarkDelivered, MarkRunning, MarkHandedOff,
         ReleaseShellObservation, RequestCancel, MarkCancelIssued, FinishRun
<1> QED BY <1>1 DEF TypeOK

-----------------------------------------------------------------------------
(***************************************************************************)
(* Types of the processes.                                                 *)
(***************************************************************************)
\* The records a process is given when it ends, or is killed, are well-typed.
LEMMA EmptyTypes == Idle \in PassRec /\ NoFrame \in FrameRec /\ NoWork \in WorkRec
<1>1. Idle \in PassRec
  BY DEF Idle, PassRec, Phases
<1>2. NoFrame \in FrameRec
  BY DEF NoFrame, FrameRec, Steps, Once
<1>3. NoWork \in WorkRec
  BY DispatchAssumption DEF NoWork, WorkRec, Points, Action
<1> QED BY <1>1, <1>2, <1>3

\* Advance keeps a pass well-typed and its clock no later than now.
LEMMA AdvanceType ==
  ASSUME TypeOK, PassOK, NEW p \in Dispatchers, NEW todo \in SUBSET RowRef
  PROVE  Advance(p, todo) \in PassRec /\ Advance(p, todo).t <= now
<1> DEFINE next == IF pass[p].phase = "overlap" /\ pass[p].target # NoTime THEN "claim"
                   ELSE Following(pass[p].phase)
<1>1. pass[p] \in PassRec /\ pass[p].t <= now /\ now \in Nat
  BY DEF PassOK, TypeOK
<1>2. next \in Phases
  BY DEF Following, Phases
<1> HIDE DEF next
<1>3. CASE todo # {}
  BY <1>1, <1>3 DEF Advance, PassRec
<1>4. CASE todo = {}
  <2> DEFINE t == CASE next = "horizon" -> now [] next = "work" -> 0 [] OTHER -> pass[p].t
  <2>1. t \in Nat /\ t <= now
    BY <1>1 DEF PassRec
  <2>2. Advance(p, todo) =
          [pass[p] EXCEPT !.reads = TRUE, !.todo = {}, !.phase = next, !.t = t]
    BY <1>4 DEF Advance, next
  <2> QED BY <1>1, <1>2, <2>1, <2>2 DEF PassRec
<1> QED BY <1>3, <1>4

\* A pass that advances keeps PassOK.
LEMMA PassAdvances ==
  ASSUME TypeOK, PassOK, now <= now', now' \in Nat, NEW p \in Dispatchers,
         NEW r \in PassRec, r.t <= now, pass' = [pass EXCEPT ![p] = r]
  PROVE  PassOK'
<1>1. now \in Nat /\ \A q \in Dispatchers : pass[q].t \in Nat /\ pass[q].t <= now
  BY DEF PassOK, TypeOK, PassRec
<1>2. r.t \in Nat
  BY DEF PassRec
<1>3. \A q \in Dispatchers : pass'[q] = IF q = p THEN r ELSE pass[q]
  BY DEF PassOK
<1> QED BY <1>1, <1>2, <1>3 DEF PassOK

\* So does a pass that stays where it is while the clock moves.
LEMMA PassStays ==
  ASSUME TypeOK, PassOK, now <= now', now' \in Nat, pass' = pass
  PROVE  PassOK'
  BY DEF PassOK, TypeOK, PassRec

\* Entering and leaving ensure_next_occurrence keeps EnsOK.
LEMMA FrameTypes ==
  ASSUME EnsOK, NEW q \in Processes
  PROVE  /\ Leave(q) => EnsOK'
         /\ \A t \in Nat : EnsureFrom(q, t) => EnsOK'
<1>1. ASSUME NEW f \in FrameRec, f.step # "insert", ens' = [ens EXCEPT ![q] = f] PROVE EnsOK'
  BY <1>1 DEF EnsOK
<1>2. Leave(q) => EnsOK'
  BY <1>1, EmptyTypes DEF Leave, NoFrame
<1>3. ASSUME NEW t \in Nat, EnsureFrom(q, t) PROVE EnsOK'
  <2> DEFINE f == [NoFrame EXCEPT !.step = "definition", !.t = t]
  <2>1. f \in FrameRec /\ f.step # "insert"
    BY EmptyTypes DEF NoFrame, FrameRec, Steps
  <2> QED BY <1>1, <1>3, <2>1 DEF EnsureFrom
<1> QED BY <1>2, <1>3

\* Each step of ensure_next_occurrence keeps EnsOK.
LEMMA EnsureTypes ==
  ASSUME TypeOK, EnsOK, NEW q \in Processes, EnsureStep(q)
  PROVE  EnsOK'
<1>1. CASE EnsureDefinition(q)
  <2>1. def.trigger \in Triggers
    BY DEF TypeOK, Definition
  <2>2. CASE Live /\ def.enabled
    BY <1>1, <2>1, <2>2 DEF EnsureDefinition, EnsOK, FrameRec, Steps
  <2>3. CASE ~(Live /\ def.enabled)
    BY <1>1, <2>3, FrameTypes DEF EnsureDefinition
  <2> QED BY <2>2, <2>3
<1>2. CASE EnsureCount(q)
  <2>1. CASE Pending = {}
    BY <1>2, <2>1 DEF EnsureCount, EnsOK, FrameRec, Steps
  <2>2. CASE Pending # {}
    BY <1>2, <2>2, FrameTypes DEF EnsureCount
  <2> QED BY <2>1, <2>2
<1>3. CASE EnsureLast(q)
  <2>1. Leave(q) \/ \E s \in Slots :
                      ens' = [ens EXCEPT ![q] = [NoFrame EXCEPT !.step = "insert", !.slot = s]]
    BY <1>3 DEF EnsureLast
  <2>2. ASSUME NEW s \in Slots,
               ens' = [ens EXCEPT ![q] = [NoFrame EXCEPT !.step = "insert", !.slot = s]]
        PROVE  EnsOK'
    <3> DEFINE f == [NoFrame EXCEPT !.step = "insert", !.slot = s]
    <3>1. f \in FrameRec /\ f.slot = s
      BY EmptyTypes DEF NoFrame, FrameRec, Steps
    <3> HIDE DEF f
    <3>2. ens' = [ens EXCEPT ![q] = f]
      BY <2>2 DEF f
    <3> QED BY <3>1, <3>2 DEF EnsOK
  <2> QED BY <2>1, <2>2, FrameTypes
<1>4. CASE EnsureInsert(q)
  BY <1>4, FrameTypes DEF EnsureInsert
<1> QED BY <1>1, <1>2, <1>3, <1>4 DEF EnsureStep

\* A task reads the clock when its delivery is accepted, and keeps that reading.
LEMMA SinceReads ==
  ASSUME WorkOK, [DispatchNext]_all, NEW s \in Slots
  PROVE  work'[s].since \in {0, now, work[s].since}
<1>1. CASE UNCHANGED all \/ Time \/ Manage \/ RemoveCount \/ RemoveDelete
  BY <1>1 DEF all, Time, Manage, RemoveCount, RemoveDelete, procs
<1>2. ASSUME NEW p \in Dispatchers,
             \/ StartPass(p) \/ StartRunNow(p) \/ Read(p) \/ Recover(p) \/ Observe(p)
             \/ EnsureHorizon(p) \/ ReconcileOverlap(p) \/ ReconcileMisfire(p)
      PROVE  work' = work
  BY <1>2 DEF StartPass, StartRunNow, Read, Recover, Observe, EnsureHorizon, ReconcileOverlap,
              ReconcileMisfire, Each
<1>3. ASSUME NEW p \in Dispatchers, Claim(p) \/ FinishPass(p) \/ Crash(p)
      PROVE  work'[s].since \in {0, work[s].since}
  <2>1. ASSUME NEW o, work' = [work EXCEPT ![o] = [NoWork EXCEPT !.pc = "start", !.owner = p,
                                                                 !.kind = def.action]]
        PROVE  work'[s].since \in {0, work[s].since}
    BY <2>1 DEF NoWork, WorkOK
  <2>2. CASE Claim(p)
    BY <2>1, <2>2 DEF Claim
  <2>3. CASE FinishPass(p) \/ Crash(p)
    BY <2>3 DEF FinishPass, Crash, NoWork
  <2> QED BY <1>3, <2>2, <2>3
<1>4. ASSUME NEW q \in Processes, EnsureStep(q) PROVE work' = work
  BY <1>4 DEF EnsureStep, EnsureDefinition, EnsureCount, EnsureLast, EnsureInsert
<1>5. ASSUME NEW o \in Slots,
             \/ Reread(o) \/ Deliver(o) \/ Execute(o) \/ NativeReport(o) \/ ActionEnds(o)
             \/ Poll(o) \/ Release(o) \/ HandOff(o) \/ SettleTask(o)
      PROVE  work'[s].since \in {0, work[s].since}
  <2> DEFINE SinceKept == work'[s].since \in {0, work[s].since}
  <2>1. \A pc : Goto(o, pc) => SinceKept
    BY DEF Goto, WorkOK, WorkRec
  <2>2. \A verdict : Settle(o, verdict) => SinceKept
    BY DEF Settle, WorkOK, WorkRec
  <2>3. Done(o) => SinceKept
    BY DEF Done, NoWork, WorkOK, WorkRec
  <2>4. Begin(o) => SinceKept
    BY DEF Begin, WorkOK, WorkRec
  <2>5. work' = work => SinceKept
    OBVIOUS
  <2> HIDE DEF SinceKept
  <2>6. ASSUME Reread(o) PROVE SinceKept
    BY <2>6, <2>2, <2>4 DEF Reread
  <2>7. ASSUME Deliver(o) \/ Execute(o) \/ Poll(o) PROVE SinceKept
    BY <2>7, <2>1, <2>2 DEF Deliver, Execute, Poll
  <2>8. ASSUME NativeReport(o) PROVE SinceKept
    BY <2>8, <2>2 DEF NativeReport
  <2>9. ASSUME Release(o) \/ HandOff(o) \/ SettleTask(o) PROVE SinceKept
    BY <2>9, <2>3 DEF Release, HandOff, SettleTask
  <2>10. ASSUME ActionEnds(o) PROVE SinceKept
    BY <2>10, <2>5 DEF ActionEnds
  <2>11. SinceKept
    BY <1>5, <2>6, <2>7, <2>8, <2>9, <2>10
  <2> QED BY <2>11 DEF SinceKept
<1>6. ASSUME NEW o \in Slots, Delivered(o)
      PROVE  work'[s].since \in {now, work[s].since}
  BY <1>6 DEF Delivered, WorkOK, WorkRec
<1> QED BY <1>1, <1>2, <1>3, <1>4, <1>5, <1>6 DEF DispatchNext, PassStep, TaskStep, Processes

\* Only the two statements of remove_definition move the removal, and only
\* the second one ends a live definition.
LEMMA RemovalMoves ==
  ASSUME TypeOK, [DispatchNext]_all
  PROVE  RemoveCount \/ RemoveDelete \/ (mgr' = mgr /\ (Live => Live'))
<1> DEFINE Goal == mgr' = mgr /\ (Live => Live')
<1>1. CASE UNCHANGED all \/ Time
  BY <1>1 DEF all, Time, Tick, procs, Live
<1>2. CASE Manage
  BY <1>2 DEF Manage, CreateDefinition, SetEnabled, CreateRunNow, RequestCancel, UpdateDefinition,
              procs, Live, TypeOK, Definition
<1>3. ASSUME NEW p \in Dispatchers, PassStep(p) \/ StartRunNow(p) \/ Crash(p), ~EnsureStep(p)
      PROVE  Goal
  <2>1. CASE \/ StartPass(p) \/ Read(p) \/ EnsureHorizon(p) \/ FinishPass(p) \/ StartRunNow(p)
             \/ Crash(p)
    BY <2>1 DEF StartPass, Read, EnsureHorizon, FinishPass, StartRunNow, Crash, store, vars, Live
  <2>2. CASE Recover(p) \/ ReconcileOverlap(p) \/ ReconcileMisfire(p) \/ Claim(p)
    BY <2>2 DEF Recover, ReconcileOverlap, ReconcileMisfire, Claim, Each, RecoverSlot, SkipSlot,
                MissSlot, ClaimSlot, store, vars, Live
  <2>3. CASE Observe(p)
    BY <2>3 DEF Observe, ObserveSettles, ObserveCancels, ObserveRuns, ObserveLeaves, FinishRun,
                MarkCancelIssued, MarkRunning, store, vars, Live
  <2> QED BY <1>3, <2>1, <2>2, <2>3 DEF PassStep
<1>4. ASSUME NEW q \in Processes, EnsureStep(q) PROVE Goal
  BY <1>4 DEF EnsureStep, EnsureDefinition, EnsureCount, EnsureLast, EnsureInsert, InsertNext,
              store, vars, Live
<1>5. ASSUME NEW s \in Slots, TaskStep(s) \/ ActionEnds(s), ~EnsureStep(s) PROVE Goal
  BY <1>5 DEF TaskStep, Reread, Deliver, Execute, Delivered, Poll, Release, HandOff, NativeReport,
              SettleTask, ActionEnds, MarkDelivered, MarkRunning, ReleaseShellObservation,
              MarkHandedOff, FinishRun, store, vars, Live
<1> QED BY <1>1, <1>2, <1>3, <1>4, <1>5 DEF DispatchNext, Processes

\* Every step of every process keeps the processes well-typed.
LEMMA ProcessesTyped ==
  TypeOK /\ DispatchTypeOK /\ [DispatchNext]_all => DispatchTypeOK'
<1> SUFFICES ASSUME TypeOK, PassOK, WorkOK, EnsOK, ExecOK, MgrOK, DispatchTypeOK, [DispatchNext]_all
             PROVE  PassOK' /\ WorkOK' /\ SinceOK' /\ EnsOK' /\ ExecOK' /\ MgrOK'
  BY TypeParts DEF DispatchTypeOK, PassOK, WorkOK, SinceOK, EnsOK, ExecOK, MgrOK, PassRec, RowRef,
                   WorkRec, FrameRec
<1> DEFINE Goal == PassOK' /\ WorkOK' /\ EnsOK' /\ ExecOK'
<1>a. now <= now' /\ now' \in Nat
  BY StoreSteps, ClockAdvances
<1>b. now \in Nat /\ Dispatchers \subseteq Processes /\ Slots \subseteq Processes
  BY DEF TypeOK, Processes
<1>c. pass' = pass => PassOK'
  BY <1>a, PassStays
<1>d. work' = work => WorkOK'
  BY DEF WorkOK
<1>e. ens' = ens => EnsOK'
  BY DEF EnsOK
<1>f. exec' = exec /\ starts' = starts => ExecOK'
  BY DEF ExecOK
<1>g. ASSUME NEW p \in Dispatchers, NEW todo \in SUBSET RowRef,
             pass' = [pass EXCEPT ![p] = Advance(p, todo)]
      PROVE  PassOK'
  BY <1>a, <1>g, AdvanceType, PassAdvances
<1>h. ASSUME NEW p \in Dispatchers, pass' = [pass EXCEPT ![p] = Idle] PROVE PassOK'
  <2>1. Idle \in PassRec /\ Idle.t <= now
    BY <1>b, EmptyTypes DEF Idle
  <2> QED BY <1>a, <1>h, <2>1, PassAdvances
<1>i. ASSUME NEW s \in Slots, NEW w \in WorkRec, work' = [work EXCEPT ![s] = w] PROVE WorkOK'
  BY <1>i DEF WorkOK
<1>j. \A p \in Dispatchers : pass[p].todo \in SUBSET RowRef /\ pass[p].t \in Nat
  BY DEF PassOK, PassRec
<1>1. ASSUME UNCHANGED all \/ Time \/ Manage \/ RemoveCount \/ RemoveDelete PROVE Goal
  BY <1>1, <1>c, <1>d, <1>e, <1>f DEF all, Time, Manage, RemoveCount, RemoveDelete, procs
<1>2. ASSUME NEW p \in Dispatchers, StartPass(p) \/ StartRunNow(p) PROVE Goal
  <2> DEFINE r1 == [Idle EXCEPT !.phase = "recover", !.t = now]
             r2(s) == [Idle EXCEPT !.phase = "overlap", !.t = now, !.target = s]
  <2>1. r1 \in PassRec /\ r1.t = now
    BY <1>b DEF Idle, PassRec, Phases
  <2>2. \A s \in Slots : r2(s) \in PassRec /\ r2(s).t = now
    BY <1>b DEF Idle, PassRec, Phases
  <2>3. ASSUME StartPass(p) PROVE PassOK'
    <3>1. pass' = [pass EXCEPT ![p] = r1]
      BY <2>3 DEF StartPass
    <3> HIDE DEF r1
    <3>2. r1.t <= now
      BY <1>b, <2>1
    <3> QED BY <1>a, <2>1, <3>1, <3>2, PassAdvances
  <2>4. ASSUME StartRunNow(p) PROVE PassOK'
    <3>1. PICK s \in Slots : pass' = [pass EXCEPT ![p] = r2(s)]
      BY <2>4 DEF StartRunNow, Pending
    <3> HIDE DEF r2
    <3>2. r2(s) \in PassRec /\ r2(s).t <= now
      BY <1>b, <2>2, <3>1
    <3> QED BY <1>a, <3>1, <3>2, PassAdvances
  <2> QED BY <1>2, <2>3, <2>4, <1>d, <1>e, <1>f DEF StartPass, StartRunNow
<1>3. ASSUME NEW p \in Dispatchers, Read(p) PROVE Goal
  <2>1. RowsOf(Candidates(pass[p].phase, pass[p].t, pass[p].target)) \in SUBSET RowRef
    <3>1. \A phase, t, target : Candidates(phase, t, target) \subseteq Slots
      BY DEF Candidates, Expired, HandedOff, ObservableShells, Suppressed, Missed, Overdue,
             Claimable, FirstDue, Due, Pending
    <3>2. \A s \in Slots : Row(s) \in RowRef
      BY DEF Row, RowRef, TypeOK
    <3> QED BY <3>1, <3>2 DEF RowsOf
  <2> QED BY <1>3, <1>d, <1>e, <1>f, <1>g, <2>1 DEF Read
<1>4. ASSUME NEW p \in Dispatchers, Recover(p) \/ ReconcileOverlap(p) \/ ReconcileMisfire(p)
      PROVE  Goal
  <2>1. /\ \E todo \in SUBSET RowRef : pass' = [pass EXCEPT ![p] = Advance(p, todo)]
        /\ ens' = ens \/ EnsureFrom(p, pass[p].t)
        /\ UNCHANGED <<work, exec, starts>>
    <3>1. \A k : pass[p].todo \ {k} \in SUBSET RowRef
      BY <1>j
    <3> QED BY <1>4, <3>1 DEF Recover, ReconcileOverlap, ReconcileMisfire, Each
  <2> QED BY <2>1, <1>b, <1>d, <1>e, <1>f, <1>g, <1>j, FrameTypes
<1>5. ASSUME NEW p \in Dispatchers, EnsureHorizon(p) PROVE Goal
  <2>1. {} \in SUBSET RowRef
    OBVIOUS
  <2> QED BY <1>5, <2>1, <1>b, <1>d, <1>f, <1>g, <1>j, FrameTypes DEF EnsureHorizon
<1>6. ASSUME NEW p \in Dispatchers, Observe(p) PROVE Goal
  <2>1. /\ \E todo \in SUBSET RowRef : pass' = [pass EXCEPT ![p] = Advance(p, todo)]
        /\ UNCHANGED <<work, exec, starts>>
    BY <1>6, <1>j DEF Observe, StillToCancel
  <2>2. ens' = ens \/ EnsureFrom(p, now)
    BY <1>6 DEF Observe, ObserveSettles, ObserveCancels, ObserveRuns, ObserveLeaves
  <2> QED BY <2>1, <2>2, <1>b, <1>d, <1>e, <1>f, <1>g, FrameTypes
<1>7. ASSUME NEW p \in Dispatchers, Claim(p) PROVE Goal
  <2>1. PICK k \in pass[p].todo :
           /\ pass' = [pass EXCEPT ![p] = Advance(p, pass[p].todo \ {k})]
           /\ \/ work' = work
              \/ work' = [work EXCEPT ![k.slot] = [NoWork EXCEPT !.pc = "start", !.owner = p,
                                                                 !.kind = def.action]]
    BY <1>7 DEF Claim, Oldest
  <2>2. pass[p].todo \ {k} \in SUBSET RowRef /\ k.slot \in Slots
    BY <1>j DEF RowRef
  <2>3. [NoWork EXCEPT !.pc = "start", !.owner = p, !.kind = def.action] \in WorkRec
    BY EmptyTypes, StoreAssumption DEF WorkRec, Points, TypeOK, Definition
  <2>4. PassOK' /\ WorkOK'
    BY <2>1, <2>2, <2>3, <1>d, <1>g, <1>i
  <2> QED BY <1>7, <2>4, <1>e, <1>f DEF Claim
<1>8. ASSUME NEW p \in Dispatchers, FinishPass(p) \/ Crash(p) PROVE Goal
  <2>1. PassOK'
    BY <1>8, <1>h DEF FinishPass, Crash
  <2>2. WorkOK'
    BY <1>8, EmptyTypes DEF FinishPass, Crash, WorkOK
  <2>3. EnsOK'
    BY <1>8, <1>e, EmptyTypes DEF FinishPass, Crash, EnsOK, NoFrame
  <2> QED BY <1>8, <2>1, <2>2, <2>3, <1>f DEF FinishPass, Crash
<1>9. ASSUME NEW q \in Processes, EnsureStep(q) PROVE Goal
  <2>1. EnsOK'
    BY <1>9, EnsureTypes
  <2>2. PassOK'
    BY <1>9, <1>c, <1>h DEF EnsureStep, EnsureDefinition, EnsureCount, EnsureLast, EnsureInsert
  <2> QED BY <1>9, <2>1, <2>2, <1>d, <1>f
          DEF EnsureStep, EnsureDefinition, EnsureCount, EnsureLast, EnsureInsert
<1>10. ASSUME NEW s \in Slots,
              \/ Reread(s) \/ Deliver(s) \/ Execute(s) \/ NativeReport(s) \/ ActionEnds(s)
              \/ Delivered(s) \/ Poll(s) \/ Release(s) \/ HandOff(s) \/ SettleTask(s)
       PROVE  Goal
  <2>0. work[s] \in WorkRec
    BY DEF WorkOK
  <2>1. ASSUME NEW pc \in Points, Goto(s, pc) PROVE WorkOK'
    <3>1. [work[s] EXCEPT !.pc = pc] \in WorkRec
      BY <2>0 DEF WorkRec
    <3>2. work' = [work EXCEPT ![s] = [work[s] EXCEPT !.pc = pc]]
      BY <2>1 DEF Goto, WorkOK
    <3> QED BY <3>1, <3>2 DEF WorkOK
  <2>2. ASSUME NEW verdict \in Verdicts, Settle(s, verdict) PROVE WorkOK'
    <3>1. [work[s] EXCEPT !.pc = "settle", !.verdict = verdict] \in WorkRec
      BY <2>0 DEF WorkRec, Points
    <3> QED BY <2>2, <3>1 DEF Settle, WorkOK
  <2>3. ASSUME Done(s) PROVE WorkOK'
    <3>1. [NoWork EXCEPT !.pc = "done", !.owner = work[s].owner] \in WorkRec
      BY <2>0, EmptyTypes DEF WorkRec, Points
    <3> QED BY <2>3, <3>1, <1>i DEF Done
  <2>4. {"failed", "unknown", "blocked"} \subseteq Verdicts /\ ShellOutcomes \subseteq Verdicts
    BY DispatchAssumption DEF ShellOutcomes
  <2>5. CASE Reread(s)
    <3>1. def.action \in Action
      BY StoreAssumption DEF TypeOK, Definition
    <3>2. ASSUME Begin(s) PROVE WorkOK'
      BY <3>1, <3>2, <2>0 DEF Begin, WorkOK, WorkRec, Points
    <3> QED BY <2>5, <2>2, <3>2, <1>c, <1>e, <1>f DEF Reread
  <2>6. Starts(s) => ExecOK'
    BY DEF Starts, ExecOK
  <2>7. CASE Deliver(s)
    BY <2>7, <2>1, <2>2, <2>4, <2>6, <1>c, <1>e, <1>f DEF Deliver, Points
  <2>8. CASE Execute(s)
    BY <2>8, <2>1, <2>2, <2>4, <2>6, <1>c, <1>e, <1>f DEF Execute, Points
  <2>9. CASE NativeReport(s)
    BY <2>9, <2>2, <1>c, <1>e, <1>f DEF NativeReport
  <2>10. CASE ActionEnds(s)
    BY <2>10, <1>c, <1>d, <1>e DEF ActionEnds, ExecOK
  <2>11. CASE Delivered(s)
    <3>1. WorkOK'
      BY <2>11, <2>0, <1>b DEF Delivered, WorkOK, WorkRec, Points
    <3> QED BY <2>11, <3>1, <1>c, <1>e, <1>f DEF Delivered
  <2>12. CASE Poll(s)
    BY <2>12, <2>1, <2>2, <2>4, <1>c, <1>e, <1>f DEF Poll, Points
  <2>13. CASE Release(s) \/ HandOff(s) \/ SettleTask(s)
    BY <2>13, <2>3, <1>b, <1>c, <1>e, <1>f, FrameTypes DEF Release, HandOff, SettleTask
  <2> QED BY <1>10, <2>5, <2>7, <2>8, <2>9, <2>10, <2>11, <2>12, <2>13
<1>11. SinceOK'
  <2>1. \A s \in Slots : work[s].since \in Nat /\ work[s].since <= now
    BY TypeParts DEF WorkOK, WorkRec, SinceOK
  <2> QED BY <1>a, <1>b, <2>1, SinceReads DEF SinceOK
<1>12. MgrOK'
  BY RemovalMoves DEF MgrOK, RemoveCount, RemoveDelete, ToDelete, StartedSlots, NoRemoval
<1> QED
  BY <1>1, <1>2, <1>3, <1>4, <1>5, <1>6, <1>7, <1>8, <1>9, <1>10, <1>11, <1>12
     DEF DispatchNext, PassStep, TaskStep, Processes

\* The processes start well-typed.
LEMMA InitTypes == DispatchInit => TypeOK /\ DispatchTypeOK
<1> SUFFICES ASSUME DispatchInit PROVE TypeOK /\ DispatchTypeOK
  OBVIOUS
<1>1. TypeOK
  BY InitTyped DEF DispatchInit
<1>2. PassOK
  BY <1>1, EmptyTypes DEF DispatchInit, PassOK, Idle, TypeOK
<1>3. WorkOK /\ SinceOK
  BY EmptyTypes, <1>1 DEF DispatchInit, WorkOK, SinceOK, NoWork, TypeOK
<1>4. EnsOK
  BY EmptyTypes DEF DispatchInit, EnsOK, NoFrame
<1>5. ExecOK
  BY DEF DispatchInit, ExecOK
<1>6. MgrOK
  BY DEF DispatchInit, MgrOK, NoRemoval
<1> QED BY <1>1, <1>2, <1>3, <1>4, <1>5, <1>6, TypeParts

\* The columns and the processes are well-typed in every reachable state.
THEOREM DispatchTypeCorrect == DispatchSpec => [](TypeOK /\ DispatchTypeOK)
<1>1. DispatchInit => TypeOK /\ DispatchTypeOK
  BY InitTypes
<1>2. TypeOK /\ DispatchTypeOK /\ [DispatchNext]_all => (TypeOK /\ DispatchTypeOK)'
  BY StoreSteps, TypeKept, ProcessesTyped
<1> QED
  BY <1>1, <1>2, PTL DEF DispatchSpec

-----------------------------------------------------------------------------
\* The dispatchers, their tasks and the commands use the store as
\* ScheduleStore lets its callers use it: what is proved of the rows under
\* arbitrary callers holds of the program (dispatch.rs calls store.rs only
\* through its transactions).
THEOREM DispatchImplementsStore == DispatchSpec => Spec
<1>1. DispatchInit => Init
  BY DEF DispatchInit
<1> QED
  BY <1>1, StoreSteps, DispatchTypeCorrect, PTL DEF DispatchSpec, Spec

\* Whatever the dispatchers do, the tables agree, two runs of a definition that
\* may not run concurrently are never active together, and history stays.
THEOREM DispatchKeepsRows ==
  DispatchSpec => [](RowsAgree /\ OneActiveRun) /\ HistoryIsFinal
  BY DispatchImplementsStore, RowsConsistent, OverlapExcluded, HistoryKept, PTL

-----------------------------------------------------------------------------
(***************************************************************************)
(* At-most-once.  AtMostOnce is not inductive: nothing in it forbids a     *)
(* second claim of a slot whose action was started.  What does is the row: *)
(* a slot that was claimed is not pending again, and a task that has not   *)
(* started its action is the first of its slot.                            *)
(***************************************************************************)
\* The row has left pending for good, or its definition is gone.
Opened(s) == occ[s].state \notin {"none", "pending"} \/ def.status = "removed"

StartedOnce(s) ==
    /\ starts[s] <= 1
    /\ work[s].pc \in {"start", "deliver"} => starts[s] = 0
    /\ starts[s] > 0 \/ work[s].pc \in {"start", "deliver"} => Opened(s)

StartsInv == \A s \in Slots : StartedOnce(s)

\* No transaction makes a slot claimable again once it has left pending.
LEMMA OpenedForGood ==
  ASSUME TypeOK, SlotsOK, [Next]_vars, NEW s \in Slots, Opened(s)
  PROVE  Opened(s)'
<1>1. def.status = "removed" => def'.status = "removed"
  BY DEF Next, DefinitionStep, OccurrenceStep, RunStep, vars, Tick, CreateDefinition,
         DeleteDefinition, SetEnabled, UpdateDefinition, InsertNext, CreateRunNow, SkipSlot,
         MissSlot, RecoverSlot, ClaimSlot, RenewLease, MarkDelivered, MarkRunning, MarkHandedOff,
         ReleaseShellObservation, RequestCancel, MarkCancelIssued, FinishRun, Live, TypeOK,
         Definition
<1>2. CASE def.status = "removed"
  BY <1>1, <1>2 DEF Opened
<1>3. CASE DeleteDefinition
  BY <1>3 DEF DeleteDefinition, Opened, TypeOK, Definition
<1>4. CASE def.status # "removed" /\ ~DeleteDefinition
  <2>1. occ[s].state \in {"claimed"} \cup Closed
    BY <1>4 DEF Opened, TypeOK, OccStates
  <2>2. CASE occ[s].state \in Closed
    BY <1>4, <2>2, ClosedIsKept DEF Opened, Closed
  <2>3. CASE occ[s].state = "claimed"
    BY <1>4, <2>3, ClaimedOpens DEF Opened
  <2> QED BY <2>1, <2>2, <2>3
<1> QED BY <1>2, <1>3, <1>4 DEF Opened

\* A step that starts nothing, and puts no task before its start, keeps the
\* invariant.
LEMMA NothingStarts ==
  ASSUME StartsInv, \A s \in Slots : Opened(s) => Opened(s)', starts' = starts,
         \A s \in Slots : work'[s].pc \in {"start", "deliver"} =>
                             work[s].pc \in {"start", "deliver"}
  PROVE  StartsInv'
  BY DEF StartsInv, StartedOnce

\* Every step of every process keeps the invariant.
LEMMA StartsInductive ==
  TypeOK /\ DispatchTypeOK /\ SlotsOK /\ StartsInv /\ [DispatchNext]_all => StartsInv'
<1> SUFFICES ASSUME TypeOK, DispatchTypeOK, SlotsOK, StartsInv, [DispatchNext]_all
             PROVE  StartsInv'
  OBVIOUS
<1>a. \A s \in Slots : Opened(s) => Opened(s)'
  BY StoreSteps, OpenedForGood
<1>b. WorkOK /\ ExecOK
  BY TypeParts
<1> DEFINE Early == {"start", "deliver"}
<1>c. ASSUME starts' = starts, \A s \in Slots : work'[s].pc \in Early => work[s].pc \in Early
      PROVE  StartsInv'
  BY <1>a, <1>c, NothingStarts
<1>d. ASSUME starts' = starts, work' = work PROVE StartsInv'
  BY <1>c, <1>d
<1>1. CASE UNCHANGED all \/ Time \/ Manage \/ RemoveCount \/ RemoveDelete
  BY <1>1, <1>d DEF all, Time, Manage, RemoveCount, RemoveDelete, procs
<1>2. ASSUME NEW p \in Dispatchers,
             \/ StartPass(p) \/ StartRunNow(p) \/ Read(p) \/ Recover(p) \/ Observe(p)
             \/ EnsureHorizon(p) \/ ReconcileOverlap(p) \/ ReconcileMisfire(p)
      PROVE  StartsInv'
  BY <1>2, <1>d DEF StartPass, StartRunNow, Read, Recover, Observe, EnsureHorizon,
                    ReconcileOverlap, ReconcileMisfire, Each
<1>3. ASSUME NEW q \in Processes, EnsureStep(q) PROVE StartsInv'
  BY <1>3, <1>d DEF EnsureStep, EnsureDefinition, EnsureCount, EnsureLast, EnsureInsert
<1>4. ASSUME NEW p \in Dispatchers, FinishPass(p) \/ Crash(p) PROVE StartsInv'
  <2>1. \A s \in Slots : work'[s] = NoWork \/ work'[s] = work[s]
    BY <1>4 DEF FinishPass, Crash
  <2>2. NoWork.pc \notin Early
    BY DEF NoWork
  <2> QED BY <1>4, <1>c, <2>1, <2>2 DEF FinishPass, Crash
<1>5. ASSUME NEW p \in Dispatchers, Claim(p) PROVE StartsInv'
  <2>1. starts' = starts
    BY <1>5 DEF Claim
  <2>2. PICK k \in pass[p].todo :
           \/ work' = work
           \/ /\ occ[k.slot].state = "pending" /\ Live
              /\ ClaimSlot(k.slot, pass[p].t)
              /\ work' = [work EXCEPT ![k.slot] = [NoWork EXCEPT !.pc = "start", !.owner = p,
                                                                 !.kind = def.action]]
    BY <1>5 DEF Claim, Oldest
  <2>3. k.slot \in Slots
    BY PassReads
  <2>4. CASE work' = work
    BY <2>1, <2>4, <1>d
  <2>5. ASSUME occ[k.slot].state = "pending", Live, ClaimSlot(k.slot, pass[p].t),
               work' = [work EXCEPT ![k.slot] = [NoWork EXCEPT !.pc = "start", !.owner = p,
                                                               !.kind = def.action]]
        PROVE  StartsInv'
    <3>1. ~Opened(k.slot)
      BY <2>5 DEF Opened, Live
    <3>2. starts[k.slot] = 0
      BY <1>b, <2>3, <3>1 DEF StartsInv, StartedOnce, ExecOK
    <3>3. Opened(k.slot)'
      BY <2>3, <2>5 DEF ClaimSlot, Opened, TypeOK
    <3>4. StartedOnce(k.slot)'
      BY <2>1, <3>2, <3>3 DEF StartedOnce
    <3>5. \A s \in Slots \ {k.slot} : work'[s] = work[s]
      BY <1>b, <2>5 DEF WorkOK
    <3> QED BY <1>a, <2>1, <3>4, <3>5 DEF StartsInv, StartedOnce
  <2> QED BY <2>2, <2>4, <2>5
<1>6. ASSUME NEW s \in Slots, Deliver(s) \/ Execute(s) PROVE StartsInv'
  <2>1. work[s].pc = "deliver" /\ starts[s] = 0 /\ Opened(s)'
    BY <1>6, <1>a DEF Deliver, Execute, AtTask, StartsInv, StartedOnce
  <2>2. \E pc \in {"delivered", "executing", "settle"} : work'[s].pc = pc
    BY <1>6, <1>b DEF Deliver, Execute, Goto, Settle, WorkOK, WorkRec
  <2>3. starts'[s] \in {0, 1}
    BY <1>6, <1>b, <2>1 DEF Deliver, Execute, Starts, ExecOK
  <2>4. \A o \in Slots \ {s} : work'[o] = work[o] /\ starts'[o] = starts[o]
    BY <1>6, <1>b DEF Deliver, Execute, Starts, Goto, Settle, ExecOK, WorkOK
  <2> QED BY <1>a, <2>1, <2>2, <2>3, <2>4 DEF StartsInv, StartedOnce
<1>7. ASSUME NEW s \in Slots, Reread(s) PROVE StartsInv'
  <2>1. work[s].pc = "start" /\ \A o \in Slots \ {s} : work'[o] = work[o]
    BY <1>7, <1>b DEF Reread, AtTask, Begin, Settle, WorkOK
  <2>2. starts' = starts
    BY <1>7 DEF Reread
  <2> QED BY <1>a, <2>1, <2>2 DEF StartsInv, StartedOnce
<1>8. ASSUME NEW s \in Slots,
             \/ Delivered(s) \/ Poll(s) \/ Release(s) \/ HandOff(s) \/ NativeReport(s)
             \/ SettleTask(s) \/ ActionEnds(s)
      PROVE  StartsInv'
  <2>1. work' = work \/ (work'[s].pc \notin Early /\ \A o \in Slots \ {s} : work'[o] = work[o])
    <3>1. CASE Delivered(s)
      BY <3>1, <1>b DEF Delivered, WorkOK, WorkRec
    <3>2. CASE Poll(s)
      BY <3>2, <1>b DEF Poll, Goto, Settle, WorkOK, WorkRec
    <3>5. CASE Release(s)
      BY <3>5, <1>b DEF Release, Done, NoWork, WorkOK
    <3>3. CASE HandOff(s)
      BY <3>3, <1>b DEF HandOff, Done, NoWork, WorkOK
    <3>6. CASE NativeReport(s)
      BY <3>6, <1>b DEF NativeReport, Settle, WorkOK, WorkRec
    <3>4. CASE SettleTask(s) \/ ActionEnds(s)
      BY <3>4, <1>b DEF SettleTask, ActionEnds, Goto, Settle, Done, NoWork, WorkOK, WorkRec
    <3> QED BY <1>8, <3>1, <3>2, <3>3, <3>4, <3>5, <3>6
  <2>2. starts' = starts
    BY <1>8 DEF Delivered, Poll, Release, HandOff, NativeReport, SettleTask, ActionEnds
  <2> QED BY <1>c, <2>1, <2>2
<1> QED
  BY <1>1, <1>2, <1>3, <1>4, <1>5, <1>6, <1>7, <1>8
     DEF DispatchNext, PassStep, TaskStep, Processes

\* Delivery is at-most-once: no interleaving of dispatchers, tasks, commands
\* and crashes starts the action of an occurrence twice (the claim is one
\* compare-and-swap, and no transaction reopens a claimed row).
THEOREM DeliveredAtMostOnce == DispatchSpec => []AtMostOnce
<1>1. DispatchInit => StartsInv
  BY DEF DispatchInit, StartsInv, StartedOnce, NoWork
<1>2. Init => SlotsOK
  BY DEF Init, SlotsOK, SlotOK, RowAgrees, HasDeadline, Active, NoRow, NoRun, ActiveStates, Outcomes
<1>3. StartsInv => AtMostOnce
  BY DEF StartsInv, StartedOnce, AtMostOnce
<1> QED
  BY <1>1, <1>2, <1>3, DispatchTypeCorrect, DispatchImplementsStore, SlotsOKInductive,
     StartsInductive, PTL DEF DispatchSpec, Spec
=============================================================================
