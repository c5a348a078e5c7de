-------------------------- MODULE ScheduleDispatch --------------------------
(***************************************************************************)
(* The processes that share the schedule store: dispatch passes            *)
(* (leveler-schedule/src/dispatch.rs, dispatch_pass and dispatch_run_now), *)
(* the tasks a pass starts for the slots it claimed (run_shell,            *)
(* run_native, handoff_agent), the management commands, and the actions    *)
(* themselves, which run in another process.                               *)
(*                                                                         *)
(* One step is one SELECT or one transaction.  Between two of them every   *)
(* other process may run: what a pass read is kept in its record (todo,    *)
(* the clock t, a definition snapshot) and may be old when it is used.     *)
(* A dispatcher may be killed at any point; nothing it holds survives.     *)
(*                                                                         *)
(* What a runtime answers is abstract here: a snapshot may fail, and a     *)
(* delivery may be accepted without its answer arriving.                   *)
(***************************************************************************)
EXTENDS ScheduleStore, FiniteSetsExt

CONSTANTS
    Dispatchers,  \* processes that dispatch
    Grace,        \* the definition's misfire grace
    CancelGrace,  \* AGENT_CANCEL_GRACE and OBSERVE_RETRY_GRACE
    Batch,        \* the pass's max
    Commands,     \* management commands that may be given
    MaxCrashes    \* bound on killed dispatchers

ASSUME DispatchAssumption ==
    /\ Grace \in Nat /\ CancelGrace \in Nat /\ Batch \in Nat
    /\ Commands \subseteq {"enable", "update", "remove", "runNow", "cancel"}
    /\ {"failed", "unknown", "blocked"} \subseteq Verdicts
    /\ MaxCrashes \in Nat
    /\ Dispatchers \cap Slots = {} /\ NoTime \notin Dispatchers

VARIABLES
    pass,     \* what each dispatcher is doing
    work,     \* the task run_claim started for a claimed slot
    ens,      \* the ensure_next_occurrence call each process is in
    exec,     \* the action of a slot, in the process that executes it
    starts,   \* how often the action of a slot was started
    mgr,      \* remove_definition between its COUNT and its DELETE, and what was started at the COUNT
    crashes

store == vars
procs == <<pass, work, ens, exec, starts, mgr, crashes>>
all == <<now, def, occ, run, edits, pass, work, ens, exec, starts, mgr, crashes>>

Processes == Dispatchers \cup Slots   \* a task is named by its slot

Phases == {"idle", "recover", "agent", "shell", "horizon", "overlap",
           "misfire", "claim", "work"}

\* The phases of dispatch_pass in order.
Following(phase) ==
    CASE phase = "recover" -> "agent"
      [] phase = "agent"   -> "shell"
      [] phase = "shell"   -> "horizon"
      [] phase = "horizon" -> "overlap"
      [] phase = "overlap" -> "misfire"
      [] phase = "misfire" -> "claim"
      [] OTHER             -> "work"

Idle == [phase |-> "idle", reads |-> TRUE, t |-> 0, todo |-> {}, target |-> NoTime]
NoFrame == [step |-> "none", t |-> 0, trigger |-> Once(0), slot |-> NoTime]
NoRemoval == [step |-> "idle", started |-> {}]
NoWork == [pc |-> "none", owner |-> NoTime, kind |-> "shell", since |-> 0, verdict |-> "failed"]

Steps == {"none", "definition", "count", "last", "insert"}
Points == {"none", "start", "deliver", "executing", "delivered", "poll", "release", "handOff",
           "settle", "done"}

DispatchTypeOK ==
    /\ pass \in [Dispatchers -> [phase : Phases, reads : BOOLEAN, t : Nat,
                                todo : SUBSET [slot : Slots, gen : Nat],
                                target : Slots \cup {NoTime}]]
    /\ \A p \in Dispatchers : pass[p].t <= now
    /\ work \in [Slots -> [pc : Points, owner : Dispatchers \cup {NoTime}, kind : Action,
                          since : Nat, verdict : Verdicts]]
    /\ \A s \in Slots : work[s].since <= now
    /\ ens \in [Processes -> [step : Steps, t : Nat, trigger : Triggers \cup {Once(0)},
                              slot : Slots \cup {NoTime}]]
    /\ \A q \in Processes : ens[q].step = "insert" => ens[q].slot \in Slots
    /\ exec \in [Slots -> {"none", "live", "done"}]
    /\ starts \in [Slots -> Nat]
    /\ mgr \in [step : {"idle", "delete"}, started : SUBSET Slots]

DispatchInit ==
    /\ Init
    /\ pass = [p \in Dispatchers |-> Idle]
    /\ work = [s \in Slots |-> NoWork]
    /\ ens = [q \in Processes |-> NoFrame]
    /\ exec = [s \in Slots |-> "none"]
    /\ starts = [s \in Slots |-> 0]
    /\ mgr = NoRemoval
    /\ crashes = 0

-----------------------------------------------------------------------------
(* Rows as a SELECT returns them: an instant and the gen of its row.       *)

Row(s) == [slot |-> s, gen |-> occ[s].gen]
IsThere(k) == occ[k.slot].gen = k.gen /\ occ[k.slot].state # "none"
RowsOf(S) == {Row(s) : s \in S}
Present == {s \in Slots : occ[s].state # "none"}
Pending == {s \in Slots : occ[s].state = "pending"}
Generated == {s \in Pending : ~occ[s].runNow}
Oldest(todo) == {k \in todo : \A o \in todo : k.slot <= o.slot}

DueStrictly(t) == {s \in Pending : s < t /\ Live /\ (def.enabled \/ occ[s].runNow)}

\* Due pending slots of an enabled definition, and explicit ones of a paused one.
Due(t) == {s \in Pending : s <= t /\ Live /\ (def.enabled \/ occ[s].runNow)}

Expired(t) ==
    {s \in Slots : occ[s].state = "claimed" /\ occ[s].lease # NoTime /\ occ[s].lease <= t}

\* handed_off_runs and observable_shell_runs.
HandedOff == {s \in Slots : run[s].state = "running" /\ run[s].handedOff}
ObservableShells ==
    {s \in Slots : def.action = "shell" /\ Active(s) /\ run[s].delivered
                   /\ run[s].deadline # NoTime /\ ~run[s].handedOff}

Suppressed(t) ==
    IF def.overlap = "skip-if-running" /\ ~NoneActive THEN Due(t) ELSE {}

Overdue(t) == {s \in Due(t) : def.enabled /\ ~occ[s].runNow /\ t - s > Grace}
MissedUnderSkip(t) == IF def.misfire = "skip" THEN Overdue(t) ELSE {}

\* What reconcile_misfires marks missed: every overdue slot but, under
\* run-once, the newest one.
Missed(t) ==
    IF def.misfire = "skip" THEN Overdue(t)
    ELSE {s \in Overdue(t) : \E o \in Overdue(t) : o > s}

\* claim_due reads the oldest due slots, claim_run_now its own slot.
FirstDue(S, n) == {s \in S : Cardinality({o \in S : o < s}) < n}
Claimable(t, target) ==
    IF ~OverlapAllows THEN {}
    ELSE IF target = NoTime THEN FirstDue(Due(t), Batch)
    ELSE {s \in Pending : s = target /\ occ[s].runNow}

Candidates(phase, t, target) ==
    CASE phase = "recover" -> Expired(t)
      [] phase = "agent"   -> HandedOff
      [] phase = "shell"   -> ObservableShells
      [] phase = "overlap" -> Suppressed(t)
      [] phase = "misfire" -> Missed(t)
      [] OTHER             -> Claimable(t, target)

-----------------------------------------------------------------------------
(* ensure_next_occurrence, called by a pass or a task q: the definition    *)
(* (read by the caller), the COUNT of queue-one, the MAX, the INSERT.      *)

Ensuring(q) == ens[q].step # "none"
EnsureFrom(q, t) == ens' = [ens EXCEPT ![q] = [NoFrame EXCEPT !.step = "definition", !.t = t]]
Leave(q) == ens' = [ens EXCEPT ![q] = NoFrame]

EnsureDefinition(q) ==
    /\ ens[q].step = "definition"
    /\ IF Live /\ def.enabled
       THEN ens' = [ens EXCEPT ![q].trigger = def.trigger,
                       ![q].step = IF def.overlap = "queue-one" THEN "count" ELSE "last"]
       ELSE Leave(q)
    /\ UNCHANGED <<store, pass, work, exec, starts, mgr, crashes>>

EnsureCount(q) ==
    /\ ens[q].step = "count"
    /\ IF Pending = {} THEN ens' = [ens EXCEPT ![q].step = "last"] ELSE Leave(q)
    /\ UNCHANGED <<store, pass, work, exec, starts, mgr, crashes>>

SuccessorUnlessLate(trigger, last, t) ==
    LET next == NextAfter(trigger, last)
    IN  IF next # NoTime /\ next <= t /\ t - next > Grace THEN NoTime ELSE next

\* The successor of the latest row, or of now when it is older than the grace.
Successor(trigger, last, t) ==
    LET next == NextAfter(trigger, last)
    IN  IF next # NoTime /\ next <= t /\ t - next > Grace
        THEN NextAfter(trigger, t) ELSE next

EnsureAnother(q) ==
    LET frame == ens[q]
        last  == IF Present = {} THEN NoTime ELSE Max(Present)
        next  == Successor(frame.trigger, IF last = NoTime THEN frame.t ELSE last, frame.t)
    IN  /\ frame.step = "last"
        /\ IF next \in Slots /\ next > last
           THEN ens' = [ens EXCEPT ![q] = [NoFrame EXCEPT !.step = "insert", !.slot = next]]
           ELSE Leave(q)
        /\ UNCHANGED <<store, pass, work, exec, starts, mgr, crashes>>

EnsureLast(q) ==
    LET frame == ens[q]
        last  == IF Present = {} THEN NoTime ELSE Max(Present)
        next  == Successor(frame.trigger, IF last = NoTime THEN frame.t ELSE last, frame.t)
    IN  /\ frame.step = "last"
        /\ IF last <= frame.t /\ next \in Slots /\ next > last
           THEN ens' = [ens EXCEPT ![q] = [NoFrame EXCEPT !.step = "insert", !.slot = next]]
           ELSE Leave(q)
        /\ UNCHANGED <<store, pass, work, exec, starts, mgr, crashes>>

\* INSERT OR IGNORE; without its definition the row is refused and the pass fails.
EnsureInsert(q) ==
    LET s == ens[q].slot
    IN  /\ ens[q].step = "insert"
        /\ IF Live /\ occ[s].state = "none" THEN InsertNext(s) ELSE UNCHANGED store
        /\ Leave(q)
        /\ pass' = IF ~Live /\ q \in Dispatchers THEN [pass EXCEPT ![q] = Idle] ELSE pass
        /\ UNCHANGED <<work, exec, starts, mgr, crashes>>

EnsureStep(q) == EnsureDefinition(q) \/ EnsureCount(q) \/ EnsureLast(q) \/ EnsureInsert(q)

-----------------------------------------------------------------------------
(* A dispatch pass.                                                        *)

\* One pass of a driver (dispatch_due_with_source).
StartPass(p) ==
    /\ pass[p] = Idle
    /\ pass' = [pass EXCEPT ![p] = [Idle EXCEPT !.phase = "recover", !.t = now]]
    /\ UNCHANGED <<store, work, ens, exec, starts, mgr, crashes>>

\* dispatch_run_now, for the slot create_run_now left in Manage.
StartRunNow(p) ==
    /\ pass[p] = Idle
    /\ \E s \in Pending :
          /\ occ[s].runNow
          /\ pass' = [pass EXCEPT ![p] = [Idle EXCEPT !.phase = "overlap", !.t = now, !.target = s]]
    /\ UNCHANGED <<store, work, ens, exec, starts, mgr, crashes>>

\* Pass p leaves its phase when nothing is left to do in it.  After the runs
\* are observed dispatch_pass reads the clock again; a run-now goes from the
\* overlap policy straight to its claim.
Advance(p, todo) ==
    LET here == pass[p]
        next == IF here.phase = "overlap" /\ here.target # NoTime THEN "claim"
                ELSE Following(here.phase)
    IN  IF todo # {} THEN [here EXCEPT !.reads = FALSE, !.todo = todo]
        ELSE [here EXCEPT !.reads = TRUE, !.todo = {}, !.phase = next,
                          !.t = CASE next = "horizon" -> now
                                  [] next = "work"    -> 0
                                  [] OTHER            -> @]

At(p, phase) == pass[p].phase = phase /\ ~Ensuring(p)

Read(p) ==
    LET here == pass[p]
    IN  /\ here.phase \in {"recover", "agent", "shell", "overlap", "misfire", "claim"}
        /\ here.reads
        /\ ~Ensuring(p)
        /\ pass' = [pass EXCEPT ![p] =
                      Advance(p, RowsOf(Candidates(here.phase, here.t, here.target)))]
        /\ UNCHANGED <<store, work, ens, exec, starts, mgr, crashes>>

\* The row k of the pass's list: the transaction Do when the row still
\* matches, then the next slot; a row that no longer matches is passed over.
Each(p, k, Matches, Do) ==
    /\ ~pass[p].reads
    /\ pass' = [pass EXCEPT ![p] = Advance(p, pass[p].todo \ {k})]
    /\ IF IsThere(k) /\ Matches
       THEN Do /\ EnsureFrom(p, pass[p].t)
       ELSE UNCHANGED <<store, ens>>
    /\ UNCHANGED <<work, exec, starts, mgr, crashes>>

Recover(p) ==
    /\ At(p, "recover")
    /\ \E k \in pass[p].todo :
          Each(p, k, occ[k.slot].state = "claimed", RecoverSlot(k.slot))

ReconcileOverlap(p) ==
    /\ At(p, "overlap")
    /\ \E k \in Oldest(pass[p].todo) :
          Each(p, k, occ[k.slot].state = "pending", SkipSlot(k.slot))

ReconcileMisfire(p) ==
    /\ At(p, "misfire")
    /\ \E k \in Oldest(pass[p].todo) :
          Each(p, k, occ[k.slot].state = "pending", MissSlot(k.slot))

EnsureHorizon(p) ==
    /\ At(p, "horizon")
    /\ pass' = [pass EXCEPT ![p] = Advance(p, {})]
    /\ EnsureFrom(p, pass[p].t)
    /\ UNCHANGED <<store, work, exec, starts, mgr, crashes>>

Claim(p) ==
    /\ At(p, "claim")
    /\ ~pass[p].reads
    /\ \E k \in Oldest(pass[p].todo) :
          /\ pass' = [pass EXCEPT ![p] = Advance(p, pass[p].todo \ {k})]
          /\ IF IsThere(k) /\ occ[k.slot].state = "pending" /\ OverlapAllows /\ Live
             THEN /\ ClaimSlot(k.slot, pass[p].t)
                  /\ work' = [work EXCEPT ![k.slot] = [NoWork EXCEPT !.pc = "start", !.owner = p,
                                                                     !.kind = def.action]]
             ELSE UNCHANGED <<store, work>>
    /\ UNCHANGED <<ens, exec, starts, mgr, crashes>>

\* join_all returned: every task of this pass is over.
FinishPass(p) ==
    /\ At(p, "work")
    /\ \A s \in Slots : work[s].owner = p => work[s].pc = "done" /\ ~Ensuring(s)
    /\ pass' = [pass EXCEPT ![p] = Idle]
    /\ work' = [s \in Slots |-> IF work[s].owner = p THEN NoWork ELSE work[s]]
    /\ UNCHANGED <<store, ens, exec, starts, mgr, crashes>>

-----------------------------------------------------------------------------
(* Observation of a run the dispatcher no longer holds (reconcile_agent_   *)
(* runs and reconcile_shell_runs).  A snapshot may fail to answer; a       *)
(* terminal record settles the run, the deadline settles it as unknown.    *)

\* What interpret_shell and agent_outcome make of a terminal record.
ShellOutcomes == Verdicts \cap {"succeeded", "failed", "cancelled", "unknown"}
AgentOutcomes == Verdicts \cap {"succeeded", "failed", "cancelled", "unknown", "blocked"}

\* Past the limit the run is unknown, unless a cancellation must be issued first.
Limit(s) == run[s].deadline + (IF run[s].handedOff THEN CancelGrace ELSE 0)

ObservationWithoutDeadline(s, t) ==
    IF exec[s] = "done" THEN (IF run[s].handedOff THEN AgentOutcomes ELSE ShellOutcomes) ELSE {}

\* A turn that waits for a person is stopped and settled at once; a run whose
\* definition is no longer an agent action is blocked.
Observation(s, t) ==
    LET handedOff == run[s].handedOff
        ended   == IF handedOff THEN AgentOutcomes ELSE ShellOutcomes
        waiting == IF handedOff THEN Verdicts \cap {"waiting_approval"} ELSE {}
        expired == IF t >= Limit(s) THEN {"unknown"} ELSE {}
    IN  IF handedOff /\ def.action # "agent" THEN {"blocked"}
        ELSE expired \cup (IF exec[s] = "done" THEN ended ELSE waiting)

Observable(k) == IsThere(k) /\ Active(k.slot)

ObserveSettles(p, k) ==
    /\ Observable(k)
    /\ \E outcome \in Observation(k.slot, pass[p].t) : FinishRun(k.slot, outcome)
    /\ EnsureFrom(p, now)

\* An agent turn is cancelled once, on request or at its deadline; a shell
\* that is seen running is cancelled on request.
ObserveCancels(p, k) ==
    /\ Observable(k)
    /\ ~run[k.slot].issued
    /\ IF run[k.slot].handedOff
       THEN run[k.slot].cancel \/ pass[p].t >= run[k.slot].deadline
       ELSE run[k.slot].cancel /\ run[k.slot].state = "running" /\ exec[k.slot] = "live"
    /\ MarkCancelIssued(k.slot)
    /\ UNCHANGED ens

ObserveRuns(p, k) ==
    /\ Observable(k)
    /\ run[k.slot].state = "dispatching" /\ exec[k.slot] = "live"
    /\ pass[p].t < Limit(k.slot)
    /\ MarkRunning(k.slot)
    /\ UNCHANGED ens

\* A shell first seen running, and asked to stop, is cancelled next.
StillToCancel(p, k) ==
    IF run[k.slot].cancel THEN pass[p].todo ELSE pass[p].todo \ {k}

\* A snapshot fails, or shows nothing yet; a cancellation is refused, or was
\* issued by another pass after this one read the run.
ObserveLeaves(p, k) ==
    /\ Observable(k) => run[k.slot].handedOff \/ pass[p].t < Limit(k.slot)
    /\ UNCHANGED <<store, ens>>

Observe(p) ==
    /\ At(p, "agent") \/ At(p, "shell")
    /\ ~pass[p].reads
    /\ \E k \in pass[p].todo :
          \/ /\ ObserveSettles(p, k) \/ ObserveCancels(p, k) \/ ObserveLeaves(p, k)
             /\ pass' = [pass EXCEPT ![p] = Advance(p, pass[p].todo \ {k})]
          \/ /\ ObserveRuns(p, k)
             /\ pass' = [pass EXCEPT ![p] = Advance(p, StillToCancel(p, k))]
    /\ UNCHANGED <<work, exec, starts, mgr, crashes>>

-----------------------------------------------------------------------------
(* The task of a claimed slot.                                             *)

AtTask(s, pc) ==
    /\ work[s].pc = pc
    /\ ~Ensuring(s)
    /\ pass[work[s].owner].phase = "work"

Goto(s, pc) == work' = [work EXCEPT ![s].pc = pc]
Done(s) == work' = [work EXCEPT ![s] = [NoWork EXCEPT !.pc = "done", !.owner = work[s].owner]]
Settle(s, verdict) == work' = [work EXCEPT ![s].pc = "settle", ![s].verdict = verdict]

\* The definition is read after the claim and again before anything is
\* started: a removed or edited one refuses the run, and so does a missing
\* grant, a runtime that cannot be reached, or, for an agent, a busy session.
Refusals(kind) == {"blocked", "failed"} \cup (IF kind = "agent" THEN {"skipped"} ELSE {})

Begin(s) == work' = [work EXCEPT ![s].pc = "deliver", ![s].kind = def.action]

Reread(s) ==
    /\ AtTask(s, "start")
    /\ \/ \E kind \in {work[s].kind, def.action} :
              \E verdict \in Verdicts \cap Refusals(kind) : Settle(s, verdict)
       \/ Live /\ Begin(s)
    /\ UNCHANGED <<store, pass, ens, exec, starts, mgr, crashes>>

Starts(s) ==
    /\ exec' = [exec EXCEPT ![s] = "live"]
    /\ starts' = [starts EXCEPT ![s] = @ + 1]

\* client.deliver: accepted, refused, or accepted with the answer lost
\* (delivery_failure: the action may have run).
Deliver(s) ==
    /\ AtTask(s, "deliver")
    /\ work[s].kind # "native"
    /\ \/ Starts(s) /\ Goto(s, "delivered")
       \/ Starts(s) /\ Settle(s, "unknown")
       \/ UNCHANGED <<exec, starts>> /\ Settle(s, "failed")
    /\ UNCHANGED <<store, pass, ens, mgr, crashes>>

\* executor.execute, which may refuse, or fail, before it starts anything.
Execute(s) ==
    /\ AtTask(s, "deliver")
    /\ work[s].kind = "native"
    /\ \/ Starts(s) /\ Goto(s, "executing")
       \/ UNCHANGED <<exec, starts>> /\ \E verdict \in {"blocked", "failed", "unknown"} : Settle(s, verdict)
    /\ UNCHANGED <<store, pass, ens, mgr, crashes>>

Delivered(s) ==
    /\ AtTask(s, "delivered")
    /\ IF run[s].state = "dispatching" /\ ~run[s].delivered
       THEN MarkDelivered(s) ELSE UNCHANGED store
    /\ work' = [work EXCEPT ![s].pc = IF work[s].kind = "agent" THEN "handOff" ELSE "poll", ![s].since = now]
    /\ UNCHANGED <<pass, ens, exec, starts, mgr, crashes>>

PollWithoutStatus(s) ==
    /\ AtTask(s, "poll")
    /\ IF run[s].state = "dispatching" THEN MarkRunning(s) ELSE UNCHANGED store
    /\ \E verdict \in ShellOutcomes : Settle(s, verdict)
    /\ UNCHANGED <<pass, ens, exec, starts, mgr, crashes>>

\* run_shell's loop: a shell seen running, or not seen in the admission
\* window, is released; one seen to have ended is settled, and so is one whose
\* timeout, counted from the delivery, ends inside the window.
Poll(s) ==
    /\ AtTask(s, "poll")
    /\ \/ UNCHANGED store /\ Goto(s, "release")
       \/ UNCHANGED store /\ now - work[s].since >= Timeout /\ Settle(s, "unknown")
       \/ /\ IF run[s].state = "dispatching" THEN MarkRunning(s) ELSE UNCHANGED store
          /\ \/ exec[s] = "live" /\ Goto(s, "release")
             \/ exec[s] = "done" /\ \E verdict \in ShellOutcomes : Settle(s, verdict)
    /\ UNCHANGED <<pass, ens, exec, starts, mgr, crashes>>

Release(s) ==
    /\ AtTask(s, "release")
    /\ Done(s)
    /\ IF Active(s) /\ run[s].delivered
       THEN ReleaseShellObservation(s, work[s].since) /\ EnsureFrom(s, now)
       ELSE UNCHANGED <<store, ens>>
    /\ UNCHANGED <<pass, exec, starts, mgr, crashes>>

HandOff(s) ==
    /\ AtTask(s, "handOff")
    /\ Done(s)
    /\ IF run[s].state = "dispatching"
       THEN MarkHandedOff(s, now) /\ EnsureFrom(s, now)
       ELSE UNCHANGED <<store, ens>>
    /\ UNCHANGED <<pass, exec, starts, mgr, crashes>>

\* run_native holds its claim until the executor reports; the lease is not
\* renewed meanwhile.
NativeReport(s) ==
    /\ AtTask(s, "executing")
    /\ exec[s] = "done"
    /\ \E verdict \in Verdicts \ {"skipped"} : Settle(s, verdict)
    /\ UNCHANGED <<store, pass, ens, exec, starts, mgr, crashes>>

SettleTask(s) ==
    /\ AtTask(s, "settle")
    /\ Done(s)
    /\ EnsureFrom(s, now)
    /\ IF Active(s) THEN FinishRun(s, work[s].verdict) ELSE UNCHANGED store
    /\ UNCHANGED <<pass, exec, starts, mgr, crashes>>

TaskStep(s) ==
    \/ Reread(s) \/ Deliver(s) \/ Execute(s) \/ Delivered(s) \/ Poll(s) \/ Release(s)
    \/ HandOff(s) \/ NativeReport(s) \/ SettleTask(s) \/ EnsureStep(s)

PassStep(p) ==
    \/ StartPass(p) \/ Read(p) \/ Recover(p) \/ Observe(p) \/ EnsureHorizon(p)
    \/ ReconcileOverlap(p) \/ ReconcileMisfire(p) \/ Claim(p) \/ FinishPass(p)
    \/ EnsureStep(p)

-----------------------------------------------------------------------------
(* The world around the dispatchers.                                       *)

\* The action ends (in the runtime, or as a child of the native executor).
ActionEnds(s) ==
    /\ exec[s] = "live"
    /\ exec' = [exec EXCEPT ![s] = "done"]
    /\ UNCHANGED <<store, pass, work, ens, starts, mgr, crashes>>

\* Kill a dispatcher: its pass and its tasks are gone, the rows stay.
Crash(p) ==
    LET mine == {s \in Slots : work[s].owner = p}
    IN  /\ crashes < MaxCrashes
        /\ pass[p] # Idle
        /\ crashes' = crashes + 1
        /\ pass' = [pass EXCEPT ![p] = Idle]
        /\ work' = [s \in Slots |-> IF s \in mine THEN NoWork ELSE work[s]]
        /\ ens' = [q \in Processes |-> IF q = p \/ q \in mine THEN NoFrame ELSE ens[q]]
        /\ UNCHANGED <<store, exec, starts, mgr>>

\* The actions started so far; remove_definition does not read it, the
\* properties compare with it.
StartedSlots == {s \in Slots : starts[s] > 0}
ToDelete == [step |-> "delete", started |-> StartedSlots]

RemoveCountOfRunning ==
    /\ "remove" \in Commands
    /\ mgr.step = "idle"
    /\ Live
    /\ \A s \in Slots : run[s].state # "running"
    /\ mgr' = ToDelete
    /\ UNCHANGED <<store, pass, work, ens, exec, starts, crashes>>

\* remove_definition refuses while a run is active; the DELETE does not look again.
RemoveCount ==
    /\ "remove" \in Commands
    /\ mgr.step = "idle"
    /\ Live
    /\ NoneActive
    /\ mgr' = ToDelete
    /\ UNCHANGED <<store, pass, work, ens, exec, starts, crashes>>

RemoveDelete ==
    /\ mgr.step = "delete"
    /\ DeleteDefinition
    /\ mgr' = NoRemoval
    /\ UNCHANGED <<pass, work, ens, exec, starts, crashes>>

Manage ==
    /\ \/ CreateDefinition
       \/ "enable" \in Commands /\ SetEnabled(~def.enabled)
       \/ "runNow" \in Commands /\ now \in Slots /\ CreateRunNow(now)
       \/ "cancel" \in Commands /\ \E s \in Slots : ~run[s].cancel /\ RequestCancel(s)
       \/ /\ "update" \in Commands
          /\ \E trigger \in Triggers, overlap \in Overlaps, misfire \in Misfires,
                action \in Actions :
                UpdateDefinition(trigger, overlap, misfire, action, now)
    /\ UNCHANGED procs

Time == Tick /\ UNCHANGED procs

DispatchNext ==
    \/ Time \/ Manage \/ RemoveCount \/ RemoveDelete
    \/ \E p \in Dispatchers : PassStep(p) \/ StartRunNow(p) \/ Crash(p)
    \/ \E s \in Slots : TaskStep(s) \/ ActionEnds(s)

DispatchSpec == DispatchInit /\ [][DispatchNext]_all

(***************************************************************************)
(* Fairness.  The operating system's timer, or the loop of `schedule       *)
(* serve`, starts a pass again and again; the async runtime schedules a    *)
(* started pass and its tasks; the executor of a native action kills it at *)
(* its timeout.  Nothing is assumed of a shell or of an agent turn.        *)
(***************************************************************************)
Fairness ==
    /\ WF_all(Time)
    /\ \A p \in Dispatchers : WF_all(PassStep(p))
    /\ \A s \in Slots : WF_all(TaskStep(s)) /\ WF_all(work[s].pc = "executing" /\ ActionEnds(s))

FairDispatch == DispatchSpec /\ Fairness

-----------------------------------------------------------------------------
(* Properties.                                                             *)

(***************************************************************************)
(* Delivery is at-most-once: however many dispatchers race, and wherever   *)
(* one of them is killed, the action of an occurrence is started at most   *)
(* once.                                                                   *)
(***************************************************************************)
AtMostOnce == \A s \in Slots : starts[s] <= 1

(***************************************************************************)
(* History does not lie about effects: a slot recorded as missed or        *)
(* skipped was never started ("Never executed, never retried"), neither    *)
(* was a shell run recorded as blocked, and a run recorded as succeeded    *)
(* has really ended.                                                       *)
(***************************************************************************)
Refused(s) ==
    \/ occ[s].state \in {"missed", "skipped"}
    \/ occ[s].state = "blocked" /\ def.action = "shell" /\ edits = 0

HonestHistory ==
    \A s \in Slots :
        /\ Refused(s) => starts[s] = 0
        /\ run[s].state = "succeeded" => exec[s] = "done"

(***************************************************************************)
(* No active run is forgotten: whichever dispatcher dies and wherever,     *)
(* either lease recovery will reach the run or one of the two reconcilers  *)
(* selects it ("the run stays observable until its own deadline").         *)
(***************************************************************************)
NoOrphanedRun ==
    \A s \in Slots :
        Active(s) => occ[s].lease # NoTime \/ s \in HandedOff \cup ObservableShells

(***************************************************************************)
(* No effect is off the books: while its definition is there, a started    *)
(* action is settled in the history, held under a lease, or selected by a  *)
(* reconciler, through edits that drop and re-create slots, removals,      *)
(* pauses and a kill ("the run stays observable until its own deadline").  *)
(* Disowned is the one gap of the code: an update may change the kind of a *)
(* shell definition while a released run of it is active, and              *)
(* observable_shell_runs, which selects by the present kind, then passes   *)
(* the run over until the kind is changed back.                            *)
(***************************************************************************)
Disowned(s) ==
    /\ Active(s) /\ run[s].delivered /\ ~run[s].handedOff
    /\ edits > 0 /\ def.action # "shell"

EffectsOnRecord ==
    Live => \A s \in StartedSlots :
        \/ occ[s].state \in Closed
        \/ Active(s) /\ occ[s].lease # NoTime
        \/ s \in HandedOff \cup ObservableShells
        \/ Disowned(s)

(***************************************************************************)
(* Removing a definition deletes the record of a started action only when  *)
(* it is final ("settled rather than orphaned"), unless the action was     *)
(* started after remove_definition had counted the active runs: the COUNT  *)
(* and the DELETE are two statements, and a claim may come between them.   *)
(***************************************************************************)
RemovalSettles ==
    [][Live /\ ~Live' =>
          \A s \in StartedSlots : occ[s].state \in Closed \/ s \notin mgr.started]_all

(***************************************************************************)
(* The horizon is one slot deep: a generated slot of the future is the     *)
(* anchor of its rule or no further than an interval away, whatever reads  *)
(* the processes that insert it mix (ensure_next_occurrence: "a pass       *)
(* cannot stack a second future slot").  While no update was committed the *)
(* rule is the definition's own.                                           *)
(***************************************************************************)
Interval(trigger) == IF trigger.kind = "every" THEN trigger.every * TicksPerSecond ELSE 0

NearHorizon ==
    \A s \in Generated :
        s > now => \E trigger \in (IF edits = 0 THEN {def.trigger} ELSE Triggers) :
                      s = FirstOccurrence(trigger) \/ s <= now + Interval(trigger)

(***************************************************************************)
(* A long outage is no burst: with one dispatcher, a slot past its grace   *)
(* is claimed only under run-once, and then no other slot past its grace   *)
(* is left to be claimed after it (MisfirePolicy: "No catch-up execution", *)
(* "Execute the one pending slot once on recovery, then move on").  The    *)
(* anchor itself may be in the past when a definition is created.          *)
(***************************************************************************)
Claims(s) == occ[s].state = "pending" /\ occ'[s].state = "claimed"
Late(s, t) == s \in Generated /\ t - s > Grace /\ s # FirstOccurrence(def.trigger)

NoCatchUpBurst ==
    [][\A s \in Slots :
          LET t == occ'[s].lease - Lease
          IN  Claims(s) /\ Late(s, t) =>
                 /\ def.misfire = "run-once"
                 /\ \A o \in Slots : Late(o, t) => o = s]_all

(***************************************************************************)
(* Every run reaches a verdict once its lease, or its deadline and grace,  *)
(* has passed, wherever its dispatcher was killed.  (Beyond: the bounded   *)
(* clock never gets there.)                                                *)
(***************************************************************************)
Beyond(s) ==
    \/ occ[s].lease > MaxTime
    \/ run[s].deadline # NoTime /\ Limit(s) > MaxTime

EveryRunSettles == \A s \in Slots : Active(s) ~> ~Active(s) \/ Beyond(s)

(***************************************************************************)
(* Every due slot of an enabled definition is decided: claimed, skipped or *)
(* missed, never left pending for good.                                    *)
(***************************************************************************)
EverySlotDecided ==
    \A s \in Slots : s <= MaxTime /\ occ[s].state = "pending" ~> occ[s].state # "pending"

(***************************************************************************)
(* A recurring definition never runs dry: the slot after the last instant  *)
(* the clock reaches is materialised.                                      *)
(***************************************************************************)
HorizonKept == Live ~> \E s \in Present : s > MaxTime
=============================================================================
