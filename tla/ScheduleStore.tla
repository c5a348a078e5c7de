--------------------------- MODULE ScheduleStore ---------------------------
(***************************************************************************)
(* The rows schedules.db keeps for one definition, and every transaction   *)
(* of leveler-schedule/src/store.rs that writes them.                      *)
(*                                                                         *)
(* The store is shared by every process of the host: a dispatch pass the   *)
(* operating system started, `schedule serve`, a run-now, the management   *)
(* commands of a client.  Here those callers are arbitrary: any of them    *)
(* may issue any transaction at any time, with any clock reading that is   *)
(* not in the future (a value read earlier, when the caller's pass began). *)
(* A guard below is therefore only what the statement's own WHERE clause   *)
(* re-checks, or what cannot change after the caller read it; what was     *)
(* read and may be stale is not a guard.  ScheduleDispatch adds the real   *)
(* callers.                                                                *)
(*                                                                         *)
(* A definition whose name says how it departs from the one below it       *)
(* (...WithoutCheck, ...Again) is a plausible defect of that statement; it *)
(* is used only to see that a property notices the defect.                 *)
(*                                                                         *)
(* A row of schedule_occurrences is identified by its instant (the table   *)
(* is UNIQUE on definition and scheduled_for) and by gen, the number of    *)
(* rows that instant has had: an edit may delete a pending row and a later *)
(* INSERT gives the instant a new row, with a new id.  schedule_runs is    *)
(* UNIQUE on occurrence_id, so a row has at most one run.                  *)
(***************************************************************************)
EXTENDS ScheduleRule, FiniteSets

CONSTANTS
    Slots,       \* the instants an occurrence may be scheduled for (a bound)
    Triggers,    \* triggers a definition may declare
    Overlaps,    \* overlap policies it may declare
    Misfires,    \* misfire policies it may declare
    Actions,     \* action kinds it may declare
    Verdicts,    \* outcomes a dispatcher may settle a run with
    Lease,       \* the dispatcher's claim lease
    Timeout,     \* the definition's timeout
    MaxTime,     \* bound of the clock
    MaxEdits     \* bound on committed updates of the definition

Overlap == {"skip-if-running", "queue-one", "allow-concurrent"}
Misfire == {"skip", "run-once"}
Action  == {"shell", "native", "agent"}

Outcomes == {"succeeded", "submitted", "failed", "unknown", "skipped",
             "waiting_approval", "blocked", "cancelled"}

ASSUME StoreAssumption ==
    /\ Slots \subseteq Nat
    /\ Overlaps \subseteq Overlap
    /\ Misfires \subseteq Misfire
    /\ Actions \subseteq Action
    /\ Verdicts \subseteq Outcomes
    /\ Lease \in Nat
    /\ Timeout \in Nat
    /\ MaxTime \in Nat
    /\ MaxEdits \in Nat

\* Instants are DateTime<Utc>; the interval of a rule is a u64 of seconds.
ASSUME TriggerAssumption ==
    Triggers \subseteq [kind : {"once"}, at : Int] \cup [kind : {"every"}, anchor : Int, every : Nat]

VARIABLES
    now,    \* the host's clock
    def,    \* the row of schedule_definitions
    occ,    \* schedule_occurrences, by instant
    run,    \* schedule_runs, by the instant of their occurrence
    edits   \* committed updates (a bound, not a column)

rows == <<def, occ, run>>
vars == <<now, def, occ, run, edits>>

-----------------------------------------------------------------------------
(* Row states: OccurrenceState, RunState and RunOutcome.                   *)

ActiveStates == {"dispatching", "running"}
RunStates == {"none"} \cup ActiveStates \cup Outcomes
Closed == {"completed", "interrupted", "missed", "skipped",
           "waiting_approval", "blocked", "cancelled"}
OccStates == {"none", "pending", "claimed"} \cup Closed

OccurrenceStateAsOutcome(outcome) == outcome

\* RunOutcome::occurrence_state.
OccurrenceState(outcome) ==
    IF outcome \in {"succeeded", "submitted", "failed", "unknown"}
    THEN "completed"
    ELSE outcome

NoRow == [state |-> "none", gen |-> 0, runNow |-> FALSE, lease |-> NoTime]
NoRun == [state |-> "none", delivered |-> FALSE, handedOff |-> FALSE,
          deadline |-> NoTime, cancel |-> FALSE, issued |-> FALSE]

\* A settled run.  No statement reads the other columns of one (nor the lease
\* of an interrupted occurrence), so they are dropped here.
Settled(outcome) == [NoRun EXCEPT !.state = outcome]

Definition == [status  : {"absent", "live", "removed"},
               enabled : BOOLEAN,
               overlap : Overlaps,
               misfire : Misfires,
               action  : Actions,
               trigger : Triggers]

TypeOK ==
    /\ now \in Nat
    /\ def \in Definition
    /\ occ \in [Slots -> [state : OccStates, gen : Nat, runNow : BOOLEAN,
                          lease : Nat \cup {NoTime}]]
    /\ run \in [Slots -> [state : RunStates, delivered : BOOLEAN,
                          handedOff : BOOLEAN, deadline : Nat \cup {NoTime},
                          cancel : BOOLEAN, issued : BOOLEAN]]
    /\ edits \in Nat

Live == def.status = "live"
Active(s) == run[s].state \in ActiveStates
NoneActive == \A s \in Slots : ~Active(s)

\* The overlap predicate shared by the SELECT and the UPDATE of both claims.
OverlapAllows == def.overlap = "allow-concurrent" \/ NoneActive

\* Clock readings a caller may still hold.
Readings == 0 .. now

Init ==
    /\ now = 0
    /\ \E overlap \in Overlaps, misfire \in Misfires, action \in Actions,
          trigger \in Triggers :
          def = [status |-> "absent", enabled |-> FALSE, overlap |-> overlap,
                 misfire |-> misfire, action |-> action, trigger |-> trigger]
    /\ occ = [s \in Slots |-> NoRow]
    /\ run = [s \in Slots |-> NoRun]
    /\ edits = 0

-----------------------------------------------------------------------------
(* The definition.                                                         *)

Inserted(rowAt, s, runNow) ==
    [rowAt EXCEPT ![s] = [state |-> "pending", gen |-> @.gen + 1,
                          runNow |-> runNow, lease |-> NoTime]]

\* create_definition: the definition and its first occurrence in one commit.
CreateDefinition ==
    LET first == FirstOccurrence(def.trigger)
    IN  /\ def.status = "absent"
        /\ Valid(def.trigger)
        /\ first \in Slots
        /\ def' = [def EXCEPT !.status = "live", !.enabled = TRUE]
        /\ occ' = Inserted(occ, first, FALSE)
        /\ UNCHANGED <<now, run, edits>>

\* The DELETE of remove_definition: occurrences and runs go by cascade.
DeleteDefinition ==
    /\ Live
    /\ def' = [def EXCEPT !.status = "removed", !.enabled = FALSE]
    /\ occ' = [s \in Slots |-> [NoRow EXCEPT !.gen = occ[s].gen]]
    /\ run' = [s \in Slots |-> NoRun]
    /\ UNCHANGED <<now, edits>>

SetEnabled(enabled) ==
    /\ Live
    /\ def' = [def EXCEPT !.enabled = enabled]
    /\ UNCHANGED <<now, occ, run, edits>>

(***************************************************************************)
(* update_definition.  Its UPDATE compares updated_at, so it commits only  *)
(* on the row it read and is one step here; the clock it read may be old.  *)
(* A new trigger drops the pending slots of the old one and must leave its *)
(* own, or the whole update rolls back.                                    *)
(***************************************************************************)
KeptByRequestOnly(s) == occ[s].runNow

Kept(s) == ~(occ[s].state = "pending" /\ ~occ[s].runNow)

UpdateDefinition(trigger, overlap, misfire, action, t) ==
    LET slot == ReplacementOccurrence(trigger, t)
        kept == [s \in Slots |-> IF Kept(s) THEN occ[s]
                                 ELSE [NoRow EXCEPT !.gen = occ[s].gen]]
    IN  /\ Live
        /\ edits < MaxEdits
        /\ Valid(trigger)
        /\ def' = [def EXCEPT !.trigger = trigger, !.overlap = overlap,
                              !.misfire = misfire, !.action = action]
        /\ IF trigger = def.trigger
           THEN occ' = occ
           ELSE /\ slot \in Slots
                /\ kept[slot].state = "none"
                /\ occ' = Inserted(kept, slot, FALSE)
        /\ edits' = edits + 1
        /\ UNCHANGED <<now, run>>

-----------------------------------------------------------------------------
(* Occurrences.                                                            *)

\* The INSERT OR IGNORE of ensure_next_occurrence.
InsertNext(s) ==
    /\ Live
    /\ occ[s].state = "none"
    /\ occ' = Inserted(occ, s, FALSE)
    /\ UNCHANGED <<now, def, run, edits>>

\* create_run_now: the instant must be free, or the INSERT fails.
CreateRunNow(s) ==
    /\ Live
    /\ s \in Readings
    /\ occ[s].state = "none"
    /\ occ' = Inserted(occ, s, TRUE)
    /\ UNCHANGED <<now, def, run, edits>>

\* The transaction of reconcile_overlaps: the slot and its skipped run.
SkipSlot(s) ==
    /\ occ[s].state = "pending"
    /\ occ' = [occ EXCEPT ![s].state = "skipped"]
    /\ run' = [run EXCEPT ![s] = Settled("skipped")]
    /\ UNCHANGED <<now, def, edits>>

MissSlotWithoutCheck(s) ==
    /\ occ[s].state \in {"pending", "claimed"}
    /\ occ' = [occ EXCEPT ![s].state = "missed"]
    /\ UNCHANGED <<now, def, run, edits>>

\* The UPDATE of reconcile_misfires.
MissSlot(s) ==
    /\ occ[s].state = "pending"
    /\ occ' = [occ EXCEPT ![s].state = "missed"]
    /\ UNCHANGED <<now, def, run, edits>>

ClaimSlotWithoutOverlap(s, t) ==
    /\ Live
    /\ s <= t
    /\ occ[s].state = "pending"
    /\ occ' = [occ EXCEPT ![s].state = "claimed", ![s].lease = t + Lease]
    /\ run' = [run EXCEPT ![s] = [NoRun EXCEPT !.state = "dispatching"]]
    /\ UNCHANGED <<now, def, edits>>

\* The transaction of claim_due and claim_run_now.
ClaimSlot(s, t) ==
    /\ Live
    /\ s <= t
    /\ occ[s].state = "pending"
    /\ OverlapAllows
    /\ occ' = [occ EXCEPT ![s].state = "claimed", ![s].lease = t + Lease]
    /\ run' = [run EXCEPT ![s] = [NoRun EXCEPT !.state = "dispatching"]]
    /\ UNCHANGED <<now, def, edits>>

RecoverSlotForRetry(s) ==
    /\ occ[s].state = "claimed"
    /\ occ' = [occ EXCEPT ![s].state = "pending", ![s].lease = NoTime]
    /\ run' = [run EXCEPT ![s] = NoRun]
    /\ UNCHANGED <<now, def, edits>>

(***************************************************************************)
(* The transaction of recover_expired.  The candidate was read with an     *)
(* expired lease; the UPDATE re-checks the state and not the lease.        *)
(***************************************************************************)
RecoverSlot(s) ==
    /\ occ[s].state = "claimed"
    /\ occ' = [occ EXCEPT ![s].state = "interrupted", ![s].lease = NoTime]
    /\ run' = [run EXCEPT ![s] = IF Active(s) THEN Settled("unknown") ELSE @]
    /\ UNCHANGED <<now, def, edits>>

RenewLease(s, t) ==
    /\ occ[s].state = "claimed"
    /\ occ' = [occ EXCEPT ![s].lease = t + Lease]
    /\ UNCHANGED <<now, def, run, edits>>

-----------------------------------------------------------------------------
(* Runs.                                                                   *)

MarkDelivered(s) ==
    /\ run[s].state = "dispatching"
    /\ ~run[s].delivered
    /\ run' = [run EXCEPT ![s].delivered = TRUE]
    /\ UNCHANGED <<now, def, occ, edits>>

MarkRunning(s) ==
    /\ run[s].state = "dispatching"
    /\ run' = [run EXCEPT ![s].state = "running"]
    /\ UNCHANGED <<now, def, occ, edits>>

\* Both hand-offs clear the lease of a claimed occurrence in the same commit.
LeaseCleared(s) ==
    [occ EXCEPT ![s].lease = IF occ[s].state = "claimed" THEN NoTime ELSE @]

MarkHandedOff(s, t) ==
    /\ run[s].state = "dispatching"
    /\ run' = [run EXCEPT ![s] = [@ EXCEPT !.state = "running",
                                           !.delivered = TRUE,
                                           !.handedOff = TRUE,
                                           !.deadline = t + Timeout]]
    /\ occ' = LeaseCleared(s)
    /\ UNCHANGED <<now, def, edits>>

ReleaseWithoutDelivery(s, t) ==
    /\ Active(s)
    /\ run' = [run EXCEPT ![s].deadline = t + Timeout]
    /\ occ' = LeaseCleared(s)
    /\ UNCHANGED <<now, def, edits>>

ReleaseWithoutDeadline(s, t) ==
    /\ Active(s)
    /\ run[s].delivered
    /\ occ' = LeaseCleared(s)
    /\ UNCHANGED <<now, def, run, edits>>

ReleaseShellObservation(s, t) ==
    /\ Active(s)
    /\ run[s].delivered
    /\ run' = [run EXCEPT ![s].deadline = t + Timeout]
    /\ occ' = LeaseCleared(s)
    /\ UNCHANGED <<now, def, edits>>

RequestCancel(s) ==
    /\ Active(s)
    /\ run' = [run EXCEPT ![s].cancel = TRUE]
    /\ UNCHANGED <<now, def, occ, edits>>

MarkCancelIssued(s) ==
    /\ Active(s)
    /\ run' = [run EXCEPT ![s].issued = TRUE]
    /\ UNCHANGED <<now, def, occ, edits>>

FinishRunAgain(s, outcome) ==
    /\ run[s].state # "none"
    /\ run' = [run EXCEPT ![s] = Settled(outcome)]
    /\ occ' = [occ EXCEPT ![s] =
                 IF @.state = "claimed"
                 THEN [@ EXCEPT !.state = OccurrenceState(outcome), !.lease = NoTime]
                 ELSE @]
    /\ UNCHANGED <<now, def, edits>>

\* The transaction of finish_run_with_facts.
FinishRun(s, outcome) ==
    /\ Active(s)
    /\ run' = [run EXCEPT ![s] = Settled(outcome)]
    /\ occ' = [occ EXCEPT ![s] =
                 IF @.state = "claimed"
                 THEN [@ EXCEPT !.state = OccurrenceState(outcome),
                                !.lease = NoTime]
                 ELSE @]
    /\ UNCHANGED <<now, def, edits>>

-----------------------------------------------------------------------------
Tick ==
    /\ now < MaxTime
    /\ now' = now + 1
    /\ UNCHANGED <<def, occ, run, edits>>

DefinitionStep ==
    \/ CreateDefinition
    \/ DeleteDefinition
    \/ \E enabled \in BOOLEAN : SetEnabled(enabled)
    \/ \E trigger \in Triggers, overlap \in Overlaps, misfire \in Misfires,
          action \in Actions, t \in Readings :
          UpdateDefinition(trigger, overlap, misfire, action, t)

OccurrenceStep ==
    \E s \in Slots :
        \/ InsertNext(s)
        \/ CreateRunNow(s)
        \/ SkipSlot(s)
        \/ MissSlot(s)
        \/ RecoverSlot(s)
        \/ \E t \in Readings : ClaimSlot(s, t) \/ RenewLease(s, t)

RunStep ==
    \E s \in Slots :
        \/ MarkDelivered(s)
        \/ MarkRunning(s)
        \/ RequestCancel(s)
        \/ MarkCancelIssued(s)
        \/ \E t \in Readings : MarkHandedOff(s, t) \/ ReleaseShellObservation(s, t)
        \/ \E outcome \in Verdicts : FinishRun(s, outcome)

Next == Tick \/ DefinitionStep \/ OccurrenceStep \/ RunStep

Spec == Init /\ [][Next]_vars

-----------------------------------------------------------------------------
(* Properties, whatever the callers do and however old their reads are.    *)

(***************************************************************************)
(* The two tables tell one story: an occurrence is claimed exactly while   *)
(* its run is active, an occurrence nobody claimed has no run, and each    *)
(* outcome leaves the occurrence state RunOutcome::occurrence_state names  *)
(* ("A run always settles its own occurrence; policy is reflected in both  *)
(* records, never in only one").  No row is there without its definition.  *)
(***************************************************************************)
RowAgrees(s) ==
    /\ occ[s].state = "claimed" <=> Active(s)
    /\ occ[s].state \in {"none", "pending", "missed"} <=> run[s].state = "none"
    /\ occ[s].state = "interrupted" => run[s].state = "unknown"
    /\ run[s].state \in Outcomes =>
          occ[s].state \in {OccurrenceState(run[s].state), "interrupted"}
    /\ ~Live => occ[s].state = "none"

RowsAgree == \A s \in Slots : RowAgrees(s)

(***************************************************************************)
(* Unless a definition may declare allow-concurrent, two runs of it are    *)
(* never active together, whatever number of dispatchers race to claim     *)
(* (claim_due: "a pass that sees two due slots of one definition must not  *)
(* claim both").                                                           *)
(***************************************************************************)
OneActiveRun ==
    "allow-concurrent" \notin Overlaps =>
        \A s, o \in Slots : Active(s) /\ Active(o) => s = o

(***************************************************************************)
(* A claimed occurrence that lease recovery can no longer reach has been   *)
(* delivered and has a deadline: the rows hold what a later pass needs to  *)
(* observe and settle it.                                                  *)
(***************************************************************************)
HasDeadline(s) ==
    occ[s].state = "claimed" /\ occ[s].lease = NoTime =>
        run[s].delivered /\ run[s].deadline # NoTime

LeaselessHasDeadline == \A s \in Slots : HasDeadline(s)

(***************************************************************************)
(* History is never rewritten: while the definition is there, a closed     *)
(* occurrence keeps its state and its run keeps its outcome, and no row    *)
(* disappears but a pending slot of the old rule (finish_run: "a run       *)
(* already settled is returned unchanged"; update_definition: "explicit    *)
(* run-now slots are user requests and stay").                             *)
(***************************************************************************)
KeepsHistory(s) ==
    /\ occ[s].state \in Closed =>
          /\ occ'[s].state = occ[s].state
          /\ run'[s].state = run[s].state
    /\ occ[s].state # "none" /\ occ'[s].state = "none" =>
          occ[s].state = "pending" /\ ~occ[s].runNow

HistoryIsFinal ==
    [][def'.status # "removed" => \A s \in Slots : KeepsHistory(s)]_vars

(***************************************************************************)
(* The rows implement OccurrenceLifecycle.                                 *)
(***************************************************************************)
PhaseOf(state) ==
    CASE state = "none"    -> "free"
      [] state = "pending" -> "waiting"
      [] state = "claimed" -> "attempt"
      [] OTHER            -> "closed"

Lifecycle == INSTANCE OccurrenceLifecycle WITH
    phase   <- [s \in Slots |-> PhaseOf(occ[s].state)],
    removed <- def.status = "removed"

ImplementsLifecycle == Lifecycle!Spec

=============================================================================
