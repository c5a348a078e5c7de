# CodeLeveler: a TLA+ verification of what its processes share

CodeLeveler is a coding agent with a terminal, web, desktop and mobile front end
over one local runtime. Several of its processes open the same SQLite files, any of
them may be killed. What they must not do twice is a shell command, a turn of an
agent or the end of a task; what they must not lose is a process that still writes.
This directory models the four places where that is decided:

* **scheduled automation** (`crates/leveler-schedule`): what runs while nobody
  watches;
* **a session's task** (`crates/leveler-engine`, `-storage`, `-app`, `-agent`): which
  process may run its turns, write its log and end it, and how a cancel is decided;
* **the delivery of a command** (`crates/leveler-app`, `-storage`, clients): one effect
  and one answer, however often it is sent;
* **background processes** (`crates/leveler-execution`): what is known of a process that
  outlives the runtime which started it, and how long what it writes stays reserved.

The other parts are inventoried below and planned for, or left out with a reason.

Paths are relative to the repository; `store.rs`, `dispatch.rs`, `rule.rs`,
`manage.rs` and `lib.rs` are those of `crates/leveler-schedule/src`.

## 1. The system

### Scheduled automation

| Component | State | Operations | Talks to |
|---|---|---|---|
| Rules (`rule.rs`) | none | validate, first, next and replacement occurrence of a trigger | called by the store |
| Store (`store.rs`, `migrations/`) | `schedules.db`: a definition; its occurrences (`pending`, `claimed` under a lease, seven closed states); at most one run per occurrence (`dispatching`, `running`, eight outcomes); wake log | create, update, enable, remove, run-now; ensure the next occurrence; overlap and misfire reconciliation; claim; lease recovery; delivered, running, handed off, released, finished; cancel requested, issued | shared by every process of the host |
| Dispatcher (`dispatch.rs`) | nothing that survives it | a pass: recover, observe agent runs, observe shell runs, extend the horizon, overlap, misfire, claim, execute the claims at once; run-now | the store; a runtime as an ordinary local client; the native executor |
| Management (`manage.rs`, `leveler-cli`, `app/src/schedule_tools.rs`) | none | the commands of a user or an agent | the store |
| Wakeup (`wakeup/`) | entries of launchd, systemd, Task Scheduler | install, remove, inspect | the operating system, which then starts a pass every minute |
| Session runtime (`leveler-app`) | turns, active executions | deliver a command, answer a snapshot, cancel | the dispatcher is one of its clients |

What is hard in it: a pass is a long sequence of SELECTs and transactions and any
other process runs between two of them; lists, clock readings and definitions
read earlier are used later; a dispatcher dies between an effect and its record;
a delivery is accepted and its answer lost; a lease and a deadline expire while
the holder lives.

What makes it correct: an action starts at most once; the two tables tell one
story and history is final; runs of one definition exclude each other; every
active run is within somebody's reach and reaches a verdict; every due slot is
decided; an outage is not followed by a burst; the schedule neither stacks future
slots nor runs dry.

### The task of a session

| Component | State | Operations | Talks to |
|---|---|---|---|
| Storage (`leveler-storage`: `ownership_store.rs`, `terminal_repo.rs`, `turn_store.rs`, `event_store.rs`, `session_store.rs`) | `tasks` (owner boot and runtime, epoch), `turns`, `events`, `sessions` | fenced transactions: acquire, release, start execution, start a turn, append, finish a turn, request a cancel, finish the task | shared by every process that opens the repository |
| Engine (`leveler-engine`: `engine.rs`, `turn.rs`, `reaper.rs`) | none that survives it | acquire ownership, start a task, run a turn, settle what an ended or the own boot left | storage; a probe of other boots |
| Harness (`leveler-agent`: `coding/run.rs`) | the outcome a turn ends with | arbitration between that outcome and a cancel | engine |
| Session runtime (`leveler-app`: `interactive.rs`, `active_turns.rs`, `session.rs`, `runtime_boot.rs`) | admission table of turns and shells, with their cancel flags; the lock file that shows a boot lives | submit, shell, cancel a turn, cancel the task, quit, retire, background facts, startup recovery | clients; engine |
| Runtime host (`leveler-runtime-host`: `server.rs`) | the daemon | recover, then serve | session runtime |

What is hard in it: the executor of a turn, a reaper, a cancel, a user shell and a
background fact of one process, and those of another process, all take the task by
a read and a compare-and-swap, and write with a token that may be stale by then; a
process dies with a turn that runs, or between a recorded cancel and its terminal;
a probe may not tell whether a process lives; a completion races a cancel.

What makes it correct: one running turn; nobody settles a turn behind an executor
that may still write; the log is ordered by generation and a generation ends once;
a cancel wins over any other end of its generation and is answered; what a dead
process left is settled by the next one.

### The delivery of a command

| Component | State | Operations | Talks to |
|---|---|---|---|
| Receipts (`leveler-storage`: `command_receipt_repo.rs`) | `command_receipts`: status, dispatching boot | classify, admit, claim a failed one, settle, give up | shared by every process |
| Session runtime (`leveler-app`: `interactive.rs`) | registry of deliveries in flight | deliver, answer an unsettled receipt | receipts; the probe of boots |
| Client (`leveler-tui`: `run.rs`; `leveler-local-transport`) | the submission it waits for | send, redeliver after a broken connection or an unknown outcome | session runtime |

What is hard in it: a delivery outlives the connection it came by; the next one
meets it half-way, in the same boot or another; a boot dies between the effect and
the receipt; a receipt that nobody can settle must be told from one somebody will.

### Background processes

| Component | State | Operations | Talks to |
|---|---|---|---|
| Execution Host (`execution_host.rs`) | `tasks.json` (a fact per task), `intents.json`, `ready.json`, `host.lock`; in memory the archive of facts, the processes it started and the intents, each behind a lock | spawn, list, get, kill, acknowledge; write its facts after every event | the processes it starts; one per workspace |
| Recovery (`execution_host.rs`: `recover_dead_host`) | `intents.unresolved.json` | with the lock in hand, call every live fact gone or unknown, archive the intents, clear them | a probe of process groups |
| Settlement journal (`host_settlement.rs`) | one file per task: what the process may write, `prepared` or `settled` | prepare, settle (diff against the baseline), abandon | the write reservations of a session |
| Registry (`background.rs`) | none that survives it | start a service or a terminal; reconcile with or without a host, at start and before every turn; monitor and look at a task | host, journal |
| Command line (`leveler-cli`: `background_cmd.rs`) | none | `background journal abandon` | journal, records of the host |

What is hard in it: a spawn is a journal entry, a request, an intent, a process and a
fact, each written by itself, and runtime, host and process may each end between any
two; the host's handlers run at once and take its locks in pieces; a recovery cannot
always prove that a process is over; a pass judges with lists it read earlier, and
several run at a time; the host remembers a bounded number of facts.

What makes it correct: a process that runs is on record; a task is not launched twice
on one record; what a process may write stays reserved until its exit is proven, and is
settled then; a reservation is dropped only of what was never launched.

### The rest

| Component | State and hard behaviour | Correctness | Here |
|---|---|---|---|
| `leveler-app`, the rest | event bridge, projections, permission window of unattended turns | a turn's permissions end with it | planned |
| `leveler-local-transport`, `leveler-runtime-host`, the rest | framed socket with reconnect and resynchronisation; daemon discovery and hand-over | a client sees a prefix of the event sequence without gaps; one daemon per workspace | planned |
| `leveler-remote-agent`, `leveler-remote-protocol`, `services/leveler-relay` | signed frames through a relay; pairing, tokens, replay window | a frame is applied at most once, in a bound session | planned |
| `leveler-execution`, the rest | processes inside a runtime, approval queue, path safety | every approval is answered or withdrawn | planned, path safety not |
| `leveler-lifecycle`, `leveler-agent`, `leveler-agent-core`, `leveler-tools` | the model and tool loop, goals, sub-agents | driven by model output | write ownership planned, rest not |
| `leveler-cli`, `-tui`, `-web`, desktop, mobile, `packages/` | presentation | | not modelled |
| `leveler-model`, `-protocol`, `-provider`, `-context`, `-lsp`, `-project`, `-skills`, `-vcs`, `-media`, `-foreign-session`, `-browser`, `-cua`, `-native`, `-update`, `-win-*`, `-core`, `-client-protocol`, `-eval`, `-test-support`, `vendor`, `xtask` | parsing and I/O with files, servers, the operating system; types; harnesses | | not modelled |

`PROJECT.json` repeats this list with its sources and reasons, and lists every
hazard at its line.

## 2. The modules

| Module | What it is |
|---|---|
| `ScheduleRule` | the `once` and `every` triggers of `rule.rs` as operators on integer instants, `TicksPerSecond` to a second, so that truncation to seconds is visible |
| `ScheduleStore` | the rows of one definition and every transaction that writes them, called by anybody at any time with a clock reading of any age |
| `OccurrenceLifecycle` | the abstract promise: an instant is free, waits, is attempted, is closed, and is attempted only out of waiting |
| `ScheduleDispatch` | the real callers: passes, tasks, observers, management, crashes, and the actions themselves; extends `ScheduleStore` |
| `MCScheduleStore`, `MCScheduleDispatch` | instances for TLC |
| `TaskTurns` | the rows of a session's task and every activity of the boots that share it |
| `FencedTask` | the abstract promise of the task row: a log written by generations, each of which ends once |
| `CommandDelivery` | one command, the deliveries of it, the boots that handle them and their receipt |
| `HostedTasks` | the Execution Host, its records and their recovery, the journal, and the operations of runtimes that use them |
| `MCTaskTurns`, `MCCommandDelivery`, `MCHostedTasks` | instances for TLC |
| `ScheduleStore_proofs`, `ScheduleDispatch_proofs`, `ScheduleHistory_proofs`, `TaskTurns_proofs`, `TaskFence_proofs`, `FencedTask_proofs`, `CommandDelivery_proofs`, `HostedTasks_proofs` | theorems |

### ScheduleStore

`def` is the row of `schedule_definitions`, `occ[s]` and `run[s]` the rows of
`schedule_occurrences` and `schedule_runs` for the instant `s` (the tables are
UNIQUE on definition and instant, and on occurrence), `now` the clock. `gen`
counts the rows an instant has had, because an edit may delete a pending row and a
later INSERT gives the same instant a new row with a new id.

One action is one transaction. Its guard is what the statement's own WHERE clause
checks, never what the caller read before: that is how the model shows which
check is really made where. Columns of a settled run that no statement reads are
dropped (`Settled`). There is one definition, because no statement relates two.
The definition row's own compare-and-swap on `updated_at` is taken as exact.

Operators such as `MissSlotWithoutCheck` or `RecoverSlotForRetry` stand beside the
definition they differ from by one plausible mistake. The specification does not
use them; putting one in the place of its neighbour shows that a property notices.

### ScheduleDispatch

| Variable | In the code |
|---|---|
| `pass[p]` | where dispatcher `p` is in `dispatch_pass` (or `dispatch_run_now`), the clock it read and the rows of its last SELECT it still has to treat |
| `work[s]` | the future `run_claim` started for the slot `s` it claimed: `run_shell`, `run_native` or `handoff_agent` |
| `ens[q]` | the call of `ensure_next_occurrence` process `q` is in: definition, count, maximum, insert, each a statement of its own |
| `exec[s]`, `starts[s]` | the action in the process that executes it, and how often it was started: in no table, this is what the world sees |
| `mgr` | `remove_definition` between its count and its delete; `mgr.started`, the actions started by the count, is read by properties only |

`Read` is a SELECT; `Recover`, `ReconcileOverlap`, `ReconcileMisfire` and `Claim`
treat one row of its result, re-checking only what the code re-checks; `Observe`
settles, cancels, marks running or leaves one observed run. The tasks of a pass
run at once (`join_all`) and the pass waits for them (`FinishPass`). `Crash` kills
a dispatcher with everything it holds, between any two steps.

Left open, as a choice the model always has: whether a delivery is accepted and
whether its answer arrives, whether a snapshot answers, whether authorization, a
busy session or an unreachable runtime refuses a run, how an action ends. Sessions,
turns, grants, usage and wake records are not there.

### TaskTurns

| Variable | In the code |
|---|---|
| `owner`, `epoch` | `tasks.owner_boot_id` (its runtime is `RuntimeOf`) and `owner_epoch`: the fence |
| `session`, `turns`, `log` | `sessions.status` and `.outcome`; the turns by ordinal with the boot that started them; the events by sequence |
| `life` | whether a boot holds the lock that shows it lives |
| `slot[b]`, `work[b]` | the boot's admission of the session in `ActiveTurns`, its cancel flags and the draft of its outcome |
| `pc[p]`, `token[p]`, `todo[p]`, `found[b]`, `scope[b]` | where an activity is, the epoch its token carries, the turns it listed |

A process `<<b, role>>` is one activity of a boot: the executor of a turn, a user
shell, the reaper, the cancel of the task, a background fact. A step is one SQL
statement or transaction, or one critical section of the admission table.

| Actions | In the code |
|---|---|
| `ReadOwner`, `Acquire`, `LoseRace` | `acquire_ownership`: read the row, refuse another runtime or a boot not proved dead, compare and swap on the epoch |
| `Submit`, `StartTask`, `ListRunning`, `Interrupt`, `StartTurn`, `Announce`, `EndTurn` | a turn from its admission to its own terminal; the turns others left are interrupted first |
| `Resolve`, `Decide`, `Commit`, `Publish` | `finish_from_result`: the draft, the last look at the cancel flag, the commit that a recorded cancel refuses and that is tried again, the release of the admission |
| `CancelTurn`, `Quit`, `ForceRetire`, `RetireIfIdle` | the commands that signal or drain the admissions, and which of them reap |
| `Boot`, `Scan`, `Interrupt`, `Recovered`, `FinishCancelled` | startup recovery and the reapers |
| `CancelTask`, `SignalTask`, `CheckTask`, `FinishCancelled` | the cancel of the task: stored with the running turn, then signalled; or committed at once |
| `UserShell`, `ShellFinished`, `Fact`, `ReleaseFact`, `BackgroundFinished` | facts written outside a turn |
| `Fail`, `Crash` | a write refused by the fence or failed by the storage, and what the activity releases on its way out, unless it goes on to the terminal (`Concludes`: the turn had not reached its harness, or the error counts as the cancellation); the end of a process anywhere |

`Terminal` is the heart of `finish_task_owned`: event, session and release of the task
in one commit, refused to any outcome but `cancelled` once a cancel of that
generation is recorded.

What it leaves out: turns of before boots were recorded; other sessions; goals,
checkpoints, messages and children; a second reaper or cancel of one boot at a
time. The read of `current_ownership` and the acquisition that follows it are one
step, as are the owner read and the transaction of `request_task_cancel`. A replay of an
identical terminal by a generation that released the task writes nothing and is
left out. Admission slots need no generation, since a drain also closes admission.

### CommandDelivery

| Variable | In the code |
|---|---|
| `receipt` | the row of `command_receipts` for the command id: `absent`, `dispatching`, `failed`, `completed`, `unresolvable`, and the boot |
| `flying`, `kept` | `in_flight` of each boot: registered deliveries, and registrations kept because the receipt could not be completed |
| `pc[a]`, `at[a]`, `seen[a]` | where a delivery is, the boot that handles it, the boot it read from the receipt |
| `waiting`, `verdict`, `answers` | the client: the delivery it waits for, the answer it took; every answer given |
| `effects`, `faults` | how often the command took effect; the bound on lost answers, storage errors and failed probes |

`Classify`, `Refuse`, `Register`, `Admit`, `Reread`, `Claim`, `Dispatch`, `Complete` and `Failed` are the
statements of `deliver`, in its order; `Who`, `Judge`, `Mark` and `Recheck` those of
`answer_unsettled`; `StorageFails` gives each statement the error path the code has
there. `Dispatch` chooses: the effect and success; an error with or without the
effect; or, for a command that edits a setting at an observed version, a conflict
that proves nothing happened. Left out: receipts without a boot, a command id used
with another payload, commands without a session. A delivery slot is used again
once it returned, so `Attempts` bounds deliveries at one time, not in all.

### HostedTasks

| Variable | In the code |
|---|---|
| `tasks`, `intents`, `unresolved`, `ready`, `owner` | the files of the host's directory and who holds `host.lock` |
| `facts`, `entries`, `intended`, `acked` | the host's memory: archive, processes of its own, intents, acknowledged facts; `inst` numbers the hosts |
| `job[w]` | the handler of worker `w`'s spawn request; which locks it holds follows from its step |
| `proc[t]`, `strays`, `launched[t]` | the operating system: the process of the last launch of a task, tasks with one of an earlier launch, how often it was launched |
| `journal[t]` | the reservation of a task |
| `wk[w]` | an operation in progress in a runtime or a command line, with what it read; `client` numbers the host it met or, for one that met none, the last host there was (0 if that one was still ending) |

A fact is `live`, `exited`, `gone` (Unknown, the process proven over) or `present`
(Unknown, no proof). A service has a fresh id and is asked for once; a terminal has the
client's id, which may be sent again.

| Actions | In the code |
|---|---|
| `Admit`, `Intend`, `Launch`, `Record`, `Clear`, `Report` | the Spawn handler, divided where it gives up a lock, waits for one or writes a file |
| `Persist`, `ProcessExits` | the recorder of exits; the end of a process anywhere |
| `Withdraw`, `HostEnds` | a host is told to end, by a signal or because it is idle: `ready.json` goes first, and the handlers of earlier requests go on while it holds its lock; the end of its process, after that or killed anywhere |
| `Connect`, `Converge`, `Archive`, `Discard`, `Unready`, `StartHost` | `ExecutionHostClient::probe`, `recover_dead_host` file by file, the launch of a host |
| `StartTask`, `ListTerminal`, `Prepare`, `Send`, `Abandon` | starting a service or a terminal |
| `StartPass`, `ListTasks`, `Review`, `Acknowledge` | `reconcile_hosted` with a host |
| `Pending`, `ReadTasks`, `ReadIntents`, `ReadUnresolved`, `Judge` | `reconcile_absent_host` |
| `Inspect`, `SettleSeen` | a monitor or a tool looks at a task |
| `ReleaseByHand` | `background journal abandon` |
| `Abort` | a failed call or write, or the end of a runtime, anywhere in an operation |

The code gives up `host.lock` when `serve` returns, an instant before the runtime drops
the handlers; the model, when they have stopped.

Left out: when a host counts as idle, kill and input requests, logs and terminal contents, processes a runtime keeps to itself, the diff of a settlement (it succeeds or
fails as a whole). A write of the facts that fails after an event is repeated by the
next list.

## 3. What TLC checks

For schedules a tick is the length of the lease, the timeout and the cancel grace, and the
misfire grace is zero, so every race between a clock and a statement is a few
steps long; larger values only add states in which nothing can expire. Two slots
are enough for a slot and its successor, three or four where a property compares
several. Two dispatchers are all a statement-level race between them needs, and what is said
of any number is proved (section 4).
Clock, edits and crashes are bounded by `MaxTime`, `MaxEdits`, `MaxCrashes`, the
instants by `Slots`. Two dispatchers are symmetric where no liveness is checked.
Deadlock is not checked: at the end of the bounded clock everything may be done.

| Run | Question | Shows |
|---|---|---|
| `MCScheduleStore` | Do the transactions alone keep the tables right, whatever the callers do? | types; `RowsAgree`; `OneActiveRun`; `LeaselessHasDeadline`; `HistoryIsFinal`; `ImplementsLifecycle` |
| `MCDispatchRace` | Two dispatchers, one killed anywhere, shell and agent actions, cancellation requests | `AtMostOnce`, `HonestHistory`, `NoOrphanedRun` |
| `MCDispatchSerial` | Seconds of two ticks and five slots, on and off the grid; both misfire policies and all overlap policies, an outage long enough for two slots past the grace | `NoCatchUpBurst`; `NearHorizon` while a pass and its tasks count, take the maximum and insert |
| `MCDispatchCommands` | Pause, edit of rule and kind of action, remove and run-now at any moment of a pass, and one kill | `AtMostOnce`; `EffectsOnRecord`; `RemovalSettles` |
| `MCDispatchLive` | Shell and native runs, one dispatcher, one crash | `EveryRunSettles`, `EverySlotDecided`, `HorizonKept` |
| `MCTaskTurns` | Two boots of one runtime share a session; one may crash; three commands of any kind, probes that prove nothing, storage errors | types; `OneRunningTurn`; `LiveTurnUntouched`; `CancelWins`; `LogOrdered`; `OneTaskTerminal`; `ImplementsFencedTask` |
| `MCTaskLive` | Turns and cancels under fairness, one boot may crash | `CancelAnswered`, `StartupSettles` |
| `MCCommandDelivery` | Three deliveries at a time over two boots, one crash, two faults | types; `EffectAtMostOnce`; `AnswersAgree`; `UnresolvableOnce`; `ClientAnswered` |
| `MCHostedTasks` | A service and a terminal, two operations at a time, two hosts, told to end or killed anywhere | types; `ProcessOnRecord`; `NoReplay`; `SettledOnEvidence`; `DroppedUnlaunched` |
| `MCHostedLive` | A service, every operation, one fault anywhere, under fairness | `ProcessOnRecord` and `DroppedUnlaunched` with faults; `ExitRecorded`, `EvidenceSettles` |

`NoCatchUpBurst` is checked for one dispatcher: with two, a stale insert of the
horizon can be claimed after its grace. `MCDispatchSerial` reads the clock in half
seconds, since the instants a rule yields after an outage need not be on its grid.

`MCDispatchCommands` has one dispatcher, two slots and two kinds of action: what its
properties speak of is one run between a pass and a command, the second slot is what an
edit or a settlement adds beside it, and two kinds are what an edit that disowns a run
needs. One edit and one kill suffice, since each of them alone takes a run from the
process that holds it.

In `MCTaskTurns` both boots have one runtime identity, as processes of one
repository have; that another runtime is refused is part of the proof. Three
requests are a turn, something that disturbs it and something that disturbs that;
storage errors count among them. Each boot has one executor (admission), one
reaper and one cancel at a time. `MCTaskLive` has the commands its two properties
speak of. In `MCCommandDelivery` a race of three needs the third delivery
(a dispatcher, a judge and one that dispatches again); two faults are a lost answer
and the storage error that makes it matter.

In `MCHostedTasks` two operations are a launch beside a recovery, a pass or another
launch; the second host meets the records of the first. The archive keeps one fact,
so every further spawn evicts or is rejected. Failed calls and writes are in the
smaller `MCHostedLive`, where one of them can happen anywhere.

### Fairness

`Fairness` is weak fairness of time, of each dispatcher's passes, of each task, and
of the end of a native action a live dispatcher waits for. The operating system's
timer or the loop of `schedule serve` starts passes for ever (`StartPass`), the
async runtime schedules a started one, and the native executor kills its child at
the timeout. Nothing is assumed of a shell command or an agent turn: a run whose
action never ends is settled by its deadline, which is what `EveryRunSettles`
says. Liveness is checked for shell and native actions: whether an agent run settles
depends on the session runtime accepting the cancellation, which is not modelled.

`TaskTurns` assumes that a runtime schedules the activities it started, that a
started turn ends (the harness has limits; a cancel reaches it), and that a process
that is to start does. It assumes nothing of a crash, nor that clients send
anything. `CancelAnswered` excepts a boot that ends first, which `StartupSettles`
takes up: the next boot that starts settles the turns and cancels an ended one
left, before it serves. It is checked with two boots and a probe that answers: a
recovery is refused while a third boot is in the middle of a cancel, and what it
skipped waits for the recovery after it.

`CommandDelivery` assumes that the client redelivers while it is not answered, that a
live boot handles what it was sent (a dispatch returns), and that a boot that is to
start does. `ClientAnswered` has two exceptions, written in the property: a boot that
lives on with a registration it kept, and a receipt of a boot that lives while
another serves the client. The code answers "unknown" there for as long as it lasts.

`HostedTasks` assumes that a runtime schedules its operations and a host its handlers
and its recorder of exits, and that passes start again and again: strongly fair, since
the place of an operation is taken by others in between. It assumes nothing of a
process, nor of when a host ends, except that one told to end does end (`serve` returns
and the process exits); its recorder is fair only until then. `ExitRecorded` excepts a host whose handlers wait for
each other (`Stuck`, see `MCFindLocks`), and `EvidenceSettles` also a task without a
reservation, at which every pass ends before it comes to the others.

### Where code and comments disagree

Each of these runs checks one sentence of a comment and TLC finds a trace against
it. `PROJECT.json` quotes the sentences.

| Run | What the code does |
|---|---|
| `MCFindReserved` | a monitor, a tool and a kill take every terminal status for an exit: a process that a recovery called unknown while it was still there is settled while it runs |
| `MCFindLocks` | a spawn holds the host's intents and takes the entries again to write its fact, a second one holds the entries and waits for the intents: the host answers nobody and records no exit |

Other disagreements met on the way, which no run repeats:

* lease recovery (`recover_expired`) re-checks the state but not the lease it selected
  by: a run handed off meanwhile is interrupted, against the comment of
  `mark_handed_off`;
* `remove_definition` counts active runs and deletes in two statements: a run claimed
  between them is deleted. `RemovalSettles` excepts exactly the actions started after the
  count;
* nobody renews the lease of a native action: it is settled unknown while it runs, and
  the next slot runs beside it;
* a released shell run is looked up by the definition's current action: after an edit to
  another kind nobody observes it again and it blocks the schedule. `EffectsOnRecord`
  excepts exactly this (`Disowned`);
* the misfire policy does not know of waiting slots: under `queue-one` a slot that
  waits longer than its grace behind an active run is recorded as missed;
* the successor of an instant off the grid keeps its fraction of a second, and so
  do all later slots;
* `ensure_next_occurrence` computes the slot to insert inside one transaction "so a pass
  cannot stack a second future slot" (`store.rs`, 1707-1708). Two dispatchers whose
  readings after an outage differ by a fraction of a second, and which both read the
  maximum before either inserts, insert two slots a fraction apart: the key is the
  instant. What does hold is `NearHorizon`: neither is further than an interval away;
* when a boot quits, its reaper and its executor may each append a `turn_finished` for
  the same turn, since `finish_turn_owned` checks the fence and not the row;
* `leveler-client-protocol/src/client.rs` (60-67) says that the intent of a cancel is
  not durable; `request_task_cancel` stores it first;
* a boot dies between a recorded cancel and its terminal; a boot that already runs starts
  the next turn, interrupts the dead one without looking for the cancel, and the task
  ends completed;
* between the proof that a dispatch is abandoned and the UPDATE that gives it up, the
  dispatch fails cleanly and another delivery claims the receipt: a dispatch under way
  is declared unresolvable;
* `reconcile_absent_host` finds no host, and while it reads, another operation starts one,
  prepares a reservation and launches: the pass drops the reservation of a running
  process, and every later pass ends at the record that is missing. The same happens
  beside a host that was told to end: `ready.json` is gone and nobody finds it, but it
  still launches what it was asked for before. The release by hand has the same gaps, and
  `DroppedUnlaunched` excepts exactly these;
* a terminal may be launched again beside its first process once its intent was archived
  as unresolved, or its settled fact evicted (`strays`);
* a fact that is unknown is never evicted: 64 lost tasks make a host reject every spawn.

## 4. What is proved

The proofs hold for every value of the constants that meets `StoreAssumption`,
`TriggerAssumption` (a rule is of one of two kinds and its fields are integers),
`DispatchAssumption`, `TicksPerSecondAssumption`, `TaskAssumption`,
`DeliveryAssumption` and `HostedAssumption`: any set of instants, policies, actions,
outcomes, any lease, timeout and grace, any number of dispatchers, boots, runtimes,
deliveries, commands, tasks, hosts, operations and crashes.

About the store (`ScheduleStore_proofs`):

* `TypeCorrect`: `Spec => []TypeOK`.
* `RowsConsistent`: `Spec => [](RowsAgree /\ LeaselessHasDeadline)`, and
  `ClaimsStayReachable` for its second half. The inductive invariant is
  `SlotsOK`, slot by slot `RowAgrees` and `HasDeadline` together with
  what they need of each other: recovery and settlement touch both tables, and that
  the second table's conditional UPDATE matches whenever the first one's did is
  `RowAgrees` itself.
* `OverlapExcluded`: without `allow-concurrent` no two runs are active together. Only
  a claim makes a run active (`OnlyClaimsActivate`), and its predicate sees all of
  them in the same transaction.
* `HistoryKept`: `HistoryIsFinal`, from `ClosedIsKept` and `OnlyRuleSlotsVanish`.
* `StoreImplementsLifecycle`: every transaction is a step of `OccurrenceLifecycle` or
  leaves the phases alone (`LifecycleStep`); `SlotsOK` is needed so that a run
  finishing a slot finds it claimed.

About the dispatchers (`ScheduleDispatch_proofs`):

* `DispatchTypeCorrect`, and with it that every clock a process holds is not in
  the future.
* `DispatchImplementsStore`: `DispatchSpec => Spec`. Every step of every process is a
  transaction of the store with a slot and a reading the store allows, or changes
  no row. `DispatchKeepsRows` then carries the theorems above over.
* `DeliveredAtMostOnce`: `DispatchSpec => []AtMostOnce`. `AtMostOnce` is not
  inductive: nothing in it forbids a second claim. `StartsInv` adds that a task
  that has not started its action is the first of its slot, and that a slot whose
  action was started, or is about to be, has left `pending` for good or its
  definition is gone (`Opened`); the store keeps `Opened` (`OpenedForGood`).

About what the dispatchers leave behind (`ScheduleHistory_proofs`):

* `HistoryIsHonest`: `DispatchSpec => []HonestHistory`. What is recorded of a slot is
  written by its task, by an observer or by recovery, each from something it read
  before. `HonestInv` says per slot what a task that is about to settle may still
  write, and that no task is about to start what is recorded as refused; that a blocked
  shell run never started rests on the task being of the declared kind (`KindInv`).
* `RunsAreReached`: `DispatchSpec => [](Steady => NoOrphanedRun)`. The two reconcilers
  select by the definition's present action, so a run without a lease is reached
  while no update changes the kind. `Steady` says so: no update was committed, or there is
  one kind to declare. Without it the claim is false (section 3, the released shell
  run), and `MCDispatchRace` checks it without edits.
* `EffectsStayOnRecord`: `DispatchSpec => []EffectsOnRecord`, what is left of that under
  edits, kills and removals: the record of a started action is final, under a lease or
  selected by a reconciler, unless the run is `Disowned`. It rests on `StartsInv` (what was
  started has left `pending` for good) and on a run that was handed off being `running`
  until it is settled (`HandOffRuns`), whatever kind the definition has by then.
* `RemovalIsSettled`: `DispatchSpec => RemovalSettles`. Between the count and the delete what
  had been started stays final (`RemovalInv`), since a closed slot is kept.
* `HorizonIsNear`: `DispatchSpec => []NearHorizon`, for any number of dispatchers. The
  inductive invariant `HorizonInv` bounds the slots in the tables and those that a pass
  or a task is about to insert (`FrameNear`), computed from a maximum and a clock read
  earlier; that a rule's next instant is never beyond an interval (`NextAfterBound`) needs
  `TriggerAssumption`.
* `OutageIsNoBurst`: `DispatchSpec => NoCatchUpBurst`, under the hypothesis `Alone`: one
  dispatcher, and nobody pauses, resumes or edits the definition. Both are needed: a second
  dispatcher, or a command between the misfire policy and the claims of a pass, makes
  late slots pending that the policy did not see. `OutageInv` follows a pass from its
  clock through its lists (`Left`): the late slots it has yet to decide are in its
  list, its tasks are the only ones (`Owned`), and what it inserts is not late by its clock.

About a session's task (`TaskTurns_proofs`, `TaskFence_proofs`, `FencedTask_proofs`):

* `TaskTypeCorrect`: `Spec => []TypeOK`.
* `RunsOneTurn`, `LiveTurnStays`: one running turn, and none settled behind an executor
  whose generation is current. Neither is inductive: an executor lists the running
  turns, interrupts them one by one and inserts its own in separate statements. The
  inductive invariant `Fencing` says what a token is worth: no token is ahead of the
  row and no two holders have the same one; a compare-and-swap that will succeed
  takes the task from nobody, from its own boot or from an ended one; and the
  turns an executor with the current token still has to interrupt are all that run.
* `TaskIsFenced`: `Spec => ImplementsFencedTask`, step by step. `FencedLog` proves of
  `FencedTask` that its log is ordered and each generation ends once, and
  `LogStaysOrdered` and `TaskEndsOnce` carry that over: the refinement does the work.
* `CancelDecides`: `CancelWins`. A cancel is recorded only by the owner and a terminal
  releases the task, so within one generation no cancel follows a terminal; and no
  other terminal follows a cancel.

About the delivery of a command (`CommandDelivery_proofs`):

* `DeliveryTypes`: `Spec => []TypeOK`.
* `TakesEffectOnce`, `AnswersNeverDiffer`: the inductive invariant `Once` is that at most
  one delivery is between its dispatch and its settlement, that the receipt is then
  dispatching or given up, and what the receipt and the place of that delivery tell
  of the effect. It has to hold although the receipt may be given up under a
  dispatch that is under way.
* `GivenUpOnceProven`: of a command that no failure makes retryable, a receipt is given
  up only when nothing that dispatches it is left. The invariant `Evidence` adds that
  a dispatch is registered in the boot its receipt names, and that the proof a
  delivery took stays true until its UPDATE, since nobody dispatches such a command
  anew.

About background processes (`HostedTasks_proofs`):

* `HostedTypes`: `Spec => []TypeOK`.
* `NothingUntracked`: `Spec => []ProcessOnRecord`. A launch is four writes in two files, so
  the inductive invariant `Kept` says for every step of a spawn and of a recovery where
  its task is on record (`Known`, `Handled`), that a recovery holds the host's lock and
  discards only intents it archived (`Order`), and that the host's handlers exclude each
  other by its locks and leave nothing behind when it ends (`Hosted`).
* `LaunchedOnce`: `Spec => NoReplay`. A host forgets only facts that were acknowledged, an
  operation settles before it acknowledges (`SettlesFirst`), and what is settled stays
  so (`SettledStays`); `Consumed` carries this across operations.
* `SettledWhenOver`: `Spec => SettledOnEvidence`. An operation settles with what it read
  earlier, so `Truthful` says that facts on disk and in memory are true (`FactsTrue`),
  that a sighting stays true (`SightsTrue`), since a service that ended stays ended
  (`EndedStays`) and an unknown one stays unknown (`PresentStays`), and that both rest on
  a service having one request and one launch (`OneRequest`).

* `DroppedOnlyUnlaunched`: `Spec => DroppedUnlaunched`. A spawn drops a reservation when
  its request was rejected; that request is the only one (`OneRequest`, which counts
  the rejected one) and launched nothing. A pass or a release by hand drops one of which it
  read neither a fact nor an intent, in three files one after the other, while other
  workers recover and move what is in them. `Recorded` says that a service that was
  launched and is not settled has a fact or an intent, through evictions, failed writes
  and the end of the host. `Looks` says that a reader that found no host, while none was
  running or was started since, has seen it: facts do not vanish without a host
  (`OnlyStarts`), and an intent is archived before it is discarded, so reading the archive
  last misses none.

So every safety property of a passing run is a theorem, `NoOrphanedRun` for a `Steady`
definition and `NoCatchUpBurst` for a dispatcher `Alone`. Only model-checked are the
liveness properties `EveryRunSettles`, `EverySlotDecided`, `HorizonKept`,
`CancelAnswered`, `StartupSettles`, `ClientAnswered`, `ExitRecorded` and
`EvidenceSettles`: fairness is beyond the prover.

## 5. Not modelled, and what is left

In order of worth:

1. The agent hand-off of a schedule against `TaskTurns`: `handoff_agent`,
   `reconcile_agent_runs` and `resolve_session`, the busy check, session-scoped
   cancellation, the permission window of an unattended turn, and with it the
   liveness of agent runs.
2. The event stream of a session: reconnection and resynchronisation of
   `leveler-local-transport` and the event bridge.
3. Calendar triggers over a zone with gaps and folds; cron is a library.
4. Remote control: pairing and tunnels of the relay and the remote agent.
5. Approvals and the processes a runtime keeps to itself in `leveler-execution`;
   discovery and hand-over of the runtime daemon.
6. Goals, checkpoints and children of a task, which ride on the transactions of
   `TaskTurns`.
7. Small hazards the models abstract from: the foreign key of an insert for a
   definition removed meanwhile, two runs racing to bind a session, a cancellation that
   fails in every pass or meets a later turn, two probes of one lock.

The rest is parsing, presentation, or input and output with files, servers, models
and the operating system, and has no protocol of its own to model.
