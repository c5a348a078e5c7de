------------------------------- MODULE TaskTurns -------------------------------
(***************************************************************************)
(* One session's durable task, shared by the boots (processes) that open   *)
(* it: the task row that fences its writers, the turns, the event log and   *)
(* the session's status, and in every boot the executor of a turn, the      *)
(* reaper, the commands that cancel, a user shell and the persistence of    *)
(* background facts.  A step is one SQL statement or transaction, or one    *)
(* critical section of the in-memory admission table.                       *)
(*                                                                         *)
(* RefusedByRuntime, RunningOnly, AppendUnfenced, FinishTurnByEvent,         *)
(* TerminalWithoutArbitration, TerminalWithoutRelease, AcquireOwnAgain,      *)
(* ListOwnRunning and CommitOnce are not part of the specification: each     *)
(* differs by one mistake from the definition below it.                      *)
(***************************************************************************)
EXTENDS Naturals, Sequences, FiniteSets

CONSTANTS
    Boots,       \* the processes that ever open the repository
    NoBoot,      \* no owner
    NoOutcome,   \* a session whose task has no terminal yet
    RuntimeOf,   \* the runtime identity of each boot; several boots share one
    Mortal,      \* the boots that may crash
    Commands,    \* what may happen: the clients' commands, and "io_error"
    ProbeFails,  \* whether the probe of an ended boot may fail to prove it
    Requests     \* bound: how many commands they send in all

Roles == {"turn", "shell", "reap", "cancel", "fact"}
Procs == Boots \X Roles

ASSUME TaskAssumption ==
    /\ NoBoot \notin Boots
    /\ Mortal \subseteq Boots
    /\ Requests \in Nat
    /\ ProbeFails \in BOOLEAN

VARIABLES
    life,       \* [Boots -> {"new", "alive", "ended"}]
    owner,      \* tasks.owner_boot_id (owner_runtime_id is its runtime)
    epoch,      \* tasks.owner_epoch
    session,    \* sessions.status and sessions.outcome
    turns,      \* the turns rows by ordinal: the boot that started it, its status
    log,        \* the events rows by sequence
    slot,       \* ActiveTurns of each boot: "free", "held", or "closed" to admission
    pc,         \* the next step of each activity of each boot
    token,      \* the epoch an activity has read, or the one its token carries
    todo,       \* turns an activity has listed and not yet settled
    found,      \* every turn the reaper of a boot listed
    scope,      \* which turns the reaper of a boot may settle
    work,       \* the executor of a boot: its turn, cancel flags and outcome
    requests    \* how many commands were sent

vars == <<life, owner, epoch, session, turns, log, slot, pc, token, todo, found,
          scope, work, requests>>

Outcomes   == {"completed", "failed", "interrupted", "cancelled"}
NoWork     == [turn |-> 0, cancel |-> FALSE, task |-> FALSE, draft |-> "completed"]
Entry(kind, t, e, out) == [kind |-> kind, turn |-> t, epoch |-> e, outcome |-> out]

Init ==
    /\ life = [b \in Boots |-> "new"]
    /\ owner = NoBoot
    /\ epoch = 0
    /\ session = [status |-> "created", outcome |-> NoOutcome]
    /\ turns = <<>>
    /\ log = <<>>
    /\ slot = [b \in Boots |-> "free"]
    /\ pc = [p \in Procs |-> "idle"]
    /\ token = [p \in Procs |-> 0]
    /\ todo = [p \in Procs |-> {}]
    /\ found = [b \in Boots |-> {}]
    /\ scope = [b \in Boots |-> "ended"]
    /\ work = [b \in Boots |-> NoWork]
    /\ requests = 0

-------------------------------------------------------------------------------
(* Reads of the tables *)

Running == {t \in 1 .. Len(turns) : turns[t].status = "running"}
Logged(kind) == {i \in 1 .. Len(log) : log[i].kind = kind}

\* The fence of every owned write: runtime and epoch, not the boot.
Current(b, e) == owner # NoBoot /\ RuntimeOf[owner] = RuntimeOf[b] /\ epoch = e

RefusedByRuntime(b, dead) == owner # NoBoot /\ RuntimeOf[owner] # RuntimeOf[b]

\* Another runtime holds the task, or a boot nobody has proved dead.
Refused(b, dead) ==
    /\ owner # NoBoot
    /\ \/ RuntimeOf[owner] # RuntimeOf[b]
       \/ owner \notin {b} \cup dead

\* The boots a probe may report dead: a lock another process holds, or one it
\* may not open, proves nothing.
Ended  == {b \in Boots : life[b] = "ended"}
Probes == IF ProbeFails THEN SUBSET Ended ELSE {Ended}

CancelRequested(e) == \E i \in Logged("cancel_requested") : log[i].epoch = e
Settled(e) == \E i \in Logged("task_finished") : log[i].epoch = e

\* A closed logical task cannot be cancelled through a later generation.
Closed == session.status # "running" /\ session.outcome \in {"completed", "cancelled"}

RunningOnly == Running

\* The running turns, and the latest turn while no terminal answers its cancel.
Candidates ==
    Running \cup
    {t \in {Len(turns)} : \E i \in Logged("cancel_requested") :
        log[i].turn = t /\ \A j \in Logged("task_finished") : j < i}

\* The candidates a reaper may settle: its own boot's, or those of dead boots.
InScope(b, dead, ts) ==
    {t \in ts : \/ turns[t].boot = b /\ scope[b] \in {"own", "own_and_ended"}
                \/ turns[t].boot \in dead \ {b} /\ scope[b] # "own"}

-------------------------------------------------------------------------------
(* Owned writes *)

AppendUnfenced(b, e, kind, t) == log' = Append(log, Entry(kind, t, e, "completed"))

AppendOwned(b, e, kind, t) ==
    /\ Current(b, e)
    /\ log' = Append(log, Entry(kind, t, e, "completed"))

FinishTurnByEvent(b, e, t, out) ==
    /\ Current(b, e)
    /\ turns' = [turns EXCEPT ![t].status = "turn_finished"]
    /\ log' = Append(log, Entry("turn_finished", t, e, out))
    /\ UNCHANGED session

FinishTurn(b, e, t, out) ==
    /\ Current(b, e)
    /\ turns' = [turns EXCEPT ![t].status = out]
    /\ log' = Append(log, Entry("turn_finished", t, e, out))
    /\ session' =
         IF /\ out = "interrupted"
            /\ t = Len(turns)
            /\ session = [status |-> "running", outcome |-> NoOutcome]
         THEN [session EXCEPT !.status = "interrupted"]
         ELSE session

TerminalWithoutArbitration(b, e, out) ==
    /\ Current(b, e) /\ owner = b /\ ~Settled(e)
    /\ out = "cancelled" => ~Closed
    /\ log' = Append(log, Entry("task_finished", 0, e, out))
    /\ session' = [status |-> out, outcome |-> out]
    /\ owner' = NoBoot

TerminalWithoutRelease(b, e, out) ==
    /\ Current(b, e) /\ owner = b /\ ~Settled(e)
    /\ IF out = "cancelled" THEN ~Closed ELSE ~CancelRequested(e)
    /\ log' = Append(log, Entry("task_finished", 0, e, out))
    /\ session' = [status |-> out, outcome |-> out]
    /\ UNCHANGED owner

\* The task's terminal: event, session and release of the task in one commit.
Terminal(b, e, out) ==
    /\ Current(b, e) /\ owner = b /\ ~Settled(e)
    /\ IF out = "cancelled" THEN ~Closed ELSE ~CancelRequested(e)
    /\ log' = Append(log, Entry("task_finished", 0, e, out))
    /\ session' = [status |-> out, outcome |-> out]
    /\ owner' = NoBoot

\* A cancel of a closed task writes no terminal; it releases the task.
AlreadyClosed(b, e, out) ==
    /\ Current(b, e) /\ ~Settled(e) /\ out = "cancelled" /\ Closed
    /\ owner' = IF owner = b THEN NoBoot ELSE owner
    /\ UNCHANGED <<log, session>>

\* A cancel was recorded before this terminal: it must be `cancelled'.
CancelFirst(b, e, out) ==
    Current(b, e) /\ ~Settled(e) /\ out # "cancelled" /\ CancelRequested(e)

Release(b, e) == owner' = IF owner = b /\ epoch = e THEN NoBoot ELSE owner

-------------------------------------------------------------------------------
(* Control of one activity *)

Goto(p, label) == pc' = [pc EXCEPT ![p] = label]

\* The activity ends; its admission, if it holds one, is given back.
Leave(p) ==
    /\ pc' = [pc EXCEPT ![p] = "idle"]
    /\ token' = [token EXCEPT ![p] = 0]
    /\ todo' = [todo EXCEPT ![p] = {}]
    /\ slot' = IF p[2] \in {"turn", "shell"} /\ slot[p[1]] = "held"
               THEN [slot EXCEPT ![p[1]] = "free"] ELSE slot
    /\ work' = IF p[2] = "turn" THEN [work EXCEPT ![p[1]] = NoWork] ELSE work
    /\ found' = IF p[2] = "reap" THEN [found EXCEPT ![p[1]] = {}] ELSE found

\* A process serves its clients once its startup recovery is over.
Serving(b) == life[b] = "alive" /\ ~(pc[<<b, "reap">>] # "idle" /\ scope[b] = "ended")

Request(b, c) ==
    /\ Serving(b) /\ c \in Commands /\ requests < Requests
    /\ requests' = requests + 1

Admit(b) == slot[b] = "free" /\ slot' = [slot EXCEPT ![b] = "held"]

-------------------------------------------------------------------------------
(* acquire_ownership: read the row, then compare and swap on its epoch *)

AfterAcquire ==
    [turn |-> "open", shell |-> "note", reap |-> "settle", cancel |-> "finish", fact |-> "write"]

ReadOwner(p) ==
    /\ pc[p] = "read"
    /\ \E dead \in Probes :
         IF Refused(p[1], dead)
         THEN Leave(p)
         ELSE /\ Goto(p, "cas")
              /\ token' = [token EXCEPT ![p] = epoch]
              /\ UNCHANGED <<slot, todo, found, work>>
    /\ UNCHANGED <<life, owner, epoch, session, turns, log, scope, requests>>

AcquireOwnAgain(p) ==
    /\ pc[p] = "cas" /\ token[p] = epoch
    /\ owner' = p[1]
    /\ epoch' = IF owner = p[1] THEN epoch ELSE epoch + 1
    /\ token' = [token EXCEPT ![p] = epoch']
    /\ Goto(p, AfterAcquire[p[2]])
    /\ UNCHANGED <<life, session, turns, log, slot, todo, found, scope, work, requests>>

Acquire(p) ==
    /\ pc[p] = "cas" /\ token[p] = epoch
    /\ owner' = p[1]
    /\ epoch' = epoch + 1
    /\ token' = [token EXCEPT ![p] = epoch + 1]
    /\ Goto(p, AfterAcquire[p[2]])
    /\ UNCHANGED <<life, session, turns, log, slot, todo, found, scope, work, requests>>

LoseRace(p) ==
    /\ pc[p] = "cas" /\ token[p] # epoch
    /\ Leave(p)
    /\ UNCHANGED <<life, owner, epoch, session, turns, log, scope, requests>>

\* A write the fence refuses (or, with "io_error", the storage fails) ends the
\* activity.  What it started stays as it is, and its ownership with it, unless
\* the activity releases what it acquired on its way out.
Writes == {"open", "list", "interrupt", "announce", "running", "commit", "note", "settle",
           "conclude", "finish", "write", "borrow"}

\* A turn that fails before its harness runs still ends the task, as failed, if
\* it has the authority; once its cancel token is set any error of run_turn,
\* that of the turn's own terminal included, counts as the cancellation.
Concludes(p) ==
    \/ pc[p] \in {"list", "interrupt", "announce"} /\ Current(p[1], token[p])
    \/ pc[p] \in {"list", "interrupt", "announce", "running"} /\ work[p[1]].cancel

\* ("list" stands for what precedes run_turn as well, which just returns.)
Fail(p) ==
    /\ pc[p] \in Writes
    /\ IF Current(p[1], token[p])
       THEN "io_error" \in Commands /\ requests < Requests /\ requests' = requests + 1
       ELSE UNCHANGED requests
    /\ IF pc[p] \in {"settle", "note", "write"} THEN Release(p[1], token[p]) ELSE UNCHANGED owner
    /\ \/ /\ Concludes(p)
          /\ Goto(p, "resolve")
          /\ work' = [work EXCEPT ![p[1]].draft = "failed"]
          /\ UNCHANGED <<slot, token, todo, found>>
       \/ /\ Concludes(p) => pc[p] = "list"
          /\ Leave(p)
    /\ UNCHANGED <<life, epoch, session, turns, log, scope>>

\* Interrupt the next listed turn, as the executor does before it starts its own
\* turn and as the reaper does: neither looks at the row again.
Interrupt(p) ==
    /\ pc[p] \in {"interrupt", "settle"}
    /\ \E t \in todo[p] :
         /\ \A u \in todo[p] : t <= u
         /\ FinishTurn(p[1], token[p], t, "interrupted")
         /\ todo' = [todo EXCEPT ![p] = @ \ {t}]
    /\ UNCHANGED <<life, owner, epoch, slot, pc, token, found, scope, work, requests>>

\* An owned fact outside a turn: a user shell's, or the end of one.
Fact(p) ==
    /\ pc[p] \in {"note", "write", "borrow"}
    /\ AppendOwned(p[1], token[p], "note", 0)
    /\ IF pc[p] = "borrow"
       THEN Leave(p)
       ELSE Goto(p, "release") /\ UNCHANGED <<slot, token, todo, found, work>>
    /\ UNCHANGED <<life, owner, epoch, session, turns, scope, requests>>

ReleaseFact(p) ==
    /\ pc[p] = "release"
    /\ Release(p[1], token[p])
    /\ Leave(p)
    /\ UNCHANGED <<life, epoch, session, turns, log, scope, requests>>

-------------------------------------------------------------------------------
(* The executor of a turn: start_task, run_turn, finish_from_result *)

Submit(b) ==
    /\ Request(b, "submit") /\ Admit(b)
    /\ pc[<<b, "turn">>] = "idle" /\ Goto(<<b, "turn">>, "read")
    /\ UNCHANGED <<life, owner, epoch, session, turns, log, token, todo, found, scope, work>>

StartTask(b) ==
    LET p == <<b, "turn">> IN
    /\ pc[p] = "open" /\ Current(b, token[p])
    /\ session' = [session EXCEPT !.status = "running"]
    /\ Goto(p, "list")
    /\ UNCHANGED <<life, owner, epoch, turns, log, slot, token, todo, found, scope, work, requests>>

ListOwnRunning(b) ==
    LET p == <<b, "turn">> IN
    /\ pc[p] = "list"
    /\ todo' = [todo EXCEPT ![p] = {t \in Running : turns[t].boot = b}]
    /\ Goto(p, "interrupt")
    /\ UNCHANGED <<life, owner, epoch, session, turns, log, slot, token, found, scope, work, requests>>

ListRunning(b) ==
    LET p == <<b, "turn">> IN
    /\ pc[p] = "list"
    /\ todo' = [todo EXCEPT ![p] = Running]
    /\ Goto(p, "interrupt")
    /\ UNCHANGED <<life, owner, epoch, session, turns, log, slot, token, found, scope, work, requests>>

StartTurn(b) ==
    LET p == <<b, "turn">> IN
    /\ pc[p] = "interrupt" /\ todo[p] = {} /\ Current(b, token[p])
    /\ turns' = Append(turns, [boot |-> b, status |-> "running"])
    /\ work' = [work EXCEPT ![b].turn = Len(turns) + 1]
    /\ Goto(p, "announce")
    /\ UNCHANGED <<life, owner, epoch, session, log, slot, token, todo, found, scope, requests>>

Announce(b) ==
    LET p == <<b, "turn">> IN
    /\ pc[p] = "announce"
    /\ AppendOwned(b, token[p], "turn_started", work[b].turn)
    /\ Goto(p, "running")
    /\ UNCHANGED <<life, owner, epoch, session, turns, slot, token, todo, found, scope, work, requests>>

\* The harness returns, and the turn's terminal is committed.
EndTurn(b) ==
    LET p == <<b, "turn">> IN
    /\ pc[p] = "running"
    /\ \E out \in {"completed", "failed"} \cup (IF work[b].cancel THEN {"interrupted"} ELSE {}) :
         /\ FinishTurn(b, token[p], work[b].turn, out)
         /\ work' = [work EXCEPT ![b].draft = out]
    /\ Goto(p, "resolve")
    /\ UNCHANGED <<life, owner, epoch, slot, token, todo, found, scope, requests>>

\* The cancel flags are read after the turn, and the token once more just
\* before the commit: an explicit cancel of the task is a draft of its own.
Resolve(b) ==
    LET p == <<b, "turn">> IN
    /\ pc[p] = "resolve"
    /\ work' = [work EXCEPT ![b].draft =
                  IF ~work[b].cancel THEN @
                  ELSE IF work[b].task THEN "cancelled" ELSE "interrupted"]
    /\ Goto(p, "decide")
    /\ UNCHANGED <<life, owner, epoch, session, turns, log, slot, token, todo, found, scope, requests>>

Decide(b) ==
    LET p == <<b, "turn">> IN
    /\ pc[p] = "decide"
    /\ work' = [work EXCEPT ![b].draft =
                  IF work[b].cancel /\ @ # "cancelled" THEN "interrupted" ELSE @]
    /\ Goto(p, "commit")
    /\ UNCHANGED <<life, owner, epoch, session, turns, log, slot, token, todo, found, scope, requests>>

CommitOnce(b) ==
    LET p == <<b, "turn">> IN
    /\ pc[p] = "commit"
    /\ \/ /\ Terminal(b, token[p], work[b].draft)
          /\ Goto(p, "publish")
          /\ UNCHANGED <<slot, token, todo, found, work>>
       \/ /\ AlreadyClosed(b, token[p], work[b].draft)
          /\ Leave(p)
       \/ /\ CancelFirst(b, token[p], work[b].draft)
          /\ UNCHANGED <<owner, session, log>>
          /\ Leave(p)
    /\ UNCHANGED <<life, epoch, turns, scope, requests>>

Commit(b) ==
    LET p == <<b, "turn">> IN
    /\ pc[p] = "commit"
    /\ \/ /\ Terminal(b, token[p], work[b].draft)
          /\ Goto(p, "publish")
          /\ UNCHANGED <<slot, token, todo, found, work>>
       \/ /\ AlreadyClosed(b, token[p], work[b].draft)
          /\ Leave(p)
       \/ /\ CancelFirst(b, token[p], work[b].draft)
          /\ work' = [work EXCEPT ![b].draft = "cancelled"]
          /\ UNCHANGED <<owner, session, log, slot, pc, token, todo, found>>
    /\ UNCHANGED <<life, epoch, turns, scope, requests>>

\* finish_with: the terminal is published and the admission released as one.
Publish(b) ==
    /\ pc[<<b, "turn">>] = "publish"
    /\ Leave(<<b, "turn">>)
    /\ UNCHANGED <<life, owner, epoch, session, turns, log, scope, requests>>

UserShell(b) ==
    /\ Request(b, "shell") /\ Admit(b)
    /\ pc[<<b, "shell">>] = "idle" /\ Goto(<<b, "shell">>, "read")
    /\ UNCHANGED <<life, owner, epoch, session, turns, log, token, todo, found, scope, work>>

-------------------------------------------------------------------------------
(* Cancelling a turn, quitting, retiring, and the reaper *)

Reap(b, which) ==
    /\ pc[<<b, "reap">>] = "idle"
    /\ Goto(<<b, "reap">>, "scan")
    /\ scope' = [scope EXCEPT ![b] = which]

\* A process starts: it settles what ended boots left before it serves.
Boot(b) ==
    /\ life[b] = "new"
    /\ life' = [life EXCEPT ![b] = "alive"]
    /\ Reap(b, "ended")
    /\ UNCHANGED <<owner, epoch, session, turns, log, slot, token, todo, found, work, requests>>

\* Signal the turn this boot runs; without one, settle what is left of it.
CancelTurn(b) ==
    /\ Request(b, "cancel_turn")
    /\ IF slot[b] = "held"
       THEN work' = [work EXCEPT ![b].cancel = TRUE] /\ UNCHANGED <<pc, scope>>
       ELSE Reap(b, "own_and_ended") /\ UNCHANGED work
    /\ UNCHANGED <<life, owner, epoch, session, turns, log, slot, token, todo, found>>

\* Drain the admissions, cancelling each, and admit nothing more; quitting
\* also reaps the boot's own turns, without waiting for their executors.
Drain(b) ==
    /\ slot' = [slot EXCEPT ![b] = "closed"]
    /\ work' = IF slot[b] = "held" THEN [work EXCEPT ![b].cancel = TRUE] ELSE work
    /\ UNCHANGED <<life, owner, epoch, session, turns, log, token, todo, found>>

Quit(b)        == Request(b, "quit") /\ Drain(b) /\ Reap(b, "own")
ForceRetire(b) == Request(b, "retire") /\ Drain(b) /\ UNCHANGED <<pc, scope>>

RetireIfIdle(b) ==
    /\ Request(b, "retire") /\ slot[b] = "free"
    /\ slot' = [slot EXCEPT ![b] = "closed"]
    /\ UNCHANGED <<life, owner, epoch, session, turns, log, pc, token, todo, found, scope, work>>

\* The candidates are read before the task is acquired.
Scan(b) ==
    LET p == <<b, "reap">> IN
    /\ pc[p] = "scan"
    /\ \E dead \in Probes :
         LET listed == InScope(b, dead, Candidates) IN
         IF listed = {}
         THEN Leave(p)
         ELSE /\ found' = [found EXCEPT ![b] = listed]
              /\ todo' = [todo EXCEPT ![p] = listed \cap Running]
              /\ Goto(p, "read")
              /\ UNCHANGED <<slot, token, work>>
    /\ UNCHANGED <<life, owner, epoch, session, turns, log, scope, requests>>

\* All listed turns are interrupted.  A cancel recorded for one of them ends
\* the task; otherwise the recovery releases it.
Recovered(b) ==
    LET p == <<b, "reap">> IN
    /\ pc[p] = "settle" /\ todo[p] = {}
    /\ IF \E i \in Logged("cancel_requested") : log[i].turn \in found[b]
       THEN Goto(p, "conclude") /\ UNCHANGED <<owner, slot, token, todo, found, work>>
       ELSE Release(b, token[p]) /\ Leave(p)
    /\ UNCHANGED <<life, epoch, session, turns, log, scope, requests>>

-------------------------------------------------------------------------------
(* Cancelling the logical task *)

\* The intent is stored with the latest turn while this boot runs it.
CancelTask(b) ==
    LET p == <<b, "cancel">>
        t == Len(turns)
        stored == \E i \in Logged("cancel_requested") : log[i].turn = t
    IN
    /\ Request(b, "cancel_task") /\ pc[p] = "idle"
    /\ IF owner = b /\ t \in Running /\ turns[t].boot = b
       THEN /\ log' = IF stored THEN log
                      ELSE Append(log, Entry("cancel_requested", t, epoch, "cancelled"))
            /\ Goto(p, "signal")
       ELSE Goto(p, "check") /\ UNCHANGED log
    /\ UNCHANGED <<life, owner, epoch, session, turns, slot, token, todo, found, scope, work>>

SignalTask(b) ==
    LET p == <<b, "cancel">> IN
    /\ pc[p] = "signal"
    /\ work' = IF slot[b] = "held" THEN [work EXCEPT ![b].cancel = TRUE, ![b].task = TRUE]
               ELSE work
    /\ Goto(p, "idle")
    /\ UNCHANGED <<life, owner, epoch, session, turns, log, slot, token, todo, found, scope, requests>>

\* Nothing to cancel when the last terminal already is a cancel.
CheckTask(b) ==
    LET p == <<b, "cancel">>
        cancelled == \E i \in Logged("task_finished") :
            log[i].outcome = "cancelled" /\ \A j \in Logged("task_finished") : j <= i
    IN
    /\ pc[p] = "check"
    /\ Goto(p, IF cancelled THEN "idle" ELSE "read")
    /\ UNCHANGED <<life, owner, epoch, session, turns, log, slot, token, todo, found, scope, work, requests>>

\* The terminal of a cancel, by the command or by the reaper.
FinishCancelled(p) ==
    /\ pc[p] \in {"finish", "conclude"}
    /\ \/ Terminal(p[1], token[p], "cancelled")
       \/ AlreadyClosed(p[1], token[p], "cancelled")
    /\ Leave(p)
    /\ UNCHANGED <<life, epoch, turns, scope, requests>>

-------------------------------------------------------------------------------
(* Facts that outlive the turn they came from *)

\* The end of a background task: one conditional insert, once for the task.
BackgroundFinished(b) ==
    /\ life[b] = "alive" /\ "background" \in Commands
    /\ owner = b \/ (owner = NoBoot /\ Running = {})
    /\ Logged("background") = {}
    /\ log' = Append(log, Entry("background", 0, epoch, "completed"))
    /\ UNCHANGED <<life, owner, epoch, session, turns, slot, pc, token, todo, found, scope, work, requests>>

\* The end of a shell handed to the background: under the token of whoever of
\* this runtime holds the task, or under one of its own if nobody does.
ShellFinished(b) ==
    LET p == <<b, "fact">> IN
    /\ Request(b, "shell") /\ pc[p] = "idle"
    /\ owner # NoBoot => RuntimeOf[owner] = RuntimeOf[b]
    /\ token' = [token EXCEPT ![p] = epoch]
    /\ Goto(p, IF owner = NoBoot THEN "cas" ELSE "borrow")
    /\ UNCHANGED <<life, owner, epoch, session, turns, log, slot, todo, found, scope, work>>

-------------------------------------------------------------------------------

\* The process ends; nothing of it is left but what it committed.
Crash(b) ==
    /\ b \in Mortal /\ life[b] = "alive"
    /\ life' = [life EXCEPT ![b] = "ended"]
    /\ pc' = [p \in Procs |-> IF p[1] = b THEN "idle" ELSE pc[p]]
    /\ token' = [p \in Procs |-> IF p[1] = b THEN 0 ELSE token[p]]
    /\ todo' = [p \in Procs |-> IF p[1] = b THEN {} ELSE todo[p]]
    /\ found' = [found EXCEPT ![b] = {}]
    /\ work' = [work EXCEPT ![b] = NoWork]
    /\ slot' = [slot EXCEPT ![b] = "closed"]
    /\ UNCHANGED <<owner, epoch, session, turns, log, scope, requests>>

ProcStep(p) ==
    \/ ReadOwner(p) \/ Acquire(p) \/ LoseRace(p) \/ Fail(p)
    \/ Interrupt(p) \/ Fact(p) \/ ReleaseFact(p) \/ FinishCancelled(p)

TurnStep(b) ==
    \/ StartTask(b) \/ ListRunning(b) \/ StartTurn(b) \/ Announce(b) \/ EndTurn(b)
    \/ Resolve(b) \/ Decide(b) \/ Commit(b) \/ Publish(b)

ReapStep(b)   == Scan(b) \/ Recovered(b)
CancelStep(b) == SignalTask(b) \/ CheckTask(b)

ClientStep(b) ==
    \/ Submit(b) \/ UserShell(b) \/ CancelTurn(b) \/ Quit(b) \/ ForceRetire(b)
    \/ RetireIfIdle(b) \/ CancelTask(b) \/ BackgroundFinished(b) \/ ShellFinished(b)

Next ==
    \/ \E p \in Procs : ProcStep(p)
    \/ \E b \in Boots :
         \/ TurnStep(b) \/ ReapStep(b) \/ CancelStep(b) \/ ClientStep(b)
         \/ Boot(b) \/ Crash(b)

Spec == Init /\ [][Next]_vars

\* A runtime schedules what it started, a started turn ends, and a
\* process that is to start does.
Fairness ==
    /\ \A p \in Procs : WF_vars(ProcStep(p))
    /\ \A b \in Boots :
         /\ WF_vars(TurnStep(b) \/ ProcStep(<<b, "turn">>))
         /\ WF_vars(ReapStep(b) \/ ProcStep(<<b, "reap">>))
         /\ WF_vars(CancelStep(b) \/ ProcStep(<<b, "cancel">>))
         /\ WF_vars(Boot(b))

FairSpec == Spec /\ Fairness

-------------------------------------------------------------------------------

Kinds  == {"turn_started", "turn_finished", "cancel_requested", "task_finished", "note", "background"}
Labels == Writes \cup {"idle", "read", "cas", "resolve", "decide", "publish", "release",
                       "scan", "signal", "check"}

\* The types of the rows, and of what the processes hold in memory.
TypeOK ==
    /\ life \in [Boots -> {"new", "alive", "ended"}]
    /\ owner \in Boots \cup {NoBoot}
    /\ epoch \in Nat
    /\ session \in [status : {"created", "running"} \cup Outcomes, outcome : {NoOutcome} \cup Outcomes]
    /\ turns \in Seq([boot : Boots, status : {"running"} \cup Outcomes])
    /\ log \in Seq([kind : Kinds, turn : Nat, epoch : Nat, outcome : Outcomes])
    /\ slot \in [Boots -> {"free", "held", "closed"}]
    /\ pc \in [Procs -> Labels]
    /\ token \in [Procs -> Nat]
    /\ todo \in [Procs -> SUBSET Nat]
    /\ found \in [Boots -> SUBSET Nat]
    /\ scope \in [Boots -> {"ended", "own", "own_and_ended"}]
    /\ work \in [Boots -> [turn : Nat, cancel : BOOLEAN, task : BOOLEAN, draft : Outcomes]]
    /\ requests \in Nat

\* A session never has two running turns, though the executor that starts one
\* looks for others in an earlier statement, and any boot may try.
OneRunningTurn == \A t, u \in Running : t = u

\* A turn is interrupted behind its executor's back only once its generation is
\* over: as long as the executor may still write, the row it will finish is open.
LiveTurnUntouched ==
    \A b \in Boots :
        LET p == <<b, "turn">> IN
        pc[p] \in {"announce", "running"} /\ Current(b, token[p]) => work[b].turn \in Running

\* Within the generation it was recorded in, a cancel wins over any other end.
CancelWins ==
    \A i \in Logged("cancel_requested"), j \in Logged("task_finished") :
        log[i].epoch = log[j].epoch => i < j /\ log[j].outcome = "cancelled"

\* The rows keep the promise of the task row: FencedTask.
Fenced == INSTANCE FencedTask WITH
    ended   <- Ended,
    history <- [i \in 1 .. Len(log) |-> [epoch |-> log[i].epoch, kind |-> log[i].kind]]

ImplementsFencedTask == Fenced!Spec
LogOrdered == Fenced!Ordered
OneTaskTerminal == Fenced!OneTerminal

PendingCancel(b) == \E i \in Logged("cancel_requested") :
    turns[log[i].turn].boot = b /\ \A j \in Logged("task_finished") : j < i

\* A cancel is answered by a terminal, unless its process ends first, ...
CancelAnswered == \A b \in Boots : PendingCancel(b) ~> ~PendingCancel(b) \/ life[b] = "ended"

\* ... and what an ended process left, a turn that runs or a cancel, the next
\* process that starts settles before it serves.
LeftBehind(b) == PendingCancel(b) \/ \E t \in Running : turns[t].boot = b

StartupSettles ==
    \A b, next \in Boots :
        LeftBehind(b) /\ life[b] = "ended" /\ life[next] = "new"
          ~> (life[next] # "new" /\ ~LeftBehind(b))

===============================================================================
