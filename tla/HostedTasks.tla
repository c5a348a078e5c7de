------------------------------ MODULE HostedTasks ------------------------------
(***************************************************************************)
(* Background processes that outlive the runtime which starts them: the      *)
(* Execution Host that owns them and its records (tasks.json, intents.json), *)
(* the recovery of those records when a host is lost, and the settlement     *)
(* journal with which runtimes reserve what a process may write until its    *)
(* exit is established.                                                      *)
(*                                                                         *)
(* A worker is one operation in progress in some runtime or command line:    *)
(* starting a task, the reconciliation at the start of every turn, a look at *)
(* a task, a release by hand.  The steps of a worker are the files it reads  *)
(* and writes and the requests it sends; those of the host are divided       *)
(* where a handler gives up a lock, waits for one, or writes a file.         *)
(*                                                                         *)
(* ObservedAtStart, AdmitReplay, RecordRejected, ConvergeGone, ClearFirst,   *)
(* ReleaseMarked, ReviewListed, ReadActiveOnly and JudgeWaits are not part *)
(* of the specification: each differs by one mistake from the definition it  *)
(* precedes and shows which property notices.                                *)
(***************************************************************************)
EXTENDS Naturals, FiniteSets

CONSTANTS
    Services,    \* tasks started once, under a fresh id
    Terminals,   \* tasks whose id the client chooses and may send again
    NoTask,
    Workers,     \* operations in progress at the same time
    Operations,  \* what workers do besides starting tasks
    Retain,      \* how many facts a host keeps (64)
    MaxHosts,    \* bound: hosts ever started
    MaxFaults    \* bound: failed calls and writes, and workers that die

Tasks == Services \cup Terminals

ASSUME HostedAssumption ==
    /\ NoTask \notin Tasks
    /\ Services \cap Terminals = {}
    /\ Workers \cap {"nobody", "host"} = {}
    /\ Operations \subseteq {"reconcile", "inspect", "release"}
    /\ Retain \in Nat /\ MaxHosts \in Nat /\ MaxFaults \in Nat

VARIABLES
    tasks,       \* tasks.json: what is known of each task
    intents,     \* intents.json
    unresolved,  \* intents.unresolved.json
    ready,       \* whether ready.json exists
    owner,       \* who holds host.lock: the host, a worker that recovers, nobody
    inst,        \* hosts started so far; the last is the one that runs
    facts,       \* the host's archive
    entries,     \* the tasks it started itself
    intended,    \* its list of intents
    acked,       \* the facts its clients are done with
    job,         \* the spawn request of each worker, in the host
    proc,        \* the process of the last launch of each task
    strays,      \* tasks with a process of an earlier launch
    launched,    \* how often a task was launched
    journal,     \* the write reservation of each task
    fresh,       \* services not started yet
    wk,          \* the operation of each worker
    faults

state == <<tasks, intents, unresolved, ready>>
host  == <<owner, inst, facts, entries, intended, acked>>
os    == <<proc, strays, launched>>
vars  == <<state, host, job, os, journal, fresh, wk, faults>>

NoFacts == [t \in Tasks |-> "none"]
NoJob   == [task |-> NoTask, step |-> "none"]
Idle    == [pc |-> "idle", op |-> "none", task |-> NoTask, client |-> 0,
            known |-> FALSE, pend |-> {}, seen |-> NoFacts, hinted |-> {}]

Init ==
    /\ tasks = NoFacts /\ intents = {} /\ unresolved = {} /\ ready = FALSE
    /\ owner = "nobody" /\ inst = 0
    /\ facts = NoFacts /\ entries = {} /\ intended = {} /\ acked = {}
    /\ job = [w \in Workers |-> NoJob]
    /\ proc = [t \in Tasks |-> "none"] /\ strays = {}
    /\ launched = [t \in Tasks |-> 0]
    /\ journal = [t \in Tasks |-> "none"]
    /\ fresh = Services
    /\ wk = [w \in Workers |-> Idle]
    /\ faults = 0

Fault == faults < MaxFaults /\ faults' = faults + 1

Up == owner = "host"
Serving == Up /\ ready        \* it accepts requests
Connected(w) == Serving /\ wk[w].client = inst

Alive(t) == proc[t] = "running" \/ t \in strays

Terminal(f) == f \in {"exited", "gone", "present"}     \* BackgroundTaskStatus::is_terminal
Proven(f) == f \in {"exited", "gone"}                  \* HostedTask::settlement_proven

Goto(w, label) == wk' = [wk EXCEPT ![w].pc = label]
Done(w) == wk' = [wk EXCEPT ![w] = Idle]
Become(w, label, o, t) == wk' = [wk EXCEPT ![w] = [Idle EXCEPT !.pc = label, !.op = o, !.task = t]]
Drop(w, t) == wk' = [wk EXCEPT ![w].pend = @ \ {t}]

-------------------------------------------------------------------------------
(* The host: its locks and its records *)

\* The lock on the entries is held from the look at the archive to the launch,
\* the one on the intents from there to the reply.
EntriesFree == \A w \in Workers : job[w].step \notin {"intend", "launch"}
IntentsFree == \A w \in Workers : job[w].step \notin {"launch", "record", "clear", "report"}

ObservedAtStart ==
    [t \in Tasks |-> IF t \in entries THEN "live" ELSE facts[t]]

\* What the registry knows of the tasks this host started replaces their fact.
Observed ==
    [t \in Tasks |-> IF t \in entries
                     THEN IF proc[t] = "running" THEN "live" ELSE "exited"
                     ELSE facts[t]]

Persisted == EntriesFree /\ facts' = Observed /\ tasks' = Observed

\* After an event of the registry.
Persist ==
    /\ Up /\ Persisted /\ Observed # tasks
    /\ UNCHANGED <<intents, unresolved, ready, owner, inst, entries, intended, acked, job, os,
                   journal, fresh, wk, faults>>

Step(w, label) == job' = [job EXCEPT ![w].step = label]

\* The reply to a worker that still waits for it.
Reply(w, label) ==
    /\ job' = [job EXCEPT ![w] = NoJob]
    /\ wk' = [wk EXCEPT ![w] = IF @.pc # "wait" THEN @
                               ELSE IF label = "rejected" THEN [@ EXCEPT !.pc = "abandon"]
                               ELSE Idle]

Evictable == {t \in acked : facts[t] = "exited"}
Full == Cardinality({t \in Tasks : facts[t] # "none"}) >= Retain

AdmitReplay(w) ==
    LET t == job[w].task IN
    /\ job[w].step = "queued" /\ EntriesFree
    /\ IF t \in entries THEN Persisted /\ Reply(w, "task")
                        ELSE Step(w, "intend") /\ UNCHANGED <<tasks, facts, wk>>
    /\ UNCHANGED <<intents, unresolved, ready, owner, inst, entries, intended, acked, os,
                   journal, fresh, faults>>

\* Known here: the same answer again.  Known from an earlier host: never again.
Admit(w) ==
    LET t == job[w].task IN
    /\ job[w].step = "queued" /\ EntriesFree
    /\ \/ t \in entries /\ Persisted /\ Reply(w, "task") /\ UNCHANGED <<entries, acked>>
       \/ /\ t \notin entries
          /\ facts[t] # "none" \/ (Full /\ Evictable = {})
          /\ Reply(w, "rejected") /\ UNCHANGED <<tasks, facts, entries, acked>>
       \/ /\ t \notin entries /\ facts[t] = "none"
          /\ \/ ~Full /\ UNCHANGED <<facts, entries, acked>>
             \/ /\ Full
                /\ \E u \in Evictable :
                     /\ facts' = [facts EXCEPT ![u] = "none"]
                     /\ entries' = entries \ {u} /\ acked' = acked \ {u}
          /\ Step(w, "intend") /\ UNCHANGED <<tasks, wk>>
    /\ UNCHANGED <<intents, unresolved, ready, owner, inst, intended, os, journal, fresh, faults>>

\* The intent is on disk before any process exists.
Intend(w) ==
    /\ job[w].step = "intend" /\ IntentsFree
    /\ intended' = intended \cup {job[w].task}
    /\ \/ intents' = intended' /\ Step(w, "launch") /\ UNCHANGED <<wk, faults>>
       \/ Fault /\ Reply(w, "unknown") /\ UNCHANGED intents
    /\ UNCHANGED <<tasks, unresolved, ready, owner, inst, facts, entries, acked, os, journal, fresh>>

Launch(w) ==
    LET t == job[w].task IN
    /\ job[w].step = "launch"
    /\ \/ /\ launched' = [launched EXCEPT ![t] = @ + 1]
          /\ proc' = [proc EXCEPT ![t] = "running"]
          /\ strays' = IF proc[t] = "running" THEN strays \cup {t} ELSE strays
          /\ entries' = entries \cup {t}
          /\ Step(w, "record") /\ UNCHANGED <<intents, intended, wk, faults>>
       \/ /\ intended' = intended \ {t}
          /\ \/ intents' = intended' /\ Reply(w, "rejected") /\ UNCHANGED faults
             \/ Fault /\ Reply(w, "unknown") /\ UNCHANGED intents
          /\ UNCHANGED <<entries, os>>
    /\ UNCHANGED <<tasks, unresolved, ready, owner, inst, facts, acked, journal, fresh>>

RecordRejected(w) ==
    /\ job[w].step = "record"
    /\ \/ Persisted /\ Step(w, "clear") /\ UNCHANGED <<wk, faults>>
       \/ EntriesFree /\ facts' = Observed /\ Fault /\ Reply(w, "rejected") /\ UNCHANGED tasks
    /\ UNCHANGED <<intents, unresolved, ready, owner, inst, entries, intended, acked, os,
                   journal, fresh>>

\* The fact of the process.  When it cannot be written the process is killed
\* and its intent stays.
Record(w) ==
    /\ job[w].step = "record"
    /\ \/ Persisted /\ Step(w, "clear") /\ UNCHANGED <<wk, faults>>
       \/ EntriesFree /\ facts' = Observed /\ Fault /\ Reply(w, "unknown") /\ UNCHANGED tasks
    /\ UNCHANGED <<intents, unresolved, ready, owner, inst, entries, intended, acked, os,
                   journal, fresh>>

Clear(w) ==
    /\ job[w].step = "clear"
    /\ intended' = intended \ {job[w].task}
    /\ \/ intents' = intended' /\ Step(w, "report") /\ UNCHANGED <<wk, faults>>
       \/ Fault /\ Reply(w, "unknown") /\ UNCHANGED intents
    /\ UNCHANGED <<tasks, unresolved, ready, owner, inst, facts, entries, acked, os, journal, fresh>>

Report(w) ==
    /\ job[w].step = "report" /\ Persisted /\ Reply(w, "task")
    /\ UNCHANGED <<intents, unresolved, ready, owner, inst, entries, intended, acked, os,
                   journal, fresh, faults>>

HostStep(w) == Admit(w) \/ Intend(w) \/ Launch(w) \/ Record(w) \/ Clear(w) \/ Report(w)

\* Told to end, by a supervisor or because it is idle.  It takes no more requests;
\* the handlers of earlier ones go on while it still holds its lock.
Withdraw ==
    /\ Serving /\ ready' = FALSE
    /\ UNCHANGED <<tasks, intents, unresolved, host, job, os, journal, fresh, wk, faults>>

\* Its process is over, after that or killed at any time.  The kernel releases
\* its lock; whether its children live on is up to them.
HostEnds ==
    /\ Up
    /\ owner' = "nobody"
    /\ facts' = NoFacts /\ entries' = {} /\ intended' = {} /\ acked' = {}
    /\ job' = [w \in Workers |-> NoJob]
    /\ wk' = [w \in Workers |-> IF wk[w].pc = "wait" THEN Idle ELSE wk[w]]
    /\ UNCHANGED <<state, inst, os, journal, fresh, faults>>

ProcessExits(t) ==
    /\ \/ proc[t] = "running" /\ proc' = [proc EXCEPT ![t] = "over"] /\ UNCHANGED strays
       \/ t \in strays /\ strays' = strays \ {t} /\ UNCHANGED proc
    /\ UNCHANGED <<state, host, job, launched, journal, fresh, wk, faults>>

-------------------------------------------------------------------------------
(* A worker reaches the host, or recovers what a dead one left *)

\* What no host may start over, and what is recovered.
LeftOver == intents # {} \/ \E t \in Tasks : tasks[t] = "live"
Residue == ready \/ LeftOver

\* Where the operation goes on once it has a client, and without a host.  Of
\* one that is ending nothing is known.
Attach(w, h) ==
    wk' = [wk EXCEPT ![w].client = h,
                     ![w].pc = IF wk[w].task \in Services THEN "prepare" ELSE "list"]

AfterRecovery(w) ==
    wk' = [wk EXCEPT ![w].client = IF Up THEN 0 ELSE inst,
                     ![w].pc = CASE wk[w].op = "spawn" -> "start"
                                 [] wk[w].op = "release" -> "read_tasks"
                                 [] OTHER -> "pending"]

\* A ready file whose endpoint refuses, or none at all: the lock decides.
Connect(w) ==
    /\ wk[w].pc = "connect"
    /\ \/ Serving /\ (IF wk[w].op = "release" THEN Done(w) ELSE Attach(w, inst)) /\ UNCHANGED owner
       \/ owner = "nobody" /\ Residue /\ owner' = w /\ Goto(w, "converge")
       \/ ~Up /\ owner # "nobody" /\ ready /\ Done(w) /\ UNCHANGED owner
       \/ ~ready /\ (owner # "nobody" \/ ~Residue) /\ AfterRecovery(w) /\ UNCHANGED owner
    /\ UNCHANGED <<state, inst, facts, entries, intended, acked, job, os, journal, fresh, faults>>

ConvergeGone(w) ==
    /\ wk[w].pc = "converge"
    /\ tasks' = [t \in Tasks |-> IF tasks[t] = "live" THEN "gone" ELSE tasks[t]]
    /\ Goto(w, "archive")
    /\ UNCHANGED <<intents, unresolved, ready, host, job, os, journal, fresh, faults>>

\* A process that is there is seen; of one that is gone there may be no proof,
\* when its id was taken again or cannot be probed.
Converge(w) ==
    /\ wk[w].pc = "converge"
    /\ \E proof \in SUBSET {t \in Tasks : tasks[t] = "live" /\ proc[t] # "running"} :
         tasks' = [t \in Tasks |-> IF tasks[t] # "live" THEN tasks[t]
                                   ELSE IF t \in proof THEN "gone" ELSE "present"]
    /\ Goto(w, "archive")
    /\ UNCHANGED <<intents, unresolved, ready, host, job, os, journal, fresh, faults>>

ClearFirst(w) ==
    /\ wk[w].pc = "archive"
    /\ intents' = {} /\ Goto(w, "unready")
    /\ UNCHANGED <<tasks, unresolved, ready, host, job, os, journal, fresh, faults>>

\* Archived before they are cleared.
Archive(w) ==
    /\ wk[w].pc = "archive"
    /\ unresolved' = unresolved \cup intents /\ Goto(w, "discard")
    /\ UNCHANGED <<tasks, intents, ready, host, job, os, journal, fresh, faults>>

Discard(w) ==
    /\ wk[w].pc = "discard"
    /\ intents' = {} /\ Goto(w, "unready")
    /\ UNCHANGED <<tasks, unresolved, ready, host, job, os, journal, fresh, faults>>

Unready(w) ==
    /\ wk[w].pc = "unready"
    /\ ready' = FALSE /\ owner' = "nobody" /\ AfterRecovery(w)
    /\ UNCHANGED <<tasks, intents, unresolved, inst, facts, entries, intended, acked, job, os,
                   journal, fresh, faults>>

\* A host refuses to start over live facts or intents.
StartHost(w) ==
    /\ wk[w].pc = "start"
    /\ \/ Serving /\ Attach(w, inst) /\ UNCHANGED <<ready, host>>
       \/ /\ owner = "nobody" /\ ~LeftOver /\ inst < MaxHosts
          /\ owner' = "host" /\ ready' = TRUE /\ inst' = inst + 1 /\ facts' = tasks
          /\ Attach(w, inst + 1) /\ UNCHANGED <<entries, intended, acked>>
       \/ ~Serving /\ (owner # "nobody" \/ LeftOver \/ inst = MaxHosts)
          /\ Done(w) /\ UNCHANGED <<ready, host>>
    /\ UNCHANGED <<tasks, intents, unresolved, job, os, journal, fresh, faults>>

-------------------------------------------------------------------------------
(* A worker starts a task *)

StartTask(w, t) ==
    /\ wk[w] = Idle /\ job[w] = NoJob
    /\ t \in fresh \cup Terminals /\ launched[t] < 2
    /\ fresh' = fresh \ {t}
    /\ Become(w, "connect", "spawn", t)
    /\ UNCHANGED <<state, host, job, os, journal, faults>>

\* Whether the terminal is known already.
ListTerminal(w) ==
    /\ wk[w].pc = "list" /\ wk[w].op = "spawn"
    /\ \/ /\ Connected(w) /\ Persisted
          /\ wk' = [wk EXCEPT ![w].known = Observed[wk[w].task] # "none", ![w].pc = "prepare"]
       \/ ~Connected(w) /\ Done(w) /\ UNCHANGED <<tasks, facts>>
    /\ UNCHANGED <<intents, unresolved, ready, owner, inst, entries, intended, acked, job, os,
                   journal, fresh, faults>>

\* The reservation is durable before the process can exist; an equal one stays.
Prepare(w) ==
    /\ wk[w].pc = "prepare"
    /\ journal' = [journal EXCEPT ![wk[w].task] = IF @ = "none" THEN "prepared" ELSE @]
    /\ Goto(w, "send")
    /\ UNCHANGED <<state, host, job, os, fresh, faults>>

\* Of a request that does not arrive the outcome is unknown.
Send(w) ==
    /\ wk[w].pc = "send"
    /\ IF Connected(w)
       THEN job' = [job EXCEPT ![w] = [task |-> wk[w].task, step |-> "queued"]] /\ Goto(w, "wait")
       ELSE Done(w) /\ UNCHANGED job
    /\ UNCHANGED <<state, host, os, journal, fresh, faults>>

ReleaseMarked(t) == journal' = [journal EXCEPT ![t] = IF @ = "prepared" THEN "released" ELSE @]

\* abandon_prepared refuses a settled record, and finds none that is gone.
Release(t) == journal' = [journal EXCEPT ![t] = IF @ = "prepared" THEN "none" ELSE @]

\* Rejected, and so never launched.
Abandon(w) ==
    /\ wk[w].pc = "abandon"
    /\ IF wk[w].known THEN UNCHANGED journal ELSE Release(wk[w].task)
    /\ Done(w)
    /\ UNCHANGED <<state, host, job, os, fresh, faults>>

\* A call or a write fails, a worker dies, or it gives up on an answer: its
\* request stays with the host, and the kernel releases its lock.
Abort(w) ==
    /\ wk[w] # Idle /\ Fault
    /\ owner' = IF owner = w THEN "nobody" ELSE owner
    /\ Done(w)
    /\ UNCHANGED <<state, inst, facts, entries, intended, acked, job, os, journal, fresh>>

-------------------------------------------------------------------------------
(* Reconciliation: at the start of a runtime and of every turn *)

StartPass(w) ==
    /\ wk[w] = Idle /\ "reconcile" \in Operations
    /\ Become(w, "connect", "reconcile", NoTask)
    /\ UNCHANGED <<state, host, job, os, journal, fresh, faults>>

\* The facts of a host that answers.
ListTasks(w) ==
    /\ wk[w].pc = "list" /\ wk[w].op = "reconcile"
    /\ \/ /\ Connected(w) /\ Persisted
          /\ wk' = [wk EXCEPT ![w].pc = "review", ![w].seen = Observed,
                              ![w].pend = {t \in Tasks : Observed[t] # "none"}]
       \/ ~Connected(w) /\ Done(w) /\ UNCHANGED <<tasks, facts>>
    /\ UNCHANGED <<intents, unresolved, ready, owner, inst, entries, intended, acked, job, os,
                   journal, fresh, faults>>

\* settle: what is settled stays, and what has no record is an error.
Settle(t) == journal[t] # "none" /\ journal' = [journal EXCEPT ![t] = "settled"]

ReviewListed(w) ==
    /\ wk[w].pc = "review"
    /\ \/ wk[w].pend = {} /\ Done(w) /\ UNCHANGED journal
       \/ \E t \in wk[w].pend :
            \/ Settle(t) /\ wk' = [wk EXCEPT ![w].pc = "ack", ![w].task = t, ![w].pend = @ \ {t}]
            \/ journal[t] = "none" /\ Done(w) /\ UNCHANGED journal
    /\ UNCHANGED <<state, host, job, os, fresh, faults>>

\* One after the other: a live task gets a monitor, one without proof stays, and
\* the first that cannot be settled ends the pass.
Review(w) ==
    /\ wk[w].pc = "review"
    /\ \/ wk[w].pend = {} /\ Done(w) /\ UNCHANGED journal
       \/ \E t \in wk[w].pend :
            \/ ~Proven(wk[w].seen[t]) /\ Drop(w, t) /\ UNCHANGED journal
            \/ /\ Proven(wk[w].seen[t]) /\ Settle(t)
               /\ wk' = [wk EXCEPT ![w].pc = "ack", ![w].task = t, ![w].pend = @ \ {t}]
            \/ /\ Proven(wk[w].seen[t]) /\ journal[t] = "none"
               /\ Done(w) /\ UNCHANGED journal
    /\ UNCHANGED <<state, host, job, os, fresh, faults>>

\* The host may forget the fact.
Acknowledge(w) ==
    /\ wk[w].pc = "ack"
    /\ IF Connected(w) /\ Terminal(facts[wk[w].task])
       THEN /\ acked' = acked \cup {wk[w].task}
            /\ IF wk[w].op = "inspect" THEN Done(w) ELSE Goto(w, "review")
       ELSE Done(w) /\ UNCHANGED acked
    /\ UNCHANGED <<state, owner, inst, facts, entries, intended, job, os, journal, fresh, faults>>

\* Without a host: what is reserved, and then the records of the last one.
Pending(w) ==
    /\ wk[w].pc = "pending"
    /\ LET pending == {t \in Tasks : journal[t] = "prepared"} IN
       IF pending = {} THEN Done(w)
       ELSE wk' = [wk EXCEPT ![w].pend = pending, ![w].pc = "read_tasks"]
    /\ UNCHANGED <<state, host, job, os, journal, fresh, faults>>

ReadTasks(w) ==
    /\ wk[w].pc = "read_tasks"
    /\ wk' = [wk EXCEPT ![w].seen = tasks, ![w].pc = "read_intents"]
    /\ UNCHANGED <<state, host, job, os, journal, fresh, faults>>

ReadIntents(w) ==
    /\ wk[w].pc = "read_intents"
    /\ wk' = [wk EXCEPT ![w].hinted = intents, ![w].pc = "read_unresolved"]
    /\ UNCHANGED <<state, host, job, os, journal, fresh, faults>>

ReadActiveOnly(w) ==
    LET v == wk[w] IN
    /\ v.pc = "read_unresolved"
    /\ IF v.op = "reconcile" THEN Goto(w, "judge")
       ELSE IF v.hinted = {} /\ v.seen[v.task] = "none" THEN Goto(w, "abandon") ELSE Done(w)
    /\ UNCHANGED <<state, host, job, os, journal, fresh, faults>>

\* A release by hand needs that no intent is outstanding and no fact is known.
ReadUnresolved(w) ==
    LET v == wk[w] IN
    /\ v.pc = "read_unresolved"
    /\ \/ v.op = "reconcile"
          /\ wk' = [wk EXCEPT ![w].hinted = @ \cup unresolved, ![w].pc = "judge"]
       \/ v.op = "release"
          /\ IF v.hinted = {} /\ v.task \notin unresolved /\ v.seen[v.task] = "none"
             THEN Goto(w, "abandon") ELSE Done(w)
    /\ UNCHANGED <<state, host, job, os, journal, fresh, faults>>

JudgeWaits(w) ==
    LET v == wk[w] IN
    /\ v.pc = "judge"
    /\ \/ v.pend = {} /\ Done(w) /\ UNCHANGED journal
       \/ \E t \in v.pend :
            \/ /\ v.seen[t] = "none" /\ t \notin v.hinted /\ Release(t)
               /\ IF journal[t] = "prepared" THEN Drop(w, t) ELSE Done(w)
            \/ /\ v.seen[t] # "none" \/ t \in v.hinted
               /\ Drop(w, t) /\ UNCHANGED journal
    /\ UNCHANGED <<state, host, job, os, fresh, faults>>

\* Neither a fact nor an intent: never admitted.  A diff that fails is left for
\* the next pass; a record that is gone ends this one.
Judge(w) ==
    LET v == wk[w] IN
    /\ v.pc = "judge"
    /\ \/ v.pend = {} /\ Done(w) /\ UNCHANGED <<journal, faults>>
       \/ \E t \in v.pend :
            \/ /\ v.seen[t] = "none" /\ t \notin v.hinted
               /\ Release(t) /\ UNCHANGED faults
               /\ IF journal[t] = "prepared" THEN Drop(w, t) ELSE Done(w)
            \/ /\ Proven(v.seen[t]) /\ Drop(w, t)
               /\ \/ Settle(t) /\ UNCHANGED faults
                  \/ journal[t] = "none" /\ UNCHANGED <<journal, faults>>
                  \/ Fault /\ UNCHANGED journal
            \/ /\ ~Proven(v.seen[t]) /\ (v.seen[t] # "none" \/ t \in v.hinted)
               /\ Drop(w, t) /\ UNCHANGED <<journal, faults>>
    /\ UNCHANGED <<state, host, job, os, fresh>>

-------------------------------------------------------------------------------
(* A look at one task, by its monitor or a tool; a release by hand *)

Inspect(w, t) ==
    /\ wk[w] = Idle /\ "inspect" \in Operations /\ Serving /\ Observed[t] # "none" /\ Persisted
    /\ IF Terminal(Observed[t])
       THEN wk' = [wk EXCEPT ![w] = [Idle EXCEPT !.pc = "settle", !.op = "inspect", !.task = t,
                                                !.client = inst]]
       ELSE UNCHANGED wk
    /\ UNCHANGED <<intents, unresolved, ready, owner, inst, entries, intended, acked, job, os,
                   journal, fresh, faults>>

SettleSeen(w) ==
    /\ wk[w].pc = "settle"
    /\ \/ Settle(wk[w].task) /\ Goto(w, "ack")
       \/ journal[wk[w].task] = "none" /\ Done(w) /\ UNCHANGED journal
    /\ UNCHANGED <<state, host, job, os, fresh, faults>>

ReleaseByHand(w, t) ==
    /\ wk[w] = Idle /\ "release" \in Operations /\ journal[t] = "prepared"
    /\ Become(w, "connect", "release", t)
    /\ UNCHANGED <<state, host, job, os, journal, fresh, faults>>

-------------------------------------------------------------------------------

WorkerStep(w) ==
    \/ Connect(w) \/ Converge(w) \/ Archive(w) \/ Discard(w) \/ Unready(w) \/ StartHost(w)
    \/ ListTerminal(w) \/ Prepare(w) \/ Send(w) \/ Abandon(w)
    \/ ListTasks(w) \/ Review(w) \/ Acknowledge(w) \/ Pending(w) \/ ReadTasks(w)
    \/ ReadIntents(w) \/ ReadUnresolved(w) \/ Judge(w) \/ SettleSeen(w)

Next ==
    \/ \E w \in Workers : WorkerStep(w) \/ HostStep(w) \/ Abort(w) \/ StartPass(w)
    \/ \E w \in Workers, t \in Tasks : StartTask(w, t) \/ Inspect(w, t) \/ ReleaseByHand(w, t)
    \/ Persist
    \/ Withdraw \/ HostEnds
    \/ \E t \in Tasks : ProcessExits(t)

Spec == Init /\ [][Next]_vars

\* Workers and handlers go on, turns keep starting, a host looks at every exit
\* until it is told to end, and then it ends.
Fairness ==
    /\ \A w \in Workers : WF_vars(WorkerStep(w)) /\ WF_vars(HostStep(w)) /\ SF_vars(StartPass(w))
    /\ WF_vars(ready /\ Persist) /\ WF_vars(~ready /\ HostEnds)

FairSpec == Spec /\ Fairness

-------------------------------------------------------------------------------

Facts == {"none", "live", "exited", "gone", "present"}
Labels == {"idle", "connect", "converge", "archive", "discard", "unready", "start", "list",
           "prepare", "send", "wait", "abandon", "review", "ack", "pending", "read_tasks",
           "read_intents", "read_unresolved", "judge", "settle"}
Steps == {"none", "queued", "intend", "launch", "record", "clear", "report"}

\* The types of the records, the host and the operations.
TypeOK ==
    /\ tasks \in [Tasks -> Facts] /\ facts \in [Tasks -> Facts]
    /\ intents \subseteq Tasks /\ unresolved \subseteq Tasks /\ intended \subseteq Tasks
    /\ entries \subseteq Tasks /\ acked \subseteq Tasks /\ strays \subseteq Tasks
    /\ ready \in BOOLEAN /\ owner \in {"nobody", "host"} \cup Workers /\ inst \in Nat
    /\ job \in [Workers -> [task : Tasks \cup {NoTask}, step : Steps]]
    /\ proc \in [Tasks -> {"none", "running", "over"}] /\ launched \in [Tasks -> Nat]
    /\ journal \in [Tasks -> {"none", "prepared", "settled"}] /\ fresh \subseteq Services
    /\ wk \in [Workers -> [pc : Labels, op : {"none", "spawn", "reconcile", "release", "inspect"},
                          task : Tasks \cup {NoTask}, client : Nat, known : BOOLEAN,
                          pend : SUBSET Tasks, seen : [Tasks -> Facts], hinted : SUBSET Tasks]]
    /\ faults \in Nat

\* Whatever dies, and wherever: a process that runs is on record, as a fact that
\* does not call it over or as an intent.
ProcessOnRecord ==
    \A t \in Tasks : Alive(t) => tasks[t] \in {"live", "present"} \/ t \in intents \cup unresolved

\* A task with a process fact is never launched again, by this host or a later
\* one, before the fact was consumed.
NoReplay ==
    [][\A t \in Tasks : launched'[t] # launched[t]
         => tasks[t] = "none" \/ journal[t] = "settled"]_vars

\* A reservation is settled under a running process only when a host that did
\* not start it reports it as unknown.
SettledOnEvidence ==
    [][\A t \in Services : journal[t] # "settled" /\ journal'[t] = "settled"
         => ~Alive(t) \/ tasks[t] = "present"]_vars

\* abandon_prepared drops a reservation only of a task that was never launched,
\* unless the worker is a pass or a person who looked for a host before the one
\* that launched it was started, or while that one was ending.
DroppedUnlaunched ==
    [][\A t \in Services : journal[t] = "prepared" /\ journal'[t] = "none"
         => \/ launched[t] = 0
            \/ \E w \in Workers :
                  wk[w].op # "spawn" /\ wk[w].client # inst /\ wk'[w] # wk[w]]_vars

\* A process that runs keeps its reservation.
ReservationHeld == \A t \in Services : Alive(t) => journal[t] = "prepared"

\* One handler holds the intents and waits for the entries, one the other way round.
Stuck ==
    \E v, w \in Workers : job[v].step \in {"record", "report"} /\ job[w].step = "intend"

\* What a host starts it records the exit of, unless it ends itself.
ExitAlwaysRecorded ==
    \A t \in Tasks : proc[t] = "over" ~> ~Up \/ tasks[t] \in {"exited", "gone", "present"}

\* So it does unless two of its handlers wait for each other.
ExitRecorded ==
    \A t \in Tasks : proc[t] = "over" ~> ~Up \/ Stuck \/ tasks[t] \in {"exited", "gone", "present"}

\* A reservation whose process is proven over is settled in the end, unless the
\* host is stuck or the dropped record of another task ends every pass.
EvidenceSettles ==
    \A t \in Tasks :
        Proven(tasks[t]) /\ journal[t] = "prepared"
          ~> \/ journal[t] = "settled" \/ Stuck
             \/ \E u \in Tasks : Proven(tasks[u]) /\ journal[u] = "none"

===============================================================================
