-------------------------- MODULE HostedTasks_proofs --------------------------
(***************************************************************************)
(* Theorems about HostedTasks, for any tasks, any number of operations at    *)
(* once, any hosts and any faults.                                           *)
(***************************************************************************)
EXTENDS HostedTasks, TLAPS

Op == [pc : Labels, op : {"none", "spawn", "reconcile", "release", "inspect"},
       task : Tasks \cup {NoTask}, client : Nat, known : BOOLEAN,
       pend : SUBSET Tasks, seen : [Tasks -> Facts], hinted : SUBSET Tasks]

Request == [task : Tasks \cup {NoTask}, step : Steps]

\* Where an operation, or the host on its behalf, is about a task it has one.
HasTask(r) == r.op = "spawn" \/ r.pc \in {"prepare", "send", "ack", "settle"} => r.task \in Tasks

Typed ==
    /\ TypeOK
    /\ \A w \in Workers : HasTask(wk[w])
    /\ \A w \in Workers : job[w].step # "none" => job[w].task \in Tasks

\* The variables of the operations and of the requests, apart.
WorkTyped == wk \in [Workers -> Op] /\ \A w \in Workers : HasTask(wk[w])
JobsTyped ==
    job \in [Workers -> Request] /\ \A w \in Workers : job[w].step # "none" => job[w].task \in Tasks
RestTyped ==
    /\ tasks \in [Tasks -> Facts] /\ facts \in [Tasks -> Facts]
    /\ intents \subseteq Tasks /\ unresolved \subseteq Tasks /\ intended \subseteq Tasks
    /\ entries \subseteq Tasks /\ acked \subseteq Tasks /\ strays \subseteq Tasks
    /\ ready \in BOOLEAN /\ owner \in {"nobody", "host"} \cup Workers /\ inst \in Nat
    /\ proc \in [Tasks -> {"none", "running", "over"}] /\ launched \in [Tasks -> Nat]
    /\ journal \in [Tasks -> {"none", "prepared", "settled"}] /\ fresh \subseteq Services
    /\ faults \in Nat

LEMMA TypedParts == Typed <=> WorkTyped /\ JobsTyped /\ RestTyped
  BY DEF Typed, TypeOK, WorkTyped, JobsTyped, RestTyped, Op, Request

LEMMA NothingKnown == NoFacts \in [Tasks -> Facts] /\ Idle \in Op /\ HasTask(Idle)
  BY DEF NoFacts, Facts, Idle, Op, HasTask, Labels

LEMMA MainLabels ==
    {"prepare", "abandon", "review", "ack", "read_tasks", "read_intents", "read_unresolved", "judge"}
      \subseteq Labels
  BY DEF Labels

\* One operation replaced by another keeps the types of all.
LEMMA OneWorker ==
    ASSUME WorkTyped, NEW w \in Workers, NEW r \in Op, HasTask(r), wk' = [wk EXCEPT ![w] = r]
    PROVE  WorkTyped'
  BY DEF WorkTyped

LEMMA DoneTypes ==
    ASSUME WorkTyped, NEW w \in Workers, Done(w)
    PROVE  WorkTyped'
  BY OneWorker, NothingKnown DEF Done

LEMMA GotoTypes ==
    ASSUME WorkTyped, NEW w \in Workers, NEW label \in Labels, Goto(w, label),
           label \in {"prepare", "send", "ack", "settle"} => wk[w].task \in Tasks
    PROVE  WorkTyped'
<1>1. [wk[w] EXCEPT !.pc = label] \in Op /\ HasTask([wk[w] EXCEPT !.pc = label])
  BY DEF WorkTyped, Op, HasTask
<1> QED
  BY <1>1, OneWorker DEF Goto, WorkTyped

LEMMA DropTypes ==
    ASSUME WorkTyped, NEW w \in Workers, NEW t, Drop(w, t)
    PROVE  WorkTyped'
<1>1. [wk[w] EXCEPT !.pend = @ \ {t}] \in Op /\ HasTask([wk[w] EXCEPT !.pend = @ \ {t}])
  BY DEF WorkTyped, Op, HasTask
<1> QED
  BY <1>1, OneWorker DEF Drop, WorkTyped

LEMMA BecomeTypes ==
    ASSUME WorkTyped, NEW w \in Workers, NEW label \in Labels,
           NEW o \in {"spawn", "reconcile", "release"}, NEW t \in Tasks \cup {NoTask},
           Become(w, label, o, t), label = "connect", o = "spawn" => t \in Tasks
    PROVE  WorkTyped'
<1> DEFINE r == [Idle EXCEPT !.pc = label, !.op = o, !.task = t]
<1>1. r \in Op /\ HasTask(r)
  BY NothingKnown DEF Op, HasTask
<1> QED
  BY <1>1, OneWorker DEF Become

LEMMA ClientOp ==
    ASSUME NEW v \in Op, NEW h \in Nat, NEW label \in Labels, HasTask(v),
           label \in {"prepare", "send", "ack", "settle"} => v.task \in Tasks
    PROVE  LET r == [v EXCEPT !.client = h, !.pc = label] IN r \in Op /\ HasTask(r)
<1> DEFINE r == [v EXCEPT !.client = h, !.pc = label]
<1>1. r \in Op /\ r.pc = label /\ r.op = v.op /\ r.task = v.task
  BY DEF Op
<1>2. HasTask(r)
  BY <1>1 DEF HasTask
<1> QED
  BY <1>1, <1>2

LEMMA ClientTypes ==
    ASSUME WorkTyped, NEW w \in Workers, NEW h \in Nat, NEW label \in Labels,
           label \in {"prepare", "send", "ack", "settle"} => wk[w].task \in Tasks,
           wk' = [wk EXCEPT ![w] = [wk[w] EXCEPT !.client = h, !.pc = label]]
    PROVE  WorkTyped'
<1> DEFINE r == [wk[w] EXCEPT !.client = h, !.pc = label]
<1>1. wk[w] \in Op /\ HasTask(wk[w])
  BY DEF WorkTyped
<1>2. r \in Op /\ HasTask(r)
  BY <1>1, ClientOp
<1> QED
  BY <1>2, OneWorker

LEMMA AttachTypes ==
    ASSUME WorkTyped, NEW w \in Workers, NEW h \in Nat, Attach(w, h)
    PROVE  WorkTyped'
<1>1. CASE wk[w].task \in Services
  <2>1. wk' = [wk EXCEPT ![w] = [wk[w] EXCEPT !.client = h, !.pc = "prepare"]]
    BY <1>1 DEF Attach, WorkTyped, Op
  <2> QED
    BY <1>1, <2>1, ClientTypes DEF Labels, Tasks
<1>2. CASE wk[w].task \notin Services
  <2>1. wk' = [wk EXCEPT ![w] = [wk[w] EXCEPT !.client = h, !.pc = "list"]]
    BY <1>2 DEF Attach, WorkTyped, Op
  <2> QED
    BY <2>1, ClientTypes DEF Labels
<1> QED
  BY <1>1, <1>2

LEMMA AfterRecoveryTypes ==
    ASSUME WorkTyped, NEW w \in Workers, inst \in Nat, AfterRecovery(w)
    PROVE  WorkTyped'
<1> DEFINE label == CASE wk[w].op = "spawn" -> "start"
                      [] wk[w].op = "release" -> "read_tasks"
                      [] OTHER -> "pending"
<1>1. label \in {"start", "read_tasks", "pending"}
  OBVIOUS
<1> DEFINE h == IF Up THEN 0 ELSE inst
<1>2. wk' = [wk EXCEPT ![w] = [wk[w] EXCEPT !.client = h, !.pc = label]]
  BY DEF AfterRecovery, WorkTyped, Op
<1>3. h \in Nat
  OBVIOUS
<1> HIDE DEF label, h
<1> QED
  BY <1>1, <1>2, <1>3, ClientTypes DEF Labels

LEMMA ReplyTypes ==
    ASSUME WorkTyped, JobsTyped, NEW w \in Workers, NEW label, Reply(w, label)
    PROVE  WorkTyped' /\ JobsTyped' /\ job' = [job EXCEPT ![w] = NoJob]
<1> DEFINE r == IF wk[w].pc # "wait" THEN wk[w]
                ELSE IF label = "rejected" THEN [wk[w] EXCEPT !.pc = "abandon"] ELSE Idle
<1>1. r \in Op /\ HasTask(r)
  <2>1. [wk[w] EXCEPT !.pc = "abandon"] \in Op
    BY MainLabels DEF WorkTyped, Op
  <2>2. HasTask([wk[w] EXCEPT !.pc = "abandon"])
    BY DEF WorkTyped, Op, HasTask
  <2> QED
    BY <2>1, <2>2, NothingKnown DEF WorkTyped
<1>2. wk' = [wk EXCEPT ![w] = r]
  BY DEF Reply
<1>3. WorkTyped'
  BY <1>1, <1>2, OneWorker
<1>4. JobsTyped'
  BY DEF Reply, JobsTyped, NoJob, Request, Steps
<1> QED
  BY <1>3, <1>4 DEF Reply

LEMMA StepTypes ==
    ASSUME JobsTyped, NEW w \in Workers, NEW label \in Steps, Step(w, label), job[w].step # "none"
    PROVE  JobsTyped' /\ job' = [job EXCEPT ![w].step = label]
  BY DEF Step, JobsTyped, Request

LEMMA ObservedTypes == RestTyped => Observed \in [Tasks -> Facts]
  BY DEF RestTyped, Observed, Facts

Parts == WorkTyped /\ JobsTyped /\ RestTyped

\* What a step leaves alone keeps its type.
LEMMA Untouched ==
    /\ JobsTyped /\ UNCHANGED job => JobsTyped'
    /\ WorkTyped /\ UNCHANGED wk => WorkTyped'
    /\ RestTyped /\ UNCHANGED <<state, host, os, journal, fresh, faults>> => RestTyped'
  BY DEF JobsTyped, WorkTyped, RestTyped, state, host, os

\* The steps of the host keep the types.
LEMMA HostTypes == ASSUME Parts, NEW w \in Workers, HostStep(w) PROVE Parts'
<1> USE DEF Parts
<1>0. Observed \in [Tasks -> Facts]
  BY ObservedTypes
<1>1. CASE Admit(w)
  <2>1. job[w].task \in Tasks /\ job[w].step # "none"
    BY <1>1 DEF Admit, JobsTyped
  <2>2. CASE Persisted /\ Reply(w, "task") /\ UNCHANGED <<entries, acked>>
    BY <1>1, <1>0, <2>2, ReplyTypes DEF Admit, Persisted, RestTyped, os
  <2>3. CASE Reply(w, "rejected") /\ UNCHANGED <<tasks, facts, entries, acked>>
    BY <1>1, <2>3, ReplyTypes DEF Admit, RestTyped, os
  <2>4. CASE /\ \/ ~Full /\ UNCHANGED <<facts, entries, acked>>
                \/ \E u \in Evictable :
                     /\ facts' = [facts EXCEPT ![u] = "none"]
                     /\ entries' = entries \ {u} /\ acked' = acked \ {u}
             /\ Step(w, "intend") /\ UNCHANGED <<tasks, wk>>
    <3>1. JobsTyped' /\ WorkTyped'
      BY <2>1, <2>4, StepTypes, Untouched DEF Steps
    <3>2. RestTyped'
      BY <1>1, <2>4 DEF Admit, RestTyped, Facts, os
    <3> QED
      BY <3>1, <3>2
  <2> QED
    BY <1>1, <2>2, <2>3, <2>4 DEF Admit
<1>2. CASE Intend(w)
  <2>1. job[w].task \in Tasks /\ job[w].step # "none"
    BY <1>2 DEF Intend, JobsTyped
  <2>2. RestTyped'
    BY <1>2, <2>1 DEF Intend, RestTyped, Fault, os
  <2>3. CASE Step(w, "launch") /\ UNCHANGED wk
    BY <2>1, <2>2, <2>3, StepTypes, Untouched DEF Steps
  <2>4. CASE Reply(w, "unknown")
    BY <2>2, <2>4, ReplyTypes
  <2> QED
    BY <1>2, <2>3, <2>4 DEF Intend
<1>3. CASE Launch(w)
  <2>1. job[w].task \in Tasks /\ job[w].step # "none"
    BY <1>3 DEF Launch, JobsTyped
  <2>2. RestTyped'
    BY <1>3, <2>1 DEF Launch, RestTyped, Fault, os
  <2>3. CASE Step(w, "record") /\ UNCHANGED wk
    BY <2>1, <2>2, <2>3, StepTypes, Untouched DEF Steps
  <2>4. CASE \E label \in {"rejected", "unknown"} : Reply(w, label)
    BY <2>2, <2>4, ReplyTypes
  <2> QED
    BY <1>3, <2>3, <2>4 DEF Launch
<1>4. CASE Record(w)
  <2>1. job[w].step # "none"
    BY <1>4 DEF Record
  <2>2. RestTyped'
    BY <1>4, <1>0 DEF Record, RestTyped, Persisted, Fault, os
  <2>3. CASE Step(w, "clear") /\ UNCHANGED wk
    BY <2>1, <2>2, <2>3, StepTypes, Untouched DEF Steps
  <2>4. CASE Reply(w, "unknown")
    BY <2>2, <2>4, ReplyTypes
  <2> QED
    BY <1>4, <2>3, <2>4 DEF Record
<1>5. CASE Clear(w)
  <2>1. job[w].step # "none"
    BY <1>5 DEF Clear
  <2>2. RestTyped'
    BY <1>5 DEF Clear, RestTyped, Fault, os
  <2>3. CASE Step(w, "report") /\ UNCHANGED wk
    BY <2>1, <2>2, <2>3, StepTypes, Untouched DEF Steps
  <2>4. CASE Reply(w, "unknown")
    BY <2>2, <2>4, ReplyTypes
  <2> QED
    BY <1>5, <2>3, <2>4 DEF Clear
<1>6. CASE Report(w)
  <2>1. RestTyped'
    BY <1>6, <1>0 DEF Report, RestTyped, Persisted, os
  <2> QED
    BY <1>6, <2>1, ReplyTypes DEF Report
<1> QED
  BY <1>1, <1>2, <1>3, <1>4, <1>5, <1>6 DEF HostStep

\* So do those with which a worker reaches a host or recovers what one left.
LEMMA RecoveryTypes ==
    ASSUME Parts, NEW w \in Workers,
           Connect(w) \/ Converge(w) \/ Archive(w) \/ Discard(w) \/ Unready(w) \/ StartHost(w)
    PROVE  Parts'
<1> USE DEF Parts
<1>0. inst \in Nat /\ inst + 1 \in Nat
  BY DEF RestTyped
<1>1. CASE Connect(w)
  <2>1. RestTyped' /\ JobsTyped'
    BY <1>1, Untouched DEF Connect, RestTyped, state, os
  <2>2. WorkTyped'
    BY <1>0, <1>1, DoneTypes, AttachTypes, GotoTypes, AfterRecoveryTypes DEF Connect, Labels
  <2> QED
    BY <2>1, <2>2
<1>2. CASE Converge(w)
  <2>1. RestTyped' /\ JobsTyped'
    BY <1>2, Untouched DEF Converge, RestTyped, Facts, host, os
  <2> QED
    BY <1>2, <2>1, GotoTypes DEF Converge, Labels
<1>3. CASE Archive(w)
  <2>1. RestTyped' /\ JobsTyped'
    BY <1>3, Untouched DEF Archive, RestTyped, host, os
  <2> QED
    BY <1>3, <2>1, GotoTypes DEF Archive, Labels
<1>4. CASE Discard(w)
  <2>1. RestTyped' /\ JobsTyped'
    BY <1>4, Untouched DEF Discard, RestTyped, host, os
  <2> QED
    BY <1>4, <2>1, GotoTypes DEF Discard, Labels
<1>5. CASE Unready(w)
  <2>1. RestTyped' /\ JobsTyped'
    BY <1>5, Untouched DEF Unready, RestTyped, os
  <2> QED
    BY <1>0, <1>5, <2>1, AfterRecoveryTypes DEF Unready
<1>6. CASE StartHost(w)
  <2>1. RestTyped' /\ JobsTyped'
    BY <1>0, <1>6, Untouched DEF StartHost, RestTyped, host, os
  <2> QED
    BY <1>0, <1>6, <2>1, AttachTypes, DoneTypes DEF StartHost
<1> QED
  BY <1>1, <1>2, <1>3, <1>4, <1>5, <1>6

\* So do those with which it starts a task.
LEMMA SpawnTypes ==
    ASSUME Parts, NEW w \in Workers,
           ListTerminal(w) \/ Prepare(w) \/ Send(w) \/ Abandon(w)
    PROVE  Parts'
<1> USE DEF Parts
<1>0. Observed \in [Tasks -> Facts]
  BY ObservedTypes
<1>1. CASE ListTerminal(w)
  <2>1. RestTyped' /\ JobsTyped'
    BY <1>0, <1>1, Untouched DEF ListTerminal, Persisted, RestTyped, os
  <2>2. CASE wk' = [wk EXCEPT ![w].known = Observed[wk[w].task] # "none", ![w].pc = "prepare"]
    <3> DEFINE k == Observed[wk[w].task] # "none"
               r == [wk[w] EXCEPT !.known = k, !.pc = "prepare"]
    <3>1. k \in BOOLEAN
      OBVIOUS
    <3>2. wk' = [wk EXCEPT ![w] = r]
      BY <2>2 DEF WorkTyped, Op
    <3> HIDE DEF k
    <3>3. r \in Op
      BY <3>1, MainLabels DEF WorkTyped, Op
    <3>4. HasTask(r)
      BY <1>1 DEF ListTerminal, WorkTyped, Op, HasTask
    <3> HIDE DEF r
    <3> QED
      BY <2>1, <3>2, <3>3, <3>4, OneWorker
  <2> QED
    BY <1>1, <2>1, <2>2, DoneTypes DEF ListTerminal
<1>2. CASE Prepare(w)
  <2>1. RestTyped' /\ JobsTyped'
    BY <1>2, Untouched DEF Prepare, RestTyped, state, host, os
  <2>2. wk[w].task \in Tasks
    BY <1>2 DEF Prepare, WorkTyped, HasTask
  <2> QED
    BY <1>2, <2>1, <2>2, GotoTypes DEF Prepare, Labels
<1>3. CASE Send(w)
  <2>1. RestTyped'
    BY <1>3, Untouched DEF Send
  <2>2. wk[w].task \in Tasks
    BY <1>3 DEF Send, WorkTyped, HasTask
  <2>3. JobsTyped'
    BY <1>3, <2>2 DEF Send, JobsTyped, Request, Steps
  <2> QED
    BY <1>3, <2>1, <2>2, <2>3, GotoTypes, DoneTypes DEF Send, Labels
<1>4. CASE Abandon(w)
  <2>1. RestTyped' /\ JobsTyped'
    BY <1>4, Untouched DEF Abandon, Release, RestTyped, state, host, os
  <2> QED
    BY <1>4, <2>1, DoneTypes DEF Abandon
<1> QED
  BY <1>1, <1>2, <1>3, <1>4

\* So do those of a pass, of a look at a task and of a release by hand.
LEMMA PassTypes ==
    ASSUME Parts, NEW w \in Workers,
           \/ ListTasks(w) \/ Review(w) \/ Acknowledge(w) \/ Pending(w) \/ ReadTasks(w)
           \/ ReadIntents(w) \/ ReadUnresolved(w) \/ Judge(w) \/ SettleSeen(w)
    PROVE  Parts'
<1> USE DEF Parts
<1>0. Observed \in [Tasks -> Facts]
  BY ObservedTypes
<1>1. CASE ListTasks(w)
  <2>1. RestTyped' /\ JobsTyped'
    BY <1>0, <1>1, Untouched DEF ListTasks, Persisted, RestTyped, os
  <2> DEFINE listed == {t \in Tasks : Observed[t] # "none"}
             r == [wk[w] EXCEPT !.pc = "review", !.seen = Observed, !.pend = listed]
  <2>2. CASE wk' = [wk EXCEPT ![w].pc = "review", ![w].seen = Observed, ![w].pend = listed]
    <3>1. listed \subseteq Tasks
      OBVIOUS
    <3>2. wk' = [wk EXCEPT ![w] = r]
      BY <2>2 DEF WorkTyped, Op
    <3> HIDE DEF listed
    <3>3. r \in Op
      BY <1>0, <3>1, MainLabels DEF WorkTyped, Op
    <3>4. HasTask(r)
      BY <1>1 DEF ListTasks, WorkTyped, Op, HasTask
    <3> HIDE DEF r
    <3> QED
      BY <2>1, <3>2, <3>3, <3>4, OneWorker
  <2> QED
    BY <1>1, <2>1, <2>2, DoneTypes DEF ListTasks
<1>2. CASE Review(w)
  <2>1. RestTyped' /\ JobsTyped'
    BY <1>2, Untouched DEF Review, Settle, RestTyped, state, host, os
  <2>2. ASSUME NEW t \in wk[w].pend,
               wk' = [wk EXCEPT ![w].pc = "ack", ![w].task = t, ![w].pend = @ \ {t}]
        PROVE  WorkTyped'
    <3> DEFINE r == [wk[w] EXCEPT !.pc = "ack", !.task = t, !.pend = @ \ {t}]
    <3>1. t \in Tasks
      BY DEF WorkTyped, Op
    <3>2. wk' = [wk EXCEPT ![w] = r]
      BY <2>2 DEF WorkTyped, Op
    <3>3. r \in Op
      BY <3>1, MainLabels DEF WorkTyped, Op
    <3>4. HasTask(r)
      BY <3>1 DEF WorkTyped, Op, HasTask
    <3> HIDE DEF r
    <3> QED
      BY <3>2, <3>3, <3>4, OneWorker
  <2> QED
    BY <1>2, <2>1, <2>2, DoneTypes, DropTypes DEF Review
<1>3. CASE Acknowledge(w)
  <2>1. wk[w].task \in Tasks
    BY <1>3 DEF Acknowledge, WorkTyped, HasTask
  <2>2. RestTyped' /\ JobsTyped'
    BY <1>3, <2>1, Untouched DEF Acknowledge, RestTyped, state, os
  <2> QED
    BY <1>3, <2>2, DoneTypes, GotoTypes DEF Acknowledge, Labels
<1>4. CASE Pending(w)
  <2>1. RestTyped' /\ JobsTyped'
    BY <1>4, Untouched DEF Pending
  <2> DEFINE open == {t \in Tasks : journal[t] = "prepared"}
             r == [wk[w] EXCEPT !.pend = open, !.pc = "read_tasks"]
  <2>2. CASE wk' = [wk EXCEPT ![w].pend = open, ![w].pc = "read_tasks"]
    <3>1. open \subseteq Tasks
      OBVIOUS
    <3>2. wk' = [wk EXCEPT ![w] = r]
      BY <2>2 DEF WorkTyped, Op
    <3> HIDE DEF open
    <3>3. r \in Op
      BY <3>1, MainLabels DEF WorkTyped, Op
    <3>4. HasTask(r)
      BY <1>4 DEF Pending, WorkTyped, Op, HasTask
    <3> HIDE DEF r
    <3> QED
      BY <2>1, <3>2, <3>3, <3>4, OneWorker
  <2> QED
    BY <1>4, <2>1, <2>2, DoneTypes DEF Pending
<1>5. CASE ReadTasks(w)
  <2> DEFINE r == [wk[w] EXCEPT !.seen = tasks, !.pc = "read_intents"]
  <2>1. wk' = [wk EXCEPT ![w] = r]
    BY <1>5 DEF ReadTasks, WorkTyped, Op
  <2>2. r \in Op
    <3>1. tasks \in [Tasks -> Facts] /\ wk[w] \in Op
      BY DEF WorkTyped, RestTyped
    <3> HIDE DEF Parts
    <3> QED
      BY <3>1, MainLabels DEF Op
  <2>3. HasTask(r)
    BY <1>5 DEF ReadTasks, WorkTyped, Op, HasTask
  <2> HIDE DEF r
  <2> QED
    BY <1>5, <2>1, <2>2, <2>3, OneWorker, Untouched DEF ReadTasks
<1>6. CASE ReadIntents(w)
  <2> DEFINE r == [wk[w] EXCEPT !.hinted = intents, !.pc = "read_unresolved"]
  <2>1. wk' = [wk EXCEPT ![w] = r]
    BY <1>6 DEF ReadIntents, WorkTyped, Op
  <2>2. r \in Op
    <3>1. intents \subseteq Tasks /\ wk[w] \in Op
      BY DEF WorkTyped, RestTyped
    <3> HIDE DEF Parts
    <3> QED
      BY <3>1, MainLabels DEF Op
  <2>3. HasTask(r)
    BY <1>6 DEF ReadIntents, WorkTyped, Op, HasTask
  <2> HIDE DEF r
  <2> QED
    BY <1>6, <2>1, <2>2, <2>3, OneWorker, Untouched DEF ReadIntents
<1>7. CASE ReadUnresolved(w)
  <2>1. RestTyped' /\ JobsTyped'
    BY <1>7, Untouched DEF ReadUnresolved
  <2> DEFINE h == wk[w].hinted \cup unresolved
             r == [wk[w] EXCEPT !.hinted = h, !.pc = "judge"]
  <2>2. CASE wk' = [wk EXCEPT ![w].hinted = @ \cup unresolved, ![w].pc = "judge"]
    <3>1. wk' = [wk EXCEPT ![w] = r]
      BY <2>2 DEF WorkTyped, Op
    <3>2. h \subseteq Tasks
      BY DEF WorkTyped, RestTyped, Op
    <3> HIDE DEF h
    <3>3. r \in Op
      BY <3>2, MainLabels DEF WorkTyped, Op
    <3>4. HasTask(r)
      BY DEF WorkTyped, Op, HasTask
    <3> HIDE DEF r
    <3> QED
      BY <2>1, <3>1, <3>3, <3>4, OneWorker
  <2> QED
    BY <1>7, <2>1, <2>2, DoneTypes, GotoTypes DEF ReadUnresolved, Labels
<1>8. CASE Judge(w)
  <2>1. RestTyped' /\ JobsTyped'
    BY <1>8, Untouched DEF Judge, Settle, Release, Fault, RestTyped, state, host, os
  <2> QED
    BY <1>8, <2>1, DoneTypes, DropTypes DEF Judge
<1>9. CASE SettleSeen(w)
  <2>1. RestTyped' /\ JobsTyped'
    BY <1>9, Untouched DEF SettleSeen, Settle, RestTyped, state, host, os
  <2>2. wk[w].task \in Tasks
    BY <1>9 DEF SettleSeen, WorkTyped, HasTask
  <2> QED
    BY <1>9, <2>1, <2>2, DoneTypes, GotoTypes DEF SettleSeen, Labels
<1> QED
  BY <1>1, <1>2, <1>3, <1>4, <1>5, <1>6, <1>7, <1>8, <1>9

LEMMA TypedKept == Parts /\ [Next]_vars => Parts'
<1> SUFFICES ASSUME Parts, [Next]_vars PROVE Parts'
  OBVIOUS
<1> USE DEF Parts
<1>0. Observed \in [Tasks -> Facts]
  BY ObservedTypes
<1>1. ASSUME NEW w \in Workers, WorkerStep(w) PROVE Parts'
  BY <1>1, RecoveryTypes, SpawnTypes, PassTypes DEF WorkerStep
<1>2. ASSUME NEW w \in Workers, HostStep(w) PROVE Parts'
  BY <1>2, HostTypes
<1>3. ASSUME NEW w \in Workers, Abort(w) PROVE Parts'
  BY <1>3, DoneTypes, Untouched DEF Abort, Fault, RestTyped, state, os
<1>4. ASSUME NEW w \in Workers, StartPass(w) PROVE Parts'
  BY <1>4, BecomeTypes, Untouched DEF StartPass, Labels
<1>5. ASSUME NEW w \in Workers, NEW t \in Tasks, StartTask(w, t) PROVE Parts'
  <2>1. WorkTyped'
    BY <1>5, BecomeTypes DEF StartTask, Labels
  <2> QED
    BY <1>5, <2>1, Untouched DEF StartTask, RestTyped, state, host, os
<1>6. ASSUME NEW w \in Workers, NEW t \in Tasks, Inspect(w, t) PROVE Parts'
  <2>1. RestTyped' /\ JobsTyped'
    BY <1>0, <1>6, Untouched DEF Inspect, Persisted, RestTyped, os
  <2> DEFINE r == [Idle EXCEPT !.pc = "settle", !.op = "inspect", !.task = t, !.client = inst]
  <2>2. inst \in Nat
    BY DEF RestTyped
  <2>3. r \in Op /\ HasTask(r)
    BY <2>2, NothingKnown DEF Op, HasTask, Labels
  <2> HIDE DEF r
  <2>4. wk' = [wk EXCEPT ![w] = r] \/ wk' = wk
    BY <1>6 DEF Inspect, r, Idle
  <2>5. WorkTyped'
    BY <2>3, <2>4, OneWorker, Untouched
  <2> QED
    BY <2>1, <2>5
<1>7. ASSUME NEW w \in Workers, NEW t \in Tasks, ReleaseByHand(w, t) PROVE Parts'
  BY <1>7, BecomeTypes, Untouched DEF ReleaseByHand, Labels
<1>8. CASE Persist
  BY <1>0, <1>8, Untouched DEF Persist, Persisted, RestTyped, os
<1>9. CASE HostEnds
  <2>1. RestTyped'
    BY <1>9, NothingKnown DEF HostEnds, RestTyped, state, os
  <2>2. JobsTyped'
    BY <1>9 DEF HostEnds, JobsTyped, NoJob, Request, Steps
  <2>3. WorkTyped'
    BY <1>9, NothingKnown DEF HostEnds, WorkTyped
  <2> QED
    BY <2>1, <2>2, <2>3
<1>10. ASSUME NEW t \in Tasks, ProcessExits(t) PROVE Parts'
  BY <1>10, Untouched DEF ProcessExits, RestTyped, state, host
<1>11. CASE UNCHANGED vars
  BY <1>11, Untouched DEF vars
<1>12. CASE Withdraw
  BY <1>12, Untouched DEF Withdraw, RestTyped, host, os
<1> QED
  BY <1>1, <1>2, <1>3, <1>4, <1>5, <1>6, <1>7, <1>8, <1>9, <1>10, <1>11, <1>12 DEF Next

LEMMA InitTyped == Init => Parts
<1> SUFFICES ASSUME Init PROVE Parts
  OBVIOUS
<1>1. WorkTyped
  BY NothingKnown DEF Init, WorkTyped
<1>2. JobsTyped
  BY DEF Init, JobsTyped, NoJob, Request, Steps
<1>3. RestTyped
  <2>1. NoFacts \in [Tasks -> Facts]
    BY NothingKnown
  <2> QED
    BY <2>1 DEF Init, RestTyped
<1> QED
  BY <1>1, <1>2, <1>3 DEF Parts

\* The files, the host, the journal and the operations keep their types, whatever
\* is asked and whatever fails.
THEOREM HostedTypes == Spec => []TypeOK
<1>1. Parts => TypeOK
  BY TypedParts DEF Typed, Parts
<1> QED
  BY <1>1, InitTyped, TypedKept, PTL DEF Spec

-------------------------------------------------------------------------------
(* Every running process is on record *)

Recovering == {"converge", "archive", "discard", "unready"}
HoldsEntries == {"intend", "launch"}
HoldsIntents == {"launch", "record", "clear", "report"}

\* A worker that recovers holds the lock, and archived what it discards.
Order ==
    \A w \in Workers :
        /\ wk[w].pc \in Recovering => owner = w
        /\ wk[w].pc = "discard" => intents \subseteq unresolved

\* Without a host there is nothing in its memory; with one, its locks exclude.
Hosted ==
    /\ ~Up => entries = {} /\ intended = {} /\ \A w \in Workers : job[w] = NoJob
    /\ \A v, w \in Workers :
          \/ v = w
          \/ /\ job[v].step \in HoldsEntries => job[w].step \notin HoldsEntries
             /\ job[v].step \in HoldsIntents => job[w].step \notin HoldsIntents

\* What keeps the process of a task on record, while no host runs and while one does.
Known(t) ==
    /\ t \in strays => t \in unresolved
    /\ proc[t] = "running" =>
          IF Up THEN IF t \in entries THEN /\ facts[t] # "exited"
                                           /\ tasks[t] = "live" \/ t \in intents \cap intended
                                      ELSE facts[t] = "present" \/ t \in unresolved
                ELSE tasks[t] \in {"live", "present"} \/ t \in intents \cup unresolved
    /\ Up /\ t \notin entries /\ facts[t] = "present" => tasks[t] = "present"

\* What a spawn request has established when it comes to its next step.
Handled(w) ==
    LET t == job[w].task IN
    /\ job[w].step \in HoldsEntries => t \notin entries /\ facts[t] = "none"
    /\ job[w].step \in {"launch", "record"} => t \in intents \cap intended
    /\ job[w].step \in {"record", "clear", "report"} /\ proc[t] = "running" => t \in entries
    /\ job[w].step \in {"clear", "report"} /\ proc[t] = "running" => tasks[t] = "live"

OnRecord == (\A t \in Tasks : Known(t)) /\ (\A w \in Workers : Handled(w))

Kept == Parts /\ Order /\ Hosted /\ OnRecord

LEMMA KeptOnRecord == Kept => ProcessOnRecord
  BY DEF Kept, OnRecord, Known, ProcessOnRecord, Alive, Up

records == <<tasks, intents, unresolved, owner, facts, entries, intended, job, proc, strays>>

\* A step that leaves the records alone, and no worker in another step of a recovery.
LEMMA QuietKept ==
    ASSUME Kept, UNCHANGED records
    PROVE  Hosted' /\ OnRecord'
<1>1. Hosted'
  BY DEF Kept, records, Hosted, Up
<1>2. ASSUME NEW t \in Tasks PROVE Known(t)'
  BY DEF Kept, records, OnRecord, Known, Up
<1>3. ASSUME NEW w \in Workers PROVE Handled(w)'
  BY DEF Kept, records, OnRecord, Handled
<1> QED
  BY <1>1, <1>2, <1>3 DEF OnRecord

SameRecovery == \A w \in Workers : wk'[w].pc \in Recovering => wk'[w].pc = wk[w].pc

LEMMA OrderKept ==
    ASSUME Order, SameRecovery, UNCHANGED owner, Up \/ UNCHANGED <<intents, unresolved>>,
           HostedAssumption
    PROVE  Order'
<1>1. CASE Up
  BY <1>1 DEF Order, SameRecovery, Up, HostedAssumption, Recovering
<1>2. CASE UNCHANGED <<intents, unresolved>>
  BY <1>2 DEF Order, SameRecovery, Recovering
<1> QED
  BY <1>1, <1>2

\* A request that the host works on is a request to a host that runs.
LEMMA AtWork ==
    ASSUME Kept, NEW w \in Workers, job[w].step # "none"
    PROVE  Up /\ job[w].task \in Tasks
  BY DEF Kept, Hosted, NoJob, Parts, JobsTyped

\* The facts written out, and at most the end of some requests.
LEMMA PersistedKept ==
    ASSUME Kept, Up, Persisted,
           UNCHANGED <<intents, unresolved, owner, entries, intended, proc, strays>>,
           \A w \in Workers : job'[w] = job[w] \/ job'[w] = NoJob
    PROVE  Hosted' /\ OnRecord'
<1> USE DEF Kept
<1>1. \A t \in Tasks : facts'[t] = tasks'[t] /\
        tasks'[t] = IF t \in entries THEN IF proc[t] = "running" THEN "live" ELSE "exited"
                                     ELSE facts[t]
  BY DEF Persisted, Observed
<1>2. Hosted'
  BY DEF Hosted, Up, NoJob, HoldsEntries, HoldsIntents
<1>3. ASSUME NEW t \in Tasks PROVE Known(t)'
  BY <1>1 DEF OnRecord, Known, Up
<1>4. ASSUME NEW w \in Workers PROVE Handled(w)'
  <2>1. CASE job'[w] = NoJob
    BY <2>1 DEF Handled, NoJob, HoldsEntries
  <2>2. CASE job'[w] = job[w]
    <3>1. job[w].step \notin HoldsEntries
      BY DEF Persisted, EntriesFree, HoldsEntries
    <3>2. job[w].step # "none" => job[w].task \in Tasks
      BY DEF Parts, JobsTyped
    <3> QED
      BY <1>1, <2>2, <3>1, <3>2 DEF OnRecord, Handled, HoldsEntries
  <2> QED
    BY <2>1, <2>2
<1> QED
  BY <1>2, <1>3, <1>4 DEF OnRecord

\* A request that ends takes nothing off the records.
LEMMA ReleasedKept ==
    ASSUME Kept, Up, NEW w \in Workers, job' = [job EXCEPT ![w] = NoJob],
           UNCHANGED <<tasks, intents, unresolved, owner, facts, entries, intended, proc, strays>>
    PROVE  Hosted' /\ OnRecord'
<1>1. job'[w] = NoJob /\ \A v \in Workers : v # w => job'[v] = job[v]
  BY DEF Kept, Parts, JobsTyped
<1>2. Hosted'
  BY <1>1 DEF Kept, Hosted, Up, NoJob, HoldsEntries, HoldsIntents
<1>3. ASSUME NEW t \in Tasks PROVE Known(t)'
  BY DEF Kept, OnRecord, Known, Up
<1>4. ASSUME NEW v \in Workers PROVE Handled(v)'
  BY <1>1 DEF Kept, OnRecord, Handled, NoJob, HoldsEntries
<1> QED
  BY <1>2, <1>3, <1>4 DEF OnRecord

LEMMA HostOrder == ASSUME Kept, HostedAssumption, NEW w \in Workers, HostStep(w) PROVE Order'
<1> USE DEF Kept
<1>1. Up
  BY AtWork DEF HostStep, Admit, Intend, Launch, Record, Clear, Report
<1>2. ASSUME NEW label, Reply(w, label) PROVE SameRecovery
  BY <1>2 DEF Reply, SameRecovery, Idle, Recovering, Parts, WorkTyped, Op
<1>3. UNCHANGED wk => SameRecovery
  BY DEF SameRecovery
<1>4. SameRecovery /\ UNCHANGED owner
  BY <1>2, <1>3 DEF HostStep, Admit, Intend, Launch, Record, Clear, Report
<1> QED
  BY <1>1, <1>4, OrderKept

\* A fact is dropped only of a process that is over: one the host started itself,
\* or one that an earlier host left and that is archived as unresolved.
LEMMA AdmitKept == ASSUME Kept, NEW w \in Workers, Admit(w) PROVE Hosted' /\ OnRecord'
<1> USE DEF Kept
<1> DEFINE t == job[w].task
<1>0. Up /\ t \in Tasks
  BY AtWork DEF Admit
<1>1. CASE Persisted /\ Reply(w, "task") /\ UNCHANGED <<entries, acked>>
  <2>1. \A v \in Workers : job'[v] = job[v] \/ job'[v] = NoJob
    BY <1>1 DEF Reply, Parts, JobsTyped
  <2> QED
    BY <1>0, <1>1, <2>1, PersistedKept DEF Admit, os
<1>2. CASE Reply(w, "rejected") /\ UNCHANGED <<tasks, facts, entries, acked>>
  <2>1. job' = [job EXCEPT ![w] = NoJob]
    BY <1>2 DEF Reply
  <2>2. UNCHANGED <<tasks, intents, unresolved, owner, facts, entries, intended, proc, strays>>
    BY <1>2 DEF Admit, os
  <2> QED
    BY <2>1, <2>2, <1>0, ReleasedKept
<1>3. CASE /\ t \notin entries /\ facts[t] = "none"
           /\ \/ ~Full /\ UNCHANGED <<facts, entries, acked>>
              \/ /\ Full
                 /\ \E u \in Evictable :
                      /\ facts' = [facts EXCEPT ![u] = "none"]
                      /\ entries' = entries \ {u} /\ acked' = acked \ {u}
           /\ Step(w, "intend") /\ UNCHANGED <<tasks, wk>>
  <2>0. UNCHANGED <<tasks, intents, unresolved, owner, intended, proc, strays>> /\ EntriesFree
    BY <1>3 DEF Admit, os
  <2>1. PICK U \in SUBSET Tasks :
          /\ \A u \in U : facts[u] = "exited"
          /\ \A u \in Tasks : facts'[u] = IF u \in U THEN "none" ELSE facts[u]
          /\ entries' = entries \ U
    <3>1. CASE UNCHANGED <<facts, entries>>
      <4> WITNESS {} \in SUBSET Tasks
      <4> QED
        BY <3>1
    <3>2. CASE \E u \in Evictable : facts' = [facts EXCEPT ![u] = "none"] /\ entries' = entries \ {u}
      <4>1. PICK u \in Evictable : facts' = [facts EXCEPT ![u] = "none"] /\ entries' = entries \ {u}
        BY <3>2
      <4>2. u \in Tasks /\ facts[u] = "exited"
        BY DEF Evictable, Parts, RestTyped
      <4> USE <4>2
      <4> WITNESS {u} \in SUBSET Tasks
      <4> QED
        BY <4>1, <4>2 DEF Parts, RestTyped
    <3> QED
      BY <1>3, <3>1, <3>2
  <2>2. job' = [job EXCEPT ![w] = [job[w] EXCEPT !.step = "intend"]]
    BY <1>3 DEF Step
  <2>3. job'[w].step = "intend" /\ job'[w].task = t /\ \A v \in Workers : v # w => job'[v] = job[v]
    BY <2>2 DEF Parts, JobsTyped, Request
  <2>4. Hosted'
    BY <1>0, <2>0, <2>3 DEF Hosted, Up, EntriesFree, HoldsEntries, HoldsIntents
  <2>5. ASSUME NEW u \in Tasks PROVE Known(u)'
    BY <1>0, <2>0, <2>1 DEF OnRecord, Known, Up
  <2>6. Handled(w)'
    BY <1>0, <1>3, <2>1, <2>3 DEF Handled, HoldsEntries
  <2>7. ASSUME NEW v \in Workers, v # w PROVE Handled(v)'
    <3>1. job[v].step \notin HoldsEntries
      BY <2>0 DEF EntriesFree, HoldsEntries
    <3>2. job[v].step # "none" => job[v].task \in Tasks
      BY DEF Parts, JobsTyped
    <3>3. \A u \in Tasks : u \in entries /\ proc[u] = "running" => u \in entries'
      BY <1>0, <2>1 DEF OnRecord, Known
    <3> QED
      BY <2>0, <2>3, <2>7, <3>1, <3>2, <3>3 DEF OnRecord, Handled, HoldsEntries
  <2> QED
    BY <2>4, <2>5, <2>6, <2>7 DEF OnRecord
<1> QED
  BY <1>1, <1>2, <1>3 DEF Admit

\* One request in its next step, or at its end.
Moves(w, label) == job' = [job EXCEPT ![w].step = label] \/ job' = [job EXCEPT ![w] = NoJob]

LEMMA Advance ==
    ASSUME Kept, NEW w \in Workers, NEW label \in Steps, Moves(w, label)
    PROVE  /\ \/ job'[w] = NoJob
              \/ job'[w].step = label /\ job'[w].task = job[w].task
           /\ \A v \in Workers : v # w => job'[v] = job[v]
  BY DEF Moves, Kept, Parts, JobsTyped, Request

LEMMA IntendKept == ASSUME Kept, NEW w \in Workers, Intend(w) PROVE Hosted' /\ OnRecord'
<1> USE DEF Kept
<1> DEFINE t == job[w].task
<1>1. Up /\ t \in Tasks /\ job[w].step = "intend" /\ IntentsFree
  BY AtWork DEF Intend
<1>2. /\ UNCHANGED <<tasks, unresolved, owner, facts, entries, proc, strays>>
      /\ intended' = intended \cup {t} /\ intents' \in {intents, intended'}
  BY <1>1 DEF Intend, os
<1>3. /\ job'[w] = NoJob \/ (job'[w].step = "launch" /\ job'[w].task = t /\ intents' = intended')
      /\ \A v \in Workers : v # w => job'[v] = job[v]
  BY <1>1, Advance DEF Intend, Step, Reply, Moves, Steps, NoJob
<1>4. Hosted'
  <2>1. \A v \in Workers : v # w => job[v].step \notin HoldsEntries \cup HoldsIntents
    BY <1>1 DEF Hosted, IntentsFree, HoldsEntries, HoldsIntents
  <2> QED
    BY <1>1, <1>2, <1>3, <2>1 DEF Hosted, Up, HoldsEntries, HoldsIntents, NoJob
<1>5. ASSUME NEW u \in Tasks PROVE Known(u)'
  BY <1>1, <1>2 DEF OnRecord, Known, Up
<1>6. Handled(w)'
  BY <1>1, <1>2, <1>3 DEF OnRecord, Handled, NoJob, HoldsEntries
<1>7. ASSUME NEW v \in Workers, v # w PROVE Handled(v)'
  BY <1>1, <1>2, <1>3, <1>7 DEF OnRecord, Handled, IntentsFree, HoldsEntries
<1> QED
  BY <1>4, <1>5, <1>6, <1>7 DEF OnRecord

\* The one step that starts a process: the intent is on disk, and whatever ran
\* under the same id is archived.
LEMMA LaunchKept == ASSUME Kept, NEW w \in Workers, Launch(w) PROVE Hosted' /\ OnRecord'
<1> USE DEF Kept
<1>0. PICK t \in Tasks : t = job[w].task
  BY AtWork DEF Launch
<1>1. Up /\ job[w].step = "launch"
  BY AtWork DEF Launch
<1>2. t \notin entries /\ facts[t] = "none" /\ t \in intents \cap intended
  BY <1>0, <1>1 DEF OnRecord, Handled, HoldsEntries
<1>3. UNCHANGED <<tasks, unresolved, owner, facts>>
  BY DEF Launch
<1>4. \A v \in Workers : v # w => job[v].step \notin HoldsEntries \cup HoldsIntents
  BY <1>1 DEF Hosted, HoldsEntries, HoldsIntents
<1>5. CASE /\ proc' = [proc EXCEPT ![t] = "running"]
           /\ strays' = IF proc[t] = "running" THEN strays \cup {t} ELSE strays
           /\ entries' = entries \cup {t}
           /\ Step(w, "record") /\ UNCHANGED <<intents, intended>>
  <2>1. /\ job'[w] = NoJob \/ (job'[w].step = "record" /\ job'[w].task = t)
        /\ \A v \in Workers : v # w => job'[v] = job[v]
    BY <1>0, <1>5, Advance DEF Step, Moves, Steps
  <2>2. Hosted'
    BY <1>1, <1>3, <1>4, <1>5, <2>1 DEF Hosted, Up, HoldsEntries, HoldsIntents, NoJob
  <2>3. proc'[t] = "running" /\ \A u \in Tasks : u # t => proc'[u] = proc[u]
    BY <1>1, <1>5 DEF Parts, RestTyped
  <2>4. Known(t)'
    BY <1>1, <1>2, <1>3, <1>5, <2>3 DEF OnRecord, Known, Up
  <2>5. ASSUME NEW u \in Tasks, u # t PROVE Known(u)'
    BY <1>1, <1>3, <1>5, <2>3, <2>5 DEF OnRecord, Known, Up
  <2>6. Handled(w)'
    BY <1>1, <1>2, <1>5, <2>1 DEF Handled, NoJob, HoldsEntries
  <2>7. ASSUME NEW v \in Workers, v # w PROVE Handled(v)'
    BY <1>4, <2>1, <2>7 DEF Handled, HoldsEntries, HoldsIntents
  <2> QED
    BY <2>2, <2>4, <2>5, <2>6, <2>7 DEF OnRecord
<1>6. CASE /\ intended' = intended \ {t} /\ intents' \in {intents, intended'}
           /\ \E label \in {"rejected", "unknown"} : Reply(w, label)
           /\ UNCHANGED <<entries, proc, strays>>
  <2>1. job'[w] = NoJob /\ \A v \in Workers : v # w => job'[v] = job[v]
    BY <1>6 DEF Reply, Parts, JobsTyped
  <2>2. Hosted'
    BY <1>1, <1>3, <1>6, <2>1 DEF Hosted, Up, HoldsEntries, HoldsIntents, NoJob
  <2>3. ASSUME NEW u \in Tasks PROVE Known(u)'
    BY <1>1, <1>2, <1>3, <1>6 DEF OnRecord, Known, Up
  <2>4. Handled(w)'
    BY <2>1 DEF Handled, NoJob, HoldsEntries
  <2>5. ASSUME NEW v \in Workers, v # w PROVE Handled(v)'
    BY <1>4, <2>1, <2>5 DEF Handled, HoldsEntries, HoldsIntents
  <2> QED
    BY <2>2, <2>3, <2>4, <2>5 DEF OnRecord
<1> QED
  BY <1>0, <1>5, <1>6 DEF Launch, os

\* From here on the fact of the process is on disk, or its intent stays.
LEMMA RecordKept == ASSUME Kept, NEW w \in Workers, Record(w) PROVE Hosted' /\ OnRecord'
<1> USE DEF Kept
<1> DEFINE t == job[w].task
<1>1. Up /\ t \in Tasks /\ job[w].step = "record" /\ EntriesFree
  BY AtWork DEF Record, Persisted
<1>2. /\ UNCHANGED <<intents, unresolved, owner, entries, intended, proc, strays>>
      /\ facts' = Observed /\ tasks' \in {tasks, Observed}
  BY DEF Record, Persisted, os
<1>3. \A u \in Tasks : /\ u \in entries => facts'[u] \in {"live", "exited"}
                       /\ u \in entries /\ proc[u] = "running" => facts'[u] = "live"
                       /\ u \notin entries => facts'[u] = facts[u]
  BY <1>2 DEF Observed
<1>4. /\ job'[w] = NoJob \/ (job'[w].step = "clear" /\ job'[w].task = t /\ tasks' = facts')
      /\ \A v \in Workers : v # w => job'[v] = job[v]
  BY <1>1, Advance DEF Record, Persisted, Step, Reply, Moves, Steps, NoJob
<1>5. Hosted'
  BY <1>1, <1>2, <1>4 DEF Hosted, Up, HoldsEntries, HoldsIntents, NoJob
<1>6. ASSUME NEW u \in Tasks PROVE Known(u)'
  BY <1>1, <1>2, <1>3 DEF OnRecord, Known, Up
<1>7. Handled(w)'
  BY <1>1, <1>2, <1>3, <1>4 DEF OnRecord, Handled, NoJob, HoldsEntries
<1>8. ASSUME NEW v \in Workers, v # w PROVE Handled(v)'
  <2>1. job[v].step \notin HoldsEntries \cup HoldsIntents
    BY <1>1, <1>8 DEF Hosted, HoldsIntents, HoldsEntries, EntriesFree
  <2> QED
    BY <1>4, <1>8, <2>1 DEF Handled, HoldsEntries, HoldsIntents
<1> QED
  BY <1>5, <1>6, <1>7, <1>8 DEF OnRecord

\* An intent is cleared only when the fact of its process is on disk.
LEMMA ClearKept == ASSUME Kept, NEW w \in Workers, Clear(w) PROVE Hosted' /\ OnRecord'
<1> USE DEF Kept
<1> DEFINE t == job[w].task
<1>1. Up /\ t \in Tasks /\ job[w].step = "clear"
  BY AtWork DEF Clear
<1>2. /\ UNCHANGED <<tasks, unresolved, owner, facts, entries, proc, strays>>
      /\ intended' = intended \ {t} /\ intents' \in {intents, intended'}
  BY DEF Clear, os
<1>3. /\ job'[w] = NoJob \/ (job'[w].step = "report" /\ job'[w].task = t)
      /\ \A v \in Workers : v # w => job'[v] = job[v]
  BY <1>1, Advance DEF Clear, Step, Reply, Moves, Steps, NoJob
<1>4. Hosted'
  BY <1>1, <1>2, <1>3 DEF Hosted, Up, HoldsEntries, HoldsIntents, NoJob
<1>5. proc[t] = "running" => t \in entries /\ tasks[t] = "live"
  BY <1>1 DEF OnRecord, Handled
<1>6. ASSUME NEW u \in Tasks PROVE Known(u)'
  BY <1>1, <1>2, <1>5 DEF OnRecord, Known, Up
<1>7. Handled(w)'
  BY <1>1, <1>2, <1>3, <1>5 DEF Handled, NoJob, HoldsEntries
<1>8. ASSUME NEW v \in Workers, v # w PROVE Handled(v)'
  <2>1. job[v].step \notin HoldsIntents
    BY <1>1, <1>8 DEF Hosted, HoldsIntents
  <2> QED
    BY <1>2, <1>3, <1>8, <2>1 DEF OnRecord, Handled, HoldsEntries, HoldsIntents
<1> QED
  BY <1>4, <1>6, <1>7, <1>8 DEF OnRecord

LEMMA ReportKept == ASSUME Kept, NEW w \in Workers, Report(w) PROVE Hosted' /\ OnRecord'
<1>1. Up
  BY AtWork DEF Report
<1>2. \A v \in Workers : job'[v] = job[v] \/ job'[v] = NoJob
  BY DEF Report, Reply, Kept, Parts, JobsTyped
<1> QED
  BY <1>1, <1>2, PersistedKept DEF Report, os

\* While no host runs, the records of what still runs outlive their recovery.
LEMMA DownKept ==
    ASSUME Kept, ~Up, owner' # "host", UNCHANGED <<facts, entries, intended, job, proc, strays>>,
           unresolved \subseteq unresolved',
           \A t \in Tasks : /\ proc[t] = "running" /\ tasks[t] \in {"live", "present"}
                                 => tasks'[t] \in {"live", "present"}
                            /\ t \in intents => t \in intents' \cup unresolved'
    PROVE  Hosted' /\ OnRecord'
<1> USE DEF Kept
<1>1. ~Up'
  BY DEF Up
<1>2. Hosted'
  BY <1>1 DEF Hosted, NoJob, HoldsEntries, HoldsIntents
<1>3. ASSUME NEW t \in Tasks PROVE Known(t)'
  BY <1>1 DEF OnRecord, Known
<1>4. ASSUME NEW w \in Workers PROVE Handled(w)'
  BY <1>1 DEF Hosted, Handled, NoJob, HoldsEntries
<1> QED
  BY <1>2, <1>3, <1>4 DEF OnRecord

\* A step of one worker from the lock to its release.
LEMMA RecoveryKept ==
    ASSUME Kept, HostedAssumption, NEW w \in Workers,
           Converge(w) \/ Archive(w) \/ Discard(w) \/ Unready(w)
    PROVE  Order' /\ Hosted' /\ OnRecord'
<1> USE DEF Kept
<1>1. owner = w /\ ~Up /\ w # "host"
  BY DEF Order, Up, Recovering, HostedAssumption, Converge, Archive, Discard, Unready
<1>2. \A v \in Workers : v # w => wk[v].pc \notin Recovering /\ wk'[v] = wk[v]
  BY <1>1 DEF Order, Converge, Archive, Discard, Unready, Goto, AfterRecovery, Parts, WorkTyped
<1>3. wk'[w].pc \notin Recovering \/ owner' = owner
  BY DEF Converge, Archive, Discard, Unready, AfterRecovery, Recovering, Parts, WorkTyped, Op, host
<1>4. wk'[w].pc = "discard" => intents' \subseteq unresolved'
  BY DEF Converge, Archive, Discard, Unready, Goto, AfterRecovery, Parts, WorkTyped, Op
<1>5. Order'
  BY <1>1, <1>2, <1>3, <1>4 DEF Order, Recovering
<1>6. UNCHANGED <<facts, entries, intended, job, proc, strays>> /\ owner' # "host"
  BY <1>1 DEF Converge, Archive, Discard, Unready, host, os
<1>7. CASE Converge(w)
  BY <1>1, <1>5, <1>6, <1>7, DownKept DEF Converge
<1>8. CASE Archive(w)
  BY <1>1, <1>5, <1>6, <1>8, DownKept DEF Archive
<1>9. CASE Discard(w)
  <2>1. intents \subseteq unresolved
    BY <1>9 DEF Discard, Order
  <2> QED
    BY <1>1, <1>5, <1>6, <1>9, <2>1, DownKept DEF Discard
<1>10. CASE Unready(w)
  BY <1>1, <1>5, <1>6, <1>10, DownKept DEF Unready
<1> QED
  BY <1>7, <1>8, <1>9, <1>10

\* Where a worker goes on outside of a recovery.
LEMMA NoRecovery ==
    ASSUME WorkTyped, NEW w \in Workers
    PROVE  /\ Done(w) => SameRecovery
           /\ \A h : Attach(w, h) => SameRecovery
           /\ AfterRecovery(w) => SameRecovery
           /\ \A label : Goto(w, label) /\ label \notin Recovering => SameRecovery
           /\ \A t : Drop(w, t) => SameRecovery
           /\ \A label, o, t : Become(w, label, o, t) /\ label \notin Recovering => SameRecovery
           /\ UNCHANGED wk => SameRecovery
<1>1. Done(w) => SameRecovery
  BY DEF SameRecovery, Done, Idle, Recovering, WorkTyped
<1>2. \A h : Attach(w, h) => SameRecovery
  BY DEF SameRecovery, Attach, Recovering, WorkTyped, Op
<1>3. AfterRecovery(w) => SameRecovery
  BY DEF SameRecovery, AfterRecovery, Recovering, WorkTyped, Op
<1>4. \A label : Goto(w, label) /\ label \notin Recovering => SameRecovery
  BY DEF SameRecovery, Goto, WorkTyped, Op
<1>5. \A t : Drop(w, t) => SameRecovery
  BY DEF SameRecovery, Drop, WorkTyped, Op
<1>6. \A label, o, t : Become(w, label, o, t) /\ label \notin Recovering => SameRecovery
  BY DEF SameRecovery, Become, Idle, WorkTyped, Op
<1>7. UNCHANGED wk => SameRecovery
  BY DEF SameRecovery
<1> QED
  BY <1>1, <1>2, <1>3, <1>4, <1>5, <1>6, <1>7

\* The lock that a worker takes when it finds no host and something left.
LEMMA ConnectKept ==
    ASSUME Kept, HostedAssumption, NEW w \in Workers, Connect(w)
    PROVE  Order' /\ Hosted' /\ OnRecord'
<1> USE DEF Kept
<1>1. CASE /\ ~Up /\ owner = "nobody" /\ owner' = w /\ Goto(w, "converge")
           /\ UNCHANGED <<state, facts, entries, intended, job, proc, strays>>
  <2>1. owner' # "host"
    BY <1>1 DEF HostedAssumption
  <2>2. Hosted' /\ OnRecord'
    BY <1>1, <2>1, DownKept DEF state
  <2>3. \A v \in Workers : wk[v].pc \notin Recovering
    BY <1>1 DEF Order, HostedAssumption
  <2>4. wk'[w].pc = "converge" /\ \A v \in Workers : v # w => wk'[v] = wk[v]
    BY <1>1 DEF Goto, Parts, WorkTyped, Op
  <2>5. Order'
    BY <1>1, <2>3, <2>4 DEF Order, Recovering
  <2> QED
    BY <2>2, <2>5
<1>2. CASE UNCHANGED owner /\ (Done(w) \/ Attach(w, inst) \/ AfterRecovery(w))
  <2>1. UNCHANGED records
    BY <1>2 DEF Connect, records, state, os
  <2>2. SameRecovery
    BY <1>2, NoRecovery DEF Parts
  <2>3. Order'
    BY <2>1, <2>2, OrderKept DEF records
  <2> QED
    BY <2>1, <2>3, QuietKept
<1> QED
  BY <1>1, <1>2 DEF Connect, os, Up

\* A host starts from records without a live fact or an intent.
LEMMA StartKept ==
    ASSUME Kept, HostedAssumption, NEW w \in Workers, StartHost(w)
    PROVE  Order' /\ Hosted' /\ OnRecord'
<1> USE DEF Kept
<1>3. UNCHANGED <<tasks, intents, unresolved, job, proc, strays, entries, intended>> /\ SameRecovery
  BY NoRecovery DEF StartHost, host, os, Parts
<1>4. CASE UNCHANGED host
  BY <1>3, <1>4, QuietKept, OrderKept DEF records, host
<1>5. CASE owner = "nobody" /\ ~LeftOver /\ owner' = "host" /\ facts' = tasks
  <2>1. ~Up /\ Up'
    BY <1>5 DEF Up
  <2>2. \A v \in Workers : wk[v].pc \notin Recovering
    BY <1>5 DEF Order, HostedAssumption
  <2>3. Order'
    BY <1>3, <2>2 DEF Order, SameRecovery, Recovering
  <2>4. Hosted'
    BY <1>3, <2>1 DEF Hosted, NoJob, HoldsEntries, HoldsIntents
  <2>5. ASSUME NEW t \in Tasks PROVE Known(t)'
    <3>1. tasks[t] # "live" /\ t \notin intents
      BY <1>5 DEF LeftOver
    <3>2. t \notin entries
      BY <2>1 DEF Hosted
    <3> QED
      BY <1>3, <1>5, <2>1, <3>1, <3>2 DEF OnRecord, Known
  <2>6. ASSUME NEW v \in Workers PROVE Handled(v)'
    BY <1>3, <2>1 DEF Hosted, Handled, NoJob, HoldsEntries
  <2> QED
    BY <2>3, <2>4, <2>5, <2>6 DEF OnRecord
<1> QED
  BY <1>4, <1>5 DEF StartHost

\* A worker that dies, recovering or not.
LEMMA AbortKept ==
    ASSUME Kept, HostedAssumption, NEW w \in Workers, Abort(w)
    PROVE  Order' /\ Hosted' /\ OnRecord'
<1> USE DEF Kept
<1>1. /\ wk'[w] = Idle /\ \A v \in Workers : v # w => wk'[v] = wk[v]
      /\ UNCHANGED <<tasks, intents, unresolved, facts, entries, intended, job, proc, strays>>
      /\ owner' = IF owner = w THEN "nobody" ELSE owner
  BY DEF Abort, Done, Parts, WorkTyped, state, os
<1>2. Order'
  BY <1>1 DEF Order, Idle, Recovering
<1>3. CASE owner = w
  <2>1. ~Up /\ owner' # "host"
    BY <1>1, <1>3 DEF Up, HostedAssumption
  <2> QED
    BY <1>1, <1>2, <2>1, DownKept
<1>4. CASE owner # w
  BY <1>1, <1>2, <1>4, QuietKept DEF records
<1> QED
  BY <1>3, <1>4

\* What a host knew and did not write, an intent or an archived one says.
LEMMA EndKept ==
    ASSUME Kept, HostedAssumption, HostEnds
    PROVE  Order' /\ Hosted' /\ OnRecord'
<1> USE DEF Kept
<1>1. Up /\ owner' = "nobody" /\ ~Up'
  BY DEF HostEnds, Up
<1>2. /\ UNCHANGED <<tasks, intents, unresolved, proc, strays>>
      /\ entries' = {} /\ intended' = {} /\ \A w \in Workers : job'[w] = NoJob
  BY DEF HostEnds, state, os
<1>3. \A w \in Workers : wk[w].pc \notin Recovering
  BY <1>1 DEF Order, Up, HostedAssumption
<1>4. \A w \in Workers : wk'[w].pc \notin Recovering
  BY <1>3 DEF HostEnds, Idle, Recovering
<1>5. Order'
  BY <1>4 DEF Order, Recovering
<1>6. Hosted'
  BY <1>1, <1>2 DEF Hosted, NoJob, HoldsEntries, HoldsIntents
<1>7. ASSUME NEW t \in Tasks PROVE Known(t)'
  BY <1>1, <1>2 DEF OnRecord, Known
<1>8. ASSUME NEW w \in Workers PROVE Handled(w)'
  BY <1>2 DEF Handled, NoJob, HoldsEntries
<1> QED
  BY <1>5, <1>6, <1>7, <1>8 DEF OnRecord

LEMMA ExitKept == ASSUME Kept, NEW t \in Tasks, ProcessExits(t) PROVE Order' /\ Hosted' /\ OnRecord'
<1> USE DEF Kept
<1>1. /\ UNCHANGED <<tasks, intents, unresolved, owner, facts, entries, intended, job, wk>>
      /\ strays' \subseteq strays
      /\ \A u \in Tasks : proc'[u] = "running" => proc[u] = "running"
  BY DEF ProcessExits, state, host, Parts, RestTyped
<1>2. Order' /\ Hosted'
  BY <1>1 DEF Order, Hosted, Up
<1>3. ASSUME NEW u \in Tasks PROVE Known(u)'
  BY <1>1 DEF OnRecord, Known, Up
<1>4. ASSUME NEW w \in Workers PROVE Handled(w)'
  <2>1. job[w].step # "none" => job[w].task \in Tasks
    BY DEF Parts, JobsTyped
  <2> QED
    BY <1>1, <2>1 DEF OnRecord, Handled, HoldsEntries
<1> QED
  BY <1>2, <1>3, <1>4 DEF OnRecord

\* The steps that read the records and write the journal.
LEMMA ReadingKept ==
    ASSUME Kept, HostedAssumption, NEW w \in Workers,
           \/ Prepare(w) \/ Abandon(w) \/ Review(w) \/ Acknowledge(w) \/ Pending(w)
           \/ ReadTasks(w) \/ ReadIntents(w) \/ ReadUnresolved(w) \/ Judge(w) \/ SettleSeen(w)
           \/ StartPass(w) \/ \E t \in Tasks : StartTask(w, t) \/ ReleaseByHand(w, t)
    PROVE  Order' /\ Hosted' /\ OnRecord'
<1> USE DEF Kept, Parts
<1>1. UNCHANGED records
  BY DEF Prepare, Abandon, Review, Acknowledge, Pending, ReadTasks, ReadIntents, ReadUnresolved,
         Judge, SettleSeen, StartPass, StartTask, ReleaseByHand, records, state, host, os
<1>2. SameRecovery
  <2>1. CASE Prepare(w) \/ Abandon(w) \/ SettleSeen(w) \/ StartPass(w)
             \/ \E t \in Tasks : StartTask(w, t) \/ ReleaseByHand(w, t)
    BY <2>1, NoRecovery DEF Prepare, Abandon, SettleSeen, StartPass, StartTask, ReleaseByHand,
                            Recovering
  <2>2. CASE Acknowledge(w) \/ Judge(w)
    BY <2>2, NoRecovery DEF Acknowledge, Judge, Recovering
  <2>3. CASE Review(w)
    <3>1. \A t : wk' = [wk EXCEPT ![w].pc = "ack", ![w].task = t, ![w].pend = @ \ {t}] => SameRecovery
      BY DEF SameRecovery, Recovering, WorkTyped, Op
    <3> QED
      BY <2>3, <3>1, NoRecovery DEF Review
  <2>4. CASE Pending(w)
    <3>1. \A p : wk' = [wk EXCEPT ![w].pend = p, ![w].pc = "read_tasks"] => SameRecovery
      BY DEF SameRecovery, Recovering, WorkTyped, Op
    <3> QED
      BY <2>4, <3>1, NoRecovery DEF Pending
  <2>5. CASE ReadTasks(w) \/ ReadIntents(w)
    BY <2>5 DEF ReadTasks, ReadIntents, SameRecovery, Recovering, WorkTyped, Op
  <2>6. CASE ReadUnresolved(w)
    <3>1. \A h : wk' = [wk EXCEPT ![w].hinted = @ \cup h, ![w].pc = "judge"] => SameRecovery
      BY DEF SameRecovery, Recovering, WorkTyped, Op
    <3> QED
      BY <2>6, <3>1, NoRecovery DEF ReadUnresolved, Recovering
  <2> QED
    BY <2>1, <2>2, <2>3, <2>4, <2>5, <2>6
<1> QED
  BY <1>1, <1>2, OrderKept, QuietKept DEF records

LEMMA SendKept ==
    ASSUME Kept, HostedAssumption, NEW w \in Workers, Send(w)
    PROVE  Order' /\ Hosted' /\ OnRecord'
<1> USE DEF Kept, Parts
<1>1. UNCHANGED <<tasks, intents, unresolved, owner, facts, entries, intended, proc, strays>>
  BY DEF Send, state, host, os
<1>2. Order'
  BY <1>1, NoRecovery, OrderKept DEF Send, Recovering
<1>3. CASE Connected(w) /\ job' = [job EXCEPT ![w] = [task |-> wk[w].task, step |-> "queued"]]
  <2>1. Up /\ job'[w].step = "queued" /\ \A v \in Workers : v # w => job'[v] = job[v]
    BY <1>3 DEF Connected, Serving, JobsTyped
  <2>2. Hosted'
    BY <1>1, <2>1 DEF Hosted, Up, HoldsEntries, HoldsIntents
  <2>3. ASSUME NEW t \in Tasks PROVE Known(t)'
    BY <1>1, <2>1 DEF OnRecord, Known, Up
  <2>4. ASSUME NEW v \in Workers PROVE Handled(v)'
    BY <1>1, <2>1 DEF OnRecord, Handled, HoldsEntries
  <2> QED
    BY <1>2, <2>2, <2>3, <2>4 DEF OnRecord
<1>4. CASE UNCHANGED job
  BY <1>1, <1>2, <1>4, QuietKept DEF records
<1> QED
  BY <1>3, <1>4 DEF Send

\* The lists, which bring the facts up to date.
LEMMA ListingKept ==
    ASSUME Kept, HostedAssumption, NEW w \in Workers,
           ListTerminal(w) \/ ListTasks(w) \/ \E t \in Tasks : Inspect(w, t)
    PROVE  Order' /\ Hosted' /\ OnRecord'
<1> USE DEF Kept, Parts
<1>1. UNCHANGED <<intents, unresolved, owner, entries, intended, job, proc, strays>>
  BY DEF ListTerminal, ListTasks, Inspect, os
<1>2. SameRecovery
  <2>1. CASE ListTerminal(w)
    <3>1. \A k : wk' = [wk EXCEPT ![w].known = k, ![w].pc = "prepare"] => SameRecovery
      BY DEF SameRecovery, Recovering, WorkTyped, Op
    <3> QED
      BY <2>1, <3>1, NoRecovery DEF ListTerminal
  <2>2. CASE ListTasks(w)
    <3>1. \A f, p : wk' = [wk EXCEPT ![w].pc = "review", ![w].seen = f, ![w].pend = p]
                      => SameRecovery
      BY DEF SameRecovery, Recovering, WorkTyped, Op
    <3> QED
      BY <2>2, <3>1, NoRecovery DEF ListTasks
  <2>3. CASE \E t \in Tasks : Inspect(w, t)
    <3>1. \A t, h : wk' = [wk EXCEPT ![w] = [Idle EXCEPT !.pc = "settle", !.op = "inspect",
                                                        !.task = t, !.client = h]]
                      => SameRecovery
      BY DEF SameRecovery, Recovering, WorkTyped, Idle
    <3> QED
      BY <2>3, <3>1, NoRecovery DEF Inspect
  <2> QED
    BY <2>1, <2>2, <2>3
<1>3. Order'
  BY <1>1, <1>2, OrderKept
<1>4. CASE Up /\ Persisted
  BY <1>1, <1>3, <1>4, PersistedKept
<1>5. CASE UNCHANGED <<tasks, facts>>
  BY <1>1, <1>3, <1>5, QuietKept DEF records
<1> QED
  BY <1>4, <1>5 DEF ListTerminal, ListTasks, Inspect, Connected, Serving

LEMMA PersistKept == ASSUME Kept, HostedAssumption, Persist PROVE Order' /\ Hosted' /\ OnRecord'
<1>1. Hosted' /\ OnRecord'
  BY PersistedKept DEF Persist, os
<1>2. Order'
  BY DEF Persist, Kept, Order
<1> QED
  BY <1>1, <1>2

LEMMA KeptKept == HostedAssumption /\ Kept /\ [Next]_vars => Kept'
<1> SUFFICES ASSUME HostedAssumption, Kept, [Next]_vars PROVE Order' /\ Hosted' /\ OnRecord'
  BY TypedKept DEF Kept
<1>1. ASSUME NEW w \in Workers, WorkerStep(w) PROVE Order' /\ Hosted' /\ OnRecord'
  BY <1>1, ConnectKept, RecoveryKept, StartKept, ListingKept, SendKept, ReadingKept DEF WorkerStep
<1>2. ASSUME NEW w \in Workers, HostStep(w) PROVE Order' /\ Hosted' /\ OnRecord'
  BY <1>2, HostOrder, AdmitKept, IntendKept, LaunchKept, RecordKept, ClearKept, ReportKept
     DEF HostStep
<1>3. ASSUME NEW w \in Workers, Abort(w) \/ StartPass(w) PROVE Order' /\ Hosted' /\ OnRecord'
  BY <1>3, AbortKept, ReadingKept
<1>4. ASSUME NEW w \in Workers, NEW t \in Tasks,
             StartTask(w, t) \/ Inspect(w, t) \/ ReleaseByHand(w, t)
      PROVE  Order' /\ Hosted' /\ OnRecord'
  BY <1>4, ReadingKept, ListingKept
<1>5. CASE Withdraw \/ UNCHANGED vars
  <2>1. UNCHANGED records /\ UNCHANGED wk
    BY <1>5 DEF Withdraw, vars, records, state, host, os
  <2>2. Order'
    BY <2>1 DEF records, Kept, Order
  <2> QED
    BY <2>1, <2>2, QuietKept
<1> QED
  BY <1>1, <1>2, <1>3, <1>4, <1>5, PersistKept, EndKept, ExitKept DEF Next

LEMMA InitKept == Init => Kept
<1> SUFFICES ASSUME Init PROVE Order /\ Hosted /\ OnRecord
  BY InitTyped DEF Kept
<1>1. Order
  BY DEF Init, Order, Idle, Recovering
<1>2. Hosted
  BY DEF Init, Hosted, NoJob, HoldsEntries, HoldsIntents
<1>3. \A t \in Tasks : Known(t)
  BY DEF Init, Known, Up
<1>4. \A w \in Workers : Handled(w)
  BY DEF Init, Handled, NoJob, HoldsEntries
<1> QED
  BY <1>1, <1>2, <1>3, <1>4 DEF OnRecord

\* A process that runs is on record, as a fact that does not call it over or as
\* an intent, whatever dies, wherever, and however many hosts and requests there are.
THEOREM NothingUntracked == Spec => []ProcessOnRecord
<1>1. Init => Kept
  BY InitKept
<1>2. Kept /\ [Next]_vars => Kept'
  BY KeptKept, HostedAssumption
<1>3. Kept => ProcessOnRecord
  BY KeptOnRecord
<1> QED
  BY <1>1, <1>2, <1>3, PTL DEF Spec

-------------------------------------------------------------------------------
(* What was launched is not launched again before its end is consumed *)

Settled(t) == journal[t] = "settled"

\* A host forgets only facts that a client is done with, after the journal is.
Consumed ==
    /\ \A t \in acked : Settled(t)
    /\ \A w \in Workers : wk[w].pc = "ack" => Settled(wk[w].task)
    /\ Up => \A t \in Tasks : t \notin entries /\ facts[t] = "none" => tasks[t] = "none" \/ Settled(t)

Unconsumed == <<owner, facts, entries, acked, tasks>>

NoNewAck == \A w \in Workers : wk'[w].pc = "ack" => wk'[w].pc = wk[w].pc /\ wk'[w].task = wk[w].task

\* No step takes a settlement back.
LEMMA SettledStays == Parts /\ [Next]_vars => \A t \in Tasks : Settled(t) => Settled(t)'
<1> SUFFICES ASSUME Parts, [Next]_vars, NEW u \in Tasks, Settled(u) PROVE Settled(u)'
  OBVIOUS
<1> USE DEF Parts, RestTyped
<1>1. UNCHANGED journal => Settled(u)'
  BY DEF Settled
<1>2. ASSUME NEW t \in Tasks, Settle(t) \/ Release(t) PROVE Settled(u)'
  BY <1>2 DEF Settle, Release, Settled
<1>3. ASSUME NEW w \in Workers, HostStep(w) PROVE Settled(u)'
  BY <1>1, <1>3 DEF HostStep, Admit, Intend, Launch, Record, Clear, Report
<1>4. ASSUME NEW w \in Workers, WorkerStep(w) PROVE Settled(u)'
  <2>1. Prepare(w) => Settled(u)'
    BY DEF Prepare, Settled
  <2>2. Abandon(w) => Settled(u)'
    BY <1>1 DEF Abandon, Release, Settled
  <2>3. Review(w) \/ Judge(w) => Settled(u)'
    BY <1>1, <1>2 DEF Review, Judge, WorkTyped, Op
  <2>4. SettleSeen(w) => Settled(u)'
    BY <1>1 DEF SettleSeen, Settle, Settled
  <2>5. CASE \/ Connect(w) \/ Converge(w) \/ Archive(w) \/ Discard(w) \/ Unready(w) \/ StartHost(w)
             \/ ListTerminal(w) \/ Send(w) \/ ListTasks(w) \/ Acknowledge(w) \/ Pending(w)
             \/ ReadTasks(w) \/ ReadIntents(w) \/ ReadUnresolved(w)
    BY <1>1, <2>5 DEF Connect, Converge, Archive, Discard, Unready, StartHost, ListTerminal, Send,
                 ListTasks, Acknowledge, Pending, ReadTasks, ReadIntents, ReadUnresolved
  <2> QED
    BY <1>4, <2>1, <2>2, <2>3, <2>4, <2>5 DEF WorkerStep
<1> QED
  BY <1>1, <1>3, <1>4 DEF Next, Abort, StartPass, StartTask, Inspect, ReleaseByHand, Persist,
                          Withdraw, HostEnds, ProcessExits, vars

\* What leaves the facts alone, and acknowledges nothing.
LEMMA AloneConsumed ==
    ASSUME Parts, Consumed, \A t \in Tasks : Settled(t) => Settled(t)',
           UNCHANGED Unconsumed, NoNewAck
    PROVE  Consumed'
<1>1. \A t \in acked : t \in Tasks
  BY DEF Parts, RestTyped
<1>2. \A w \in Workers : wk[w].pc = "ack" => wk[w].task \in Tasks
  BY DEF Parts, WorkTyped, HasTask
<1> QED
  BY <1>1, <1>2 DEF Consumed, Unconsumed, NoNewAck, Up

LEMMA FactsConsumed ==
    ASSUME Parts, Consumed, \A t \in Tasks : Settled(t) => Settled(t)', NoNewAck,
           acked' \subseteq acked,
           Up' => \A t \in Tasks : t \notin entries' /\ facts'[t] = "none"
                                     => tasks'[t] = "none" \/ Settled(t)'
    PROVE  Consumed'
<1>1. \A t \in acked : t \in Tasks
  BY DEF Parts, RestTyped
<1>2. \A w \in Workers : wk[w].pc = "ack" => wk[w].task \in Tasks
  BY DEF Parts, WorkTyped, HasTask
<1> QED
  BY <1>1, <1>2 DEF Consumed, NoNewAck

LEMMA NoAck ==
    ASSUME WorkTyped, NEW w \in Workers
    PROVE  /\ Done(w) => NoNewAck
           /\ \A h : Attach(w, h) => NoNewAck
           /\ AfterRecovery(w) => NoNewAck
           /\ \A label : Goto(w, label) /\ label # "ack" => NoNewAck
           /\ \A t : Drop(w, t) => NoNewAck
           /\ \A label, o, t : Become(w, label, o, t) /\ label # "ack" => NoNewAck
           /\ \A label : Reply(w, label) => NoNewAck
           /\ UNCHANGED wk => NoNewAck
<1>1. Done(w) => NoNewAck
  BY DEF NoNewAck, Done, Idle, WorkTyped
<1>2. \A h : Attach(w, h) => NoNewAck
  BY DEF NoNewAck, Attach, WorkTyped, Op
<1>3. AfterRecovery(w) => NoNewAck
  BY DEF NoNewAck, AfterRecovery, WorkTyped, Op
<1>4. \A label : Goto(w, label) /\ label # "ack" => NoNewAck
  BY DEF NoNewAck, Goto, WorkTyped, Op
<1>5. \A t : Drop(w, t) => NoNewAck
  BY DEF NoNewAck, Drop, WorkTyped, Op
<1>6. \A label, o, t : Become(w, label, o, t) /\ label # "ack" => NoNewAck
  BY DEF NoNewAck, Become, Idle, WorkTyped, Op
<1>7. \A label : Reply(w, label) => NoNewAck
  BY DEF NoNewAck, Reply, Idle, WorkTyped, Op
<1>8. UNCHANGED wk => NoNewAck
  BY DEF NoNewAck
<1> QED
  BY <1>1, <1>2, <1>3, <1>4, <1>5, <1>6, <1>7, <1>8

\* The facts written out are those on disk.
LEMMA WrittenConsumed ==
    ASSUME Parts, Consumed, \A t \in Tasks : Settled(t) => Settled(t)', NoNewAck,
           Persisted, UNCHANGED <<owner, entries, acked>>
    PROVE  Consumed'
<1>1. \A t \in Tasks : facts'[t] = tasks'[t]
  BY DEF Persisted
<1> QED
  BY <1>1, FactsConsumed

LEMMA HostConsumed ==
    ASSUME Kept, Consumed, \A t \in Tasks : Settled(t) => Settled(t)',
           NEW w \in Workers, HostStep(w)
    PROVE  Consumed'
<1> USE DEF Kept, Parts
<1>0. Up
  BY AtWork DEF HostStep, Admit, Intend, Launch, Record, Clear, Report
<1>1. NoNewAck
  BY NoAck DEF HostStep, Admit, Intend, Launch, Record, Clear, Report
<1>2. CASE Admit(w)
  <2>1. CASE UNCHANGED Unconsumed
    BY <1>1, <2>1, AloneConsumed
  <2>2. CASE Persisted /\ UNCHANGED <<entries, acked>>
    BY <1>1, <1>2, <2>2, WrittenConsumed DEF Admit
  <2>3. CASE \E u \in Evictable : /\ facts' = [facts EXCEPT ![u] = "none"]
                                  /\ entries' = entries \ {u} /\ acked' = acked \ {u}
                                  /\ UNCHANGED tasks
    <3>1. PICK u \in Evictable : /\ facts' = [facts EXCEPT ![u] = "none"]
                                 /\ entries' = entries \ {u} /\ acked' = acked \ {u}
                                 /\ UNCHANGED tasks
      BY <2>3
    <3>2. u \in Tasks /\ Settled(u)
      BY DEF Evictable, Consumed, RestTyped
    <3> QED
      BY <1>0, <1>1, <3>1, <3>2, FactsConsumed DEF Consumed, RestTyped
  <2> QED
    BY <1>2, <2>1, <2>2, <2>3 DEF Admit, Unconsumed
<1>3. CASE Intend(w) \/ Clear(w)
  BY <1>1, <1>3, AloneConsumed DEF Intend, Clear, Unconsumed
<1>4. CASE Launch(w)
  BY <1>0, <1>1, <1>4, FactsConsumed DEF Launch, Consumed, os
<1>5. CASE Record(w)
  <2>1. UNCHANGED <<owner, entries, acked>>
    BY <1>5 DEF Record
  <2>2. CASE facts' = Observed /\ UNCHANGED tasks
    <3>1. \A t \in Tasks : t \notin entries => facts'[t] = facts[t]
      BY <2>2 DEF Observed
    <3> QED
      BY <1>0, <1>1, <2>1, <2>2, <3>1, FactsConsumed DEF Consumed
  <2> QED
    BY <1>1, <1>5, <2>1, <2>2, WrittenConsumed DEF Record
<1>6. CASE Report(w)
  BY <1>1, <1>6, WrittenConsumed DEF Report
<1> QED
  BY <1>2, <1>3, <1>4, <1>5, <1>6 DEF HostStep

\* A client is done with a fact after it settled the reservation.
LEMMA SettlesFirst ==
    ASSUME Kept, Consumed, \A t \in Tasks : Settled(t) => Settled(t)', NEW w \in Workers,
           Review(w) \/ SettleSeen(w) \/ Acknowledge(w)
    PROVE  Consumed'
<1> USE DEF Kept, Parts
<1>1. CASE Acknowledge(w)
  <2>1. wk[w].pc = "ack" /\ wk[w].task \in Tasks /\ Settled(wk[w].task)
    BY <1>1 DEF Acknowledge, Consumed, WorkTyped, HasTask
  <2>2. NoNewAck
    BY <1>1, NoAck DEF Acknowledge
  <2>3. UNCHANGED <<owner, facts, entries, tasks>> /\ acked' \in {acked, acked \cup {wk[w].task}}
    BY <1>1 DEF Acknowledge, state
  <2>4. \A t \in acked' : Settled(t)'
    BY <2>1, <2>3 DEF Consumed, RestTyped
  <2>5. \A v \in Workers : wk[v].pc = "ack" => wk[v].task \in Tasks
    BY DEF WorkTyped, HasTask
  <2> QED
    BY <2>2, <2>3, <2>4, <2>5 DEF Consumed, NoNewAck, Up
<1>2. CASE Review(w) \/ SettleSeen(w)
  <2>1. UNCHANGED Unconsumed
    BY <1>2 DEF Review, SettleSeen, Unconsumed, state, host
  <2>2. NoNewAck \/ /\ wk'[w].pc = "ack" => wk'[w].task \in Tasks /\ journal'[wk'[w].task] = "settled"
                    /\ \A v \in Workers : v # w => wk'[v] = wk[v]
    <3>1. CASE Review(w)
      <4>1. ASSUME NEW t \in Tasks, Settle(t),
                   wk' = [wk EXCEPT ![w].pc = "ack", ![w].task = t, ![w].pend = @ \ {t}]
            PROVE  /\ wk'[w].task = t /\ Settled(t)'
                   /\ \A v \in Workers : v # w => wk'[v] = wk[v]
        BY <4>1 DEF Settle, Settled, WorkTyped, RestTyped, Op
      <4>2. wk[w].pend \subseteq Tasks
        BY DEF WorkTyped, Op
      <4> QED
        BY <3>1, <4>1, <4>2, NoAck DEF Review, Settled
    <3>2. CASE SettleSeen(w)
      <4>1. wk[w].task \in Tasks
        BY <3>2 DEF SettleSeen, WorkTyped, HasTask
      <4>2. CASE Settle(wk[w].task) /\ Goto(w, "ack")
        BY <4>1, <4>2 DEF Settle, Settled, Goto, WorkTyped, RestTyped, Op
      <4> QED
        BY <3>2, <4>2, NoAck DEF SettleSeen
    <3> QED
      BY <1>2, <3>1, <3>2
  <2>3. CASE NoNewAck
    BY <2>1, <2>3, AloneConsumed
  <2>4. CASE /\ wk'[w].pc = "ack" => wk'[w].task \in Tasks /\ journal'[wk'[w].task] = "settled"
             /\ \A v \in Workers : v # w => wk'[v] = wk[v]
    <3>1. \A v \in Workers : wk[v].pc = "ack" => wk[v].task \in Tasks
      BY DEF WorkTyped, HasTask
    <3>2. \A t \in acked : t \in Tasks
      BY DEF RestTyped
    <3>3. \A v \in Workers : wk'[v].pc = "ack" => journal'[wk'[v].task] = "settled"
      BY <2>4, <3>1 DEF Consumed, Settled
    <3> QED
      BY <2>1, <3>2, <3>3 DEF Consumed, Unconsumed, Up, Settled
  <2> QED
    BY <2>2, <2>3, <2>4
<1> QED
  BY <1>1, <1>2

LEMMA ConsumedKept == HostedAssumption /\ Kept /\ Consumed /\ [Next]_vars => Consumed'
<1> SUFFICES ASSUME HostedAssumption, Kept, Consumed, [Next]_vars PROVE Consumed'
  OBVIOUS
<1> USE DEF Kept, Parts
<1>0. \A t \in Tasks : Settled(t) => Settled(t)'
  BY SettledStays
<1>1. ASSUME NEW w \in Workers, HostStep(w) PROVE Consumed'
  BY <1>0, <1>1, HostConsumed
<1>2. ASSUME NEW w \in Workers, Review(w) \/ SettleSeen(w) \/ Acknowledge(w) PROVE Consumed'
  BY <1>0, <1>2, SettlesFirst
<1>3. ASSUME NEW w \in Workers,
             \/ Prepare(w) \/ Send(w) \/ Abandon(w) \/ Pending(w) \/ Judge(w) \/ StartPass(w)
             \/ \E t \in Tasks : StartTask(w, t) \/ ReleaseByHand(w, t)
      PROVE  Consumed'
  <2>1. UNCHANGED Unconsumed
    BY <1>3 DEF Prepare, Send, Abandon, Pending, Judge, StartPass, StartTask, ReleaseByHand,
               Unconsumed, state, host
  <2>2. \A p : wk' = [wk EXCEPT ![w].pend = p, ![w].pc = "read_tasks"] => NoNewAck
    BY DEF NoNewAck, WorkTyped, Op
  <2>3. NoNewAck
    BY <1>3, <2>2, NoAck DEF Prepare, Send, Abandon, Pending, Judge, StartPass, StartTask,
                            ReleaseByHand
  <2> QED
    BY <1>0, <2>1, <2>3, AloneConsumed
<1>4. ASSUME NEW w \in Workers, ReadTasks(w) \/ ReadIntents(w) \/ ReadUnresolved(w)
      PROVE  Consumed'
  <2>1. UNCHANGED Unconsumed
    BY <1>4 DEF ReadTasks, ReadIntents, ReadUnresolved, Unconsumed, state, host
  <2>2. \A h : wk' = [wk EXCEPT ![w].hinted = @ \cup h, ![w].pc = "judge"] => NoNewAck
    BY DEF NoNewAck, WorkTyped, Op
  <2>3. ReadTasks(w) \/ ReadIntents(w) => NoNewAck
    BY DEF ReadTasks, ReadIntents, NoNewAck, WorkTyped, Op
  <2>4. NoNewAck
    BY <1>4, <2>2, <2>3, NoAck DEF ReadUnresolved
  <2> QED
    BY <1>0, <2>1, <2>4, AloneConsumed
<1>5. ASSUME NEW w \in Workers, ListTerminal(w) \/ ListTasks(w) \/ \E t \in Tasks : Inspect(w, t)
      PROVE  Consumed'
  <2>1. \A k : wk' = [wk EXCEPT ![w].known = k, ![w].pc = "prepare"] => NoNewAck
    BY DEF NoNewAck, WorkTyped, Op
  <2>2. \A f, p : wk' = [wk EXCEPT ![w].pc = "review", ![w].seen = f, ![w].pend = p] => NoNewAck
    BY DEF NoNewAck, WorkTyped, Op
  <2>3. \A t, h : wk' = [wk EXCEPT ![w] = [Idle EXCEPT !.pc = "settle", !.op = "inspect",
                                                      !.task = t, !.client = h]] => NoNewAck
    BY DEF NoNewAck, WorkTyped, Idle
  <2>4. NoNewAck
    BY <1>5, <2>1, <2>2, <2>3, NoAck DEF ListTerminal, ListTasks, Inspect
  <2>5. UNCHANGED <<owner, entries, acked>> /\ (Persisted \/ UNCHANGED <<tasks, facts>>)
    BY <1>5 DEF ListTerminal, ListTasks, Inspect
  <2> QED
    BY <1>0, <2>4, <2>5, WrittenConsumed, AloneConsumed DEF Unconsumed
<1>6. ASSUME NEW w \in Workers,
             Connect(w) \/ Converge(w) \/ Archive(w) \/ Discard(w) \/ Unready(w) \/ Abort(w)
      PROVE  Consumed'
  <2>1. NoNewAck
    BY <1>6, NoAck DEF Connect, Converge, Archive, Discard, Unready, Abort
  <2>2. CASE Up' /\ UNCHANGED <<facts, entries, acked, owner, tasks>>
    BY <1>0, <2>1, <2>2, AloneConsumed DEF Unconsumed
  <2>3. CASE ~Up' /\ UNCHANGED acked
    BY <1>0, <2>1, <2>3, FactsConsumed
  <2>4. UNCHANGED acked
    BY <1>6 DEF Connect, Converge, Archive, Discard, Unready, Abort, host
  <2>5. Up' => UNCHANGED <<facts, entries, owner, tasks>>
    <3>1. CASE Connect(w) \/ Abort(w)
      BY <3>1 DEF Connect, Abort, Up, HostedAssumption, state
    <3>2. CASE Converge(w) \/ Archive(w) \/ Discard(w) \/ Unready(w)
      BY <3>2 DEF Converge, Archive, Discard, Unready, Up, Order, Recovering, HostedAssumption, host
    <3> QED
      BY <1>6, <3>1, <3>2
  <2> QED
    BY <2>2, <2>3, <2>4, <2>5
<1>7. ASSUME NEW w \in Workers, StartHost(w) PROVE Consumed'
  <2>1. NoNewAck
    BY <1>7, NoAck DEF StartHost
  <2>2. UNCHANGED <<tasks, entries, acked>> /\ (UNCHANGED <<owner, facts>> \/ facts' = tasks)
    BY <1>7 DEF StartHost, host
  <2>3. CASE UNCHANGED <<owner, facts>>
    BY <1>0, <2>1, <2>2, <2>3, AloneConsumed DEF Unconsumed
  <2>4. CASE facts' = tasks
    BY <1>0, <2>1, <2>2, <2>4, FactsConsumed
  <2> QED
    BY <2>2, <2>3, <2>4
<1>8. CASE Persist
  BY <1>0, <1>8, NoAck, WrittenConsumed DEF Persist, NoNewAck
<1>9. CASE HostEnds
  <2>1. NoNewAck
    BY <1>9 DEF HostEnds, NoNewAck, Idle
  <2>2. ~Up' /\ acked' \subseteq acked
    BY <1>9 DEF HostEnds, Up
  <2> QED
    BY <1>0, <2>1, <2>2, FactsConsumed
<1>10. ASSUME NEW t \in Tasks, ProcessExits(t) PROVE Consumed'
  BY <1>0, <1>10, AloneConsumed DEF ProcessExits, Unconsumed, state, host, NoNewAck
<1>11. CASE Withdraw \/ UNCHANGED vars
  BY <1>0, <1>11, AloneConsumed DEF Withdraw, vars, Unconsumed, state, host, NoNewAck
<1> QED
  BY <1>1, <1>2, <1>3, <1>4, <1>5, <1>6, <1>7, <1>8, <1>9, <1>10, <1>11 DEF Next, WorkerStep

LEMMA InitConsumed == Init => Consumed
  BY DEF Init, Consumed, Idle, Up

\* The launch that the property is about is of a task the host does not know.
LEMMA LaunchIsNew ==
    Kept /\ Consumed /\ [Next]_vars
      => \A t \in Tasks : launched'[t] # launched[t] => tasks[t] = "none" \/ journal[t] = "settled"
<1> SUFFICES ASSUME Kept, Consumed, [Next]_vars, NEW t \in Tasks, launched'[t] # launched[t]
             PROVE  tasks[t] = "none" \/ journal[t] = "settled"
  OBVIOUS
<1> USE DEF Kept, Parts
<1>1. PICK w \in Workers : Launch(w)
  <2>1. ASSUME NEW w \in Workers, WorkerStep(w) PROVE UNCHANGED launched
    BY <2>1 DEF WorkerStep, Connect, Converge, Archive, Discard, Unready, StartHost, ListTerminal,
               Prepare, Send, Abandon, ListTasks, Review, Acknowledge, Pending, ReadTasks,
               ReadIntents, ReadUnresolved, Judge, SettleSeen, os
  <2>2. ASSUME NEW w \in Workers, HostStep(w), ~Launch(w) PROVE UNCHANGED launched
    BY <2>2 DEF HostStep, Admit, Intend, Record, Clear, Report, os
  <2> QED
    BY <2>1, <2>2 DEF Next, Abort, StartPass, StartTask, Inspect, ReleaseByHand, Persist,
                      Withdraw, HostEnds, ProcessExits, vars, os
<1>2. Up /\ job[w].task \in Tasks /\ job[w].step = "launch"
  BY <1>1, AtWork DEF Launch
<1>3. t = job[w].task
  BY <1>1, <1>2 DEF Launch, RestTyped, os
<1>4. t \notin entries /\ facts[t] = "none"
  BY <1>2, <1>3 DEF OnRecord, Handled, HoldsEntries
<1> QED
  BY <1>2, <1>4 DEF Consumed, Settled

\* A task with a process fact is never launched again before the fact was
\* consumed, by however many hosts and whatever requests come again.
THEOREM LaunchedOnce == Spec => NoReplay
<1>1. Init => Kept /\ Consumed
  BY InitKept, InitConsumed
<1>2. Kept /\ Consumed /\ [Next]_vars => (Kept /\ Consumed)'
  BY KeptKept, ConsumedKept, HostedAssumption
<1>3. Kept /\ Consumed /\ [Next]_vars
        => [\A t \in Tasks : launched'[t] # launched[t]
              => tasks[t] = "none" \/ journal[t] = "settled"]_vars
  BY LaunchIsNew
<1> QED
  BY <1>1, <1>2, <1>3, PTL DEF Spec, NoReplay

-------------------------------------------------------------------------------
(* The reservation of a service is settled on evidence *)

\* The one request to start a service: on its way to the host, in its hands, or
\* rejected.
Starting == Recovering \cup {"connect", "start", "list", "prepare", "send", "abandon"}

Asking(w, t) == wk[w].op = "spawn" /\ wk[w].task = t /\ wk[w].pc \in Starting
Asked(w, t) == job[w].task = t /\ job[w].step \in {"queued", "intend", "launch"}
Requested(w, t) == Asking(w, t) \/ Asked(w, t)

OneRequest(t) ==
    /\ t \in fresh => launched[t] = 0
    /\ \A w \in Workers : Requested(w, t) => launched[t] = 0 /\ t \notin fresh
    /\ \A v, w \in Workers : Requested(v, t) /\ Requested(w, t) => v = w
    /\ \A w \in Workers : ~(Asking(w, t) /\ Asked(w, t))

\* Only what starts a task prepares and sends; a pass is about none.
Role(r) ==
    /\ r.pc \in Recovering \cup {"connect"}
          => r.op \in {"spawn", "release"} \/ (r.op = "reconcile" /\ r.task = NoTask)
    /\ r.pc \in {"start", "prepare", "send"} => r.op = "spawn"
Roles == \A w \in Workers : Role(wk[w])

\* What a worker waits for is the answer to its own request.
Waits ==
    \A w \in Workers : wk[w].pc = "wait" => wk[w].op = "spawn" /\ job[w].task = wk[w].task

Ended(t) == launched[t] # 0 /\ proc[t] # "running"

\* What a fact says of a service, and what an operation took from one.
FactsTrue(t) ==
    /\ t \notin strays
    /\ t \in entries \/ facts[t] # "none" \/ tasks[t] # "none" \/ proc[t] = "running"
          => launched[t] # 0
    /\ Proven(facts[t]) \/ Proven(tasks[t]) => Ended(t)
    /\ tasks[t] = "present" /\ Up => t \notin entries /\ facts[t] = "present"

SightsTrue(t) ==
    \A w \in Workers :
        /\ Proven(wk[w].seen[t]) => Ended(t)
        /\ wk[w].pc = "settle" /\ wk[w].task = t => Ended(t) \/ tasks[t] = "present"

Evident(t) == Roles /\ Waits /\ OneRequest(t) /\ FactsTrue(t) /\ SightsTrue(t)

Excused(w, label) == label \in Starting => wk[w].pc \in Starting \/ wk[w].op # "spawn"

NothingAsked(t) == \A w \in Workers : Asking(w, t)' => Asking(w, t)
NoNewRequest(t) == NothingAsked(t) /\ \A w \in Workers : Asked(w, t)' => Asked(w, t)

LEMMA RequestsKept ==
    ASSUME NEW t \in Services, OneRequest(t), NoNewRequest(t), launched'[t] = launched[t],
           fresh' \subseteq fresh
    PROVE  OneRequest(t)'
<1>1. \A w \in Workers : Requested(w, t)' => Requested(w, t)
  BY DEF NoNewRequest, NothingAsked, Requested
<1>2. ASSUME NEW v \in Workers, NEW w \in Workers, Requested(v, t)', Requested(w, t)' PROVE v = w
  BY <1>1, <1>2 DEF OneRequest
<1>3. ASSUME NEW w \in Workers PROVE ~(Asking(w, t)' /\ Asked(w, t)')
  BY DEF OneRequest, NoNewRequest, NothingAsked
<1>4. ASSUME NEW w \in Workers, Requested(w, t)' PROVE launched'[t] = 0 /\ t \notin fresh'
  BY <1>1, <1>4 DEF OneRequest
<1> QED
  BY <1>2, <1>3, <1>4 DEF OneRequest

\* Where an operation goes on it asks for nothing else.
LEMMA NoAsking ==
    ASSUME WorkTyped, NEW w \in Workers, NEW t \in Tasks
    PROVE  /\ Done(w) => NothingAsked(t)
           /\ \A label : /\ Reply(w, label)
                         /\ label = "rejected" /\ wk[w].pc = "wait" => wk[w].task # t
                => NothingAsked(t)
           /\ \A u : Drop(w, u) => NothingAsked(t)
           /\ \A label, u : Become(w, label, "reconcile", u) \/ Become(w, label, "release", u)
                => NothingAsked(t)
           /\ UNCHANGED wk => NothingAsked(t)
           /\ wk[w].pc \in Starting => \A h : Attach(w, h) => NothingAsked(t)
           /\ wk[w].pc \in Starting /\ AfterRecovery(w) => NothingAsked(t)
           /\ \A label : Goto(w, label) /\ Excused(w, label) => NothingAsked(t)
<1>1. Done(w) => NothingAsked(t)
  BY DEF NothingAsked, Asking, Done, Idle, WorkTyped, Starting, Recovering
<1>2. \A label : Reply(w, label) /\ (label = "rejected" /\ wk[w].pc = "wait" => wk[w].task # t)
        => NothingAsked(t)
  BY DEF NothingAsked, Asking, Reply, Idle, WorkTyped, Op, Starting, Recovering
<1>3. \A u : Drop(w, u) => NothingAsked(t)
  BY DEF NothingAsked, Asking, Drop, WorkTyped, Op
<1>4. \A label, u : Become(w, label, "reconcile", u) \/ Become(w, label, "release", u) => NothingAsked(t)
  BY DEF NothingAsked, Asking, Become, Idle, WorkTyped
<1>5. UNCHANGED wk => NothingAsked(t)
  BY DEF NothingAsked, Asking
<1>6. wk[w].pc \in Starting => \A h : Attach(w, h) => NothingAsked(t)
  BY DEF NothingAsked, Asking, Attach, WorkTyped, Op
<1>7. wk[w].pc \in Starting /\ AfterRecovery(w) => NothingAsked(t)
  BY DEF NothingAsked, Asking, AfterRecovery, WorkTyped, Op
<1>8. ASSUME NEW label, Goto(w, label), Excused(w, label) PROVE NothingAsked(t)
  <2>1. \A v \in Workers : v # w => wk'[v] = wk[v]
    BY <1>8 DEF Goto, WorkTyped
  <2>2. wk'[w].pc = label /\ wk'[w].op = wk[w].op /\ wk'[w].task = wk[w].task
    BY <1>8 DEF Goto, WorkTyped, Op
  <2> QED
    BY <1>8, <2>1, <2>2 DEF NothingAsked, Asking, Excused
<1> QED
  BY <1>1, <1>2, <1>3, <1>4, <1>5, <1>6, <1>7, <1>8

\* The steps of an operation but the one that hands its request to the host.
LEMMA WorkerRequests ==
    ASSUME Parts, NEW w \in Workers, NEW t \in Services, WorkerStep(w), ~Send(w), OneRequest(t)
    PROVE  OneRequest(t)'
<1> USE DEF Parts
<1>0. t \in Tasks
  BY DEF Tasks
<1>1. UNCHANGED <<job, launched, fresh>>
  BY DEF WorkerStep, Connect, Converge, Archive, Discard, Unready, StartHost, ListTerminal,
         Prepare, Abandon, ListTasks, Review, Acknowledge, Pending, ReadTasks, ReadIntents,
         ReadUnresolved, Judge, SettleSeen, os
<1>2. NothingAsked(t)
  <2>1. CASE Connect(w) \/ Converge(w) \/ Archive(w) \/ Discard(w) \/ Unready(w) \/ StartHost(w)
    <3>1. wk[w].pc \in Starting
      BY <2>1 DEF Connect, Converge, Archive, Discard, Unready, StartHost, Starting, Recovering
    <3>2. \/ Done(w) \/ AfterRecovery(w) \/ \E h : Attach(w, h)
          \/ \E label : Goto(w, label)
      BY <2>1 DEF Connect, Converge, Archive, Discard, Unready, StartHost
    <3> QED
      BY <1>0, <3>1, <3>2, NoAsking DEF Excused
  <2>2. CASE Prepare(w) \/ Abandon(w) \/ Acknowledge(w) \/ Judge(w) \/ SettleSeen(w)
    BY <1>0, <2>2, NoAsking DEF Prepare, Abandon, Acknowledge, Judge, SettleSeen, Excused,
        Starting, Recovering
  <2>3. CASE ListTerminal(w)
    <3>1. \A k : wk' = [wk EXCEPT ![w].known = k, ![w].pc = "prepare"] /\ wk[w].pc = "list"
                   => NothingAsked(t)
      BY DEF NothingAsked, Asking, WorkTyped, Op, Starting, Recovering
    <3> QED
      BY <1>0, <2>3, <3>1, NoAsking DEF ListTerminal
  <2>4. CASE ListTasks(w) \/ Review(w) \/ Pending(w)
    <3>1. \A f, p : wk' = [wk EXCEPT ![w].pc = "review", ![w].seen = f, ![w].pend = p]
                      /\ wk[w].pc = "list" => NothingAsked(t)
      BY DEF NothingAsked, Asking, WorkTyped, Op, Starting, Recovering
    <3>2. \A u : wk' = [wk EXCEPT ![w].pc = "ack", ![w].task = u, ![w].pend = @ \ {u}]
                   => NothingAsked(t)
      BY DEF NothingAsked, Asking, WorkTyped, Op, Starting, Recovering
    <3>3. \A p : wk' = [wk EXCEPT ![w].pend = p, ![w].pc = "read_tasks"] /\ wk[w].pc = "pending"
                   => NothingAsked(t)
      BY DEF NothingAsked, Asking, WorkTyped, Op, Starting, Recovering
    <3> QED
      BY <1>0, <2>4, <3>1, <3>2, <3>3, NoAsking DEF ListTasks, Review, Pending
  <2>5. CASE ReadTasks(w) \/ ReadIntents(w)
    BY <2>5 DEF ReadTasks, ReadIntents, NothingAsked, Asking, WorkTyped, Op, Starting, Recovering
  <2>6. CASE ReadUnresolved(w)
    <3>1. \A h : wk' = [wk EXCEPT ![w].hinted = @ \cup h, ![w].pc = "judge"]
                   /\ wk[w].pc = "read_unresolved" => NothingAsked(t)
      BY DEF NothingAsked, Asking, WorkTyped, Op, Starting, Recovering
    <3> QED
      BY <1>0, <2>6, <3>1, NoAsking DEF ReadUnresolved, Excused, Starting, Recovering
  <2> QED
    BY <2>1, <2>2, <2>3, <2>4, <2>5, <2>6 DEF WorkerStep
<1>3. NoNewRequest(t)
  BY <1>1, <1>2 DEF NoNewRequest, Asked
<1> QED
  BY <1>1, <1>3, RequestsKept

\* The steps of the host but the launch of the service itself.
LEMMA HostRequests ==
    ASSUME Parts, Waits, NEW w \in Workers, NEW t \in Services, HostStep(w), OneRequest(t)
    PROVE  OneRequest(t)'
<1> USE DEF Parts
<1>0. t \in Tasks
  BY DEF Tasks
<1>1. UNCHANGED fresh
  BY DEF HostStep, Admit, Intend, Launch, Record, Clear, Report
<1>2. \A label : Reply(w, label) => \A v \in Workers : Asked(v, t)' => Asked(v, t)
  BY DEF Reply, Asked, NoJob, JobsTyped
<1>3. \A label : Step(w, label) /\ job[w].step \in {"queued", "intend"}
                   => \A v \in Workers : Asked(v, t)' => Asked(v, t)
  BY DEF Step, Asked, JobsTyped, Request
<1>4. \A label : Step(w, label) /\ label \in {"record", "clear", "report"}
                   => \A v \in Workers : Asked(v, t)' => Asked(v, t)
  BY DEF Step, Asked, JobsTyped, Request
<1>5. CASE NothingAsked(t)
  <2>1. NoNewRequest(t)
    BY <1>2, <1>3, <1>4, <1>5 DEF NoNewRequest, HostStep, Admit, Intend, Launch, Record, Clear, Report
  <2>2. CASE launched'[t] = launched[t]
    BY <1>1, <2>1, <2>2, RequestsKept
  <2>3. CASE launched'[t] # launched[t]
    <3>1. Launch(w)
      BY <2>3 DEF HostStep, Admit, Intend, Record, Clear, Report, os
    <3>2. Step(w, "record") /\ job[w].task = t /\ job[w].step = "launch"
      <4>1. job[w].step = "launch" /\ job[w].task \in Tasks
        BY <3>1 DEF Launch, JobsTyped
      <4>2. ~UNCHANGED os
        BY <2>3 DEF os
      <4>3. Step(w, "record") /\ launched' = [launched EXCEPT ![job[w].task] = @ + 1]
        BY <3>1, <4>2 DEF Launch
      <4> QED
        BY <1>0, <2>3, <4>1, <4>3 DEF RestTyped
    <3>3. Asked(w, t) /\ ~Asking(w, t)
      BY <3>2 DEF OneRequest, Asked
    <3>4. \A v \in Workers : ~Requested(v, t)'
      <4>1. ~Asked(w, t)'
        BY <3>2 DEF Step, Asked, JobsTyped, Request
      <4>2. ASSUME NEW v \in Workers, Requested(v, t)' PROVE v = w /\ Requested(v, t)
        BY <2>1, <3>3, <4>2 DEF NoNewRequest, NothingAsked, Requested, OneRequest
      <4> QED
        BY <2>1, <3>3, <4>1, <4>2 DEF NoNewRequest, NothingAsked, Requested
    <3>5. t \notin fresh'
      BY <1>1, <3>3 DEF OneRequest, Requested
    <3> QED
      BY <3>4, <3>5 DEF OneRequest, Requested
  <2> QED
    BY <2>2, <2>3
<1>6. CASE ~NothingAsked(t)
  <2>1. /\ UNCHANGED launched /\ job[w].step \in {"queued", "launch"}
        /\ Reply(w, "rejected") /\ wk[w].pc = "wait" /\ wk[w].task = t
    BY <1>0, <1>6, NoAsking DEF HostStep, Admit, Intend, Launch, Record, Clear, Report, os
  <2>2. Asked(w, t)
    BY <2>1 DEF Waits, Asked
  <2>3. ~Asked(w, t)' /\ \A v \in Workers : v # w => wk'[v] = wk[v] /\ job'[v] = job[v]
    BY <2>1 DEF Reply, Asked, NoJob, WorkTyped, JobsTyped
  <2>4. ASSUME NEW v \in Workers, Requested(v, t)' PROVE v = w
    BY <2>2, <2>3, <2>4 DEF OneRequest, Requested, Asking, Asked
  <2>5. launched'[t] = 0 /\ t \notin fresh'
    BY <1>1, <2>1, <2>2 DEF OneRequest, Requested
  <2> QED
    BY <2>3, <2>4, <2>5 DEF OneRequest, Requested
<1> QED
  BY <1>5, <1>6

\* One operation at a time makes a step, and changes no other.
OperationStep(w) ==
    \/ WorkerStep(w) \/ HostStep(w) \/ Abort(w) \/ StartPass(w)
    \/ \E t \in Tasks : StartTask(w, t) \/ Inspect(w, t) \/ ReleaseByHand(w, t)

LEMMA OthersStay ==
    ASSUME WorkTyped, NEW v \in Workers, OperationStep(v), NEW w \in Workers, v # w
    PROVE  wk'[w] = wk[w]
<1>1. UNCHANGED wk \/ \E r : wk' = [wk EXCEPT ![v] = r]
  BY DEF OperationStep, WorkerStep, HostStep, Connect, Converge, Archive, Discard, Unready,
      StartHost, ListTerminal, Prepare, Send, Abandon, ListTasks, Review, Acknowledge, Pending,
      ReadTasks, ReadIntents, ReadUnresolved, Judge, SettleSeen, Admit, Intend, Launch, Record,
      Clear, Report, Abort, StartPass, StartTask, Inspect, ReleaseByHand, Done, Goto, Become, Drop,
      Attach, AfterRecovery, Reply
<1> QED
  BY <1>1 DEF WorkTyped

Elsewhere(r) == r.pc \notin Recovering \cup {"connect", "start", "prepare", "send"}

LEMMA RolesKept == HostedAssumption /\ Parts /\ Roles /\ [Next]_vars => Roles'
<1> SUFFICES ASSUME HostedAssumption, Parts, Roles, [Next]_vars, NEW w \in Workers PROVE Role(wk'[w])
  BY DEF Roles
<1> USE DEF Parts
<1>1. Role(wk[w])
  BY DEF Roles
<1>2. ASSUME Elsewhere(wk'[w]) PROVE Role(wk'[w])
  BY <1>2 DEF Elsewhere, Role
<1>3. wk'[w] = Idle => Elsewhere(wk'[w])
  BY DEF Elsewhere, Idle, Recovering
<1>4. Done(w) => wk'[w] = Idle
  BY DEF Done, WorkTyped
<1>5. \A label : Goto(w, label) => wk'[w].pc = label /\ wk'[w].op = wk[w].op /\ wk'[w].task = wk[w].task
  BY DEF Goto, WorkTyped, Op
<1>6. \A t : Drop(w, t) => Role(wk'[w])
  <2>1. \A t : Drop(w, t) => /\ wk'[w].pc = wk[w].pc /\ wk'[w].op = wk[w].op
                            /\ wk'[w].task = wk[w].task
    BY DEF Drop, WorkTyped, Op
  <2> QED
    BY <1>1, <2>1 DEF Role
<1>7. CASE WorkerStep(w)
  <2>1. CASE Connect(w)
    <3>1. CASE wk[w].op # "release" /\ Attach(w, inst)
      <4>1. wk[w].task \in Services => wk[w].op = "spawn"
        BY <1>1, <2>1, <3>1 DEF Connect, Role, HostedAssumption, Tasks
      <4>2. wk'[w].pc = (IF wk[w].task \in Services THEN "prepare" ELSE "list")
            /\ wk'[w].op = wk[w].op
        BY <3>1 DEF Attach, WorkTyped, Op
      <4> QED
        BY <4>1, <4>2 DEF Role, Recovering
    <3>2. CASE Goto(w, "converge")
      BY <1>1, <1>5, <2>1, <3>2 DEF Connect, Role, Recovering
    <3>3. CASE AfterRecovery(w)
      BY <3>3 DEF AfterRecovery, Role, Recovering, WorkTyped, Op
    <3> QED
      BY <1>2, <1>3, <1>4, <2>1, <3>1, <3>2, <3>3 DEF Connect
  <2>2. CASE Converge(w) \/ Archive(w) \/ Discard(w)
    BY <1>1, <1>5, <2>2 DEF Converge, Archive, Discard, Role, Recovering
  <2>3. CASE Unready(w)
    BY <2>3 DEF Unready, AfterRecovery, Role, Recovering, WorkTyped, Op
  <2>4. CASE StartHost(w)
    <3>1. \A h : Attach(w, h) => wk'[w].pc \in {"prepare", "list"} /\ wk'[w].op = wk[w].op
      BY DEF Attach, WorkTyped, Op
    <3>2. wk[w].op = "spawn"
      BY <1>1, <2>4 DEF StartHost, Role
    <3>3. \A h : Attach(w, h) => Role(wk'[w])
      BY <3>1, <3>2 DEF Role, Recovering
    <3> QED
      BY <1>2, <1>3, <1>4, <2>4, <3>3 DEF StartHost
  <2>5. CASE ListTerminal(w)
    <3>1. \A k : wk' = [wk EXCEPT ![w].known = k, ![w].pc = "prepare"] /\ wk[w].op = "spawn"
                   => Role(wk'[w])
      BY DEF Role, Recovering, WorkTyped, Op
    <3> QED
      BY <1>2, <1>3, <1>4, <2>5, <3>1 DEF ListTerminal
  <2>6. CASE Prepare(w) \/ Send(w) \/ Abandon(w)
    BY <1>1, <1>2, <1>3, <1>4, <1>5, <2>6 DEF Prepare, Send, Abandon, Role, Recovering
  <2>7. CASE ListTasks(w) \/ Review(w) \/ Pending(w)
    <3>1. \A f, p : wk' = [wk EXCEPT ![w].pc = "review", ![w].seen = f, ![w].pend = p]
                      => Elsewhere(wk'[w])
      BY DEF Elsewhere, Recovering, WorkTyped, Op
    <3>2. \A t : wk' = [wk EXCEPT ![w].pc = "ack", ![w].task = t, ![w].pend = @ \ {t}]
                   => Elsewhere(wk'[w])
      BY DEF Elsewhere, Recovering, WorkTyped, Op
    <3>3. \A p : wk' = [wk EXCEPT ![w].pend = p, ![w].pc = "read_tasks"] => Elsewhere(wk'[w])
      BY DEF Elsewhere, Recovering, WorkTyped, Op
    <3> QED
      BY <1>2, <1>3, <1>4, <1>6, <2>7, <3>1, <3>2, <3>3 DEF ListTasks, Review, Pending
  <2>8. CASE Acknowledge(w) \/ Judge(w) \/ SettleSeen(w)
    BY <1>2, <1>3, <1>4, <1>5, <1>6, <2>8 DEF Acknowledge, Judge, SettleSeen, Role, Recovering
  <2>9. CASE ReadTasks(w) \/ ReadIntents(w) \/ ReadUnresolved(w)
    <3>1. \A f : wk' = [wk EXCEPT ![w].seen = f, ![w].pc = "read_intents"] => Elsewhere(wk'[w])
      BY DEF Elsewhere, Recovering, WorkTyped, Op
    <3>2. \A h : wk' = [wk EXCEPT ![w].hinted = h, ![w].pc = "read_unresolved"] => Elsewhere(wk'[w])
      BY DEF Elsewhere, Recovering, WorkTyped, Op
    <3>3. \A h : wk' = [wk EXCEPT ![w].hinted = @ \cup h, ![w].pc = "judge"] => Elsewhere(wk'[w])
      BY DEF Elsewhere, Recovering, WorkTyped, Op
    <3>4. Goto(w, "abandon") => Elsewhere(wk'[w])
      BY <1>5 DEF Elsewhere, Recovering
    <3> QED
      BY <1>2, <1>3, <1>4, <2>9, <3>1, <3>2, <3>3, <3>4 DEF ReadTasks, ReadIntents, ReadUnresolved
  <2> QED
    BY <1>7, <2>1, <2>2, <2>3, <2>4, <2>5, <2>6, <2>7, <2>8, <2>9 DEF WorkerStep
<1>8. CASE HostStep(w)
  <2>1. \A label : Reply(w, label) => wk'[w] = wk[w] \/ Elsewhere(wk'[w])
    BY DEF Reply, Elsewhere, Idle, Recovering, WorkTyped, Op
  <2> QED
    BY <1>1, <1>2, <1>8, <2>1 DEF HostStep, Admit, Intend, Launch, Record, Clear, Report
<1>9. CASE \/ Abort(w) \/ StartPass(w)
           \/ \E t \in Tasks : StartTask(w, t) \/ Inspect(w, t) \/ ReleaseByHand(w, t)
  <2>1. \A o, t : Become(w, "connect", o, t)
                    => wk'[w].pc = "connect" /\ wk'[w].op = o /\ wk'[w].task = t
    BY DEF Become, Idle, WorkTyped
  <2>2. \A t, h : wk' = [wk EXCEPT ![w] = [Idle EXCEPT !.pc = "settle", !.op = "inspect",
                                                      !.task = t, !.client = h]]
                    => Elsewhere(wk'[w])
    BY DEF Elsewhere, Idle, Recovering, WorkTyped
  <2>3. StartPass(w) \/ (\E t \in Tasks : StartTask(w, t) \/ ReleaseByHand(w, t)) => Role(wk'[w])
    BY <2>1 DEF StartPass, StartTask, ReleaseByHand, Role, Recovering
  <2>4. Abort(w) => Role(wk'[w])
    BY <1>2, <1>3, <1>4 DEF Abort
  <2>5. (\E t \in Tasks : Inspect(w, t)) => Role(wk'[w])
    BY <1>1, <1>2, <2>2 DEF Inspect
  <2> QED
    BY <1>9, <2>3, <2>4, <2>5
<1>10. CASE wk'[w] = wk[w]
  BY <1>1, <1>10
<1>11. CASE wk'[w] = Idle
  BY <1>2, <1>3, <1>11
<1>12. \A v \in Workers : v # w /\ OperationStep(v) => wk'[w] = wk[w]
  BY OthersStay
<1> QED
  BY <1>7, <1>8, <1>9, <1>10, <1>11, <1>12
     DEF OperationStep, Next, Persist, Withdraw, HostEnds, ProcessExits, vars

LEMMA WaitsKept ==
    ASSUME Parts, Roles, Waits, [Next]_vars
    PROVE  Waits'
<1> SUFFICES ASSUME NEW w \in Workers, wk'[w].pc = "wait"
             PROVE  wk'[w].op = "spawn" /\ job'[w].task = wk'[w].task
  BY DEF Waits
<1> USE DEF Parts
<1>1. CASE wk'[w] = wk[w] /\ job'[w].task = job[w].task
  BY <1>1 DEF Waits
<1>2. wk'[w] # Idle
  BY DEF Idle
<1>3. ~Done(w)
  BY <1>2 DEF Done, WorkTyped
<1>3a. \A label : Goto(w, label) => label = "wait" /\ wk'[w].op = wk[w].op /\ wk'[w].task = wk[w].task
  BY DEF Goto, WorkTyped, Op
<1>3b. \A u : Drop(w, u) => wk'[w].pc = wk[w].pc
  BY DEF Drop, WorkTyped, Op
<1>3c. \A label, o, u : Become(w, label, o, u) => label = "wait"
  BY DEF Become, WorkTyped, Idle
<1>3d. \A h : ~Attach(w, h)
  BY DEF Attach, WorkTyped, Op
<1>3e. ~AfterRecovery(w)
  BY DEF AfterRecovery, WorkTyped, Op
<1>4. CASE WorkerStep(w) /\ ~Send(w)
  <2>1. UNCHANGED job
    BY <1>4 DEF WorkerStep, Connect, Converge, Archive, Discard, Unready, StartHost, ListTerminal,
           Prepare, Abandon, ListTasks, Review, Acknowledge, Pending, ReadTasks, ReadIntents,
           ReadUnresolved, Judge, SettleSeen
  <2>2. \A k : wk' = [wk EXCEPT ![w].known = k, ![w].pc = "prepare"] => FALSE
    BY DEF WorkTyped, Op
  <2>3. \A f, u : wk' = [wk EXCEPT ![w].pc = "review", ![w].seen = f, ![w].pend = u] => FALSE
    BY DEF WorkTyped, Op
  <2>4. \A u, q : wk' # [wk EXCEPT ![w].pc = "ack", ![w].task = u, ![w].pend = q]
    BY DEF WorkTyped, Op
  <2>5. \A u : wk' # [wk EXCEPT ![w].pend = u, ![w].pc = "read_tasks"]
    BY DEF WorkTyped, Op
  <2>6. \A f : wk' # [wk EXCEPT ![w].seen = f, ![w].pc = "read_intents"]
    BY DEF WorkTyped, Op
  <2>7. \A f : wk' # [wk EXCEPT ![w].hinted = f, ![w].pc = "read_unresolved"]
    BY DEF WorkTyped, Op
  <2>8. \A f : wk' # [wk EXCEPT ![w].hinted = @ \cup f, ![w].pc = "judge"]
    BY DEF WorkTyped, Op
  <2>9. CASE \/ Connect(w) \/ Converge(w) \/ Archive(w) \/ Discard(w) \/ Unready(w) \/ StartHost(w)
             \/ Prepare(w) \/ Abandon(w) \/ Acknowledge(w) \/ SettleSeen(w)
    BY <1>3, <1>3a, <1>3d, <1>3e, <2>9 DEF Connect, Converge, Archive, Discard, Unready, StartHost,
           Prepare, Abandon, Acknowledge, SettleSeen
  <2>10. CASE \/ ListTerminal(w) \/ ListTasks(w) \/ Review(w) \/ Pending(w) \/ ReadTasks(w)
              \/ ReadIntents(w) \/ ReadUnresolved(w) \/ Judge(w)
    <3>0. wk[w].pc # "wait"
      BY <2>10 DEF ListTerminal, ListTasks, Review, Pending, ReadTasks, ReadIntents,
             ReadUnresolved, Judge
    <3>1. \A u : ~Drop(w, u)
      BY <1>3b, <3>0
    <3>2. ReadUnresolved(w) => FALSE
      BY <1>3, <1>3a, <2>8 DEF ReadUnresolved
    <3>3. ListTerminal(w) => FALSE
      BY <1>3, <2>2 DEF ListTerminal
    <3>3a. ListTasks(w) => FALSE
      <4>1. \A u : u = {t \in Tasks : Observed[t] # "none"}
                      => wk' # [wk EXCEPT ![w].pc = "review", ![w].seen = Observed, ![w].pend = u]
        BY <2>3
      <4> QED
        BY <1>3, <4>1 DEF ListTasks
    <3>4. Review(w) => FALSE
      BY <1>3, <2>4, <3>1 DEF Review
    <3>5. Pending(w) => FALSE
      BY <1>3, <2>5 DEF Pending
    <3>6. ReadTasks(w) \/ ReadIntents(w) => FALSE
      BY <2>6, <2>7 DEF ReadTasks, ReadIntents
    <3>7. Judge(w) => FALSE
      BY <1>3, <3>1 DEF Judge
    <3> QED
      BY <2>10, <3>2, <3>3, <3>3a, <3>4, <3>5, <3>6, <3>7
  <2> QED
    BY <1>4, <2>9, <2>10 DEF WorkerStep
<1>5. CASE Send(w)
  <2>1. /\ job' = [job EXCEPT ![w] = [task |-> wk[w].task, step |-> "queued"]]
        /\ Goto(w, "wait") /\ wk[w].pc = "send"
    BY <1>3, <1>5 DEF Send
  <2>2. wk[w].op = "spawn"
    BY <2>1 DEF Roles, Role
  <2> QED
    BY <1>3a, <2>1, <2>2 DEF JobsTyped
<1>6. CASE HostStep(w)
  <2>1. \A label : ~Reply(w, label)
    BY <1>2 DEF Reply, WorkTyped, Op
  <2>2. \A label : Step(w, label) => job'[w].task = job[w].task
    BY DEF Step, JobsTyped, Request
  <2>3. UNCHANGED wk /\ \E label : Step(w, label)
    BY <1>6, <2>1 DEF HostStep, Admit, Intend, Launch, Record, Clear, Report
  <2> QED
    BY <1>1, <2>2, <2>3
<1>7. CASE \/ Abort(w) \/ StartPass(w)
           \/ \E t \in Tasks : StartTask(w, t) \/ Inspect(w, t) \/ ReleaseByHand(w, t)
  <2>1. \A u, h : wk' # [wk EXCEPT ![w] = [Idle EXCEPT !.pc = "settle", !.op = "inspect",
                                                      !.task = u, !.client = h]]
    BY DEF Idle, WorkTyped
  <2>2. UNCHANGED <<wk, job>>
    BY <1>3, <1>3c, <1>7, <2>1 DEF Abort, StartPass, StartTask, Inspect, ReleaseByHand
  <2> QED
    BY <1>1, <2>2
<1>8. ASSUME NEW v \in Workers, v # w, OperationStep(v)
      PROVE  wk'[w] = wk[w] /\ job'[w] = job[w]
  <2>1. wk'[w] = wk[w]
    BY <1>8, OthersStay
  <2>2. UNCHANGED job \/ \E r : job' = [job EXCEPT ![v] = r]
    BY <1>8 DEF OperationStep, WorkerStep, HostStep, Connect, Converge, Archive, Discard, Unready,
        StartHost, ListTerminal, Prepare, Send, Abandon, ListTasks, Review, Acknowledge, Pending,
        ReadTasks, ReadIntents, ReadUnresolved, Judge, SettleSeen, Admit, Intend, Launch, Record,
        Clear, Report, Abort, StartPass, StartTask, Inspect, ReleaseByHand, Reply, Step
  <2> QED
    BY <1>8, <2>1, <2>2 DEF JobsTyped
<1>9. HostEnds => wk'[w] = Idle \/ wk'[w].pc # "wait"
  BY DEF HostEnds
<1> QED
  BY <1>1, <1>2, <1>4, <1>5, <1>6, <1>7, <1>8, <1>9
     DEF OperationStep, Next, Persist, Withdraw, HostEnds, ProcessExits, vars

LEMMA SendRequests ==
    ASSUME Kept, Roles, NEW w \in Workers, NEW t \in Services, Send(w), OneRequest(t)
    PROVE  OneRequest(t)'
<1> USE DEF Kept, Parts
<1>0. t \in Tasks /\ UNCHANGED <<launched, fresh>>
  BY DEF Tasks, Send, os
<1>1. NothingAsked(t)
  BY <1>0, NoAsking DEF Send, Excused, Starting, Recovering
<1>2. CASE UNCHANGED job
  <2>1. NoNewRequest(t)
    BY <1>1, <1>2 DEF NoNewRequest, Asked
  <2> QED
    BY <1>0, <2>1, RequestsKept
<1>3. CASE /\ job' = [job EXCEPT ![w] = [task |-> wk[w].task, step |-> "queued"]]
           /\ Goto(w, "wait")
  <2>1. \A v \in Workers : v # w => job'[v] = job[v]
    BY <1>3 DEF JobsTyped
  <2>2. job'[w].task = wk[w].task /\ job'[w].step = "queued"
    BY <1>3 DEF JobsTyped
  <2>3. CASE wk[w].task # t
    <3>1. NoNewRequest(t)
      BY <1>1, <2>1, <2>2, <2>3 DEF NoNewRequest, Asked
    <3> QED
      BY <1>0, <3>1, RequestsKept
  <2>4. CASE wk[w].task = t /\ wk[w].op = "spawn"
    <3>1. Asking(w, t)
      BY <2>4 DEF Send, Asking, Starting
    <3>2. \A v \in Workers : v # w => ~Requested(v, t)
      BY <3>1 DEF OneRequest, Requested
    <3>3. ~Asking(w, t)'
      BY <1>3 DEF Goto, Asking, Starting, Recovering, WorkTyped, Op
    <3>4. ASSUME NEW v \in Workers, v # w PROVE ~Requested(v, t)'
      BY <1>1, <2>1, <3>2, <3>4 DEF NothingAsked, Requested, Asked
    <3>5. launched[t] = 0 /\ t \notin fresh
      BY <3>1 DEF OneRequest, Requested
    <3>6. \A v \in Workers : Requested(v, t)' => v = w
      BY <3>4
    <3>7. \A v \in Workers : ~(Asking(v, t)' /\ Asked(v, t)')
      BY <3>3, <3>4 DEF Requested
    <3> QED
      BY <1>0, <3>5, <3>6, <3>7 DEF OneRequest
  <2> QED
    BY <2>3, <2>4 DEF Send, Roles, Role
<1> QED
  BY <1>2, <1>3 DEF Send

LEMMA OneRequestKept ==
    ASSUME Kept, Roles, Waits, [Next]_vars, NEW t \in Services, OneRequest(t)
    PROVE  OneRequest(t)'
<1> USE DEF Kept, Parts
<1>0. t \in Tasks
  BY DEF Tasks
<1>1. CASE \E w \in Workers : WorkerStep(w) \/ HostStep(w)
  BY <1>1, WorkerRequests, HostRequests, SendRequests
<1>2. ASSUME NEW w \in Workers, NEW u \in Tasks, StartTask(w, u) PROVE OneRequest(t)'
  <2>1. UNCHANGED <<job, launched>> /\ fresh' = fresh \ {u}
    BY <1>2 DEF StartTask, os
  <2>2. /\ wk'[w].pc = "connect" /\ wk'[w].op = "spawn" /\ wk'[w].task = u
        /\ \A v \in Workers : v # w => wk'[v] = wk[v]
    BY <1>2 DEF StartTask, Become, Idle, WorkTyped
  <2>3. \A v \in Workers : Asked(v, t)' <=> Asked(v, t)
    BY <2>1 DEF Asked
  <2>4. \A v \in Workers : v # w => (Asking(v, t)' <=> Asking(v, t))
    BY <2>2 DEF Asking
  <2>5. CASE u = t
    <3>1. t \in fresh
      BY <1>2, <2>5, HostedAssumption DEF StartTask
    <3>2. \A v \in Workers : ~Requested(v, t)
      BY <3>1 DEF OneRequest
    <3>3. \A v \in Workers : Requested(v, t)' => v = w
      BY <2>3, <2>4, <3>2 DEF Requested
    <3>4. \A v \in Workers : ~Asked(v, t)'
      BY <2>3, <3>2 DEF Requested
    <3>5. launched'[t] = 0 /\ t \notin fresh'
      BY <2>1, <2>5, <3>1 DEF OneRequest
    <3> QED
      BY <3>3, <3>4, <3>5 DEF OneRequest
  <2>6. CASE u # t
    <3>1. ~Asking(w, t)'
      BY <2>2, <2>6 DEF Asking
    <3>2. NoNewRequest(t)
      BY <2>3, <2>4, <3>1 DEF NoNewRequest, NothingAsked
    <3> QED
      BY <2>1, <3>2, RequestsKept
  <2> QED
    BY <2>5, <2>6
<1>3. ASSUME NEW w \in Workers,
             \/ Abort(w) \/ StartPass(w) \/ \E u \in Tasks : Inspect(w, u) \/ ReleaseByHand(w, u)
      PROVE  OneRequest(t)'
  <2>1. UNCHANGED <<job, launched, fresh>>
    BY <1>3 DEF Abort, StartPass, Inspect, ReleaseByHand, os
  <2>2. \A u, h : wk' = [wk EXCEPT ![w] = [Idle EXCEPT !.pc = "settle", !.op = "inspect",
                                                      !.task = u, !.client = h]]
                    => NothingAsked(t)
    BY DEF NothingAsked, Asking, Idle, WorkTyped, Starting, Recovering
  <2>3. NothingAsked(t)
    <3>1. Abort(w) \/ StartPass(w) => NothingAsked(t)
      BY <1>0, NoAsking DEF Abort, StartPass
    <3>2. \A u \in Tasks : Inspect(w, u) \/ ReleaseByHand(w, u) => NothingAsked(t)
      BY <1>0, <2>2, NoAsking DEF Inspect, ReleaseByHand
    <3> QED
      BY <1>3, <3>1, <3>2
  <2>4. NoNewRequest(t)
    BY <2>1, <2>3 DEF NoNewRequest, Asked
  <2> QED
    BY <2>1, <2>4, RequestsKept
<1>4. CASE HostEnds
  <2>1. NoNewRequest(t) /\ UNCHANGED <<launched, fresh>>
    BY <1>4 DEF HostEnds, NoNewRequest, NothingAsked, Asking, Asked, Idle, NoJob, os
  <2> QED
    BY <2>1, RequestsKept
<1>5. CASE UNCHANGED <<job, wk, launched, fresh>>
  <2>1. NoNewRequest(t)
    BY <1>5 DEF NoNewRequest, NothingAsked, Asking, Asked
  <2> QED
    BY <1>5, <2>1, RequestsKept
<1> QED
  BY <1>1, <1>2, <1>3, <1>4, <1>5 DEF Next, Persist, Withdraw, ProcessExits, vars, os

\* The process of a service that is over stays over: it is not launched again.
LEMMA EndedStays ==
    ASSUME Kept, [Next]_vars, NEW t \in Services, OneRequest(t), Ended(t)
    PROVE  Ended(t)'
<1> USE DEF Kept, Parts, RestTyped
<1>0. t \in Tasks
  BY DEF Tasks
<1>1. CASE UNCHANGED <<proc, launched>>
  BY <1>1 DEF Ended
<1>2. ASSUME NEW u \in Tasks, ProcessExits(u) PROVE Ended(t)'
  BY <1>0, <1>2 DEF ProcessExits, Ended
<1>3. ASSUME NEW w \in Workers, Launch(w) PROVE Ended(t)'
  <2>1. job[w].step = "launch" /\ job[w].task \in Tasks
    BY <1>3 DEF Launch, JobsTyped
  <2>2. job[w].task # t
    BY <2>1 DEF OneRequest, Requested, Asked, Ended
  <2>3. proc'[t] = proc[t] /\ launched'[t] = launched[t]
    BY <1>0, <1>3, <2>1, <2>2 DEF Launch, os
  <2> QED
    BY <2>3 DEF Ended
<1>4. ASSUME NEW w \in Workers, WorkerStep(w) \/ (HostStep(w) /\ ~Launch(w))
      PROVE  UNCHANGED <<proc, launched>>
  BY <1>4 DEF WorkerStep, HostStep, Connect, Converge, Archive, Discard, Unready, StartHost,
        ListTerminal, Prepare, Send, Abandon, ListTasks, Review, Acknowledge, Pending, ReadTasks,
        ReadIntents, ReadUnresolved, Judge, SettleSeen, Admit, Intend, Record, Clear, Report, os
<1> QED
  BY <1>1, <1>2, <1>3, <1>4 DEF Next, Abort, StartPass, StartTask, Inspect, ReleaseByHand, Persist,
                                Withdraw, HostEnds, vars, os

LEMMA FactsAlone ==
    ASSUME Parts, NEW t \in Services, FactsTrue(t), UNCHANGED os,
           UNCHANGED <<tasks, facts, entries>>, Up' => Up
    PROVE  FactsTrue(t)'
  BY DEF FactsTrue, Ended, os

\* What a host observes is so.
LEMMA ObservedTrue ==
    ASSUME Parts, NEW t \in Services, FactsTrue(t)
    PROVE  /\ Observed[t] # "none" => launched[t] # 0
           /\ Proven(Observed[t]) => Ended(t)
           /\ Observed[t] = "present" => t \notin entries /\ facts[t] = "present"
           /\ facts[t] = "present" /\ t \notin entries => Observed[t] = "present"
  BY DEF FactsTrue, Ended, Observed, Proven, Tasks

LEMMA FactsObserved ==
    ASSUME Parts, NEW t \in Services, FactsTrue(t), Up, UNCHANGED <<os, entries, owner>>,
           facts' = Observed, tasks' \in {tasks, Observed}
    PROVE  FactsTrue(t)'
<1>1. UNCHANGED <<proc, strays, launched>> /\ (Ended(t)' <=> Ended(t)) /\ Up'
  BY DEF os, Ended, Up
<1>2. facts'[t] = Observed[t] /\ tasks'[t] \in {tasks[t], Observed[t]}
  OBVIOUS
<1> QED
  BY <1>1, <1>2, ObservedTrue DEF FactsTrue

LEMMA HostFacts ==
    ASSUME Kept, NEW w \in Workers, NEW t \in Services, HostStep(w), OneRequest(t), FactsTrue(t)
    PROVE  FactsTrue(t)'
<1> USE DEF Kept, Parts
<1>0. t \in Tasks /\ Up /\ UNCHANGED owner
  BY AtWork DEF Tasks, HostStep, Admit, Intend, Launch, Record, Clear, Report
<1>1. CASE UNCHANGED <<os, tasks, facts, entries>>
  BY <1>0, <1>1, FactsAlone DEF Up
<1>2. CASE UNCHANGED <<os, entries>> /\ facts' = Observed /\ tasks' \in {tasks, Observed}
  BY <1>0, <1>2, FactsObserved
<1>3. CASE /\ UNCHANGED <<os, tasks>>
           /\ \E u \in Evictable : facts' = [facts EXCEPT ![u] = "none"] /\ entries' = entries \ {u}
  <2>1. PICK u \in Evictable : facts' = [facts EXCEPT ![u] = "none"] /\ entries' = entries \ {u}
    BY <1>3
  <2>2. u \in Tasks /\ facts[u] = "exited"
    BY DEF Evictable, RestTyped
  <2>3. CASE u = t
    BY <1>0, <1>3, <2>1, <2>2, <2>3 DEF FactsTrue, Ended, Proven, os, RestTyped, Up
  <2>4. CASE u # t
    <3>1. facts'[t] = facts[t] /\ (t \in entries' <=> t \in entries) /\ Up'
      BY <1>0, <2>1, <2>2, <2>4 DEF RestTyped, Up
    <3> QED
      BY <1>0, <1>3, <3>1 DEF FactsTrue, Ended, os
  <2> QED
    BY <2>3, <2>4
<1>4. CASE Launch(w) /\ ~UNCHANGED os
  <2>0. PICK u \in Tasks : u = job[w].task
    BY <1>4, AtWork DEF Launch
  <2>1. /\ launched' = [launched EXCEPT ![u] = @ + 1] /\ proc' = [proc EXCEPT ![u] = "running"]
        /\ strays' = IF proc[u] = "running" THEN strays \cup {u} ELSE strays
        /\ entries' = entries \cup {u} /\ UNCHANGED <<tasks, facts>> /\ job[w].step = "launch"
    BY <1>4, <2>0 DEF Launch
  <2>2. CASE u = t
    <3>1. launched[t] = 0
      BY <2>0, <2>1, <2>2 DEF OneRequest, Requested, Asked
    <3>2. facts[t] = "none" /\ tasks[t] = "none" /\ proc[t] # "running"
      BY <1>0, <3>1, <2>1 DEF FactsTrue
    <3>3. launched'[t] # 0 /\ t \notin strays'
      BY <1>0, <2>1, <2>2, <3>1, <3>2 DEF RestTyped, FactsTrue
    <3> QED
      BY <2>1, <3>2, <3>3 DEF FactsTrue, Proven
  <2>3. CASE u # t
    BY <1>0, <2>1, <2>3 DEF FactsTrue, Ended, RestTyped, Up
  <2> QED
    BY <2>2, <2>3
<1>5. CASE Admit(w)
  BY <1>1, <1>2, <1>3, <1>5 DEF Admit, Persisted
<1>6. CASE Intend(w) \/ Clear(w)
  BY <1>1, <1>6 DEF Intend, Clear
<1>7. CASE Record(w) \/ Report(w)
  BY <1>2, <1>7 DEF Record, Report, Persisted
<1>8. CASE Launch(w) /\ UNCHANGED os
  <2>1. proc' = proc
    BY <1>8 DEF os
  <2>2. UNCHANGED <<tasks, facts>>
    BY <1>8 DEF Launch
  <2>3. CASE UNCHANGED entries
    BY <1>1, <1>8, <2>2, <2>3
  <2>4. CASE launched' = [launched EXCEPT ![job[w].task] = @ + 1]
    <3>1. launched' = launched /\ job[w].task \in Tasks
      BY <1>8, AtWork DEF os, Launch
    <3> QED
      BY <2>4, <3>1 DEF RestTyped
  <2> QED
    BY <1>8, <2>3, <2>4 DEF Launch
<1> QED
  BY <1>4, <1>5, <1>6, <1>7, <1>8 DEF HostStep

LEMMA FactsKept ==
    ASSUME Kept, Roles, [Next]_vars, NEW t \in Services, OneRequest(t), FactsTrue(t)
    PROVE  FactsTrue(t)'
<1> USE DEF Kept, Parts
<1>0. t \in Tasks /\ Workers \cap {"nobody", "host"} = {}
  BY HostedAssumption DEF Tasks
<1>1. ASSUME NEW w \in Workers, HostStep(w) PROVE FactsTrue(t)'
  BY <1>1, HostFacts
<1>2. ASSUME NEW w \in Workers,
             \/ Connect(w) \/ Archive(w) \/ Discard(w) \/ Unready(w) \/ Abort(w)
             \/ Prepare(w) \/ Send(w) \/ Abandon(w) \/ Review(w) \/ Acknowledge(w) \/ Pending(w)
             \/ ReadTasks(w) \/ ReadIntents(w) \/ ReadUnresolved(w) \/ Judge(w) \/ SettleSeen(w)
             \/ StartPass(w) \/ \E u \in Tasks : StartTask(w, u) \/ ReleaseByHand(w, u)
      PROVE  FactsTrue(t)'
  <2>1. UNCHANGED os /\ UNCHANGED <<tasks, facts, entries>>
    BY <1>2 DEF Connect, Archive, Discard, Unready, Abort, Prepare, Send, Abandon, Review,
        Acknowledge, Pending, ReadTasks, ReadIntents, ReadUnresolved, Judge, SettleSeen, StartPass,
        StartTask, ReleaseByHand, state, host, os
  <2>2. Up' => Up
    BY <1>0, <1>2 DEF Connect, Archive, Discard, Unready, Abort, Prepare, Send, Abandon, Review,
        Acknowledge, Pending, ReadTasks, ReadIntents, ReadUnresolved, Judge, SettleSeen, StartPass,
        StartTask, ReleaseByHand, host, Up
  <2> QED
    BY <2>1, <2>2, FactsAlone
<1>3. ASSUME Up, Persisted, UNCHANGED <<os, entries, owner>> PROVE FactsTrue(t)'
  BY <1>3, FactsObserved DEF Persisted
<1>4. ASSUME NEW w \in Workers, ListTerminal(w) \/ ListTasks(w) \/ \E u \in Tasks : Inspect(w, u)
      PROVE  FactsTrue(t)'
  <2>1. UNCHANGED <<os, entries, owner>>
    BY <1>4 DEF ListTerminal, ListTasks, Inspect
  <2>2. (Up /\ Persisted) \/ UNCHANGED <<tasks, facts>>
    BY <1>4 DEF ListTerminal, ListTasks, Inspect, Connected, Serving
  <2> QED
    BY <1>3, <2>1, <2>2, FactsAlone DEF Up
<1>5. ASSUME NEW w \in Workers, Converge(w) PROVE FactsTrue(t)'
  <2>1. ~Up' /\ UNCHANGED <<facts, entries, proc, strays, launched>>
    BY <1>0, <1>5 DEF Converge, Order, Recovering, Up, host, os
  <2>2. \/ tasks'[t] = tasks[t]
        \/ tasks[t] = "live" /\ tasks'[t] = "gone" /\ proc[t] # "running"
        \/ tasks[t] = "live" /\ tasks'[t] = "present"
    BY <1>0, <1>5 DEF Converge
  <2> QED
    BY <2>1, <2>2 DEF FactsTrue, Ended, Proven
<1>6. ASSUME NEW w \in Workers, StartHost(w) PROVE FactsTrue(t)'
  <2>1. UNCHANGED <<tasks, os, entries>>
    BY <1>6 DEF StartHost, host
  <2>2. CASE UNCHANGED host
    BY <2>1, <2>2, FactsAlone DEF host, Up
  <2>3. CASE owner = "nobody" /\ facts' = tasks
    <3>1. entries = {}
      BY <2>3 DEF Hosted, Up
    <3>2. UNCHANGED <<proc, strays, launched>>
      BY <2>1 DEF os
    <3> QED
      BY <2>1, <2>3, <3>1, <3>2 DEF FactsTrue, Ended
  <2> QED
    BY <1>6, <2>2, <2>3 DEF StartHost
<1>7. CASE HostEnds
  <2>1. UNCHANGED <<tasks, proc, strays, launched>> /\ entries' = {} /\ facts'[t] = "none" /\ ~Up'
    BY <1>0, <1>7 DEF HostEnds, state, os, NoFacts, Up
  <2> QED
    BY <2>1 DEF FactsTrue, Ended, Proven
<1>8. ASSUME NEW u \in Tasks, ProcessExits(u) PROVE FactsTrue(t)'
  <2>1. /\ UNCHANGED <<tasks, facts, entries, launched, owner>> /\ strays' \subseteq strays
        /\ proc'[t] = "running" => proc[t] = "running"
    BY <1>0, <1>8 DEF ProcessExits, state, host, RestTyped
  <2> QED
    BY <2>1 DEF FactsTrue, Ended, Up
<1>9. CASE Persist
  BY <1>3, <1>9 DEF Persist
<1>10. CASE Withdraw \/ UNCHANGED vars
  BY <1>10, FactsAlone DEF Withdraw, vars, state, host, Up
<1> QED
  BY <1>1, <1>2, <1>4, <1>5, <1>6, <1>7, <1>8, <1>9, <1>10 DEF Next, WorkerStep

\* A process of which there is no proof gets none while the records say so.
LEMMA PresentStays ==
    ASSUME Kept, [Next]_vars, NEW t \in Services, FactsTrue(t), tasks[t] = "present"
    PROVE  tasks'[t] = "present"
<1> USE DEF Kept, Parts
<1>0. t \in Tasks /\ (Up => Observed[t] = "present")
  BY DEF Tasks, FactsTrue, Observed
<1>1. Up /\ Persisted => tasks'[t] = "present"
  BY <1>0 DEF Persisted
<1>2. ASSUME NEW w \in Workers, HostStep(w) PROVE tasks'[t] = "present"
  <2>1. Up
    BY <1>2, AtWork DEF HostStep, Admit, Intend, Launch, Record, Clear, Report
  <2> QED
    BY <1>1, <1>2, <2>1 DEF HostStep, Admit, Intend, Launch, Record, Clear, Report
<1>3. ASSUME NEW w \in Workers, WorkerStep(w) PROVE tasks'[t] = "present"
  <2>1. Converge(w) => tasks'[t] = "present"
    BY <1>0 DEF Converge
  <2>2. ListTerminal(w) \/ ListTasks(w) => tasks'[t] = "present"
    BY <1>1 DEF ListTerminal, ListTasks, Connected, Serving
  <2> QED
    BY <1>3, <2>1, <2>2 DEF WorkerStep, Connect, Archive, Discard, Unready, StartHost, Prepare,
        Send, Abandon, Review, Acknowledge, Pending, ReadTasks, ReadIntents, ReadUnresolved,
        Judge, SettleSeen, state
<1>4. Withdraw \/ HostEnds \/ (\E u \in Tasks : ProcessExits(u)) \/ UNCHANGED vars => UNCHANGED tasks
  BY DEF Withdraw, HostEnds, ProcessExits, vars, state
<1>5. ASSUME NEW w \in Workers, Abort(w) \/ StartPass(w) PROVE UNCHANGED tasks
  BY <1>5 DEF Abort, StartPass, state
<1>6. ASSUME NEW w \in Workers, NEW u \in Tasks, StartTask(w, u) \/ ReleaseByHand(w, u)
      PROVE  UNCHANGED tasks
  BY <1>6 DEF StartTask, ReleaseByHand, state
<1>7. ASSUME NEW w \in Workers, NEW u \in Tasks, Inspect(w, u) PROVE tasks'[t] = "present"
  BY <1>1, <1>7 DEF Inspect, Serving
<1>8. Persist => tasks'[t] = "present"
  BY <1>1 DEF Persist
<1> QED
  BY <1>2, <1>3, <1>4, <1>5, <1>6, <1>7, <1>8 DEF Next

\* A worker that reads nothing new, and looks at no task.
SameSight(r, v) ==
    /\ r.seen \in {v.seen, NoFacts}
    /\ r.pc = "settle" => v.pc = "settle" /\ r.task = v.task

LEMMA SightsAlone ==
    ASSUME NEW t \in Services, SightsTrue(t), NEW w \in Workers, SameSight(wk'[w], wk[w]),
           Ended(t) => Ended(t)', tasks[t] = "present" => tasks'[t] = "present"
    PROVE  /\ Proven(wk'[w].seen[t]) => Ended(t)'
           /\ wk'[w].pc = "settle" /\ wk'[w].task = t => Ended(t)' \/ tasks'[t] = "present"
<1>1. ~Proven(NoFacts[t])
  BY DEF NoFacts, Proven, Tasks
<1> QED
  BY <1>1 DEF SightsTrue, SameSight

LEMMA SightsKept ==
    ASSUME Kept, [Next]_vars, NEW t \in Services, OneRequest(t), FactsTrue(t), SightsTrue(t)
    PROVE  SightsTrue(t)'
<1> USE DEF Kept, Parts
<1>0. /\ t \in Tasks
      /\ Ended(t) => Ended(t)'
      /\ tasks[t] = "present" => tasks'[t] = "present"
  BY EndedStays, PresentStays DEF Tasks
<1> SUFFICES ASSUME NEW w \in Workers
             PROVE  /\ Proven(wk'[w].seen[t]) => Ended(t)'
                    /\ wk'[w].pc = "settle" /\ wk'[w].task = t => Ended(t)' \/ tasks'[t] = "present"
  BY DEF SightsTrue
<1> DEFINE Goal == /\ Proven(wk'[w].seen[t]) => Ended(t)'
                   /\ wk'[w].pc = "settle" /\ wk'[w].task = t => Ended(t)' \/ tasks'[t] = "present"
<1>1. SameSight(wk'[w], wk[w]) => Goal
  BY <1>0, SightsAlone
<1>2. wk'[w] = wk[w] \/ wk'[w] = Idle => SameSight(wk'[w], wk[w])
  BY DEF SameSight, Idle
<1>3. /\ Done(w) => wk'[w] = Idle
      /\ \A label : Goto(w, label) /\ label # "settle" => SameSight(wk'[w], wk[w])
  BY DEF Done, Goto, SameSight, WorkTyped, Op
<1>4. /\ \A u : Drop(w, u) => SameSight(wk'[w], wk[w])
      /\ \A label, o, u : Become(w, label, o, u) /\ label # "settle" => SameSight(wk'[w], wk[w])
  <2>1. wk \in [Workers -> Op]
    BY DEF WorkTyped
  <2> HIDE DEF Kept, Parts
  <2>2. \A u : Drop(w, u) => SameSight(wk'[w], wk[w])
    BY <2>1 DEF Drop, SameSight, Op
  <2>3. ASSUME NEW label, NEW o, NEW u, Become(w, label, o, u), label # "settle"
        PROVE  SameSight(wk'[w], wk[w])
    <3>1. wk'[w] = [Idle EXCEPT !.pc = label, !.op = o, !.task = u]
      BY <2>1, <2>3 DEF Become
    <3>2. wk'[w].seen = NoFacts /\ wk'[w].pc = label
      BY <3>1 DEF Idle
    <3> QED
      BY <2>3, <3>2 DEF SameSight
  <2> QED
    BY <2>2, <2>3
<1>5. /\ \A h : Attach(w, h) => SameSight(wk'[w], wk[w])
      /\ AfterRecovery(w) => SameSight(wk'[w], wk[w])
  <2>1. wk \in [Workers -> Op]
    BY DEF WorkTyped
  <2> HIDE DEF Kept, Parts
  <2>2. \A h : Attach(w, h) => SameSight(wk'[w], wk[w])
    BY <2>1 DEF Attach, SameSight, Op
  <2>3. AfterRecovery(w) => SameSight(wk'[w], wk[w])
    <3> DEFINE label == CASE wk[w].op = "spawn" -> "start"
                          [] wk[w].op = "release" -> "read_tasks"
                          [] OTHER -> "pending"
    <3>1. label # "settle"
      OBVIOUS
    <3>2. AfterRecovery(w) => wk' = [wk EXCEPT ![w].client = IF Up THEN 0 ELSE inst, ![w].pc = label]
      BY DEF AfterRecovery
    <3> HIDE DEF label
    <3> QED
      BY <2>1, <3>1, <3>2 DEF SameSight, Op
  <2> QED
    BY <2>2, <2>3
<1>6. CASE \/ Connect(w) \/ Converge(w) \/ Archive(w) \/ Discard(w) \/ Unready(w) \/ StartHost(w)
  <2>1. SameSight(wk'[w], wk[w])
    BY <1>2, <1>3, <1>5, <1>6 DEF Connect, Converge, Archive, Discard, Unready, StartHost
  <2> QED
    BY <1>1, <2>1
<1>7. CASE \/ Prepare(w) \/ Send(w) \/ Abandon(w) \/ Acknowledge(w) \/ Judge(w) \/ SettleSeen(w)
           \/ Abort(w) \/ StartPass(w) \/ \E u \in Tasks : StartTask(w, u) \/ ReleaseByHand(w, u)
  <2>1. SameSight(wk'[w], wk[w])
    BY <1>2, <1>3, <1>4, <1>7 DEF Prepare, Send, Abandon, Acknowledge, Judge, SettleSeen, Abort,
                                 StartPass, StartTask, ReleaseByHand
  <2> QED
    BY <1>1, <2>1
<1>8. CASE ListTerminal(w) \/ Review(w) \/ Pending(w)
  <2>1. \A k : wk' = [wk EXCEPT ![w].known = k, ![w].pc = "prepare"] => SameSight(wk'[w], wk[w])
    BY DEF SameSight, WorkTyped, Op
  <2>2. \A u : wk' = [wk EXCEPT ![w].pc = "ack", ![w].task = u, ![w].pend = @ \ {u}]
                 => SameSight(wk'[w], wk[w])
    BY DEF SameSight, WorkTyped, Op
  <2>3. \A p : wk' = [wk EXCEPT ![w].pend = p, ![w].pc = "read_tasks"] => SameSight(wk'[w], wk[w])
    BY DEF SameSight, WorkTyped, Op
  <2>4. SameSight(wk'[w], wk[w])
    BY <1>2, <1>3, <1>4, <1>8, <2>1, <2>2, <2>3 DEF ListTerminal, Review, Pending
  <2> QED
    BY <1>1, <2>4
<1>9. CASE ReadIntents(w) \/ ReadUnresolved(w)
  <2>1. \A h : wk' = [wk EXCEPT ![w].hinted = h, ![w].pc = "read_unresolved"]
                 => SameSight(wk'[w], wk[w])
    BY DEF SameSight, WorkTyped, Op
  <2>2. \A h : wk' = [wk EXCEPT ![w].hinted = @ \cup h, ![w].pc = "judge"]
                 => SameSight(wk'[w], wk[w])
    BY DEF SameSight, WorkTyped, Op
  <2>3. SameSight(wk'[w], wk[w])
    BY <1>2, <1>3, <1>9, <2>1, <2>2 DEF ReadIntents, ReadUnresolved
  <2> QED
    BY <1>1, <2>3
<1>10. CASE ListTasks(w)
  <2>1. \A p : wk' = [wk EXCEPT ![w].pc = "review", ![w].seen = Observed, ![w].pend = p]
                 => wk'[w].seen = Observed /\ wk'[w].pc = "review"
    BY DEF WorkTyped, Op
  <2>2. CASE wk'[w].seen = Observed /\ wk'[w].pc = "review"
    BY <1>0, <2>2, ObservedTrue
  <2> QED
    BY <1>1, <1>2, <1>3, <1>10, <2>1, <2>2 DEF ListTasks
<1>11. CASE ReadTasks(w)
  <2>1. wk'[w].seen = tasks /\ wk'[w].pc = "read_intents"
    BY <1>11 DEF ReadTasks, WorkTyped, Op
  <2> QED
    BY <1>0, <2>1 DEF FactsTrue
<1>12. ASSUME NEW u \in Tasks, Inspect(w, u) PROVE Goal
  <2>1. CASE wk' = [wk EXCEPT ![w] = [Idle EXCEPT !.pc = "settle", !.op = "inspect", !.task = u,
                                                 !.client = inst]]
             /\ Terminal(Observed[u])
    <3>1. wk'[w].seen = NoFacts /\ wk'[w].task = u
      BY <2>1 DEF Idle, WorkTyped
    <3>2. ~Proven(NoFacts[t])
      BY <1>0 DEF NoFacts, Proven
    <3>3. CASE u = t /\ Observed[t] = "present"
      <4>1. tasks'[t] = "present"
        BY <1>0, <1>12, <3>3 DEF Inspect, Persisted
      <4> QED
        BY <3>1, <3>2, <4>1
    <3>4. CASE u = t /\ Proven(Observed[t])
      BY <1>0, <3>1, <3>2, <3>4, ObservedTrue
    <3>5. CASE u # t
      BY <3>1, <3>2, <3>5
    <3> QED
      BY <2>1, <3>3, <3>4, <3>5 DEF Terminal, Proven
  <2>2. CASE UNCHANGED wk
    BY <1>1, <1>2, <2>2
  <2> QED
    BY <1>12, <2>1, <2>2 DEF Inspect
<1>13. CASE HostStep(w)
  <2>1. \A label : Reply(w, label) => SameSight(wk'[w], wk[w])
    BY DEF Reply, SameSight, Idle, WorkTyped, Op
  <2>2. SameSight(wk'[w], wk[w])
    BY <1>2, <1>13, <2>1 DEF HostStep, Admit, Intend, Launch, Record, Clear, Report
  <2> QED
    BY <1>1, <2>2
<1>14. CASE wk'[w] = wk[w] \/ wk'[w] = Idle
  BY <1>1, <1>2, <1>14
<1>15. \A v \in Workers : v # w /\ OperationStep(v) => wk'[w] = wk[w]
  BY OthersStay DEF Parts
<1> QED
  BY <1>6, <1>7, <1>8, <1>9, <1>10, <1>11, <1>12, <1>13, <1>14, <1>15
     DEF OperationStep, WorkerStep, Next, Persist, Withdraw, HostEnds, ProcessExits, vars

\* The steps that settle: what they take for an exit is one.
LEMMA SettlesTrue ==
    ASSUME Kept, [Next]_vars, NEW t \in Services, Evident(t),
           ~Settled(t), Settled(t)'
    PROVE  ~Alive(t) \/ tasks[t] = "present"
<1> USE DEF Kept, Parts, RestTyped
<1>0. t \in Tasks /\ t \notin strays
  BY DEF Tasks, Evident, FactsTrue
<1>1. Ended(t) => ~Alive(t)
  BY <1>0 DEF Ended, Alive
<1>2. journal'[t] # journal[t]
  BY DEF Settled
<1>3. PICK w \in Workers : WorkerStep(w)
  <2>1. ASSUME NEW w \in Workers, HostStep(w) PROVE UNCHANGED journal
    BY <2>1 DEF HostStep, Admit, Intend, Launch, Record, Clear, Report
  <2> QED
    BY <1>2, <2>1 DEF Next, Abort, StartPass, StartTask, Inspect, ReleaseByHand, Persist,
                      Withdraw, HostEnds, ProcessExits, vars
<1>4. \A u \in Tasks : Settle(u) => u = t
  BY <1>0, <1>2 DEF Settle
<1>5. \A u \in Tasks : ~Release(u)
  BY <1>0, <1>2 DEF Release, Settled
<1>6. CASE Review(w) \/ Judge(w)
  <2>1. wk[w].pend \subseteq Tasks
    BY DEF WorkTyped, Op
  <2>2. PICK u \in Tasks : Settle(u) /\ Proven(wk[w].seen[u])
    BY <1>2, <1>5, <1>6, <2>1 DEF Review, Judge
  <2>3. Proven(wk[w].seen[t])
    BY <1>4, <2>2
  <2> QED
    BY <1>1, <2>3 DEF Evident, SightsTrue
<1>7. CASE SettleSeen(w)
  <2>1. wk[w].task \in Tasks /\ wk[w].pc = "settle"
    BY <1>7 DEF SettleSeen, WorkTyped, HasTask
  <2>2. wk[w].task = t
    BY <1>2, <1>4, <1>7, <2>1 DEF SettleSeen
  <2> QED
    BY <1>1, <2>1, <2>2 DEF Evident, SightsTrue
<1>8. CASE Prepare(w)
  BY <1>0, <1>8 DEF Prepare, Settled, WorkTyped, HasTask
<1>9. CASE Abandon(w)
  BY <1>2, <1>0, <1>9 DEF Abandon, Release, Settled
<1> QED
  BY <1>2, <1>3, <1>6, <1>7, <1>8, <1>9 DEF WorkerStep, Connect, Converge, Archive, Discard,
      Unready, StartHost, ListTerminal, Send, ListTasks, Acknowledge, Pending, ReadTasks,
      ReadIntents, ReadUnresolved

Truthful == Kept /\ \A t \in Services : Evident(t)

\* A reservation is settled under a running process only when a host that did not
\* start it reports it as unknown, whatever is read and settled in between.
THEOREM SettledWhenOver == Spec => SettledOnEvidence
<1>1. Init => Truthful
  <2> SUFFICES ASSUME Init, NEW t \in Services PROVE Evident(t)
    BY InitKept DEF Truthful
  <2>1. Roles /\ Waits
    BY DEF Init, Roles, Role, Waits, Idle, Recovering
  <2>2. OneRequest(t) /\ FactsTrue(t)
    BY DEF Init, OneRequest, FactsTrue, Requested, Asking, Asked, Idle, NoJob, NoFacts, Proven,
           Starting, Recovering, Ended, Tasks, Up
  <2>3. SightsTrue(t)
    BY DEF Init, SightsTrue, Idle, NoFacts, Proven, Tasks
  <2> QED
    BY <2>1, <2>2, <2>3 DEF Evident
<1>2. Truthful /\ [Next]_vars => Truthful'
  <2> SUFFICES ASSUME Truthful, [Next]_vars PROVE Truthful'
    OBVIOUS
  <2>1. Kept'
    BY KeptKept, HostedAssumption DEF Truthful
  <2>2. ASSUME NEW t \in Services PROVE Evident(t)'
    <3>1. Kept /\ Roles /\ Waits /\ OneRequest(t) /\ FactsTrue(t) /\ SightsTrue(t)
      BY DEF Truthful, Evident
    <3>2. Roles' /\ Waits'
      BY <3>1, RolesKept, WaitsKept, HostedAssumption DEF Kept
    <3> QED
      BY <3>1, <3>2, OneRequestKept, FactsKept, SightsKept DEF Evident
  <2> QED
    BY <2>1, <2>2 DEF Truthful
<1>3. Truthful /\ [Next]_vars
        => [\A t \in Services : journal[t] # "settled" /\ journal'[t] = "settled"
              => ~Alive(t) \/ tasks[t] = "present"]_vars
  <2> SUFFICES ASSUME Truthful, [Next]_vars, NEW t \in Services,
                      journal[t] # "settled", journal'[t] = "settled"
               PROVE  ~Alive(t) \/ tasks[t] = "present"
    OBVIOUS
  <2>1. ~Settled(t) /\ Settled(t)'
    BY DEF Settled
  <2> QED
    BY <2>1, SettlesTrue DEF Truthful
<1> QED
  BY <1>1, <1>2, <1>3, PTL DEF Spec, SettledOnEvidence


-------------------------------------------------------------------------------
(* A reservation is dropped only of a service that was never launched *)

\* Launched, and its end not consumed.
Outstanding(t) == launched[t] # 0 /\ ~Settled(t)

\* Such a service has a fact or an intent, whoever dies and whatever a host forgets.
Recorded(t) ==
    Outstanding(t) =>
        IF Up THEN IF t \in entries THEN tasks[t] # "none" \/ t \in intents \cap intended
                                    ELSE (facts[t] # "none" /\ tasks[t] # "none") \/ t \in unresolved
              ELSE tasks[t] # "none" \/ t \in intents \cup unresolved

\* What its request has established in the host before the intent is cleared.
Answered(t) ==
    \A w \in Workers : job[w].task = t /\ Outstanding(t)
        => /\ job[w].step \in {"record", "clear", "report"} => t \in entries
           /\ job[w].step \in {"clear", "report"} => tasks[t] # "none"

Traced(t) == Recorded(t) /\ Answered(t)

\* The requests that are past the launch.
OldAnswers == \A w \in Workers : job'[w].step \in {"record", "clear", "report"} => job'[w] = job[w]

LEMMA TracedAlone ==
    ASSUME NEW t \in Services, Traced(t), Settled(t) => Settled(t)', OldAnswers,
           UNCHANGED <<tasks, intents, owner, facts, entries, intended, launched>>,
           unresolved \subseteq unresolved'
    PROVE  Traced(t)'
<1>1. Outstanding(t)' => Outstanding(t)
  BY DEF Outstanding
<1>2. Recorded(t)'
  BY <1>1 DEF Traced, Recorded, Up
<1>3. Answered(t)'
  BY <1>1 DEF Traced, Answered, OldAnswers
<1> QED
  BY <1>2, <1>3 DEF Traced

\* A request to whose task the fact is written out.
Written(w) == job[w].step = "record" /\ job'[w].task = job[w].task /\ tasks' = Observed

LEMMA TracedObserved ==
    ASSUME Parts, Up, NEW t \in Services, Traced(t), Settled(t) => Settled(t)',
           UNCHANGED <<intents, unresolved, owner, entries, intended, launched>>,
           facts' = Observed, tasks' \in {tasks, Observed},
           \A w \in Workers : job'[w].step \in {"record", "clear", "report"}
                                => job'[w] = job[w] \/ Written(w)
    PROVE  Traced(t)'
<1>1. Outstanding(t)' => Outstanding(t)
  BY DEF Outstanding
<1>2. t \in entries => Observed[t] # "none"
  BY DEF Observed, Tasks
<1>3. t \notin entries => Observed[t] = facts[t]
  BY DEF Observed, Tasks
<1>4. tasks'[t] \in {tasks[t], Observed[t]} /\ facts'[t] = Observed[t]
  OBVIOUS
<1>5. Recorded(t)'
  BY <1>1, <1>2, <1>3, <1>4 DEF Traced, Recorded, Up
<1>6. Answered(t)'
  <2> SUFFICES ASSUME NEW w \in Workers, job'[w].task = t, Outstanding(t)',
                      job'[w].step \in {"record", "clear", "report"}
               PROVE  t \in entries /\ (job'[w].step \in {"clear", "report"} => tasks'[t] # "none")
    BY DEF Answered
  <2>1. CASE job'[w] = job[w]
    BY <1>1, <1>2, <1>4, <2>1 DEF Traced, Answered
  <2>2. CASE Written(w)
    <3>1. t \in entries
      BY <1>1, <2>2 DEF Written, Traced, Answered
    <3> QED
      BY <1>2, <2>2, <3>1 DEF Written
  <2> QED
    BY <2>1, <2>2
<1> QED
  BY <1>5, <1>6 DEF Traced

\* The steps of the host on a request.
LEMMA HostTraced ==
    ASSUME Kept, Consumed, NEW w \in Workers, NEW t \in Services, HostStep(w),
           OneRequest(t), Traced(t), Settled(t) => Settled(t)'
    PROVE  Traced(t)'
<1> USE DEF Kept, Parts
<1>0. /\ t \in Tasks /\ Up /\ job[w].task \in Tasks
      /\ UNCHANGED <<unresolved, owner>>
  BY AtWork DEF Tasks, HostStep, Admit, Intend, Launch, Record, Clear, Report
<1>1. \A label : Reply(w, label) => OldAnswers
  BY DEF Reply, OldAnswers, NoJob, JobsTyped
<1>2. \A label : Step(w, label) /\ label \in {"intend", "launch"} => OldAnswers
  BY DEF Step, OldAnswers, JobsTyped, Request
<1>3. \A label : Step(w, label) =>
        /\ job'[w].task = job[w].task /\ job'[w].step = label
        /\ \A v \in Workers : v # w => job'[v] = job[v]
  BY DEF Step, JobsTyped, Request
<1>4. CASE Admit(w)
  <2>1. OldAnswers /\ UNCHANGED <<intents, intended, launched>>
    BY <1>1, <1>2, <1>4 DEF Admit, os
  <2>2. CASE UNCHANGED <<tasks, facts, entries>>
    BY <1>0, <2>1, <2>2, TracedAlone
  <2>3. CASE Persisted /\ UNCHANGED entries
    BY <1>0, <2>1, <2>3, TracedObserved DEF Persisted, OldAnswers
  <2>4. CASE /\ UNCHANGED tasks
             /\ \E u \in Evictable : facts' = [facts EXCEPT ![u] = "none"] /\ entries' = entries \ {u}
    <3>1. PICK u \in Evictable : facts' = [facts EXCEPT ![u] = "none"] /\ entries' = entries \ {u}
      BY <2>4
    <3>2. Settled(u) /\ u \in Tasks
      BY DEF Evictable, Consumed, RestTyped
    <3>3. CASE u = t
      BY <3>2, <3>3 DEF Traced, Recorded, Answered, Outstanding
    <3>4. CASE u # t
      <4>1. facts'[t] = facts[t] /\ (t \in entries' <=> t \in entries)
        BY <1>0, <3>1, <3>2, <3>4 DEF RestTyped
      <4>2. Outstanding(t)' => Outstanding(t)
        BY <2>1 DEF Outstanding
      <4>3. Recorded(t)'
        BY <1>0, <2>1, <2>4, <4>1, <4>2 DEF Traced, Recorded, Up
      <4>4. Answered(t)'
        BY <2>1, <2>4, <4>1, <4>2 DEF Traced, Answered, OldAnswers
      <4> QED
        BY <4>3, <4>4 DEF Traced
    <3> QED
      BY <3>3, <3>4
  <2> QED
    BY <1>4, <2>2, <2>3, <2>4 DEF Admit
<1>5. CASE Intend(w)
  <2>1. /\ OldAnswers /\ UNCHANGED <<tasks, facts, entries, launched>>
        /\ intended' = intended \cup {job[w].task} /\ intents' \in {intents, intended'}
    BY <1>1, <1>2, <1>5 DEF Intend, os
  <2>2. Outstanding(t)' => Outstanding(t)
    BY <2>1 DEF Outstanding
  <2>3. Recorded(t)'
    BY <1>0, <2>1, <2>2 DEF Traced, Recorded, Up
  <2>4. Answered(t)'
    BY <2>1, <2>2 DEF Traced, Answered, OldAnswers
  <2> QED
    BY <2>3, <2>4 DEF Traced
<1>6. CASE Launch(w)
  <2>0. UNCHANGED <<tasks, facts>> /\ job[w].step = "launch"
    BY <1>6 DEF Launch
  <2>1. CASE job[w].task = t
    <3>1. launched[t] = 0
      BY <2>0, <2>1 DEF OneRequest, Requested, Asked
    <3>2. t \in intents \cap intended
      BY <2>0, <2>1 DEF OnRecord, Handled
    <3>3. CASE UNCHANGED os
      BY <3>1, <3>3 DEF os, Traced, Recorded, Answered, Outstanding
    <3>4. CASE entries' = entries \cup {t} /\ Step(w, "record") /\ UNCHANGED <<intents, intended>>
      <4>1. Recorded(t)'
        BY <1>0, <3>2, <3>4 DEF Recorded, Up
      <4>2. ASSUME NEW v \in Workers, v # w, job[v].task = t,
                   job[v].step \in {"clear", "report"}
            PROVE  FALSE
        BY <2>0, <4>2 DEF Hosted, HoldsIntents
      <4>3. Answered(t)'
        BY <1>3, <3>4, <4>2 DEF Answered
      <4> QED
        BY <4>1, <4>3 DEF Traced
    <3> QED
      BY <1>6, <2>1, <3>3, <3>4 DEF Launch
  <2>2. CASE job[w].task # t
    <3>1. launched'[t] = launched[t] /\ (t \in entries' <=> t \in entries)
      BY <1>0, <1>6, <2>2 DEF Launch, os, RestTyped
    <3>2. Outstanding(t)' => Outstanding(t)
      BY <3>1 DEF Outstanding
    <3>3. t \in intents \cap intended => t \in intents' \cap intended'
      BY <1>6, <2>2 DEF Launch
    <3>4. Recorded(t)'
      BY <1>0, <2>0, <3>1, <3>2, <3>3 DEF Traced, Recorded, Up
    <3>5. \A v \in Workers : job'[v].task = t /\ job'[v].step \in {"record", "clear", "report"}
                               => job'[v] = job[v]
      BY <1>1, <1>3, <1>6, <2>2 DEF Launch, OldAnswers
    <3>6. Answered(t)'
      BY <2>0, <3>1, <3>2, <3>5 DEF Traced, Answered
    <3> QED
      BY <3>4, <3>6 DEF Traced
  <2> QED
    BY <2>1, <2>2
<1>7. CASE Record(w)
  <2>1. /\ UNCHANGED <<intents, entries, intended, launched>> /\ facts' = Observed
        /\ tasks' \in {tasks, Observed} /\ job[w].step = "record"
    BY <1>7 DEF Record, Persisted, os
  <2>2. \A v \in Workers : job'[v].step \in {"record", "clear", "report"}
                             => job'[v] = job[v] \/ Written(v)
    <3>1. OldAnswers \/ (Step(w, "clear") /\ tasks' = Observed)
      BY <1>1, <1>7 DEF Record, Persisted
    <3> QED
      BY <1>3, <2>1, <3>1 DEF OldAnswers, Written
  <2> QED
    BY <1>0, <2>1, <2>2, TracedObserved
<1>8. CASE Clear(w)
  <2>1. /\ UNCHANGED <<tasks, facts, entries, launched>> /\ job[w].step = "clear"
        /\ intended' = intended \ {job[w].task} /\ intents' \in {intents, intended'}
    BY <1>8 DEF Clear, os
  <2>2. Outstanding(t)' => Outstanding(t)
    BY <2>1 DEF Outstanding
  <2>3. Recorded(t)'
    BY <1>0, <2>1, <2>2 DEF Traced, Recorded, Answered, Up
  <2>4. \A v \in Workers : job'[v].step \in {"record", "clear", "report"}
          => \/ job'[v] = job[v]
             \/ job[v].step = "clear" /\ job'[v].task = job[v].task
    <3>1. OldAnswers \/ Step(w, "report")
      BY <1>1, <1>8 DEF Clear
    <3> QED
      BY <1>3, <2>1, <3>1 DEF OldAnswers
  <2>5. Answered(t)'
    BY <2>1, <2>2, <2>4 DEF Traced, Answered
  <2> QED
    BY <2>3, <2>5 DEF Traced
<1>9. CASE Report(w)
  <2>1. /\ UNCHANGED <<intents, entries, intended, launched>> /\ facts' = Observed
        /\ tasks' = Observed /\ OldAnswers
    BY <1>1, <1>9 DEF Report, Persisted, os
  <2> QED
    BY <1>0, <2>1, TracedObserved DEF OldAnswers
<1> QED
  BY <1>4, <1>5, <1>6, <1>7, <1>8, <1>9 DEF HostStep

LEMMA TracedKept ==
    ASSUME Kept, Consumed, [Next]_vars, NEW t \in Services, OneRequest(t), Traced(t)
    PROVE  Traced(t)'
<1> USE DEF Kept, Parts
<1>0. /\ t \in Tasks /\ (Settled(t) => Settled(t)')
      /\ Workers \cap {"nobody", "host"} = {}
  BY SettledStays, HostedAssumption DEF Tasks
<1>1. UNCHANGED job => OldAnswers
  BY DEF OldAnswers
<1>2. ASSUME NEW w \in Workers,
             \/ Connect(w) \/ Archive(w) \/ Unready(w) \/ Abort(w)
             \/ Prepare(w) \/ Send(w) \/ Abandon(w) \/ Review(w) \/ Acknowledge(w) \/ Pending(w)
             \/ ReadTasks(w) \/ ReadIntents(w) \/ ReadUnresolved(w) \/ Judge(w) \/ SettleSeen(w)
             \/ StartPass(w) \/ \E u \in Tasks : StartTask(w, u) \/ ReleaseByHand(w, u)
      PROVE  Traced(t)'
  <2>1. /\ UNCHANGED <<tasks, intents, facts, entries, intended, launched>>
        /\ unresolved \subseteq unresolved'
    BY <1>2 DEF Connect, Archive, Unready, Abort, Prepare, Send, Abandon, Review,
        Acknowledge, Pending, ReadTasks, ReadIntents, ReadUnresolved, Judge, SettleSeen, StartPass,
        StartTask, ReleaseByHand, state, host, os
  <2>2. OldAnswers
    <3>1. CASE Send(w)
      BY <3>1 DEF Send, OldAnswers, JobsTyped
    <3>2. CASE ~Send(w)
      BY <1>1, <1>2, <3>2 DEF Connect, Archive, Unready, Abort, Prepare, Abandon, Review,
        Acknowledge, Pending, ReadTasks, ReadIntents, ReadUnresolved, Judge, SettleSeen, StartPass,
        StartTask, ReleaseByHand
    <3> QED
      BY <3>1, <3>2
  <2>3. Up' <=> Up
    BY <1>0, <1>2 DEF Connect, Archive, Unready, Abort, Prepare, Send, Abandon, Review,
        Acknowledge, Pending, ReadTasks, ReadIntents, ReadUnresolved, Judge, SettleSeen, StartPass,
        StartTask, ReleaseByHand, host, Up, Order, Recovering
  <2>4. Outstanding(t)' => Outstanding(t)
    BY <1>0, <2>1 DEF Outstanding
  <2>5. Recorded(t)'
    BY <2>1, <2>3, <2>4 DEF Traced, Recorded
  <2>6. Answered(t)'
    BY <2>1, <2>2, <2>4 DEF Traced, Answered, OldAnswers
  <2> QED
    BY <2>5, <2>6 DEF Traced
<1>3. ASSUME NEW w \in Workers, HostStep(w) PROVE Traced(t)'
  BY <1>0, <1>3, HostTraced
<1>4. ASSUME NEW w \in Workers, ListTerminal(w) \/ ListTasks(w) \/ \E u \in Tasks : Inspect(w, u)
      PROVE  Traced(t)'
  <2>1. UNCHANGED <<intents, unresolved, owner, entries, intended, launched, job>>
    BY <1>4 DEF ListTerminal, ListTasks, Inspect, os
  <2>2. (Up /\ Persisted) \/ UNCHANGED <<tasks, facts>>
    BY <1>4 DEF ListTerminal, ListTasks, Inspect, Connected, Serving
  <2> QED
    BY <1>0, <1>1, <2>1, <2>2, TracedAlone, TracedObserved DEF Persisted
<1>5. CASE Persist
  BY <1>0, <1>5, TracedObserved DEF Persist, Persisted, os
<1>6. ASSUME NEW w \in Workers, Converge(w) \/ Discard(w) PROVE Traced(t)'
  <2>1. ~Up /\ UNCHANGED <<unresolved, owner, launched>>
    BY <1>0, <1>6 DEF Converge, Discard, Order, Recovering, Up, host, os
  <2>2. tasks[t] # "none" => tasks'[t] # "none"
    BY <1>0, <1>6 DEF Converge, Discard
  <2>3. t \in intents \cup unresolved => t \in intents' \cup unresolved'
    BY <1>6 DEF Converge, Discard, Order
  <2>4. Recorded(t)'
    BY <1>0, <2>1, <2>2, <2>3 DEF Traced, Recorded, Outstanding, Up
  <2>5. \A v \in Workers : job'[v] = NoJob
    BY <1>6, <2>1 DEF Converge, Discard, Hosted
  <2>6. Answered(t)'
    BY <2>5 DEF Answered, NoJob
  <2> QED
    BY <2>4, <2>6 DEF Traced
<1>7. ASSUME NEW w \in Workers, StartHost(w) PROVE Traced(t)'
  <2>1. UNCHANGED <<tasks, intents, unresolved, job, launched, intended, entries>>
    BY <1>7 DEF StartHost, os, host
  <2>2. CASE UNCHANGED host
    BY <1>0, <1>1, <2>1, <2>2, TracedAlone DEF host
  <2>3. CASE owner = "nobody" /\ ~LeftOver /\ owner' = "host" /\ facts' = tasks
    <3>1. entries' = {} /\ intents = {} /\ \A v \in Workers : job'[v] = NoJob
      BY <2>1, <2>3 DEF Hosted, Up, LeftOver
    <3>2. Outstanding(t)' => Outstanding(t)
      BY <1>0, <2>1 DEF Outstanding
    <3>3. Recorded(t)'
      BY <2>1, <2>3, <3>1, <3>2 DEF Traced, Recorded, Up
    <3>4. Answered(t)'
      BY <3>1 DEF Answered, NoJob
    <3> QED
      BY <3>3, <3>4 DEF Traced
  <2> QED
    BY <1>7, <2>2, <2>3 DEF StartHost
<1>8. CASE HostEnds
  <2>1. UNCHANGED <<tasks, intents, unresolved, launched, journal>> /\ Up /\ ~Up'
    BY <1>8 DEF HostEnds, state, os, Up
  <2>2. Recorded(t)'
    BY <2>1 DEF Traced, Recorded, Outstanding, Settled
  <2>3. Answered(t)'
    BY <1>8 DEF HostEnds, Answered, NoJob
  <2> QED
    BY <2>2, <2>3 DEF Traced
<1>9. CASE UNCHANGED <<tasks, intents, unresolved, owner, facts, entries, intended, launched, job>>
  BY <1>0, <1>1, <1>9, TracedAlone
<1>10. \A u \in Tasks : ProcessExits(u)
         => UNCHANGED <<tasks, intents, unresolved, owner, facts, entries, intended, launched, job>>
  BY DEF ProcessExits, state, host
<1> QED
  BY <1>2, <1>3, <1>4, <1>5, <1>6, <1>7, <1>8, <1>9, <1>10
     DEF Next, WorkerStep, Withdraw, vars, state, host, os

\* A pass, or a release by hand, that found no host: it reads the records and judges.
Reading == {"pending", "read_tasks", "read_intents", "read_unresolved", "judge"}
Reads(v) == v.pc \in Reading \/ (v.pc = "abandon" /\ v.op # "spawn")

\* While no later host is started there is none.
Hostless(v) ==
    /\ v.client <= inst /\ (Up => inst # 0)
    /\ v.pc \in Reading => v.op # "spawn"
    /\ Reads(v) /\ v.client = inst => ~Up

\* What it read of a service that is outstanding still says so.
LooksTrue(v, t) ==
    Reads(v) /\ v.client = inst /\ Outstanding(t) =>
        /\ v.pc \in {"read_intents", "read_unresolved"} /\ v.seen[t] = "none" => tasks[t] = "none"
        /\ v.pc = "read_unresolved" /\ v.seen[t] = "none" => t \in v.hinted \cup unresolved
        /\ v.pc = "judge" /\ v.seen[t] = "none" => t \in v.hinted
        /\ v.pc = "abandon" => v.task # t

Looks(t) == \A w \in Workers : Hostless(wk[w]) /\ LooksTrue(wk[w], t)

\* How an operation that has read v goes on.
Reread(r, v) ==
    /\ r.client = v.client /\ r.op = v.op /\ v.pc \in Reading
    /\ \/ v.pc = "read_tasks" /\ r.pc = "read_intents" /\ r.seen = tasks
       \/ /\ v.pc = "read_intents" /\ r.pc = "read_unresolved"
          /\ r.seen = v.seen /\ r.hinted = intents
       \/ /\ v.pc = "read_unresolved" /\ r.pc = "judge"
          /\ r.seen = v.seen /\ r.hinted = v.hinted \cup unresolved
       \/ /\ v.pc = "read_unresolved" /\ r.pc = "abandon" /\ r.task = v.task
          /\ v.hinted = {} /\ v.task \notin unresolved /\ v.seen[v.task] = "none"
       \/ v.pc = "judge" /\ r.pc = "judge" /\ r.seen = v.seen /\ r.hinted = v.hinted

Turn(r, v) ==
    \/ r = v
    \/ ~Reads(r) /\ r.client <= inst'
    \/ /\ r.pc \in {"pending", "read_tasks"} /\ r.op # "spawn"
       /\ r.client <= inst' /\ (r.client = inst' => ~Up')
    \/ Reread(r, v)

LEMMA Turns ==
    ASSUME Kept, Roles, Waits, NEW w \in Workers, OperationStep(w), Hostless(wk[w])
    PROVE  Turn(wk'[w], wk[w])
<1> USE DEF Kept, Parts
<1> DEFINE v == wk[w]
           r == wk'[w]
<1>0. /\ v.client \in Nat /\ inst \in Nat /\ v.client <= inst
      /\ Workers \cap {"nobody", "host"} = {}
  BY HostedAssumption DEF WorkTyped, Op, RestTyped, Hostless
<1>1. inst <= inst' /\ inst' \in Nat
  <2>1. WorkerStep(w) => inst' = inst \/ inst' = inst + 1
    BY DEF WorkerStep, Connect, Converge, Archive, Discard, Unready, StartHost, ListTerminal,
        Prepare, Send, Abandon, ListTasks, Review, Acknowledge, Pending, ReadTasks, ReadIntents,
        ReadUnresolved, Judge, SettleSeen, host
  <2>2. ~WorkerStep(w) => inst' = inst
    BY DEF OperationStep, HostStep, Admit, Intend, Launch, Record, Clear, Report, Abort, StartPass,
        StartTask, Inspect, ReleaseByHand, host
  <2> QED
    BY <1>0, <2>1, <2>2
<1>2. Idle.client = 0 /\ ~Reads(Idle)
  BY DEF Idle, Reads, Reading
<1>3. ASSUME r = Idle PROVE Turn(r, v)
  BY <1>0, <1>1, <1>2, <1>3 DEF Turn
<1>4. Done(w) => r = Idle
  BY DEF Done, WorkTyped
<1>5. \A label : Goto(w, label) => r.pc = label /\ r.client = v.client /\ r.op = v.op /\ r.task = v.task
  BY DEF Goto, WorkTyped, Op
<1>6. \A u : Drop(w, u) => /\ r.pc = v.pc /\ r.client = v.client /\ r.op = v.op
                           /\ r.seen = v.seen /\ r.hinted = v.hinted
  BY DEF Drop, WorkTyped, Op
<1>7. ASSUME ~Reads(r), r.client = v.client PROVE Turn(r, v)
  BY <1>0, <1>1, <1>7 DEF Turn
<1>8. ASSUME AfterRecovery(w), UNCHANGED inst, Up' => Up PROVE Turn(r, v)
  <2>0. inst # 0 \/ ~Up
    BY DEF Hostless
  <2>1. /\ r.client = (IF Up THEN 0 ELSE inst) /\ r.op = v.op
        /\ r.pc = CASE v.op = "spawn" -> "start" [] v.op = "release" -> "read_tasks"
                    [] OTHER -> "pending"
    BY <1>8 DEF AfterRecovery, WorkTyped, Op
  <2>2. CASE v.op = "spawn"
    BY <1>0, <1>8, <2>1, <2>2 DEF Turn, Reads, Reading
  <2>3. CASE v.op # "spawn"
    BY <1>0, <1>8, <2>0, <2>1, <2>3 DEF Turn
  <2> QED
    BY <2>2, <2>3
<1>9. ASSUME NEW h \in Nat, Attach(w, h), h <= inst' PROVE Turn(r, v)
  <2>1. r.client = h /\ r.pc \in {"prepare", "list"}
    BY <1>9 DEF Attach, WorkTyped, Op
  <2> QED
    BY <1>9, <2>1 DEF Turn, Reads, Reading
<1>10. CASE Connect(w)
  <2>1. UNCHANGED inst
    BY <1>10 DEF Connect
  <2>2. Goto(w, "converge") => ~Reads(r) /\ r.client = v.client
    BY <1>5 DEF Reads, Reading
  <2>3. CASE AfterRecovery(w) /\ UNCHANGED owner
    BY <1>8, <2>1, <2>3 DEF Up
  <2> QED
    BY <1>0, <1>3, <1>4, <1>7, <1>9, <1>10, <2>1, <2>2, <2>3 DEF Connect
<1>11. CASE Converge(w) \/ Archive(w) \/ Discard(w) \/ Prepare(w)
  <2>1. ~Reads(r) /\ r.client = v.client
    BY <1>5, <1>11 DEF Converge, Archive, Discard, Prepare, Reads, Reading
  <2> QED
    BY <1>7, <2>1
<1>12. CASE Unready(w)
  BY <1>8, <1>12 DEF Unready, Up
<1>13. CASE StartHost(w)
  BY <1>0, <1>3, <1>4, <1>9, <1>13 DEF StartHost, host
<1>14. CASE ListTerminal(w)
  <2>1. \A k : wk' = [wk EXCEPT ![w].known = k, ![w].pc = "prepare"]
                 => r.pc = "prepare" /\ r.client = v.client
    BY DEF WorkTyped, Op
  <2>2. Done(w) \/ (r.pc = "prepare" /\ r.client = v.client)
    BY <1>14, <2>1 DEF ListTerminal
  <2> QED
    BY <1>3, <1>4, <1>7, <2>2 DEF Reads, Reading
<1>15. CASE ListTasks(w)
  <2>1. \A f, p : wk' = [wk EXCEPT ![w].pc = "review", ![w].seen = f, ![w].pend = p]
                    => r.pc = "review" /\ r.client = v.client
    BY DEF WorkTyped, Op
  <2>2. Done(w) \/ (r.pc = "review" /\ r.client = v.client)
    BY <1>15, <2>1 DEF ListTasks
  <2> QED
    BY <1>3, <1>4, <1>7, <2>2 DEF Reads, Reading
<1>16. CASE Review(w)
  <2>1. \A u : wk' = [wk EXCEPT ![w].pc = "ack", ![w].task = u, ![w].pend = @ \ {u}]
                 => r.pc = "ack" /\ r.client = v.client
    BY DEF WorkTyped, Op
  <2>2. Done(w) \/ (r.pc \in {"review", "ack"} /\ r.client = v.client)
    BY <1>6, <1>16, <2>1 DEF Review
  <2> QED
    BY <1>3, <1>4, <1>7, <2>2 DEF Reads, Reading
<1>17. CASE Pending(w)
  <2>1. UNCHANGED <<inst, owner>> /\ v.pc = "pending"
    BY <1>17 DEF Pending, host
  <2>2. \A p : wk' = [wk EXCEPT ![w].pend = p, ![w].pc = "read_tasks"]
                 => r.pc = "read_tasks" /\ r.client = v.client /\ r.op = v.op
    BY DEF WorkTyped, Op
  <2>3. Done(w) \/ (r.pc = "read_tasks" /\ r.client = v.client /\ r.op = v.op)
    BY <1>17, <2>2 DEF Pending
  <2> QED
    BY <1>0, <1>3, <1>4, <2>1, <2>3 DEF Turn, Hostless, Reads, Reading, Up
<1>18. CASE ReadTasks(w)
  <2>1. /\ r.pc = "read_intents" /\ r.seen = tasks /\ r.client = v.client /\ r.op = v.op
        /\ v.pc = "read_tasks"
    BY <1>18 DEF ReadTasks, WorkTyped, Op
  <2> QED
    BY <2>1 DEF Turn, Reread, Reading
<1>19. CASE ReadIntents(w)
  <2>1. /\ r.pc = "read_unresolved" /\ r.seen = v.seen /\ r.hinted = intents
        /\ r.client = v.client /\ r.op = v.op /\ v.pc = "read_intents"
    BY <1>19 DEF ReadIntents, WorkTyped, Op
  <2> QED
    BY <2>1 DEF Turn, Reread, Reading
<1>20. CASE ReadUnresolved(w)
  <2>1. v.pc = "read_unresolved"
    BY <1>20 DEF ReadUnresolved
  <2>2. CASE wk' = [wk EXCEPT ![w].hinted = @ \cup unresolved, ![w].pc = "judge"]
    <3>1. /\ r.pc = "judge" /\ r.seen = v.seen /\ r.hinted = v.hinted \cup unresolved
          /\ r.client = v.client /\ r.op = v.op
      BY <2>2 DEF WorkTyped, Op
    <3> QED
      BY <2>1, <3>1 DEF Turn, Reread, Reading
  <2>3. CASE /\ v.hinted = {} /\ v.task \notin unresolved /\ v.seen[v.task] = "none"
             /\ Goto(w, "abandon")
    BY <1>5, <2>1, <2>3 DEF Turn, Reread, Reading
  <2> QED
    BY <1>3, <1>4, <1>20, <2>2, <2>3 DEF ReadUnresolved
<1>21. CASE Judge(w)
  <2>1. v.pc = "judge"
    BY <1>21 DEF Judge
  <2>2. \A u : Drop(w, u) => Turn(r, v)
    BY <1>6, <2>1 DEF Turn, Reread, Reading
  <2> QED
    BY <1>3, <1>4, <1>21, <2>2 DEF Judge
<1>22. CASE Send(w) \/ Abandon(w) \/ Acknowledge(w) \/ SettleSeen(w) \/ Abort(w)
  <2>1. Done(w) \/ \E label : Goto(w, label) /\ label \in {"wait", "review", "ack"}
    BY <1>22 DEF Send, Abandon, Acknowledge, SettleSeen, Abort
  <2>2. \A label \in {"wait", "review", "ack"} : Goto(w, label) => ~Reads(r) /\ r.client = v.client
    BY <1>5 DEF Reads, Reading
  <2> QED
    BY <1>3, <1>4, <1>7, <2>1, <2>2
<1>23. CASE StartPass(w) \/ \E t \in Tasks : StartTask(w, t) \/ ReleaseByHand(w, t)
  <2>1. \A o, t : Become(w, "connect", o, t) => r.pc = "connect" /\ r.client = 0
    BY DEF Become, Idle, WorkTyped
  <2>2. r.pc = "connect" /\ r.client = 0
    BY <1>23, <2>1 DEF StartPass, StartTask, ReleaseByHand
  <2> QED
    BY <1>0, <1>1, <2>2 DEF Turn, Reads, Reading
<1>24. ASSUME NEW t \in Tasks, Inspect(w, t) PROVE Turn(r, v)
  <2>1. UNCHANGED inst
    BY <1>24 DEF Inspect
  <2>2. CASE wk' = [wk EXCEPT ![w] = [Idle EXCEPT !.pc = "settle", !.op = "inspect", !.task = t,
                                                 !.client = inst]]
    <3>1. r.pc = "settle" /\ r.client = inst
      BY <2>2 DEF Idle, WorkTyped
    <3> QED
      BY <1>0, <2>1, <3>1 DEF Turn, Reads, Reading
  <2> QED
    BY <1>24, <2>2 DEF Inspect, Turn
<1>25. CASE HostStep(w)
  <2>1. ASSUME NEW label, Reply(w, label) PROVE Turn(r, v)
    <3>1. CASE v.pc # "wait"
      BY <2>1, <3>1 DEF Reply, WorkTyped, Turn
    <3>2. CASE v.pc = "wait" /\ label = "rejected"
      <4>1. r.pc = "abandon" /\ r.client = v.client /\ r.op = v.op
        BY <2>1, <3>2 DEF Reply, WorkTyped, Op
      <4>2. r.op = "spawn"
        BY <3>2, <4>1 DEF Waits
      <4> QED
        BY <1>7, <4>1, <4>2 DEF Reads, Reading
    <3>3. CASE v.pc = "wait" /\ label # "rejected"
      BY <1>3, <2>1, <3>3 DEF Reply, WorkTyped
    <3> QED
      BY <3>1, <3>2, <3>3
  <2> QED
    BY <1>25, <2>1 DEF HostStep, Admit, Intend, Launch, Record, Clear, Report, Turn
<1> QED
  BY <1>10, <1>11, <1>12, <1>13, <1>14, <1>15, <1>16, <1>17, <1>18, <1>19, <1>20, <1>21, <1>22,
     <1>23, <1>24, <1>25 DEF OperationStep, WorkerStep

\* Only a start makes a host; without one nothing is launched, no fact appears
\* and no archived intent goes.
LEMMA OnlyStarts ==
    ASSUME Kept, HostedAssumption, [Next]_vars
    PROVE  /\ inst' \in Nat
           /\ \/ inst' = inst /\ (Up' => Up)
              \/ inst' = inst + 1
           /\ unresolved \subseteq unresolved'
           /\ ~Up => /\ UNCHANGED launched
                     /\ \A t \in Tasks : tasks[t] = "none" => tasks'[t] = "none"
<1> USE DEF Kept, Parts
<1>0. inst \in Nat /\ Workers \cap {"nobody", "host"} = {}
  BY HostedAssumption DEF RestTyped
<1> DEFINE Still == UNCHANGED <<inst, owner, unresolved, launched, tasks>>
<1> DEFINE Goal == /\ (inst' = inst /\ (Up' => Up)) \/ inst' = inst + 1
                   /\ unresolved \subseteq unresolved'
                   /\ ~Up => /\ UNCHANGED launched
                             /\ \A t \in Tasks : tasks[t] = "none" => tasks'[t] = "none"
<1>1. Still => Goal
  BY DEF Up
<1>2. ASSUME NEW w \in Workers,
             \/ Prepare(w) \/ Send(w) \/ Abandon(w) \/ Review(w) \/ Acknowledge(w) \/ Pending(w)
             \/ ReadTasks(w) \/ ReadIntents(w) \/ ReadUnresolved(w) \/ Judge(w) \/ SettleSeen(w)
             \/ StartPass(w) \/ \E u \in Tasks : StartTask(w, u) \/ ReleaseByHand(w, u)
      PROVE  Goal
  <2>1. Still
    BY <1>2 DEF Prepare, Send, Abandon, Review, Acknowledge, Pending, ReadTasks, ReadIntents,
        ReadUnresolved, Judge, SettleSeen, StartPass, StartTask, ReleaseByHand, state, host, os
  <2> QED
    BY <1>1, <2>1
<1>3. ASSUME NEW w \in Workers,
             \/ Connect(w) \/ Converge(w) \/ Archive(w) \/ Discard(w) \/ Unready(w) \/ Abort(w)
      PROVE  Goal
  <2>1. UNCHANGED <<inst, launched>> /\ unresolved \subseteq unresolved'
    BY <1>3 DEF Connect, Converge, Archive, Discard, Unready, Abort, state, host, os
  <2>2. Up' => Up
    BY <1>0, <1>3 DEF Connect, Converge, Archive, Discard, Unready, Abort, host, Up
  <2>3. \A t \in Tasks : tasks[t] = "none" => tasks'[t] = "none"
    BY <1>3 DEF Connect, Converge, Archive, Discard, Unready, Abort, state
  <2> QED
    BY <2>1, <2>2, <2>3
<1>4. ASSUME NEW w \in Workers, StartHost(w) PROVE Goal
  <2>1. UNCHANGED <<tasks, unresolved, launched>>
    BY <1>4 DEF StartHost, os
  <2>2. UNCHANGED <<inst, owner>> \/ inst' = inst + 1
    BY <1>4 DEF StartHost, host
  <2> QED
    BY <2>1, <2>2 DEF Up
<1>5. ASSUME NEW w \in Workers, ListTerminal(w) \/ ListTasks(w) \/ \E u \in Tasks : Inspect(w, u)
      PROVE  Goal
  <2>1. UNCHANGED <<inst, owner, unresolved, launched>>
    BY <1>5 DEF ListTerminal, ListTasks, Inspect, os
  <2>2. ~Up => UNCHANGED tasks
    BY <1>5 DEF ListTerminal, ListTasks, Inspect, Connected, Serving
  <2> QED
    BY <2>1, <2>2 DEF Up
<1>6. ASSUME NEW w \in Workers, HostStep(w) PROVE Goal
  <2>1. Up /\ UNCHANGED <<inst, unresolved>>
    BY <1>6, AtWork DEF HostStep, Admit, Intend, Launch, Record, Clear, Report
  <2> QED
    BY <2>1
<1>7. ASSUME Persist \/ HostEnds PROVE Goal
  <2>1. Up /\ UNCHANGED <<inst, unresolved>>
    BY <1>7 DEF Persist, HostEnds, state
  <2> QED
    BY <2>1
<1>8. Withdraw \/ (\E u \in Tasks : ProcessExits(u)) => Still
  BY DEF Withdraw, ProcessExits, state, host, os
<1>9. UNCHANGED vars => Still
  BY DEF vars, state, host, os
<1>10. Goal
  BY <1>1, <1>2, <1>3, <1>4, <1>5, <1>6, <1>7, <1>8, <1>9 DEF Next, WorkerStep
<1> QED
  BY <1>0, <1>10

\* Operations go on by turns.
LEMMA AllTurn ==
    ASSUME Kept, HostedAssumption, Roles, Waits, [Next]_vars, \A w \in Workers : Hostless(wk[w]),
           NEW w \in Workers
    PROVE  Turn(wk'[w], wk[w])
<1> USE DEF Kept, Parts
<1>1. CASE wk'[w] = wk[w]
  BY <1>1 DEF Turn
<1>2. ASSUME wk'[w] = Idle PROVE Turn(wk'[w], wk[w])
  <2>1. inst' \in Nat /\ 0 <= inst'
    BY OnlyStarts
  <2> QED
    BY <1>2, <2>1 DEF Turn, Idle, Reads, Reading
<1>3. CASE OperationStep(w)
  BY <1>3, Turns
<1>4. \A v \in Workers : v # w /\ OperationStep(v) => wk'[w] = wk[w]
  BY OthersStay
<1>5. HostEnds => wk'[w] = wk[w] \/ wk'[w] = Idle
  BY DEF HostEnds
<1> QED
  BY <1>1, <1>2, <1>3, <1>4, <1>5 DEF OperationStep, Next, Persist, Withdraw, ProcessExits, vars

LEMMA HostlessKept ==
    ASSUME Kept, HostedAssumption, [Next]_vars, NEW w \in Workers, Hostless(wk[w]),
           Turn(wk'[w], wk[w])
    PROVE  Hostless(wk[w])'
<1> DEFINE v == wk[w]
           r == wk'[w]
<1>1. /\ v.client \in Nat /\ inst \in Nat /\ inst' \in Nat
      /\ (inst' = inst /\ (Up' => Up)) \/ inst' = inst + 1
  BY OnlyStarts DEF Kept, Parts, WorkTyped, Op, RestTyped
<1>0. Up' => inst' # 0
  BY <1>1 DEF Hostless
<1>2. ASSUME r.client = v.client, Reads(v), r.client = inst' PROVE ~Up'
  BY <1>1, <1>2 DEF Hostless
<1>3. r.client = v.client => r.client <= inst'
  BY <1>1 DEF Hostless
<1>4. CASE r = v
  BY <1>0, <1>2, <1>3, <1>4 DEF Hostless
<1>5. CASE ~Reads(r) /\ r.client <= inst'
  BY <1>0, <1>5 DEF Hostless, Reads
<1>6. CASE /\ r.pc \in {"pending", "read_tasks"} /\ r.op # "spawn"
           /\ r.client <= inst' /\ (r.client = inst' => ~Up')
  BY <1>0, <1>6 DEF Hostless
<1>7. CASE Reread(r, v)
  <2>1. r.client = v.client /\ Reads(v) /\ r.op # "spawn"
    BY <1>7 DEF Reread, Reads, Hostless
  <2> QED
    BY <1>0, <1>2, <1>3, <2>1 DEF Hostless
<1> QED
  BY <1>4, <1>5, <1>6, <1>7 DEF Turn

LEMMA LooksKept ==
    ASSUME Kept, HostedAssumption, [Next]_vars, NEW t \in Services, NEW w \in Workers,
           Hostless(wk[w]), LooksTrue(wk[w], t), Recorded(t), Turn(wk'[w], wk[w])
    PROVE  LooksTrue(wk[w], t)'
<1> DEFINE v == wk[w]
           r == wk'[w]
<1> SUFFICES ASSUME Reads(r), r.client = inst', Outstanding(t)'
             PROVE  /\ r.pc \in {"read_intents", "read_unresolved"} /\ r.seen[t] = "none"
                         => tasks'[t] = "none"
                    /\ r.pc = "read_unresolved" /\ r.seen[t] = "none" => t \in r.hinted \cup unresolved'
                    /\ r.pc = "judge" /\ r.seen[t] = "none" => t \in r.hinted
                    /\ r.pc = "abandon" => r.task # t
  BY DEF LooksTrue
<1>1. CASE r.pc \in {"pending", "read_tasks"}
  BY <1>1
<1>2. ASSUME r.client = v.client, Reads(v)
      PROVE  /\ v.client = inst /\ Outstanding(t) /\ ~Up /\ unresolved \subseteq unresolved'
             /\ tasks[t] = "none" => tasks'[t] = "none"
             /\ tasks[t] # "none" \/ t \in intents \cup unresolved
  <2>1. v.client = inst /\ ~Up
    BY <1>2, OnlyStarts DEF Hostless, Kept, Parts, WorkTyped, Op, RestTyped
  <2>2. launched' = launched /\ unresolved \subseteq unresolved'
        /\ (tasks[t] = "none" => tasks'[t] = "none")
    BY <2>1, OnlyStarts DEF Tasks
  <2>3. Settled(t) => Settled(t)'
    BY SettledStays DEF Kept, Tasks
  <2>4. Outstanding(t)
    BY <2>2, <2>3 DEF Outstanding
  <2> QED
    BY <2>1, <2>2, <2>4 DEF Recorded
<1>3. CASE r = v
  BY <1>2, <1>3 DEF LooksTrue
<1>4. CASE Reread(r, v)
  <2>1. r.client = v.client /\ Reads(v)
    BY <1>4 DEF Reread, Reads
  <2>2. CASE v.pc = "read_tasks" /\ r.pc = "read_intents" /\ r.seen = tasks
    BY <1>2, <2>1, <2>2
  <2>3. CASE /\ v.pc = "read_intents" /\ r.pc = "read_unresolved"
             /\ r.seen = v.seen /\ r.hinted = intents
    BY <1>2, <2>1, <2>3 DEF LooksTrue
  <2>4. CASE /\ v.pc = "read_unresolved" /\ r.pc = "judge"
             /\ r.seen = v.seen /\ r.hinted = v.hinted \cup unresolved
    BY <1>2, <2>1, <2>4 DEF LooksTrue
  <2>5. CASE /\ v.pc = "read_unresolved" /\ r.pc = "abandon" /\ r.task = v.task
             /\ v.hinted = {} /\ v.task \notin unresolved /\ v.seen[v.task] = "none"
    BY <1>2, <2>1, <2>5 DEF LooksTrue
  <2>6. CASE v.pc = "judge" /\ r.pc = "judge" /\ r.seen = v.seen /\ r.hinted = v.hinted
    BY <1>2, <2>1, <2>6 DEF LooksTrue
  <2> QED
    BY <1>4, <2>2, <2>3, <2>4, <2>5, <2>6 DEF Reread
<1> QED
  BY <1>1, <1>3, <1>4 DEF Turn

\* The steps that drop: of what was launched they find a fact or an intent.
LEMMA DropsTrue ==
    ASSUME Kept, Roles, [Next]_vars, NEW t \in Services, OneRequest(t), Looks(t),
           journal[t] = "prepared", journal'[t] = "none"
    PROVE  \/ launched[t] = 0
           \/ \E w \in Workers : wk[w].op # "spawn" /\ wk[w].client # inst /\ wk'[w] # wk[w]
<1> USE DEF Kept, Parts, RestTyped
<1>0. t \in Tasks /\ journal'[t] # journal[t]
  BY DEF Tasks
<1>1. PICK w \in Workers : WorkerStep(w)
  <2>1. ASSUME NEW w \in Workers, HostStep(w) PROVE UNCHANGED journal
    BY <2>1 DEF HostStep, Admit, Intend, Launch, Record, Clear, Report
  <2> QED
    BY <1>0, <2>1 DEF Next, Abort, StartPass, StartTask, Inspect, ReleaseByHand, Persist,
                      Withdraw, HostEnds, ProcessExits, vars
<1>2. \A u \in Tasks : Release(u) => u = t
  BY <1>0 DEF Release
<1>3. \A u \in Tasks : ~Settle(u)
  BY <1>0 DEF Settle
<1>4. Done(w) /\ wk[w].pc # "idle" => wk'[w] # wk[w]
  BY DEF Done, Idle, WorkTyped
<1>5. ~Outstanding(t) => launched[t] = 0
  BY DEF Outstanding, Settled
<1>6. CASE Abandon(w)
  <2>1. wk[w].pc = "abandon" /\ Release(wk[w].task) /\ Done(w)
    BY <1>0, <1>6 DEF Abandon
  <2>2. wk[w].task = t
    BY <1>0, <2>1 DEF Release
  <2>3. CASE wk[w].op = "spawn"
    BY <2>1, <2>2, <2>3 DEF OneRequest, Requested, Asking, Starting
  <2>4. CASE wk[w].op # "spawn" /\ wk[w].client = inst
    BY <1>5, <2>1, <2>2, <2>4 DEF Looks, LooksTrue, Reads
  <2>5. CASE wk[w].op # "spawn" /\ wk[w].client # inst
    BY <1>4, <2>1, <2>5
  <2> QED
    BY <2>3, <2>4, <2>5
<1>7. CASE Judge(w)
  <2>1. wk[w].pc = "judge" /\ wk[w].pend \subseteq Tasks
    BY <1>7 DEF Judge, WorkTyped, Op
  <2>2. PICK u \in wk[w].pend : /\ wk[w].seen[u] = "none" /\ u \notin wk[w].hinted
                                /\ Release(u) /\ (Drop(w, u) \/ Done(w))
    BY <1>0, <1>3, <1>7, <2>1 DEF Judge
  <2>3. u = t
    BY <1>2, <2>1, <2>2
  <2>4. wk'[w] # wk[w]
    <3>1. Drop(w, t) => wk'[w].pend = wk[w].pend \ {t}
      BY DEF Drop, WorkTyped, Op
    <3> QED
      BY <1>4, <2>1, <2>2, <2>3, <3>1
  <2>5. wk[w].op # "spawn"
    BY <2>1 DEF Looks, Hostless, Reading
  <2>6. CASE wk[w].client = inst
    BY <1>5, <2>1, <2>2, <2>3, <2>6 DEF Looks, LooksTrue, Reads, Reading
  <2> QED
    BY <2>4, <2>5, <2>6
<1>8. ~Prepare(w)
  BY <1>0 DEF Prepare
<1>9. ~Review(w) /\ ~SettleSeen(w)
  BY <1>0, <1>3 DEF Review, SettleSeen, WorkTyped, Op, HasTask
<1> QED
  BY <1>0, <1>1, <1>6, <1>7, <1>8, <1>9 DEF WorkerStep, Connect, Converge, Archive, Discard,
      Unready, StartHost, ListTerminal, Send, ListTasks, Acknowledge, Pending, ReadTasks,
      ReadIntents, ReadUnresolved

Accounted ==
    /\ Kept /\ Consumed /\ Roles /\ Waits
    /\ \A t \in Services : OneRequest(t) /\ Traced(t) /\ Looks(t)

\* abandon_prepared drops the reservation of a service only when it was never
\* launched: the request was rejected, or neither a fact nor an intent of it is in
\* any of three files read one after the other while others recover them.  Only
\* who looked for a host before one was started, or while it was ending, may be
\* wrong.
THEOREM DroppedOnlyUnlaunched == Spec => DroppedUnlaunched
<1>1. Init => Accounted
  <2> SUFFICES ASSUME Init PROVE Accounted
    OBVIOUS
  <2>1. Roles /\ Waits
    BY DEF Init, Roles, Role, Waits, Idle, Recovering
  <2>2. ASSUME NEW t \in Services PROVE OneRequest(t) /\ Traced(t)
    BY DEF Init, OneRequest, Requested, Asking, Asked, Idle, NoJob, Starting, Recovering, Tasks,
           Traced, Recorded, Answered, Outstanding
  <2>3. ASSUME NEW t \in Services PROVE Looks(t)
    BY DEF Init, Looks, Hostless, LooksTrue, Idle, Reads, Reading, Up
  <2> QED
    BY <2>1, <2>2, <2>3, InitKept, InitConsumed DEF Accounted
<1>2. Accounted /\ [Next]_vars => Accounted'
  <2> SUFFICES ASSUME Accounted, [Next]_vars PROVE Accounted'
    OBVIOUS
  <2>1. Kept /\ Consumed /\ Roles /\ Waits
    BY DEF Accounted
  <2>2. Kept' /\ Consumed' /\ Roles' /\ Waits'
    BY <2>1, KeptKept, ConsumedKept, RolesKept, WaitsKept, HostedAssumption DEF Kept
  <2>3. ASSUME NEW t \in Services PROVE (OneRequest(t) /\ Traced(t) /\ Looks(t))'
    <3>1. OneRequest(t) /\ Traced(t) /\ Looks(t)
      BY DEF Accounted
    <3>2. OneRequest(t)' /\ Traced(t)'
      BY <2>1, <3>1, OneRequestKept, TracedKept
    <3>3. ASSUME NEW w \in Workers PROVE Hostless(wk[w])' /\ LooksTrue(wk[w], t)'
      <4>1. Turn(wk'[w], wk[w])
        BY <2>1, <3>1, AllTurn, HostedAssumption DEF Looks
      <4> QED
        BY <2>1, <3>1, <4>1, HostlessKept, LooksKept, HostedAssumption DEF Looks, Traced
    <3> QED
      BY <3>2, <3>3 DEF Looks
  <2> QED
    BY <2>2, <2>3 DEF Accounted
<1>3. Accounted /\ [Next]_vars
        => [\A t \in Services : journal[t] = "prepared" /\ journal'[t] = "none"
              => \/ launched[t] = 0
                 \/ \E w \in Workers :
                       wk[w].op # "spawn" /\ wk[w].client # inst /\ wk'[w] # wk[w]]_vars
  BY DropsTrue DEF Accounted
<1> QED
  BY <1>1, <1>2, <1>3, PTL DEF Spec, DroppedUnlaunched
===============================================================================
