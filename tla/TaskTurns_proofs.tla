---------------------------- MODULE TaskTurns_proofs ----------------------------
(* TaskTurns, proved for any boots, runtimes, commands and number of crashes.   *)
EXTENDS TaskTurns, TLAPS

TurnRec == [boot : Boots, status : {"running"} \cup Outcomes]
LogRec  == [kind : Kinds, turn : Nat, epoch : Nat, outcome : Outcomes]
WorkRec == [turn : Nat, cancel : BOOLEAN, task : BOOLEAN, draft : Outcomes]

\* The memory of the activities, typed.
MemoryOK ==
    /\ slot \in [Boots -> {"free", "held", "closed"}]
    /\ pc \in [Procs -> Labels]
    /\ token \in [Procs -> Nat]
    /\ todo \in [Procs -> SUBSET Nat]
    /\ found \in [Boots -> SUBSET Nat]
    /\ work \in [Boots -> WorkRec]

\* The rows, typed.
RowsOK ==
    /\ owner \in Boots \cup {NoBoot}
    /\ epoch \in Nat
    /\ session \in [status : {"created", "running"} \cup Outcomes, outcome : {NoOutcome} \cup Outcomes]
    /\ turns \in Seq(TurnRec)
    /\ log \in Seq(LogRec)

RestOK ==
    /\ life \in [Boots -> {"new", "alive", "ended"}]
    /\ scope \in [Boots -> {"ended", "own", "own_and_ended"}]
    /\ requests \in Nat

Types == MemoryOK /\ RowsOK /\ RestOK

LEMMA NoWorkType == NoWork \in WorkRec
  BY DEF NoWork, WorkRec, Outcomes

LEMMA EntryType ==
    ASSUME NEW kind \in Kinds, NEW t \in Nat, NEW e \in Nat, NEW out \in Outcomes
    PROVE  /\ Entry(kind, t, e, out) \in LogRec
           /\ Entry(kind, t, e, out) = [kind |-> kind, turn |-> t, epoch |-> e, outcome |-> out]
  BY DEF Entry, LogRec

\* Leaving an activity keeps its memory typed.
LEMMA LeaveType ==
    ASSUME MemoryOK, NEW p \in Procs, Leave(p)
    PROVE  MemoryOK'
<1>1. p \in Boots \X Roles /\ p[1] \in Boots
  BY DEF Procs
<1>2. pc' \in [Procs -> Labels]
  BY DEF MemoryOK, Leave, Labels
<1>3. token' \in [Procs -> Nat] /\ todo' \in [Procs -> SUBSET Nat]
  BY DEF MemoryOK, Leave
<1>4. slot' \in [Boots -> {"free", "held", "closed"}]
  BY DEF MemoryOK, Leave
<1>5. found' \in [Boots -> SUBSET Nat]
  BY DEF MemoryOK, Leave
<1>6. work' \in [Boots -> WorkRec]
  BY NoWorkType DEF MemoryOK, Leave
<1> QED
  BY <1>2, <1>3, <1>4, <1>5, <1>6 DEF MemoryOK

LEMMA GotoType ==
    ASSUME MemoryOK, NEW p \in Procs, NEW label \in Labels, Goto(p, label)
    PROVE  pc' \in [Procs -> Labels]
  BY DEF MemoryOK, Goto

\* An UPDATE of a turn's status keeps the table a table, and its size.
LEMMA StatusUpdate ==
    ASSUME turns \in Seq(TurnRec), NEW t \in Nat, NEW out \in Outcomes
    PROVE  LET new == [turns EXCEPT ![t].status = out] IN
           /\ new \in Seq(TurnRec)
           /\ Len(new) = Len(turns)
           /\ \A u \in 1 .. Len(turns) :
                /\ new[u].boot = turns[u].boot
                /\ new[u].status = IF u = t THEN out ELSE turns[u].status
<1> DEFINE new == [turns EXCEPT ![t].status = out]
           n   == Len(turns)
<1>1. n \in Nat /\ DOMAIN turns = 1 .. n /\ turns \in [1 .. n -> TurnRec]
  OBVIOUS
<1>2. new \in [1 .. n -> TurnRec]
  BY <1>1 DEF TurnRec
<1>3. new \in Seq(TurnRec) /\ Len(new) = n
  BY <1>1, <1>2
<1>4. ASSUME NEW u \in 1 .. n
      PROVE  /\ new[u].boot = turns[u].boot
             /\ new[u].status = IF u = t THEN out ELSE turns[u].status
  <2>1. turns[u] \in TurnRec
    BY <1>1
  <2> QED
    BY <1>1, <2>1 DEF TurnRec
<1> QED
  BY <1>3, <1>4

LEMMA FinishTurnType ==
    ASSUME Types, NEW b \in Boots, NEW e \in Nat, NEW t \in Nat, NEW out \in Outcomes,
           FinishTurn(b, e, t, out), UNCHANGED <<owner, epoch>>
    PROVE  RowsOK'
<1>1. turns' \in Seq(TurnRec)
  BY StatusUpdate DEF Types, RowsOK, FinishTurn
<1>2. log' \in Seq(LogRec)
  <2>1. Entry("turn_finished", t, e, out) \in LogRec
    BY EntryType DEF Kinds
  <2> QED
    BY <2>1 DEF Types, RowsOK, FinishTurn
<1>3. session' \in [status : {"created", "running"} \cup Outcomes, outcome : {NoOutcome} \cup Outcomes]
  BY DEF Types, RowsOK, FinishTurn, Outcomes
<1> QED
  BY <1>1, <1>2, <1>3 DEF Types, RowsOK

LEMMA TerminalType ==
    ASSUME Types, NEW b \in Boots, NEW e \in Nat, NEW out \in Outcomes, UNCHANGED <<epoch, turns>>,
           Terminal(b, e, out) \/ AlreadyClosed(b, e, out)
    PROVE  RowsOK'
<1>1. CASE Terminal(b, e, out)
  <2>1. Entry("task_finished", 0, e, out) \in LogRec
    BY EntryType DEF Kinds
  <2>2. log' \in Seq(LogRec)
    BY <1>1, <2>1 DEF Types, RowsOK, Terminal
  <2> QED
    BY <1>1, <2>2 DEF Types, RowsOK, Terminal
<1>2. CASE AlreadyClosed(b, e, out)
  BY <1>2 DEF Types, RowsOK, AlreadyClosed
<1> QED
  BY <1>1, <1>2

-------------------------------------------------------------------------------
(* Types *)

\* Each step that only moves activities, or leaves the rows alone, has one leaf.
LEMMA ProcTypes ==
    ASSUME Types, NEW p \in Procs, ProcStep(p)
    PROVE  Types'
<1>1. p[1] \in Boots /\ p[2] \in Roles /\ token[p] \in Nat /\ MemoryOK /\ RowsOK /\ RestOK
  BY DEF Types, Procs, MemoryOK
<1>2. CASE ReadOwner(p)
  <2>1. CASE Leave(p)
    BY <1>1, <1>2, <2>1, LeaveType DEF Types, ReadOwner, RowsOK, RestOK
  <2>2. CASE Goto(p, "cas") /\ token' = [token EXCEPT ![p] = epoch] /\ UNCHANGED <<slot, todo, found, work>>
    <3>1. pc' \in [Procs -> Labels]
      BY <1>1, <2>2, GotoType DEF Labels
    <3> QED
      BY <1>1, <1>2, <2>2, <3>1 DEF Types, ReadOwner, MemoryOK, RowsOK, RestOK
  <2> QED
    BY <1>2, <2>1, <2>2 DEF ReadOwner
<1>3. CASE Acquire(p)
  <2>1. AfterAcquire[p[2]] \in Labels
    BY <1>1 DEF AfterAcquire, Labels, Writes, Roles
  <2>2. pc' \in [Procs -> Labels]
    BY <1>1, <1>3, <2>1, GotoType DEF Acquire
  <2>3. token' \in [Procs -> Nat]
    <3>1. epoch + 1 \in Nat
      BY <1>1 DEF RowsOK
    <3> QED
      BY <1>1, <1>3, <3>1 DEF Acquire, MemoryOK
  <2>4. epoch' \in Nat
    BY <1>1, <1>3 DEF Acquire, RowsOK
  <2> QED
    BY <1>1, <1>3, <2>2, <2>3, <2>4 DEF Types, Acquire, MemoryOK, RowsOK, RestOK
<1>4. CASE LoseRace(p)
  BY <1>1, <1>4, LeaveType DEF Types, LoseRace, RowsOK, RestOK
<1>5. CASE Fail(p)
  <2>1. RowsOK' /\ RestOK'
    BY <1>1, <1>5 DEF Fail, Release, RowsOK, RestOK
  <2>2. CASE Leave(p)
    BY <1>1, <2>1, <2>2, LeaveType DEF Types
  <2>3. CASE /\ Goto(p, "resolve") /\ work' = [work EXCEPT ![p[1]].draft = "failed"]
             /\ UNCHANGED <<slot, token, todo, found>>
    <3>1. pc' \in [Procs -> Labels]
      BY <1>1, <2>3, GotoType DEF Labels
    <3>2. work' \in [Boots -> WorkRec]
      BY <1>1, <2>3 DEF MemoryOK, WorkRec, Outcomes
    <3> QED
      BY <1>1, <2>1, <2>3, <3>1, <3>2 DEF Types, MemoryOK
  <2> QED
    BY <1>5, <2>2, <2>3 DEF Fail
<1>6. CASE Interrupt(p)
  <2>1. PICK t \in todo[p] : /\ FinishTurn(p[1], token[p], t, "interrupted")
                             /\ todo' = [todo EXCEPT ![p] = @ \ {t}]
    BY <1>6 DEF Interrupt
  <2>2. t \in Nat /\ "interrupted" \in Outcomes
    BY <1>1 DEF MemoryOK, Outcomes
  <2>3. RowsOK'
    BY <1>1, <1>6, <2>1, <2>2, FinishTurnType DEF Interrupt
  <2>4. MemoryOK' /\ RestOK'
    BY <1>1, <1>6, <2>1 DEF Interrupt, MemoryOK, RestOK
  <2> QED
    BY <2>3, <2>4 DEF Types
<1>7. CASE Fact(p)
  <2>1. Entry("note", 0, token[p], "completed") \in LogRec
    BY <1>1, EntryType DEF Kinds, Outcomes
  <2>2. RowsOK' /\ RestOK'
    BY <1>1, <1>7, <2>1 DEF Fact, AppendOwned, RowsOK, RestOK
  <2>3. CASE Leave(p)
    BY <1>1, <2>2, <2>3, LeaveType DEF Types
  <2>4. CASE Goto(p, "release") /\ UNCHANGED <<slot, token, todo, found, work>>
    <3>1. pc' \in [Procs -> Labels]
      BY <1>1, <2>4, GotoType DEF Labels
    <3> QED
      BY <1>1, <2>2, <2>4, <3>1 DEF Types, MemoryOK
  <2> QED
    BY <1>7, <2>3, <2>4 DEF Fact
<1>8. CASE ReleaseFact(p)
  <2>1. RowsOK' /\ RestOK'
    BY <1>1, <1>8 DEF ReleaseFact, Release, RowsOK, RestOK
  <2> QED
    BY <1>1, <1>8, <2>1, LeaveType DEF Types, ReleaseFact
<1>9. CASE FinishCancelled(p)
  <2>1. RowsOK'
    BY <1>1, <1>9, TerminalType DEF FinishCancelled, Outcomes
  <2> QED
    BY <1>1, <1>9, <2>1, LeaveType DEF Types, FinishCancelled, RestOK
<1> QED
  BY <1>2, <1>3, <1>4, <1>5, <1>6, <1>7, <1>8, <1>9 DEF ProcStep

LEMMA TurnTypes ==
    ASSUME Types, NEW b \in Boots, TurnStep(b)
    PROVE  Types'
<1> DEFINE p == <<b, "turn">>
<1>1. p \in Procs /\ p[1] = b /\ token[p] \in Nat /\ work[b] \in WorkRec /\ MemoryOK /\ RowsOK /\ RestOK
  BY DEF Types, Procs, Roles, MemoryOK
<1>2. ASSUME NEW label \in Labels, Goto(p, label) PROVE pc' \in [Procs -> Labels]
  BY <1>1, <1>2, GotoType
<1>3. CASE StartTask(b)
  <2>1. pc' \in [Procs -> Labels]
    BY <1>2, <1>3 DEF StartTask, Labels, Writes
  <2>2. RowsOK'
    BY <1>1, <1>3 DEF StartTask, RowsOK
  <2> QED
    BY <1>1, <1>3, <2>1, <2>2 DEF Types, StartTask, MemoryOK, RestOK
<1>4. CASE ListRunning(b)
  <2>1. pc' \in [Procs -> Labels]
    BY <1>2, <1>4 DEF ListRunning, Labels, Writes
  <2>2. Running \subseteq Nat
    BY DEF Running
  <2>3. todo' \in [Procs -> SUBSET Nat]
    BY <1>1, <1>4, <2>2 DEF ListRunning, MemoryOK
  <2> QED
    BY <1>1, <1>4, <2>1, <2>3 DEF Types, ListRunning, MemoryOK, RowsOK, RestOK
<1>5. CASE StartTurn(b)
  <2>1. pc' \in [Procs -> Labels]
    BY <1>2, <1>5 DEF StartTurn, Labels, Writes
  <2>2. [boot |-> b, status |-> "running"] \in TurnRec
    BY DEF TurnRec
  <2>3. turns' \in Seq(TurnRec)
    BY <1>1, <1>5, <2>2 DEF StartTurn, RowsOK
  <2>4. work' \in [Boots -> WorkRec]
    <3>1. Len(turns) + 1 \in Nat
      BY <1>1 DEF RowsOK
    <3> QED
      BY <1>1, <1>5, <3>1 DEF StartTurn, MemoryOK, WorkRec
  <2> QED
    BY <1>1, <1>5, <2>1, <2>3, <2>4 DEF Types, StartTurn, MemoryOK, RowsOK, RestOK
<1>6. CASE Announce(b)
  <2>1. pc' \in [Procs -> Labels]
    BY <1>2, <1>6 DEF Announce, Labels, Writes
  <2>2. work[b].turn \in Nat
    BY <1>1 DEF WorkRec
  <2>3. Entry("turn_started", work[b].turn, token[p], "completed") \in LogRec
    BY <1>1, <2>2, EntryType DEF Kinds, Outcomes
  <2>4. log' \in Seq(LogRec)
    BY <1>1, <1>6, <2>3 DEF Announce, AppendOwned, RowsOK
  <2> QED
    BY <1>1, <1>6, <2>1, <2>4 DEF Types, Announce, MemoryOK, RowsOK, RestOK
<1>7. CASE EndTurn(b)
  <2>1. pc' \in [Procs -> Labels]
    BY <1>2, <1>7 DEF EndTurn, Labels
  <2>2. PICK out \in Outcomes : /\ FinishTurn(b, token[p], work[b].turn, out)
                                /\ work' = [work EXCEPT ![b].draft = out]
    BY <1>7 DEF EndTurn, Outcomes
  <2>3. RowsOK'
    BY <1>1, <1>7, <2>2, FinishTurnType DEF EndTurn, WorkRec
  <2>4. work' \in [Boots -> WorkRec]
    BY <1>1, <2>2 DEF MemoryOK, WorkRec
  <2> QED
    BY <1>1, <1>7, <2>1, <2>3, <2>4 DEF Types, EndTurn, MemoryOK, RestOK
<1>8. ASSUME Resolve(b) \/ Decide(b) PROVE Types'
  <2>1. pc' \in [Procs -> Labels]
    BY <1>2, <1>8 DEF Resolve, Decide, Labels, Writes
  <2>2. PICK out \in Outcomes : work' = [work EXCEPT ![b].draft = out]
    BY <1>1, <1>8 DEF Resolve, Decide, Outcomes, MemoryOK, WorkRec
  <2>3. work' \in [Boots -> WorkRec]
    BY <1>1, <2>2 DEF MemoryOK, WorkRec
  <2> QED
    BY <1>1, <1>8, <2>1, <2>3 DEF Types, Resolve, Decide, MemoryOK, RowsOK, RestOK
<1>9. CASE Commit(b)
  <2>1. work[b].draft \in Outcomes
    BY <1>1 DEF WorkRec
  <2>2. CASE Terminal(b, token[p], work[b].draft) /\ Goto(p, "publish") /\ UNCHANGED <<slot, token, todo, found, work>>
    <3>1. RowsOK'
      BY <1>1, <1>9, <2>1, <2>2, TerminalType DEF Commit
    <3>2. pc' \in [Procs -> Labels]
      BY <1>2, <2>2 DEF Labels
    <3> QED
      BY <1>1, <1>9, <2>2, <3>1, <3>2 DEF Types, Commit, MemoryOK, RestOK
  <2>3. CASE AlreadyClosed(b, token[p], work[b].draft) /\ Leave(p)
    <3>1. RowsOK'
      BY <1>1, <1>9, <2>1, <2>3, TerminalType DEF Commit
    <3> QED
      BY <1>1, <1>9, <2>3, <3>1, LeaveType DEF Types, Commit, RestOK
  <2>4. CASE work' = [work EXCEPT ![b].draft = "cancelled"] /\ UNCHANGED <<owner, session, log, slot, pc, token, todo, found>>
    <3>1. work' \in [Boots -> WorkRec]
      BY <1>1, <2>4 DEF MemoryOK, WorkRec, Outcomes
    <3> QED
      BY <1>1, <1>9, <2>4, <3>1 DEF Types, Commit, MemoryOK, RowsOK, RestOK
  <2> QED
    BY <1>9, <2>2, <2>3, <2>4 DEF Commit
<1>10. CASE Publish(b)
  BY <1>1, <1>10, LeaveType DEF Types, Publish, RowsOK, RestOK
<1> QED
  BY <1>3, <1>4, <1>5, <1>6, <1>7, <1>8, <1>9, <1>10 DEF TurnStep

LEMMA BootTypes ==
    ASSUME Types, NEW b \in Boots,
           ReapStep(b) \/ CancelStep(b) \/ ClientStep(b) \/ Boot(b) \/ Crash(b)
    PROVE  Types'
<1>1. /\ <<b, "reap">> \in Procs /\ <<b, "cancel">> \in Procs /\ <<b, "turn">> \in Procs
      /\ <<b, "shell">> \in Procs /\ <<b, "fact">> \in Procs
      /\ work[b] \in WorkRec /\ MemoryOK /\ RowsOK /\ RestOK
  BY DEF Types, Procs, Roles, MemoryOK
<1>2. ASSUME NEW p \in Procs, NEW label \in Labels, Goto(p, label) PROVE pc' \in [Procs -> Labels]
  BY <1>1, <1>2, GotoType
<1>3. ASSUME NEW which \in {"ended", "own", "own_and_ended"}, Reap(b, which)
      PROVE  pc' \in [Procs -> Labels] /\ scope' \in [Boots -> {"ended", "own", "own_and_ended"}]
  <2>1. pc' \in [Procs -> Labels]
    BY <1>1, <1>2, <1>3 DEF Reap, Labels
  <2> QED
    BY <1>1, <1>3, <2>1 DEF Reap, RestOK
<1>4. ASSUME Drain(b)
      PROVE  /\ slot' \in [Boots -> {"free", "held", "closed"}] /\ work' \in [Boots -> WorkRec]
             /\ UNCHANGED <<life, owner, epoch, session, turns, log, token, todo, found>>
  BY <1>1, <1>4 DEF Drain, MemoryOK, WorkRec
<1>5. ASSUME NEW c, Request(b, c) PROVE requests' \in Nat
  BY <1>1, <1>5 DEF Request, RestOK
<1>6. CASE Scan(b)
  <2> DEFINE p == <<b, "reap">>
  <2>1. PICK dead \in Probes :
          LET listed == InScope(b, dead, Candidates) IN
          IF listed = {}
          THEN Leave(p)
          ELSE /\ found' = [found EXCEPT ![b] = listed]
               /\ todo' = [todo EXCEPT ![p] = listed \cap Running]
               /\ Goto(p, "read")
               /\ UNCHANGED <<slot, token, work>>
    BY <1>6 DEF Scan
  <2>2. CASE Leave(p)
    BY <1>1, <1>6, <2>2, LeaveType DEF Types, Scan, RowsOK, RestOK
  <2>3. CASE ~Leave(p)
    <3>1. pc' \in [Procs -> Labels]
      BY <1>1, <1>2, <2>1, <2>3 DEF Labels
    <3>2. InScope(b, dead, Candidates) \subseteq Nat
      BY <1>1 DEF InScope, Candidates, Running, RowsOK
    <3>3. found' \in [Boots -> SUBSET Nat] /\ todo' \in [Procs -> SUBSET Nat]
      BY <1>1, <2>1, <2>3, <3>2 DEF MemoryOK
    <3> QED
      BY <1>1, <1>6, <2>1, <2>3, <3>1, <3>3 DEF Types, Scan, MemoryOK, RowsOK, RestOK
  <2> QED
    BY <2>2, <2>3
<1>7. CASE Recovered(b)
  <2> DEFINE p == <<b, "reap">>
  <2>1. CASE Goto(p, "conclude") /\ UNCHANGED <<owner, slot, token, todo, found, work>>
    <3>1. pc' \in [Procs -> Labels]
      BY <1>1, <1>2, <2>1 DEF Labels, Writes
    <3> QED
      BY <1>1, <1>7, <2>1, <3>1 DEF Types, Recovered, MemoryOK, RowsOK, RestOK
  <2>2. CASE Release(b, token[p]) /\ Leave(p)
    BY <1>1, <1>7, <2>2, LeaveType DEF Types, Recovered, Release, RowsOK, RestOK
  <2> QED
    BY <1>7, <2>1, <2>2 DEF Recovered
<1>8. CASE SignalTask(b)
  <2>1. pc' \in [Procs -> Labels]
    BY <1>1, <1>2, <1>8 DEF SignalTask, Labels
  <2>2. work' \in [Boots -> WorkRec]
    BY <1>1, <1>8 DEF SignalTask, MemoryOK, WorkRec
  <2> QED
    BY <1>1, <1>8, <2>1, <2>2 DEF Types, SignalTask, MemoryOK, RowsOK, RestOK
<1>9. CASE CheckTask(b)
  <2>1. pc' \in [Procs -> Labels]
    BY <1>1, <1>2, <1>9 DEF CheckTask, Labels
  <2> QED
    BY <1>1, <1>9, <2>1 DEF Types, CheckTask, MemoryOK, RowsOK, RestOK
<1>10. ASSUME Submit(b) \/ UserShell(b) PROVE Types'
  <2>1. pc' \in [Procs -> Labels]
    BY <1>1, <1>2, <1>10 DEF Submit, UserShell, Labels
  <2>2. slot' \in [Boots -> {"free", "held", "closed"}]
    BY <1>1, <1>10 DEF Submit, UserShell, Admit, MemoryOK
  <2>3. requests' \in Nat
    BY <1>5, <1>10 DEF Submit, UserShell
  <2> QED
    BY <1>1, <1>10, <2>1, <2>2, <2>3 DEF Types, Submit, UserShell, MemoryOK, RowsOK, RestOK
<1>11. CASE CancelTurn(b)
  <2>1. requests' \in Nat
    BY <1>5, <1>11 DEF CancelTurn
  <2>2. CASE work' = [work EXCEPT ![b].cancel = TRUE] /\ UNCHANGED <<pc, scope>>
    <3>1. work' \in [Boots -> WorkRec]
      BY <1>1, <2>2 DEF MemoryOK, WorkRec
    <3> QED
      BY <1>1, <1>11, <2>1, <2>2, <3>1 DEF Types, CancelTurn, MemoryOK, RowsOK, RestOK
  <2>3. CASE Reap(b, "own_and_ended") /\ UNCHANGED work
    BY <1>1, <1>3, <1>11, <2>1, <2>3 DEF Types, CancelTurn, MemoryOK, RowsOK, RestOK
  <2> QED
    BY <1>11, <2>2, <2>3 DEF CancelTurn
<1>12. CASE Quit(b)
  BY <1>1, <1>3, <1>4, <1>5, <1>12 DEF Types, Quit, MemoryOK, RowsOK, RestOK
<1>13. CASE ForceRetire(b)
  BY <1>1, <1>4, <1>5, <1>13 DEF Types, ForceRetire, MemoryOK, RowsOK, RestOK
<1>14. CASE RetireIfIdle(b)
  BY <1>1, <1>5, <1>14 DEF Types, RetireIfIdle, MemoryOK, RowsOK, RestOK
<1>15. CASE CancelTask(b)
  <2>1. requests' \in Nat
    BY <1>5, <1>15 DEF CancelTask
  <2>2. pc' \in [Procs -> Labels]
    BY <1>1, <1>2, <1>15 DEF CancelTask, Labels
  <2>3. log' \in Seq(LogRec)
    <3>1. Entry("cancel_requested", Len(turns), epoch, "cancelled") \in LogRec
      BY <1>1, EntryType DEF RowsOK, Kinds, Outcomes
    <3>2. log' = log \/ log' = Append(log, Entry("cancel_requested", Len(turns), epoch, "cancelled"))
      BY <1>15, Zenon DEF CancelTask
    <3>3. ASSUME NEW e \in LogRec PROVE Append(log, e) \in Seq(LogRec)
      BY <1>1 DEF RowsOK
    <3>4. Append(log, Entry("cancel_requested", Len(turns), epoch, "cancelled")) \in Seq(LogRec)
      BY <3>1, <3>3, Zenon
    <3> QED
      BY <1>1, <3>2, <3>4 DEF RowsOK
  <2> QED
    BY <1>1, <1>15, <2>1, <2>2, <2>3 DEF Types, CancelTask, MemoryOK, RowsOK, RestOK
<1>16. CASE BackgroundFinished(b)
  <2>1. Entry("background", 0, epoch, "completed") \in LogRec
    BY <1>1, EntryType DEF RowsOK, Kinds, Outcomes
  <2>2. log' \in Seq(LogRec)
    BY <1>1, <1>16, <2>1 DEF BackgroundFinished, RowsOK
  <2> QED
    BY <1>1, <1>16, <2>2 DEF Types, BackgroundFinished, MemoryOK, RowsOK, RestOK
<1>17. CASE ShellFinished(b)
  <2>1. requests' \in Nat
    BY <1>5, <1>17 DEF ShellFinished
  <2>2. pc' \in [Procs -> Labels]
    BY <1>1, <1>2, <1>17 DEF ShellFinished, Labels, Writes
  <2>3. token' \in [Procs -> Nat]
    BY <1>1, <1>17 DEF ShellFinished, MemoryOK, RowsOK
  <2> QED
    BY <1>1, <1>17, <2>1, <2>2, <2>3 DEF Types, ShellFinished, MemoryOK, RowsOK, RestOK
<1>18. CASE Boot(b)
  <2>1. life' \in [Boots -> {"new", "alive", "ended"}]
    BY <1>1, <1>18 DEF Boot, RestOK
  <2> QED
    BY <1>1, <1>3, <1>18, <2>1 DEF Types, Boot, MemoryOK, RowsOK, RestOK
<1>19. CASE Crash(b)
  <2>1. life' \in [Boots -> {"new", "alive", "ended"}]
    BY <1>1, <1>19 DEF Crash, RestOK
  <2>2. pc' \in [Procs -> Labels] /\ token' \in [Procs -> Nat] /\ todo' \in [Procs -> SUBSET Nat]
    BY <1>1, <1>19 DEF Crash, MemoryOK, Labels
  <2>3. slot' \in [Boots -> {"free", "held", "closed"}] /\ found' \in [Boots -> SUBSET Nat]
    BY <1>1, <1>19 DEF Crash, MemoryOK
  <2>4. work' \in [Boots -> WorkRec]
    BY <1>1, <1>19, NoWorkType DEF Crash, MemoryOK
  <2> QED
    BY <1>1, <1>19, <2>1, <2>2, <2>3, <2>4 DEF Types, Crash, MemoryOK, RowsOK, RestOK
<1>20. ClientStep(b) =>
         \/ Submit(b) \/ UserShell(b) \/ CancelTurn(b) \/ Quit(b) \/ ForceRetire(b) \/ RetireIfIdle(b)
         \/ CancelTask(b) \/ BackgroundFinished(b) \/ ShellFinished(b)
  BY DEF ClientStep
<1>21. (ReapStep(b) => Scan(b) \/ Recovered(b)) /\ (CancelStep(b) => SignalTask(b) \/ CheckTask(b))
  BY DEF ReapStep, CancelStep
<1> QED
  BY <1>6, <1>7, <1>8, <1>9, <1>10, <1>11, <1>12, <1>13, <1>14, <1>15, <1>16, <1>17, <1>18, <1>19, <1>20, <1>21

\* The initial rows and memory are typed, and every step of every process keeps them so.
LEMMA TypesInductive == (Init => Types) /\ (Types /\ [Next]_vars => Types')
<1>1. Init => Types
  <2> SUFFICES ASSUME Init PROVE Types
    OBVIOUS
  <2>1. MemoryOK
    BY NoWorkType DEF Init, MemoryOK, Labels
  <2>2. RowsOK /\ RestOK
    BY DEF Init, RowsOK, RestOK
  <2> QED
    BY <2>1, <2>2 DEF Types
<1>2. Types /\ [Next]_vars => Types'
  <2>1. Types /\ UNCHANGED vars => Types'
    BY DEF Types, MemoryOK, RowsOK, RestOK, vars
  <2> QED
    BY <2>1, ProcTypes, TurnTypes, BootTypes DEF Next
<1> QED
  BY <1>1, <1>2

\* The columns and the memory of every process keep their types.
THEOREM TaskTypeCorrect == Spec => []TypeOK
<1>1. Types => TypeOK
  BY DEF Types, MemoryOK, RowsOK, RestOK, TypeOK, TurnRec, LogRec, WorkRec
<1> QED
  BY <1>1, TypesInductive, PTL DEF Spec
===============================================================================
