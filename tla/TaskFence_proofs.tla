---------------------------- MODULE TaskFence_proofs ----------------------------
(***************************************************************************)
(* The safety of TaskTurns, for any boots and any number of crashes: one    *)
(* running turn, the turn of a live executor left alone, and the refinement *)
(* of FencedTask, from which the order of the log follows.                  *)
(***************************************************************************)
EXTENDS TaskTurns_proofs

\* From the moment it has the task until its turn, or its recovery, is over, an
\* activity writes with a token of its own.
Hold     == {"open", "list", "interrupt", "announce", "running", "settle"}
Holds(p) == pc[p] \in Hold

\* No token is ahead of the row, and no two holders have the same.
TokenInv ==
    /\ \A p \in Procs : token[p] <= epoch
    /\ \A p, q \in Procs : Holds(p) /\ Holds(q) /\ token[p] = token[q] => p = q

\* An activity about to win the task wins it from nobody, itself or the dead.
CasInv == \A p \in Procs :
    pc[p] = "cas" /\ token[p] = epoch => owner \in {NoBoot, p[1]} \cup Ended

\* The turns an executor has still to interrupt are all that run.
ListInv == \A p \in Procs : pc[p] = "interrupt" /\ token[p] = epoch => Running \subseteq todo[p]

Fencing == TokenInv /\ CasInv /\ ListInv /\ OneRunningTurn /\ LiveTurnUntouched

\* What a step must do with activity q so that the turns need not be looked at.
Settles(q) ==
    /\ token'[q] <= epoch
    /\ pc'[q] \in Hold => pc[q] \in Hold /\ token'[q] = token[q]
    /\ pc'[q] = "cas" /\ token'[q] = epoch => owner \in {NoBoot, q[1]} \cup Ended
    /\ pc'[q] = "interrupt" /\ token'[q] = epoch => Running \subseteq todo'[q]
    /\ pc'[q] \in {"announce", "running"} /\ q[2] = "turn" =>
         pc[q] \in {"announce", "running"} /\ work'[q[1]].turn = work[q[1]].turn

Keeps(q) ==
    /\ pc'[q] = pc[q] /\ token'[q] = token[q] /\ todo'[q] = todo[q]
    /\ q[2] = "turn" => work'[q[1]].turn = work[q[1]].turn

-------------------------------------------------------------------------------
(* Steps that leave the turns and the generation alone *)

LEMMA KeepsSettles ==
    ASSUME Fencing, NEW q \in Procs, Keeps(q)
    PROVE  Settles(q)
  BY DEF Fencing, TokenInv, CasInv, ListInv, Settles, Keeps

LEMMA QuietStep ==
    ASSUME Types, Types', Fencing, UNCHANGED <<epoch, turns>>, owner' \in {owner, NoBoot},
           Ended \subseteq Ended', \A q \in Procs : Settles(q)
    PROVE  Fencing'
<1>1. Running' = Running
  BY DEF Running
<1>2. TokenInv'
  BY DEF Fencing, TokenInv, Settles, Holds
<1>3. CasInv'
  BY DEF CasInv, Settles
<1>4. ListInv'
  BY <1>1 DEF ListInv, Settles
<1>5. OneRunningTurn'
  BY <1>1 DEF Fencing, OneRunningTurn
<1>6. LiveTurnUntouched'
  <2> SUFFICES ASSUME NEW b \in Boots, pc'[<<b, "turn">>] \in {"announce", "running"},
                      Current(b, token[<<b, "turn">>])'
               PROVE  work'[b].turn \in Running
    BY <1>1 DEF LiveTurnUntouched
  <2> DEFINE p == <<b, "turn">>
  <2>1. p \in Procs /\ p[1] = b /\ p[2] = "turn"
    BY DEF Procs, Roles
  <2>2. pc[p] \in {"announce", "running"} /\ work'[b].turn = work[b].turn /\ token'[p] = token[p]
    BY <2>1 DEF Settles, Hold
  <2>3. Current(b, token[p])
    BY <2>2 DEF Current
  <2> QED
    BY <2>2, <2>3 DEF Fencing, LiveTurnUntouched
<1> QED
  BY <1>2, <1>3, <1>4, <1>5, <1>6 DEF Fencing

\* An activity that leaves holds nothing, and disturbs no other.
LEMMA LeaveSettles ==
    ASSUME Types, Fencing, NEW p \in Procs, Leave(p)
    PROVE  \A q \in Procs : Settles(q)
<1> TAKE q \in Procs
<1>1. CASE q = p
  BY <1>1 DEF Types, MemoryOK, RowsOK, Leave, Settles, Hold
<1>2. CASE q # p
  <2>1. q[2] = "turn" /\ q[1] = p[1] => p[2] # "turn"
    BY <1>2 DEF Procs
  <2>2. q[2] = "turn" => work'[q[1]].turn = work[q[1]].turn
    BY <2>1 DEF Types, MemoryOK, Leave, Procs
  <2> QED
    BY <1>2, <2>2, KeepsSettles DEF Types, MemoryOK, Leave, Keeps
<1> QED
  BY <1>1, <1>2

\* One activity moves on to a label where it holds nothing; the others are kept.
LEMMA GotoSettles ==
    ASSUME Types, Fencing, NEW p \in Procs, NEW label \in Labels \ (Hold \cup {"cas"}),
           Goto(p, label), UNCHANGED token, \A q \in Procs : q # p => todo'[q] = todo[q],
           \A b \in Boots : work'[b].turn = work[b].turn
    PROVE  \A q \in Procs : Settles(q)
<1> TAKE q \in Procs
<1>1. CASE q = p
  BY <1>1 DEF Types, MemoryOK, Goto, Settles, Hold, Fencing, TokenInv
<1>2. CASE q # p
  <2>1. Keeps(q)
    BY <1>2 DEF Types, MemoryOK, Goto, Keeps, Procs
  <2> QED
    BY <2>1, KeepsSettles
<1> QED
  BY <1>1, <1>2

-------------------------------------------------------------------------------
(* Steps that end a turn *)

LEMMA FinishRuns ==
    ASSUME Types, NEW b \in Boots, NEW e \in Nat, NEW t \in Nat,
           NEW out \in Outcomes, FinishTurn(b, e, t, out)
    PROVE  Running' = Running \ {t}
<1>1. turns' = [turns EXCEPT ![t].status = out]
  BY DEF FinishTurn
<1>2. /\ Len(turns') = Len(turns)
      /\ \A u \in 1 .. Len(turns) : turns'[u].status = IF u = t THEN out ELSE turns[u].status
  BY <1>1, StatusUpdate DEF Types, RowsOK
<1>3. out # "running"
  BY DEF Outcomes
<1> QED
  BY <1>2, <1>3 DEF Running

\* Only the current holder ends a turn: it cannot be the open turn of another.
LEMMA FinishKeepsFencing ==
    ASSUME Types, Types', Fencing, NEW p \in Procs, NEW t \in Nat, NEW out \in Outcomes,
           Holds(p), FinishTurn(p[1], token[p], t, out), UNCHANGED <<life, owner, epoch, token>>,
           \A q \in Procs : q # p => Keeps(q),
           \/ /\ pc[p] \in {"interrupt", "settle"} /\ pc' = pc
              /\ todo'[p] = todo[p] \ {t}
           \/ pc'[p] = "resolve"
    PROVE  Fencing'
<1>1. p[1] \in Boots /\ token[p] \in Nat
  BY DEF Types, MemoryOK, Procs
<1>2. Running' = Running \ {t}
  BY <1>1, FinishRuns
<1>3. Current(p[1], token[p]) /\ epoch = token[p]
  BY DEF FinishTurn, Current
<1>4. \A q \in Procs : Holds(q) /\ token[q] = epoch => q = p
  BY <1>3 DEF Fencing, TokenInv
<1>5. \A q \in Procs : Holds(q)' => Holds(q)
  BY DEF Holds, Keeps, Hold
<1>6. TokenInv'
  BY <1>5 DEF Fencing, TokenInv
<1>7. CasInv'
  BY DEF Fencing, CasInv, Keeps, Ended
<1>8. ListInv'
  <2> SUFFICES ASSUME NEW q \in Procs, pc'[q] = "interrupt", token[q] = epoch
               PROVE  Running' \subseteq todo'[q]
    BY DEF ListInv
  <2>1. CASE q = p
    BY <1>2, <2>1 DEF Fencing, ListInv
  <2>2. CASE q # p
    BY <1>2, <2>2 DEF Fencing, ListInv, Keeps
  <2> QED
    BY <2>1, <2>2
<1>9. OneRunningTurn'
  BY <1>2 DEF Fencing, OneRunningTurn
<1>10. LiveTurnUntouched'
  <2> SUFFICES ASSUME NEW b \in Boots, pc'[<<b, "turn">>] \in {"announce", "running"},
                      Current(b, token[<<b, "turn">>])
               PROVE  work'[b].turn \in Running'
    BY DEF LiveTurnUntouched, Current
  <2> DEFINE q == <<b, "turn">>
  <2>1. q \in Procs /\ q[1] = b /\ q[2] = "turn"
    BY DEF Procs, Roles
  <2>2. q # p
    OBVIOUS
  <2>3. Keeps(q) /\ pc[q] \in {"announce", "running"}
    BY <2>1, <2>2 DEF Keeps
  <2>4. Holds(q) /\ token[q] = epoch
    BY <2>3 DEF Holds, Hold, Current
  <2> QED
    BY <1>4, <2>1, <2>2, <2>4
<1> QED
  BY <1>6, <1>7, <1>8, <1>9, <1>10 DEF Fencing

-------------------------------------------------------------------------------
(* The steps every activity takes *)

LEMMA ProcFencing ==
    ASSUME Types, Types', Fencing, NEW p \in Procs, ProcStep(p)
    PROVE  Fencing'
<1>1. p[1] \in Boots /\ p[2] \in Roles /\ token[p] \in Nat /\ epoch \in Nat
  BY DEF Types, Procs, MemoryOK, RowsOK
<1>2. life' = life => Ended \subseteq Ended'
  BY DEF Ended
<1>3. CASE ReadOwner(p)
  <2>1. PICK dead \in Probes :
          IF Refused(p[1], dead)
          THEN Leave(p)
          ELSE /\ Goto(p, "cas") /\ token' = [token EXCEPT ![p] = epoch]
               /\ UNCHANGED <<slot, todo, found, work>>
    BY <1>3 DEF ReadOwner
  <2>2. CASE Leave(p)
    BY <1>2, <1>3, <2>2, LeaveSettles, QuietStep DEF ReadOwner
  <2>3. CASE ~Leave(p)
    <3>1. owner \in {NoBoot, p[1]} \cup Ended
      BY <2>1, <2>3 DEF Refused, Probes
    <3>2. ASSUME NEW q \in Procs PROVE Settles(q)
      <4>1. CASE q = p
        BY <1>1, <2>1, <2>3, <3>1, <4>1 DEF Types, MemoryOK, Goto, Settles, Hold
      <4>2. CASE q # p
        <5>1. Keeps(q)
          BY <2>1, <2>3, <4>2 DEF Types, MemoryOK, Goto, Keeps
        <5> QED
          BY <5>1, KeepsSettles
      <4> QED
        BY <4>1, <4>2
    <3> QED
      BY <1>2, <1>3, <3>2, QuietStep DEF ReadOwner
  <2> QED
    BY <2>2, <2>3
<1>4. CASE Acquire(p)
  <2>1. /\ owner' = p[1] /\ epoch' = epoch + 1 /\ token'[p] = epoch + 1
        /\ pc'[p] \in {"open", "note", "settle", "finish", "write"}
        /\ \A q \in Procs : q # p => pc'[q] = pc[q] /\ token'[q] = token[q]
        /\ UNCHANGED <<turns, todo, work>>
    BY <1>1, <1>4 DEF Acquire, Goto, AfterAcquire, Roles, Types, MemoryOK
  <2>2. \A q \in Procs : q # p => token'[q] # epoch' /\ token'[q] <= epoch'
    BY <1>1, <2>1 DEF Fencing, TokenInv, Types, MemoryOK
  <2>3. TokenInv'
    BY <1>1, <2>1, <2>2 DEF Fencing, TokenInv, Holds
  <2>4. CasInv' /\ ListInv'
    BY <1>1, <2>1, <2>2 DEF CasInv, ListInv
  <2>5. OneRunningTurn'
    BY <2>1 DEF Fencing, OneRunningTurn, Running
  <2>6. LiveTurnUntouched'
    <3> SUFFICES ASSUME NEW b \in Boots, pc'[<<b, "turn">>] \in {"announce", "running"},
                        Current(b, token[<<b, "turn">>])'
                 PROVE  FALSE
      BY DEF LiveTurnUntouched
    <3>1. <<b, "turn">> \in Procs /\ token'[<<b, "turn">>] = epoch'
      BY DEF Procs, Roles, Current
    <3> QED
      BY <2>1, <2>2, <3>1
  <2> QED
    BY <2>3, <2>4, <2>5, <2>6 DEF Fencing
<1>5. CASE LoseRace(p)
  BY <1>2, <1>5, LeaveSettles, QuietStep DEF LoseRace
<1>6. CASE Fail(p)
  <2>1. UNCHANGED <<life, epoch, turns>> /\ owner' \in {owner, NoBoot}
    BY <1>6 DEF Fail, Release
  <2>2. CASE Leave(p)
    BY <1>2, <2>1, <2>2, LeaveSettles, QuietStep
  <2>3. CASE Goto(p, "resolve") /\ work' = [work EXCEPT ![p[1]].draft = "failed"] /\ UNCHANGED <<token, todo>>
    <3>1. \A b \in Boots : work'[b].turn = work[b].turn
      BY <2>3 DEF Types, MemoryOK, WorkRec
    <3>2. "resolve" \in Labels \ (Hold \cup {"cas"})
      BY DEF Labels, Hold
    <3>3. \A q \in Procs : Settles(q)
      BY <2>3, <3>1, <3>2, GotoSettles
    <3> QED
      BY <1>2, <2>1, <3>3, QuietStep
  <2> QED
    BY <1>6, <2>2, <2>3 DEF Fail
<1>7. CASE Interrupt(p)
  <2>1. PICK t \in todo[p] : /\ FinishTurn(p[1], token[p], t, "interrupted")
                             /\ todo' = [todo EXCEPT ![p] = @ \ {t}]
    BY <1>7 DEF Interrupt
  <2>2. t \in Nat /\ "interrupted" \in Outcomes /\ todo'[p] = todo[p] \ {t}
    BY <2>1 DEF Types, MemoryOK, Outcomes
  <2>3. Holds(p)
    BY <1>7 DEF Interrupt, Holds, Hold
  <2>4. \A q \in Procs : q # p => Keeps(q)
    BY <1>7, <2>1 DEF Interrupt, Keeps, Types, MemoryOK
  <2> QED
    BY <1>7, <2>1, <2>2, <2>3, <2>4, FinishKeepsFencing DEF Interrupt
<1>8. CASE Fact(p)
  <2>1. UNCHANGED <<life, owner, epoch, turns>>
    BY <1>8 DEF Fact
  <2>2. CASE Leave(p)
    BY <1>2, <2>1, <2>2, LeaveSettles, QuietStep
  <2>3. CASE Goto(p, "release") /\ UNCHANGED <<token, todo, work>>
    <3>1. "release" \in Labels \ (Hold \cup {"cas"})
      BY DEF Labels, Hold
    <3>2. \A q \in Procs : Settles(q)
      BY <2>3, <3>1, GotoSettles
    <3> QED
      BY <1>2, <2>1, <3>2, QuietStep
  <2> QED
    BY <1>8, <2>2, <2>3 DEF Fact
<1>9. CASE ReleaseFact(p)
  BY <1>2, <1>9, LeaveSettles, QuietStep DEF ReleaseFact, Release
<1>10. CASE FinishCancelled(p)
  BY <1>2, <1>10, LeaveSettles, QuietStep DEF FinishCancelled, Terminal, AlreadyClosed
<1> QED
  BY <1>3, <1>4, <1>5, <1>6, <1>7, <1>8, <1>9, <1>10 DEF ProcStep

-------------------------------------------------------------------------------
(* The steps of the executor *)

LEMMA TurnFencing ==
    ASSUME Types, Types', Fencing, NEW b \in Boots, TurnStep(b)
    PROVE  Fencing'
<1> DEFINE p == <<b, "turn">>
<1>1. p \in Procs /\ p[1] = b /\ p[2] = "turn" /\ token[p] \in Nat /\ token[p] <= epoch
  BY DEF Types, Procs, Roles, MemoryOK, Fencing, TokenInv
<1>2. life' = life => Ended \subseteq Ended'
  BY DEF Ended
<1>3. CASE StartTask(b)
  <2>1. ASSUME NEW q \in Procs PROVE Settles(q)
    <3>1. CASE q = p
      BY <1>1, <1>3, <3>1 DEF Types, MemoryOK, StartTask, Goto, Settles, Hold
    <3>2. CASE q # p
      BY <1>3, <3>2, KeepsSettles DEF Types, MemoryOK, StartTask, Goto, Keeps
    <3> QED
      BY <3>1, <3>2
  <2> QED
    BY <1>2, <1>3, <2>1, QuietStep DEF StartTask
<1>4. CASE ListRunning(b)
  <2>1. ASSUME NEW q \in Procs PROVE Settles(q)
    <3>1. CASE q = p
      BY <1>1, <1>4, <3>1 DEF Types, MemoryOK, ListRunning, Goto, Settles, Hold
    <3>2. CASE q # p
      BY <1>4, <3>2, KeepsSettles DEF Types, MemoryOK, ListRunning, Goto, Keeps
    <3> QED
      BY <3>1, <3>2
  <2> QED
    BY <1>2, <1>4, <2>1, QuietStep DEF ListRunning
<1>5. CASE StartTurn(b)
  <2> DEFINE n == Len(turns)
  <2>1. /\ pc[p] = "interrupt" /\ todo[p] = {} /\ token[p] = epoch
        /\ pc'[p] = "announce" /\ work'[b].turn = n + 1
        /\ \A q \in Procs : q # p => pc'[q] = pc[q]
        /\ UNCHANGED <<life, owner, epoch, token, todo>>
    BY <1>1, <1>5 DEF StartTurn, Goto, Current, Types, MemoryOK, WorkRec
  <2>2. \A q \in Procs : Holds(q) /\ token[q] = epoch => q = p
    BY <1>1, <2>1 DEF Fencing, TokenInv, Holds, Hold
  <2>3. Running = {}
    BY <1>1, <2>1 DEF Fencing, ListInv
  <2>4. Running' = {n + 1}
    <3>1. turns \in Seq(TurnRec) /\ [boot |-> b, status |-> "running"] \in TurnRec
      BY DEF Types, RowsOK, TurnRec
    <3>2. /\ n \in Nat /\ Len(turns') = n + 1
          /\ \A t \in 1 .. n : turns'[t] = turns[t]
          /\ turns'[n + 1] = [boot |-> b, status |-> "running"]
      BY <1>5, <3>1 DEF StartTurn
    <3>3. \A t \in 1 .. n + 1 : t \in 1 .. n \/ t = n + 1
      BY <3>2
    <3> QED
      BY <2>3, <3>2, <3>3 DEF Running
  <2>5. \A q \in Procs : Holds(q)' => Holds(q)
    BY <1>1, <2>1 DEF Holds, Hold
  <2>6. TokenInv'
    BY <2>1, <2>5 DEF Fencing, TokenInv
  <2>7. CasInv'
    BY <2>1 DEF Fencing, CasInv, Ended
  <2>8. ListInv'
    BY <1>1, <2>1, <2>2 DEF ListInv, Holds, Hold
  <2>9. OneRunningTurn'
    BY <2>4 DEF OneRunningTurn
  <2>10. LiveTurnUntouched'
    <3> SUFFICES ASSUME NEW c \in Boots, pc'[<<c, "turn">>] \in {"announce", "running"},
                        Current(c, token[<<c, "turn">>])'
                 PROVE  work'[c].turn \in Running'
      BY DEF LiveTurnUntouched
    <3> DEFINE q == <<c, "turn">>
    <3>1. q \in Procs /\ token[q] = epoch
      BY <2>1 DEF Procs, Roles, Current
    <3>2. q = p
      BY <2>1, <2>2, <3>1 DEF Holds, Hold
    <3> QED
      BY <2>1, <2>4, <3>2
  <2> QED
    BY <2>6, <2>7, <2>8, <2>9, <2>10 DEF Fencing
<1>6. CASE Announce(b)
  <2>1. ASSUME NEW q \in Procs PROVE Settles(q)
    <3>1. CASE q = p
      BY <1>1, <1>6, <3>1 DEF Types, MemoryOK, Announce, Goto, Settles, Hold
    <3>2. CASE q # p
      BY <1>6, <3>2, KeepsSettles DEF Types, MemoryOK, Announce, Goto, Keeps
    <3> QED
      BY <3>1, <3>2
  <2> QED
    BY <1>2, <1>6, <2>1, QuietStep DEF Announce
<1>7. CASE EndTurn(b)
  <2>1. PICK out \in Outcomes : /\ FinishTurn(b, token[p], work[b].turn, out)
                                /\ work' = [work EXCEPT ![b].draft = out]
    BY <1>7 DEF EndTurn, Outcomes
  <2>2. work[b].turn \in Nat /\ Holds(p) /\ pc'[p] = "resolve"
    BY <1>1, <1>7 DEF EndTurn, Goto, Types, MemoryOK, WorkRec, Holds, Hold
  <2>3. \A q \in Procs : q # p => Keeps(q)
    BY <1>7, <2>1 DEF EndTurn, Goto, Keeps, Types, MemoryOK, WorkRec, Procs
  <2> QED
    BY <1>1, <1>7, <2>1, <2>2, <2>3, FinishKeepsFencing DEF EndTurn
<1>8. ASSUME Resolve(b) \/ Decide(b) PROVE Fencing'
  <2>1. \A c \in Boots : work'[c].turn = work[c].turn
    BY <1>8 DEF Resolve, Decide, Types, MemoryOK, WorkRec
  <2>2. {"decide", "commit"} \subseteq Labels \ (Hold \cup {"cas"})
    BY DEF Labels, Writes, Hold
  <2>3. PICK label \in {"decide", "commit"} : Goto(p, label) /\ UNCHANGED <<token, todo>>
    BY <1>8 DEF Resolve, Decide
  <2>4. \A q \in Procs : Settles(q)
    BY <1>1, <2>1, <2>2, <2>3, GotoSettles
  <2> QED
    BY <1>2, <1>8, <2>4, QuietStep DEF Resolve, Decide
<1>9. CASE Commit(b)
  <2>1. UNCHANGED <<life, epoch, turns>> /\ owner' \in {owner, NoBoot}
    BY <1>9 DEF Commit, Terminal, AlreadyClosed
  <2>2. CASE Leave(p)
    BY <1>1, <1>2, <2>1, <2>2, LeaveSettles, QuietStep
  <2>3. CASE Goto(p, "publish") /\ UNCHANGED <<token, todo, work>>
    <3>1. "publish" \in Labels \ (Hold \cup {"cas"})
      BY DEF Labels, Hold
    <3>2. \A q \in Procs : Settles(q)
      BY <1>1, <2>3, <3>1, GotoSettles
    <3> QED
      BY <1>2, <2>1, <3>2, QuietStep
  <2>4. CASE work' = [work EXCEPT ![b].draft = "cancelled"] /\ UNCHANGED <<pc, token, todo>>
    <3>1. \A q \in Procs : Settles(q)
      BY <2>4, KeepsSettles DEF Keeps, Types, MemoryOK, WorkRec, Procs
    <3> QED
      BY <1>2, <2>1, <3>1, QuietStep
  <2> QED
    BY <1>9, <2>2, <2>3, <2>4 DEF Commit
<1>10. CASE Publish(b)
  BY <1>1, <1>2, <1>10, LeaveSettles, QuietStep DEF Publish
<1> QED
  BY <1>3, <1>4, <1>5, <1>6, <1>7, <1>8, <1>9, <1>10 DEF TurnStep

-------------------------------------------------------------------------------
(* The steps of the reaper, the commands and the processes *)

\* A step that moves activities only to labels where they hold nothing.
LEMMA Standing ==
    ASSUME Types, Types', Fencing, UNCHANGED <<owner, epoch, turns, token, todo>>,
           Ended \subseteq Ended', \A c \in Boots : work'[c].turn = work[c].turn,
           \A q \in Procs : pc'[q] = pc[q] \/ pc'[q] \notin Hold \cup {"cas"}
    PROVE  Fencing'
<1>1. ASSUME NEW q \in Procs PROVE Settles(q)
  <2>1. CASE pc'[q] = pc[q]
    <3>1. Keeps(q)
      BY <2>1 DEF Keeps, Procs
    <3> QED
      BY <3>1, KeepsSettles
  <2>2. CASE pc'[q] \notin Hold \cup {"cas"}
    BY <2>2 DEF Settles, Hold, Fencing, TokenInv
  <2> QED
    BY <1>1, <2>1, <2>2
<1> QED
  BY <1>1, QuietStep

LEMMA BootFencing ==
    ASSUME Types, Types', Fencing, NEW b \in Boots,
           ReapStep(b) \/ CancelStep(b) \/ ClientStep(b) \/ Boot(b) \/ Crash(b)
    PROVE  Fencing'
<1>1. /\ <<b, "reap">> \in Procs /\ <<b, "cancel">> \in Procs /\ <<b, "turn">> \in Procs
      /\ <<b, "shell">> \in Procs /\ <<b, "fact">> \in Procs
  BY DEF Procs, Roles
<1>2. life' = life => Ended \subseteq Ended'
  BY DEF Ended
<1>3. pc \in [Procs -> Labels] /\ work \in [Boots -> WorkRec]
  BY DEF Types, MemoryOK
<1>4. ASSUME NEW p \in Procs, NEW label, Goto(p, label), label \notin Hold \cup {"cas"}
      PROVE  \A q \in Procs : pc'[q] = pc[q] \/ pc'[q] \notin Hold \cup {"cas"}
  BY <1>3, <1>4 DEF Goto
<1>5. {"idle", "read", "conclude", "scan", "signal", "check"} \cap (Hold \cup {"cas"}) = {}
  BY DEF Hold
<1>6. ASSUME NEW which, Reap(b, which)
      PROVE  \A q \in Procs : pc'[q] = pc[q] \/ pc'[q] \notin Hold \cup {"cas"}
  BY <1>1, <1>4, <1>5, <1>6 DEF Reap
<1>7. ASSUME Drain(b) PROVE \A c \in Boots : work'[c].turn = work[c].turn
  BY <1>3, <1>7 DEF Drain, WorkRec
<1>8. CASE Scan(b)
  <2> DEFINE p == <<b, "reap">>
  <2>1. CASE Leave(p)
    BY <1>1, <1>2, <1>8, <2>1, LeaveSettles, QuietStep DEF Scan
  <2>2. CASE ~Leave(p)
    <3>1. /\ Goto(p, "read") /\ UNCHANGED <<token, work>>
          /\ \A q \in Procs : q # p => todo'[q] = todo[q]
      BY <1>8, <2>2 DEF Scan, Types, MemoryOK
    <3>2. "read" \in Labels \ (Hold \cup {"cas"})
      BY DEF Labels, Hold
    <3>3. \A q \in Procs : Settles(q)
      BY <1>1, <3>1, <3>2, GotoSettles
    <3> QED
      BY <1>2, <1>8, <3>3, QuietStep DEF Scan
  <2> QED
    BY <2>1, <2>2
<1>9. CASE Recovered(b)
  <2> DEFINE p == <<b, "reap">>
  <2>1. CASE Leave(p) /\ Release(b, token[p])
    BY <1>1, <1>2, <1>9, <2>1, LeaveSettles, QuietStep DEF Recovered, Release
  <2>2. CASE Goto(p, "conclude") /\ UNCHANGED <<owner, token, todo, work>>
    BY <1>1, <1>2, <1>4, <1>5, <1>9, <2>2, Standing DEF Recovered
  <2> QED
    BY <1>9, <2>1, <2>2 DEF Recovered
<1>10. CASE SignalTask(b)
  <2>1. \A c \in Boots : work'[c].turn = work[c].turn
    BY <1>3, <1>10 DEF SignalTask, WorkRec
  <2> QED
    BY <1>1, <1>2, <1>4, <1>5, <1>10, <2>1, Standing DEF SignalTask
<1>11. CASE CheckTask(b)
  BY <1>1, <1>2, <1>4, <1>5, <1>11, Standing DEF CheckTask
<1>12. ASSUME Submit(b) \/ UserShell(b) PROVE Fencing'
  BY <1>1, <1>2, <1>4, <1>5, <1>12, Standing DEF Submit, UserShell
<1>13. CASE CancelTurn(b)
  <2>1. CASE work' = [work EXCEPT ![b].cancel = TRUE] /\ UNCHANGED pc
    <3>1. \A c \in Boots : work'[c].turn = work[c].turn
      BY <1>3, <2>1 DEF WorkRec
    <3> QED
      BY <1>2, <1>13, <2>1, <3>1, Standing DEF CancelTurn
  <2>2. CASE Reap(b, "own_and_ended") /\ UNCHANGED work
    BY <1>2, <1>6, <1>13, <2>2, Standing DEF CancelTurn
  <2> QED
    BY <1>13, <2>1, <2>2 DEF CancelTurn
<1>14. CASE Quit(b)
  BY <1>2, <1>6, <1>7, <1>14, Standing DEF Quit, Drain
<1>15. CASE ForceRetire(b)
  BY <1>2, <1>7, <1>15, Standing DEF ForceRetire, Drain
<1>16. CASE RetireIfIdle(b)
  BY <1>2, <1>16, Standing DEF RetireIfIdle
<1>17. CASE CancelTask(b)
  BY <1>1, <1>2, <1>4, <1>5, <1>17, Standing DEF CancelTask
<1>18. CASE BackgroundFinished(b)
  BY <1>2, <1>18, Standing DEF BackgroundFinished
<1>19. CASE ShellFinished(b)
  <2> DEFINE p == <<b, "fact">>
  <2>1. p[1] = b /\ p[2] = "fact" /\ epoch \in Nat
    BY DEF Types, RowsOK
  <2>2. ASSUME NEW q \in Procs PROVE Settles(q)
    <3>1. CASE q = p
      <4>1. pc'[p] = (IF owner = NoBoot THEN "cas" ELSE "borrow") /\ token'[p] = epoch
        BY <1>1, <1>19 DEF ShellFinished, Goto, Types, MemoryOK
      <4> QED
        BY <2>1, <3>1, <4>1 DEF Settles, Hold
    <3>2. CASE q # p
      BY <1>19, <3>2, KeepsSettles DEF ShellFinished, Goto, Keeps, Types, MemoryOK
    <3> QED
      BY <3>1, <3>2
  <2> QED
    BY <1>2, <1>19, <2>2, QuietStep DEF ShellFinished
<1>20. CASE Boot(b)
  <2>1. Ended \subseteq Ended'
    BY <1>20 DEF Boot, Ended, Types, RestOK
  <2> QED
    BY <1>6, <1>20, <2>1, Standing DEF Boot
<1>21. CASE Crash(b)
  <2>1. Ended \subseteq Ended'
    BY <1>21 DEF Crash, Ended, Types, RestOK
  <2>2. ASSUME NEW q \in Procs PROVE Settles(q)
    <3>1. CASE q[1] = b
      BY <1>21, <3>1 DEF Crash, Settles, Hold, Types, RowsOK
    <3>2. CASE q[1] # b
      <4>1. work'[q[1]] = work[q[1]]
        BY <1>3, <1>21, <3>2 DEF Crash, Procs
      <4> QED
        BY <1>21, <3>2, <4>1, KeepsSettles DEF Crash, Keeps
    <3> QED
      BY <3>1, <3>2
  <2> QED
    BY <1>21, <2>1, <2>2, QuietStep DEF Crash
<1>22. ClientStep(b) =>
         \/ Submit(b) \/ UserShell(b) \/ CancelTurn(b) \/ Quit(b) \/ ForceRetire(b) \/ RetireIfIdle(b)
         \/ CancelTask(b) \/ BackgroundFinished(b) \/ ShellFinished(b)
  BY DEF ClientStep
<1>23. (ReapStep(b) => Scan(b) \/ Recovered(b)) /\ (CancelStep(b) => SignalTask(b) \/ CheckTask(b))
  BY DEF ReapStep, CancelStep
<1> QED
  BY <1>8, <1>9, <1>10, <1>11, <1>12, <1>13, <1>14, <1>15, <1>16, <1>17, <1>18, <1>19, <1>20,
     <1>21, <1>22, <1>23

\* A start, and every step of every process, keep the fencing.
LEMMA FencingInductive == (Init => Types /\ Fencing) /\ (Types /\ Fencing /\ [Next]_vars => (Types /\ Fencing)')
<1>1. ASSUME Init PROVE Types /\ Fencing
  <2>1. Types
    BY <1>1, TypesInductive
  <2>2. Running = {} /\ Ended = {}
    BY <1>1 DEF Init, Running, Ended
  <2>3. \A p \in Procs : pc[p] = "idle" /\ token[p] = 0
    BY <1>1 DEF Init
  <2>4. \A b \in Boots : <<b, "turn">> \in Procs
    BY DEF Procs, Roles
  <2>5. epoch = 0
    BY <1>1 DEF Init
  <2>6. TokenInv /\ CasInv /\ ListInv
    BY <2>3, <2>5 DEF TokenInv, CasInv, ListInv, Holds, Hold
  <2>7. OneRunningTurn /\ LiveTurnUntouched
    BY <2>2, <2>3, <2>4 DEF OneRunningTurn, LiveTurnUntouched
  <2> QED
    BY <2>1, <2>6, <2>7 DEF Fencing
<1>2. ASSUME Types, Fencing, [Next]_vars PROVE Types' /\ Fencing'
  <2>1. Types'
    BY <1>2, TypesInductive
  <2>2. CASE UNCHANGED vars
    <3>1. \A q \in Procs : Keeps(q)
      BY <2>2 DEF vars, Keeps
    <3>2. Ended' = Ended
      BY <2>2 DEF vars, Ended
    <3> QED
      BY <1>2, <2>1, <2>2, <3>1, <3>2, KeepsSettles, QuietStep DEF vars
  <2>3. CASE Next
    BY <1>2, <2>1, <2>3, ProcFencing, TurnFencing, BootFencing DEF Next
  <2> QED
    BY <1>2, <2>1, <2>2, <2>3
<1> QED
  BY <1>1, <1>2

\* A session never has two running turns, however many boots run it, crash and
\* recover it: the list an executor reads before it starts its turn is complete,
\* because only the holder of the newest token starts or ends one.
THEOREM RunsOneTurn == Spec => []OneRunningTurn
<1>1. Fencing => OneRunningTurn
  BY DEF Fencing
<1> QED
  BY <1>1, FencingInductive, PTL DEF Spec

\* While an executor may still write, no reaper and no other executor has ended
\* the turn it runs.
THEOREM LiveTurnStays == Spec => []LiveTurnUntouched
<1>1. Fencing => LiveTurnUntouched
  BY DEF Fencing
<1> QED
  BY <1>1, FencingInductive, PTL DEF Spec

-------------------------------------------------------------------------------
(* The refinement: what each step does to the row and to the log *)

Hist == [i \in 1 .. Len(log) |-> [epoch |-> log[i].epoch, kind |-> log[i].kind]]

\* A function on 1 .. n is a sequence of length n.
LEMMA FunctionIsSeq ==
    ASSUME NEW S, NEW n \in Nat, NEW f \in [1 .. n -> S]
    PROVE  f \in Seq(S) /\ Len(f) = n
  OBVIOUS

\* The abstract log grows by the entry the concrete one grows by.
LEMMA HistAppends ==
    ASSUME Types, NEW kind \in Kinds, NEW t \in Nat, NEW out \in Outcomes,
           log' = Append(log, Entry(kind, t, epoch, out))
    PROVE  Hist' = Append(Hist, [epoch |-> epoch, kind |-> kind])
<1> DEFINE n == Len(log)
           h == [epoch |-> epoch, kind |-> kind]
<1>1. n \in Nat /\ log \in Seq(LogRec) /\ epoch \in Nat
  BY DEF Types, RowsOK
<1>2. Entry(kind, t, epoch, out) \in LogRec
  BY <1>1, EntryType
<1>3. /\ Len(log') = n + 1
      /\ \A i \in 1 .. n : log'[i] = log[i]
      /\ log'[n + 1].epoch = epoch /\ log'[n + 1].kind = kind
  BY <1>1, <1>2 DEF Entry
<1>4. Hist \in Seq([epoch : Nat, kind : Kinds]) /\ Len(Hist) = n
  <2>1. \A i \in 1 .. n : log[i] \in LogRec
    BY <1>1
  <2>2. Hist \in [1 .. n -> [epoch : Nat, kind : Kinds]]
    BY <2>1 DEF Hist, LogRec
  <2> QED
    BY <1>1, <2>2, FunctionIsSeq, Zenon
<1>5. h \in [epoch : Nat, kind : Kinds]
  BY <1>1
<1>6. /\ DOMAIN Append(Hist, h) = 1 .. n + 1
      /\ \A i \in 1 .. n + 1 : Append(Hist, h)[i] = IF i = n + 1 THEN h ELSE Hist[i]
  BY <1>1, <1>4, <1>5
<1>7. \A i \in 1 .. n + 1 : [epoch |-> log'[i].epoch, kind |-> log'[i].kind] =
                           IF i = n + 1 THEN h ELSE Hist[i]
  <2>1. \A i \in 1 .. n + 1 : i = n + 1 \/ i \in 1 .. n
    BY <1>1
  <2>2. \A i \in 1 .. n : Hist[i] = [epoch |-> log[i].epoch, kind |-> log[i].kind]
    BY DEF Hist
  <2>3. n + 1 \notin 1 .. n
    BY <1>1
  <2> QED
    BY <1>3, <2>1, <2>2, <2>3, Zenon
<1>8. Append(Hist, h) \in Seq([epoch : Nat, kind : Kinds])
  BY <1>4, <1>5
<1>9. Append(Hist, h) = [i \in 1 .. n + 1 |-> Append(Hist, h)[i]]
  BY <1>6, <1>8
<1>10. Append(Hist, h) = [i \in 1 .. n + 1 |-> [epoch |-> log'[i].epoch, kind |-> log'[i].kind]]
  BY <1>6, <1>7, <1>9, Zenon
<1> QED
  BY <1>3, <1>10 DEF Hist

\* What a step may do to the log and the row, the verdict of a terminal included.
LogStep ==
    \/ UNCHANGED <<epoch, log>> /\ owner' \in {owner, NoBoot}
    \/ epoch' = epoch + 1 /\ UNCHANGED log
    \/ \E kind \in Kinds, t \in Nat, out \in Outcomes :
         /\ log' = Append(log, Entry(kind, t, epoch, out))
         /\ epoch' = epoch /\ owner' \in {owner, NoBoot}
         /\ kind = "cancel_requested" => owner # NoBoot
         /\ kind = "task_finished" => owner' = NoBoot /\ (out = "cancelled" \/ ~CancelRequested(epoch))

Maps == (Fenced!Next \/ UNCHANGED Fenced!vars) /\ LogStep

\* The row changes at most by a release, and the log not at all.
LEMMA ReleaseMaps ==
    ASSUME Ended' = Ended, UNCHANGED <<epoch, log>>, owner' \in {owner, NoBoot}
    PROVE  Maps
<1>1. Hist' = Hist
  BY DEF Hist
<1>2. CASE owner' = owner
  BY <1>1, <1>2 DEF Maps, LogStep, Fenced!vars, Hist
<1>3. CASE owner' = NoBoot
  BY <1>1, <1>3 DEF Maps, LogStep, Fenced!Next, Fenced!Release, Hist
<1> QED
  BY <1>2, <1>3

\* An entry of the current generation, while somebody holds the task.
LEMMA WriteMaps ==
    ASSUME Types, NEW kind \in Fenced!Kinds, NEW t \in Nat, NEW out \in Outcomes,
           owner # NoBoot, log' = Append(log, Entry(kind, t, epoch, out)), UNCHANGED <<life, epoch>>,
           owner' = IF kind = "task_finished" THEN NoBoot ELSE owner,
           kind = "task_finished" => out = "cancelled" \/ ~CancelRequested(epoch)
    PROVE  Maps
<1>1. kind \in Kinds
  BY DEF Kinds, Fenced!Kinds
<1>2. Hist' = Append(Hist, [epoch |-> epoch, kind |-> kind])
  BY <1>1, HistAppends
<1>3. Ended' = Ended
  BY DEF Ended
<1>4. Fenced!Write(kind)
  BY <1>2, <1>3 DEF Fenced!Write, Hist
<1>5. LogStep
  BY <1>1 DEF LogStep
<1> QED
  BY <1>4, <1>5 DEF Maps, Fenced!Next

LEMMA FinishTurnMaps ==
    ASSUME Types, NEW b \in Boots, NEW e \in Nat, NEW t \in Nat, NEW out \in Outcomes,
           FinishTurn(b, e, t, out), UNCHANGED <<life, owner, epoch>>
    PROVE  Maps
<1>1. "turn_finished" \in Fenced!Kinds
  BY DEF Fenced!Kinds
<1>2. owner # NoBoot /\ log' = Append(log, Entry("turn_finished", t, epoch, out))
  BY DEF FinishTurn, Current
<1> QED
  BY <1>1, <1>2, WriteMaps

LEMMA TerminalMaps ==
    ASSUME Types, NEW b \in Boots, NEW e \in Nat, NEW out \in Outcomes,
           Terminal(b, e, out) \/ AlreadyClosed(b, e, out), UNCHANGED <<life, epoch>>
    PROVE  Maps
<1>1. CASE Terminal(b, e, out)
  <2>1. "task_finished" \in Fenced!Kinds
    BY DEF Fenced!Kinds
  <2>2. owner # NoBoot /\ log' = Append(log, Entry("task_finished", 0, epoch, out)) /\ owner' = NoBoot
    BY <1>1 DEF Terminal, Current
  <2>3. out = "cancelled" \/ ~CancelRequested(epoch)
    BY <1>1 DEF Terminal, Current
  <2> QED
    BY <2>1, <2>2, <2>3, WriteMaps
<1>2. CASE AlreadyClosed(b, e, out)
  BY <1>2, ReleaseMaps DEF AlreadyClosed, Ended
<1> QED
  BY <1>1, <1>2

LEMMA ProcMaps ==
    ASSUME Types, Fencing, NEW p \in Procs, ProcStep(p)
    PROVE  Maps
<1>1. p[1] \in Boots /\ token[p] \in Nat /\ (life' = life => Ended' = Ended)
  BY DEF Types, Procs, MemoryOK, Ended
<1>2. CASE Acquire(p)
  <2>1. owner \in {NoBoot, p[1]} \cup Ended
    BY <1>2 DEF Fencing, CasInv, Acquire
  <2>2. Hist' = Hist
    BY <1>2 DEF Acquire, Hist
  <2>3. Fenced!Acquire(p[1])
    BY <1>1, <1>2, <2>1, <2>2 DEF Acquire, Fenced!Acquire, Hist
  <2>4. LogStep
    BY <1>2 DEF Acquire, LogStep
  <2> QED
    BY <1>1, <2>3, <2>4 DEF Maps, Fenced!Next
<1>3. CASE Interrupt(p)
  <2>1. PICK t \in todo[p] : FinishTurn(p[1], token[p], t, "interrupted")
    BY <1>3 DEF Interrupt
  <2>2. t \in Nat /\ "interrupted" \in Outcomes
    BY <2>1 DEF Types, MemoryOK, Outcomes
  <2> QED
    BY <1>1, <1>3, <2>1, <2>2, FinishTurnMaps DEF Interrupt
<1>4. CASE Fact(p)
  <2>1. "note" \in Fenced!Kinds /\ "completed" \in Outcomes
    BY DEF Fenced!Kinds, Outcomes
  <2>2. owner # NoBoot /\ log' = Append(log, Entry("note", 0, epoch, "completed"))
    BY <1>4 DEF Fact, AppendOwned, Current
  <2> QED
    BY <1>4, <2>1, <2>2, WriteMaps DEF Fact
<1>5. CASE FinishCancelled(p)
  BY <1>1, <1>5, TerminalMaps DEF FinishCancelled, Outcomes
<1>6. ASSUME ReadOwner(p) \/ LoseRace(p) \/ Fail(p) \/ ReleaseFact(p) PROVE Maps
  BY <1>1, <1>6, ReleaseMaps DEF ReadOwner, LoseRace, Fail, ReleaseFact, Release
<1> QED
  BY <1>2, <1>3, <1>4, <1>5, <1>6 DEF ProcStep

LEMMA TurnMaps ==
    ASSUME Types, NEW b \in Boots, TurnStep(b)
    PROVE  Maps
<1> DEFINE p == <<b, "turn">>
<1>1. token[p] \in Nat /\ work[b] \in WorkRec /\ (life' = life => Ended' = Ended)
  BY DEF Types, Procs, Roles, MemoryOK, Ended
<1>2. CASE Announce(b)
  <2>1. "turn_started" \in Fenced!Kinds /\ "completed" \in Outcomes /\ work[b].turn \in Nat
    BY <1>1 DEF Fenced!Kinds, Outcomes, WorkRec
  <2>2. owner # NoBoot /\ log' = Append(log, Entry("turn_started", work[b].turn, epoch, "completed"))
    BY <1>2 DEF Announce, AppendOwned, Current
  <2> QED
    BY <1>2, <2>1, <2>2, WriteMaps DEF Announce
<1>3. CASE EndTurn(b)
  <2>1. PICK out \in Outcomes : FinishTurn(b, token[p], work[b].turn, out)
    BY <1>3 DEF EndTurn, Outcomes
  <2>2. work[b].turn \in Nat
    BY <1>1 DEF WorkRec
  <2> QED
    BY <1>1, <1>3, <2>1, <2>2, FinishTurnMaps DEF EndTurn
<1>4. CASE Commit(b)
  <2>1. work[b].draft \in Outcomes /\ UNCHANGED <<life, epoch>>
    BY <1>1, <1>4 DEF WorkRec, Commit
  <2>2. CASE Terminal(b, token[p], work[b].draft) \/ AlreadyClosed(b, token[p], work[b].draft)
    BY <1>1, <2>1, <2>2, TerminalMaps
  <2>3. CASE UNCHANGED <<owner, log>>
    BY <1>1, <2>1, <2>3, ReleaseMaps
  <2> QED
    BY <1>4, <2>2, <2>3 DEF Commit
<1>5. ASSUME StartTask(b) \/ ListRunning(b) \/ StartTurn(b) PROVE Maps
  BY <1>1, <1>5, ReleaseMaps DEF StartTask, ListRunning, StartTurn
<1>6. ASSUME Resolve(b) \/ Decide(b) \/ Publish(b) PROVE Maps
  BY <1>1, <1>6, ReleaseMaps DEF Resolve, Decide, Publish
<1> QED
  BY <1>2, <1>3, <1>4, <1>5, <1>6 DEF TurnStep

LEMMA BootMaps ==
    ASSUME Types, NEW b \in Boots,
           ReapStep(b) \/ CancelStep(b) \/ ClientStep(b) \/ Boot(b) \/ Crash(b)
    PROVE  Maps
<1>1. life' = life => Ended' = Ended
  BY DEF Ended
<1>2. CASE ReapStep(b)
  BY <1>1, <1>2, ReleaseMaps DEF ReapStep, Scan, Recovered, Release
<1>3. CASE CancelStep(b)
  BY <1>1, <1>3, ReleaseMaps DEF CancelStep, SignalTask, CheckTask
<1>4. CASE CancelTask(b)
  <2>1. Len(turns) \in Nat /\ "cancelled" \in Outcomes /\ "cancel_requested" \in Fenced!Kinds
    BY DEF Types, RowsOK, Outcomes, Fenced!Kinds
  <2>2. \/ log' = log
        \/ owner = b /\ log' = Append(log, Entry("cancel_requested", Len(turns), epoch, "cancelled"))
    BY <1>4, Zenon DEF CancelTask
  <2>3. UNCHANGED <<life, owner, epoch>> /\ b # NoBoot
    BY <1>4, TaskAssumption DEF CancelTask
  <2>4. CASE log' = log
    BY <1>1, <2>3, <2>4, ReleaseMaps
  <2>5. CASE owner = b /\ log' = Append(log, Entry("cancel_requested", Len(turns), epoch, "cancelled"))
    BY <2>1, <2>3, <2>5, WriteMaps
  <2> QED
    BY <2>2, <2>4, <2>5
<1>5. CASE BackgroundFinished(b)
  <2>1. log' = Append(log, Entry("background", 0, epoch, "completed")) /\ UNCHANGED <<life, owner, epoch>>
    BY <1>5 DEF BackgroundFinished
  <2>2. Hist' = Append(Hist, [epoch |-> epoch, kind |-> "background"])
    BY <2>1, HistAppends DEF Kinds, Outcomes
  <2>3. Fenced!Note
    BY <1>1, <2>1, <2>2 DEF Fenced!Note, Hist
  <2>4. LogStep
    <3>1. "background" \in Kinds /\ "completed" \in Outcomes
      BY DEF Kinds, Outcomes
    <3> QED
      BY <2>1, <3>1 DEF LogStep
  <2> QED
    BY <2>3, <2>4 DEF Maps, Fenced!Next
<1>6. ASSUME Submit(b) \/ UserShell(b) \/ CancelTurn(b) PROVE Maps
  BY <1>1, <1>6, ReleaseMaps DEF Submit, UserShell, CancelTurn
<1>7. ASSUME Quit(b) \/ ForceRetire(b) \/ RetireIfIdle(b) \/ ShellFinished(b) PROVE Maps
  BY <1>1, <1>7, ReleaseMaps DEF Quit, ForceRetire, Drain, RetireIfIdle, ShellFinished
<1>8. CASE Boot(b)
  <2>1. Ended' = Ended
    BY <1>8 DEF Boot, Ended, Types, RestOK
  <2> QED
    BY <1>8, <2>1, ReleaseMaps DEF Boot
<1>9. CASE Crash(b)
  <2>1. Ended' = Ended \cup {b}
    BY <1>9 DEF Crash, Ended, Types, RestOK
  <2>2. Hist' = Hist /\ UNCHANGED <<owner, epoch>>
    BY <1>9 DEF Crash, Hist
  <2>3. Fenced!End(b)
    BY <2>1, <2>2 DEF Fenced!End, Hist
  <2>4. LogStep
    BY <1>9 DEF Crash, LogStep
  <2> QED
    BY <2>3, <2>4 DEF Maps, Fenced!Next
<1> QED
  BY <1>2, <1>3, <1>4, <1>5, <1>6, <1>7, <1>8, <1>9 DEF ClientStep

LEMMA StepMaps == Types /\ Fencing /\ [Next]_vars => Maps
<1> SUFFICES ASSUME Types, Fencing, [Next]_vars PROVE Maps
  OBVIOUS
<1>1. CASE UNCHANGED vars
  BY <1>1, ReleaseMaps DEF vars, Ended
<1>2. CASE Next
  BY <1>2, ProcMaps, TurnMaps, BootMaps DEF Next
<1> QED
  BY <1>1, <1>2

\* Every step of every process is a step of the fenced task, or none: a boot that
\* lives never loses the task, and what is logged carries the current generation.
THEOREM TaskIsFenced == Spec => ImplementsFencedTask
<1>1. Init => Fenced!Init
  <2> SUFFICES ASSUME Init PROVE Fenced!Init
    OBVIOUS
  <2>1. Ended = {} /\ log = <<>> /\ owner = NoBoot /\ epoch = 0
    BY DEF Init, Ended
  <2>2. Hist = <<>>
    BY <2>1 DEF Hist
  <2> QED
    BY <2>1, <2>2 DEF Fenced!Init, Hist
<1>2. Types /\ Fencing /\ [Next]_vars => [Fenced!Next]_(Fenced!vars)
  BY StepMaps DEF Maps
<1> QED
  BY <1>1, <1>2, FencingInductive, PTL DEF Spec, ImplementsFencedTask, Fenced!Spec

-------------------------------------------------------------------------------
(* What the fenced task promises, the session's log keeps *)

Promise == INSTANCE FencedTask_proofs WITH ended <- Ended, history <- Hist

\* The two readings of the abstract specification are one.
LEMMA SamePromise ==
    /\ Fenced!Init => Promise!Init
    /\ [Fenced!Next]_(Fenced!vars) => [Promise!Next]_(Promise!vars)
    /\ Promise!Ordered => LogOrdered
    /\ Promise!OneTerminal => OneTaskTerminal
<1>1. Fenced!Init => Promise!Init
  BY DEF Fenced!Init, Promise!Init, Hist
<1>2. [Fenced!Next]_(Fenced!vars) => [Promise!Next]_(Promise!vars)
  BY DEF Fenced!Next, Fenced!Acquire, Fenced!Release, Fenced!Write, Fenced!Note, Fenced!End,
         Fenced!Kinds, Fenced!vars, Promise!Next, Promise!Acquire, Promise!Release, Promise!Write,
         Promise!Note, Promise!End, Promise!Kinds, Promise!vars, Hist
<1>3. Promise!Ordered => LogOrdered
  BY DEF Promise!Ordered, LogOrdered, Fenced!Ordered, Hist
<1>4. Promise!OneTerminal => OneTaskTerminal
  BY DEF Promise!OneTerminal, OneTaskTerminal, Fenced!OneTerminal, Hist
<1> QED
  BY <1>1, <1>2, <1>3, <1>4

\* Nothing a superseded writer logs follows what its successor logged.
THEOREM LogStaysOrdered == Spec => []LogOrdered
<1>1. Spec => [][Fenced!Next]_(Fenced!vars) /\ Fenced!Init
  BY TaskIsFenced, PTL DEF ImplementsFencedTask, Fenced!Spec
<1> QED
  BY <1>1, SamePromise, Promise!FencedLog, PTL DEF Promise!Spec

\* A generation of the task ends once, and writes nothing with authority after it.
THEOREM TaskEndsOnce == Spec => []OneTaskTerminal
<1>1. Spec => [][Fenced!Next]_(Fenced!vars) /\ Fenced!Init
  BY TaskIsFenced, PTL DEF ImplementsFencedTask, Fenced!Spec
<1> QED
  BY <1>1, SamePromise, Promise!FencedLog, PTL DEF Promise!Spec

-------------------------------------------------------------------------------
(* A cancel recorded in a generation *)

\* A held task has no terminal in its generation, so a cancel is never recorded
\* after one.
CancelInv ==
    /\ \A i \in 1 .. Len(log) : log[i].epoch <= epoch
    /\ owner # NoBoot => ~Settled(epoch)
    /\ CancelWins

LEMMA CancelInductive ==
    ASSUME Types, CancelInv, LogStep
    PROVE  CancelInv'
<1> DEFINE n == Len(log)
<1>1. n \in Nat /\ log \in Seq(LogRec) /\ epoch \in Nat /\ \A i \in 1 .. n : log[i].epoch \in Nat
  <2>1. n \in Nat /\ log \in Seq(LogRec) /\ epoch \in Nat
    BY DEF Types, RowsOK
  <2>2. \A i \in 1 .. n : log[i] \in LogRec
    BY <2>1
  <2> QED
    BY <2>1, <2>2 DEF LogRec
<1>2. CASE UNCHANGED <<epoch, log>> /\ owner' \in {owner, NoBoot}
  BY <1>2 DEF CancelInv, Settled, CancelWins, Logged
<1>3. CASE epoch' = epoch + 1 /\ UNCHANGED log
  BY <1>1, <1>3 DEF CancelInv, Settled, CancelWins, Logged
<1>4. CASE \E kind \in Kinds, t \in Nat, out \in Outcomes :
         /\ log' = Append(log, Entry(kind, t, epoch, out))
         /\ epoch' = epoch /\ owner' \in {owner, NoBoot}
         /\ kind = "cancel_requested" => owner # NoBoot
         /\ kind = "task_finished" => owner' = NoBoot /\ (out = "cancelled" \/ ~CancelRequested(epoch))
  <2>1. PICK kind \in Kinds, t \in Nat, out \in Outcomes :
          /\ log' = Append(log, Entry(kind, t, epoch, out))
          /\ epoch' = epoch /\ owner' \in {owner, NoBoot}
          /\ kind = "cancel_requested" => owner # NoBoot
          /\ kind = "task_finished" => owner' = NoBoot /\ (out = "cancelled" \/ ~CancelRequested(epoch))
    BY <1>4
  <2>2. /\ Len(log') = n + 1
        /\ \A i \in 1 .. n : log'[i] = log[i]
        /\ log'[n + 1] = [kind |-> kind, turn |-> t, epoch |-> epoch, outcome |-> out]
    BY <1>1, <2>1, EntryType
  <2>3. \A i \in 1 .. n + 1 : i \in 1 .. n \/ i = n + 1
    BY <1>1
  <2>4. \A i \in 1 .. Len(log') : log'[i].epoch <= epoch'
    BY <1>1, <2>1, <2>2, <2>3 DEF CancelInv
  <2>5. owner' # NoBoot => ~Settled(epoch)'
    BY <2>1, <2>2, <2>3 DEF CancelInv, Settled, Logged
  <2>6. CancelWins'
    <3> SUFFICES ASSUME NEW i \in 1 .. n + 1, NEW j \in 1 .. n + 1,
                        log'[i].kind = "cancel_requested", log'[j].kind = "task_finished",
                        log'[i].epoch = log'[j].epoch
                 PROVE  i < j /\ log'[j].outcome = "cancelled"
      BY <2>2 DEF CancelWins, Logged
    <3>1. CASE i \in 1 .. n /\ j \in 1 .. n
      BY <2>2, <3>1 DEF CancelInv, CancelWins, Logged
    <3>2. CASE i = n + 1 /\ j \in 1 .. n
      <4>1. owner # NoBoot /\ log[j].kind = "task_finished" /\ log[j].epoch = epoch
        BY <2>1, <2>2, <3>2
      <4> QED
        BY <3>2, <4>1 DEF CancelInv, Settled, Logged
    <3>3. CASE i \in 1 .. n /\ j = n + 1
      <4>1. CancelRequested(epoch)
        BY <2>2, <3>3 DEF CancelRequested, Logged
      <4> QED
        BY <1>1, <2>1, <2>2, <3>3, <4>1
    <3>4. ~(i = n + 1 /\ j = n + 1)
      BY <2>2
    <3> QED
      BY <2>3, <3>1, <3>2, <3>3, <3>4
  <2> QED
    BY <2>4, <2>5, <2>6 DEF CancelInv
<1> QED
  BY <1>2, <1>3, <1>4 DEF LogStep

\* A cancel recorded in a generation is that generation's verdict, whoever else
\* was about to end the task.
THEOREM CancelDecides == Spec => []CancelWins
<1>1. ASSUME Init PROVE CancelInv
  <2>1. Len(log) = 0 /\ Logged("cancel_requested") = {} /\ owner = NoBoot
    BY <1>1 DEF Init, Logged
  <2> QED
    BY <2>1 DEF CancelInv, CancelWins
<1>2. Types /\ Fencing /\ CancelInv /\ [Next]_vars => CancelInv'
  BY StepMaps, CancelInductive DEF Maps
<1>3. CancelInv => CancelWins
  BY DEF CancelInv
<1> QED
  BY <1>1, <1>2, <1>3, FencingInductive, PTL DEF Spec

===============================================================================
