--------------------------- MODULE FencedTask_proofs ---------------------------
(* The promise of the task row, proved for any boots and any log.             *)
EXTENDS FencedTask, TLAPS

LogEntry == [epoch : Nat, kind : Kinds \cup {"background"}]

\* Nothing in the log is ahead of the row, and while the row has an owner its
\* generation has written no terminal.
RowInv ==
    /\ epoch \in Nat
    /\ history \in Seq(LogEntry)
    /\ \A i \in 1 .. Len(history) : history[i].epoch <= epoch
    /\ owner # NoBoot =>
         \A i \in 1 .. Len(history) : history[i].kind = "task_finished" => history[i].epoch # epoch

Inv == RowInv /\ Ordered /\ OneTerminal

\* Whatever is written last belongs to the current generation, and is a terminal's
\* successor in it only if it is a fact of the host.
LEMMA AppendKeepsInv ==
    ASSUME Inv, NEW kind \in Kinds \cup {"background"},
           history' = Append(history, [epoch |-> epoch, kind |-> kind]),
           epoch' = epoch,
           kind # "background" => owner # NoBoot,
           owner' \in {owner, NoBoot},
           kind = "task_finished" => owner' = NoBoot
    PROVE  Inv'
<1> DEFINE e == [epoch |-> epoch, kind |-> kind]
           n == Len(history)
<1>1. n \in Nat /\ e \in LogEntry /\ history \in Seq(LogEntry) /\ epoch \in Nat
  BY DEF Inv, RowInv, LogEntry
<1>2. /\ history' \in Seq(LogEntry) /\ Len(history') = n + 1
      /\ \A i \in 1 .. n : history'[i] = history[i]
      /\ history'[n + 1] = e
  BY <1>1
<1>3. \A i \in 1 .. n : history[i] \in LogEntry
  BY <1>1
<1>4. \A i \in 1 .. n + 1 : i \in 1 .. n \/ i = n + 1
  BY <1>1
<1>5. \A i \in 1 .. n + 1 : history'[i].epoch <= epoch
  BY <1>1, <1>2, <1>4 DEF Inv, RowInv, LogEntry
<1>6. RowInv'
  <2>1. ASSUME owner' # NoBoot, NEW i \in 1 .. n + 1, history'[i].kind = "task_finished"
        PROVE  history'[i].epoch # epoch
    <3>1. owner # NoBoot /\ kind # "task_finished"
      BY <2>1
    <3>2. i \in 1 .. n
      BY <1>2, <1>4, <2>1, <3>1
    <3> QED
      BY <1>2, <2>1, <3>1, <3>2 DEF Inv, RowInv
  <2> QED
    BY <1>1, <1>2, <1>5, <2>1 DEF RowInv
<1>7. Ordered'
  <2>1. ASSUME NEW i \in 1 .. n + 1, NEW j \in 1 .. n + 1, i <= j
        PROVE  history'[i].epoch <= history'[j].epoch
    <3>1. CASE j = n + 1
      BY <1>2, <1>5, <3>1
    <3>2. CASE j \in 1 .. n
      <4>1. i \in 1 .. n
        BY <1>1, <2>1, <3>2
      <4> QED
        BY <1>2, <2>1, <3>2, <4>1 DEF Inv, Ordered
    <3> QED
      BY <1>4, <3>1, <3>2
  <2> QED
    BY <1>2, <2>1 DEF Ordered
<1>8. OneTerminal'
  <2>1. ASSUME NEW i \in 1 .. n + 1, NEW j \in 1 .. n + 1, i < j,
               history'[i].kind = "task_finished", history'[j].epoch = history'[i].epoch
        PROVE  history'[j].kind = "background"
    <3>1. i \in 1 .. n
      BY <1>1, <2>1
    <3>2. CASE j = n + 1
      <4>1. history[i].kind = "task_finished" /\ history[i].epoch = epoch
        BY <1>2, <2>1, <3>1, <3>2
      <4>2. owner = NoBoot
        BY <3>1, <4>1 DEF Inv, RowInv
      <4> QED
        BY <1>2, <3>2, <4>2
    <3>3. CASE j \in 1 .. n
      BY <1>2, <2>1, <3>1, <3>3 DEF Inv, OneTerminal
    <3> QED
      BY <1>4, <3>2, <3>3
  <2> QED
    BY <1>2, <2>1 DEF OneTerminal
<1> QED
  BY <1>6, <1>7, <1>8 DEF Inv

\* The log is ordered by generation, and a generation ends with its terminal:
\* what the fence in every owned write is for.
THEOREM FencedLog == Spec => [](Ordered /\ OneTerminal)
<1>1. Init => Inv
  BY DEF Init, Inv, RowInv, Ordered, OneTerminal
<1>2. Inv /\ [Next]_vars => Inv'
  <2> SUFFICES ASSUME Inv, [Next]_vars PROVE Inv'
    OBVIOUS
  <2>1. ASSUME NEW b \in Boots, Acquire(b) PROVE Inv'
    <3>1. \A i \in 1 .. Len(history) : history[i] \in LogEntry
      BY DEF Inv, RowInv
    <3>2. RowInv'
      BY <2>1, <3>1 DEF Inv, RowInv, LogEntry, Acquire
    <3>3. Ordered' /\ OneTerminal'
      BY <2>1 DEF Inv, Ordered, OneTerminal, Acquire
    <3> QED
      BY <3>2, <3>3 DEF Inv
  <2>2. ASSUME NEW b \in Boots, End(b) PROVE Inv'
    BY <2>2 DEF Inv, RowInv, Ordered, OneTerminal, End
  <2>3. CASE Release
    BY <2>3 DEF Inv, RowInv, Ordered, OneTerminal, Release
  <2>4. ASSUME NEW kind \in Kinds, Write(kind) PROVE Inv'
    <3>1. kind # "background"
      BY DEF Kinds
    <3> QED
      BY <2>4, <3>1, AppendKeepsInv DEF Write
  <2>5. CASE Note
    BY <2>5, AppendKeepsInv DEF Note
  <2>6. CASE UNCHANGED vars
    BY <2>6 DEF Inv, RowInv, Ordered, OneTerminal, vars
  <2> QED
    BY <2>1, <2>2, <2>3, <2>4, <2>5, <2>6 DEF Next
<1>3. Inv => Ordered /\ OneTerminal
  BY DEF Inv
<1> QED
  BY <1>1, <1>2, <1>3, PTL DEF Spec
===============================================================================
