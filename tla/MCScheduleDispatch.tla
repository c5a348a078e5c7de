------------------------- MODULE MCScheduleDispatch -------------------------
(***************************************************************************)
(* Instances of ScheduleDispatch for TLC.  A tick is the length of the     *)
(* lease, of the timeout and of the cancel grace, and the misfire grace is *)
(* zero: one tick makes a slot overdue, expires a lease or passes a        *)
(* deadline, so each of these races is a few steps long.                   *)
(***************************************************************************)
EXTENDS ScheduleDispatch, TLC

\* A slot per tick, as far as a run needs them.
MCSlots  == 0 .. 1
MCSlots2 == 0 .. 2
MCSlots3 == 0 .. 3

\* What Every(0, 1) yields in two seconds of half-second ticks, off its grid too.
MCHalves == {0, 2, 4, 5, 6}

\* The rule of most runs: every second, from the start.
MCTriggers == {Every(0, 1)}

\* Two rules whose grids have no instant in common.
MCGrids == {Every(0, 2), Every(1, 2)}

\* Two dispatchers run the same code.
Twins == Permutations(Dispatchers)
=============================================================================
