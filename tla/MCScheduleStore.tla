-------------------------- MODULE MCScheduleStore --------------------------
(***************************************************************************)
(* The instance of ScheduleStore for TLC: two instants, an interval        *)
(* trigger whose grid holds both and a one-shot at the second, so that an  *)
(* edit can keep the rule, move to the other slot, or find it taken.       *)
(***************************************************************************)
EXTENDS ScheduleStore

MCSlots == 0 .. 1
MCTriggers == {Every(0, 1), Once(1)}
=============================================================================
