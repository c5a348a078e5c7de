---------------------------- MODULE ScheduleRule ----------------------------
(***************************************************************************)
(* Triggers of a schedule: leveler-schedule/src/rule.rs.                   *)
(*                                                                         *)
(* An instant is an integer number of ticks, TicksPerSecond of them to the *)
(* second: the build stores milliseconds and declares intervals in whole   *)
(* seconds, so TicksPerSecond is 1000 there.                               *)
(*                                                                         *)
(* The two instant triggers, Once and Every, are here.  The calendar       *)
(* triggers (Daily, Weekly, Cron) differ in the instants they yield and in *)
(* nothing the store or the dispatchers do with them.                      *)
(***************************************************************************)
EXTENDS Integers

CONSTANT TicksPerSecond

ASSUME TicksPerSecondAssumption == TicksPerSecond \in Nat \ {0}

\* The absent instant (Option::None).
NoTime == -1

Once(at) == [kind |-> "once", at |-> at]
Every(anchor, every) == [kind |-> "every", anchor |-> anchor, every |-> every]

\* ScheduleTrigger::validate, for the two instant triggers.
Valid(trigger) == trigger.kind = "every" => trigger.every > 0

(***************************************************************************)
(* ScheduleTrigger::next_after.  num_seconds truncates the elapsed time to *)
(* whole seconds, and the sum starts at now itself, so the part of a       *)
(* second that now carries past the grid is carried into the result.       *)
(***************************************************************************)
NextEvery(anchor, every, now) ==
    IF now < anchor
    THEN anchor
    ELSE LET elapsed == (now - anchor) \div TicksPerSecond
         IN  now + (every - (elapsed % every)) * TicksPerSecond

NextAfter(trigger, now) ==
    IF trigger.kind = "once"
    THEN NoTime
    ELSE NextEvery(trigger.anchor, trigger.every, now)

\* ScheduleTrigger::first_occurrence: a past anchor is due at once.
FirstOccurrence(trigger) ==
    IF trigger.kind = "once" THEN trigger.at ELSE trigger.anchor

\* ScheduleTrigger::replacement_occurrence: an edit never resurrects an anchor.
ReplacementOccurrence(trigger, now) ==
    IF trigger.kind = "once" THEN trigger.at ELSE NextAfter(trigger, now)
=============================================================================
