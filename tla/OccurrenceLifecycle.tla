------------------------ MODULE OccurrenceLifecycle ------------------------
(***************************************************************************)
(* What the schedule store promises of the occurrences of one definition,  *)
(* said without tables, runs, leases or clocks (leveler-schedule/src/      *)
(* lib.rs: "Delivery is at-most-once ... a missed run is visible; a        *)
(* duplicated one is not").                                                *)
(*                                                                         *)
(* An instant is free, or waits, or is being attempted, or is closed.  It  *)
(* is attempted only out of waiting, and a closed instant stays closed: no *)
(* instant is attempted twice.  An instant may be closed without an        *)
(* attempt, and a waiting one may be withdrawn when the rule is declared   *)
(* anew, which leaves another one waiting.  Removal ends everything.       *)
(***************************************************************************)
CONSTANT Slots

VARIABLES phase, removed

Phases == {"free", "waiting", "attempt", "closed"}

Init == phase = [s \in Slots |-> "free"] /\ removed = FALSE

Offer(s) ==
    /\ ~removed
    /\ phase[s] = "free"
    /\ phase' = [phase EXCEPT ![s] = "waiting"]
    /\ UNCHANGED removed

\* Withdraw waiting instants and leave another one waiting.
Redeclare(withdrawn, s) ==
    /\ ~removed
    /\ \A w \in withdrawn : phase[w] = "waiting"
    /\ phase[s] = "free" \/ s \in withdrawn
    /\ phase' = [i \in Slots |-> IF i = s THEN "waiting"
                                 ELSE IF i \in withdrawn THEN "free"
                                 ELSE phase[i]]
    /\ UNCHANGED removed

Attempt(s) ==
    /\ ~removed
    /\ phase[s] = "waiting"
    /\ phase' = [phase EXCEPT ![s] = "attempt"]
    /\ UNCHANGED removed

Close(s) ==
    /\ phase[s] \in {"waiting", "attempt"}
    /\ phase' = [phase EXCEPT ![s] = "closed"]
    /\ UNCHANGED removed

Remove ==
    /\ ~removed
    /\ phase' = [s \in Slots |-> "free"]
    /\ removed' = TRUE

Next ==
    \/ Remove
    \/ \E s \in Slots : Offer(s) \/ Attempt(s) \/ Close(s)
    \/ \E s \in Slots, withdrawn \in SUBSET Slots : Redeclare(withdrawn, s)

Spec == Init /\ [][Next]_<<phase, removed>>
=============================================================================
