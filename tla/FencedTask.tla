------------------------------ MODULE FencedTask ------------------------------
(***************************************************************************)
(* What the task row promises its writers: a task is held by at most one   *)
(* boot at a time, a boot that has not ended never loses it to another, and *)
(* the session's log only grows, by entries of the current generation.      *)
(* A terminal ends the generation that writes it.                           *)
(***************************************************************************)
EXTENDS Naturals, Sequences

CONSTANTS Boots, NoBoot

VARIABLES ended,    \* boots that have ended; an ended boot never comes back
          owner,    \* the boot that holds the task, or NoBoot
          epoch,    \* the generation of the last acquisition
          history   \* the session's log: the generation and kind of each entry

vars == <<ended, owner, epoch, history>>

Init ==
    /\ ended = {}
    /\ owner = NoBoot
    /\ epoch = 0
    /\ history = <<>>

\* A boot takes a task that is free, its own already, or left by an ended boot.
Acquire(b) ==
    /\ owner \in {NoBoot, b} \cup ended
    /\ owner' = b
    /\ epoch' = epoch + 1
    /\ UNCHANGED <<ended, history>>

Release ==
    /\ owner' = NoBoot
    /\ UNCHANGED <<ended, epoch, history>>

\* An entry written with the authority of the current generation.
Write(kind) ==
    /\ owner # NoBoot
    /\ history' = Append(history, [epoch |-> epoch, kind |-> kind])
    /\ IF kind = "task_finished" THEN owner' = NoBoot ELSE UNCHANGED owner
    /\ UNCHANGED <<ended, epoch>>

\* A fact of the execution host: it needs no generation, and takes none.
Note ==
    /\ history' = Append(history, [epoch |-> epoch, kind |-> "background"])
    /\ UNCHANGED <<ended, owner, epoch>>

End(b) ==
    /\ ended' = ended \cup {b}
    /\ UNCHANGED <<owner, epoch, history>>

Kinds == {"turn_started", "turn_finished", "cancel_requested", "task_finished", "note"}

Next ==
    \/ \E b \in Boots : Acquire(b) \/ End(b)
    \/ Release
    \/ \E kind \in Kinds : Write(kind)
    \/ Note

Spec == Init /\ [][Next]_vars

\* Entries of an earlier generation never follow entries of a later one.
Ordered == \A i, j \in 1 .. Len(history) : i <= j => history[i].epoch <= history[j].epoch

\* A generation has one terminal, and writes nothing with authority after it.
OneTerminal ==
    \A i, j \in 1 .. Len(history) :
        /\ i < j
        /\ history[i].kind = "task_finished"
        /\ history[j].epoch = history[i].epoch
        => history[j].kind = "background"
===============================================================================
