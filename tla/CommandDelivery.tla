---------------------------- MODULE CommandDelivery ----------------------------
(***************************************************************************)
(* One command of a client, delivered at least once under one command id:   *)
(* the client that redelivers until it is answered, the connections that    *)
(* lose answers, the boots that handle deliveries of it at the same time,   *)
(* and the receipt all of them share in the repository's database.  A step  *)
(* of a delivery is one SQL statement or one look at the registry of the    *)
(* commands a boot is handling.                                             *)
(*                                                                         *)
(* CompleteAnyway, FailedOrGivenUp, JudgeOthers, JudgeUnregistered and       *)
(* RecheckStatus are not part of the specification: each differs by one      *)
(* mistake from the action below it and shows which property notices.        *)
(***************************************************************************)
EXTENDS Naturals

CONSTANTS
    Boots,       \* the processes that ever serve the repository
    NoBoot,
    Attempts,    \* deliveries handled at the same time
    NoAttempt,
    Mortal,      \* the boots that may crash
    Settings,    \* which kinds of command there are: TRUE edits a setting
    MaxFaults    \* bound: lost answers, storage errors and failed probes

ASSUME DeliveryAssumption ==
    /\ NoBoot \notin Boots
    /\ NoAttempt \notin Attempts
    /\ Mortal \subseteq Boots
    /\ Settings \subseteq BOOLEAN
    /\ MaxFaults \in Nat

VARIABLES
    setting,    \* whether the command edits a setting at the version it observed
    life,       \* [Boots -> {"new", "alive", "ended"}]
    receipt,    \* command_receipts.status and admitted_by_boot
    flying,     \* in_flight of each boot: the deliveries registered there
    kept,       \* boots with a registration kept after its delivery returned
    pc,         \* the next step of each delivery
    at,         \* the boot that handles a delivery
    seen,       \* the boot a delivery read from the receipt
    waiting,    \* the delivery whose answer the client waits for
    verdict,    \* the answer the client settled on
    answers,    \* every answer a delivery returned, heard or not
    effects,    \* how often the command took effect
    faults

vars == <<setting, life, receipt, flying, kept, pc, at, seen, waiting, verdict, answers,
          effects, faults>>
client  == <<waiting, verdict, answers>>
table   == <<receipt, effects>>

NoVerdict == "none"
Status(s) == [receipt EXCEPT !.status = s]

Init ==
    /\ setting \in Settings
    /\ life = [b \in Boots |-> "new"]
    /\ receipt = [status |-> "absent", boot |-> NoBoot]
    /\ flying = [b \in Boots |-> {}]
    /\ kept = {}
    /\ pc = [a \in Attempts |-> "idle"]
    /\ at = [a \in Attempts |-> NoBoot]
    /\ seen = [a \in Attempts |-> NoBoot]
    /\ waiting = NoAttempt
    /\ verdict = NoVerdict
    /\ answers = {}
    /\ effects = 0
    /\ faults = 0

Fault == faults < MaxFaults /\ faults' = faults + 1

-------------------------------------------------------------------------------
(* The client: redeliver the same envelope until an answer is heard *)

\* A delivery, the replay of one after a broken connection included.
Deliver(a) ==
    /\ verdict = NoVerdict /\ waiting = NoAttempt /\ pc[a] = "idle"
    /\ \E b \in Boots :
         /\ life[b] = "alive"
         /\ pc' = [pc EXCEPT ![a] = "classify"]
         /\ at' = [at EXCEPT ![a] = b]
    /\ waiting' = a
    /\ UNCHANGED <<setting, life, table, flying, kept, seen, verdict, answers, faults>>

\* A timeout or a broken connection ends the wait, not the delivery.
StopWaiting ==
    /\ waiting # NoAttempt /\ Fault
    /\ waiting' = NoAttempt
    /\ UNCHANGED <<setting, life, table, flying, kept, pc, at, seen, verdict, answers>>

-------------------------------------------------------------------------------
(* A delivery in the runtime *)

Goto(a, label) == pc' = [pc EXCEPT ![a] = label] /\ UNCHANGED <<at, seen, client>>

Unregister(a) == flying' = [flying EXCEPT ![at[a]] = @ \ {a}]

\* The delivery returns, and a client that still waits for it hears the answer:
\* "unknown" makes it deliver again, any other settles the command for it.
Return(a, answer) ==
    /\ pc' = [pc EXCEPT ![a] = "idle"]
    /\ at' = [at EXCEPT ![a] = NoBoot]
    /\ seen' = [seen EXCEPT ![a] = NoBoot]
    /\ answers' = answers \cup {answer}
    /\ waiting' = IF waiting = a THEN NoAttempt ELSE waiting
    /\ verdict' = IF waiting = a /\ answer # "unknown" THEN answer ELSE verdict

Answer == [completed |-> "delivered", unresolvable |-> "unresolvable"]

\* classify_terminal, before anything is registered or admitted.
Classify(a) ==
    /\ pc[a] = "classify"
    /\ \/ receipt.status \in DOMAIN Answer /\ Return(a, Answer[receipt.status])
       \/ receipt.status = "dispatching" /\ Goto(a, "who")
       \/ receipt.status \in {"absent", "failed"} /\ Goto(a, "check")
    /\ UNCHANGED <<setting, life, table, flying, kept, faults>>

\* A stale version, an answer to a question no longer asked: the id is not used.
Refuse(a) ==
    /\ pc[a] = "check"
    /\ Return(a, "rejected")
    /\ UNCHANGED <<setting, life, table, flying, kept, faults>>

\* Registered first, then admitted.
Register(a) ==
    /\ pc[a] = "check"
    /\ flying' = [flying EXCEPT ![at[a]] = @ \cup {a}]
    /\ Goto(a, "admit")
    /\ UNCHANGED <<setting, life, table, kept, faults>>

Dispatching(a) == receipt' = [status |-> "dispatching", boot |-> at[a]]

Admit(a) ==
    /\ pc[a] = "admit"
    /\ IF receipt.status = "absent"
       THEN Dispatching(a) /\ Goto(a, "dispatch")
       ELSE Goto(a, "reread") /\ UNCHANGED receipt
    /\ UNCHANGED <<setting, life, flying, kept, effects, faults>>

Reread(a) ==
    /\ pc[a] = "reread"
    /\ \/ /\ receipt.status \in DOMAIN Answer
          /\ Return(a, Answer[receipt.status]) /\ Unregister(a)
       \/ receipt.status = "failed" /\ Goto(a, "claim") /\ UNCHANGED flying
       \/ receipt.status = "dispatching" /\ Goto(a, "who") /\ Unregister(a)
    /\ UNCHANGED <<setting, life, table, kept, faults>>

\* Of several deliveries that saw a failed receipt one takes it.
Claim(a) ==
    /\ pc[a] = "claim"
    /\ IF receipt.status = "failed"
       THEN Dispatching(a) /\ Goto(a, "dispatch") /\ UNCHANGED flying
       ELSE Goto(a, "who") /\ Unregister(a) /\ UNCHANGED receipt
    /\ UNCHANGED <<setting, life, kept, effects, faults>>

\* An error does not prove that nothing happened; a version conflict does.
Dispatch(a) ==
    /\ pc[a] = "dispatch"
    /\ \/ effects' = effects + 1 /\ Goto(a, "complete")
       \/ effects' \in {effects, effects + 1} /\ Goto(a, "give_up")
       \/ setting /\ UNCHANGED effects /\ Goto(a, "fail")
    /\ UNCHANGED <<setting, life, receipt, flying, kept, faults>>

\* Only a dispatching receipt is settled.  One that cannot be keeps its
\* registration, so that this boot never takes it for abandoned.
Keep(a) == kept' = kept \cup {at[a]} /\ UNCHANGED <<receipt, flying>> /\ Return(a, "rejected")

CompleteAnyway(a) ==
    /\ pc[a] = "complete"
    /\ receipt' = Status("completed") /\ Unregister(a) /\ UNCHANGED kept
    /\ Return(a, "delivered")
    /\ UNCHANGED <<setting, life, effects, faults>>

Complete(a) ==
    /\ pc[a] = "complete"
    /\ IF receipt.status = "dispatching"
       THEN /\ receipt' = Status("completed") /\ Unregister(a) /\ UNCHANGED kept
            /\ Return(a, "delivered")
       ELSE Keep(a)
    /\ UNCHANGED <<setting, life, effects, faults>>

FailedOrGivenUp(a) ==
    /\ pc[a] \in {"fail", "give_up"}
    /\ receipt' = IF receipt.status = "dispatching" THEN Status("failed") ELSE receipt
    /\ Unregister(a) /\ Return(a, "rejected")
    /\ UNCHANGED <<setting, life, kept, effects, faults>>

\* Nothing happened, and the id may be used again; or the receipt stays
\* dispatching without anybody to settle it.
Failed(a) ==
    /\ pc[a] \in {"fail", "give_up"}
    /\ receipt' = IF pc[a] = "fail" /\ receipt.status = "dispatching"
                  THEN Status("failed") ELSE receipt
    /\ Unregister(a) /\ Return(a, "rejected")
    /\ UNCHANGED <<setting, life, kept, effects, faults>>

-------------------------------------------------------------------------------
(* answer_unsettled: a delivery that found the receipt dispatching *)

\* Whose dispatch is it?
Who(a) ==
    /\ pc[a] = "who"
    /\ IF receipt.status = "dispatching"
       THEN /\ seen' = [seen EXCEPT ![a] = receipt.boot]
            /\ pc' = [pc EXCEPT ![a] = "judge"]
            /\ UNCHANGED <<at, client>>
       ELSE Goto(a, "recheck")
    /\ UNCHANGED <<setting, life, table, flying, kept, faults>>

JudgeOthers(a) ==
    /\ pc[a] = "judge"
    /\ Goto(a, IF seen[a] # at[a] /\ life[seen[a]] = "ended" THEN "mark" ELSE "recheck")
    /\ UNCHANGED <<setting, life, table, flying, kept, faults>>

JudgeUnregistered(a) ==
    /\ pc[a] = "judge"
    /\ Goto(a, IF seen[a] = at[a] \/ life[seen[a]] = "ended" THEN "mark" ELSE "recheck")
    /\ UNCHANGED <<setting, life, table, flying, kept, faults>>

\* Is it abandoned?  This boot's, when nobody registered is left to settle it;
\* another boot's, when that boot has ended.
Abandoned(a) ==
    IF seen[a] = at[a] THEN flying[at[a]] = {} /\ at[a] \notin kept
                       ELSE life[seen[a]] = "ended"

Judge(a) ==
    /\ pc[a] = "judge"
    /\ Goto(a, IF Abandoned(a) THEN "mark" ELSE "recheck")
    /\ UNCHANGED <<setting, life, table, flying, kept, faults>>

\* A probe may fail to prove the end of a boot.
ProbeFails(a) ==
    /\ pc[a] = "judge" /\ seen[a] # at[a] /\ Fault
    /\ Goto(a, "recheck")
    /\ UNCHANGED <<setting, life, table, flying, kept>>

Mark(a) ==
    /\ pc[a] = "mark"
    /\ IF receipt.status = "dispatching"
       THEN receipt' = Status("unresolvable") /\ Return(a, "unresolvable")
       ELSE Goto(a, "recheck") /\ UNCHANGED receipt
    /\ UNCHANGED <<setting, life, flying, kept, effects, faults>>

RecheckStatus(a) ==
    /\ pc[a] = "recheck"
    /\ Return(a, receipt.status)
    /\ UNCHANGED <<setting, life, table, flying, kept, faults>>

\* Not abandoned, or settled meanwhile: what the receipt says now.
Recheck(a) ==
    /\ pc[a] = "recheck"
    /\ Return(a, IF receipt.status \in DOMAIN Answer THEN Answer[receipt.status] ELSE "unknown")
    /\ UNCHANGED <<setting, life, table, flying, kept, faults>>

-------------------------------------------------------------------------------

\* The storage fails.  A delivery that may still be the first reports a runtime
\* error, which clients take for a rejection; one that found the receipt
\* dispatching has no answer.
StorageFails(a) ==
    /\ Fault
    /\ \/ /\ pc[a] \in {"classify", "check", "admit", "reread", "claim", "fail"}
          /\ Unregister(a) /\ Return(a, "rejected") /\ UNCHANGED <<receipt, kept>>
       \/ /\ pc[a] \in {"who", "mark", "recheck"}
          /\ Return(a, "unknown") /\ UNCHANGED <<receipt, kept, flying>>
       \/ pc[a] = "complete" /\ Keep(a)
    /\ UNCHANGED <<setting, life, effects>>

Boot(b) ==
    /\ life[b] = "new"
    /\ life' = [life EXCEPT ![b] = "alive"]
    /\ UNCHANGED <<setting, table, flying, kept, pc, at, seen, client, faults>>

\* The process ends with every delivery it handles; their connections break.
Crash(b) ==
    LET gone == {a \in Attempts : at[a] = b} IN
    /\ b \in Mortal /\ life[b] = "alive"
    /\ life' = [life EXCEPT ![b] = "ended"]
    /\ pc' = [a \in Attempts |-> IF a \in gone THEN "idle" ELSE pc[a]]
    /\ at' = [a \in Attempts |-> IF a \in gone THEN NoBoot ELSE at[a]]
    /\ seen' = [a \in Attempts |-> IF a \in gone THEN NoBoot ELSE seen[a]]
    /\ flying' = [flying EXCEPT ![b] = {}]
    /\ kept' = kept \ {b}
    /\ waiting' = IF waiting \in gone THEN NoAttempt ELSE waiting
    /\ UNCHANGED <<setting, table, verdict, answers, faults>>

DeliveryStep(a) ==
    \/ Classify(a) \/ Refuse(a) \/ Register(a) \/ Admit(a) \/ Reread(a) \/ Claim(a)
    \/ Dispatch(a) \/ Complete(a) \/ Failed(a) \/ Who(a) \/ Judge(a) \/ Mark(a) \/ Recheck(a)

Next ==
    \/ \E a \in Attempts : Deliver(a) \/ DeliveryStep(a) \/ ProbeFails(a) \/ StorageFails(a)
    \/ StopWaiting
    \/ \E b \in Boots : Boot(b) \/ Crash(b)

Spec == Init /\ [][Next]_vars

\* The client redelivers, a boot that is alive handles what it is sent, and a
\* process that is to start does.
Fairness ==
    /\ WF_vars(\E a \in Attempts : Deliver(a))
    /\ \A a \in Attempts : WF_vars(DeliveryStep(a))
    /\ \A b \in Boots : WF_vars(Boot(b))

FairSpec == Spec /\ Fairness

-------------------------------------------------------------------------------

Labels == {"idle", "classify", "check", "admit", "reread", "claim", "dispatch", "complete",
           "give_up", "fail", "who", "judge", "mark", "recheck"}
Replies == {"delivered", "rejected", "unresolvable", "unknown"}

\* The types of the receipt, the registries and the deliveries.
TypeOK ==
    /\ setting \in BOOLEAN
    /\ life \in [Boots -> {"new", "alive", "ended"}]
    /\ receipt \in [status : {"absent", "dispatching", "failed", "completed", "unresolvable"},
                    boot : Boots \cup {NoBoot}]
    /\ flying \in [Boots -> SUBSET Attempts]
    /\ kept \subseteq Boots
    /\ pc \in [Attempts -> Labels]
    /\ at \in [Attempts -> Boots \cup {NoBoot}]
    /\ seen \in [Attempts -> Boots \cup {NoBoot}]
    /\ waiting \in Attempts \cup {NoAttempt}
    /\ verdict \in {NoVerdict, "delivered", "rejected", "unresolvable"}
    /\ answers \subseteq Replies
    /\ effects \in Nat
    /\ faults \in Nat

\* However often a command is delivered, to whichever boots, it takes effect once.
EffectAtMostOnce == effects <= 1

\* A client is told "delivered" only of a command that took effect, and the
\* deliveries of one command never answer both "delivered" and "unresolvable".
AnswersAgree ==
    /\ "delivered" \in answers => effects = 1 /\ receipt.status = "completed"
    /\ "unresolvable" \in answers => receipt.status = "unresolvable"

\* The dispatches that are under way and may still settle the receipt.
UnderWay == {a \in Attempts : pc[a] \in {"dispatch", "complete", "fail"}}

\* A receipt is declared unresolvable only when no execution path can settle it
\* any more, though the proof and the UPDATE are separate steps.  (A command whose
\* failure is retryable may be dispatched anew in between.)
UnresolvableOnce == [][~setting /\ receipt'.status = "unresolvable" /\ receipt.status # "unresolvable"
                         => UnderWay = {}]_vars

\* The receipt is another boot's than one the client may be served by, and that
\* boot lives: whether it still dispatches cannot be seen from outside of it.
HeldElsewhere ==
    /\ receipt.status = "dispatching" /\ life[receipt.boot] = "alive"
    /\ \E b \in Boots \ {receipt.boot} : life[b] = "alive"

\* A client that keeps redelivering is answered in the end, or else a boot lives
\* on whose receipt nobody may judge: it finished a dispatch it could not record,
\* or it is not the one that handles the deliveries.
ClientAnswered == <>(verdict # NoVerdict) \/ <>[](kept # {} \/ HeldElsewhere)

===============================================================================
