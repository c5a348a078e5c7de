------------------------ MODULE CommandDelivery_proofs ------------------------
(***************************************************************************)
(* Theorems about CommandDelivery, for any boots, any number of deliveries  *)
(* at once, any faults and either kind of command.                          *)
(***************************************************************************)
EXTENDS CommandDelivery, TLAPS

\* Every delivery in progress is one of a boot that is alive.
Served == \A a \in Attempts : pc[a] # "idle" => at[a] \in Boots /\ life[at[a]] = "alive"

Typed == TypeOK /\ Served

\* What the steps that return, move on or wait leave of the client's variables.
LEMMA ReturnTypes ==
    ASSUME TypeOK, NEW a \in Attempts, NEW answer \in Replies, Return(a, answer)
    PROVE  /\ pc' = [pc EXCEPT ![a] = "idle"]
           /\ pc' \in [Attempts -> Labels]
           /\ at' \in [Attempts -> Boots \cup {NoBoot}]
           /\ seen' \in [Attempts -> Boots \cup {NoBoot}]
           /\ waiting' \in Attempts \cup {NoAttempt}
           /\ verdict' \in {NoVerdict, "delivered", "rejected", "unresolvable"}
           /\ answers' \subseteq Replies
           /\ answers' = answers \cup {answer}
           /\ \A c \in Attempts \ {a} : at'[c] = at[c] /\ seen'[c] = seen[c]
  BY DEF TypeOK, Return, Labels, Replies, NoVerdict

LEMMA GotoTypes ==
    ASSUME TypeOK, NEW a \in Attempts, NEW label \in Labels, Goto(a, label)
    PROVE  /\ pc' = [pc EXCEPT ![a] = label]
           /\ pc' \in [Attempts -> Labels]
           /\ at' = at /\ seen' = seen
           /\ waiting' = waiting /\ verdict' = verdict /\ answers' = answers
  BY DEF TypeOK, Goto, Labels, client

\* The answer for a settled receipt is one of the client's.
LEMMA AnswerIsReply ==
    ASSUME NEW s \in DOMAIN Answer
    PROVE  /\ s \in {"completed", "unresolvable"}
           /\ Answer[s] \in Replies
           /\ Answer["completed"] = "delivered"
           /\ Answer["unresolvable"] = "unresolvable"
  BY DEF Answer, Replies

\* Types, and the life of the boots that handle deliveries, survive every step.
LEMMA TypedKept == Typed /\ [Next]_vars => Typed'
<1> SUFFICES ASSUME Typed, [Next]_vars PROVE Typed'
  OBVIOUS
<1> USE DeliveryAssumption DEF Typed, Served
<1>1. ASSUME NEW a \in Attempts, Deliver(a) PROVE Typed'
  BY <1>1 DEF Deliver, TypeOK, Labels, table
<1>2. ASSUME NEW a \in Attempts, Classify(a) PROVE Typed'
  <2>1. CASE receipt.status \in DOMAIN Answer /\ Return(a, Answer[receipt.status])
    BY <1>2, <2>1, ReturnTypes, AnswerIsReply DEF Classify, TypeOK, table
  <2>2. CASE Goto(a, "who")
    BY <1>2, <2>2, GotoTypes DEF Classify, TypeOK, table, Labels
  <2>3. CASE Goto(a, "check")
    BY <1>2, <2>3, GotoTypes DEF Classify, TypeOK, table, Labels
  <2> QED BY <1>2, <2>1, <2>2, <2>3 DEF Classify
<1>3. ASSUME NEW a \in Attempts, Refuse(a) PROVE Typed'
  BY <1>3, ReturnTypes DEF Refuse, TypeOK, table, Replies
<1>4. ASSUME NEW a \in Attempts, Register(a) PROVE Typed'
  BY <1>4, GotoTypes DEF Register, TypeOK, table, Labels
<1>5. ASSUME NEW a \in Attempts, Admit(a) PROVE Typed'
  <2>1. CASE Goto(a, "dispatch")
    BY <1>5, <2>1, GotoTypes DEF Admit, Dispatching, TypeOK, Labels
  <2>2. CASE Goto(a, "reread") /\ UNCHANGED receipt
    BY <1>5, <2>2, GotoTypes DEF Admit, TypeOK, Labels
  <2> QED BY <1>5, <2>1, <2>2 DEF Admit
<1>6. ASSUME NEW a \in Attempts, Reread(a) PROVE Typed'
  <2>1. CASE receipt.status \in DOMAIN Answer /\ Return(a, Answer[receipt.status]) /\ Unregister(a)
    BY <1>6, <2>1, ReturnTypes, AnswerIsReply DEF Reread, Unregister, TypeOK, table
  <2>2. CASE Goto(a, "claim") /\ UNCHANGED flying
    BY <1>6, <2>2, GotoTypes DEF Reread, TypeOK, table, Labels
  <2>3. CASE Goto(a, "who") /\ Unregister(a)
    BY <1>6, <2>3, GotoTypes DEF Reread, Unregister, TypeOK, table, Labels
  <2> QED BY <1>6, <2>1, <2>2, <2>3 DEF Reread
<1>7. ASSUME NEW a \in Attempts, Claim(a) PROVE Typed'
  <2>1. CASE Dispatching(a) /\ Goto(a, "dispatch") /\ UNCHANGED flying
    BY <1>7, <2>1, GotoTypes DEF Claim, Dispatching, TypeOK, Labels
  <2>2. CASE Goto(a, "who") /\ Unregister(a) /\ UNCHANGED receipt
    BY <1>7, <2>2, GotoTypes DEF Claim, Unregister, TypeOK, Labels
  <2> QED BY <1>7, <2>1, <2>2 DEF Claim
<1>8. ASSUME NEW a \in Attempts, Dispatch(a) PROVE Typed'
  <2>1. PICK label \in {"complete", "give_up", "fail"} :
            Goto(a, label) /\ effects' \in {effects, effects + 1}
    BY <1>8 DEF Dispatch
  <2> QED BY <1>8, <2>1, GotoTypes DEF Dispatch, TypeOK, Labels
<1>9. ASSUME NEW a \in Attempts, Complete(a) PROVE Typed'
  <2>1. PICK answer \in {"delivered", "rejected"} : Return(a, answer)
    BY <1>9 DEF Complete, Keep
  <2> QED BY <1>9, <2>1, ReturnTypes DEF Complete, Keep, Status, Unregister, TypeOK, Replies
<1>10. ASSUME NEW a \in Attempts, Failed(a) PROVE Typed'
  BY <1>10, ReturnTypes DEF Failed, Status, Unregister, TypeOK, Replies
<1>11. ASSUME NEW a \in Attempts, Who(a) PROVE Typed'
  <2>1. CASE receipt.status = "dispatching"
    BY <1>11, <2>1 DEF Who, TypeOK, Labels, table, client
  <2>2. CASE Goto(a, "recheck")
    BY <1>11, <2>2, GotoTypes DEF Who, TypeOK, Labels, table
  <2> QED BY <1>11, <2>1, <2>2 DEF Who
<1>12. ASSUME NEW a \in Attempts, Judge(a) PROVE Typed'
  <2>1. PICK label \in {"mark", "recheck"} : Goto(a, label)
    BY <1>12 DEF Judge
  <2> QED BY <1>12, <2>1, GotoTypes DEF Judge, TypeOK, Labels, table
<1>13. ASSUME NEW a \in Attempts, Mark(a) PROVE Typed'
  <2>1. CASE receipt' = Status("unresolvable") /\ Return(a, "unresolvable")
    BY <1>13, <2>1, ReturnTypes DEF Mark, Status, TypeOK, Replies
  <2>2. CASE Goto(a, "recheck") /\ UNCHANGED receipt
    BY <1>13, <2>2, GotoTypes DEF Mark, TypeOK, Labels
  <2> QED BY <1>13, <2>1, <2>2 DEF Mark
<1>14. ASSUME NEW a \in Attempts, Recheck(a) PROVE Typed'
  <2>1. PICK answer \in Replies : Return(a, answer)
    BY <1>14, AnswerIsReply DEF Recheck, Replies
  <2> QED BY <1>14, <2>1, ReturnTypes DEF Recheck, TypeOK, table
<1>15. ASSUME NEW a \in Attempts, ProbeFails(a) PROVE Typed'
  BY <1>15, GotoTypes DEF ProbeFails, Fault, TypeOK, Labels, table
<1>16. ASSUME NEW a \in Attempts, StorageFails(a) PROVE Typed'
  <2>1. PICK answer \in {"rejected", "unknown"} : Return(a, answer)
    BY <1>16 DEF StorageFails, Keep
  <2> QED BY <1>16, <2>1, ReturnTypes DEF StorageFails, Keep, Fault, Unregister, TypeOK, Replies
<1>17. CASE StopWaiting
  BY <1>17 DEF StopWaiting, Fault, TypeOK, table
<1>18. ASSUME NEW b \in Boots, Boot(b) PROVE Typed'
  BY <1>18 DEF Boot, TypeOK, table, client
<1>19. ASSUME NEW b \in Boots, Crash(b) PROVE Typed'
  BY <1>19 DEF Crash, TypeOK, table, Labels
<1>20. CASE UNCHANGED vars
  BY <1>20 DEF vars, TypeOK, table, client
<1> QED
  BY <1>1, <1>2, <1>3, <1>4, <1>5, <1>6, <1>7, <1>8, <1>9, <1>10, <1>11, <1>12, <1>13, <1>14,
     <1>15, <1>16, <1>17, <1>18, <1>19, <1>20 DEF Next, DeliveryStep

\* The receipt, the registries and the deliveries keep their types, whatever is
\* delivered to whom and whatever fails.
THEOREM DeliveryTypes == Spec => []TypeOK
<1>1. Init => Typed
  BY DeliveryAssumption DEF Init, Typed, Served, TypeOK, Labels, NoVerdict
<1>2. Typed => TypeOK
  BY DEF Typed
<1> QED
  BY <1>1, <1>2, TypedKept, PTL DEF Spec

-------------------------------------------------------------------------------

HoldLabels == {"dispatch", "complete", "give_up", "fail"}

\* The deliveries that dispatch: at most one, under a receipt nobody has settled
\* but by giving it up; and what the receipt tells of effects and of answers.
Once ==
    /\ \A a, c \in Attempts : pc[a] \in HoldLabels /\ pc[c] \in HoldLabels => a = c
    /\ \A a \in Attempts : pc[a] \in HoldLabels => receipt.status \in {"dispatching", "unresolvable"}
    /\ \A a \in Attempts : pc[a] \in {"dispatch", "fail"} => effects = 0
    /\ \A a \in Attempts : pc[a] = "complete" => effects = 1
    /\ receipt.status \in {"absent", "failed"} => effects = 0
    /\ receipt.status = "completed" => effects = 1
    /\ effects <= 1
    /\ "delivered" \in answers => receipt.status = "completed"
    /\ "unresolvable" \in answers => receipt.status = "unresolvable"

\* A step that starts no dispatch, settles nothing and answers what it reads.
LEMMA QuietOnce ==
    ASSUME TypeOK, Once, UNCHANGED table, NEW a \in Attempts, NEW label \in Labels \ HoldLabels,
           pc' = [pc EXCEPT ![a] = label],
           \/ UNCHANGED answers
           \/ answers' \in {answers \cup {"rejected"}, answers \cup {"unknown"}}
           \/ receipt.status \in DOMAIN Answer /\ answers' = answers \cup {Answer[receipt.status]}
    PROVE  Once'
<1>1. \A c \in Attempts : pc'[c] \in HoldLabels => pc'[c] = pc[c]
  BY DEF TypeOK
<1>2. "delivered" \in answers' => "delivered" \in answers \/ receipt.status = "completed"
  BY AnswerIsReply
<1>3. "unresolvable" \in answers' => "unresolvable" \in answers \/ receipt.status = "unresolvable"
  BY AnswerIsReply
<1>4. receipt' = receipt /\ effects' = effects
  BY DEF table
<1> QED
  BY <1>1, <1>2, <1>3, <1>4 DEF Once, HoldLabels

LEMMA OnceKept == Typed /\ Once /\ [Next]_vars => Once'
<1> SUFFICES ASSUME Typed, Once, [Next]_vars PROVE Once'
  OBVIOUS
<1>0. TypeOK
  BY DEF Typed
<1> USE <1>0 DEF HoldLabels
<1>1. ASSUME NEW a \in Attempts, Deliver(a) PROVE Once'
  BY <1>1, QuietOnce, "classify" \in Labels \ HoldLabels DEF Deliver, TypeOK, Once, table, Labels
<1>2. ASSUME NEW a \in Attempts, Classify(a) PROVE Once'
  <2>1. CASE receipt.status \in DOMAIN Answer /\ Return(a, Answer[receipt.status])
    BY <1>2, <2>1, QuietOnce DEF Classify, Return, Labels
  <2>2. CASE Goto(a, "who") \/ Goto(a, "check")
    BY <1>2, <2>2, QuietOnce DEF Classify, Goto, client, Labels
  <2> QED BY <1>2, <2>1, <2>2 DEF Classify
<1>3. ASSUME NEW a \in Attempts, Refuse(a) PROVE Once'
  BY <1>3, QuietOnce DEF Refuse, Return, Labels
<1>4. ASSUME NEW a \in Attempts, Register(a) PROVE Once'
  BY <1>4, QuietOnce DEF Register, Goto, client, Labels
<1>5. ASSUME NEW a \in Attempts, Admit(a) PROVE Once'
  <2>1. CASE receipt.status = "absent" /\ Dispatching(a) /\ Goto(a, "dispatch")
    BY <1>5, <2>1, GotoTypes DEF Admit, Dispatching, Once, Labels, TypeOK
  <2>2. CASE Goto(a, "reread") /\ UNCHANGED receipt
    BY <1>5, <2>2, QuietOnce DEF Admit, Goto, client, table, Labels
  <2> QED BY <1>5, <2>1, <2>2 DEF Admit
<1>6. ASSUME NEW a \in Attempts, Reread(a) PROVE Once'
  <2>1. CASE receipt.status \in DOMAIN Answer /\ Return(a, Answer[receipt.status])
    BY <1>6, <2>1, QuietOnce DEF Reread, Return, Labels
  <2>2. CASE Goto(a, "claim") \/ Goto(a, "who")
    BY <1>6, <2>2, QuietOnce DEF Reread, Goto, client, Labels
  <2> QED BY <1>6, <2>1, <2>2 DEF Reread
<1>7. ASSUME NEW a \in Attempts, Claim(a) PROVE Once'
  <2>1. CASE receipt.status = "failed" /\ Dispatching(a) /\ Goto(a, "dispatch")
    BY <1>7, <2>1, GotoTypes DEF Claim, Dispatching, Once, Labels, TypeOK
  <2>2. CASE Goto(a, "who") /\ UNCHANGED receipt
    BY <1>7, <2>2, QuietOnce DEF Claim, Goto, client, table, Labels
  <2> QED BY <1>7, <2>1, <2>2 DEF Claim
<1>8. ASSUME NEW a \in Attempts, Dispatch(a) PROVE Once'
  <2>1. effects = 0 /\ receipt.status \in {"dispatching", "unresolvable"}
    BY <1>8 DEF Dispatch, Once
  <2>2. PICK label \in {"complete", "give_up", "fail"} :
            /\ Goto(a, label)
            /\ effects' \in {0, 1}
            /\ label = "complete" => effects' = 1
            /\ label = "fail" => effects' = 0
    BY <1>8, <2>1 DEF Dispatch
  <2> QED BY <1>8, <2>1, <2>2, GotoTypes DEF Dispatch, Once, Labels, TypeOK
<1>9. ASSUME NEW a \in Attempts, Complete(a) PROVE Once'
  <2>1. CASE receipt.status = "dispatching" /\ receipt' = Status("completed") /\ Return(a, "delivered")
    <3>1. effects = 1 /\ effects' = 1 /\ receipt'.status = "completed"
      BY <1>9, <2>1 DEF Complete, Status, Once, TypeOK
    <3>2. \A c \in Attempts : pc'[c] \notin HoldLabels
      BY <1>9, <2>1 DEF Complete, Return, Once, TypeOK
    <3>3. "unresolvable" \notin answers'
      BY <2>1 DEF Return, Once
    <3> QED BY <3>1, <3>2, <3>3 DEF Once
  <2>2. CASE Keep(a)
    BY <1>9, <2>2, QuietOnce DEF Complete, Keep, Return, table, Labels
  <2> QED BY <1>9, <2>1, <2>2 DEF Complete
<1>10. ASSUME NEW a \in Attempts, Failed(a) PROVE Once'
  <2>1. CASE pc[a] = "fail" /\ receipt.status = "dispatching"
    <3>1. effects = 0 /\ effects' = 0 /\ receipt'.status = "failed"
      BY <1>10, <2>1 DEF Failed, Status, Once, TypeOK
    <3>2. \A c \in Attempts : pc'[c] \notin HoldLabels
      BY <1>10, <2>1 DEF Failed, Return, Once, TypeOK
    <3>3. "unresolvable" \notin answers' /\ "delivered" \notin answers'
      BY <1>10, <2>1 DEF Failed, Return, Once
    <3> QED BY <3>1, <3>2, <3>3 DEF Once
  <2>2. CASE ~(pc[a] = "fail" /\ receipt.status = "dispatching")
    BY <1>10, <2>2, QuietOnce DEF Failed, Return, table, Labels
  <2> QED BY <2>1, <2>2
<1>11. ASSUME NEW a \in Attempts, Who(a) PROVE Once'
  BY <1>11, QuietOnce DEF Who, Goto, client, Labels
<1>12. ASSUME NEW a \in Attempts, Judge(a) PROVE Once'
  BY <1>12, QuietOnce DEF Judge, Goto, client, Labels
<1>13. ASSUME NEW a \in Attempts, Mark(a) PROVE Once'
  <2>1. CASE receipt.status = "dispatching" /\ receipt' = Status("unresolvable") /\ Return(a, "unresolvable")
    <3>1. receipt'.status = "unresolvable" /\ effects' = effects
      BY <1>13, <2>1 DEF Mark, Status, TypeOK
    <3>2. \A c \in Attempts : pc'[c] \in HoldLabels => pc'[c] = pc[c]
      BY <2>1 DEF Return, TypeOK
    <3>3. "delivered" \notin answers'
      BY <2>1 DEF Return, Once
    <3> QED BY <3>1, <3>2, <3>3 DEF Once
  <2>2. CASE Goto(a, "recheck") /\ UNCHANGED receipt
    BY <1>13, <2>2, QuietOnce DEF Mark, Goto, client, table, Labels
  <2> QED BY <1>13, <2>1, <2>2 DEF Mark
<1>14. ASSUME NEW a \in Attempts, Recheck(a) PROVE Once'
  <2>1. CASE receipt.status \in DOMAIN Answer /\ Return(a, Answer[receipt.status])
    BY <1>14, <2>1, QuietOnce DEF Recheck, Return, Labels
  <2>2. CASE Return(a, "unknown")
    BY <1>14, <2>2, QuietOnce DEF Recheck, Return, Labels
  <2> QED BY <1>14, <2>1, <2>2 DEF Recheck
<1>15. ASSUME NEW a \in Attempts, ProbeFails(a) PROVE Once'
  BY <1>15, QuietOnce DEF ProbeFails, Goto, client, Labels
<1>16. ASSUME NEW a \in Attempts, StorageFails(a) PROVE Once'
  <2>1. PICK answer \in {"rejected", "unknown"} : Return(a, answer)
    BY <1>16 DEF StorageFails, Keep
  <2> QED BY <1>16, <2>1, QuietOnce DEF StorageFails, Keep, Return, table, Labels
<1>17. CASE StopWaiting
  BY <1>17 DEF StopWaiting, Once, table
<1>18. ASSUME NEW b \in Boots, Boot(b) PROVE Once'
  BY <1>18 DEF Boot, Once, table, client
<1>19. ASSUME NEW b \in Boots, Crash(b) PROVE Once'
  <2>1. \A c \in Attempts : pc'[c] \in HoldLabels => pc'[c] = pc[c]
    BY <1>19 DEF Crash
  <2>2. receipt' = receipt /\ effects' = effects /\ answers' = answers
    BY <1>19 DEF Crash, table
  <2> QED BY <2>1, <2>2 DEF Once
<1>20. CASE UNCHANGED vars
  BY <1>20 DEF vars, Once, table, client
<1> QED
  BY <1>1, <1>2, <1>3, <1>4, <1>5, <1>6, <1>7, <1>8, <1>9, <1>10, <1>11, <1>12, <1>13, <1>14,
     <1>15, <1>16, <1>17, <1>18, <1>19, <1>20 DEF Next, DeliveryStep

LEMMA OnceAlways == Spec => [](Typed /\ Once)
<1>1. Init => Typed /\ Once
  BY DeliveryAssumption DEF Init, Typed, Served, TypeOK, Labels, NoVerdict, Once, HoldLabels
<1> QED
  BY <1>1, TypedKept, OnceKept, PTL DEF Spec

\* However often, to however many boots and through whatever failures a command
\* is delivered, it takes effect at most once.
THEOREM TakesEffectOnce == Spec => []EffectAtMostOnce
<1>1. Once => EffectAtMostOnce
  BY DEF Once, EffectAtMostOnce
<1> QED
  BY <1>1, OnceAlways, PTL

\* The answers to the deliveries of one command agree with its receipt, and
\* "delivered" with its effect.
THEOREM AnswersNeverDiffer == Spec => []AnswersAgree
<1>1. Once => AnswersAgree
  BY DEF Once, AnswersAgree
<1> QED
  BY <1>1, OnceAlways, PTL

-------------------------------------------------------------------------------

\* Why a receipt found abandoned is: a dispatch is registered in the boot its
\* receipt names, the boot a delivery read is still that one, and the proof, once
\* made, is not undone.  All of it needs that no receipt becomes retryable.
Evidence ==
    /\ receipt.status # "failed"
    /\ \A a \in Attempts :
         /\ pc[a] # "fail"
         /\ pc[a] \in {"admit", "reread", "claim"} \cup HoldLabels => a \in flying[at[a]]
         /\ pc[a] \in HoldLabels => receipt.boot = at[a]
         /\ pc[a] = "judge" => seen[a] = receipt.boot
         /\ pc[a] \in {"judge", "mark"} => receipt.status # "absent"
         /\ pc[a] = "mark" => UnderWay = {}

Apart == ~setting => Evidence

\* A registration that ends is no other delivery's.
LEMMA UnregisterApart ==
    ASSUME TypeOK, NEW a \in Attempts, Unregister(a)
    PROVE  /\ flying' \in [Boots -> SUBSET Attempts]
           /\ \A c \in Attempts \ {a} : \A b \in Boots : c \in flying[b] => c \in flying'[b]
  BY DEF TypeOK, Unregister

\* A step that admits nothing: what it leaves registered, read and proven.
LEMMA QuietApart ==
    ASSUME TypeOK, Evidence,
           NEW a \in Attempts, NEW label \in Labels, pc' = [pc EXCEPT ![a] = label],
           \A c \in Attempts \ {a} :
               /\ at'[c] = at[c] /\ seen'[c] = seen[c]
               /\ \A b \in Boots : c \in flying[b] => c \in flying'[b],
           flying' \in [Boots -> SUBSET Attempts], \A c \in Attempts : pc[c] # "idle" => at[c] \in Boots,
           receipt'.boot = receipt.boot,
           receipt'.status # "failed", receipt.status # "absent" => receipt'.status # "absent",
           label # "fail",
           label \in {"admit", "reread", "claim"} \cup HoldLabels => a \in flying'[at'[a]],
           label \in HoldLabels => receipt.boot = at'[a] /\ pc[a] = "dispatch",
           label = "judge" => seen'[a] = receipt.boot,
           label \in {"judge", "mark"} => receipt.status # "absent",
           label = "mark" => UnderWay = {}
    PROVE  Evidence'
<1>1. UnderWay' \subseteq UnderWay
  BY DEF UnderWay, TypeOK, HoldLabels
<1>2. ASSUME NEW c \in Attempts \ {a} PROVE pc'[c] = pc[c] /\ (pc[c] # "idle" => at[c] \in Boots)
  BY DEF TypeOK
<1>3. pc'[a] = label
  BY DEF TypeOK
<1>4. ASSUME NEW c \in Attempts
      PROVE  /\ pc'[c] # "fail"
             /\ pc'[c] \in {"admit", "reread", "claim"} \cup HoldLabels => c \in flying'[at'[c]]
             /\ pc'[c] \in HoldLabels => receipt'.boot = at'[c]
             /\ pc'[c] = "judge" => seen'[c] = receipt'.boot
             /\ pc'[c] \in {"judge", "mark"} => receipt'.status # "absent"
             /\ pc'[c] = "mark" => UnderWay' = {}
  <2>1. CASE c = a
    BY <1>1, <1>3, <2>1
  <2>2. CASE c # a
    BY <1>1, <1>2, <2>2 DEF Evidence, HoldLabels
  <2> QED BY <2>1, <2>2
<1> QED
  BY <1>4 DEF Evidence

\* An admission is the first dispatch there is.
LEMMA FirstDispatch ==
    ASSUME Typed, Once, Evidence, NEW a \in Attempts, pc[a] = "admit", receipt.status = "absent",
           Dispatching(a), Goto(a, "dispatch"), UNCHANGED flying
    PROVE  Evidence'
<1>1. \A c \in Attempts : pc[c] \notin {"judge", "mark"} \cup HoldLabels
  BY DEF Evidence, Once
<1>2. pc' = [pc EXCEPT ![a] = "dispatch"] /\ at' = at /\ seen' = seen
  BY GotoTypes DEF Typed, Labels
<1>3. receipt' = [status |-> "dispatching", boot |-> at[a]] /\ flying' = flying
  BY DEF Dispatching
<1> QED
  BY <1>1, <1>2, <1>3 DEF Evidence, HoldLabels, Typed, TypeOK

LEMMA EvidenceKept == Typed /\ Once /\ Evidence /\ ~setting /\ [Next]_vars => Evidence'
<1> SUFFICES ASSUME Typed, Once, Evidence, ~setting, [Next]_vars PROVE Evidence'
  OBVIOUS
<1>0. TypeOK /\ Served /\ Typed'
  BY TypedKept DEF Typed
<1>a. /\ flying' \in [Boots -> SUBSET Attempts]
      /\ \A c \in Attempts : pc[c] # "idle" => at[c] \in Boots
  BY <1>0 DEF Typed, Served, TypeOK
<1> USE <1>0, <1>a DEF HoldLabels
<1>1. ASSUME NEW a \in Attempts, Deliver(a) PROVE Evidence'
  <2>1. \A c \in Attempts \ {a} : at'[c] = at[c] /\ seen'[c] = seen[c]
    BY <1>1 DEF Deliver, TypeOK
  <2> QED BY <1>1, <2>1, QuietApart DEF Deliver, table, Labels, Evidence
<1>2. ASSUME NEW a \in Attempts, Classify(a) PROVE Evidence'
  <2>1. CASE receipt.status \in DOMAIN Answer /\ Return(a, Answer[receipt.status])
    BY <1>2, <2>1, ReturnTypes, AnswerIsReply, QuietApart DEF Classify, table, Labels, Evidence
  <2>2. CASE Goto(a, "who") \/ Goto(a, "check")
    BY <1>2, <2>2, QuietApart DEF Classify, Goto, table, Labels, Evidence
  <2> QED BY <1>2, <2>1, <2>2 DEF Classify
<1>3. ASSUME NEW a \in Attempts, Refuse(a) PROVE Evidence'
  BY <1>3, ReturnTypes, QuietApart DEF Refuse, table, Labels, Replies, Evidence
<1>4. ASSUME NEW a \in Attempts, Register(a) PROVE Evidence'
  <2>1. a \in flying'[at[a]] /\ \A b \in Boots : flying[b] \subseteq flying'[b]
    BY <1>4 DEF Register, TypeOK
  <2> QED BY <1>4, <2>1, QuietApart DEF Register, Goto, table, Labels, Evidence
<1>5. ASSUME NEW a \in Attempts, Admit(a) PROVE Evidence'
  <2>1. CASE receipt.status = "absent" /\ Dispatching(a) /\ Goto(a, "dispatch")
    BY <1>5, <2>1, FirstDispatch DEF Admit
  <2>2. CASE Goto(a, "reread") /\ UNCHANGED receipt
    BY <1>5, <2>2, QuietApart DEF Admit, Goto, Labels, Evidence
  <2> QED BY <1>5, <2>1, <2>2 DEF Admit
<1>6. ASSUME NEW a \in Attempts, Reread(a) PROVE Evidence'
  <2>1. CASE receipt.status \in DOMAIN Answer /\ Return(a, Answer[receipt.status]) /\ Unregister(a)
    <3>1. receipt' = receipt /\ Answer[receipt.status] \in Replies
      BY <1>6, <2>1, AnswerIsReply DEF Reread, table
    <3> QED
      BY <2>1, <3>1, ReturnTypes, UnregisterApart, QuietApart DEF Labels, Evidence
  <2>2. CASE Goto(a, "who") /\ Unregister(a)
    BY <1>6, <2>2, QuietApart DEF Reread, Unregister, Goto, table, Labels, Evidence, TypeOK
  <2> QED BY <1>6, <2>1, <2>2 DEF Reread, Evidence
<1>7. ASSUME NEW a \in Attempts, Claim(a) PROVE Evidence'
  <2>1. Goto(a, "who") /\ Unregister(a) /\ UNCHANGED receipt
    BY <1>7 DEF Claim, Evidence
  <2> QED BY <1>7, <2>1, QuietApart DEF Claim, Unregister, Goto, Labels, Evidence, TypeOK
<1>8. ASSUME NEW a \in Attempts, Dispatch(a) PROVE Evidence'
  <2>1. PICK label \in {"complete", "give_up"} : Goto(a, label)
    BY <1>8 DEF Dispatch
  <2> QED BY <1>8, <2>1, QuietApart DEF Dispatch, Goto, Labels, Evidence
<1>9. ASSUME NEW a \in Attempts, Complete(a) PROVE Evidence'
  <2>1. CASE receipt.status = "dispatching" /\ receipt' = Status("completed") /\ Unregister(a) /\ Return(a, "delivered")
    <3>1. receipt'.boot = receipt.boot /\ receipt'.status = "completed" /\ "delivered" \in Replies
      BY <2>1 DEF Status, Replies, TypeOK
    <3> QED
      BY <2>1, <3>1, ReturnTypes, UnregisterApart, QuietApart DEF Labels, Evidence
  <2>2. CASE Keep(a)
    BY <1>9, <2>2, ReturnTypes, QuietApart DEF Keep, Labels, Replies, Evidence
  <2> QED BY <1>9, <2>1, <2>2 DEF Complete
<1>10. ASSUME NEW a \in Attempts, Failed(a) PROVE Evidence'
  <2>1. pc[a] = "give_up" /\ receipt' = receipt
    BY <1>10 DEF Failed, Evidence
  <2>2. Unregister(a) /\ Return(a, "rejected") /\ "rejected" \in Replies
    BY <1>10 DEF Failed, Replies
  <2> QED BY <2>1, <2>2, ReturnTypes, UnregisterApart, QuietApart DEF Labels, Evidence
<1>11. ASSUME NEW a \in Attempts, Who(a) PROVE Evidence'
  <2>1. CASE receipt.status = "dispatching"
    <3>1. seen' = [seen EXCEPT ![a] = receipt.boot] /\ pc' = [pc EXCEPT ![a] = "judge"] /\ at' = at
      BY <1>11, <2>1 DEF Who
    <3> QED BY <1>11, <2>1, <3>1, QuietApart DEF Who, table, Labels, Evidence, TypeOK
  <2>2. CASE Goto(a, "recheck")
    BY <1>11, <2>2, QuietApart DEF Who, Goto, table, Labels, Evidence
  <2> QED BY <1>11, <2>1, <2>2 DEF Who
<1>12. ASSUME NEW a \in Attempts, Judge(a) PROVE Evidence'
  <2>1. CASE Abandoned(a) /\ Goto(a, "mark")
    <3>1. seen[a] = receipt.boot /\ receipt.status # "absent"
      BY <1>12 DEF Judge, Evidence
    <3>2. ASSUME NEW c \in UnderWay PROVE FALSE
      <4>1. c \in Attempts /\ receipt.boot = at[c] /\ c \in flying[at[c]] /\ life[at[c]] = "alive"
        BY <3>2 DEF UnderWay, Evidence, Served
      <4> QED BY <2>1, <3>1, <4>1 DEF Abandoned
    <3> QED BY <1>12, <2>1, <3>1, <3>2, QuietApart DEF Judge, Goto, table, Labels, Evidence
  <2>2. CASE Goto(a, "recheck")
    BY <1>12, <2>2, QuietApart DEF Judge, Goto, table, Labels, Evidence
  <2> QED BY <1>12, <2>1, <2>2 DEF Judge
<1>13. ASSUME NEW a \in Attempts, Mark(a) PROVE Evidence'
  <2>1. CASE receipt' = Status("unresolvable") /\ Return(a, "unresolvable")
    BY <1>13, <2>1, ReturnTypes, QuietApart DEF Mark, Status, Labels, Replies, Evidence, TypeOK
  <2>2. CASE Goto(a, "recheck") /\ UNCHANGED receipt
    BY <1>13, <2>2, QuietApart DEF Mark, Goto, Labels, Evidence
  <2> QED BY <1>13, <2>1, <2>2 DEF Mark
<1>14. ASSUME NEW a \in Attempts, Recheck(a) PROVE Evidence'
  <2>1. PICK answer \in Replies : Return(a, answer)
    BY <1>14, AnswerIsReply DEF Recheck, Replies
  <2> QED BY <1>14, <2>1, ReturnTypes, QuietApart DEF Recheck, table, Labels, Evidence
<1>15. ASSUME NEW a \in Attempts, ProbeFails(a) PROVE Evidence'
  BY <1>15, QuietApart DEF ProbeFails, Goto, table, Labels, Evidence
<1>16. ASSUME NEW a \in Attempts, StorageFails(a) PROVE Evidence'
  <2>1. PICK answer \in {"rejected", "unknown"} : Return(a, answer)
    BY <1>16 DEF StorageFails, Keep
  <2>2. receipt' = receipt /\ (Unregister(a) \/ flying' = flying)
    BY <1>16 DEF StorageFails, Keep
  <2>3. \A c \in Attempts \ {a} : \A b \in Boots : c \in flying[b] => c \in flying'[b]
    BY <2>2 DEF Unregister, TypeOK
  <2> QED BY <2>1, <2>2, <2>3, ReturnTypes, QuietApart DEF Labels, Replies, Evidence
<1>17. CASE StopWaiting
  BY <1>17 DEF StopWaiting, Evidence, UnderWay, table
<1>18. ASSUME NEW b \in Boots, Boot(b) PROVE Evidence'
  BY <1>18 DEF Boot, Evidence, UnderWay, table
<1>19. ASSUME NEW b \in Boots, Crash(b) PROVE Evidence'
  <2>1. receipt' = receipt /\ UnderWay' \subseteq UnderWay
    BY <1>19 DEF Crash, table, UnderWay
  <2>2. ASSUME NEW c \in Attempts, pc'[c] # "idle"
        PROVE  pc'[c] = pc[c] /\ at'[c] = at[c] /\ seen'[c] = seen[c] /\ flying'[at[c]] = flying[at[c]]
    BY <1>19, <2>2 DEF Crash, TypeOK
  <2> QED BY <2>1, <2>2 DEF Evidence
<1>20. CASE UNCHANGED vars
  BY <1>20 DEF vars, Evidence, UnderWay, table
<1> QED
  BY <1>1, <1>2, <1>3, <1>4, <1>5, <1>6, <1>7, <1>8, <1>9, <1>10, <1>11, <1>12, <1>13, <1>14,
     <1>15, <1>16, <1>17, <1>18, <1>19, <1>20 DEF Next, DeliveryStep

\* The kind of a command does not change.
LEMMA SettingFixed == [Next]_vars => setting' = setting
  BY DEF Next, vars, DeliveryStep, Deliver, Classify, Refuse, Register, Admit, Reread, Claim,
         Dispatch, Complete, Failed, Who, Judge, Mark, Recheck, ProbeFails, StorageFails,
         StopWaiting, Boot, Crash

\* Only Mark gives a receipt up.
LEMMA OnlyMarkGivesUp ==
    ASSUME TypeOK, [Next]_vars, receipt'.status = "unresolvable", receipt.status # "unresolvable"
    PROVE  \E a \in Attempts : pc[a] = "mark"
  BY DEF Next, vars, DeliveryStep, Deliver, Classify, Refuse, Register, Admit, Reread, Claim,
         Dispatch, Complete, Failed, Who, Judge, Mark, Recheck, ProbeFails, StorageFails,
         StopWaiting, Boot, Crash, table, Dispatching, Status, Keep, TypeOK

\* A command that no failure makes retryable is given up only when nothing can
\* settle it any more, though others deliver it at the same time.
THEOREM GivenUpOnceProven == Spec => UnresolvableOnce
<1>1. Init => Typed /\ Once /\ Apart
  BY DeliveryAssumption
     DEF Init, Typed, Served, TypeOK, Labels, NoVerdict, Once, HoldLabels, Apart, Evidence
<1>2. Typed /\ Once /\ Apart /\ [Next]_vars => (Typed /\ Once /\ Apart)'
  BY TypedKept, OnceKept, EvidenceKept, SettingFixed DEF Apart
<1>3. Typed /\ Apart /\ [Next]_vars
        => [~setting /\ receipt'.status = "unresolvable" /\ receipt.status # "unresolvable"
              => UnderWay = {}]_vars
  BY OnlyMarkGivesUp DEF Typed, Apart, Evidence
<1> QED
  BY <1>1, <1>2, <1>3, PTL DEF Spec, UnresolvableOnce

===============================================================================
