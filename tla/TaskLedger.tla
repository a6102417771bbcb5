----------------------------- MODULE TaskLedger -----------------------------
(***************************************************************************)
(* What may be expected of a task while servers follow one another, by     *)
(* whatever claims, counters and heartbeats the queue is made of.          *)
(*                                                                         *)
(* A row is in nobody's hands, or taken by somebody who may start its      *)
(* worker, or worked on, or done with.  It is taken while it is queued and *)
(* its worker starts once; only who has it in hand reports on it; and it   *)
(* is declared interrupted only when nobody has.                           *)
(***************************************************************************)
CONSTANT Task

VARIABLES
  status,  \* what the row says
  hand     \* "free" | "taken" | "working" | "over"

vars == <<status, hand>>

Reports == {"completed", "failed", "cancelled", "blocked", "waiting_for_user"}

Init == status = [t \in Task |-> "absent"] /\ hand = [t \in Task |-> "free"]

\* One row changes.
Row(t, s, h) == status' = [status EXCEPT ![t] = s] /\ hand' = [hand EXCEPT ![t] = h]
LetGo(h) == IF h = "working" THEN "over" ELSE IF h = "taken" THEN "free" ELSE h

Submit(t) == status[t] = "absent" /\ Row(t, "queued", hand[t])
Cancel(t) == status[t] \in {"queued", "running"} /\ Row(t, "cancelled", hand[t])

Take(t) == status[t] = "queued" /\ hand[t] = "free" /\ Row(t, "queued", "taken")
\* Nothing was begun: the row is cancelled, or may be taken again.
Drop(t) == hand[t] = "taken" /\ status[t] # "running" /\ Row(t, status[t], "free")

\* The worker starts, unless the answer to marking the row is lost.  A row cancelled since
\* it was taken is still started.
Start(t) == /\ hand[t] = "taken" /\ status[t] \in {"queued", "cancelled"}
            /\ \E h \in {"working", "taken"} : Row(t, "running", h)

\* The worker's report, unless the row was cancelled; its answer may be lost.
Report(t) == /\ hand[t] = "working" /\ status[t] \in {"running", "cancelled"}
             /\ \E o \in Reports, h \in {"over", "working"} :
                  Row(t, IF status[t] = "cancelled" THEN "cancelled" ELSE o, h)

\* Who has the row in hand failed; what it writes over the row may be lost.
Fail(t) == /\ hand[t] \in {"taken", "working"}
           /\ \E s \in {"failed", "cancelled", status[t]} : Row(t, s, LetGo(hand[t]))

\* The server ends: what it had in hand is let go of, whatever the row says.
Crash == hand' = [t \in Task |-> LetGo(hand[t])] /\ UNCHANGED status

\* Rows that are running in nobody's hands.
Interrupt ==
  /\ \E S \in SUBSET {t \in Task : status[t] = "running" /\ hand[t] \in {"free", "over"}} :
       status' = [t \in Task |-> IF t \in S THEN "interrupted" ELSE status[t]]
  /\ UNCHANGED hand

Next == \/ \E t \in Task : \/ Submit(t) \/ Cancel(t) \/ Take(t) \/ Drop(t)
                           \/ Start(t) \/ Report(t) \/ Fail(t)
        \/ Crash \/ Interrupt

Spec == Init /\ [][Next]_vars
=============================================================================
