-------------------------- MODULE TaskSchedules --------------------------
(***************************************************************************)
(* Recurring work: the `task_schedules` table, and the ticks that turn its *)
(* due rows into queued tasks                                              *)
(*   packages/orchestrator/src/task-schedule-store.ts (class ScheduleStore)*)
(*   apps/server/src/routes/tasks.ts (tickSchedules, the schedule routes)  *)
(*                                                                         *)
(* An Invocation is one call of tickSchedules, or one run-now request, that*)
(* has not returned.  Time is a small number; a period of 0 stands for the *)
(* kind 'once'.                                                            *)
(***************************************************************************)
EXTENDS Integers, FiniteSets, Sequences

CONSTANTS
  Schedule,    \* the ids that may be inserted
  Invocation,
  Period,      \* the period of each schedule; 0 is 'once'
  Horizon,     \* bound: the last instant of the clock
  FirstRuns,   \* bound: the instants a new schedule may start at
  MaxEdits,    \* bound: how many operator requests arrive
  MaxFaults,   \* bound: how many crashes and rejected queries happen
  Unusable,    \* schedules whose role or alias may fail to resolve
  OverlappingClaims \* may two calls of claimDue be under way at one time?

Time == 0..Horizon

ASSUME PeriodAssumption   == Period \in [Schedule -> Nat]
ASSUME BoundAssumption    == {Horizon, MaxEdits, MaxFaults} \subseteq Nat
ASSUME FirstAssumption    == FirstRuns \subseteq Time
ASSUME OverlapAssumption  == OverlappingClaims \in BOOLEAN
ASSUME UnusableAssumption == Unusable \subseteq Schedule

VARIABLES
  clock,
  \* the task_schedules table
  row,      \* "absent" | "live" | "deleted"
  enabled, next, runCount,
  \* the invocations in the server's memory
  pc,       \* "idle" | "advance" | "fire" | "record"
  now,      \* the instant claimDue was called with
  todo,     \* rows selected, next_run_at not yet advanced
  due,      \* rows to be turned into tasks
  \* bounds
  edits, faults,
  \* history
  tasks,    \* the tasks created, in order
  dropped,  \* claims that were counted and produced no task
  edit      \* how often the operator has paused, resumed or moved a schedule

rows        == <<row, enabled, next, runCount>>
invocations == <<pc, now, todo, due>>
history     == <<tasks, dropped, edit>>
vars        == <<clock, rows, invocations, edits, faults, history>>

\* What claimDue read of a row; run-now reads it too, and is not a due run.
Claim == [schedule : Schedule, due : Nat, edit : Nat, manual : BOOLEAN]

TypeOK ==
  /\ clock \in Time
  /\ row \in [Schedule -> {"absent", "live", "deleted"}]
  /\ enabled \in [Schedule -> BOOLEAN]
  /\ next \in [Schedule -> Nat]
  /\ runCount \in [Schedule -> Nat]
  /\ pc \in [Invocation -> {"idle", "advance", "fire", "record"}]
  /\ now \in [Invocation -> Time]
  /\ todo \in [Invocation -> SUBSET Claim]
  /\ due \in [Invocation -> SUBSET Claim]
  /\ \A k \in Invocation :
       /\ (pc[k] = "advance") <=> (todo[k] # {})
       /\ pc[k] = "fire" => due[k] # {}
       /\ pc[k] = "idle" => due[k] = {}
  /\ edits \in 0..MaxEdits /\ faults \in 0..MaxFaults
  /\ tasks \in Seq([claim : Claim, at : Time])
  /\ dropped \subseteq Claim
  /\ edit \in [Schedule -> Nat]

Init ==
  /\ clock = 0
  /\ row = [s \in Schedule |-> "absent"]
  /\ enabled = [s \in Schedule |-> FALSE]
  /\ next = [s \in Schedule |-> 0]
  /\ runCount = [s \in Schedule |-> 0]
  /\ pc = [k \in Invocation |-> "idle"]
  /\ now = [k \in Invocation |-> 0]
  /\ todo = [k \in Invocation |-> {}]
  /\ due = [k \in Invocation |-> {}]
  /\ edits = 0 /\ faults = 0
  /\ tasks = <<>> /\ dropped = {}
  /\ edit = [s \in Schedule |-> 0]

ClockTicks ==
  /\ clock < Horizon
  /\ clock' = clock + 1
  /\ UNCHANGED <<rows, invocations, edits, faults, history>>

----------------------------------------------------------------------------
(* The schedule routes.                                                    *)

\* POST: firstRunAt may be any date.  Bound: rows are inserted at the start,
\* and enabled (a row inserted with enabled = false is like one paused at once).
Create(s) ==
  /\ row[s] = "absent" /\ clock = 0
  /\ \E first \in FirstRuns : next' = [next EXCEPT ![s] = first]
  /\ enabled' = [enabled EXCEPT ![s] = TRUE]
  /\ row' = [row EXCEPT ![s] = "live"]
  /\ UNCHANGED <<clock, runCount, invocations, edits, faults, history>>

Edit(s) ==
  /\ row[s] = "live" /\ edits < MaxEdits
  /\ edits' = edits + 1

\* PATCH: what it leaves out keeps its value (COALESCE).
Pause(s, on) ==
  /\ Edit(s)
  /\ enabled' = [enabled EXCEPT ![s] = on]
  /\ edit' = [edit EXCEPT ![s] = @ + 1]
  /\ UNCHANGED <<clock, row, next, runCount, invocations, faults, tasks, dropped>>

Move(s, t) ==
  /\ Edit(s)
  /\ next' = [next EXCEPT ![s] = t]
  /\ edit' = [edit EXCEPT ![s] = @ + 1]
  /\ UNCHANGED <<clock, row, enabled, runCount, invocations, faults, tasks, dropped>>

\* DELETE.  Tasks keep existing; a later INSERT that names the row is refused.
Remove(s) ==
  /\ Edit(s)
  /\ row' = [row EXCEPT ![s] = "deleted"]
  /\ UNCHANGED <<clock, enabled, next, runCount, invocations, faults, tasks, dropped, edit>>

\* POST run-now: the row is read, and a task will be created for it.
RunNow(k, s) ==
  /\ pc[k] = "idle" /\ row[s] = "live" /\ edits < MaxEdits
  /\ edits' = edits + 1
  /\ pc' = [pc EXCEPT ![k] = "fire"]
  /\ now' = [now EXCEPT ![k] = clock]
  /\ due' = [due EXCEPT ![k] = {[schedule |-> s, due |-> next[s],
                                 edit |-> edit[s], manual |-> TRUE]}]
  /\ UNCHANGED <<clock, rows, todo, faults, history>>

----------------------------------------------------------------------------
(* claimDue().                                                             *)

IsDue(s) == row[s] = "live" /\ enabled[s] /\ next[s] <= clock

\* Mutant: a schedule that is due exactly now is not selected.
SelectOverdue(k) ==
  /\ pc[k] = "idle"
  /\ OverlappingClaims \/ \A j \in Invocation : pc[j] # "advance"
  /\ LET overdue == {s \in Schedule : IsDue(s) /\ next[s] < clock}
     IN  /\ overdue # {}
         /\ todo' = [todo EXCEPT ![k] =
              {[schedule |-> s, due |-> next[s], edit |-> edit[s],
                manual |-> FALSE] : s \in overdue}]
  /\ pc' = [pc EXCEPT ![k] = "advance"]
  /\ now' = [now EXCEPT ![k] = clock]
  /\ UNCHANGED <<clock, rows, due, edits, faults, history>>

\* SELECT ... FOR UPDATE SKIP LOCKED.  There is no transaction around it, so
\* the locks are gone when the rows arrive.
SelectDue(k) ==
  /\ pc[k] = "idle"
  /\ OverlappingClaims \/ \A j \in Invocation : pc[j] # "advance"
  /\ \E s \in Schedule : IsDue(s)
  /\ pc' = [pc EXCEPT ![k] = "advance"]
  /\ now' = [now EXCEPT ![k] = clock]
  /\ todo' = [todo EXCEPT ![k] =
       {[schedule |-> s, due |-> next[s], edit |-> edit[s],
         manual |-> FALSE] : s \in {x \in Schedule : IsDue(x)}}]
  /\ UNCHANGED <<clock, rows, due, edits, faults, history>>

\* Mutant: an exact multiple of the period is not skipped.
NextRunOnNow(from, p, at) ==
  LET n == from + p
  IN  IF n <= at THEN n + ((at - n) \div p) * p ELSE n

\* computeNextRun(): the first instant of the cadence that is in the future.
NextRun(from, p, at) ==
  LET n == from + p
  IN  IF n <= at THEN n + (((at - n) \div p) + 1) * p ELSE n

First(claims) == {c \in claims : \A d \in claims : c.due <= d.due}

\* UPDATE of one selected row, from what the SELECT has read.
Advance(k, c) ==
  /\ pc[k] = "advance" /\ c \in First(todo[k])
  /\ LET s == c.schedule
     IN  IF row[s] = "live"
         THEN /\ next' = IF Period[s] = 0 THEN next
                         ELSE [next EXCEPT ![s] = NextRun(c.due, Period[s], now[k])]
              /\ enabled' = [enabled EXCEPT ![s] = Period[s] # 0]
              /\ runCount' = [runCount EXCEPT ![s] = @ + 1]
         ELSE UNCHANGED <<next, enabled, runCount>>
  /\ todo' = [todo EXCEPT ![k] = @ \ {c}]
  /\ due' = [due EXCEPT ![k] = @ \cup {c}]
  /\ pc' = [pc EXCEPT ![k] = IF todo[k] = {c} THEN "fire" ELSE "advance"]
  /\ UNCHANGED <<clock, row, now, edits, faults, history>>

----------------------------------------------------------------------------
(* The loop of tickSchedules, and the rest of run-now.                     *)

Returns(k) == pc' = [pc EXCEPT ![k] = "idle"] /\ now' = [now EXCEPT ![k] = 0]

Scheduled(claims) == {c \in claims : ~c.manual}

\* INSERT INTO tasks: the schedule must still exist.
Fire(k, c) ==
  /\ pc[k] = "fire" /\ c \in First(due[k])
  /\ row[c.schedule] = "live"
  /\ tasks' = Append(tasks, [claim |-> c, at |-> now[k]])
  /\ due' = [due EXCEPT ![k] = @ \ {c}]
  /\ pc' = [pc EXCEPT ![k] = "record"]
  /\ UNCHANGED <<clock, rows, now, todo, edits, faults, dropped, edit>>

\* recordRun() writes last_task_id, which nothing here reads.
Record(k) ==
  /\ pc[k] = "record"
  /\ IF due[k] = {} THEN Returns(k) ELSE pc' = [pc EXCEPT ![k] = "fire"] /\ UNCHANGED now
  /\ UNCHANGED <<clock, rows, todo, due, edits, faults, history>>

\* Mutants: an error ends the tick, and what it had left is forgotten, or kept.
CannotFireLeaves(k, c) ==
  /\ pc[k] = "fire" /\ c \in First(due[k])
  /\ row[c.schedule] # "live" \/ c.schedule \in Unusable
  /\ dropped' = dropped \cup Scheduled({c})
  /\ due' = [due EXCEPT ![k] = @ \ {c}]
  /\ Returns(k)
  /\ UNCHANGED <<clock, rows, todo, edits, faults, tasks, edit>>

CannotFireStops(k, c) ==
  /\ pc[k] = "fire" /\ c \in First(due[k])
  /\ row[c.schedule] # "live" \/ c.schedule \in Unusable
  /\ dropped' = dropped \cup Scheduled({c})
  /\ due' = [due EXCEPT ![k] = {}]
  /\ Returns(k)
  /\ UNCHANGED <<clock, rows, todo, edits, faults, tasks, edit>>

\* No such role, no model for the alias, or the row was deleted: the error is
\* logged and the loop goes on.
CannotFire(k, c) ==
  /\ pc[k] = "fire" /\ c \in First(due[k])
  /\ row[c.schedule] # "live" \/ c.schedule \in Unusable
  /\ dropped' = dropped \cup Scheduled({c})
  /\ due' = [due EXCEPT ![k] = @ \ {c}]
  /\ IF due[k] = {c} THEN Returns(k) ELSE UNCHANGED <<pc, now>>
  /\ UNCHANGED <<clock, rows, todo, edits, faults, tasks, edit>>

----------------------------------------------------------------------------
(* Faults.                                                                 *)

\* What an invocation takes with it: claims that are advanced but have no task.
Unfired(k) == Scheduled(due[k])

\* A query of claimDue is rejected: tickSchedules rejects, nothing is fired.
AdvanceFails(k) ==
  /\ pc[k] = "advance" /\ faults < MaxFaults
  /\ faults' = faults + 1
  /\ dropped' = dropped \cup Unfired(k)
  /\ Returns(k)
  /\ todo' = [todo EXCEPT ![k] = {}]
  /\ due' = [due EXCEPT ![k] = {}]
  /\ UNCHANGED <<clock, rows, edits, tasks, edit>>

\* The server crashes and another one starts: every invocation is forgotten.
Crash ==
  /\ faults < MaxFaults
  /\ faults' = faults + 1
  /\ dropped' = dropped \cup UNION {Unfired(k) : k \in Invocation}
  /\ pc' = [k \in Invocation |-> "idle"]
  /\ todo' = [k \in Invocation |-> {}]
  /\ due' = [k \in Invocation |-> {}]
  /\ now' = [k \in Invocation |-> 0]
  /\ UNCHANGED <<clock, rows, edits, tasks, edit>>

----------------------------------------------------------------------------

Operator(s) ==
  \/ Create(s) \/ Remove(s)
  \/ \E on \in BOOLEAN : Pause(s, on)
  \/ \E t \in Time : Move(s, t)
  \/ \E k \in Invocation : RunNow(k, s)

Step(k) ==
  \/ \E c \in todo[k] : Advance(k, c)
  \/ \E c \in due[k] : Fire(k, c) \/ CannotFire(k, c)
  \/ Record(k)

Next ==
  \/ ClockTicks
  \/ \E s \in Schedule : Operator(s)
  \/ \E k \in Invocation : SelectDue(k) \/ Step(k) \/ AdvanceFails(k)
  \/ Crash

Spec == Init /\ [][Next]_vars

(***************************************************************************)
(* Fairness: the ticker calls tickSchedules every 20 s, and each call goes *)
(* on to its end.  Time need not pass and no operator need act.            *)
(***************************************************************************)
FairSpec ==
  /\ Spec
  /\ WF_vars(\E k \in Invocation : SelectDue(k))
  /\ \A k \in Invocation : WF_vars(Step(k))

----------------------------------------------------------------------------
(* Properties.                                                             *)

\* The newest instant of the run's cadence that had come when its tick began.
Slot(run) ==
  LET from == run.claim.due
      p == Period[run.claim.schedule]
  IN  IF p = 0 THEN from ELSE from + ((run.at - from) \div p) * p

\* "A daily schedule should run once now and then resume its cadence, not fire
\* seven times in a row" (task-schedule-store.ts:101-105), and a schedule is
\* not fired again "on the next tick": whatever the ticks, crashes and edits,
\* one period of one schedule produces at most one task.
OncePerPeriod ==
  \A i, j \in 1..Len(tasks) :
    LET a == tasks[i].claim
        b == tasks[j].claim
    IN  (/\ a.schedule = b.schedule /\ a.edit = b.edit
         /\ ~a.manual /\ ~b.manual
         /\ Slot(tasks[i]) = Slot(tasks[j])) => i = j

\* run_count counts claims, and none of them is lost from sight: each became a
\* task, failed, or is in the hands of an invocation.
InFlight(s) ==
  UNION {{<<k, c>> : c \in {d \in Unfired(k) : d.schedule = s}} : k \in Invocation}
RunCountExplained ==
  \A s \in Schedule : row[s] = "live" =>
    runCount[s] =
      Cardinality({i \in 1..Len(tasks) : tasks[i].claim.schedule = s /\ ~tasks[i].claim.manual})
      + Cardinality({c \in dropped : c.schedule = s})
      + Cardinality(InFlight(s))

\* A schedule does not stay due, and a claim does not stay open: with
\* RunCountExplained, every due run is answered by a task or a logged failure.
EveryDueRunIsAnswered ==
  \A s \in Schedule : []<>(~IsDue(s) /\ InFlight(s) = {})
============================================================================
