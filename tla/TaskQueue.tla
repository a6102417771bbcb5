---------------------------- MODULE TaskQueue ----------------------------
(***************************************************************************)
(* The durable task queue: the `tasks` table, and the server processes     *)
(* that claim rows from it and run them                                    *)
(*   packages/orchestrator/src/task-runner.ts  (class TaskRunner)          *)
(*   apps/server/src/routes/tasks.ts           (drainQueue, executeTask)   *)
(*                                                                         *)
(* A Process is one life of a server: the runner id is generated at start, *)
(* so a restarted server is another Process.  A Slot is one unfinished     *)
(* executeTask promise of a process.  An action is what happens between    *)
(* two awaits; a database statement is atomic and is its own action.       *)
(***************************************************************************)
EXTENDS Integers, FiniteSets

CONSTANTS
  Task,              \* rows, as numbers in the order of created_at
  Process,           \* lives of servers
  Slot,              \* numbers of the promises a process may have open
  MaxLocalWorkers,   \* limits.maxLocalWorkers
  Outcomes,          \* what a worker that returns may report
  ConcurrentServers, \* may two servers share the database at one time?
  LossyHeartbeats,   \* may the beats of a live worker be lost for 90 s?
  DbErrors,          \* may a query be rejected?
  CancelsAt,         \* bound: <<server, row>> for which cancel requests arrive
  None

Reportable == {"completed", "failed", "cancelled", "blocked", "waiting_for_user"}
Terminal   == Reportable \cup {"interrupted"}
Status     == Terminal \cup {"absent", "queued", "running"}

ASSUME TaskAssumption    == Task \subseteq Nat
ASSUME SlotAssumption    == Slot \subseteq Nat /\ IsFiniteSet(Slot)
ASSUME WorkersAssumption == MaxLocalWorkers \in Nat \ {0}
ASSUME OutcomeAssumption == Outcomes \subseteq Reportable
ASSUME FlagAssumption    == {ConcurrentServers, LossyHeartbeats, DbErrors} \subseteq BOOLEAN
ASSUME NoneAssumption    == None \notin Task /\ None \notin Process /\ None \notin Slot

VARIABLES
  \* the tasks table
  status, runner, fresh,
  \* the memory of each process
  up,          \* "unborn" | "up" | "down"
  drain,       \* drainQueue: not running | claimNext in flight | its row just returned
  claimed,     \* the row claimNext returned, until executeTask has it
  inFlight,    \* the counter in routes/tasks.ts
  active,      \* TaskRunner.active
  reconciling, \* which UPDATE of reconcile() comes next
  ctl,         \* TaskRunner.cancellations: the run whose controller a task id maps to
  cancelling,  \* cancel() calls between their abort and their UPDATE
  \* the open executeTask promises
  pc, job, aborted, outcome,
  \* history: how often a worker was started for a row, and the rows for
  \* which a cancel request was answered `cancelled: true`
  starts, acked

table  == <<status, runner, fresh>>
memory == <<up, drain, claimed, inFlight, active, reconciling, ctl, cancelling>>
runs   == <<pc, job, aborted, outcome>>
ghosts == <<starts, acked>>
vars   == <<table, memory, runs, ghosts>>

Exec  == Process \X Slot
Owner(e) == e[1]

(***************************************************************************)
(* A promise steps through                                                 *)
(*   load     await workspaces.get, resolveTaskModel, recordResolution     *)
(*   check    run() holds a slot and re-reads the row                      *)
(*   mark     the row was not cancelled; UPDATE ... 'running' in flight    *)
(*   work     the worker runs                                              *)
(*   save     the worker returned; UPDATE of the outcome in flight         *)
(*   fail     run() caught an error; UPDATE of the failure in flight       *)
(*   settled  run() is over, executeTask's .finally has not run            *)
(***************************************************************************)
PC == {"idle", "load", "check", "mark", "work", "save", "fail", "settled"}

Holding  == {"check", "mark", "work", "save", "fail"}  \* between acquire and release
Starting == {"load", "check", "mark"}                  \* claimed, worker not started
Started  == {"work", "save"}
Beating  == {"work", "save", "fail"}                   \* the interval timer may be set

TableOK ==
  /\ status \in [Task -> Status]
  /\ runner \in [Task -> Process \cup {None}]
  /\ fresh \in [Task -> BOOLEAN]

MemoryOK ==
  /\ up \in [Process -> {"unborn", "up", "down"}]
  /\ drain \in [Process -> {"idle", "asking", "handing"}]
  /\ claimed \in [Process -> Task \cup {None}]
  /\ reconciling \in [Process -> {"interrupt", "release"}]
  /\ ctl \in [Process -> [Task -> Slot \cup {None}]]
  /\ cancelling \subseteq Process \X Task

RunsOK ==
  /\ pc \in [Exec -> PC]
  /\ job \in [Exec -> Task \cup {None}]
  /\ aborted \in [Exec -> BOOLEAN]
  /\ outcome \in [Exec -> Reportable \cup {None}]

CountersOK ==
  /\ inFlight \in [Process -> Nat]
  /\ active \in [Process -> Nat]

GhostsOK ==
  /\ starts \in [Task -> Nat]
  /\ acked \subseteq Task

TypeOK == TableOK /\ MemoryOK /\ RunsOK /\ CountersOK /\ GhostsOK

Init ==
  /\ status = [t \in Task |-> "absent"]
  /\ runner = [t \in Task |-> None]
  /\ fresh = [t \in Task |-> FALSE]
  /\ up = [p \in Process |-> "unborn"]
  /\ drain = [p \in Process |-> "idle"]
  /\ claimed = [p \in Process |-> None]
  /\ inFlight = [p \in Process |-> 0]
  /\ active = [p \in Process |-> 0]
  /\ reconciling = [p \in Process |-> "interrupt"]
  /\ ctl = [p \in Process |-> [t \in Task |-> None]]
  /\ cancelling = {}
  /\ pc = [e \in Exec |-> "idle"]
  /\ job = [e \in Exec |-> None]
  /\ aborted = [e \in Exec |-> FALSE]
  /\ outcome = [e \in Exec |-> None]
  /\ starts = [t \in Task |-> 0]
  /\ acked = {}

----------------------------------------------------------------------------
(* Servers start and crash.                                                *)

\* registerTaskRoutes: a new runner id; the first thing it does is reconcile.
Start(p) ==
  /\ up[p] = "unborn"
  /\ ConcurrentServers \/ \A q \in Process : up[q] # "up"
  /\ up' = [up EXCEPT ![p] = "up"]
  /\ UNCHANGED <<table, drain, claimed, inFlight, active, reconciling, ctl, cancelling,
                 runs, ghosts>>

\* The process ends and everything in its memory is lost.  Bound: some other
\* server is there, or still to come, to take over.
Crash(p) ==
  /\ up[p] = "up"
  /\ \E q \in Process \ {p} : up[q] # "down"
  /\ up' = [up EXCEPT ![p] = "down"]
  /\ drain' = [drain EXCEPT ![p] = "idle"]
  /\ claimed' = [claimed EXCEPT ![p] = None]
  /\ inFlight' = [inFlight EXCEPT ![p] = 0]
  /\ active' = [active EXCEPT ![p] = 0]
  /\ reconciling' = [reconciling EXCEPT ![p] = "interrupt"]
  /\ ctl' = [ctl EXCEPT ![p] = [t \in Task |-> None]]
  /\ cancelling' = {c \in cancelling : c[1] # p}
  /\ pc' = [e \in Exec |-> IF Owner(e) = p THEN "idle" ELSE pc[e]]
  /\ job' = [e \in Exec |-> IF Owner(e) = p THEN None ELSE job[e]]
  /\ aborted' = [e \in Exec |-> IF Owner(e) = p THEN FALSE ELSE aborted[e]]
  /\ outcome' = [e \in Exec |-> IF Owner(e) = p THEN None ELSE outcome[e]]
  /\ UNCHANGED <<table, ghosts>>

----------------------------------------------------------------------------
(* Rows appear (POST /api/tasks, a schedule that fires), and are cancelled.*)

Create(t) ==
  /\ status[t] = "absent"
  /\ \A u \in Task : u < t => status[u] # "absent"
  /\ \E p \in Process : up[p] = "up"
  /\ status' = [status EXCEPT ![t] = "queued"]
  /\ UNCHANGED <<runner, fresh, memory, runs, ghosts>>

\* cancel(), its synchronous part: abort the controller registered for the id.
CancelRequest(p, t) ==
  /\ <<p, t>> \in CancelsAt \ cancelling
  /\ up[p] = "up" /\ status[t] # "absent"
  /\ aborted' = [e \in Exec |-> aborted[e] \/ (Owner(e) = p /\ e[2] = ctl[p][t])]
  /\ cancelling' = cancelling \cup {<<p, t>>}
  /\ UNCHANGED <<table, up, drain, claimed, inFlight, active, reconciling, ctl,
                 pc, job, outcome, ghosts>>

\* Mutant: the UPDATE forgets its status guard.
CancelCommitUnguarded(p, t) ==
  /\ <<p, t>> \in cancelling
  /\ cancelling' = cancelling \ {<<p, t>>}
  /\ status' = [status EXCEPT ![t] = "cancelled"]
  /\ acked' = acked \cup {t}
  /\ UNCHANGED <<runner, fresh, up, drain, claimed, inFlight, active, reconciling, ctl,
                 runs, starts>>

Cancellable(t) == status[t] \in {"queued", "running"}

\* cancel(), its UPDATE: true is answered when a queued or running row matched.
CancelCommit(p, t) ==
  /\ <<p, t>> \in cancelling
  /\ cancelling' = cancelling \ {<<p, t>>}
  /\ IF Cancellable(t)
     THEN /\ status' = [status EXCEPT ![t] = "cancelled"]
          /\ acked' = acked \cup {t}
     ELSE UNCHANGED <<status, acked>>
  /\ UNCHANGED <<runner, fresh, up, drain, claimed, inFlight, active, reconciling, ctl,
                 runs, starts>>

\* The UPDATE is rejected, or commits and its answer is lost: an HTTP error.
CancelFails(p, t) ==
  /\ DbErrors /\ <<p, t>> \in cancelling
  /\ cancelling' = cancelling \ {<<p, t>>}
  /\ \/ UNCHANGED status
     \/ Cancellable(t) /\ status' = [status EXCEPT ![t] = "cancelled"]
  /\ UNCHANGED <<runner, fresh, up, drain, claimed, inFlight, active, reconciling, ctl,
                 runs, ghosts>>

----------------------------------------------------------------------------
(* reconcile(), at start and on every tick: two UPDATEs, one after the     *)
(* other.                                                                  *)

\* Mutants: the heartbeat is not looked at; stale rows are queued again.
InterruptAnyForeign(p) ==
  /\ up[p] = "up" /\ reconciling[p] = "interrupt"
  /\ LET abandoned == {t \in Task : status[t] = "running" /\ runner[t] # p}
     IN  /\ status' = [t \in Task |-> IF t \in abandoned THEN "interrupted" ELSE status[t]]
         /\ runner' = [t \in Task |-> IF t \in abandoned THEN None ELSE runner[t]]
  /\ reconciling' = [reconciling EXCEPT ![p] = "release"]
  /\ UNCHANGED <<fresh, up, drain, claimed, inFlight, active, ctl, cancelling, runs, ghosts>>

RequeueAbandoned(p) ==
  /\ up[p] = "up" /\ reconciling[p] = "interrupt"
  /\ LET abandoned == {t \in Task : status[t] = "running" /\ runner[t] # p /\ ~fresh[t]}
     IN  /\ status' = [t \in Task |-> IF t \in abandoned THEN "queued" ELSE status[t]]
         /\ runner' = [t \in Task |-> IF t \in abandoned THEN None ELSE runner[t]]
  /\ reconciling' = [reconciling EXCEPT ![p] = "release"]
  /\ UNCHANGED <<fresh, up, drain, claimed, inFlight, active, ctl, cancelling, runs, ghosts>>

\* Running rows of another runner whose heartbeat went quiet become interrupted.
ReconcileInterrupt(p) ==
  /\ up[p] = "up" /\ reconciling[p] = "interrupt"
  /\ LET abandoned == {t \in Task : status[t] = "running" /\ runner[t] # p /\ ~fresh[t]}
     IN  /\ status' = [t \in Task |-> IF t \in abandoned THEN "interrupted" ELSE status[t]]
         /\ runner' = [t \in Task |-> IF t \in abandoned THEN None ELSE runner[t]]
  /\ reconciling' = [reconciling EXCEPT ![p] = "release"]
  /\ UNCHANGED <<fresh, up, drain, claimed, inFlight, active, ctl, cancelling, runs, ghosts>>

\* Mutant: claims of other runners are left alone.
ReleaseNothing(p) ==
  /\ up[p] = "up" /\ reconciling[p] = "release"
  /\ reconciling' = [reconciling EXCEPT ![p] = "interrupt"]
  /\ UNCHANGED <<table, up, drain, claimed, inFlight, active, ctl, cancelling, runs, ghosts>>

\* Queued rows that any other runner has claimed are handed back.
ReconcileRelease(p) ==
  /\ up[p] = "up" /\ reconciling[p] = "release"
  /\ LET handedBack == {t \in Task : status[t] = "queued" /\ runner[t] \notin {None, p}}
     IN  /\ runner' = [t \in Task |-> IF t \in handedBack THEN None ELSE runner[t]]
         /\ fresh' = [t \in Task |-> fresh[t] /\ t \notin handedBack]
  /\ reconciling' = [reconciling EXCEPT ![p] = "interrupt"]
  /\ UNCHANGED <<status, up, drain, claimed, inFlight, active, ctl, cancelling, runs, ghosts>>

\* An UPDATE is rejected; what it committed stays.  The next tick starts over.
ReconcileFails(p) ==
  /\ DbErrors /\ up[p] = "up" /\ reconciling[p] = "release"
  /\ reconciling' = [reconciling EXCEPT ![p] = "interrupt"]
  /\ UNCHANGED <<table, up, drain, claimed, inFlight, active, ctl, cancelling, runs, ghosts>>

\* The worker's timer writes heartbeat_at, if the row still names this runner.
Beat(e) ==
  /\ pc[e] \in Beating
  /\ LET t == job[e]
     IN  /\ runner[t] = Owner(e) /\ ~fresh[t]
         /\ fresh' = [fresh EXCEPT ![t] = TRUE]
  /\ UNCHANGED <<status, runner, memory, runs, ghosts>>

\* staleAfterMs pass without a beat.  Timers fire every 15 s, so without lost
\* beats this happens only to a row no live worker beats for.
HeartbeatLapses(t) ==
  /\ fresh[t]
  /\ \/ LossyHeartbeats
     \/ ~ \E e \in Exec : pc[e] \in Beating /\ job[e] = t /\ Owner(e) = runner[t]
  /\ fresh' = [fresh EXCEPT ![t] = FALSE]
  /\ UNCHANGED <<status, runner, memory, runs, ghosts>>

----------------------------------------------------------------------------
(* drainQueue().  It is called on a request, on a tick and whenever a      *)
(* promise settles; `draining` keeps it from running twice at a time.      *)

\* Mutant: the loop's condition forgets the cap.
DrainUncapped(p) ==
  /\ up[p] = "up" /\ drain[p] = "idle"
  /\ drain' = [drain EXCEPT ![p] = "asking"]
  /\ UNCHANGED <<table, up, claimed, inFlight, active, reconciling, ctl, cancelling,
                 runs, ghosts>>

DrainQueue(p) ==
  /\ up[p] = "up" /\ drain[p] = "idle"
  /\ inFlight[p] < MaxLocalWorkers
  /\ drain' = [drain EXCEPT ![p] = "asking"]
  /\ UNCHANGED <<table, up, claimed, inFlight, active, reconciling, ctl, cancelling,
                 runs, ghosts>>

\* Mutant: interrupted rows are taken up again.
UnclaimedOrInterrupted == {t \in Task : status[t] \in {"queued", "interrupted"} /\ runner[t] = None}
Unclaimed == {t \in Task : status[t] = "queued" /\ runner[t] = None}
Oldest(t) == t \in Unclaimed /\ \A u \in Unclaimed : t <= u

\* claimNext(): UPDATE ... FOR UPDATE SKIP LOCKED.
ClaimNext(p) ==
  /\ drain[p] = "asking"
  /\ \E t \in Unclaimed :
       /\ Oldest(t)
       /\ runner' = [runner EXCEPT ![t] = p]
       /\ fresh' = [fresh EXCEPT ![t] = TRUE]
       /\ claimed' = [claimed EXCEPT ![p] = t]
       /\ drain' = [drain EXCEPT ![p] = "handing"]
  /\ UNCHANGED <<status, up, inFlight, active, reconciling, ctl, cancelling, runs, ghosts>>

ClaimNothing(p) ==
  /\ drain[p] = "asking" /\ Unclaimed = {}
  /\ drain' = [drain EXCEPT ![p] = "idle"]
  /\ UNCHANGED <<table, up, claimed, inFlight, active, reconciling, ctl, cancelling,
                 runs, ghosts>>

\* The claim is rejected, or it commits and its answer is lost.
ClaimFails(p) ==
  /\ DbErrors /\ drain[p] = "asking"
  /\ drain' = [drain EXCEPT ![p] = "idle"]
  /\ \/ UNCHANGED <<runner, fresh>>
     \/ \E t \in Unclaimed : /\ Oldest(t)
                             /\ runner' = [runner EXCEPT ![t] = p]
                             /\ fresh' = [fresh EXCEPT ![t] = TRUE]
  /\ UNCHANGED <<status, up, claimed, inFlight, active, reconciling, ctl, cancelling,
                 runs, ghosts>>

\* Slots are only names: a promise takes the lowest one that is not in use.
FreeSlot(p, s) ==
  /\ pc[<<p, s>>] = "idle"
  /\ \A r \in Slot : r < s => pc[<<p, r>>] # "idle"

\* The claimed row is handed to executeTask, and the loop goes round.
Launch(p) ==
  /\ drain[p] = "handing"
  /\ \E s \in Slot :
       /\ FreeSlot(p, s)
       /\ pc' = [pc EXCEPT ![<<p, s>>] = "load"]
       /\ job' = [job EXCEPT ![<<p, s>>] = claimed[p]]
  /\ inFlight' = [inFlight EXCEPT ![p] = @ + 1]
  /\ drain' = [drain EXCEPT ![p] = IF inFlight[p] + 1 < MaxLocalWorkers THEN "asking" ELSE "idle"]
  /\ claimed' = [claimed EXCEPT ![p] = None]
  /\ UNCHANGED <<table, up, active, reconciling, ctl, cancelling, aborted, outcome, ghosts>>

----------------------------------------------------------------------------
(* executeTask() and TaskRunner.run().                                     *)

\* workspaces.get is rejected: the promise settles and run() was never called.
LoadFails(e) ==
  /\ DbErrors /\ pc[e] = "load"
  /\ pc' = [pc EXCEPT ![e] = "settled"]
  /\ UNCHANGED <<table, memory, job, aborted, outcome, ghosts>>

\* run(): acquire() finds a slot and the controller is registered.  acquire()
\* waits when there is none: AcquireNeverWaits says that this cannot happen.
Acquire(e) ==
  LET p == Owner(e) IN
  /\ pc[e] = "load"
  /\ active[p] < MaxLocalWorkers
  /\ active' = [active EXCEPT ![p] = @ + 1]
  /\ ctl' = [ctl EXCEPT ![p][job[e]] = e[2]]
  /\ pc' = [pc EXCEPT ![e] = "check"]
  /\ UNCHANGED <<table, up, drain, claimed, inFlight, reconciling, cancelling,
                 job, aborted, outcome, ghosts>>

\* Mutant: the slot is given back twice.
FinallyTwice(e) ==
  /\ active' = [active EXCEPT ![Owner(e)] = @ - 2]
  /\ ctl' = [ctl EXCEPT ![Owner(e)][job[e]] = None]
  /\ aborted' = [aborted EXCEPT ![e] = FALSE]
  /\ outcome' = [outcome EXCEPT ![e] = None]
  /\ pc' = [pc EXCEPT ![e] = "settled"]

\* The finally block of run(): forget the controller, give the slot back.
Finally(e) ==
  /\ active' = [active EXCEPT ![Owner(e)] = @ - 1]
  /\ ctl' = [ctl EXCEPT ![Owner(e)][job[e]] = None]
  /\ aborted' = [aborted EXCEPT ![e] = FALSE]
  /\ outcome' = [outcome EXCEPT ![e] = None]
  /\ pc' = [pc EXCEPT ![e] = "settled"]

\* The row is re-read: a cancelled one ends the run.
CheckCancelled(e) ==
  /\ pc[e] = "check" /\ status[job[e]] = "cancelled"
  /\ Finally(e)
  /\ UNCHANGED <<table, up, drain, claimed, inFlight, reconciling, cancelling, job, ghosts>>

CheckLive(e) ==
  /\ pc[e] = "check" /\ status[job[e]] # "cancelled"
  /\ pc' = [pc EXCEPT ![e] = "mark"]
  /\ UNCHANGED <<table, memory, job, aborted, outcome, ghosts>>

\* UPDATE tasks SET status = 'running' WHERE id = $1.
MarkRow(t, p) ==
  /\ status' = [status EXCEPT ![t] = "running"]
  /\ runner' = [runner EXCEPT ![t] = p]
  /\ fresh' = [fresh EXCEPT ![t] = TRUE]

\* The row is marked; then the worker starts.
Mark(e) ==
  /\ pc[e] = "mark"
  /\ MarkRow(job[e], Owner(e))
  /\ starts' = [starts EXCEPT ![job[e]] = @ + 1]
  /\ pc' = [pc EXCEPT ![e] = "work"]
  /\ UNCHANGED <<memory, job, aborted, outcome, acked>>

\* The worker returns.  An aborted agent loop reports CANCELLED.
WorkerReturns(e, o) ==
  /\ pc[e] = "work"
  /\ o \in IF aborted[e] THEN {"cancelled"} ELSE Outcomes
  /\ pc' = [pc EXCEPT ![e] = "save"]
  /\ outcome' = [outcome EXCEPT ![e] = o]
  /\ UNCHANGED <<table, memory, job, aborted, ghosts>>

CatchStatus(e) == IF aborted[e] THEN "cancelled" ELSE "failed"

\* The worker throws (provider error, unknown role, missing workspace, ...).
WorkerThrows(e) ==
  /\ pc[e] = "work"
  /\ pc' = [pc EXCEPT ![e] = "fail"]
  /\ outcome' = [outcome EXCEPT ![e] = CatchStatus(e)]
  /\ UNCHANGED <<table, memory, job, aborted, ghosts>>

\* UPDATE ... SET status = CASE WHEN status = 'cancelled' THEN 'cancelled' ELSE $5.
SaveRow(t, o) ==
  /\ status' = [status EXCEPT ![t] = IF @ = "cancelled" THEN @ ELSE o]
  /\ UNCHANGED <<runner, fresh>>

\* A query of run() is rejected, or it commits and its answer is lost; the
\* catch block handles both like an error of the worker.
QueryFails(e) ==
  /\ DbErrors /\ pc[e] \in {"check", "mark", "save"}
  /\ \/ UNCHANGED table
     \/ pc[e] = "mark" /\ MarkRow(job[e], Owner(e))
     \/ pc[e] = "save" /\ SaveRow(job[e], outcome[e])
  /\ pc' = [pc EXCEPT ![e] = "fail"]
  /\ outcome' = [outcome EXCEPT ![e] = CatchStatus(e)]
  /\ UNCHANGED <<memory, job, aborted, ghosts>>

\* Mutant: the outcome is written without the CASE.
SaveOver(e) ==
  /\ pc[e] = "save"
  /\ status' = [status EXCEPT ![job[e]] = outcome[e]]
  /\ Finally(e)
  /\ UNCHANGED <<runner, fresh, up, drain, claimed, inFlight, reconciling, cancelling, job, ghosts>>

Save(e) ==
  /\ pc[e] = "save"
  /\ SaveRow(job[e], outcome[e])
  /\ Finally(e)
  /\ UNCHANGED <<up, drain, claimed, inFlight, reconciling, cancelling, job, ghosts>>

\* Mutant: the catch block forgets to write the row.
FailSilently(e) ==
  /\ pc[e] = "fail"
  /\ UNCHANGED status
  /\ Finally(e)
  /\ UNCHANGED <<runner, fresh, up, drain, claimed, inFlight, reconciling, cancelling, job, ghosts>>

\* The catch block's UPDATE, which has no guard; or it is rejected too.
Fail(e) ==
  /\ pc[e] = "fail"
  /\ \/ status' = [status EXCEPT ![job[e]] = outcome[e]]
     \/ DbErrors /\ UNCHANGED status
  /\ Finally(e)
  /\ UNCHANGED <<runner, fresh, up, drain, claimed, inFlight, reconciling, cancelling, job, ghosts>>

\* executeTask's .finally in drainQueue.
Settle(e) ==
  /\ pc[e] = "settled"
  /\ pc' = [pc EXCEPT ![e] = "idle"]
  /\ job' = [job EXCEPT ![e] = None]
  /\ inFlight' = [inFlight EXCEPT ![Owner(e)] = @ - 1]
  /\ UNCHANGED <<table, up, drain, claimed, active, reconciling, ctl, cancelling,
                 aborted, outcome, ghosts>>

----------------------------------------------------------------------------

ServerStep(p) ==
  \/ Start(p) \/ ReconcileInterrupt(p) \/ ReconcileRelease(p)
  \/ DrainQueue(p) \/ ClaimNext(p) \/ ClaimNothing(p) \/ Launch(p)

ExecStep(e) ==
  \/ Acquire(e) \/ CheckCancelled(e) \/ CheckLive(e) \/ Mark(e)
  \/ WorkerThrows(e) \/ Save(e) \/ Fail(e) \/ Settle(e)
  \/ \E o \in Outcomes \cup {"cancelled"} : WorkerReturns(e, o)

Fault ==
  \/ \E p \in Process : Crash(p) \/ ClaimFails(p) \/ ReconcileFails(p)
  \/ \E p \in Process, t \in Task : CancelFails(p, t)
  \/ \E e \in Exec : LoadFails(e) \/ QueryFails(e)

Next ==
  \/ \E p \in Process : ServerStep(p)
  \/ \E p \in Process, t \in Task : CancelRequest(p, t) \/ CancelCommit(p, t)
  \/ \E e \in Exec : ExecStep(e) \/ Beat(e)
  \/ \E t \in Task : Create(t) \/ HeartbeatLapses(t)
  \/ Fault

Spec == Init /\ [][Next]_vars

(***************************************************************************)
(* Fairness: a live process keeps taking its steps (promises settle, the   *)
(* 20 s ticker reconciles and drains), a worker ends (its turns and tool   *)
(* calls are budgeted), a supervisor starts the next server, time passes.  *)
(* Nothing makes anybody submit or cancel a task, or a fault happen.       *)
(***************************************************************************)
Fairness ==
  /\ \A p \in Process :
       /\ WF_vars(Start(p))
       /\ WF_vars(ReconcileInterrupt(p)) /\ WF_vars(ReconcileRelease(p))
       /\ WF_vars(DrainQueue(p)) /\ WF_vars(ClaimNext(p) \/ ClaimNothing(p)) /\ WF_vars(Launch(p))
  /\ \A e \in Exec : WF_vars(ExecStep(e))
  /\ \A t \in Task : WF_vars(HeartbeatLapses(t))

FairSpec == Spec /\ Fairness

----------------------------------------------------------------------------
(* Properties.                                                             *)

\* The counters of drainQueue and TaskRunner agree with the promises that are
\* really open, and the cap holds: never more than maxLocalWorkers claims are
\* being worked on in one process (routes/tasks.ts:363-366).
Busy(p) == {s \in Slot : pc[<<p, s>>] # "idle"}
Held(p) == {s \in Slot : pc[<<p, s>>] \in Holding}
Counted(p) == inFlight[p] = Cardinality(Busy(p)) /\ active[p] = Cardinality(Held(p))
CapRespected ==
  \A p \in Process : Counted(p) /\ active[p] <= inFlight[p] /\ inFlight[p] <= MaxLocalWorkers

\* A run that reaches acquire() finds a worker slot at once: the in-memory
\* queue of TaskRunner stays empty, so no claimed row waits there unseen.
AcquireNeverWaits ==
  \A e \in Exec : pc[e] = "load" => active[Owner(e)] < MaxLocalWorkers

\* No row's worker is started a second time: "silently re-running it could
\* repeat a side effect" (task-runner.ts:189-190).
AtMostOneStart == \A t \in Task : starts[t] <= 1

\* Who in process p answers for row t before its worker starts: the claim
\* drainQueue is handing over, or a promise.
HandedBy(p, t)   == drain[p] = "handing" /\ claimed[p] = t
StartedBy(e, t)  == pc[e] \in Starting /\ job[e] = t
RunBy(e, t)      == pc[e] \in Beating /\ job[e] = t

\* Why AtMostOneStart holds while servers follow one another.  A claimed row
\* has one owner in memory, in the only live server, and the row names it; the
\* next server finds the row unclaimed or still queued only if no worker was
\* ever started for it.
OneClaimPerRow ==
  /\ \A p, q \in Process : up[p] = "up" /\ up[q] = "up" => p = q
  /\ \A p \in Process :
       up[p] # "up" => drain[p] = "idle" /\ \A s \in Slot : pc[<<p, s>>] = "idle"
  /\ \A p \in Process, t \in Task : HandedBy(p, t) => runner[t] = p /\ starts[t] = 0
  /\ \A e \in Exec, t \in Task : StartedBy(e, t) => runner[t] = Owner(e) /\ starts[t] = 0
  /\ \A p \in Process, e \in Exec, t \in Task : ~(HandedBy(p, t) /\ StartedBy(e, t))
  /\ \A e, f \in Exec, t \in Task : StartedBy(e, t) /\ StartedBy(f, t) => e = f
  /\ \A t \in Task : status[t] \in {"absent", "queued"} => starts[t] = 0
  /\ AtMostOneStart

\* In whose hands a row is.  A promise that failed before it started the worker has it still.
HandOf(t) ==
  IF starts[t] > 0
  THEN IF \E e \in Exec : RunBy(e, t) THEN "working" ELSE "over"
  ELSE IF \/ \E p \in Process : HandedBy(p, t)
          \/ \E e \in Exec : StartedBy(e, t) \/ RunBy(e, t)
       THEN "taken" ELSE "free"

Hands == [t \in Task |-> HandOf(t)]

Ledger == INSTANCE TaskLedger WITH hand <- Hands

\* Whatever crashes, rejected queries, lost answers and cancellations come between, while
\* servers follow one another the queue keeps the ledger: a row is taken only while it is
\* queued and by one promise, its worker starts once, only who has it in hand reports on it,
\* and it is interrupted only when nobody has it.
RefinesLedger == Ledger!Spec

\* A row that a live process owns has a promise there that will finish it: no
\* task is left queued or running under a live owner that has forgotten it.
OwnedRowsAreHeld ==
  \A t \in Task, p \in Process :
    up[p] = "up" /\ runner[t] = p =>
      /\ status[t] = "queued" =>
           \/ HandedBy(p, t)
           \/ \E s \in Slot : StartedBy(<<p, s>>, t)
      /\ status[t] = "running" => \E s \in Slot : RunBy(<<p, s>>, t)

\* What was reported about a finished task stays, with two exceptions: a
\* cancellation (see CancelIsDurable), and the run itself, when the answer to
\* its save was lost, takes its own report back.
ReportedIsFinal ==
  [][\A t \in Task : status[t] \in Terminal \ {"cancelled"} =>
       \/ status'[t] = status[t]
       \/ \E e \in Exec : pc[e] = "fail" /\ job[e] = t /\ status'[t] = outcome[e]]_vars

\* Once a cancel request has aborted a worker that is running, and marked its
\* row, nothing the worker still does changes the row's status.
AbortedStaysCancelled ==
  [][\A e \in Exec :
       (/\ pc[e] \in Started \/ (pc[e] = "fail" /\ outcome[e] = "cancelled")
        /\ aborted[e] /\ status[job[e]] = "cancelled")
       => status'[job[e]] = "cancelled"]_vars

\* A task is declared interrupted only when its owner no longer runs it: "two
\* servers sharing a database cannot steal each other's live work".
InterruptedOnlyIfAbandoned ==
  [][\A t \in Task : status[t] = "running" /\ status'[t] = "interrupted" =>
       ~ \E e \in Exec : RunBy(e, t) /\ Owner(e) = runner[t]]_vars

\* A task that is accepted is eventually finished, one way or another,
\* whatever servers come and go.
EveryTaskSettles ==
  \A t \in Task : status[t] \in {"queued", "running"} ~> status[t] \in Terminal

\* What cancel()'s comment promises: "Cancellation is durable".  A request
\* that was answered `cancelled: true` is not followed by a reported result.
CancelIsDurable ==
  \A t \in acked : status[t] \notin Reportable \ {"cancelled", "failed"}
============================================================================
