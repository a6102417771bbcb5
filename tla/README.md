# Formal models of the local agent server

TLA+ specifications, TLC configurations and TLAPS proofs kept beside the code
of the agent server: `apps/server`, `packages/*` and `scripts/`. Every
definition is translated from the TypeScript or SQL source; `PROJECT.json`
names the lines each one stands for (`map`), the hazards the properties are
aimed at (`hazards`), the runs, and for each checked property one plausible bug
that the run would catch (`mutants`).

- `tlc -config TaskQueue_restart.cfg MCTaskQueue` checks a configuration;
- `tlapm TaskQueueProofs.tla` checks proofs (one `*Proofs` module per proved component).

## 1. The system

A pnpm monorepo of about 85 000 lines of TypeScript. One or more server
processes (Fastify) share a PostgreSQL database; everything else is in the
memory of a process and dies with it.

| Component | State it keeps | Operations | What makes it hard |
|---|---|---|---|
| **Task runner** (`packages/orchestrator/src/task-runner.ts`) | table `tasks` (status, runner_id, heartbeat_at); in memory `active`, `queue`, `cancellations` | create, claimNext, run, cancel, reconcile, heartbeat | several servers on one table, crashes between any two statements, cancellation racing start and result, late heartbeats |
| **Task routes** (`apps/server/src/routes/tasks.ts`) | `inFlight`, `draining` | drainQueue, executeTask, tickSchedules, HTTP routes, the 20 s ticker | two counters for one limit; overlapping calls; promises nobody awaits |
| **Schedule store** (`task-schedule-store.ts`) | table `task_schedules` (enabled, next_run_at, run_count) | create, update, remove, claimDue, recordRun, computeNextRun | claim in two statements; partial failure; crashes; cadence arithmetic |
| **Agent route** (`apps/server/src/routes/agent.ts`) | per request: abort controller, tracker, executor chain | start, resume, disconnect, end | events recorded without awaiting; several writers of one row |
| **Run state** (`working-state-store.ts`, `run-state-tracker.ts`, `resumed-run-state-tracker.ts`, `run-resume.ts`) | one row of `agent_working_state` per thread | load and save of the whole row by ten and more writers | read-modify-write without a transaction; crash, resume, resume again |
| **Task graph** (`task-graph-executor.ts`) | a dependency graph in `validation_state` | decompose, status, update | cycle detection; order of completion; reopening |
| **Acceptance and review** (`acceptance-criteria.ts`, `final-review.ts`, `completion-manifest.ts`) | criteria, verdict of the review | initialise, check, record | the evidence read may have been overwritten |
| **Agent loop and coding graph** (`agent-loop.ts`, `coding-agent-graph.ts`) | turn and tool counters, generations of mutation and validation | turn, gates, abort, review cycle | many gates in order; budgets; overrides after the loop |
| **Transactional mutations** (`transactional-mutation-executor.ts`, `scripts/transaction-snapshot.mjs`) | snapshots and a journal | snapshot, mutate, commit, roll back | failure between any two steps |
| **Approval gate** (`approvals.ts`) | pending requests, timers, runs approved as a whole | request, decide, approveAll, cancelRun, clearRun | timers, decisions and disconnects racing |
| **Model request limit** (`model-request-semaphore.ts`) | counter and wait queue | acquire, release | a woken waiter is counted late |
| **Live validation controller** (`packages/security`) | run states, slots, queues, the kill switch's latch and members | create, execute an action, stop all, restart, end | a stop between any two awaits of a start or an action |
| **Parallel models** (`parallel-model-executor.ts`) | none beyond the call | readers side by side, then a writer | all of them share the request limit |
| **Media manager** (`infrastructure/runpod-media-manager.ts`) | the tunnel process it holds, whether it asked for the pod, ready, stopped | initialize, monitor, reconnect, stop | awaits, a timer, exit events of old processes and a stop in any order |
| **Repository index** (`semantic-index-refresh-executor.ts`, `incremental-index-refresh.ts`, `packages/repository-index`) | tables of file hashes, symbols and edges; in memory the queue of refreshes | a mutation's refresh: walk, drop, index | many statements without a transaction; files change while they are read; runs share one index |
| **Model routing** (`packages/providers/src/provider-registry.ts`, `gpu-availability.ts`) | the configuration; the probe of the pod in flight, its last answer and when it was kept | resolve an alias or a row's instance, probe, repair, fall back | answers are shared and reused; policies, names of aliases and fall-backs meet; awaits between an answer and its use |
| permission engine, provider adapters, RAG, memory, investor, market and smart-contract packages, web UI, scripts | mostly none of their own | pure functions, remote calls, presentation | not concurrency or recovery |

How they interact: the HTTP routes and the ticker create rows; `drainQueue`
claims them and runs the agent loop through `TaskRunner.run`; the agent route
runs the same loop for an interactive request. The loop calls tools through a
chain of executors, each of which may read and write the working-state row; the
trackers write the same row after every event of the loop; a resumed request
reads what an earlier one left there.

Properties that would make each component correct, in short: the queue starts
a task once, finishes every accepted task and never exceeds its worker limit; a
schedule produces one task per period and none is lost unseen; a plan is
acyclic, always has something to do and is worked off in order of its
dependencies; the row of a run keeps what was recorded in it until the
completion gate has read it; a final answer that claims completion has passed
every gate; a mutation that fails leaves the files as they were; an approval
is given once and to the run it was asked for; a stop reaches everything that acts
on real targets; nobody waits for a slot that nobody will give back; a lost
connection to the media service is restored and none outlives the manager; a run that
is told its index is fresh finds its edit there; a model runs where the policy and the request allow, and
on the pod only while the pod is known to answer.

## 2. The plan

| Step | Modules | About | State |
|---|---|---|---|
| 1 | `TaskLedger`, `TaskQueue`, `TaskQueueProofs` | what may be expected of a task; rows, claims, workers, crashes | done |
| 2 | `TaskSchedules`, `TaskSchedulesProofs` | ticks, cadence, lost and repeated claims | done |
| 3 | `TaskGraph`, `TaskGraphProofs` | decompose, replan, update, the search for cycles | done |
| 4 | `AccountableRun`, `AgentLoop`, `AgentRun`, `AgentRunProofs` | what a run accounts for; turns, gates before a final answer, batches, budgets, abort; the coding graph around the loop | done |
| 5 | `WorkingState`, `WorkingStateProofs` | the row of a run and its writers: fresh and resumed tracker, tools, review, the route's end; crash and resume | done |
| 6 | `RecoveryPoint`, `MutationTransaction`, `MutationTransactionProofs` | what a recovery point promises, and the executor that implements it: snapshot, mutate, validate, commit or roll back, with failures, interruptions and a user who edits | done |
| 7 | `Approvals` | requests, timers, decisions, grants for a whole run, connections that close | done |
| 8 | `ModelRequests`; `LiveValidation`, `LiveValidationProofs` | the semaphore and parallel participants; the controller and its switch | done |
| 9 | `MediaManager`, `IndexRefresh`, `ModelRouting`; `ServerProofs`, of `Approvals`, `ModelRequests` and these three | the connection to the media service, its monitor and its stop; the index after a run's edits; the instance that serves a model | done |
| 10 | with `LiveValidation` | the hard network stop and the sessions of a controller | open |
| 11 | a module beside `MediaManager` | `RunpodService`'s own tunnel; `scripts/local-app-lifecycle.mjs` | open |
| 12 | with `AgentRun` | fan-out delegation: budgets and aborts of nested loops | open |

`Server` puts the modules of steps 5 to 9 side by side, `MCServer` gives their constants values
for TLC, and `ServerProofs` has theorems about the whole. The order is by
importance: first what must survive crashes and several servers, then the plan a run
follows and the loop that works it off, then the row that plan is stored in and
the files it changes, then what a run waits for.

Abstract specifications: `TaskLedger` of the queue, `AccountableRun` of the loop and its graph,
`RecoveryPoint` of the transactions; each is a `PROPERTY` of a run and the refinement a theorem.
What remains: one of the schedules (*a period is answered once*) and one of the index (*what a run is
told was true when its edit was in*), whose promises are invariants now. A run that remains: a test that passed, or failed,
before an edit is refused as a duplicate after it (`agent-loop.ts:1032`), so it can
never be repeated verbatim. Modules with proofs use recursive functions and sets, and
no `RECURSIVE` operator.

## 3. The models and the code

In all modules an action is what the program does between two suspension
points (`await`), and a database statement is an action of its own. History
variables are kept apart (`ghosts`, `history`, `done`) and never appear in a
guard.

### TaskQueue: `task-runner.ts` and the queue part of `routes/tasks.ts`

| Model | Code |
|---|---|
| `status`, `runner`, `fresh` | columns `status`, `runner_id`, and *heartbeat_at is younger than 90 s* |
| `Process`, `up` | one life of a server; a restarted server has a new runner id and is another process |
| `drain`, `claimed`, `inFlight` | `draining`, the row in `drainQueue`, the route's counter |
| `active`, `ctl`, `cancelling` | fields of `TaskRunner`, and `cancel` calls between their two halves |
| a `Slot` with `pc`, `job`, `aborted`, `outcome` | one open `executeTask` promise and the `run` inside it |
| `Start`, `Crash`, `ReconcileInterrupt`, `ReconcileRelease` | `registerTaskRoutes`, loss of the process, the two UPDATEs of `reconcile` |
| `DrainQueue`, `ClaimNext`, `ClaimNothing`, `Launch` | the loop of `drainQueue` around `claimNext` |
| the actions on a slot | the segments of `executeTask` and `TaskRunner.run`: load, take a slot, re-read, mark, work, save, settle |
| `...Fails` | the query is rejected, or it commits and its answer is lost |

Abstractions. A worker is a choice from `Outcomes`, an error, or, once aborted,
the error that an abort raises. Time is only `fresh`: with
`LossyHeartbeats = FALSE` a live worker's row stays fresh. Where a query both
commits and loses its answer, that is one step. `recordResolution` writes
columns that no code here reads.

`TaskLedger` says what anybody may expect of a task while servers follow one another: its row, and in whose
hands it is (`free`, `taken`, `working`, `over`). It has no servers, claims, counters or heartbeats.
`HandOf` reads a row's hand from the model: it is `working` while a slot runs its worker, `over` after that,
`taken` while a drain loop or a promise of a live server is about to start it, and `free` otherwise. `RefinesLedger` says that each
step of `TaskQueue` is then an entry of the ledger, or none.

### TaskSchedules: `task-schedule-store.ts` and `tickSchedules`

`row`, `enabled`, `next`, `runCount` are the columns; an `Invocation` is one call of
`tickSchedules` or one run-now request, with what it has read (`todo`) and what
it has claimed (`due`). `SelectDue` is the SELECT of `claimDue` and `Advance`
one of its UPDATEs; `Fire`, `Record` and `CannotFire` are the body of the loop
in `tickSchedules`. `NextRun` is `computeNextRun` over small integers. A period of 0
stands for kind `once`; the table's CHECK (`interval_seconds >= 60`) rules out
a recurring schedule with period 0. PATCH of `intervalSeconds` is left out, and
rows are inserted, enabled, before the clock starts, with a first run at 0 or 1.

### TaskGraph: `task-graph-executor.ts` and `replanning-executor.ts`

`node`, `deps`, `status` are the persisted graph; the draft variables are the
graph that `validateGraph` was given; `path`, `todo` and `visited` are its
recursion: the ids whose `visit` is on the call stack (`visiting`), what each
has left to look at, and the set `visited`. `Decompose`, `Replan` and `Update`
are the three tools that change a graph. A call the code refuses before the
search is not an action, since it leaves no trace.

Lists are functions from ids to dependencies, so a list that repeats an id, which
the code refuses, has no representation; the truncation to 20 nodes and 8
dependencies has been applied to `Proposals` and `Branches`. The order in which
the search visits nodes is left open. `Decompose` is bounded to the case of a
finished (or no) plan. Calls come one after the other: the race for the row is
the subject of `WorkingState`. `agent.plan.status` only reads.

### AgentLoop and AgentRun: `agent-loop.ts`, `coding-agent-graph.ts`

`AgentLoop` is one call of `runAgentLoop`: every variable of it is a local
variable of that function, reset by `Begin`. `AgentRun` extends it with who calls it:
the interactive route and the worker call it once (`Direct`), the coding graph
goes through `Bootstrap`, `Execution`, `ReviewFixes` or `ReviewPasses`, and `Finalize`.

| Model | Code |
|---|---|
| `pc` | between turns, waiting for the model, the guard or a tool, between two calls of a turn |
| `used`, `seen`, `turns`, `unproductive` | `toolCalls`, `seenCalls`, `turns`, `unproductiveTurns` |
| `gen`, `validGen`, `repository`, `artifacts` | `mutationGeneration`, `validatedMutationGeneration`, the two pending sets |
| `nudged` | `evidenceNudges`, `alignmentNudges`, `validationNudges`, `completionNudges` (shared by two gates) |
| `deep`, `failures`, `rejected` | `reasoningMode`, `recentFailures.length`, `rejectedCalls`; the last two are only compared with 2, so they are counted until the mode is deep |
| `Holds`, `AskFor...`, `Wait`, `Block`, `AskGuard`, `Accept` | the gates in their order, and what each does |
| `Batchable`, `Request`, `Launch` | `canBatchReadOnly` and the promises started before the loop over the calls |
| `running`, `Orphans` | calls whose promise is open, and those of a batch that was given up |
| `Execute`, `OtherReturns`, `Mutation...`, `Check...` | a call and the segment after its result, by what the tool is for the loop |
| `Exit` | `break`, and the overrides after the loop |
| `log`, `started`, `approved`, `owed` | history: what succeeded in which order, what was given to the executor, the guard's consent, what the first execution left unvalidated |

Abstractions. The model may answer anything: one of the markers or none, an
empty text or one that complains of missing context, and any sequence of calls
in `Requests`; some of them may not be exposed in a turn (`Hidden`). Texts,
history, compaction, path hints, usage and the recovery hook only shape
what the model sees. The context is refreshed in some turns; here it may be in
any, and may fail. `answer = "none"` stands for the last text of the model, which the
code falls back to. A call's arguments are part of its identity, as in
`toolCallSignature`. `Paths` gives the artifacts of a call; `hashed` is the part of them that the
evidence of an inspection names. In a second execution the goal includes the
review, whose words may switch the mutation gate on. Checkpoints are written by LangGraph and
never resumed by this code; one that cannot be written half-way is left out.

`AccountableRun` says what a run promises without a counter, gate, batch or node: it acts, one effect at a time and none after a
cancellation; a change is open until a later check answers for it; at its end it says no more than what is open, demanded and
cancelled allows; a review passes only a claim with nothing open; there is one revision; a claim that was not passed
is withdrawn and not remembered. In `AgentRun` what is open is `Unbacked(log)`, what acts is what runs and is no read, what
was said is read from the stop reason, the state and the text (`Said`), and the stage from `phase` and `pc` (`StageOf`). `RefinesAccount` is
the mapping. `EffectsRunAlone`, `NoEffectAfterAbort` and `ReviewedOrDowngraded` say parts of it in the words of the model; the run
checks the account, and the three are theorems of their own. The account begins anew with each execution, as the code does (`agent_revision`).

### RecoveryPoint and MutationTransaction: `transactional-mutation-executor.ts`

`RecoveryPoint` says what anybody may expect of a recovery point, without saying how it is kept:
files may be written by everyone at any time; pre-images never change while the
point is open; restoring starts only over the point's own outputs, puts back pre-images
and nothing else, and ends only when every protected file is back. It promises nothing of the content of
a protected file that was captured a second time (`lost`): there the executor loses the original.
`MutationTransaction` is the executor, and `RefinesRecoveryPoint` the mapping.

| Model | Code |
|---|---|
| `work`, `AtHead` | the repository's files, and what git has of them; a content stands for its hash |
| `tx` | `validation_state.activeTransaction`: status, entries (`pre`, `post`), validation failures |
| `backup` | `.git/dacai-transactions/<id>`, written by `transaction-snapshot.mjs` |
| `Begin`, `FingerprintBefore`, `Mutate`, `FingerprintAfter` | `execute`: snapshot of new paths, hashes, the tool, hashes, the record |
| `Validate`, `Commit`, `AskRollback` | `observeValidation`, `code.transaction.commit` and an approving review, `code.transaction.rollback` |
| `Verify`, `Restore`, `RolledBack`, `CleanUp` | `rollback` with its guard, its loop and what follows |
| `plan`, `MakePlan`, `PlanTool` | `diffValidationPlan` of `diff-aware-validation-executor.ts`, which decides what a commit needs |
| `own`, `other` of a call | its paths, spelled as git does (`src/a.ts`) or otherwise (`./src/a.ts`, an absolute path) |
| `Noticed`, `respelled` | the comparison of hashes, by the call's own spelling; history: files of the transaction that were copied again |
| `gated` | backups for which the impact gate (`impact-aware-executor.ts`) has already answered |
| `Interrupt`, `UserEdit` | an abort or a crash; the user's editor |

How a diff is classed into gates is the constant `Needs`; `Tracked` separates files
whose content is in the fingerprint from those of which `git status` shows only the
name. `HasCopyTool` says whether the run's tool list holds `filesystem.copy`, which
decides how a rollback copies.

Spelling matters because the executor compares and looks up a path as the tool wrote it (only backslashes are
replaced), while `transaction-snapshot.mjs` normalises it, names the backup by the result and reports that. So a
path in another spelling is always new to the executor, is copied over a backup that is there, and has no hash before or after
the call. In `Begin` those paths (`other`) are copied again; `Noticed` sees `own` only. A snapshot of several paths may also
fail between two of them, with the first ones copied.

### WorkingState: the row of a run

`rowOf` is the row with the columns that a property can tell apart. `Spread` is
`saveWorkingState({...loaded})`: a loaded row has snake_case names, a saved one is
read in camelCase, so columns not named again are emptied and
`validation_state` is kept. `queue` is the promise chain of a tracker, which the loop does
not wait for; `FreshRecord` is one link of `RunStateTracker`, `ResumedLoad` and
`ResumedSave` of `ResumedRunStateTracker`. Any save may fail (`Throws`, counted by `thrown`). `RunStateTracker` catches
that and goes on, its copy ahead of the row, and so do `complete()` and `fail()`, which then return with the row unchanged; a failed
`rememberFailure` skips the save with the same effect. `ResumedRunStateTracker` passes it on: to nobody for an event, which ends the process
(`Crash`), and to the route for `complete()`, which calls `fail()` (`ResumedThrow`). `ToolThrow` is a tool's save, `RouteThrow`
one of the route's own last steps. `said` is the history of the last ending that was saved. A run whose very first save fails starts from the row `Blank` here; in the
code there is none, and the tools that look for one do nothing. `Load` with `KeepRecord`, `RecordReview`,
`CheckAcceptance` or `MarkInterrupted` is a tool, the guard, or the route; `KeepRecord` keeps the columns, as the impact gate does, or
empties them, as the others do. `EndLoop` and
`phase` are the route after the loop (`agent.ts`), `Crash` and `Resume` the end of the
process and `recoverInterruptedRun`. Two resumes at one time, and the reconciliation of plan nodes
that a crash had left in progress, are left out.

### Approvals, ModelRequests: what a run waits for

`Approvals`: `request` holds the promise of a call (`waiting` until its promise settles, with its
timer), `grants` is `approveAllRuns`, `client` the connection of a run's request, `over` the
runs that have called `clearRun`. `ModelRequests`: `at` is where a client is in its
turn, `line` and `inUse` are the semaphore's fields; `woken` is a waiter whose promise is resolved and
whose continuation has not run; until it has, its slot is not counted. Readers and a writer are
`executeParallelParticipants`, `Other` any other request.

### LiveValidation: `live-validation-safety-controller.ts` and the kill switch

`latch`, `members` are the switch; `making` the three steps of `create`, each
after an await; `action` how far `executeAction` has come; `activeCount`, `waiters` the fields
of that name. A stop runs in one piece up to its audit (`StopAll`, `OpenFails`) and
what goes on afterwards finds it there; `leaving` are the members that will unregister when
the audit is written. A restart removes the stop file, then clears the latch
(`BeginRestart`, `EndRestart`). The conditions of the circuit breakers (health, rates, addresses, durations)
are a stop at any time.

### MediaManager: `runpod-media-manager.ts`

`stage` is the await at which the single initialization waits, `looking` the same for
`monitorOnce`, `link` is `this.tunnel`, `startRequested`, `stopped` and `ready` are the
fields. `ssh` are the tunnel processes: `kill` is a request, `Exits` the listener
of the exit event, which clears `this.tunnel` whichever process that was. The pod, the
service on it and ssh itself are external. Modelled is the transport `ssh-tunnel` with
autostart.

### IndexRefresh: `incremental-index-refresh.ts` and `repository-store.ts`

| Model | Code |
|---|---|
| `disk`, `hashOf`, `symbolAt` | the files; the tables `repository_files` and `code_symbols` |
| `tail`, `told`, `target` | the promise chain `refreshTail`; what the mutation's result says of its refresh; the path it named |
| `Edit`, `ChangeElsewhere` | a mutation that goes through the executor; a shell command, git, a rollback or the user |
| `Walk`, `Plan` | `listSourceFiles` and `buildIndexPlan`: hashes, file by file, and the comparison with the table |
| `TakeFile`, `DeleteSymbols`, `DeleteHash`, `Insert`, `PutHash` | `dropFile` and `indexFile`: each statement is a step |
| `Refreshed`, `BreakOff`, `ServerEnds` | SEMANTIC_INDEX_REFRESHED; SEMANTIC_INDEX_STALE; the end of the process |

A version stands for a content and for its hash. The edges of a file come and go with its symbols, so they are
left out; a mutation names one path. One process is modelled: a second server, or an operator who
runs the indexer, is not in the queue. That the script which follows (`semantic-symbol-index.ts`) only declares its
functions is not a state of the model: run by itself it embeds nothing, although the result says
"New/replaced symbol rows were semantically enriched" (`semantic-index-refresh-executor.ts:294`), so
re-indexed symbols have no embeddings until `run-symbol-embeddings.ts` is run.

### ModelRouting: `provider-registry.ts` and `gpu-availability.ts`

| Model | Code |
|---|---|
| `setup` | routing policy, the instance of each alias, the instances that are enabled |
| `probing`, `found` | `inflight`, by the await at which it is, and what `/api/tags` answered |
| `cache`, `age` | `cached`, and the time since `cachedAt` |
| `asked` | a call of `resolveAlias` or `resolve`: the alias, where that lives (`home`), the alias and the instance that serve (`via`, `on`), its options |
| `AskFor`, `AskForRow`, `Test` | `resolveAlias` with `applyGpuPreference` and `assertPolicyAllows`; `resolve` for a task without an alias; the test of the model and what its catch falls back to |
| `Look`, `Account`, `Hear`, `Miss`, `Repair`, `SettleProbe` | a forced `evaluate`, and the steps of `probe` |
| `Pass` | time; an instant is no less than the limit of one look at the control plane (10 s of the 30 s that an answer is kept) |

`quiet` is a history of when the pod last named an alias, and `heard` what it was when a request was routed.
The three names are enough for both ways in which the code pairs aliases (`gpu_X` with `X`, `X` with `X_local`). The pod may have a
model of the name of any alias in `Installed`, wherever that alias lives. The instance `paid` stands for all that are neither local nor the GPU's;
it has no instance to fall back to, as those of Anthropic and OpenAI. What a test of a model says is arbitrary.

### Server: the parts side by side

The parts above share neither state nor messages in the models: what the
transaction and the row have in common is that tools run one after the other, and
each model allows for it. So a behaviour of `Server` is one of a single part,
chosen at the start (`part`); their product would multiply the states and show nothing
more. In a part that was not chosen no fair action is enabled (`MmOff` for the
manager, which otherwise begins to work at once), so the fairness of one adds nothing to another.
`MCServer` holds the values of the constants.

## 4. The runs

| Run | Question | Bounds | Result |
|---|---|---|---|
| `tq_restart` | crash and restart, rejected queries, lost heartbeats: is a task started once, is a reported result final, does `run` never have to wait, and is it all no more than the ledger? | 2 servers in turn, 2 tasks, cap 1, 2 slots | pass |
| `tq_shared` | two servers at one time: is only abandoned work interrupted, and does every task settle? | 2 servers, 1 task | pass |
| `tq_steal` | the same, `AtMostOneStart` | 2 servers, 1 task | violated |
| `tq_cancel` | is an acknowledged cancellation durable? | servers in turn, 1 task, no fault | violated |
| `sched_ticks` | one server, edits, faults: one task per period, every claim accounted for, every due run answered | period 2, horizon 3, 1 edit, 1 fault | pass |
| `sched_overlap` | two overlapping `claimDue` calls | no edit, no fault | violated |
| `plans` | is an accepted plan acyclic, never stuck, worked off in order, and is verified work kept when it is reopened or replanned? | every graph of 2 or 3 nodes, branches of 1 or 2 | pass |
| `agent_calls` | every caller: what does an accepted completion stand on, do budgets hold, do effects overlap, does every request end, and does the run account for what it did? | 3 turns, 3 calls, 7 tools, 1 artifact | pass |
| `agent_revision` | the coding graph: are the changes of the first execution accounted for? | the same | violated |
| `server` | transactions, row, approvals, model requests, live validation, media, index, routing: is what each promises kept, whatever comes between its steps? | below | pass |
| `rollback_copy` | does a rollback that reports success restore, with `filesystem.copy` in the tool list? | as `server` | violated |
| `resumed_review` | is what a resumed run edits reviewed before it is accepted? | as `server` | violated |

Why the bounds are enough. In the queue, conflicts are between two servers, or
between a server and one cancel request, over one row; a second row adds the
competition for the one slot of the cap. One slot more than
the cap is available, so that exceeding it could be seen. In the schedules a
period of 2 within 0..3 has a gap of exactly one period, one of less and one of
more; two invocations are a tick and the next, or a tick and run-now. Three ids
give every self-loop, two- and three-cycle, chain, fork and join; the diamond that a single set would
mistake for a cycle is already there with three (a chain with a shortcut).
In the loop, a change, its validation and the claim take three turns, or two if calls
share a turn; every gate that asks again does so once and then gives up; a
batch of two fits the budget of three, or exceeds what is left of it; the second execution
has its own three turns. `Patience` is the code's 2, with which an exhausted loop is always deep
already; smaller values are left to the proofs.

In `server`: two files, one of them not there at first, two contents and one gate give a
transaction that grows, a file created and one changed, or one that is named again in another spelling (`AnyCallFor`; the runs that look for a disagreement
use `CallsFor`, with git's spelling only), and evidence that another edit makes old; two
mutations, one edit of the user and one failing step or interruption are the least with which a second mutation
meets what the first left behind. In the row two events, two tools and one resume let
each writer come between another's load and save; two failing steps (`MaxThrown`) lose the save of an event or of a tool and then that of the end, or
`complete()` and then `fail()`. The runs that look for a disagreement elsewhere have `MaxThrown = 0`. Two runs with a call each show a grant that
reaches the wrong run, or outlives its own. One slot, a writer, two readers and another
client with two requests each wake, overtake and wake again. One controller with one slot and three
actions has one that drives, one that is woken and one that is queued; two stops and a
restart between them show a latch that is cleared too early. Two tunnel processes, one stop of
the pod, one failing call and one user's request let a new process meet the exit of an old one; the module was
also explored with three processes, and with three failing calls, two stops of the pod and two requests. Two files with two
contents, of which one has lost a symbol, two runs and one failing statement or crash give a refresh that
another edit overtakes and one that resumes a broken one; three changes were explored alone. One request beside the
server's own looks at the pod joins a probe that another began; answers are kept for one instant, and one look at the control plane
may make them one older; three placements have an alias with a twin on the pod, a paid model under a twin's name,
and an alias of the pod with a local twin. All 27 placements with all enabled instances and two instants were explored alone as far as
five minutes reach.

Some properties name what they leave out. `HashVouches` allows a file with a hash and no symbol: a deletion
that is broken off has removed the symbols and keeps the old hash, and if the old content comes back, the file is
never indexed again. It does not speak of files without a hash: symbols inserted before a
break stay when the file is then removed, since what has no hash is not dropped. `EvidenceIsCurrent` speaks of gates outside `astray` and
of moments that are not `blind`: a validation that runs before the plan is made again passes its gate for
the older plan. `StopReachesAll` leaves out controllers in `late`: `create` looks at the latch,
awaits the health and an audit, and then sets RUNNING without looking again.
`StopEndsTunnels` leaves out `erased`: the exit of an old process makes
the manager forget the new one, which its stop then cannot end. `Reconnects` presumes that
`startRequested` does not outlive its start: only an initialization that succeeds clears it, so when models
load slowly, the monitor finds the service healthy first and the flag stays; a pod that stops later is then
never started again. `RecoverableUnlessRespelled` leaves out the files in `respelled`, and `RecoveryPoint` lets anything be put back in
them: `RecoverableWhileActive`, which does not leave them out, is false (below). `EndIsRecorded` is about runs that end by themselves; of a cancelled run nothing is promised, since
a record that is still queued may write over 'interrupted'. It says that the last ending that was saved stays in the row, and that a row without one is of a run
in which a step failed: one rejected save of `complete()` leaves the row 'running' for ever while the client gets its answer.
`AcceptedIsReviewed` is about runs that were not resumed
(`fresh`) and of which an ending was saved, and holds for a reason worth knowing: the tracker's own copy never
contains the review and `complete()` writes it over the row, so such a run that
edited files is never reported as accepted, reviewed or not (`OnlyWithoutEdits`). Without a saved ending that
fails: a tool that hands on what it loaded has emptied `changed_files`, the save of `complete()` is lost, and the last check finds no changes
and something validated; a single lost save is enough.

### The disagreements

- **`tq_steal`.** The comment on `reconcile` says "two servers sharing a database
  cannot steal each other's live work". Its first UPDATE looks at the heartbeat;
  its second one (`task-runner.ts:213`) releases every queued row another runner has
  claimed, at any age. Server 1 claims a row and is loading its workspace; server 2 starts, releases it and
  claims it; both pass `run`'s check, since it looks for `cancelled` only, and the worker is started twice.
- **`tq_cancel`.** "Cancellation is durable". `run` re-reads the row, and then
  marks it `running` with an UPDATE that has no condition (`task-runner.ts:330`). A cancel
  request that commits in between is answered `cancelled: true`, and the task
  runs to its end and is recorded as completed.
- **`sched_overlap`.** The comment on `claimDue` relies on `FOR UPDATE SKIP LOCKED`;
  without a transaction the locks end with the SELECT
  (`task-schedule-store.ts:206`). Two ticks that overlap there create two tasks
  for one due time. `setInterval` does not wait for a slow tick, and two servers have two tickers.
- **`agent_revision`.** "Coding runs should validate successful mutations before
  TASK_COMPLETE" (`agent-loop.ts:138`). The counters that enforce it belong to one call of
  `runAgentLoop`. An execution that edits and then ends without validation
  (provider error, budget, no progress) sends the graph back once; the second execution
  starts at generation 0, validates what it changed itself, and the result
  is returned as complete and remembered as "Verified coding task completed". `ReviewedOrDowngraded`
  is therefore about the last execution only.
- **`rollback_copy`.** A rollback reports "Restored transaction-owned paths". It
  copies a backup with `filesystem.copy` through the executors it wraps; the impact gate among
  them treats that as an edit and answers the first call for a source with success
  and an impact report, without executing it (`transactional-mutation-executor.ts:1697`).
  Nothing is copied. Runs without the tool restore through the shell, as in `server`.
- **`resumed_review`.** A resumed run is told not to declare completion "until the
  normal acceptance, validation, review, and graph completion gates pass". Its tracker
  saves a loaded row, whose column names are not read back
  (`resumed-run-state-tracker.ts:149`); the next writer empties `changed_files`, and the last check, finding
  no changes, asks for no review.

Two more are described in `MutationTransaction` by properties that no run lists, since they are false of the code for the same
reason; TLC finds a counterexample of six states for each when it takes the place of the properties in `Server_parts.cfg`, with `Part = {"tx"}`:

- `RecoverableWhileActive`: "The original pre-image never changes" (`transactional-mutation-executor.ts:994`) and the tool's answer "Recovery point preserves the exact
  pre-transaction contents of:" (`:1129`). With `src/a.ts` in the transaction, a call that names `./src/a.ts` is new by
  comparison (`:746`), is copied, and the copy takes the place of the first, since the script names both alike. The entry keeps the
  hash of the original. A rollback copies the newer content back, and reports the path as restored.
- `FailedEditIsUndone`: "If a mutation tool reported failure but fingerprints prove it partially changed repository state, rollback
  immediately" (`:1086-1087`). For a path in another spelling no hash is found before or after (`:911`), so that the change counts as
  none: it is not recorded, nothing is rolled back, and a new transaction even removes the backup.

`tq_restart` and `sched_ticks` exclude exactly these schedules (servers in turn;
`OverlappingClaims = FALSE`) and show that nothing else breaks the properties.

### Deadlock

Deadlock is checked for `TaskQueue` and `TaskGraph`: a live server always has a
tick to make, and a plan can always be updated. The runs of `TaskSchedules` set
`CHECK_DEADLOCK FALSE`, since past the horizon, with nothing due, the model really stops.
So do the runs of `AgentRun`: a
run ends, and that it does is `RunEnds`; and those of `MCServer`, whose parts come to an end of
their bounds: every call has been answered, every action has ended.

### Fairness

- `TaskQueue`: an up server's ticker calls `reconcile` and `drainQueue` every
  20 s, each open promise goes on, a lapsed heartbeat is eventually seen as
  such, and a supervisor starts the next server. Workers end because turns and
  tools have budgets. Crashes, cancel requests, new tasks and failing queries are
  not fair; a crash of the last server is not considered.
- `TaskSchedules`: the ticker keeps calling, and each call goes on. Time need
  not pass.
- `AgentRun`: what a run awaits settles (`WF(Step)`): the model, a tool, the guard and the database
  answer or fail, since each has a timeout or an end of its own. The user need not leave, and the
  promises of a batch that was given up need not settle.
- `Approvals`: a request's timer fires. Nobody need answer.
- `ModelRequests`: a resolved promise is taken up, and a request to a provider ends, since each has
  a timeout. Clients need not ask.
- `MediaManager`: what is awaited settles; the monitor's interval keeps firing; a pod that was asked for
  starts, models load, and an ssh process connects or ends. Outages, drops and stops of the pod
  are bounded, so that `Reconnects` speaks of what follows the last of them.
- `ModelRouting`: the probe goes on, since each of its calls has a limit. Nobody need ask.
- `TaskGraph`, `MutationTransaction`, `WorkingState`, `LiveValidation` and `IndexRefresh` state no fairness: their properties are safety.

## 5. The proofs

For every value of the constants that satisfies the named assumptions of the modules.

**TaskQueue.** `TypeOK` is inductive with `SlotAssumption`. The worker limit needs
`ShapeInv`, which ties the program counters, jobs and rows of a process to each
other, and `RoomInv`: `inFlight` is the number of open promises, `active` the number of
promises that hold a slot, and while the drain loop asks for a row or hands one over, `inFlight` is below the cap. Then `CapRespected` and
`AcquireNeverWaits` follow: `run` never has to wait, so the hand-over of a
slot to a waiter (`task-runner.ts:300`), which would be counted late, does not happen. `OneClaimPerRow` shows that with servers in turn no two
live promises are about to start one row. `SoleInv` adds who may still write a row (`Engaged`): at most one promise,
which the row names, and the row is queued or cancelled until its worker starts and running or
cancelled while it works. So every other writer of the status (`StatusWriters`) leaves a reported or
cancelled row alone (`ReportsAreKept`, `CancelledStays`). For servers that run at one time, `OwnersInv` is
`OwnedRowsAreHeld` with what a server that was not started and a row that was not submitted
have, which is nothing: a row becomes queued or running for an owner only together with the claim or
promise that answers for it, and is let go of only by writing an outcome. `BeatInv` says that a
row whose worker runs under the owner it names has a fresh heartbeat and is not queued again,
hence `LiveWorkIsNotStolen`. Both assume that no query is rejected: an answer lost after its claim
committed leaves the row owned and forgotten, and a catch block whose UPDATE is rejected leaves it running.

`ImplementsLedger` is the refinement, for servers in turn. `WorkInv` adds to `SoleInv` that a promise which works, saves or fails has
started its row's worker if it is past that point, and that a catch block writes `failed` or `cancelled`. A row's hand is read from its one promise or claim
(`Place`, `PlaceOf`), and a step that moves one promise moves the hand of one row (`PlaceAfter`, `HandsMove`): that is where two promises for one row would
break it. A rejected query is a step of the ledger or none, since it committed or not. A crash lets go of
everything of its server at once, and with one server at a time that is everything (`LedgerCrash`); what `reconcile` then declares
interrupted is held by nobody (`AbandonedIsHeldByNobody`), and what it releases is free already.

**TaskSchedules.** The gap lemma (`NextRunGap`): `computeNextRun` answers a time after `now` and after the one it starts
from and, when that one is not later than `now`, at most a period after `now`. A run is a claimed due run wherever it is: with its task, still in a caller's
hands, or lost with it (`IsRun`). `Ahead`, `InOrder` and `Apart` say that the next run lies after
every run that was claimed, that a selected one lies a period after the last, and so any two a period from each other; `Chosen`, that only one call is
between its SELECT and its last UPDATE; `OnePlace`, that a run is in one of its places. `OncePerPeriod` follows.
`Counts` says that `run_count` is the number of claims, which only `Advance` enlarges, and gives
`RunCountExplained`. Both theorems assume that calls of `claimDue` do not overlap (`sched_overlap` shows them overlap); neither assumes a
finite set of schedules or callers.

**TaskGraph.** The accepted graph is acyclic because of the search, so the
invariant describes the search: `Chain`, the path is a path of the graph, without
repetition; `Explored`, what is visited has only visited dependencies and is acyclic on its own, and what
the top of the path has dealt with is visited. A new visited node then closes
no cycle, since everything it depends on was visited before it
(`AcceptedPlansAreAcyclic`); a dependency that is on the path closes the cycle that a
refusal reports (`RefusedPlansAreCyclic`). An acyclic graph has an incomplete node whose
dependencies are all complete, which gives `PlansAreNeverStuck`. `DraftInv` carries the guards of the tools through
the search, from which `DependenciesFinishFirst`, `OnlyReopening` and `CompletedWorkIsKept` follow.

**AgentRun.** `ClaimIsBacked` speaks of the calls in the order they succeeded; the code compares two numbers.
`Books` is the link: with `gen = validGen` every mutation in the log has a later
check that answers for it, and whatever lacks one is still pending, in the flag or in the set.
`Claims` carries through the gates what each has established, up to the
guard, which is awaited; `Reviews` carries the verdict to the end. For the
budgets, `Starts` says that the calls started are those seen and those of the
batch, and that both together fit; `Running`, that without an abort only calls of the batch that are still to be
awaited run beside the current one, so that a tool with effects, which is never in a
batch, is alone. `AbortIsFinal` needs no more than that a batch holds reads only.

`ImplementsAccount` puts these together: `AccInv` is `Books`, `Claims`, `Reviews`, `Starts` and `Running`, with `Held` (the effect that is
under way is the one awaited; only the graph finalises). One mutation more in the log opens exactly its call (`MutationOpens`), a passed
check opens none (`CheckCloses`), `gen = validGen` leaves none open (`NothingOpen`); `ActingIs` says that what acts is the awaited call, or nothing. Every
way out of the loop is then a `Conclude` whose word the account allows: `SaidStopped` for those that
label, `SaidAccepted` for the two that accept, where an abort in the meantime has turned the result into a cancellation.
`AccountableRun` has an inductive invariant of its own, `Even`: what its words are worth. `AccountsAreEven` proves it of the
account alone, and with the refinement it holds of every run (`RunsComeOutEven`).

**MutationTransaction.** Typing is shown in parts, one per group of variables. `OriginalsAreKept` needs to know where
the executor is: `Recoverable` adds to it that a call's snapshot is already in the
directory (`Copied`) and what the transaction is while the executor commits, restores and cleans up (`Doing`), for the directory is
removed only after the row has forgotten the transaction. `Evidence` is
`EvidenceIsCurrent` in a form that steps preserve: a plan that was made again drops what another diff had passed.
A snapshot adds copies to the directory and puts the second copy of a protected file among the `respelled` (`BeginCopies`), so the invariant
speaks of the others, and it needs no assumption on how calls spell their paths.
`ImplementsRecoveryPoint` maps every step of the executor without the copy tool to a step or a
stutter of `RecoveryPoint!Next`; a restore is one by one, which needs
`OriginalsAreKept`, since what is copied is the directory's content and what is promised is the pre-image, but for the
files in `lost`.

**WorkingState.** Typing (`WsTypeCorrect`) needs the bounds of its counters (`Short`). `WsInv` has four parts: `RowTyped`; `EndsLast`, the queue holds an ending
only as its last operation, and only while the route waits for it; `EndingKept`, while an ending has been saved (`said`) the
row has it, and so does whatever was loaded from it, and where none has been saved a step has failed; `TrackerCopied`, in a run that was not resumed the tracker's
copy together with what is queued contains every unreviewed file, and has no
review; and once an ending was saved the row is that copy. From `EndsLast` nothing is written after the end but by the last check
or by `fail()`, so the last check reads the tracker's copy. Any number of saves may fail (`MaxThrown` is any number).

**Approvals** and **ModelRequests.** `Consented`: an approved or granted call has been consented to, unless single-operator mode is on, and so has every call
that a standing grant will let through. `Counted` ties the semaphore's counter to the clients (`inUse` is
how many are active) and its queue to those that wait, each once; `OverrunExplained` follows by arithmetic
on the three places that change the counter or the woken ones. `NoWakingIsLost` is the other side of it: the sum of those two
falls below the limit only when nobody waits.

**LiveValidation.** `LvInv` has `Known` (who is running is a member of the switch or leaving it), `Latched` (with the switch on, nobody but `late`
controllers runs), `Told` (who drives is under a running controller or has been aborted), `Line` (the queue and
those queued are the same, each once) and `Count` (`activeCount` is how many hold a slot). `StopsAreHeard` and `QueuesAreServed` follow; that the count never
goes below zero is part of `LvTypeCorrect`.

**MediaManager.** `Accounted`: a running process is the one held or was erased by an older one's exit, and
after a stop none is held. `StopEndsAll` follows. `MmInv` is this with the types, in a form that is also kept by a
manager that was stopped before it began.

**IndexRefresh.** `Stored` types the tables and the scan; `Vouched` is `HashVouches` with the step in which its file is
under way: once its symbols are deleted it has none, and while new ones are inserted it has no hash, and no symbol
of another version. `Queued` says that the queue and the runs that wait are the same, each once. `Current` follows the
edit of a waiting run: as long as its refresh has not begun nothing is asked of the index; once the walk
has passed the file, its hash, what was seen, or what was read of it is one that the file had since the
edit. `FreshMeansCurrent` is the step that empties `left`.

**ModelRouting.** `Heard` types the state and bounds the answers: what a settling probe found was said less than two
instants ago (its look at the control plane takes no longer), so what is kept and fresh was said at most `age + 1` ago. `RoutedWell` is the
case analysis of `resolveAlias`: the alias that serves is the one asked for, its local twin, or its twin on the pod for a reason. With it each
step that routes keeps `RunsWhereItMay`, and `OneMoves` carries it over to the other requests.

**Server.** `OnePartSteps`: a step of the composition is a step of one part and a stutter of each other. So each part keeps
the specification it was proved about (`PartsKeepTheirSpecs`), and with it its invariants (`PromisesKept`) and types
(`ServerTypeCorrect`). The media manager is the exception: where it was not chosen it begins stopped, which is not
a state in which `MmSpec` begins, so its invariant is shown of the composition itself (`MmOffHoldsNothing`, `MediaKept`).

Only model-checked: liveness (`EveryTaskSettles`, `EveryDueRunIsAnswered`, `RunEnds`, `NobodyWaitsForever`, `Reconnects`), which the
prover does not reach; of the waiting it reaches the safe half, that whoever waits waits behind somebody (`QueuesAreServed`, `NoWakingIsLost`).
Every other property of a passing run is a theorem.

## 6. What is not modelled

Steps 10 to 12 of the plan. Beyond the plan: what a model answers, what a tool
computes, the text of prompts and reports; the completion manifest and the analysing
executors, which are sequential functions from text patterns to verdicts; the
adapters of the providers, retrieval, market, investor and smart-contract packages, which
are sequential extraction and scoring; the web interface; operator scripts. They are
most of the repository's lines, and hold little state that two steps could disagree about: a
model of them would repeat the code rather than abstract from it.

Known hazards that no property covers:

- a run whose budget is spent while it is IN_PROGRESS is recorded as a completed task (`routes/tasks.ts:342`):
  `TaskQueue` takes a worker's verdict as it comes, and no document says what the row should hold;
- a repeated call is refused although the repository has changed since (`agent-loop.ts:1032`): `AgentLoop` does it, and
  what is lost, a test that cannot be repeated verbatim, is not something the loop promises;
- a second crash between a resume and the reconciliation replaces the list of interrupted nodes (`run-resume.ts:342`),
  and two resumes may be under way at one time (`run-resume.ts:322`): `WorkingState` has one resume at a time;
- an error of a worker is written over a cancellation that another server has acknowledged (`task-runner.ts:359`):
  `tq_cancel` shows the nearer case on one server;
- a schedule's `enabled` and `next_run_at` are written from what was read before (`task-schedule-store.ts:220`):
  `TaskSchedules` has the edit between SELECT and UPDATE, but no property about what the edit asked for.
- a fresh run's tracker erases what a tool recorded of an environment's issue, so that the recovery it may apply answers
  that there is none (`environment-recovery-executor.ts:1014`, `run-state-tracker.ts:107`), and two issues in turn reset the
  count of attempts (`environment-recovery-executor.ts:858`): the executor is not modelled;
- a test of a model that one caller aborts is shared by others and stored as an answer (`provider-registry.ts:192`), and clearing the
  store does not end a test under way (`provider-registry.ts:216`): in `ModelRouting` a test says anything;
- two overlapping repairs of the tunnel to the pod may each start a process (`runpod-service.ts:219`): `RunpodService` is step 11.
- an application whose process lives but does not answer is started a second time, and the receipt of the first is written over, so
  that it can no longer be stopped (`scripts/local-app-lifecycle.mjs:1013`); two overlapping calls, or one that is killed between the
  spawn and the receipt, leave such a process too: step 11.
