------------------------ MODULE MutationTransaction ------------------------
(***************************************************************************)
(* A run's edits of the repository, protected by a recovery point          *)
(*   apps/server/src/transactional-mutation-executor.ts                    *)
(*   scripts/transaction-snapshot.mjs (run through shell.run)              *)
(*   apps/server/src/diff-aware-validation-executor.ts, which it wraps     *)
(*   and the gate before an edit of impact-aware-executor.ts.              *)
(*                                                                         *)
(* The tools of one run follow one another; between any two steps the user *)
(* may edit a file, and the run may be interrupted: by an abort, which     *)
(* rejects the step that waits, or by the end of the process.  A content   *)
(* stands for its own hash; Absent is a file that is not there.  A tool    *)
(* may spell a path as git does or otherwise (./x, an absolute path): the  *)
(* scripts understand both, the executor's comparisons only the first.     *)
(* The other writers of the run's row are the subject of WorkingState; how *)
(* a change is classed, and which gates it needs, are constants and        *)
(* choices here.                                                           *)
(***************************************************************************)
EXTENDS Integers, FiniteSets

CONSTANTS
  Path, Content, Absent,
  AtHead,       \* the contents at HEAD
  Gate, Needs,  \* the gates a change of a path asks for (makePlan's categories)
  Tracked,      \* the paths git diff shows; of the others git status shows the name
  HasCopyTool,  \* does the run's tool list hold filesystem.copy?
  Targets,      \* bound: the paths that one mutation may name, spelled as git does or otherwise
  UserEdits,    \* bound: the edits a user may make, <<step of the run, path, content>>
  MaxCalls, MaxEdits, MaxFaults  \* bounds: mutations, edits of the user, failing steps

Value == Content \cup {Absent}

ASSUME AbsentAssumption == Absent \notin Content
ASSUME LimitAssumption == {MaxCalls, MaxEdits, MaxFaults} \subseteq Nat /\ Targets \subseteq [own : SUBSET Path, other : SUBSET Path]
ASSUME WorkAssumption == AtHead \in [Path -> Value] /\ Needs \in [Path -> SUBSET Gate]

VARIABLES
  work,      \* the files
  tx,        \* validation_state.activeTransaction
  backup,    \* the files of .git/dacai-transactions/<id>, for the id in use
  gated,     \* paths whose backup, as an edit's target, has passed the impact gate
  plan,      \* validation_state.diffValidationPlan
  pc,        \* "idle", or what the run does next
  call,      \* the mutation being executed
  todo,      \* entries that rollback has not restored yet
  calls, edits, faults, \* bounds: what has been used
  \* history
  ran,       \* the contents on which a gate has passed
  astray,    \* gates passed while the plan was not about the files as they were
  blind,     \* have files changed since the plan was built that it was not told of?
  touched,   \* files edited by the user since the rollback verified them
  respelled  \* files of the transaction that were copied again, for another spelling of their path

row    == <<tx, plan>>
mem    == <<pc, call, todo, gated>>
used   == <<calls, edits, faults>>
ghosts == <<ran, astray, blind, touched, respelled>>
txVars == <<work, backup, row, mem, used, ghosts>>

Nothing == [p \in {} |-> Value]
Over(f, g) == [p \in DOMAIN f \cup DOMAIN g |-> IF p \in DOMAIN f THEN f[p] ELSE g[p]]
Partial == UNION {[P -> Value] : P \in SUBSET Path}
Empty   == [p \in Path |-> Absent]

NoTx   == [status |-> "none", pre |-> Nothing, post |-> Nothing, failures |-> 0]
NoCall == [own |-> {}, paths |-> {}, snap |-> Nothing, before |-> Nothing, ok |-> TRUE]
\* activeTransaction: any other status protects nothing.
Active   == tx.status \in {"active", "rollback_recommended"}
Existing == IF Active THEN tx ELSE NoTx
Replaced == IF Active THEN respelled ELSE {}
At(P)    == [p \in P |-> work[p]]

-----------------------------------------------------------------------------
(* The plan of validation: its gates are reset when the diff has changed. *)

NoPlan == [fp |-> Nothing, gates |-> {}, passed |-> {}]
\* git status --short and git diff HEAD: contents of tracked files, names of the others.
Shown(w) == [p \in Path |-> IF p \in Tracked \/ w[p] = Absent THEN w[p] ELSE CHOOSE c \in Content : TRUE]
Needed(w) == UNION {Needs[p] : p \in {q \in Path : w[q] # AtHead[q]}}
Same == plan.fp = Shown(work)

\* Mutant: evidence is kept whatever the diff has become.
MakePlanKeeping(w) == [fp |-> Shown(w), gates |-> Needed(w), passed |-> plan.passed \cap Needed(w)]
\* makePlan: evidence is kept for the same diff only.
MakePlan(w) == [fp |-> Shown(w), gates |-> Needed(w),
                passed |-> IF plan.fp = Shown(w) THEN plan.passed \cap Needed(w) ELSE {}]

\* buildPlan for the files as the step leaves them, or git fails and the plan goes stale.
Rebuild(w) == plan' = MakePlan(w) /\ blind' = FALSE /\ UNCHANGED faults
Fault      == faults < MaxFaults /\ faults' = faults + 1
NoRebuild  == Fault /\ blind' = TRUE /\ UNCHANGED plan

\* The tool code.validation.plan.
PlanTool == /\ pc = "idle"
            /\ Rebuild(work) \/ NoRebuild
            /\ UNCHANGED <<work, tx, backup, mem, calls, edits, ran, astray, touched, respelled>>

-----------------------------------------------------------------------------
(* execute: a mutation. *)

\* Files that are there are copied before anything happens, unless the transaction knows their
\* path, as it is spelled, already; a copy takes the place of an older one.  The copying may
\* fail on the way.  A new transaction has a new id, and so an empty directory and backups
\* nobody has reviewed.
Begin(t) ==
  LET new == (t.own \ DOMAIN Existing.pre) \cup t.other
  IN /\ pc = "idle" /\ calls < MaxCalls
     /\ calls' = calls + 1
     /\ \E done \in SUBSET new :
          /\ backup' = Over(At({p \in done : work[p] # Absent}), IF Active THEN backup ELSE Empty)
          /\ respelled' = Replaced \cup (done \cap DOMAIN Existing.pre)
          /\ \/ /\ done = new /\ pc' = "before"
                /\ call' = [NoCall EXCEPT !.own = t.own, !.paths = t.own \cup t.other, !.snap = At(new)]
                /\ UNCHANGED faults
             \/ Fault /\ UNCHANGED <<pc, call>>
     /\ gated' = IF Active THEN gated ELSE {}
     /\ UNCHANGED <<work, row, todo, edits, ran, astray, blind, touched>>

\* The call is over; what it had read is dropped.
Return == pc' = "idle" /\ call' = NoCall

\* The hashes just before; when they cannot be had, nothing is executed.
FingerprintBefore ==
  /\ pc = "before"
  /\ \/ pc' = "mutate" /\ call' = [call EXCEPT !.before = At(call.paths)] /\ UNCHANGED faults
     \/ Return /\ Fault
  /\ UNCHANGED <<work, backup, row, todo, gated, calls, edits, ghosts>>

\* The files after a tool wrote some of the call's paths.
Written == {w \in [Path -> Value] : \A p \in Path \ call.paths : w[p] = work[p]}

\* The tool writes, or says it could not after writing some; only a success rebuilds the
\* plan.  Or the impact gate answers in its place: success, and nothing executed.
Mutate ==
  /\ pc = "mutate" /\ pc' = "after"
  /\ \/ /\ work' \in Written /\ call' = [call EXCEPT !.ok = TRUE]
        /\ Rebuild(work') \/ NoRebuild
     \/ /\ work' \in Written /\ call' = [call EXCEPT !.ok = FALSE]
        /\ blind' = (blind \/ work' # work)
        /\ UNCHANGED <<plan, faults>>
     \/ UNCHANGED <<work, plan, blind, call, faults>>
  /\ UNCHANGED <<tx, backup, todo, gated, calls, edits, ran, astray, touched, respelled>>

\* Mutant: the outputs of older entries are forgotten.
RecordedCallOnly(unread) ==
  [status |-> "active", failures |-> Existing.failures,
   pre |-> Over(Existing.pre, call.snap), post |-> At(call.paths)]
\* The record of the call: new entries keep what was copied, old ones their pre-image;
\* every entry's output is what its file holds now, or what it was when it cannot be read.
Recorded(unread) ==
  [status |-> "active", failures |-> Existing.failures,
   pre  |-> Over(Existing.pre, call.snap),
   post |-> [p \in DOMAIN Existing.pre \cup DOMAIN call.snap |->
               IF p \in unread THEN Existing.post[p] ELSE work[p]]]

\* Mutant: the directory goes although older entries need it.
DirectoryUnused == {Empty, backup}
\* A new transaction's directory is removed when nothing changed, which may fail unseen.
DirectoryIfUnchanged == IF Active THEN {backup} ELSE {Empty, backup}

\* A hash is looked up by the path as the call spells it, and found for git's spelling only.
Noticed == \E p \in call.own : work[p] # call.before[p]

\* The hashes just after.  A change that is noticed is recorded, and undone at once when the
\* tool had failed.
FingerprintAfter ==
  /\ pc = "after"
  /\ \/ /\ Noticed
        /\ \E unread \in SUBSET (DOMAIN Existing.pre \ call.paths) :
              /\ tx' = Recorded(unread)
              /\ IF unread = {} THEN UNCHANGED faults ELSE Fault
        /\ pc' = IF call.ok THEN "idle" ELSE "verify"
        /\ call' = NoCall
        /\ UNCHANGED backup
     \/ /\ ~Noticed
        /\ backup' \in DirectoryIfUnchanged
        /\ Return
        /\ UNCHANGED <<tx, faults>>
     \/ Return /\ Fault /\ UNCHANGED <<tx, backup>>
  /\ UNCHANGED <<work, plan, todo, gated, calls, edits, ghosts>>

-----------------------------------------------------------------------------
(* observeValidation, commit, rollback. *)

\* A check has run: its gate is marked, and a failure that names the transaction's files
\* counts; a second one rolls back, unless the change is classed as fast.
Validate(g, passes, names, fast) ==
  LET failures == IF Active /\ ~passes /\ names THEN tx.failures + 1 ELSE tx.failures
  IN /\ pc = "idle" /\ (names => Active /\ ~passes /\ tx.failures < 2)
     /\ plan' = IF g \notin plan.gates THEN plan
                ELSE [plan EXCEPT !.passed = IF passes THEN @ \cup {g} ELSE @ \ {g}]
     /\ IF g \in plan'.passed
        THEN ran' = [ran EXCEPT ![g] = work] /\ astray' = IF Same THEN astray \ {g} ELSE astray \cup {g}
        ELSE ran' = [ran EXCEPT ![g] = AtHead] /\ astray' = astray \ {g}
     /\ tx' = IF failures = tx.failures THEN tx
              ELSE [tx EXCEPT !.failures = failures, !.status = "rollback_recommended"]
     /\ pc' = IF names /\ failures >= 2 /\ ~fast THEN "verify" ELSE "idle"
     /\ UNCHANGED <<work, backup, call, todo, gated, used, blind, touched, respelled>>

\* code.transaction.commit, and a review that approves: refused while a gate is open.
Commit ==
  /\ pc = "idle" /\ Active /\ plan.gates \subseteq plan.passed
  /\ tx' = NoTx
  /\ pc' = "committed"
  /\ UNCHANGED <<work, plan, backup, call, todo, gated, used, ghosts>>

\* code.transaction.rollback.
AskRollback == /\ pc = "idle" /\ Active /\ pc' = "verify"
               /\ UNCHANGED <<work, row, backup, call, todo, gated, used, ghosts>>

GiveUp == tx' = [tx EXCEPT !.status = "rollback_failed"] /\ pc' = "idle"

\* Mutant: a file that has gone is no conflict.
SafeIfThere == \A p \in DOMAIN tx.post : work[p] \in {Absent, tx.post[p]}
\* verify: every file still holds the transaction's output.
Safe == \A p \in DOMAIN tx.post : work[p] = tx.post[p]

\* Nothing is restored otherwise.
Verify ==
  /\ pc = "verify"
  /\ \/ Safe /\ pc' = "restore" /\ todo' = DOMAIN tx.pre /\ touched' = {}
        /\ UNCHANGED <<tx, faults>>
     \/ ~Safe /\ GiveUp /\ UNCHANGED <<todo, touched, faults>>
     \/ pc' = "idle" /\ Fault /\ UNCHANGED <<tx, todo, touched>>
  /\ UNCHANGED <<work, plan, backup, call, gated, calls, edits, ran, astray, blind, respelled>>

\* A backup is copied back by the tool that edits files: the impact gate answers the first
\* call for this source, and the tool copies onto no file that is there.
CopyTool(p) ==
  \/ p \notin gated /\ gated' = gated \cup {p} /\ todo' = todo \ {p} /\ UNCHANGED <<work, tx, pc>>
  \/ p \in gated /\ work[p] # Absent /\ GiveUp /\ UNCHANGED <<work, todo, gated>>
  \/ p \in gated /\ work[p] = Absent
     /\ work' = [work EXCEPT ![p] = backup[p]] /\ todo' = todo \ {p} /\ UNCHANGED <<tx, pc, gated>>

\* By the shell: Copy-Item -Force, or Remove-Item for a file that was not there before.
Shell(p) == /\ work' = [work EXCEPT ![p] = IF tx.pre[p] = Absent THEN Absent ELSE backup[p]]
            /\ todo' = todo \ {p}
            /\ UNCHANGED <<tx, pc, gated>>

\* Entries are restored one by one (the code goes through them backwards; here in any
\* order); the first that fails ends the transaction's protection.
Restore(p) ==
  /\ pc = "restore" /\ p \in todo
  /\ \/ (IF HasCopyTool /\ tx.pre[p] # Absent THEN CopyTool(p) ELSE Shell(p)) /\ UNCHANGED faults
     \/ GiveUp /\ Fault /\ UNCHANGED <<work, todo, gated>>
  /\ blind' = (blind \/ work' # work)
  /\ UNCHANGED <<plan, backup, call, calls, edits, ran, astray, touched, respelled>>

RolledBack ==
  /\ pc = "restore" /\ todo = {}
  /\ tx' = NoTx
  /\ pc' = "rolledBack"
  /\ UNCHANGED <<work, plan, backup, call, todo, gated, used, ghosts>>

\* Afterwards the directory is removed, which may fail unseen, and a rollback has the plan
\* made again.
CleanUp ==
  /\ pc \in {"committed", "rolledBack"} /\ pc' = "idle"
  /\ backup' \in {Empty, backup}
  /\ IF pc = "rolledBack" THEN Rebuild(work) \/ NoRebuild ELSE UNCHANGED <<plan, blind, faults>>
  /\ UNCHANGED <<work, tx, call, todo, gated, calls, edits, ran, astray, touched, respelled>>

-----------------------------------------------------------------------------
\* An abort or a crash: a mutation may be half done, and a new process has reviewed nothing.
Interrupt ==
  /\ pc # "idle" /\ Return /\ Fault
  /\ work' \in IF pc = "mutate" THEN Written ELSE {work}
  /\ blind' = (blind \/ work' # work)
  /\ gated' \in {gated, {}} /\ todo' = {}
  /\ UNCHANGED <<row, backup, calls, edits, ran, astray, touched, respelled>>

\* The user edits a file.
UserEdit(p, v) ==
  /\ edits < MaxEdits /\ edits' = edits + 1 /\ <<pc, p, v>> \in UserEdits
  /\ v # work[p] /\ work' = [work EXCEPT ![p] = v]
  /\ blind' = TRUE
  /\ touched' = touched \cup {p}
  /\ UNCHANGED <<backup, row, mem, calls, faults, ran, astray, respelled>>

-----------------------------------------------------------------------------
TxInit ==
  /\ work = AtHead /\ tx = NoTx /\ backup = Empty /\ gated = {} /\ plan = NoPlan
  /\ pc = "idle" /\ call = NoCall /\ todo = {}
  /\ calls = 0 /\ edits = 0 /\ faults = 0
  /\ ran = [g \in Gate |-> AtHead] /\ astray = {} /\ blind = FALSE /\ touched = {} /\ respelled = {}

TxNext ==
  \/ \E t \in Targets : Begin(t)
  \/ FingerprintBefore \/ Mutate \/ FingerprintAfter \/ PlanTool
  \/ \E g \in Gate, passes, names, fast \in BOOLEAN : Validate(g, passes, names, fast)
  \/ Commit \/ AskRollback \/ Verify \/ RolledBack \/ CleanUp \/ Interrupt
  \/ \E p \in Path : Restore(p)
  \/ \E p \in Path, v \in Value : UserEdit(p, v)

TxSpec == TxInit /\ [][TxNext]_txVars

-----------------------------------------------------------------------------
TxTypeOK ==
  /\ work \in [Path -> Value] /\ backup \in [Path -> Value]
  /\ tx \in [status : {"none", "active", "rollback_recommended", "rollback_failed"},
             pre : Partial, post : Partial, failures : 0..2]
  /\ DOMAIN tx.pre = DOMAIN tx.post /\ (tx.status = "none" => tx = NoTx)
  /\ plan \in [fp : Partial, gates : SUBSET Gate, passed : SUBSET Gate] /\ plan.passed \subseteq plan.gates
  /\ pc \in {"idle", "before", "mutate", "after", "verify", "restore", "committed", "rolledBack"}
  /\ call \in [own : SUBSET Path, paths : SUBSET Path, snap : Partial, before : Partial, ok : BOOLEAN]
  /\ todo \subseteq Path /\ gated \subseteq Path /\ touched \subseteq Path /\ respelled \subseteq Path
  /\ ran \in [Gate -> [Path -> Value]] /\ astray \subseteq Gate /\ blind \in BOOLEAN
  /\ calls \in 0..MaxCalls /\ edits \in 0..MaxEdits /\ faults \in 0..MaxFaults

\* As long as a transaction is active, whatever was interrupted or failed, the directory
\* holds the original of every file that it changed, unless a call spelled the path otherwise
\* and had the file copied again: rollback has what it needs for all the others.
RecoverableUnlessRespelled ==
  Active => \A p \in DOMAIN tx.pre \ respelled : tx.pre[p] # Absent => backup[p] = tx.pre[p]

\* "Recovery point preserves the exact pre-transaction contents of:" every file of the active
\* transaction, however its path was spelled (transactional-mutation-executor.ts:1129).  False of the
\* code: of what follows a second spelling nothing is promised above.
RecoverableWhileActive ==
  Active => \A p \in DOMAIN tx.pre : tx.pre[p] # Absent => backup[p] = tx.pre[p]

\* "If a mutation tool reported failure but fingerprints prove it partially changed repository
\* state, rollback immediately": a failed tool's change, read by the fingerprint just after, is
\* never passed over (transactional-mutation-executor.ts:1086).  False of the code for a path in
\* another spelling.
FailedEditIsUndone ==
  [][FingerprintAfter /\ ~call.ok /\ At(call.paths) # call.before /\ UNCHANGED faults
       => pc' = "verify"]_txVars

\* What lets a patch be reviewed and committed is about this patch: unless files changed
\* behind its back, the plan is of the files as they are; and then a gate that stands
\* passed ran on this diff, or ran while the plan was of another.
EvidenceIsCurrent ==
  /\ plan # NoPlan /\ ~blind => Same
  /\ Same => \A g \in plan.passed \ astray : Shown(ran[g]) = Shown(work)

\* "Restored transaction-owned paths": when a rollback reports success, each file of the
\* transaction holds its original again, or what the user wrote meanwhile.
RollbackRestores ==
  [][RolledBack => \A p \in DOMAIN tx.pre : work[p] = tx.pre[p] \/ p \in touched]_txVars

\* The executor keeps the promises of a recovery point, which a rollback restores.
Phase ==
  CASE tx.status = "rollback_failed" -> "abandoned"
    [] tx.status = "none"            -> "none"
    [] Active                        -> IF pc = "restore" THEN "restoring" ELSE "open"
PutBack == IF Active /\ pc = "restore" THEN DOMAIN tx.pre \ todo ELSE {}

RP == INSTANCE RecoveryPoint WITH captured <- call.snap, phase <- Phase, restored <- PutBack,
                                  pre <- Existing.pre, out <- Existing.post,
                                  lost <- Replaced

\* Whatever edits, failures and interruptions come between the steps, without the tool that
\* copies files the executor is a recovery point: recorded originals never change, a rollback
\* starts only over the transaction's own outputs, restores originals only, except where a file
\* was copied again for another spelling of its path, and succeeds only when all are done.
RefinesRecoveryPoint == RP!Spec
=============================================================================
