----------------------------- MODULE AgentLoop -----------------------------
(***************************************************************************)
(* The provider-neutral agent loop                                         *)
(*   packages/agent-core/src/agent-loop.ts (runAgentLoop)                  *)
(*   packages/agent-core/src/runtime-state.ts                              *)
(* from the first turn to the result: requests to the model, the gates     *)
(* before a final answer, tool calls one by one or as a read-only batch,   *)
(* validation of what was changed, budgets and abort.                      *)
(*                                                                         *)
(* A Call is a signature: a tool with its arguments.  A model's response   *)
(* is a kind of text or a sequence of calls.  What is sent to the model    *)
(* (prompts, history, compaction) is left out: the model may answer        *)
(* anything at any time.                                                   *)
(***************************************************************************)
EXTENDS Integers, FiniteSets, Sequences

CONSTANTS
  Call, Kind,   \* signatures, and what their tool is
  Artifact,
  Paths,        \* the artifacts a call makes or inspects
  Requests,     \* bound: the sequences of calls a response may ask for
  Hidden,       \* bound: calls whose tool may not be exposed in a turn
  MaxTurns, MaxToolCalls,
  Patience,     \* maxUnproductiveTurns
  Limit         \* how often a gate may ask again

\* What the loop tells apart: a read that may join a batch, an edit of the repository, the
\* making of artifacts, a test or diagnostic, an inspection of artifacts, any other tool.
Kinds    == {"read", "write", "make", "test", "inspect", "other"}
Mutation == {"write", "make"}
Check    == {"test", "inspect"}

\* What a response that asks for no tool says: one of the markers, or none.
Content == {"plain", "complete", "blocked", "waiting"}

\* The loop's options, as far as its control depends on them.
Option == [signal : BOOLEAN,       \* completionSignalRequired
           validate : BOOLEAN,     \* requireValidationAfterMutation, with tools for it
           mutate : BOOLEAN,       \* mutationRequiredByGoal
           guard : BOOLEAN,        \* a completionGuard is given
           refresh : BOOLEAN,      \* a contextProvider is given
           evidence : SUBSET (Call \ Hidden), \* calls that meet evidenceRequirement
           operational : BOOLEAN,  \* the goal acts on the live system
           graph : BOOLEAN]        \* the caller is the coding graph

\* The gates a proposed answer passes, in this order; Limit holds the bounds of
\* those that ask again, "guard" and "signal" on one counter.
Gate == <<"evidence", "alignment", "waiting", "blocked", "mutation", "validation", "signal",
          "guard">>
Counter == {"evidence", "alignment", "validation", "completion"}

ASSUME CallAssumption == IsFiniteSet(Call) /\ Kind \in [Call -> Kinds] /\ Paths \in [Call -> SUBSET Artifact]
ASSUME RequestAssumption == Requests \subseteq Seq(Call) \ {<<>>} /\ Hidden \subseteq Call
ASSUME BoundAssumption ==
  /\ MaxTurns \in Nat \ {0} /\ MaxToolCalls \in Nat \ {0} /\ Patience \in Nat \ {0}
  /\ Limit \in [{"evidence", "alignment", "validation", "signal", "guard"} -> Nat]

VARIABLES
  options, aborted,
  pc,        \* "idle" | "turn" | "model" | "guard" | "calls" | "tool" | "done"
  turns, used,          \* turns and toolCalls
  seen, queue, hidden, batch, \* seenCalls; the turn's calls, those not exposed, those started early
  executed, unproductive, \* executedThisTurn > 0; unproductiveTurns
  deep, failures, rejected, \* reasoningMode = 'deep'; until then, recentFailures and rejectedCalls
  gen, validGen,        \* mutationGeneration, validatedMutationGeneration
  repository, artifacts, \* pendingRepositoryValidation, pendingEngineeringArtifacts
  evidence,             \* has a required tool succeeded?
  nudged,               \* how often each gate has asked again
  stop, completion,     \* stopReason, completionState
  answer,               \* the proposal that ended the loop; "none" for the last text said
  running,              \* calls whose promise has not settled
  \* history
  log,                  \* successful mutations and passed validations, in order
  started,              \* how often each call was given to the executor
  approved              \* has the guard accepted the answer?

turn    == <<seen, queue, hidden, batch, executed, used>>
mood    == <<unproductive, deep, failures, rejected>>
checks  == <<gen, validGen, repository, artifacts, evidence, log>>
result  == <<stop, completion, answer, approved>>
calls   == <<running, started>>

StopReason == {"none", "final-answer", "max-turns", "cancelled", "provider-error",
               "no-progress", "tool-budget"}
State      == {"IN_PROGRESS", "GOAL_COMPLETE", "VERIFICATION_COMPLETE", "WAITING_FOR_USER",
               "BLOCKED", "CANCELLED", "HARD_BUDGET_EXHAUSTED", "FAILED"}
Entry      == [call : Call, hashed : SUBSET Artifact]

ControlTyped ==
  /\ options \in Option /\ aborted \in BOOLEAN
  /\ pc \in {"idle", "turn", "model", "guard", "calls", "tool", "done"}
  /\ pc = "tool" => queue # <<>>
TurnTyped ==
  /\ turns \in 0..MaxTurns /\ used \in 0..MaxToolCalls /\ unproductive \in 0..Patience
  /\ seen \subseteq Call /\ queue \in Seq(Call) /\ hidden \subseteq Hidden /\ batch \subseteq Call
  /\ executed \in BOOLEAN
MoodTyped == deep \in BOOLEAN /\ failures \in 0..2 /\ rejected \in 0..1
ChecksTyped ==
  /\ gen \in Nat /\ validGen \in 0..gen
  /\ repository \in BOOLEAN /\ artifacts \subseteq Artifact /\ evidence \in BOOLEAN
  /\ log \in Seq(Entry)
ResultTyped ==
  /\ nudged \in [Counter -> Nat] /\ approved \in BOOLEAN
  /\ stop \in StopReason /\ completion \in State /\ answer \in Content \cup {"none"}
CallsTyped == running \subseteq Call /\ started \in [Call -> Nat]

LoopTypeOK == ControlTyped /\ TurnTyped /\ MoodTyped /\ ChecksTyped /\ ResultTyped /\ CallsTyped

----------------------------------------------------------------------------
LoopInit ==
  /\ pc = "idle" /\ turns = 0 /\ used = 0
  /\ seen = {} /\ queue = <<>> /\ hidden = {} /\ batch = {} /\ executed = FALSE
  /\ unproductive = 0 /\ deep = FALSE /\ failures = 0 /\ rejected = 0
  /\ gen = 0 /\ validGen = 0 /\ repository = FALSE /\ artifacts = {} /\ evidence = FALSE
  /\ nudged = [c \in Counter |-> 0]
  /\ stop = "none" /\ completion = "IN_PROGRESS" /\ answer = "none"
  /\ log = <<>> /\ started = [c \in Call |-> 0] /\ approved = FALSE

\* runAgentLoop is called: everything it keeps is a local variable.  The mode it
\* starts in is the caller's choice.
Begin ==
  /\ pc = "idle" /\ pc' = "turn"
  /\ turns' = 0 /\ used' = 0
  /\ seen' = {} /\ queue' = <<>> /\ hidden' = {} /\ batch' = {} /\ executed' = FALSE
  /\ unproductive' = 0 /\ deep' \in BOOLEAN /\ failures' = 0 /\ rejected' = 0
  /\ gen' = 0 /\ validGen' = 0 /\ repository' = FALSE /\ artifacts' = {} /\ evidence' = FALSE
  /\ nudged' = [c \in Counter |-> 0]
  /\ stop' = "none" /\ completion' = "IN_PROGRESS" /\ answer' = "none"
  /\ log' = <<>> /\ started' = [c \in Call |-> 0] /\ approved' = FALSE

----------------------------------------------------------------------------
(* Leaving the loop *)

\* Mutant of Exit: what was decided in the loop stays, although it was aborted meanwhile.
ExitAsDecided(reason, state, text) ==
  /\ pc' = "done" /\ answer' = text
  /\ stop' = reason
  /\ completion' = CASE reason \in {"max-turns", "tool-budget"} -> "HARD_BUDGET_EXHAUSTED"
                     [] reason = "provider-error" -> "FAILED"
                     [] OTHER -> state

\* break, and what is set after the loop: an abort overrides everything.
Exit(reason, state, text) ==
  /\ pc' = "done" /\ answer' = text
  /\ stop' = IF aborted THEN "cancelled" ELSE reason
  /\ completion' = CASE aborted -> "CANCELLED"
                     [] ~aborted /\ reason \in {"max-turns", "tool-budget"} -> "HARD_BUDGET_EXHAUSTED"
                     [] ~aborted /\ reason = "provider-error" -> "FAILED"
                     [] OTHER -> state

(***************************************************************************)
(* A turn                                                                  *)
(***************************************************************************)
\* f more recentFailures and r more rejectedCalls, in mode d.  The two are only
\* compared with 2, to become deep, so they are counted until then.
Mood(f, r, d) ==
  /\ deep' = d
  /\ failures' = IF d THEN 0 ELSE IF failures + f > 2 THEN 2 ELSE failures + f
  /\ rejected' = IF d THEN 0 ELSE rejected + r

\* A call failed: escalateReasoningMode.
Fails == Mood(1, 0, deep \/ failures >= 1)

OutOfTurns ==
  /\ pc = "turn" /\ turns = MaxTurns
  /\ Exit("max-turns", completion, "none")
  /\ UNCHANGED <<turns, turn, mood, checks, nudged, approved>>

CancelTurn ==
  /\ pc = "turn" /\ turns < MaxTurns /\ aborted
  /\ Exit("cancelled", "CANCELLED", "none")
  /\ UNCHANGED <<turns, turn, mood, checks, nudged, approved>>

\* Mutant of Turn: a turn that is not counted.
TurnUncounted ==
  /\ pc = "turn" /\ turns < MaxTurns /\ ~aborted
  /\ pc' = "model"
  /\ UNCHANGED <<turns, turn, mood, checks, nudged, result>>

\* The next turn: the context may be refreshed, which may fail and is only noted.
Turn ==
  /\ pc = "turn" /\ turns < MaxTurns /\ ~aborted
  /\ pc' = "model" /\ turns' = turns + 1
  /\ \/ UNCHANGED <<deep, failures, rejected>>
     \/ options.refresh /\ Mood(1, 0, deep)
  /\ UNCHANGED <<turn, unproductive, checks, nudged, result>>

ProviderFails ==
  /\ pc = "model"
  /\ Exit("provider-error", "FAILED", "none")
  /\ UNCHANGED <<turns, turn, mood, checks, nudged, approved>>

(***************************************************************************)
(* A response that asks for no tool: the gates                             *)
(***************************************************************************)
\* Does gate g hold up an answer that says c, and is off if it is empty or says
\* that the conversation is missing?
Holds(g, c, off) ==
  CASE g = "evidence"   -> /\ options.evidence # {} /\ ~evidence
                           /\ nudged["evidence"] < Limit["evidence"]
    [] g = "alignment"  -> off /\ nudged["alignment"] < Limit["alignment"]
    [] g = "waiting"    -> c = "waiting"
    [] g = "blocked"    -> c = "blocked"
    [] g = "mutation"   -> c = "complete" /\ options.mutate /\ gen = 0
    [] g = "validation" -> c = "complete" /\ options.validate /\ gen > validGen
    [] g = "signal"     -> c = "plain" /\ options.signal
    [] g = "guard"      -> c = "complete" /\ options.guard

Reaches(n, c, off) == \A i \in 1..(n - 1) : ~Holds(Gate[i], c, off)
HeldAt(n, c, off)  == Reaches(n, c, off) /\ Holds(Gate[n], c, off)

\* The gate asks again: one more message, and the next turn.
Ask(counter) ==
  /\ pc' = "turn" /\ nudged' = [nudged EXCEPT ![counter] = @ + 1]
  /\ UNCHANGED result

\* The mode stays as it is.
Calm == UNCHANGED <<deep, failures, rejected>>

GiveUp(c) == Exit("no-progress", completion, c) /\ UNCHANGED <<nudged, approved>>

AskForEvidence(c, off)  == HeldAt(1, c, off) /\ Ask("evidence") /\ Calm
AskForAlignment(c, off) == HeldAt(2, c, off) /\ Ask("alignment") /\ Calm

Wait(c, off) ==
  /\ HeldAt(3, c, off)
  /\ Exit("final-answer", "WAITING_FOR_USER", c) /\ UNCHANGED <<nudged, approved>> /\ Calm

Block(c, off) ==
  /\ HeldAt(4, c, off)
  /\ Exit("final-answer", "BLOCKED", c) /\ UNCHANGED <<nudged, approved>> /\ Calm

\* This gate has no bound but that of the turns.
AskForMutation(c, off) ==
  /\ HeldAt(5, c, off)
  /\ pc' = "turn" /\ Mood(0, 0, TRUE) /\ UNCHANGED <<nudged, result>>

AskForValidation(c, off) ==
  /\ HeldAt(6, c, off)
  /\ \/ nudged["validation"] < Limit["validation"] /\ Ask("validation") /\ Mood(0, 0, TRUE)
     \/ nudged["validation"] >= Limit["validation"] /\ GiveUp(c) /\ Calm

AskForSignal(c, off) ==
  /\ HeldAt(7, c, off)
  /\ \/ nudged["completion"] < Limit["signal"] /\ Ask("completion")
     \/ nudged["completion"] >= Limit["signal"] /\ GiveUp(c)
  /\ Calm

\* The completion guard is called, and awaited.
AskGuard(c, off) ==
  /\ HeldAt(8, c, off)
  /\ pc' = "guard" /\ UNCHANGED <<nudged, result>> /\ Calm

Accepted(c) ==
  Exit("final-answer",
       IF c = "complete" /\ validGen = gen /\ gen > 0 THEN "VERIFICATION_COMPLETE" ELSE "GOAL_COMPLETE",
       c)

Accept(c, off) ==
  /\ Reaches(9, c, off)
  /\ Accepted(c) /\ UNCHANGED <<nudged, approved>> /\ Calm

Propose ==
  /\ pc = "model"
  /\ \E c \in Content, off \in BOOLEAN :
       \/ AskForEvidence(c, off) \/ AskForAlignment(c, off) \/ Wait(c, off) \/ Block(c, off)
       \/ AskForMutation(c, off) \/ AskForValidation(c, off) \/ AskForSignal(c, off)
       \/ AskGuard(c, off) \/ Accept(c, off)
  /\ UNCHANGED <<turns, turn, unproductive, checks>>

GuardAccepts ==
  /\ pc = "guard"
  /\ Accepted("complete") /\ approved' = TRUE
  /\ UNCHANGED <<turns, turn, mood, checks, nudged>>

\* The guard says no, or throws.
GuardRefuses ==
  /\ pc = "guard"
  /\ \/ nudged["completion"] < Limit["guard"] /\ Ask("completion")
     \/ nudged["completion"] >= Limit["guard"] /\ GiveUp("complete")
  /\ UNCHANGED <<turns, turn, mood, checks>>

(***************************************************************************)
(* A response that asks for tools                                          *)
(***************************************************************************)
Asked(q) == {q[i] : i \in 1..Len(q)}

\* Mutant of Batchable: the budget is not looked at.
BatchableOverBudget(q, h) ==
  /\ Len(q) > 1 /\ Cardinality(Asked(q)) = Len(q)
  /\ \A c \in Asked(q) : Kind[c] = "read" /\ c \notin seen \cup h

\* canBatchReadOnly: distinct reads, all new, all exposed, all within the budget.
Batchable(q, h) ==
  /\ Len(q) > 1 /\ Len(q) <= MaxToolCalls - used
  /\ Cardinality(Asked(q)) = Len(q)
  /\ \A c \in Asked(q) : Kind[c] = "read" /\ c \notin seen \cup h

Launch(S) ==
  /\ running' = running \cup S
  /\ started' = [c \in Call |-> IF c \in S THEN started[c] + 1 ELSE started[c]]

\* The response arrives; a batch is started at once.
Request(q, h) ==
  /\ pc = "model" /\ pc' = "calls"
  /\ queue' = q /\ hidden' = h /\ executed' = FALSE
  /\ batch' = IF Batchable(q, h) THEN Asked(q) ELSE {}
  /\ Launch(batch')
  /\ UNCHANGED <<turns, used, seen, mood, checks, nudged, result>>

CancelCalls ==
  /\ pc = "calls" /\ queue # <<>> /\ aborted
  /\ Exit("cancelled", "CANCELLED", "none")
  /\ UNCHANGED <<turns, turn, mood, checks, nudged, approved>>

SpendBudget ==
  /\ pc = "calls" /\ queue # <<>> /\ ~aborted /\ used >= MaxToolCalls
  /\ Exit("tool-budget", "HARD_BUDGET_EXHAUSTED", "none")
  /\ UNCHANGED <<turns, turn, mood, checks, nudged, approved>>

\* Mutant of Considers: the budget is compared with >.
ConsidersOneMore(c) ==
  /\ pc = "calls" /\ queue # <<>> /\ c = Head(queue)
  /\ ~aborted /\ used <= MaxToolCalls

Considers(c) ==
  /\ pc = "calls" /\ queue # <<>> /\ c = Head(queue)
  /\ ~aborted /\ used < MaxToolCalls

Reject(f) ==
  /\ Mood(f, 1, deep \/ rejected = 1)
  /\ queue' = Tail(queue)
  /\ UNCHANGED <<pc, turns, used, seen, hidden, batch, executed, unproductive, checks, nudged, result>>

RejectUnknown(c)   == Considers(c) /\ c \in hidden /\ Reject(0)
RejectDuplicate(c) == Considers(c) /\ c \notin hidden /\ c \in seen /\ Reject(1)

\* The call is executed, or the promise of the batch awaited.
Execute(c) ==
  /\ Considers(c) /\ c \notin hidden \cup seen
  /\ pc' = "tool" /\ seen' = seen \cup {c} /\ used' = used + 1 /\ executed' = TRUE
  /\ Launch({c} \ batch)
  /\ UNCHANGED <<turns, queue, hidden, batch, mood, checks, nudged, result>>

Returns(c, ok) ==
  /\ pc = "tool" /\ c = Head(queue) /\ pc' = "calls" /\ queue' = Tail(queue)
  /\ running' = running \ {c} /\ UNCHANGED started
  /\ evidence' = (evidence \/ (ok /\ c \in options.evidence))
  /\ UNCHANGED <<turns, seen, hidden, batch, executed, used, unproductive, nudged, result>>

OtherReturns(c, ok) ==
  /\ Kind[c] \in {"read", "other"} /\ Returns(c, ok)
  /\ IF ok THEN Calm ELSE Fails
  /\ UNCHANGED <<gen, validGen, repository, artifacts, log>>

MutationFails(c) ==
  /\ Kind[c] \in Mutation /\ Returns(c, FALSE)
  /\ Fails
  /\ UNCHANGED <<gen, validGen, repository, artifacts, log>>

MutationSucceeds(c) ==
  /\ Kind[c] \in Mutation /\ Returns(c, TRUE)
  /\ gen' = gen + 1
  /\ \/ Kind[c] = "write" /\ repository' = TRUE /\ UNCHANGED artifacts
     \/ Kind[c] = "make" /\ artifacts' = artifacts \cup Paths[c] /\ UNCHANGED repository
  /\ log' = Append(log, [call |-> c, hashed |-> {}])
  /\ Calm /\ UNCHANGED validGen

\* The tool ran, or failed, without showing that the work is sound.
CheckFails(c, ok) ==
  /\ Kind[c] \in Check /\ Returns(c, ok)
  /\ Mood(0, 0, TRUE)
  /\ UNCHANGED <<gen, validGen, repository, artifacts, log>>

\* Mutant of CheckPasses: any passed check validates everything changed so far.
CheckPassesForAll(c, hashed) ==
  /\ Kind[c] \in Check /\ Returns(c, TRUE)
  /\ hashed \subseteq Paths[c] /\ (Kind[c] = "test" => hashed = {})
  /\ artifacts' = {} /\ repository' = FALSE /\ validGen' = gen
  /\ log' = Append(log, [call |-> c, hashed |-> hashed])
  /\ Calm /\ UNCHANGED gen

\* It passed: an inspection answers for the artifacts it hashed, another check for
\* the repository; with nothing left pending the present generation is valid.
CheckPasses(c, hashed) ==
  /\ Kind[c] \in Check /\ Returns(c, TRUE)
  /\ hashed \subseteq Paths[c] /\ (Kind[c] = "test" => hashed = {})
  /\ artifacts' = artifacts \ hashed
  /\ repository' = (repository /\ Kind[c] = "inspect")
  /\ log' = Append(log, [call |-> c, hashed |-> hashed])
  /\ \/ /\ ~repository' /\ artifacts' = {}
        /\ validGen' = gen /\ Calm
     \/ /\ repository' \/ artifacts' # {}
        /\ Mood(0, 0, TRUE) /\ UNCHANGED validGen
  /\ UNCHANGED gen

\* All calls of the turn were dealt with.
TurnEnds ==
  /\ pc = "calls" /\ queue = <<>>
  /\ hidden' = {} /\ batch' = {} /\ executed' = FALSE
  /\ \/ executed /\ unproductive' = 0 /\ pc' = "turn" /\ Calm /\ UNCHANGED result
     \/ /\ ~executed /\ unproductive + 1 < Patience
        /\ unproductive' = unproductive + 1 /\ pc' = "turn" /\ Calm /\ UNCHANGED result
     \/ /\ ~executed /\ unproductive + 1 >= Patience
        /\ IF deep
           THEN /\ Exit("no-progress", "BLOCKED", "none")
                /\ unproductive' = Patience /\ Calm /\ UNCHANGED approved
           ELSE pc' = "turn" /\ Mood(0, 0, TRUE) /\ unproductive' = 0 /\ UNCHANGED result
  /\ UNCHANGED <<turns, used, seen, queue, checks, nudged>>

----------------------------------------------------------------------------
LoopStep ==
  \/ /\ \/ OutOfTurns \/ CancelTurn \/ Turn \/ ProviderFails
        \/ Propose \/ GuardAccepts \/ GuardRefuses
        \/ CancelCalls \/ SpendBudget \/ TurnEnds
        \/ \E c \in Call : RejectUnknown(c) \/ RejectDuplicate(c)
     /\ UNCHANGED calls
  \/ \E q \in Requests : \E h \in SUBSET (Hidden \cap Asked(q)) : Request(q, h)
  \/ \E c \in Call : Execute(c)
  \/ \E c \in Call, ok \in BOOLEAN : OtherReturns(c, ok) \/ CheckFails(c, ok)
  \/ \E c \in Call : MutationFails(c) \/ MutationSucceeds(c)
  \/ \E c \in Call, hashed \in SUBSET Artifact : CheckPasses(c, hashed)

\* The user leaves, or a cancellation reaches the worker's signal.
Abort == ~aborted /\ aborted' = TRUE

\* A call of a batch settles before, or without, being awaited.
Settle(c) ==
  /\ c \in running /\ ~(pc = "tool" /\ c = Head(queue))
  /\ running' = running \ {c} /\ UNCHANGED started
=============================================================================
