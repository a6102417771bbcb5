------------------------------ MODULE AgentRun ------------------------------
(***************************************************************************)
(* One run of the agent, from the request to the result                    *)
(*   apps/server/src/coding-agent-graph.ts (DurableCodingAgentGraph.run)   *)
(*   apps/server/src/routes/agent.ts, routes/tasks.ts (direct calls)       *)
(* A direct caller runs AgentLoop once.  The coding graph runs it, reviews *)
(* the result, may run it once more with the review as feedback, and then  *)
(* finalises.                                                              *)
(***************************************************************************)
EXTENDS AgentLoop

CONSTANT Options \* bound: the options of the callers

\* The graph always asks for a completion signal.
ASSUME OptionAssumption == Options \subseteq {o \in Option : o.graph => o.signal}

VARIABLES
  phase,        \* "bootstrap" | "execute" | "finalize" | "returned" | "failed"
  cycle, reviewPassed,
  remembered,   \* has "Verified coding task completed" been saved?
  owed          \* history: changes of the first execution it did not validate

run  == <<phase, cycle, reviewPassed, remembered, owed>>
loop == <<pc, turns, turn, mood, checks, nudged, result>>
vars == <<options, aborted, calls, loop, run>>

Complete == {"GOAL_COMPLETE", "VERIFICATION_COMPLETE"}
Settled  == {"returned", "failed"}

TypeOK ==
  /\ LoopTypeOK
  /\ phase \in {"bootstrap", "execute", "finalize"} \cup Settled
  /\ cycle \in 0..2 /\ reviewPassed \in BOOLEAN /\ remembered \in BOOLEAN
  /\ owed \subseteq Call
  /\ phase \in {"finalize", "returned"} => pc = "done"
  /\ phase = "bootstrap" => pc = "idle"
  /\ phase \in {"bootstrap", "execute"} => cycle <= 1

Init ==
  /\ LoopInit /\ options \in Options /\ aborted = FALSE /\ running = {}
  /\ phase = (IF options.graph THEN "bootstrap" ELSE "execute")
  /\ cycle = 0 /\ reviewPassed = FALSE /\ remembered = FALSE /\ owed = {}

\* bootstrap and plan: the context is built, or the node throws; the plan is advice.
Bootstrap ==
  /\ phase = "bootstrap" /\ phase' \in {"execute", "failed"}
  /\ UNCHANGED <<options, aborted, calls, loop, cycle, reviewPassed, remembered, owed>>

\* execute: a new loop.  The second prompt holds the review, whose words may ask for
\* changes that the goal did not.
Execution ==
  /\ phase = "execute" /\ Begin
  /\ cycle > 0 => deep'
  /\ \/ UNCHANGED options
     \/ /\ cycle > 0 /\ ~options.operational
        /\ options' = [options EXCEPT !.mutate = TRUE]
  /\ UNCHANGED <<aborted, running, run>>

InLoop == phase = "execute" /\ LoopStep /\ UNCHANGED <<options, aborted, run>>

Leaves  == Abort /\ phase \notin Settled /\ UNCHANGED <<options, calls, loop, run>>
Orphans == \E c \in Call : Settle(c) /\ UNCHANGED <<options, aborted, loop, run>>

\* The loop refuses a model whose tool calling is not verified.
Refused ==
  /\ phase = "execute" /\ pc = "idle" /\ cycle = 0
  /\ phase' = "failed"
  /\ UNCHANGED <<options, aborted, calls, loop, cycle, reviewPassed, remembered, owed>>

Direct ==
  /\ phase = "execute" /\ pc = "done" /\ ~options.graph
  /\ phase' = "returned"
  /\ UNCHANGED <<options, aborted, calls, loop, cycle, reviewPassed, remembered, owed>>

\* The deterministic part of review: the run ended otherwise, or its last mutation
\* was not validated.
Unfit == completion \notin Complete \/ gen > validGen

\* The mutations in l that no later passed check in l answers for: tests and diagnostics
\* answer for changes of the repository, an inspection for the artifacts it hashed.
Unanswered(l, i) ==
  LET later(K) == {j \in DOMAIN l : j > i /\ Kind[l[j].call] \in K}
  IN \/ Kind[l[i].call] = "write" /\ later({"test"}) = {}
     \/ /\ Kind[l[i].call] = "make"
        /\ \/ later(Check) = {}
           \/ \E a \in Paths[l[i].call] : \A j \in later({"inspect"}) : a \notin l[j].hashed

Backed(l) == \A k \in DOMAIN l : ~Unanswered(l, k)

Unbacked(l) == {c \in Call : \E k \in DOMAIN l : l[k].call = c /\ Unanswered(l, k)}

\* Back to execute, where the loop starts afresh.
Again ==
  /\ phase' = "execute" /\ pc' = "idle" /\ owed' = Unbacked(log)
  /\ UNCHANGED <<turns, turn, mood, checks, nudged, result>>

\* REVIEW_FIX, from the deterministic part or from the reviewer: one revision.
ReviewFixes ==
  /\ phase = "execute" /\ pc = "done" /\ options.graph
  /\ reviewPassed' = FALSE /\ cycle' = cycle + 1
  /\ IF cycle < 1 THEN Again ELSE phase' = "finalize" /\ UNCHANGED <<loop, owed>>
  /\ UNCHANGED <<options, aborted, calls, remembered>>

\* REVIEW_PASS, which is also the verdict of a reviewer that fails or is missing.
ReviewPasses ==
  /\ phase = "execute" /\ pc = "done" /\ options.graph /\ ~Unfit
  /\ reviewPassed' = TRUE /\ phase' = "finalize"
  /\ UNCHANGED <<options, aborted, calls, loop, cycle, remembered, owed>>

Claimed == completion \in Complete /\ answer = "complete"

\* The memory is saved, if that succeeds, and a claim without review is withdrawn.
Finalize ==
  /\ phase = "finalize" /\ phase' = "returned"
  /\ remembered' \in {FALSE, Claimed /\ reviewPassed}
  /\ IF Claimed /\ ~reviewPassed
     THEN stop' = "no-progress" /\ completion' = "BLOCKED" /\ answer' = "blocked"
     ELSE UNCHANGED <<stop, completion, answer>>
  /\ UNCHANGED <<options, aborted, calls, pc, turns, turn, mood, checks, nudged, approved,
                 cycle, reviewPassed, owed>>

Step == \/ Bootstrap \/ Execution \/ InLoop \/ Refused \/ Direct
        \/ ReviewFixes \/ ReviewPasses \/ Finalize
Next == Step \/ Leaves \/ Orphans

Spec == Init /\ [][Next]_vars

\* Every promise the run awaits settles: the model, the tools, the guard and the
\* database answer or fail.
FairSpec == Spec /\ WF_vars(Step)

----------------------------------------------------------------------------
(* Properties *)

Mutated(l) == \E i \in DOMAIN l : Kind[l[i].call] \in Mutation

\* When TASK_COMPLETE is accepted, what the options demand of it was done in this
\* execution: each change validated after it was made, a change made at all, the guard's
\* consent.  The code compares two counters and two sets of what is pending; this is
\* about the calls themselves, in order.
ClaimIsBacked ==
  pc = "done" /\ Claimed =>
    /\ options.validate \/ completion = "VERIFICATION_COMPLETE" => Backed(log)
    /\ options.mutate \/ completion = "VERIFICATION_COMPLETE" => Mutated(log)
    /\ options.guard => approved

\* No call is started twice, and no more are started than the budget allows, although a
\* batch is started before any of its calls is counted.
BudgetsHold ==
  /\ \A c \in Call : started[c] <= 1
  /\ Cardinality({c \in Call : started[c] > 0}) <= MaxToolCalls

\* Part of the account below: a tool that is not read-only never runs beside another tool
\* of the run, not even beside the rest of a batch that was given up.
EffectsRunAlone == \A c \in running : Kind[c] # "read" => running = {c}

\* Part of the account below: the graph returns a completed result, or remembers one, only
\* if it was reviewed and its last execution validated what it changed.
ReviewedOrDowngraded ==
  phase = "returned" /\ options.graph /\ (completion \in Complete \/ remembered) =>
    Claimed /\ reviewPassed /\ Backed(log)

\* Part of the account below: after the signal was aborted no tool starts that is not read-only.
NoEffectAfterAbort ==
  [][aborted => \A c \in Call : Kind[c] # "read" => started'[c] <= started[c]]_vars

\* A request is answered: no gate, refusal, failure or review goes on for ever.
RunEnds == <>(phase \in Settled)

\* The graph's own condition for a review, over both executions: what the first one
\* changed and did not validate is validated before a result is returned as complete.
NothingForgotten ==
  phase = "returned" /\ options.graph /\ completion \in Complete =>
    LET passed(K) == {k \in DOMAIN log : Kind[log[k].call] \in K}
    IN \A c \in owed :
         \/ Kind[c] = "write" /\ passed({"test"}) # {}
         \/ /\ Kind[c] = "make"
            /\ \A a \in Paths[c] : \E k \in passed({"inspect"}) : a \in log[k].hashed

----------------------------------------------------------------------------
(* What a run accounts for *)

Effects(K) == {c \in Call : Kind[c] \in K}

StageOf ==
  CASE phase \in Settled -> phase
    [] phase = "finalize" -> "reviewed"
    [] phase \in {"bootstrap", "execute"} ->
         IF pc = "idle" THEN "ready" ELSE IF pc = "done" THEN "concluded" ELSE "working"

Demanded == {d \in {"validate", "mutate", "guard", "signal", "review"} :
               CASE d = "validate" -> options.validate
                 [] d = "mutate"   -> options.mutate
                 [] d = "guard"    -> options.guard
                 [] d = "signal"   -> options.signal
                 [] d = "review"   -> options.graph}

\* The result, as a caller reads it from stopReason, completionState and the text.
Said == CASE pc # "done" -> "nothing"
          [] pc = "done" /\ completion \notin Complete -> "stopped"
          [] pc = "done" /\ completion \in Complete /\ answer # "complete" -> "answered"
          [] pc = "done" /\ completion = "GOAL_COMPLETE" /\ answer = "complete" -> "complete"
          [] pc = "done" /\ completion = "VERIFICATION_COMPLETE" /\ answer = "complete" -> "verified"

Acting == running \cap Effects(Kinds \ {"read"})

Revised == cycle > 0

Account == INSTANCE AccountableRun
  WITH Change <- Effects(Mutation), Check <- Effects(Check), Effect <- Effects({"other"}),
       stage <- StageOf, demands <- Demanded, cancelled <- aborted,
       acting <- Acting,
       open <- Unbacked(log), changed <- Mutated(log),
       said <- Said, consent <- approved, revised <- Revised, passed <- reviewPassed

\* Counters, gates, batches and nodes of the graph come to no more than an account of what
\* was done: one effect at a time, a claim only on changes that a later check answered
\* for, at most one revision, and no completion that was not reviewed.
RefinesAccount == Account!Spec
=============================================================================
