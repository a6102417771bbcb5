---------------------------- MODULE WorkingState ----------------------------
(***************************************************************************)
(* The row that a run keeps of itself in agent_working_state, and those    *)
(* who write it                                                            *)
(*   packages/context/src/working-state-store.ts                           *)
(*   apps/server/src/run-state-tracker.ts, resumed-run-state-tracker.ts    *)
(*   apps/server/src/run-resume.ts, acceptance-criteria.ts, final-review.ts*)
(*   apps/server/src/routes/agent.ts (the end of a run)                    *)
(*                                                                         *)
(* A save writes the whole row.  A loaded row has the names of its columns *)
(* and a saved one is read by other names, so a writer that hands on what  *)
(* it loaded empties the columns and keeps validation_state.  The tracker  *)
(* works through the loop's events in a queue that nobody waits for; what  *)
(* a tool or the tracker loads may be old when it is saved.  Any save may  *)
(* fail: the tracker of a run that was not resumed says so on the console  *)
(* and goes on, so that it answers what the row does not say.              *)
(***************************************************************************)
EXTENDS Integers, Sequences

CONSTANTS
  File,            \* source files
  MaxEvents, MaxTools, MaxResumes, MaxThrown  \* bounds; the last, of steps that fail

ASSUME WsBoundAssumption == {MaxEvents, MaxTools, MaxResumes, MaxThrown} \subseteq Nat

VARIABLES
  rowOf,     \* the row
  fresh,     \* is the tracker a RunStateTracker?
  mine,      \* its copy of the row
  queue,     \* the operations that the tracker has yet to do
  held,      \* what the resumed tracker has loaded and not yet saved, a sequence of at most one row
  tool,      \* the same for the tool, or the route, that writes the row
  phase,     \* "loop", the steps of the route's end, "over" or "down"
  accepted,  \* acceptanceCheck.ok of the answer
  cancelled, \* has the loop ended because of its signal?
  events, tools, resumes, thrown, \* bounds: what has been used
  \* history
  unreviewed, \* files edited since a review was last saved
  said        \* the last ending that the tracker saved, or "none"

wsVars == <<rowOf, fresh, mine, queue, held, tool, phase, accepted, cancelled,
            events, tools, resumes, thrown, unreviewed, said>>

\* Columns: changed, inspected.  In validation_state: the rest.
Row == [changed : SUBSET File, inspected : BOOLEAN,
        validated : BOOLEAN, review : BOOLEAN,
        status : {"running", "completed", "failed", "interrupted"}]
Blank == [changed |-> {}, inspected |-> FALSE, validated |-> FALSE, review |-> FALSE,
          status |-> "running"]

\* saveWorkingState({...loaded}): columns that are not named again are emptied.
Spread(r) == [r EXCEPT !.changed = {}, !.inspected = FALSE]

\* What the loop tells: a tool's result, or anything else.
Event == [kind : {"read", "test", "other"}, file : {{}}] \cup [kind : {"edit"}, file : {{f} : f \in File}]
End(how) == [kind |-> how, file |-> {}]

\* Mutant: the copy takes over the columns of this event only, as the resumed tracker does.
NotedAnew(r, e) ==
  [r EXCEPT !.changed = e.file,
            !.inspected = @ \/ e.kind = "read",
            !.validated = @ \/ e.kind = "test",
            !.status = IF e.kind \in {"completed", "failed"} THEN e.kind ELSE @]
\* RunStateTracker: the event in its own copy, and the copy over the row.
Noted(r, e) ==
  [r EXCEPT !.changed = @ \cup e.file,
            !.inspected = @ \/ e.kind = "read",
            !.validated = @ \/ e.kind = "test",
            !.status = IF e.kind \in {"completed", "failed"} THEN e.kind ELSE @]

\* ResumedRunStateTracker: the row as it was loaded, with the columns of this event only.
Merged(r, e) ==
  [Spread(r) EXCEPT !.changed = e.file,
                    !.inspected = e.kind = "read",
                    !.status = IF e.kind \in {"completed", "failed"} THEN e.kind ELSE "running"]

\* A query fails.
Throws == thrown < MaxThrown /\ thrown' = thrown + 1

-----------------------------------------------------------------------------
(* The loop and the tracker. *)

\* The events of a call are queued as it ends.
LoopEvent(e) ==
  /\ phase = "loop" /\ tool = <<>> /\ events < MaxEvents
  /\ events' = events + 1
  /\ queue' = Append(queue, e)
  /\ unreviewed' = unreviewed \cup e.file
  /\ UNCHANGED <<rowOf, fresh, mine, held, tool, phase, accepted, cancelled, tools, resumes, thrown, said>>

\* complete() and fail() are waited for.
AfterRecord(e) == IF e.kind = "completed" THEN "check" ELSE IF e.kind = "failed" THEN "over" ELSE phase

\* The row takes what the tracker says of the item.
Records(r, e) == rowOf' = r /\ said' = (IF e.kind \in {"completed", "failed"} THEN e.kind ELSE said)

\* Its own copy notes the item whether or not the row does: a rejected save, or a failure that
\* cannot be remembered first, is caught, and the next operation follows.
FreshRecord ==
  /\ fresh /\ queue # <<>>
  /\ mine' = Noted(mine, Head(queue))
  /\ \/ Records(mine', Head(queue)) /\ UNCHANGED thrown
     \/ Throws /\ UNCHANGED <<rowOf, said>>
  /\ phase' = AfterRecord(Head(queue))
  /\ queue' = Tail(queue)
  /\ UNCHANGED <<fresh, held, tool, accepted, cancelled, events, tools, resumes, unreviewed>>

ResumedLoad ==
  /\ ~fresh /\ queue # <<>> /\ held = <<>>
  /\ held' = <<rowOf>>
  /\ UNCHANGED <<rowOf, fresh, mine, queue, tool, phase, accepted, cancelled,
                 events, tools, resumes, thrown, unreviewed, said>>

ResumedSave ==
  /\ held # <<>>
  /\ Records(Merged(held[1], Head(queue)), Head(queue)) /\ held' = <<>>
  /\ phase' = AfterRecord(Head(queue))
  /\ queue' = Tail(queue)
  /\ UNCHANGED <<fresh, mine, tool, accepted, cancelled, events, tools, resumes, thrown, unreviewed>>

\* Nothing is caught here.  Nobody waits for an event, and its rejection ends the process
\* (Crash); that of complete() reaches the route, which calls fail(); that of fail() leaves it.
ResumedThrow ==
  /\ ~fresh /\ phase = "closing" /\ queue \in {<<End("completed")>>, <<End("failed")>>}
  /\ Throws /\ held' = <<>>
  /\ IF Head(queue).kind = "completed" THEN phase' = phase /\ queue' = <<End("failed")>>
     ELSE phase' = "over" /\ queue' = <<>>
  /\ UNCHANGED <<rowOf, fresh, mine, tool, accepted, cancelled, events, tools, resumes, unreviewed, said>>

-----------------------------------------------------------------------------
(* Tools, the completion guard and the route: load, then save. *)

Load ==
  /\ tool = <<>> /\ (phase = "loop" => tools < MaxTools) /\ phase \in {"loop", "mark", "check"}
  /\ tool' = <<rowOf>>
  /\ tools' = IF phase = "loop" THEN tools + 1 ELSE tools
  /\ UNCHANGED <<rowOf, fresh, mine, queue, held, phase, accepted, cancelled,
                 events, resumes, thrown, unreviewed, said>>

Saved(r) == rowOf' = r /\ tool' = <<>> /\
            UNCHANGED <<fresh, mine, queue, held, events, tools, resumes, thrown, said>>

\* A plan tool, or an executor that keeps records of its own in validation_state; the impact
\* gate names every column, the others hand on what they loaded.
KeepRecord ==
  /\ phase = "loop" /\ tool # <<>>
  /\ \E r \in {tool[1], Spread(tool[1])} : Saved(r)
  /\ UNCHANGED <<phase, accepted, cancelled, unreviewed>>

\* code.review.record, approved: it names every column too.
RecordReview ==
  /\ phase = "loop" /\ tool # <<>>
  /\ Saved([tool[1] EXCEPT !.review = TRUE])
  /\ unreviewed' = {}
  /\ UNCHANGED <<phase, accepted, cancelled>>

\* A tool's save, or the guard's, fails: the loop is told, and nothing is written.
ToolThrow ==
  /\ phase = "loop" /\ tool # <<>> /\ tool' = <<>> /\ Throws
  /\ UNCHANGED <<rowOf, fresh, mine, queue, held, phase, accepted, cancelled, events, tools, resumes,
                 unreviewed, said>>

\* checkAcceptanceCompletion: changes have to be validated and reviewed; without any,
\* something has to have been inspected or validated.
Proven(r) == IF r.changed # {} THEN r.validated /\ r.review ELSE r.inspected \/ r.validated

CheckAcceptance ==
  /\ phase \in {"loop", "check"} /\ tool # <<>>
  /\ Saved(Spread(tool[1]))
  /\ IF phase = "check" THEN phase' = "over" /\ accepted' = Proven(tool[1])
                        ELSE UNCHANGED <<phase, accepted>>
  /\ UNCHANGED <<cancelled, unreviewed>>

\* Mutant: the end does not wait for what is queued.
EndLoopAtOnce(how) ==
  /\ phase = "loop" /\ tool = <<>>
  /\ cancelled' = (how = "cancelled")
  /\ phase' = IF how = "cancelled" THEN "mark" ELSE "check"
  /\ UNCHANGED <<rowOf, fresh, mine, queue, held, tool, accepted, events, tools, resumes, thrown, unreviewed, said>>
\* The loop is over: cancelled, or with any other result, or with an exception.
EndLoop(how) ==
  /\ phase = "loop" /\ tool = <<>>
  /\ cancelled' = (how = "cancelled")
  /\ IF how = "cancelled" THEN phase' = "mark" /\ UNCHANGED queue
     ELSE phase' = "closing" /\ queue' = Append(queue, End(how))
  /\ UNCHANGED <<rowOf, fresh, mine, held, tool, accepted, events, tools, resumes, thrown, unreviewed, said>>

\* markRunInterrupted: beside the tracker's queue, not behind it.
MarkInterrupted ==
  /\ phase = "mark" /\ tool # <<>> /\ phase' = "check"
  /\ Saved([Spread(tool[1]) EXCEPT !.status = "interrupted"])
  /\ UNCHANGED <<accepted, cancelled, unreviewed>>

\* One of the route's last steps fails, be it after the check has been saved: its answer is not
\* given, and fail() is called.
RouteThrow ==
  /\ phase \in {"mark", "check"} /\ Throws
  /\ phase' = "closing" /\ queue' = Append(queue, End("failed"))
  /\ \/ UNCHANGED rowOf
     \/ phase = "check" /\ tool # <<>> /\ rowOf' = Spread(tool[1])
  /\ tool' = <<>> /\ cancelled' = FALSE
  /\ UNCHANGED <<fresh, mine, held, accepted, events, tools, resumes, unreviewed, said>>

-----------------------------------------------------------------------------
\* The process ends, with what is still queued; of the run only the row is left.
Crash ==
  /\ phase # "down" /\ (phase = "over" => queue # <<>>) /\ phase' = "down"
  /\ queue' = <<>> /\ held' = <<>> /\ tool' = <<>>
  /\ UNCHANGED <<rowOf, fresh, mine, accepted, cancelled, events, tools, resumes, thrown, unreviewed, said>>

\* recoverInterruptedRun, on a row that nobody writes any more: it saves what it loaded, and
\* the resumed tracker takes over.
Resume ==
  /\ phase \in {"down", "over"} /\ queue = <<>> /\ held = <<>> /\ resumes < MaxResumes
  /\ resumes' = resumes + 1 /\ phase' = "loop" /\ fresh' = FALSE
  /\ accepted' = FALSE /\ cancelled' = FALSE /\ said' = "none"
  /\ rowOf' = [Spread(rowOf) EXCEPT !.status = "running"]
  /\ UNCHANGED <<mine, queue, held, tool, events, tools, thrown, unreviewed>>

WsInit ==
  /\ rowOf = Blank /\ said = "none" /\ mine = Blank /\ fresh = TRUE /\ queue = <<>> /\ held = <<>> /\ tool = <<>>
  /\ phase = "loop" /\ accepted = FALSE /\ cancelled = FALSE
  /\ events = 0 /\ tools = 0 /\ resumes = 0 /\ thrown = 0 /\ unreviewed = {}

WsNext ==
  \/ \E e \in Event : LoopEvent(e)
  \/ \E how \in {"completed", "failed", "cancelled"} : EndLoop(how)
  \/ FreshRecord \/ ResumedLoad \/ ResumedSave \/ ResumedThrow
  \/ Load \/ KeepRecord \/ RecordReview \/ CheckAcceptance \/ MarkInterrupted \/ ToolThrow \/ RouteThrow
  \/ Crash \/ Resume

WsSpec == WsInit /\ [][WsNext]_wsVars

-----------------------------------------------------------------------------
WsTypeOK ==
  /\ rowOf \in Row /\ mine \in Row /\ fresh \in BOOLEAN
  /\ Len(queue) <= MaxEvents + 1 /\ \A i \in 1..Len(queue) : queue[i] \in Event \cup {End("completed"), End("failed")}
  /\ Len(held) <= 1 /\ Len(tool) <= 1 /\ \A i \in 1..Len(held) : held[i] \in Row
  /\ phase \in {"loop", "mark", "closing", "check", "over", "down"}
  /\ accepted \in BOOLEAN /\ cancelled \in BOOLEAN
  /\ unreviewed \subseteq File /\ said \in {"none", "completed", "failed"} /\ thrown \in 0..MaxThrown

Ended == phase = "over" /\ ~cancelled

\* The answer of a run that was not resumed, and whose end was saved, claims acceptance only if
\* every file that the run edited has been reviewed since, whatever order the row's writers came
\* in and whichever earlier saves were lost.
AcceptedIsReviewed == Ended /\ fresh /\ accepted /\ said # "none" => unreviewed = {}

\* A run that came to its own end has its last saved ending in the row: nothing queued before it,
\* no tool's late save and no failure after it takes that back.  The row says nothing of the
\* end only if a step failed.
EndIsRecorded ==
  Ended => queue = <<>> /\ (IF said = "none" THEN thrown > 0 ELSE rowOf.status = said)

\* "Do not declare TASK_COMPLETE until the normal acceptance, validation, review, and graph
\* completion gates pass", of runs that were resumed as well.
ResumedIsReviewed == Ended /\ accepted => unreviewed = {}
=============================================================================
