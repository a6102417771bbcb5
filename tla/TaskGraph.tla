---------------------------- MODULE TaskGraph ----------------------------
(***************************************************************************)
(* The dependency graph of a run, as the plan tools build and change it    *)
(*   apps/server/src/task-graph-executor.ts (decompose, update)            *)
(*   apps/server/src/replanning-executor.ts (replan)                       *)
(* one call after the other; TaskGraph says nothing of how the graph is    *)
(* stored.  Both files validate a new graph with the same depth-first      *)
(* search, whose steps are actions here.                                   *)
(*                                                                         *)
(* A list of nodes with distinct ids is a function from ids to sets of     *)
(* dependencies.  A list that repeats an id is refused without a trace, as *)
(* is every call whose guard does not hold, and is not an action.  The     *)
(* search visits nodes in an order that is left open.                      *)
(***************************************************************************)
EXTENDS Integers, FiniteSets, Sequences

CONSTANTS
  Id,         \* normalised node ids
  Proposals,  \* the lists decompose may be given
  Branches    \* the replacement nodes replan may be given

Lists  == UNION {[S -> SUBSET Id] : S \in SUBSET Id}
Status == {"absent", "pending", "in_progress", "complete", "blocked"}

ASSUME ProposalAssumption == Proposals \subseteq Lists /\ Branches \subseteq Lists

VARIABLES
  node, deps, status,         \* the persisted graph
  phase,                      \* "idle" | "visiting" | "refused"
  dNode, dDeps, dStatus, dNew, \* the graph being validated, and its new nodes
  path, todo,                 \* the calls of visit(): ids, and what each has left
  visited,
  done                        \* history: nodes that were complete at some time

plan   == <<node, deps, status>>
draft  == <<dNode, dDeps, dStatus, dNew>>
search == <<path, todo, visited>>
vars   == <<plan, phase, draft, search, done>>

NoDeps   == [n \in Id |-> {}]
NoStatus == [n \in Id |-> "absent"]

TypeOK ==
  /\ node \subseteq Id /\ dNode \subseteq Id /\ dNew \subseteq Id
  /\ deps \in [Id -> SUBSET Id] /\ dDeps \in [Id -> SUBSET Id]
  /\ status \in [Id -> Status] /\ dStatus \in [Id -> Status]
  /\ \A n \in Id : (status[n] = "absent") <=> (n \notin node)
  /\ phase \in {"idle", "visiting", "refused"}
  /\ path \in Seq(Id) /\ todo \in [Id -> SUBSET Id] /\ visited \subseteq Id
  /\ done \subseteq Id

Init ==
  /\ node = {} /\ deps = NoDeps /\ status = NoStatus
  /\ phase = "idle"
  /\ dNode = {} /\ dDeps = NoDeps /\ dStatus = NoStatus /\ dNew = {}
  /\ path = <<>> /\ todo = NoDeps /\ visited = {}
  /\ done = {}

----------------------------------------------------------------------------
(* validateGraph().                                                        *)

\* Mutant: dependencies on unknown nodes are let through.
KnownOrNot(N, D) == \A n \in N : n \notin D[n]

\* Its first loop: no node depends on itself or on an unknown one.
WellFormed(N, D) == \A n \in N : n \notin D[n] /\ D[n] \subseteq N

\* The search starts on a graph of N with dependencies D and statuses S.
Validate(N, D, S, new) ==
  /\ WellFormed(N, D)
  /\ phase' = "visiting"
  /\ dNode' = N /\ dDeps' = D /\ dStatus' = S /\ dNew' = new
  /\ UNCHANGED <<plan, search, done>>

Top == path[Len(path)]
OnPath(d) == \E i \in 1..Len(path) : path[i] = d

\* Mutant: a node is visited as soon as it is entered.
VisitMarksFirst(n) ==
  /\ phase = "visiting" /\ path = <<>>
  /\ n \in dNode \ visited
  /\ path' = <<n>>
  /\ todo' = [todo EXCEPT ![n] = dDeps[n]]
  /\ visited' = visited \cup {n}
  /\ UNCHANGED <<plan, phase, draft, done>>

\* The loop over the nodes calls visit(n).
VisitRoot(n) ==
  /\ phase = "visiting" /\ path = <<>>
  /\ n \in dNode \ visited
  /\ path' = <<n>>
  /\ todo' = [todo EXCEPT ![n] = dDeps[n]]
  /\ UNCHANGED <<plan, phase, draft, visited, done>>

\* The innermost call goes on to its dependency d.
Dependency(d) == phase = "visiting" /\ path # <<>> /\ d \in todo[Top]

SkipVisited(d) ==
  /\ Dependency(d) /\ d \in visited
  /\ todo' = [todo EXCEPT ![Top] = @ \ {d}]
  /\ UNCHANGED <<plan, phase, draft, path, visited, done>>

Descend(d) ==
  /\ Dependency(d) /\ d \notin visited /\ ~OnPath(d)
  /\ path' = Append(path, d)
  /\ todo' = [todo EXCEPT ![Top] = @ \ {d}, ![d] = dDeps[d]]
  /\ UNCHANGED <<plan, phase, draft, visited, done>>

\* Mutant: one set for both purposes, so that a node met twice is a cycle.
FindSeen(d) ==
  /\ Dependency(d) /\ (d \in visited \/ OnPath(d))
  /\ phase' = "refused"
  /\ UNCHANGED <<plan, draft, search, done>>

\* d is being visited: the call is refused.
FindCycle(d) ==
  /\ Dependency(d) /\ d \notin visited /\ OnPath(d)
  /\ phase' = "refused"
  /\ UNCHANGED <<plan, draft, search, done>>

Return ==
  /\ phase = "visiting" /\ path # <<>> /\ todo[Top] = {}
  /\ path' = SubSeq(path, 1, Len(path) - 1)
  /\ visited' = visited \cup {Top}
  /\ UNCHANGED <<plan, phase, draft, todo, done>>

Forget ==
  /\ phase' = "idle"
  /\ dNode' = {} /\ dDeps' = NoDeps /\ dStatus' = NoStatus /\ dNew' = {}
  /\ path' = <<>> /\ todo' = NoDeps /\ visited' = {}

\* Every node was visited: the graph replaces the persisted one.
Adopt ==
  /\ phase = "visiting" /\ path = <<>> /\ dNode \subseteq visited
  /\ node' = dNode /\ deps' = dDeps /\ status' = dStatus
  /\ done' = (done \cap dNode) \ dNew
  /\ Forget

Refuse == phase = "refused" /\ Forget /\ UNCHANGED <<plan, done>>

----------------------------------------------------------------------------
(* The tools.                                                              *)

\* agent.plan.decompose.  Bound: a plan is replaced when it is finished.
Decompose(list) ==
  /\ phase = "idle"
  /\ Cardinality(DOMAIN list) >= 2
  /\ \A n \in node : status[n] = "complete"
  /\ Validate(DOMAIN list,
              [n \in Id |-> IF n \in DOMAIN list THEN list[n] ELSE {}],
              [n \in Id |-> IF n \in DOMAIN list THEN "pending" ELSE "absent"],
              DOMAIN list)

Dependents(t) == {n \in node : t \in deps[n]}

\* A replacement without dependencies inherits those of the target.
Inherited(t, list) == [n \in DOMAIN list |-> IF list[n] = {} THEN deps[t] ELSE list[n]]

\* The outputs of the branch: nobody in it depends on them.
Terminal(branch) == {n \in DOMAIN branch : \A m \in DOMAIN branch : n \notin branch[m]}

\* The dependencies once t is replaced by the branch, whose outputs stand for t.
Rewired(t, branch) ==
  [n \in Id |->
     IF n \in DOMAIN branch THEN branch[n]
     ELSE IF n \in Dependents(t) \ {t} THEN (deps[n] \ {t}) \cup Terminal(branch)
     ELSE IF n \in node \ {t} THEN deps[n]
     ELSE {}]

Replace(t, branch) ==
  LET new == DOMAIN branch IN
  /\ \A n \in new : t \notin branch[n]
  /\ Terminal(branch) # {}
  /\ Validate((node \ {t}) \cup new, Rewired(t, branch),
              [n \in Id |-> IF n \in new THEN "pending"
                            ELSE IF n = t THEN "absent" ELSE status[n]],
              new)

\* Mutant: completed dependents are rewired like the others.
ReplanAnyway(t, list) ==
  /\ phase = "idle" /\ t \in node /\ status[t] # "complete"
  /\ DOMAIN list # {} /\ DOMAIN list \cap (node \ {t}) = {}
  /\ Replace(t, Inherited(t, list))

\* agent.plan.replan: one node that is not complete gives way to a branch.  The
\* branch may use its id again.
Replan(t, list) ==
  /\ phase = "idle" /\ t \in node /\ status[t] # "complete"
  /\ \A n \in Dependents(t) : status[n] # "complete"
  /\ DOMAIN list # {} /\ DOMAIN list \cap (node \ {t}) = {}
  /\ Replace(t, Inherited(t, list))

Completed(N, S) == {n \in N : S[n] = "complete"}

\* agent.plan.update.  Nothing keeps a completed node from being reopened.
Update(n, s) ==
  /\ phase = "idle" /\ n \in node
  /\ s \in {"in_progress", "complete"} => deps[n] \subseteq Completed(node, status)
  /\ status' = [status EXCEPT ![n] = s]
  /\ done' = IF s = "complete" THEN done \cup {n} ELSE done
  /\ UNCHANGED <<node, deps, phase, draft, search>>

----------------------------------------------------------------------------

Visit ==
  \/ \E n \in Id : VisitRoot(n) \/ SkipVisited(n) \/ Descend(n) \/ FindCycle(n)
  \/ Return \/ Adopt \/ Refuse

Next ==
  \/ Visit
  \/ \E list \in Proposals : Decompose(list)
  \/ \E t \in Id, list \in Branches : Replan(t, list)
  \/ \E n \in Id, s \in Status \ {"absent"} : Update(n, s)

Spec == Init /\ [][Next]_vars

----------------------------------------------------------------------------
(* Properties.                                                             *)

\* What "no cycle" means: in every set of nodes, one depends on no other.
Acyclic(N, D) == \A S \in SUBSET N : S # {} => \E n \in S : D[n] \cap S = {}

\* A graph that was accepted has no cycle and no unknown dependency, whatever
\* the search visited first and however often it was replanned
\* (task-graph-executor.ts:258-362).
PlanIsAcyclic == Acyclic(node, deps) /\ \A n \in node : deps[n] \subseteq node

\* A graph that the search refuses really has a cycle.
OnlyCyclesAreRefused == phase = "refused" => ~Acyclic(dNode, dDeps)

\* readyNodes(): pending, and everything it depends on is complete.
Ready == {n \in node : status[n] = "pending" /\ deps[n] \subseteq Completed(node, status)}

\* A plan is never stuck: as long as it is not complete, a node is ready, being
\* worked on, or blocked by a person's decision.
NeverStuck ==
  \/ Completed(node, status) = node
  \/ Ready # {}
  \/ \E n \in node : status[n] \in {"in_progress", "blocked"}

\* "Hard dependency enforcement" (task-graph-executor.ts:1150), through every
\* reopening and replanning: a completed node was completed after each of its
\* present dependencies had been completed.
FinishedAfterDependencies ==
  \A n \in node : status[n] = "complete" => deps[n] \subseteq done

\* "A completed dependent of an incomplete target indicates inconsistent
\* state" (replanning-executor.ts:897): the one thing that produces such a state
\* is reopening a completed node with agent.plan.update.
Consistent(N, D, S) == \A n \in N : S[n] = "complete" => D[n] \subseteq Completed(N, S)
Reopens ==
  /\ node' = node /\ deps' = deps
  /\ \E n \in node : status[n] = "complete" /\ status'[n] # "complete"
OnlyReopeningUndoes ==
  [][Consistent(node, deps, status) =>
       Consistent(node', deps', status') \/ Reopens]_vars

\* "Verified completed work is immutable" (replanning-executor.ts:879): as long
\* as the plan is not replaced as a whole, a completed node stays, with the
\* dependencies it was completed under, unless the model reopens it.
Replaced == phase = "visiting" /\ dNew = dNode
VerifiedWorkIsKept ==
  [][\A n \in Completed(node, status) :
       \/ n \in Completed(node', status') /\ deps'[n] = deps[n]
       \/ Reopens \/ Replaced]_vars
============================================================================
