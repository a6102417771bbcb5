------------------------- MODULE TaskGraphProofs -------------------------
(***************************************************************************)
(* What holds of every plan, for any set of ids and whatever lists the     *)
(* tools are given.  The search is correct because the nodes it has left   *)
(* (visited) form a closed graph without cycles that grows by one node at  *)
(* a time, and because its call stack (path) is a chain of dependencies.   *)
(***************************************************************************)
EXTENDS TaskGraph, SequenceTheorems, TLAPS

\* The call stack: a chain of unvisited nodes, each entered from the one
\* before it; what a call has left to do, was entered, or is visited.
Chain ==
  /\ \A i \in 1..Len(path) : path[i] \in dNode \ visited
  /\ \A i, j \in 1..Len(path) : path[i] = path[j] => i = j
  /\ \A i \in 1..Len(path) : todo[path[i]] \subseteq dDeps[path[i]]
  /\ \A i \in 1..Len(path) : i + 1 \in 1..Len(path) => path[i + 1] \in dDeps[path[i]]
  /\ \A i \in 1..Len(path) : \A d \in dDeps[path[i]] :
       \/ d \in todo[path[i]] \/ d \in visited
       \/ i + 1 \in 1..Len(path) /\ d = path[i + 1]

\* What has been visited depends on nothing else, and has no cycle.
Explored ==
  /\ visited \subseteq dNode
  /\ \A n \in visited : dDeps[n] \subseteq visited
  /\ Acyclic(visited, dDeps)

SearchInv ==
  /\ phase = "idle" => path = <<>> /\ visited = {} /\ dNode = {}
  /\ phase = "visiting" => WellFormed(dNode, dDeps) /\ Chain /\ Explored

\* The draft keeps what was finished before it.
DraftInv ==
  phase = "visiting" =>
    /\ \A n \in Id : (dStatus[n] = "absent") <=> (n \notin dNode)
    /\ \A n \in dNode : dStatus[n] = "complete" =>
         {n} \cup dDeps[n] \subseteq (done \cap dNode) \ dNew
    /\ Consistent(node, deps, status) => Consistent(dNode, dDeps, dStatus)
    /\ dNew = dNode \/ \A n \in Completed(node, status) :
                          n \in Completed(dNode, dStatus) /\ dDeps[n] = deps[n]

\* Why FinishedAfterDependencies holds: done never lags behind the statuses.
PlanInv ==
  /\ PlanIsAcyclic /\ OnlyCyclesAreRefused /\ FinishedAfterDependencies
  /\ Completed(node, status) \subseteq done

Inv == TypeOK /\ SearchInv /\ DraftInv /\ PlanInv

----------------------------------------------------------------------------
(* Graphs.                                                                 *)

\* A closed graph without cycles stays so when a node is added that depends on
\* it only.
LEMMA GrowsAcyclic ==
  ASSUME NEW V, NEW D, NEW x, x \notin V,
         Acyclic(V, D), \A n \in V : D[n] \subseteq V, D[x] \subseteq V
  PROVE  Acyclic(V \cup {x}, D)
<1> SUFFICES ASSUME NEW S \in SUBSET (V \cup {x}), S # {}
             PROVE  \E n \in S : D[n] \cap S = {}
  BY DEF Acyclic
<1>1. CASE S \ {x} = {}
  <2>1. S = {x}
    BY <1>1
  <2>2. D[x] \cap S = {}
    BY <2>1
  <2> QED BY <2>1, <2>2
<1>2. CASE S \ {x} # {}
  <2>1. S \ {x} \in SUBSET V
    OBVIOUS
  <2>2. PICK n \in S \ {x} : D[n] \cap (S \ {x}) = {}
    BY <1>2, <2>1 DEF Acyclic
  <2>3. x \notin D[n]
    BY <2>1, <2>2
  <2> QED BY <2>2, <2>3
<1> QED BY <1>1, <1>2

\* A set in which every node depends on another one is a cycle.
LEMMA ClosedCycle ==
  ASSUME NEW N, NEW D, NEW S \in SUBSET N, S # {},
         \A n \in S : \E m \in S : m \in D[n]
  PROVE  ~Acyclic(N, D)
BY DEF Acyclic

\* readyNodes finds a node unless the plan is complete, worked on or blocked.
LEMMA AcyclicPlanIsNotStuck ==
  ASSUME TypeOK, PlanIsAcyclic
  PROVE  NeverStuck
<1> DEFINE open == node \ Completed(node, status)
<1>1. CASE open = {}
  BY <1>1 DEF NeverStuck, Completed
<1>2. CASE open # {}
  <2>1. PICK n \in open : deps[n] \cap open = {}
    BY <1>2 DEF PlanIsAcyclic, Acyclic
  <2>2. deps[n] \subseteq Completed(node, status)
    BY <2>1 DEF PlanIsAcyclic
  <2>3. status[n] \in {"pending", "in_progress", "blocked"}
    BY <2>1 DEF TypeOK, Status, Completed
  <2> QED BY <2>1, <2>2, <2>3 DEF NeverStuck, Ready
<1> QED BY <1>1, <1>2

----------------------------------------------------------------------------
(* The search.  Each lemma is about one of its steps.                      *)

Searching == TypeOK /\ phase = "visiting" /\ WellFormed(dNode, dDeps) /\ Chain /\ Explored

LEMMA RootKeepsChain ==
  ASSUME Searching, NEW n \in Id, VisitRoot(n)
  PROVE  Chain' /\ Explored'
<1>1. path' = <<n>> /\ n \in dNode \ visited
  BY DEF VisitRoot
<1>2. todo' = [todo EXCEPT ![n] = dDeps[n]] /\ todo'[n] = dDeps[n]
  BY DEF VisitRoot, Searching, TypeOK
<1>3. UNCHANGED <<dNode, dDeps, visited>>
  BY DEF VisitRoot, draft
<1>4. Chain'
  BY <1>1, <1>2, <1>3 DEF Chain, Searching, TypeOK
<1>5. Explored'
  BY <1>3 DEF Explored, Acyclic, Searching
<1> QED BY <1>4, <1>5

LEMMA SkipKeepsChain ==
  ASSUME Searching, NEW d \in Id, SkipVisited(d)
  PROVE  Chain' /\ Explored'
<1>1. /\ UNCHANGED <<path, dNode, dDeps, visited>>
      /\ d \in visited /\ Len(path) \in Nat \ {0}
      /\ todo' = [todo EXCEPT ![Top] = @ \ {d}]
  BY DEF SkipVisited, Dependency, draft, Searching, TypeOK
<1>2. \A i \in 1..Len(path) : path[i] \in Id
  BY <1>1 DEF Searching, TypeOK
<1>3. \A n \in Id : todo'[n] = IF n = Top THEN todo[n] \ {d} ELSE todo[n]
  BY <1>1 DEF Searching, TypeOK
<1>4. \A i \in 1..Len(path) : /\ todo'[path[i]] \subseteq todo[path[i]]
                              /\ todo[path[i]] \subseteq todo'[path[i]] \cup visited
  BY <1>1, <1>2, <1>3
<1>5. Chain'
  BY <1>1, <1>4 DEF Chain, Searching
<1>6. Explored'
  BY <1>1 DEF Explored, Acyclic, Searching
<1> QED BY <1>5, <1>6

LEMMA DescendKeepsChain ==
  ASSUME Searching, NEW d \in Id, Descend(d)
  PROVE  Chain' /\ Explored'
<1> DEFINE k == Len(path)
<1>1. /\ UNCHANGED <<dNode, dDeps, visited>>
      /\ k \in Nat \ {0} /\ d \in todo[Top] /\ d \notin visited
      /\ \A i \in 1..k : path[i] # d
      /\ path' = Append(path, d)
      /\ todo' = [todo EXCEPT ![Top] = @ \ {d}, ![d] = dDeps[d]]
  BY DEF Descend, Dependency, OnPath, draft, Searching, TypeOK
<1>2. /\ Len(path') = k + 1 /\ path'[k + 1] = d
      /\ \A i \in 1..k : path'[i] = path[i] /\ path[i] \in Id
  BY <1>1 DEF Searching, TypeOK
<1>3. /\ todo'[d] = dDeps[d]
      /\ \A n \in Id \ {d} : todo'[n] = IF n = Top THEN todo[n] \ {d} ELSE todo[n]
  BY <1>1 DEF Searching, TypeOK
<1>4. Top = path[k] /\ d \in dDeps[path[k]] /\ d \in dNode
  BY <1>1 DEF Searching, Chain, Top, WellFormed
<1>12. \A i \in 1..k : /\ todo'[path[i]] \subseteq todo[path[i]]
                       /\ todo[path[i]] \subseteq todo'[path[i]] \cup {d}
                       /\ i # k => todo'[path[i]] = todo[path[i]]
  <2> SUFFICES ASSUME NEW i \in 1..k
               PROVE  /\ todo'[path[i]] \subseteq todo[path[i]]
                      /\ todo[path[i]] \subseteq todo'[path[i]] \cup {d}
                      /\ i # k => todo'[path[i]] = todo[path[i]]
    OBVIOUS
  <2>1. path[i] \in Id \ {d} /\ (i # k => path[i] # Top)
    BY <1>1, <1>2, <1>4 DEF Searching, Chain
  <2> QED BY <1>3, <2>1
<1>5. \A i \in 1..Len(path') : path'[i] \in dNode \ visited
  BY <1>1, <1>2, <1>4 DEF Searching, Chain
<1>6. \A i, j \in 1..Len(path') : path'[i] = path'[j] => i = j
  BY <1>1, <1>2 DEF Searching, Chain
<1>7. \A i \in 1..Len(path') : todo'[path'[i]] \subseteq dDeps[path'[i]]
  <2> SUFFICES ASSUME NEW i \in 1..Len(path')
               PROVE  todo'[path'[i]] \subseteq dDeps[path'[i]]
    OBVIOUS
  <2>1. CASE i = k + 1
    BY <1>2, <1>3, <2>1
  <2>2. CASE i \in 1..k
    <3>1. todo[path[i]] \subseteq dDeps[path[i]]
      BY <2>2 DEF Searching, Chain
    <3> QED BY <1>2, <1>12, <2>2, <3>1
  <2>3. i = k + 1 \/ i \in 1..k
    BY <1>1, <1>2
  <2> QED BY <2>1, <2>2, <2>3
<1>8. \A i \in 1..Len(path') : i + 1 \in 1..Len(path') => path'[i + 1] \in dDeps[path'[i]]
  BY <1>1, <1>2, <1>4 DEF Searching, Chain
<1>9. \A i \in 1..Len(path') : \A e \in dDeps[path'[i]] :
       \/ e \in todo'[path'[i]] \/ e \in visited
       \/ i + 1 \in 1..Len(path') /\ e = path'[i + 1]
  <2> SUFFICES ASSUME NEW i \in 1..Len(path'), NEW e \in dDeps[path'[i]]
               PROVE  \/ e \in todo'[path'[i]] \/ e \in visited
                      \/ i + 1 \in 1..Len(path') /\ e = path'[i + 1]
    OBVIOUS
  <2>1. CASE i = k + 1
    BY <1>2, <1>3, <2>1
  <2>2. CASE i \in 1..k
    <3>1. \/ e \in todo[path[i]] \/ e \in visited
          \/ i + 1 \in 1..k /\ e = path[i + 1]
      BY <1>2, <2>2 DEF Searching, Chain
    <3>2. CASE e \in todo[path[i]]
      <4>1. e \in todo'[path[i]] \/ (i = k /\ e = d)
        BY <1>12, <2>2, <3>2
      <4> QED BY <1>1, <1>2, <2>2, <4>1
    <3> QED BY <1>1, <1>2, <2>2, <3>1, <3>2
  <2> QED BY <1>1, <1>2, <2>1, <2>2
<1>10. Chain'
  BY <1>1, <1>5, <1>6, <1>7, <1>8, <1>9 DEF Chain
<1>11. Explored'
  BY <1>1 DEF Explored, Acyclic, Searching
<1> QED BY <1>10, <1>11

\* What is left of a call stack when the innermost call returns.
LEMMA Popped ==
  ASSUME NEW S, NEW s \in Seq(S), s # <<>>
  PROVE  /\ SubSeq(s, 1, Len(s) - 1) \in Seq(S)
         /\ Len(SubSeq(s, 1, Len(s) - 1)) = Len(s) - 1
         /\ \A i \in 1..(Len(s) - 1) : SubSeq(s, 1, Len(s) - 1)[i] = s[i]
<1> DEFINE n == Len(s) - 1
<1>1. n \in Nat /\ \A i \in 1..n : s[i] \in S
  OBVIOUS
<1> HIDE DEF n
<1>2. /\ SubSeq(s, 1, n) \in Seq(S)
      /\ Len(SubSeq(s, 1, n)) = IF 1 <= n THEN n - 1 + 1 ELSE 0
      /\ \A i \in 1..(n - 1 + 1) : SubSeq(s, 1, n)[i] = s[1 + i - 1]
  BY <1>1, SubSeqProperties
<1>3. /\ Len(SubSeq(s, 1, n)) = n
      /\ \A i \in 1..n : SubSeq(s, 1, n)[i] = s[i]
  BY <1>1, <1>2
<1> QED BY <1>2, <1>3 DEF n

LEMMA ReturnKeepsChain ==
  ASSUME Searching, Return
  PROVE  Chain' /\ Explored'
<1> DEFINE k == Len(path)
           x == path[k]
<1>1. /\ UNCHANGED <<dNode, dDeps, todo>>
      /\ k \in Nat \ {0} /\ todo[x] = {} /\ x \in dNode /\ x \notin visited
      /\ path' = SubSeq(path, 1, k - 1)
      /\ visited' = visited \cup {x}
  BY DEF Return, Top, Chain, draft, Searching, TypeOK
<1>2. Len(path') = k - 1 /\ \A i \in 1..(k - 1) : path'[i] = path[i] /\ path[i] \in Id
  <2>1. \A i \in 1..(k - 1) : path[i] \in Id
    BY <1>1 DEF Searching, TypeOK
  <2>2. path \in Seq(Id) /\ path # <<>>
    BY DEF Return, Searching, TypeOK
  <2> QED BY <1>1, <2>1, <2>2, Popped
<1>3. dDeps[x] \subseteq visited
  BY <1>1 DEF Searching, Chain
<1>4. Chain'
  <2>1. \A i \in 1..Len(path') : path'[i] \in dNode \ visited'
    BY <1>1, <1>2 DEF Searching, Chain
  <2>2. \A i, j \in 1..Len(path') : path'[i] = path'[j] => i = j
    BY <1>1, <1>2 DEF Searching, Chain
  <2>3. \A i \in 1..Len(path') : todo'[path'[i]] \subseteq dDeps'[path'[i]]
    BY <1>1, <1>2 DEF Searching, Chain
  <2>4. \A i \in 1..Len(path') : i + 1 \in 1..Len(path') => path'[i + 1] \in dDeps'[path'[i]]
    BY <1>1, <1>2 DEF Searching, Chain
  <2>5. \A i \in 1..Len(path') : \A d \in dDeps'[path'[i]] :
         \/ d \in todo'[path'[i]] \/ d \in visited'
         \/ i + 1 \in 1..Len(path') /\ d = path'[i + 1]
    <3> SUFFICES ASSUME NEW i \in 1..Len(path'), NEW d \in dDeps[path[i]]
                 PROVE  \/ d \in todo[path[i]] \/ d \in visited'
                        \/ i + 1 \in 1..Len(path') /\ d = path'[i + 1]
      BY <1>1, <1>2
    <3>1. \/ d \in todo[path[i]] \/ d \in visited
          \/ i + 1 \in 1..k /\ d = path[i + 1]
      BY <1>1, <1>2 DEF Searching, Chain
    <3> QED BY <1>1, <1>2, <3>1
  <2> QED BY <1>1, <2>1, <2>2, <2>3, <2>4, <2>5 DEF Chain
<1>5. Explored'
  <2>1. Acyclic(visited \cup {x}, dDeps)
    BY <1>1, <1>3, GrowsAcyclic DEF Searching, Explored
  <2> QED BY <1>1, <1>3, <2>1 DEF Searching, Explored
<1> QED BY <1>4, <1>5

\* What the search meets a second time on its own path closes a cycle.
LEMMA CycleIsFound ==
  ASSUME Searching, NEW d \in Id, FindCycle(d)
  PROVE  ~Acyclic(dNode, dDeps)
<1> DEFINE k == Len(path)
<1>1. k \in Nat \ {0} /\ d \in dDeps[path[k]]
  BY DEF FindCycle, Dependency, Top, Searching, TypeOK, Chain
<1>2. PICK j \in 1..k : path[j] = d
  BY DEF FindCycle, OnPath
<1> DEFINE S == {path[i] : i \in j..k}
<1>3. S \in SUBSET dNode /\ S # {}
  BY <1>1, <1>2 DEF Searching, Chain
<1>4. \A n \in S : \E m \in S : m \in dDeps[n]
  <2> SUFFICES ASSUME NEW i \in j..k
               PROVE  \E m \in S : m \in dDeps[path[i]]
    OBVIOUS
  <2>1. CASE i = k
    BY <1>1, <1>2, <2>1
  <2>2. CASE i < k
    <3>1. path[i + 1] \in dDeps[path[i]] /\ path[i + 1] \in S
      BY <1>1, <1>2, <2>2 DEF Searching, Chain
    <3> QED BY <3>1
  <2> QED BY <1>1, <2>1, <2>2
<1> HIDE DEF S
<1> QED BY <1>3, <1>4, ClosedCycle

----------------------------------------------------------------------------
(* The invariant.                                                          *)

LEMMA InvInit == Init => Inv
BY DEF Init, Inv, TypeOK, SearchInv, DraftInv, PlanInv, PlanIsAcyclic, Acyclic,
       OnlyCyclesAreRefused, FinishedAfterDependencies, Completed, NoDeps, NoStatus, Status

LEMMA ListFacts ==
  ASSUME NEW list \in Lists
  PROVE  DOMAIN list \subseteq Id /\ \A n \in DOMAIN list : list[n] \subseteq Id
BY DEF Lists

\* A step of the search that neither ends it nor touches anything else.
LEMMA SearchStep ==
  ASSUME Inv, phase = "visiting", phase' = "visiting", UNCHANGED <<plan, draft, done>>,
         path' \in Seq(Id), todo' \in [Id -> SUBSET Id], visited' \subseteq Id,
         Chain', Explored'
  PROVE  Inv'
<1>1. TypeOK'
  BY DEF Inv, TypeOK, plan, draft
<1>2. SearchInv'
  BY DEF Inv, SearchInv, WellFormed, draft
<1>3. DraftInv'
  BY DEF Inv, DraftInv, Consistent, Completed, plan, draft
<1>4. PlanInv'
  BY DEF Inv, PlanInv, PlanIsAcyclic, Acyclic, OnlyCyclesAreRefused,
         FinishedAfterDependencies, Completed, plan
<1> QED BY <1>1, <1>2, <1>3, <1>4 DEF Inv

LEMMA VisitingIsSearching ==
  ASSUME Inv, phase = "visiting"
  PROVE  Searching
BY DEF Inv, SearchInv, Searching

LEMMA RootKeepsInv ==
  ASSUME Inv, NEW n \in Id, VisitRoot(n)
  PROVE  Inv'
<1>1. phase = "visiting" /\ Searching
  BY VisitingIsSearching DEF VisitRoot
<1>2. Chain' /\ Explored'
  BY <1>1, RootKeepsChain
<1>3. path' \in Seq(Id) /\ todo' \in [Id -> SUBSET Id] /\ visited' \subseteq Id
  BY <1>1 DEF VisitRoot, Searching, TypeOK
<1> QED BY <1>1, <1>2, <1>3, SearchStep DEF VisitRoot

LEMMA SkipKeepsInv ==
  ASSUME Inv, NEW d \in Id, SkipVisited(d)
  PROVE  Inv'
<1>1. phase = "visiting" /\ Searching
  BY VisitingIsSearching DEF SkipVisited, Dependency
<1>2. Chain' /\ Explored'
  BY <1>1, SkipKeepsChain
<1>3. path' \in Seq(Id) /\ todo' \in [Id -> SUBSET Id] /\ visited' \subseteq Id
  BY <1>1 DEF SkipVisited, Searching, TypeOK
<1> QED BY <1>1, <1>2, <1>3, SearchStep DEF SkipVisited

LEMMA DescendKeepsInv ==
  ASSUME Inv, NEW d \in Id, Descend(d)
  PROVE  Inv'
<1>1. phase = "visiting" /\ Searching
  BY VisitingIsSearching DEF Descend, Dependency
<1>2. Chain' /\ Explored'
  BY <1>1, DescendKeepsChain
<1>3. path' \in Seq(Id) /\ visited' \subseteq Id
  BY <1>1 DEF Descend, Searching, TypeOK
<1>4. \A m \in Id : todo[m] \subseteq Id /\ dDeps[m] \subseteq Id
  BY <1>1 DEF Searching, TypeOK
<1>5. todo' \in [Id -> SUBSET Id]
  BY <1>1, <1>4 DEF Descend, Searching, TypeOK
<1> QED BY <1>1, <1>2, <1>3, <1>5, SearchStep DEF Descend

LEMMA ReturnKeepsInv ==
  ASSUME Inv, Return
  PROVE  Inv'
<1>1. phase = "visiting" /\ Searching /\ path \in Seq(Id) /\ path # <<>>
  BY VisitingIsSearching DEF Return, Searching, TypeOK
<1>2. Chain' /\ Explored'
  BY <1>1, ReturnKeepsChain
<1>3. path' \in Seq(Id)
  BY <1>1, Popped DEF Return
<1>4. Top \in Id
  BY <1>1 DEF Top
<1>5. todo' \in [Id -> SUBSET Id] /\ visited' \subseteq Id
  BY <1>1, <1>4 DEF Return, Searching, TypeOK
<1> QED BY <1>1, <1>2, <1>3, <1>5, SearchStep DEF Return

LEMMA FindKeepsInv ==
  ASSUME Inv, NEW d \in Id, FindCycle(d)
  PROVE  Inv'
<1>1. Searching
  BY VisitingIsSearching DEF FindCycle, Dependency
<1>2. ~Acyclic(dNode, dDeps)
  BY <1>1, CycleIsFound
<1>3. phase' = "refused" /\ UNCHANGED <<plan, draft, search, done>>
  BY DEF FindCycle
<1>4. TypeOK'
  BY <1>3 DEF Inv, TypeOK, plan, draft, search
<1>5. SearchInv' /\ DraftInv'
  BY <1>3 DEF SearchInv, DraftInv
<1>6. OnlyCyclesAreRefused'
  BY <1>2, <1>3 DEF OnlyCyclesAreRefused, Acyclic, draft
<1>7. PlanIsAcyclic' /\ FinishedAfterDependencies' /\ (Completed(node, status) \subseteq done)'
  BY <1>3 DEF Inv, PlanInv, PlanIsAcyclic, Acyclic, FinishedAfterDependencies, Completed, plan
<1> QED BY <1>4, <1>5, <1>6, <1>7 DEF Inv, PlanInv

LEMMA AdoptKeepsInv ==
  ASSUME Inv, Adopt
  PROVE  Inv'
<1>1. Searching
  BY VisitingIsSearching DEF Adopt
<1>2. /\ node' = dNode /\ deps' = dDeps /\ status' = dStatus
      /\ done' = (done \cap dNode) \ dNew
      /\ phase = "visiting" /\ phase' = "idle" /\ dNode = visited
  BY <1>1 DEF Adopt, Forget, Searching, Explored
<1>3. TypeOK'
  BY <1>2 DEF Adopt, Forget, Inv, TypeOK, DraftInv, NoDeps, NoStatus, Status
<1>4. SearchInv' /\ DraftInv'
  BY <1>2 DEF Adopt, Forget, SearchInv, DraftInv
<1>5. PlanIsAcyclic'
  BY <1>1, <1>2 DEF Searching, Explored, PlanIsAcyclic, Acyclic
<1>6. OnlyCyclesAreRefused' /\ FinishedAfterDependencies'
  BY <1>2 DEF OnlyCyclesAreRefused, FinishedAfterDependencies, Inv, DraftInv
<1>7. (Completed(node, status) \subseteq done)'
  BY <1>2 DEF Completed, Inv, DraftInv
<1> QED BY <1>3, <1>4, <1>5, <1>6, <1>7 DEF Inv, PlanInv

LEMMA RefuseKeepsInv ==
  ASSUME Inv, Refuse
  PROVE  Inv'
<1>1. phase' = "idle" /\ UNCHANGED <<plan, done>>
  BY DEF Refuse, Forget
<1>2. TypeOK'
  BY <1>1 DEF Refuse, Forget, Inv, TypeOK, NoDeps, NoStatus, Status, plan
<1>3. SearchInv' /\ DraftInv'
  BY <1>1 DEF Refuse, Forget, SearchInv, DraftInv
<1>4. PlanInv'
  BY <1>1 DEF Inv, PlanInv, PlanIsAcyclic, Acyclic, OnlyCyclesAreRefused,
              FinishedAfterDependencies, Completed, plan
<1> QED BY <1>2, <1>3, <1>4 DEF Inv

LEMMA UpdateKeepsInv ==
  ASSUME Inv, NEW n \in Id, NEW s \in Status \ {"absent"}, Update(n, s)
  PROVE  Inv'
<1>1. /\ phase = "idle" /\ phase' = "idle" /\ n \in node
      /\ s \in {"in_progress", "complete"} => deps[n] \subseteq Completed(node, status)
      /\ status' = [status EXCEPT ![n] = s]
      /\ done' = IF s = "complete" THEN done \cup {n} ELSE done
      /\ UNCHANGED <<node, deps, draft, search>>
  BY DEF Update
<1>2. TypeOK'
  BY <1>1 DEF Inv, TypeOK, draft, search
<1>3. SearchInv' /\ DraftInv'
  BY <1>1 DEF Inv, SearchInv, DraftInv, draft, search
<1>4. PlanIsAcyclic' /\ OnlyCyclesAreRefused'
  BY <1>1 DEF Inv, PlanInv, PlanIsAcyclic, Acyclic, OnlyCyclesAreRefused
<1>5. deps \in [Id -> SUBSET Id] /\ status \in [Id -> Status] /\ node \subseteq Id
  BY DEF Inv, TypeOK
<1>6. Completed(node, status) \subseteq done /\ FinishedAfterDependencies
  BY DEF Inv, PlanInv
<1>7. Completed(node', status') \subseteq done'
  BY <1>1, <1>5, <1>6 DEF Completed
<1>8. FinishedAfterDependencies'
  <2> SUFFICES ASSUME NEW m \in node, status'[m] = "complete"
               PROVE  deps[m] \subseteq done'
    BY <1>1 DEF FinishedAfterDependencies
  <2>1. CASE m = n
    BY <1>1, <1>5, <1>6, <2>1
  <2>2. CASE m # n
    BY <1>1, <1>5, <1>6, <2>2 DEF FinishedAfterDependencies
  <2> QED BY <2>1, <2>2
<1> QED BY <1>2, <1>3, <1>4, <1>7, <1>8 DEF Inv, PlanInv

----------------------------------------------------------------------------
(* The tools start a search on a draft that keeps what was finished.       *)

\* What is common to decompose and replan.
LEMMA ValidateKeepsInv ==
  ASSUME Inv, phase = "idle", NEW N, NEW D, NEW S, NEW new, Validate(N, D, S, new),
         N \subseteq Id, D \in [Id -> SUBSET Id], S \in [Id -> Status], new \subseteq Id,
         \A n \in Id : (S[n] = "absent") <=> (n \notin N),
         \A n \in N : S[n] = "complete" => {n} \cup D[n] \subseteq (done \cap N) \ new,
         Consistent(node, deps, status) => Consistent(N, D, S),
         new = N \/ \A n \in Completed(node, status) : n \in Completed(N, S) /\ D[n] = deps[n]
  PROVE  Inv'
<1>1. /\ dNode' = N /\ dDeps' = D /\ dStatus' = S /\ dNew' = new
      /\ phase' = "visiting" /\ WellFormed(N, D)
      /\ UNCHANGED <<plan, search, done>>
  BY DEF Validate
<1>2. path = <<>> /\ visited = {}
  BY DEF Inv, SearchInv
<1>3. TypeOK'
  BY <1>1 DEF Inv, TypeOK, plan, search
<1>4. SearchInv'
  BY <1>1, <1>2 DEF SearchInv, WellFormed, Chain, Explored, Acyclic, search
<1>5. DraftInv'
  BY <1>1 DEF DraftInv, Consistent, Completed, plan
<1>6. PlanInv'
  BY <1>1 DEF Inv, PlanInv, PlanIsAcyclic, Acyclic, OnlyCyclesAreRefused,
              FinishedAfterDependencies, Completed, plan
<1> QED BY <1>3, <1>4, <1>5, <1>6 DEF Inv

LEMMA DecomposeKeepsInv ==
  ASSUME Inv, NEW list \in Proposals, Decompose(list)
  PROVE  Inv'
<1> DEFINE N == DOMAIN list
           D == [n \in Id |-> IF n \in DOMAIN list THEN list[n] ELSE {}]
           S == [n \in Id |-> IF n \in DOMAIN list THEN "pending" ELSE "absent"]
<1>1. N \subseteq Id /\ \A n \in N : list[n] \subseteq Id
  BY ListFacts, ProposalAssumption
<1>2. D \in [Id -> SUBSET Id] /\ S \in [Id -> Status]
  BY <1>1 DEF Status
<1>3. \A n \in Id : ((S[n] = "absent") <=> (n \notin N)) /\ S[n] # "complete"
  BY <1>1
<1>4. phase = "idle" /\ Validate(N, D, S, N)
  BY DEF Decompose
<1> HIDE DEF N, D, S
<1>5. Consistent(N, D, S)
  BY <1>1, <1>3 DEF Consistent
<1> QED BY <1>1, <1>2, <1>3, <1>4, <1>5, ValidateKeepsInv

LEMMA ReplanKeepsInv ==
  ASSUME Inv, NEW t \in Id, NEW list \in Branches, Replan(t, list)
  PROVE  Inv'
<1> DEFINE branch == Inherited(t, list)
           new == DOMAIN branch
           N == (node \ {t}) \cup new
           D == Rewired(t, branch)
           S == [n \in Id |-> IF n \in new THEN "pending"
                              ELSE IF n = t THEN "absent" ELSE status[n]]
<1>1. /\ phase = "idle" /\ t \in node /\ status[t] # "complete"
      /\ \A n \in Dependents(t) : status[n] # "complete"
      /\ DOMAIN list \cap (node \ {t}) = {}
      /\ Validate(N, D, S, new)
  BY DEF Replan, Replace
<1>2. new = DOMAIN list /\ new \subseteq Id /\ \A n \in new : branch[n] \subseteq Id
  BY ListFacts, ProposalAssumption DEF Inherited, Inv, TypeOK
<1>3. D \in [Id -> SUBSET Id]
  BY <1>2 DEF Rewired, Terminal, Inv, TypeOK
<1>4. N \subseteq Id /\ S \in [Id -> Status]
  BY <1>2 DEF Inv, TypeOK, Status
<1>5. \A n \in Id : (S[n] = "absent") <=> (n \notin N)
  BY <1>2 DEF Inv, TypeOK
<1>6. \A n \in N : S[n] = "complete" =>
        n \in node \ {t} /\ n \notin new /\ status[n] = "complete" /\ t \notin deps[n]
  BY <1>1, <1>2, <1>4 DEF Dependents
<1>7. \A n \in Completed(node, status) :
        n \in Completed(N, S) /\ D[n] = deps[n] /\ deps[n] \subseteq N
  <2> SUFFICES ASSUME NEW n \in Completed(node, status)
               PROVE  n \in Completed(N, S) /\ D[n] = deps[n] /\ deps[n] \subseteq N
    OBVIOUS
  <2>1. n \in node \ {t} /\ n \in Id /\ n \notin new /\ status[n] = "complete"
    BY <1>1, <1>2 DEF Completed, Inv, TypeOK
  <2>2. t \notin deps[n] /\ n \notin Dependents(t)
    BY <1>1, <2>1 DEF Dependents
  <2>3. D[n] = deps[n]
    BY <2>1, <2>2 DEF Rewired
  <2>4. deps[n] \subseteq N
    BY <2>1, <2>2 DEF Inv, PlanInv, PlanIsAcyclic
  <2> QED BY <2>1, <2>3, <2>4 DEF Completed
<1> HIDE DEF branch, N, D, S, new
<1>8. \A n \in N : S[n] = "complete" => n \in Completed(node, status)
  BY <1>6 DEF Completed
<1>9. \A n \in N : S[n] = "complete" => {n} \cup D[n] \subseteq (done \cap N) \ new
  <2> SUFFICES ASSUME NEW n \in N, S[n] = "complete"
               PROVE  {n} \cup D[n] \subseteq (done \cap N) \ new
    OBVIOUS
  <2>1. n \in Completed(node, status) /\ n \notin new /\ t \notin deps[n]
    BY <1>6, <1>8
  <2>2. n \in done /\ deps[n] \subseteq done /\ deps[n] \subseteq node \ {t}
    BY <2>1 DEF Inv, PlanInv, PlanIsAcyclic, FinishedAfterDependencies, Completed
  <2> QED BY <1>1, <1>2, <1>7, <2>1, <2>2
<1>10. Consistent(node, deps, status) => Consistent(N, D, S)
  <2> SUFFICES ASSUME Consistent(node, deps, status), NEW n \in N, S[n] = "complete"
               PROVE  D[n] \subseteq Completed(N, S)
    BY DEF Consistent
  <2>1. n \in Completed(node, status)
    BY <1>8
  <2>2. deps[n] \subseteq Completed(node, status)
    BY <2>1 DEF Consistent, Completed
  <2> QED BY <1>7, <2>1, <2>2
<1> QED BY <1>1, <1>2, <1>3, <1>4, <1>5, <1>7, <1>9, <1>10, ValidateKeepsInv

LEMMA InvStep == Inv /\ [Next]_vars => Inv'
<1> SUFFICES ASSUME Inv, [Next]_vars
             PROVE  Inv'
  OBVIOUS
<1>1. ASSUME NEW n \in Id, VisitRoot(n) \/ SkipVisited(n) \/ Descend(n) \/ FindCycle(n)
      PROVE  Inv'
  BY <1>1, RootKeepsInv, SkipKeepsInv, DescendKeepsInv, FindKeepsInv
<1>2. CASE Return \/ Adopt \/ Refuse
  BY <1>2, ReturnKeepsInv, AdoptKeepsInv, RefuseKeepsInv
<1>3. ASSUME NEW list \in Proposals, Decompose(list)
      PROVE  Inv'
  BY <1>3, DecomposeKeepsInv
<1>4. ASSUME NEW t \in Id, NEW list \in Branches, Replan(t, list)
      PROVE  Inv'
  BY <1>4, ReplanKeepsInv
<1>5. ASSUME NEW n \in Id, NEW s \in Status \ {"absent"}, Update(n, s)
      PROVE  Inv'
  BY <1>5, UpdateKeepsInv
<1>6. CASE UNCHANGED vars
  BY <1>6 DEF vars, plan, draft, search, Inv, TypeOK, SearchInv, DraftInv, PlanInv, PlanIsAcyclic,
     OnlyCyclesAreRefused, FinishedAfterDependencies, Acyclic, WellFormed, Chain, Explored,
     Consistent, Completed
<1> QED BY <1>1, <1>2, <1>3, <1>4, <1>5, <1>6 DEF Next, Visit

THEOREM Invariance == Spec => []Inv
<1>1. Inv /\ [Next]_vars => Inv'
  BY InvStep
<1> QED BY <1>1, InvInit, PTL DEF Spec

----------------------------------------------------------------------------
(* The theorems.                                                           *)

\* Every reachable state is well typed; only nodes of the plan have a status.
THEOREM TypeCorrect == Spec => []TypeOK
<1>1. Inv => TypeOK
  BY DEF Inv
<1> QED BY <1>1, Invariance, PTL

\* decompose and replan accept only graphs without cycles or unknown nodes.
THEOREM AcceptedPlansAreAcyclic == Spec => []PlanIsAcyclic
<1>1. Inv => PlanIsAcyclic
  BY DEF Inv, PlanInv
<1> QED BY <1>1, Invariance, PTL

\* They refuse a graph as cyclic only if it is.
THEOREM RefusedPlansAreCyclic == Spec => []OnlyCyclesAreRefused
<1>1. Inv => OnlyCyclesAreRefused
  BY DEF Inv, PlanInv
<1> QED BY <1>1, Invariance, PTL

\* readyNodes never leaves an unfinished plan with nothing to do.
THEOREM PlansAreNeverStuck == Spec => []NeverStuck
<1>1. Inv => NeverStuck
  BY AcyclicPlanIsNotStuck DEF Inv, PlanInv
<1> QED BY <1>1, Invariance, PTL

\* Work is completed in the order of its dependencies, whatever is reopened or
\* replanned on the way.
THEOREM DependenciesFinishFirst == Spec => []FinishedAfterDependencies
<1>1. Inv => FinishedAfterDependencies
  BY DEF Inv, PlanInv
<1> QED BY <1>1, Invariance, PTL

\* Every action but Adopt and Update leaves the plan alone.
LEMMA PlanChanges ==
  ASSUME [Next]_vars
  PROVE  \/ UNCHANGED plan
         \/ Adopt
         \/ \E n \in Id, s \in Status \ {"absent"} : Update(n, s)
<1>1. ASSUME NEW n \in Id, VisitRoot(n) \/ SkipVisited(n) \/ Descend(n) \/ FindCycle(n)
      PROVE  UNCHANGED plan
  BY <1>1 DEF VisitRoot, SkipVisited, Descend, FindCycle
<1>2. Return \/ Refuse => UNCHANGED plan
  BY DEF Return, Refuse
<1>3. ASSUME NEW list \in Proposals, Decompose(list)
      PROVE  UNCHANGED plan
  BY <1>3 DEF Decompose, Validate
<1>4. ASSUME NEW t \in Id, NEW list \in Branches, Replan(t, list)
      PROVE  UNCHANGED plan
  BY <1>4 DEF Replan, Replace, Validate
<1>5. UNCHANGED vars => UNCHANGED plan
  BY DEF vars
<1> QED BY <1>1, <1>2, <1>3, <1>4, <1>5 DEF Next, Visit

\* A completed node is left on an incomplete dependency by a reopening only.
THEOREM OnlyReopening == Spec => OnlyReopeningUndoes
<1>1. Inv /\ [Next]_vars =>
        (Consistent(node, deps, status) => Consistent(node', deps', status') \/ Reopens)
  <2> SUFFICES ASSUME Inv, [Next]_vars, Consistent(node, deps, status), ~Reopens
               PROVE  Consistent(node', deps', status')
    OBVIOUS
  <2>1. CASE UNCHANGED plan
    BY <2>1 DEF Consistent, Completed, plan
  <2>2. CASE Adopt
    BY <2>2 DEF Adopt, Inv, DraftInv
  <2>3. ASSUME NEW n \in Id, NEW s \in Status \ {"absent"}, Update(n, s)
        PROVE  Consistent(node', deps', status')
    <3>1. /\ n \in node /\ node' = node /\ deps' = deps
          /\ status' = [status EXCEPT ![n] = s]
          /\ s = "complete" => deps[n] \subseteq Completed(node, status)
      BY <2>3 DEF Update
    <3>2. status \in [Id -> Status] /\ node \subseteq Id
      BY DEF Inv, TypeOK
    <3>3. Completed(node, status) \subseteq Completed(node', status')
      BY <3>1, <3>2 DEF Reopens, Completed
    <3>4. ASSUME NEW m \in node, status'[m] = "complete"
          PROVE  deps[m] \subseteq Completed(node, status)
      BY <3>1, <3>2, <3>4 DEF Consistent
    <3> QED BY <3>1, <3>3, <3>4 DEF Consistent
  <2> QED BY <2>1, <2>2, <2>3, PlanChanges
<1> QED BY <1>1, Invariance, PTL DEF Spec, OnlyReopeningUndoes

\* Replanning never touches completed work.
THEOREM CompletedWorkIsKept == Spec => VerifiedWorkIsKept
<1>1. Inv /\ [Next]_vars =>
        \A n \in Completed(node, status) :
          \/ n \in Completed(node', status') /\ deps'[n] = deps[n]
          \/ Reopens \/ Replaced
  <2> SUFFICES ASSUME Inv, [Next]_vars, ~Reopens, ~Replaced, NEW n \in Completed(node, status)
               PROVE  n \in Completed(node', status') /\ deps'[n] = deps[n]
    OBVIOUS
  <2>1. CASE UNCHANGED plan
    BY <2>1 DEF Completed, plan
  <2>2. CASE Adopt
    BY <2>2 DEF Adopt, Replaced, Inv, DraftInv
  <2>3. CASE \E m \in Id, s \in Status \ {"absent"} : Update(m, s)
    BY <2>3 DEF Update, Reopens, Completed
  <2> QED BY <2>1, <2>2, <2>3, PlanChanges
<1> QED BY <1>1, Invariance, PTL DEF Spec, VerifiedWorkIsKept
============================================================================
