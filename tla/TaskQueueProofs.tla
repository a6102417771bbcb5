------------------------- MODULE TaskQueueProofs -------------------------
(***************************************************************************)
(* Theorems about TaskQueue, for every set of rows, servers and slots and  *)
(* every cap: typing and the worker cap; for servers that follow one       *)
(* another, that no row is started twice and that what was reported or     *)
(* cancelled stays; for servers that run at one time, that no row is       *)
(* forgotten by a live owner and no live work is taken from it.  At the    *)
(* end, that the queue implements the ledger of its tasks.                 *)
(***************************************************************************)
EXTENDS TaskQueue, FiniteSetTheorems, TLAPS

\* A promise in use knows its row, a claim being handed over has one, and an
\* outcome about to be written is one that the column may hold.
Shaped ==
  /\ \A p \in Process : drain[p] = "handing" => claimed[p] \in Task
  /\ \A e \in Exec : pc[e] # "idle" => job[e] \in Task
  /\ \A e \in Exec : pc[e] \in {"save", "fail"} => outcome[e] \in Reportable

\* Everything but the counters is of its type, and the promises are shaped.
ShapeInv == TableOK /\ MemoryOK /\ RunsOK /\ GhostsOK /\ Shaped

LEMMA ExecIsPair ==
  ASSUME NEW e \in Exec
  PROVE  e[1] \in Process /\ e[2] \in Slot /\ e = <<e[1], e[2]>>
BY DEF Exec

\* A rejected query leaves the row as it was, or as the query would have left it.
LEMMA RejectedQuery ==
  ASSUME ShapeInv, NEW e \in Exec, QueryFails(e)
  PROVE  /\ TableOK'
         /\ \A t \in Task : status'[t] \in {"absent", "queued"} => status[t] \in {"absent", "queued"}
         /\ \A t \in Task : runner'[t] = runner[t] \/ (pc[e] = "mark" /\ t = job[e] /\ runner'[t] = e[1])
<1>1. job[e] \in Task /\ e[1] \in Process /\ (pc[e] = "save" => outcome[e] \in Reportable)
  BY ExecIsPair DEF ShapeInv, Shaped, QueryFails
<1>2. CASE UNCHANGED table
  BY <1>2 DEF table, ShapeInv, TableOK
<1>3. CASE pc[e] = "mark" /\ MarkRow(job[e], Owner(e))
  BY <1>1, <1>3 DEF MarkRow, Owner, ShapeInv, TableOK, Status
<1>4. CASE pc[e] = "save" /\ SaveRow(job[e], outcome[e])
  BY <1>1, <1>4 DEF SaveRow, ShapeInv, TableOK, Status, Terminal, Reportable
<1>. QED
  BY <1>2, <1>3, <1>4 DEF QueryFails

LEMMA ShapeInit == Init => ShapeInv
BY DEF Init, ShapeInv, Shaped, TableOK, MemoryOK, RunsOK, GhostsOK, Status, Terminal, Reportable, PC

\* Every action keeps the types and the shape.
LEMMA ShapeStep == ShapeInv /\ [Next]_vars => ShapeInv'
<1> SUFFICES ASSUME ShapeInv, [Next]_vars
             PROVE  ShapeInv'
  OBVIOUS
<1> USE DEF ShapeInv, Shaped, TableOK, MemoryOK, RunsOK, GhostsOK
<1>1. ASSUME NEW p \in Process, Start(p)
     PROVE  ShapeInv'
  BY <1>1 DEF Start, runs, ghosts, table
<1>2. ASSUME NEW p \in Process, ReconcileInterrupt(p)
     PROVE  ShapeInv'
  BY <1>2 DEF ReconcileInterrupt, runs, ghosts, Status, Terminal, Reportable
<1>3. ASSUME NEW p \in Process, ReconcileRelease(p)
     PROVE  ShapeInv'
  BY <1>3 DEF ReconcileRelease, runs, ghosts
<1>4. ASSUME NEW p \in Process, DrainQueue(p)
     PROVE  ShapeInv'
  BY <1>4 DEF DrainQueue, table, runs, ghosts
<1>5. ASSUME NEW p \in Process, ClaimNext(p)
     PROVE  ShapeInv'
  BY <1>5 DEF ClaimNext, runs, ghosts, Unclaimed
<1>6. ASSUME NEW p \in Process, ClaimNothing(p)
     PROVE  ShapeInv'
  BY <1>6 DEF ClaimNothing, table, runs, ghosts
<1>7. ASSUME NEW p \in Process, Launch(p)
     PROVE  ShapeInv'
  BY <1>7 DEF Launch, PC, table, ghosts
<1>8. ASSUME NEW p \in Process, Crash(p)
     PROVE  ShapeInv'
  BY <1>8 DEF Crash, table, ghosts, PC, Owner
<1>9. ASSUME NEW p \in Process, ClaimFails(p)
     PROVE  ShapeInv'
  BY <1>9 DEF ClaimFails, runs, ghosts, Unclaimed
<1>10. ASSUME NEW p \in Process, NEW t \in Task, CancelRequest(p, t)
     PROVE  ShapeInv'
  BY <1>10 DEF CancelRequest, table, ghosts, Owner
<1>11. ASSUME NEW p \in Process, NEW t \in Task, CancelCommit(p, t)
     PROVE  ShapeInv'
  BY <1>11 DEF CancelCommit, Cancellable, runs, Status, Terminal, Reportable
<1>12. ASSUME NEW e \in Exec, Acquire(e)
     PROVE  ShapeInv'
  BY ExecIsPair, <1>12 DEF Acquire, PC, Owner, table, ghosts
<1>13. ASSUME NEW e \in Exec, CheckCancelled(e)
     PROVE  ShapeInv'
  BY ExecIsPair, <1>13 DEF CheckCancelled, PC, Finally, Owner, table, ghosts
<1>14. ASSUME NEW e \in Exec, CheckLive(e)
     PROVE  ShapeInv'
  BY <1>14 DEF CheckLive, PC, table, memory, ghosts
<1>15. ASSUME NEW e \in Exec, Mark(e)
     PROVE  ShapeInv'
  BY ExecIsPair, <1>15 DEF Mark, MarkRow, PC, Status, Terminal, Owner, memory
<1>16. ASSUME NEW e \in Exec, WorkerThrows(e)
     PROVE  ShapeInv'
  BY <1>16 DEF WorkerThrows, PC, CatchStatus, Reportable, table, memory, ghosts
<1>17. ASSUME NEW e \in Exec, Save(e)
     PROVE  ShapeInv'
  BY ExecIsPair, <1>17 DEF Save, SaveRow, ghosts, Status, Terminal, Reportable, PC, Finally, Owner
<1>18. ASSUME NEW e \in Exec, Fail(e)
     PROVE  ShapeInv'
  BY ExecIsPair, <1>18 DEF Fail, ghosts, Status, Terminal, Reportable, PC, Finally, Owner
<1>19. ASSUME NEW e \in Exec, Settle(e)
     PROVE  ShapeInv'
  BY ExecIsPair, <1>19 DEF Settle, PC, table, ghosts, Owner
<1>20. ASSUME NEW e \in Exec, Beat(e)
     PROVE  ShapeInv'
  BY <1>20 DEF Beat, memory, runs, ghosts
<1>21. ASSUME NEW e \in Exec, LoadFails(e)
     PROVE  ShapeInv'
  BY <1>21 DEF LoadFails, PC, table, memory, ghosts
<1>22. ASSUME NEW e \in Exec, QueryFails(e)
     PROVE  ShapeInv'
  <2>1. TableOK'
    BY <1>22, RejectedQuery
  <2>2. /\ pc' = [pc EXCEPT ![e] = "fail"]
        /\ outcome' = [outcome EXCEPT ![e] = CatchStatus(e)]
        /\ UNCHANGED <<memory, job, aborted, ghosts>> /\ pc[e] # "idle"
    BY <1>22 DEF QueryFails
  <2>. QED
    BY <2>1, <2>2 DEF PC, CatchStatus, Reportable, memory, ghosts
<1>23. ASSUME NEW e \in Exec, NEW o \in Outcomes \cup {"cancelled"}, WorkerReturns(e, o)
     PROVE  ShapeInv'
  BY OutcomeAssumption, <1>23 DEF WorkerReturns, PC, Reportable, table, memory, ghosts
<1>24. ASSUME NEW t \in Task, Create(t)
     PROVE  ShapeInv'
  BY <1>24 DEF Create, memory, runs, ghosts, Status
<1>25. ASSUME NEW t \in Task, HeartbeatLapses(t)
     PROVE  ShapeInv'
  BY <1>25 DEF HeartbeatLapses, memory, runs, ghosts
<1>27. ASSUME NEW p \in Process, NEW t \in Task, CancelFails(p, t)
     PROVE  ShapeInv'
  BY <1>27 DEF CancelFails, Cancellable, runs, ghosts, Status, Terminal, Reportable
<1>28. ASSUME NEW p \in Process, ReconcileFails(p)
     PROVE  ShapeInv'
  BY <1>28 DEF ReconcileFails, table, runs, ghosts
<1>26. CASE UNCHANGED vars
  BY <1>26 DEF vars, table, memory, runs, ghosts
<1>. QED
  BY <1>1, <1>2, <1>3, <1>4, <1>5, <1>6, <1>7, <1>8, <1>9, <1>10, <1>11, <1>12, <1>13,
     <1>14, <1>15, <1>16, <1>17, <1>18, <1>19, <1>20, <1>21, <1>22, <1>23, <1>24, <1>25, <1>26,
     <1>27, <1>28
  DEF Next, ServerStep, ExecStep, Fault

----------------------------------------------------------------------------
(* The cap on workers.                                                     *)

\* drainQueue asks for a row only while it has room for it, so a claim in
\* flight always finds the counter below the cap.
RoomInv ==
  /\ CountersOK
  /\ \A p \in Process : Counted(p)
  /\ \A p \in Process : inFlight[p] <= MaxLocalWorkers
  /\ \A p \in Process : drain[p] # "idle" => inFlight[p] < MaxLocalWorkers

LEMMA SlotSets ==
  ASSUME NEW p \in Process
  PROVE  /\ IsFiniteSet(Busy(p)) /\ Cardinality(Busy(p)) \in Nat
         /\ IsFiniteSet(Held(p)) /\ Cardinality(Held(p)) \in Nat
         /\ Held(p) \subseteq Busy(p) /\ Cardinality(Held(p)) <= Cardinality(Busy(p))
<1>1. Busy(p) \in SUBSET Slot /\ Held(p) \in SUBSET Busy(p)
  BY DEF Busy, Held, Holding
<1>2. IsFiniteSet(Busy(p))
  BY <1>1, FS_Subset, SlotAssumption
<1>. QED
  BY <1>1, <1>2, FS_Subset, FS_CardinalityType

\* What a step of one promise does to the sets of slots in use and held.
LEMMA SlotsChange ==
  ASSUME RunsOK, NEW e \in Exec, NEW v \in PC, pc' = [pc EXCEPT ![e] = v]
  PROVE  /\ \A q \in Process \ {e[1]} : Busy(q)' = Busy(q) /\ Held(q)' = Held(q)
         /\ Busy(e[1])' = IF v = "idle" THEN Busy(e[1]) \ {e[2]} ELSE Busy(e[1]) \cup {e[2]}
         /\ Held(e[1])' = IF v \in Holding THEN Held(e[1]) \cup {e[2]} ELSE Held(e[1]) \ {e[2]}
         /\ e[2] \in Busy(e[1]) <=> pc[e] # "idle"
         /\ e[2] \in Held(e[1]) <=> pc[e] \in Holding
<1>1. \A q \in Process, s \in Slot : pc'[<<q, s>>] = IF <<q, s>> = e THEN v ELSE pc[<<q, s>>]
  BY DEF RunsOK, Exec
<1>2. e[1] \in Process /\ e[2] \in Slot /\ e = <<e[1], e[2]>>
  BY ExecIsPair
<1>3. \A q \in Process \ {e[1]} : Busy(q)' = Busy(q) /\ Held(q)' = Held(q)
  BY <1>1, <1>2 DEF Busy, Held
<1>4. \A s \in Slot : pc'[<<e[1], s>>] = IF s = e[2] THEN v ELSE pc[<<e[1], s>>]
  BY <1>1, <1>2
<1>. QED
  BY <1>2, <1>3, <1>4 DEF Busy, Held

\* The same in numbers: what happens to the two counts of each process.
Tally(e, v) ==
  /\ \A q \in Process \ {e[1]} : /\ Cardinality(Busy(q))' = Cardinality(Busy(q))
                              /\ Cardinality(Held(q))' = Cardinality(Held(q))
  /\ Cardinality(Busy(e[1]))' = Cardinality(Busy(e[1]))
       + (IF v = "idle" THEN 0 ELSE 1) - (IF pc[e] = "idle" THEN 0 ELSE 1)
  /\ Cardinality(Held(e[1]))' = Cardinality(Held(e[1]))
       + (IF v \in Holding THEN 1 ELSE 0) - (IF pc[e] \in Holding THEN 1 ELSE 0)

LEMMA CountChange ==
  ASSUME RunsOK, NEW e \in Exec, NEW v \in PC, pc' = [pc EXCEPT ![e] = v]
  PROVE  Tally(e, v)
<1> DEFINE p == e[1]
<1>1. p \in Process
  BY ExecIsPair
<1>2. IsFiniteSet(Busy(p)) /\ IsFiniteSet(Held(p))
      /\ Cardinality(Busy(p)) \in Nat /\ Cardinality(Held(p)) \in Nat
  BY <1>1, SlotSets
<1>0. (e[2] \in Busy(p) <=> pc[e] # "idle") /\ (e[2] \in Held(p) <=> pc[e] \in Holding)
  BY SlotsChange
<1>3. \A q \in Process \ {p} : /\ Cardinality(Busy(q))' = Cardinality(Busy(q))
                              /\ Cardinality(Held(q))' = Cardinality(Held(q))
  BY SlotsChange
<1>4. Cardinality(Busy(p))' = Cardinality(Busy(p))
              + (IF v = "idle" THEN 0 ELSE 1) - (IF pc[e] = "idle" THEN 0 ELSE 1)
  <2>1. CASE v = "idle"
    <3>1. Busy(p)' = Busy(p) \ {e[2]}
      BY <2>1, SlotsChange
    <3>3. Cardinality(Busy(p))' = Cardinality(Busy(p) \ {e[2]})
      BY <3>1, Zenon
    <3>2. Cardinality(Busy(p) \ {e[2]})
            = IF e[2] \in Busy(p) THEN Cardinality(Busy(p)) - 1 ELSE Cardinality(Busy(p))
      BY <1>2, FS_RemoveElement
    <3>. QED BY <1>2, <2>1, <3>2, <3>3, <1>0
  <2>2. CASE v # "idle"
    <3>1. Busy(p)' = Busy(p) \cup {e[2]}
      BY <2>2, SlotsChange
    <3>3. Cardinality(Busy(p))' = Cardinality(Busy(p) \cup {e[2]})
      BY <3>1, Zenon
    <3>2. Cardinality(Busy(p) \cup {e[2]})
            = IF e[2] \in Busy(p) THEN Cardinality(Busy(p)) ELSE Cardinality(Busy(p)) + 1
      BY <1>2, FS_AddElement
    <3>. QED BY <1>2, <2>2, <3>2, <3>3, <1>0
  <2>. QED BY <2>1, <2>2
<1>5. Cardinality(Held(p))' = Cardinality(Held(p))
              + (IF v \in Holding THEN 1 ELSE 0) - (IF pc[e] \in Holding THEN 1 ELSE 0)
  <2>1. CASE v \notin Holding
    <3>1. Held(p)' = Held(p) \ {e[2]}
      BY <2>1, SlotsChange
    <3>3. Cardinality(Held(p))' = Cardinality(Held(p) \ {e[2]})
      BY <3>1, Zenon
    <3>2. Cardinality(Held(p) \ {e[2]})
            = IF e[2] \in Held(p) THEN Cardinality(Held(p)) - 1 ELSE Cardinality(Held(p))
      BY <1>2, FS_RemoveElement
    <3>. QED BY <1>2, <2>1, <3>2, <3>3, <1>0
  <2>2. CASE v \in Holding
    <3>1. Held(p)' = Held(p) \cup {e[2]}
      BY <2>2, SlotsChange
    <3>3. Cardinality(Held(p))' = Cardinality(Held(p) \cup {e[2]})
      BY <3>1, Zenon
    <3>2. Cardinality(Held(p) \cup {e[2]})
            = IF e[2] \in Held(p) THEN Cardinality(Held(p)) ELSE Cardinality(Held(p)) + 1
      BY <1>2, FS_AddElement
    <3>. QED BY <1>2, <2>2, <3>2, <3>3, <1>0
  <2>. QED BY <2>1, <2>2
<1>. QED BY <1>3, <1>4, <1>5 DEF Tally

\* A step of a promise that keeps within, or leaves alone, the counted regions.
LEMMA RoomKept ==
  ASSUME ShapeInv, RoomInv, NEW e \in Exec, NEW v \in PC, pc' = [pc EXCEPT ![e] = v],
         UNCHANGED <<inFlight, drain, active>>, pc[e] # "idle", v # "idle",
         v \in Holding <=> pc[e] \in Holding
  PROVE  RoomInv'
<1>1. Tally(e, v)
  BY CountChange DEF ShapeInv
<1>2. e[1] \in Process /\ \A q \in Process : Cardinality(Busy(q)) \in Nat /\ Cardinality(Held(q)) \in Nat
  BY ExecIsPair, SlotSets
<1>3. \A q \in Process : /\ Cardinality(Busy(q))' = Cardinality(Busy(q))
                       /\ Cardinality(Held(q))' = Cardinality(Held(q))
  BY <1>1, <1>2 DEF Tally
<1>. QED
  BY <1>3 DEF RoomInv, CountersOK, Counted

\* The finally block gives back one held slot.
LEMMA RoomFinally ==
  ASSUME ShapeInv, RoomInv, NEW e \in Exec, pc[e] \in Holding, Finally(e),
         UNCHANGED <<inFlight, drain>>
  PROVE  RoomInv'
<1>1. e[1] \in Process /\ Cardinality(Held(e[1])) \in Nat /\ Cardinality(Busy(e[1])) \in Nat
  BY ExecIsPair, SlotSets
<1>2. "settled" \in PC /\ "settled" \notin Holding /\ pc[e] # "idle"
      /\ pc' = [pc EXCEPT ![e] = "settled"] /\ active' = [active EXCEPT ![e[1]] = @ - 1]
  BY DEF PC, Holding, Finally, Owner
<1>3. /\ \A q \in Process \ {e[1]} : /\ Cardinality(Busy(q))' = Cardinality(Busy(q))
                                    /\ Cardinality(Held(q))' = Cardinality(Held(q))
      /\ Cardinality(Busy(e[1]))' = Cardinality(Busy(e[1]))
      /\ Cardinality(Held(e[1]))' = Cardinality(Held(e[1])) - 1
  <2>1. Tally(e, "settled")
    BY <1>2, CountChange DEF ShapeInv
  <2>. QED
    BY <1>1, <1>2, <2>1 DEF Tally
<1>4. e[2] \in Held(e[1])
  BY SlotsChange, <1>2 DEF ShapeInv
<1>5. Cardinality(Held(e[1])) # 0
  BY <1>1, <1>4, SlotSets, FS_EmptySet
<1>. QED
  BY <1>1, <1>2, <1>3, <1>5 DEF RoomInv, CountersOK, Counted

\* A step that moves neither promises nor counters, and starts no drain.
LEMMA RoomUntouched ==
  ASSUME RoomInv, UNCHANGED <<pc, inFlight, active>>,
         \A p \in Process : drain'[p] # "idle" => drain[p] # "idle"
  PROVE  RoomInv'
BY DEF RoomInv, CountersOK, Counted, Busy, Held

LEMMA RoomInit == Init => RoomInv
<1> SUFFICES ASSUME Init PROVE RoomInv
  OBVIOUS
<1>1. \A p \in Process : Busy(p) = {} /\ Held(p) = {}
  BY DEF Init, Busy, Held, Holding, Exec
<1>2. \A p \in Process : Cardinality(Busy(p)) = 0 /\ Cardinality(Held(p)) = 0
  BY <1>1, FS_EmptySet, Zenon
<1>. QED
  BY <1>2, WorkersAssumption DEF Init, RoomInv, CountersOK, Counted

LEMMA RoomStep == ShapeInv /\ RoomInv /\ [Next]_vars => RoomInv'
<1> SUFFICES ASSUME ShapeInv, RoomInv, [Next]_vars
             PROVE  RoomInv'
  OBVIOUS
<1>1. ASSUME NEW p \in Process, Start(p)
     PROVE  RoomInv'
  BY <1>1, RoomUntouched DEF Start, table, runs, ghosts
<1>2. ASSUME NEW p \in Process, ReconcileInterrupt(p)
     PROVE  RoomInv'
  BY <1>2, RoomUntouched DEF ReconcileInterrupt, runs, ghosts
<1>3. ASSUME NEW p \in Process, ReconcileRelease(p)
     PROVE  RoomInv'
  BY <1>3, RoomUntouched DEF ReconcileRelease, runs, ghosts
<1>4. ASSUME NEW p \in Process, DrainQueue(p)
     PROVE  RoomInv'
  BY <1>4 DEF DrainQueue, runs, RoomInv, CountersOK, Counted, Busy, Held, ShapeInv, MemoryOK
<1>5. ASSUME NEW p \in Process, ClaimNext(p)
     PROVE  RoomInv'
  BY <1>5, RoomUntouched DEF ClaimNext, runs, ghosts, ShapeInv, MemoryOK
<1>6. ASSUME NEW p \in Process, ClaimNothing(p)
     PROVE  RoomInv'
  BY <1>6, RoomUntouched DEF ClaimNothing, table, runs, ghosts, ShapeInv, MemoryOK
<1>7. ASSUME NEW p \in Process, Launch(p)
     PROVE  RoomInv'
  <2>1. PICK s \in Slot : pc[<<p, s>>] = "idle" /\ pc' = [pc EXCEPT ![<<p, s>>] = "load"]
    BY <1>7 DEF Launch, FreeSlot
  <2>2. <<p, s>> \in Exec /\ <<p, s>>[1] = p /\ "load" \in PC /\ "load" \notin Holding
        /\ "idle" \notin Holding
    BY DEF Exec, PC, Holding
  <2>3. /\ \A q \in Process \ {p} : /\ Cardinality(Busy(q))' = Cardinality(Busy(q))
                                     /\ Cardinality(Held(q))' = Cardinality(Held(q))
        /\ Cardinality(Busy(p))' = Cardinality(Busy(p)) + 1
        /\ Cardinality(Held(p))' = Cardinality(Held(p))
    <3>1. Tally(<<p, s>>, "load")
      BY <2>1, <2>2, CountChange DEF ShapeInv
    <3>2. Cardinality(Busy(p)) \in Nat /\ Cardinality(Held(p)) \in Nat
      BY <2>1, SlotSets
    <3>. QED
      BY <2>1, <2>2, <3>1, <3>2 DEF Tally
  <2>4. /\ drain[p] = "handing" /\ UNCHANGED active
        /\ inFlight' = [inFlight EXCEPT ![p] = @ + 1]
        /\ drain' = [drain EXCEPT ![p] = IF inFlight[p] + 1 < MaxLocalWorkers THEN "asking" ELSE "idle"]
    BY <1>7 DEF Launch
  <2>. QED
    BY <2>3, <2>4, WorkersAssumption DEF RoomInv, CountersOK, Counted, ShapeInv, MemoryOK
<1>8. ASSUME NEW p \in Process, Crash(p)
     PROVE  RoomInv'
  <2>1. \A q \in Process, s \in Slot :
          pc'[<<q, s>>] = IF q = p THEN "idle" ELSE pc[<<q, s>>]
    BY <1>8 DEF Crash, Exec, Owner
  <2>2. /\ \A q \in Process \ {p} : Busy(q)' = Busy(q) /\ Held(q)' = Held(q)
        /\ Busy(p)' = {} /\ Held(p)' = {}
    BY <2>1 DEF Busy, Held, Holding
  <2>3. /\ \A q \in Process \ {p} : /\ Cardinality(Busy(q))' = Cardinality(Busy(q))
                                     /\ Cardinality(Held(q))' = Cardinality(Held(q))
        /\ Cardinality(Busy(p))' = 0 /\ Cardinality(Held(p))' = 0
    BY <2>2, FS_EmptySet, Zenon
  <2>. QED
    BY <1>8, <2>3, WorkersAssumption
       DEF Crash, RoomInv, CountersOK, Counted, ShapeInv, MemoryOK
<1>9. ASSUME NEW p \in Process, ClaimFails(p)
     PROVE  RoomInv'
  BY <1>9, RoomUntouched DEF ClaimFails, runs, ghosts, ShapeInv, MemoryOK
<1>10. ASSUME NEW p \in Process, NEW t \in Task, CancelRequest(p, t)
     PROVE  RoomInv'
  BY <1>10, RoomUntouched DEF CancelRequest, table, ghosts
<1>11. ASSUME NEW p \in Process, NEW t \in Task, CancelCommit(p, t)
     PROVE  RoomInv'
  BY <1>11, RoomUntouched DEF CancelCommit, runs
<1>12. ASSUME NEW e \in Exec, Acquire(e)
     PROVE  RoomInv'
  <2>1. e[1] \in Process /\ "check" \in PC /\ "check" \in Holding /\ "load" \notin Holding
    BY ExecIsPair DEF PC, Holding
  <2>2. /\ pc[e] = "load" /\ pc' = [pc EXCEPT ![e] = "check"]
        /\ active' = [active EXCEPT ![e[1]] = @ + 1] /\ UNCHANGED <<inFlight, drain>>
    BY <1>12 DEF Acquire, Owner
  <2>3. /\ \A q \in Process \ {e[1]} : /\ Cardinality(Busy(q))' = Cardinality(Busy(q))
                                       /\ Cardinality(Held(q))' = Cardinality(Held(q))
        /\ Cardinality(Busy(e[1]))' = Cardinality(Busy(e[1]))
        /\ Cardinality(Held(e[1]))' = Cardinality(Held(e[1])) + 1
    <3>1. Tally(e, "check")
      BY <2>1, <2>2, CountChange DEF ShapeInv
    <3>2. Cardinality(Busy(e[1])) \in Nat /\ Cardinality(Held(e[1])) \in Nat
      BY <2>1, SlotSets
    <3>. QED
      BY <2>1, <2>2, <3>1, <3>2 DEF Tally
  <2>. QED
    BY <2>1, <2>2, <2>3 DEF RoomInv, CountersOK, Counted
<1>13. ASSUME NEW e \in Exec, CheckCancelled(e)
     PROVE  RoomInv'
  BY <1>13, RoomFinally DEF CheckCancelled, Holding
<1>14. ASSUME NEW e \in Exec, CheckLive(e)
     PROVE  RoomInv'
  BY <1>14, RoomKept DEF CheckLive, memory, PC, Holding
<1>15. ASSUME NEW e \in Exec, Mark(e)
     PROVE  RoomInv'
  BY <1>15, RoomKept DEF Mark, MarkRow, memory, PC, Holding
<1>16. ASSUME NEW e \in Exec, WorkerThrows(e)
     PROVE  RoomInv'
  BY <1>16, RoomKept DEF WorkerThrows, memory, PC, Holding
<1>17. ASSUME NEW e \in Exec, Save(e)
     PROVE  RoomInv'
  BY <1>17, RoomFinally DEF Save, SaveRow, Holding
<1>18. ASSUME NEW e \in Exec, Fail(e)
     PROVE  RoomInv'
  BY <1>18, RoomFinally DEF Fail, Holding
<1>19. ASSUME NEW e \in Exec, Settle(e)
     PROVE  RoomInv'
  <2>1. e[1] \in Process /\ "idle" \in PC /\ "idle" \notin Holding /\ "settled" \notin Holding
    BY ExecIsPair DEF PC, Holding
  <2>2. /\ pc[e] = "settled" /\ pc' = [pc EXCEPT ![e] = "idle"]
        /\ inFlight' = [inFlight EXCEPT ![e[1]] = @ - 1] /\ UNCHANGED <<active, drain>>
    BY <1>19 DEF Settle, Owner
  <2>3. /\ \A q \in Process \ {e[1]} : /\ Cardinality(Busy(q))' = Cardinality(Busy(q))
                                       /\ Cardinality(Held(q))' = Cardinality(Held(q))
        /\ Cardinality(Busy(e[1]))' = Cardinality(Busy(e[1])) - 1
        /\ Cardinality(Held(e[1]))' = Cardinality(Held(e[1]))
    <3>1. Tally(e, "idle")
      BY <2>1, <2>2, CountChange DEF ShapeInv
    <3>2. Cardinality(Busy(e[1])) \in Nat /\ Cardinality(Held(e[1])) \in Nat
      BY <2>1, SlotSets
    <3>. QED
      BY <2>1, <2>2, <3>1, <3>2 DEF Tally
  <2>4. e[2] \in Busy(e[1])
    BY <2>1, <2>2, SlotsChange DEF ShapeInv
  <2>5. Cardinality(Busy(e[1])) \in Nat /\ Cardinality(Busy(e[1])) # 0
    BY <2>1, <2>4, SlotSets, FS_EmptySet
  <2>. QED
    BY <2>1, <2>2, <2>3, <2>5, WorkersAssumption DEF RoomInv, CountersOK, Counted
<1>20. ASSUME NEW e \in Exec, Beat(e)
     PROVE  RoomInv'
  BY <1>20, RoomUntouched DEF Beat, memory, runs, ghosts
<1>21. ASSUME NEW e \in Exec, LoadFails(e)
     PROVE  RoomInv'
  BY <1>21, RoomKept DEF LoadFails, memory, PC, Holding
<1>22. ASSUME NEW e \in Exec, QueryFails(e)
     PROVE  RoomInv'
  BY <1>22, RoomKept DEF QueryFails, memory, PC, Holding
<1>23. ASSUME NEW e \in Exec, NEW o \in Outcomes \cup {"cancelled"}, WorkerReturns(e, o)
     PROVE  RoomInv'
  BY <1>23, RoomKept DEF WorkerReturns, memory, PC, Holding
<1>24. ASSUME NEW t \in Task, Create(t)
     PROVE  RoomInv'
  BY <1>24, RoomUntouched DEF Create, memory, runs, ghosts
<1>25. ASSUME NEW t \in Task, HeartbeatLapses(t)
     PROVE  RoomInv'
  BY <1>25, RoomUntouched DEF HeartbeatLapses, memory, runs, ghosts
<1>27. ASSUME NEW p \in Process, NEW t \in Task, CancelFails(p, t)
     PROVE  RoomInv'
  BY <1>27, RoomUntouched DEF CancelFails, runs
<1>28. ASSUME NEW p \in Process, ReconcileFails(p)
     PROVE  RoomInv'
  BY <1>28, RoomUntouched DEF ReconcileFails, runs
<1>26. CASE UNCHANGED vars
  BY <1>26, RoomUntouched DEF vars, memory, runs
<1>. QED
  BY <1>1, <1>2, <1>3, <1>4, <1>5, <1>6, <1>7, <1>8, <1>9, <1>10, <1>11, <1>12, <1>13,
     <1>14, <1>15, <1>16, <1>17, <1>18, <1>19, <1>20, <1>21, <1>22, <1>23, <1>24, <1>25, <1>26,
     <1>27, <1>28
  DEF Next, ServerStep, ExecStep, Fault

\* The types, the shape and the counters together are inductive.
LEMMA SlotsInvariant == Spec => [](ShapeInv /\ RoomInv)
<1>1. Init => ShapeInv /\ RoomInv
  BY ShapeInit, RoomInit
<1>2. (ShapeInv /\ RoomInv) /\ [Next]_vars => (ShapeInv /\ RoomInv)'
  BY ShapeStep, RoomStep
<1>. QED
  BY <1>1, <1>2, PTL DEF Spec

\* Every variable keeps to its type: in particular no counter of worker slots
\* goes below zero, whatever fails and crashes.
THEOREM TypeCorrect == Spec => []TypeOK
<1>1. ShapeInv /\ RoomInv => TypeOK
  BY DEF ShapeInv, RoomInv, TypeOK
<1>. QED
  BY <1>1, SlotsInvariant, PTL

\* The worker cap of routes/tasks.ts:363-366 holds for every cap and any
\* number of servers, crashes and rejected queries.
THEOREM CapIsRespected == Spec => []CapRespected
<1>1. ShapeInv /\ RoomInv => CapRespected
  BY SlotSets DEF RoomInv, CapRespected, CountersOK, Counted
<1>. QED
  BY <1>1, SlotsInvariant, PTL

\* TaskRunner.acquire always finds a slot: a claimed row never waits in memory.
THEOREM AcquireFindsASlot == Spec => []AcquireNeverWaits
<1>1. ASSUME ShapeInv, RoomInv, NEW e \in Exec, pc[e] = "load"
      PROVE  active[e[1]] < MaxLocalWorkers
  <2>1. e[1] \in Process /\ e[2] \in Slot /\ e = <<e[1], e[2]>>
    BY ExecIsPair
  <2>2. e[2] \in Busy(e[1]) /\ e[2] \notin Held(e[1])
    BY <1>1, <2>1 DEF Busy, Held, Holding
  <2>3. Cardinality(Held(e[1])) < Cardinality(Busy(e[1]))
    BY <2>1, <2>2, SlotSets, FS_Subset
  <2>. QED
    BY <1>1, <2>1, <2>3, WorkersAssumption DEF RoomInv, CountersOK, Counted
<1>2. ShapeInv /\ RoomInv => AcquireNeverWaits
  BY <1>1 DEF AcquireNeverWaits, Owner
<1>. QED
  BY <1>2, SlotsInvariant, PTL

----------------------------------------------------------------------------
(* Servers that follow one another start a row at most once.               *)

LEMMA OneClaimInit == Init => OneClaimPerRow
<1> SUFFICES ASSUME Init PROVE OneClaimPerRow
  OBVIOUS
<1>. QED
  BY DEF Init, OneClaimPerRow, HandedBy, StartedBy, Starting, AtMostOneStart, Exec

LEMMA OneClaimStep ==
  ASSUME ConcurrentServers = FALSE
  PROVE  ShapeInv /\ OneClaimPerRow /\ [Next]_vars => OneClaimPerRow'
<1> SUFFICES ASSUME ShapeInv, OneClaimPerRow, [Next]_vars
             PROVE  OneClaimPerRow'
  OBVIOUS
<1> USE DEF ShapeInv, Shaped, TableOK, MemoryOK, RunsOK, GhostsOK, OneClaimPerRow,
            AtMostOneStart, HandedBy, StartedBy, Starting, Owner
<1>1. ASSUME NEW p \in Process, Start(p)
     PROVE  OneClaimPerRow'
  BY ExecIsPair, NoneAssumption, OutcomeAssumption, <1>1 DEF Start, runs, ghosts, table
<1>2. ASSUME NEW p \in Process, ReconcileInterrupt(p)
     PROVE  OneClaimPerRow'
  BY ExecIsPair, NoneAssumption, OutcomeAssumption, <1>2 DEF ReconcileInterrupt, runs, ghosts
<1>3. ASSUME NEW p \in Process, ReconcileRelease(p)
     PROVE  OneClaimPerRow'
  BY ExecIsPair, NoneAssumption, OutcomeAssumption, <1>3 DEF ReconcileRelease, runs, ghosts
<1>4. ASSUME NEW p \in Process, DrainQueue(p)
     PROVE  OneClaimPerRow'
  BY ExecIsPair, NoneAssumption, OutcomeAssumption, <1>4 DEF DrainQueue, table, runs, ghosts
<1>5. ASSUME NEW p \in Process, ClaimNext(p)
     PROVE  OneClaimPerRow'
  BY ExecIsPair, NoneAssumption, OutcomeAssumption, <1>5 DEF ClaimNext, runs, ghosts, Unclaimed
<1>6. ASSUME NEW p \in Process, ClaimNothing(p)
     PROVE  OneClaimPerRow'
  BY ExecIsPair, NoneAssumption, OutcomeAssumption, <1>6 DEF ClaimNothing, table, runs, ghosts
<1>7. ASSUME NEW p \in Process, Launch(p)
     PROVE  OneClaimPerRow'
  <2>1. PICK s \in Slot :
          /\ pc[<<p, s>>] = "idle"
          /\ pc' = [pc EXCEPT ![<<p, s>>] = "load"]
          /\ job' = [job EXCEPT ![<<p, s>>] = claimed[p]]
    BY <1>7 DEF Launch, FreeSlot
  <2>2. PICK n \in Exec : /\ n[1] = p
                         /\ pc' = [pc EXCEPT ![n] = "load"]
                         /\ job' = [job EXCEPT ![n] = claimed[p]]
    BY <2>1, <<p, s>> \in Exec DEF Exec
  <2>3. /\ drain[p] = "handing" /\ claimed[p] \in Task /\ up[p] = "up"
        /\ drain'[p] # "handing" /\ \A q \in Process \ {p} : drain'[q] = drain[q] /\ claimed'[q] = claimed[q]
        /\ UNCHANGED <<status, runner, up, starts>>
    BY <1>7 DEF Launch, table, ghosts
  <2>4. /\ pc'[n] = "load" /\ job'[n] = claimed[p]
        /\ \A f \in Exec \ {n} : pc'[f] = pc[f] /\ job'[f] = job[f]
    BY <2>2
  <2>5. /\ \A t \in Task : StartedBy(n, t)' => HandedBy(p, t)
        /\ \A e \in Exec \ {n}, t \in Task : StartedBy(e, t)' => StartedBy(e, t)
    BY <2>3, <2>4
  <2>6. \A q \in Process, t \in Task : HandedBy(q, t)' => q # p /\ HandedBy(q, t)
    BY <2>3
  <2>7. \A q \in Process : up[q] # "up" => drain'[q] = "idle" /\ \A r \in Slot : pc'[<<q, r>>] = "idle"
    <3>1. \A q \in Process, r \in Slot : q # p => <<q, r>> \in Exec /\ <<q, r>> # n
      BY <2>2 DEF Exec
    <3>. QED BY <2>3, <2>4, <3>1
  <2>8. \A q \in Process, t \in Task : HandedBy(q, t) => q = p
    BY <2>3
  <2>9. \A e \in Exec, t \in Task : StartedBy(e, t)' => runner[t] = Owner(e) /\ starts[t] = 0
    BY <2>2, <2>5
  <2>10. \A q \in Process, e \in Exec, t \in Task : ~(HandedBy(q, t)' /\ StartedBy(e, t)')
    BY <2>3, <2>5, <2>6, <2>8
  <2>11. \A e, f \in Exec, t \in Task : StartedBy(e, t)' /\ StartedBy(f, t)' => e = f
    <3>1. ASSUME NEW f \in Exec \ {n}, NEW t \in Task, StartedBy(n, t)', StartedBy(f, t)'
          PROVE  FALSE
      BY <2>5, <3>1
    <3>. QED BY <2>2, <2>5, <3>1
  <2>. QED
    BY <2>3, <2>6, <2>7, <2>9, <2>10, <2>11
<1>8. ASSUME NEW p \in Process, Crash(p)
     PROVE  OneClaimPerRow'
  <2>1. /\ \A f \in Exec : pc'[f] # "idle" => pc'[f] = pc[f] /\ job'[f] = job[f]
        /\ \A s \in Slot : pc'[<<p, s>>] = "idle"
        /\ \A q \in Process \ {p}, s \in Slot : pc'[<<q, s>>] = pc[<<q, s>>]
    BY <1>8 DEF Crash, Exec
  <2>2. /\ up' = [up EXCEPT ![p] = "down"] /\ drain' = [drain EXCEPT ![p] = "idle"]
        /\ claimed' = [claimed EXCEPT ![p] = None]
        /\ UNCHANGED <<status, runner, starts>>
    BY <1>8 DEF Crash, table, ghosts
  <2>3. \A q \in Process : drain'[q] = "handing" => drain[q] = "handing" /\ claimed'[q] = claimed[q]
    BY <2>2
  <2>4. \A e \in Exec, t \in Task : StartedBy(e, t)' => StartedBy(e, t)
    BY <2>1
  <2>5. \A q \in Process, t \in Task : HandedBy(q, t)' => HandedBy(q, t)
    BY <2>2, <2>3
  <2>6. \A q \in Process : up'[q] # "up" => drain'[q] = "idle" /\ \A s \in Slot : pc'[<<q, s>>] = "idle"
    BY <2>1, <2>2
  <2>7. \A q \in Process : up'[q] = "up" => up[q] = "up"
    BY <2>2
  <2>. QED
    BY <2>2, <2>4, <2>5, <2>6, <2>7
<1>9. ASSUME NEW p \in Process, ClaimFails(p)
     PROVE  OneClaimPerRow'
  BY ExecIsPair, NoneAssumption, OutcomeAssumption, <1>9 DEF ClaimFails, runs, ghosts, Unclaimed
<1>10. ASSUME NEW p \in Process, NEW t \in Task, CancelRequest(p, t)
     PROVE  OneClaimPerRow'
  BY ExecIsPair, NoneAssumption, OutcomeAssumption, <1>10 DEF CancelRequest, table, ghosts
<1>11. ASSUME NEW p \in Process, NEW t \in Task, CancelCommit(p, t)
     PROVE  OneClaimPerRow'
  BY ExecIsPair, NoneAssumption, OutcomeAssumption, <1>11 DEF CancelCommit, Cancellable, runs, Status, Terminal, Reportable
<1>12. ASSUME NEW e \in Exec, Acquire(e)
     PROVE  OneClaimPerRow'
  BY ExecIsPair, NoneAssumption, OutcomeAssumption, <1>12 DEF Acquire, table, ghosts
<1>13. ASSUME NEW e \in Exec, CheckCancelled(e)
     PROVE  OneClaimPerRow'
  BY ExecIsPair, NoneAssumption, OutcomeAssumption, <1>13 DEF CheckCancelled, Finally, table, ghosts
<1>14. ASSUME NEW e \in Exec, CheckLive(e)
     PROVE  OneClaimPerRow'
  BY ExecIsPair, NoneAssumption, OutcomeAssumption, <1>14 DEF CheckLive, table, memory, ghosts
<1>15. ASSUME NEW e \in Exec, Mark(e)
     PROVE  OneClaimPerRow'
  BY ExecIsPair, NoneAssumption, OutcomeAssumption, <1>15 DEF Mark, MarkRow, memory
<1>16. ASSUME NEW e \in Exec, WorkerThrows(e)
     PROVE  OneClaimPerRow'
  BY ExecIsPair, NoneAssumption, OutcomeAssumption, <1>16 DEF WorkerThrows, table, memory, ghosts
<1>17. ASSUME NEW e \in Exec, Save(e)
     PROVE  OneClaimPerRow'
  <2>1. pc[e] \in {"save", "fail"} /\ job[e] \in Task /\ outcome[e] \in Reportable
    BY <1>17 DEF Save, SaveRow
  <2>2. /\ pc' = [pc EXCEPT ![e] = "settled"]
        /\ UNCHANGED <<runner, up, drain, claimed, job, starts>>
    BY <1>17 DEF Save, SaveRow, Finally, ghosts
  <2>3. \A t \in Task : status'[t] \in {"absent", "queued"} => status[t] \in {"absent", "queued"}
    <3>1. \A t \in Task : t # job[e] => status'[t] = status[t]
      BY <1>17, <2>1 DEF Save, SaveRow
    <3>2. status'[job[e]] \in {status[job[e]], outcome[e]}
      BY <1>17, <2>1 DEF Save, SaveRow
    <3>. QED
      BY <2>1, <3>1, <3>2 DEF Reportable
  <2>4. \A f \in Exec : pc'[f] \in Starting => pc[f] \in Starting
    BY <2>2
  <2>5. \A p \in Process, s \in Slot : pc[<<p, s>>] = "idle" => pc'[<<p, s>>] = "idle"
    <3>1. \A f \in Exec : pc[f] = "idle" => pc'[f] = "idle"
      BY <2>1, <2>2
    <3>. QED BY <3>1 DEF Exec
  <2>. QED
    BY <2>2, <2>3, <2>4, <2>5
<1>18. ASSUME NEW e \in Exec, Fail(e)
     PROVE  OneClaimPerRow'
  <2>1. pc[e] \in {"save", "fail"} /\ job[e] \in Task /\ outcome[e] \in Reportable
    BY <1>18 DEF Fail
  <2>2. /\ pc' = [pc EXCEPT ![e] = "settled"]
        /\ UNCHANGED <<runner, up, drain, claimed, job, starts>>
    BY <1>18 DEF Fail, Finally, ghosts
  <2>3. \A t \in Task : status'[t] \in {"absent", "queued"} => status[t] \in {"absent", "queued"}
    <3>1. \A t \in Task : t # job[e] => status'[t] = status[t]
      BY <1>18, <2>1 DEF Fail
    <3>2. status'[job[e]] \in {status[job[e]], outcome[e]}
      BY <1>18, <2>1 DEF Fail
    <3>. QED
      BY <2>1, <3>1, <3>2 DEF Reportable
  <2>4. \A f \in Exec : pc'[f] \in Starting => pc[f] \in Starting
    BY <2>2
  <2>5. \A p \in Process, s \in Slot : pc[<<p, s>>] = "idle" => pc'[<<p, s>>] = "idle"
    <3>1. \A f \in Exec : pc[f] = "idle" => pc'[f] = "idle"
      BY <2>1, <2>2
    <3>. QED BY <3>1 DEF Exec
  <2>. QED
    BY <2>2, <2>3, <2>4, <2>5
<1>19. ASSUME NEW e \in Exec, Settle(e)
     PROVE  OneClaimPerRow'
  BY ExecIsPair, NoneAssumption, OutcomeAssumption, <1>19 DEF Settle, table, ghosts
<1>20. ASSUME NEW e \in Exec, Beat(e)
     PROVE  OneClaimPerRow'
  BY ExecIsPair, NoneAssumption, OutcomeAssumption, <1>20 DEF Beat, memory, runs, ghosts
<1>21. ASSUME NEW e \in Exec, LoadFails(e)
     PROVE  OneClaimPerRow'
  BY ExecIsPair, NoneAssumption, OutcomeAssumption, <1>21 DEF LoadFails, table, memory, ghosts
<1>22. ASSUME NEW e \in Exec, QueryFails(e)
     PROVE  OneClaimPerRow'
  <2>1. /\ pc' = [pc EXCEPT ![e] = "fail"]
        /\ pc[e] \in {"check", "mark", "save"} /\ job[e] \in Task
        /\ UNCHANGED <<up, drain, claimed, job, starts>>
    BY <1>22 DEF QueryFails, memory, ghosts
  <2>2. /\ \A t \in Task : status'[t] \in {"absent", "queued"} => status[t] \in {"absent", "queued"}
        /\ \A t \in Task : runner'[t] = runner[t] \/ (pc[e] = "mark" /\ t = job[e])
    BY <1>22, RejectedQuery
  <2>3. \A t \in Task : runner'[t] = runner[t]
    <3>1. pc[e] = "mark" => runner[job[e]] = e[1]
      BY <2>1
    <3>. QED
      BY <1>22, <2>1, <3>1, RejectedQuery
  <2>4. \A f \in Exec : pc'[f] \in Starting => pc[f] \in Starting
    BY <2>1
  <2>5. \A p \in Process, s \in Slot : pc[<<p, s>>] = "idle" => pc'[<<p, s>>] = "idle"
    <3>1. \A f \in Exec : pc[f] = "idle" => pc'[f] = "idle"
      BY <2>1
    <3>. QED BY <3>1 DEF Exec
  <2>. QED
    BY <2>1, <2>2, <2>3, <2>4, <2>5
<1>23. ASSUME NEW e \in Exec, NEW o \in Outcomes \cup {"cancelled"}, WorkerReturns(e, o)
     PROVE  OneClaimPerRow'
  BY ExecIsPair, NoneAssumption, OutcomeAssumption, <1>23 DEF WorkerReturns, table, memory, ghosts
<1>24. ASSUME NEW t \in Task, Create(t)
     PROVE  OneClaimPerRow'
  BY ExecIsPair, NoneAssumption, OutcomeAssumption, <1>24 DEF Create, memory, runs, ghosts
<1>25. ASSUME NEW t \in Task, HeartbeatLapses(t)
     PROVE  OneClaimPerRow'
  BY ExecIsPair, NoneAssumption, OutcomeAssumption, <1>25 DEF HeartbeatLapses, memory, runs, ghosts
<1>27. ASSUME NEW p \in Process, NEW t \in Task, CancelFails(p, t)
     PROVE  OneClaimPerRow'
  BY ExecIsPair, NoneAssumption, OutcomeAssumption, <1>27
  DEF CancelFails, Cancellable, runs, ghosts, Status, Terminal, Reportable
<1>28. ASSUME NEW p \in Process, ReconcileFails(p)
     PROVE  OneClaimPerRow'
  BY ExecIsPair, NoneAssumption, OutcomeAssumption, <1>28 DEF ReconcileFails, table, runs, ghosts
<1>26. CASE UNCHANGED vars
  BY ExecIsPair, NoneAssumption, OutcomeAssumption, <1>26 DEF vars, table, memory, runs, ghosts
<1>. QED
  BY <1>1, <1>2, <1>3, <1>4, <1>5, <1>6, <1>7, <1>8, <1>9, <1>10, <1>11, <1>12, <1>13,
     <1>14, <1>15, <1>16, <1>17, <1>18, <1>19, <1>20, <1>21, <1>22, <1>23, <1>24, <1>25, <1>26,
     <1>27, <1>28
  DEF Next, ServerStep, ExecStep, Fault

\* While one server runs at a time, no row's worker is started twice: not
\* after a crash at any point, a restart, a rejected query or a lost answer.
THEOREM RestartsNeverRerun ==
  ASSUME ConcurrentServers = FALSE
  PROVE  Spec => []AtMostOneStart
<1>1. Init => ShapeInv /\ OneClaimPerRow
  BY ShapeInit, OneClaimInit
<1>2. (ShapeInv /\ OneClaimPerRow) /\ [Next]_vars => (ShapeInv /\ OneClaimPerRow)'
  BY ShapeStep, OneClaimStep
<1>3. OneClaimPerRow => AtMostOneStart
  BY DEF OneClaimPerRow
<1>. QED
  BY <1>1, <1>2, <1>3, PTL DEF Spec

----------------------------------------------------------------------------
(* Two servers at one time: a live owner has not forgotten its rows.       *)

\* What a server that has not started yet has, and what a row that was not
\* submitted yet names: nothing.
OwnersInv ==
  /\ \A p \in Process :
       up[p] = "unborn" => /\ drain[p] = "idle" /\ \A s \in Slot : pc[<<p, s>>] = "idle"
                           /\ \A t \in Task : runner[t] # p
  /\ \A t \in Task : status[t] = "absent" => runner[t] = None
  /\ OwnedRowsAreHeld

LEMMA OwnersInit == Init => OwnersInv
BY NoneAssumption DEF Init, OwnersInv, OwnedRowsAreHeld, Exec

\* What a step must leave for the rows to be still remembered: no other owners
\* than there were, and on every row that is still queued or running, the work.
ServersKept ==
  \A q \in Process :
    /\ up'[q] \in {up[q], "down"} \/ (up'[q] = "up" /\ \A t \in Task : runner[t] # q)
    /\ up'[q] = "unborn" => drain'[q] = drain[q] /\ \A s \in Slot : pc'[<<q, s>>] = pc[<<q, s>>]

RowsKept ==
  \A t \in Task :
    /\ runner'[t] \in {runner[t], None}
    /\ status'[t] = "absent" => status[t] = "absent"
    /\ status'[t] \in {"queued", "running"} /\ runner'[t] # None => status'[t] = status[t]

ClaimsKept ==
  \A t \in Task, q \in Process :
    status'[t] = "queued" /\ HandedBy(q, t) /\ up'[q] = "up" =>
      HandedBy(q, t)' \/ \E s \in Slot : StartedBy(<<q, s>>, t)'

WorkKept ==
  \A t \in Task, q \in Process, s \in Slot :
    up'[q] = "up" =>
      /\ status'[t] = "queued" /\ StartedBy(<<q, s>>, t) => StartedBy(<<q, s>>, t)'
      /\ status'[t] = "running" /\ RunBy(<<q, s>>, t) => RunBy(<<q, s>>, t)'

LEMMA OwnersKept ==
  ASSUME OwnersInv, ServersKept, RowsKept, ClaimsKept, WorkKept
  PROVE  OwnersInv'
<1>1. ASSUME NEW t \in Task, NEW q \in Process, up'[q] = "up", runner'[t] = q
      PROVE  /\ status'[t] = "queued" => HandedBy(q, t)' \/ \E s \in Slot : StartedBy(<<q, s>>, t)'
             /\ status'[t] = "running" => \E s \in Slot : RunBy(<<q, s>>, t)'
  <2>1. runner[t] = q /\ up[q] = "up" /\ runner'[t] # None
    BY <1>1, NoneAssumption DEF ServersKept, RowsKept
  <2>2. CASE status'[t] = "queued"
    <3>1. status[t] = "queued"
      BY <2>1, <2>2 DEF RowsKept
    <3>2. HandedBy(q, t) \/ \E s \in Slot : StartedBy(<<q, s>>, t)
      BY <2>1, <3>1 DEF OwnersInv, OwnedRowsAreHeld
    <3>. QED BY <1>1, <2>2, <3>2 DEF ClaimsKept, WorkKept
  <2>3. CASE status'[t] = "running"
    <3>1. status[t] = "running"
      BY <2>1, <2>3 DEF RowsKept
    <3>2. \E s \in Slot : RunBy(<<q, s>>, t)
      BY <2>1, <3>1 DEF OwnersInv, OwnedRowsAreHeld
    <3>. QED BY <1>1, <2>3, <3>2 DEF WorkKept
  <2>. QED BY <2>2, <2>3
<1>2. OwnedRowsAreHeld'
  BY <1>1 DEF OwnedRowsAreHeld
<1>3. \A q \in Process : up'[q] = "unborn" => /\ drain'[q] = "idle" /\ \A s \in Slot : pc'[<<q, s>>] = "idle"
                                            /\ \A t \in Task : runner'[t] # q
  BY NoneAssumption DEF OwnersInv, ServersKept, RowsKept
<1>4. \A t \in Task : status'[t] = "absent" => runner'[t] = None
  BY DEF OwnersInv, RowsKept
<1>. QED
  BY <1>2, <1>3, <1>4 DEF OwnersInv

\* A step of one promise, on its row alone, that keeps it where it was: before
\* its worker starts, or while it runs.
Forward(e, v) ==
  /\ pc[e] \in Starting => v \in Starting
  /\ pc[e] \in Beating => v \in Beating
  /\ pc[e] # "idle"

LEMMA OwnersForward ==
  ASSUME ShapeInv, OwnersInv, NEW e \in Exec, NEW v \in PC, Forward(e, v),
         pc' = [pc EXCEPT ![e] = v], UNCHANGED <<status, runner, up, drain, claimed, job>>
  PROVE  OwnersInv'
<1>1. \A p \in Process, s \in Slot : <<p, s>> \in Exec
  BY DEF Exec
<1>2. \A f \in Exec : pc'[f] = IF f = e THEN v ELSE pc[f]
  BY DEF ShapeInv, RunsOK
<1>3. \A f \in Exec, t \in Task : /\ StartedBy(f, t) => StartedBy(f, t)'
                                  /\ RunBy(f, t) => RunBy(f, t)'
  BY <1>2 DEF Forward, StartedBy, RunBy
<1>4. \A f \in Exec : pc[f] = "idle" => pc'[f] = "idle"
  BY <1>2 DEF Forward
<1>5. ServersKept
  BY <1>1, <1>4 DEF OwnersInv, ServersKept
<1>6. RowsKept
  BY DEF RowsKept
<1>7. ClaimsKept
  BY DEF ClaimsKept, HandedBy
<1>8. WorkKept
  BY <1>1, <1>3 DEF WorkKept, StartedBy, RunBy
<1>. QED
  BY <1>5, <1>6, <1>7, <1>8, OwnersKept

\* A promise that lets go of its row leaves it neither queued nor running.
LEMMA OwnersFinally ==
  ASSUME ShapeInv, OwnersInv, NEW e \in Exec, pc[e] # "idle", pc' = [pc EXCEPT ![e] = "settled"],
         UNCHANGED <<runner, up, drain, claimed, job>>,
         \A t \in Task : status'[t] = status[t] \/ status'[t] \in Reportable,
         status'[job[e]] \in Reportable
  PROVE  OwnersInv'
<1>1. \A p \in Process, s \in Slot : <<p, s>> \in Exec
  BY DEF Exec
<1>2. \A f \in Exec : f # e => pc'[f] = pc[f]
  BY DEF ShapeInv, RunsOK
<1>3. \A f \in Exec, t \in Task :
        /\ StartedBy(f, t) => StartedBy(f, t)' \/ t = job[e]
        /\ RunBy(f, t) => RunBy(f, t)' \/ t = job[e]
  BY <1>2 DEF StartedBy, RunBy
<1>4. \A f \in Exec : pc[f] = "idle" => pc'[f] = "idle"
  BY <1>2
<1>5. \A t \in Task : status'[t] \in {"absent", "queued", "running"} => t # job[e] /\ status'[t] = status[t]
  BY DEF Reportable
<1>6. \A t \in Task, p \in Process :
        /\ HandedBy(p, t) <=> HandedBy(p, t)'
        /\ runner'[t] = p <=> runner[t] = p
  BY DEF HandedBy
<1>. QED
  BY <1>1, <1>3, <1>4, <1>5, <1>6 DEF OwnersInv, OwnedRowsAreHeld

\* A statement on the table that makes no row queued or running, and gives none
\* to anybody.
LEMMA OwnersTable ==
  ASSUME OwnersInv, UNCHANGED <<up, drain, claimed, pc, job>>,
         \A t \in Task : /\ runner'[t] \in {runner[t], None}
                         /\ status'[t] \in {status[t], "interrupted", "cancelled"}
  PROVE  OwnersInv'
<1>1. ServersKept
  BY DEF ServersKept
<1>2. RowsKept
  BY DEF RowsKept
<1>3. ClaimsKept
  BY DEF ClaimsKept, HandedBy
<1>4. WorkKept
  BY DEF WorkKept, StartedBy, RunBy
<1>. QED
  BY <1>1, <1>2, <1>3, <1>4, OwnersKept

LEMMA OwnersStep ==
  ASSUME DbErrors = FALSE
  PROVE  ShapeInv /\ OwnersInv /\ [Next]_vars => OwnersInv'
<1> SUFFICES ASSUME ShapeInv, OwnersInv, [Next]_vars
             PROVE  OwnersInv'
  OBVIOUS
<1>0. /\ \A p \in Process, s \in Slot : <<p, s>> \in Exec
      /\ pc \in [Exec -> PC] /\ job \in [Exec -> Task \cup {None}]
      /\ up \in [Process -> {"unborn", "up", "down"}]
      /\ drain \in [Process -> {"idle", "asking", "handing"}]
      /\ claimed \in [Process -> Task \cup {None}]
      /\ status \in [Task -> Status] /\ runner \in [Task -> Process \cup {None}]
  BY DEF Exec, ShapeInv, TableOK, MemoryOK, RunsOK
<1>1. ASSUME NEW p \in Process, Start(p)
     PROVE  OwnersInv'
  BY <1>0, <1>1 DEF Start, table, runs, OwnersInv, OwnedRowsAreHeld, HandedBy, StartedBy, RunBy
<1>2. ASSUME NEW p \in Process, ReconcileInterrupt(p)
     PROVE  OwnersInv'
  BY <1>2, OwnersTable DEF ReconcileInterrupt, runs
<1>3. ASSUME NEW p \in Process, ReconcileRelease(p)
     PROVE  OwnersInv'
  BY <1>3, OwnersTable DEF ReconcileRelease, runs
<1>4. ASSUME NEW p \in Process, DrainQueue(p)
     PROVE  OwnersInv'
  BY <1>0, <1>4 DEF DrainQueue, table, runs, OwnersInv, OwnedRowsAreHeld, HandedBy, StartedBy, RunBy
<1>5. ASSUME NEW p \in Process, ClaimNext(p)
     PROVE  OwnersInv'
  <2>1. PICK t \in Task : /\ status[t] = "queued" /\ runner' = [runner EXCEPT ![t] = p]
                          /\ claimed' = [claimed EXCEPT ![p] = t]
                          /\ drain' = [drain EXCEPT ![p] = "handing"]
    BY <1>5 DEF ClaimNext, Unclaimed
  <2>2. drain[p] = "asking" /\ UNCHANGED <<status, up, pc, job>>
    BY <1>5 DEF ClaimNext, runs
  <2>3. HandedBy(p, t)'
    BY <1>0, <2>1 DEF HandedBy
  <2>4. \A u \in Task, q \in Process : HandedBy(q, u) => HandedBy(q, u)'
    BY <1>0, <2>1, <2>2 DEF HandedBy
  <2>5. \A e \in Exec, u \in Task : (StartedBy(e, u) <=> StartedBy(e, u)') /\ (RunBy(e, u) <=> RunBy(e, u)')
    BY <2>2 DEF StartedBy, RunBy
  <2>6. \A u \in Task, q \in Process : runner'[u] = q => runner[u] = q \/ (u = t /\ q = p)
    BY <1>0, <2>1
  <2>7. OwnedRowsAreHeld'
    BY <1>0, <2>1, <2>2, <2>3, <2>4, <2>5, <2>6 DEF OwnersInv, OwnedRowsAreHeld
  <2>8. \A q \in Process : up'[q] = "unborn" =>
             /\ drain'[q] = "idle" /\ \A s \in Slot : pc'[<<q, s>>] = "idle"
             /\ \A u \in Task : runner'[u] # q
    BY <1>0, <2>1, <2>2, <2>6 DEF OwnersInv
  <2>. QED
    BY <1>0, <2>1, <2>2, <2>7, <2>8 DEF OwnersInv
<1>6. ASSUME NEW p \in Process, ClaimNothing(p)
     PROVE  OwnersInv'
  BY <1>0, <1>6 DEF ClaimNothing, table, runs, OwnersInv, OwnedRowsAreHeld, HandedBy, StartedBy, RunBy
<1>7. ASSUME NEW p \in Process, Launch(p)
     PROVE  OwnersInv'
  <2>1. PICK s \in Slot :
          /\ pc[<<p, s>>] = "idle"
          /\ pc' = [pc EXCEPT ![<<p, s>>] = "load"]
          /\ job' = [job EXCEPT ![<<p, s>>] = claimed[p]]
    BY <1>7 DEF Launch, FreeSlot
  <2>2. /\ drain[p] = "handing" /\ drain'[p] # "handing"
        /\ \A q \in Process \ {p} : drain'[q] = drain[q] /\ claimed'[q] = claimed[q]
        /\ UNCHANGED <<status, runner, up>>
    BY <1>0, <1>7 DEF Launch, table
  <2>3. /\ pc'[<<p, s>>] = "load" /\ job'[<<p, s>>] = claimed[p]
        /\ \A f \in Exec : f # <<p, s>> => pc'[f] = pc[f] /\ job'[f] = job[f]
    BY <1>0, <2>1
  <2>4. \A f \in Exec, t \in Task : /\ StartedBy(f, t) => StartedBy(f, t)'
                                    /\ RunBy(f, t) => RunBy(f, t)'
    BY <2>1, <2>3 DEF StartedBy, RunBy, Starting, Beating
  <2>5. \A q \in Process, t \in Task :
          HandedBy(q, t) => HandedBy(q, t)' \/ (q = p /\ StartedBy(<<p, s>>, t)')
    BY <2>2, <2>3 DEF HandedBy, StartedBy, Starting
  <2>6. \A q \in Process : up[q] = "unborn" => q # p
    BY <2>2 DEF OwnersInv
  <2>7. \A q \in Process, r \in Slot : q # p => pc'[<<q, r>>] = pc[<<q, r>>]
    BY <1>0, <2>3
  <2>8. ServersKept
    BY <1>0, <2>2, <2>6, <2>7 DEF ServersKept
  <2>9. RowsKept
    BY <2>2 DEF RowsKept
  <2>10. ClaimsKept
    BY <2>5 DEF ClaimsKept
  <2>11. WorkKept
    BY <1>0, <2>4 DEF WorkKept, StartedBy, RunBy
  <2>. QED
    BY <2>8, <2>9, <2>10, <2>11, OwnersKept
<1>8. ASSUME NEW p \in Process, Crash(p)
     PROVE  OwnersInv'
  <2>1. /\ \A q \in Process \ {p}, s \in Slot : /\ pc'[<<q, s>>] = pc[<<q, s>>]
                                                /\ job'[<<q, s>>] = job[<<q, s>>]
        /\ \A q \in Process \ {p} : /\ up'[q] = up[q] /\ drain'[q] = drain[q]
                                    /\ claimed'[q] = claimed[q]
        /\ up'[p] = "down" /\ UNCHANGED <<status, runner>>
    BY <1>0, <1>8 DEF Crash, table, Owner
  <2>. QED
    BY <1>0, <2>1 DEF OwnersInv, OwnedRowsAreHeld, HandedBy, StartedBy, RunBy
<1>9. ASSUME NEW p \in Process, ClaimFails(p)
     PROVE  OwnersInv'
  BY <1>9 DEF ClaimFails
<1>10. ASSUME NEW p \in Process, NEW t \in Task, CancelRequest(p, t)
     PROVE  OwnersInv'
  BY <1>10, OwnersTable DEF CancelRequest, table
<1>11. ASSUME NEW p \in Process, NEW t \in Task, CancelCommit(p, t)
     PROVE  OwnersInv'
  BY <1>0, <1>11, OwnersTable DEF CancelCommit, runs
<1>12. ASSUME NEW e \in Exec, Acquire(e)
     PROVE  OwnersInv'
  BY <1>12, OwnersForward DEF Acquire, PC, Forward, Starting, Beating, table
<1>13. ASSUME NEW e \in Exec, CheckCancelled(e)
     PROVE  OwnersInv'
  BY <1>13, OwnersFinally DEF CheckCancelled, Finally, Reportable, table
<1>14. ASSUME NEW e \in Exec, CheckLive(e)
     PROVE  OwnersInv'
  BY <1>14, OwnersForward DEF CheckLive, PC, Forward, Starting, Beating, table, memory
<1>15. ASSUME NEW e \in Exec, Mark(e)
     PROVE  OwnersInv'
  <2>1. job[e] \in Task /\ e[1] \in Process /\ e[2] \in Slot /\ e = <<e[1], e[2]>>
    BY <1>15, ExecIsPair DEF Mark, ShapeInv, Shaped
  <2>2. /\ pc[e] = "mark" /\ pc' = [pc EXCEPT ![e] = "work"]
        /\ status' = [status EXCEPT ![job[e]] = "running"]
        /\ runner' = [runner EXCEPT ![job[e]] = e[1]]
        /\ UNCHANGED <<up, drain, claimed, job>>
    BY <1>15 DEF Mark, MarkRow, memory, Owner
  <2>3. /\ RunBy(e, job[e])'
        /\ \A f \in Exec, t \in Task : /\ StartedBy(f, t) => StartedBy(f, t)' \/ t = job[e]
                                       /\ RunBy(f, t) => RunBy(f, t)'
    BY <1>0, <2>2 DEF StartedBy, RunBy, Starting, Beating
  <2>4. /\ \A t \in Task : t # job[e] => status'[t] = status[t] /\ runner'[t] = runner[t]
        /\ status'[job[e]] = "running" /\ runner'[job[e]] = e[1]
        /\ \A q \in Process, t \in Task : HandedBy(q, t) <=> HandedBy(q, t)'
    BY <1>0, <2>1, <2>2 DEF HandedBy
  <2>5. OwnedRowsAreHeld'
    <3> SUFFICES ASSUME NEW t \in Task, NEW p \in Process, up[p] = "up", runner'[t] = p
                 PROVE  /\ status'[t] = "queued" => \/ HandedBy(p, t)'
                                                    \/ \E s \in Slot : StartedBy(<<p, s>>, t)'
                        /\ status'[t] = "running" => \E s \in Slot : RunBy(<<p, s>>, t)'
      BY <2>2 DEF OwnedRowsAreHeld
    <3>1. CASE t = job[e]
      <4>1. <<p, e[2]>> = e /\ e[2] \in Slot
        BY <2>1, <2>4, <3>1
      <4>2. pc'[<<p, e[2]>>] \in Beating /\ job'[<<p, e[2]>>] = t
        BY <2>2, <2>3, <3>1, <4>1 DEF RunBy
      <4>. QED BY <2>4, <3>1, <4>1, <4>2 DEF RunBy
    <3>2. CASE t # job[e]
      <4>1. runner[t] = p /\ status'[t] = status[t] /\ (HandedBy(p, t) <=> HandedBy(p, t)')
        BY <2>4, <3>2
      <4>2. \A s \in Slot : /\ StartedBy(<<p, s>>, t) => StartedBy(<<p, s>>, t)'
                            /\ RunBy(<<p, s>>, t) => RunBy(<<p, s>>, t)'
        BY <1>0, <2>3, <3>2
      <4>3. /\ status[t] = "queued" => HandedBy(p, t) \/ \E s \in Slot : StartedBy(<<p, s>>, t)
            /\ status[t] = "running" => \E s \in Slot : RunBy(<<p, s>>, t)
        BY <4>1 DEF OwnersInv, OwnedRowsAreHeld
      <4>. QED BY <4>1, <4>2, <4>3
    <3>. QED BY <3>1, <3>2
  <2>6. up[e[1]] # "unborn"
    BY <2>1, <2>2 DEF OwnersInv
  <2>7. \A f \in Exec : pc[f] = "idle" => pc'[f] = "idle"
    BY <1>0, <2>2
  <2>. QED
    BY <1>0, <2>2, <2>4, <2>5, <2>6, <2>7 DEF OwnersInv
<1>16. ASSUME NEW e \in Exec, WorkerThrows(e)
     PROVE  OwnersInv'
  BY <1>16, OwnersForward DEF WorkerThrows, PC, Forward, Starting, Beating, table, memory
<1>17. ASSUME NEW e \in Exec, Save(e)
     PROVE  OwnersInv'
  <2>1. job[e] \in Task /\ outcome[e] \in Reportable
    BY <1>17 DEF Save, ShapeInv, Shaped
  <2>2. status' = [status EXCEPT ![job[e]] = IF @ = "cancelled" THEN @ ELSE outcome[e]]
    BY <1>17 DEF Save, SaveRow
  <2>3. /\ \A t \in Task : status'[t] = status[t] \/ status'[t] \in Reportable
        /\ status'[job[e]] \in Reportable
    BY <1>0, <2>1, <2>2 DEF Reportable
  <2>. QED
    BY <1>17, <2>3, OwnersFinally DEF Save, SaveRow, Finally
<1>18. ASSUME NEW e \in Exec, Fail(e)
     PROVE  OwnersInv'
  <2>1. job[e] \in Task /\ outcome[e] \in Reportable
    BY <1>18 DEF Fail, ShapeInv, Shaped
  <2>2. status' = [status EXCEPT ![job[e]] = outcome[e]]
    BY <1>18 DEF Fail
  <2>3. /\ \A t \in Task : status'[t] = status[t] \/ status'[t] \in Reportable
        /\ status'[job[e]] \in Reportable
    BY <1>0, <2>1, <2>2
  <2>. QED
    BY <1>18, <2>3, OwnersFinally DEF Fail, Finally
<1>19. ASSUME NEW e \in Exec, Settle(e)
     PROVE  OwnersInv'
  <2>1. /\ \A f \in Exec, t \in Task : /\ StartedBy(f, t) => StartedBy(f, t)'
                                       /\ RunBy(f, t) => RunBy(f, t)'
        /\ \A f \in Exec : pc[f] = "idle" => pc'[f] = "idle"
    BY <1>0, <1>19 DEF Settle, StartedBy, RunBy, Starting, Beating
  <2>2. UNCHANGED <<status, runner, up, drain, claimed>>
    BY <1>19 DEF Settle, table
  <2>3. \A q \in Process : up[q] = "unborn" => \A s \in Slot : pc'[<<q, s>>] = pc[<<q, s>>]
    BY <1>0, <2>1 DEF OwnersInv
  <2>4. ServersKept
    BY <2>2, <2>3 DEF ServersKept
  <2>5. RowsKept
    BY <2>2 DEF RowsKept
  <2>6. ClaimsKept
    BY <2>2 DEF ClaimsKept, HandedBy
  <2>7. WorkKept
    BY <1>0, <2>1 DEF WorkKept, StartedBy, RunBy
  <2>. QED
    BY <2>4, <2>5, <2>6, <2>7, OwnersKept
<1>20. ASSUME NEW e \in Exec, Beat(e)
     PROVE  OwnersInv'
  BY <1>20, OwnersTable DEF Beat, memory, runs
<1>21. ASSUME NEW e \in Exec, LoadFails(e)
     PROVE  OwnersInv'
  BY <1>21 DEF LoadFails
<1>22. ASSUME NEW e \in Exec, QueryFails(e)
     PROVE  OwnersInv'
  BY <1>22 DEF QueryFails
<1>23. ASSUME NEW e \in Exec, NEW o \in Outcomes \cup {"cancelled"}, WorkerReturns(e, o)
     PROVE  OwnersInv'
  BY <1>23, OwnersForward DEF WorkerReturns, PC, Forward, Starting, Beating, table, memory
<1>24. ASSUME NEW t \in Task, Create(t)
     PROVE  OwnersInv'
  <2>1. /\ status' = [status EXCEPT ![t] = "queued"] /\ status[t] = "absent"
        /\ UNCHANGED <<runner, up, drain, claimed, pc, job>>
    BY <1>24 DEF Create, memory, runs
  <2>2. /\ runner'[t] = None
        /\ \A u \in Task : u # t => status'[u] = status[u] /\ runner'[u] = runner[u]
    BY <1>0, <2>1 DEF OwnersInv
  <2>3. /\ \A u \in Task, q \in Process : HandedBy(q, u) <=> HandedBy(q, u)'
        /\ \A u \in Task, q \in Process, s \in Slot :
             /\ StartedBy(<<q, s>>, u) <=> StartedBy(<<q, s>>, u)'
             /\ RunBy(<<q, s>>, u) <=> RunBy(<<q, s>>, u)'
    BY <2>1 DEF HandedBy, StartedBy, RunBy
  <2>4. ASSUME NEW u \in Task, NEW q \in Process, up'[q] = "up", runner'[u] = q
        PROVE  /\ status'[u] = "queued" => \/ HandedBy(q, u)'
                                           \/ \E s \in Slot : StartedBy(<<q, s>>, u)'
               /\ status'[u] = "running" => \E s \in Slot : RunBy(<<q, s>>, u)'
    <3>1. u # t /\ up[q] = "up" /\ runner[u] = q /\ status'[u] = status[u]
      BY <2>1, <2>2, <2>4, NoneAssumption
    <3>2. /\ status[u] = "queued" => HandedBy(q, u) \/ \E s \in Slot : StartedBy(<<q, s>>, u)
          /\ status[u] = "running" => \E s \in Slot : RunBy(<<q, s>>, u)
      BY <3>1 DEF OwnersInv, OwnedRowsAreHeld
    <3>. QED BY <2>3, <3>1, <3>2
  <2>5. OwnedRowsAreHeld'
    BY <2>4 DEF OwnedRowsAreHeld
  <2>. QED
    BY <2>1, <2>2, <2>5 DEF OwnersInv
<1>25. ASSUME NEW t \in Task, HeartbeatLapses(t)
     PROVE  OwnersInv'
  BY <1>25, OwnersTable DEF HeartbeatLapses, memory, runs
<1>26. CASE UNCHANGED vars
  BY <1>26, OwnersTable DEF vars, table, memory, runs
<1>27. ASSUME NEW p \in Process, NEW t \in Task, CancelFails(p, t)
     PROVE  OwnersInv'
  BY <1>27 DEF CancelFails
<1>28. ASSUME NEW p \in Process, ReconcileFails(p)
     PROVE  OwnersInv'
  BY <1>28 DEF ReconcileFails
<1>. QED
  BY <1>1, <1>2, <1>3, <1>4, <1>5, <1>6, <1>7, <1>8, <1>9, <1>10, <1>11, <1>12, <1>13,
     <1>14, <1>15, <1>16, <1>17, <1>18, <1>19, <1>20, <1>21, <1>22, <1>23, <1>24, <1>25, <1>26,
     <1>27, <1>28
  DEF Next, ServerStep, ExecStep, Fault

\* While no query is rejected, a row that names a live server is still in that
\* server's memory: whatever other servers hand back, claim and start, however
\* late heartbeats are, no task stays queued or running under an owner that has
\* forgotten it.
THEOREM LiveOwnersRemember ==
  ASSUME DbErrors = FALSE
  PROVE  Spec => []OwnedRowsAreHeld
<1>1. Init => ShapeInv /\ OwnersInv
  BY ShapeInit, OwnersInit
<1>2. (ShapeInv /\ OwnersInv) /\ [Next]_vars => (ShapeInv /\ OwnersInv)'
  BY ShapeStep, OwnersStep
<1>3. OwnersInv => OwnedRowsAreHeld
  BY DEF OwnersInv
<1>. QED
  BY <1>1, <1>2, <1>3, PTL DEF Spec

----------------------------------------------------------------------------
(* Who changes a row's status.                                             *)

LEMMA StatusWriters ==
  ASSUME [Next]_vars
  PROVE  \/ UNCHANGED status
         \/ \E p \in Process : ReconcileInterrupt(p)
         \/ \E t \in Task : Create(t)
         \/ \E p \in Process, t \in Task : CancelCommit(p, t) \/ CancelFails(p, t)
         \/ \E e \in Exec : Mark(e) \/ Save(e) \/ Fail(e) \/ QueryFails(e)
<1>1. CASE UNCHANGED vars
  BY <1>1 DEF vars, table
<1>2. ASSUME NEW p \in Process, ServerStep(p)
      PROVE  UNCHANGED status \/ ReconcileInterrupt(p)
  BY <1>2 DEF ServerStep, Start, ReconcileRelease, DrainQueue, ClaimNext, ClaimNothing, Launch, table
<1>3. ASSUME NEW e \in Exec, ExecStep(e)
      PROVE  UNCHANGED status \/ Mark(e) \/ Save(e) \/ Fail(e)
  BY <1>3 DEF ExecStep, Acquire, CheckCancelled, CheckLive, WorkerThrows, WorkerReturns, Settle, table
<1>4. CASE Fault
  BY <1>4 DEF Fault, Crash, ClaimFails, ReconcileFails, LoadFails, table
<1>5. ASSUME NEW p \in Process, NEW t \in Task, CancelRequest(p, t)
      PROVE  UNCHANGED status
  BY <1>5 DEF CancelRequest, table
<1>6. ASSUME NEW e \in Exec, Beat(e)
      PROVE  UNCHANGED status
  BY <1>6 DEF Beat
<1>7. ASSUME NEW t \in Task, HeartbeatLapses(t)
      PROVE  UNCHANGED status
  BY <1>7 DEF HeartbeatLapses
<1>. QED
  BY <1>1, <1>2, <1>3, <1>4, <1>5, <1>6, <1>7 DEF Next

----------------------------------------------------------------------------
(* Two servers at one time: live work is not declared interrupted.         *)

\* A row that a worker was started for is not queued again, and as long as it
\* names that worker's server its heartbeat is fresh.
BeatInv ==
  \A e \in Exec, t \in Task :
    RunBy(e, t) => /\ status[t] \notin {"absent", "queued"}
                   /\ runner[t] = Owner(e) => fresh[t]

LEMMA BeatInit == Init => BeatInv
BY DEF Init, BeatInv, RunBy, Beating

\* A step that changes no heartbeat and starts no worker.
LEMMA BeatKept ==
  ASSUME BeatInv,
         \A e \in Exec : pc'[e] \in Beating => pc[e] \in Beating /\ job'[e] = job[e],
         \A t \in Task : /\ status[t] \notin {"absent", "queued"} => status'[t] \notin {"absent", "queued"}
                         /\ status[t] \notin {"absent", "queued"} => runner'[t] \in {runner[t], None}
                         /\ status[t] \notin {"absent", "queued"} => fresh'[t] = fresh[t]
  PROVE  BeatInv'
<1> SUFFICES ASSUME NEW e \in Exec, NEW t \in Task, pc'[e] \in Beating, job'[e] = t
             PROVE  /\ status'[t] \notin {"absent", "queued"}
                    /\ runner'[t] = Owner(e) => fresh'[t]
  BY DEF BeatInv, RunBy
<1>1. pc[e] \in Beating /\ job[e] = t /\ e[1] \in Process
  BY ExecIsPair
<1>2. status[t] \notin {"absent", "queued"} /\ (runner[t] = Owner(e) => fresh[t])
  BY <1>1 DEF BeatInv, RunBy
<1>. QED
  BY <1>1, <1>2, NoneAssumption DEF Owner

LEMMA BeatStep ==
  ASSUME DbErrors = FALSE, LossyHeartbeats = FALSE
  PROVE  ShapeInv /\ BeatInv /\ [Next]_vars => BeatInv'
<1> SUFFICES ASSUME ShapeInv, BeatInv, [Next]_vars
             PROVE  BeatInv'
  OBVIOUS
<1>0. /\ pc \in [Exec -> PC] /\ job \in [Exec -> Task \cup {None}]
      /\ status \in [Task -> Status] /\ runner \in [Task -> Process \cup {None}]
      /\ fresh \in [Task -> BOOLEAN] /\ outcome \in [Exec -> Reportable \cup {None}]
      /\ \A e \in Exec : pc[e] # "idle" => job[e] \in Task
      /\ \A e \in Exec : pc[e] \in {"save", "fail"} => outcome[e] \in Reportable
  BY DEF ShapeInv, TableOK, RunsOK, Shaped
<1>1. ASSUME NEW p \in Process, Start(p)
     PROVE  BeatInv'
  BY <1>1, BeatKept DEF Start, table, runs
<1>2. ASSUME NEW p \in Process, ReconcileInterrupt(p)
     PROVE  BeatInv'
  BY <1>0, <1>2, BeatKept DEF ReconcileInterrupt, runs
<1>3. ASSUME NEW p \in Process, ReconcileRelease(p)
     PROVE  BeatInv'
  <2>1. \A t \in Task : status[t] # "queued" => runner'[t] = runner[t] /\ fresh'[t] = fresh[t]
    BY <1>0, <1>3 DEF ReconcileRelease
  <2>. QED
    BY <1>3, <2>1, BeatKept DEF ReconcileRelease, runs
<1>4. ASSUME NEW p \in Process, DrainQueue(p)
     PROVE  BeatInv'
  BY <1>4, BeatKept DEF DrainQueue, table, runs
<1>5. ASSUME NEW p \in Process, ClaimNext(p)
     PROVE  BeatInv'
  BY <1>0, <1>5, BeatKept DEF ClaimNext, Unclaimed, runs
<1>6. ASSUME NEW p \in Process, ClaimNothing(p)
     PROVE  BeatInv'
  BY <1>6, BeatKept DEF ClaimNothing, table, runs
<1>7. ASSUME NEW p \in Process, Launch(p)
     PROVE  BeatInv'
  <2>1. PICK n \in Exec : /\ pc' = [pc EXCEPT ![n] = "load"]
                          /\ job' = [job EXCEPT ![n] = claimed[p]]
    <3>1. \A s \in Slot : <<p, s>> \in Exec
      BY DEF Exec
    <3>. QED BY <1>7, <3>1 DEF Launch
  <2>. QED
    BY <1>0, <1>7, <2>1, BeatKept DEF Launch, table, Beating
<1>8. ASSUME NEW p \in Process, Crash(p)
     PROVE  BeatInv'
  BY <1>8, BeatKept DEF Crash, table, Beating
<1>9. ASSUME NEW p \in Process, ClaimFails(p)
     PROVE  BeatInv'
  BY <1>9 DEF ClaimFails
<1>10. ASSUME NEW p \in Process, NEW t \in Task, CancelRequest(p, t)
     PROVE  BeatInv'
  BY <1>10, BeatKept DEF CancelRequest, table
<1>11. ASSUME NEW p \in Process, NEW t \in Task, CancelCommit(p, t)
     PROVE  BeatInv'
  BY <1>0, <1>11, BeatKept DEF CancelCommit, runs
<1>12. ASSUME NEW e \in Exec, Acquire(e)
     PROVE  BeatInv'
  BY <1>0, <1>12, BeatKept DEF Acquire, table, Beating
<1>13. ASSUME NEW e \in Exec, CheckCancelled(e)
     PROVE  BeatInv'
  BY <1>0, <1>13, BeatKept DEF CheckCancelled, Finally, table, Beating
<1>14. ASSUME NEW e \in Exec, CheckLive(e)
     PROVE  BeatInv'
  BY <1>0, <1>14, BeatKept DEF CheckLive, table, Beating
<1>15. ASSUME NEW e \in Exec, Mark(e)
     PROVE  BeatInv'
  <2>1. /\ job[e] \in Task /\ pc' = [pc EXCEPT ![e] = "work"] /\ job' = job
        /\ status' = [status EXCEPT ![job[e]] = "running"]
        /\ runner' = [runner EXCEPT ![job[e]] = Owner(e)]
        /\ fresh' = [fresh EXCEPT ![job[e]] = TRUE]
    BY <1>0, <1>15 DEF Mark, MarkRow
  <2> SUFFICES ASSUME NEW f \in Exec, NEW t \in Task, pc'[f] \in Beating, job'[f] = t
               PROVE  /\ status'[t] \notin {"absent", "queued"}
                      /\ runner'[t] = Owner(f) => fresh'[t]
    BY DEF BeatInv, RunBy
  <2>2. CASE t = job[e]
    BY <1>0, <2>1, <2>2
  <2>3. CASE t # job[e]
    <3>1. f # e /\ pc[f] \in Beating /\ job[f] = t
      BY <1>0, <2>1, <2>3
    <3>. QED
      BY <1>0, <2>1, <2>3, <3>1 DEF BeatInv, RunBy
  <2>. QED BY <2>2, <2>3
<1>16. ASSUME NEW e \in Exec, WorkerThrows(e)
     PROVE  BeatInv'
  BY <1>0, <1>16, BeatKept DEF WorkerThrows, table, Beating
<1>17. ASSUME NEW e \in Exec, Save(e)
     PROVE  BeatInv'
  <2>1. \A t \in Task : status'[t] \in {"absent", "queued"} => status'[t] = status[t]
    BY <1>0, <1>17 DEF Save, SaveRow, Reportable
  <2>. QED
    BY <1>0, <1>17, <2>1, BeatKept DEF Save, SaveRow, Finally, Beating
<1>18. ASSUME NEW e \in Exec, Fail(e)
     PROVE  BeatInv'
  <2>1. \A t \in Task : status'[t] \in {"absent", "queued"} => status'[t] = status[t]
    BY <1>0, <1>18 DEF Fail, Reportable
  <2>. QED
    BY <1>0, <1>18, <2>1, BeatKept DEF Fail, Finally, Beating
<1>19. ASSUME NEW e \in Exec, Settle(e)
     PROVE  BeatInv'
  BY <1>0, <1>19, BeatKept DEF Settle, table, Beating
<1>20. ASSUME NEW e \in Exec, Beat(e)
     PROVE  BeatInv'
  BY <1>0, <1>20 DEF Beat, memory, runs, BeatInv, RunBy
<1>21. ASSUME NEW e \in Exec, LoadFails(e)
     PROVE  BeatInv'
  BY <1>21 DEF LoadFails
<1>22. ASSUME NEW e \in Exec, QueryFails(e)
     PROVE  BeatInv'
  BY <1>22 DEF QueryFails
<1>23. ASSUME NEW e \in Exec, NEW o \in Outcomes \cup {"cancelled"}, WorkerReturns(e, o)
     PROVE  BeatInv'
  BY <1>0, <1>23, BeatKept DEF WorkerReturns, table, Beating
<1>24. ASSUME NEW t \in Task, Create(t)
     PROVE  BeatInv'
  BY <1>0, <1>24, BeatKept DEF Create, runs
<1>25. ASSUME NEW t \in Task, HeartbeatLapses(t)
     PROVE  BeatInv'
  BY <1>0, <1>25 DEF HeartbeatLapses, memory, runs, BeatInv, RunBy
<1>26. CASE UNCHANGED vars
  BY <1>26, BeatKept DEF vars, table, runs
<1>27. ASSUME NEW p \in Process, NEW t \in Task, CancelFails(p, t)
     PROVE  BeatInv'
  BY <1>27 DEF CancelFails
<1>28. ASSUME NEW p \in Process, ReconcileFails(p)
     PROVE  BeatInv'
  BY <1>28 DEF ReconcileFails
<1>. QED
  BY <1>1, <1>2, <1>3, <1>4, <1>5, <1>6, <1>7, <1>8, <1>9, <1>10, <1>11, <1>12, <1>13,
     <1>14, <1>15, <1>16, <1>17, <1>18, <1>19, <1>20, <1>21, <1>22, <1>23, <1>24, <1>25, <1>26,
     <1>27, <1>28
  DEF Next, ServerStep, ExecStep, Fault

\* "Two servers sharing a database cannot steal each other's live work"
\* (task-runner.ts): as long as no beat of a live worker is late and no query is
\* rejected, only a row that its owner no longer runs is declared interrupted.
THEOREM LiveWorkIsNotStolen ==
  ASSUME DbErrors = FALSE, LossyHeartbeats = FALSE
  PROVE  Spec => InterruptedOnlyIfAbandoned
<1>1. Init => ShapeInv /\ BeatInv
  BY ShapeInit, BeatInit
<1>2. (ShapeInv /\ BeatInv) /\ [Next]_vars => (ShapeInv /\ BeatInv)'
  BY ShapeStep, BeatStep
<1>3. ShapeInv /\ BeatInv /\ [Next]_vars =>
        \A t \in Task : status[t] = "running" /\ status'[t] = "interrupted" =>
          ~ \E e \in Exec : RunBy(e, t) /\ Owner(e) = runner[t]
  <2> SUFFICES ASSUME ShapeInv, BeatInv, [Next]_vars, NEW t \in Task, NEW e \in Exec,
                      status[t] = "running", status'[t] = "interrupted",
                      RunBy(e, t), Owner(e) = runner[t]
               PROVE  FALSE
    OBVIOUS
  <2>0. /\ fresh[t] /\ status \in [Task -> Status]
        /\ \A f \in Exec : pc[f] # "idle" => job[f] \in Task
        /\ \A f \in Exec : pc[f] \in {"save", "fail"} => outcome[f] \in Reportable
    BY DEF BeatInv, ShapeInv, TableOK, Shaped
  <2>1. ASSUME NEW p \in Process, ReconcileInterrupt(p)
        PROVE  FALSE
    BY <2>0, <2>1 DEF ReconcileInterrupt
  <2>2. ASSUME NEW u \in Task, Create(u)
        PROVE  FALSE
    BY <2>0, <2>2 DEF Create
  <2>3. ASSUME NEW p \in Process, NEW u \in Task, CancelCommit(p, u) \/ CancelFails(p, u)
        PROVE  FALSE
    BY <2>0, <2>3 DEF CancelCommit, CancelFails
  <2>4. ASSUME NEW f \in Exec, Mark(f)
        PROVE  FALSE
    BY <2>0, <2>4 DEF Mark, MarkRow
  <2>5. ASSUME NEW f \in Exec, Save(f)
        PROVE  FALSE
    BY <2>0, <2>5 DEF Save, SaveRow, Reportable
  <2>6. ASSUME NEW f \in Exec, Fail(f)
        PROVE  FALSE
    BY <2>0, <2>6 DEF Fail, Reportable
  <2>7. ASSUME NEW f \in Exec, QueryFails(f)
        PROVE  FALSE
    BY <2>7 DEF QueryFails
  <2>8. CASE UNCHANGED status
    BY <2>8
  <2>. QED
    BY <2>1, <2>2, <2>3, <2>4, <2>5, <2>6, <2>7, <2>8, StatusWriters
<1>. QED
  BY <1>1, <1>2, <1>3, PTL DEF Spec, InterruptedOnlyIfAbandoned

----------------------------------------------------------------------------
(* Servers that follow one another: what was reported, and what was        *)
(* cancelled while its worker ran, stays.                                  *)

\* A promise whose run may still write the row.
Engaged(e, t) == pc[e] \in Holding \cup {"load"} /\ job[e] = t

\* Whoever will write a row is the only one, and the row names it; until its
\* worker starts the row is queued or cancelled, then running or cancelled.
SoleInv ==
  /\ \A p \in Process, t \in Task : HandedBy(p, t) => status[t] \in {"queued", "cancelled"}
  /\ \A e \in Exec, t \in Task : StartedBy(e, t) => status[t] \in {"queued", "cancelled"}
  /\ \A e \in Exec, t \in Task : pc[e] \in Started /\ job[e] = t => status[t] \in {"running", "cancelled"}
  /\ \A e \in Exec, t \in Task : Engaged(e, t) => runner[t] = Owner(e)
  /\ \A p \in Process, e \in Exec, t \in Task : ~(HandedBy(p, t) /\ Engaged(e, t))
  /\ \A e, f \in Exec, t \in Task : Engaged(e, t) /\ Engaged(f, t) => e = f

LEMMA SoleInit == Init => SoleInv
BY DEF Init, SoleInv, HandedBy, StartedBy, Starting, Started, Engaged, Holding

\* A step that engages nobody anew and moves no promise from where it was.
LEMMA SoleKept ==
  ASSUME SoleInv, UNCHANGED <<pc, job, status>>,
         \A p \in Process : drain'[p] = "handing" => drain[p] = "handing" /\ claimed'[p] = claimed[p],
         \A e \in Exec, t \in Task : Engaged(e, t) => runner'[t] = runner[t]
  PROVE  SoleInv'
BY DEF SoleInv, HandedBy, StartedBy, Starting, Started, Engaged, Holding

\* A step of one promise, which changes nothing but where it is.
LEMMA SoleMoves ==
  ASSUME ShapeInv, SoleInv, NEW e \in Exec, NEW v \in PC, pc' = [pc EXCEPT ![e] = v],
         UNCHANGED <<job, status, runner, drain, claimed>>, pc[e] \in Holding \cup {"load"},
         v \in Starting => pc[e] \in Starting,
         v \in Started => pc[e] \in Started
  PROVE  SoleInv'
<1>1. \A f \in Exec : /\ pc'[f] \in Holding \cup {"load"} => pc[f] \in Holding \cup {"load"}
                      /\ pc'[f] \in Starting => pc[f] \in Starting
                      /\ pc'[f] \in Started => pc[f] \in Started
  BY DEF ShapeInv, RunsOK
<1>. QED
  BY <1>1 DEF SoleInv, HandedBy, StartedBy, Engaged

\* A step of the promise that is on a row alone: it lets go of the row, or is in
\* its catch block, and may have written it.
LEMMA SoleWrites ==
  ASSUME ShapeInv, SoleInv, NEW e \in Exec, pc[e] \in Holding, NEW v \in {"settled", "fail"},
         pc' = [pc EXCEPT ![e] = v], UNCHANGED <<job, drain, claimed>>,
         \A t \in Task : runner'[t] = runner[t] /\ (t # job[e] => status'[t] = status[t])
  PROVE  SoleInv'
<1>0. \A f \in Exec : pc[f] # "idle" => job[f] \in Task
  BY DEF ShapeInv, Shaped
<1>1. \A f \in Exec, t \in Task : /\ Engaged(f, t)' => Engaged(f, t)
                                  /\ StartedBy(f, t)' => StartedBy(f, t) /\ t # job[e]
                                  /\ pc'[f] \in Started /\ job'[f] = t =>
                                       pc[f] \in Started /\ job[f] = t /\ t # job[e]
  <2> SUFFICES ASSUME NEW f \in Exec, NEW t \in Task
               PROVE  /\ Engaged(f, t)' => Engaged(f, t)
                      /\ StartedBy(f, t)' => StartedBy(f, t) /\ t # job[e]
                      /\ pc'[f] \in Started /\ job'[f] = t =>
                           pc[f] \in Started /\ job[f] = t /\ t # job[e]
    OBVIOUS
  <2>1. CASE f = e
    BY <2>1 DEF ShapeInv, RunsOK, Engaged, StartedBy, Holding, Starting, Started
  <2>2. CASE f # e
    <3>1. pc'[f] = pc[f] /\ job'[f] = job[f]
      BY <2>2 DEF ShapeInv, RunsOK
    <3>2. ~(Engaged(e, t) /\ Engaged(f, t))
      BY <2>2 DEF SoleInv
    <3>. QED
      BY <3>1, <3>2 DEF Engaged, StartedBy, Holding, Starting, Started
  <2>. QED BY <2>1, <2>2
<1>2. \A p \in Process, t \in Task : HandedBy(p, t)' => HandedBy(p, t) /\ t # job[e]
  BY DEF HandedBy, SoleInv, Engaged
<1>. QED
  BY <1>0, <1>1, <1>2 DEF SoleInv

LEMMA SoleStep ==
  ASSUME ConcurrentServers = FALSE
  PROVE  ShapeInv /\ OneClaimPerRow /\ SoleInv /\ [Next]_vars => SoleInv'
<1> SUFFICES ASSUME ShapeInv, OneClaimPerRow, SoleInv, [Next]_vars
             PROVE  SoleInv'
  OBVIOUS
<1>0. /\ pc \in [Exec -> PC] /\ job \in [Exec -> Task \cup {None}]
      /\ drain \in [Process -> {"idle", "asking", "handing"}]
      /\ claimed \in [Process -> Task \cup {None}]
      /\ status \in [Task -> Status] /\ runner \in [Task -> Process \cup {None}]
      /\ \A e \in Exec : pc[e] # "idle" => job[e] \in Task
      /\ \A p \in Process : drain[p] = "handing" => claimed[p] \in Task
  BY DEF ShapeInv, TableOK, MemoryOK, RunsOK, Shaped
\* The one server that is up owns whatever a promise is engaged in.
<1>a. \A e \in Exec, t \in Task, p \in Process : up[p] = "up" /\ Engaged(e, t) => runner[t] = p
  <2>1. ASSUME NEW e \in Exec, NEW t \in Task, NEW p \in Process, up[p] = "up", Engaged(e, t)
        PROVE  runner[t] = p
    <3>1. e[1] \in Process /\ e[2] \in Slot /\ e = <<e[1], e[2]>>
      BY ExecIsPair
    <3>2. pc[e] # "idle" /\ runner[t] = e[1]
      BY <2>1 DEF Engaged, Holding, SoleInv, Owner
    <3>3. up[e[1]] = "up"
      BY <3>1, <3>2 DEF OneClaimPerRow
    <3>. QED BY <2>1, <3>1, <3>2, <3>3 DEF OneClaimPerRow
  <2>. QED BY <2>1
<1>b. \A p, q \in Process, t \in Task : up[q] = "up" /\ HandedBy(p, t) => runner[t] = q
  BY DEF OneClaimPerRow, HandedBy
<1>1. ASSUME NEW p \in Process, Start(p)
     PROVE  SoleInv'
  BY <1>1, SoleKept DEF Start, table, runs
<1>2. ASSUME NEW p \in Process, ReconcileInterrupt(p)
     PROVE  SoleInv'
  <2>1. \A t \in Task : runner[t] = p => status'[t] = status[t] /\ runner'[t] = runner[t]
    BY <1>0, <1>2 DEF ReconcileInterrupt
  <2>2. up[p] = "up" /\ UNCHANGED <<pc, job, drain, claimed>>
    BY <1>2 DEF ReconcileInterrupt, runs
  <2>. QED
    BY <1>a, <1>b, <2>1, <2>2 DEF SoleInv, HandedBy, StartedBy, Starting, Started, Engaged, Holding
<1>3. ASSUME NEW p \in Process, ReconcileRelease(p)
     PROVE  SoleInv'
  <2>1. \A e \in Exec, t \in Task : Engaged(e, t) => runner'[t] = runner[t]
    BY <1>0, <1>3, <1>a DEF ReconcileRelease
  <2>. QED
    BY <1>3, <2>1, SoleKept DEF ReconcileRelease, runs
<1>4. ASSUME NEW p \in Process, DrainQueue(p)
     PROVE  SoleInv'
  BY <1>0, <1>4, SoleKept DEF DrainQueue, table, runs
<1>5. ASSUME NEW p \in Process, NEW t \in Task, t \in Unclaimed,
             runner' = [runner EXCEPT ![t] = p], UNCHANGED <<pc, job, status>>,
             \A q \in Process, u \in Task : HandedBy(q, u)' => HandedBy(q, u) \/ u = t,
             \A q, r \in Process : HandedBy(q, t)' /\ HandedBy(r, t)' => q = r
     PROVE  SoleInv'
  <2>1. \A e \in Exec : ~Engaged(e, t)
    BY <1>5, NoneAssumption, ExecIsPair DEF Unclaimed, SoleInv, Owner
  <2>2. \A e \in Exec, u \in Task : Engaged(e, u)' => u # t /\ Engaged(e, u)
    BY <1>5, <2>1 DEF Engaged
  <2>3. \A u \in Task : u # t => runner'[u] = runner[u]
    BY <1>0, <1>5
  <2>4. \A e \in Exec, u \in Task : StartedBy(e, u)' => StartedBy(e, u)
    BY <1>5 DEF StartedBy
  <2>5. status[t] = "queued"
    BY <1>5 DEF Unclaimed
  <2>. QED
    BY <1>5, <2>2, <2>3, <2>4, <2>5 DEF SoleInv
<1>6. ASSUME NEW p \in Process, ClaimNothing(p)
     PROVE  SoleInv'
  BY <1>0, <1>6, SoleKept DEF ClaimNothing, table, runs
<1>7. ASSUME NEW p \in Process, Launch(p)
     PROVE  SoleInv'
  <2>1. PICK n \in Exec : /\ pc[n] = "idle" /\ n[1] = p
                          /\ pc' = [pc EXCEPT ![n] = "load"]
                          /\ job' = [job EXCEPT ![n] = claimed[p]]
    <3>1. \A s \in Slot : <<p, s>> \in Exec
      BY DEF Exec
    <3>. QED BY <1>7, <3>1 DEF Launch, FreeSlot
  <2>2. /\ drain[p] = "handing" /\ drain'[p] # "handing" /\ HandedBy(p, claimed[p]) /\ claimed[p] \in Task
        /\ \A q \in Process \ {p} : drain'[q] = drain[q] /\ claimed'[q] = claimed[q]
        /\ UNCHANGED <<status, runner>>
    BY <1>0, <1>7 DEF Launch, table, HandedBy
  <2>3. /\ pc'[n] = "load" /\ job'[n] = claimed[p]
        /\ \A f \in Exec : f # n => pc'[f] = pc[f] /\ job'[f] = job[f]
    BY <1>0, <2>1
  <2>4. runner[claimed[p]] = p /\ status[claimed[p]] \in {"queued", "cancelled"}
    BY <2>2 DEF OneClaimPerRow, SoleInv
  <2>5. \A f \in Exec, t \in Task :
          /\ Engaged(f, t)' => (f # n /\ t # claimed[p] /\ Engaged(f, t)) \/ (f = n /\ t = claimed[p])
          /\ StartedBy(f, t)' => (f # n /\ StartedBy(f, t)) \/ (f = n /\ t = claimed[p])
          /\ pc'[f] \in Started /\ job'[f] = t => pc[f] \in Started /\ job[f] = t
    <3>1. \A f \in Exec : ~Engaged(f, claimed[p])
      BY <2>2 DEF SoleInv
    <3>. QED
      BY <2>3, <3>1 DEF Engaged, StartedBy, Started
  <2>6. \A q \in Process, t \in Task : HandedBy(q, t)' => t # claimed[p] /\ HandedBy(q, t)
    <3>1. \A q \in Process : HandedBy(q, claimed[p]) => q = p
      BY <2>2, <2>4 DEF OneClaimPerRow
    <3>. QED
      BY <2>2, <3>1 DEF HandedBy
  <2>. QED
    BY <2>1, <2>2, <2>4, <2>5, <2>6 DEF SoleInv, Owner
<1>8. ASSUME NEW p \in Process, Crash(p)
     PROVE  SoleInv'
  <2>1. /\ \A f \in Exec : pc'[f] # "idle" => pc'[f] = pc[f] /\ job'[f] = job[f]
        /\ \A q \in Process : drain'[q] = "handing" => drain[q] = "handing" /\ claimed'[q] = claimed[q]
        /\ UNCHANGED <<status, runner>>
    BY <1>0, <1>8 DEF Crash, table
  <2>. QED
    BY <2>1 DEF SoleInv, HandedBy, StartedBy, Starting, Started, Engaged, Holding
<1>9. ASSUME NEW p \in Process, ClaimNext(p)
     PROVE  SoleInv'
  <2>1. PICK t \in Task : /\ t \in Unclaimed /\ runner' = [runner EXCEPT ![t] = p]
                          /\ claimed' = [claimed EXCEPT ![p] = t]
                          /\ drain' = [drain EXCEPT ![p] = "handing"]
    BY <1>9 DEF ClaimNext, Unclaimed
  <2>2. \A q \in Process : ~HandedBy(q, t)
    BY <2>1, NoneAssumption DEF Unclaimed, OneClaimPerRow
  <2>3. \A q \in Process, u \in Task : HandedBy(q, u)' => HandedBy(q, u) \/ (q = p /\ u = t)
    BY <1>0, <2>1 DEF HandedBy
  <2>4. UNCHANGED <<pc, job, status>>
    BY <1>9 DEF ClaimNext, runs
  <2>. QED
    BY <1>5, <2>1, <2>2, <2>3, <2>4
<1>10. ASSUME NEW p \in Process, NEW t \in Task, CancelRequest(p, t)
     PROVE  SoleInv'
  BY <1>10, SoleKept DEF CancelRequest, table
<1>11. ASSUME NEW p \in Process, NEW t \in Task, CancelCommit(p, t) \/ CancelFails(p, t)
     PROVE  SoleInv'
  <2>1. /\ \A u \in Task : status'[u] \in {status[u], "cancelled"}
        /\ UNCHANGED <<runner, pc, job, drain, claimed>>
    BY <1>0, <1>11 DEF CancelCommit, CancelFails, runs
  <2>. QED
    BY <2>1 DEF SoleInv, HandedBy, StartedBy, Starting, Started, Engaged, Holding
<1>12. ASSUME NEW e \in Exec, Acquire(e)
     PROVE  SoleInv'
  BY <1>12, SoleMoves DEF Acquire, PC, table, Starting, Started
<1>13. ASSUME NEW e \in Exec, CheckCancelled(e)
     PROVE  SoleInv'
  BY <1>13, SoleWrites DEF CheckCancelled, Finally, table, Holding
<1>14. ASSUME NEW e \in Exec, CheckLive(e)
     PROVE  SoleInv'
  BY <1>14, SoleMoves DEF CheckLive, PC, table, memory, Holding, Starting, Started
<1>15. ASSUME NEW e \in Exec, Mark(e)
     PROVE  SoleInv'
  <2>1. /\ job[e] \in Task /\ pc[e] = "mark" /\ pc' = [pc EXCEPT ![e] = "work"]
        /\ status' = [status EXCEPT ![job[e]] = "running"]
        /\ runner' = [runner EXCEPT ![job[e]] = e[1]]
        /\ UNCHANGED <<job, drain, claimed>>
    BY <1>0, <1>15 DEF Mark, MarkRow, Owner, memory
  <2>2. Engaged(e, job[e])
    BY <2>1 DEF Engaged, Holding
  <2>3. runner[job[e]] = e[1] /\ runner' = runner
    BY <1>0, <2>1, <2>2 DEF SoleInv, Owner
  <2>4. \A f \in Exec, t \in Task : /\ Engaged(f, t)' <=> Engaged(f, t)
                                    /\ Engaged(f, job[e]) => f = e
    BY <1>0, <2>1, <2>2 DEF SoleInv, Engaged, Holding
  <2>5. \A f \in Exec : f # e => pc'[f] = pc[f] /\ job'[f] = job[f] /\ ~Engaged(f, job[e])
    BY <1>0, <2>1, <2>4
  <2>6. \A t \in Task : t # job[e] => status'[t] = status[t]
    BY <1>0, <2>1
  <2>7. pc'[e] = "work" /\ status'[job[e]] = "running"
    BY <1>0, <2>1
  <2>8. \A p \in Process, t \in Task : HandedBy(p, t)' => HandedBy(p, t) /\ t # job[e]
    BY <2>1, <2>2 DEF HandedBy, SoleInv
  <2>9. \A f \in Exec, t \in Task : StartedBy(f, t)' => StartedBy(f, t) /\ t # job[e]
    BY <2>1, <2>5, <2>7 DEF StartedBy, Engaged, Starting, Holding
  <2>10. \A f \in Exec, t \in Task : pc'[f] \in Started /\ job'[f] = t =>
           status'[t] \in {"running", "cancelled"}
    BY <2>1, <2>5, <2>6, <2>7 DEF SoleInv, Started, Engaged, Holding
  <2>. QED
    BY <2>3, <2>4, <2>6, <2>8, <2>9, <2>10 DEF SoleInv
<1>16. ASSUME NEW e \in Exec, WorkerThrows(e)
     PROVE  SoleInv'
  BY <1>16, SoleMoves DEF WorkerThrows, PC, table, memory, Holding, Starting, Started
<1>17. ASSUME NEW e \in Exec, Save(e)
     PROVE  SoleInv'
  BY <1>0, <1>17, SoleWrites DEF Save, SaveRow, Finally, Holding
<1>18. ASSUME NEW e \in Exec, Fail(e)
     PROVE  SoleInv'
  BY <1>0, <1>18, SoleWrites DEF Fail, Finally, Holding
<1>19. ASSUME NEW e \in Exec, Settle(e)
     PROVE  SoleInv'
  <2>1. /\ \A f \in Exec : pc'[f] # "idle" => pc'[f] = pc[f] /\ job'[f] = job[f]
        /\ UNCHANGED <<status, runner, drain, claimed>>
    BY <1>0, <1>19 DEF Settle, table
  <2>. QED
    BY <2>1 DEF SoleInv, HandedBy, StartedBy, Starting, Started, Engaged, Holding
<1>20. ASSUME NEW e \in Exec, Beat(e)
     PROVE  SoleInv'
  BY <1>20, SoleKept DEF Beat, memory, runs
<1>21. ASSUME NEW e \in Exec, LoadFails(e)
     PROVE  SoleInv'
  BY <1>21, SoleMoves DEF LoadFails, PC, table, memory, Starting, Started
<1>22. ASSUME NEW e \in Exec, QueryFails(e)
     PROVE  SoleInv'
  <2>1. /\ pc[e] \in {"check", "mark", "save"} /\ pc' = [pc EXCEPT ![e] = "fail"]
        /\ UNCHANGED <<job, drain, claimed>> /\ Engaged(e, job[e]) /\ job[e] \in Task
    BY <1>0, <1>22 DEF QueryFails, memory, Engaged, Holding
  <2>2. runner[job[e]] = e[1]
    BY <2>1 DEF SoleInv, Owner
  <2>3. \A t \in Task : runner'[t] = runner[t]
    BY <1>22, <2>2, RejectedQuery
  <2>4. \A t \in Task : t # job[e] => status'[t] = status[t]
    BY <1>0, <1>22 DEF QueryFails, MarkRow, SaveRow, table
  <2>. QED
    BY <2>1, <2>3, <2>4, SoleWrites DEF Holding
<1>23. ASSUME NEW e \in Exec, NEW o \in Outcomes \cup {"cancelled"}, WorkerReturns(e, o)
     PROVE  SoleInv'
  BY <1>23, SoleMoves DEF WorkerReturns, PC, table, memory, Holding, Starting, Started
<1>24. ASSUME NEW t \in Task, Create(t)
     PROVE  SoleInv'
  <2>1. /\ status' = [status EXCEPT ![t] = "queued"] /\ status[t] = "absent"
        /\ UNCHANGED <<runner, pc, job, drain, claimed>>
    BY <1>24 DEF Create, memory, runs
  <2>2. \A u \in Task : status[u] # "absent" => status'[u] = status[u]
    BY <1>0, <2>1
  <2>. QED
    BY <2>1, <2>2 DEF SoleInv, HandedBy, StartedBy, Engaged
<1>25. ASSUME NEW t \in Task, HeartbeatLapses(t)
     PROVE  SoleInv'
  BY <1>25, SoleKept DEF HeartbeatLapses, memory, runs
<1>26. CASE UNCHANGED vars
  BY <1>26, SoleKept DEF vars, table, memory, runs
<1>27. ASSUME NEW p \in Process, ClaimFails(p)
     PROVE  SoleInv'
  <2>1. /\ UNCHANGED <<pc, job, status, claimed>>
        /\ \A q \in Process : drain'[q] = "handing" => drain[q] = "handing"
    BY <1>0, <1>27 DEF ClaimFails, runs
  <2>2. CASE UNCHANGED runner
    BY <2>1, <2>2, SoleKept
  <2>3. ASSUME NEW t \in Unclaimed, runner' = [runner EXCEPT ![t] = p]
        PROVE  SoleInv'
    <3>1. t \in Task /\ \A q \in Process : ~HandedBy(q, t)
      BY <2>3, NoneAssumption DEF Unclaimed, OneClaimPerRow
    <3>2. \A q \in Process, u \in Task : HandedBy(q, u)' => HandedBy(q, u)
      BY <2>1 DEF HandedBy
    <3>. QED
      BY <1>5, <2>1, <2>3, <3>1, <3>2
  <2>. QED
    BY <1>27, <2>2, <2>3 DEF ClaimFails
<1>28. ASSUME NEW p \in Process, ReconcileFails(p)
     PROVE  SoleInv'
  BY <1>28, SoleKept DEF ReconcileFails, table, runs
<1>. QED
  BY <1>1, <1>2, <1>3, <1>4, <1>6, <1>7, <1>8, <1>9, <1>10, <1>11, <1>12, <1>13,
     <1>14, <1>15, <1>16, <1>17, <1>18, <1>19, <1>20, <1>21, <1>22, <1>23, <1>24, <1>25, <1>26,
     <1>27, <1>28
  DEF Next, ServerStep, ExecStep, Fault

LEMMA SoleInvariant ==
  ASSUME ConcurrentServers = FALSE
  PROVE  Spec => [](ShapeInv /\ SoleInv)
<1>1. Init => ShapeInv /\ OneClaimPerRow /\ SoleInv
  BY ShapeInit, OneClaimInit, SoleInit
<1>2. (ShapeInv /\ OneClaimPerRow /\ SoleInv) /\ [Next]_vars => (ShapeInv /\ OneClaimPerRow /\ SoleInv)'
  BY ShapeStep, OneClaimStep, SoleStep
<1>. QED
  BY <1>1, <1>2, PTL DEF Spec

\* While one server runs at a time, what was reported about a finished task is
\* changed by nobody but the run whose report's answer was lost.
THEOREM ReportsAreKept ==
  ASSUME ConcurrentServers = FALSE
  PROVE  Spec => ReportedIsFinal
<1>1. ShapeInv /\ SoleInv /\ [Next]_vars =>
        \A t \in Task : status[t] \in Terminal \ {"cancelled"} =>
          \/ status'[t] = status[t]
          \/ \E e \in Exec : pc[e] = "fail" /\ job[e] = t /\ status'[t] = outcome[e]
  <2> SUFFICES ASSUME ShapeInv, SoleInv, [Next]_vars, NEW t \in Task,
                      status[t] \in Terminal \ {"cancelled"}
               PROVE  \/ status'[t] = status[t]
                      \/ \E e \in Exec : pc[e] = "fail" /\ job[e] = t /\ status'[t] = outcome[e]
    OBVIOUS
  <2>0. /\ status \in [Task -> Status] /\ status[t] \notin {"absent", "queued", "running", "cancelled"}
        /\ \A f \in Exec : pc[f] # "idle" => job[f] \in Task
    BY DEF ShapeInv, TableOK, Shaped, Terminal, Reportable
  <2>1. \A f \in Exec : pc[f] \in Starting \cup Started => job[f] # t
    BY <2>0 DEF SoleInv, StartedBy
  <2>2. ASSUME NEW p \in Process, ReconcileInterrupt(p)
        PROVE  status'[t] = status[t]
    BY <2>0, <2>2 DEF ReconcileInterrupt
  <2>3. ASSUME NEW u \in Task, Create(u)
        PROVE  status'[t] = status[t]
    BY <2>0, <2>3 DEF Create
  <2>4. ASSUME NEW p \in Process, NEW u \in Task, CancelCommit(p, u) \/ CancelFails(p, u)
        PROVE  status'[t] = status[t]
    BY <2>0, <2>4 DEF CancelCommit, CancelFails, Cancellable
  <2>5. ASSUME NEW f \in Exec, Mark(f) \/ Save(f) \/ QueryFails(f)
        PROVE  status'[t] = status[t]
    <3>1. pc[f] \in {"check", "mark", "save"} /\ job[f] # t
      BY <2>1, <2>5 DEF Mark, Save, QueryFails, Starting, Started
    <3>. QED
      BY <2>0, <2>5, <3>1 DEF Mark, Save, QueryFails, MarkRow, SaveRow, table
  <2>6. ASSUME NEW f \in Exec, Fail(f)
        PROVE  status'[t] = status[t] \/ (pc[f] = "fail" /\ job[f] = t /\ status'[t] = outcome[f])
    BY <2>0, <2>6 DEF Fail
  <2>. QED
    BY <2>2, <2>3, <2>4, <2>5, <2>6, StatusWriters
<1>. QED
  BY <1>1, SoleInvariant, PTL DEF Spec, ReportedIsFinal

\* While one server runs at a time, nothing a cancelled worker still does
\* changes its row once the row is marked cancelled.
THEOREM CancelledStays ==
  ASSUME ConcurrentServers = FALSE
  PROVE  Spec => AbortedStaysCancelled
<1>1. ShapeInv /\ SoleInv /\ [Next]_vars =>
        \A e \in Exec :
          (/\ pc[e] \in Started \/ (pc[e] = "fail" /\ outcome[e] = "cancelled")
           /\ aborted[e] /\ status[job[e]] = "cancelled")
          => status'[job[e]] = "cancelled"
  <2> SUFFICES ASSUME ShapeInv, SoleInv, [Next]_vars, NEW e \in Exec,
                      pc[e] \in Started \/ (pc[e] = "fail" /\ outcome[e] = "cancelled"),
                      status[job[e]] = "cancelled"
               PROVE  status'[job[e]] = "cancelled"
    OBVIOUS
  <2>0. /\ status \in [Task -> Status] /\ job[e] \in Task
        /\ \A f \in Exec : pc[f] # "idle" => job[f] \in Task
    BY DEF ShapeInv, TableOK, Shaped, Started
  <2>1. \A f \in Exec : pc[f] \in Holding /\ f # e => job[f] # job[e]
    <3>1. Engaged(e, job[e])
      BY DEF Engaged, Started, Holding
    <3>. QED BY <2>0, <3>1 DEF SoleInv, Engaged
  <2>2. ASSUME NEW p \in Process, ReconcileInterrupt(p)
        PROVE  status'[job[e]] = "cancelled"
    BY <2>0, <2>2 DEF ReconcileInterrupt
  <2>3. ASSUME NEW u \in Task, Create(u)
        PROVE  status'[job[e]] = "cancelled"
    BY <2>0, <2>3 DEF Create
  <2>4. ASSUME NEW p \in Process, NEW u \in Task, CancelCommit(p, u) \/ CancelFails(p, u)
        PROVE  status'[job[e]] = "cancelled"
    BY <2>0, <2>4 DEF CancelCommit, CancelFails
  <2>5. ASSUME NEW f \in Exec, Mark(f) \/ Save(f) \/ Fail(f) \/ QueryFails(f)
        PROVE  status'[job[e]] = "cancelled"
    <3>1. pc[f] \in Holding /\ job[f] \in Task
      BY <2>0, <2>5 DEF Mark, Save, Fail, QueryFails, Holding
    <3>2. CASE f # e
      BY <2>0, <2>1, <2>5, <3>1, <3>2 DEF Mark, Save, Fail, QueryFails, MarkRow, SaveRow, table
    <3>3. CASE f = e
      BY <2>0, <2>5, <3>3 DEF Mark, Save, Fail, QueryFails, MarkRow, SaveRow, table, Started
    <3>. QED BY <3>2, <3>3
  <2>. QED
    BY <2>2, <2>3, <2>4, <2>5, StatusWriters
<1>. QED
  BY <1>1, SoleInvariant, PTL DEF Spec, AbortedStaysCancelled

----------------------------------------------------------------------------
(* Servers that follow one another keep the ledger.                        *)

\* A worker that runs was counted, and a catch block says failed or cancelled.
WorkInv ==
  /\ \A e \in Exec : pc[e] \in Started => starts[job[e]] > 0
  /\ \A e \in Exec : pc[e] = "fail" => outcome[e] \in {"failed", "cancelled"}

LEMMA WorkInit == Init => WorkInv
BY DEF Init, WorkInv, Started

LEMMA WorkStep == ShapeInv /\ WorkInv /\ [Next]_vars => WorkInv'
<1> SUFFICES ASSUME ShapeInv, WorkInv, [Next]_vars
             PROVE  WorkInv'
  OBVIOUS
<1>0. /\ pc \in [Exec -> PC] /\ job \in [Exec -> Task \cup {None}]
      /\ outcome \in [Exec -> Reportable \cup {None}] /\ starts \in [Task -> Nat]
      /\ \A e \in Exec : pc[e] # "idle" => job[e] \in Task
  BY DEF ShapeInv, RunsOK, GhostsOK, Shaped
<1>1. CASE UNCHANGED <<runs, starts>>
  BY <1>1 DEF WorkInv, runs
<1>2. ASSUME NEW p \in Process, Launch(p)
      PROVE  WorkInv'
  <2>1. PICK n \in Exec : /\ pc[n] = "idle"
                          /\ pc' = [pc EXCEPT ![n] = "load"]
                          /\ job' = [job EXCEPT ![n] = claimed[p]]
    <3>1. \A s \in Slot : <<p, s>> \in Exec
      BY DEF Exec
    <3>. QED BY <1>2, <3>1 DEF Launch, FreeSlot
  <2>2. UNCHANGED <<outcome, starts>>
    BY <1>2 DEF Launch, ghosts
  <2>. QED
    BY <1>0, <2>1, <2>2 DEF WorkInv, Started
<1>3. ASSUME NEW p \in Process, Crash(p)
      PROVE  WorkInv'
  BY <1>0, <1>3 DEF Crash, ghosts, WorkInv, Started
<1>4. ASSUME NEW p \in Process, NEW t \in Task, CancelRequest(p, t)
      PROVE  WorkInv'
  BY <1>4 DEF CancelRequest, ghosts, WorkInv
<1>5. ASSUME NEW e \in Exec, Acquire(e) \/ CheckLive(e) \/ LoadFails(e)
      PROVE  WorkInv'
  BY <1>0, <1>5 DEF Acquire, CheckLive, LoadFails, ghosts, WorkInv, Started
<1>6. ASSUME NEW e \in Exec, CheckCancelled(e) \/ Save(e) \/ Fail(e)
      PROVE  WorkInv'
  BY <1>0, <1>6 DEF CheckCancelled, Save, Fail, Finally, ghosts, WorkInv, Started
<1>7. ASSUME NEW e \in Exec, Mark(e)
      PROVE  WorkInv'
  <2>1. \A t \in Task : starts'[t] \in Nat /\ starts'[t] >= starts[t]
    BY <1>0, <1>7 DEF Mark
  <2>2. starts'[job[e]] > 0
    BY <1>0, <1>7 DEF Mark
  <2>3. \A f \in Exec : f # e => pc'[f] = pc[f]
    BY <1>0, <1>7 DEF Mark
  <2>4. UNCHANGED <<job, outcome>> /\ pc'[e] = "work"
    BY <1>0, <1>7 DEF Mark
  <2>5. \A f \in Exec : pc[f] \in Started => starts'[job[f]] > 0
    BY <1>0, <2>1 DEF WorkInv, Started
  <2>. QED
    BY <1>0, <2>2, <2>3, <2>4, <2>5 DEF WorkInv, Started
<1>8. ASSUME NEW e \in Exec, NEW o \in Outcomes \cup {"cancelled"}, WorkerReturns(e, o)
      PROVE  WorkInv'
  BY <1>0, <1>8 DEF WorkerReturns, ghosts, WorkInv, Started
<1>9. ASSUME NEW e \in Exec, WorkerThrows(e) \/ QueryFails(e)
      PROVE  WorkInv'
  <2>1. /\ pc' = [pc EXCEPT ![e] = "fail"] /\ outcome' = [outcome EXCEPT ![e] = CatchStatus(e)]
        /\ UNCHANGED <<job, starts>>
    BY <1>9 DEF WorkerThrows, QueryFails, ghosts
  <2>2. CatchStatus(e) \in {"failed", "cancelled"}
    BY DEF CatchStatus
  <2>. QED
    BY <1>0, <2>1, <2>2 DEF WorkInv, Started
<1>10. ASSUME NEW e \in Exec, Settle(e)
      PROVE  WorkInv'
  BY <1>0, <1>10 DEF Settle, ghosts, WorkInv, Started
<1>11. ASSUME NEW p \in Process,
              \/ Start(p) \/ ReconcileInterrupt(p) \/ ReconcileRelease(p) \/ ReconcileFails(p)
              \/ DrainQueue(p) \/ ClaimNext(p) \/ ClaimNothing(p) \/ ClaimFails(p)
       PROVE  WorkInv'
  BY <1>1, <1>11 DEF Start, ReconcileInterrupt, ReconcileRelease, ReconcileFails, DrainQueue,
                     ClaimNext, ClaimNothing, ClaimFails, ghosts
<1>12. ASSUME NEW p \in Process, NEW t \in Task, CancelCommit(p, t) \/ CancelFails(p, t)
       PROVE  WorkInv'
  BY <1>1, <1>12 DEF CancelCommit, CancelFails, ghosts
<1>13. ASSUME NEW t \in Task, Create(t) \/ HeartbeatLapses(t)
       PROVE  WorkInv'
  BY <1>1, <1>13 DEF Create, HeartbeatLapses, ghosts
<1>14. ASSUME NEW e \in Exec, Beat(e)
       PROVE  WorkInv'
  BY <1>1, <1>14 DEF Beat, ghosts
<1>15. CASE UNCHANGED vars
  BY <1>1, <1>15 DEF vars, ghosts
<1>. QED
  BY <1>2, <1>3, <1>4, <1>5, <1>6, <1>7, <1>8, <1>9, <1>10, <1>11, <1>12, <1>13, <1>14, <1>15
  DEF Next, ServerStep, ExecStep, Fault

\* Where a row is when one promise has it, which is at v, and n workers were started for it.
Place(v, n) ==
  IF n > 0 THEN IF v \in Beating THEN "working" ELSE "over"
           ELSE IF v \in Starting \cup Beating THEN "taken" ELSE "free"

\* Nobody else has the row.
Alone(e, t) == /\ \A f \in Exec : f # e => ~Engaged(f, t)
               /\ \A p \in Process : ~HandedBy(p, t)

LEMMA PlaceOf ==
  ASSUME NEW e \in Exec, NEW t \in Task, job[e] = t, Alone(e, t)
  PROVE  HandOf(t) = Place(pc[e], starts[t])
<1>1. \A f \in Exec : f # e => ~StartedBy(f, t) /\ ~RunBy(f, t)
  BY DEF Alone, Engaged, StartedBy, RunBy, Starting, Beating, Holding
<1>2. /\ (\E f \in Exec : RunBy(f, t)) <=> pc[e] \in Beating
      /\ (\E f \in Exec : StartedBy(f, t) \/ RunBy(f, t)) <=> pc[e] \in Starting \cup Beating
  BY <1>1 DEF StartedBy, RunBy
<1>. QED
  BY <1>2 DEF HandOf, Place, Alone

LEMMA PlaceAfter ==
  ASSUME NEW e \in Exec, NEW t \in Task, job'[e] = t, Alone(e, t)'
  PROVE  HandOf(t)' = Place(pc'[e], starts'[t])
<1>1. \A f \in Exec : f # e => ~StartedBy(f, t)' /\ ~RunBy(f, t)'
  BY DEF Alone, Engaged, StartedBy, RunBy, Starting, Beating, Holding
<1>2. /\ (\E f \in Exec : RunBy(f, t)') <=> pc'[e] \in Beating
      /\ (\E f \in Exec : StartedBy(f, t)' \/ RunBy(f, t)') <=> pc'[e] \in Starting \cup Beating
  BY <1>1 DEF StartedBy, RunBy
<1>. QED
  BY <1>2 DEF HandOf, Place, Alone

\* A row stays in the hands it is in while the same promises have it.
LEMMA SameHand ==
  ASSUME NEW t \in Task, starts'[t] = starts[t],
         (\E e \in Exec : RunBy(e, t))' <=> (\E e \in Exec : RunBy(e, t)),
         (\/ \E p \in Process : HandedBy(p, t)
          \/ \E e \in Exec : StartedBy(e, t) \/ RunBy(e, t))' <=>
         (\/ \E p \in Process : HandedBy(p, t)
          \/ \E e \in Exec : StartedBy(e, t) \/ RunBy(e, t))
  PROVE  HandOf(t)' = HandOf(t)
BY DEF HandOf

\* So no hand changes when no promise moves, and no claim.
LEMMA SameHands ==
  ASSUME UNCHANGED <<pc, job, starts>>,
         \A p \in Process, t \in Task : HandedBy(p, t)' <=> HandedBy(p, t)
  PROVE  Hands' = Hands
<1>1. ASSUME NEW t \in Task
      PROVE  HandOf(t)' = HandOf(t)
  BY <1>1, SameHand DEF RunBy, StartedBy
<1>. QED
  BY <1>1 DEF Hands

\* A step of a promise that has a row: only that row changes hands.
LEMMA HandsMove ==
  ASSUME ShapeInv, SoleInv, NEW e \in Exec, NEW v \in PC, pc[e] \in Holding \cup {"load"},
         pc' = [pc EXCEPT ![e] = v], UNCHANGED <<job, drain, claimed>>,
         \A t \in Task : t # job[e] => starts'[t] = starts[t]
  PROVE  /\ job[e] \in Task /\ Hands[job[e]] = Place(pc[e], starts[job[e]])
         /\ Hands' = [Hands EXCEPT ![job[e]] = Place(v, starts'[job[e]])]
<1> DEFINE t == job[e]
<1>1. t \in Task /\ Engaged(e, t)
  BY DEF ShapeInv, Shaped, Holding, Engaged
<1>2. \A f \in Exec : f # e => pc'[f] = pc[f] /\ job'[f] = job[f]
  BY DEF ShapeInv, RunsOK
<1>3. pc'[e] = v /\ job'[e] = t
  BY DEF ShapeInv, RunsOK
<1>4. Alone(e, t)
  BY <1>1 DEF SoleInv, Alone
<1>5. Alone(e, t)'
  <2>1. \A f \in Exec : f # e => (Engaged(f, t)' <=> Engaged(f, t))
    BY <1>2 DEF Engaged
  <2>2. t' = t  OBVIOUS
  <2> HIDE DEF t
  <2>. QED
    BY <1>4, <2>1, <2>2 DEF Alone, HandedBy, Engaged
<1>6. HandOf(t) = Place(pc[e], starts[t])
  BY <1>1, <1>4, PlaceOf
<1>7. HandOf(t)' = Place(v, starts'[t])
  BY <1>1, <1>3, <1>5, PlaceAfter
<1>8. ASSUME NEW u \in Task, u # t
      PROVE  HandOf(u)' = HandOf(u)
  <2>1. \A f \in Exec : (RunBy(f, u)' <=> RunBy(f, u)) /\ (StartedBy(f, u)' <=> StartedBy(f, u))
    BY <1>2, <1>3, <1>8 DEF RunBy, StartedBy
  <2>2. \A p \in Process : HandedBy(p, u)' <=> HandedBy(p, u)
    BY DEF HandedBy
  <2>. QED
    BY <1>8, <2>1, <2>2, SameHand
<1>9. Hands[t] = Place(pc[e], starts[t]) /\ t' = t
  BY <1>1, <1>6 DEF Hands
<1> HIDE DEF t
<1>10. ASSUME NEW u \in Task
       PROVE  Hands'[u] = [Hands EXCEPT ![t] = Place(v, starts'[t])][u]
  <2>1. CASE u = t
    BY <1>1, <1>7, <1>9, <2>1 DEF Hands
  <2>2. CASE u # t
    BY <1>1, <1>8, <2>2 DEF Hands
  <2>. QED
    BY <2>1, <2>2
<1>11. Hands' = [Hands EXCEPT ![t] = Place(v, starts'[t])]
  BY <1>10 DEF Hands
<1>. QED
  BY <1>1, <1>9, <1>11 DEF t

\* Of a step of a promise with row t: what the ledger says of the other rows stays, and t's
\* row goes on as Start, Report, Fail and Drop allow.
LEMMA LedgerPromise ==
  ASSUME ShapeInv, OneClaimPerRow, SoleInv, WorkInv, NEW e \in Exec,
         \/ Acquire(e) \/ CheckCancelled(e) \/ CheckLive(e) \/ Mark(e) \/ WorkerThrows(e)
         \/ Save(e) \/ Fail(e) \/ LoadFails(e) \/ QueryFails(e)
         \/ \E o \in Outcomes \cup {"cancelled"} : WorkerReturns(e, o)
  PROVE  Ledger!Next \/ UNCHANGED Ledger!vars
<1> DEFINE t == job[e]
<1>0. /\ pc \in [Exec -> PC] /\ status \in [Task -> Status] /\ starts \in [Task -> Nat]
      /\ t \in Task /\ pc[e] \in Holding \cup {"load"}
  BY DEF ShapeInv, Shaped, RunsOK, TableOK, GhostsOK, Acquire, CheckCancelled, CheckLive, Mark,
         WorkerThrows, Save, Fail, LoadFails, QueryFails, WorkerReturns, Holding
<1>1. /\ pc[e] \in Starting => starts[t] = 0 /\ status[t] \in {"queued", "cancelled"}
      /\ pc[e] \in Started => starts[t] > 0 /\ status[t] \in {"running", "cancelled"}
  <2>1. CASE pc[e] \in Starting
    <3>1. StartedBy(e, t)
      BY <2>1 DEF StartedBy
    <3>. QED
      BY <1>0, <2>1, <3>1 DEF OneClaimPerRow, SoleInv, Starting, Started
  <2>2. CASE pc[e] \in Started
    BY <1>0, <2>2 DEF SoleInv, WorkInv, Starting, Started
  <2>. QED
    BY <2>1, <2>2
<1>2. ASSUME NEW v \in PC, pc' = [pc EXCEPT ![e] = v], UNCHANGED <<job, drain, claimed>>,
             \A u \in Task : u # t => starts'[u] = starts[u]
      PROVE  /\ Hands[t] = Place(pc[e], starts[t])
             /\ Hands' = [Hands EXCEPT ![t] = Place(v, starts'[t])]
  BY <1>0, <1>2, HandsMove
<1>3. Hands \in [Task -> {"free", "taken", "working", "over"}]
  BY DEF Hands, HandOf
<1> HIDE DEF t
<1> USE DEF Starting, Started, Beating
<1>4. ASSUME NEW v \in PC, pc' = [pc EXCEPT ![e] = v], UNCHANGED <<job, drain, claimed, status, starts>>,
             \/ pc[e] \in Starting /\ v \in Starting \cup {"fail"}
             \/ pc[e] \in Started /\ v \in Beating
      PROVE  UNCHANGED Ledger!vars
  <2>1. Place(v, starts'[t]) = Place(pc[e], starts[t])
    BY <1>0, <1>1, <1>4 DEF Place
  <2>2. Hands' = [Hands EXCEPT ![t] = Hands[t]]
    BY <1>2, <1>4, <2>1
  <2>. QED
    BY <1>3, <1>4, <2>2 DEF Ledger!vars
<1>5. CASE Acquire(e) \/ CheckLive(e)
  <2>1. PICK v \in {"check", "mark"} : pc' = [pc EXCEPT ![e] = v]
    BY <1>5 DEF Acquire, CheckLive
  <2>2. pc[e] \in Starting /\ UNCHANGED <<job, drain, claimed, status, starts>>
    BY <1>5 DEF Acquire, CheckLive, table, memory, ghosts
  <2>. QED
    BY <1>4, <2>1, <2>2 DEF PC
<1>6. CASE WorkerThrows(e) \/ \E o \in Outcomes \cup {"cancelled"} : WorkerReturns(e, o)
  BY <1>4, <1>6 DEF WorkerThrows, WorkerReturns, PC, table, memory, ghosts
<1>7. CASE CheckCancelled(e) \/ LoadFails(e)
  <2>1. /\ pc[e] \in Starting /\ pc' = [pc EXCEPT ![e] = "settled"]
        /\ UNCHANGED <<job, drain, claimed, status, starts>>
    BY <1>7 DEF CheckCancelled, LoadFails, Finally, table, memory, ghosts
  <2>2. Place(pc[e], starts[t]) = "taken" /\ Place("settled", starts'[t]) = "free"
    BY <1>1, <2>1 DEF Place
  <2>3. Hands[t] = "taken" /\ Hands' = [Hands EXCEPT ![t] = "free"]
    BY <1>2, <2>1, <2>2 DEF PC
  <2>4. status' = [status EXCEPT ![t] = status[t]] /\ status[t] # "running"
    BY <1>0, <1>1, <2>1
  <2>5. Ledger!Drop(t)
    BY <2>3, <2>4 DEF Ledger!Drop, Ledger!Row
  <2>. QED
    BY <1>0, <2>5 DEF Ledger!Next
<1>8. ASSUME pc[e] = "mark", NEW v \in {"work", "fail"}, pc' = [pc EXCEPT ![e] = v],
             UNCHANGED <<job, drain, claimed>>, status' = [status EXCEPT ![t] = "running"],
             starts' = IF v = "work" THEN [starts EXCEPT ![t] = @ + 1] ELSE starts
      PROVE  Ledger!Next
  <2>1. /\ Place(pc[e], starts[t]) = "taken"
        /\ Place(v, starts'[t]) = IF v = "work" THEN "working" ELSE "taken"
    BY <1>0, <1>1, <1>8 DEF Place
  <2>2. Hands[t] = "taken" /\ Hands' = [Hands EXCEPT ![t] = IF v = "work" THEN "working" ELSE "taken"]
    BY <1>0, <1>2, <1>8, <2>1 DEF PC
  <2>3. Ledger!Start(t)
    BY <1>1, <1>8, <2>2 DEF Ledger!Start, Ledger!Row
  <2>. QED
    BY <1>0, <2>3 DEF Ledger!Next
<1>9. CASE Mark(e)
  BY <1>8, <1>9 DEF Mark, MarkRow, memory, t
<1>10. ASSUME pc[e] = "save", NEW v \in {"settled", "fail"}, pc' = [pc EXCEPT ![e] = v],
              UNCHANGED <<job, drain, claimed, starts>>, SaveRow(t, outcome[e])
       PROVE  Ledger!Next
  <2>1. /\ Place(pc[e], starts[t]) = "working"
        /\ Place(v, starts'[t]) = IF v = "settled" THEN "over" ELSE "working"
    BY <1>1, <1>10 DEF Place
  <2>2. Hands[t] = "working" /\ Hands' = [Hands EXCEPT ![t] = IF v = "settled" THEN "over" ELSE "working"]
    BY <1>2, <1>10, <2>1 DEF PC
  <2>3. outcome[e] \in Ledger!Reports
    BY <1>10 DEF ShapeInv, Shaped, Reportable, Ledger!Reports
  <2>4. status' = [status EXCEPT ![t] = IF status[t] = "cancelled" THEN "cancelled" ELSE outcome[e]]
    BY <1>0, <1>10 DEF SaveRow
  <2>5. Ledger!Report(t)
    BY <1>1, <1>10, <2>2, <2>3, <2>4 DEF Ledger!Report, Ledger!Row
  <2>. QED
    BY <1>0, <2>5 DEF Ledger!Next
<1>11. CASE Save(e)
  BY <1>10, <1>11 DEF Save, Finally, ghosts, t
<1>12. CASE QueryFails(e)
  <2>1. /\ pc[e] \in {"check", "mark", "save"} /\ pc' = [pc EXCEPT ![e] = "fail"]
        /\ UNCHANGED <<job, drain, claimed, starts>>
    BY <1>12 DEF QueryFails, memory, ghosts
  <2>2. CASE UNCHANGED table
    BY <1>4, <2>1, <2>2 DEF table, PC
  <2>3. CASE pc[e] = "mark" /\ MarkRow(job[e], Owner(e))
    BY <1>8, <2>1, <2>3 DEF MarkRow, t
  <2>4. CASE pc[e] = "save" /\ SaveRow(job[e], outcome[e])
    BY <1>10, <2>1, <2>4 DEF t
  <2>. QED
    BY <1>12, <2>2, <2>3, <2>4 DEF QueryFails
<1>13. CASE Fail(e)
  <2>1. /\ pc[e] = "fail" /\ pc' = [pc EXCEPT ![e] = "settled"]
        /\ UNCHANGED <<job, drain, claimed, starts>>
    BY <1>13 DEF Fail, Finally, ghosts
  <2>2. /\ Place(pc[e], starts[t]) = IF starts[t] > 0 THEN "working" ELSE "taken"
        /\ Place("settled", starts'[t]) = IF starts[t] > 0 THEN "over" ELSE "free"
    BY <2>1 DEF Place
  <2>3. /\ Hands[t] \in {"taken", "working"}
        /\ Hands' = [Hands EXCEPT ![t] = Ledger!LetGo(Hands[t])]
    BY <1>2, <2>1, <2>2 DEF PC, Ledger!LetGo
  <2>4. PICK s \in {"failed", "cancelled", status[t]} : status' = [status EXCEPT ![t] = s]
    <3>1. outcome[e] \in {"failed", "cancelled"}
      BY <2>1 DEF WorkInv
    <3>2. CASE status' = [status EXCEPT ![t] = outcome[e]]
      BY <3>1, <3>2
    <3>3. CASE UNCHANGED status
      BY <1>0, <3>3
    <3>. QED
      BY <1>13, <3>2, <3>3 DEF Fail, t
  <2>5. Ledger!Fail(t)
    BY <2>3, <2>4 DEF Ledger!Fail, Ledger!Row
  <2>. QED
    BY <1>0, <2>5 DEF Ledger!Next
<1>. QED
  BY <1>5, <1>6, <1>7, <1>9, <1>11, <1>12, <1>13

\* A row that nobody has claimed, and whose worker was not started, is free.
LEMMA UnclaimedIsFree ==
  ASSUME ShapeInv, OneClaimPerRow, SoleInv, NEW t \in Task, status[t] = "queued", runner[t] = None
  PROVE  Hands[t] = "free"
<1>1. starts[t] = 0
  BY DEF OneClaimPerRow
<1>2. \A p \in Process : ~HandedBy(p, t)
  BY NoneAssumption DEF OneClaimPerRow
<1>3. \A e \in Exec : ~StartedBy(e, t) /\ ~RunBy(e, t)
  <2>1. \A e \in Exec : Owner(e) # None
    BY ExecIsPair, NoneAssumption DEF Owner
  <2>2. \A e \in Exec : ~Engaged(e, t)
    BY <2>1 DEF SoleInv
  <2>. QED
    BY <2>2 DEF Engaged, StartedBy, RunBy, Starting, Beating, Holding
<1>. QED
  BY <1>1, <1>2, <1>3 DEF Hands, HandOf

\* What another server, or nobody, is said to run is in nobody's hands while p is the server.
LEMMA AbandonedIsHeldByNobody ==
  ASSUME ShapeInv, OneClaimPerRow, SoleInv, NEW p \in Process, up[p] = "up", NEW t \in Task,
         status[t] = "running", runner[t] # p
  PROVE  Hands[t] \in {"free", "over"}
<1>1. \A q \in Process : ~HandedBy(q, t)
  BY DEF SoleInv
<1>2. ASSUME NEW e \in Exec, pc[e] # "idle"
      PROVE  Owner(e) = p
  BY <1>2, ExecIsPair DEF OneClaimPerRow, Owner
<1>3. \A e \in Exec : ~Engaged(e, t)
  BY <1>2 DEF SoleInv, Engaged, Holding
<1>4. \A e \in Exec : ~StartedBy(e, t) /\ ~RunBy(e, t)
  BY <1>3 DEF Engaged, StartedBy, RunBy, Starting, Beating, Holding
<1>. QED
  BY <1>1, <1>4 DEF Hands, HandOf

LEMMA LedgerClaim ==
  ASSUME ShapeInv, OneClaimPerRow, SoleInv, NEW p \in Process, ClaimNext(p)
  PROVE  Ledger!Next
<1>0. /\ runner \in [Task -> Process \cup {None}] /\ status \in [Task -> Status]
      /\ drain \in [Process -> {"idle", "asking", "handing"}] /\ claimed \in [Process -> Task \cup {None}]
  BY DEF ShapeInv, TableOK, MemoryOK
<1>1. PICK t \in Task : /\ status[t] = "queued" /\ runner[t] = None
                        /\ claimed' = [claimed EXCEPT ![p] = t]
                        /\ drain' = [drain EXCEPT ![p] = "handing"]
  BY DEF ClaimNext, Unclaimed
<1>2. drain[p] = "asking" /\ UNCHANGED <<status, pc, job, starts>>
  BY DEF ClaimNext, runs, ghosts
<1>3. Hands[t] = "free" /\ starts[t] = 0
  BY <1>1, UnclaimedIsFree DEF OneClaimPerRow
<1>4. /\ HandedBy(p, t)'
      /\ \A q \in Process, u \in Task : u # t => (HandedBy(q, u)' <=> HandedBy(q, u))
  BY <1>0, <1>1, <1>2 DEF HandedBy
<1>5. HandOf(t)' = "taken"
  BY <1>2, <1>3, <1>4 DEF HandOf
<1>6. ASSUME NEW u \in Task, u # t
      PROVE  HandOf(u)' = HandOf(u)
  BY <1>2, <1>4, <1>6, SameHand DEF RunBy, StartedBy
<1>7. Hands' = [Hands EXCEPT ![t] = "taken"]
  BY <1>5, <1>6 DEF Hands
<1>8. status' = [status EXCEPT ![t] = "queued"]
  BY <1>0, <1>1, <1>2
<1>9. Ledger!Take(t)
  BY <1>1, <1>3, <1>7, <1>8 DEF Ledger!Take, Ledger!Row
<1>. QED
  BY <1>9 DEF Ledger!Next

\* A claim becomes a promise: the row stays taken.
LEMMA LedgerLaunch ==
  ASSUME ShapeInv, OneClaimPerRow, SoleInv, NEW p \in Process, Launch(p)
  PROVE  UNCHANGED Ledger!vars
<1>0. /\ pc \in [Exec -> PC] /\ job \in [Exec -> Task \cup {None}]
      /\ drain \in [Process -> {"idle", "asking", "handing"}] /\ claimed \in [Process -> Task \cup {None}]
  BY DEF ShapeInv, RunsOK, MemoryOK
<1>1. PICK n \in Exec : /\ pc[n] = "idle"
                        /\ pc' = [pc EXCEPT ![n] = "load"]
                        /\ job' = [job EXCEPT ![n] = claimed[p]]
  <2>1. \A s \in Slot : <<p, s>> \in Exec
    BY DEF Exec
  <2>. QED BY <2>1 DEF Launch, FreeSlot
<1>2. /\ HandedBy(p, claimed[p]) /\ drain'[p] # "handing"
      /\ \A q \in Process \ {p} : drain'[q] = drain[q] /\ claimed'[q] = claimed[q]
      /\ UNCHANGED <<status, starts>>
  BY <1>0 DEF Launch, table, ghosts, HandedBy
<1>3. \A f \in Exec : f # n => pc'[f] = pc[f] /\ job'[f] = job[f]
  BY <1>0, <1>1
<1>4. \A f \in Exec, t \in Task : RunBy(f, t)' <=> RunBy(f, t)
  BY <1>0, <1>1, <1>3 DEF RunBy, Beating
<1>5. \A f \in Exec, t \in Task :
        StartedBy(f, t)' <=> StartedBy(f, t) \/ (f = n /\ t = claimed[p])
  BY <1>0, <1>1, <1>3 DEF StartedBy, Starting
<1>6. \A q \in Process, t \in Task :
        HandedBy(q, t) <=> HandedBy(q, t)' \/ (q = p /\ t = claimed[p])
  BY <1>0, <1>2 DEF HandedBy
<1>7. ASSUME NEW t \in Task
      PROVE  HandOf(t)' = HandOf(t)
  <2>1. (\/ \E q \in Process : HandedBy(q, t)
         \/ \E f \in Exec : StartedBy(f, t) \/ RunBy(f, t))' <=>
        (\/ \E q \in Process : HandedBy(q, t)
         \/ \E f \in Exec : StartedBy(f, t) \/ RunBy(f, t))
    <3>1. CASE t = claimed[p]
      BY <1>2, <1>5, <3>1
    <3>2. CASE t # claimed[p]
      BY <1>4, <1>5, <1>6, <3>2
    <3>. QED
      BY <3>1, <3>2
  <2>. QED
    BY <1>2, <1>4, <2>1, SameHand
<1>. QED
  BY <1>2, <1>7 DEF Hands, Ledger!vars

\* With the server that ends, everything is let go of.
LEMMA LedgerCrash ==
  ASSUME ShapeInv, OneClaimPerRow, NEW p \in Process, Crash(p)
  PROVE  Ledger!Crash
<1>1. /\ \A e \in Exec : pc'[e] = "idle"
      /\ \A q \in Process : drain'[q] = "idle"
      /\ UNCHANGED <<status, starts>>
  <2>1. \A q \in Process : q # p => up[q] # "up"
    BY DEF Crash, OneClaimPerRow
  <2>2. \A e \in Exec : Owner(e) # p => pc[e] = "idle"
    BY <2>1, ExecIsPair DEF OneClaimPerRow, Owner
  <2>3. \A q \in Process : q # p => drain[q] = "idle"
    BY <2>1 DEF OneClaimPerRow
  <2>. QED
    BY <2>2, <2>3 DEF Crash, table, ghosts, ShapeInv, MemoryOK
<1>2. ASSUME NEW t \in Task
      PROVE  HandOf(t)' = Ledger!LetGo(HandOf(t))
  <2>1. HandOf(t)' = IF starts[t] > 0 THEN "over" ELSE "free"
    BY <1>1 DEF HandOf, RunBy, StartedBy, HandedBy, Starting, Beating
  <2>. QED
    BY <2>1 DEF HandOf, Ledger!LetGo
<1>3. Hands' = [t \in Task |-> Ledger!LetGo(Hands[t])]
  BY <1>2 DEF Hands
<1>. QED
  BY <1>1, <1>3 DEF Ledger!Crash

LEMMA LedgerStep ==
  ASSUME ShapeInv, OneClaimPerRow, SoleInv, WorkInv, [Next]_vars
  PROVE  [Ledger!Next]_Ledger!vars
<1>0. /\ pc \in [Exec -> PC] /\ job \in [Exec -> Task \cup {None}] /\ status \in [Task -> Status]
      /\ drain \in [Process -> {"idle", "asking", "handing"}] /\ claimed \in [Process -> Task \cup {None}]
  BY DEF ShapeInv, RunsOK, MemoryOK, TableOK
<1>1. ASSUME UNCHANGED <<pc, job, starts, status>>,
             \A p \in Process, t \in Task : HandedBy(p, t)' <=> HandedBy(p, t)
      PROVE  UNCHANGED Ledger!vars
  BY <1>1, SameHands DEF Ledger!vars
<1>2. ASSUME NEW p \in Process,
             \/ Start(p) \/ ReconcileRelease(p) \/ ReconcileFails(p)
             \/ DrainQueue(p) \/ ClaimNothing(p) \/ ClaimFails(p)
      PROVE  UNCHANGED Ledger!vars
  <2>1. UNCHANGED <<pc, job, starts, status, claimed>>
    BY <1>2 DEF Start, ReconcileRelease, ReconcileFails, DrainQueue, ClaimNothing, ClaimFails,
                table, runs, ghosts
  <2>2. \A q \in Process : drain'[q] = "handing" <=> drain[q] = "handing"
    BY <1>0, <1>2 DEF Start, ReconcileRelease, ReconcileFails, DrainQueue, ClaimNothing, ClaimFails
  <2>. QED
    BY <1>1, <2>1, <2>2 DEF HandedBy
<1>3. ASSUME NEW p \in Process, ReconcileInterrupt(p)
      PROVE  Ledger!Next
  <2>1. Hands' = Hands
    BY <1>3, SameHands DEF ReconcileInterrupt, runs, ghosts, HandedBy
  <2> DEFINE S == {t \in Task : status[t] = "running" /\ runner[t] # p /\ ~fresh[t]}
  <2>2. status' = [t \in Task |-> IF t \in S THEN "interrupted" ELSE status[t]]
    BY <1>3 DEF ReconcileInterrupt
  <2>3. S \in SUBSET {t \in Task : status[t] = "running" /\ Hands[t] \in {"free", "over"}}
    BY <1>3, AbandonedIsHeldByNobody DEF ReconcileInterrupt
  <2> HIDE DEF S
  <2>4. Ledger!Interrupt
    BY <2>1, <2>2, <2>3 DEF Ledger!Interrupt
  <2>. QED
    BY <2>4 DEF Ledger!Next
<1>4. ASSUME NEW p \in Process, NEW t \in Task,
             CancelRequest(p, t) \/ CancelCommit(p, t) \/ CancelFails(p, t)
      PROVE  Ledger!Next \/ UNCHANGED Ledger!vars
  <2>1. Hands' = Hands
    <3>1. UNCHANGED <<pc, job, starts, drain, claimed>>
      BY <1>4 DEF CancelRequest, CancelCommit, CancelFails, runs, ghosts
    <3>. QED
      BY <3>1, SameHands DEF HandedBy
  <2>2. Hands \in [Task -> {"free", "taken", "working", "over"}]
    BY DEF Hands, HandOf
  <2>3. CASE status' = [status EXCEPT ![t] = "cancelled"] /\ Cancellable(t)
    <3>1. Ledger!Cancel(t)
      BY <2>1, <2>2, <2>3 DEF Ledger!Cancel, Ledger!Row, Cancellable
    <3>. QED
      BY <3>1 DEF Ledger!Next
  <2>4. CASE UNCHANGED status
    BY <2>1, <2>4 DEF Ledger!vars
  <2>. QED
    BY <1>4, <2>3, <2>4 DEF CancelRequest, CancelCommit, CancelFails, table
<1>5. ASSUME NEW t \in Task, Create(t)
      PROVE  Ledger!Next
  <2>1. Hands' = Hands
    BY <1>5, SameHands DEF Create, memory, runs, ghosts, HandedBy
  <2>2. Hands \in [Task -> {"free", "taken", "working", "over"}]
    BY DEF Hands, HandOf
  <2>3. Ledger!Submit(t)
    BY <1>5, <2>1, <2>2 DEF Create, Ledger!Submit, Ledger!Row
  <2>. QED
    BY <2>3 DEF Ledger!Next
<1>6. ASSUME NEW e \in Exec, Settle(e)
      PROVE  UNCHANGED Ledger!vars
  <2>1. /\ \A f \in Exec : f # e => pc'[f] = pc[f] /\ job'[f] = job[f]
        /\ pc[e] = "settled" /\ pc'[e] = "idle"
        /\ UNCHANGED <<status, starts, drain, claimed>>
    BY <1>0, <1>6 DEF Settle, table, ghosts
  <2>2. \A f \in Exec, t \in Task : RunBy(f, t)' <=> RunBy(f, t)
    BY <2>1 DEF RunBy, Beating
  <2>3. \A f \in Exec, t \in Task : StartedBy(f, t)' <=> StartedBy(f, t)
    BY <2>1 DEF StartedBy, Starting
  <2>4. \A p \in Process, t \in Task : HandedBy(p, t)' <=> HandedBy(p, t)
    BY <2>1 DEF HandedBy
  <2>5. \A t \in Task : HandOf(t)' = HandOf(t)
    BY <2>1, <2>2, <2>3, <2>4, SameHand
  <2>. QED
    BY <2>1, <2>5 DEF Hands, Ledger!vars
<1>7. ASSUME NEW e \in Exec, Beat(e)
      PROVE  UNCHANGED Ledger!vars
  BY <1>1, <1>7 DEF Beat, memory, runs, ghosts, HandedBy
<1>8. ASSUME NEW t \in Task, HeartbeatLapses(t)
      PROVE  UNCHANGED Ledger!vars
  BY <1>1, <1>8 DEF HeartbeatLapses, memory, runs, ghosts, HandedBy
<1>9. CASE UNCHANGED vars
  BY <1>1, <1>9 DEF vars, table, memory, runs, ghosts, HandedBy
<1>10. ASSUME NEW p \in Process, Crash(p)
       PROVE  Ledger!Next
  BY <1>10, LedgerCrash DEF Ledger!Next
<1>. QED
  BY <1>2, <1>3, <1>4, <1>5, <1>6, <1>7, <1>8, <1>9, <1>10, LedgerPromise, LedgerClaim, LedgerLaunch
  DEF Next, ServerStep, ExecStep, Fault

LEMMA LedgerInit == Init => Ledger!Init
BY DEF Init, Ledger!Init, Hands, HandOf, HandedBy, StartedBy, RunBy, Starting, Beating

\* While one server runs at a time the queue keeps the ledger, in spite of crashes at every
\* point, rejected queries and answers that are lost: a row is taken only while it is queued, its
\* worker starts once, only who has it in hand reports on it, and it is interrupted only
\* when nobody has it in hand (task-runner.ts).
THEOREM ImplementsLedger ==
  ASSUME ConcurrentServers = FALSE
  PROVE  Spec => RefinesLedger
<1>1. Init => ShapeInv /\ OneClaimPerRow /\ SoleInv /\ WorkInv
  BY ShapeInit, OneClaimInit, SoleInit, WorkInit
<1>2. (ShapeInv /\ OneClaimPerRow /\ SoleInv /\ WorkInv) /\ [Next]_vars =>
        (ShapeInv /\ OneClaimPerRow /\ SoleInv /\ WorkInv)'
  BY ShapeStep, OneClaimStep, SoleStep, WorkStep
<1>3. (ShapeInv /\ OneClaimPerRow /\ SoleInv /\ WorkInv) /\ [Next]_vars =>
        [Ledger!Next]_Ledger!vars
  BY LedgerStep
<1>. QED
  BY <1>1, <1>2, <1>3, LedgerInit, PTL DEF Spec, RefinesLedger, Ledger!Spec

============================================================================
