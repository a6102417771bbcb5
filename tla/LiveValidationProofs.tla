------------------------ MODULE LiveValidationProofs ------------------------
(* Proofs about LiveValidation: what a stop reaches, and who serves the     *)
(* queue, for any controllers, actions and limits.                          *)
EXTENDS LiveValidation, FiniteSetTheorems, SequenceTheorems, TLAPS

States  == {"INITIALIZING", "RUNNING", "STOPPED", "ENDED"}
Steps   == {"new", "arrived", "queued", "woken", "granted", "entered", "driving", "ended"}
\* Who has a slot, and to whom one is promised.
Holder(k) == {a \in ActionsOf(k) : action[a] \in {"granted", "entered", "driving"}}
Promised(k) == {a \in ActionsOf(k) : action[a] = "woken"}

Typed ==
  /\ latch \in BOOLEAN /\ clearing \in BOOLEAN
  /\ members \subseteq Controller /\ leaving \subseteq Controller /\ late \subseteq Controller
  /\ making \in [Controller -> {"new", "registered", "opening", "made"}]
  /\ state \in [Controller -> States] /\ action \in [LiveAction -> Steps]
  /\ aborted \subseteq LiveAction
  /\ stops \in 0..MaxStops /\ restarts \in 0..MaxRestarts

\* A controller that is being made does not run yet; one that runs is known to the switch,
\* unless it was stopped while it was made.
Known ==
  /\ \A k \in Controller :
       /\ making[k] # "made" => state[k] \in {"INITIALIZING", "STOPPED"} /\ k \notin late
       /\ making[k] \in {"registered", "opening"} => k \in members \/ state[k] = "STOPPED"
       /\ state[k] = "RUNNING" => k \in members \/ k \in late
  /\ \A k \in leaving : state[k] = "STOPPED" \/ k \in late

\* While the switch is on, none runs but those.
Latched ==
  latch => \A k \in Controller : /\ state[k] = "RUNNING" => k \in late
                                 /\ making[k] = "opening" => state[k] = "STOPPED"

\* An action works under a controller that runs, or has been told to stop.
Told ==
  \A a \in LiveAction :
    LET k == ControllerOf[a]
    IN /\ making[k] # "made" => action[a] \in {"new", "ended"}
       /\ action[a] \in {"entered", "driving"} => a \in aborted \/ k \in late \/ state[k] = "RUNNING"

\* The queue of a controller holds its queued actions, each once, and only while it runs.
Line ==
  /\ waiters \in [Controller -> Seq(LiveAction)]
  /\ \A k \in Controller :
       /\ waiters[k] # <<>> => state[k] = "RUNNING"
       /\ \A i \in 1..Len(waiters[k]) : action[waiters[k][i]] = "queued" /\ ControllerOf[waiters[k][i]] = k
       /\ \A i, j \in 1..Len(waiters[k]) : waiters[k][i] = waiters[k][j] => i = j
  /\ \A a \in LiveAction : action[a] = "queued" => \E i \in 1..Len(waiters[ControllerOf[a]]) : waiters[ControllerOf[a]][i] = a

\* The counter counts those who have a slot.
Count ==
  /\ activeCount \in [Controller -> Nat]
  /\ \A k \in Controller : activeCount[k] = Cardinality(Holder(k))

LvInv == Typed /\ Known /\ Latched /\ Told /\ Line /\ Count

LEMMA LvInvInit == LvInit => LvInv
<1> SUFFICES ASSUME LvInit PROVE LvInv
  OBVIOUS
<1>1. Typed /\ Known /\ Latched
  <2>1. 0 \in 0..MaxStops /\ 0 \in 0..MaxRestarts  BY LiveAssumption
  <2>2. Typed  BY <2>1 DEF LvInit, Typed, States, Steps
  <2> QED  BY <2>2 DEF LvInit, Known, Latched
<1>3. Told  BY LiveAssumption DEF LvInit, Told
<1>4. Line
  <2>1. <<>> \in Seq(LiveAction) /\ Len(<<>>) = 0  OBVIOUS
  <2> QED  BY <2>1 DEF LvInit, Line
<1>2. Count
  <2>1. \A k : Holder(k) = {}  BY DEF LvInit, Holder, ActionsOf
  <2>2. \A k : Cardinality(Holder(k)) = 0  BY <2>1, FS_EmptySet, Zenon
  <2> QED  BY <2>2 DEF LvInit, Count
<1> QED  BY <1>1, <1>2, <1>3, <1>4 DEF LvInv

-----------------------------------------------------------------------------
(* What the helpers do.                                                    *)

\* A stop stops the controllers named; their workers are told, their queues emptied.
LEMMA Stopped ==
  ASSUME LvInv, NEW K \in SUBSET members, NEW failed \in SUBSET Controller, EmergencyStop(K, failed)
  PROVE  /\ state' \in [Controller -> States] /\ action' \in [LiveAction -> Steps]
         /\ aborted' \subseteq LiveAction /\ aborted \subseteq aborted' /\ leaving' \subseteq Controller
         /\ \A k \in Controller : state'[k] = IF k \in K \cup failed THEN "STOPPED" ELSE state[k]
         /\ leaving' \subseteq leaving \cup K
         /\ \A a \in LiveAction :
              IF ControllerOf[a] \in K /\ state[ControllerOf[a]] # "STOPPED" /\ action[a] = "queued"
              THEN action'[a] = "ended" ELSE action'[a] = action[a]
         /\ \A a \in LiveAction :
              action[a] \in {"entered", "driving"} /\ ControllerOf[a] \in K /\ state[ControllerOf[a]] # "STOPPED"
                => a \in aborted'
         /\ waiters' \in [Controller -> Seq(LiveAction)]
         /\ \A k \in Controller : IF k \in K /\ state[k] # "STOPPED" THEN waiters'[k] = <<>> ELSE waiters'[k] = waiters[k]
<1> DEFINE hit == {k \in K : state[k] # "STOPPED"}
<1>1. /\ state' = [k \in Controller |-> IF k \in K \cup failed THEN "STOPPED" ELSE state[k]]
      /\ action' = [a \in LiveAction |-> IF ControllerOf[a] \in hit /\ action[a] = "queued"
                                         THEN "ended" ELSE action[a]]
      /\ aborted' = aborted \cup {a \in Worker : ControllerOf[a] \in hit}
      /\ waiters' = [k \in Controller |-> IF k \in hit THEN <<>> ELSE waiters[k]]
      /\ leaving' = leaving \cup hit
  BY DEF EmergencyStop
<1>2. K \subseteq Controller /\ Typed /\ waiters \in [Controller -> Seq(LiveAction)]
  BY DEF LvInv, Typed, Line
<1>3. waiters' \in [Controller -> Seq(LiveAction)]
  <2>1. <<>> \in Seq(LiveAction)  OBVIOUS
  <2> QED  BY <1>1, <1>2, <2>1
<1> QED  BY <1>1, <1>2, <1>3 DEF Typed, States, Steps, Worker

\* An action that leaves gives its slot to the head of the queue, if there is one.
LEMMA Left ==
  ASSUME LvInv, NEW a \in LiveAction, action[a] \in {"granted", "entered", "driving"}, Leave(a),
         UNCHANGED <<still, aborted>>
  PROVE  LET k == ControllerOf[a]
         IN /\ activeCount' = [activeCount EXCEPT ![k] = @ - 1]
            /\ \/ /\ waiters[k] # <<>> /\ state[k] = "RUNNING"
                  /\ Head(waiters[k]) \in LiveAction /\ Head(waiters[k]) # a
                  /\ action[Head(waiters[k])] = "queued" /\ ControllerOf[Head(waiters[k])] = k
                  /\ action' = [action EXCEPT ![a] = "ended", ![Head(waiters[k])] = "woken"]
                  /\ waiters' = [waiters EXCEPT ![k] = Tail(@)]
               \/ /\ waiters[k] = <<>>
                  /\ action' = [action EXCEPT ![a] = "ended"] /\ waiters' = waiters
<1> DEFINE k == ControllerOf[a]
<1>1. k \in Controller  BY LiveAssumption
<1>2. CASE waiters[k] # <<>>
  <2>1. state[k] = "RUNNING" /\ waiters[k] \in Seq(LiveAction)  BY <1>1, <1>2 DEF LvInv, Line
  <2>2. Head(waiters[k]) = waiters[k][1] /\ 1 \in 1..Len(waiters[k])  BY <1>2, <2>1
  <2>3. Head(waiters[k]) \in LiveAction  BY <2>1, <2>2, <1>2
  <2>4. action[Head(waiters[k])] = "queued" /\ ControllerOf[Head(waiters[k])] = k
    BY <1>1, <2>2 DEF LvInv, Line
  <2>5. Head(waiters[k]) # a  BY <2>4
  <2> QED  BY <1>2, <2>1, <2>3, <2>4, <2>5 DEF Leave
<1>3. CASE waiters[k] = <<>>
  BY <1>3 DEF Leave, Goes
<1> QED  BY <1>2, <1>3

\* The steps of one action, as they move it and nobody else.
Moves(a, from, to) ==
  action[a] \in from /\ action' = [action EXCEPT ![a] = to] /\ UNCHANGED <<still, aborted>>

LEMMA ActionSteps ==
  ASSUME LvInv, NEW a \in LiveAction,
         Arrive(a) \/ TakeSlot(a) \/ Resumes(a) \/ Enter(a) \/ Drive(a) \/ Finish(a)
  PROVE  LET k == ControllerOf[a]
         IN \/ /\ Moves(a, {"new", "arrived", "granted", "entered"}, action'[a])
               /\ \/ action[a] = "new" /\ action'[a] = "arrived" /\ state[k] = "RUNNING"
                  \/ action[a] \in {"new", "arrived"} /\ action'[a] = "ended"
                  \/ action[a] = "granted" /\ action'[a] = "entered" /\ state[k] = "RUNNING"
                  \/ action[a] = "entered" /\ action'[a] = "driving"
               /\ UNCHANGED <<activeCount, waiters>>
            \/ /\ Moves(a, {"arrived", "woken"}, "granted") /\ state[k] = "RUNNING"
               /\ activeCount' = [activeCount EXCEPT ![k] = @ + 1] /\ UNCHANGED waiters
            \/ /\ Moves(a, {"arrived"}, "queued") /\ state[k] = "RUNNING"
               /\ ~(activeCount[k] < MaxConcurrency)
               /\ waiters' = [waiters EXCEPT ![k] = Append(@, a)] /\ UNCHANGED activeCount
            \/ /\ Moves(a, {"woken"}, "ended") /\ state[k] # "RUNNING"
               /\ UNCHANGED <<activeCount, waiters>>
            \/ action[a] \in {"granted", "entered", "driving"} /\ Leave(a) /\ UNCHANGED <<still, aborted>>
<1>0. action \in [LiveAction -> Steps]  BY DEF LvInv, Typed
<1>1. ASSUME Arrive(a)  PROVE Moves(a, {"new"}, action'[a]) /\ UNCHANGED <<activeCount, waiters>>
        /\ (action'[a] = "ended" \/ (action'[a] = "arrived" /\ state[ControllerOf[a]] = "RUNNING"))
  BY <1>0, <1>1 DEF Arrive, Goes, Moves
<1>2. ASSUME TakeSlot(a), state[ControllerOf[a]] # "RUNNING"
      PROVE Moves(a, {"arrived"}, "ended") /\ action'[a] = "ended" /\ UNCHANGED <<activeCount, waiters>>
  BY <1>0, <1>2 DEF TakeSlot, Goes, Moves
<1>3. ASSUME Enter(a), state[ControllerOf[a]] = "RUNNING"
      PROVE Moves(a, {"granted"}, "entered") /\ action'[a] = "entered" /\ UNCHANGED <<activeCount, waiters>>
  BY <1>0, <1>3 DEF Enter, Goes, Moves
<1>4. ASSUME Drive(a), ~latch
      PROVE Moves(a, {"entered"}, "driving") /\ action'[a] = "driving" /\ UNCHANGED <<activeCount, waiters>>
  BY <1>0, <1>4 DEF Drive, Goes, Moves
<1>5. CASE Arrive(a)  BY <1>1, <1>5 DEF Moves
<1>6. CASE TakeSlot(a)
  <2>1. CASE state[ControllerOf[a]] # "RUNNING"  BY <1>2, <1>6, <2>1 DEF Moves
  <2>2. CASE state[ControllerOf[a]] = "RUNNING"  BY <1>6, <2>2 DEF TakeSlot, Moves, Goes
  <2> QED  BY <2>1, <2>2
<1>7. CASE Resumes(a)  BY <1>7 DEF Resumes, Moves, Goes
<1>8. CASE Enter(a)
  <2>1. CASE state[ControllerOf[a]] = "RUNNING"  BY <1>3, <1>8, <2>1 DEF Moves
  <2>2. CASE state[ControllerOf[a]] # "RUNNING"  BY <1>8, <2>2 DEF Enter
  <2> QED  BY <2>1, <2>2
<1>9. CASE Drive(a)
  <2>1. CASE ~latch  BY <1>4, <1>9, <2>1 DEF Moves
  <2>2. CASE latch  BY <1>9, <2>2 DEF Drive
  <2> QED  BY <2>1, <2>2
<1>10. CASE Finish(a)  BY <1>10 DEF Finish
<1> QED  BY <1>5, <1>6, <1>7, <1>8, <1>9, <1>10

-----------------------------------------------------------------------------
(* The steps keep the invariant.                                           *)

ActionStep(a) == Arrive(a) \/ TakeSlot(a) \/ Resumes(a) \/ Enter(a) \/ Drive(a) \/ Finish(a)
\* An action's step leaves the switch and the controllers alone.
LEMMA ActionsKeep == ASSUME LvInv, NEW a \in LiveAction, ActionStep(a)  PROVE UNCHANGED <<still, aborted>>
BY DEF ActionStep, Arrive, TakeSlot, Resumes, Enter, Drive, Finish

LEMMA ControllerSteps ==
  ASSUME LvInv, NEW k \in Controller,
         Register(k) \/ AssertCanStart(k) \/ OpenRun(k) \/ OpenFails(k) \/ Unregister(k) \/ EndController(k)
  PROVE  Typed' /\ Known' /\ Latched'
<1> USE DEF LvInv, Typed, States
<1>1. CASE Register(k)  BY <1>1 DEF Register, Known, Latched
<1>2. CASE AssertCanStart(k)  BY <1>2 DEF AssertCanStart, Known, Latched
<1>3. CASE OpenRun(k)
  <2>1. Typed'  BY <1>3 DEF OpenRun, switch
  <2>2. Known' /\ Latched'  BY <1>3 DEF OpenRun, switch, Known, Latched
  <2> QED  BY <2>1, <2>2
<1>4. CASE OpenFails(k)
  <2> DEFINE K == members \ {k}
  <2>1. EmergencyStop(K, {k}) /\ K \in SUBSET members /\ {k} \in SUBSET Controller  BY <1>4 DEF OpenFails
  <2>2. /\ state' \in [Controller -> States] /\ action' \in [LiveAction -> Steps]
        /\ aborted' \subseteq LiveAction /\ leaving' \subseteq Controller /\ leaving' \subseteq leaving \cup K
        /\ \A j \in Controller : state'[j] = IF j \in K \cup {k} THEN "STOPPED" ELSE state[j]
    <3> HIDE DEF K, Typed, LvInv
    <3> QED  BY <2>1, Stopped
  <2>3. /\ making[k] = "opening" /\ making' = [making EXCEPT ![k] = "made"] /\ latch' = TRUE
        /\ stops < MaxStops /\ stops' = stops + 1 /\ members' = K /\ UNCHANGED <<clearing, restarts, late>>
    BY <1>4 DEF OpenFails
  <2>4. Typed'  BY <2>2, <2>3, LiveAssumption
  <2>5. Known'  BY <2>2, <2>3 DEF Known
  <2>6. Latched'  BY <2>2, <2>3 DEF Known, Latched
  <2> QED  BY <2>4, <2>5, <2>6
<1>5. CASE Unregister(k)  BY <1>5 DEF Unregister, Known, Latched
<1>6. CASE EndController(k)  BY <1>6 DEF EndController, Known, Latched
<1> QED  BY <1>1, <1>2, <1>3, <1>4, <1>5, <1>6

LEMMA SwitchSteps ==
  ASSUME LvInv, StopAll \/ BeginRestart \/ EndRestart
  PROVE  Typed' /\ Known' /\ Latched'
<1> USE DEF LvInv, Typed, States
<1>1. CASE StopAll
  <2>1. EmergencyStop(members, {})  BY <1>1 DEF StopAll
  <2>2. /\ state' \in [Controller -> States] /\ action' \in [LiveAction -> Steps]
        /\ aborted' \subseteq LiveAction /\ leaving' \subseteq Controller /\ leaving' \subseteq leaving \cup members
        /\ \A j \in Controller : state'[j] = IF j \in members \cup {} THEN "STOPPED" ELSE state[j]
    <3> HIDE DEF Typed, LvInv
    <3> QED  BY <2>1, Stopped
  <2>3. /\ latch' = TRUE /\ stops < MaxStops /\ stops' = stops + 1
        /\ UNCHANGED <<members, clearing, restarts, late, making>>
    BY <1>1 DEF StopAll
  <2>4. Typed'  BY <2>2, <2>3, LiveAssumption
  <2>5. Known'  BY <2>2, <2>3 DEF Known
  <2>6. Latched'  BY <2>2, <2>3 DEF Known, Latched
  <2> QED  BY <2>4, <2>5, <2>6
<1>2. CASE BeginRestart  BY <1>2, LiveAssumption DEF BeginRestart, Known, Latched
<1>3. CASE EndRestart  BY <1>3 DEF EndRestart, Known, Latched
<1> QED  BY <1>1, <1>2, <1>3

LEMMA LifeStep == LvInv /\ [LvNext]_lvVars => Typed' /\ Known' /\ Latched'
<1> SUFFICES ASSUME LvInv, [LvNext]_lvVars PROVE Typed' /\ Known' /\ Latched'
  OBVIOUS
<1>1. ASSUME NEW a \in LiveAction, ActionStep(a)  PROVE Typed' /\ Known' /\ Latched'
  <2>1. UNCHANGED <<latch, clearing, members, leaving, stops, restarts, making, state, late, aborted>>
    BY <1>1, ActionsKeep DEF still, switch
  <2>2. action' \in [LiveAction -> Steps]
    <3> DEFINE next == Head(waiters[ControllerOf[a]])
    <3>1. action \in [LiveAction -> Steps]  BY DEF LvInv, Typed
    <3>2. \/ \E s \in Steps : action' = [action EXCEPT ![a] = s]
          \/ /\ action[a] \in {"granted", "entered", "driving"} /\ Leave(a)
             /\ UNCHANGED <<still, aborted>>
      <4> HIDE DEF next
      <4> QED  BY <1>1, ActionSteps DEF ActionStep, Moves, Steps
    <3>3. \/ \E s \in Steps : action' = [action EXCEPT ![a] = s]
          \/ next \in LiveAction /\ action' = [action EXCEPT ![a] = "ended", ![next] = "woken"]
      BY <3>2, Left DEF Steps
    <3> HIDE DEF next
    <3> QED  BY <3>1, <3>3 DEF Steps
  <2> QED  BY <2>1, <2>2 DEF LvInv, Typed, Known, Latched
<1>2. CASE UNCHANGED lvVars
  BY <1>2 DEF lvVars, switch, LvInv, Typed, Known, Latched
<1> QED  BY <1>1, <1>2, SwitchSteps, ControllerSteps DEF LvNext, ActionStep

LEMMA ToldStep == LvInv /\ [LvNext]_lvVars => Told'
<1> SUFFICES ASSUME LvInv, [LvNext]_lvVars PROVE Told'
  OBVIOUS
<1> USE LiveAssumption
<1>0. /\ action \in [LiveAction -> Steps] /\ state \in [Controller -> States] /\ members \subseteq Controller
      /\ making \in [Controller -> {"new", "registered", "opening", "made"}]
  BY DEF LvInv, Typed
<1>1. ASSUME NEW a \in LiveAction, ActionStep(a)  PROVE Told'
  <2>1. UNCHANGED <<making, state, late, aborted>>
    BY <1>1, ActionsKeep DEF still, switch
  <2>2. \A b \in LiveAction : b # a =>
          action'[b] = action[b] \/ (action[b] = "queued" /\ action'[b] = "woken")
    <3>1. ASSUME NEW s, Moves(a, s, action'[a])  PROVE \A b \in LiveAction : b # a => action'[b] = action[b]
      BY <1>0, <3>1 DEF Moves
    <3>2. CASE action[a] \in {"granted", "entered", "driving"} /\ Leave(a) /\ UNCHANGED <<still, aborted>>
      BY <1>0, <3>2, Left
    <3>3. CASE \E s : Moves(a, s, action'[a])  BY <3>1, <3>3
    <3> QED  BY <1>0, <1>1, <3>2, <3>3, ActionSteps DEF ActionStep, Moves
  <2>3. /\ action'[a] \in {"entered", "driving"} =>
             action[a] \in {"entered", "driving"} \/ state[ControllerOf[a]] = "RUNNING"
        /\ making[ControllerOf[a]] # "made" => action'[a] \in {"new", "ended"}
    <3>1. making[ControllerOf[a]] # "made" => action[a] \in {"new", "ended"} /\ state[ControllerOf[a]] # "RUNNING"
      BY DEF LvInv, Told, Known
    <3>2. CASE action[a] \in {"granted", "entered", "driving"} /\ Leave(a) /\ UNCHANGED <<still, aborted>>
      BY <1>0, <3>1, <3>2, Left
    <3> QED  BY <1>0, <1>1, <3>1, <3>2, ActionSteps DEF ActionStep, Moves
  <2> QED  BY <2>1, <2>2, <2>3 DEF LvInv, Told
<1>2. ASSUME NEW K \in SUBSET members, NEW failed \in SUBSET Controller, EmergencyStop(K, failed),
             \A k \in failed : making[k] # "made",
             \A k \in Controller : making'[k] = making[k] \/ making'[k] = "made", late' = late
      PROVE  Told'
  <2>1. /\ aborted \subseteq aborted'
        /\ \A k \in Controller : state'[k] = IF k \in K \cup failed THEN "STOPPED" ELSE state[k]
        /\ \A a \in LiveAction :
             IF ControllerOf[a] \in K /\ state[ControllerOf[a]] # "STOPPED" /\ action[a] = "queued"
             THEN action'[a] = "ended" ELSE action'[a] = action[a]
        /\ \A a \in LiveAction :
             action[a] \in {"entered", "driving"} /\ ControllerOf[a] \in K /\ state[ControllerOf[a]] # "STOPPED"
               => a \in aborted'
    BY <1>2, Stopped
  <2>2. ASSUME NEW a \in LiveAction, action'[a] \in {"entered", "driving"}
        PROVE  a \in aborted' \/ ControllerOf[a] \in late \/ state'[ControllerOf[a]] = "RUNNING"
    <3>1. action[a] = action'[a]  BY <2>1, <2>2
    <3>2. ControllerOf[a] \notin failed  BY <1>2, <2>2, <3>1 DEF LvInv, Told
    <3>3. a \in aborted \/ ControllerOf[a] \in late \/ state[ControllerOf[a]] = "RUNNING"
      BY <2>2, <3>1 DEF LvInv, Told
    <3> QED  BY <2>1, <2>2, <3>1, <3>2, <3>3
  <2>3. ASSUME NEW a \in LiveAction, making'[ControllerOf[a]] # "made"  PROVE action'[a] \in {"new", "ended"}
    BY <1>2, <2>1, <2>3 DEF LvInv, Told
  <2> QED  BY <1>2, <2>2, <2>3 DEF Told
<1>3. CASE StopAll
  BY <1>3, <1>2 DEF StopAll
<1>4. ASSUME NEW k \in Controller, OpenFails(k)  PROVE Told'
  <2>1. EmergencyStop(members \ {k}, {k}) /\ making[k] = "opening" /\ making' = [making EXCEPT ![k] = "made"] /\ late' = late
    BY <1>4 DEF OpenFails
  <2> QED  BY <1>0, <1>2, <2>1
<1>5. CASE BeginRestart \/ EndRestart \/ UNCHANGED lvVars
  BY <1>5 DEF BeginRestart, EndRestart, lvVars, LvInv, Told
<1>6. ASSUME NEW k \in Controller, Register(k) \/ AssertCanStart(k) \/ OpenRun(k) \/ Unregister(k)  PROVE Told'
  <2>1. UNCHANGED <<action, aborted>> /\ late \subseteq late'
    BY <1>6 DEF Register, AssertCanStart, OpenRun, Unregister
  <2>2. \A j \in Controller : making[j] # "made" \/ (making'[j] = "made" /\ state'[j] = state[j])
    BY <1>0, <1>6 DEF Register, AssertCanStart, OpenRun, Unregister
  <2> QED  BY <1>0, <2>1, <2>2 DEF LvInv, Told
<1>7. ASSUME NEW k \in Controller, EndController(k)  PROVE Told'
  <2>1. /\ state[k] = "RUNNING" /\ activeCount[k] = 0 /\ state' = [state EXCEPT ![k] = "ENDED"]
        /\ UNCHANGED <<making, action, aborted, late>>
    BY <1>7 DEF EndController
  <2>2. Holder(k) = {}
    <3>1. Holder(k) \subseteq LiveAction  BY DEF Holder, ActionsOf
    <3>2. IsFiniteSet(Holder(k))  BY <3>1, FS_Subset
    <3>3. Cardinality(Holder(k)) = 0  BY <2>1 DEF LvInv, Count
    <3> QED  BY <3>2, <3>3, FS_EmptySet
  <2>3. \A a \in LiveAction : ControllerOf[a] = k => action[a] \notin {"entered", "driving"}
    BY <2>2 DEF Holder, ActionsOf
  <2> QED  BY <1>0, <2>1, <2>3 DEF LvInv, Told
<1> QED  BY <1>1, <1>3, <1>4, <1>5, <1>6, <1>7 DEF LvNext, ActionStep

\* The controllers' own steps, and a stop, leave the queues of the others alone.
LEMMA LineStep == LvInv /\ [LvNext]_lvVars => Line'
<1> SUFFICES ASSUME LvInv, [LvNext]_lvVars PROVE Line'
  OBVIOUS
<1> USE LiveAssumption
<1>0. /\ action \in [LiveAction -> Steps] /\ state \in [Controller -> States] /\ members \subseteq Controller
      /\ waiters \in [Controller -> Seq(LiveAction)]
      /\ \A k \in Controller :
           /\ waiters[k] # <<>> => state[k] = "RUNNING"
           /\ \A i \in 1..Len(waiters[k]) :
                waiters[k][i] \in LiveAction /\ action[waiters[k][i]] = "queued" /\ ControllerOf[waiters[k][i]] = k
           /\ \A i, j \in 1..Len(waiters[k]) : waiters[k][i] = waiters[k][j] => i = j
      /\ \A a \in LiveAction : action[a] = "queued" =>
           \E i \in 1..Len(waiters[ControllerOf[a]]) : waiters[ControllerOf[a]][i] = a
  BY DEF LvInv, Typed, Line
\* A step that neither queues nor serves anyone.
<1>1. ASSUME UNCHANGED waiters, \A k \in Controller : waiters[k] # <<>> => state'[k] = "RUNNING",
             \A b \in LiveAction : action'[b] = "queued" <=> action[b] = "queued"
      PROVE  Line'
  BY <1>0, <1>1 DEF Line
<1>2. ASSUME NEW a \in LiveAction, ActionStep(a)  PROVE Line'
  <2> DEFINE k == ControllerOf[a]
  <2>0. k \in Controller /\ state' = state  BY <1>2, ActionsKeep DEF still
  <2>1. CASE UNCHANGED waiters /\ action[a] # "queued" /\ \E s \in Steps \ {"queued"} : action' = [action EXCEPT ![a] = s]
    BY <1>0, <1>1, <2>0, <2>1
  <2>2. CASE /\ Moves(a, {"arrived"}, "queued") /\ state[k] = "RUNNING"
             /\ waiters' = [waiters EXCEPT ![k] = Append(@, a)]
    <3>1. action[a] = "arrived" /\ action' = [action EXCEPT ![a] = "queued"]  BY <2>2 DEF Moves
    <3> DEFINE old == waiters[k]
               new == Append(old, a)
    <3>2. old \in Seq(LiveAction) /\ Len(old) \in Nat /\ waiters'[k] = new  BY <1>0, <2>0, <2>2
    <3>3. new \in Seq(LiveAction) /\ Len(new) = Len(old) + 1
          /\ \A i \in 1..Len(new) : new[i] = IF i = Len(old) + 1 THEN a ELSE old[i]
      BY <3>2
    <3>4. \A i \in 1..Len(old) : old[i] # a  BY <1>0, <2>0, <3>1
    <3>5. \A i \in 1..Len(new) : i = Len(old) + 1 \/ i \in 1..Len(old)  BY <3>2, <3>3
    <3>6. \A i \in 1..Len(new) : action'[new[i]] = "queued" /\ ControllerOf[new[i]] = k
      BY <1>0, <2>0, <3>1, <3>3, <3>5
    <3>7. ASSUME NEW i \in 1..Len(new), NEW j \in 1..Len(new), new[i] = new[j]  PROVE i = j
      <4>1. old[i] = old[j] \/ i = Len(old) + 1 \/ j = Len(old) + 1  BY <3>3, <3>7
      <4>2. CASE i = Len(old) + 1 \/ j = Len(old) + 1  BY <3>3, <3>4, <3>5, <3>7, <4>2
      <4>3. CASE i \in 1..Len(old) /\ j \in 1..Len(old) /\ old[i] = old[j]  BY <1>0, <2>0, <4>3
      <4> QED  BY <3>5, <4>1, <4>2, <4>3, <3>3, <3>7
    <3>8. ASSUME NEW b \in LiveAction, action'[b] = "queued"
          PROVE  \E i \in 1..Len(waiters'[ControllerOf[b]]) : waiters'[ControllerOf[b]][i] = b
      <4>1. CASE b = a
        <5>1. Len(old) + 1 \in 1..Len(new) /\ new[Len(old) + 1] = a  BY <3>2, <3>3
        <5> QED  BY <3>2, <4>1, <5>1
      <4>2. CASE b # a /\ ControllerOf[b] = k
        <5>0. action[b] = "queued"  BY <1>0, <3>1, <3>8, <4>2
        <5>3. \E i \in 1..Len(waiters[ControllerOf[b]]) : waiters[ControllerOf[b]][i] = b  BY <1>0, <5>0
        <5>4. waiters[ControllerOf[b]] = old  BY <4>2
        <5> HIDE DEF old
        <5>1. PICK i \in 1..Len(old) : old[i] = b  BY <5>3, <5>4
        <5>2. i \in 1..Len(new) /\ new[i] = b  BY <3>2, <3>3, <5>1
        <5> QED  BY <3>2, <4>2, <5>2
      <4>3. CASE b # a /\ ControllerOf[b] # k
        <5>1. waiters'[ControllerOf[b]] = waiters[ControllerOf[b]]  BY <1>0, <2>2, <4>3
        <5> QED  BY <1>0, <3>1, <3>8, <4>3, <5>1
      <4> QED  BY <4>1, <4>2, <4>3
    <3>9. \A j \in Controller : j # k => waiters'[j] = waiters[j]  BY <1>0, <2>2
    <3>10. waiters' \in [Controller -> Seq(LiveAction)]  BY <1>0, <2>0, <2>2, <3>3
    <3>11. ASSUME NEW j \in Controller
           PROVE  /\ waiters'[j] # <<>> => state'[j] = "RUNNING"
                  /\ \A i \in 1..Len(waiters'[j]) : action'[waiters'[j][i]] = "queued" /\ ControllerOf[waiters'[j][i]] = j
                  /\ \A m, n \in 1..Len(waiters'[j]) : waiters'[j][m] = waiters'[j][n] => m = n
      <4>1. CASE j = k
        <5>1. waiters'[j] = new  BY <3>2, <4>1
        <5>2. state'[j] = "RUNNING"  BY <2>0, <2>2, <4>1
        <5>3. \A i \in 1..Len(new) : action'[new[i]] = "queued" /\ ControllerOf[new[i]] = j  BY <3>6, <4>1
        <5>4. \A m, n \in 1..Len(new) : new[m] = new[n] => m = n  BY <3>7
        <5> HIDE DEF new, old, k
        <5> QED  BY <5>1, <5>2, <5>3, <5>4
      <4>2. CASE j # k
        <5> HIDE DEF new, old
        <5> QED  BY <1>0, <2>0, <3>1, <3>9, <4>2
      <4> QED  BY <4>1, <4>2
    <3> QED  BY <3>8, <3>10, <3>11 DEF Line
  <2>3. CASE /\ waiters[k] # <<>> /\ state[k] = "RUNNING"
             /\ action[a] # "queued" /\ Head(waiters[k]) \in LiveAction
             /\ action' = [action EXCEPT ![a] = "ended", ![Head(waiters[k])] = "woken"]
             /\ waiters' = [waiters EXCEPT ![k] = Tail(@)]
    <3> DEFINE old == waiters[k]
               new == Tail(old)
    <3>1. old \in Seq(LiveAction) /\ Len(old) \in Nat \ {0} /\ waiters'[k] = new /\ old # <<>>
      BY <1>0, <2>0, <2>3
    <3>2. Head(old) = old[1] /\ new \in Seq(LiveAction) /\ Len(new) = Len(old) - 1
          /\ \A i \in 1..Len(new) : new[i] = old[i + 1]
      BY <3>1
    <3>3. \A i \in 1..Len(new) : i + 1 \in 1..Len(old) /\ i + 1 # 1  BY <3>1, <3>2
    <3>4. \A i \in 1..Len(new) : new[i] # old[1] /\ new[i] \in LiveAction /\ action[new[i]] = "queued" /\ ControllerOf[new[i]] = k
      BY <1>0, <2>0, <3>1, <3>2, <3>3
    <3>5. \A i \in 1..Len(new) : action'[new[i]] = "queued"  BY <1>0, <2>3, <3>2, <3>4
    <3>6. ASSUME NEW i \in 1..Len(new), NEW j \in 1..Len(new), new[i] = new[j]  PROVE i = j
      <4>1. old[i + 1] = old[j + 1]  BY <3>2, <3>6
      <4>2. i + 1 = j + 1  BY <1>0, <2>0, <3>3, <4>1
      <4> QED  BY <4>2
    <3>7. ASSUME NEW b \in LiveAction, action'[b] = "queued"
          PROVE  \E i \in 1..Len(waiters'[ControllerOf[b]]) : waiters'[ControllerOf[b]][i] = b
      <4>0. action[b] = "queued" /\ b # old[1]  BY <1>0, <2>3, <3>2, <3>7
      <4>1. CASE ControllerOf[b] = k
        <5>1. PICK i \in 1..Len(old) : old[i] = b  BY <1>0, <4>0, <4>1
        <5>2. i # 1  BY <4>0, <5>1
        <5>3. i - 1 \in 1..Len(new)  BY <3>1, <3>2, <5>2
        <5>4. new[i - 1] = old[(i - 1) + 1] /\ (i - 1) + 1 = i  BY <3>2, <5>3
        <5>5. new[i - 1] = b  BY <5>1, <5>4
        <5> QED  BY <3>1, <4>1, <5>3, <5>5
      <4>2. CASE ControllerOf[b] # k
        <5>1. waiters'[ControllerOf[b]] = waiters[ControllerOf[b]]  BY <1>0, <2>3, <4>2
        <5> QED  BY <1>0, <4>0, <4>2, <5>1
      <4> QED  BY <4>1, <4>2
    <3>8. \A j \in Controller : j # k => waiters'[j] = waiters[j]  BY <1>0, <2>3
    <3>9. waiters' \in [Controller -> Seq(LiveAction)]  BY <1>0, <2>0, <2>3, <3>2
    <3>10. ASSUME NEW j \in Controller
           PROVE  /\ waiters'[j] # <<>> => state'[j] = "RUNNING"
                  /\ \A i \in 1..Len(waiters'[j]) : action'[waiters'[j][i]] = "queued" /\ ControllerOf[waiters'[j][i]] = j
                  /\ \A m, n \in 1..Len(waiters'[j]) : waiters'[j][m] = waiters'[j][n] => m = n
      <4>1. CASE j = k
        <5>1. waiters'[j] = new  BY <3>1, <4>1
        <5>2. state'[j] = "RUNNING"  BY <2>0, <2>3, <4>1
        <5>3. \A i \in 1..Len(new) : action'[new[i]] = "queued" /\ ControllerOf[new[i]] = j  BY <3>4, <3>5, <4>1
        <5>4. \A m, n \in 1..Len(new) : new[m] = new[n] => m = n  BY <3>6
        <5> HIDE DEF new, old, k
        <5> QED  BY <5>1, <5>2, <5>3, <5>4
      <4>2. CASE j # k
        <5>1. ControllerOf[Head(old)] = k  BY <1>0, <2>0, <3>1, <3>2
        <5>2. \A i \in 1..Len(waiters[j]) : waiters[j][i] # a /\ waiters[j][i] # Head(old)
          BY <1>0, <2>3, <4>2, <5>1
        <5> HIDE DEF new, old
        <5>3. \A i \in 1..Len(waiters[j]) : action'[waiters[j][i]] = "queued"
          BY <1>0, <2>3, <5>2 DEF old
        <5> QED  BY <1>0, <2>0, <3>8, <4>2, <5>3
      <4> QED  BY <4>1, <4>2
    <3> QED  BY <3>7, <3>9, <3>10 DEF Line
  <2>4. CASE action[a] \in {"granted", "entered", "driving"} /\ Leave(a) /\ UNCHANGED <<still, aborted>>
    <3>1. CASE waiters[k] = <<>> /\ action' = [action EXCEPT ![a] = "ended"] /\ waiters' = waiters
      BY <2>1, <2>4, <3>1 DEF Steps
    <3> QED  BY <2>3, <2>4, <3>1, Left
  <2>5. \/ UNCHANGED waiters /\ \E s \in Steps \ {"queued"} : action' = [action EXCEPT ![a] = s] /\ action[a] # "queued"
        \/ /\ Moves(a, {"arrived"}, "queued") /\ state[k] = "RUNNING"
           /\ waiters' = [waiters EXCEPT ![k] = Append(@, a)]
        \/ action[a] \in {"granted", "entered", "driving"} /\ Leave(a) /\ UNCHANGED <<still, aborted>>
    BY <1>0, <1>2, ActionSteps DEF ActionStep, Moves, Steps
  <2> QED  BY <2>1, <2>2, <2>4, <2>5
<1>3. ASSUME NEW K \in SUBSET members, NEW failed \in SUBSET Controller, EmergencyStop(K, failed),
             \A k \in failed : state[k] # "RUNNING"
      PROVE  Line'
  <2>1. /\ waiters' \in [Controller -> Seq(LiveAction)]
        /\ \A k \in Controller : IF k \in K /\ state[k] # "STOPPED" THEN waiters'[k] = <<>> ELSE waiters'[k] = waiters[k]
        /\ \A k \in Controller : state'[k] = IF k \in K \cup failed THEN "STOPPED" ELSE state[k]
        /\ \A a \in LiveAction :
             IF ControllerOf[a] \in K /\ state[ControllerOf[a]] # "STOPPED" /\ action[a] = "queued"
             THEN action'[a] = "ended" ELSE action'[a] = action[a]
    BY <1>3, Stopped
  <2>2. ASSUME NEW k \in Controller
        PROVE  /\ waiters'[k] # <<>> => state'[k] = "RUNNING"
               /\ \A i \in 1..Len(waiters'[k]) : action'[waiters'[k][i]] = "queued" /\ ControllerOf[waiters'[k][i]] = k
               /\ \A i, j \in 1..Len(waiters'[k]) : waiters'[k][i] = waiters'[k][j] => i = j
    <3>1. CASE waiters'[k] = <<>>  BY <3>1
    <3>2. CASE waiters'[k] # <<>>
      <4>1. waiters'[k] = waiters[k] /\ state[k] = "RUNNING" /\ k \notin K  BY <1>0, <2>1, <3>2
      <4>2. state'[k] = "RUNNING"  BY <1>3, <2>1, <4>1
      <4>3. \A i \in 1..Len(waiters[k]) : action'[waiters[k][i]] = "queued"  BY <1>0, <2>1, <4>1
      <4> QED  BY <1>0, <4>1, <4>2, <4>3
    <3> QED  BY <3>1, <3>2
  <2>3. ASSUME NEW a \in LiveAction, action'[a] = "queued"
        PROVE  \E i \in 1..Len(waiters'[ControllerOf[a]]) : waiters'[ControllerOf[a]][i] = a
    <3>1. action[a] = "queued" /\ ~(ControllerOf[a] \in K /\ state[ControllerOf[a]] # "STOPPED")  BY <2>1, <2>3
    <3>2. ControllerOf[a] \in Controller  OBVIOUS
    <3>3. waiters'[ControllerOf[a]] = waiters[ControllerOf[a]]  BY <2>1, <3>1, <3>2
    <3> QED  BY <1>0, <3>1, <3>3
  <2> QED  BY <2>1, <2>2, <2>3 DEF Line
<1>4. CASE StopAll
  BY <1>4, <1>3 DEF StopAll
<1>5. ASSUME NEW k \in Controller, OpenFails(k)  PROVE Line'
  <2>1. EmergencyStop(members \ {k}, {k}) /\ making[k] = "opening"  BY <1>5 DEF OpenFails
  <2>2. state[k] # "RUNNING"  BY <2>1 DEF LvInv, Known
  <2> QED  BY <1>3, <2>1, <2>2
<1>6. CASE BeginRestart \/ EndRestart \/ UNCHANGED lvVars
  BY <1>0, <1>1, <1>6 DEF BeginRestart, EndRestart, lvVars
<1>7. ASSUME NEW k \in Controller,
             Register(k) \/ AssertCanStart(k) \/ OpenRun(k) \/ Unregister(k) \/ EndController(k)
      PROVE  Line'
  <2>1. UNCHANGED <<waiters, action>>
    BY <1>7 DEF Register, AssertCanStart, OpenRun, Unregister, EndController
  <2>2. \A j \in Controller : j # k => state'[j] = state[j]
    BY <1>0, <1>7 DEF Register, AssertCanStart, OpenRun, Unregister, EndController
  <2>3. waiters[k] # <<>> => state'[k] = "RUNNING"
    <3>1. making[k] # "made" => state[k] # "RUNNING"  BY DEF LvInv, Known
    <3> QED  BY <1>0, <1>7, <3>1 DEF Register, AssertCanStart, OpenRun, Unregister, EndController
  <2> QED  BY <1>0, <1>1, <2>1, <2>2, <2>3
<1> QED  BY <1>2, <1>4, <1>5, <1>6, <1>7 DEF LvNext, ActionStep

-----------------------------------------------------------------------------
(* Slots, and those to whom one is promised.                               *)

LEMMA FewActions ==
  \A k : /\ IsFiniteSet(Holder(k)) /\ Cardinality(Holder(k)) \in Nat
         /\ IsFiniteSet(Promised(k)) /\ Cardinality(Promised(k)) \in Nat
<1> TAKE k
<1>1. Holder(k) \subseteq LiveAction /\ Promised(k) \subseteq LiveAction
  BY DEF Holder, Promised, ActionsOf
<1> QED  BY <1>1, LiveAssumption, FS_Subset, FS_CardinalityType

\* What a step of an action does to the two, for its controller and for another.
LEMMA OthersSlots ==
  ASSUME LvInv, NEW a \in LiveAction, ActionStep(a), NEW k \in Controller, k # ControllerOf[a]
  PROVE  Holder(k)' = Holder(k) /\ Promised(k)' = Promised(k) /\ activeCount'[k] = activeCount[k]
         /\ waiters'[k] = waiters[k]
<1> USE LiveAssumption
<1>0. action \in [LiveAction -> Steps] /\ activeCount \in [Controller -> Nat] /\ waiters \in [Controller -> Seq(LiveAction)]
  BY DEF LvInv, Typed, Count, Line
<1>1. /\ \A b \in LiveAction : ControllerOf[b] = k => action'[b] = action[b]
      /\ activeCount'[k] = activeCount[k] /\ waiters'[k] = waiters[k]
  <2>1. CASE action[a] \in {"granted", "entered", "driving"} /\ Leave(a) /\ UNCHANGED <<still, aborted>>
    <3> DEFINE j == ControllerOf[a]
               b == Head(waiters[j])
    <3>1. activeCount' = [activeCount EXCEPT ![j] = @ - 1]  BY <2>1, Left
    <3>2. CASE /\ b \in LiveAction /\ ControllerOf[b] = j /\ waiters' = [waiters EXCEPT ![j] = Tail(@)]
               /\ action' = [action EXCEPT ![a] = "ended", ![b] = "woken"]
      <4> HIDE DEF b
      <4> QED  BY <1>0, <3>1, <3>2
    <3>3. CASE action' = [action EXCEPT ![a] = "ended"] /\ waiters' = waiters
      BY <1>0, <3>1, <3>3
    <3> QED  BY <2>1, <3>2, <3>3, Left
  <2>2. CASE \E s : Moves(a, s, action'[a]) /\ (activeCount' = activeCount \/ activeCount' = [activeCount EXCEPT ![ControllerOf[a]] = @ + 1])
                    /\ (waiters' = waiters \/ waiters' = [waiters EXCEPT ![ControllerOf[a]] = Append(@, a)])
    BY <1>0, <2>2 DEF Moves
  <2> QED  BY <1>0, <2>1, <2>2, ActionSteps DEF ActionStep, Moves
<1>2. Holder(k)' = Holder(k)  BY <1>1 DEF Holder, ActionsOf
<1>3. Promised(k)' = Promised(k)  BY <1>1 DEF Promised, ActionsOf
<1> QED  BY <1>1, <1>2, <1>3

LEMMA OwnSlots ==
  ASSUME LvInv, NEW a \in LiveAction, ActionStep(a)
  PROVE  LET k == ControllerOf[a]
             H == Holder(k)
             P == Promised(k)
         IN \/ H' = H /\ P' = P /\ activeCount'[k] = activeCount[k] /\ waiters'[k] = waiters[k]
            \/ H' = H /\ P' = P /\ activeCount'[k] = activeCount[k] /\ ~(activeCount[k] < MaxConcurrency)
            \/ /\ a \notin H /\ H' = H \cup {a} /\ activeCount'[k] = activeCount[k] + 1
               /\ P' = P \/ (a \in P /\ P' = P \ {a})
               /\ waiters'[k] = waiters[k]
            \/ /\ H' = H /\ activeCount'[k] = activeCount[k]
               /\ waiters[k] = <<>> /\ waiters'[k] = <<>>
            \/ /\ a \in H /\ H' = H \ {a} /\ activeCount'[k] = activeCount[k] - 1
               /\ waiters[k] = <<>> /\ waiters'[k] = <<>>
            \/ /\ a \in H /\ H' = H \ {a} /\ activeCount'[k] = activeCount[k] - 1
               /\ waiters[k] # <<>> /\ \E b \in LiveAction \ P : P' = P \cup {b}
<1> USE LiveAssumption
<1>0. action \in [LiveAction -> Steps] /\ activeCount \in [Controller -> Nat] /\ waiters \in [Controller -> Seq(LiveAction)]
  BY DEF LvInv, Typed, Count, Line
<1> DEFINE k == ControllerOf[a]
<1>1. CASE /\ Moves(a, {"new", "arrived", "granted", "entered"}, action'[a])
           /\ \/ action[a] = "new" /\ action'[a] = "arrived"
              \/ action[a] \in {"new", "arrived"} /\ action'[a] = "ended"
              \/ action[a] = "granted" /\ action'[a] = "entered"
              \/ action[a] = "entered" /\ action'[a] = "driving"
           /\ UNCHANGED <<activeCount, waiters>>
  <2>1. Holder(k)' = Holder(k)  BY <1>0, <1>1 DEF Holder, ActionsOf, Moves
  <2>2. Promised(k)' = Promised(k)  BY <1>0, <1>1 DEF Promised, ActionsOf, Moves
  <2> QED  BY <1>1, <2>1, <2>2
<1>2. CASE /\ Moves(a, {"arrived", "woken"}, "granted")
           /\ activeCount' = [activeCount EXCEPT ![k] = @ + 1] /\ UNCHANGED waiters
  <2>1. a \notin Holder(k) /\ Holder(k)' = Holder(k) \cup {a}  BY <1>0, <1>2 DEF Holder, ActionsOf, Moves
  <2>2. Promised(k)' = Promised(k) \/ (a \in Promised(k) /\ Promised(k)' = Promised(k) \ {a})
    BY <1>0, <1>2 DEF Promised, ActionsOf, Moves
  <2>3. activeCount'[k] = activeCount[k] + 1 /\ waiters'[k] = waiters[k]  BY <1>0, <1>2
  <2> QED  BY <2>1, <2>2, <2>3
<1>3. CASE /\ Moves(a, {"arrived"}, "queued") /\ ~(activeCount[k] < MaxConcurrency) /\ UNCHANGED activeCount
  <2>1. Holder(k)' = Holder(k)  BY <1>0, <1>3 DEF Holder, ActionsOf, Moves
  <2>2. Promised(k)' = Promised(k)  BY <1>0, <1>3 DEF Promised, ActionsOf, Moves
  <2> QED  BY <1>3, <2>1, <2>2
<1>4. CASE Moves(a, {"woken"}, "ended") /\ state[k] # "RUNNING" /\ UNCHANGED <<activeCount, waiters>>
  <2>1. Holder(k)' = Holder(k)  BY <1>0, <1>4 DEF Holder, ActionsOf, Moves
  <2>2. waiters[k] = <<>>  BY <1>4 DEF LvInv, Line
  <2> QED  BY <1>4, <2>1, <2>2
<1>5. CASE action[a] \in {"granted", "entered", "driving"} /\ Leave(a) /\ UNCHANGED <<still, aborted>>
  <2>1. activeCount'[k] = activeCount[k] - 1  BY <1>0, <1>5, Left
  <2>2. a \in Holder(k)  BY <1>5 DEF Holder, ActionsOf
  <2> DEFINE b == Head(waiters[k])
  <2>3. CASE /\ waiters[k] # <<>> /\ b \in LiveAction /\ b # a /\ action[b] = "queued" /\ ControllerOf[b] = k
             /\ action' = [action EXCEPT ![a] = "ended", ![b] = "woken"]
    <3> HIDE DEF b
    <3>1. Holder(k)' = Holder(k) \ {a}  BY <1>0, <1>5, <2>3 DEF Holder, ActionsOf
    <3>2. b \notin Promised(k) /\ Promised(k)' = Promised(k) \cup {b}
      BY <1>0, <1>5, <2>3 DEF Promised, ActionsOf
    <3> QED  BY <2>1, <2>2, <2>3, <3>1, <3>2
  <2>4. CASE waiters[k] = <<>> /\ action' = [action EXCEPT ![a] = "ended"] /\ waiters' = waiters
    <3>1. Holder(k)' = Holder(k) \ {a}  BY <1>0, <1>5, <2>4 DEF Holder, ActionsOf
    <3> QED  BY <2>1, <2>2, <2>4, <3>1
  <2> QED  BY <1>5, <2>3, <2>4, Left
<1> QED  BY <1>1, <1>2, <1>3, <1>4, <1>5, ActionSteps DEF ActionStep

\* Every other step leaves slots and promises where they are.
LEMMA SameSlots ==
  ASSUME LvInv, [LvNext]_lvVars, ~\E a \in LiveAction : ActionStep(a)
  PROVE  /\ activeCount' = activeCount
         /\ \A k : Holder(k)' = Holder(k) /\ Promised(k)' = Promised(k)
         /\ \A k \in Controller : waiters'[k] = waiters[k] \/ waiters'[k] = <<>>
<1> DEFINE Q == /\ activeCount' = activeCount
                /\ \A a \in LiveAction : action'[a] = action[a] \/ (action[a] = "queued" /\ action'[a] = "ended")
                /\ \A k \in Controller : waiters'[k] = waiters[k] \/ waiters'[k] = <<>>
<1>1. ASSUME NEW K \in SUBSET members, NEW failed \in SUBSET Controller, EmergencyStop(K, failed), activeCount' = activeCount
      PROVE  Q
  <2>1. \A a \in LiveAction :
          IF ControllerOf[a] \in K /\ state[ControllerOf[a]] # "STOPPED" /\ action[a] = "queued"
          THEN action'[a] = "ended" ELSE action'[a] = action[a]
    BY <1>1, Stopped
  <2>2. \A k \in Controller : IF k \in K /\ state[k] # "STOPPED" THEN waiters'[k] = <<>> ELSE waiters'[k] = waiters[k]
    BY <1>1, Stopped
  <2> QED  BY <1>1, <2>1, <2>2
<1>2. ASSUME StopAll  PROVE Q
  <2>1. EmergencyStop(members, {}) /\ activeCount' = activeCount  BY <1>2 DEF StopAll
  <2>2. members \in SUBSET members /\ {} \in SUBSET Controller  OBVIOUS
  <2> HIDE DEF Q
  <2> QED  BY <1>1, <2>1, <2>2
<1>3. ASSUME NEW k \in Controller, OpenFails(k)  PROVE Q
  <2>1. EmergencyStop(members \ {k}, {k}) /\ activeCount' = activeCount  BY <1>3 DEF OpenFails
  <2>2. members \ {k} \in SUBSET members /\ {k} \in SUBSET Controller  OBVIOUS
  <2> HIDE DEF Q
  <2> QED  BY <1>1, <2>1, <2>2
<1>4. ASSUME BeginRestart \/ EndRestart \/ UNCHANGED lvVars  PROVE Q
  BY <1>4 DEF BeginRestart, EndRestart, lvVars
<1>5. ASSUME NEW k \in Controller,
             Register(k) \/ AssertCanStart(k) \/ OpenRun(k) \/ Unregister(k) \/ EndController(k)
      PROVE  Q
  BY <1>5 DEF Register, AssertCanStart, OpenRun, Unregister, EndController
<1>6. Q
  <2> HIDE DEF Q
  <2> QED  BY <1>2, <1>3, <1>4, <1>5 DEF LvNext, ActionStep
<1>7. \A k : Holder(k)' = Holder(k)  BY <1>6 DEF Holder, ActionsOf
<1>8. \A k : Promised(k)' = Promised(k)  BY <1>6 DEF Promised, ActionsOf
<1> QED  BY <1>6, <1>7, <1>8

\* A finite set with one element more, or one less.
LEMMA OneMore ==
  ASSUME NEW S, NEW T, NEW x, IsFiniteSet(S), x \notin S, T = S \cup {x}
  PROVE  Cardinality(T) = Cardinality(S) + 1
BY FS_AddElement

LEMMA OneLess ==
  ASSUME NEW S, NEW T, NEW x, IsFiniteSet(S), x \in S, T = S \ {x}
  PROVE  Cardinality(T) = Cardinality(S) - 1
BY FS_RemoveElement

\* Slots and promises of a controller, in numbers.
Slots(k) == Cardinality(Holder(k))
Promises(k) == Cardinality(Promised(k))
Queues(k) == waiters[k] # <<>>

LEMMA Numbers ==
  ASSUME LvInv, [LvNext]_lvVars, NEW k \in Controller
  PROVE  /\ activeCount'[k] - activeCount[k] = Slots(k)' - Slots(k)
         /\ \/ Slots(k)' = Slots(k) /\ Promises(k)' = Promises(k) /\ (Queues(k)' => Queues(k))
            \/ ~(activeCount[k] < MaxConcurrency) /\ Slots(k)' = Slots(k) /\ Promises(k)' = Promises(k)
            \/ /\ Slots(k)' = Slots(k) + 1 /\ Promises(k)' \in {Promises(k), Promises(k) - 1}
               /\ (Queues(k)' => Queues(k))
            \/ ~Queues(k)'
            \/ Slots(k)' = Slots(k) - 1 /\ Promises(k)' = Promises(k) + 1 /\ Queues(k)
<1>0. /\ activeCount[k] \in Nat /\ Slots(k) \in Nat /\ Promises(k) \in Nat
      /\ IsFiniteSet(Holder(k)) /\ IsFiniteSet(Promised(k))
  BY FewActions DEF LvInv, Count, Slots, Promises
<1>1. CASE Holder(k)' = Holder(k) /\ Promised(k)' = Promised(k) /\ activeCount'[k] = activeCount[k]
           /\ (waiters'[k] = waiters[k] \/ waiters'[k] = <<>>)
  <2>1. Slots(k)' = Slots(k) /\ Promises(k)' = Promises(k)  BY <1>1, Zenon DEF Slots, Promises
  <2>2. Queues(k)' => Queues(k)  BY <1>1 DEF Queues
  <2> QED  BY <1>0, <1>1, <2>1, <2>2
<1>2. CASE ~\E a \in LiveAction : ActionStep(a)
  BY <1>1, <1>2, SameSlots
<1>3. ASSUME NEW a \in LiveAction, ActionStep(a), ControllerOf[a] # k
      PROVE /\ Holder(k)' = Holder(k) /\ Promised(k)' = Promised(k) /\ activeCount'[k] = activeCount[k]
            /\ (waiters'[k] = waiters[k] \/ waiters'[k] = <<>>)
  BY <1>3, OthersSlots
<1>4. CASE \E a \in LiveAction : ActionStep(a) /\ ControllerOf[a] = k
  <2>0. PICK a \in LiveAction : ActionStep(a) /\ ControllerOf[a] = k  BY <1>4
  <2>1. CASE Holder(k)' = Holder(k) /\ Promised(k)' = Promised(k) /\ activeCount'[k] = activeCount[k] /\ waiters'[k] = waiters[k]
    BY <1>1, <2>1
  <2>2. CASE /\ Holder(k)' = Holder(k) /\ Promised(k)' = Promised(k) /\ activeCount'[k] = activeCount[k]
             /\ ~(activeCount[k] < MaxConcurrency)
    <3>1. Slots(k)' = Slots(k) /\ Promises(k)' = Promises(k)  BY <2>2, Zenon DEF Slots, Promises
    <3> QED  BY <1>0, <2>2, <3>1
  <2>3. CASE /\ a \notin Holder(k) /\ Holder(k)' = Holder(k) \cup {a} /\ activeCount'[k] = activeCount[k] + 1
             /\ Promised(k)' = Promised(k) \/ (a \in Promised(k) /\ Promised(k)' = Promised(k) \ {a})
             /\ waiters'[k] = waiters[k]
    <3>1. Slots(k)' = Slots(k) + 1  BY <1>0, <2>3, OneMore DEF Slots
    <3>2. CASE Promised(k)' = Promised(k)
      <4>1. Promises(k)' = Promises(k)  BY <3>2, Zenon DEF Promises
      <4>2. Queues(k)' => Queues(k)  BY <2>3 DEF Queues
      <4> QED  BY <1>0, <2>3, <3>1, <4>1, <4>2
    <3>3. CASE a \in Promised(k) /\ Promised(k)' = Promised(k) \ {a}
      <4>1. Promises(k)' = Promises(k) - 1  BY <1>0, <3>3, OneLess DEF Promises
      <4>2. Queues(k)' => Queues(k)  BY <2>3 DEF Queues
      <4> QED  BY <1>0, <2>3, <3>1, <4>1, <4>2
    <3> QED  BY <2>3, <3>2, <3>3
  <2>4. CASE Holder(k)' = Holder(k) /\ activeCount'[k] = activeCount[k] /\ waiters[k] = <<>> /\ waiters'[k] = <<>>
    <3>1. Slots(k)' = Slots(k)  BY <2>4, Zenon DEF Slots
    <3> QED  BY <1>0, <2>4, <3>1 DEF Queues
  <2>5. CASE /\ a \in Holder(k) /\ Holder(k)' = Holder(k) \ {a} /\ activeCount'[k] = activeCount[k] - 1
             /\ waiters[k] = <<>> /\ waiters'[k] = <<>>
    <3>1. Slots(k)' = Slots(k) - 1  BY <1>0, <2>5, OneLess DEF Slots
    <3> QED  BY <1>0, <2>5, <3>1 DEF Queues
  <2>6. CASE /\ a \in Holder(k) /\ Holder(k)' = Holder(k) \ {a} /\ activeCount'[k] = activeCount[k] - 1
             /\ waiters[k] # <<>> /\ \E b \in LiveAction \ Promised(k) : Promised(k)' = Promised(k) \cup {b}
    <3>1. Slots(k)' = Slots(k) - 1  BY <1>0, <2>6, OneLess DEF Slots
    <3>2. PICK b \in LiveAction \ Promised(k) : Promised(k)' = Promised(k) \cup {b}  BY <2>6
    <3>3. Promises(k)' = Promises(k) + 1  BY <1>0, <3>2, OneMore DEF Promises
    <3>4. Queues(k)  BY <2>6 DEF Queues
    <3> QED  BY <1>0, <2>6, <3>1, <3>3, <3>4
  <2> QED  BY <2>0, <2>1, <2>2, <2>3, <2>4, <2>5, <2>6, OwnSlots
<1> QED  BY <1>1, <1>2, <1>3, <1>4

LEMMA CountStep == LvInv /\ [LvNext]_lvVars => Count'
<1> SUFFICES ASSUME LvInv, [LvNext]_lvVars PROVE Count'
  OBVIOUS
<1>1. activeCount' \in [Controller -> Int]
  <2>1. activeCount \in [Controller -> Nat]  BY DEF LvInv, Count
  <2>2. CASE ~\E a \in LiveAction : ActionStep(a)  BY <2>1, <2>2, SameSlots
  <2>3. ASSUME NEW a \in LiveAction, ActionStep(a)  PROVE activeCount' \in [Controller -> Int]
    <3>1. CASE action[a] \in {"granted", "entered", "driving"} /\ Leave(a) /\ UNCHANGED <<still, aborted>>
      BY <2>1, <3>1, Left, LiveAssumption
    <3> QED  BY <2>1, <2>3, <3>1, ActionSteps, LiveAssumption DEF ActionStep
  <2> QED  BY <2>2, <2>3
<1>2. ASSUME NEW k \in Controller  PROVE activeCount'[k] = Slots(k)' /\ activeCount'[k] \in Nat
  <2>1. activeCount[k] = Slots(k) /\ Slots(k) \in Nat  BY FewActions DEF LvInv, Count, Slots
  <2>2. Slots(k)' \in Nat
    <3>1. Holder(k)' \subseteq LiveAction  BY DEF Holder, ActionsOf
    <3> QED  BY <3>1, LiveAssumption, FS_Subset, FS_CardinalityType DEF Slots
  <2>3. activeCount'[k] - activeCount[k] = Slots(k)' - Slots(k)  BY Numbers
  <2> QED  BY <1>1, <2>1, <2>2, <2>3
<1>3. activeCount' \in [Controller -> Nat]  BY <1>1, <1>2
<1>4. \A k \in Controller : activeCount'[k] = Cardinality(Holder(k))'  BY <1>2 DEF Slots
<1> QED  BY <1>3, <1>4 DEF Count

LEMMA ServedStep == LvInv /\ QueueIsServed /\ [LvNext]_lvVars => QueueIsServed'
<1> SUFFICES ASSUME LvInv, QueueIsServed, [LvNext]_lvVars, NEW k \in Controller, Queues(k)'
             PROVE  activeCount'[k] + Promises(k)' >= MaxConcurrency
  BY DEF QueueIsServed, Queues, Promises, Promised
<1>1. /\ activeCount[k] \in Nat /\ Slots(k) \in Nat /\ Promises(k) \in Nat /\ MaxConcurrency \in Nat
      /\ activeCount[k] = Slots(k) /\ (Queues(k) => activeCount[k] + Promises(k) >= MaxConcurrency)
  BY FewActions, LiveAssumption DEF LvInv, Count, Slots, Promises, Promised, QueueIsServed, Queues
<1>2. activeCount'[k] = Slots(k)' /\ activeCount'[k] \in Nat
  BY CountStep DEF Count, Slots
<1>3. \/ Slots(k)' = Slots(k) /\ Promises(k)' = Promises(k) /\ (Queues(k)' => Queues(k))
      \/ ~(activeCount[k] < MaxConcurrency) /\ Slots(k)' = Slots(k) /\ Promises(k)' = Promises(k)
      \/ /\ Slots(k)' = Slots(k) + 1 /\ Promises(k)' \in {Promises(k), Promises(k) - 1}
         /\ (Queues(k)' => Queues(k))
      \/ ~Queues(k)'
      \/ Slots(k)' = Slots(k) - 1 /\ Promises(k)' = Promises(k) + 1 /\ Queues(k)
  BY Numbers
<1>4. CASE Slots(k)' = Slots(k) /\ Promises(k)' = Promises(k)  BY <1>1, <1>2, <1>3, <1>4
<1>5. CASE /\ Slots(k)' = Slots(k) + 1 /\ Promises(k)' \in {Promises(k), Promises(k) - 1} /\ Queues(k)
  BY <1>1, <1>2, <1>5
<1>6. CASE Slots(k)' = Slots(k) - 1 /\ Promises(k)' = Promises(k) + 1 /\ Queues(k)
  BY <1>1, <1>2, <1>6
<1> QED  BY <1>3, <1>4, <1>5, <1>6

-----------------------------------------------------------------------------
(* The theorems.                                                           *)

LEMMA LvInvStep == LvInv /\ [LvNext]_lvVars => LvInv'
BY LifeStep, ToldStep, LineStep, CountStep DEF LvInv

LEMMA StopHolds == LvInv => StopReachesAll
<1> SUFFICES ASSUME LvInv, latch, NEW a \in LiveAction
             PROVE  /\ action[a] = "driving" => a \in aborted \/ ControllerOf[a] \in late
                    /\ action[a] = "queued" => ControllerOf[a] \in late
  BY DEF StopReachesAll
<1>1. ControllerOf[a] \in Controller  BY LiveAssumption
<1>2. state[ControllerOf[a]] = "RUNNING" => ControllerOf[a] \in late  BY <1>1 DEF LvInv, Latched
<1>3. action[a] = "queued" => state[ControllerOf[a]] = "RUNNING"
  <2> SUFFICES ASSUME action[a] = "queued" PROVE waiters[ControllerOf[a]] # <<>>
    BY <1>1 DEF LvInv, Line
  <2>1. PICK i \in 1..Len(waiters[ControllerOf[a]]) : waiters[ControllerOf[a]][i] = a  BY DEF LvInv, Line
  <2>2. Len(<<>>) = 0  OBVIOUS
  <2> QED  BY <2>1, <2>2
<1>4. action[a] = "driving" => a \in aborted \/ ControllerOf[a] \in late \/ state[ControllerOf[a]] = "RUNNING"
  BY DEF LvInv, Told
<1> QED  BY <1>2, <1>3, <1>4

\* "Stop is durable" (docs/LIVE_VALIDATION.md), of every controller that was not stopped
\* while it was created: whoever drives has been told, and nothing is queued.
THEOREM StopsAreHeard == LvSpec => []StopReachesAll
<1> QED  BY LvInvInit, LvInvStep, StopHolds, PTL DEF LvSpec

\* An action waits only while as many as the limit have a slot or are promised one
\* (live-validation-safety-controller.ts, acquire and release).
THEOREM QueuesAreServed == LvSpec => []QueueIsServed
<1>1. LvInit => QueueIsServed  BY DEF LvInit, QueueIsServed
<1> QED  BY <1>1, LvInvInit, LvInvStep, ServedStep, PTL DEF LvSpec

\* The switch, the controllers and their actions stay what they are; no slot is given back
\* twice.
THEOREM LvTypeCorrect == LvSpec => []LvTypeOK
<1>1. LvInv => LvTypeOK  BY DEF LvInv, Typed, Line, Count, LvTypeOK, States, Steps
<1> QED  BY <1>1, LvInvInit, LvInvStep, PTL DEF LvSpec
=============================================================================
