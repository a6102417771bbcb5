--------------------------- MODULE LiveValidation ---------------------------
(***************************************************************************)
(* Live validation: actions on real targets, and the switch that stops     *)
(* them all                                                                *)
(*   packages/security/src/live-validation-safety-controller.ts            *)
(*   packages/security/src/live-validation-kill-switch.ts                  *)
(*                                                                         *)
(* One process.  A controller is created in three steps, each after an     *)
(* await; an action goes from step to step likewise.  A stop runs in one   *)
(* piece up to its audit, and whatever goes on afterwards finds it there.  *)
(* Every action has an id of its own.  What may trip a controller (health, *)
(* rates, addresses, the network's own stop) is a stop at any time.        *)
(***************************************************************************)
EXTENDS Integers, Sequences, FiniteSets

CONSTANTS
  Controller, LiveAction,
  ControllerOf,           \* the controller that an action is given to
  MaxConcurrency,         \* config.limits.maxConcurrency
  MaxStops, MaxRestarts   \* bounds

ASSUME LiveAssumption ==
  /\ ControllerOf \in [LiveAction -> Controller] /\ IsFiniteSet(LiveAction)
  /\ MaxConcurrency \in Nat \ {0} /\ {MaxStops, MaxRestarts} \subseteq Nat

VARIABLES
  latch,     \* currentState.stopped
  clearing,  \* is a restart waiting for the file to go?
  making,    \* how far create has come: "new", "registered", "opening" or "made"
  state,     \* of a controller: INITIALIZING, RUNNING, STOPPED or ENDED
  members,   \* participants of the switch
  leaving,   \* stopped members that write their audit and then unregister
  action,    \* an action is "new", "arrived", "queued", "woken", "granted", "entered",
             \* "driving" or "ended"
  aborted,   \* actions whose signal is aborted
  activeCount, waiters,   \* of a controller
  stops, restarts,        \* bounds: what has been used
  \* history
  late       \* controllers that were stopped before create had let them run

switch == <<latch, clearing, members, leaving, stops, restarts>>
lvVars == <<switch, making, state, action, aborted, activeCount, waiters, late>>

ActionsOf(k) == {a \in LiveAction : ControllerOf[a] = k}
\* activeWorkers.
Worker == {a \in LiveAction : action[a] \in {"entered", "driving"}}

-----------------------------------------------------------------------------
(* The switch. *)

\* Mutant: queued actions are left where they are.
EmergencyStopKeepsQueue(K, failed) ==
  LET hit == {k \in K : state[k] # "STOPPED"}
  IN /\ state' = [k \in Controller |-> IF k \in K \cup failed THEN "STOPPED" ELSE state[k]]
     /\ aborted' = aborted \cup {a \in Worker : ControllerOf[a] \in hit}
     /\ leaving' = leaving \cup hit
     /\ UNCHANGED <<action, waiters>>
\* emergencyStop of the controllers K: queued actions are rejected, workers aborted.  One
\* that failed to be created only stops.
EmergencyStop(K, failed) ==
  LET hit == {k \in K : state[k] # "STOPPED"}
  IN /\ state' = [k \in Controller |-> IF k \in K \cup failed THEN "STOPPED" ELSE state[k]]
     /\ action' = [a \in LiveAction |-> IF ControllerOf[a] \in hit /\ action[a] = "queued"
                                        THEN "ended" ELSE action[a]]
     /\ aborted' = aborted \cup {a \in Worker : ControllerOf[a] \in hit}
     /\ waiters' = [k \in Controller |-> IF k \in hit THEN <<>> ELSE waiters[k]]
     /\ leaving' = leaving \cup hit

\* stopAll, by an operator or by a controller's circuit breaker.
StopAll ==
  /\ stops < MaxStops /\ stops' = stops + 1
  /\ latch' = TRUE
  /\ EmergencyStop(members, {})
  /\ UNCHANGED <<clearing, members, restarts, making, activeCount, late>>

\* The end of emergencyStop.
Unregister(k) ==
  /\ k \in leaving
  /\ leaving' = leaving \ {k} /\ members' = members \ {k}
  /\ UNCHANGED <<latch, clearing, stops, restarts, making, state, action, aborted,
                 activeCount, waiters, late>>

\* restart: the file first, then the latch, whatever has happened in between.
BeginRestart ==
  /\ ~clearing /\ restarts < MaxRestarts /\ restarts' = restarts + 1
  /\ clearing' = TRUE
  /\ UNCHANGED <<latch, members, leaving, stops, making, state, action, aborted,
                 activeCount, waiters, late>>
EndRestart ==
  /\ clearing /\ clearing' = FALSE /\ latch' = FALSE
  /\ UNCHANGED <<members, leaving, stops, restarts, making, state, action, aborted,
                 activeCount, waiters, late>>

-----------------------------------------------------------------------------
(* create. *)

Register(k) ==
  /\ making[k] = "new" /\ making' = [making EXCEPT ![k] = "registered"]
  /\ members' = members \cup {k}
  /\ state' = IF latch THEN [state EXCEPT ![k] = "STOPPED"] ELSE state
  /\ UNCHANGED <<latch, clearing, leaving, stops, restarts, action, aborted,
                 activeCount, waiters, late>>

AssertCanStart(k) ==
  /\ making[k] = "registered"
  /\ IF latch
     THEN /\ making' = [making EXCEPT ![k] = "made"] /\ state' = [state EXCEPT ![k] = "STOPPED"]
          /\ members' = members \ {k}
     ELSE making' = [making EXCEPT ![k] = "opening"] /\ UNCHANGED <<state, members>>
  /\ UNCHANGED <<latch, clearing, leaving, stops, restarts, action, aborted,
                 activeCount, waiters, late>>

\* The system is healthy and the start recorded: nothing is looked at again.
OpenRun(k) ==
  /\ making[k] = "opening" /\ making' = [making EXCEPT ![k] = "made"]
  /\ state' = [state EXCEPT ![k] = "RUNNING"]
  /\ late' = IF state[k] = "STOPPED" THEN late \cup {k} ELSE late
  /\ UNCHANGED <<switch, action, aborted, activeCount, waiters>>

\* It is not: everything is stopped.
OpenFails(k) ==
  /\ making[k] = "opening" /\ making' = [making EXCEPT ![k] = "made"]
  /\ stops < MaxStops /\ stops' = stops + 1 /\ latch' = TRUE
  /\ members' = members \ {k}
  /\ EmergencyStop(members \ {k}, {k})
  /\ UNCHANGED <<clearing, restarts, activeCount, late>>

\* end.
EndController(k) ==
  /\ state[k] = "RUNNING" /\ activeCount[k] = 0 /\ waiters[k] = <<>>
  /\ state' = [state EXCEPT ![k] = "ENDED"] /\ members' = members \ {k}
  /\ UNCHANGED <<latch, clearing, leaving, stops, restarts, making, action, aborted,
                 activeCount, waiters, late>>

-----------------------------------------------------------------------------
(* executeAction. *)

still == <<switch, making, state, late>>
Goes(a, where) == action' = [action EXCEPT ![a] = where]

\* Checked, counted, recorded and authorized; or refused.
Arrive(a) ==
  /\ action[a] = "new"
  /\ IF state[ControllerOf[a]] = "RUNNING" /\ ~latch THEN Goes(a, "arrived") ELSE Goes(a, "ended")
  /\ UNCHANGED <<still, aborted, activeCount, waiters>>

\* acquire.
TakeSlot(a) ==
  LET k == ControllerOf[a]
  IN /\ action[a] = "arrived"
     /\ IF state[k] # "RUNNING" THEN Goes(a, "ended") /\ UNCHANGED <<activeCount, waiters>>
        ELSE IF activeCount[k] < MaxConcurrency
        THEN Goes(a, "granted") /\ activeCount' = [activeCount EXCEPT ![k] = @ + 1] /\ UNCHANGED waiters
        ELSE Goes(a, "queued") /\ waiters' = [waiters EXCEPT ![k] = Append(@, a)] /\ UNCHANGED activeCount
     /\ UNCHANGED <<still, aborted>>

\* A waiter that was resolved goes on, and does not look at the counter.
Resumes(a) ==
  /\ action[a] = "woken"
  /\ IF state[ControllerOf[a]] = "RUNNING"
     THEN Goes(a, "granted") /\ activeCount' = [activeCount EXCEPT ![ControllerOf[a]] = @ + 1]
     ELSE Goes(a, "ended") /\ UNCHANGED activeCount
  /\ UNCHANGED <<still, aborted, waiters>>

\* release, at the end of an action.
Leave(a) ==
  LET k == ControllerOf[a]
      wakes == state[k] = "RUNNING" /\ waiters[k] # <<>>
  IN /\ activeCount' = [activeCount EXCEPT ![k] = @ - 1]
     /\ IF wakes
        THEN action' = [action EXCEPT ![a] = "ended", ![Head(waiters[k])] = "woken"]
             /\ waiters' = [waiters EXCEPT ![k] = Tail(@)]
        ELSE Goes(a, "ended") /\ UNCHANGED waiters

\* Mutant: what was checked before the slot was had is not checked again.
EnterUnchecked(a) == /\ action[a] = "granted" /\ Goes(a, "driving")
                     /\ UNCHANGED <<still, aborted, activeCount, waiters>>
\* The action becomes a worker that a stop can reach, and looks whether one came before.
Enter(a) ==
  /\ action[a] = "granted"
  /\ IF state[ControllerOf[a]] = "RUNNING" THEN Goes(a, "entered") /\ UNCHANGED <<activeCount, waiters>>
                                           ELSE Leave(a)
  /\ UNCHANGED <<still, aborted>>

\* The latch is off: after the health, the address and an audit the driver is called.
Drive(a) ==
  /\ action[a] = "entered"
  /\ IF latch THEN Leave(a) ELSE Goes(a, "driving") /\ UNCHANGED <<activeCount, waiters>>
  /\ UNCHANGED <<still, aborted>>

\* The driver has returned, or something has thrown.
Finish(a) == action[a] = "driving" /\ Leave(a) /\ UNCHANGED <<still, aborted>>

-----------------------------------------------------------------------------
LvInit ==
  /\ latch = FALSE /\ clearing = FALSE /\ members = {} /\ leaving = {} /\ stops = 0 /\ restarts = 0
  /\ making = [k \in Controller |-> "new"] /\ state = [k \in Controller |-> "INITIALIZING"]
  /\ action = [a \in LiveAction |-> "new"] /\ aborted = {} /\ late = {}
  /\ activeCount = [k \in Controller |-> 0] /\ waiters = [k \in Controller |-> <<>>]

LvNext ==
  \/ StopAll \/ BeginRestart \/ EndRestart
  \/ \E k \in Controller :
       \/ Register(k) \/ AssertCanStart(k) \/ OpenRun(k) \/ OpenFails(k)
       \/ Unregister(k) \/ EndController(k)
  \/ \E a \in LiveAction :
       \/ Arrive(a) \/ TakeSlot(a) \/ Resumes(a) \/ Enter(a) \/ Drive(a) \/ Finish(a)

LvSpec == LvInit /\ [][LvNext]_lvVars

-----------------------------------------------------------------------------
LvTypeOK ==
  /\ latch \in BOOLEAN /\ clearing \in BOOLEAN
  /\ members \subseteq Controller /\ leaving \subseteq Controller /\ late \subseteq Controller
  /\ making \in [Controller -> {"new", "registered", "opening", "made"}]
  /\ state \in [Controller -> {"INITIALIZING", "RUNNING", "STOPPED", "ENDED"}]
  /\ action \in [LiveAction -> {"new", "arrived", "queued", "woken", "granted", "entered",
                                "driving", "ended"}]
  /\ aborted \subseteq LiveAction
  /\ activeCount \in [Controller -> Nat] /\ waiters \in [Controller -> Seq(LiveAction)]
  /\ stops \in 0..MaxStops /\ restarts \in 0..MaxRestarts

\* "Stop is durable: new actions are rejected, queued work is cancelled, active workers
\* receive an abort signal": while the switch is on, whatever drives has been told to stop
\* and nothing is queued, except under a controller that was stopped while it was created
\* and runs on all the same.
StopReachesAll ==
  latch => \A a \in LiveAction : /\ action[a] = "driving" => a \in aborted \/ ControllerOf[a] \in late
                                 /\ action[a] = "queued" => ControllerOf[a] \in late

\* An action is queued only behind others: each slot is held, or promised to a waiter that
\* goes on, so that somebody will wake it.
QueueIsServed ==
  \A k \in Controller :
    waiters[k] # <<>> =>
      activeCount[k] + Cardinality({a \in ActionsOf(k) : action[a] = "woken"}) >= MaxConcurrency
=============================================================================
