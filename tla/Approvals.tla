----------------------------- MODULE Approvals -----------------------------
(***************************************************************************)
(* Calls of tools that wait for a person's consent                         *)
(*   apps/server/src/approvals.ts                                          *)
(*   apps/server/src/routes/agent.ts (the routes that answer, the end of   *)
(*   a run and the client that leaves)                                     *)
(*   packages/tools/src/permissioned-executor.ts (execute)                 *)
(*                                                                         *)
(* A request ends by the first of a decision, its timer, and the closing   *)
(* of its run's connection.                                                *)
(***************************************************************************)
EXTENDS FiniteSets

CONSTANTS
  Run, Gated,    \* runs; calls whose tool needs consent
  RunOf,         \* the run of a call
  AutoApprove    \* single-operator mode

ASSUME RunOfAssumption == RunOf \in [Gated -> Run] /\ AutoApprove \in BOOLEAN

VARIABLES
  request,  \* a call is "new", "waiting", "approved", "denied", "run" or "failed"
  grants,   \* approveAllRuns
  client,   \* of a run: "here", or "left" once the connection is closed
  over,     \* runs whose route has come to its end
  \* history
  consent   \* calls that a person has answered with yes, alone or with their run

apVars == <<request, grants, client, over, consent>>

Of(r) == {c \in Gated : RunOf[c] = r}
Waiting(S) == {c \in S : request[c] = "waiting"}

\* The waiters of S are resolved and forgotten, their timers cleared.
Settle(S, answer) == request' = [c \in Gated |-> IF c \in Waiting(S) THEN answer ELSE request[c]]

\* The loop calls the tool, perhaps after its client has gone: the abort is seen later.
Ask(c) ==
  /\ request[c] = "new" /\ RunOf[c] \notin over
  /\ request' = [request EXCEPT ![c] = IF AutoApprove \/ RunOf[c] \in grants THEN "approved" ELSE "waiting"]
  /\ UNCHANGED <<grants, client, over, consent>>

\* POST /api/approvals/:id; the answer to a request that has ended changes nothing.
Decide(c, yes) ==
  /\ request[c] = "waiting"
  /\ Settle({c}, IF yes THEN "approved" ELSE "denied")
  /\ consent' = IF yes THEN consent \cup {c} ELSE consent
  /\ UNCHANGED <<grants, client, over>>

\* POST /api/approvals/run/:runId/approve-all, whether the run is known or not.
ApproveAll(r) ==
  /\ grants' = grants \cup {r}
  /\ Settle(Of(r), "approved")
  /\ consent' = consent \cup Of(r)
  /\ UNCHANGED <<client, over>>

\* Mutant: a call made after the client has left has no timer.
ExpireHere(c) == /\ request[c] = "waiting" /\ client[RunOf[c]] = "here" /\ Settle({c}, "denied")
                 /\ UNCHANGED <<grants, client, over, consent>>
\* The timer of a request.
Expire(c) == /\ request[c] = "waiting" /\ Settle({c}, "denied")
             /\ UNCHANGED <<grants, client, over, consent>>

\* What a person has allowed for later calls of a run ends with its connection.
Lapsed(r) == {c \in Of(r) : request[c] = "new"}

\* Mutant: the grant for the run's later calls outlives its connection.
CloseKeepsGrant(r) ==
  /\ client[r] = "here" /\ client' = [client EXCEPT ![r] = "left"]
  /\ Settle(Of(r), "denied")
  /\ consent' = consent \ Lapsed(r)
  /\ UNCHANGED <<grants, over>>
\* The connection is closed, by the client or after the answer: cancelRun.
Close(r) ==
  /\ client[r] = "here" /\ client' = [client EXCEPT ![r] = "left"]
  /\ Settle(Of(r), "denied")
  /\ grants' = grants \ {r}
  /\ consent' = consent \ Lapsed(r)
  /\ UNCHANGED over

\* An approved call is recorded and run; it does not run when it cannot be recorded.
Execute(c) ==
  /\ request[c] = "approved"
  /\ \E how \in {"run", "failed"} : request' = [request EXCEPT ![c] = how]
  /\ UNCHANGED <<grants, client, over, consent>>

\* The route's end, when no call of the run is under way: clearRun.
EndRun(r) ==
  /\ r \notin over /\ \A c \in Of(r) : request[c] \notin {"waiting", "approved"}
  /\ over' = over \cup {r} /\ grants' = grants \ {r}
  /\ UNCHANGED <<request, client, consent>>

ApInit == /\ request = [c \in Gated |-> "new"] /\ client = [r \in Run |-> "here"]
          /\ grants = {} /\ over = {} /\ consent = {}

ApNext == \/ \E c \in Gated : Ask(c) \/ Expire(c) \/ Execute(c)
          \/ \E c \in Gated, yes \in BOOLEAN : Decide(c, yes)
          \/ \E r \in Run : ApproveAll(r) \/ Close(r) \/ EndRun(r)

ApSpec == ApInit /\ [][ApNext]_apVars

\* A timer fires.
ApFairness == \A c \in Gated : WF_apVars(Expire(c))

-----------------------------------------------------------------------------
ApTypeOK ==
  /\ request \in [Gated -> {"new", "waiting", "approved", "denied", "run", "failed"}]
  /\ client \in [Run -> {"here", "left"}]
  /\ grants \subseteq Run /\ over \subseteq Run /\ consent \subseteq Gated

\* "Approval is only ever granted by an explicit decision": a call that needed consent was
\* run only if a person said yes to it, or to its run while the connection stood, whichever
\* of the click, the timer and the closing came first; silence and a connection that is lost
\* are no answer.
OnlyConsentedRun ==
  ~AutoApprove => \A c \in Gated : request[c] \in {"approved", "run"} => c \in consent

\* No request is left open for ever.
EveryRequestSettles == \A c \in Gated : []<>(request[c] # "waiting")
=============================================================================
