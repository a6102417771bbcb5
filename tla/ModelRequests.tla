--------------------------- MODULE ModelRequests ---------------------------
(***************************************************************************)
(* Requests to models: the server's slots, and participants that run side  *)
(* by side                                                                 *)
(*   packages/providers/src/model-request-semaphore.ts                     *)
(*   apps/server/src/model-provider-limit.ts                               *)
(*   apps/server/src/parallel-model-executor.ts                            *)
(*                                                                         *)
(* JavaScript runs one of them at a time up to its next await.  A waiter   *)
(* that is resolved goes on later; until then its slot is not counted, and *)
(* others may take it.                                                     *)
(***************************************************************************)
EXTENDS Integers, Sequences, FiniteSets

CONSTANTS
  Reader, Writer,  \* the participants of a parallel run; Writer is a set of at most one
  Other,           \* requests of other runs and routes
  MaxSlots,        \* MAX_CONCURRENT_MODEL_REQUESTS
  MaxAsks          \* bound: requests of one client

ASSUME SlotAssumption == {MaxSlots, MaxAsks} \subseteq Nat \ {0}

Client == Reader \cup Writer \cup Other
ASSUME ClientAssumption == IsFiniteSet(Client)

VARIABLES
  at,      \* a client is "idle", "asking", "queued", "woken", "active", "tools" or "settled"
  line,    \* the semaphore's queue
  inUse,   \* its counter
  asks,    \* bound: requests made so far
  \* history
  overtaken \* how often a request took a slot that was meant for a woken one

mrVars == <<at, line, inUse, asks, overtaken>>

Is(s) == {c \in Client : at[c] = s}
Settled == \A r \in Reader : at[r] = "settled"

\* Readers start together; the writer when all of them have settled.
Start(c) ==
  /\ at[c] = "idle" /\ (c \in Writer => Settled)
  /\ at' = [at EXCEPT ![c] = "asking"]
  /\ UNCHANGED <<line, inUse, asks, overtaken>>

\* chat: acquire, without a queue while a slot is free.
Acquire(c) ==
  /\ at[c] = "asking"
  /\ asks' = [asks EXCEPT ![c] = @ + 1]
  /\ IF inUse < MaxSlots
     THEN /\ at' = [at EXCEPT ![c] = "active"] /\ inUse' = inUse + 1
          /\ overtaken' = IF Is("woken") = {} THEN overtaken ELSE overtaken + 1
          /\ UNCHANGED line
     ELSE /\ at' = [at EXCEPT ![c] = "queued"] /\ line' = Append(line, c)
          /\ UNCHANGED <<inUse, overtaken>>

\* A woken waiter takes its slot, whatever has happened since.
GoOn(c) == /\ at[c] = "woken"
           /\ at' = [at EXCEPT ![c] = "active"] /\ inUse' = inUse + 1
           /\ UNCHANGED <<line, asks, overtaken>>

\* Mutant: everybody who waits is woken.
ReleaseAll(c) ==
  /\ at[c] = "active" /\ inUse' = inUse - 1 /\ line' = <<>>
  /\ at' = [d \in Client |-> IF d = c THEN "tools" ELSE IF at[d] = "queued" THEN "woken" ELSE at[d]]
  /\ UNCHANGED <<asks, overtaken>>
\* Mutant: a request that has failed gives its slot back and wakes nobody.
ReleaseOrFail(c) ==
  /\ at[c] = "active" /\ inUse' = inUse - 1
  /\ \/ at' = [at EXCEPT ![c] = "tools"] /\ UNCHANGED line
     \/ /\ line # <<>> /\ line' = Tail(line)
        /\ at' = [at EXCEPT ![c] = "tools", ![Head(line)] = "woken"]
  /\ UNCHANGED <<asks, overtaken>>
\* The request has been answered or has failed: the slot is given back, one waiter woken.
Release(c) ==
  /\ at[c] = "active" /\ inUse' = inUse - 1
  /\ IF line = <<>> THEN at' = [at EXCEPT ![c] = "tools"] /\ UNCHANGED line
     ELSE at' = [at EXCEPT ![c] = "tools", ![Head(line)] = "woken"] /\ line' = Tail(line)
  /\ UNCHANGED <<asks, overtaken>>

\* The answer's tools have run: the next turn, or the end, as a result or as an error.
Turn(c) == /\ at[c] = "tools"
           /\ \/ at' = [at EXCEPT ![c] = "settled"]
              \/ asks[c] < MaxAsks /\ at' = [at EXCEPT ![c] = "asking"]
           /\ UNCHANGED <<line, inUse, asks, overtaken>>

MrInit == /\ at = [c \in Client |-> "idle"] /\ asks = [c \in Client |-> 0]
          /\ line = <<>> /\ inUse = 0 /\ overtaken = 0

MrNext == \E c \in Client : Start(c) \/ Acquire(c) \/ GoOn(c) \/ Release(c) \/ Turn(c)

MrSpec == MrInit /\ [][MrNext]_mrVars

\* Promises are taken up, and requests carry the timeouts of their provider.
MrFairness == \A c \in Client : WF_mrVars(GoOn(c)) /\ WF_mrVars(Release(c))

-----------------------------------------------------------------------------
MrTypeOK ==
  /\ at \in [Client -> {"idle", "asking", "queued", "woken", "active", "tools", "settled"}]
  /\ \A i \in 1..Len(line) : at[line[i]] = "queued"
  /\ inUse \in Nat /\ asks \in [Client -> 0..MaxAsks] /\ overtaken \in Nat

\* The limit is passed only by requests that came between the waking of a waiter and its
\* next step: the slots in use or promised are never more than the limit and these.
OverrunIsOvertaking == inUse + Cardinality(Is("woken")) <= MaxSlots + overtaken

\* Nobody queues beside a free slot: while somebody waits, all slots are in use or promised to
\* those who were woken, however often these are overtaken, so a waking is never lost.
NoSlotIsIdle == line # <<>> => inUse + Cardinality(Is("woken")) >= MaxSlots

\* "Two participants can never mutate the shared worktree simultaneously": the writer works
\* only when every reader has settled, by a result or by an error.
WriterIsAlone == \A w \in Writer : at[w] # "idle" => Settled

\* Nobody waits for a slot for ever.
EveryRequestServed == \A c \in Client : []<>(at[c] \notin {"queued", "woken"})
=============================================================================
