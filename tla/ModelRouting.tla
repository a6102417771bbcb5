---------------------------- MODULE ModelRouting ----------------------------
(***************************************************************************)
(* Which instance serves a request for a model                             *)
(*   packages/providers/src/gpu-availability.ts                            *)
(*   packages/providers/src/provider-registry.ts                           *)
(*                                                                         *)
(* An alias is a model on one instance; aliases of a local and a GPU       *)
(* instance pair by name.  Which aliases the pod serves is asked by one    *)
(* probe at a time, whose answer all who wait for it share, and which is   *)
(* kept for Ttl.  Whether a model can call tools is what its test, or the  *)
(* store of earlier tests, says: any answer here.  An instant is no less   *)
(* than the limit of a look at the control plane.                          *)
(***************************************************************************)
EXTENDS Integers

CONSTANTS
  Asker,                        \* requests for a model
  Ttl,                          \* how long an answer of the probe is used
  Policies, Placements, Powered, \* configurations: policies, alias -> instance, instances that are enabled
  Installed                     \* aliases whose model a pod may have by that name, wherever they are

Alias    == {"coder", "gpu_coder", "coder_local"}
Instance == {"local", "gpu", "paid"}  \* one of each usage class
Unasked  == "row"                     \* a row of a task from before there were aliases

ASSUME RoutingAssumption ==
  /\ Ttl \in Nat \ {0}
  /\ Placements \subseteq [Alias -> Instance]
  /\ Installed \subseteq Alias
  /\ Powered \subseteq {P \in SUBSET Instance : "local" \in P}

VARIABLES
  setup,   \* the configuration, fixed when the server starts
  probing, \* the probe is "none", or at the "account", "asking", "repairing", "again", "settling"
  found,   \* the aliases that its answer says are served
  cache,   \* cached: [known, serves]
  age,     \* the time since cachedAt
  asked,   \* the requests
  \* history
  quiet    \* for how long the pod has not said that it serves an alias

roVars == <<setup, probing, found, cache, age, asked, quiet>>

Options == {o \in [tools : BOOLEAN, explicit : BOOLEAN, preferLocal : BOOLEAN] : ~(o.tools /\ o.preferLocal)}
Plain   == [tools |-> FALSE, explicit |-> FALSE, preferLocal |-> FALSE]
Idle    == [at |-> "none", alias |-> Unasked, home |-> "local", via |-> Unasked, on |-> "local", opts |-> Plain,
            heard |-> 0]

Cap(n, top) == IF n < top THEN n ELSE top
HostOf(a)   == setup.place[a]
Offered(a)  == HostOf(a) \in setup.on   \* disableAliasesOnInactiveProviders

-----------------------------------------------------------------------------
(* Counterparts across the boundary, and what the policy allows. *)

\* Mutant: any alias of that name will do.
GpuTwinAnywhere(a) == {b \in Alias : a = "coder" /\ b = "gpu_coder" /\ Offered(b)}
GpuTwin(a) == {b \in Alias : a = "coder" /\ b = "gpu_coder" /\ Offered(b) /\ HostOf(b) = "gpu"}
LocalTwin(a) ==
  {b \in Alias : /\ <<a, b>> \in {<<"gpu_coder", "coder">>, <<"coder", "coder_local">>}
                 /\ Offered(b) /\ HostOf(b) = "local"}

\* assertPolicyAllows
Allowed(host, o) ==
  \/ host = "local"
  \/ setup.policy = "gpu-preferred" /\ (host = "gpu" \/ o.explicit)
  \/ setup.policy = "manual-provider-selection" /\ o.explicit
  \/ setup.policy \notin {"local-only", "gpu-preferred", "manual-provider-selection"}

\* Those of applyGpuPreference that ask whether the pod serves.
NeedsAnswer(a, o) ==
  /\ Offered(a) /\ ~o.preferLocal
  /\ \/ HostOf(a) = "gpu"
     \/ HostOf(a) = "local" /\ setup.policy = "gpu-preferred" /\ GpuTwin(a) # {}

\* The alias that serves, given the aliases that the pod serves.
Preferred(a, o, serves) ==
  IF ~NeedsAnswer(a, o) THEN a
  ELSE LET up   == GpuTwin(a) \cap serves
           down == IF a \in serves THEN {} ELSE LocalTwin(a)
           across == IF HostOf(a) = "gpu" THEN down ELSE up
       IN  IF across = {} THEN a ELSE CHOOSE b \in across : TRUE

\* resolveAlias as far as the test of the model: the policy, then getCapabilities.
Routed(a, o, serves) ==
  LET b == Preferred(a, o, serves) IN
    [at |-> IF Offered(b) /\ Allowed(HostOf(b), o) THEN "tested" ELSE "refused",
     alias |-> a, home |-> HostOf(a), via |-> b, on |-> HostOf(b), opts |-> o,
     heard |-> IF HostOf(b) = "gpu" THEN quiet[b] ELSE 0]

Fresh == cache.known /\ age < Ttl

-----------------------------------------------------------------------------
(* Requests. *)

\* Nobody asks while an answer is on its way; an instance that is not configured is not asked.
StartProbe ==
  /\ probing' = IF probing # "none" THEN probing ELSE IF "gpu" \in setup.on THEN "account" ELSE "settling"
  /\ found' = IF probing = "none" THEN {} ELSE found

AskFor(c, a, o) ==
  /\ asked[c].at \in {"none", "served", "refused"}
  /\ IF NeedsAnswer(a, o) /\ ~Fresh
     THEN /\ asked' = [asked EXCEPT ![c] = [Idle EXCEPT !.at = "waits", !.alias = a, !.home = HostOf(a), !.opts = o]]
          /\ StartProbe
     ELSE /\ asked' = [asked EXCEPT ![c] = Routed(a, o, cache.serves)]
          /\ UNCHANGED <<probing, found>>
  /\ UNCHANGED <<setup, cache, age, quiet>>

\* resolveTaskModel of a row without an alias; an instance that is not configured has one of its own to
\* fall back to, if it is the GPU's.
AskForRow(c, i) ==
  /\ asked[c].at \in {"none", "served", "refused"}
  /\ LET o    == [Plain EXCEPT !.tools = TRUE]
         on   == IF i \in setup.on THEN i ELSE "local"
         into == /\ Allowed(i, o)
                 /\ i \in setup.on \/ (i = "gpu" /\ setup.policy # "manual-provider-selection")
     IN  asked' = [asked EXCEPT ![c] = [at |-> IF into THEN "tested" ELSE "refused", alias |-> Unasked,
                                        home |-> i, via |-> Unasked, on |-> on, opts |-> o, heard |-> 0]]
  /\ UNCHANGED <<setup, probing, found, cache, age, quiet>>

\* The local alias that serves when a model of the pod cannot call tools.
Stand(r) ==
  IF r.alias = Unasked \/ r.on # "gpu" THEN {}
  ELSE IF LocalTwin(r.via) # {} THEN LocalTwin(r.via) ELSE {r.alias} \ {r.via}

\* The model can be used, or it cannot call tools as this request must.
Test(c, able) ==
  LET r == asked[c] IN
  /\ r.at = "tested"
  /\ asked' = [asked EXCEPT ![c] =
       IF able \/ ~r.opts.tools THEN [r EXCEPT !.at = "served"]
       ELSE IF Stand(r) = {} THEN [r EXCEPT !.at = "refused"]
       ELSE [r EXCEPT !.via = CHOOSE b \in Stand(r) : TRUE, !.on = "local", !.opts.preferLocal = TRUE, !.heard = 0]]
  /\ UNCHANGED <<setup, probing, found, cache, age, quiet>>

-----------------------------------------------------------------------------
(* The probe. *)

\* The start of the server, and a look at the routing that asks for a new answer.
Look == /\ probing = "none" /\ StartProbe
        /\ UNCHANGED <<setup, cache, age, asked, quiet>>

\* podPresence: an account without credit is answered at once.
Account(funded) ==
  /\ probing = "account" /\ probing' = IF funded THEN "asking" ELSE "settling"
  /\ UNCHANGED <<setup, found, cache, age, asked, quiet>>

\* fetchModels answers with the names of models that are installed.
Hear(S) ==
  /\ probing \in {"asking", "again"} /\ probing' = "settling" /\ found' = S
  /\ quiet' = [a \in Alias |-> IF a \in S THEN 0 ELSE quiet[a]]
  /\ UNCHANGED <<setup, cache, age, asked>>

\* fetchModels gets no answer; under gpu-preferred a pod that runs, or may run, is repaired once.
Miss(running) ==
  /\ \/ probing = "asking" /\ probing' = IF setup.policy = "gpu-preferred" /\ running THEN "repairing" ELSE "settling"
     \/ probing = "again" /\ probing' = "settling"
  /\ UNCHANGED <<setup, found, cache, age, asked, quiet>>

\* recoverEndpoint, whether it succeeds or fails.
Repair ==
  /\ probing = "repairing" /\ probing' = "again"
  /\ UNCHANGED <<setup, found, cache, age, asked, quiet>>

\* The answer is kept, and all who wait go on with it.
SettleProbe ==
  /\ probing = "settling" /\ probing' = "none"
  /\ cache' = [known |-> TRUE, serves |-> found] /\ age' = 0 /\ found' = {}
  /\ asked' = [c \in Asker |-> IF asked[c].at = "waits" THEN Routed(asked[c].alias, asked[c].opts, found) ELSE asked[c]]
  /\ UNCHANGED <<setup, quiet>>

\* Between an answer and its settling lies one look at the control plane.
Pass ==
  /\ probing = "settling" => \A a \in found : quiet[a] = 0
  /\ age' = Cap(age + 1, Ttl) /\ quiet' = [a \in Alias |-> Cap(quiet[a] + 1, Ttl + 1)]
  /\ UNCHANGED <<setup, probing, found, cache, asked>>

-----------------------------------------------------------------------------
RoInit ==
  /\ setup \in [policy : Policies, place : Placements, on : Powered]
  /\ probing = "none" /\ found = {} /\ cache = [known |-> FALSE, serves |-> {}] /\ age = 0
  /\ asked = [c \in Asker |-> Idle]
  /\ quiet = [a \in Alias |-> Ttl + 1]

ProbeStep == \/ \E yes \in BOOLEAN : Account(yes) \/ Miss(yes)
             \/ \E S \in SUBSET Installed : Hear(S)
             \/ Repair \/ SettleProbe

RoNext ==
  \/ \E c \in Asker, a \in Alias, o \in Options : AskFor(c, a, o)
  \/ \E c \in Asker, i \in Instance : AskForRow(c, i)
  \/ \E c \in Asker, able \in BOOLEAN : Test(c, able)
  \/ Look \/ ProbeStep \/ Pass

RoSpec == RoInit /\ [][RoNext]_roVars

\* Every call of the probe has its limit.
RoFairness == WF_roVars(ProbeStep)

-----------------------------------------------------------------------------
Request == [at : {"none", "waits", "tested", "served", "refused"}, alias : Alias \cup {Unasked}, home : Instance,
            via : Alias \cup {Unasked}, on : Instance,
            opts : [tools : BOOLEAN, explicit : BOOLEAN, preferLocal : BOOLEAN], heard : 0..Ttl + 1]

RoTypeOK ==
  /\ setup \in [policy : Policies, place : Placements, on : Powered]
  /\ probing \in {"none", "account", "asking", "repairing", "again", "settling"}
  /\ found \subseteq Installed /\ cache \in [known : BOOLEAN, serves : SUBSET Installed] /\ age \in 0..Ttl
  /\ asked \in [Asker -> Request] /\ quiet \in [Alias -> 0..Ttl + 1]

\* "A local request is never silently promoted to a remote or paid provider", and "preferring
\* the GPU never becomes API spend": a paid model serves only who asked for it, and with
\* consent where the policy wants it; the pod serves a local alias only under gpu-preferred,
\* and never work that is to stay here.  Whatever the names of aliases, the fall-backs, and
\* whoever's probe gave the answer.
KeptToItsHost(r) ==
  /\ r.on # "local" => setup.policy # "local-only"
  /\ r.on = "paid"  => r.home = "paid" /\ (setup.policy \in {"gpu-preferred", "manual-provider-selection"} => r.opts.explicit)
  /\ r.on = "gpu"   => \/ r.home = "gpu" /\ (setup.policy = "manual-provider-selection" => r.opts.explicit)
                       \/ r.home = "local" /\ setup.policy = "gpu-preferred" /\ ~r.opts.preferLocal

\* "Is the GPU usable right now": who could have been served here goes to the pod only if it
\* said, within the time an answer is kept, that it serves the alias.
GoneToAnswering(r) ==
  (r.on = "gpu" /\ r.alias # Unasked /\ ~r.opts.preferLocal /\ (r.via # r.alias \/ LocalTwin(r.alias) # {}))
    => r.heard <= Ttl

RunsWhereItMay == \A c \in Asker : asked[c].at \in {"tested", "served"} =>
                    KeptToItsHost(asked[c]) /\ GoneToAnswering(asked[c])

\* Who waits for the probe, one's own or another's, is routed.
EveryAskerRouted == \A c \in Asker : []<>(asked[c].at # "waits")
=============================================================================
