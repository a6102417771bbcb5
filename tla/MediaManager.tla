---------------------------- MODULE MediaManager ----------------------------
(***************************************************************************)
(* The supervisor of the media service on a rented pod                     *)
(*   apps/server/src/infrastructure/runpod-media-manager.ts                *)
(*                                                                         *)
(* An initialization goes from await to await; the monitor's timer and     *)
(* requests of users begin one, and there is never a second beside it.     *)
(* The monitor itself looks at the service while one may begin.  A tunnel  *)
(* is a process of its own: a signal asks it to end, and its exit event    *)
(* comes later.  Transport ssh-tunnel, with a pod that may be started.     *)
(***************************************************************************)
EXTENDS Integers, FiniteSets

CONSTANTS
  Tunnel,                                \* processes; an id is used again after its exit
  MaxPodStops, MaxOutages, MaxReconnects \* bounds: of the pod, of calls that fail, of users

ASSUME BoundAssumption == {MaxPodStops, MaxOutages, MaxReconnects} \subseteq Nat

VARIABLES
  pod, service,    \* "off", "starting", "on"; the service on it is "down", "loading" or "serving"
  ssh,             \* a tunnel process is "gone", "connecting", "open" or "killed"
  link,            \* this.tunnel: {} or one process
  stage,           \* where an initialization waits, or "none"
  looking,         \* does monitorOnce wait for the health?
  startRequested, stopped, ready,
  podStops, outages, reconnects,         \* bounds: what has been used
  \* history
  erased           \* tunnels that an older tunnel's exit removed from this.tunnel

world == <<pod, service, podStops>>
procs == <<ssh, link, erased>>
flags == <<startRequested, stopped, ready>>
mmVars == <<world, procs, flags, stage, looking, outages, reconnects>>

Running == {t \in Tunnel : ssh[t] \in {"connecting", "open"}}
\* What a request for the health answers, unless it fails.
Healthy == pod = "on" /\ service # "down" /\ \E t \in Tunnel : ssh[t] = "open"

Outage == outages < MaxOutages /\ outages' = outages + 1
Works  == UNCHANGED outages

-----------------------------------------------------------------------------
(* The pod, the service and the processes: outside the program. *)

PodStarts == /\ pod = "starting" /\ pod' = "on"
             /\ UNCHANGED <<service, podStops, procs, flags, stage, looking, outages, reconnects>>
PodStops == /\ pod # "off" /\ podStops < MaxPodStops /\ podStops' = podStops + 1
            /\ pod' = "off" /\ service' = "down"
            /\ UNCHANGED <<procs, flags, stage, looking, outages, reconnects>>
ModelsLoad == /\ service = "loading" /\ service' = "serving"
              /\ UNCHANGED <<pod, podStops, procs, flags, stage, looking, outages, reconnects>>

\* The local port is bound by one process at a time (ExitOnForwardFailure).
PortTaken(t) == \E u \in Tunnel \ {t} : ssh[u] \in {"open", "killed"}
Connects(t) == /\ ssh[t] = "connecting" /\ pod = "on" /\ ~PortTaken(t)
               /\ ssh' = [ssh EXCEPT ![t] = "open"]
               /\ UNCHANGED <<world, link, erased, flags, stage, looking, outages, reconnects>>

\* A process is gone.  The listener clears this.tunnel, whichever process that is.
Exits(t) ==
  /\ ssh' = [ssh EXCEPT ![t] = "gone"]
  /\ link' = {} /\ erased' = (erased \cup link) \ {t}
  /\ UNCHANGED <<world, flags, stage, looking, reconnects>>

\* It was told to end, it cannot connect, or its peer no longer answers; or it drops.
Ends(t) ==
  /\ \/ ssh[t] = "killed"
     \/ ssh[t] = "connecting" /\ (pod # "on" \/ PortTaken(t))
     \/ ssh[t] = "open" /\ pod # "on"
  /\ Exits(t) /\ Works
Drops(t) == ssh[t] = "open" /\ Exits(t) /\ Outage

-----------------------------------------------------------------------------
(* initializeOnce. *)

\* initialize: joined if there is one, refused after a stop.
Initialize == stage' = IF stage = "none" /\ ~stopped THEN "endpoint" ELSE stage

\* initialize's catch and finally.
Fails == stage' = "none" /\ ready' = FALSE /\ UNCHANGED <<startRequested, stopped>>
Proceeds(to) == stage' = to /\ UNCHANGED flags

\* runningEndpoint, up to the request that starts the pod.
FindEndpoint ==
  /\ stage = "endpoint"
  /\ \/ Proceeds(IF pod = "on" THEN "ssh" ELSE IF startRequested THEN "waiting" ELSE "starting") /\ Works
     \/ Fails /\ Outage
  /\ UNCHANGED <<world, procs, looking, reconnects>>

StartPod ==
  /\ stage = "starting"
  /\ \/ /\ pod' = IF pod = "off" THEN "starting" ELSE pod
        /\ startRequested' = TRUE /\ stage' = "waiting" /\ Works
        /\ UNCHANGED <<stopped, ready>>
     \/ Fails /\ Outage /\ UNCHANGED pod
  /\ UNCHANGED <<service, podStops, procs, looking, reconnects>>

\* The polls for the endpoint, and for ssh: given up after a number of them, or after a stop.
AwaitPod ==
  /\ stage \in {"waiting", "ssh"}
  /\ \/ pod = "on" /\ Proceeds(IF stage = "waiting" THEN "ssh" ELSE "service") /\ Works
     \/ (pod # "on" \/ stopped) /\ Fails /\ Works
     \/ Fails /\ Outage
  /\ UNCHANGED <<world, procs, looking, reconnects>>

\* run-media.sh is started unless it runs.
RestoreService ==
  /\ stage = "service"
  /\ \/ pod = "on" /\ service' = (IF service = "down" THEN "loading" ELSE service) /\ Proceeds("tunnel") /\ Works
     \/ pod # "on" /\ Fails /\ UNCHANGED service /\ Works
     \/ Fails /\ Outage /\ UNCHANGED service
  /\ UNCHANGED <<pod, podStops, procs, looking, reconnects>>

\* Signals to this.tunnel, and a new process in its place.
Killed == [t \in Tunnel |-> IF t \in link THEN "killed" ELSE ssh[t]]
Kill == ssh' = Killed /\ link' = {} /\ UNCHANGED erased

\* Mutant: the loop after the spawn does not look for a stop before its first poll is over.
SpawnAfterStop ==
  /\ stage = "tunnel" /\ Works
  /\ \/ Healthy /\ Proceeds("models") /\ UNCHANGED procs
     \/ /\ ~Healthy
        /\ \E t \in Tunnel :
             /\ ssh[t] = "gone" /\ ssh' = [Killed EXCEPT ![t] = "connecting"] /\ link' = {t}
             /\ UNCHANGED erased
        /\ IF stopped THEN Fails ELSE Proceeds("polling")
  /\ UNCHANGED <<world, looking, reconnects>>
\* ensureTunnel: what answers already is used, something else replaced.  After a stop the
\* new process is told to end at once.
EnsureTunnel ==
  /\ stage = "tunnel"
  /\ \/ Healthy /\ Proceeds("models") /\ UNCHANGED procs /\ Works
     \/ /\ IF Healthy THEN Outage ELSE Works
        /\ \E t \in Tunnel :
             /\ ssh[t] = "gone"
             /\ ssh' = [Killed EXCEPT ![t] = IF stopped THEN "killed" ELSE "connecting"]
             /\ link' = IF stopped THEN {} ELSE {t}
             /\ UNCHANGED erased
        /\ IF stopped THEN Fails ELSE Proceeds("polling")
  /\ UNCHANGED <<world, looking, reconnects>>

\* Its polls.  A process that still connects has the time it needs, but for an outage.
PollTunnel ==
  /\ stage = "polling"
  /\ \/ Healthy /\ Proceeds("models") /\ UNCHANGED procs /\ Works
     \/ /\ ~Healthy /\ Fails /\ Kill
        /\ IF ~stopped /\ \E t \in link : ssh[t] = "connecting" THEN Outage ELSE Works
  /\ UNCHANGED <<world, looking, reconnects>>

\* waitForConfiguredModels: given up while they still load; the tunnel is left.
AwaitModels ==
  /\ stage = "models"
  /\ \/ /\ Healthy /\ service = "serving"
        /\ ready' = TRUE /\ startRequested' = FALSE /\ stage' = "none" /\ UNCHANGED stopped
     \/ ~(Healthy /\ service = "serving") /\ Fails
  /\ UNCHANGED <<world, procs, looking, outages, reconnects>>

-----------------------------------------------------------------------------
(* The monitor, users, and stop. *)

\* monitorOnce, up to its request for the health.
MonitorTick ==
  /\ ~looking /\ stage = "none" /\ ~stopped
  /\ looking' = TRUE
  /\ UNCHANGED <<world, procs, flags, stage, outages, reconnects>>

\* Mutant: only a connection it holds is restored.
RestoreHeld ==
  /\ looking /\ looking' = FALSE /\ Works
  /\ IF Healthy /\ service = "serving"
     THEN ready' = TRUE /\ UNCHANGED <<stage, ssh, link, erased>>
     ELSE /\ ready' = FALSE /\ Kill
          /\ IF link # {} THEN Initialize ELSE UNCHANGED stage
  /\ UNCHANGED <<world, startRequested, stopped, reconnects>>
\* The rest of it: an initialization may have begun meanwhile, whose tunnel is then killed.
MonitorOnce ==
  /\ looking /\ looking' = FALSE
  /\ \/ Healthy /\ service = "serving" /\ ready' = TRUE /\ UNCHANGED <<stage, ssh, link, erased>> /\ Works
     \/ /\ IF Healthy /\ service = "serving" THEN Outage ELSE Works
        /\ ready' = FALSE /\ Kill /\ Initialize
  /\ UNCHANGED <<world, startRequested, stopped, reconnects>>

\* The reconnect route, and images or videos that are asked for.
Reconnect ==
  /\ reconnects < MaxReconnects /\ reconnects' = reconnects + 1
  /\ Initialize
  /\ UNCHANGED <<world, procs, flags, looking, outages>>

StopManager ==
  /\ ~stopped /\ stopped' = TRUE
  /\ Kill
  /\ UNCHANGED <<world, startRequested, ready, stage, looking, outages, reconnects>>

-----------------------------------------------------------------------------
\* start begins the first initialization and the timer.
MmInit ==
  /\ pod \in {"off", "on"} /\ service = "down"
  /\ ssh = [t \in Tunnel |-> "gone"] /\ link = {} /\ erased = {}
  /\ stage = "endpoint" /\ looking = FALSE
  /\ startRequested = FALSE /\ stopped = FALSE /\ ready = FALSE
  /\ podStops = 0 /\ outages = 0 /\ reconnects = 0

Initialization == \/ FindEndpoint \/ StartPod \/ AwaitPod \/ RestoreService
                  \/ EnsureTunnel \/ PollTunnel \/ AwaitModels

MmNext ==
  \/ PodStarts \/ PodStops \/ ModelsLoad \/ Initialization
  \/ MonitorTick \/ MonitorOnce \/ Reconnect \/ StopManager
  \/ \E t \in Tunnel : Connects(t) \/ Ends(t) \/ Drops(t)

MmSpec == MmInit /\ [][MmNext]_mmVars

\* Awaits settle, the timer keeps firing, a pod that was asked for starts, models load, and
\* a process connects or ends.
MmFairness ==
  /\ WF_mmVars(Initialization) /\ WF_mmVars(MonitorTick) /\ WF_mmVars(MonitorOnce)
  /\ WF_mmVars(PodStarts) /\ WF_mmVars(ModelsLoad)
  /\ \A t \in Tunnel : WF_mmVars(Connects(t) \/ Ends(t))

-----------------------------------------------------------------------------
MmTypeOK ==
  /\ pod \in {"off", "starting", "on"} /\ service \in {"down", "loading", "serving"}
  /\ ssh \in [Tunnel -> {"gone", "connecting", "open", "killed"}]
  /\ link \subseteq Running /\ Cardinality(link) <= 1 /\ erased \subseteq Running
  /\ stage \in {"none", "endpoint", "starting", "waiting", "ssh", "service", "tunnel",
                "polling", "models"}
  /\ {looking, startRequested, stopped, ready} \subseteq BOOLEAN
  /\ podStops \in 0..MaxPodStops /\ outages \in 0..MaxOutages /\ reconnects \in 0..MaxReconnects

\* "The server supervises the full media connection ... and reconnects if the tunnel drops":
\* whatever fails, the service is ready in the end and stays so, unless the manager is
\* stopped, or the pod is off and the note that it was asked for has outlived its start.
Reconnects ==
  <>[](~stopped /\ (pod # "off" \/ ~startRequested)) => <>[]ready

\* stop leaves no tunnel behind that nobody will end, whatever was under way: a process that
\* runs on is one that an older one's exit event made the manager forget.
StopEndsTunnels == stopped => Running \subseteq erased
=============================================================================
