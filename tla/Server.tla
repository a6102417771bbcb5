------------------------------- MODULE Server -------------------------------
(* The parts of the server that share neither state nor messages in the    *)
(* models, side by side: each behaviour is one of one part, chosen at the  *)
(* start (their product would multiply the states and show nothing more).  *)
EXTENDS MutationTransaction, WorkingState, Approvals, ModelRequests, LiveValidation, MediaManager, IndexRefresh, ModelRouting

CONSTANT Part \* the parts that may be chosen

ASSUME PartAssumption == Part \subseteq {"tx", "ws", "ap", "mr", "lv", "mm", "ix", "ro"}

VARIABLE part

serverVars == <<part, txVars, wsVars, apVars, mrVars, lvVars, mmVars, ixVars, roVars>>

\* Elsewhere the manager of media has been stopped before it began.
MmOff == /\ pod = "off" /\ service = "down" /\ ssh = [t \in Tunnel |-> "gone"] /\ link = {} /\ erased = {}
         /\ stage = "none" /\ looking = FALSE /\ startRequested = FALSE /\ stopped = TRUE /\ ready = FALSE
         /\ podStops = 0 /\ outages = 0 /\ reconnects = 0

\* Elsewhere one configuration is enough.
SomeSetup == CHOOSE x \in [policy : Policies, place : Placements, on : Powered] : TRUE

Init == /\ part \in Part /\ TxInit /\ WsInit /\ ApInit /\ MrInit /\ LvInit
        /\ IF part = "mm" THEN MmInit ELSE MmOff
        /\ IxInit /\ (part # "ix" => disk = [p \in Source |-> Gone])
        /\ RoInit /\ (part # "ro" => setup = SomeSetup)

TxStep == part = "tx" /\ TxNext /\ UNCHANGED <<part, wsVars, apVars, mrVars, lvVars, mmVars, ixVars, roVars>>
WsStep == part = "ws" /\ WsNext /\ UNCHANGED <<part, txVars, apVars, mrVars, lvVars, mmVars, ixVars, roVars>>
ApStep == part = "ap" /\ ApNext /\ UNCHANGED <<part, txVars, wsVars, mrVars, lvVars, mmVars, ixVars, roVars>>
MrStep == part = "mr" /\ MrNext /\ UNCHANGED <<part, txVars, wsVars, apVars, lvVars, mmVars, ixVars, roVars>>
LvStep == part = "lv" /\ LvNext /\ UNCHANGED <<part, txVars, wsVars, apVars, mrVars, mmVars, ixVars, roVars>>

MmStep == part = "mm" /\ MmNext /\ UNCHANGED <<part, txVars, wsVars, apVars, mrVars, lvVars, ixVars, roVars>>
IxStep == part = "ix" /\ IxNext /\ UNCHANGED <<part, txVars, wsVars, apVars, mrVars, lvVars, mmVars, roVars>>
RoStep == part = "ro" /\ RoNext /\ UNCHANGED <<part, txVars, wsVars, apVars, mrVars, lvVars, mmVars, ixVars>>

Next == TxStep \/ WsStep \/ ApStep \/ MrStep \/ LvStep \/ MmStep \/ IxStep \/ RoStep

Spec == Init /\ [][Next]_serverVars
\* In a part that was not chosen no fair action is enabled.
FairSpec == Spec /\ ApFairness /\ MrFairness /\ MmFairness /\ RoFairness

\* The types of the part that was chosen.
ServerTypeOK ==
  CASE part = "tx" -> TxTypeOK [] part = "ws" -> WsTypeOK [] part = "ap" -> ApTypeOK [] part = "mr" -> MrTypeOK
    [] part = "lv" -> LvTypeOK [] part = "mm" -> MmTypeOK [] part = "ix" -> IxTypeOK [] part = "ro" -> RoTypeOK

\* Whoever waits for a person's consent, for a slot to ask a model, or for the probe of the pod
\* waits no longer than the timer, the requests before it, and the limits of the probe's calls
\* (approvals.ts, model-request-semaphore.ts, gpu-availability.ts).
NobodyWaitsForever == EveryRequestSettles /\ EveryRequestServed /\ EveryAskerRouted
=============================================================================
