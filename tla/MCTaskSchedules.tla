------------------------- MODULE MCTaskSchedules -------------------------
(* Instances of TaskSchedules for TLC: a recurring schedule and a one-shot *)
(* one that may turn out to be unusable.                                   *)
EXTENDS TaskSchedules, TLC

CONSTANTS recurring, once

OnceAndRecurring == recurring :> 2 @@ once :> 0
============================================================================
