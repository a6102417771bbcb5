--------------------------- MODULE RecoveryPoint ---------------------------
(***************************************************************************)
(* What a recovery point promises, whoever keeps it and however.           *)
(*                                                                         *)
(* The files of a set of protected paths have a pre-image, what they held  *)
(* when they were captured, and an output, what the protected work left in *)
(* them.  The pre-images never change while the point is open.  Restoring  *)
(* starts only from a moment at which every protected file still held its  *)
(* output, and ends only when each protected file has been put back.  What *)
(* is put back is the pre-image, unless the keeper captured that protected *)
(* file a second time: then the pre-image is lost, and nothing is promised *)
(* of the file.                                                            *)
(***************************************************************************)
CONSTANTS Path, Value

VARIABLES
  work,      \* the files
  captured,  \* what was read of the paths about to be worked on
  phase,     \* "none" | "open" | "restoring" | "abandoned"
  pre, out,  \* pre-images and outputs, functions on the protected paths
  restored,  \* the protected paths put back since restoring began
  lost       \* the protected paths captured again, whose originals may be gone

point == <<phase, pre, out, restored, lost>>
vars  == <<work, captured, point>>

Nothing == [p \in {} |-> Value]
\* The paths of both; the first one's word counts.
Over(f, g) == [p \in DOMAIN f \cup DOMAIN g |-> IF p \in DOMAIN f THEN f[p] ELSE g[p]]

Init == /\ work \in [Path -> Value] /\ captured = Nothing
        /\ phase = "none" /\ pre = Nothing /\ out = Nothing /\ restored = {} /\ lost = {}

\* Anybody may change any file at any time: the point only watches.
Write == /\ work' \in [Path -> Value] /\ captured' \in {captured, Nothing}
         /\ UNCHANGED point

\* Files are read before they are worked on; what was read may be dropped at once.
Capture(P) == /\ phase # "restoring"
              /\ captured' \in {[p \in P |-> work[p]], Nothing}
              /\ lost' = lost \cup (P \cap DOMAIN pre)
              /\ UNCHANGED <<work, phase, pre, out, restored>>

\* The point takes in the captured paths, with what they held, and learns the outputs;
\* what it protected before keeps its pre-image.
Protect ==
  /\ phase # "restoring"
  /\ phase' = "open"
  /\ pre' = Over(pre, captured)
  /\ out' \in [DOMAIN pre' -> Value]
  /\ captured' = Nothing
  /\ UNCHANGED <<work, restored, lost>>

\* Every protected file holds its output: it is safe to restore.
Verify == /\ phase = "open" /\ \A p \in DOMAIN out : work[p] = out[p]
          /\ phase' = "restoring"
          /\ UNCHANGED <<work, captured, pre, out, restored, lost>>

Restore(p) ==
  /\ phase = "restoring" /\ p \in DOMAIN pre \ restored
  /\ \E v \in IF p \in lost THEN Value ELSE {pre[p]} : work' = [work EXCEPT ![p] = v]
  /\ restored' = restored \cup {p}
  /\ UNCHANGED <<captured, phase, pre, out, lost>>

\* The point protects nothing any more.
Close(how) == /\ phase' = how
              /\ pre' = Nothing /\ out' = Nothing /\ restored' = {} /\ lost' = {}
              /\ UNCHANGED <<work, captured>>

RolledBack == phase = "restoring" /\ restored = DOMAIN pre /\ Close("none")
Commit     == phase = "open" /\ Close("none")
\* The files are not what the point left in them, or one cannot be put back.
Abandon    == phase \in {"open", "restoring"} /\ Close("abandoned")

\* The restorer is gone; what it put back stays.
Interrupt == /\ phase = "restoring" /\ phase' = "open" /\ restored' = {}
             /\ UNCHANGED <<work, captured, pre, out, lost>>

Next == \/ Write \/ Protect \/ Verify \/ RolledBack \/ Commit \/ Abandon \/ Interrupt
        \/ \E P \in SUBSET Path : Capture(P)
        \/ \E p \in Path : Restore(p)

Spec == Init /\ [][Next]_vars
=============================================================================
