----------------------------- MODULE MCAgentRun -----------------------------
(* Instances of AgentRun for TLC: two reads that can be batched, one of    *)
(* each other kind of tool, and the options that the routes pass.          *)
EXTENDS AgentRun

CONSTANTS r1, r2, w, g, t, i, x, p

AllCalls == {r1, r2, w, g, t, i, x}
KindOf   == [c \in AllCalls |-> CASE c \in {r1, r2} -> "read" [] c = w -> "write" [] c = g -> "make"
                                  [] c = t -> "test" [] c = i -> "inspect" [] c = x -> "other"]
PathsOf  == [c \in AllCalls |-> IF c \in {g, i} THEN {p} ELSE {}]
Short    == {<<c>> : c \in {r1, w, g, t, i, x}} \cup {<<r1, r2>>, <<w, t>>}
Limits   == [evidence |-> 1, alignment |-> 1, validation |-> 1, signal |-> 1, guard |-> 2]

Coding      == [signal |-> TRUE, validate |-> TRUE, mutate |-> TRUE, guard |-> FALSE, refresh |-> TRUE,
                evidence |-> {r1}, operational |-> FALSE, graph |-> TRUE]
\* On the live system, and without a tool that validates.
Operational == [Coding EXCEPT !.mutate = FALSE, !.operational = TRUE, !.validate = FALSE, !.evidence = {x}]
Interactive == [signal |-> FALSE, validate |-> TRUE, mutate |-> TRUE, guard |-> TRUE, refresh |-> FALSE,
                evidence |-> {}, operational |-> FALSE, graph |-> FALSE]
Worker      == [Interactive EXCEPT !.validate = FALSE, !.mutate = FALSE, !.guard = FALSE, !.evidence = {r1}]
Callers     == {Coding, Operational, Interactive, Worker}
Graph       == {Coding}
=============================================================================
