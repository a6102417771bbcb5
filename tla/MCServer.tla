------------------------------ MODULE MCServer ------------------------------
(* Instances of the parts of the server, for TLC. *)
EXTENDS Server

CONSTANTS p1, p2, v1, v2, gate, f, r1, r2, c1, c2, reader1, reader2, writer, other, ctl, a1, a2, a3,
          ssh1, ssh2, place1, place2

\* Tracked files: one is at HEAD, the other is not there; both ask for the same gate.
HeadFiles == [p \in {p1, p2} |-> IF p = p1 THEN v1 ELSE Absent]
GatesOf   == [p \in {p1, p2} |-> {gate}]
\* A mutation names the first file or both, as git spells them; or both, the first one otherwise.
CallsFor   == {[own |-> {p1}, other |-> {}], [own |-> {p1, p2}, other |-> {}]}
AnyCallFor == {[own |-> {p1}, other |-> {}], [own |-> {p2}, other |-> {p1}]}
\* The user edits between two tools, or while a rollback restores.
EditsOfUser == {<<"idle", p1, v2>>, <<"restore", p1, v2>>}

CallsOf   == [c \in {c1, c2} |-> IF c = c1 THEN r1 ELSE r2]
ActionsTo == [a \in {a1, a2, a3} |-> ctl]

\* The second version of a file has lost a symbol.
SymbolsOf == [v \in {v1, v2} |-> IF v = v1 THEN {place1, place2} ELSE {place1}]

\* Where the aliases are: as their names say, under a wrong name, or with a local twin of an alias of the pod.
PlacementsOf == {[a \in Alias |-> CASE a = "coder" -> h[1] [] a = "gpu_coder" -> h[2] [] a = "coder_local" -> "local"] :
                   h \in {<<"local", "gpu">>, <<"local", "paid">>, <<"gpu", "paid">>}}
=============================================================================
