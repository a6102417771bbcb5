--------------------------- MODULE MCTaskGraph ---------------------------
(* Instances of TaskGraph for TLC: every graph of two or three nodes,      *)
(* unknown dependencies and cycles included.  Ids are interchangeable, so  *)
(* the branches that replace a node always use the last ones.              *)
EXTENDS TaskGraph

CONSTANTS a, b, c

ListsOf(S) == [S -> SUBSET Id]
SmallLists == ListsOf({a, b}) \cup ListsOf({a, b, c})
SmallBranches == ListsOf({c}) \cup ListsOf({b, c})
============================================================================
