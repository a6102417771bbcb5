--------------------------- MODULE MCTaskQueue ---------------------------
(***************************************************************************)
(* Instances of TaskQueue for TLC.  Rows are numbers; servers are model    *)
(* values.  One slot more than the cap lets a broken cap be seen.          *)
(***************************************************************************)
EXTENDS TaskQueue

TwoTasks == 1..2
TwoSlots == 1..2
OneTask == {1}
Anywhere == Process \X Task
FirstOnly == Process \X {1}
OneResult == {"completed"}
============================================================================
