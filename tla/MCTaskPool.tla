----------------------------- MODULE MCTaskPool -----------------------------
(* TaskPool for TLC: tasks and workers are model values. *)
EXTENDS TaskPool, TLC
=============================================================================
