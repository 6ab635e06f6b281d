------------------------------- MODULE MCTcp -------------------------------
(* One worker: the mutex of the broker lets one handler run at a time anyway. *)
EXTENDS Tcp
=============================================================================
