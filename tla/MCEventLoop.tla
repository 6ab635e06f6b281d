---------------------------- MODULE MCEventLoop ----------------------------
(* EventLoop for TLC: threads are model values. *)
EXTENDS EventLoop
=============================================================================
