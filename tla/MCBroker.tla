------------------------------ MODULE MCBroker ------------------------------
(* Broker for TLC. *)
EXTENDS Broker, TLC

Symmetry == Permutations(Thread) \union Permutations(Object)
=============================================================================
