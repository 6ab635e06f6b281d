------------------------- MODULE MCSelectMechanism -------------------------
(* SelectMechanism for TLC. *)
EXTENDS SelectMechanism, TLC

Symmetry == Permutations(User) \union Permutations(Worker)
=============================================================================
