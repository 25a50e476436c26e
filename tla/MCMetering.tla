----------------------------- MODULE MCMetering -----------------------------
(* Model-checking instance of Metering. *)
EXTENDS Metering, TLC

Symmetry == Permutations(Attempts) \cup Permutations(Consumers)
=============================================================================
