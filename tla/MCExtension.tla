----------------------------- MODULE MCExtension -----------------------------
(* Instances of Extension for TLC. *)
EXTENDS Extension, TLC

Symmetry == Permutations(Pages) \cup Permutations(Requests)
=============================================================================
