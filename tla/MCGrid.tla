------------------------------- MODULE MCGrid -------------------------------
(* Small instances of Grid. *)
EXTENDS Grid

Symmetry == Permutations(Styles)
=============================================================================
