---------------------------- MODULE MCLifecycle ----------------------------
(* A small instance of Lifecycle: two keys, two tasks, room for one        *)
(* service.                                                                *)
EXTENDS Lifecycle, TLC

Symmetry == Permutations(Callers) \cup Permutations(Keys)
=============================================================================
