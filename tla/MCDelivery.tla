----------------------------- MODULE MCDelivery -----------------------------
(* A small instance of Delivery.                                           *)
EXTENDS Delivery, TLC

Symmetry == Permutations(Tasks)
=============================================================================
