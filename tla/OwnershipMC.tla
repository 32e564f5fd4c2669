----------------------------- MODULE OwnershipMC -----------------------------
(* Ownership on small instances. *)
EXTENDS Ownership, TLC

\* No action tells one object from another.
Symmetry == Permutations(Obj)
=============================================================================
