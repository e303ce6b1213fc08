----------------------------- MODULE MCTenancy -----------------------------
(* Instances of Tenancy for TLC. *)
EXTENDS Tenancy, TLC

Symmetry == Permutations(Requests) \cup Permutations(Addresses)

=============================================================================
