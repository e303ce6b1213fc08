---------------------------- MODULE MCConnection ----------------------------
(* Instances of Connection for TLC. *)
EXTENDS Connection, TLC

Symmetry == Permutations(Requests) \cup Permutations(Attempts)
              \cup Permutations(Workspaces)

=============================================================================
