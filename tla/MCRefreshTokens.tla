------------------------- MODULE MCRefreshTokens -------------------------
(* Model checking of RefreshTokens: the symmetric sets of the small instances. *)
EXTENDS RefreshTokens, TLC

Symmetry == Permutations(Sessions) \cup Permutations(Tokens) \cup Permutations(Clients)

=============================================================================
