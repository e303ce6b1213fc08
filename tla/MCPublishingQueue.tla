------------------------- MODULE MCPublishingQueue -------------------------
(* Instances of PublishingQueue for TLC. *)
EXTENDS PublishingQueue, TLC

CONSTANT ws1

\* All jobs belong to one tenant, so that one UPDATE claims several of them.
OneWorkspace == [j \in Jobs |-> ws1]

Symmetry == Permutations(Workers) \cup Permutations(Jobs)

=============================================================================
