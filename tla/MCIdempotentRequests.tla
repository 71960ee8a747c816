------------------------ MODULE MCIdempotentRequests ------------------------
(* Values of the constants of IdempotentRequests for TLC. *)
EXTENDS IdempotentRequests, TLC

Symmetry == Permutations(Requests) \union Permutations(Bodies)
=============================================================================
