----------------------------- MODULE MCAdminApi -----------------------------
(* Values of the constants of AdminApi for TLC. *)
EXTENDS AdminApi, TLC

CONSTANT order
OneDemo == <<order>>
Actors == Permutations(Requests) \union Permutations(Seeders)
=============================================================================
