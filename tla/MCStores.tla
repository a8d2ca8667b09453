------------------------------ MODULE MCStores ------------------------------
(* Overlapping calls of either store, for TLC. *)
EXTENDS StoreClients

ClientSymmetry == Permutations(Clients)
=============================================================================
