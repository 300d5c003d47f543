--------------------------- MODULE MCStorageArchivos ---------------------------
(* StorageArchivos with interchangeable addresses and names. *)
EXTENDS StorageArchivos, TLC

Simetria == Permutations(Direcciones) \cup Permutations(Nombres)
=============================================================================
