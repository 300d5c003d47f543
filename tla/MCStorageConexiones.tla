-------------------------- MODULE MCStorageConexiones --------------------------
(* StorageConexiones with interchangeable clients, where only safety is asked. *)
EXTENDS StorageConexiones, TLC

\* The identifications come whole, or that of a client that says no more has a part
\* that may be read as -1 (a recv that takes both parts takes it whole; a part read as
\* an unknown code takes the step that the body of a message left behind takes).
SinRestos == [c \in Clientes |-> {<<>>}]
Cortado == CHOOSE c \in Clientes : c \notin Locuaces
MCRestos == [SinRestos EXCEPT ![Cortado] = {<<"menos uno">>}]

Simetria == Permutations(Clientes)
=============================================================================
