--------------------------- MODULE WorkerQueryRefina ---------------------------
(***************************************************************************)
(* WorkerQuery implements the abstract file table.                         *)
(***************************************************************************)
EXTENDS WorkerQuery

\* The list, read as a map: the first entry of each File:Tag.
TablaVista ==
  [ft \in {archivos[k].ft : k \in DOMAIN archivos} |->
     archivos[CHOOSE k \in Buscar(ft) : TRUE].size]

\* The instruction the thread executes.
Orden == IF fase \in {"fetch", "buscando"} /\ HayInstruccion
         THEN Linea ELSE [tipo |-> "NINGUNA"]

Tabla == INSTANCE TablaIdeal
           WITH tabla <- TablaVista, orden <- Orden, respondidas <- Len(ejecutadas)

\* The list of archives implements the map (worker_query.c l. 43-83, 148-162,
\* 197-327): every instruction is answered by what the map says, changes no entry
\* but its own, and nothing when it fails; a deleted File:Tag is gone.
ImplementaTabla == Tabla!Spec
================================================================================
