------------------------------ MODULE TablaIdeal ------------------------------
(***************************************************************************)
(* What the file table of a Worker promises: a map from File:Tag to a size  *)
(* in whole blocks.  The instruction being executed is answered once, by    *)
(* what the map says: it succeeds (rc = 0) and changes its own entry only,  *)
(* or it fails (rc = -1) and changes nothing.                               *)
(***************************************************************************)
EXTENDS Integers

CONSTANTS FileTags, Tamanios, BlockSize
VARIABLES
  tabla,        \* the map
  orden,        \* the instruction being executed, or "NINGUNA"
  respondidas,  \* how many instructions of the query have been answered
  rc            \* the last answer

Existe(ft) == ft \in DOMAIN tabla

\* The new map if the instruction succeeds.
Crear(ft) == [g \in DOMAIN tabla \cup {ft} |-> IF g = ft THEN 0 ELSE tabla[g]]
Truncar(ft, n) == [tabla EXCEPT ![ft] = n]
Borrar(ft) == [g \in DOMAIN tabla \ {ft} |-> tabla[g]]

Init == tabla = [ft \in {} |-> 0] /\ respondidas = 0 /\ rc = 0

Responder(exito, nueva) ==
  /\ respondidas' = respondidas + 1
  /\ \/ exito /\ tabla' = nueva /\ rc' = 0
     \/ ~exito /\ UNCHANGED tabla /\ rc' = -1

Instruccion ==
  \/ \E ft \in FileTags :
       \/ orden = [tipo |-> "CREATE", ft |-> ft] /\ Responder(~Existe(ft), Crear(ft))
       \/ orden = [tipo |-> "DELETE", ft |-> ft] /\ Responder(Existe(ft), Borrar(ft))
       \/ \E n \in Tamanios :
            /\ orden = [tipo |-> "TRUNCATE", ft |-> ft, size |-> n]
            /\ Responder(Existe(ft) /\ n % BlockSize = 0, Truncar(ft, n))
  \/ orden \in [tipo : {"SIMULADA", "END"}] /\ Responder(TRUE, tabla)
  \/ orden = [tipo |-> "INVALID"] /\ Responder(FALSE, tabla)

\* Between queries the count starts again, and an entry may be added by hand.
EntreConsultas ==
  \/ UNCHANGED <<tabla, rc>> /\ respondidas' = 0
  \/ /\ orden = [tipo |-> "NINGUNA"] /\ UNCHANGED <<respondidas, rc>>
     /\ \E ft \in FileTags : ~Existe(ft) /\ tabla' = Crear(ft)

Next == Instruccion \/ EntreConsultas

Spec == Init /\ [][Next]_<<tabla, respondidas, rc>>
=============================================================================
