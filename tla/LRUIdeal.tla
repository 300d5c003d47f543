------------------------------- MODULE LRUIdeal -------------------------------
(***************************************************************************)
(* What an LRU cache of the given capacity promises its callers, without   *)
(* frames or a queue of pointers: `orden' lists the resident blocks from   *)
(* the one whose last use is oldest to the one used last, and `atendida'   *)
(* is the last call the cache served.  A call and its effect on the order  *)
(* are one step: none is served that leaves the order as it was when it    *)
(* should not, and the order changes on behalf of no other block.          *)
(***************************************************************************)
EXTENDS Integers, SequencesExt

CONSTANTS Bloques, Capacidad, Nulo
VARIABLES orden, atendida

\* `turno' tells a call from another one, equal to it, served before.
Servir(op, b) ==
  atendida' = [op |-> op, bloque |-> b, turno |-> ~atendida.turno]

Init ==
  /\ orden = <<>>
  /\ atendida = [op |-> "ninguna", bloque |-> Nulo, turno |-> FALSE]

\* The use of a resident block makes it the most recent one.
Usar(b) ==
  /\ Servir("usar", b)
  /\ \E k \in DOMAIN orden :
       orden[k] = b /\ orden' = Append(RemoveAt(orden, k), b)

Cargar(b) ==
  /\ Servir("traer", b)
  /\ Len(orden) < Capacidad
  /\ orden' = Append(orden, b)

\* The block that leaves is the one whose last use is oldest.
Reemplazar(b) ==
  /\ Servir("traer", b)
  /\ orden # <<>>
  /\ orden' = Append(Tail(orden), b)

Vaciar == Servir("vaciar", Nulo) /\ orden' = <<>>

Next == (\E b \in Bloques : Usar(b) \/ Cargar(b) \/ Reemplazar(b)) \/ Vaciar

Spec == Init /\ [][Next]_<<orden, atendida>>
=============================================================================
