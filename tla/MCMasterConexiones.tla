--------------------------- MODULE MCMasterConexiones ---------------------------
(* MasterConexiones with the text the Worker sends, and some peers. *)
EXTENDS MasterConexiones

MCModulo == <<87, 79, 82, 75, 69, 82>>

Texto(n) == [i \in 1 .. n |-> 96 + i]
Query(n, prioridad) == [tipo |-> "query", texto |-> Texto(n), prioridad |-> prioridad]
Worker(n) == [tipo |-> "worker", texto |-> Texto(n), prioridad |-> 0]

\* Texts with a character that is a code, the last one or not, and with the four
\* bytes of -1.
Raro(texto, prioridad) == [tipo |-> "query", texto |-> texto, prioridad |-> prioridad]

MCClientes ==
  {Query(0, 7), Raro(<<7>>, 3), Raro(<<6, 255, 255, 255, 255, 98, 99>>, 3),
   Worker(1), Worker(5)}
=============================================================================
