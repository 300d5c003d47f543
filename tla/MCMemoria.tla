------------------------------- MODULE MCMemoria -------------------------------
(* MemoriaRefina on small caches.  Liveness is checked, so nothing is taken to *)
(* be interchangeable.                                                         *)
EXTENDS MemoriaRefina

\* Bound: with LRU, which never looks at the bit, pages are not marked as modified.
ModificadoSoloConClock == algoritmo = "CLOCK-M" \/ ~llamada'.modificado
=============================================================================
