----------------------------- MODULE MemoriaRefina -----------------------------
(***************************************************************************)
(* MemoriaWorker implements the two abstract replacement policies.         *)
(***************************************************************************)
EXTENDS MemoriaWorker

VARIABLE atendida   \* history: the last call an LRU cache served

varsObservadas == <<vars, atendida>>

(* The calls as their callers see them.  The history variable takes the block *)
(* from the arguments of the call and never from the queue, and adds or       *)
(* removes no step: every step of MemoriaWorker is one of these.              *)

Atender(op, b) ==
  atendida' = IF algoritmo = "LRU"
              THEN [op |-> op, bloque |-> b, turno |-> ~atendida.turno]
              ELSE atendida

SinAtender ==
  \/ \E b \in Bloques, c \in Buffers : AgregarLleno(b, c) \/ ReemplazarBloque(b, c)
  \/ \E b \in Bloques, m \in BOOLEAN : MarcarUsado(b, m)
  \/ AlgoritmoDesconocido \/ EmpezarBarrido \/ AvanzarPuntero \/ ElegirVictima
  \/ TerminarVuelta \/ SinVictima
  \/ VictimaLRU /\ paginas = <<>>
  \/ MarcarPagina /\ ConBloque(llamada.bloque) = {}

Observado ==
  \/ \E b \in Bloques : BuscarBloque(b) /\ Atender("usar", b)
  \/ \E b \in Bloques, c \in Buffers : AgregarEnLibre(b, c) /\ Atender("traer", b)
  \/ VictimaLRU /\ paginas # <<>> /\ Atender("traer", llamada.bloque)
  \/ /\ MarcarPagina /\ ConBloque(llamada.bloque) # {}
     /\ Atender("usar", llamada.bloque)
  \/ DestruirCache /\ Atender("vaciar", Nulo)
  \/ SinAtender /\ UNCHANGED atendida

InitObservada ==
  Init /\ atendida = [op |-> "ninguna", bloque |-> Nulo, turno |-> FALSE]

SpecObservada == InitObservada /\ [][Observado]_varsObservadas

FairSpecObservada == SpecObservada /\ WF_vars(Continuar)

\* LRU: the resident blocks in the order of the queue.  With any other algorithm
\* the queue stays empty and nothing is promised of it.
OrdenDeUso == [k \in DOMAIN paginas |-> frames[paginas[k]].id_bloque]

LRU == INSTANCE LRUIdeal WITH Capacidad <- MaxFrames, orden <- OrdenDeUso

\* With ALGORITMO_REEMPLAZO=LRU the cache is an LRU cache of its callers' blocks:
\* each lookup that hits and each page marked puts the block the caller named,
\* and no other, last; a load puts its block last; and a replacement evicts the
\* block whose last use is oldest (worker_memoria.c l. 13-35, 116-118, 138-140,
\* 168-170, 187-203, 310-312).
ImplementaLRU == LRU!Spec

\* CLOCK-M: a search in progress has not happened yet, so its effect on the use
\* bits and the hand is undone by looking at the state it started from.
\* Nothing is promised of a cache with another algorithm.
FramesVisibles ==
  IF algoritmo # "CLOCK-M" THEN [i \in Marcos |-> PaginaLibre]
  ELSE IF fase = "barrido" THEN inicio.frames ELSE frames
PunteroVisible ==
  IF algoritmo # "CLOCK-M" THEN 0
  ELSE IF fase = "barrido" THEN inicio.puntero ELSE puntero

Clock == INSTANCE ClockIdeal WITH frames <- FramesVisibles,
                                  puntero <- PunteroVisible

\* With ALGORITMO_REEMPLAZO=CLOCK-M the two-lap search picks the victim, clears
\* the use bits and leaves the hand as the closed form of ClockIdeal says, and
\* a cache with an occupied frame never refuses a block (l. 204-268, 276-315).
ImplementaClock == Clock!Spec
=============================================================================
