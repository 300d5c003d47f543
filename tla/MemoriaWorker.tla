---------------------------- MODULE MemoriaWorker ----------------------------
(***************************************************************************)
(* The page cache of a Worker: worker/src/worker_memoria.c.                *)
(*                                                                         *)
(* A fixed array of frames, a list `paginas' used as the LRU queue, a clock *)
(* hand `puntero' for CLOCK-M and one mutex.  The Worker executes its      *)
(* queries in a single thread, so one call is in progress at a time: what  *)
(* can go wrong is the order of the steps INSIDE a call (nested locking,   *)
(* the two-lap sweep, who frees which buffer), and the order of the calls. *)
(***************************************************************************)
EXTENDS Integers, FiniteSets, SequencesExt

CONSTANTS
  Bloques,      \* block identifiers the callers use
  Buffers,      \* heap addresses malloc may return for a block's content
  Nulo,         \* NULL, and the zero a calloc'ed frame holds
  MaxFrames,    \* cache->max_frames
  Algoritmos,   \* "LRU", "CLOCK-M", and names the code does not know
  Reentrantes   \* may the owner of a PTHREAD_MUTEX_DEFAULT lock it again?

\* memoria_crear_cache returns NULL when the memory holds no frame (l. 54).
ASSUME MaxFramesAssumption == MaxFrames \in Nat \ {0}
ASSUME DatosAssumption == Nulo \notin Bloques /\ Nulo \notin Buffers
ASSUME AlgoritmosAssumption == Algoritmos \subseteq STRING
ASSUME ReentrantesAssumption == Reentrantes \subseteq BOOLEAN

VARIABLES
  algoritmo,        \* cache->algoritmo, fixed when the cache is created
  reentrante,       \* does cache->mutex let its owner in again? Fixed, too
  frames,           \* cache->frames
  paginas,          \* cache->paginas, the LRU queue, as frame indices
  puntero,          \* cache->puntero
  mutex,            \* how many times the calling thread holds cache->mutex
  fase,             \* where the call in progress is
  llamada,          \* its arguments
  iteraciones,      \* iteraciones_en_vuelta
  vueltas,          \* vueltas_completadas
  segunda_pasada,   \* segunda_pasada
  vivos,            \* buffers allocated and not yet freed
  inicio            \* history: frames and hand when the last sweep began

barrido == <<iteraciones, vueltas, segunda_pasada, inicio>>
creacion == <<algoritmo, reentrante>>
vars == <<creacion, frames, paginas, puntero, mutex, fase, llamada, barrido, vivos>>

Marcos == 0 .. MaxFrames - 1

Pagina == [id_bloque: Bloques \cup {Nulo}, ocupado: BOOLEAN, bit_uso: BOOLEAN,
           bit_modificado: BOOLEAN, contenido: Buffers \cup {Nulo}]

PaginaLibre == [id_bloque |-> Nulo, ocupado |-> FALSE, bit_uso |-> FALSE,
                bit_modificado |-> FALSE, contenido |-> Nulo]

\* A block just loaded counts as used and as not modified.
PaginaCargada(b, c) == [id_bloque |-> b, ocupado |-> TRUE, bit_uso |-> TRUE,
                        bit_modificado |-> FALSE, contenido |-> c]

Llamada == [bloque: Bloques \cup {Nulo}, contenido: Buffers \cup {Nulo},
            modificado: BOOLEAN]

SinBarrido == [frames |-> [i \in Marcos |-> PaginaLibre], puntero |-> 0]

SinLlamada == [bloque |-> Nulo, contenido |-> Nulo, modificado |-> FALSE]

Fases == {"libre", "victima", "barrido", "marcar", "destruida"}

\* Types of the cache and of the call in progress.
TypeOK ==
  /\ algoritmo \in Algoritmos /\ reentrante \in Reentrantes
  /\ frames \in [Marcos -> Pagina]
  /\ paginas \in Seq(Marcos)
  /\ puntero \in Marcos
  /\ mutex \in 0 .. 2
  /\ fase \in Fases
  /\ llamada \in Llamada
  /\ iteraciones \in 0 .. MaxFrames
  /\ vueltas \in 0 .. 2
  /\ segunda_pasada \in BOOLEAN
  /\ vivos \subseteq Buffers
  /\ inicio \in [frames: [Marcos -> Pagina], puntero: Marcos]

-----------------------------------------------------------------------------
(* Helpers *)

Ocupados == {i \in Marcos : frames[i].ocupado}
Libres == Marcos \ Ocupados
EsElMenor(i, S) == i \in S /\ \A j \in S : i <= j

ConBloque(b) == {i \in Ocupados : frames[i].id_bloque = b}

SiguienteSinModulo(p) == p + 1   \* mutant: no wrap-around
Siguiente(p) == (p + 1) % MaxFrames

\* Mutant: the page is appended without leaving its old position.
MoverSinQuitar(cola, i) ==
  IF Contains(cola, i) THEN Append(cola, i) ELSE cola

\* Mutant: a use does not reach the queue, which is then first in, first out.
MoverNada(cola, i) == cola

\* _mover_pagina_al_final: no effect when the page is not in the queue.
MoverAlFinal(cola, i) ==
  IF Contains(cola, i) THEN Append(RemoveFirst(cola, i), i) ELSE cola

\* pthread_mutex_lock by the only thread: relocking a mutex it holds blocks
\* for ever unless the platform's default mutex lets its owner in.
PuedeTomar == mutex = 0 \/ reentrante

Init ==
  /\ algoritmo \in Algoritmos /\ reentrante \in Reentrantes
  /\ frames = [i \in Marcos |-> PaginaLibre]
  /\ paginas = <<>>
  /\ puntero = 0
  /\ mutex = 0
  /\ fase = "libre"
  /\ llamada = SinLlamada
  /\ iteraciones = 0 /\ vueltas = 0 /\ segunda_pasada = FALSE
  /\ vivos = {}
  /\ inicio = SinBarrido

-----------------------------------------------------------------------------
(* memoria_buscar_bloque.  A miss, or a hit under CLOCK-M, changes nothing. *)

BuscarBloque(b) ==
  /\ fase = "libre"
  /\ algoritmo = "LRU"
  /\ \E i \in Marcos : /\ EsElMenor(i, ConBloque(b))
                       /\ paginas' = MoverAlFinal(paginas, i)
  /\ UNCHANGED <<creacion, frames, puntero, mutex, fase, llamada, barrido, vivos>>

(* memoria_agregar_bloque: the caller hands over a buffer it allocated. *)

AgregarEnLibre(b, c) ==
  /\ fase = "libre"
  /\ c \notin vivos
  /\ \E i \in Marcos :
       /\ EsElMenor(i, Libres)
       /\ frames' = [frames EXCEPT ![i] = PaginaCargada(b, c)]
       /\ paginas' = IF algoritmo = "LRU" THEN Append(paginas, i) ELSE paginas
  /\ vivos' = vivos \cup {c}
  /\ UNCHANGED <<creacion, puntero, mutex, fase, llamada, barrido>>

\* Calls memoria_reemplazar_bloque with the mutex still held (l. 149).
AgregarLleno(b, c) ==
  /\ fase = "libre"
  /\ c \notin vivos
  /\ Libres = {}
  /\ mutex' = 1
  /\ fase' = "victima"
  /\ llamada' = [bloque |-> b, contenido |-> c, modificado |-> FALSE]
  /\ vivos' = vivos \cup {c}
  /\ UNCHANGED <<creacion, frames, paginas, puntero, barrido>>

(* memoria_reemplazar_bloque called from outside: it takes no lock itself. *)
ReemplazarBloque(b, c) ==
  /\ fase = "libre"
  /\ c \notin vivos
  /\ fase' = "victima"
  /\ llamada' = [bloque |-> b, contenido |-> c, modificado |-> FALSE]
  /\ vivos' = vivos \cup {c}
  /\ UNCHANGED <<creacion, frames, paginas, puntero, mutex, barrido>>

\* The call returns: every lock it took has been released, its locals are gone.
Volver ==
  /\ UNCHANGED creacion
  /\ fase' = "libre"
  /\ mutex' = 0
  /\ llamada' = SinLlamada
  /\ iteraciones' = 0 /\ vueltas' = 0 /\ segunda_pasada' = FALSE
  /\ inicio' = SinBarrido

\* Mutant: the buffer of the victim is not freed.
CargarSinLiberar(v, cola) ==
  /\ frames' = [frames EXCEPT
                  ![v] = PaginaCargada(llamada.bloque, llamada.contenido)]
  /\ paginas' = IF algoritmo = "LRU" THEN Append(cola, v) ELSE cola
  /\ UNCHANGED vivos
  /\ Volver

\* memoria_reemplazar_bloque after buscar_victima returned frame v, with the
\* queue the search left.  memoria_flush_frame is a placeholder without effect.
CargarEn(v, cola) ==
  /\ frames' = [frames EXCEPT
                  ![v] = PaginaCargada(llamada.bloque, llamada.contenido)]
  /\ paginas' = IF algoritmo = "LRU" THEN Append(cola, v) ELSE cola
  /\ vivos' = vivos \ {frames[v].contenido}
  /\ Volver

\* Mutant: the rejected buffer is not freed.
DescartarSinLiberar == Volver /\ UNCHANGED <<frames, paginas, vivos>>

\* memoria_reemplazar_bloque after buscar_victima returned -1.
Descartar ==
  /\ vivos' = vivos \ {llamada.contenido}
  /\ Volver
  /\ UNCHANGED <<frames, paginas>>

(* memoria_buscar_victima *)

VictimaLRU ==
  /\ fase = "victima" /\ PuedeTomar /\ algoritmo = "LRU"
  /\ \/ paginas # <<>> /\ CargarEn(Head(paginas), Tail(paginas))
     \/ paginas = <<>> /\ Descartar
  /\ UNCHANGED puntero

AlgoritmoDesconocido ==
  /\ fase = "victima" /\ PuedeTomar
  /\ algoritmo \notin {"LRU", "CLOCK-M"}
  /\ Descartar
  /\ UNCHANGED puntero

EmpezarBarrido ==
  /\ fase = "victima" /\ PuedeTomar /\ algoritmo = "CLOCK-M"
  /\ mutex' = mutex + 1
  /\ fase' = "barrido"
  /\ iteraciones' = 0 /\ vueltas' = 0 /\ segunda_pasada' = FALSE
  /\ inicio' = [frames |-> frames, puntero |-> puntero]
  /\ UNCHANGED <<creacion, frames, paginas, puntero, llamada, vivos>>

\* Class (0,0), or class (0,1) once the first lap is over.
EsVictima(p) ==
  /\ p.ocupado /\ ~p.bit_uso
  /\ ~p.bit_modificado \/ segunda_pasada

EnVuelta == fase = "barrido" /\ vueltas < 2 /\ iteraciones < MaxFrames

\* Mutant: no second chance is taken away.
AvanzarSinLimpiar ==
  /\ EnVuelta
  /\ ~EsVictima(frames[puntero])
  /\ puntero' = Siguiente(puntero)
  /\ iteraciones' = iteraciones + 1
  /\ UNCHANGED <<creacion, frames, paginas, mutex, fase, llamada, vueltas,
                 segunda_pasada, vivos, inicio>>

\* An iteration that finds no victim: the frame loses its use bit if it is
\* occupied, and the hand moves on.
AvanzarPuntero ==
  /\ EnVuelta
  /\ ~EsVictima(frames[puntero])
  /\ frames' = IF frames[puntero].ocupado
               THEN [frames EXCEPT ![puntero].bit_uso = FALSE] ELSE frames
  /\ puntero' = Siguiente(puntero)
  /\ iteraciones' = iteraciones + 1
  /\ UNCHANGED <<creacion, paginas, mutex, fase, llamada, vueltas, segunda_pasada,
                 vivos, inicio>>

\* Mutant: the hand stays on the victim.
ElegirSinAvanzar ==
  /\ EnVuelta
  /\ EsVictima(frames[puntero])
  /\ CargarEn(puntero, paginas)
  /\ UNCHANGED puntero

ElegirVictima ==
  /\ EnVuelta
  /\ EsVictima(frames[puntero])
  /\ CargarEn(puntero, paginas)
  /\ puntero' = Siguiente(puntero)

\* Mutant: a lap without victim is not counted and starts no second pass.
VueltaSinContar ==
  /\ fase = "barrido" /\ vueltas < 2 /\ iteraciones = MaxFrames
  /\ iteraciones' = 0
  /\ UNCHANGED <<creacion, frames, paginas, puntero, mutex, fase, llamada,
                 vueltas, segunda_pasada, vivos, inicio>>

TerminarVuelta ==
  /\ fase = "barrido" /\ vueltas < 2 /\ iteraciones = MaxFrames
  /\ vueltas' = vueltas + 1
  /\ segunda_pasada' = TRUE
  /\ iteraciones' = 0
  /\ UNCHANGED <<creacion, frames, paginas, puntero, mutex, fase, llamada, vivos,
                 inicio>>

SinVictima ==
  /\ fase = "barrido" /\ vueltas = 2
  /\ Descartar
  /\ UNCHANGED puntero

(* memoria_marcar_usado: locks, then calls memoria_buscar_bloque, which locks *)
(* again.                                                                    *)

MarcarUsado(b, modificado) ==
  /\ fase = "libre"
  /\ mutex' = 1
  /\ fase' = "marcar"
  /\ llamada' = [bloque |-> b, contenido |-> Nulo, modificado |-> modificado]
  /\ UNCHANGED <<creacion, frames, paginas, puntero, barrido, vivos>>

ConUso(p) == [p EXCEPT !.bit_uso = TRUE]
Usada(p) ==
  IF llamada.modificado THEN [ConUso(p) EXCEPT !.bit_modificado = TRUE]
  ELSE ConUso(p)

MarcarPagina ==
  /\ fase = "marcar" /\ PuedeTomar
  /\ \/ /\ ConBloque(llamada.bloque) = {}
        /\ UNCHANGED <<frames, paginas>>
     \/ \E i \in Marcos :
          /\ EsElMenor(i, ConBloque(llamada.bloque))
          /\ frames' = [frames EXCEPT ![i] = Usada(@)]
          /\ paginas' = IF algoritmo = "LRU"
                        THEN MoverAlFinal(MoverAlFinal(paginas, i), i)
                        ELSE paginas
  /\ Volver
  /\ UNCHANGED <<puntero, vivos>>

(* memoria_destruir_cache frees the contents of the occupied frames. *)
DestruirCache ==
  /\ fase = "libre"
  /\ fase' = "destruida"
  /\ frames' = [i \in Marcos |-> PaginaLibre]
  /\ paginas' = <<>>
  /\ vivos' = vivos \ {frames[i].contenido : i \in Ocupados}
  /\ UNCHANGED <<creacion, puntero, mutex, llamada, barrido>>

-----------------------------------------------------------------------------
Llamar ==
  \/ \E b \in Bloques : BuscarBloque(b)
  \/ \E b \in Bloques, c \in Buffers :
       AgregarEnLibre(b, c) \/ AgregarLleno(b, c) \/ ReemplazarBloque(b, c)
  \/ \E b \in Bloques, m \in BOOLEAN : MarcarUsado(b, m)
  \/ DestruirCache

\* The steps of a call in progress: the thread runs them without being asked.
Continuar ==
  \/ VictimaLRU \/ AlgoritmoDesconocido
  \/ EmpezarBarrido \/ AvanzarPuntero \/ ElegirVictima
  \/ TerminarVuelta \/ SinVictima
  \/ MarcarPagina

Next == Llamar \/ Continuar

Spec == Init /\ [][Next]_vars

\* Callers owe nothing; a call that can take a step takes it.
FairSpec == Spec /\ WF_vars(Continuar)

-----------------------------------------------------------------------------
(* Properties *)

\* The LRU queue holds every occupied frame, once, and nothing else; without
\* that memoria_buscar_victima would return a free frame or find none with the
\* cache full (worker_memoria.c l. 187-203).
ColaExacta ==
  algoritmo = "LRU" =>
    /\ ToSet(paginas) = Ocupados
    /\ IsInjective(paginas)

\* The two-lap search of CLOCK-M comes back empty-handed only from a cache with
\* no occupied frame, whatever the bits were (l. 264-268: the log blames
\* "todos los marcos ocupados tienen R=1").
ClockNuncaFalla ==
  fase = "barrido" /\ vueltas = 2 => Ocupados = {}

\* Every buffer handed to the cache is freed exactly once: the live buffers are
\* those of the occupied frames and of the replacement in progress, and no two
\* of them are the same (l. 282, 298-300, 90-94).
EnCurso == IF fase \in {"victima", "barrido"} THEN {llamada.contenido} ELSE {}
SinFugas ==
  /\ vivos = {frames[i].contenido : i \in Ocupados} \cup EnCurso
  /\ \A i, j \in Ocupados : frames[i].contenido = frames[j].contenido => i = j
  /\ \A i \in Ocupados : frames[i].contenido \notin EnCurso

\* A call that does not need a mutex its owner holds returns: where the owner may
\* relock, every replacement and every marking of a page (l. 147-150, 153-173), the
\* two laps of the sweep included; and on glibc a replacement asked for from outside,
\* which has locked nothing (l. 276-278).  That the block is then in a frame is part
\* of the two refinements.
LlamadaRegresa == (fase \in {"victima", "marcar"} /\ PuedeTomar) ~> fase = "libre"

\* Every call that begins returns, on any platform: a replacement on a full cache
\* (l. 147-150) and the marking of a page (l. 153-173, whose lines after the
\* lookup, "mover la pagina al final de la cola LRU", l. 161, are there to run).
LlamadaTermina == fase \in {"victima", "barrido", "marcar"} ~> fase = "libre"
=============================================================================
