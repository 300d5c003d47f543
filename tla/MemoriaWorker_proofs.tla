------------------------- MODULE MemoriaWorker_proofs -------------------------
(***************************************************************************)
(* Theorems about MemoriaWorker, for every cache size, set of blocks, set  *)
(* of buffers, algorithm and kind of mutex: its invariants, and that it    *)
(* implements the two abstract replacement policies of MemoriaRefina.      *)
(***************************************************************************)
EXTENDS MemoriaRefina, ListaLemas, FiniteSetTheorems

USE MaxFramesAssumption

-----------------------------------------------------------------------------
(* The clock hand *)

\* The hand moves to the next frame and wraps around after the last one
\* (worker_memoria.c l. 221, 230, 238, 250).
LEMMA SiguienteMarco ==
  ASSUME NEW p \in Marcos
  PROVE  /\ Siguiente(p) \in Marcos
         /\ Siguiente(p) = IF p + 1 = MaxFrames THEN 0 ELSE p + 1
  BY DEF Siguiente, Marcos
-----------------------------------------------------------------------------
(* The LRU queue: _mover_pagina_al_final *)

\* Moving a page to the end of the queue permutes it (worker_memoria.c l. 13-27).
LEMMA MoverConserva ==
  ASSUME NEW cola \in Seq(Marcos), NEW i \in Marcos
  PROVE  /\ MoverAlFinal(cola, i) \in Seq(Marcos)
         /\ ToSet(MoverAlFinal(cola, i)) = ToSet(cola)
         /\ IsInjective(cola) => IsInjective(MoverAlFinal(cola, i))
<1>1. CASE ~ Contains(cola, i)
  BY <1>1 DEF MoverAlFinal
<1>2. CASE Contains(cola, i)
  <2>1. PICK k \in 1 .. Len(cola) :
          cola[k] = i /\ RemoveFirst(cola, i) = RemoveAt(cola, k)
    BY <1>2, QuitarPrimera
  <2>. DEFINE r == RemoveAt(cola, k)
              m == Append(r, i)
  <2>2. /\ r \in Seq(Marcos) /\ Len(r) = Len(cola) - 1
        /\ \A j \in 1 .. Len(cola) - 1 :
             r[j] = IF j < k THEN cola[j] ELSE cola[j + 1]
    BY QuitarPosicion
  <2>. HIDE DEF r
  <2>3. /\ m \in Seq(Marcos) /\ Len(m) = Len(cola)
        /\ \A j \in 1 .. Len(cola) :
             m[j] = IF j < k THEN cola[j]
                    ELSE IF j < Len(cola) THEN cola[j + 1] ELSE i
    BY <2>2, AppendProperties, LenProperties
  <2>4. MoverAlFinal(cola, i) = m
    BY <1>2, <2>1 DEF MoverAlFinal, r
  <2>. HIDE DEF m
  <2>5. ToSet(m) \subseteq ToSet(cola)
    BY <2>1, <2>3, LenProperties DEF ToSet
  <2>6. ASSUME NEW j \in 1 .. Len(cola) PROVE cola[j] \in ToSet(m)
    <3>1. CASE j < k
      <4>1. m[j] = cola[j] /\ j \in 1 .. Len(m)
        BY <3>1, <2>3
      <4>. QED BY <4>1 DEF ToSet
    <3>2. CASE j > k
      <4>1. m[j - 1] = cola[j] /\ j - 1 \in 1 .. Len(m)
        BY <3>2, <2>3, LenProperties
      <4>. QED BY <4>1 DEF ToSet
    <3>3. CASE j = k
      <4>1. m[Len(cola)] = cola[j] /\ Len(cola) \in 1 .. Len(m)
        BY <3>3, <2>1, <2>3, LenProperties
      <4>. QED BY <4>1 DEF ToSet
    <3>. QED BY <3>1, <3>2, <3>3, LenProperties
  <2>7. ToSet(m) = ToSet(cola)
    BY <2>5, <2>6 DEF ToSet
  <2>8. ASSUME IsInjective(cola) PROVE IsInjective(m)
    <3>1. DOMAIN m = 1 .. Len(cola) /\ DOMAIN cola = 1 .. Len(cola)
      BY <2>3, LenProperties
    <3>. DEFINE pos(j) == IF j < k THEN j
                          ELSE IF j < Len(cola) THEN j + 1 ELSE k
    <3>2. \A j \in 1 .. Len(cola) :
            pos(j) \in 1 .. Len(cola) /\ m[j] = cola[pos(j)]
      BY <2>1, <2>3, LenProperties
    <3>3. \A x, y \in 1 .. Len(cola) : pos(x) = pos(y) => x = y
      BY LenProperties
    <3>. HIDE DEF pos
    <3>. QED
      BY <2>8, <3>1, <3>2, <3>3 DEF IsInjective
  <2>. QED BY <2>3, <2>4, <2>7, <2>8
<1>. QED BY <1>1, <1>2

-----------------------------------------------------------------------------
(* Type correctness *)

LEMMA TiposDePagina ==
  /\ PaginaLibre \in Pagina
  /\ SinLlamada \in Llamada
  /\ \A b \in Bloques, c \in Buffers : PaginaCargada(b, c) \in Pagina
  /\ 0 \in Marcos
  /\ SinBarrido \in [frames: [Marcos -> Pagina], puntero: Marcos]
  BY DEF PaginaLibre, Pagina, SinLlamada, Llamada, PaginaCargada, SinBarrido,
         Marcos

\* The arguments of a replacement in progress are a block and a buffer, and the
\* mutex is held once on the way into the search if memoria_agregar_bloque took
\* it, never twice.
LlamadaOK ==
  /\ fase \in {"victima", "barrido"} =>
       llamada.bloque \in Bloques /\ llamada.contenido \in Buffers
  /\ fase \in {"libre", "victima"} => mutex <= 1
  /\ fase = "barrido" => algoritmo = "CLOCK-M"

\* Marking a page as used, or as modified, leaves a page.
LEMMA TipoConUso ==
  ASSUME NEW p \in Pagina
  PROVE  ConUso(p) \in Pagina
  BY DEF ConUso, Pagina

\* (See TipoConUso.)
LEMMA TipoModificada ==
  ASSUME NEW p \in Pagina
  PROVE  [p EXCEPT !.bit_modificado = TRUE] \in Pagina
  BY DEF Pagina

\* (See TipoConUso.)
LEMMA TipoUsada ==
  ASSUME NEW p \in Pagina
  PROVE  Usada(p) \in Pagina
  BY TipoConUso, TipoModificada DEF Usada

LEMMA UsadaConserva ==
  ASSUME NEW p \in Pagina
  PROVE  Usada(p).ocupado = p.ocupado /\ Usada(p).contenido = p.contenido
  BY DEF Usada, ConUso, Pagina

\* The algorithm and the mutex of a cache never change after its creation.
LEMMA CreacionFija ==
  ASSUME [Next]_vars
  PROVE  algoritmo' = algoritmo /\ reentrante' = reentrante
  BY DEF vars, creacion, Next, Llamar, Continuar, BuscarBloque, AgregarEnLibre,
     AgregarLleno, ReemplazarBloque, MarcarUsado, DestruirCache, VictimaLRU,
     AlgoritmoDesconocido, EmpezarBarrido, AvanzarPuntero, ElegirVictima,
     TerminarVuelta, SinVictima, MarcarPagina, CargarEn, Descartar, Volver

\* The end of a replacement that loads its block keeps the types.
LEMMA TipoCargar ==
  ASSUME TypeOK, LlamadaOK, fase \in {"victima", "barrido"},
         NEW v \in Marcos, NEW cola \in Seq(Marcos), CargarEn(v, cola),
         puntero' \in Marcos
  PROVE  TypeOK' /\ LlamadaOK'
<1>1. PaginaCargada(llamada.bloque, llamada.contenido) \in Pagina
  BY TiposDePagina DEF LlamadaOK
<1>2. frames' \in [Marcos -> Pagina]
  BY <1>1 DEF CargarEn, TypeOK
<1>3. paginas' \in Seq(Marcos)
  BY AppendProperties DEF CargarEn
<1>4. vivos' \subseteq Buffers
  BY DEF CargarEn, TypeOK
<1>5. /\ fase' = "libre" /\ mutex' = 0 /\ llamada' \in Llamada
      /\ iteraciones' = 0 /\ vueltas' = 0 /\ segunda_pasada' = FALSE
      /\ inicio' \in [frames: [Marcos -> Pagina], puntero: Marcos]
  BY TiposDePagina DEF CargarEn, Volver
<1>9. algoritmo' \in Algoritmos /\ reentrante' \in Reentrantes
  BY DEF CargarEn, Volver, creacion, TypeOK
<1>6. /\ fase' \in Fases
      /\ mutex' \in 0 .. 2 /\ iteraciones' \in 0 .. MaxFrames /\ vueltas' \in 0 .. 2
  BY <1>5 DEF Fases
<1>7. LlamadaOK'
  BY <1>5 DEF LlamadaOK
<1>8. TypeOK'
  BY <1>9, <1>2, <1>3, <1>4, <1>5, <1>6 DEF TypeOK
<1>. QED
  BY <1>7, <1>8

\* So does the end of one that rejects it.
LEMMA TipoDescartar ==
  ASSUME TypeOK, Descartar, puntero' \in Marcos
  PROVE  TypeOK' /\ LlamadaOK'
  BY TiposDePagina DEF TypeOK, Descartar, Volver, creacion, Fases, LlamadaOK

\* Every variable keeps its type in every reachable state.
THEOREM TipoCorrecto == Spec => [](TypeOK /\ LlamadaOK)
<1>1. Init => TypeOK /\ LlamadaOK
  BY TiposDePagina, EmptySeq DEF Init, TypeOK, Fases, LlamadaOK
<1>2. TypeOK /\ LlamadaOK /\ [Next]_vars => TypeOK' /\ LlamadaOK'
  <2>. SUFFICES ASSUME TypeOK, LlamadaOK, [Next]_vars,
                       algoritmo' = algoritmo, reentrante' = reentrante
                PROVE  TypeOK' /\ LlamadaOK'
    BY CreacionFija
  <2>1. ASSUME NEW b \in Bloques, BuscarBloque(b) PROVE TypeOK' /\ LlamadaOK'
    <3>1. paginas' \in Seq(Marcos)
      BY <2>1, MoverConserva DEF BuscarBloque, TypeOK
    <3>. QED BY <2>1, <3>1 DEF BuscarBloque, TypeOK, LlamadaOK, barrido
  <2>2. ASSUME NEW b \in Bloques, NEW c \in Buffers, AgregarEnLibre(b, c)
        PROVE  TypeOK' /\ LlamadaOK'
    <3>1. PICK i \in Marcos :
            /\ frames' = [frames EXCEPT ![i] = PaginaCargada(b, c)]
            /\ paginas' = IF algoritmo = "LRU" THEN Append(paginas, i) ELSE paginas
      BY <2>2 DEF AgregarEnLibre
    <3>2. frames' \in [Marcos -> Pagina]
      BY <3>1, TiposDePagina DEF TypeOK
    <3>3. paginas' \in Seq(Marcos)
      BY <3>1, AppendProperties DEF TypeOK
    <3>. QED
      BY <2>2, <3>2, <3>3 DEF AgregarEnLibre, TypeOK, LlamadaOK, barrido
  <2>3. ASSUME NEW b \in Bloques, NEW c \in Buffers,
               AgregarLleno(b, c) \/ ReemplazarBloque(b, c)
        PROVE  TypeOK' /\ LlamadaOK'
    <3>0. llamada' = [bloque |-> b, contenido |-> c, modificado |-> FALSE]
      BY <2>3 DEF AgregarLleno, ReemplazarBloque
    <3>1. llamada' \in Llamada /\ llamada'.bloque = b /\ llamada'.contenido = c
      BY <3>0 DEF Llamada
    <3>2. vivos' \subseteq Buffers
      BY <2>3 DEF AgregarLleno, ReemplazarBloque, TypeOK
    <3>3. fase' = "victima" /\ mutex' \in 0 .. 1
      BY <2>3 DEF AgregarLleno, ReemplazarBloque, TypeOK, LlamadaOK
    <3>. QED
      BY <2>3, <3>1, <3>2, <3>3
      DEF AgregarLleno, ReemplazarBloque, TypeOK, LlamadaOK, Fases, barrido
  <2>4. ASSUME NEW b \in Bloques, NEW m \in BOOLEAN, MarcarUsado(b, m)
        PROVE  TypeOK' /\ LlamadaOK'
    BY <2>4 DEF MarcarUsado, TypeOK, LlamadaOK, Llamada, Fases, barrido
  <2>5. ASSUME DestruirCache PROVE TypeOK' /\ LlamadaOK'
    BY <2>5, TiposDePagina, EmptySeq
    DEF DestruirCache, TypeOK, LlamadaOK, Fases, barrido
  <2>6. ASSUME VictimaLRU PROVE TypeOK' /\ LlamadaOK'
    <3>1. CASE paginas # <<>> /\ CargarEn(Head(paginas), Tail(paginas))
      <4>1. Head(paginas) \in Marcos /\ Tail(paginas) \in Seq(Marcos)
        BY <3>1, HeadTailProperties DEF TypeOK
      <4>. QED
        BY <2>6, <3>1, <4>1, TipoCargar DEF VictimaLRU, TypeOK
    <3>2. CASE Descartar
      BY <2>6, <3>2, TipoDescartar DEF VictimaLRU, TypeOK
    <3>. QED BY <2>6, <3>1, <3>2 DEF VictimaLRU
  <2>7. ASSUME AlgoritmoDesconocido PROVE TypeOK' /\ LlamadaOK'
    BY <2>7, TipoDescartar DEF AlgoritmoDesconocido, TypeOK
  <2>8. ASSUME EmpezarBarrido PROVE TypeOK' /\ LlamadaOK'
    <3>1. mutex' \in 0 .. 2
      BY <2>8 DEF EmpezarBarrido, TypeOK, LlamadaOK
    <3>2. inicio' \in [frames: [Marcos -> Pagina], puntero: Marcos]
      BY <2>8 DEF EmpezarBarrido, TypeOK
    <3>3. fase' = "barrido" /\ fase' \in Fases
      BY <2>8 DEF EmpezarBarrido, Fases
    <3>4. iteraciones' \in 0 .. MaxFrames /\ vueltas' \in 0 .. 2
      BY <2>8 DEF EmpezarBarrido
    <3>. QED
      BY <2>8, <3>1, <3>2, <3>3, <3>4 DEF EmpezarBarrido, TypeOK, LlamadaOK
  <2>9. ASSUME AvanzarPuntero PROVE TypeOK' /\ LlamadaOK'
    <3>1. frames' \in [Marcos -> Pagina]
      BY <2>9 DEF AvanzarPuntero, TypeOK, Pagina
    <3>2. puntero' \in Marcos
      BY <2>9, SiguienteMarco DEF AvanzarPuntero, TypeOK
    <3>3. iteraciones' \in 0 .. MaxFrames
      BY <2>9 DEF AvanzarPuntero, EnVuelta, TypeOK
    <3>. QED
      BY <2>9, <3>1, <3>2, <3>3 DEF AvanzarPuntero, TypeOK, LlamadaOK
  <2>10. ASSUME ElegirVictima PROVE TypeOK' /\ LlamadaOK'
    <3>1. puntero' \in Marcos
      BY <2>10, SiguienteMarco DEF ElegirVictima, TypeOK
    <3>. QED
      BY <2>10, <3>1, TipoCargar DEF ElegirVictima, EnVuelta, TypeOK
  <2>11. ASSUME TerminarVuelta PROVE TypeOK' /\ LlamadaOK'
    BY <2>11 DEF TerminarVuelta, TypeOK, LlamadaOK
  <2>12. ASSUME SinVictima PROVE TypeOK' /\ LlamadaOK'
    BY <2>12, TipoDescartar DEF SinVictima, TypeOK
  <2>13. ASSUME MarcarPagina PROVE TypeOK' /\ LlamadaOK'
    <3>1. frames' \in [Marcos -> Pagina] /\ paginas' \in Seq(Marcos)
      <4>1. CASE UNCHANGED <<frames, paginas>>
        BY <4>1 DEF TypeOK
      <4>2. ASSUME NEW i \in Marcos,
                   frames' = [frames EXCEPT ![i] = Usada(@)],
                   paginas' = IF algoritmo = "LRU"
                              THEN MoverAlFinal(MoverAlFinal(paginas, i), i)
                              ELSE paginas
            PROVE  frames' \in [Marcos -> Pagina] /\ paginas' \in Seq(Marcos)
        <5>1. Usada(frames[i]) \in Pagina
          BY TipoUsada DEF TypeOK
        <5>. QED
          BY <4>2, <5>1, MoverConserva DEF TypeOK
      <4>. QED
        BY <2>13, <4>1, <4>2 DEF MarcarPagina
    <3>. QED
      BY <2>13, <3>1, TiposDePagina
      DEF MarcarPagina, Volver, TypeOK, LlamadaOK, Fases
  <2>14. CASE UNCHANGED vars
    BY <2>14 DEF vars, barrido, TypeOK, LlamadaOK
  <2>. QED
    BY <2>1, <2>2, <2>3, <2>4, <2>5, <2>6, <2>7, <2>8, <2>9, <2>10, <2>11, <2>12,
       <2>13, <2>14
    DEF Next, Llamar, Continuar
<1>. QED
  BY <1>1, <1>2, PTL DEF Spec

-----------------------------------------------------------------------------
(* The LRU queue lists the occupied frames *)

\* The head of a sequence of distinct elements is not in its tail.
LEMMA ColaSinCabeza ==
  ASSUME NEW S, NEW s \in Seq(S), s # <<>>, IsInjective(s)
  PROVE  /\ Head(s) \notin ToSet(Tail(s))
         /\ ToSet(s) = ToSet(Tail(s)) \cup {Head(s)}
         /\ IsInjective(Tail(s))
<1>. DEFINE t == Tail(s)
<1>1. /\ t \in Seq(S) /\ Len(t) = Len(s) - 1
      /\ \A j \in 1 .. Len(s) - 1 : t[j] = s[j + 1]
  BY HeadTailProperties
<1>. HIDE DEF t
<1>2. /\ DOMAIN t = 1 .. Len(s) - 1 /\ DOMAIN s = 1 .. Len(s)
      /\ Len(s) \in Nat \ {0} /\ Head(s) = s[1]
  BY <1>1, LenProperties, EmptySeq
<1>3. Head(s) \notin ToSet(t)
  BY <1>1, <1>2 DEF ToSet, IsInjective
<1>4. ASSUME NEW j \in 1 .. Len(s) PROVE s[j] \in ToSet(t) \cup {Head(s)}
  <2>1. CASE j = 1
    BY <2>1, <1>2
  <2>2. CASE j # 1
    <3>1. j - 1 \in DOMAIN t /\ t[j - 1] = s[j]
      BY <2>2, <1>1, <1>2
    <3>. QED BY <3>1 DEF ToSet
  <2>. QED BY <2>1, <2>2
<1>5. ToSet(s) = ToSet(t) \cup {Head(s)}
  <2>1. ToSet(s) \subseteq ToSet(t) \cup {Head(s)}
    BY <1>2, <1>4 DEF ToSet
  <2>2. \A j \in DOMAIN t : t[j] = s[j + 1] /\ j + 1 \in DOMAIN s
    BY <1>1, <1>2
  <2>3. ToSet(t) \subseteq ToSet(s) /\ Head(s) \in ToSet(s)
    BY <1>2, <2>2 DEF ToSet
  <2>. QED BY <2>1, <2>3
<1>6. IsInjective(t)
  BY <1>1, <1>2 DEF IsInjective
<1>. QED
  BY <1>3, <1>5, <1>6 DEF t

\* Loading a block into an occupied frame leaves the set of occupied frames.
LEMMA CargarOcupa ==
  ASSUME TypeOK, NEW v \in Marcos, NEW cola, CargarEn(v, cola)
  PROVE  Ocupados' = Ocupados \cup {v}
<1>1. \A i \in Marcos : frames'[i].ocupado = (i = v \/ frames[i].ocupado)
  BY DEF CargarEn, PaginaCargada, TypeOK, Pagina
<1>. QED
  BY <1>1 DEF Ocupados

\* With LRU the queue holds each occupied frame exactly once, so a victim is
\* found whenever the cache is full and it is never a free frame.
THEOREM ColaSiempreExacta == Spec => []ColaExacta
<1>1. Init => ColaExacta
  BY DEF Init, ColaExacta, ToSet, Ocupados, PaginaLibre, IsInjective
<1>2. TypeOK /\ LlamadaOK /\ ColaExacta /\ [Next]_vars => ColaExacta'
  <2>. SUFFICES ASSUME TypeOK, LlamadaOK, ColaExacta, [Next]_vars,
                       algoritmo = "LRU"
                PROVE  ToSet(paginas)' = Ocupados' /\ IsInjective(paginas')
    BY CreacionFija DEF ColaExacta
  <2>. DEFINE Meta == ToSet(paginas)' = Ocupados' /\ IsInjective(paginas')
  <2>0. /\ paginas \in Seq(Marcos)
        /\ ToSet(paginas) = Ocupados /\ IsInjective(paginas)
    BY DEF TypeOK, ColaExacta
  <2>1. ASSUME NEW b \in Bloques, BuscarBloque(b) PROVE Meta
    BY <2>0, <2>1, MoverConserva DEF BuscarBloque, Ocupados
  <2>2. ASSUME NEW b \in Bloques, NEW c \in Buffers, AgregarEnLibre(b, c)
        PROVE  Meta
    <3>1. PICK i \in Marcos :
            /\ EsElMenor(i, Libres)
            /\ frames' = [frames EXCEPT ![i] = PaginaCargada(b, c)]
            /\ paginas' = IF algoritmo = "LRU" THEN Append(paginas, i) ELSE paginas
      BY <2>2 DEF AgregarEnLibre
    <3>2. i \notin Ocupados
      BY <3>1 DEF EsElMenor, Libres
    <3>3. Ocupados' = Ocupados \cup {i}
      BY <3>1 DEF Ocupados, PaginaCargada, TypeOK
    <3>. QED
      BY <2>0, <3>1, <3>2, <3>3, AgregarDistinto
  <2>3. ASSUME NEW b \in Bloques, NEW c \in Buffers,
               AgregarLleno(b, c) \/ ReemplazarBloque(b, c)
        PROVE  Meta
    BY <2>0, <2>3 DEF AgregarLleno, ReemplazarBloque, Ocupados
  <2>4. ASSUME NEW b \in Bloques, NEW m \in BOOLEAN, MarcarUsado(b, m)
        PROVE  Meta
    BY <2>0, <2>4 DEF MarcarUsado, Ocupados
  <2>5. ASSUME DestruirCache PROVE Meta
    BY <2>5 DEF DestruirCache, Ocupados, PaginaLibre, ToSet, IsInjective
  <2>6. ASSUME VictimaLRU PROVE Meta
    <3>1. CASE paginas # <<>> /\ CargarEn(Head(paginas), Tail(paginas))
      <4>1. Head(paginas) \in Marcos /\ Tail(paginas) \in Seq(Marcos)
        BY <2>0, <3>1, HeadTailProperties
      <4>2. /\ Head(paginas) \notin ToSet(Tail(paginas))
            /\ Ocupados = ToSet(Tail(paginas)) \cup {Head(paginas)}
            /\ IsInjective(Tail(paginas))
        BY <2>0, <3>1, ColaSinCabeza
      <4>3. paginas' = Append(Tail(paginas), Head(paginas))
        BY <3>1 DEF CargarEn
      <4>4. Ocupados' = Ocupados
        BY <3>1, <4>1, <4>2, CargarOcupa
      <4>. QED
        BY <4>1, <4>2, <4>3, <4>4, AgregarDistinto
    <3>2. CASE Descartar
      BY <2>0, <3>2 DEF Descartar, Ocupados
    <3>. QED BY <2>6, <3>1, <3>2 DEF VictimaLRU
  <2>7. ASSUME MarcarPagina PROVE Meta
    <3>1. CASE UNCHANGED <<frames, paginas>>
      BY <2>0, <3>1 DEF Ocupados
    <3>2. ASSUME NEW i \in Marcos,
                 frames' = [frames EXCEPT ![i] = Usada(@)],
                 paginas' = MoverAlFinal(MoverAlFinal(paginas, i), i)
          PROVE  Meta
      <4>1. Usada(frames[i]).ocupado = frames[i].ocupado
        BY UsadaConserva DEF TypeOK
      <4>2. Ocupados' = Ocupados
        BY <3>2, <4>1 DEF Ocupados, TypeOK
      <4>. QED
        BY <2>0, <3>2, <4>2, MoverConserva
    <3>. QED
      BY <2>7, <3>1, <3>2 DEF MarcarPagina
  <2>8. CASE UNCHANGED vars
    BY <2>0, <2>8 DEF vars, Ocupados
  <2>9. ~(AlgoritmoDesconocido \/ EmpezarBarrido) /\ fase # "barrido"
    BY DEF AlgoritmoDesconocido, EmpezarBarrido, LlamadaOK
  <2>10. ~(AvanzarPuntero \/ ElegirVictima \/ TerminarVuelta \/ SinVictima)
    BY <2>9 DEF AvanzarPuntero, ElegirVictima, TerminarVuelta, SinVictima, EnVuelta
  <2>. QED
    BY <2>1, <2>2, <2>3, <2>4, <2>5, <2>6, <2>7, <2>8, <2>9, <2>10
    DEF Next, Llamar, Continuar
<1>. QED
  BY <1>1, <1>2, TipoCorrecto, PTL DEF Spec

-----------------------------------------------------------------------------
(* The CLOCK-M sweep *)

SinUso(p) == [p EXCEPT !.bit_uso = FALSE]
EnClaseCero(p) == p.ocupado /\ ~p.bit_uso /\ ~p.bit_modificado

\* Frames the hand moves over from where the search began until it reaches i.
Recorrido(i) ==
  IF inicio.puntero <= i THEN i - inicio.puntero
  ELSE i + MaxFrames - inicio.puntero
Visitado(i) == Recorrido(i) < iteraciones

\* The inductive invariant of the search: the frames seen so far were not in
\* class (0,0) when it began and have lost their use bit; in the second lap they
\* were not even occupied.
BarridoOK ==
  fase = "barrido" =>
    /\ puntero = IF inicio.puntero + iteraciones < MaxFrames
                 THEN inicio.puntero + iteraciones
                 ELSE inicio.puntero + iteraciones - MaxFrames
    /\ segunda_pasada <=> vueltas > 0
    /\ \A i \in Marcos :
         /\ frames[i] = IF inicio.frames[i].ocupado /\ (vueltas > 0 \/ Visitado(i))
                        THEN SinUso(inicio.frames[i]) ELSE inicio.frames[i]
         /\ vueltas > 0 \/ Visitado(i) => ~EnClaseCero(inicio.frames[i])
         /\ vueltas = 1 /\ Visitado(i) => ~inicio.frames[i].ocupado
         /\ vueltas = 2 => ~inicio.frames[i].ocupado
    /\ vueltas = 2 => iteraciones = 0

LEMMA CamposSinUso ==
  ASSUME NEW p \in Pagina
  PROVE  /\ SinUso(p) \in Pagina
         /\ SinUso(p).ocupado = p.ocupado
         /\ SinUso(p).bit_modificado = p.bit_modificado
         /\ ~SinUso(p).bit_uso
         /\ SinUso(p).contenido = p.contenido
  BY DEF SinUso, Pagina

\* The hand stands on the frame it has yet to visit, and visits it next.
LEMMA PunteroNoVisitado ==
  ASSUME TypeOK, BarridoOK, fase = "barrido", iteraciones < MaxFrames
  PROVE  /\ Recorrido(puntero) = iteraciones
         /\ \A i \in Marcos : Recorrido(i) = iteraciones => i = puntero
         /\ \A i \in Marcos : Recorrido(i) \in 0 .. MaxFrames - 1
<1>1. /\ inicio.puntero \in 0 .. MaxFrames - 1 /\ iteraciones \in Nat
      /\ puntero = IF inicio.puntero + iteraciones < MaxFrames
                   THEN inicio.puntero + iteraciones
                   ELSE inicio.puntero + iteraciones - MaxFrames
  BY DEF TypeOK, BarridoOK, Marcos
<1>. QED
  BY <1>1 DEF Recorrido, Marcos

\* An iteration without victim preserves the invariant of the search.
LEMMA AvanzarConserva ==
  ASSUME TypeOK, BarridoOK, AvanzarPuntero
  PROVE  BarridoOK'
<1>. DEFINE F == inicio.frames
<1>1. /\ fase = "barrido" /\ vueltas \in 0 .. 1 /\ iteraciones < MaxFrames
      /\ puntero \in Marcos /\ iteraciones \in Nat
      /\ inicio' = inicio /\ vueltas' = vueltas /\ fase' = fase
      /\ iteraciones' = iteraciones + 1
      /\ segunda_pasada' = segunda_pasada
  BY DEF AvanzarPuntero, EnVuelta, TypeOK
<1>2. /\ ~Visitado(puntero)
      /\ \A i \in Marcos : Visitado(i)' <=> Visitado(i) \/ i = puntero
  <2>1. \A i \in Marcos : Recorrido(i)' = Recorrido(i)
    BY <1>1 DEF Recorrido
  <2>. QED
    BY <1>1, <2>1, PunteroNoVisitado DEF Visitado
<1>3. inicio.puntero \in Marcos /\ F \in [Marcos -> Pagina]
  BY DEF TypeOK
<1>4. puntero' = IF inicio.puntero + iteraciones' < MaxFrames
                 THEN inicio.puntero + iteraciones'
                 ELSE inicio.puntero + iteraciones' - MaxFrames
  BY <1>1, <1>3, SiguienteMarco DEF AvanzarPuntero, BarridoOK, Marcos
<1>5. \A i \in Marcos \ {puntero} : frames'[i] = frames[i]
  BY DEF AvanzarPuntero, TypeOK
<1>6. CASE vueltas = 0
  <2>1. frames[puntero] = F[puntero]
    BY <1>1, <1>2, <1>6 DEF BarridoOK
  <2>2. ~EnClaseCero(F[puntero])
    BY <2>1 DEF AvanzarPuntero, EsVictima, EnClaseCero
  <2>3. frames'[puntero] = IF F[puntero].ocupado THEN SinUso(F[puntero])
                           ELSE F[puntero]
    BY <1>1, <2>1 DEF AvanzarPuntero, SinUso, TypeOK
  <2>. QED
    BY <1>1, <1>2, <1>4, <1>5, <1>6, <2>2, <2>3 DEF BarridoOK
<1>7. CASE vueltas = 1
  <2>1. ~F[puntero].ocupado
    <3>. SUFFICES ASSUME F[puntero].ocupado PROVE FALSE
      OBVIOUS
    <3>1. frames[puntero] = SinUso(F[puntero]) /\ segunda_pasada
      BY <1>1, <1>7 DEF BarridoOK
    <3>2. EsVictima(frames[puntero])
      BY <1>1, <1>3, <3>1, CamposSinUso DEF EsVictima
    <3>. QED
      BY <3>2 DEF AvanzarPuntero
  <2>2. frames[puntero] = F[puntero]
    BY <1>1, <2>1 DEF BarridoOK
  <2>3. frames' = frames
    BY <2>1, <2>2 DEF AvanzarPuntero
  <2>. QED
    BY <1>1, <1>2, <1>4, <1>7, <2>1, <2>3 DEF BarridoOK
<1>. QED
  BY <1>1, <1>6, <1>7

\* So does the end of a lap.
LEMMA VueltaConserva ==
  ASSUME TypeOK, BarridoOK, TerminarVuelta
  PROVE  BarridoOK'
<1>1. /\ fase = "barrido" /\ vueltas \in 0 .. 1 /\ iteraciones = MaxFrames
      /\ inicio' = inicio /\ vueltas' = vueltas + 1 /\ fase' = fase
      /\ iteraciones' = 0 /\ segunda_pasada' /\ frames' = frames
      /\ puntero' = puntero
  BY DEF TerminarVuelta, TypeOK
<1>2. inicio.puntero \in Marcos
  BY DEF TypeOK
<1>3. \A i \in Marcos : Visitado(i) /\ ~Visitado(i)'
  BY <1>1, <1>2 DEF Visitado, Recorrido, Marcos
<1>4. puntero' = inicio.puntero
  BY <1>1, <1>2 DEF BarridoOK, Marcos
<1>5. CASE vueltas = 0
  BY <1>1, <1>2, <1>3, <1>4, <1>5 DEF BarridoOK, Marcos
<1>6. CASE vueltas = 1
  BY <1>1, <1>2, <1>3, <1>4, <1>6 DEF BarridoOK, Marcos
<1>. QED
  BY <1>1, <1>5, <1>6

\* The search keeps its invariant from beginning to end.
THEOREM BarridoCorrecto == Spec => []BarridoOK
<1>1. Init => BarridoOK
  BY DEF Init, BarridoOK
<1>2. TypeOK /\ LlamadaOK /\ BarridoOK /\ [Next]_vars => BarridoOK'
  <2>. SUFFICES ASSUME TypeOK, BarridoOK, [Next]_vars PROVE BarridoOK'
    OBVIOUS
  <2>1. CASE EmpezarBarrido
    <3>1. /\ inicio'.puntero = puntero /\ inicio'.frames = frames
          /\ iteraciones' = 0 /\ vueltas' = 0 /\ ~segunda_pasada'
          /\ frames' = frames /\ puntero' = puntero /\ puntero \in Marcos
      BY <2>1 DEF EmpezarBarrido, TypeOK
    <3>2. \A i \in Marcos : ~Visitado(i)'
      BY <3>1 DEF Visitado, Recorrido, Marcos
    <3>. QED
      BY <3>1, <3>2 DEF BarridoOK, Marcos
  <2>2. CASE AvanzarPuntero
    BY <2>2, AvanzarConserva
  <2>3. CASE TerminarVuelta
    BY <2>3, VueltaConserva
  <2>4. CASE UNCHANGED vars
    BY <2>4 DEF vars, barrido, BarridoOK, Visitado, Recorrido
  <2>5. CASE Llamar \/ VictimaLRU \/ AlgoritmoDesconocido \/ ElegirVictima
             \/ SinVictima \/ MarcarPagina
    <3>1. fase' # "barrido"
      BY <2>5 DEF Llamar, BuscarBloque, AgregarEnLibre, AgregarLleno,
        ReemplazarBloque, MarcarUsado, DestruirCache, VictimaLRU,
        AlgoritmoDesconocido, ElegirVictima, SinVictima, MarcarPagina, CargarEn,
        Descartar, Volver
    <3>. QED
      BY <3>1 DEF BarridoOK
  <2>. QED
    BY <2>1, <2>2, <2>3, <2>4, <2>5 DEF Next, Continuar
<1>. QED
  BY <1>1, <1>2, TipoCorrecto, PTL DEF Spec

\* The two laps of CLOCK-M end without a victim only in an empty cache: the log
\* of worker_memoria.c l. 266 never has the cause it names.
THEOREM ClockSiempreEncuentra == Spec => []ClockNuncaFalla
<1>1. TypeOK /\ BarridoOK => ClockNuncaFalla
  <2>. SUFFICES ASSUME TypeOK, BarridoOK, fase = "barrido", vueltas = 2,
                       NEW i \in Marcos
                PROVE  ~frames[i].ocupado
    BY DEF ClockNuncaFalla, Ocupados
  <2>. QED
    BY DEF BarridoOK
<1>. QED
  BY <1>1, TipoCorrecto, BarridoCorrecto, PTL

-----------------------------------------------------------------------------
(* Buffers *)

\* A victim is an occupied frame, so loading into it frees the buffer it held and
\* nothing else.
LEMMA CargarSinFugas ==
  ASSUME TypeOK, LlamadaOK, SinFugas, fase \in {"victima", "barrido"},
         NEW v \in Ocupados, NEW cola, CargarEn(v, cola)
  PROVE  SinFugas'
<1>. DEFINE c == llamada.contenido
<1>1. /\ v \in Marcos /\ fase' = "libre"
      /\ vivos' = vivos \ {frames[v].contenido}
      /\ \A i \in Marcos : frames'[i] = IF i = v
                                    THEN PaginaCargada(llamada.bloque, c)
                                    ELSE frames[i]
  BY DEF CargarEn, Volver, Ocupados, TypeOK
<1>2. Ocupados' = Ocupados
  BY <1>1, CargarOcupa
<1>3. frames'[v].contenido = c
  BY <1>1 DEF PaginaCargada
<1>4. /\ vivos = {frames[i].contenido : i \in Ocupados} \cup {c}
      /\ \A i, j \in Ocupados : frames[i].contenido = frames[j].contenido => i = j
      /\ \A i \in Ocupados : frames[i].contenido # c
  BY DEF SinFugas, EnCurso
<1>5. Ocupados \subseteq Marcos
  BY DEF Ocupados
<1>6. vivos' = {frames'[i].contenido : i \in Ocupados}
  <2>1. \A x : x \in vivos' <=>
               x = c \/ \E i \in Ocupados : i # v /\ x = frames[i].contenido
    BY <1>1, <1>4
  <2>2. \A x : x \in {frames'[i].contenido : i \in Ocupados} <=>
               x = c \/ \E i \in Ocupados : i # v /\ x = frames[i].contenido
    BY <1>1, <1>3, <1>5
  <2>. QED BY <2>1, <2>2
<1>7. EnCurso' = {}
  BY <1>1 DEF EnCurso
<1>8. \A i, j \in Ocupados : frames'[i].contenido = frames'[j].contenido => i = j
  BY <1>1, <1>3, <1>4, <1>5
<1>. QED
  BY <1>2, <1>6, <1>7, <1>8 DEF SinFugas

\* A rejected block's buffer is freed and belonged to no frame.
LEMMA DescartarSinFugas ==
  ASSUME SinFugas, fase \in {"victima", "barrido"}, Descartar
  PROVE  SinFugas'
<1>1. /\ Ocupados' = Ocupados /\ frames' = frames /\ EnCurso' = {}
      /\ vivos' = vivos \ {llamada.contenido} /\ EnCurso = {llamada.contenido}
  BY DEF Descartar, Volver, Ocupados, EnCurso
<1>. QED
  BY <1>1 DEF SinFugas

\* A step that keeps the occupied frames, their buffers, the live buffers and
\* the buffer in progress keeps the property.
LEMMA QuietoSinFugas ==
  ASSUME SinFugas, Ocupados' = Ocupados, vivos' = vivos, EnCurso' = EnCurso,
         \A i \in Ocupados : frames'[i].contenido = frames[i].contenido
  PROVE  SinFugas'
<1>1. {frames'[i].contenido : i \in Ocupados} = {frames[i].contenido : i \in Ocupados}
  OBVIOUS
<1>. QED
  BY <1>1 DEF SinFugas

\* No buffer handed to the cache leaks, is freed twice or is shared by two frames,
\* whatever the algorithm and the order of the calls.
THEOREM SiempreSinFugas == Spec => []SinFugas
<1>1. Init => SinFugas
  BY DEF Init, SinFugas, EnCurso, Ocupados, PaginaLibre
<1>2. TypeOK /\ LlamadaOK /\ ColaExacta /\ SinFugas /\ [Next]_vars => SinFugas'
  <2>. SUFFICES ASSUME TypeOK, LlamadaOK, ColaExacta, SinFugas, [Next]_vars
                PROVE  SinFugas'
    OBVIOUS
  <2>1. ASSUME NEW b \in Bloques, BuscarBloque(b) PROVE SinFugas'
    BY <2>1, QuietoSinFugas DEF BuscarBloque, Ocupados, EnCurso
  <2>2. ASSUME NEW b \in Bloques, NEW c \in Buffers, AgregarEnLibre(b, c)
        PROVE  SinFugas'
    <3>1. PICK i \in Marcos :
            /\ EsElMenor(i, Libres)
            /\ frames' = [frames EXCEPT ![i] = PaginaCargada(b, c)]
      BY <2>2 DEF AgregarEnLibre
    <3>2. i \notin Ocupados
      BY <3>1 DEF EsElMenor, Libres
    <3>3. Ocupados' = Ocupados \cup {i}
      BY <3>1 DEF Ocupados, PaginaCargada, TypeOK
    <3>4. /\ frames'[i].contenido = c
          /\ \A j \in Ocupados : frames'[j].contenido = frames[j].contenido
      BY <3>1, <3>2 DEF PaginaCargada, TypeOK, Ocupados
    <3>5. EnCurso = {} /\ EnCurso' = {} /\ vivos' = vivos \cup {c} /\ c \notin vivos
      BY <2>2 DEF AgregarEnLibre, EnCurso
    <3>6. \A j \in Ocupados : frames[j].contenido # c
      BY <3>5 DEF SinFugas
    <3>7. vivos' = {frames'[j].contenido : j \in Ocupados'}
      BY <3>3, <3>4, <3>5 DEF SinFugas
    <3>8. \A j, k \in Ocupados' : frames'[j].contenido = frames'[k].contenido => j = k
      BY <3>3, <3>4, <3>6 DEF SinFugas
    <3>. QED
      BY <3>5, <3>7, <3>8 DEF SinFugas
  <2>3. ASSUME NEW b \in Bloques, NEW c \in Buffers,
               AgregarLleno(b, c) \/ ReemplazarBloque(b, c)
        PROVE  SinFugas'
    <3>1. /\ EnCurso = {} /\ EnCurso' = {c} /\ c \notin vivos
          /\ vivos' = vivos \cup {c} /\ frames' = frames /\ Ocupados' = Ocupados
      BY <2>3 DEF AgregarLleno, ReemplazarBloque, EnCurso, Ocupados
    <3>. QED
      BY <3>1 DEF SinFugas
  <2>4. ASSUME NEW b \in Bloques, NEW m \in BOOLEAN, MarcarUsado(b, m)
        PROVE  SinFugas'
    BY <2>4, QuietoSinFugas DEF MarcarUsado, Ocupados, EnCurso
  <2>5. ASSUME DestruirCache PROVE SinFugas'
    <3>1. Ocupados' = {} /\ EnCurso' = {} /\ EnCurso = {}
      BY <2>5 DEF DestruirCache, Ocupados, PaginaLibre, EnCurso
    <3>2. vivos' = {}
      BY <2>5, <3>1 DEF DestruirCache, SinFugas
    <3>. QED
      BY <3>1, <3>2 DEF SinFugas
  <2>6. ASSUME VictimaLRU PROVE SinFugas'
    <3>1. CASE paginas # <<>> /\ CargarEn(Head(paginas), Tail(paginas))
      <4>1. Head(paginas) \in Ocupados
        <5>1. 1 \in DOMAIN paginas /\ Head(paginas) = paginas[1]
          BY <3>1, LenProperties, EmptySeq DEF TypeOK
        <5>. QED
          BY <2>6, <5>1 DEF VictimaLRU, ColaExacta, ToSet
      <4>. QED
        BY <2>6, <3>1, <4>1, CargarSinFugas DEF VictimaLRU
    <3>2. CASE Descartar
      BY <2>6, <3>2, DescartarSinFugas DEF VictimaLRU
    <3>. QED BY <2>6, <3>1, <3>2 DEF VictimaLRU
  <2>7. CASE AlgoritmoDesconocido \/ SinVictima
    BY <2>7, DescartarSinFugas DEF AlgoritmoDesconocido, SinVictima
  <2>8. CASE EmpezarBarrido \/ TerminarVuelta
    BY <2>8, QuietoSinFugas DEF EmpezarBarrido, TerminarVuelta, Ocupados, EnCurso
  <2>9. CASE AvanzarPuntero
    <3>1. \A i \in Marcos : /\ frames'[i].ocupado = frames[i].ocupado
                             /\ frames'[i].contenido = frames[i].contenido
      <4>1. SinUso(frames[puntero]) \in Pagina /\ frames[puntero] \in Pagina
        BY CamposSinUso DEF TypeOK
      <4>2. \A i \in Marcos : \/ frames'[i] = frames[i]
                               \/ frames'[i] = SinUso(frames[i])
        BY <2>9 DEF AvanzarPuntero, SinUso, TypeOK
      <4>. QED
        BY <4>1, <4>2, CamposSinUso DEF TypeOK
    <3>2. Ocupados' = Ocupados
      BY <3>1 DEF Ocupados
    <3>. QED
      BY <2>9, <3>1, <3>2, QuietoSinFugas DEF AvanzarPuntero, EnCurso, Ocupados
  <2>10. CASE ElegirVictima
    <3>1. puntero \in Ocupados
      BY <2>10 DEF ElegirVictima, EsVictima, Ocupados, TypeOK
    <3>. QED
      BY <2>10, <3>1, CargarSinFugas DEF ElegirVictima, EnVuelta
  <2>11. CASE MarcarPagina
    <3>1. /\ vivos' = vivos /\ EnCurso' = {} /\ EnCurso = {}
      BY <2>11 DEF MarcarPagina, Volver, EnCurso
    <3>2. \A i \in Marcos : /\ frames'[i].ocupado = frames[i].ocupado
                             /\ frames'[i].contenido = frames[i].contenido
      <4>1. \A i \in Marcos : frames'[i] = frames[i] \/ frames'[i] = Usada(frames[i])
        BY <2>11 DEF MarcarPagina, TypeOK
      <4>. QED
        BY <4>1, UsadaConserva DEF TypeOK
    <3>3. Ocupados' = Ocupados
      BY <3>2 DEF Ocupados
    <3>. QED
      BY <3>1, <3>2, <3>3, QuietoSinFugas DEF Ocupados
  <2>12. CASE UNCHANGED vars
    BY <2>12, QuietoSinFugas DEF vars, Ocupados, EnCurso
  <2>. QED
    BY <2>1, <2>2, <2>3, <2>4, <2>5, <2>6, <2>7, <2>8, <2>9, <2>10, <2>11, <2>12
    DEF Next, Llamar, Continuar
<1>. QED
  BY <1>1, <1>2, TipoCorrecto, ColaSiempreExacta, PTL DEF Spec

-----------------------------------------------------------------------------
(* The LRU queue as an LRU cache of blocks *)

\* The blocks of a queue of frames.
Bloque(F, cola) == [k \in DOMAIN cola |-> F[cola[k]].id_bloque]

\* They are as many as the queue is long, in the order of the queue.
LEMMA BloquesDeCola ==
  ASSUME NEW F \in [Marcos -> Pagina], NEW cola \in Seq(Marcos)
  PROVE  /\ Bloque(F, cola) \in Seq(Bloques \cup {Nulo})
         /\ Len(Bloque(F, cola)) = Len(cola)
         /\ DOMAIN Bloque(F, cola) = 1 .. Len(cola)
         /\ \A k \in 1 .. Len(cola) : Bloque(F, cola)[k] = F[cola[k]].id_bloque
<1>1. Len(cola) \in Nat /\ DOMAIN cola = 1 .. Len(cola)
  BY LenProperties
<1>2. \A k \in 1 .. Len(cola) : F[cola[k]].id_bloque \in Bloques \cup {Nulo}
  <2>. SUFFICES ASSUME NEW k \in 1 .. Len(cola)
                PROVE  F[cola[k]].id_bloque \in Bloques \cup {Nulo}
    OBVIOUS
  <2>1. F[cola[k]] \in Pagina
    BY <1>1, ElementOfSeq
  <2>. QED BY <2>1 DEF Pagina
<1>. QED
  BY <1>1, <1>2 DEF Bloque

\* Two sets of frames that hold the same blocks where the queue points show the
\* same order.
LEMMA BloquesIguales ==
  ASSUME NEW F, NEW G, NEW cola \in Seq(Marcos),
         \A i \in ToSet(cola) : F[i].id_bloque = G[i].id_bloque
  PROVE  Bloque(F, cola) = Bloque(G, cola)
  BY DEF Bloque, ToSet

\* Loading a page at the end of the queue appends its block.
LEMMA BloquesAgregar ==
  ASSUME NEW F \in [Marcos -> Pagina], NEW cola \in Seq(Marcos), NEW i \in Marcos
  PROVE  Bloque(F, Append(cola, i)) = Append(Bloque(F, cola), F[i].id_bloque)
<1>. DEFINE c == Append(cola, i)
            o == Bloque(F, cola)
            s == Append(o, F[i].id_bloque)
<1>1. /\ c \in Seq(Marcos) /\ Len(c) = Len(cola) + 1 /\ c[Len(cola) + 1] = i
      /\ \A j \in 1 .. Len(cola) : c[j] = cola[j]
  BY AppendProperties
<1>2. /\ o \in Seq(Bloques \cup {Nulo}) /\ Len(o) = Len(cola)
      /\ \A k \in 1 .. Len(cola) : o[k] = F[cola[k]].id_bloque
  BY BloquesDeCola
<1>3. F[i].id_bloque \in Bloques \cup {Nulo}
  BY DEF Pagina
<1>. HIDE DEF c, o
<1>4. /\ s \in Seq(Bloques \cup {Nulo}) /\ Len(s) = Len(o) + 1
      /\ s[Len(o) + 1] = F[i].id_bloque
      /\ \A j \in 1 .. Len(o) : s[j] = o[j]
  BY <1>2, <1>3, AppendProperties
<1>5. /\ Bloque(F, c) \in Seq(Bloques \cup {Nulo}) /\ Len(Bloque(F, c)) = Len(c)
      /\ \A k \in 1 .. Len(c) : Bloque(F, c)[k] = F[c[k]].id_bloque
  BY <1>1, BloquesDeCola
<1>. HIDE DEF s
<1>6. Len(cola) \in Nat
  BY LenProperties
<1>7. \A k \in 1 .. Len(cola) + 1 : Bloque(F, c)[k] = s[k]
  BY <1>1, <1>2, <1>4, <1>5, <1>6
<1>8. Bloque(F, c) = s
  BY <1>1, <1>2, <1>4, <1>5, <1>7, SeqEqual
<1>. QED
  BY <1>8 DEF c, o, s

\* Taking the first page out of the queue drops the first block.
LEMMA BloquesResto ==
  ASSUME NEW F \in [Marcos -> Pagina], NEW cola \in Seq(Marcos), cola # <<>>
  PROVE  Bloque(F, Tail(cola)) = Tail(Bloque(F, cola))
<1>. DEFINE c == Tail(cola)
            o == Bloque(F, cola)
            s == Tail(o)
<1>1. /\ o \in Seq(Bloques \cup {Nulo}) /\ Len(o) = Len(cola)
      /\ \A k \in 1 .. Len(cola) : o[k] = F[cola[k]].id_bloque
  BY BloquesDeCola
<1>2. /\ c \in Seq(Marcos) /\ Len(c) = Len(cola) - 1 /\ Len(cola) \in Nat \ {0}
      /\ \A j \in 1 .. Len(c) : c[j] = cola[j + 1]
  BY HeadTailProperties, LenProperties, EmptySeq
<1>. HIDE DEF c, o
<1>3. o # <<>>
  BY <1>1, <1>2, EmptySeq
<1>4. /\ s \in Seq(Bloques \cup {Nulo}) /\ Len(s) = Len(o) - 1
      /\ \A j \in 1 .. Len(s) : s[j] = o[j + 1]
  BY <1>1, <1>3, HeadTailProperties
<1>. HIDE DEF s
<1>5. /\ Bloque(F, c) \in Seq(Bloques \cup {Nulo}) /\ Len(Bloque(F, c)) = Len(c)
      /\ \A k \in 1 .. Len(c) : Bloque(F, c)[k] = F[c[k]].id_bloque
  BY <1>2, BloquesDeCola
<1>6. ASSUME NEW k \in 1 .. Len(c) PROVE Bloque(F, c)[k] = s[k]
  <2>1. k \in 1 .. Len(s) /\ k + 1 \in 1 .. Len(cola)
    BY <1>1, <1>2, <1>4
  <2>2. s[k] = F[cola[k + 1]].id_bloque
    BY <1>1, <1>4, <2>1
  <2>3. c[k] = cola[k + 1]
    BY <1>2
  <2>. QED
    BY <1>5, <2>2, <2>3
<1>7. Bloque(F, c) = s
  BY <1>1, <1>2, <1>4, <1>5, <1>6, SeqEqual
<1>. QED
  BY <1>7 DEF c, o, s

\* Taking page k out of the queue takes its block out of the order.
LEMMA BloquesQuitar ==
  ASSUME NEW F \in [Marcos -> Pagina], NEW cola \in Seq(Marcos),
         NEW k \in 1 .. Len(cola)
  PROVE  Bloque(F, RemoveAt(cola, k)) = RemoveAt(Bloque(F, cola), k)
<1>. DEFINE c == RemoveAt(cola, k)
            o == Bloque(F, cola)
            s == RemoveAt(o, k)
<1>1. /\ o \in Seq(Bloques \cup {Nulo}) /\ Len(o) = Len(cola)
      /\ \A j \in 1 .. Len(cola) : o[j] = F[cola[j]].id_bloque
  BY BloquesDeCola
<1>2. /\ c \in Seq(Marcos) /\ Len(c) = Len(cola) - 1 /\ Len(cola) \in Nat
      /\ \A j \in 1 .. Len(cola) - 1 : c[j] = IF j < k THEN cola[j] ELSE cola[j + 1]
  BY QuitarPosicion, LenProperties
<1>. HIDE DEF c, o
<1>4. /\ s \in Seq(Bloques \cup {Nulo}) /\ Len(s) = Len(o) - 1
      /\ \A j \in 1 .. Len(o) - 1 : s[j] = IF j < k THEN o[j] ELSE o[j + 1]
  <2>1. k \in 1 .. Len(o)
    BY <1>1
  <2>. QED
    BY <1>1, <2>1, QuitarPosicion
<1>. HIDE DEF s
<1>5. /\ Bloque(F, c) \in Seq(Bloques \cup {Nulo}) /\ Len(Bloque(F, c)) = Len(c)
      /\ \A j \in 1 .. Len(c) : Bloque(F, c)[j] = F[c[j]].id_bloque
  BY <1>2, BloquesDeCola
<1>6. ASSUME NEW j \in 1 .. Len(c) PROVE Bloque(F, c)[j] = s[j]
  <2>. DEFINE m == IF j < k THEN j ELSE j + 1
  <2>1. /\ j \in 1 .. Len(cola) - 1 /\ j \in 1 .. Len(o) - 1
        /\ m \in 1 .. Len(cola)
    BY <1>1, <1>2
  <2>2. c[j] = cola[m] /\ s[j] = o[m]
    BY <1>2, <1>4, <2>1
  <2>3. o[m] = F[cola[m]].id_bloque
    BY <1>1, <2>1
  <2>. QED
    BY <1>5, <2>2, <2>3
<1>7. Bloque(F, c) = s
  BY <1>1, <1>2, <1>4, <1>5, <1>6, SeqEqual
<1>. QED
  BY <1>7 DEF c, o, s

\* Moving a page to the end of the queue moves its block to the end of the order.
LEMMA BloquesMover ==
  ASSUME NEW F \in [Marcos -> Pagina], NEW cola \in Seq(Marcos),
         NEW i \in Marcos, Contains(cola, i)
  PROVE  \E k \in 1 .. Len(cola) :
           /\ cola[k] = i
           /\ Bloque(F, MoverAlFinal(cola, i)) =
                Append(RemoveAt(Bloque(F, cola), k), F[i].id_bloque)
<1>1. PICK k \in 1 .. Len(cola) :
        cola[k] = i /\ RemoveFirst(cola, i) = RemoveAt(cola, k)
  BY QuitarPrimera
<1>2. MoverAlFinal(cola, i) = Append(RemoveAt(cola, k), i)
  BY <1>1 DEF MoverAlFinal
<1>3. RemoveAt(cola, k) \in Seq(Marcos)
  BY QuitarPosicion
<1>4. Bloque(F, MoverAlFinal(cola, i)) =
        Append(Bloque(F, RemoveAt(cola, k)), F[i].id_bloque)
  BY <1>2, <1>3, BloquesAgregar
<1>. QED
  BY <1>1, <1>4, BloquesQuitar

\* Moving a page to the end a second time changes nothing (memoria_marcar_usado
\* moves it after memoria_buscar_bloque did, l. 168-170).
LEMMA MoverDosVeces ==
  ASSUME NEW cola \in Seq(Marcos), NEW i \in Marcos, IsInjective(cola)
  PROVE  MoverAlFinal(MoverAlFinal(cola, i), i) = MoverAlFinal(cola, i)
<1>1. CASE ~Contains(cola, i)
  BY <1>1 DEF MoverAlFinal
<1>2. CASE Contains(cola, i)
  <2>1. PICK k \in 1 .. Len(cola) :
          cola[k] = i /\ RemoveFirst(cola, i) = RemoveAt(cola, k)
    BY <1>2, QuitarPrimera
  <2>. DEFINE r == RemoveAt(cola, k)
              m == Append(r, i)
  <2>2. r \in Seq(Marcos)
    BY QuitarPosicion
  <2>3. MoverAlFinal(cola, i) = m
    BY <1>2, <2>1 DEF MoverAlFinal
  <2>. HIDE DEF r
  <2>4. /\ m \in Seq(Marcos) /\ Len(m) = Len(r) + 1 /\ m[Len(r) + 1] = i
        /\ \A j \in 1 .. Len(r) : m[j] = r[j]
    BY <2>2, AppendProperties
  <2>5. IsInjective(m)
    BY <2>3, MoverConserva
  <2>. HIDE DEF m
  <2>6. /\ DOMAIN m = 1 .. Len(r) + 1 /\ Len(r) \in Nat
        /\ Len(r) + 1 \in 1 .. Len(m)
    BY <2>2, <2>4, LenProperties
  <2>7. Contains(m, i)
    BY <2>4, <2>6 DEF Contains
  <2>8. PICK l \in 1 .. Len(m) : m[l] = i /\ RemoveFirst(m, i) = RemoveAt(m, l)
    BY <2>4, <2>7, QuitarPrimera
  <2>9. l = Len(m)
    BY <2>4, <2>5, <2>6, <2>8 DEF IsInjective
  <2>. DEFINE q == RemoveAt(m, l)
  <2>10. /\ q \in Seq(Marcos) /\ Len(q) = Len(m) - 1
         /\ \A j \in 1 .. Len(m) - 1 : q[j] = IF j < l THEN m[j] ELSE m[j + 1]
    BY <2>4, QuitarPosicion
  <2>. HIDE DEF q
  <2>11. Len(q) = Len(r) /\ \A j \in 1 .. Len(r) : q[j] = r[j]
    BY <2>4, <2>6, <2>9, <2>10
  <2>12. q = r
    BY <2>2, <2>10, <2>11, SeqEqual
  <2>13. MoverAlFinal(m, i) = Append(r, i)
    BY <2>7, <2>8, <2>12 DEF MoverAlFinal, q
  <2>. QED
    BY <2>3, <2>13 DEF m
<1>. QED BY <1>1, <1>2

\* Marking a page does not change the block it holds.
LEMMA UsadaBloque ==
  ASSUME NEW p \in Pagina
  PROVE  Usada(p).id_bloque = p.id_bloque
  BY DEF Usada, ConUso, Pagina

\* With any other algorithm nothing enters the queue; a page is marked under the
\* name of a block.
ColaOciosa ==
  /\ algoritmo # "LRU" => paginas = <<>>
  /\ fase = "marcar" => llamada.bloque \in Bloques

\* (See ColaOciosa.)
THEOREM ColaSiempreOciosa == Spec => []ColaOciosa
<1>1. Init => ColaOciosa
  BY DEF Init, ColaOciosa
<1>2. LlamadaOK /\ ColaOciosa /\ [Next]_vars => ColaOciosa'
  <2>. SUFFICES ASSUME LlamadaOK, ColaOciosa, [Next]_vars,
                       algoritmo' = algoritmo
                PROVE  ColaOciosa'
    BY CreacionFija
  <2>. USE DEF ColaOciosa
  <2>1. ASSUME NEW b \in Bloques, BuscarBloque(b) PROVE ColaOciosa'
    BY <2>1 DEF BuscarBloque
  <2>2. ASSUME NEW b \in Bloques, NEW c \in Buffers, AgregarEnLibre(b, c)
        PROVE  ColaOciosa'
    BY <2>2 DEF AgregarEnLibre
  <2>3. ASSUME NEW b \in Bloques, NEW c \in Buffers,
               AgregarLleno(b, c) \/ ReemplazarBloque(b, c)
        PROVE  ColaOciosa'
    BY <2>3 DEF AgregarLleno, ReemplazarBloque
  <2>4. ASSUME NEW b \in Bloques, NEW m \in BOOLEAN, MarcarUsado(b, m)
        PROVE  ColaOciosa'
    <3>1. llamada'.bloque = b /\ paginas' = paginas
      BY <2>4 DEF MarcarUsado
    <3>. QED BY <3>1
  <2>5. CASE DestruirCache
    BY <2>5 DEF DestruirCache
  <2>6. CASE VictimaLRU
    BY <2>6 DEF VictimaLRU, CargarEn, Descartar, Volver
  <2>7. CASE AlgoritmoDesconocido \/ SinVictima
    BY <2>7 DEF AlgoritmoDesconocido, SinVictima, Descartar, Volver
  <2>8. CASE EmpezarBarrido \/ AvanzarPuntero \/ TerminarVuelta
    BY <2>8 DEF EmpezarBarrido, AvanzarPuntero, EnVuelta, TerminarVuelta
  <2>9. CASE ElegirVictima
    BY <2>9 DEF ElegirVictima, EnVuelta, LlamadaOK, CargarEn, Volver
  <2>10. CASE MarcarPagina
    BY <2>10 DEF MarcarPagina, Volver
  <2>11. CASE UNCHANGED vars
    BY <2>11 DEF vars
  <2>. QED
    BY <2>1, <2>2, <2>3, <2>4, <2>5, <2>6, <2>7, <2>8, <2>9, <2>10, <2>11
    DEF Next, Llamar, Continuar
<1>. QED
  BY <1>1, <1>2, TipoCorrecto, PTL DEF Spec

\* While a frame is free the queue is shorter than the cache.
LEMMA ColaCorta ==
  ASSUME NEW cola \in Seq(Marcos), IsInjective(cola), NEW i \in Marcos,
         i \notin ToSet(cola)
  PROVE  Len(cola) < MaxFrames
<1>. DEFINE S == 1 .. Len(cola)
            T == Marcos \ {i}
<1>1. Len(cola) \in Nat /\ DOMAIN cola = S
  BY LenProperties
<1>2. IsFiniteSet(S) /\ Cardinality(S) = Len(cola)
  BY <1>1, FS_Interval
<1>3. IsFiniteSet(Marcos) /\ Cardinality(Marcos) = MaxFrames
  BY FS_Interval DEF Marcos
<1>4. IsFiniteSet(T) /\ Cardinality(T) = MaxFrames - 1
  BY <1>3, FS_RemoveElement
<1>5. cola \in [S -> T]
  BY <1>1, ElementOfSeq DEF ToSet
<1>. HIDE DEF S, T
<1>6. ~(Cardinality(T) < Cardinality(S))
  <2>. SUFFICES ASSUME Cardinality(T) < Cardinality(S) PROVE FALSE
    OBVIOUS
  <2>1. \E x, y \in S : x # y /\ cola[x] = cola[y]
    BY <1>2, <1>4, <1>5, FS_PigeonHole
  <2>. QED
    BY <1>1, <2>1 DEF IsInjective
<1>. QED
  BY <1>1, <1>2, <1>4, <1>6

\* The order the abstract cache sees is the one of the queue's blocks.
LEMMA OrdenEsBloque ==
  OrdenDeUso = Bloque(frames, paginas) /\ OrdenDeUso' = Bloque(frames', paginas')
  BY DEF OrdenDeUso, Bloque

\* A page of the queue moved to its end by a call that names its block is a use
\* of that block.
LEMMA MoverUsa ==
  ASSUME TypeOK, NEW i \in Marcos, Contains(paginas, i),
         NEW b \in Bloques, frames[i].id_bloque = b,
         paginas' = MoverAlFinal(paginas, i),
         \A j \in ToSet(paginas) : frames'[j].id_bloque = frames[j].id_bloque
  PROVE  LRU!Servir("usar", b) => LRU!Next
<1>1. PICK k \in 1 .. Len(paginas) :
        /\ paginas[k] = i
        /\ Bloque(frames, paginas') = Append(RemoveAt(Bloque(frames, paginas), k), b)
  BY BloquesMover DEF TypeOK
<1>2. paginas' \in Seq(Marcos) /\ ToSet(paginas') = ToSet(paginas)
  BY MoverConserva DEF TypeOK
<1>3. OrdenDeUso' = Bloque(frames, paginas')
  BY <1>2, OrdenEsBloque, BloquesIguales
<1>4. k \in DOMAIN OrdenDeUso /\ OrdenDeUso[k] = b
  BY <1>1, OrdenEsBloque, BloquesDeCola DEF TypeOK
<1>. HIDE DEF OrdenDeUso
<1>5. OrdenDeUso' = Append(RemoveAt(OrdenDeUso, k), b)
  BY <1>1, <1>3, OrdenEsBloque
<1>6. LRU!Servir("usar", b) => LRU!Usar(b)
  BY <1>4, <1>5 DEF LRU!Usar, LRU!RemoveAt, RemoveAt
<1>. QED
  BY <1>6 DEF LRU!Next

\* A step that leaves the queue alone and the blocks it points to is not seen.
LEMMA QuietoLRU ==
  ASSUME TypeOK, paginas' = paginas,
         \A j \in ToSet(paginas) : frames'[j].id_bloque = frames[j].id_bloque
  PROVE  OrdenDeUso' = OrdenDeUso
  BY OrdenEsBloque, BloquesIguales DEF TypeOK

\* A lookup that hits is a use of the block it asks for.
LEMMA BuscarRefinaLRU ==
  ASSUME TypeOK, ColaExacta, NEW b \in Bloques, BuscarBloque(b),
         LRU!Servir("usar", b)
  PROVE  LRU!Next
<1>1. PICK i \in Marcos : /\ EsElMenor(i, ConBloque(b))
                          /\ paginas' = MoverAlFinal(paginas, i)
  BY DEF BuscarBloque
<1>2. i \in Ocupados /\ frames[i].id_bloque = b
  BY <1>1 DEF EsElMenor, ConBloque
<1>3. algoritmo = "LRU" /\ frames' = frames
  BY DEF BuscarBloque
<1>4. Contains(paginas, i)
  BY <1>2, <1>3 DEF ColaExacta, ToSet, Contains
<1>. QED
  BY <1>1, <1>2, <1>3, <1>4, MoverUsa

\* A block that takes a free frame is loaded while the cache is not full.
LEMMA AgregarRefinaLRU ==
  ASSUME TypeOK, ColaExacta, algoritmo = "LRU", NEW b \in Bloques,
         NEW c \in Buffers, AgregarEnLibre(b, c), LRU!Servir("traer", b)
  PROVE  LRU!Next
<1>1. PICK i \in Marcos :
        /\ EsElMenor(i, Libres)
        /\ frames' = [frames EXCEPT ![i] = PaginaCargada(b, c)]
        /\ paginas' = IF algoritmo = "LRU" THEN Append(paginas, i) ELSE paginas
  BY DEF AgregarEnLibre
<1>2. i \notin ToSet(paginas)
  BY <1>1 DEF ColaExacta, EsElMenor, Libres
<1>3. paginas \in Seq(Marcos) /\ IsInjective(paginas)
  BY DEF TypeOK, ColaExacta
<1>4. Len(paginas) < MaxFrames
  BY <1>2, <1>3, ColaCorta
<1>5. Len(OrdenDeUso) < MaxFrames
  BY <1>3, <1>4, OrdenEsBloque, BloquesDeCola DEF TypeOK
<1>6. /\ frames' \in [Marcos -> Pagina] /\ frames'[i].id_bloque = b
      /\ \A j \in Marcos : j # i => frames'[j] = frames[j]
  BY <1>1, TiposDePagina DEF TypeOK, PaginaCargada
<1>7. OrdenDeUso' = Append(Bloque(frames', paginas), b)
  BY <1>1, <1>3, <1>6, OrdenEsBloque, BloquesAgregar
<1>8. \A j \in ToSet(paginas) : frames'[j].id_bloque = frames[j].id_bloque
  BY <1>2, <1>6 DEF ColaExacta, Ocupados
<1>9. OrdenDeUso' = Append(OrdenDeUso, b)
  BY <1>3, <1>7, <1>8, OrdenEsBloque, BloquesIguales
<1>. QED
  BY <1>5, <1>9 DEF LRU!Next, LRU!Cargar

\* The replacement that takes the head of the queue evicts the oldest block.
LEMMA VictimaRefinaLRU ==
  ASSUME TypeOK, LlamadaOK, ColaExacta, VictimaLRU, paginas # <<>>,
         LRU!Servir("traer", llamada.bloque)
  PROVE  LRU!Next
<1>1. CargarEn(Head(paginas), Tail(paginas))
  BY DEF VictimaLRU
<1>. DEFINE v == Head(paginas)
            b == llamada.bloque
            c == Tail(paginas)
<1>2. /\ paginas \in Seq(Marcos) /\ IsInjective(paginas) /\ b \in Bloques
      /\ llamada.contenido \in Buffers /\ LRU!Servir("traer", b)
  BY DEF VictimaLRU, TypeOK, LlamadaOK, ColaExacta
<1>3. /\ v \in Marcos /\ v = paginas[1]
      /\ c \in Seq(Marcos) /\ Len(c) = Len(paginas) - 1
      /\ \A j \in 1 .. Len(c) : c[j] = paginas[j + 1]
      /\ Len(paginas) \in Nat \ {0} /\ DOMAIN paginas = 1 .. Len(paginas)
      /\ DOMAIN c = 1 .. Len(c)
  BY <1>2, HeadTailProperties, LenProperties, EmptySeq
<1>4. /\ frames' = [frames EXCEPT ![v] = PaginaCargada(b, llamada.contenido)]
      /\ paginas' = Append(c, v)
  BY <1>1 DEF CargarEn, VictimaLRU
<1>5. c = Tail(paginas)
  OBVIOUS
<1>. HIDE DEF v, c, b
<1>6. v \notin ToSet(c)
  BY <1>2, <1>3 DEF ToSet, IsInjective
<1>7. /\ frames' \in [Marcos -> Pagina] /\ frames'[v].id_bloque = b
      /\ \A j \in Marcos : j # v => frames'[j] = frames[j]
  BY <1>2, <1>3, <1>4, TiposDePagina DEF TypeOK, PaginaCargada
<1>8. OrdenDeUso' = Append(Bloque(frames', c), b)
  <2>1. Bloque(frames', Append(c, v)) = Append(Bloque(frames', c), frames'[v].id_bloque)
    BY <1>3, <1>7, BloquesAgregar
  <2>. QED
    BY <1>4, <1>7, <2>1, OrdenEsBloque
<1>9. \A j \in ToSet(c) : frames'[j].id_bloque = frames[j].id_bloque
  BY <1>3, <1>6, <1>7, ElementOfSeq DEF ToSet
<1>10. Bloque(frames', c) = Bloque(frames, c)
  BY <1>3, <1>9, BloquesIguales
<1>11. Bloque(frames, c) = Tail(OrdenDeUso)
  BY <1>2, <1>5, OrdenEsBloque, BloquesResto DEF TypeOK
<1>12. OrdenDeUso # <<>>
  BY <1>2, <1>3, OrdenEsBloque, BloquesDeCola, EmptySeq DEF TypeOK
<1>. QED
  BY <1>2, <1>8, <1>10, <1>11, <1>12 DEF LRU!Next, LRU!Reemplazar

\* A page marked is a use of the block the caller marks.
LEMMA MarcarRefinaLRU ==
  ASSUME TypeOK, ColaExacta, ColaOciosa, algoritmo = "LRU", MarcarPagina,
         ConBloque(llamada.bloque) # {}, LRU!Servir("usar", llamada.bloque)
  PROVE  LRU!Next
<1>1. PICK i \in Marcos :
        /\ EsElMenor(i, ConBloque(llamada.bloque))
        /\ frames' = [frames EXCEPT ![i] = Usada(@)]
        /\ paginas' = MoverAlFinal(MoverAlFinal(paginas, i), i)
  BY DEF MarcarPagina
<1>2. /\ i \in Ocupados /\ frames[i].id_bloque = llamada.bloque
      /\ llamada.bloque \in Bloques
  BY <1>1 DEF EsElMenor, ConBloque, ColaOciosa, MarcarPagina
<1>3. \A j \in Marcos : frames'[j].id_bloque = frames[j].id_bloque
  BY <1>1, UsadaBloque DEF TypeOK
<1>4. Contains(paginas, i)
  BY <1>2 DEF ColaExacta, ToSet, Contains
<1>5. paginas' = MoverAlFinal(paginas, i)
  BY <1>1, MoverDosVeces DEF TypeOK, ColaExacta
<1>6. \A j \in ToSet(paginas) : frames'[j].id_bloque = frames[j].id_bloque
  BY <1>3 DEF ColaExacta, Ocupados
<1>. QED
  BY <1>2, <1>4, <1>5, <1>6, MoverUsa

\* A step that serves no call leaves the order of use as it was.
LEMMA SinAtenderQuietoLRU ==
  ASSUME TypeOK, LlamadaOK, ColaExacta, algoritmo = "LRU", SinAtender
  PROVE  OrdenDeUso' = OrdenDeUso
<1>1. ASSUME NEW b \in Bloques, NEW c \in Buffers,
             AgregarLleno(b, c) \/ ReemplazarBloque(b, c)
      PROVE  OrdenDeUso' = OrdenDeUso
  BY <1>1 DEF AgregarLleno, ReemplazarBloque, OrdenDeUso
<1>2. ASSUME NEW b \in Bloques, NEW m \in BOOLEAN, MarcarUsado(b, m)
      PROVE  OrdenDeUso' = OrdenDeUso
  BY <1>2 DEF MarcarUsado, OrdenDeUso
<1>3. CASE AlgoritmoDesconocido
  BY <1>3 DEF AlgoritmoDesconocido
<1>4. CASE EmpezarBarrido \/ AvanzarPuntero \/ ElegirVictima \/ TerminarVuelta
           \/ SinVictima
  BY <1>4 DEF EmpezarBarrido, AvanzarPuntero, ElegirVictima, TerminarVuelta,
    SinVictima, EnVuelta, LlamadaOK
<1>5. CASE VictimaLRU /\ paginas = <<>>
  BY <1>5 DEF VictimaLRU, Descartar, OrdenDeUso
<1>6. CASE MarcarPagina /\ ConBloque(llamada.bloque) = {}
  <2>1. ~\E i \in Marcos : EsElMenor(i, ConBloque(llamada.bloque))
    BY <1>6 DEF EsElMenor
  <2>. QED
    BY <1>6, <2>1 DEF MarcarPagina, OrdenDeUso
<1>. QED
  BY <1>1, <1>2, <1>3, <1>4, <1>5, <1>6 DEF SinAtender

\* What the callers observe adds no step to the cache: its invariants hold of a
\* cache observed.
LEMMA ObservadoEsPaso ==
  ASSUME Observado
  PROVE  Next
<1>1. CASE SinAtender
  BY <1>1 DEF SinAtender, Next, Llamar, Continuar
<1>2. CASE ~SinAtender
  BY <1>2 DEF Observado, Next, Llamar, Continuar
<1>. QED
  BY <1>1, <1>2

\* (See ObservadoEsPaso.)
LEMMA ObservadaEsSpec == SpecObservada => Spec
<1>1. [Observado]_varsObservadas => [Next]_vars
  BY ObservadoEsPaso DEF varsObservadas
<1>. QED
  BY <1>1, PTL DEF SpecObservada, InitObservada, Spec

\* The record of a call names its block.
LEMMA AtenderSirve ==
  ASSUME algoritmo = "LRU", NEW op, NEW b, Atender(op, b)
  PROVE  LRU!Servir(op, b)
  BY DEF Atender, LRU!Servir

\* A step the callers observe is the step of the abstract LRU cache that serves
\* the same call, or is not seen.
LEMMA ObservadoRefinaLRU ==
  ASSUME TypeOK, LlamadaOK, ColaExacta, ColaOciosa, algoritmo = "LRU", Observado
  PROVE  LRU!Next \/ UNCHANGED <<OrdenDeUso, atendida>>
<1>1. ASSUME NEW b \in Bloques, BuscarBloque(b), Atender("usar", b)
      PROVE  LRU!Next
  BY <1>1, AtenderSirve, BuscarRefinaLRU
<1>2. ASSUME NEW b \in Bloques, NEW c \in Buffers, AgregarEnLibre(b, c),
             Atender("traer", b)
      PROVE  LRU!Next
  BY <1>2, AtenderSirve, AgregarRefinaLRU
<1>3. CASE VictimaLRU /\ paginas # <<>> /\ Atender("traer", llamada.bloque)
  BY <1>3, AtenderSirve, VictimaRefinaLRU
<1>4. CASE /\ MarcarPagina /\ ConBloque(llamada.bloque) # {}
           /\ Atender("usar", llamada.bloque)
  BY <1>4, AtenderSirve, MarcarRefinaLRU
<1>5. CASE DestruirCache /\ Atender("vaciar", Nulo)
  <2>1. OrdenDeUso' = <<>>
    BY <1>5 DEF DestruirCache, OrdenDeUso
  <2>2. LRU!Servir("vaciar", Nulo)
    BY <1>5, AtenderSirve
  <2>. QED
    BY <2>1, <2>2 DEF LRU!Next, LRU!Vaciar
<1>6. CASE SinAtender /\ UNCHANGED atendida
  BY <1>6, SinAtenderQuietoLRU
<1>. QED
  BY <1>1, <1>2, <1>3, <1>4, <1>5, <1>6 DEF Observado

\* Of a cache with another algorithm nothing is seen.
LEMMA OtroAlgoritmoQuieto ==
  ASSUME algoritmo # "LRU", algoritmo' = algoritmo, ColaOciosa, ColaOciosa',
         Observado
  PROVE  UNCHANGED <<OrdenDeUso, atendida>>
<1>1. OrdenDeUso' = OrdenDeUso
  BY DEF ColaOciosa, OrdenDeUso
<1>2. \A op, b : Atender(op, b) => atendida' = atendida
  BY DEF Atender
<1>3. atendida' = atendida
  BY <1>2 DEF Observado
<1>. QED
  BY <1>1, <1>3

\* The cache with the LRU algorithm is an LRU cache of its callers' blocks: each
\* lookup that hits and each page marked puts the block it names last in the
\* order of use, and the block evicted is always the first
\* (worker_memoria.c l. 13-35, 116-118, 138-140, 168-170, 187-203, 310-312).
THEOREM RefinaLRU == SpecObservada => ImplementaLRU
<1>1. InitObservada => LRU!Init
  BY DEF InitObservada, Init, LRU!Init, OrdenDeUso
<1>2. TypeOK /\ LlamadaOK /\ ColaExacta /\ ColaOciosa /\ ColaOciosa'
        /\ [Observado]_varsObservadas
        => [LRU!Next]_<<OrdenDeUso, atendida>>
  <2>. SUFFICES ASSUME TypeOK, LlamadaOK, ColaExacta, ColaOciosa, ColaOciosa',
                       [Observado]_varsObservadas
                PROVE  LRU!Next \/ UNCHANGED <<OrdenDeUso, atendida>>
    OBVIOUS
  <2>1. CASE Observado
    <3>1. algoritmo' = algoritmo
      BY <2>1, ObservadoEsPaso, CreacionFija
    <3>. QED
      BY <2>1, <3>1, ObservadoRefinaLRU, OtroAlgoritmoQuieto
  <2>2. CASE UNCHANGED varsObservadas
    BY <2>2 DEF varsObservadas, vars, OrdenDeUso
  <2>. QED
    BY <2>1, <2>2
<1>. QED
  BY <1>1, <1>2, ObservadaEsSpec, TipoCorrecto, ColaSiempreExacta,
     ColaSiempreOciosa, PTL
  DEF SpecObservada, ImplementaLRU, LRU!Spec

-----------------------------------------------------------------------------
(* The two-lap search as a replacement in one step *)

\* The distance of the closed form is the number of frames the hand passes.
LEMMA DistanciaEsRecorrido ==
  ASSUME TypeOK, algoritmo = "CLOCK-M", fase = "barrido", NEW i \in Marcos
  PROVE  Clock!Distancia(i) = Recorrido(i)
<1>1. PunteroVisible = inicio.puntero
  BY DEF PunteroVisible
<1>2. i \in 0 .. MaxFrames - 1 /\ inicio.puntero \in 0 .. MaxFrames - 1
  BY DEF TypeOK, Marcos
<1>3. Clock!Distancia(i) = (i - inicio.puntero + MaxFrames) % MaxFrames
  BY <1>1 DEF Clock!Distancia
<1>4. CASE inicio.puntero <= i
  <2>1. i - inicio.puntero \in 0 .. MaxFrames - 1
    BY <1>2, <1>4
  <2>2. (i - inicio.puntero + MaxFrames) % MaxFrames = i - inicio.puntero
    BY <2>1
  <2>. QED BY <1>3, <1>4, <2>2 DEF Recorrido
<1>5. CASE i < inicio.puntero
  <2>1. i - inicio.puntero + MaxFrames \in 0 .. MaxFrames - 1
    BY <1>2, <1>5
  <2>2. (i - inicio.puntero + MaxFrames) % MaxFrames = i - inicio.puntero + MaxFrames
    BY <2>1
  <2>. QED BY <1>2, <1>3, <1>5, <2>2 DEF Recorrido
<1>. QED BY <1>2, <1>4, <1>5

\* The frame the hand stands on is the first of a set no visited frame is in.
LEMMA PrimeroEsPuntero ==
  ASSUME TypeOK, BarridoOK, algoritmo = "CLOCK-M", fase = "barrido",
         iteraciones < MaxFrames, NEW S \in SUBSET Marcos, puntero \in S,
         \A i \in S : ~Visitado(i)
  PROVE  Clock!Primero(S) = puntero
<1>1. \A i \in S : Clock!Distancia(i) = Recorrido(i)
  BY DistanciaEsRecorrido
<1>2. /\ Recorrido(puntero) = iteraciones
      /\ \A i \in S : Recorrido(i) = iteraciones => i = puntero
      /\ \A i \in S : Recorrido(i) \in Int /\ iteraciones \in Int
      /\ \A i \in S : Recorrido(i) >= iteraciones
  BY PunteroNoVisitado DEF TypeOK, Visitado
<1>. DEFINE D(i) == Clock!Distancia(i)
            P(i) == \A j \in S : D(i) <= D(j)
<1>3. P(puntero) /\ \A i \in S : P(i) => i = puntero
  BY <1>1, <1>2
<1>4. Clock!Primero(S) = CHOOSE i \in S : P(i)
  BY DEF Clock!Primero
<1>. HIDE DEF P
<1>. QED
  BY <1>3, <1>4

\* What the closed form sees during a search: the frames it started from.
LEMMA VistaEnBarrido ==
  ASSUME TypeOK, algoritmo = "CLOCK-M", fase = "barrido"
  PROVE  /\ FramesVisibles = inicio.frames /\ PunteroVisible = inicio.puntero
         /\ Clock!Marcos = Marcos
         /\ Clock!Ocupados = {i \in Marcos : inicio.frames[i].ocupado}
         /\ Clock!Limpios = {i \in Marcos : EnClaseCero(inicio.frames[i])}
<1>1. FramesVisibles = inicio.frames /\ PunteroVisible = inicio.puntero
  BY DEF FramesVisibles, PunteroVisible
<1>2. Clock!Marcos = Marcos
  BY DEF Clock!Marcos, Marcos
<1>. HIDE DEF FramesVisibles
<1>3. Clock!Ocupados = {i \in Marcos : inicio.frames[i].ocupado}
  BY <1>1, <1>2 DEF Clock!Ocupados
<1>4. Clock!Limpios = {i \in Marcos : EnClaseCero(inicio.frames[i])}
  BY <1>1, <1>3 DEF Clock!Limpios, EnClaseCero
<1>. QED BY <1>1, <1>2, <1>3, <1>4

\* And between calls: the frames themselves.
LEMMA VistaFuera ==
  ASSUME algoritmo = "CLOCK-M", fase # "barrido"
  PROVE  /\ FramesVisibles = frames /\ PunteroVisible = puntero
         /\ Clock!Marcos = Marcos
         /\ Clock!Ocupados = Ocupados
<1>1. FramesVisibles = frames /\ PunteroVisible = puntero
  BY DEF FramesVisibles, PunteroVisible
<1>2. Clock!Marcos = Marcos
  BY DEF Clock!Marcos, Marcos
<1>. QED BY <1>1, <1>2 DEF Clock!Ocupados, Ocupados

\* The search ends in the victim, the use bits and the hand of the closed form.
LEMMA ElegirRefinaClock ==
  ASSUME TypeOK, LlamadaOK, BarridoOK, ElegirVictima
  PROVE  Clock!Next
<1>. DEFINE F == inicio.frames
            b == llamada.bloque
            c == llamada.contenido
<1>1. /\ fase = "barrido" /\ algoritmo = "CLOCK-M" /\ iteraciones < MaxFrames
      /\ vueltas \in {0, 1} /\ puntero \in Marcos
      /\ b \in Bloques /\ c \in Buffers
      /\ F \in [Marcos -> Pagina] /\ frames \in [Marcos -> Pagina]
  BY DEF ElegirVictima, EnVuelta, LlamadaOK, TypeOK
<1>2. /\ FramesVisibles = F /\ PunteroVisible = inicio.puntero
      /\ Clock!Marcos = Marcos
      /\ Clock!Ocupados = {i \in Marcos : F[i].ocupado}
      /\ Clock!Limpios = {i \in Marcos : EnClaseCero(F[i])}
  BY <1>1, VistaEnBarrido
<1>3. /\ frames' = [frames EXCEPT ![puntero] = PaginaCargada(b, c)]
      /\ puntero' = (puntero + 1) % MaxFrames
      /\ fase' = "libre" /\ algoritmo' = "CLOCK-M"
  BY <1>1 DEF ElegirVictima, CargarEn, Volver, creacion, Siguiente
<1>4. FramesVisibles' = frames' /\ PunteroVisible' = puntero'
  BY <1>3 DEF FramesVisibles, PunteroVisible
<1>5. ~Visitado(puntero) /\ Recorrido(puntero) = iteraciones
  BY <1>1, PunteroNoVisitado DEF Visitado, TypeOK
<1>6. /\ segunda_pasada <=> vueltas = 1
      /\ \A i \in Marcos :
         /\ frames[i] = IF F[i].ocupado /\ (vueltas = 1 \/ Visitado(i))
                        THEN SinUso(F[i]) ELSE F[i]
         /\ vueltas = 1 \/ Visitado(i) => ~EnClaseCero(F[i])
         /\ vueltas = 1 /\ Visitado(i) => ~F[i].ocupado
  BY <1>1 DEF BarridoOK
<1>7. \A i \in Marcos : Clock!Distancia(i) = Recorrido(i)
  BY <1>1, DistanciaEsRecorrido
<1>8. EsVictima(frames[puntero])
  BY DEF ElegirVictima
<1>9. PaginaCargada(b, c) = Clock!Nueva(b, c)
  BY DEF PaginaCargada, Clock!Nueva
<1>10. \A i \in Marcos : Clock!SinUso(F[i]) = SinUso(F[i])
  BY DEF Clock!SinUso, SinUso
<1>11. ASSUME NEW pasados,
              \A i \in Marcos \ {puntero} :
                frames[i] = IF i \in pasados THEN SinUso(F[i]) ELSE F[i]
       PROVE  Clock!Sustituir(b, c, puntero, pasados)
  <2>1. FramesVisibles' = [i \in Marcos |->
           IF i = puntero THEN Clock!Nueva(b, c)
           ELSE IF i \in pasados THEN Clock!SinUso(F[i]) ELSE F[i]]
    BY <1>1, <1>3, <1>4, <1>9, <1>10, <1>11
  <2>. HIDE DEF F, b, c
  <2>. QED
    BY <1>2, <1>3, <1>4, <2>1 DEF Clock!Sustituir
<1>. HIDE DEF F, b, c
<1>12. CASE vueltas = 0
  <2>1. frames[puntero] = F[puntero] /\ ~segunda_pasada
    BY <1>1, <1>5, <1>6, <1>12
  <2>2. EnClaseCero(F[puntero])
    BY <1>8, <2>1 DEF EsVictima, EnClaseCero
  <2>3. Clock!Primero(Clock!Limpios) = puntero
    BY <1>1, <1>2, <1>6, <2>2, PrimeroEsPuntero
  <2>. DEFINE pasados == {i \in Clock!Ocupados : Clock!Distancia(i) < Clock!Distancia(puntero)}
  <2>4. \A i \in Marcos : i \in pasados <=> F[i].ocupado /\ Visitado(i)
    BY <1>1, <1>2, <1>5, <1>7 DEF Visitado
  <2>5. \A i \in Marcos \ {puntero} :
          frames[i] = IF i \in pasados THEN SinUso(F[i]) ELSE F[i]
    BY <1>6, <1>12, <2>4
  <2>6. Clock!Sustituir(b, c, puntero, pasados)
    BY <1>11, <2>5
  <2>7. Clock!Limpios # {} /\ Clock!Ocupados # {}
    BY <1>1, <1>2, <2>2 DEF EnClaseCero
  <2>8. Clock!Reemplazar(b, c)
    BY <2>3, <2>6, <2>7 DEF Clock!Reemplazar
  <2>. QED
    BY <1>1, <2>8 DEF Clock!Next
<1>13. CASE vueltas = 1
  <2>1. F[puntero].ocupado
    BY <1>1, <1>6, <1>8, <1>13, CamposSinUso DEF EsVictima
  <2>2. Clock!Limpios = {}
    BY <1>2, <1>6, <1>13
  <2>3. puntero \in Clock!Ocupados
    BY <1>1, <1>2, <2>1
  <2>4. Clock!Primero(Clock!Ocupados) = puntero
    BY <1>1, <1>2, <1>6, <1>13, <2>3, PrimeroEsPuntero
  <2>5. \A i \in Marcos \ {puntero} :
          frames[i] = IF i \in Clock!Ocupados THEN SinUso(F[i]) ELSE F[i]
    BY <1>2, <1>6, <1>13
  <2>6. Clock!Sustituir(b, c, puntero, Clock!Ocupados)
    BY <1>11, <2>5
  <2>7. Clock!Reemplazar(b, c)
    BY <2>2, <2>3, <2>4, <2>6 DEF Clock!Reemplazar
  <2>. QED
    BY <1>1, <2>7 DEF Clock!Next
<1>. QED BY <1>1, <1>12, <1>13

\* A search without victim leaves the frames and the hand as they were.
LEMMA SinVictimaRefinaClock ==
  ASSUME TypeOK, LlamadaOK, BarridoOK, SinVictima
  PROVE  FramesVisibles' = FramesVisibles /\ PunteroVisible' = PunteroVisible
<1>1. /\ fase = "barrido" /\ algoritmo = "CLOCK-M" /\ vueltas = 2
      /\ frames' = frames /\ puntero' = puntero
      /\ fase' = "libre" /\ algoritmo' = "CLOCK-M"
  BY DEF SinVictima, Descartar, Volver, creacion, LlamadaOK
<1>2. /\ FramesVisibles = inicio.frames /\ PunteroVisible = inicio.puntero
      /\ FramesVisibles' = frames /\ PunteroVisible' = puntero
  BY <1>1 DEF FramesVisibles, PunteroVisible
<1>3. \A i \in Marcos : frames[i] = inicio.frames[i]
  BY <1>1 DEF BarridoOK
<1>4. frames \in [Marcos -> Pagina] /\ inicio.frames \in [Marcos -> Pagina]
  BY DEF TypeOK
<1>5. frames = inicio.frames
  BY <1>3, <1>4
<1>6. puntero = inicio.puntero
  BY <1>1 DEF BarridoOK, TypeOK, Marcos
<1>. QED BY <1>2, <1>5, <1>6

\* A call to the cache is a step of the closed form or is not seen by it.
LEMMA LlamarRefinaClock ==
  ASSUME TypeOK, algoritmo = "CLOCK-M", algoritmo' = algoritmo, Llamar
  PROVE  Clock!Next \/ UNCHANGED <<FramesVisibles, PunteroVisible>>
<1>1. fase = "libre" /\ fase' # "barrido"
  BY DEF Llamar, BuscarBloque, AgregarEnLibre, AgregarLleno, ReemplazarBloque,
     MarcarUsado, DestruirCache
<1>2. /\ FramesVisibles = frames /\ PunteroVisible = puntero
      /\ Clock!Marcos = Marcos /\ Clock!Ocupados = Ocupados
  BY <1>1, VistaFuera
<1>3. FramesVisibles' = frames' /\ PunteroVisible' = puntero'
  BY <1>1 DEF FramesVisibles, PunteroVisible
<1>4. ASSUME NEW b \in Bloques, NEW c \in Buffers, AgregarEnLibre(b, c)
      PROVE  Clock!Next
  <2>1. PICK i \in Marcos :
          /\ EsElMenor(i, Libres)
          /\ frames' = [frames EXCEPT ![i] = PaginaCargada(b, c)]
    BY <1>4 DEF AgregarEnLibre
  <2>2. i \in Marcos \ Ocupados /\ puntero' = puntero
    BY <1>4, <2>1 DEF AgregarEnLibre, EsElMenor, Libres
  <2>3. PaginaCargada(b, c) = Clock!Nueva(b, c)
    BY DEF PaginaCargada, Clock!Nueva
  <2>4. Clock!Cargar(b, c)
    BY <1>2, <1>3, <2>1, <2>2, <2>3 DEF Clock!Cargar
  <2>. QED
    BY <2>4 DEF Clock!Next
<1>5. CASE DestruirCache
  <2>1. frames' = [i \in Marcos |-> PaginaLibre] /\ puntero' = puntero
    BY <1>5 DEF DestruirCache
  <2>2. PaginaLibre = Clock!Libre
    BY DEF PaginaLibre, Clock!Libre
  <2>3. Clock!Vaciar
    BY <1>2, <1>3, <2>1, <2>2 DEF Clock!Vaciar
  <2>. QED
    BY <2>3 DEF Clock!Next
<1>6. ASSUME frames' = frames, puntero' = puntero
      PROVE  UNCHANGED <<FramesVisibles, PunteroVisible>>
  BY <1>2, <1>3, <1>6
<1>7. ASSUME NEW b \in Bloques, NEW c \in Buffers,
             AgregarLleno(b, c) \/ ReemplazarBloque(b, c)
      PROVE  frames' = frames /\ puntero' = puntero
  BY <1>7 DEF AgregarLleno, ReemplazarBloque
<1>8. ASSUME NEW b \in Bloques, BuscarBloque(b)
      PROVE  frames' = frames /\ puntero' = puntero
  BY <1>8 DEF BuscarBloque
<1>9. ASSUME NEW b \in Bloques, NEW m \in BOOLEAN, MarcarUsado(b, m)
      PROVE  frames' = frames /\ puntero' = puntero
  BY <1>9 DEF MarcarUsado
<1>. QED
  BY <1>4, <1>5, <1>6, <1>7, <1>8, <1>9 DEF Llamar

\* So is the end of memoria_marcar_usado.
LEMMA MarcarRefinaClock ==
  ASSUME TypeOK, algoritmo = "CLOCK-M", algoritmo' = algoritmo, MarcarPagina
  PROVE  Clock!Next \/ UNCHANGED <<FramesVisibles, PunteroVisible>>
<1>1. fase = "marcar" /\ fase' = "libre" /\ puntero' = puntero
      /\ llamada.modificado \in BOOLEAN
  BY DEF MarcarPagina, Volver, TypeOK, Llamada
<1>2. /\ FramesVisibles = frames /\ PunteroVisible = puntero
      /\ Clock!Marcos = Marcos /\ Clock!Ocupados = Ocupados
  BY <1>1, VistaFuera
<1>3. FramesVisibles' = frames' /\ PunteroVisible' = puntero'
  BY <1>1 DEF FramesVisibles, PunteroVisible
<1>4. CASE frames' = frames
  BY <1>1, <1>2, <1>3, <1>4
<1>5. ASSUME NEW i \in Marcos, EsElMenor(i, ConBloque(llamada.bloque)),
             frames' = [frames EXCEPT ![i] = Usada(@)]
      PROVE  Clock!Next
  <2>. DEFINE m == llamada.modificado
              G == [frames EXCEPT ![i].bit_uso = TRUE,
                                  ![i].bit_modificado = IF m THEN TRUE ELSE @]
  <2>1. i \in Ocupados
    BY <1>5 DEF EsElMenor, ConBloque
  <2>2. frames \in [Marcos -> Pagina] /\ frames[i] \in Pagina
    BY DEF TypeOK
  <2>3. frames' = G
    <3>1. \A j \in Marcos : j # i => frames'[j] = frames[j] /\ G[j] = frames[j]
      BY <1>5, <2>2
    <3>2. frames'[i] = Usada(frames[i])
      BY <1>5, <2>2
    <3>3. G[i] = [frames[i] EXCEPT !.bit_uso = TRUE,
                                   !.bit_modificado = IF m THEN TRUE ELSE @]
      BY <2>2
    <3>4. G[i] = Usada(frames[i])
      BY <2>2, <3>3 DEF Usada, ConUso, Pagina
    <3>5. DOMAIN G = Marcos /\ DOMAIN frames' = Marcos /\ G = [j \in Marcos |-> G[j]]
      BY <1>5, <2>2
    <3>. HIDE DEF G
    <3>. QED
      BY <1>5, <2>2, <3>1, <3>2, <3>4, <3>5
  <2>4. Clock!Marcar(i, m)
    BY <1>1, <1>2, <1>3, <2>1, <2>3 DEF Clock!Marcar
  <2>. QED
    BY <1>1, <1>2, <2>4 DEF Clock!Next
<1>. QED
  BY <1>4, <1>5 DEF MarcarPagina

\* The cache with the CLOCK-M algorithm replaces, spares and moves its hand as the
\* closed form says, whatever the size of the cache and the bits of its pages,
\* and never refuses a block while a frame is occupied (worker_memoria.c
\* l. 204-268, 276-315).
THEOREM RefinaClock == Spec => ImplementaClock
<1>1. Init => Clock!Init
  <2>. SUFFICES ASSUME Init PROVE Clock!Init
    OBVIOUS
  <2>1. PaginaLibre = Clock!Libre /\ Clock!Marcos = Marcos
    BY DEF PaginaLibre, Clock!Libre, Clock!Marcos, Marcos
  <2>2. FramesVisibles = [i \in Marcos |-> PaginaLibre] /\ PunteroVisible = 0
    BY DEF Init, FramesVisibles, PunteroVisible
  <2>. QED BY <2>1, <2>2 DEF Clock!Init
<1>2. TypeOK /\ LlamadaOK /\ BarridoOK /\ [Next]_vars
        => [Clock!Next]_<<FramesVisibles, PunteroVisible>>
  <2>. SUFFICES ASSUME TypeOK, LlamadaOK, BarridoOK, [Next]_vars,
                       algoritmo' = algoritmo
                PROVE  Clock!Next \/ UNCHANGED <<FramesVisibles, PunteroVisible>>
    BY CreacionFija
  <2>1. CASE algoritmo # "CLOCK-M"
    BY <2>1 DEF FramesVisibles, PunteroVisible
  <2>2. CASE algoritmo = "CLOCK-M"
    <3>1. CASE Llamar
      BY <2>2, <3>1, LlamarRefinaClock
    <3>2. CASE VictimaLRU \/ AlgoritmoDesconocido
      BY <2>2, <3>2 DEF VictimaLRU, AlgoritmoDesconocido
    <3>3. CASE EmpezarBarrido
      BY <2>2, <3>3 DEF EmpezarBarrido, FramesVisibles, PunteroVisible
    <3>4. CASE AvanzarPuntero \/ TerminarVuelta
      BY <2>2, <3>4 DEF AvanzarPuntero, EnVuelta, TerminarVuelta, FramesVisibles,
        PunteroVisible
    <3>5. CASE ElegirVictima
      BY <3>5, ElegirRefinaClock
    <3>6. CASE SinVictima
      BY <3>6, SinVictimaRefinaClock
    <3>7. CASE MarcarPagina
      BY <2>2, <3>7, MarcarRefinaClock
    <3>8. CASE UNCHANGED vars
      BY <3>8 DEF vars, barrido, FramesVisibles, PunteroVisible
    <3>. QED
      BY <3>1, <3>2, <3>3, <3>4, <3>5, <3>6, <3>7, <3>8 DEF Next, Continuar
  <2>. QED BY <2>1, <2>2
<1>. QED
  BY <1>1, <1>2, TipoCorrecto, BarridoCorrecto, PTL
  DEF Spec, ImplementaClock, Clock!Spec
=============================================================================
