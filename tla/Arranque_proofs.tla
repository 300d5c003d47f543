----------------------------- MODULE Arranque_proofs -----------------------------
(***************************************************************************)
(* Proofs about the start of a Worker, for every memory size, length of    *)
(* the id, answer of the Storage and content of memory nobody wrote.       *)
(***************************************************************************)
EXTENDS Arranque, TLAPS

\* How much of the answer the main thread has received at each place, and what it
\* knows of the rest: a code cut short is all there will ever be.
RecepcionOK ==
  /\ hilo \in {"master", "storage", "codigo"} => pos = 0
  /\ hilo = "tamanio" => pos = 4 \/ (cortado /\ pos = llegado)
  /\ hilo = "cuerpo" => pos = 8
  /\ hilo \in {"cache", "pausa"} => block_size > 0
  /\ Mudo => llegado = 0

\* How many refusals the listening thread has received at each place.
OyenteOK ==
  /\ oyente # "sin_crear" => hilo = "pausa"
  /\ oyente = "tamanio" => oidos >= 1
  /\ oyente = "cuerpo" => oidos >= 2
  /\ oyente = "fin" => SinMaster \/ oidos >= 3

Inv == TypeOK /\ RecepcionOK /\ OyenteOK /\ BloqueDelStorage

-----------------------------------------------------------------------------
\* The initial states.
LEMMA ArranqueInicial == Init => Inv
<1> SUFFICES ASSUME Init PROVE Inv
  OBVIOUS
<1> USE LargosAssumption, RespuestasAssumption, MaxRechazosAssumption
<1>1. pendiente \in Nat
  <2>1. PICK largo \in Largos : pendiente = Handshake(largo)
    BY DEF Init
  <2> QED
    BY <2>1 DEF Handshake
<1>2. respuesta.size \in Nat
  BY DEF Init
<1>3. conexion \in [{"master", "storage"} -> Resultados \cup {Ninguna}]
  BY DEF Init
<1>4. /\ llegado \in Nat /\ llegado <= Respondido /\ pos \in Nat /\ pos <= llegado
      /\ rechazos \in Nat /\ rechazos <= MaxRechazos
      /\ oidos \in Nat /\ oidos <= rechazos
  BY <1>2 DEF Init, Respondido
<1>5. TypeOK
  BY <1>1, <1>3, <1>4 DEF Init, TypeOK, Lugares, NULL
<1>6. RecepcionOK /\ OyenteOK /\ BloqueDelStorage
  BY DEF Init, RecepcionOK, OyenteOK, BloqueDelStorage
<1> QED
  BY <1>5, <1>6 DEF Inv

\* The steps of the Storage and of the Master: what has arrived and was received does
\* not change, nor does the Worker.
LEMMA PasoDeOtros ==
  Inv /\ (LeerNombre \/ LeerOperacion \/ Responder \/ Cortar \/ Rechazar \/ CerrarMaster)
    => Inv'
<1> SUFFICES ASSUME Inv,
                    LeerNombre \/ LeerOperacion \/ Responder \/ Cortar \/ Rechazar
                      \/ CerrarMaster
             PROVE  Inv'
  OBVIOUS
<1> USE DEF worker
<1>0. respuesta' = respuesta /\ UNCHANGED worker /\ UNCHANGED <<oyente, oidos>>
  BY DEF LeerNombre, LeerOperacion, Responder, Cortar, Rechazar, CerrarMaster
<1>1. CASE LeerNombre
  BY <1>0, <1>1 DEF LeerNombre, Inv, TypeOK, RecepcionOK, OyenteOK, BloqueDelStorage,
     SinMaster, Mudo, Respondido
<1>2. CASE LeerOperacion
  BY <1>0, <1>2 DEF LeerOperacion, Inv, TypeOK, RecepcionOK, OyenteOK,
     BloqueDelStorage, SinMaster, Mudo, Respondido
<1>3. CASE Responder
  <2>1. respuesta.size \in Nat
    BY RespuestasAssumption DEF Inv, TypeOK
  <2>2. /\ llegado' \in Nat /\ llegado' <= Respondido /\ llegado' > llegado
        /\ ~cortado /\ ~Mudo
    BY <1>3, <2>1 DEF Responder, Respondido, Mudo, Inv, TypeOK
  <2> QED
    BY <1>0, <1>3, <2>1, <2>2 DEF Responder, Inv, TypeOK, RecepcionOK, OyenteOK,
       BloqueDelStorage, SinMaster, Mudo, Respondido
<1>4. CASE Cortar
  BY <1>0, <1>4 DEF Cortar, Inv, TypeOK, RecepcionOK, OyenteOK, BloqueDelStorage,
     SinMaster, Mudo, Respondido
<1>5. CASE Rechazar
  BY MaxRechazosAssumption, <1>0, <1>5 DEF Rechazar, Inv, TypeOK, RecepcionOK, OyenteOK, BloqueDelStorage,
     SinMaster, Mudo, Respondido
<1>6. CASE CerrarMaster
  BY <1>0, <1>6 DEF CerrarMaster, Inv, TypeOK, RecepcionOK, OyenteOK,
     BloqueDelStorage, SinMaster, Mudo, Respondido
<1> QED
  BY <1>1, <1>2, <1>3, <1>4, <1>5, <1>6

\* The connections: the listening thread does not exist yet.
LEMMA PasoDeConectar == Inv /\ (ConectarMaster \/ ConectarStorage) => Inv'
<1> SUFFICES ASSUME Inv, ConectarMaster \/ ConectarStorage PROVE Inv'
  OBVIOUS
<1> USE DEF peer
<1>1. PICK p \in {"master", "storage"}, r \in Resultados :
        Conectar(p, r) /\ hilo' \in {"storage", "fallo", "codigo"}
  BY DEF ConectarMaster, ConectarStorage
<1>2. /\ hilo \in {"master", "storage"}
      /\ UNCHANGED <<respuesta, peer, pos, block_size, frames, oyente, oidos>>
  BY DEF ConectarMaster, ConectarStorage
<1>3. oyente = "sin_crear" /\ pos = 0
  BY <1>2 DEF Inv, OyenteOK, RecepcionOK
<1>4. TypeOK'
  BY <1>1, <1>2 DEF Inv, TypeOK, Conectar, Lugares, Respondido, Resultados
<1> QED
  BY <1>1, <1>2, <1>3, <1>4 DEF Inv, RecepcionOK, OyenteOK, BloqueDelStorage, Mudo

\* The receipt of the answer.
LEMMA PasoDeRecibir ==
  Inv /\ (RecibirCodigo \/ RecibirTamanio \/ RecibirCuerpo) => Inv'
<1> SUFFICES ASSUME Inv, RecibirCodigo \/ RecibirTamanio \/ RecibirCuerpo PROVE Inv'
  OBVIOUS
<1> USE RespuestasAssumption, BasuraAssumption DEF peer
<1>1. /\ respuesta \in Respuestas /\ respuesta.size \in Nat
      /\ llegado \in Nat /\ pos \in Nat /\ pos <= llegado
      /\ llegado <= 8 + respuesta.size
      /\ respuesta.bloque \in Int /\ respuesta.result \in Int
  BY DEF Inv, TypeOK, Respondido
<1>2. UNCHANGED <<respuesta, peer, conexion, frames, caido, oyente, oidos>>
  BY DEF RecibirCodigo, RecibirTamanio, RecibirCuerpo
<1>3. oyente = "sin_crear"
  BY DEF Inv, OyenteOK, RecibirCodigo, RecibirTamanio, RecibirCuerpo
<1>4. OyenteOK'
  BY <1>2, <1>3 DEF OyenteOK
<1>5. \A k \in Nat : pos + Obtiene(k) \in Nat /\ pos + Obtiene(k) <= llegado
  BY <1>1 DEF Obtiene, Hay
<1>6. CASE RecibirCodigo
  <2>1. pos = 0 /\ pos' = Obtiene(4) /\ (llegado >= 4 \/ cortado)
    BY <1>1, <1>6 DEF RecibirCodigo, Inv, RecepcionOK, Termina, Hay, Obtiene
  <2>2. pos' = 4 \/ (cortado /\ pos' = llegado)
    BY <1>1, <2>1 DEF Obtiene, Hay
  <2>3. hilo' \in {"tamanio", "fallo"} /\ UNCHANGED block_size
    BY <1>6 DEF RecibirCodigo
  <2>4. TypeOK'
    BY <1>1, <1>2, <1>5, <1>6, <2>3 DEF RecibirCodigo, Inv, TypeOK, Lugares, Respondido
  <2> QED
    BY <1>2, <1>4, <2>2, <2>3, <2>4 DEF Inv, RecepcionOK, BloqueDelStorage, Mudo
<1>7. CASE RecibirTamanio
  <2>1. /\ pos' = pos + Obtiene(4)
        /\ hilo' \in {"cuerpo", "fallo"} /\ (hilo' = "cuerpo" => Obtiene(4) = 4)
        /\ UNCHANGED block_size
    BY <1>7 DEF RecibirTamanio
  <2>2. hilo' = "cuerpo" => pos' = 8
    BY <1>1, <1>7, <2>1 DEF RecibirTamanio, Inv, RecepcionOK, Obtiene, Hay
  <2>3. TypeOK'
    BY <1>1, <1>2, <1>5, <2>1 DEF Inv, TypeOK, Lugares, Respondido
  <2> QED
    BY <1>2, <1>4, <2>1, <2>2, <2>3 DEF Inv, RecepcionOK, BloqueDelStorage, Mudo
<1>8. CASE RecibirCuerpo
  <2> DEFINE n == Obtiene(respuesta.size)
  <2>1. /\ pos = 8 /\ pos' = pos + n /\ (Hay >= respuesta.size \/ cortado)
        /\ hilo' \in {"cache", "fallo"}
    BY <1>8 DEF RecibirCuerpo, Inv, RecepcionOK, Tamanio, Termina, Aceptar
  <2>2. CASE hilo' = "fallo"
    <3>1. UNCHANGED block_size
      BY <1>8, <2>2 DEF RecibirCuerpo, Aceptar
    <3>2. TypeOK'
      BY <1>1, <1>2, <1>5, <2>1, <2>2, <3>1 DEF Inv, TypeOK, Lugares, Respondido
    <3> QED
      BY <1>2, <1>4, <2>2, <3>2 DEF Inv, RecepcionOK, BloqueDelStorage, Mudo
  <2>3. CASE hilo' = "cache"
    <3>1. /\ block_size' \in BloqueEn(n) /\ block_size' > 0
          /\ 0 \in ResultEn(n) /\ respuesta.size >= 8
      BY <1>8, <2>3 DEF RecibirCuerpo, Aceptar, Tamanio
    <3>2. block_size' \in Nat \ {0}
      BY <1>1, <3>1 DEF BloqueEn
    <3>3. n >= 8 \/ (cortado /\ llegado < 16)
      BY <1>1, <2>1, <3>1 DEF Obtiene, Hay
    <3>4. n >= 8 => block_size' = respuesta.bloque /\ respuesta.result = 0
      <4> SUFFICES ASSUME n >= 8
                   PROVE  block_size' = respuesta.bloque /\ respuesta.result = 0
        OBVIOUS
      <4>1. n \in Int
        BY <1>1 DEF Obtiene, Hay
      <4>2. BloqueEn(n) = {respuesta.bloque} /\ ResultEn(n) = {respuesta.result}
        BY <4>1 DEF BloqueEn, ResultEn
      <4> QED
        BY <3>1, <4>2
    <3>5. BloqueDelStorage'
      BY <1>2, <3>3, <3>4 DEF BloqueDelStorage
    <3>6. TypeOK'
      BY <1>1, <1>2, <1>5, <2>1, <2>3, <3>2 DEF Inv, TypeOK, Lugares, Respondido
    <3> QED
      BY <1>2, <1>4, <2>3, <3>2, <3>5, <3>6 DEF Inv, RecepcionOK, Mudo
  <2> QED
    BY <2>1, <2>2, <2>3
<1> QED
  BY <1>6, <1>7, <1>8

\* The cache, the two ends and the listening thread.
LEMMA PasoDelFinal == Inv /\ (CrearCache \/ Destruir \/ Escuchar) => Inv'
<1> SUFFICES ASSUME Inv, CrearCache \/ Destruir \/ Escuchar PROVE Inv'
  OBVIOUS
<1> USE DEF peer, worker
<1>1. CASE CrearCache
  <2>1. block_size \in Nat \ {0} /\ UNCHANGED block_size
    BY <1>1 DEF CrearCache, Inv, TypeOK, RecepcionOK
  <2>2. frames' \in {NULL} \cup (Nat \ {0})
    BY <1>1, <2>1, TamMemoriaAssumption DEF CrearCache
  <2>3. TypeOK'
    BY <1>1, <2>1, <2>2 DEF CrearCache, Inv, TypeOK, Lugares, Respondido
  <2> QED
    BY <1>1, <2>1, <2>3 DEF CrearCache, Inv, RecepcionOK, OyenteOK, BloqueDelStorage,
       Mudo
<1>2. CASE Destruir
  BY <1>2 DEF Destruir, Inv, TypeOK, RecepcionOK, OyenteOK, BloqueDelStorage, Mudo,
     Lugares, Respondido
<1>3. CASE Escuchar
  <2>1. UNCHANGED <<worker, respuesta, peer>>
    BY <1>3 DEF Escuchar
  <2>2. oyente \in {"codigo", "tamanio", "cuerpo"}
    BY <1>3 DEF Escuchar, OirRechazo
  <2>3. \/ /\ oidos < rechazos /\ oidos' = oidos + 1
           /\ \/ oyente = "codigo" /\ oyente' = "tamanio"
              \/ oyente = "tamanio" /\ oyente' = "cuerpo"
              \/ oyente = "cuerpo" /\ oyente' = "fin"
        \/ SinMaster /\ UNCHANGED oidos /\ oyente' = "fin"
    BY <1>3, <2>2 DEF Escuchar, OirRechazo
  <2>4. SinMaster' = SinMaster
    BY <2>1 DEF SinMaster
  <2>5. TypeOK'
    BY <2>1, <2>3, MaxRechazosAssumption DEF Inv, TypeOK, Respondido
  <2>6. OyenteOK'
    BY <2>1, <2>2, <2>3, <2>4 DEF Inv, TypeOK, OyenteOK
  <2> QED
    BY <2>1, <2>5, <2>6 DEF Inv, RecepcionOK, BloqueDelStorage, Mudo
<1> QED
  BY <1>1, <1>2, <1>3

\* What is known of the start is inductive.
THEOREM ArranqueCorrecto == Spec => []Inv
<1>1. Inv /\ UNCHANGED vars => Inv'
  BY DEF Inv, vars, worker, peer, TypeOK, RecepcionOK, OyenteOK, BloqueDelStorage,
     SinMaster, Mudo, Respondido
<1>2. Inv /\ [Next]_vars => Inv'
  BY <1>1, PasoDeOtros, PasoDeConectar, PasoDeRecibir, PasoDelFinal DEF Next, Principal
<1> QED
  BY ArranqueInicial, <1>2, PTL DEF Spec

\* Type correctness of the start.
THEOREM TipoCorrecto == Spec => []TypeOK
BY ArranqueCorrecto, PTL DEF Inv

\* A Worker that runs has the block size a Storage answered, unless that Storage
\* closed in the middle of its answer.
THEOREM SiempreBloqueDelStorage == Spec => []BloqueDelStorage
BY ArranqueCorrecto, PTL DEF Inv

\* No Worker ever starts with the Storage of this repository.
THEOREM NuncaConMudo == Spec => []NuncaArrancaConMudo
<1>1. Inv /\ NuncaArrancaConMudo /\ [Next]_vars => NuncaArrancaConMudo'
  <2> SUFFICES ASSUME Inv, NuncaArrancaConMudo, [Next]_vars
               PROVE  NuncaArrancaConMudo'
    OBVIOUS
  <2>1. storage' = storage \/ (storage = "nombre" /\ storage' = "operacion")
    BY DEF Next, vars, peer, worker, LeerNombre, LeerOperacion, Responder, Cortar, Rechazar,
       CerrarMaster, Principal, ConectarMaster, ConectarStorage, RecibirCodigo,
       RecibirTamanio, RecibirCuerpo, CrearCache, Destruir, Escuchar
  <2>2. Mudo' => Mudo
    BY <2>1 DEF Mudo
  <2>3. Mudo /\ RecibirCodigo => hilo' = "fallo"
    <3> SUFFICES ASSUME Mudo, RecibirCodigo PROVE hilo' = "fallo"
      OBVIOUS
    <3>1. llegado = 0 /\ pos = 0
      BY DEF Inv, RecepcionOK, RecibirCodigo
    <3> QED
      BY <3>1 DEF RecibirCodigo, Obtiene, Hay
  <2>4. Mudo => hilo' = hilo \/ hilo' \in {"storage", "codigo", "fallo", "fin"}
    BY <2>3 DEF NuncaArrancaConMudo, Next, vars, peer, worker, LeerNombre,
       LeerOperacion, Responder, Cortar, Rechazar, CerrarMaster, Principal,
       ConectarMaster, ConectarStorage, RecibirTamanio, RecibirCuerpo, CrearCache,
       Destruir, Escuchar
  <2> QED
    BY <2>2, <2>4 DEF NuncaArrancaConMudo
<1>2. Init => NuncaArrancaConMudo
  BY DEF Init, NuncaArrancaConMudo
<1> QED
  BY ArranqueCorrecto, <1>1, <1>2, PTL DEF Spec

\* The Master has gone, or refused three times, when the listening thread ends.
THEOREM SiempreSigueEscuchando == Spec => []SigueEscuchando
<1>1. Inv => SigueEscuchando
  BY DEF Inv, TypeOK, OyenteOK, SigueEscuchando
<1> QED
  BY ArranqueCorrecto, <1>1, PTL
=============================================================================
