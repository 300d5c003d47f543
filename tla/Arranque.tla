-------------------------------- MODULE Arranque --------------------------------
(***************************************************************************)
(* The start of a Worker (worker.c, main_worker.c, worker_conexiones.c),   *)
(* between a Master that refuses its identification and a Storage: that of *)
(* this repository, which never sends anything, or one that answers the    *)
(* handshake as the Worker expects.  Either may go away at any time.       *)
(*                                                                         *)
(* The main thread connects to both, waits for the answer of the Storage,  *)
(* creates the cache and pauses; a second thread (oyente) then listens to  *)
(* the Master.  An answer is a code, a size and size bytes: the block size *)
(* and a result; it arrives in pieces of any number of bytes.              *)
(***************************************************************************)
EXTENDS Integers

CONSTANTS
  TamMemoria,    \* TAM_MEMORIA of the configuration
  Largos,        \* how long the id of the Worker may be
  Respuestas,    \* what a Storage that answers may say
  Basura,        \* what the memory nobody wrote may hold, as an int
  MaxRechazos    \* bound: how often the Master refuses

ASSUME TamMemoriaAssumption == TamMemoria \in Nat
ASSUME LargosAssumption == Largos \subseteq Nat \ {0}
ASSUME RespuestasAssumption ==
  Respuestas \subseteq [size : Nat, bloque : Int, result : Int]
ASSUME BasuraAssumption == Basura \subseteq Int
ASSUME MaxRechazosAssumption == MaxRechazos \in Nat

VARIABLES
  hilo,         \* where the main thread is
  conexion,     \* how each connection was made
  storage,      \* which Storage it is, and where its thread is
  respuesta,    \* what it answers, if it does
  pendiente,    \* bytes of the handshake the Storage has not received
  llegado,      \* bytes of the answer that have arrived
  pos,          \* bytes of the answer the Worker has received
  cortado,      \* has the Storage closed?
  block_size,   \* w->block_size
  frames,       \* w->memoria: its number of frames, or NULL
  oyente,       \* where the thread that listens to the Master is
  rechazos,     \* how many -1 the Master has sent
  oidos,        \* how many of them the Worker has received
  masterCerro,  \* has the Master closed?
  caido         \* has the Worker fallen?

peer == <<storage, pendiente, llegado, cortado, rechazos, masterCerro>>
worker == <<hilo, conexion, pos, block_size, frames, caido>>
vars == <<worker, respuesta, peer, oyente, oidos>>

Resultados == {"conectado", "rechazado", "sin_socket"}
Ninguna == "ninguna"
NULL == -1

\* The handshake: a code, a size, the two texts with their lengths and their NULs.
Handshake(largo) == 4 + 4 + (4 + 7) + (4 + largo + 1)
Respondido == 4 + 4 + respuesta.size

Init ==
  /\ hilo = "master"
  /\ conexion = [p \in {"master", "storage"} |-> Ninguna]
  /\ storage \in {"responde", "nombre"}
  /\ respuesta \in Respuestas
  /\ \E largo \in Largos : pendiente = Handshake(largo)
  /\ llegado = 0 /\ pos = 0 /\ cortado = FALSE
  /\ block_size = -1
  /\ frames = NULL
  /\ oyente = "sin_crear"
  /\ rechazos = 0 /\ oidos = 0 /\ masterCerro = FALSE
  /\ caido = FALSE

-----------------------------------------------------------------------------
(* The Storage *)

Mudo == storage \in {"nombre", "operacion"}

\* manejar_cliente takes at most 63 bytes for the name, however many arrived.
LeerNombre ==
  /\ storage = "nombre" /\ conexion["storage"] = "conectado" /\ ~cortado
  /\ \E k \in 1 .. 63 : k <= pendiente /\ pendiente' = pendiente - k
  /\ storage' = "operacion"
  /\ UNCHANGED <<worker, respuesta, llegado, cortado, rechazos, masterCerro, oyente,
                 oidos>>

\* The rest it takes for operations it does not know.
LeerOperacion ==
  /\ storage = "operacion" /\ ~cortado
  /\ pendiente >= 4 /\ pendiente' = pendiente - 4
  /\ UNCHANGED <<worker, respuesta, storage, llegado, cortado, rechazos, masterCerro,
                 oyente, oidos>>

\* One that answers.
Responder ==
  /\ storage = "responde" /\ conexion["storage"] = "conectado" /\ ~cortado
  /\ \E n \in 1 .. Respondido : n > llegado /\ llegado' = n
  /\ UNCHANGED <<worker, respuesta, storage, pendiente, cortado, rechazos, masterCerro,
                 oyente, oidos>>

Cortar ==
  /\ conexion["storage"] = "conectado" /\ ~cortado
  /\ cortado' = TRUE
  /\ UNCHANGED <<worker, respuesta, storage, pendiente, llegado, rechazos, masterCerro,
                 oyente, oidos>>

-----------------------------------------------------------------------------
(* The Master *)

\* recibir_id_worker answers -1 to what is not an id.
Rechazar ==
  /\ conexion["master"] = "conectado" /\ ~masterCerro /\ rechazos < MaxRechazos
  /\ rechazos' = rechazos + 1
  /\ UNCHANGED <<worker, respuesta, storage, pendiente, llegado, cortado, masterCerro,
                 oyente, oidos>>

CerrarMaster ==
  /\ conexion["master"] = "conectado" /\ ~masterCerro
  /\ masterCerro' = TRUE
  /\ UNCHANGED <<worker, respuesta, storage, pendiente, llegado, cortado, rechazos,
                 oyente, oidos>>

-----------------------------------------------------------------------------
(* The main thread of the Worker *)

\* crear_conexion_cliente_worker returns the descriptor whether it is connected or
\* not: only the socket is checked.  What is sent through one that is not connected
\* ends the process (SIGPIPE).
Conectar(p, r) ==
  /\ conexion' = [conexion EXCEPT ![p] = r]
  /\ caido' = (r = "rechazado")

\* worker_conectar_master: the handshake is sent and nothing is waited for; without
\* a socket the start goes on all the same.
ConectarMaster ==
  /\ hilo = "master" /\ ~caido
  /\ \E r \in Resultados : Conectar("master", r)
  /\ hilo' = "storage"
  /\ UNCHANGED <<respuesta, peer, pos, block_size, frames, oyente, oidos>>

\* worker_conectar_storage, up to its recibir_paquete.
ConectarStorage ==
  /\ hilo = "storage" /\ ~caido
  /\ \E r \in Resultados :
       /\ Conectar("storage", r)
       /\ hilo' = IF r = "sin_socket" THEN "fallo" ELSE "codigo"
  /\ UNCHANGED <<respuesta, peer, pos, block_size, frames, oyente, oidos>>

\* A recv of k bytes with MSG_WAITALL ends with all of them, or with what there is
\* once the Storage closed.
Hay == llegado - pos
Obtiene(k) == IF Hay < k THEN Hay ELSE k
TerminaSinEsperar(k) == TRUE   \* mutant: without MSG_WAITALL and without blocking
Termina(k) == Hay >= k \/ cortado

CodigoSinMirar ==   \* mutant: what recv returns is not looked at
  /\ hilo = "codigo" /\ ~caido /\ Termina(4)
  /\ pos' = pos + Obtiene(4)
  /\ hilo' = "tamanio"
  /\ UNCHANGED <<conexion, block_size, frames, caido, respuesta, peer, oyente, oidos>>

\* recibir_paquete: a code that is cut short is taken as it is, and so is a size; the
\* recv after it gets nothing.
RecibirCodigo ==
  /\ hilo = "codigo" /\ ~caido /\ Termina(4)
  /\ pos' = pos + Obtiene(4)
  /\ hilo' = IF Obtiene(4) > 0 THEN "tamanio" ELSE "fallo"
  /\ UNCHANGED <<conexion, block_size, frames, caido, respuesta, peer, oyente, oidos>>

RecibirTamanio ==
  /\ hilo = "tamanio" /\ ~caido /\ Termina(4)
  /\ pos' = pos + Obtiene(4)
  /\ hilo' = IF Obtiene(4) = 4 THEN "cuerpo" ELSE "fallo"
  /\ UNCHANGED <<conexion, block_size, frames, caido, respuesta, peer, oyente, oidos>>

\* The fields of the answer, out of a block of which n bytes were received.
BloqueEn(n) == IF n >= 4 THEN {respuesta.bloque} ELSE Basura
ResultEn(n) == IF n >= 8 THEN {respuesta.result} ELSE Basura

AceptarSinResultado(n) ==   \* mutant: result_ok is not looked at
  \E b \in BloqueEn(n) :
    IF b > 0 THEN hilo' = "cache" /\ block_size' = b
             ELSE hilo' = "fallo" /\ UNCHANGED block_size

AceptarSinTamanio(n) ==   \* mutant: the block size is not looked at
  \E b \in BloqueEn(n), result \in ResultEn(n) :
    IF result = 0 THEN hilo' = "cache" /\ block_size' = b
                  ELSE hilo' = "fallo" /\ UNCHANGED block_size

\* The checks: a result that is 0 and a block size that is positive.
Aceptar(n) ==
  \E b \in BloqueEn(n), result \in ResultEn(n) :
    IF result = 0 /\ b > 0 THEN hilo' = "cache" /\ block_size' = b
                           ELSE hilo' = "fallo" /\ UNCHANGED block_size

TamanioConCabecera == 4 + 4 + respuesta.size   \* mutant: the header is counted

\* How many bytes the body has: what the size says.
Tamanio == respuesta.size

RecibirCuerpo ==
  /\ hilo = "cuerpo" /\ ~caido /\ Termina(Tamanio)
  /\ pos' = pos + Obtiene(Tamanio)
  /\ IF Obtiene(Tamanio) > 0 /\ Tamanio >= 8
     THEN Aceptar(Obtiene(Tamanio))
     ELSE hilo' = "fallo" /\ UNCHANGED block_size
  /\ UNCHANGED <<conexion, frames, caido, respuesta, peer, oyente, oidos>>

\* memoria_crear_cache returns NULL when no frame fits, which nobody looks at.
CrearCache ==
  /\ hilo = "cache" /\ ~caido
  /\ LET n == TamMemoria \div block_size
     IN  frames' = IF n = 0 THEN NULL ELSE n
  /\ hilo' = "pausa" /\ oyente' = "codigo"
  /\ UNCHANGED <<conexion, pos, block_size, caido, respuesta, peer, oidos>>

\* worker_destroy reads archivos and memoria, that nobody wrote: it may fall, or end.
Destruir ==
  /\ hilo = "fallo" /\ ~caido
  /\ hilo' = "fin" /\ caido' \in BOOLEAN
  /\ UNCHANGED <<conexion, pos, block_size, frames, respuesta, peer, oyente, oidos>>

Principal ==
  \/ ConectarMaster \/ ConectarStorage
  \/ RecibirCodigo \/ RecibirTamanio \/ RecibirCuerpo
  \/ CrearCache \/ Destruir

-----------------------------------------------------------------------------
(* worker_escuchar_master *)

OirSinMirar ==   \* mutant: a code of -1 is taken for the end of the connection
  [codigo |-> "fin", tamanio |-> "cuerpo", cuerpo |-> "fin"]

\* A -1 is read as a code and the next as a size, for which there is no memory; what
\* follows cannot be received and the thread ends.
OirRechazo == [codigo |-> "tamanio", tamanio |-> "cuerpo", cuerpo |-> "fin"]

SinMaster == masterCerro \/ conexion["master"] # "conectado"

Escuchar ==
  /\ oyente \in DOMAIN OirRechazo /\ ~caido
  /\ \/ oidos < rechazos /\ oidos' = oidos + 1 /\ oyente' = OirRechazo[oyente]
     \/ oidos = rechazos /\ SinMaster /\ UNCHANGED oidos /\ oyente' = "fin"
  /\ UNCHANGED <<worker, respuesta, peer>>

-----------------------------------------------------------------------------
Next ==
  \/ LeerNombre \/ LeerOperacion \/ Responder \/ Cortar
  \/ Rechazar \/ CerrarMaster
  \/ Principal \/ Escuchar

Spec == Init /\ [][Next]_vars

\* The operating system schedules the threads of the Worker and of the Storage of this
\* repository.  A Storage that answers, and the Master, owe nothing.
FairSpec ==
  /\ Spec
  /\ WF_vars(Principal) /\ WF_vars(Escuchar)
  /\ WF_vars(LeerNombre) /\ WF_vars(LeerOperacion)

-----------------------------------------------------------------------------
(* Properties *)

Lugares == {"master", "storage", "codigo", "tamanio", "cuerpo", "cache", "pausa",
            "fallo", "fin"}

\* Types of the start.
TypeOK ==
  /\ hilo \in Lugares
  /\ conexion \in [{"master", "storage"} -> Resultados \cup {Ninguna}]
  /\ storage \in {"responde", "nombre", "operacion"}
  /\ respuesta \in Respuestas
  /\ pendiente \in Nat
  /\ llegado \in Nat /\ llegado <= Respondido
  /\ pos \in Nat /\ pos <= llegado
  /\ block_size \in {-1} \cup (Nat \ {0})
  /\ frames \in {NULL} \cup (Nat \ {0})
  /\ oyente \in {"sin_crear", "codigo", "tamanio", "cuerpo", "fin"}
  /\ rechazos \in Nat /\ rechazos <= MaxRechazos
  /\ oidos \in Nat /\ oidos <= rechazos
  /\ cortado \in BOOLEAN /\ masterCerro \in BOOLEAN /\ caido \in BOOLEAN

\* A Worker that runs has pages of the block size a Storage answered, with a result
\* of 0, or the Storage closed before the last byte it needs of the answer: only
\* then are fields taken that nobody received (paquete.c l. 64, worker_conexiones.c
\* l. 57-59).
BloqueDelStorage ==
  hilo \in {"cache", "pausa"} =>
    \/ respuesta.result = 0 /\ block_size = respuesta.bloque
    \/ cortado /\ llegado < 16

\* With the Storage of this repository no Worker ever starts (worker_conexiones.c
\* l. 46).
NuncaArrancaConMudo == Mudo => hilo \notin {"tamanio", "cuerpo", "cache", "pausa"}

\* Each waits for the other to speak.
Esperan == hilo = "codigo" /\ storage = "operacion" /\ pendiente < 4

\* They end up waiting for each other for ever, whatever the length of the id, unless
\* the Storage goes away (worker_conexiones.c l. 46, main_storage.c l. 105, 113).
EsperaMutua ==
  Mudo /\ conexion["storage"] = "conectado" ~> cortado \/ []Esperan

\* With a Storage that has answered, or gone, the start ends: the Worker runs, or
\* ends, or has fallen.
ArranqueTermina ==
  conexion["storage"] = "conectado" /\ (cortado \/ llegado = Respondido)
    ~> hilo \in {"pausa", "fin"} \/ caido

\* The thread that listens does not end while the Master is there and has refused
\* fewer than three times (worker_conexiones.c l. 84-88, deserealizacion_master.c
\* l. 99-104).
SigueEscuchando == oyente = "fin" => SinMaster \/ rechazos >= 3
=============================================================================
