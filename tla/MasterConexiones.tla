---------------------------- MODULE MasterConexiones ----------------------------
(***************************************************************************)
(* One connection of the Master (master/src/main_master.c and the receives *)
(* of deserealizacion_master.c).  Three threads receive from its socket:   *)
(*   C  atender_conexiones_cliente, recibir_id_worker for ever;            *)
(*   Q  atender_querys, one operation and, maybe, the packet of a query;   *)
(*   W  atender_worker, operations until the connection ends.              *)
(* Q and W take the descriptor from one heap cell, and each frees it.  The *)
(* C of an earlier connection with the same number would be one more like  *)
(* this one.                                                               *)
(*                                                                         *)
(* The peer sends one packet, which arrives in pieces of any size.  A recv *)
(* takes what there is, or waits for all it asked for with MSG_WAITALL.    *)
(***************************************************************************)
EXTENDS Paquetes, FiniteSetsExt, Functions

CONSTANTS
  Clientes,    \* who may connect
  Modulo,      \* the text "WORKER"
  Cortes       \* bound: where what the peer sends may be cut on its way

\* A path or an id is an argument of a program: it holds no NUL, and its length is
\* far below what fits in an int32_t (Linux takes no argument of more than 128 KB).
ASSUME ClientesAssumption ==
  /\ Clientes \subseteq
       [tipo : {"query", "worker"}, texto : Seq(Byte \ {0}), prioridad : Byte]
  /\ \A c \in Clientes : Len(c.texto) < 256 * 256 * 256
\* "WORKER" (worker_conexiones.c l. 18) is six capital letters.
ASSUME ModuloAssumption == Modulo \in Seq(65 .. 90) /\ Len(Modulo) = 6

VARIABLES
  cliente,      \* who has connected
  flujo,        \* the bytes it sends
  llegado,      \* how many have arrived
  pos,          \* how many have been received
  cerrado,      \* has the peer closed?
  abierto,      \* is the descriptor open in the Master?
  celda,        \* is the heap cell with the descriptor allocated?
  perdidos,     \* threads that read the cell after it was freed
  lugar,        \* where each thread is
  tengo,        \* what a recv with MSG_WAITALL has so far
  campo,        \* the size each thread has received
  codigo,       \* the code recibir_id_worker has received
  planificada,  \* what the planner was given
  limpia,       \* history: has Q received alone, and what it needs at once?
  reconocidos,  \* history: codes the threads have acted on, whole or cut
  avisado,      \* has something been sent to the peer after it closed?
  caido         \* has the process fallen?

par == <<cliente, flujo>>
hilos == <<lugar, tengo, campo, codigo>>
historia == <<limpia, reconocidos>>
vars == <<par, llegado, pos, cerrado, abierto, celda, perdidos, hilos, planificada,
          historia, avisado, caido>>

Hilos == {"C", "Q", "W"}

Lugares == {"celda", "liberar", "codigo", "msj_tamanio", "msj_cuerpo",
            "id_codigo", "id_tamanio", "id_carga", "tamanio", "carga",
            "planificando", "fin"}

\* A value that depends on bytes nobody received.
Otro == -1

\* Nothing was given to the planner, and something other than what was received.
Nada == [prioridad |-> -1, path |-> <<>>]
Dudosa == [prioridad |-> -2, path |-> <<>>]

\* Types of the connection; the planner is given something only by Q.
TypeOK ==
  /\ cliente \in Clientes
  /\ llegado \in 0 .. Len(flujo) /\ pos \in 0 .. llegado
  /\ cerrado \in BOOLEAN /\ abierto \in BOOLEAN /\ celda \in BOOLEAN
  /\ perdidos \subseteq {"Q", "W"}
  /\ lugar \in [Hilos -> Lugares]
  /\ \A h \in Hilos : Len(tengo[h]) < 4
  /\ campo \in [Hilos -> Nat \cup {Otro}]
  /\ codigo \in [Hilos -> {ID_WORKER, Otro}]
  /\ reconocidos \subseteq [valor : {MENSAJE, MENSAJE_MASTER, ID_WORKER}, entero : BOOLEAN]
  /\ limpia \in BOOLEAN /\ avisado \in BOOLEAN /\ caido \in BOOLEAN
  /\ planificada # Nada => lugar["Q"] = "planificando"

Flujo(c) ==
  IF c.tipo = "query" THEN PaqueteQuery(c.texto, c.prioridad)
                      ELSE PaqueteHandshake(Modulo, c.texto)

Init ==
  /\ cliente \in Clientes
  /\ flujo = Flujo(cliente)
  /\ llegado = 0 /\ pos = 0
  /\ cerrado = FALSE /\ abierto = TRUE
  /\ celda = TRUE /\ perdidos = {}
  /\ lugar = [h \in Hilos |-> IF h = "C" THEN "id_codigo" ELSE "celda"]
  /\ tengo = [h \in Hilos |-> <<>>]
  /\ campo = [h \in Hilos |-> 0]
  /\ codigo = [h \in Hilos |-> Otro]
  /\ planificada = Nada
  /\ limpia = TRUE /\ reconocidos = {}
  /\ avisado = FALSE /\ caido = FALSE

Ir(h, l) == ~caido /\ lugar' = [lugar EXCEPT ![h] = l]

-----------------------------------------------------------------------------
(* The peer *)

Llegar ==
  /\ \E n \in (Cortes \cap 1 .. Len(flujo)) \cup {Len(flujo)} :
       n > llegado /\ llegado' = n
  /\ UNCHANGED <<par, pos, cerrado, abierto, celda, perdidos, hilos, planificada,
                 historia, avisado, caido>>

\* A Query Control closes after its packet (terminar_programa); a Worker, when it
\* ends.  What it has sent arrives before.
Cerrar ==
  /\ ~cerrado /\ llegado = Len(flujo)
  /\ cerrado' = TRUE
  /\ UNCHANGED <<par, llegado, pos, abierto, celda, perdidos, hilos, planificada,
                 historia, avisado, caido>>

-----------------------------------------------------------------------------
(* The heap cell *)

\* int fd = *(int *)socket_server: free writes over the cell.
LeerCelda(h) ==
  /\ lugar[h] = "celda" /\ Ir(h, "liberar")
  /\ perdidos' = IF celda THEN perdidos ELSE perdidos \cup {h}
  /\ UNCHANGED <<par, llegado, pos, cerrado, abierto, celda, tengo, campo, codigo,
                 planificada, historia, avisado, caido>>

\* The second free is detected and ends the process, or it is not noticed.
LiberarCelda(h) ==
  /\ lugar[h] = "liberar" /\ Ir(h, "codigo")
  /\ celda' = FALSE
  /\ caido' \in (IF celda THEN {FALSE} ELSE BOOLEAN)
  /\ UNCHANGED <<par, llegado, pos, cerrado, abierto, perdidos, tengo, campo,
                 codigo, planificada, historia, avisado>>

-----------------------------------------------------------------------------
(* recv *)

Hay == llegado - pos

\* recv returns 0 or -1: the peer closed and nothing is left, or the number is not
\* that of an open descriptor.
SeFue(h) == h \in perdidos \/ ~abierto \/ (cerrado /\ Hay = 0)

PuedeRecibir(h) == ~(h \in perdidos) /\ abierto /\ Hay > 0

Trozo(k) == SubSeq(flujo, pos + 1, pos + k)

\* The recv calls with MSG_WAITALL.
ConEspera == {"codigo", "msj_tamanio"}

\* Some of the bytes of an integer arrived; the recv keeps them and waits.
Acumular(h) ==
  /\ ~caido /\ lugar[h] \in ConEspera /\ PuedeRecibir(h)
  /\ Len(tengo[h]) + Hay < 4
  /\ tengo' = [tengo EXCEPT ![h] = @ \o Trozo(Hay)]
  /\ pos' = llegado
  /\ limpia' = (limpia /\ h = "Q")
  /\ UNCHANGED <<par, llegado, cerrado, abierto, celda, perdidos, lugar, campo,
                 codigo, planificada, reconocidos, avisado, caido>>

Atendidos == {MENSAJE, MENSAJE_MASTER, ID_WORKER}

Completo(b) == Len(b) = 4 /\ \A i \in 1 .. 4 : b[i] # Basura

\* What an integer may be when only the bytes b of it were received: a code that has
\* those bytes, or a value that is none of them.
Valores(b) ==
  IF Completo(b) THEN {Entero(b)}
  ELSE {Otro} \cup {v \in Atendidos : \A i \in 1 .. Len(b) : b[i] \in {Basura, Int4(v)[i]}}

\* How the recv of an integer may end: n new bytes, all it has, and its value.
Enteros(h) ==
  LET n == Min({4 - Len(tengo[h]), Hay})
      b == tengo[h] \o Trozo(n)
  IN  IF SeFue(h) THEN [n : {0}, bytes : {tengo[h]}, valor : Valores(tengo[h])]
      ELSE IF PuedeRecibir(h) /\ (lugar[h] \in ConEspera => Len(b) = 4)
      THEN [n : {n}, bytes : {b}, valor : Valores(b)]
      ELSE {}

\* Something of it was received: its first byte, which tells the codes apart.
Empezado(b) == b # <<>> /\ b[1] # Basura

RecibirEntero(h, r) ==
  /\ pos' = pos + r.n
  /\ tengo' = [tengo EXCEPT ![h] = <<>>]
  /\ limpia' = (limpia /\ IF h = "Q" THEN Len(r.bytes) = 4 ELSE r.n = 0)
  /\ reconocidos' =
       IF lugar[h] \in {"codigo", "id_codigo"} /\ Empezado(r.bytes)
       THEN reconocidos \cup [valor : {r.valor} \cap Atendidos, entero : {Completo(r.bytes)}]
       ELSE reconocidos

\* A size, up to all that could be received.
Tope(v) == IF v = Otro THEN Otro ELSE Min({v, Len(flujo)})

CuantosPide(h) ==   \* mutant: what was asked for is taken for what was received
  IF SeFue(h) THEN {0} ELSE IF ~PuedeRecibir(h) THEN {}
  ELSE IF campo[h] = Otro THEN 0 .. Hay ELSE {campo[h]}

\* How many bytes a recv of campo[h] bytes may take.
Cuantos(h) ==
  IF SeFue(h) \/ campo[h] = 0 THEN {0}
  ELSE IF ~PuedeRecibir(h) THEN {}
  ELSE IF campo[h] = Otro THEN 0 .. Hay
  ELSE {Min({campo[h], Hay})}

-----------------------------------------------------------------------------
(* recibir_operacion *)

NoHayOperacionSigue(h) ==   \* mutant: recv >= 0 is taken for success
  /\ lugar[h] = "codigo" /\ SeFue(h) /\ tengo[h] = <<>>
  /\ Ir(h, "codigo")
  /\ UNCHANGED <<par, llegado, pos, cerrado, abierto, celda, perdidos, tengo, campo,
                 codigo, planificada, historia, avisado, caido>>

\* Nothing was received: the descriptor is closed and -1 ends the thread.
NoHayOperacion(h) ==
  /\ lugar[h] = "codigo" /\ SeFue(h) /\ tengo[h] = <<>>
  /\ Ir(h, "fin")
  /\ abierto' = (abierto /\ h \in perdidos)
  /\ UNCHANGED <<par, llegado, pos, cerrado, celda, perdidos, tengo, campo, codigo,
                 planificada, historia, avisado, caido>>

\* The bytes b are those of -1, or may be it when only these were received.
EsMenosUno(b) == b = <<255, 255, 255, 255>>
QuizasMenosUno(b) == ~Completo(b) /\ \A i \in 1 .. Len(b) : b[i] \in {Basura, 255}

\* Where an operation takes each thread (the two switches).  A -1 that is received
\* also ends W, with the descriptor open.
Destinos(h, r) ==
  CASE h = "Q" /\ r.valor = MENSAJE_MASTER -> {"tamanio"}
    [] h = "Q" /\ r.valor # MENSAJE_MASTER -> {"fin"}
    [] h = "W" /\ r.valor = MENSAJE        -> {"msj_tamanio"}
    [] h = "W" /\ r.valor = ID_WORKER      -> {"id_codigo"}
    [] OTHER -> IF EsMenosUno(r.bytes) THEN {"fin"}
                ELSE IF QuizasMenosUno(r.bytes) THEN {"codigo", "fin"} ELSE {"codigo"}

RecibirOperacion(h) ==
  /\ lugar[h] = "codigo" /\ ~(SeFue(h) /\ tengo[h] = <<>>)
  /\ \E r \in Enteros(h) :
       RecibirEntero(h, r) /\ \E l \in Destinos(h, r) : Ir(h, l)
  /\ UNCHANGED <<par, llegado, cerrado, abierto, celda, perdidos, campo, codigo,
                 planificada, avisado, caido>>

-----------------------------------------------------------------------------
(* atender_querys *)

\* recibir_paquete_query: the size, without waiting for all of it.
RecibirTamanio ==
  /\ lugar["Q"] = "tamanio" /\ Ir("Q", "carga")
  /\ \E r \in Enteros("Q") :
       RecibirEntero("Q", r) /\ campo' = [campo EXCEPT !["Q"] = Tope(r.valor)]
  /\ UNCHANGED <<par, llegado, cerrado, abierto, celda, perdidos, codigo,
                 planificada, avisado, caido>>

\* Then what has arrived of the rest, which paquete_deserializar takes as it is:
\* fields that were not received are garbage, or the copy of the path falls.
RecibirCarga ==
  /\ lugar["Q"] = "carga" /\ Ir("Q", "planificando")
  /\ \E k \in Cuantos("Q") :
       /\ pos' = pos + k
       /\ limpia' = (limpia /\ k >= Min({5 + Len(cliente.texto), Len(flujo) - 8}))
       /\ IF Deserializable(Trozo(k))
          THEN planificada' = PaqueteDeserializar(Trozo(k)) /\ UNCHANGED caido
          ELSE planificada' = Dudosa /\ caido' \in BOOLEAN
  /\ campo' = [campo EXCEPT !["Q"] = 0]
  /\ UNCHANGED <<par, llegado, cerrado, abierto, celda, perdidos, tengo, codigo,
                 reconocidos, avisado>>

-----------------------------------------------------------------------------
(* atender_worker and atender_conexiones_cliente *)

\* recibir_mensaje in W: the size of a text and the text, and then what follows in
\* the switch, which is ID_WORKER.
RecibirMensaje ==
  \/ /\ lugar["W"] = "msj_tamanio" /\ Ir("W", "msj_cuerpo")
     /\ \E r \in Enteros("W") :
          RecibirEntero("W", r) /\ campo' = [campo EXCEPT !["W"] = Tope(r.valor)]
     /\ UNCHANGED <<par, llegado, cerrado, abierto, celda, perdidos, codigo,
                    planificada, avisado, caido>>
  \/ /\ lugar["W"] = "msj_cuerpo"
     /\ \E k \in Cuantos("W") :
          /\ pos' = pos + k
          /\ limpia' = (limpia /\ k = 0)
          /\ IF campo["W"] > k /\ ~SeFue("W")
             THEN Ir("W", "msj_cuerpo") /\ campo' = [campo EXCEPT !["W"] = @ - k]
             ELSE Ir("W", "id_codigo") /\ campo' = [campo EXCEPT !["W"] = 0]
     /\ UNCHANGED <<par, llegado, cerrado, abierto, celda, perdidos, tengo, codigo,
                    planificada, reconocidos, avisado, caido>>

\* recibir_id_worker: a code and a size, neither of which is waited for.
RecibirId(h) ==
  \/ /\ lugar[h] = "id_codigo" /\ Ir(h, "id_tamanio")
     /\ \E r \in Enteros(h) :
          /\ RecibirEntero(h, r)
          /\ codigo' = [codigo EXCEPT ![h] =
                          IF r.valor = ID_WORKER THEN ID_WORKER ELSE Otro]
     /\ UNCHANGED <<par, llegado, cerrado, abierto, celda, perdidos, campo,
                    planificada, avisado, caido>>
  \/ /\ lugar[h] = "id_tamanio" /\ Ir(h, "id_carga")
     /\ \E r \in Enteros(h) :
          RecibirEntero(h, r) /\ campo' = [campo EXCEPT ![h] = Tope(r.valor)]
     /\ UNCHANGED <<par, llegado, cerrado, abierto, celda, perdidos, codigo,
                    planificada, avisado, caido>>

\* The rest, and -1 to the peer when the code was another: the second time that
\* something is sent to a peer that closed, SIGPIPE may end the process.  W then
\* writes through a pointer and to a list that nobody initialised.
RecibirCargaId(h) ==
  /\ lugar[h] = "id_carga" /\ Ir(h, "id_codigo")
  /\ \E k \in Cuantos(h) : pos' = pos + k /\ limpia' = (limpia /\ k = 0)
  /\ LET responde == codigo[h] # ID_WORKER /\ abierto
     IN  /\ avisado' = (avisado \/ (responde /\ cerrado))
         /\ caido' \in IF h = "W" THEN {TRUE}
                       ELSE IF responde /\ avisado THEN BOOLEAN ELSE {FALSE}
  /\ campo' = [campo EXCEPT ![h] = 0]
  /\ codigo' = [codigo EXCEPT ![h] = Otro]
  /\ UNCHANGED <<par, llegado, cerrado, abierto, celda, perdidos, tengo, planificada,
                 reconocidos>>

-----------------------------------------------------------------------------
Hilo(h) ==
  \/ Acumular(h)
  \/ LeerCelda(h) \/ LiberarCelda(h) \/ NoHayOperacion(h) \/ RecibirOperacion(h)
  \/ h = "Q" /\ (RecibirTamanio \/ RecibirCarga)
  \/ h = "W" /\ RecibirMensaje
  \/ h # "Q" /\ (RecibirId(h) \/ RecibirCargaId(h))

Next == Llegar \/ Cerrar \/ \E h \in Hilos : Hilo(h)

Spec == Init /\ [][Next]_vars

\* The operating system schedules Q and W; nothing is asked of the peer, nor of C,
\* which takes bytes from them.
FairSpec == Spec /\ \A h \in {"Q", "W"} : WF_vars(Hilo(h))

-----------------------------------------------------------------------------
(* Properties *)

\* What the planner is given is what the Query Control sent, when Q is the one that
\* receives it and the path arrives in one piece: the size counted twice by
\* buffer_add and the three bytes not sent (serializacion_envio.c l. 22, 74) cost
\* no byte of the path.
ConsultaEntera ==
  limpia /\ cliente.tipo = "query" /\ planificada # Nada =>
    planificada = [prioridad |-> cliente.prioridad, path |-> cliente.texto]

\* And however the bytes are shared out and cut, what is left of a packet never
\* reads as another query: the planner is given the one that was sent, or what it
\* is given depends on bytes nobody received (deserealizacion_master.c l. 10-13).
\* So it is for texts of 1 to 239 characters, whose lengths fit in a byte that is
\* not zero; an empty path, or one of 256 with priority 0, can be mistaken.
NuncaOtraConsulta ==
  Len(cliente.texto) \in 1 .. 239 =>
    planificada \in {Nada, Dudosa, [prioridad |-> cliente.prioridad,
                                    path      |-> cliente.texto]}

\* The bytes of the sizes of a packet, its code and the priority of the query.
Coincidencias ==
  LET Bytes(n) == {Int4(n)[i] : i \in 1 .. 4}
      largo == Len(cliente.texto)
  IN IF cliente.tipo = "query"
     THEN {MENSAJE_MASTER, cliente.prioridad} \cup Bytes(10 + 2 * largo) \cup Bytes(largo)
     ELSE {Len(Modulo) + 1} \cup Bytes(16 + largo) \cup Bytes(largo + 1)

\* However the three threads share the bytes out, a whole code they act on is one of
\* those, and never of the characters of a path or an id; the first byte of one that
\* was cut may also be one of its characters (the last one, say, before the bytes of
\* the buffer nobody wrote), the rest being garbage.  So, of the texts of 1 to 100, a
\* whole code takes a Worker for a query only if its id has five characters, and a
\* query for a Worker only if its path has one or seven, or its priority is 1 or 7:
\* 1 is MENSAJE, which falls through to ID_WORKER (main_master.c l. 66, 78, 106-111).
\* Of a code of which nothing was received, nothing is said.
SoloCoincidencias ==
  \A r \in reconocidos :
    r.valor \in Coincidencias \/ (~r.entero /\ r.valor \in Range(cliente.texto))

\* Once the peer has closed Q and W are done with it, or the process has fallen,
\* whatever they were in the middle of (conexiones_servidor.c l. 69-83).
TerminanAlCerrar ==
  cerrado ~> caido \/ (lugar["W"] = "fin" /\ lugar["Q"] \in {"fin", "planificando"})
=============================================================================
