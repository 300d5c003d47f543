--------------------------- MODULE StorageConexiones ---------------------------
(***************************************************************************)
(* The connections of the Storage: the loop of main that accepts, a thread *)
(* per client running manejar_cliente (storage/src/main_storage.c          *)
(* l. 77-128), and recibir_operacion and recibir_mensaje of utils.         *)
(*                                                                         *)
(* Descriptors are the numbers of a table the whole process shares: the    *)
(* kernel gives accept the lowest free one, and a thread that closes its   *)
(* number twice may close what the number names by then.  A recv that has  *)
(* begun goes on with the connection it began with.  cantidad_workers is   *)
(* read and written without a lock, in two steps.                          *)
(***************************************************************************)
EXTENDS Integers, Sequences, FiniteSetsExt

CONSTANTS
  Clientes,      \* the connections made to the Storage; each has one thread
  Nadie,         \* "no connection"
  MaxFd,         \* descriptors 1 .. MaxFd are available for clients
  Locuaces,      \* the clients that send messages after their identification
  Restos,        \* how the end of the identification of each may be read, if cut
  MaxMensajes,   \* bound: how many of them
  Simultaneos,   \* connections alive at the same time
  Sondas         \* may a client close without having identified itself?

ASSUME NadieAssumption == Nadie \notin Clientes
ASSUME CotasAssumption == /\ MaxFd \in Nat \ {0} /\ MaxMensajes \in Nat
                          /\ Simultaneos \in Nat \ {0}
ASSUME SondasAssumption == Sondas \in BOOLEAN
ASSUME LocuacesAssumption == Locuaces \subseteq Clientes
ASSUME RestosAssumption ==
  Restos \in [Clientes -> SUBSET {<<>>, <<"resto">>, <<"menos uno">>}]

VARIABLES
  par,        \* what each peer has done: "afuera", "abierto" or "cerrado"
  bytes,      \* sent by the peer and not received yet
  envios,     \* what the peer has sent: its identification, and messages
  tabla,      \* the connection each descriptor names
  hilo,       \* where the thread of each client is
  fd,         \* cliente_fd of each thread
  recv,       \* the connection a thread is blocked on in recv
  cantidad,   \* cantidad_workers
  leido,      \* what a thread has read of cantidad_workers
  contado,    \* history: did the thread increment cantidad_workers?
  solaparon   \* history: have two connections been alive at once?

red == <<par, bytes, envios>>
cuenta == <<cantidad, leido, contado>>
vars == <<red, tabla, hilo, fd, recv, cuenta, solaparon>>

Fds == 1 .. MaxFd
Vivos == {c \in Clientes : par[c] # "afuera" /\ hilo[c] # "fin"}

\* What a peer sends: its identification, maybe in two parts, the second of which,
\* alone, is read as an unknown code or as -1; and an operation code followed by the
\* size and the text of a message.
Datos == {"id", "resto", "menos uno", "mensaje", "cuerpo"}

\* Only an identification with four bytes 255 in a row may be read as -1.
Raros == {c \in Clientes : <<"menos uno">> \in Restos[c]}

\* Where a thread can be in manejar_cliente.
Lugares == {"nada", "id", "sumar", "sumando", "operacion", "mensaje", "cerrar",
            "cerrar otra vez", "restar", "restando", "fin", "caido"}

\* Types of the connections and of their threads.
TypeOK ==
  /\ par \in [Clientes -> {"afuera", "abierto", "cerrado"}]
  /\ bytes \in [Clientes -> Seq(Datos)]
  /\ envios \in [Clientes -> 0 .. MaxMensajes + 1]
  /\ tabla \in [Fds -> Clientes \cup {Nadie}]
  /\ hilo \in [Clientes -> Lugares]
  /\ fd \in [Clientes -> Fds \cup {0}]
  /\ \A c \in Clientes : fd[c] = 0 <=> hilo[c] = "nada"
  /\ recv \in [Clientes -> Clientes \cup {Nadie}]
  /\ cantidad \in Int
  /\ leido \in [Clientes -> Int]
  /\ contado \in [Clientes -> BOOLEAN]
  /\ solaparon \in BOOLEAN

Init ==
  /\ par = [c \in Clientes |-> "afuera"]
  /\ bytes = [c \in Clientes |-> <<>>]
  /\ envios = [c \in Clientes |-> 0]
  /\ tabla = [f \in Fds |-> Nadie]
  /\ hilo = [c \in Clientes |-> "nada"]
  /\ fd = [c \in Clientes |-> 0]
  /\ recv = [c \in Clientes |-> Nadie]
  /\ cantidad = 0
  /\ leido = [c \in Clientes |-> 0]
  /\ contado = [c \in Clientes |-> FALSE]
  /\ solaparon = FALSE

\* A thread that falls takes the whole process with it.
Vive == \A c \in Clientes : hilo[c] # "caido"

Ir(c, lugar) == Vive /\ hilo' = [hilo EXCEPT ![c] = lugar]

-----------------------------------------------------------------------------
(* The peers *)

Conectar(c) ==
  /\ par[c] = "afuera"
  /\ Cardinality(Vivos) < Simultaneos
  /\ par' = [par EXCEPT ![c] = "abierto"]
  /\ solaparon' = (solaparon \/ Vivos # {})
  /\ UNCHANGED <<bytes, envios, tabla, hilo, fd, recv, cuenta>>

Enviar(c, datos) ==
  /\ par[c] = "abierto"
  /\ bytes' = [bytes EXCEPT ![c] = @ \o datos]
  /\ envios' = [envios EXCEPT ![c] = @ + 1]
  /\ UNCHANGED <<par, tabla, hilo, fd, recv, cuenta, solaparon>>

\* The handshake of worker_conectar_storage is the first thing a Worker sends.  It may
\* arrive in parts, or be longer than the 63 bytes of the first recv; the second part
\* is taken to be four bytes, so that the codes after it are read where they begin.
Identificarse(c) ==
  /\ envios[c] = 0
  /\ \E resto \in Restos[c] : Enviar(c, <<"id">> \o resto)

\* enviar_mensaje of utils: operation code, and size and text, in one send.
EnviarMensaje(c) ==
  /\ c \in Locuaces /\ envios[c] \in 1 .. MaxMensajes
  /\ Enviar(c, <<"mensaje", "cuerpo">>)

Desconectarse(c) ==
  /\ par[c] = "abierto" /\ (Sondas \/ envios[c] > 0)
  /\ par' = [par EXCEPT ![c] = "cerrado"]
  /\ UNCHANGED <<bytes, envios, tabla, hilo, fd, recv, cuenta, solaparon>>

-----------------------------------------------------------------------------
(* The loop of main *)

Libres == {f \in Fds : tabla[f] = Nadie}

AceptarSinMirar(c) ==   \* mutant: the descriptor is not compared with -1
  /\ par[c] # "afuera" /\ hilo[c] = "nada"
  /\ IF Libres = {}
     THEN UNCHANGED <<tabla, fd>>
     ELSE /\ tabla' = [tabla EXCEPT ![Min(Libres)] = c]
          /\ fd' = [fd EXCEPT ![c] = Min(Libres)]
  /\ Ir(c, "id")
  /\ UNCHANGED <<red, recv, cuenta, solaparon>>

\* esperar_cliente, and the thread created for the connection.
Aceptar(c) ==
  /\ par[c] # "afuera" /\ hilo[c] = "nada" /\ Libres # {}
  /\ tabla' = [tabla EXCEPT ![Min(Libres)] = c]
  /\ fd' = [fd EXCEPT ![c] = Min(Libres)]
  /\ Ir(c, "id")
  /\ UNCHANGED <<red, recv, cuenta, solaparon>>

-----------------------------------------------------------------------------
(* manejar_cliente *)

\* A recv begins: the number is looked up in the table.
EmpezarRecv(h) ==
  /\ Vive /\ hilo[h] \in {"id", "operacion", "mensaje"}
  /\ recv[h] = Nadie /\ tabla[fd[h]] # Nadie
  /\ recv' = [recv EXCEPT ![h] = tabla[fd[h]]]
  /\ UNCHANGED <<red, tabla, hilo, fd, cuenta, solaparon>>

HayDatos(h) == recv[h] # Nadie /\ bytes[recv[h]] # <<>>

\* recv returns 0 or -1: the peer has closed, or the number names nothing.
SinDatos(h) ==
  \/ recv[h] # Nadie /\ bytes[recv[h]] = <<>> /\ par[recv[h]] = "cerrado"
  \/ recv[h] = Nadie /\ tabla[fd[h]] = Nadie

Consumir(h, n) ==
  /\ bytes' = [bytes EXCEPT ![recv[h]] = SubSeq(@, n + 1, Len(@))]
  /\ recv' = [recv EXCEPT ![h] = Nadie]
  /\ UNCHANGED <<par, envios, tabla, fd, cuenta, solaparon>>

\* The first recv takes what has arrived, up to 63 bytes: the identification or a
\* part of it and, if they came with it, some of the messages after it.
RecibirId(h) ==
  /\ hilo[h] = "id" /\ HayDatos(h)
  /\ \E n \in 1 .. Len(bytes[recv[h]]) : Consumir(h, n)
  /\ Ir(h, "sumar")

\* Where each code leads (the switch of manejar_cliente): a -1 that was received is
\* taken for a disconnection, without the close of recibir_operacion.
Codigos == [d \in Datos |-> CASE d = "mensaje"   -> "mensaje"
                              [] d = "menos uno" -> "cerrar otra vez"
                              [] OTHER           -> "operacion"]

DesconocidaCierra(h) ==   \* mutant: an unknown operation ends the connection
  /\ hilo[h] = "operacion" /\ HayDatos(h)
  /\ Ir(h, IF Head(bytes[recv[h]]) = "mensaje" THEN "mensaje" ELSE "cerrar")
  /\ Consumir(h, 1)

\* recibir_operacion returns a code.
RecibirOperacion(h) ==
  /\ hilo[h] = "operacion" /\ HayDatos(h)
  /\ Ir(h, Codigos[Head(bytes[recv[h]])])
  /\ Consumir(h, 1)

RecibirMensaje(h) ==
  /\ hilo[h] = "mensaje" /\ HayDatos(h)
  /\ Ir(h, "operacion")
  /\ Consumir(h, 1)

TrasFalloSigue ==   \* mutant: the end of a connection is an unknown operation
  [id |-> {"operacion"}, operacion |-> {"operacion"}, mensaje |-> {"operacion"}]

\* Where a thread goes when recv fails.  recibir_buffer does not look at what recv
\* returns, and its size is what the stack had: garbage is printed, or the process
\* falls.
TrasFallo ==
  [id |-> {"operacion"}, operacion |-> {"cerrar"}, mensaje |-> {"operacion", "caido"}]

NoRecibir(h) ==
  /\ hilo[h] \in DOMAIN TrasFallo /\ SinDatos(h)
  /\ recv' = [recv EXCEPT ![h] = Nadie]
  /\ \E lugar \in TrasFallo[hilo[h]] : Ir(h, lugar)
  /\ UNCHANGED <<red, tabla, fd, cuenta, solaparon>>

NoLiberar(f) == UNCHANGED tabla   \* mutant: the descriptor is never closed
Liberar(f) == tabla' = [tabla EXCEPT ![f] = Nadie]

\* The close of recibir_operacion, and then the one of manejar_cliente.
Cerrar(h) ==
  /\ \/ hilo[h] = "cerrar" /\ Ir(h, "cerrar otra vez")
     \/ hilo[h] = "cerrar otra vez" /\ Ir(h, "restar")
  /\ Liberar(fd[h])
  /\ UNCHANGED <<red, fd, recv, cuenta, solaparon>>

\* cantidad_workers++ and cantidad_workers-- are a load and a store; the second
\* one is done whether the first was or not.
Cargar(h) ==
  /\ \/ hilo[h] = "sumar" /\ Ir(h, "sumando")
     \/ hilo[h] = "restar" /\ Ir(h, "restando")
  /\ leido' = [leido EXCEPT ![h] = cantidad]
  /\ UNCHANGED <<red, tabla, fd, recv, cantidad, contado, solaparon>>

GuardarSinContar(h) ==   \* mutant: the new worker is not counted
  /\ hilo[h] = "sumando" /\ Ir(h, "operacion")
  /\ cantidad' = leido[h]
  /\ contado' = [contado EXCEPT ![h] = TRUE]
  /\ UNCHANGED <<red, tabla, fd, recv, leido, solaparon>>

GuardarSuma(h) ==
  /\ hilo[h] = "sumando" /\ Ir(h, "operacion")
  /\ cantidad' = leido[h] + 1
  /\ contado' = [contado EXCEPT ![h] = TRUE]
  /\ UNCHANGED <<red, tabla, fd, recv, leido, solaparon>>

GuardarResta(h) ==
  /\ hilo[h] = "restando" /\ Ir(h, "fin")
  /\ cantidad' = leido[h] - 1
  /\ UNCHANGED <<red, tabla, fd, recv, leido, contado, solaparon>>

-----------------------------------------------------------------------------
Hilo(h) ==
  \/ EmpezarRecv(h) \/ RecibirId(h) \/ RecibirOperacion(h) \/ RecibirMensaje(h)
  \/ NoRecibir(h) \/ Cerrar(h)
  \/ Cargar(h) \/ GuardarSuma(h) \/ GuardarResta(h)

Par(c) == Conectar(c) \/ Identificarse(c) \/ EnviarMensaje(c) \/ Desconectarse(c)

Next == \E c \in Clientes : Par(c) \/ Aceptar(c) \/ Hilo(c)

Spec == Init /\ [][Next]_vars

\* The main thread and the threads of the clients are scheduled by the operating
\* system; nothing is asked of the peers.
FairSpec ==
  Spec /\ \A c \in Clientes : WF_vars(Aceptar(c)) /\ WF_vars(Hilo(c))

-----------------------------------------------------------------------------
(* Properties *)

\* A connection is in the table under the number its own thread holds, and only
\* until that thread is done: none is leaked, whatever the numbers closed twice
\* (l. 80 of conexiones_servidor.c, l. 120 of main_storage.c).
SinFugaDeDescriptores ==
  \A f \in Fds : tabla[f] # Nadie =>
    fd[tabla[f]] = f /\ hilo[tabla[f]] \notin {"nada", "restar", "restando", "fin"}

\* Once every client that came has closed, every thread ends (l. 112-128), even one
\* that was left reading from another client's connection, or another client comes.
TodosTerminan ==
  (\A c \in Clientes : par[c] # "abierto") ~>
    \/ \A c \in Clientes : par[c] = "afuera" \/ hilo[c] = "fin"
    \/ \E c \in Clientes : par[c] = "abierto"
    \/ ~Vive

\* "Se desconecta el worker %s" (l. 119) is said of a worker that disconnected, if
\* nothing in its identification may be read as -1.
SeDesconectaElQueCerro ==
  \A h \in Clientes \ Raros : hilo[h] = "cerrar otra vez" => par[h] = "cerrado"

\* That is so, at least, while connections come one after the other.
DeAUnoSeDesconectaElQueCerro == ~solaparon => SeDesconectaElQueCerro

\* No thread is between its load and its store, or about to leave.
EnReposo ==
  \A h \in Clientes : hilo[h] \in {"nada", "id", "operacion", "mensaje", "fin"}

Contados == {h \in Clientes : contado[h] /\ hilo[h] # "fin"}

\* "Cantidad de workers: %d" (l. 109, 119) is the number of workers that
\* identified themselves and have not gone, at rest.
ContadorExacto == EnReposo => cantidad = Cardinality(Contados)

\* While connections come one after the other the counter is off only by those
\* that ended without an identification, which are subtracted and were never added.
ContadorDeAUno ==
  EnReposo /\ ~solaparon =>
    cantidad = Cardinality(Contados)
                 - Cardinality({h \in Clientes : hilo[h] = "fin" /\ ~contado[h]})
=============================================================================
