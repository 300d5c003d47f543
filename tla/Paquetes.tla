-------------------------------- MODULE Paquetes --------------------------------
(***************************************************************************)
(* What the programs put on a socket and take from it, as sequences of     *)
(* bytes: the buffers of utils (serializacion_envio.c, paquete.c,          *)
(* handshake.c), the packet of a Query Control (serializacion_query.c) and *)
(* its deserialisation in the Master (deserealizacion_master.c).           *)
(*                                                                         *)
(* A byte nobody has written (malloc, realloc) is Basura.  Sizes have no   *)
(* width: a path is an argument of a program, far shorter than 2^31.       *)
(***************************************************************************)
EXTENDS Integers, Sequences

Basura == -1
Byte == 0 .. 255
Basuras(n) == [i \in 1 .. n |-> Basura]

\* The codes of op_code that the Master looks at.
HANDSHAKE == 0
MENSAJE == 1
MENSAJE_MASTER == 6
ID_WORKER == 7

\* A 4-byte integer, least significant byte first, and back.  One with its top bit
\* set (-1, or a size of 2^31 or more) is no code, and larger than all that is sent:
\* it comes back as Enorme.
Enorme == 256 * 256 * 256 * 64
Int4(n) ==
  <<n % 256, (n \div 256) % 256, (n \div (256 * 256)) % 256,
    (n \div (256 * 256 * 256)) % 256>>
Entero(b) ==
  IF b[4] < 128 THEN b[1] + 256 * b[2] + 256 * 256 * b[3] + 256 * 256 * 256 * b[4]
                ELSE Enorme

-----------------------------------------------------------------------------
(* t_buffer *)

CrearVacio(size) ==   \* mutant: the size is counted by buffer_add alone
  [size |-> 0, offset |-> 0, stream |-> <<>>]

\* buffer_create: the size is the final one before anything is in it.
BufferCreate(size) == [size |-> size, offset |-> 0, stream |-> Basuras(size)]

AgrandarConCeros(stream, n) ==   \* mutant: the new bytes are zeros
  stream \o [i \in 1 .. n - Len(stream) |-> 0]

\* realloc to a larger block.
Agrandar(stream, n) == stream \o Basuras(n - Len(stream))

\* memcpy of data at an offset.
Escrito(stream, offset, data) ==
  [i \in 1 .. Len(stream) |->
     IF i \in offset + 1 .. offset + Len(data) THEN data[i - offset] ELSE stream[i]]

\* buffer_add counts the data again in the size.
BufferAdd(b, data) ==
  [size   |-> b.size + Len(data),
   offset |-> b.offset + Len(data),
   stream |-> Escrito(Agrandar(b.stream, b.size + Len(data)), b.offset, data)]

BufferAddUint8(b, n) == BufferAdd(b, <<n>>)
BufferAddUint32(b, n) == BufferAdd(b, Int4(n))

StringConNul(b, string) ==   \* mutant: the length counts the NUL
  BufferAdd(BufferAddUint32(b, Len(string) + 1), string)

\* The length and the text, without its NUL.
BufferAddString(b, string) == BufferAdd(BufferAddUint32(b, Len(string)), string)

-----------------------------------------------------------------------------
(* The packet of a Query Control *)

\* llenar_buffer_master.
LlenarBufferMaster(path, prioridad) ==
  BufferAddString(
    BufferAddUint8(BufferCreate(1 + 4 + Len(path)), prioridad), path)

\* crear_paquete_y_enviar_master writes a code of four bytes and counts one, so the
\* last three bytes of what it writes are not sent.
EnviadoAlMaster(codigo, b) ==
  SubSeq(Int4(codigo) \o Int4(b.size) \o b.stream, 1, b.size + 1 + 4)

PaqueteQuery(path, prioridad) ==
  EnviadoAlMaster(MENSAJE_MASTER, LlenarBufferMaster(path, prioridad))

\* paquete_deserializar takes its fields from bytes that were received.
Deserializable(stream) ==
  /\ Len(stream) >= 5 /\ \A i \in 1 .. 5 : stream[i] # Basura
  /\ Len(stream) >= 5 + Entero(SubSeq(stream, 2, 5))

PaqueteDeserializar(stream) ==
  [prioridad |-> stream[1],
   path      |-> SubSeq(stream, 6, 5 + Entero(SubSeq(stream, 2, 5)))]

-----------------------------------------------------------------------------
(* The handshake of a Worker *)

\* crear_paquete and agregar_a_paquete grow the stream as they go: no byte is lost
\* or repeated.  serializar_paquete puts the code and the size before it.
PaqueteHandshake(modulo, id) ==
  LET Texto(s) == Int4(Len(s) + 1) \o s \o <<0>>   \* with its NUL
      stream == Texto(modulo) \o Texto(id)
  IN  Int4(HANDSHAKE) \o Int4(Len(stream)) \o stream
=============================================================================
