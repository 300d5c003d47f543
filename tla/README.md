# A verification project for NootNoot (tp-2025-2c)

NootNoot is a distributed query system of five C programs: a **Query Control** submits a script, the
**Master** hands it to a **Worker**, the Worker runs it instruction by instruction over a page
cache, and the **Storage** keeps the files. A static library, **utils**, holds the sockets and the
serialisation.

The TLA+ modules here are translated from the C sources under `src/`; line numbers below refer to
them. TLC checks small instances; TLAPS proves the theorems of the eight modules whose names end in
`_proofs`, or in `Lemas`, for every value of the constants. Every safety property that a passing run
checks, the three refinements included, is also a theorem.

At this commit only `utils` and `worker` build. `storage`, `master` and `query_control` do not
compile (a function used and not defined, a file cut off in the middle of a signature, a type that
does not exist). `StorageConexiones`, `StorageArchivos` and `MasterConexiones` model the text of
functions that are complete: `manejar_cliente`, the file operations, the three threads of a
connection. What the build could not make of a call that does not compile
(`paquete_deserealizar_int`, the planner) is left out.

## 1. Inventory

| Part | State | Operations | Hard behaviour | What makes it correct |
|---|---|---|---|---|
| Page cache of the Worker, `worker_memoria.c` | array of frames, LRU queue of pointers into it, clock hand, one mutex | create, lookup, load, replace, find a victim, mark used, destroy | functions that lock call functions that lock; a two-lap sweep that changes what it reads; buffers whose ownership moves | the queue holds the occupied frames once; the victim is the one LRU or CLOCK-M names; each buffer is freed once; a call returns |
| Execution of a query and File:Tag table, `worker_query.c` | list of files, one mutex, position in the script | the fetch loop and eleven instructions; find, add, truncate, delete | a lock taken twice, a table never initialised, errors that do not stop the script | one entry per File:Tag, whole blocks, instructions in file order, a query ends |
| READ and WRITE split into pages, `worker_query.c` l. 84-131 | cursor, bytes left | one access per turn | `uint32_t` wraps around | no access leaves its page, none is repeated or skipped, the loop ends |
| Script parser and loader, `worker_instrucciones.c` | list of instructions with their line number | parse a line, load from `start_pc` | blank lines have a number and no instruction | the right lines from `start_pc` on |
| Connections of the Storage, `main_storage.c`, `conexiones_servidor.c` | descriptor table of the process, a thread per client, a shared counter | accept, identify, receive operations and messages, close | no lock on the counter, a descriptor closed twice, numbers the kernel reuses, requests read in pieces | nothing leaks, threads end, the counter counts, the one logged as gone is gone |
| Start of the Worker, `main_worker.c`, `worker.c`, `worker_conexiones.c` | two sockets, a config, the block size, the cache | connect to the Master, connect to the Storage and ask for the block size, create the cache, listen to the Master | both ends of a handshake waiting, `connect` unchecked, answers cut short, a refusal nobody expects | a Worker that runs has the block size the Storage answered; a start ends; the listener lasts as long as the Master |
| Files of the Storage, `archivos.c`, `operaciones_archivos.c` | a list and a dictionary of pointers to the same files | create, read, write, truncate, rename, delete | names given twice, names left behind by a rename, addresses malloc gives again, bounds that wrap | list and dictionary agree, sizes are what is allocated, no access leaves the data |
| Volume of the Storage, `main_storage.c` | superblock, bitmap, directories | format, open | sizes in bits and in bytes | one bit per block |
| Connections of the Master, `main_master.c` | one heap cell per connection, shared by threads | accept, serve queries, serve workers | three threads read one socket and free one cell | what one reader leaves is not taken for something else; readers end with the connection |
| Scheduler of the Master, `planificador_querys.c` | queue of queries | — | — | the file ends at l. 44, inside a signature |
| Query Control, `main_query.c`, `serializacion_query.c` | one socket | send a query, close | — | what arrives is what was asked |
| Packets and buffers, `paquete.c`, `serializacion_envio.c`, `handshake.c` | stream and offset | create, add, read, send | sizes added twice, lengths off by one | what is read is what was written |
| Configuration | values | read | — | — |

How they interact. The Worker connects to the Master first and sends its handshake, then to the
Storage, whose answer it waits for; a detached thread (`worker_conexiones.c` l. 79-131) then waits
for `OP_EXEC_QUERY`, loads the script and calls `worker_query_execute_all` **in the same thread**,
so the Worker is deaf while it executes. The instructions act on the File:Tag table; nothing fills
the page dictionaries of its entries yet and nothing calls the cache from an instruction, so the
cache is used through its exported functions only. The Storage accepts in `main` and serves each
client in a thread of its own; the threads share the descriptor table of the process and
`cantidad_workers`. The Master starts three threads for each connection, of a Query Control or a
Worker, and all three receive from its socket: one identifiers for ever, one a single operation and
the query that may follow, one operations until the end.

The full list of what is hard to test here, line by line, with the property that would notice, is
under `hazards` in `PROJECT.json`.

## 2. Modules and their correspondence with the code

### `MemoriaWorker` (worker_memoria.c)

| Code | Model |
|---|---|
| `cache->frames[i]`, a calloc'ed `t_pagina` | `frames[i]`, a record; `PaginaLibre` is the zeroed one |
| `cache->paginas` | `paginas`, a sequence of frame indices instead of pointers |
| `cache->puntero` | `puntero` |
| `cache->mutex` | `mutex`, how many times the thread of the call holds it |
| locals of `memoria_buscar_victima` | `iteraciones`, `vueltas`, `segunda_pasada` |
| the program counter of the call | `fase`, `llamada` |
| heap blocks of page contents | `vivos`, the addresses allocated and not freed |

Each exported function is an action; those with a body that can block, or that loops, are cut there:
`AgregarLleno`, `ReemplazarBloque` and `MarcarUsado` begin a call and `Continuar` holds the steps
that follow. An iteration of the sweep is one step (`AvanzarPuntero` or `ElegirVictima`), the end of
a lap another (`TerminarVuelta`).

*Relocking.* `pthread_mutex_init(..., NULL)` makes a `PTHREAD_MUTEX_DEFAULT` mutex, and POSIX leaves
its relock by the owner undefined. On glibc, where the project runs, the thread blocks for ever:
`reentrante = FALSE`. `TRUE` is an implementation that lets the owner in, which is also what the
code does once the mutex is made recursive. It is a variable chosen in `Init` and never changed,
like `algoritmo` (the field the configuration gives to the cache), so one run covers the
combinations. `TRUE` says what the rest of the algorithm does, `FALSE` what is left of it on glibc.

*One caller.* The Worker has one thread that could use the cache, so one call is in progress at a
time; everything said here is said of that. `memoria_buscar_victima` is exported, but nothing
outside the module calls it and it is modelled inside the replacement.

`LRUIdeal` and `ClockIdeal` are what the two policies promise, with no queue, no sweep and no lock;
`MemoriaRefina` maps the cache to them. `LRUIdeal` keeps the resident blocks by last use and the
call it served last (`atendida`): serving a call that uses a block and moving that block to the end
are one step, so a cache that forgets the move, or moves another block, is not an implementation.
For that the concrete side has a history variable of the same name, which `SpecObservada` adds to
the specification: it notes the block in the arguments of each call at the step that serves it, and
never looks at the queue. `ClockIdeal` is a closed form: with the occupied frames seen
from the hand onwards, the victim is the first (0,0); failing that, since the first lap has cleared
every use bit, the first frame of the second lap; and it says which bits are left. A sweep in
progress maps to the state it began in.

### `WorkerQuery` (worker_query.c, worker_instrucciones.c, worker_conexiones.c)

`archivos` is the list; the scripts are sequences of lines, each a record with the kind of
instruction and its file. `RecibirConsulta` is `OP_EXEC_QUERY`, with the loading of the script;
`SinArchivo`, `Invalida`, `CrearArchivo`, `TruncarArchivo`, `EliminarArchivo` are turns of the fetch
loop, `Tomar` the first of the two locks of CREATE and TRUNCATE, `TerminarConsulta` the end. WRITE,
READ, TAG, COMMIT and FLUSH return 0 and change nothing (the code says "SIMULADA"): one kind of line
stands for them. `inicializado = FALSE` is the table as `worker_create` leaves it; then an
instruction that uses it may block or crash (`UsarSinInicializar`). `TablaIdeal` is the map from
File:Tag to size that the table promises to be: it knows the instruction in execution and how many
have been answered, so that each is answered once, by what the map says, and changes its own entry
only; `WorkerQueryRefina` maps the list to it. `Leidas` is the loop of the loader, the list after
each line, and `Cargar` its last value. `AgregarArchivo` is `worker_archivo_agregar`, which is
exported and nothing calls yet.

### `Fragmentos` (worker_query.c l. 84-131)

The two loops are the same but for the source of `base` and `size`, so one model serves both. All
arithmetic is modulo `Modulo`, 2^32 in the program; `block_size` is whatever positive number the
Storage answered; `AUint` is the conversion of what `strtoll` returns, negative numbers included.
`Init` has `base` and `size` at -1, as the parser sets them. The content of a WRITE is not empty:
the parser refuses the line otherwise (`worker_instrucciones.c` l. 86). The code computes the offset
of an access and never the number of its page, so nothing is said of that number.

### `StorageConexiones` (main_storage.c l. 77-128, conexiones_servidor.c)

`tabla` is the process's descriptor table, `fd[c]` the `cliente_fd` of the thread of `c`, `hilo[c]`
its program counter. `accept` takes the lowest free number. A `recv` looks its number up when it
begins (`EmpezarRecv`) and goes on with that connection even if the number is then closed or reused,
as the kernel does. `cantidad_workers++` is a load (`Cargar`) and a store. A thread that falls in
`recibir_mensaje` takes the process with it (`Vive`), so no other thread moves after it.

Abstractions. The first `recv` may take more than the identification (any prefix of what has
arrived). It may also take less: the identification may come in two parts (`Restos`), the second of
which, when the first `recv` does not take it too, is read as an operation code: an unknown one, or
-1, which the switch takes for a disconnection although nobody closed (`Codigos`). `Raros` are the
clients with four bytes 255 in a row there. The second part is taken to be one integer, so that what
comes after is read where it begins; one that is not a whole integer, or that reads as `MENSAJE`, is
not modelled. What a peer sends afterwards in one `send` arrives whole, and any unknown code has the
same effect, a warning. `RecibirId` of a thread that lost its number may take another client's data,
as in the code. The text of the identification, which the thread of a client that never identified
itself prints uninitialised, is not modelled. `contado` and `solaparon` are history: they record
what happened for the properties and no action reads them.

### `StorageArchivos` (archivos.c, operaciones_archivos.c)

| Code | Model |
|---|---|
| `t_archivo*` | an address, one of `Direcciones`; `vivos` are those allocated, and `malloc` may give any other |
| `archivos_storage`, `archivos_por_nombre` | `lista`, `dic` (`Nulo` where there is no entry) |
| `metadata.nombre`, `metadata.tamanio` | `nombre`, `tamanio` |
| `datos` | how many bytes are allocated there, or `SinDatos` |
| `uint32_t` | numbers modulo `Modulo` |

One action per function. Every function takes the file `abrir_archivo` returned, so each looks its
name up first: a caller that keeps a pointer is not modelled. After undefined behaviour
(`UsarLiberado`, an access outside the data) the state is `corrupto` and nothing more happens.
`truncar_archivo` to 0 is `realloc(p, 0)`, which on glibc frees and returns `NULL`. `acceso`,
`tapados` (files whose name was given to another) and `viejos` (names that a rename left behind, or
whose file was deleted under another name) are history. Not modelled: a failing `malloc`;
`mover_archivo`, `cerrar_archivo` and `reposicionar_archivo`, which change nothing a property could
see. No code calls these functions or creates the two collections: a caller that creates them is
assumed.

### `Paquetes` (serializacion_envio.c, serializacion_query.c, paquete.c, handshake.c, deserealizacion_master.c)

Operators, on sequences of bytes; a byte nobody wrote is `Basura`. `BufferCreate` and `BufferAdd`
count each datum in the size, both of them; `EnviadoAlMaster` sends three bytes less than it writes,
because it counts one byte for a code of four. The block it writes to is three bytes too short, too;
only what is sent is modelled. `Entero` gives `Enorme` for four bytes with the top bit set: no code
has them, and no size that large arrives. No code calls the `buffer_read` functions or
`crear_paquete_y_enviar_worker`.

### `MasterConexiones` (main_master.c, deserealizacion_master.c)

One connection of the Master. The threads are `"C"` (`atender_conexiones_cliente`), `"Q"`
(`atender_querys`) and `"W"` (`atender_worker`); `lugar` is their program counters, each place the
`recv`, the read of the heap cell or the `free` that comes next. The peer is a Query Control, which
sends `PaqueteQuery` and closes, or a Worker, which sends `PaqueteHandshake`. Its bytes arrive in
pieces that end at `Cortes` or at the end, and `pos` is how many have been taken.

* A `recv` with `MSG_WAITALL` (`recibir_operacion`, `recibir_mensaje`) keeps the bytes it has while
  other threads take the next ones (`Acumular`); one without takes what there is. An integer of
  which bytes are missing is any that fits (`Valores`).
* W ends at a code -1 that it receives as at one that `recibir_operacion` returns, but leaves the
  descriptor open (`Destinos`); when bytes of it are missing it may end or go on.
* `reconocidos` is history: the codes that a thread acted on of which at least one byte was
  received, and whether all four were.
* Q and W free the cell one after the other. Reading it after the first `free` gives no descriptor
  (`perdidos`); the second `free` is detected and ends the process, or is not. What an undetected
  double free does to the heap is not modelled further.
* W falls after an identifier: it writes through a pointer, and adds to a list, that nobody
  initialised. The handshake of a Worker has another code, so it falls only by one of the
  coincidences that `SoloCoincidencias` lists, or by a code of which bytes are missing.
* Sending to a peer that closed is answered by a reset; sending again may end the process (SIGPIPE,
  which nobody ignores).
* The planner has no body that compiles; Q stays in it.

A second connection that is given the number of one that closed would meet the `"C"` thread of the
first, which never ends: one more thread like this one. It is not modelled.

The constants are what an argument of a program can be: a text with no NUL, whose length fits in an
`int32_t` with room to spare, a priority of one byte, and a module name of six capital letters.

### `Arranque` (worker.c, main_worker.c, worker_conexiones.c, paquete.c)

`hilo` is where the main thread is, `oyente` the thread that listens to the Master, `conexion` how
each `connect` ended. The Storage is the one of this repository (`Mudo`), which takes the handshake
for a name and operations and never sends, or one that answers as the Worker expects, with any of
`Respuestas`; the latter stands for the Storage to come and is marked external. `Termina` and
`Obtiene` are a `recv` with `MSG_WAITALL`: all the bytes, or those there are once the Storage
closed. `recibir_paquete` accepts any positive number of bytes, so a body cut short leaves the
fields it did not receive as `malloc` returned them (`Basura`).

A descriptor that is not connected is used all the same, and sending through it ends the process
(SIGPIPE). A peer that accepts and closes before the Worker sends, with the same end, is not
modelled. Without a socket for the Master the start goes on; without one for the Storage it fails.
`memoria_crear_cache` returns `NULL` when no frame fits and nobody looks. `worker_destroy` reads
fields nobody wrote (`Destruir`). The Master of this repository sends a Worker nothing but -1,
without a size: the listener reads the first as a code, the second as a size, for which there is no
memory, and ends at the third. The id of a Worker is not empty (`Largos`), and `getaddrinfo` does
not fail.

## 3. Runs

A run takes from a second to three minutes, with two workers. Deadlock is not checked because each
system may stop: a destroyed cache, a Worker that waits for a Master that is gone (or blocked on its
own lock, which the liveness properties look for), a loop that ended, clients that all left, files
after undefined behaviour, a connection or a start that is over.

| Run | Question | Bounds, and why they are enough |
|---|---|---|
| `Memoria` | Does every use that a caller makes reorder the cache as LRU asks, and does each policy evict what it should, as the refinements say? Is the queue exact, does the sweep find a victim, is each buffer freed once, do calls end? | 3 frames: a head, a middle and a tail of the queue, and every bit pattern and hand of the clock; 2 blocks, so that a block is absent, present or present twice; 4 buffers, one per frame and one for the call; the algorithms LRU, CLOCK-M and an unknown one; both kinds of mutex; pages are marked as modified with CLOCK-M only, since LRU never looks at that bit (`ModificadoSoloConClock`). No symmetry, since liveness is checked |
| `MemoriaCuelga` | Does every call end on glibc? No | 2 frames, mutexes that block their owner |
| `WorkerQuery` | Is the table a map, in whole blocks, and are scripts executed in order and to the end, several queries in a row? | 2 File:Tag; a block of 2 bytes and sizes 0, 2 and 3, the last one not aligned; every script of up to two lines, and of three that begin with a CREATE; `start_pc` -1, 0 and 1; both kinds of mutex, table initialised and not |
| `WorkerQueryCuelga` | Does CREATE answer on glibc? No | scripts of up to two lines, table initialised |
| `Fragmentos` | Is every byte of a READ accessed once, at the offset its address has in a page? | a 4-bit type and every number, from -2 to 17, that a line may hold; block sizes 1, 4 (divides 16: a wrap is harmless), 3 and 15 (do not) |
| `FragmentosWrite` | Does a WRITE write its content? No | block sizes 3 and 4 |
| `StorageConexiones` | Are descriptors leaked? Do threads end once the clients have closed? Is the log right while connections do not overlap? | 3 clients over one number, which is closed twice and given again while the threads of earlier clients still use it; one client that sends a message; a client that sends no message, whose identification may come in two parts, the second read as -1 (a part that reads as an unknown code takes the step that the body of a message left behind takes); probes that never identify themselves. No symmetry, since liveness is checked |
| `StorageCarrera` | Does the counter count, with clients that all identify themselves? No | 3 clients, interchangeable, `Sondas = FALSE` |
| `StorageCierraAjeno` | Is the client logged as gone, gone? No | as above |
| `Archivos` | Do list and dictionary agree, as far as they do, and which names lead astray? Are sizes what is allocated? Which accesses leave the data? | 3 addresses, so that one is free while two files share a name; 3 names, so that a rename goes to a free name, to a taken one or to its own; sizes modulo 3, where a sum that wraps is within reach. Addresses and names are interchangeable |
| `Master` | What can three readers of one socket make of a packet? Do they end? | queries with an empty path and priority 7 (a code), with a path that is the character 7 (its last one is a code, its length is another) and with one of seven characters (a length that is a code), four of which are 255 (in a row they are -1); Workers with ids of one and of five characters (a length that is a code); pieces that end inside the code, inside the size and after the first byte of the body |
| `Arranque` | Does a start end, and with what block size? Who waits for whom? How long does the listener last? | bodies of 0, 4, 8 and 12 bytes (too short, exact, with more); block sizes -1, 0, one that fits the memory and one that does not; results 0 and 1; answers cut at every byte; memory that looks like each of them; ids whose handshake fits the 63 bytes of the name or not; a Master that refuses up to three times |

Bounds that the code does not have: `MaxFd`, `MaxMensajes`, `Simultaneos`, `Locuaces` (who sends
messages), `Restos`, `ModificadoSoloConClock`, `Cortes`, `MaxRechazos`, the sets of blocks, buffers,
scripts, numbers, addresses, names, peers and answers. The rest (frames, block size, width of the
type, algorithm) are parameters of the code.

### What the failing runs say

Four more facts are stated as runs that end in a violation; each is a `finding` of `PROJECT.json`
with the line it contradicts.

* On glibc, `memoria_agregar_bloque` on a full cache, `memoria_marcar_usado`, CREATE and TRUNCATE
  wait for a mutex they hold (`MemoriaCuelga`, `WorkerQueryCuelga`). DELETE, which searches by
  itself, does not. A consequence: no page is ever modified there, so the placeholder
  `memoria_flush_frame` has nothing to lose.
* A WRITE loops over `size`, which the parser leaves at 2^32 - 1 (`FragmentosWrite`). The loop only
  waits and logs today, for 2^32 - 1 bytes.
* `cantidad_workers` loses updates (`StorageCarrera`). It is also decremented for clients that never
  identified themselves and were never counted; `ContadorDeAUno` says that, while connections do not
  overlap, it is off by those and by nothing else.
* A descriptor is closed twice; a client accepted in between is cut off and logged as gone
  (`StorageCierraAjeno`). `DeAUnoSeDesconectaElQueCerro` says that it takes two connections at a
  time.

That `worker_create` initialises neither the table nor its mutex is a choice of the model
(`inicializado = FALSE`), not a result; `ConsultaTermina` says what works nevertheless.

### What the other runs say

* `Master`: a query arrives whole when Q is the one that receives it, and, for texts of 1 to 239
  characters, nothing else is ever taken for it (`ConsultaEntera`, `NuncaOtraConsulta`). An empty
  path can be mistaken, and so can one of 256 characters with priority 0: the zeros around its
  length, received from the wrong place, read as a query with another priority and an empty path.
  What a thread leaves may be taken for an operation. `SoloCoincidencias` lists the bytes that a
  whole code can be: those of the sizes, the code and the priority, and never a character. The first
  byte of a code that was cut may be a character too, the missing bytes being whatever the stack
  had. Of the texts of 1 to 100, a whole code takes a Worker for a query only if its id has five
  characters; and a query for a Worker only if its path has seven, or its priority is 7, or if one
  of the two is 1, which is `MENSAJE` and falls through to `ID_WORKER` (`main_master.c` l. 109).
* `Archivos`: a name leads to its own file or to none, except those that a rename left behind
  (`renombrar_archivo` removes the new name instead of the old one) and those of files deleted under
  such a name, until they are given again. A file is lost only when its name is given to another.
* `Arranque`: with the Storage of this repository no Worker starts; both end up waiting for each
  other, whatever the length of the id, until the Storage goes away.

## 4. Fairness

* `MemoriaWorker`: weak fairness of `Continuar`, the steps of a call that has begun. Nobody has to
  call. The thread is alone and runs until it blocks.
* `WorkerQuery`: weak fairness of `Ejecutar`; the Master owes no query.
* `Fragmentos`: weak fairness of the loop.
* `StorageConexiones`: weak fairness of `Aceptar(c)` and of each thread, since the kernel schedules
  threads and `accept` is retried for ever. Nothing is assumed of the peers: `TodosTerminan` starts
  when all that came have closed, and is satisfied if another comes. `Aceptar(c)` may be disabled
  again by a client that takes the last number, but there are finitely many connections and each
  ends, so it is enabled for good in the end.
* `StorageArchivos`: none, since nothing calls the operations.
* `MasterConexiones`: weak fairness of Q and of W, which the operating system schedules. Nothing is
  assumed of the peer, nor of C, which takes bytes from them: `TerminanAlCerrar` starts when the
  peer has closed.
* `Arranque`: weak fairness of the two threads of the Worker and of the thread of this repository's
  Storage. The Master and a Storage that answers owe nothing: `ArranqueTermina` starts when the
  answer has arrived or the Storage closed.

## 5. Proofs

Proved by TLAPS for every value of the constants that satisfies the module's `ASSUME`s.

An invariant is proved by a strengthening that is inductive; a refinement, by one lemma per action,
which says to which action of the abstract specification a step is mapped, or that it is a stutter,
under the invariants of the detailed one. The properties themselves are checked by TLC on the
instances of section 3.

`MemoriaWorker_proofs`, from `MaxFramesAssumption`, `DatosAssumption`, `AlgoritmosAssumption` and
`ReentrantesAssumption`:

* `TipoCorrecto`: `TypeOK`, together with `LlamadaOK` (what `fase`, `mutex`, `llamada` and the
  algorithm say of one another), which it needs: the block and the buffer that a replacement loads
  were stored in `llamada` steps before.
* `ColaSiempreExacta`: `ColaExacta` is inductive given those two. The lemmas are about
  `RemoveFirst`, `Append` and `MoverAlFinal` on sequences without repetition.
* `BarridoCorrecto` and `ClockSiempreEncuentra`: the sweep fails only on an empty cache.
  `ClockNuncaFalla` speaks of the end of the second lap and is not inductive. `BarridoOK` compares
  the cache with `inicio`, the state in which the search began: the hand is `iteraciones` frames
  beyond where it was; the frames visited lost their use bit and were not in class (0,0) when the
  search began; those visited in the second lap were not occupied at all, since with the use bits
  clear the second lap takes the first occupied frame. At the end of the second lap that is every
  frame.
* `SiempreSinFugas`: each buffer has one owner or has been freed. It rests on `ColaExacta`: the head
  of the queue is an occupied frame, so that what is freed is the buffer of the victim.
* `RefinaLRU`: `SpecObservada` implies `ImplementaLRU`, for every number of frames. That the block
  noted in the call and the block moved are the same is what each use adds to prove; a lookup moves
  the frame it found, which is the one of the block it was asked for. The order of use that the
  abstract cache keeps is the queue, read through the blocks of its frames; `ColaExacta` says that
  it names every block that is loaded, `ColaOciosa` that it is empty with another algorithm, and
  `ColaCorta` that a cache with a free frame is not full. A call that waits for its lock, or that
  looks for a victim, is a stutter; the load of the new block is the replacement.
* `RefinaClock`: `ImplementaClock`. What `BarridoOK` says of the frames visited is turned into the
  closed form: `DistanciaEsRecorrido` (the distance from the old hand to the victim is the number of
  frames passed), `PrimeroEsPuntero` (no frame before it is of the class sought) and
  `VistaEnBarrido` (the abstract cache still shows the frames the search began with, use bits
  included, until the victim is chosen).

`Fragmentos_proofs`, from `ModuloAssumption`, `BlockSizesAssumption`, `NumerosAssumption`:

* `AccesosCorrectos`: the inductive invariant, which is `TypeOK`, `NadaDeMas`, `DentroDePagina` and
  `InicioOK` (nothing has been accessed before the loop), for every width, block size, base and
  size. `NadaDeMas` is what makes the modular additions of the loop exact: `cursor + remaining =
  size` fits the type.
* `SiempreDentroDePagina`, `SiempreNadaDeMas`, `TipoCorrecto`: its consequences.
* `SiempreCadaByteEnSuLugar`: every byte has the offset of its own address, in ranges that wrap
  around too; only of the access that crosses the last address nothing is said, unless the block
  size divides the number of values of the type. `AccesoOK` says of the first byte of an access what
  the property says of every byte. The code takes one remainder of another (of the type, then of the
  block), so the proof rests on lemmas about them: `RestoUnico`, `RestoSuma`, and `RestoDeResto`,
  which holds when the block size divides the number of values of the type; without it, it takes
  that the access does not cross the last address.

`WorkerQuery_proofs`, from the `ASSUME`s of `WorkerQuery`:

* `TablaCorrecta`: the table is a list of archives (whatever their names and sizes are taken from),
  with different File:Tag and sizes in whole blocks. Each operation is a lemma about a list: adding
  under a name that the search did not find, removing one position, changing one size.
  `BuscarCompleto` is the fact behind CREATE: a search that stops at the first match and finds none
  has looked at all of them.
* `NuncaDuplicados`: its consequence.
* `CargarCorrecto`: what the loader returns for any script and `start_pc`: the lines from it on that
  are not blank, each once, in order and under its own number. `Leidas` is a recursive function:
  that it is well defined (`LeidasPorLinea`) and that the list is right after every line are both
  proved by looking at the least line at which they would fail, instead of by induction.
* `ConsultaCorrecta`, `SiempreOrdenDelGuion`: the invariant behind the order says that the list is
  what the loader returned, that the instructions answered are its first ones, and that the index
  stands after them, or at the end once END was one of them.
* `TipoCorrecto`: `TypeOK`, from that invariant and two small ones, about the archives and about the
  lock, the phase and the last answer.
* `RefinaTabla`: `ImplementaTabla`. CREATE and TRUNCATE take the mutex and then search, which takes
  it again: the first lock is a stutter, and the step that has both searches, decides and changes
  the list, or does not come on glibc. The lemmas about lists say that adding, removing and changing
  an entry of a list without duplicates is adding, removing and changing it in the map it shows.

`ListaLemas` has the lemmas about sequences that these proofs and those of `MemoriaWorker` and
`StorageArchivos` share.

`StorageConexiones_proofs`, from `NadieAssumption`, `CotasAssumption` and `RestosAssumption`:

* `TipoCorrecto`, and `SiempreSinFugaDeDescriptores`: the property is inductive given the types,
  because a thread's number does not change and it closes that number, and no other, before it
  leaves; if the number names another client by then, that client loses its descriptor (the finding)
  but the table keeps nothing it should not.
* `DeAUnoCorrecto`, hence `SiempreSeDesconectaElQueCerro` and `SiempreContadorDeAUno`: while
  connections have not overlapped at most one client is alive; its thread reads from its own
  connection, which stays in the table until its peer has closed or sent a -1 in its identification
  (`RarosOK`: nobody else sends one); what it loaded of the counter is
  what the counter still holds; and the counter is the number of those counted less the number of
  those that ended without being counted, also in the middle of an update. `LlegadaOK` (nobody is
  attended before coming, finitely many have come) makes those cardinalities numbers, for any set of
  clients.

`StorageArchivos_proofs`, from `NuloAssumption` and `ModuloAssumption`:

* `TipoYLista` (hence `TipoCorrecto`, `SiempreListaExacta`): the types and the exact list are
  inductive together, since what `borrar_archivo` removes is in the list because it is alive.
* `SiempreAlcanzable` and `SiempreNombresAlDia`: inductive given the types. A new address is not
  that of a living file, so a new entry takes no other file's; and of the names that lead to one
  file at most one is not in `viejos`, the file's own, so a deletion under any other name puts it
  there.
* `SiempreTamanioExacto`: every reservation notes its size, the one that frees included. With it,
  `SiempreDentroSiNoDesborda`: what the bound check accepts is what is allocated, so that only a sum
  that does not fit the type leaves the data.

`Arranque_proofs`, from the `ASSUME`s of `Arranque`:

* `ArranqueCorrecto`: the inductive invariant has the types, `BloqueDelStorage`, how many bytes the
  main thread has received at each place (8 when it waits for the body, so that what it receives
  then begins with the block size) and how many refusals the listener has heard at each of its own.
  A code cut short is followed by nothing, which is why a size is only accepted after a whole code.
* `TipoCorrecto`, `SiempreBloqueDelStorage`, `NuncaConMudo`, `SiempreSigueEscuchando`: its
  consequences. `NuncaConMudo` also needs that a silent Storage stays silent.

`MasterConexiones_proofs`, from `ClientesAssumption` and `ModuloAssumption`:

* `ConsultaIdaYVuelta`: for every priority and every path whose doubled size fits a `uint32_t`, the
  bytes sent contain all the fields and the Master deserialises the query that was sent, from any
  prefix that has them. It goes through what `BufferAdd` keeps (what was written stays, the new
  datum comes after it, the size is as long as the stream) and through `Int4YVuelta`: four bytes
  give an integer back.
* `FlujoDeConsulta`, `FlujoDeWorker`: what is at each place of what a peer sends, for every text:
  the layout that the next results argue about, and the lengths 15 + 2n and 24 + n.
* `TipoDelMaster`: `TypeOK` with what it needs: a thread has something of an integer only inside a
  `recv` with `MSG_WAITALL`, and `"C"` is always at an id.
* `SiempreConsultaEntera`: the invariant is `LimpiaInv`, that while nothing has spoilt what Q
  receives, the number of bytes taken from the connection is the number that Q has taken at each of
  its places.
* `SiempreSoloCoincidencias`: the invariant is `DentroInv`, that the bytes a thread has so far are
  bytes of the flow at increasing places, with the ones the others took missing in between. A code
  is a byte and three zeros; a text has no zero, so after any of its bytes there is only garbage or
  text: the byte that a whole code begins with lies in a size, in the code or in the priority, and
  only one that was cut can begin with a character (`PrimerByteCoincide`).
* `SiempreNuncaOtraConsulta`: if Q takes what it received for a query, at least the code (of a
  query), or all up to the id (of a Worker), has been taken from the connection, or nothing more
  will come: `OtraInv`, with `YaPaso` for how far the flow has been taken. What is left then reads
  as that query from the place where its body begins, and from any other one the length that would
  be read is more than what is left (`CargaDeConsulta`, `CargaDeHandshake`). This is where the bound
  of 239 comes from: with it every length is one byte that is not zero.

Only model-checked: the liveness properties (`LlamadaRegresa`, `ConsultaTermina`, `CicloTermina`,
`TodosTerminan`, `TerminanAlCerrar`, `EsperaMutua`, `ArranqueTermina`), which are out of the
prover's reach, as is the induction over data that a recursive definition calls for in general: the
one loop that needed it, the loader, is proved through a least counterexample.

## 6. Plan

Modelled so far: the cache, the execution of queries and the file table, the split into pages, the
connections of the Storage, its files, the packets, a connection of the Master and the start of the
Worker. Next, if the code grows into it:

1. TRUNCATE and DELETE releasing frames behind the cache, composed with `MemoriaWorker`, once
   something fills the page dictionaries.
2. The scheduler of the Master, once it exists, composed with `MasterConexiones` and with the
   listener of `WorkerQuery`.
3. Several connections of the Master at a time, with descriptors given again.

Next theorems: the findings as theorems of their own (which interleavings lose an increment, that
CREATE on glibc always blocks), the values of `NuncaOtraConsulta` beyond 239 characters that are
safe, and the round trip of a handshake, as `ConsultaIdaYVuelta` is that of a query.

## 7. Not modelled

* The scheduler of the Master: the file ends inside a signature and there is no behaviour to model.
* The volume of the Storage. `stringToBool` compares pointers, so `FRESH_START` never holds:
  formatting and the superblock are never reached; nothing calls `inicializar_bitmap`. The rest is
  directory traversal and `mmap`, pure I/O.
* A page dictionary that is not empty: `worker_archivo_truncar` and `worker_archivo_eliminar` would
  free frames behind the cache, and the values twice (`worker_query.c` l. 267, 298, 211), but no
  code ever adds an entry.
* Two threads in the cache: the Worker has one that could call it, so what `memoria_buscar_bloque`
  returns after it unlocks, and a replacement asked for from outside with no lock, meet nobody.
* `recibir_paquete_servidors`, the `buffer_read` functions, `llenar_buffer_para_worker`,
  `crear_paquete_y_enviar_worker`: no callers.
* Configuration, logging, the tokeniser of scripts.
