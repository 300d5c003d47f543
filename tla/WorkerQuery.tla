------------------------------ MODULE WorkerQuery ------------------------------
(***************************************************************************)
(* How a Worker executes the queries the Master sends it, and the table of *)
(* File:Tag it keeps: worker/src/worker_query.c, with the script loader of *)
(* worker_instrucciones.c and the loop of worker_conexiones.c that calls    *)
(* them.  One detached thread does all of it, instruction by instruction.  *)
(*                                                                         *)
(* archivos_mutex is locked by CREATE and by worker_archivo_truncar, which *)
(* then call worker_archivo_buscar, which locks it again.                  *)
(***************************************************************************)
EXTENDS Integers, SequencesExt

CONSTANTS
  FileTags,       \* the File:Tag pairs of the scripts
  Tamanios,       \* the sizes TRUNCATE is asked for
  BlockSize,      \* worker->block_size
  Guiones,        \* the script files: sequences of lines
  Inicios,        \* the start_pc the Master may ask for
  Reentrantes,    \* may the owner of archivos_mutex lock it again?
  Inicializados   \* were worker->archivos and archivos_mutex initialised?

\* worker_create fails without a block size (worker.c l. 23).
ASSUME BlockSizeAssumption == BlockSize \in Nat \ {0}
ASSUME TamaniosAssumption == Tamanios \subseteq Nat
ASSUME IniciosAssumption == Inicios \subseteq Int
ASSUME OpcionesAssumption ==
  Reentrantes \subseteq BOOLEAN /\ Inicializados \subseteq BOOLEAN

\* The instructions that name a local file; WRITE, READ, TAG, COMMIT and FLUSH
\* change nothing and return 0 ("SIMULADA"); a blank line is no instruction.
Lineas ==
  [tipo: {"CREATE", "DELETE"}, ft: FileTags]
    \cup [tipo: {"TRUNCATE"}, ft: FileTags, size: Tamanios]
    \cup [tipo: {"SIMULADA", "END", "INVALID", "VACIA"}]

ASSUME GuionesAssumption == Guiones \subseteq Seq(Lineas)

VARIABLES
  reentrante, inicializado,   \* fixed when the Worker starts
  archivos,        \* worker->archivos
  mutex,           \* how many times the thread holds archivos_mutex
  fase,            \* what the thread is doing
  instrucciones,   \* the list worker_instrucciones_cargar returned
  i,               \* index of the instruction to execute, from 1
  rc,              \* result of the last instruction
  pedido,          \* history: the script and start_pc of the query
  ejecutadas       \* history: the pc of each instruction executed for it

consulta == <<instrucciones, i, pedido, ejecutadas>>
arranque == <<reentrante, inicializado>>
vars == <<arranque, archivos, mutex, fase, consulta, rc>>

Archivo == [ft: FileTags, size: Nat,
            state: {"WORK_IN_PROGRESS", "COMMITED"}]

\* archivo_worker_create: empty, in progress.
ArchivoNuevo(ft) == [ft |-> ft, size |-> 0, state |-> "WORK_IN_PROGRESS"]

SinPedido == [guion |-> <<>>, start_pc |-> 0]

\* Types of the Worker that executes, and of what it has answered.
TypeOK ==
  /\ reentrante \in Reentrantes /\ inicializado \in Inicializados
  /\ archivos \in Seq(Archivo)
  /\ mutex \in {0, 1}
  /\ fase \in {"esperando", "fetch", "buscando", "colgado", "caido", "cerrado"}
  /\ \A k \in DOMAIN instrucciones :
       /\ instrucciones[k].linea \in Lineas
       /\ instrucciones[k].pc \in Nat
  /\ i \in 1 .. Len(instrucciones) + 1
  /\ rc \in {0, -1}
  /\ pedido.guion \in Guiones \cup {<<>>} /\ pedido.start_pc \in Int
  /\ ejecutadas \in Seq(Nat)

Init ==
  /\ reentrante \in Reentrantes /\ inicializado \in Inicializados
  /\ archivos = <<>>
  /\ mutex = 0
  /\ fase = "esperando"
  /\ instrucciones = <<>> /\ i = 1
  /\ rc = 0
  /\ pedido = SinPedido /\ ejecutadas = <<>>

-----------------------------------------------------------------------------
(* worker_instrucciones_cargar: lines are numbered from 0, those before      *)
(* start_pc are skipped and blank ones are left out.                         *)

CargarSinNumerar(guion, start_pc) ==   \* mutant: skipped lines are not counted
  LET n == IF start_pc < 0 THEN 0 ELSE start_pc
      numeradas == [k \in DOMAIN guion |->
                      [linea |-> guion[k], pc |-> k - 1 - n]]
  IN SelectSeq(numeradas, LAMBDA x : x.pc >= 0 /\ x.linea.tipo # "VACIA")

\* The list after reading the first n lines of the file.
Leidas(guion, start_pc) ==
  LET lista[n \in 0 .. Len(guion)] ==
        IF n = 0 THEN <<>>
        ELSE IF n - 1 >= start_pc /\ guion[n].tipo # "VACIA"
        THEN Append(lista[n - 1], [linea |-> guion[n], pc |-> n - 1])
        ELSE lista[n - 1]
  IN lista

Cargar(guion, start_pc) == Leidas(guion, start_pc)[Len(guion)]

\* OP_EXEC_QUERY.  A script that cannot be opened leaves everything as it was.
RecibirConsulta(guion, start_pc) ==
  /\ fase = "esperando"
  /\ instrucciones' = Cargar(guion, start_pc)
  /\ i' = 1
  /\ fase' = "fetch"
  /\ pedido' = [guion |-> guion, start_pc |-> start_pc]
  /\ ejecutadas' = <<>>
  /\ UNCHANGED <<arranque, archivos, mutex, rc>>

\* recibir_paquete returns NULL: the thread ends, main stays in pause().
PerderMaster ==
  /\ fase = "esperando"
  /\ fase' = "cerrado"
  /\ UNCHANGED <<arranque, archivos, mutex, consulta, rc>>

-----------------------------------------------------------------------------
(* worker_query_execute_all *)

HayInstruccion == i <= Len(instrucciones)
Linea == instrucciones[i].linea
Ejecutando(tipos) == fase = "fetch" /\ HayInstruccion /\ Linea.tipo \in tipos

AvanzarDeMas(resultado) ==   \* mutant: END breaks one position too far
  /\ rc' = resultado
  /\ ejecutadas' = Append(ejecutadas, instrucciones[i].pc)
  /\ i' = IF Linea.tipo = "END" THEN Len(instrucciones) + 2 ELSE i + 1
  /\ fase' = "fetch"
  /\ UNCHANGED <<instrucciones, pedido>>

\* The loop goes on after an error and stops after END.
Avanzar(resultado) ==
  /\ rc' = resultado
  /\ ejecutadas' = Append(ejecutadas, instrucciones[i].pc)
  /\ i' = IF Linea.tipo = "END" THEN Len(instrucciones) + 1 ELSE i + 1
  /\ fase' = "fetch"
  /\ UNCHANGED <<instrucciones, pedido>>

SinConsulta ==
  /\ instrucciones' = <<>> /\ i' = 1
  /\ pedido' = SinPedido /\ ejecutadas' = <<>>

TerminarSiHubo ==   \* mutant: an empty script never gives the thread back
  /\ fase = "fetch" /\ ~HayInstruccion /\ instrucciones # <<>>
  /\ fase' = "esperando"
  /\ SinConsulta
  /\ UNCHANGED <<arranque, archivos, mutex, rc>>

\* The list of instructions is destroyed and the thread waits for the Master.
TerminarConsulta ==
  /\ fase = "fetch" /\ ~HayInstruccion
  /\ fase' = "esperando"
  /\ SinConsulta
  /\ UNCHANGED <<arranque, archivos, mutex, rc>>

-----------------------------------------------------------------------------
(* worker_query_execute_instruction and the file table *)

\* worker_archivo_buscar: the first entry with that file and tag, if any.
Buscar(ft) ==
  {k \in DOMAIN archivos : /\ archivos[k].ft = ft
                           /\ \A j \in 1 .. k - 1 : archivos[j].ft # ft}

SinArchivo ==
  /\ Ejecutando({"SIMULADA", "END"}) /\ Avanzar(0)
  /\ UNCHANGED <<arranque, archivos, mutex>>

Invalida ==
  /\ Ejecutando({"INVALID"}) /\ Avanzar(-1)
  /\ UNCHANGED <<arranque, archivos, mutex>>

\* The first lock of CREATE and TRUNCATE.
Tomar ==
  /\ inicializado
  /\ Ejecutando({"CREATE", "TRUNCATE"})
  /\ mutex' = 1
  /\ fase' = "buscando"
  /\ UNCHANGED <<arranque, archivos, consulta, rc>>

CrearSinVerificar ==   \* mutant: the search for an existing File:Tag is dropped
  /\ fase = "buscando" /\ Linea.tipo = "CREATE" /\ reentrante
  /\ archivos' = Append(archivos, ArchivoNuevo(Linea.ft))
  /\ Avanzar(0)
  /\ mutex' = 0
  /\ UNCHANGED arranque

\* worker_archivo_buscar locks the mutex again: the step needs reentrante.
CrearArchivo ==
  /\ fase = "buscando" /\ Linea.tipo = "CREATE" /\ reentrante
  /\ \/ Buscar(Linea.ft) # {} /\ Avanzar(-1) /\ UNCHANGED archivos
     \/ /\ Buscar(Linea.ft) = {}
        /\ archivos' = Append(archivos, ArchivoNuevo(Linea.ft))
        /\ Avanzar(0)
  /\ mutex' = 0
  /\ UNCHANGED arranque

\* worker_archivo_truncar refuses a file that does not exist, a committed one and
\* a size that is no multiple of the block size.  No code puts anything in the
\* page dictionary of a file, so there is no frame to release.
PuedeTruncar(a, n) == a.state # "COMMITED" /\ n % BlockSize = 0

TruncarArchivo ==
  /\ fase = "buscando" /\ Linea.tipo = "TRUNCATE" /\ reentrante
  /\ \/ \E k \in Buscar(Linea.ft) :
          /\ PuedeTruncar(archivos[k], Linea.size)
          /\ archivos' = [archivos EXCEPT ![k].size = Linea.size]
          /\ Avanzar(0)
     \/ /\ \A k \in Buscar(Linea.ft) : ~PuedeTruncar(archivos[k], Linea.size)
        /\ Avanzar(-1)
        /\ UNCHANGED archivos
  /\ mutex' = 0
  /\ UNCHANGED arranque

EliminarElPrimero ==   \* mutant: the head of the list is removed
  /\ inicializado /\ Ejecutando({"DELETE"})
  /\ \/ Buscar(Linea.ft) # {} /\ archivos' = Tail(archivos) /\ Avanzar(0)
     \/ Buscar(Linea.ft) = {} /\ Avanzar(-1) /\ UNCHANGED archivos
  /\ UNCHANGED <<arranque, mutex>>

\* worker_archivo_eliminar locks once, searches by itself and unlocks.
EliminarArchivo ==
  /\ inicializado /\ Ejecutando({"DELETE"})
  /\ \/ /\ \E k \in Buscar(Linea.ft) : archivos' = RemoveAt(archivos, k)
        /\ Avanzar(0)
     \/ Buscar(Linea.ft) = {} /\ Avanzar(-1) /\ UNCHANGED archivos
  /\ UNCHANGED <<arranque, mutex>>

\* worker_create leaves archivos and archivos_mutex as malloc returned them:
\* locking a garbage mutex may block, listing a garbage list crashes.
UsarSinInicializar ==
  /\ ~inicializado
  /\ Ejecutando({"CREATE", "TRUNCATE", "DELETE"})
  /\ fase' \in {"colgado", "caido"}
  /\ UNCHANGED <<arranque, archivos, mutex, consulta, rc>>

\* worker_archivo_agregar, exported and without a caller so far: adds an archive
\* unless it is there already.
AgregarArchivo(ft) ==
  /\ inicializado /\ fase = "esperando"
  /\ Buscar(ft) = {}
  /\ archivos' = Append(archivos, ArchivoNuevo(ft))
  /\ UNCHANGED <<arranque, mutex, fase, consulta, rc>>

-----------------------------------------------------------------------------
Recibir ==
  \/ \E g \in Guiones, pc \in Inicios : RecibirConsulta(g, pc)
  \/ PerderMaster
  \/ \E ft \in FileTags : AgregarArchivo(ft)

Ejecutar ==
  \/ SinArchivo \/ Invalida \/ Tomar \/ CrearArchivo \/ TruncarArchivo
  \/ EliminarArchivo \/ UsarSinInicializar \/ TerminarConsulta

Next == Recibir \/ Ejecutar
Spec == Init /\ [][Next]_vars

\* The Master owes no query; a query being executed keeps executing.
FairSpec == Spec /\ WF_vars(Ejecutar)

-----------------------------------------------------------------------------
(* Properties *)

\* The table holds no two entries for a File:Tag (worker_query.c l. 46-53,
\* 315-321): DELETE and TRUNCATE look no further than the first.
SinDuplicados ==
  \A j, k \in DOMAIN archivos : archivos[j].ft = archivos[k].ft => j = k

\* What a query must execute, from the file alone: the instructions of the lines
\* from start_pc on, blank ones excepted, up to the first END.
Debidas(p) ==
  LET lineas == {n \in DOMAIN p.guion : /\ n - 1 >= p.start_pc
                                        /\ p.guion[n].tipo # "VACIA"
                                        /\ \A m \in DOMAIN p.guion :
                                             m < n /\ m - 1 >= p.start_pc
                                               => p.guion[m].tipo # "END"}
  IN {n - 1 : n \in lineas}

\* The instructions of a query run in the order of the file, each once, none
\* before start_pc, none after END, and all of them by the end, even after errors
\* (worker_query.c l. 182-193, worker_instrucciones.c l. 173-188).
OrdenDelGuion ==
  /\ \A j, k \in DOMAIN ejecutadas : j < k => ejecutadas[j] < ejecutadas[k]
  /\ ToSet(ejecutadas) \subseteq Debidas(pedido)
  /\ \A pc \in Debidas(pedido) \ ToSet(ejecutadas), k \in DOMAIN ejecutadas :
       ejecutadas[k] < pc
  /\ fase = "fetch" /\ ~HayInstruccion => ToSet(ejecutadas) = Debidas(pedido)

TocaArchivo ==
  \E k \in DOMAIN instrucciones :
    instrucciones[k].linea.tipo \in {"CREATE", "TRUNCATE", "DELETE"}

\* A query that has been accepted ends and the thread listens to the Master again,
\* where the table is initialised and mutexes let their owner in; and everywhere,
\* also in a Worker as worker_create leaves it, if the script touches no local file.
ConsultaTermina ==
  (\/ reentrante /\ inicializado /\ fase \in {"fetch", "buscando"}
   \/ fase = "fetch" /\ ~TocaArchivo)
    ~> fase = "esperando"

\* CREATE on a new File:Tag creates it ("Crear archivo local", l. 55).
CreateResponde ==
  fase = "buscando" /\ Linea.tipo = "CREATE" ~> fase # "buscando"
=============================================================================
