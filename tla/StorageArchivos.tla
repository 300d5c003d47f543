---------------------------- MODULE StorageArchivos ----------------------------
(***************************************************************************)
(* The files of the Storage (storage/src/archivos.c and                    *)
(* operaciones_archivos.c): a list and a dictionary of pointers to the     *)
(* same heap objects.                                                      *)
(*                                                                         *)
(* A file is the address malloc gave it, and malloc may give an address    *)
(* that was freed.  Every operation goes through abrir_archivo, so a       *)
(* pointer is never older than the dictionary: what dangles, dangles there.*)
(* After an undefined behaviour (freed memory used, an access outside the  *)
(* data) nothing more is said.                                             *)
(***************************************************************************)
EXTENDS Integers, Sequences, SequencesExt

CONSTANTS
  Direcciones,   \* where a t_archivo may be
  Nombres,       \* names of files
  Nulo,          \* NULL
  Modulo         \* the values of a uint32_t

ASSUME NuloAssumption == Nulo \notin Direcciones
ASSUME ModuloAssumption == Modulo \in Nat \ {0}

VARIABLES
  lista,      \* archivos_storage
  dic,        \* archivos_por_nombre
  vivos,      \* allocated and not freed
  nombre,     \* metadata.nombre of each file
  tamanio,    \* metadata.tamanio
  datos,      \* bytes allocated at datos, or SinDatos
  acceso,     \* history: the last read or write: where, how much, in how much
  tapados,    \* history: files whose name has been given to another file
  viejos,     \* history: names a rename has left behind, and names whose file was
              \* deleted under another one; until they are given to a file again
  corrupto    \* has something undefined been done?

vars == <<lista, dic, vivos, nombre, tamanio, datos, acceso, tapados, viejos, corrupto>>

Uint == 0 .. Modulo - 1
SinDatos == -1
Ninguno == [posicion |-> 0, tamanio |-> 0, datos |-> 0]

\* Types of the files; sizes stay in the range of a uint32_t.
TypeOK ==
  /\ lista \in Seq(Direcciones)
  /\ dic \in [Nombres -> Direcciones \cup {Nulo}]
  /\ vivos \subseteq Direcciones
  /\ nombre \in [Direcciones -> Nombres]
  /\ tamanio \in [Direcciones -> Uint]
  /\ datos \in [Direcciones -> Uint \cup {SinDatos}]
  /\ acceso \in [posicion : Uint, tamanio : Uint, datos : Uint]
  /\ tapados \subseteq vivos
  /\ viejos \subseteq Nombres /\ corrupto \in BOOLEAN

Init ==
  /\ lista = <<>>
  /\ dic = [n \in Nombres |-> Nulo]
  /\ vivos = {}
  /\ nombre \in [Direcciones -> Nombres]   \* memory nobody has written
  /\ tamanio = [a \in Direcciones |-> 0]
  /\ datos = [a \in Direcciones |-> SinDatos]
  /\ acceso = Ninguno
  /\ tapados = {}
  /\ viejos = {}
  /\ corrupto = FALSE

SumaSinModulo(i, j) == i + j   \* mutant: the end does not wrap around

\* uint32_t addition.
Suma(i, j) == (i + j) % Modulo

\* a can be used: abrir_archivo returned it, and it has not been freed.
Abierto(n) == ~corrupto /\ dic[n] \in vivos

-----------------------------------------------------------------------------
(* The dictionary *)

\* dictionary_put replaces what the name led to.
Registrar(n, a) ==
  /\ dic' = [dic EXCEPT ![n] = a]
  /\ tapados' = (tapados \ {a}) \cup {b \in vivos \ {a} : nombre[b] = n}

\* The name of a, while it leads to a.
SuNombre(a) == {m \in Nombres : m = nombre[a] /\ dic[m] = a}

CrearSinRegistrar(n) ==   \* mutant: the file is in the list and not in the dictionary
  \E a \in Direcciones \ vivos :
    /\ ~corrupto
    /\ vivos' = vivos \cup {a}
    /\ nombre' = [nombre EXCEPT ![a] = n]
    /\ tamanio' = [tamanio EXCEPT ![a] = 0]
    /\ datos' = [datos EXCEPT ![a] = SinDatos]
    /\ lista' = Append(lista, a)
    /\ acceso' = Ninguno
    /\ UNCHANGED <<dic, tapados, viejos, corrupto>>

\* crear_archivo: nothing asks whether the name is taken.
Crear(n) ==
  \E a \in Direcciones \ vivos :
    /\ ~corrupto
    /\ vivos' = vivos \cup {a}
    /\ nombre' = [nombre EXCEPT ![a] = n]
    /\ tamanio' = [tamanio EXCEPT ![a] = 0]
    /\ datos' = [datos EXCEPT ![a] = SinDatos]
    /\ lista' = Append(lista, a)
    /\ Registrar(n, a)
    /\ viejos' = viejos \ {n}
    /\ acceso' = Ninguno
    /\ UNCHANGED corrupto

\* renombrar_archivo frees the old name and then removes the new one, which it is
\* about to put: the old one stays in the dictionary.
Renombrar(n, nuevo) ==
  /\ Abierto(n)
  /\ viejos' = (viejos \cup SuNombre(dic[n])) \ {nuevo}
  /\ nombre' = [nombre EXCEPT ![dic[n]] = nuevo]
  /\ Registrar(nuevo, dic[n])
  /\ acceso' = Ninguno
  /\ UNCHANGED <<lista, vivos, tamanio, datos, corrupto>>

QuitarUltimo(a) ==   \* mutant: the last file of the list, not the one removed
  lista' = Front(lista)
QuitarDeLista(a) == lista' = RemoveFirst(lista, a)

BorrarSinOlvidar(n) ==   \* mutant: dictionary_get, the name stays
  /\ Abierto(n)
  /\ QuitarDeLista(dic[n])
  /\ vivos' = vivos \ {dic[n]}
  /\ tapados' = tapados \ {dic[n]}
  /\ viejos' = (viejos \cup SuNombre(dic[n])) \ {n}
  /\ acceso' = Ninguno
  /\ UNCHANGED <<dic, nombre, tamanio, datos, corrupto>>

\* borrar_archivo: the name it was asked for, and the file.
Borrar(n) ==
  /\ Abierto(n)
  /\ dic' = [dic EXCEPT ![n] = Nulo]
  /\ QuitarDeLista(dic[n])
  /\ vivos' = vivos \ {dic[n]}
  /\ tapados' = tapados \ {dic[n]}
  /\ viejos' = (viejos \cup SuNombre(dic[n])) \ {n}
  /\ acceso' = Ninguno
  /\ UNCHANGED <<nombre, tamanio, datos, corrupto>>

\* Any operation on a file that was freed and whose address names no other.
UsarLiberado(n) ==
  /\ ~corrupto /\ dic[n] \in Direcciones \ vivos
  /\ corrupto' = TRUE
  /\ UNCHANGED <<lista, dic, vivos, nombre, tamanio, datos, acceso, tapados,
                 viejos>>

-----------------------------------------------------------------------------
(* The data *)

\* memcpy between a buffer and the data of a file that has n bytes allocated.
Copiar(posicion, cuantos, n) ==
  /\ acceso' = [posicion |-> posicion, tamanio |-> cuantos, datos |-> n]
  /\ corrupto' = (posicion + cuantos > n)

LeeSinMirarPosicion(a, posicion, cuantos) ==   \* mutant: only the size is looked at
  datos[a] # SinDatos /\ cuantos <= tamanio[a]
Lee(a, posicion, cuantos) ==
  datos[a] # SinDatos /\ Suma(posicion, cuantos) <= tamanio[a]

\* leer_archivo, when it does not answer -1.
Leer(n, posicion, cuantos) ==
  /\ Abierto(n) /\ Lee(dic[n], posicion, cuantos)
  /\ Copiar(posicion, cuantos, datos[dic[n]])
  /\ UNCHANGED <<lista, dic, vivos, nombre, tamanio, datos, tapados, viejos>>

\* malloc(bytes) when there is no data, realloc(datos, bytes) otherwise.  With 0
\* bytes glibc's realloc frees what there was and returns NULL, its malloc does not.
TrasReservar(a, bytes) ==
  IF bytes = 0 /\ datos[a] # SinDatos THEN SinDatos ELSE bytes

TamanioSoloSiCrece(a, bytes) ==   \* mutant: a smaller size is not noted
  [tamanio EXCEPT ![a] = IF bytes > @ THEN bytes ELSE @]
ConTamanio(a, bytes) == [tamanio EXCEPT ![a] = bytes]

Reservar(a, bytes) ==
  /\ datos' = [datos EXCEPT ![a] = TrasReservar(a, bytes)]
  /\ tamanio' = ConTamanio(a, bytes)

\* escribir_archivo makes room when there is no data or when the end is beyond the
\* size, and then copies.
Escribir(n, posicion, cuantos) ==
  /\ Abierto(n)
  /\ LET a == dic[n]
         fin == Suma(posicion, cuantos)
     IN  \/ /\ datos[a] = SinDatos \/ fin > tamanio[a]
            /\ Reservar(a, fin) /\ Copiar(posicion, cuantos, fin)
         \/ /\ datos[a] # SinDatos /\ fin <= tamanio[a]
            /\ Copiar(posicion, cuantos, datos[a])
            /\ UNCHANGED <<datos, tamanio>>
  /\ UNCHANGED <<lista, dic, vivos, nombre, tapados, viejos>>

Truncar(n, nuevo) ==
  /\ Abierto(n)
  /\ Reservar(dic[n], nuevo)
  /\ acceso' = Ninguno
  /\ UNCHANGED <<lista, dic, vivos, nombre, tapados, viejos, corrupto>>

-----------------------------------------------------------------------------
Next ==
  \E n \in Nombres :
    \/ Crear(n) \/ Borrar(n) \/ UsarLiberado(n)
    \/ \E nuevo \in Nombres : Renombrar(n, nuevo)
    \/ \E posicion \in Uint, cuantos \in Uint :
         Leer(n, posicion, cuantos) \/ Escribir(n, posicion, cuantos)
    \/ \E nuevo \in Uint : Truncar(n, nuevo)

Spec == Init /\ [][Next]_vars

-----------------------------------------------------------------------------
(* Properties *)

\* archivos_storage has the files that exist, each once (l. 17 of archivos.c and
\* l. 72 of operaciones_archivos.c), whatever names lead to them and whatever
\* addresses are used again.
ListaExacta == IsInjective(lista) /\ ToSet(lista) = vivos

\* A file is found under the name its metadata has (l. 42-43), until that name is
\* given to another one: no sequence of renames and deletions loses it.
AlcanzablePorSuNombre ==
  \A a \in vivos \ tapados : dic[nombre[a]] = a

\* A name leads to the file that has it, or to none, also after other files were
\* renamed: the only names that lead to freed memory or to another file are those a
\* rename left behind (l. 42 of operaciones_archivos.c removes the new name instead of
\* the old one), those of files deleted under a name left behind (l. 69), and neither
\* once they are given again.
NombresAlDia ==
  \A n \in Nombres \ viejos :
    dic[n] # Nulo => dic[n] \in vivos /\ nombre[dic[n]] = n

\* The size of the metadata is what is allocated, after any writes and truncations,
\* also when a truncation to zero frees the data (l. 23-28, 61-62).
TamanioExacto ==
  \A a \in vivos : tamanio[a] = IF datos[a] = SinDatos THEN 0 ELSE datos[a]

\* The bound check of a read and the enlargement of a write keep memcpy inside the
\* data, except for an end that does not fit in 32 bits (l. 13, 24, 26).
FueraSoloSiDesborda ==
  acceso.posicion + acceso.tamanio > acceso.datos =>
    acceso.posicion + acceso.tamanio >= Modulo
=============================================================================
