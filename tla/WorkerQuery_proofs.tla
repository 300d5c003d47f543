--------------------------- MODULE WorkerQuery_proofs ---------------------------
(***************************************************************************)
(* Theorems about WorkerQuery: the table of File:Tag, the script loader,   *)
(* the order of execution, and the map the table implements, for every set *)
(* of names, sizes and scripts, every block size, and every kind of mutex. *)
(***************************************************************************)
EXTENDS WorkerQueryRefina, ListaLemas

USE BlockSizeAssumption

\* A list of archives, whatever their names and sizes are taken from.
Registro(F, T) == [ft: F, size: T, state: {"WORK_IN_PROGRESS", "COMMITED"}]
EsTabla(lista) == \E F, T : lista \in Seq(Registro(F, T))

\* The three invariants of the table, of a list rather than of the variable.
Distintos(lista) == \A j, k \in DOMAIN lista : lista[j].ft = lista[k].ft => j = k
Alineados(lista) == \A k \in DOMAIN lista : lista[k].size % BlockSize = 0
TablaOK(lista) == EsTabla(lista) /\ Distintos(lista) /\ Alineados(lista)

-----------------------------------------------------------------------------
(* What each operation does to a list *)

\* worker_archivo_buscar finds nothing only when there is nothing to find.
LEMMA BuscarCompleto ==
  ASSUME NEW ft, EsTabla(archivos), Buscar(ft) = {}
  PROVE  \A k \in DOMAIN archivos : archivos[k].ft # ft
<1>. DEFINE I == {k \in DOMAIN archivos : archivos[k].ft = ft}
<1>1. DOMAIN archivos \in SUBSET Nat
  BY LenProperties DEF EsTabla
<1>2. SUFFICES ASSUME I # {} PROVE FALSE
  OBVIOUS
<1>3. PICK m \in I : \A n \in I : m <= n
  BY <1>1, <1>2, MinimoNat
<1>4. ASSUME NEW j \in 1 .. m - 1, archivos[j].ft = ft
      PROVE  FALSE
  <2>1. j \in DOMAIN archivos
    BY <1>1, <1>3, LenProperties DEF EsTabla
  <2>. QED
    BY <1>1, <1>3, <1>4, <2>1
<1>. QED
  BY <1>3, <1>4 DEF Buscar

\* An entry added under a new name keeps the table in order.
LEMMA AgregarConserva ==
  ASSUME NEW ft, TablaOK(archivos), Buscar(ft) = {}
  PROVE  TablaOK(Append(archivos, ArchivoNuevo(ft)))
<1>. DEFINE nuevo == ArchivoNuevo(ft)
            lista == Append(archivos, nuevo)
<1>1. PICK F, T : archivos \in Seq(Registro(F, T))
  BY DEF TablaOK, EsTabla
<1>2. \A k \in DOMAIN archivos : archivos[k].ft # ft
  BY BuscarCompleto DEF TablaOK
<1>3. nuevo \in Registro(F \cup {ft}, T \cup {0})
  BY DEF ArchivoNuevo, Registro
<1>4. archivos \in Seq(Registro(F \cup {ft}, T \cup {0}))
  <2>1. Registro(F, T) \subseteq Registro(F \cup {ft}, T \cup {0})
    BY DEF Registro
  <2>. QED
    BY <1>1, <2>1, SeqMonotonic
<1>5. /\ lista \in Seq(Registro(F \cup {ft}, T \cup {0}))
      /\ Len(lista) = Len(archivos) + 1
      /\ \A k \in 1 .. Len(archivos) : lista[k] = archivos[k]
      /\ lista[Len(archivos) + 1] = nuevo
  BY <1>3, <1>4, AppendProperties
<1>6. /\ DOMAIN lista = 1 .. Len(archivos) + 1
      /\ DOMAIN archivos = 1 .. Len(archivos)
      /\ Len(archivos) \in Nat
  BY <1>4, <1>5, LenProperties
<1>7. nuevo.ft = ft /\ nuevo.size = 0 /\ 0 % BlockSize = 0
  BY DEF ArchivoNuevo
<1>. HIDE DEF lista, nuevo
<1>8. Distintos(lista)
  BY <1>2, <1>5, <1>6, <1>7 DEF TablaOK, Distintos
<1>9. Alineados(lista)
  BY <1>5, <1>6, <1>7 DEF TablaOK, Alineados
<1>10. EsTabla(lista)
  BY <1>5 DEF EsTabla
<1>. QED
  BY <1>8, <1>9, <1>10 DEF TablaOK, lista, nuevo

\* Removing one entry keeps the others apart.
LEMMA QuitarConserva ==
  ASSUME NEW k \in DOMAIN archivos, TablaOK(archivos)
  PROVE  TablaOK(RemoveAt(archivos, k))
<1>. DEFINE lista == RemoveAt(archivos, k)
<1>1. PICK F, T : archivos \in Seq(Registro(F, T))
  BY DEF TablaOK, EsTabla
<1>2. /\ DOMAIN archivos = 1 .. Len(archivos)
      /\ Len(archivos) \in Nat
      /\ k \in 1 .. Len(archivos)
  BY <1>1, LenProperties
<1>3. /\ lista \in Seq(Registro(F, T))
      /\ Len(lista) = Len(archivos) - 1
      /\ \A j \in 1 .. Len(archivos) - 1 :
           lista[j] = IF j < k THEN archivos[j] ELSE archivos[j + 1]
  BY <1>1, <1>2, QuitarPosicion
<1>4. DOMAIN lista = 1 .. Len(archivos) - 1
  BY <1>3, LenProperties
<1>. DEFINE De(j) == IF j < k THEN j ELSE j + 1
<1>. HIDE DEF lista
<1>5. \A j \in DOMAIN lista : De(j) \in DOMAIN archivos /\ lista[j] = archivos[De(j)]
  BY <1>2, <1>3, <1>4
<1>6. Distintos(lista)
  <2>1. SUFFICES ASSUME NEW i1 \in DOMAIN lista, NEW i2 \in DOMAIN lista,
                        lista[i1].ft = lista[i2].ft
                 PROVE  i1 = i2
    BY DEF Distintos
  <2>2. De(i1) = De(i2)
    BY <1>5, <2>1 DEF TablaOK, Distintos
  <2>. QED
    BY <1>2, <1>4, <2>2
<1>7. Alineados(lista)
  <2>1. SUFFICES ASSUME NEW j \in DOMAIN lista PROVE lista[j].size % BlockSize = 0
    BY DEF Alineados
  <2>2. De(j) \in DOMAIN archivos /\ lista[j] = archivos[De(j)]
    BY <1>5
  <2>. HIDE DEF De
  <2>. QED
    BY <2>2 DEF TablaOK, Alineados
<1>8. EsTabla(lista)
  BY <1>3 DEF EsTabla
<1>. QED
  BY <1>6, <1>7, <1>8 DEF TablaOK, lista

\* A new size in whole blocks changes no name.
LEMMA CambiarConserva ==
  ASSUME NEW k \in DOMAIN archivos, NEW n, TablaOK(archivos), n % BlockSize = 0
  PROVE  TablaOK([archivos EXCEPT ![k].size = n])
<1>. DEFINE lista == [archivos EXCEPT ![k].size = n]
<1>1. PICK F, T : archivos \in Seq(Registro(F, T))
  BY DEF TablaOK, EsTabla
<1>2. /\ archivos \in Seq(Registro(F, T \cup {n}))
      /\ archivos[k] \in Registro(F, T)
  <2>1. Registro(F, T) \subseteq Registro(F, T \cup {n})
    BY DEF Registro
  <2>. QED
    BY <1>1, <2>1, SeqMonotonic, ElementOfSeq, LenProperties
<1>3. [archivos[k] EXCEPT !.size = n] \in Registro(F, T \cup {n})
  BY <1>2 DEF Registro
<1>4. /\ [archivos[k] EXCEPT !.size = n].ft = archivos[k].ft
      /\ [archivos[k] EXCEPT !.size = n].size = n
  BY <1>2 DEF Registro
<1>5. lista = [archivos EXCEPT ![k] = [archivos[k] EXCEPT !.size = n]]
  OBVIOUS
<1>6. lista \in Seq(Registro(F, T \cup {n}))
  BY <1>2, <1>3, <1>5, ExceptSeq, LenProperties
<1>7. /\ DOMAIN lista = DOMAIN archivos
      /\ \A j \in DOMAIN archivos :
           /\ lista[j].ft = archivos[j].ft
           /\ lista[j].size = IF j = k THEN n ELSE archivos[j].size
  BY <1>4, <1>5
<1>. HIDE DEF lista
<1>8. Distintos(lista) /\ Alineados(lista)
  BY <1>7 DEF TablaOK, Distintos, Alineados
<1>9. EsTabla(lista)
  BY <1>6 DEF EsTabla
<1>. QED
  BY <1>8, <1>9 DEF TablaOK, lista

-----------------------------------------------------------------------------
(* The table of File:Tag *)

\* What any step does with the table, instruction by instruction.
LEMMA PasoConserva ==
  ASSUME TablaOK(archivos), [Next]_vars
  PROVE  TablaOK(archivos')
<1>1. ASSUME CrearArchivo PROVE TablaOK(archivos')
  BY <1>1, AgregarConserva DEF CrearArchivo
<1>2. ASSUME TruncarArchivo PROVE TablaOK(archivos')
  <2>1. ASSUME NEW k \in Buscar(Linea.ft), PuedeTruncar(archivos[k], Linea.size),
               archivos' = [archivos EXCEPT ![k].size = Linea.size]
        PROVE  TablaOK(archivos')
    BY <2>1, CambiarConserva DEF Buscar, PuedeTruncar
  <2>. QED
    BY <1>2, <2>1 DEF TruncarArchivo
<1>3. ASSUME EliminarArchivo PROVE TablaOK(archivos')
  BY <1>3, QuitarConserva DEF EliminarArchivo, Buscar
<1>4. ASSUME NEW ft \in FileTags, AgregarArchivo(ft) PROVE TablaOK(archivos')
  BY <1>4, AgregarConserva DEF AgregarArchivo
<1>5. ASSUME \/ \E g \in Guiones, pc \in Inicios : RecibirConsulta(g, pc)
             \/ PerderMaster \/ SinArchivo \/ Invalida \/ Tomar
             \/ UsarSinInicializar \/ TerminarConsulta \/ UNCHANGED vars
      PROVE  UNCHANGED archivos
  BY <1>5 DEF RecibirConsulta, PerderMaster, SinArchivo, Invalida, Tomar,
              UsarSinInicializar, TerminarConsulta, vars
<1>. QED
  BY <1>1, <1>2, <1>3, <1>4, <1>5 DEF Next, Recibir, Ejecutar

\* The table is always a list of archives with different names and sizes in whole
\* blocks: the invariant under the two theorems that follow.
THEOREM TablaCorrecta == Spec => []TablaOK(archivos)
<1>1. Init => TablaOK(archivos)
  <2>1. SUFFICES ASSUME Init PROVE TablaOK(archivos)
    OBVIOUS
  <2>2. archivos = <<>> /\ DOMAIN archivos = {}
    BY <2>1 DEF Init
  <2>3. archivos \in Seq(Registro({}, {}))
    BY <2>2, EmptySeq
  <2>. QED
    BY <2>2, <2>3 DEF TablaOK, EsTabla, Distintos, Alineados
<1>2. TablaOK(archivos) /\ [Next]_vars => TablaOK(archivos)'
  BY PasoConserva DEF TablaOK, EsTabla, Distintos, Alineados
<1>. QED
  BY <1>1, <1>2, PTL DEF Spec

\* No File:Tag has two entries, whatever scripts are executed (worker_query.c
\* l. 46-53, 315-321): DELETE and TRUNCATE may stop at the first they find.
THEOREM NuncaDuplicados == Spec => []SinDuplicados
<1>1. TablaOK(archivos) => SinDuplicados
  BY DEF TablaOK, Distintos, SinDuplicados
<1>. QED
  BY <1>1, TablaCorrecta, PTL

-----------------------------------------------------------------------------
(* The loader: worker_instrucciones_cargar *)

Instruccion == [linea: Lineas, pc: Nat]

\* One line of the file: what it adds to the list of the lines before it.
Leer(guion, start_pc, lista, n) ==
  IF n = 0 THEN <<>>
  ELSE IF n - 1 >= start_pc /\ guion[n].tipo # "VACIA"
  THEN Append(lista[n - 1], [linea |-> guion[n], pc |-> n - 1])
  ELSE lista[n - 1]

\* Reading line by line is well defined, whatever the file: a least length at
\* which it were not has a list for the line before to be extended.
LEMMA LeidasPorLinea ==
  ASSUME NEW guion \in Seq(Lineas), NEW start_pc
  PROVE  \A n \in 0 .. Len(guion) :
           Leidas(guion, start_pc)[n] =
             Leer(guion, start_pc, Leidas(guion, start_pc), n)
<1>. DEFINE Es(f, m) == f = [n \in 0 .. m |-> Leer(guion, start_pc, f, n)]
            Malas == {m \in Nat : ~ \E f : Es(f, m)}
<1>1. Len(guion) \in Nat
  BY LenProperties
<1>2. Malas = {}
  <2>. SUFFICES ASSUME Malas # {} PROVE FALSE
    OBVIOUS
  <2>1. PICK m \in Malas : \A n \in Malas : m <= n
    BY MinimoNat
  <2>2. m # 0
    <3>. DEFINE f == [n \in 0 .. 0 |-> <<>>]
    <3>1. f = [n \in 0 .. 0 |-> Leer(guion, start_pc, f, n)]
      BY DEF Leer
    <3>. QED BY <2>1, <3>1
  <2>3. m - 1 \in Nat /\ m - 1 \notin Malas
    BY <2>1, <2>2
  <2>4. PICK g : Es(g, m - 1)
    BY <2>3
  <2>. DEFINE f == [n \in 0 .. m |-> IF n = m THEN Leer(guion, start_pc, g, m)
                                     ELSE g[n]]
  <2>5. ASSUME NEW n \in 0 .. m
        PROVE  f[n] = Leer(guion, start_pc, f, n)
    <3>1. n = 0 \/ (n - 1 \in 0 .. m - 1 /\ f[n - 1] = g[n - 1])
      BY <2>3
    <3>2. Leer(guion, start_pc, f, n) = Leer(guion, start_pc, g, n)
      BY <3>1 DEF Leer
    <3>3. CASE n = m
      BY <3>2, <3>3
    <3>4. CASE n # m
      <4>1. n \in 0 .. m - 1 /\ f[n] = g[n]
        BY <2>3, <3>4
      <4>2. g[n] = Leer(guion, start_pc, g, n)
        BY <2>4, <4>1
      <4>. QED BY <3>2, <4>1, <4>2
    <3>. QED BY <3>3, <3>4
  <2>6. Es(f, m)
    BY <2>5
  <2>. QED
    BY <2>1, <2>6
<1>3. PICK h : Es(h, Len(guion))
  BY <1>1, <1>2
<1>. DEFINE P(f) == f = [n \in 0 .. Len(guion) |-> Leer(guion, start_pc, f, n)]
<1>4. Leidas(guion, start_pc) = CHOOSE f : P(f)
  BY DEF Leidas, Leer
<1>5. P(h)
  BY <1>3
<1>. HIDE DEF P
<1>6. P(Leidas(guion, start_pc))
  BY <1>4, <1>5
<1>. QED
  BY <1>6 DEF P

\* The lines a list of instructions must hold once the first n have been read.
ListaOK(guion, start_pc, lista, n) ==
  /\ lista \in Seq(Instruccion)
  /\ \A k \in DOMAIN lista :
       /\ lista[k].pc + 1 \in 1 .. n /\ lista[k].pc >= start_pc
       /\ lista[k].linea = guion[lista[k].pc + 1]
       /\ lista[k].linea.tipo # "VACIA"
  /\ \A j, k \in DOMAIN lista : j < k => lista[j].pc < lista[k].pc
  /\ \A m \in 1 .. n : m - 1 >= start_pc /\ guion[m].tipo # "VACIA" =>
       \E k \in DOMAIN lista : lista[k].pc = m - 1

\* One more line keeps the list right.
LEMMA LeerConserva ==
  ASSUME NEW guion \in Seq(Lineas), NEW start_pc \in Int,
         NEW n \in 1 .. Len(guion), NEW f, ListaOK(guion, start_pc, f[n - 1], n - 1)
  PROVE  ListaOK(guion, start_pc, Leer(guion, start_pc, f, n), n)
<1>. DEFINE v == f[n - 1]
<1>1. /\ v \in Seq(Instruccion) /\ Len(v) \in Nat /\ DOMAIN v = 1 .. Len(v)
      /\ n - 1 \in Nat /\ guion[n] \in Lineas
  BY LenProperties, ElementOfSeq DEF ListaOK
<1>2. CASE n - 1 >= start_pc /\ guion[n].tipo # "VACIA"
  <2>. DEFINE e == [linea |-> guion[n], pc |-> n - 1]
              l == Append(v, e)
  <2>1. e \in Instruccion /\ e.linea = guion[n] /\ e.pc = n - 1
    BY <1>1 DEF Instruccion
  <2>2. Leer(guion, start_pc, f, n) = l
    BY <1>1, <1>2 DEF Leer
  <2>. HIDE DEF e
  <2>3. /\ l \in Seq(Instruccion) /\ Len(l) = Len(v) + 1 /\ l[Len(v) + 1] = e
        /\ \A j \in 1 .. Len(v) : l[j] = v[j]
    BY <1>1, <2>1, AppendProperties
  <2>4. DOMAIN l = 1 .. Len(v) + 1
    BY <2>3, LenProperties
  <2>. HIDE DEF l, v
  <2>5. ASSUME NEW k \in DOMAIN l
        PROVE  /\ l[k].pc + 1 \in 1 .. n /\ l[k].pc >= start_pc
               /\ l[k].linea = guion[l[k].pc + 1]
               /\ l[k].linea.tipo # "VACIA"
    <3>1. CASE k = Len(v) + 1
      BY <1>1, <1>2, <2>1, <2>3, <3>1
    <3>2. CASE k \in DOMAIN v
      <4>1. /\ v[k].pc + 1 \in 1 .. n - 1 /\ v[k].pc >= start_pc
            /\ v[k].linea = guion[v[k].pc + 1]
            /\ v[k].linea.tipo # "VACIA"
        BY <3>2 DEF ListaOK, v
      <4>. QED BY <1>1, <2>3, <3>2, <4>1
    <3>. QED BY <1>1, <2>4, <3>1, <3>2
  <2>6. ASSUME NEW j \in DOMAIN l, NEW k \in DOMAIN l, j < k
        PROVE  l[j].pc < l[k].pc
    <3>1. j \in DOMAIN v /\ l[j] = v[j]
      BY <1>1, <2>3, <2>4, <2>6
    <3>2. CASE k = Len(v) + 1
      <4>1. v[j].pc + 1 \in 1 .. n - 1
        BY <3>1 DEF ListaOK, v
      <4>2. v[j] \in Instruccion
        BY <1>1, <3>1, ElementOfSeq
      <4>3. v[j].pc \in Nat
        BY <4>2 DEF Instruccion
      <4>4. l[k].pc = n - 1
        BY <2>1, <2>3, <3>2
      <4>. QED BY <1>1, <3>1, <4>1, <4>3, <4>4
    <3>3. CASE k \in DOMAIN v
      <4>1. v[j].pc < v[k].pc
        BY <2>6, <3>1, <3>3 DEF ListaOK, v
      <4>. QED BY <1>1, <2>3, <3>1, <3>3, <4>1
    <3>. QED BY <1>1, <2>4, <3>2, <3>3
  <2>7. ASSUME NEW m \in 1 .. n, m - 1 >= start_pc /\ guion[m].tipo # "VACIA"
        PROVE  \E k \in DOMAIN l : l[k].pc = m - 1
    <3>1. CASE m = n
      <4>1. Len(v) + 1 \in DOMAIN l
        BY <1>1, <2>4
      <4>. QED BY <2>1, <2>3, <3>1, <4>1
    <3>2. CASE m # n
      <4>1. m \in 1 .. n - 1
        BY <3>2
      <4>2. PICK k \in DOMAIN v : v[k].pc = m - 1
        BY <2>7, <4>1 DEF ListaOK, v
      <4>. QED BY <1>1, <2>3, <2>4, <4>2
    <3>. QED BY <3>1, <3>2
  <2>. QED
    BY <2>2, <2>3, <2>5, <2>6, <2>7 DEF ListaOK
<1>3. CASE ~(n - 1 >= start_pc /\ guion[n].tipo # "VACIA")
  <2>1. Leer(guion, start_pc, f, n) = v
    BY <1>1, <1>3 DEF Leer
  <2>. HIDE DEF v
  <2>2. ASSUME NEW m \in 1 .. n, m - 1 >= start_pc /\ guion[m].tipo # "VACIA"
        PROVE  \E k \in DOMAIN v : v[k].pc = m - 1
    <3>1. m \in 1 .. n - 1
      BY <1>3, <2>2
    <3>. QED BY <2>2, <3>1 DEF ListaOK, v
  <2>3. \A k \in DOMAIN v :
       /\ v[k].pc + 1 \in 1 .. n - 1 /\ v[k].pc >= start_pc
       /\ v[k].linea = guion[v[k].pc + 1]
       /\ v[k].linea.tipo # "VACIA"
    BY DEF ListaOK, v
  <2>4. \A j, k \in DOMAIN v : j < k => v[j].pc < v[k].pc
    BY DEF ListaOK, v
  <2>5. 1 .. n - 1 \subseteq 1 .. n
    BY <1>1
  <2>. QED
    BY <1>1, <2>1, <2>2, <2>3, <2>4, <2>5 DEF ListaOK
<1>. QED
  BY <1>2, <1>3

\* The list worker_instrucciones_cargar returns holds the lines from start_pc on,
\* blank ones excepted, each once, in the order of the file and under its own
\* number, whatever the file (worker_instrucciones.c l. 153-193).
LEMMA CargarCorrecto ==
  ASSUME NEW guion \in Seq(Lineas), NEW start_pc \in Int
  PROVE  ListaOK(guion, start_pc, Cargar(guion, start_pc), Len(guion))
<1>. DEFINE f == Leidas(guion, start_pc)
            Malas == {n \in 0 .. Len(guion) : ~ListaOK(guion, start_pc, f[n], n)}
<1>1. Len(guion) \in Nat
  BY LenProperties
<1>2. \A n \in 0 .. Len(guion) : f[n] = Leer(guion, start_pc, f, n)
  BY LeidasPorLinea
<1>. HIDE DEF f
<1>3. Malas = {}
  <2>. SUFFICES ASSUME Malas # {} PROVE FALSE
    OBVIOUS
  <2>1. Malas \in SUBSET Nat
    BY <1>1
  <2>2. PICK n \in Malas : \A m \in Malas : n <= m
    BY <2>1, MinimoNat
  <2>3. n # 0
    <3>1. f[0] = <<>>
      <4>1. f[0] = Leer(guion, start_pc, f, 0)
        BY <1>1, <1>2
      <4>. QED BY <4>1 DEF Leer
    <3>2. ListaOK(guion, start_pc, <<>>, 0)
      BY EmptySeq DEF ListaOK
    <3>. QED BY <2>2, <3>1, <3>2
  <2>4. n \in 1 .. Len(guion) /\ n - 1 \in 0 .. Len(guion) /\ n - 1 \notin Malas
    BY <1>1, <2>1, <2>2, <2>3
  <2>5. ListaOK(guion, start_pc, f[n - 1], n - 1)
    BY <2>4
  <2>6. ListaOK(guion, start_pc, Leer(guion, start_pc, f, n), n)
    BY <2>4, <2>5, LeerConserva
  <2>. QED
    BY <1>2, <2>2, <2>4, <2>6
<1>4. Len(guion) \notin Malas
  BY <1>3
<1>. QED
  BY <1>1, <1>4 DEF Cargar, f

-----------------------------------------------------------------------------
(* Types *)

\* Fields of a line, by its instruction.
LEMMA CamposDeLinea ==
  ASSUME NEW l \in Lineas
  PROVE  /\ l.tipo \in {"CREATE", "DELETE", "TRUNCATE", "SIMULADA", "END",
                        "INVALID", "VACIA"}
         /\ l.tipo \in {"CREATE", "DELETE"} =>
              l.ft \in FileTags /\ l = [tipo |-> l.tipo, ft |-> l.ft]
         /\ l.tipo = "TRUNCATE" =>
              /\ l.ft \in FileTags /\ l.size \in Tamanios
              /\ l = [tipo |-> "TRUNCATE", ft |-> l.ft, size |-> l.size]
         /\ l.tipo \in {"SIMULADA", "END", "INVALID"} => l = [tipo |-> l.tipo]
<1>1. CASE l \in [tipo: {"CREATE", "DELETE"}, ft: FileTags]
  BY <1>1
<1>2. CASE l \in [tipo: {"TRUNCATE"}, ft: FileTags, size: Tamanios]
  BY <1>2
<1>3. CASE l \in [tipo: {"SIMULADA", "END", "INVALID", "VACIA"}]
  BY <1>3
<1>. QED
  BY <1>1, <1>2, <1>3 DEF Lineas

\* The query in progress: its list is what the loader returned for it, the
\* instructions answered so far are the first ones of the list, and the index
\* stands after them unless the last one was END.
ConsultaOK ==
  /\ pedido.guion \in Guiones \cup {<<>>} /\ pedido.start_pc \in Int
  /\ instrucciones = Cargar(pedido.guion, pedido.start_pc)
  /\ ejecutadas \in Seq(Nat) /\ Len(ejecutadas) <= Len(instrucciones)
  /\ \A k \in 1 .. Len(ejecutadas) : ejecutadas[k] = instrucciones[k].pc
  /\ \A k \in 1 .. Len(ejecutadas) - 1 : instrucciones[k].linea.tipo # "END"
  /\ i = IF Len(ejecutadas) > 0 /\ instrucciones[Len(ejecutadas)].linea.tipo = "END"
         THEN Len(instrucciones) + 1 ELSE Len(ejecutadas) + 1
  /\ fase = "buscando" => HayInstruccion /\ Linea.tipo \in {"CREATE", "TRUNCATE"}

\* The archives of the table: nothing in the Worker commits one.
TablaEnProgreso ==
  /\ archivos \in Seq(Archivo)
  /\ \A k \in DOMAIN archivos : archivos[k].state = "WORK_IN_PROGRESS"

\* Flags, lock, phase and last answer.
ControlOK ==
  /\ reentrante \in Reentrantes /\ inicializado \in Inicializados
  /\ mutex \in {0, 1}
  /\ fase \in {"esperando", "fetch", "buscando", "colgado", "caido", "cerrado"}
  /\ rc \in {0, -1}

\* An empty file has no instruction.
LEMMA CargarVacio == Cargar(<<>>, 0) = <<>>
<1>1. ASSUME NEW g \in Seq(Lineas), Len(g) = 0
      PROVE  Cargar(g, 0) = <<>>
  <2>. DEFINE c == Cargar(g, 0)
  <2>1. ListaOK(g, 0, c, Len(g))
    BY CargarCorrecto
  <2>. HIDE DEF c
  <2>2. c \in Seq(Instruccion) /\ \A k \in DOMAIN c : c[k].pc + 1 \in 1 .. 0
    BY <1>1, <2>1 DEF ListaOK
  <2>3. DOMAIN c = {}
    <3>1. 1 .. 0 = {}
      OBVIOUS
    <3>. QED BY <2>2, <3>1
  <2>4. DOMAIN c = 1 .. Len(c) /\ Len(c) \in Nat
    BY <2>2, LenProperties
  <2>. QED
    BY <2>2, <2>3, <2>4, EmptySeq DEF c
<1>2. <<>> \in Seq(Lineas) /\ Len(<<>>) = 0
  BY EmptySeq
<1>. QED
  BY <1>1, <1>2

\* (See ConsultaOK.)  The list is the loader's, and the index is one of it or the
\* one past its end.
LEMMA ListaDeConsulta ==
  ASSUME ConsultaOK
  PROVE  /\ ListaOK(pedido.guion, pedido.start_pc, instrucciones, Len(pedido.guion))
         /\ instrucciones \in Seq(Instruccion)
         /\ DOMAIN instrucciones = 1 .. Len(instrucciones)
         /\ Len(instrucciones) \in Nat /\ Len(ejecutadas) \in Nat
         /\ \A k \in 1 .. Len(instrucciones) :
              instrucciones[k].linea \in Lineas /\ instrucciones[k].pc \in Nat
         /\ i \in 1 .. Len(instrucciones) + 1
<1>1. pedido.guion \in Seq(Lineas)
  BY GuionesAssumption, EmptySeq DEF ConsultaOK
<1>2. ListaOK(pedido.guion, pedido.start_pc, instrucciones, Len(pedido.guion))
  BY <1>1, CargarCorrecto DEF ConsultaOK
<1>3. instrucciones \in Seq(Instruccion)
  BY <1>2 DEF ListaOK
<1>4. /\ DOMAIN instrucciones = 1 .. Len(instrucciones)
      /\ Len(instrucciones) \in Nat /\ Len(ejecutadas) \in Nat
  BY <1>3, LenProperties DEF ConsultaOK
<1>5. \A k \in 1 .. Len(instrucciones) : instrucciones[k] \in Instruccion
  BY <1>3, ElementOfSeq
<1>6. \A k \in 1 .. Len(instrucciones) :
        instrucciones[k].linea \in Lineas /\ instrucciones[k].pc \in Nat
  BY <1>5 DEF Instruccion
<1>7. i \in 1 .. Len(instrucciones) + 1
  BY <1>4 DEF ConsultaOK
<1>. QED
  BY <1>2, <1>3, <1>4, <1>6, <1>7

\* The instruction about to be executed is the first one not yet answered.
LEMMA IndiceSiguiente ==
  ASSUME ConsultaOK, HayInstruccion
  PROVE  /\ i = Len(ejecutadas) + 1 /\ i \in 1 .. Len(instrucciones)
         /\ \A k \in 1 .. Len(ejecutadas) : instrucciones[k].linea.tipo # "END"
<1>1. /\ Len(instrucciones) \in Nat /\ Len(ejecutadas) \in Nat
      /\ i \in 1 .. Len(instrucciones) /\ i <= Len(instrucciones)
  BY ListaDeConsulta DEF HayInstruccion
<1>2. /\ ~(Len(ejecutadas) > 0 /\ instrucciones[Len(ejecutadas)].linea.tipo = "END")
      /\ i = Len(ejecutadas) + 1
  BY <1>1 DEF ConsultaOK
<1>3. \A k \in 1 .. Len(ejecutadas) - 1 : instrucciones[k].linea.tipo # "END"
  BY DEF ConsultaOK
<1>. QED
  BY <1>1, <1>2, <1>3

\* It is a line of the script that is not blank.
LEMMA LineaActual ==
  ASSUME ConsultaOK, HayInstruccion
  PROVE  Linea \in Lineas /\ Linea.tipo # "VACIA"
<1>1. i \in 1 .. Len(instrucciones)
  BY IndiceSiguiente
<1>2. instrucciones[i].linea \in Lineas /\ instrucciones[i].linea.tipo # "VACIA"
  BY <1>1, ListaDeConsulta DEF ListaOK
<1>. QED BY <1>2 DEF Linea

\* Answering an instruction, with any result, keeps the query's invariant.
LEMMA AvanzarConserva ==
  ASSUME ConsultaOK, HayInstruccion, NEW resultado, Avanzar(resultado)
  PROVE  ConsultaOK'
<1>. DEFINE e == ejecutadas
            n == Len(ejecutadas)
            pc == instrucciones[i].pc
<1>1. /\ i = n + 1 /\ i \in 1 .. Len(instrucciones) /\ n \in Nat
      /\ \A k \in 1 .. n : instrucciones[k].linea.tipo # "END"
      /\ pc \in Nat
  BY IndiceSiguiente, ListaDeConsulta
<1>2. /\ instrucciones' = instrucciones /\ pedido' = pedido /\ fase' = "fetch"
      /\ e' = Append(e, pc)
      /\ i' = IF instrucciones[i].linea.tipo = "END" THEN Len(instrucciones) + 1
              ELSE i + 1
  BY DEF Avanzar, Linea
<1>3. e \in Seq(Nat) /\ \A k \in 1 .. n : e[k] = instrucciones[k].pc
  BY DEF ConsultaOK
<1>4. /\ e' \in Seq(Nat) /\ Len(e') = n + 1 /\ e'[n + 1] = pc
      /\ \A k \in 1 .. n : e'[k] = e[k]
  BY <1>1, <1>2, <1>3, AppendProperties
<1>5. ASSUME NEW k \in 1 .. n + 1 PROVE e'[k] = instrucciones[k].pc
  <2>1. CASE k = n + 1
    BY <1>1, <1>4, <2>1
  <2>2. CASE k \in 1 .. n
    BY <1>3, <1>4, <2>2
  <2>. QED BY <1>1, <2>1, <2>2
<1>6. i' = IF Len(e') > 0 /\ instrucciones[Len(e')].linea.tipo = "END"
           THEN Len(instrucciones) + 1 ELSE Len(e') + 1
  BY <1>1, <1>2, <1>4
<1>7. Len(e') <= Len(instrucciones) /\ Len(e') - 1 = n
  BY <1>1, <1>4
<1>8. /\ pedido.guion \in Guiones \cup {<<>>} /\ pedido.start_pc \in Int
      /\ instrucciones = Cargar(pedido.guion, pedido.start_pc)
  BY DEF ConsultaOK
<1>. QED
  BY <1>1, <1>2, <1>4, <1>5, <1>6, <1>7, <1>8 DEF ConsultaOK

\* A query starts, and ends, with nothing answered.
LEMMA SinResponderOK ==
  ASSUME ejecutadas' = <<>>, i' = 1, fase' # "buscando",
         pedido'.guion \in Guiones \cup {<<>>}, pedido'.start_pc \in Int,
         instrucciones' = Cargar(pedido'.guion, pedido'.start_pc)
  PROVE  ConsultaOK'
<1>1. pedido'.guion \in Seq(Lineas)
  BY GuionesAssumption, EmptySeq
<1>2. instrucciones' \in Seq(Instruccion)
  BY <1>1, CargarCorrecto DEF ListaOK
<1>3. Len(instrucciones') \in Nat /\ ejecutadas' \in Seq(Nat) /\ Len(ejecutadas') = 0
  BY <1>2, LenProperties, EmptySeq
<1>. QED
  BY <1>3 DEF ConsultaOK

\* (See SinResponderOK.)
LEMMA SinConsultaOK ==
  ASSUME SinConsulta, fase' # "buscando"
  PROVE  ConsultaOK'
<1>1. pedido'.guion = <<>> /\ pedido'.start_pc = 0
  BY DEF SinConsulta, SinPedido
<1>. QED
  BY <1>1, CargarVacio, SinResponderOK DEF SinConsulta

\* A step that leaves the query alone and does not start a search.
LEMMA QuietaConsulta ==
  ASSUME ConsultaOK, UNCHANGED consulta, fase' # "buscando" \/ fase' = fase
  PROVE  ConsultaOK'
  BY DEF ConsultaOK, consulta, HayInstruccion, Linea

\* The invariant of the query in progress, for every script and start.
THEOREM ConsultaCorrecta == Spec => []ConsultaOK
<1>1. Init => ConsultaOK
  <2>. SUFFICES ASSUME Init PROVE ConsultaOK
    OBVIOUS
  <2>1. /\ pedido.guion = <<>> /\ pedido.start_pc = 0 /\ instrucciones = <<>>
        /\ i = 1 /\ fase = "esperando" /\ ejecutadas = <<>>
    BY DEF Init, SinPedido
  <2>2. <<>> \in Seq(Nat) /\ Len(<<>>) = 0
    BY EmptySeq
  <2>. QED
    BY <2>1, <2>2, CargarVacio DEF ConsultaOK
<1>2. ConsultaOK /\ [Next]_vars => ConsultaOK'
  <2>. SUFFICES ASSUME ConsultaOK, [Next]_vars PROVE ConsultaOK'
    OBVIOUS
  <2>1. ASSUME NEW g \in Guiones, NEW pc \in Inicios, RecibirConsulta(g, pc)
        PROVE  ConsultaOK'
    <3>1. pedido'.guion = g /\ pedido'.start_pc = pc /\ pc \in Int
      BY <2>1, IniciosAssumption DEF RecibirConsulta
    <3>. QED
      BY <2>1, <3>1, SinResponderOK DEF RecibirConsulta
  <2>2. CASE PerderMaster
    BY <2>2, QuietaConsulta DEF PerderMaster
  <2>3. ASSUME NEW ft \in FileTags, AgregarArchivo(ft) PROVE ConsultaOK'
    BY <2>3, QuietaConsulta DEF AgregarArchivo
  <2>4. CASE SinArchivo \/ Invalida \/ EliminarArchivo
    BY <2>4, AvanzarConserva DEF SinArchivo, Invalida, EliminarArchivo, Ejecutando
  <2>5. CASE Tomar
    BY <2>5 DEF Tomar, Ejecutando, ConsultaOK, consulta, HayInstruccion, Linea
  <2>6. CASE CrearArchivo \/ TruncarArchivo
    <3>1. HayInstruccion
      BY <2>6 DEF ConsultaOK, CrearArchivo, TruncarArchivo
    <3>. QED
      BY <2>6, <3>1, AvanzarConserva DEF CrearArchivo, TruncarArchivo
  <2>7. CASE UsarSinInicializar
    BY <2>7, QuietaConsulta DEF UsarSinInicializar
  <2>8. CASE TerminarConsulta
    BY <2>8, SinConsultaOK DEF TerminarConsulta
  <2>9. CASE UNCHANGED vars
    BY <2>9, QuietaConsulta DEF vars
  <2>. QED
    BY <2>1, <2>2, <2>3, <2>4, <2>5, <2>6, <2>7, <2>8, <2>9
    DEF Next, Recibir, Ejecutar
<1>. QED
  BY <1>1, <1>2, PTL DEF Spec

\* The instructions of a query run in the order of the file, each once, none
\* before start_pc, none after END, and all of them by the end, even after errors
\* (worker_query.c l. 182-193, worker_instrucciones.c l. 173-188).
THEOREM SiempreOrdenDelGuion == Spec => []OrdenDelGuion
<1>1. ConsultaOK => OrdenDelGuion
  <2>. SUFFICES ASSUME ConsultaOK PROVE OrdenDelGuion
    OBVIOUS
  <2>. DEFINE g == pedido.guion
              s == pedido.start_pc
              l == instrucciones
              n == Len(ejecutadas)
  <2>1. /\ ListaOK(g, s, l, Len(g)) /\ DOMAIN l = 1 .. Len(l)
        /\ Len(l) \in Nat /\ n \in Nat /\ n <= Len(l)
        /\ DOMAIN ejecutadas = 1 .. n
        /\ \A k \in 1 .. Len(l) : l[k].pc \in Nat
        /\ g \in Seq(Lineas) /\ DOMAIN g = 1 .. Len(g) /\ s \in Int
        /\ Len(g) \in Nat
    BY ListaDeConsulta, GuionesAssumption, EmptySeq, LenProperties DEF ConsultaOK
  <2>2. /\ \A k \in 1 .. n : ejecutadas[k] = l[k].pc
        /\ \A k \in 1 .. n - 1 : l[k].linea.tipo # "END"
        /\ i = IF n > 0 /\ l[n].linea.tipo = "END" THEN Len(l) + 1 ELSE n + 1
    BY DEF ConsultaOK
  <2>3. /\ \A k \in 1 .. Len(l) :
             /\ l[k].pc + 1 \in 1 .. Len(g) /\ l[k].pc >= s
             /\ l[k].linea = g[l[k].pc + 1] /\ l[k].linea.tipo # "VACIA"
        /\ \A j, k \in 1 .. Len(l) : j < k => l[j].pc < l[k].pc
        /\ \A m \in 1 .. Len(g) : m - 1 >= s /\ g[m].tipo # "VACIA" =>
             \E k \in 1 .. Len(l) : l[k].pc = m - 1
    BY <2>1 DEF ListaOK
  <2>4. \A j, k \in 1 .. Len(l) : l[j].pc < l[k].pc => j < k
    <3>. SUFFICES ASSUME NEW j \in 1 .. Len(l), NEW k \in 1 .. Len(l),
                         l[j].pc < l[k].pc
                  PROVE  j < k
      OBVIOUS
    <3>1. l[j].pc \in Nat /\ l[k].pc \in Nat
      BY <2>1
    <3>2. ~(k < j) /\ j # k
      BY <2>3, <3>1
    <3>. QED BY <2>1, <3>2
  <2>5. Debidas(pedido) =
          {m - 1 : m \in {m \in 1 .. Len(g) :
             /\ m - 1 >= s /\ g[m].tipo # "VACIA"
             /\ \A h \in 1 .. Len(g) : h < m /\ h - 1 >= s => g[h].tipo # "END"}}
    BY <2>1 DEF Debidas
  <2>. HIDE DEF g, s, l, n
  <2>6. ASSUME NEW k \in 1 .. n PROVE ejecutadas[k] \in Debidas(pedido)
    <3>. DEFINE m == l[k].pc + 1
    <3>1. k \in 1 .. Len(l) /\ l[k].pc \in Nat /\ ejecutadas[k] = m - 1
      BY <2>1, <2>2
    <3>2. m \in 1 .. Len(g) /\ m - 1 >= s /\ g[m].tipo # "VACIA"
      BY <2>3, <3>1
    <3>3. ASSUME NEW h \in 1 .. Len(g), h < m, h - 1 >= s, g[h].tipo = "END"
          PROVE  FALSE
      <4>1. PICK j \in 1 .. Len(l) : l[j].pc = h - 1
        BY <2>3, <3>3
      <4>2. j < k
        BY <2>4, <3>1, <3>3, <4>1
      <4>3. j \in 1 .. n - 1
        BY <2>1, <4>2
      <4>4. l[j].linea = g[h]
        BY <2>3, <4>1
      <4>. QED BY <2>2, <3>3, <4>3, <4>4
    <3>. HIDE DEF m
    <3>. QED BY <2>5, <3>1, <3>2, <3>3
  <2>7. ASSUME NEW pc \in Debidas(pedido)
        PROVE  \E k \in 1 .. Len(l) :
                 /\ l[k].pc = pc
                 /\ \A j \in 1 .. Len(l) : j < k => l[j].linea.tipo # "END"
    <3>1. PICK m \in 1 .. Len(g) :
            /\ pc = m - 1 /\ m - 1 >= s /\ g[m].tipo # "VACIA"
            /\ \A h \in 1 .. Len(g) : h < m /\ h - 1 >= s => g[h].tipo # "END"
      BY <2>5
    <3>2. PICK k \in 1 .. Len(l) : l[k].pc = pc
      BY <2>3, <3>1
    <3>3. ASSUME NEW j \in 1 .. Len(l), j < k
          PROVE  l[j].linea.tipo # "END"
      <4>. DEFINE h == l[j].pc + 1
      <4>1. /\ h \in 1 .. Len(g) /\ h - 1 >= s /\ l[j].linea = g[h]
            /\ l[j].pc < l[k].pc /\ l[j].pc \in Nat
        BY <2>1, <2>3, <3>3
      <4>2. h < m
        BY <3>1, <3>2, <4>1
      <4>. QED BY <3>1, <4>1, <4>2
    <3>. QED BY <3>2, <3>3
  <2>8. ASSUME NEW j \in DOMAIN ejecutadas, NEW k \in DOMAIN ejecutadas, j < k
        PROVE  ejecutadas[j] < ejecutadas[k]
    <3>1. j \in 1 .. Len(l) /\ k \in 1 .. Len(l)
      BY <2>1
    <3>2. ejecutadas[j] = l[j].pc /\ ejecutadas[k] = l[k].pc
      BY <2>1, <2>2
    <3>. QED BY <2>3, <2>8, <3>1, <3>2
  <2>9. ToSet(ejecutadas) \subseteq Debidas(pedido)
    BY <2>1, <2>6 DEF ToSet
  <2>10. ASSUME NEW pc \in Debidas(pedido) \ ToSet(ejecutadas),
                NEW k \in DOMAIN ejecutadas
         PROVE  ejecutadas[k] < pc
    <3>1. PICK j \in 1 .. Len(l) : l[j].pc = pc
      BY <2>7
    <3>2. j \notin 1 .. n
      BY <2>1, <2>2, <2>10, <3>1 DEF ToSet
    <3>3. k < j /\ k \in 1 .. Len(l)
      BY <2>1, <3>2
    <3>. QED BY <2>1, <2>2, <2>3, <3>1, <3>3
  <2>11. ASSUME ~HayInstruccion PROVE ToSet(ejecutadas) = Debidas(pedido)
    <3>. SUFFICES ASSUME NEW pc \in Debidas(pedido) PROVE pc \in ToSet(ejecutadas)
      BY <2>9
    <3>1. PICK k \in 1 .. Len(l) :
                 /\ l[k].pc = pc
                 /\ \A j \in 1 .. Len(l) : j < k => l[j].linea.tipo # "END"
      BY <2>7
    <3>2. i > Len(l)
      BY <2>1, <2>2, <2>11 DEF HayInstruccion, l
    <3>3. k \in 1 .. n
      BY <2>1, <2>2, <3>1, <3>2
    <3>. QED BY <2>1, <2>2, <3>1, <3>3 DEF ToSet
  <2>. QED
    BY <2>8, <2>9, <2>10, <2>11 DEF OrdenDelGuion
<1>. QED
  BY <1>1, ConsultaCorrecta, PTL

\* An archive just created, and one with another size, are archives in progress.
LEMMA TipoArchivo ==
  /\ \A ft \in FileTags : /\ ArchivoNuevo(ft) \in Archivo
                          /\ ArchivoNuevo(ft).state = "WORK_IN_PROGRESS"
  /\ \A a \in Archivo, n \in Nat : /\ [a EXCEPT !.size = n] \in Archivo
                                   /\ [a EXCEPT !.size = n].state = a.state
  BY DEF ArchivoNuevo, Archivo

\* An archive added at the end is in progress, like the others.
LEMMA AgregarEnProgreso ==
  ASSUME TablaEnProgreso, NEW ft \in FileTags,
         archivos' = Append(archivos, ArchivoNuevo(ft))
  PROVE  TablaEnProgreso'
<1>. DEFINE a == ArchivoNuevo(ft)
<1>1. a \in Archivo /\ a.state = "WORK_IN_PROGRESS"
  BY TipoArchivo
<1>. HIDE DEF a
<1>2. /\ archivos' \in Seq(Archivo) /\ Len(archivos') = Len(archivos) + 1
      /\ archivos'[Len(archivos) + 1] = a
      /\ \A k \in 1 .. Len(archivos) : archivos'[k] = archivos[k]
  BY <1>1, AppendProperties DEF TablaEnProgreso, a
<1>3. /\ DOMAIN archivos' = 1 .. Len(archivos) + 1
      /\ DOMAIN archivos = 1 .. Len(archivos) /\ Len(archivos) \in Nat
  BY <1>2, LenProperties DEF TablaEnProgreso
<1>. QED
  BY <1>1, <1>2, <1>3 DEF TablaEnProgreso

\* Taking one out leaves the others as they were.
LEMMA QuitarEnProgreso ==
  ASSUME TablaEnProgreso, NEW k \in DOMAIN archivos,
         archivos' = RemoveAt(archivos, k)
  PROVE  TablaEnProgreso'
<1>1. k \in 1 .. Len(archivos) /\ DOMAIN archivos = 1 .. Len(archivos)
      /\ Len(archivos) \in Nat
  BY LenProperties DEF TablaEnProgreso
<1>2. /\ archivos' \in Seq(Archivo) /\ Len(archivos') = Len(archivos) - 1
      /\ \A j \in 1 .. Len(archivos) - 1 :
           archivos'[j] = IF j < k THEN archivos[j] ELSE archivos[j + 1]
  BY <1>1, QuitarPosicion DEF TablaEnProgreso
<1>3. DOMAIN archivos' = 1 .. Len(archivos) - 1
  BY <1>2, LenProperties
<1>4. ASSUME NEW j \in DOMAIN archivos'
      PROVE  \E h \in DOMAIN archivos : archivos'[j] = archivos[h]
  <2>1. j \in DOMAIN archivos /\ j + 1 \in DOMAIN archivos
    BY <1>1, <1>3
  <2>. QED BY <1>2, <1>3, <2>1
<1>. QED
  BY <1>2, <1>4 DEF TablaEnProgreso

\* A new size changes no state.
LEMMA CambiarEnProgreso ==
  ASSUME TablaEnProgreso, NEW k \in DOMAIN archivos, NEW n \in Nat,
         archivos' = [archivos EXCEPT ![k].size = n]
  PROVE  TablaEnProgreso'
<1>. DEFINE a == [archivos[k] EXCEPT !.size = n]
<1>1. archivos[k] \in Archivo /\ DOMAIN archivos = 1 .. Len(archivos)
  BY ElementOfSeq, LenProperties DEF TablaEnProgreso
<1>2. a \in Archivo /\ a.state = archivos[k].state
  BY <1>1, TipoArchivo
<1>3. archivos' = [archivos EXCEPT ![k] = a]
  OBVIOUS
<1>. HIDE DEF a
<1>4. archivos' \in Seq(Archivo)
  BY <1>1, <1>2, <1>3, ExceptSeq DEF TablaEnProgreso
<1>5. DOMAIN archivos' = DOMAIN archivos
      /\ \A j \in DOMAIN archivos : archivos'[j] = IF j = k THEN a ELSE archivos[j]
  BY <1>3
<1>. QED
  BY <1>2, <1>4, <1>5 DEF TablaEnProgreso

\* Every entry is an archive in progress: nothing in the Worker sets the state
\* FILE_STATE_COMMITED, so the refusal of worker_query.c l. 246-249 is never met.
THEOREM SiempreEnProgreso == Spec => []TablaEnProgreso
<1>1. Init => TablaEnProgreso
  BY EmptySeq DEF Init, TablaEnProgreso
<1>2. ConsultaOK /\ TablaEnProgreso /\ [Next]_vars => TablaEnProgreso'
  <2>. SUFFICES ASSUME ConsultaOK, TablaEnProgreso, [Next]_vars
                PROVE  TablaEnProgreso'
    OBVIOUS
  <2>0. ASSUME archivos' = archivos PROVE TablaEnProgreso'
    BY <2>0 DEF TablaEnProgreso
  <2>1. CASE CrearArchivo
    <3>1. Linea \in Lineas /\ Linea.tipo = "CREATE"
      <4>1. fase = "buscando" /\ Linea.tipo = "CREATE"
        BY <2>1 DEF CrearArchivo
      <4>. QED BY <4>1, LineaActual DEF ConsultaOK
    <3>2. Linea.ft \in FileTags
      BY <3>1, CamposDeLinea
    <3>. QED
      BY <2>0, <2>1, <3>2, AgregarEnProgreso DEF CrearArchivo
  <2>2. CASE TruncarArchivo
    <3>1. Linea \in Lineas /\ Linea.tipo = "TRUNCATE"
      <4>1. fase = "buscando" /\ Linea.tipo = "TRUNCATE"
        BY <2>2 DEF TruncarArchivo
      <4>. QED BY <4>1, LineaActual DEF ConsultaOK
    <3>2. Linea.size \in Nat
      BY <3>1, CamposDeLinea, TamaniosAssumption
    <3>3. ASSUME NEW k \in Buscar(Linea.ft),
                 archivos' = [archivos EXCEPT ![k].size = Linea.size]
          PROVE  TablaEnProgreso'
      <4>1. k \in DOMAIN archivos
        BY DEF Buscar
      <4>. QED BY <3>2, <3>3, <4>1, CambiarEnProgreso
    <3>. QED
      BY <2>0, <2>2, <3>3 DEF TruncarArchivo
  <2>3. CASE EliminarArchivo
    <3>1. ASSUME NEW k \in Buscar(Linea.ft), archivos' = RemoveAt(archivos, k)
          PROVE  TablaEnProgreso'
      <4>1. k \in DOMAIN archivos
        BY DEF Buscar
      <4>. QED BY <3>1, <4>1, QuitarEnProgreso
    <3>. QED
      BY <2>0, <2>3, <3>1 DEF EliminarArchivo
  <2>4. ASSUME NEW ft \in FileTags, AgregarArchivo(ft) PROVE TablaEnProgreso'
    BY <2>4, AgregarEnProgreso DEF AgregarArchivo
  <2>5. ASSUME \/ \E g \in Guiones, pc \in Inicios : RecibirConsulta(g, pc)
               \/ PerderMaster \/ SinArchivo \/ Invalida \/ Tomar
               \/ UsarSinInicializar \/ TerminarConsulta \/ UNCHANGED vars
        PROVE  archivos' = archivos
    BY <2>5 DEF RecibirConsulta, PerderMaster, SinArchivo, Invalida, Tomar,
                UsarSinInicializar, TerminarConsulta, vars
  <2>. QED
    BY <2>0, <2>1, <2>2, <2>3, <2>4, <2>5 DEF Next, Recibir, Ejecutar
<1>. QED
  BY <1>1, <1>2, ConsultaCorrecta, PTL DEF Spec

\* (See ControlOK.)
LEMMA ControlCorrecto == Spec => []ControlOK
<1>1. Init => ControlOK
  BY DEF Init, ControlOK
<1>2. ControlOK /\ [Next]_vars => ControlOK'
  BY DEF ControlOK, Next, Recibir, Ejecutar, RecibirConsulta, PerderMaster,
     AgregarArchivo, SinArchivo, Invalida, Tomar, CrearArchivo, TruncarArchivo,
     EliminarArchivo, UsarSinInicializar, TerminarConsulta, Avanzar, arranque, vars
<1>. QED
  BY <1>1, <1>2, PTL DEF Spec

\* Every variable keeps its type, whatever the scripts.
THEOREM TipoCorrecto == Spec => []TypeOK
<1>1. ConsultaOK /\ TablaEnProgreso /\ ControlOK => TypeOK
  <2>. SUFFICES ASSUME ConsultaOK, TablaEnProgreso, ControlOK PROVE TypeOK
    OBVIOUS
  <2>1. \A k \in DOMAIN instrucciones :
          instrucciones[k].linea \in Lineas /\ instrucciones[k].pc \in Nat
    BY ListaDeConsulta
  <2>2. i \in 1 .. Len(instrucciones) + 1
    BY ListaDeConsulta
  <2>3. /\ pedido.guion \in Guiones \cup {<<>>} /\ pedido.start_pc \in Int
        /\ ejecutadas \in Seq(Nat)
    BY DEF ConsultaOK
  <2>. QED
    BY <2>1, <2>2, <2>3 DEF TypeOK, ControlOK, TablaEnProgreso
<1>. QED
  BY <1>1, ConsultaCorrecta, SiempreEnProgreso, ControlCorrecto, PTL

-----------------------------------------------------------------------------
(* The list of archives as a map *)

\* The map a list shows: the size of the first entry of each File:Tag.
Nombres(lista) == {lista[k].ft : k \in DOMAIN lista}
Primeros(lista, ft) ==
  {k \in DOMAIN lista : /\ lista[k].ft = ft
                        /\ \A j \in 1 .. k - 1 : lista[j].ft # ft}
Vista(lista) ==
  [ft \in Nombres(lista) |-> lista[CHOOSE k \in Primeros(lista, ft) : TRUE].size]

\* (See Vista.)
LEMMA VistaEsTabla ==
  /\ TablaVista = Vista(archivos) /\ TablaVista' = Vista(archivos')
  /\ \A ft : Buscar(ft) = Primeros(archivos, ft)
  BY DEF TablaVista, Vista, Nombres, Primeros, Buscar

\* Without repeated names every entry is the first of its name, and the map shows
\* exactly the entries.
LEMMA VistaDistinta ==
  ASSUME NEW lista \in Seq(Archivo), Distintos(lista)
  PROVE  /\ \A k \in DOMAIN lista : Primeros(lista, lista[k].ft) = {k}
         /\ DOMAIN Vista(lista) = Nombres(lista)
         /\ Vista(lista) = [ft \in Nombres(lista) |-> Vista(lista)[ft]]
         /\ \A k \in DOMAIN lista : Vista(lista)[lista[k].ft] = lista[k].size
<1>1. DOMAIN lista = 1 .. Len(lista) /\ Len(lista) \in Nat
  BY LenProperties
<1>2. ASSUME NEW k \in DOMAIN lista
      PROVE  Primeros(lista, lista[k].ft) = {k}
  <2>1. \A j \in 1 .. k - 1 : j \in DOMAIN lista /\ j # k
    BY <1>1
  <2>2. \A j \in DOMAIN lista : lista[j].ft = lista[k].ft => j = k
    BY DEF Distintos
  <2>3. k \in Primeros(lista, lista[k].ft)
    BY <2>1, <2>2 DEF Primeros
  <2>4. \A j \in Primeros(lista, lista[k].ft) : j = k
    BY <2>2 DEF Primeros
  <2>. QED BY <2>3, <2>4
<1>3. ASSUME NEW k \in DOMAIN lista
      PROVE  Vista(lista)[lista[k].ft] = lista[k].size
  <2>1. lista[k].ft \in Nombres(lista)
    BY DEF Nombres
  <2>2. (CHOOSE j \in Primeros(lista, lista[k].ft) : TRUE) = k
    BY <1>2
  <2>. QED BY <2>1, <2>2 DEF Vista
<1>4. /\ DOMAIN Vista(lista) = Nombres(lista)
      /\ Vista(lista) = [ft \in Nombres(lista) |-> Vista(lista)[ft]]
  BY DEF Vista
<1>. QED
  BY <1>2, <1>3, <1>4

\* A map is the view of a list if it has its names and shows its sizes.
LEMMA EsVista ==
  ASSUME NEW lista \in Seq(Archivo), Distintos(lista), NEW C,
         C = [ft \in Nombres(lista) |-> C[ft]],
         \A k \in DOMAIN lista : C[lista[k].ft] = lista[k].size
  PROVE  Vista(lista) = C
<1>1. /\ Vista(lista) = [ft \in Nombres(lista) |-> Vista(lista)[ft]]
      /\ \A k \in DOMAIN lista : Vista(lista)[lista[k].ft] = lista[k].size
  BY VistaDistinta
<1>2. \A ft \in Nombres(lista) : Vista(lista)[ft] = C[ft]
  BY <1>1 DEF Nombres
<1>3. [ft \in Nombres(lista) |-> Vista(lista)[ft]] = [ft \in Nombres(lista) |-> C[ft]]
  BY <1>2
<1>. QED
  BY <1>1, <1>3

\* worker_archivo_buscar finds an entry exactly when the map has the name.
LEMMA BuscarEsExiste ==
  ASSUME TablaOK(archivos), TablaEnProgreso, NEW ft
  PROVE  /\ Tabla!Existe(ft) <=> Buscar(ft) # {}
         /\ Buscar(ft) = {} => ft \notin Nombres(archivos)
         /\ DOMAIN TablaVista = Nombres(archivos)
<1>1. archivos \in Seq(Archivo) /\ Distintos(archivos)
  BY DEF TablaOK, TablaEnProgreso
<1>2. DOMAIN TablaVista = Nombres(archivos)
  BY <1>1, VistaEsTabla, VistaDistinta
<1>3. ASSUME ft \in Nombres(archivos) PROVE Buscar(ft) # {}
  <2>1. PICK k \in DOMAIN archivos : archivos[k].ft = ft
    BY <1>3 DEF Nombres
  <2>2. Primeros(archivos, ft) = {k}
    BY <1>1, <2>1, VistaDistinta
  <2>. QED BY <2>2, VistaEsTabla
<1>4. ASSUME Buscar(ft) # {} PROVE ft \in Nombres(archivos)
  BY <1>4 DEF Buscar, Nombres
<1>. QED
  BY <1>2, <1>3, <1>4 DEF Tabla!Existe

\* Adding an entry under a new name is the abstract creation.
LEMMA VistaAgregar ==
  ASSUME TablaOK(archivos), TablaEnProgreso, TablaOK(archivos'), TablaEnProgreso',
         NEW ft, Buscar(ft) = {}, archivos' = Append(archivos, ArchivoNuevo(ft))
  PROVE  TablaVista' = Tabla!Crear(ft)
<1>. DEFINE a == ArchivoNuevo(ft)
            V == Vista(archivos)
            N == Nombres(archivos)
            C == [g \in N \cup {ft} |-> IF g = ft THEN 0 ELSE V[g]]
<1>1. /\ archivos \in Seq(Archivo) /\ Distintos(archivos)
      /\ archivos' \in Seq(Archivo) /\ Distintos(archivos')
  BY DEF TablaOK, TablaEnProgreso
<1>2. ft \notin N /\ DOMAIN V = N
  BY BuscarEsExiste, VistaEsTabla
<1>3. a.ft = ft /\ a.size = 0
  BY DEF ArchivoNuevo
<1>. HIDE DEF a
<1>4. /\ DOMAIN archivos = 1 .. Len(archivos) /\ Len(archivos) \in Nat
      /\ DOMAIN archivos' = 1 .. Len(archivos) + 1
      /\ archivos'[Len(archivos) + 1] = a
      /\ \A k \in 1 .. Len(archivos) : archivos'[k] = archivos[k]
  <2>1. archivos' = Append(archivos, a)
    BY DEF a
  <2>2. archivos \in Seq(Archivo \cup {a})
    BY <1>1, SeqMonotonic
  <2>3. /\ Len(archivos') = Len(archivos) + 1
        /\ archivos'[Len(archivos) + 1] = a
        /\ \A k \in 1 .. Len(archivos) : archivos'[k] = archivos[k]
    BY <2>1, <2>2, AppendProperties
  <2>. QED BY <1>1, <2>3, LenProperties
<1>5. Nombres(archivos') = N \cup {ft}
  BY <1>3, <1>4 DEF Nombres
<1>6. \A k \in DOMAIN archivos : archivos[k].ft \in N /\ V[archivos[k].ft] = archivos[k].size
  BY <1>1, VistaDistinta DEF Nombres
<1>7. \A k \in DOMAIN archivos' : C[archivos'[k].ft] = archivos'[k].size
  BY <1>2, <1>3, <1>4, <1>6
<1>8. C = [g \in Nombres(archivos') |-> C[g]]
  BY <1>5
<1>9. Tabla!Crear(ft) = C
  BY <1>2, VistaEsTabla DEF Tabla!Crear
<1>. HIDE DEF C, V, N
<1>10. Vista(archivos') = C
  BY <1>1, <1>7, <1>8, EsVista
<1>. QED
  BY <1>9, <1>10, VistaEsTabla

\* Taking out the entry found is the abstract deletion.
LEMMA VistaQuitar ==
  ASSUME TablaOK(archivos), TablaEnProgreso, TablaOK(archivos'), TablaEnProgreso',
         NEW ft, NEW k \in Buscar(ft), archivos' = RemoveAt(archivos, k)
  PROVE  TablaVista' = Tabla!Borrar(ft)
<1>. DEFINE V == Vista(archivos)
            N == Nombres(archivos)
            C == [g \in N \ {ft} |-> V[g]]
<1>1. /\ archivos \in Seq(Archivo) /\ Distintos(archivos)
      /\ archivos' \in Seq(Archivo) /\ Distintos(archivos')
  BY DEF TablaOK, TablaEnProgreso
<1>2. DOMAIN V = N /\ k \in DOMAIN archivos /\ archivos[k].ft = ft
  BY BuscarEsExiste, VistaEsTabla DEF Buscar
<1>3. /\ DOMAIN archivos = 1 .. Len(archivos) /\ Len(archivos) \in Nat
      /\ k \in 1 .. Len(archivos)
  BY <1>1, <1>2, LenProperties
<1>4. /\ Len(archivos') = Len(archivos) - 1
      /\ \A j \in 1 .. Len(archivos) - 1 :
           archivos'[j] = IF j < k THEN archivos[j] ELSE archivos[j + 1]
  BY <1>1, <1>3, QuitarPosicion
<1>5. DOMAIN archivos' = 1 .. Len(archivos) - 1
  BY <1>1, <1>4, LenProperties
<1>. DEFINE De(j) == IF j < k THEN j ELSE j + 1
<1>6. \A j \in DOMAIN archivos' :
        De(j) \in DOMAIN archivos /\ De(j) # k /\ archivos'[j] = archivos[De(j)]
  BY <1>3, <1>4, <1>5
<1>7. ASSUME NEW j \in DOMAIN archivos, j # k
      PROVE  \E h \in DOMAIN archivos' : archivos'[h] = archivos[j]
  <2>1. CASE j < k
    <3>1. j \in DOMAIN archivos' /\ archivos'[j] = archivos[j]
      BY <1>3, <1>4, <1>5, <2>1
    <3>. QED BY <3>1
  <2>2. CASE j > k
    <3>1. j - 1 \in DOMAIN archivos' /\ archivos'[j - 1] = archivos[j]
      BY <1>3, <1>4, <1>5, <2>2
    <3>. QED BY <3>1
  <2>. QED BY <1>3, <1>7, <2>1, <2>2
<1>. HIDE DEF De
<1>8. \A j \in DOMAIN archivos : archivos[j].ft = ft <=> j = k
  BY <1>1, <1>2 DEF Distintos
<1>9. Nombres(archivos') = N \ {ft}
  BY <1>6, <1>7, <1>8 DEF Nombres
<1>10. \A j \in DOMAIN archivos : archivos[j].ft \in N /\ V[archivos[j].ft] = archivos[j].size
  BY <1>1, VistaDistinta DEF Nombres
<1>11. \A j \in DOMAIN archivos' : C[archivos'[j].ft] = archivos'[j].size
  BY <1>6, <1>8, <1>10
<1>12. C = [g \in Nombres(archivos') |-> C[g]]
  BY <1>9
<1>13. Tabla!Borrar(ft) = C
  BY <1>2, VistaEsTabla DEF Tabla!Borrar
<1>. HIDE DEF C, V, N
<1>14. Vista(archivos') = C
  BY <1>1, <1>11, <1>12, EsVista
<1>. QED
  BY <1>13, <1>14, VistaEsTabla

\* A new size for the entry found is the abstract truncation.
LEMMA VistaCambiar ==
  ASSUME TablaOK(archivos), TablaEnProgreso, TablaOK(archivos'), TablaEnProgreso',
         NEW ft, NEW k \in Buscar(ft), NEW n,
         archivos' = [archivos EXCEPT ![k].size = n]
  PROVE  TablaVista' = Tabla!Truncar(ft, n)
<1>. DEFINE V == Vista(archivos)
            N == Nombres(archivos)
            C == [V EXCEPT ![ft] = n]
            a == [archivos[k] EXCEPT !.size = n]
<1>1. /\ archivos \in Seq(Archivo) /\ Distintos(archivos)
      /\ archivos' \in Seq(Archivo) /\ Distintos(archivos')
  BY DEF TablaOK, TablaEnProgreso
<1>2. DOMAIN V = N /\ k \in DOMAIN archivos /\ archivos[k].ft = ft /\ ft \in N
  BY BuscarEsExiste, VistaEsTabla DEF Buscar, Nombres
<1>3. archivos[k] \in Archivo
  BY <1>1, <1>2, ElementOfSeq, LenProperties
<1>4. a.ft = ft /\ a.size = n
  BY <1>2, <1>3 DEF Archivo
<1>5. archivos' = [archivos EXCEPT ![k] = a]
  OBVIOUS
<1>. HIDE DEF a
<1>6. /\ DOMAIN archivos' = DOMAIN archivos /\ archivos'[k] = a
      /\ \A j \in DOMAIN archivos : j # k => archivos'[j] = archivos[j]
  BY <1>2, <1>5
<1>7. \A j \in DOMAIN archivos : archivos[j].ft = ft <=> j = k
  BY <1>1, <1>2 DEF Distintos
<1>8. Nombres(archivos') = N
  BY <1>2, <1>4, <1>6 DEF Nombres
<1>9. \A j \in DOMAIN archivos : archivos[j].ft \in N /\ V[archivos[j].ft] = archivos[j].size
  BY <1>1, VistaDistinta DEF Nombres
<1>10. \A j \in DOMAIN archivos' : C[archivos'[j].ft] = archivos'[j].size
  BY <1>2, <1>4, <1>6, <1>7, <1>9
<1>11. C = [g \in Nombres(archivos') |-> C[g]]
  BY <1>2, <1>8
<1>12. Tabla!Truncar(ft, n) = C
  BY VistaEsTabla DEF Tabla!Truncar
<1>. HIDE DEF C, V, N
<1>13. Vista(archivos') = C
  BY <1>1, <1>10, <1>11, EsVista
<1>. QED
  BY <1>12, <1>13, VistaEsTabla

-----------------------------------------------------------------------------
(* The file table implements the map *)

\* The table the refinement starts from: its three invariants together.
TablaBien == TablaOK(archivos) /\ TablaEnProgreso

\* Answering an instruction with 0 is the abstract success, and with -1, the
\* table untouched, the abstract failure.
LEMMA AvanzarResponde ==
  ASSUME ConsultaOK, HayInstruccion, NEW exito, NEW nueva,
         \/ exito /\ TablaVista' = nueva /\ Avanzar(0)
         \/ ~exito /\ archivos' = archivos /\ Avanzar(-1)
  PROVE  Tabla!Responder(exito, nueva)
<1>1. ejecutadas \in Seq(Nat) /\ instrucciones[i].pc \in Nat
  <2>1. i \in 1 .. Len(instrucciones)
    BY IndiceSiguiente
  <2>. QED BY <2>1, ListaDeConsulta DEF ConsultaOK
<1>2. ejecutadas' = Append(ejecutadas, instrucciones[i].pc)
  BY DEF Avanzar
<1>3. Len(ejecutadas') = Len(ejecutadas) + 1
  BY <1>1, <1>2, AppendProperties
<1>4. archivos' = archivos => TablaVista' = TablaVista
  BY VistaEsTabla
<1>5. (Avanzar(0) => rc' = 0) /\ (Avanzar(-1) => rc' = -1)
  BY DEF Avanzar
<1>. QED
  BY <1>3, <1>4, <1>5 DEF Tabla!Responder

\* While the thread executes, the abstract instruction is the line it is at.
LEMMA OrdenEsLinea ==
  ASSUME ConsultaOK, HayInstruccion, fase \in {"fetch", "buscando"}
  PROVE  Orden = Linea /\ Linea \in Lineas
  BY LineaActual DEF Orden

\* CREATE, with the second lock granted.
LEMMA CrearRefina ==
  ASSUME ConsultaOK, TablaBien, TablaBien', CrearArchivo
  PROVE  Tabla!Next
<1>. DEFINE ft == Linea.ft
<1>1. HayInstruccion /\ fase = "buscando" /\ Linea.tipo = "CREATE"
  BY DEF ConsultaOK, CrearArchivo
<1>2. ft \in FileTags /\ Orden = [tipo |-> "CREATE", ft |-> ft]
  BY <1>1, OrdenEsLinea, CamposDeLinea
<1>3. Tabla!Existe(ft) <=> Buscar(ft) # {}
  BY BuscarEsExiste DEF TablaBien
<1>4. Tabla!Responder(~Tabla!Existe(ft), Tabla!Crear(ft))
  <2>1. CASE Buscar(ft) # {}
    <3>1. archivos' = archivos /\ Avanzar(-1)
      BY <2>1 DEF CrearArchivo
    <3>. QED BY <1>1, <1>3, <2>1, <3>1, AvanzarResponde
  <2>2. CASE Buscar(ft) = {}
    <3>1. archivos' = Append(archivos, ArchivoNuevo(ft)) /\ Avanzar(0)
      BY <2>2 DEF CrearArchivo
    <3>2. TablaVista' = Tabla!Crear(ft)
      BY <2>2, <3>1, VistaAgregar DEF TablaBien
    <3>. QED BY <1>1, <1>3, <2>2, <3>1, <3>2, AvanzarResponde
  <2>. QED BY <2>1, <2>2
<1>. QED
  BY <1>2, <1>4 DEF Tabla!Next, Tabla!Instruccion

\* TRUNCATE, with the second lock granted.
LEMMA TruncarRefina ==
  ASSUME ConsultaOK, TablaBien, TablaBien', TruncarArchivo
  PROVE  Tabla!Next
<1>. DEFINE ft == Linea.ft
            n == Linea.size
<1>1. HayInstruccion /\ fase = "buscando" /\ Linea.tipo = "TRUNCATE"
  BY DEF ConsultaOK, TruncarArchivo
<1>2. /\ ft \in FileTags /\ n \in Tamanios
      /\ Orden = [tipo |-> "TRUNCATE", ft |-> ft, size |-> n]
  BY <1>1, OrdenEsLinea, CamposDeLinea
<1>3. Tabla!Existe(ft) <=> Buscar(ft) # {}
  BY BuscarEsExiste DEF TablaBien
<1>4. \A k \in Buscar(ft) : PuedeTruncar(archivos[k], n) <=> n % BlockSize = 0
  <2>1. \A k \in Buscar(ft) : archivos[k].state = "WORK_IN_PROGRESS"
    BY DEF Buscar, TablaBien, TablaEnProgreso
  <2>. QED BY <2>1 DEF PuedeTruncar
<1>5. Tabla!Responder(Tabla!Existe(ft) /\ n % BlockSize = 0, Tabla!Truncar(ft, n))
  <2>1. ASSUME NEW k \in Buscar(ft), PuedeTruncar(archivos[k], n),
               archivos' = [archivos EXCEPT ![k].size = n], Avanzar(0)
        PROVE  Tabla!Responder(Tabla!Existe(ft) /\ n % BlockSize = 0,
                               Tabla!Truncar(ft, n))
    <3>1. TablaVista' = Tabla!Truncar(ft, n)
      BY <2>1, VistaCambiar DEF TablaBien
    <3>2. Tabla!Existe(ft) /\ n % BlockSize = 0
      BY <1>3, <1>4, <2>1
    <3>. QED BY <1>1, <2>1, <3>1, <3>2, AvanzarResponde
  <2>2. ASSUME \A k \in Buscar(ft) : ~PuedeTruncar(archivos[k], n),
               archivos' = archivos, Avanzar(-1)
        PROVE  Tabla!Responder(Tabla!Existe(ft) /\ n % BlockSize = 0,
                               Tabla!Truncar(ft, n))
    <3>1. ~(Tabla!Existe(ft) /\ n % BlockSize = 0)
      BY <1>3, <1>4, <2>2
    <3>. QED BY <1>1, <2>2, <3>1, AvanzarResponde
  <2>. QED BY <2>1, <2>2 DEF TruncarArchivo
<1>. QED
  BY <1>2, <1>5 DEF Tabla!Next, Tabla!Instruccion

\* DELETE.
LEMMA EliminarRefina ==
  ASSUME ConsultaOK, TablaBien, TablaBien', EliminarArchivo
  PROVE  Tabla!Next
<1>. DEFINE ft == Linea.ft
<1>1. HayInstruccion /\ fase = "fetch" /\ Linea.tipo = "DELETE"
  BY DEF EliminarArchivo, Ejecutando
<1>2. ft \in FileTags /\ Orden = [tipo |-> "DELETE", ft |-> ft]
  BY <1>1, OrdenEsLinea, CamposDeLinea
<1>3. Tabla!Existe(ft) <=> Buscar(ft) # {}
  BY BuscarEsExiste DEF TablaBien
<1>4. Tabla!Responder(Tabla!Existe(ft), Tabla!Borrar(ft))
  <2>1. ASSUME NEW k \in Buscar(ft), archivos' = RemoveAt(archivos, k), Avanzar(0)
        PROVE  Tabla!Responder(Tabla!Existe(ft), Tabla!Borrar(ft))
    <3>1. TablaVista' = Tabla!Borrar(ft)
      BY <2>1, VistaQuitar DEF TablaBien
    <3>. QED BY <1>1, <1>3, <2>1, <3>1, AvanzarResponde
  <2>2. ASSUME Buscar(ft) = {}, archivos' = archivos, Avanzar(-1)
        PROVE  Tabla!Responder(Tabla!Existe(ft), Tabla!Borrar(ft))
    BY <1>1, <1>3, <2>2, AvanzarResponde
  <2>. QED BY <2>1, <2>2 DEF EliminarArchivo
<1>. QED
  BY <1>2, <1>4 DEF Tabla!Next, Tabla!Instruccion

\* The instructions that touch no file.
LEMMA SinArchivoRefina ==
  ASSUME ConsultaOK, SinArchivo \/ Invalida
  PROVE  Tabla!Next
<1>1. CASE SinArchivo
  <2>1. /\ HayInstruccion /\ fase = "fetch" /\ Linea.tipo \in {"SIMULADA", "END"}
        /\ archivos' = archivos /\ Avanzar(0)
    BY <1>1 DEF SinArchivo, Ejecutando
  <2>2. Orden \in [tipo : {"SIMULADA", "END"}]
    BY <2>1, OrdenEsLinea, CamposDeLinea
  <2>3. TablaVista' = TablaVista
    BY <2>1, VistaEsTabla
  <2>4. Tabla!Responder(TRUE, TablaVista)
    BY <2>1, <2>3, AvanzarResponde
  <2>. QED BY <2>2, <2>4 DEF Tabla!Next, Tabla!Instruccion
<1>2. CASE Invalida
  <2>1. /\ HayInstruccion /\ fase = "fetch" /\ Linea.tipo = "INVALID"
        /\ archivos' = archivos /\ Avanzar(-1)
    BY <1>2 DEF Invalida, Ejecutando
  <2>2. Orden = [tipo |-> "INVALID"]
    BY <2>1, OrdenEsLinea, CamposDeLinea
  <2>3. Tabla!Responder(FALSE, TablaVista)
    BY <2>1, AvanzarResponde
  <2>. QED BY <2>2, <2>3 DEF Tabla!Next, Tabla!Instruccion
<1>. QED BY <1>1, <1>2

\* An archive added by worker_archivo_agregar, between queries.
LEMMA AgregarRefina ==
  ASSUME TablaBien, TablaBien', NEW ft \in FileTags, AgregarArchivo(ft)
  PROVE  Tabla!Next
<1>1. Orden = [tipo |-> "NINGUNA"]
  BY DEF AgregarArchivo, Orden
<1>2. ~Tabla!Existe(ft)
  BY BuscarEsExiste DEF TablaBien, AgregarArchivo
<1>3. TablaVista' = Tabla!Crear(ft)
  BY VistaAgregar DEF TablaBien, AgregarArchivo
<1>4. Len(ejecutadas)' = Len(ejecutadas) /\ rc' = rc
  BY DEF AgregarArchivo, consulta
<1>. QED
  BY <1>1, <1>2, <1>3, <1>4 DEF Tabla!Next, Tabla!EntreConsultas

\* Receiving a query and ending it start the count again.
LEMMA EntreConsultasRefina ==
  ASSUME (\E g \in Guiones, pc \in Inicios : RecibirConsulta(g, pc))
           \/ TerminarConsulta
  PROVE  Tabla!Next
<1>1. archivos' = archivos /\ rc' = rc /\ ejecutadas' = <<>>
  BY DEF RecibirConsulta, TerminarConsulta, SinConsulta
<1>2. TablaVista' = TablaVista
  BY <1>1, VistaEsTabla
<1>3. Len(ejecutadas)' = 0
  BY <1>1, EmptySeq
<1>. QED
  BY <1>1, <1>2, <1>3 DEF Tabla!Next, Tabla!EntreConsultas

\* The list of archives of the Worker implements the map of TablaIdeal
\* (worker_query.c l. 43-83, 148-162, 197-327), whatever the scripts, the names
\* and the sizes: CREATE, TRUNCATE and DELETE are answered by what the map says,
\* change the entry they name and no other, and nothing at all when they fail.
THEOREM RefinaTabla == Spec => ImplementaTabla
<1>1. Init => Tabla!Init
  <2>1. SUFFICES ASSUME Init PROVE Tabla!Init
    OBVIOUS
  <2>2. archivos = <<>> /\ ejecutadas = <<>> /\ rc = 0
    BY <2>1 DEF Init
  <2>3. Nombres(archivos) = {}
    BY <2>2 DEF Nombres
  <2>4. TablaVista = [ft \in {} |-> 0]
    BY <2>3, VistaEsTabla DEF Vista
  <2>5. Len(ejecutadas) = 0
    BY <2>2, EmptySeq
  <2>. QED BY <2>2, <2>4, <2>5 DEF Tabla!Init
<1>2. ConsultaOK /\ TablaBien /\ TablaBien' /\ [Next]_vars
        => [Tabla!Next]_<<TablaVista, Len(ejecutadas), rc>>
  <2>. SUFFICES ASSUME ConsultaOK, TablaBien, TablaBien', [Next]_vars
                PROVE  [Tabla!Next]_<<TablaVista, Len(ejecutadas), rc>>
    OBVIOUS
  <2>1. ASSUME PerderMaster \/ Tomar \/ UsarSinInicializar \/ UNCHANGED vars
        PROVE  UNCHANGED <<TablaVista, Len(ejecutadas), rc>>
    <3>1. archivos' = archivos /\ ejecutadas' = ejecutadas /\ rc' = rc
      BY <2>1 DEF PerderMaster, Tomar, UsarSinInicializar, vars, consulta
    <3>2. TablaVista' = TablaVista
      BY <3>1, VistaEsTabla
    <3>. QED BY <3>1, <3>2
  <2>2. ASSUME CrearArchivo \/ TruncarArchivo \/ EliminarArchivo
               \/ SinArchivo \/ Invalida
        PROVE  Tabla!Next
    BY <2>2, CrearRefina, TruncarRefina, EliminarRefina, SinArchivoRefina
  <2>3. ASSUME NEW ft \in FileTags, AgregarArchivo(ft) PROVE Tabla!Next
    BY <2>3, AgregarRefina
  <2>4. ASSUME (\E g \in Guiones, pc \in Inicios : RecibirConsulta(g, pc))
                 \/ TerminarConsulta
        PROVE  Tabla!Next
    BY <2>4, EntreConsultasRefina
  <2>. QED
    BY <2>1, <2>2, <2>3, <2>4 DEF Next, Recibir, Ejecutar
<1>3. Spec => []TablaBien
  <2>1. TablaOK(archivos) /\ TablaEnProgreso => TablaBien
    BY DEF TablaBien
  <2>. QED BY <2>1, TablaCorrecta, SiempreEnProgreso, PTL
<1>. QED
  BY <1>1, <1>2, <1>3, ConsultaCorrecta, PTL DEF Spec, ImplementaTabla, Tabla!Spec
=============================================================================
