------------------------ MODULE StorageArchivos_proofs ------------------------
(***************************************************************************)
(* Theorems about StorageArchivos, for every set of addresses and of       *)
(* names and every width of the sizes.                                     *)
(***************************************************************************)
EXTENDS StorageArchivos, ListaLemas

-----------------------------------------------------------------------------
(* Type correctness, and the list *)

\* The values of a uint32_t, and their sum.
LEMMA TiposUint ==
  /\ 0 \in Uint /\ Uint \subseteq Nat
  /\ \A i, j \in Uint : Suma(i, j) \in Uint
  BY ModuloAssumption DEF Uint, Suma

\* What a call leaves allocated and noted are sizes, or nothing allocated.
LEMMA TipoReservar ==
  ASSUME TypeOK, NEW a \in Direcciones, NEW bytes \in Uint, Reservar(a, bytes)
  PROVE  /\ datos' \in [Direcciones -> Uint \cup {SinDatos}]
         /\ tamanio' \in [Direcciones -> Uint]
<1>1. TrasReservar(a, bytes) \in Uint \cup {SinDatos}
  BY DEF TrasReservar
<1>. QED
  BY <1>1 DEF TypeOK, Reservar, ConTamanio

\* What memcpy notes.
LEMMA TipoCopiar ==
  ASSUME NEW i \in Uint, NEW j \in Uint, NEW n \in Uint, Copiar(i, j, n)
  PROVE  /\ acceso' \in [posicion : Uint, tamanio : Uint, datos : Uint]
         /\ corrupto' \in BOOLEAN
  BY DEF Copiar

\* Every variable keeps its type, and the list has the files that exist.  (The type
\* needs the list: what is removed from it is there.)
THEOREM TipoYLista == Spec => [](TypeOK /\ ListaExacta)
<1>. USE TiposUint
<1>1. Init => TypeOK /\ ListaExacta
  <2>. SUFFICES ASSUME Init PROVE TypeOK /\ ListaExacta
    OBVIOUS
  <2>1. TypeOK
    BY EmptySeq DEF Init, TypeOK, Ninguno
  <2>2. DOMAIN lista = {}
    BY EmptySeq, LenProperties DEF Init
  <2>3. ListaExacta
    BY <2>2 DEF Init, ListaExacta, IsInjective, ToSet
  <2>. QED
    BY <2>1, <2>3
<1>2. TypeOK /\ ListaExacta /\ [Next]_vars => TypeOK' /\ ListaExacta'
  <2>. SUFFICES ASSUME TypeOK, ListaExacta, [Next]_vars
                PROVE  TypeOK' /\ ListaExacta'
    OBVIOUS
  <2>1. ASSUME NEW n \in Nombres, Crear(n) PROVE TypeOK' /\ ListaExacta'
    <3>1. PICK a \in Direcciones \ vivos :
            /\ vivos' = vivos \cup {a}
            /\ nombre' = [nombre EXCEPT ![a] = n]
            /\ tamanio' = [tamanio EXCEPT ![a] = 0]
            /\ datos' = [datos EXCEPT ![a] = SinDatos]
            /\ lista' = Append(lista, a)
            /\ Registrar(n, a)
            /\ viejos' = viejos \ {n}
            /\ acceso' = Ninguno
            /\ UNCHANGED corrupto
      BY <2>1 DEF Crear
    <3>2. lista' \in Seq(Direcciones)
      BY <3>1, AppendProperties DEF TypeOK
    <3>3. ListaExacta'
      BY <3>1, AgregarDistinto DEF ListaExacta, TypeOK
    <3>4. /\ dic' \in [Nombres -> Direcciones \cup {Nulo}]
          /\ tapados' \subseteq vivos'
      BY <3>1 DEF TypeOK, Registrar
    <3>5. /\ nombre' \in [Direcciones -> Nombres]
          /\ tamanio' \in [Direcciones -> Uint]
          /\ datos' \in [Direcciones -> Uint \cup {SinDatos}]
          /\ acceso' \in [posicion : Uint, tamanio : Uint, datos : Uint]
      BY <3>1 DEF TypeOK, Ninguno
    <3>. QED
      BY <3>1, <3>2, <3>3, <3>4, <3>5 DEF TypeOK
  <2>2. ASSUME NEW n \in Nombres, Borrar(n) PROVE TypeOK' /\ ListaExacta'
    <3>1. dic[n] \in ToSet(lista) /\ IsInjective(lista)
      BY <2>2 DEF Borrar, Abierto, ListaExacta
    <3>2. /\ lista' \in Seq(Direcciones) /\ IsInjective(lista')
          /\ ToSet(lista') = ToSet(lista) \ {dic[n]}
      BY <2>2, <3>1, QuitarDistinto DEF TypeOK, Borrar, QuitarDeLista
    <3>3. ListaExacta'
      BY <2>2, <3>2 DEF ListaExacta, Borrar
    <3>. QED
      BY <2>2, <3>2, <3>3 DEF TypeOK, Borrar, Ninguno, SuNombre
  <2>3. ASSUME NEW n \in Nombres, UsarLiberado(n) PROVE TypeOK' /\ ListaExacta'
    BY <2>3 DEF UsarLiberado, TypeOK, ListaExacta
  <2>4. ASSUME NEW n \in Nombres, NEW nuevo \in Nombres, Renombrar(n, nuevo)
        PROVE  TypeOK' /\ ListaExacta'
    <3>1. dic[n] \in Direcciones /\ dic[n] \in vivos
      BY <2>4 DEF Renombrar, Abierto, TypeOK
    <3>2. /\ dic' \in [Nombres -> Direcciones \cup {Nulo}]
          /\ tapados' \subseteq vivos'
      BY <2>4, <3>1 DEF Renombrar, TypeOK, Registrar
    <3>3. viejos' \subseteq Nombres
      BY <2>4 DEF Renombrar, TypeOK, SuNombre
    <3>. QED
      BY <2>4, <3>1, <3>2, <3>3 DEF Renombrar, TypeOK, ListaExacta, Ninguno
  <2>5. ASSUME NEW n \in Nombres, NEW i \in Uint, NEW j \in Uint, Leer(n, i, j)
        PROVE  TypeOK' /\ ListaExacta'
    <3>1. datos[dic[n]] \in Uint
      BY <2>5 DEF Leer, Lee, Abierto, TypeOK
    <3>. QED
      BY <2>5, <3>1, TipoCopiar DEF Leer, TypeOK, ListaExacta
  <2>6. ASSUME NEW n \in Nombres, NEW i \in Uint, NEW j \in Uint, Escribir(n, i, j)
        PROVE  TypeOK' /\ ListaExacta'
    <3>. DEFINE fin == Suma(i, j)
    <3>1. dic[n] \in Direcciones /\ fin \in Uint
      BY <2>6 DEF Escribir, Abierto, TypeOK
    <3>2. CASE Reservar(dic[n], fin) /\ Copiar(i, j, fin)
      BY <2>6, <3>1, <3>2, TipoReservar, TipoCopiar
      DEF Escribir, TypeOK, ListaExacta
    <3>3. CASE /\ datos[dic[n]] # SinDatos
               /\ Copiar(i, j, datos[dic[n]]) /\ UNCHANGED <<datos, tamanio>>
      <4>1. datos[dic[n]] \in Uint
        BY <3>1, <3>3 DEF TypeOK
      <4>. QED
        BY <2>6, <3>3, <4>1, TipoCopiar DEF Escribir, TypeOK, ListaExacta
    <3>. QED
      BY <2>6, <3>2, <3>3 DEF Escribir
  <2>7. ASSUME NEW n \in Nombres, NEW nuevo \in Uint, Truncar(n, nuevo)
        PROVE  TypeOK' /\ ListaExacta'
    <3>1. dic[n] \in Direcciones
      BY <2>7 DEF Truncar, Abierto, TypeOK
    <3>. QED
      BY <2>7, <3>1, TipoReservar DEF Truncar, TypeOK, ListaExacta, Ninguno
  <2>8. CASE UNCHANGED vars
    BY <2>8 DEF vars, TypeOK, ListaExacta
  <2>. QED
    BY <2>1, <2>2, <2>3, <2>4, <2>5, <2>6, <2>7, <2>8 DEF Next
<1>. QED
  BY <1>1, <1>2, PTL DEF Spec

\* Every variable keeps its type in every reachable state.
THEOREM TipoCorrecto == Spec => []TypeOK
  BY TipoYLista, PTL

\* The list has the files that exist, each once, in every reachable state.
THEOREM SiempreListaExacta == Spec => []ListaExacta
  BY TipoYLista, PTL

-----------------------------------------------------------------------------
(* Names *)

\* No sequence of creations, renames and deletions makes a file unreachable, unless
\* its name is given to another.
THEOREM SiempreAlcanzable == Spec => []AlcanzablePorSuNombre
<1>1. Init => AlcanzablePorSuNombre
  BY DEF Init, AlcanzablePorSuNombre
<1>2. TypeOK /\ AlcanzablePorSuNombre /\ [Next]_vars => AlcanzablePorSuNombre'
  <2>. SUFFICES ASSUME TypeOK, AlcanzablePorSuNombre, [Next]_vars,
                       NEW b \in vivos', b \notin tapados'
                PROVE  dic'[nombre'[b]] = b
    BY DEF AlcanzablePorSuNombre
  <2>1. ASSUME NEW n \in Nombres, NEW a \in Direcciones, Registrar(n, a),
               vivos' \subseteq vivos \cup {a}, nombre' = [nombre EXCEPT ![a] = n]
        PROVE  dic'[nombre'[b]] = b
    <3>1. CASE b = a
      BY <2>1, <3>1 DEF Registrar, TypeOK
    <3>2. CASE b # a
      <4>1. b \in vivos \ {a} /\ nombre[b] # n /\ b \notin tapados
        BY <2>1, <3>2 DEF Registrar
      <4>2. dic[nombre[b]] = b /\ b \in Direcciones
        BY <4>1 DEF AlcanzablePorSuNombre, TypeOK
      <4>. QED
        BY <2>1, <3>2, <4>1, <4>2 DEF Registrar, TypeOK
    <3>. QED
      BY <3>1, <3>2
  <2>2. ASSUME NEW n \in Nombres, Crear(n) PROVE dic'[nombre'[b]] = b
    BY <2>1, <2>2 DEF Crear
  <2>3. ASSUME NEW n \in Nombres, NEW nuevo \in Nombres, Renombrar(n, nuevo)
        PROVE  dic'[nombre'[b]] = b
    <3>1. dic[n] \in Direcciones
      BY <2>3 DEF Renombrar, Abierto, TypeOK
    <3>. QED
      BY <2>1, <2>3, <3>1 DEF Renombrar
  <2>4. ASSUME NEW n \in Nombres, Borrar(n) PROVE dic'[nombre'[b]] = b
    <3>1. b \in vivos \ tapados /\ b # dic[n]
      BY <2>4 DEF Borrar
    <3>2. dic[nombre[b]] = b /\ nombre[b] # n
      BY <3>1 DEF AlcanzablePorSuNombre
    <3>. QED
      BY <2>4, <3>2 DEF Borrar, TypeOK
  <2>5. CASE UNCHANGED <<dic, vivos, nombre, tapados>>
    BY <2>5 DEF AlcanzablePorSuNombre
  <2>. QED
    BY <2>2, <2>3, <2>4, <2>5
    DEF Next, vars, UsarLiberado, Leer, Escribir, Truncar
<1>. QED
  BY <1>1, <1>2, TipoCorrecto, PTL DEF Spec

\* Whatever is renamed, deleted and created again, a name that no rename has left
\* behind, and under which no file was deleted by such a name, leads to its own file.
THEOREM SiempreNombresAlDia == Spec => []NombresAlDia
<1>1. Init => NombresAlDia
  BY DEF Init, NombresAlDia
<1>2. TypeOK /\ NombresAlDia /\ [Next]_vars => NombresAlDia'
  <2>. SUFFICES ASSUME TypeOK, NombresAlDia, [Next]_vars,
                       NEW m \in Nombres, m \notin viejos', dic'[m] # Nulo
                PROVE  dic'[m] \in vivos' /\ nombre'[dic'[m]] = m
    BY DEF NombresAlDia
  <2>1. ASSUME m \notin viejos, dic[m] # Nulo
        PROVE  dic[m] \in vivos /\ dic[m] \in Direcciones /\ nombre[dic[m]] = m
    BY <2>1 DEF NombresAlDia, TypeOK
  <2>2. ASSUME NEW n \in Nombres, Crear(n)
        PROVE  dic'[m] \in vivos' /\ nombre'[dic'[m]] = m
    BY <2>1, <2>2 DEF Crear, Registrar, TypeOK
  <2>3. ASSUME NEW n \in Nombres, NEW nuevo \in Nombres, Renombrar(n, nuevo)
        PROVE  dic'[m] \in vivos' /\ nombre'[dic'[m]] = m
    <3>1. dic[n] \in vivos /\ dic[n] \in Direcciones
      BY <2>3 DEF Renombrar, Abierto, TypeOK
    <3>2. CASE m = nuevo
      BY <2>3, <3>1, <3>2 DEF Renombrar, Registrar, TypeOK
    <3>3. CASE m # nuevo
      <4>1. m \notin viejos /\ m \notin SuNombre(dic[n]) /\ dic'[m] = dic[m]
        BY <2>3, <3>3 DEF Renombrar, Registrar, TypeOK
      <4>2. dic[m] # dic[n]
        BY <2>1, <4>1 DEF SuNombre
      <4>. QED
        BY <2>1, <2>3, <4>1, <4>2 DEF Renombrar, TypeOK
    <3>. QED
      BY <3>2, <3>3
  <2>4. ASSUME NEW n \in Nombres, Borrar(n)
        PROVE  dic'[m] \in vivos' /\ nombre'[dic'[m]] = m
    <3>1. m # n /\ dic'[m] = dic[m]
      BY <2>4 DEF Borrar, TypeOK
    <3>2. m \notin viejos /\ m \notin SuNombre(dic[n])
      BY <2>4, <3>1 DEF Borrar
    <3>3. dic[m] # dic[n]
      BY <2>1, <3>1, <3>2 DEF SuNombre
    <3>. QED
      BY <2>1, <2>4, <3>1, <3>2, <3>3 DEF Borrar
  <2>5. CASE UNCHANGED <<dic, vivos, nombre, viejos>>
    BY <2>1, <2>5
  <2>. QED
    BY <2>2, <2>3, <2>4, <2>5 DEF Next, vars, UsarLiberado, Leer, Escribir, Truncar
<1>. QED
  BY <1>1, <1>2, TipoCorrecto, PTL DEF Spec

-----------------------------------------------------------------------------
(* Sizes *)

\* An allocation leaves noted what it leaves allocated.
LEMMA ReservarExacto ==
  ASSUME TypeOK, TamanioExacto, NEW a \in Direcciones, NEW bytes \in Uint,
         Reservar(a, bytes), vivos' = vivos
  PROVE  TamanioExacto'
<1>1. SinDatos \notin Uint
  BY TiposUint DEF SinDatos
<1>. QED
  BY <1>1 DEF TamanioExacto, TypeOK, Reservar, ConTamanio, TrasReservar

\* The size of every file is what it has allocated, in every reachable state.
THEOREM SiempreTamanioExacto == Spec => []TamanioExacto
<1>1. Init => TamanioExacto
  BY DEF Init, TamanioExacto
<1>2. TypeOK /\ TamanioExacto /\ [Next]_vars => TamanioExacto'
  <2>. SUFFICES ASSUME TypeOK, TamanioExacto, [Next]_vars PROVE TamanioExacto'
    OBVIOUS
  <2>1. ASSUME NEW n \in Nombres, Crear(n) PROVE TamanioExacto'
    BY <2>1 DEF Crear, TamanioExacto, TypeOK
  <2>2. ASSUME NEW n \in Nombres, NEW i \in Uint, NEW j \in Uint, Escribir(n, i, j)
        PROVE  TamanioExacto'
    <3>1. dic[n] \in Direcciones /\ Suma(i, j) \in Uint
      BY <2>2, TiposUint DEF Escribir, Abierto, TypeOK
    <3>2. CASE Reservar(dic[n], Suma(i, j))
      BY <2>2, <3>1, <3>2, ReservarExacto DEF Escribir
    <3>3. CASE UNCHANGED <<datos, tamanio>>
      BY <2>2, <3>3 DEF Escribir, TamanioExacto
    <3>. QED
      BY <2>2, <3>2, <3>3 DEF Escribir
  <2>3. ASSUME NEW n \in Nombres, NEW nuevo \in Uint, Truncar(n, nuevo)
        PROVE  TamanioExacto'
    <3>1. dic[n] \in Direcciones
      BY <2>3 DEF Truncar, Abierto, TypeOK
    <3>. QED
      BY <2>3, <3>1, ReservarExacto DEF Truncar
  <2>4. CASE vivos' \subseteq vivos /\ UNCHANGED <<tamanio, datos>>
    BY <2>4 DEF TamanioExacto
  <2>. QED
    BY <2>1, <2>2, <2>3, <2>4 DEF Next, vars, Borrar, UsarLiberado, Renombrar, Leer
<1>. QED
  BY <1>1, <1>2, TipoCorrecto, PTL DEF Spec

\* A sum that fits is not reduced.
LEMMA SumaExacta ==
  ASSUME NEW i \in Uint, NEW j \in Uint, i + j < Modulo
  PROVE  Suma(i, j) = i + j
  BY ModuloAssumption DEF Uint, Suma

\* memcpy leaves the data only when position and size together do not fit the type.
THEOREM SiempreDentroSiNoDesborda == Spec => []FueraSoloSiDesborda
<1>1. Init => FueraSoloSiDesborda
  BY DEF Init, FueraSoloSiDesborda, Ninguno
<1>2. TypeOK /\ TamanioExacto /\ FueraSoloSiDesborda /\ [Next]_vars
        => FueraSoloSiDesborda'
  <2>. SUFFICES ASSUME TypeOK, TamanioExacto, FueraSoloSiDesborda, [Next]_vars
                PROVE  FueraSoloSiDesborda'
    OBVIOUS
  <2>1. ASSUME NEW i \in Uint, NEW j \in Uint, NEW n \in Uint, Copiar(i, j, n),
               i + j < Modulo => i + j <= n
        PROVE  FueraSoloSiDesborda'
    <3>1. acceso'.posicion = i /\ acceso'.tamanio = j /\ acceso'.datos = n
      BY <2>1 DEF Copiar
    <3>2. i \in Nat /\ j \in Nat /\ n \in Nat /\ Modulo \in Nat
      BY TiposUint, ModuloAssumption
    <3>. QED
      BY <2>1, <3>1, <3>2 DEF FueraSoloSiDesborda
  <2>2. ASSUME NEW n \in Nombres, NEW i \in Uint, NEW j \in Uint, Leer(n, i, j)
        PROVE  FueraSoloSiDesborda'
    <3>1. /\ datos[dic[n]] \in Uint /\ tamanio[dic[n]] = datos[dic[n]]
          /\ Suma(i, j) <= tamanio[dic[n]]
      BY <2>2 DEF Leer, Lee, Abierto, TypeOK, TamanioExacto
    <3>2. i + j < Modulo => i + j <= datos[dic[n]]
      BY <3>1, SumaExacta
    <3>. QED
      BY <2>1, <2>2, <3>1, <3>2 DEF Leer
  <2>3. ASSUME NEW n \in Nombres, NEW i \in Uint, NEW j \in Uint, Escribir(n, i, j)
        PROVE  FueraSoloSiDesborda'
    <3>1. Suma(i, j) \in Uint /\ dic[n] \in vivos /\ dic[n] \in Direcciones
      BY <2>3, TiposUint DEF Escribir, Abierto, TypeOK
    <3>2. CASE Copiar(i, j, Suma(i, j))
      <4>1. i + j < Modulo => i + j <= Suma(i, j)
        BY SumaExacta, TiposUint
      <4>. QED
        BY <2>1, <3>1, <3>2, <4>1
    <3>3. CASE /\ datos[dic[n]] # SinDatos /\ Suma(i, j) <= tamanio[dic[n]]
               /\ Copiar(i, j, datos[dic[n]])
      <4>1. datos[dic[n]] \in Uint /\ tamanio[dic[n]] = datos[dic[n]]
        BY <3>1, <3>3 DEF TypeOK, TamanioExacto
      <4>2. i + j < Modulo => i + j <= datos[dic[n]]
        BY <3>3, <4>1, SumaExacta
      <4>. QED
        BY <2>1, <3>3, <4>1, <4>2
    <3>. QED
      BY <2>3, <3>2, <3>3 DEF Escribir
  <2>4. CASE acceso' = Ninguno
    BY <2>4 DEF Ninguno, FueraSoloSiDesborda
  <2>5. CASE UNCHANGED acceso
    BY <2>5 DEF FueraSoloSiDesborda
  <2>. QED
    BY <2>2, <2>3, <2>4, <2>5
    DEF Next, vars, Crear, Borrar, UsarLiberado, Renombrar, Truncar
<1>. QED
  BY <1>1, <1>2, TipoCorrecto, SiempreTamanioExacto, PTL DEF Spec
=============================================================================
