----------------------- MODULE StorageConexiones_proofs -----------------------
(***************************************************************************)
(* Theorems about StorageConexiones, for every set of clients, number of   *)
(* descriptors, bound on messages and on simultaneous connections.         *)
(***************************************************************************)
EXTENDS StorageConexiones, SequenceTheorems, FiniteSetTheorems,
        WellFoundedInduction, TLAPS

\* accept returns a descriptor that was free.
LEMMA MinimoLibre ==
  ASSUME Libres # {}
  PROVE  Min(Libres) \in Libres
<1>1. Libres \in SUBSET Nat
  BY CotasAssumption DEF Libres, Fds
<1>2. \E m \in Libres : \A n \in Libres : ~ (<<n, m>> \in OpToRel(<, Nat))
  BY <1>1, NatLessThanWellFounded, WFMin
<1>3. ASSUME NEW m \in Libres, NEW n \in Libres, ~ (<<n, m>> \in OpToRel(<, Nat))
      PROVE  m <= n
  BY <1>1, <1>3 DEF OpToRel
<1>4. \E m \in Libres : \A n \in Libres : m <= n
  BY <1>2, <1>3
<1>. QED
  BY <1>4 DEF Min

\* What a recv takes is a prefix, so what remains has the same kind of elements.
LEMMA QuedanDatos ==
  ASSUME NEW D, NEW s \in Seq(D), NEW n \in 0 .. Len(s)
  PROVE  SubSeq(s, n + 1, Len(s)) \in Seq(D)
<1>1. Len(s) \in Nat /\ n + 1 \in Int
  BY LenProperties
<1>2. \A i \in n + 1 .. Len(s) : s[i] \in D
  BY <1>1, ElementOfSeq
<1>. QED
  BY <1>1, <1>2, SubSeqProperties

\* A receive leaves the types as they were.
LEMMA TipoConsumir ==
  ASSUME TypeOK, NEW h \in Clientes, NEW n \in 0 .. Len(bytes[recv[h]]),
         HayDatos(h), Consumir(h, n), NEW lugar \in Lugares \ {"nada"}, Ir(h, lugar),
         hilo[h] # "nada"
  PROVE  TypeOK'
<1>1. recv[h] \in Clientes
  BY DEF TypeOK, HayDatos
<1>2. SubSeq(bytes[recv[h]], n + 1, Len(bytes[recv[h]])) \in Seq(Datos)
  BY <1>1, QuedanDatos DEF TypeOK
<1>3. bytes' \in [Clientes -> Seq(Datos)]
  BY <1>1, <1>2 DEF TypeOK, Consumir
<1>4. recv' \in [Clientes -> Clientes \cup {Nadie}]
  BY DEF TypeOK, Consumir
<1>5. /\ hilo' \in [Clientes -> Lugares]
      /\ \A c \in Clientes : fd[c] = 0 <=> hilo'[c] = "nada"
  BY DEF TypeOK, Ir, Lugares
<1>. QED
  BY <1>3, <1>4, <1>5 DEF TypeOK, Consumir, cuenta

\* A code leads on, to a message, or past the close of recibir_operacion if it is -1.
LEMMA DestinoCodigo ==
  ASSUME TypeOK, NEW h \in Clientes, RecibirOperacion(h)
  PROVE  \E lugar \in {"operacion", "mensaje", "cerrar otra vez"} :
           /\ Ir(h, lugar)
           /\ lugar = "cerrar otra vez" => Head(bytes[recv[h]]) = "menos uno"
<1>. DEFINE d == Head(bytes[recv[h]])
<1>1. recv[h] \in Clientes /\ bytes[recv[h]] \in Seq(Datos) /\ bytes[recv[h]] # <<>>
  BY DEF RecibirOperacion, HayDatos, TypeOK
<1>2. d \in Datos
  BY <1>1, HeadTailProperties
<1>3. Ir(h, Codigos[d])
  BY DEF RecibirOperacion
<1>. HIDE DEF d
<1>4. /\ Codigos[d] \in {"operacion", "mensaje", "cerrar otra vez"}
      /\ Codigos[d] = "cerrar otra vez" => d = "menos uno"
  BY <1>2 DEF Codigos, Datos
<1>. QED
  BY <1>3, <1>4 DEF d

\* Where a receive leads.
LEMMA DestinoRecibir ==
  ASSUME TypeOK, NEW h \in Clientes,
         RecibirId(h) \/ RecibirOperacion(h) \/ RecibirMensaje(h)
  PROVE  /\ hilo[h] \in {"id", "operacion", "mensaje"} /\ HayDatos(h)
         /\ \E lugar \in {"sumar", "operacion", "mensaje", "cerrar otra vez"} :
              /\ Ir(h, lugar)
              /\ lugar = "sumar" => hilo[h] = "id"
              /\ lugar = "cerrar otra vez" => Head(bytes[recv[h]]) = "menos uno"
<1>1. CASE RecibirOperacion(h)
  BY <1>1, DestinoCodigo DEF RecibirOperacion
<1>2. CASE RecibirId(h) \/ RecibirMensaje(h)
  BY <1>2 DEF RecibirId, RecibirMensaje
<1>. QED
  BY <1>1, <1>2

\* A step of a thread that touches neither the peers nor the descriptors.
LEMMA TipoAvanzar ==
  ASSUME TypeOK, NEW h \in Clientes, NEW lugar \in Lugares \ {"nada"}, Ir(h, lugar),
         hilo[h] # "nada"
  PROVE  /\ hilo' \in [Clientes -> Lugares]
         /\ \A c \in Clientes : fd[c] = 0 <=> hilo'[c] = "nada"
  BY DEF TypeOK, Ir, Lugares

\* A recv that fails sends its thread on or to the close, or ends the process.
LEMMA DestinoTrasFallo ==
  ASSUME NEW lugar \in {"id", "operacion", "mensaje"}
  PROVE  TrasFallo[lugar] \subseteq {"operacion", "cerrar", "caido"}
  BY DEF TrasFallo

\* Every variable keeps its type in every reachable state.
THEOREM TipoCorrecto == Spec => []TypeOK
<1>1. Init => TypeOK
  <2>. SUFFICES ASSUME Init PROVE TypeOK
    OBVIOUS
  <2>1. bytes \in [Clientes -> Seq(Datos)]
    BY EmptySeq DEF Init
  <2>2. envios \in [Clientes -> 0 .. MaxMensajes + 1]
    BY CotasAssumption DEF Init
  <2>3. hilo \in [Clientes -> Lugares] /\ fd \in [Clientes -> Fds \cup {0}]
    BY DEF Init, Lugares
  <2>4. \A c \in Clientes : fd[c] = 0 <=> hilo[c] = "nada"
    BY DEF Init
  <2>5. /\ par \in [Clientes -> {"afuera", "abierto", "cerrado"}]
        /\ tabla \in [Fds -> Clientes \cup {Nadie}]
        /\ recv \in [Clientes -> Clientes \cup {Nadie}]
        /\ cantidad \in Int /\ leido \in [Clientes -> Int]
    BY DEF Init
  <2>6. contado \in [Clientes -> BOOLEAN] /\ solaparon \in BOOLEAN
    BY DEF Init
  <2>. QED
    BY <2>1, <2>2, <2>3, <2>4, <2>5, <2>6 DEF TypeOK
<1>2. TypeOK /\ [Next]_vars => TypeOK'
  <2>. SUFFICES ASSUME TypeOK, [Next]_vars PROVE TypeOK'
    OBVIOUS
  <2>1. ASSUME NEW c \in Clientes, Conectar(c) PROVE TypeOK'
    BY <2>1 DEF Conectar, TypeOK, cuenta
  <2>2. ASSUME NEW c \in Clientes, NEW datos \in Seq(Datos), Enviar(c, datos),
               envios[c] \in 0 .. MaxMensajes
        PROVE  TypeOK'
    <3>1. bytes[c] \o datos \in Seq(Datos)
      BY <2>2, ConcatProperties DEF TypeOK
    <3>2. bytes' \in [Clientes -> Seq(Datos)]
      BY <2>2, <3>1 DEF Enviar, TypeOK
    <3>3. envios' \in [Clientes -> 0 .. MaxMensajes + 1]
      BY <2>2, CotasAssumption DEF Enviar, TypeOK
    <3>. QED
      BY <2>2, <3>2, <3>3 DEF Enviar, TypeOK, cuenta
  <2>3. ASSUME NEW c \in Clientes, Identificarse(c) PROVE TypeOK'
    <3>1. PICK resto \in Restos[c] : Enviar(c, <<"id">> \o resto)
      BY <2>3 DEF Identificarse
    <3>2. envios[c] \in 0 .. MaxMensajes
      BY <2>3, CotasAssumption DEF Identificarse
    <3>5. resto \in {<<>>, <<"resto">>, <<"menos uno">>}
      BY RestosAssumption
    <3>6. <<>> \in Seq(Datos) /\ <<"resto">> \in Seq(Datos) /\ <<"menos uno">> \in Seq(Datos)
      BY DEF Datos
    <3>7. <<"id">> \in Seq(Datos)
      BY DEF Datos
    <3>3. <<"id">> \in Seq(Datos) /\ resto \in Seq(Datos)
      BY <3>5, <3>6, <3>7
    <3>4. <<"id">> \o resto \in Seq(Datos)
      BY <3>3, ConcatProperties
    <3>. QED
      BY <2>2, <3>1, <3>2, <3>4
  <2>4. ASSUME NEW c \in Clientes, EnviarMensaje(c) PROVE TypeOK'
    <3>1. <<"mensaje", "cuerpo">> \in Seq(Datos)
      BY DEF Datos
    <3>2. Enviar(c, <<"mensaje", "cuerpo">>) /\ envios[c] \in 0 .. MaxMensajes
      BY <2>4, CotasAssumption DEF EnviarMensaje
    <3>. QED
      BY <2>2, <3>1, <3>2
  <2>5. ASSUME NEW c \in Clientes, Desconectarse(c) PROVE TypeOK'
    BY <2>5 DEF Desconectarse, TypeOK, cuenta
  <2>6. ASSUME NEW c \in Clientes, Aceptar(c) PROVE TypeOK'
    <3>1. Min(Libres) \in Fds /\ Min(Libres) # 0
      BY <2>6, MinimoLibre, CotasAssumption DEF Aceptar, Libres, Fds
    <3>2. /\ tabla' \in [Fds -> Clientes \cup {Nadie}]
          /\ fd' \in [Clientes -> Fds \cup {0}]
          /\ hilo' \in [Clientes -> Lugares]
          /\ \A d \in Clientes : fd'[d] = 0 <=> hilo'[d] = "nada"
      BY <2>6, <3>1 DEF Aceptar, Ir, TypeOK, Lugares
    <3>. QED
      BY <2>6, <3>2 DEF Aceptar, TypeOK, Lugares, red, cuenta
  <2>7. ASSUME NEW h \in Clientes, EmpezarRecv(h) PROVE TypeOK'
    <3>1. fd[h] \in Fds
      BY <2>7 DEF EmpezarRecv, TypeOK
    <3>2. recv' \in [Clientes -> Clientes \cup {Nadie}]
      BY <2>7, <3>1 DEF EmpezarRecv, TypeOK
    <3>. QED
      BY <2>7, <3>2 DEF EmpezarRecv, TypeOK, red, cuenta
  <2>8. ASSUME NEW h \in Clientes,
               RecibirId(h) \/ RecibirOperacion(h) \/ RecibirMensaje(h)
        PROVE  TypeOK'
    <3>1. HayDatos(h) /\ hilo[h] # "nada" /\ recv[h] \in Clientes
      BY <2>8 DEF RecibirId, RecibirOperacion, RecibirMensaje, HayDatos, TypeOK
    <3>2. Len(bytes[recv[h]]) \in Nat /\ Len(bytes[recv[h]]) > 0
      BY <3>1, LenProperties, EmptySeq DEF HayDatos, TypeOK
    <3>3. \E n \in 0 .. Len(bytes[recv[h]]) : Consumir(h, n)
      BY <2>8, <3>2 DEF RecibirId, RecibirOperacion, RecibirMensaje
    <3>4. \E lugar \in Lugares \ {"nada"} : Ir(h, lugar)
      BY <2>8, DestinoRecibir DEF Lugares
    <3>. QED
      BY <3>1, <3>3, <3>4, TipoConsumir
  <2>9. ASSUME NEW h \in Clientes, NoRecibir(h) PROVE TypeOK'
    <3>3. hilo[h] \in {"id", "operacion", "mensaje"}
      BY <2>9 DEF NoRecibir, TrasFallo
    <3>4. TrasFallo[hilo[h]] \subseteq Lugares \ {"nada"}
      BY <3>3, DestinoTrasFallo DEF Lugares
    <3>1. hilo[h] # "nada" /\ \E lugar \in Lugares \ {"nada"} : Ir(h, lugar)
      BY <2>9, <3>3, <3>4 DEF NoRecibir
    <3>2. recv' \in [Clientes -> Clientes \cup {Nadie}]
      BY <2>9 DEF NoRecibir, TypeOK
    <3>. QED
      BY <2>9, <3>1, <3>2, TipoAvanzar DEF NoRecibir, TypeOK, Lugares, red, cuenta
  <2>10. ASSUME NEW h \in Clientes, Cerrar(h) PROVE TypeOK'
    <3>1. hilo[h] # "nada" /\ \E lugar \in Lugares \ {"nada"} : Ir(h, lugar)
      BY <2>10 DEF Cerrar, Lugares
    <3>2. tabla' \in [Fds -> Clientes \cup {Nadie}]
      BY <2>10 DEF Cerrar, Liberar, TypeOK
    <3>. QED
      BY <2>10, <3>1, <3>2, TipoAvanzar DEF Cerrar, TypeOK, Lugares, red, cuenta
  <2>11. ASSUME NEW h \in Clientes, Cargar(h) PROVE TypeOK'
    <3>1. hilo[h] # "nada" /\ \E lugar \in Lugares \ {"nada"} : Ir(h, lugar)
      BY <2>11 DEF Cargar, Lugares
    <3>2. leido' \in [Clientes -> Int]
      BY <2>11 DEF Cargar, TypeOK
    <3>. QED
      BY <2>11, <3>1, <3>2, TipoAvanzar DEF Cargar, TypeOK, Lugares, red
  <2>12. ASSUME NEW h \in Clientes, GuardarSuma(h) \/ GuardarResta(h) PROVE TypeOK'
    <3>1. hilo[h] # "nada" /\ \E lugar \in Lugares \ {"nada"} : Ir(h, lugar)
      BY <2>12 DEF GuardarSuma, GuardarResta, Lugares
    <3>5. leido[h] \in Int /\ contado \in [Clientes -> BOOLEAN]
      BY DEF TypeOK
    <3>6. cantidad' \in Int
      BY <2>12, <3>5 DEF GuardarSuma, GuardarResta
    <3>7. contado' \in [Clientes -> BOOLEAN]
      BY <2>12, <3>5, Zenon DEF GuardarSuma, GuardarResta
    <3>2. cantidad' \in Int /\ contado' \in [Clientes -> BOOLEAN]
      BY <3>6, <3>7
    <3>3. /\ hilo' \in [Clientes -> Lugares]
          /\ \A c \in Clientes : fd[c] = 0 <=> hilo'[c] = "nada"
      BY <3>1, TipoAvanzar
    <3>4. UNCHANGED <<par, bytes, envios, tabla, fd, recv, leido, solaparon>>
      BY <2>12 DEF GuardarSuma, GuardarResta, red
    <3>. QED
      BY <3>2, <3>3, <3>4 DEF TypeOK
  <2>13. CASE UNCHANGED vars
    BY <2>13 DEF vars, red, cuenta, TypeOK
  <2>. QED
    BY <2>1, <2>3, <2>4, <2>5, <2>6, <2>7, <2>8, <2>9, <2>10, <2>11, <2>12, <2>13
    DEF Next, Par, Hilo
<1>. QED
  BY <1>1, <1>2, PTL DEF Spec

-----------------------------------------------------------------------------
(* Descriptors *)

\* Where a thread may still have its connection in the table.
Atendido(c) == hilo[c] \notin {"nada", "restar", "restando", "fin"}

\* A step that frees descriptors or none, and leaves attended the clients whose
\* connection stays in the table, keeps the property.
LEMMA SinFugaConserva ==
  ASSUME SinFugaDeDescriptores, fd' = fd,
         \A f \in Fds : tabla'[f] # Nadie => tabla'[f] = tabla[f],
         \A f \in Fds : tabla'[f] # Nadie /\ Atendido(tabla[f])
                          => Atendido(tabla[f])'
  PROVE  SinFugaDeDescriptores'
<1>. SUFFICES ASSUME NEW f \in Fds, tabla'[f] # Nadie
              PROVE  fd'[tabla'[f]] = f /\ Atendido(tabla[f])'
  BY DEF SinFugaDeDescriptores, Atendido
<1>1. tabla'[f] = tabla[f] /\ fd[tabla[f]] = f /\ Atendido(tabla[f])
  BY DEF SinFugaDeDescriptores, Atendido
<1>. QED
  BY <1>1

\* No descriptor is leaked, although each is closed twice by its number and numbers
\* are reused in between.
THEOREM SiempreSinFugaDeDescriptores == Spec => []SinFugaDeDescriptores
<1>1. Init => SinFugaDeDescriptores
  BY DEF Init, SinFugaDeDescriptores
<1>2. TypeOK /\ SinFugaDeDescriptores /\ [Next]_vars => SinFugaDeDescriptores'
  <2>. SUFFICES ASSUME TypeOK, SinFugaDeDescriptores, [Next]_vars
                PROVE  SinFugaDeDescriptores'
    OBVIOUS
  <2>1. CASE UNCHANGED <<tabla, fd, hilo>>
    BY <2>1 DEF SinFugaDeDescriptores
  <2>2. ASSUME NEW c \in Clientes, Par(c) PROVE SinFugaDeDescriptores'
    BY <2>1, <2>2
    DEF Par, Conectar, Identificarse, EnviarMensaje, Enviar, Desconectarse
  <2>3. ASSUME NEW c \in Clientes, Aceptar(c) PROVE SinFugaDeDescriptores'
    <3>. DEFINE m == Min(Libres)
    <3>1. m \in Fds /\ hilo[c] = "nada"
      BY <2>3, MinimoLibre DEF Aceptar, Libres
    <3>2. \A f \in Fds : tabla[f] # c
      BY <3>1, NadieAssumption DEF SinFugaDeDescriptores
    <3>3. /\ tabla' = [tabla EXCEPT ![m] = c] /\ fd' = [fd EXCEPT ![c] = m]
          /\ hilo' = [hilo EXCEPT ![c] = "id"]
      BY <2>3 DEF Aceptar, Ir
    <3>. HIDE DEF m
    <3>4. \A f \in Fds \ {m} : tabla'[f] = tabla[f]
      BY <3>1, <3>3 DEF TypeOK
    <3>5. tabla'[m] = c /\ fd'[c] = m /\ hilo'[c] = "id"
      BY <3>1, <3>3 DEF TypeOK
    <3>6. \A d \in Clientes \ {c} : fd'[d] = fd[d] /\ hilo'[d] = hilo[d]
      BY <3>3 DEF TypeOK
    <3>7. ASSUME NEW f \in Fds \ {m}, tabla[f] # Nadie
          PROVE  /\ fd'[tabla[f]] = f
                 /\ hilo'[tabla[f]] \notin {"nada", "restar", "restando", "fin"}
      BY <3>2, <3>6, <3>7 DEF TypeOK, SinFugaDeDescriptores
    <3>. QED
      BY <3>4, <3>5, <3>7 DEF SinFugaDeDescriptores
  <2>4. ASSUME NEW h \in Clientes, EmpezarRecv(h) PROVE SinFugaDeDescriptores'
    BY <2>1, <2>4 DEF EmpezarRecv
  <2>5. ASSUME NEW h \in Clientes, NEW lugar \in Lugares, Ir(h, lugar),
               UNCHANGED <<tabla, fd>>,
               Atendido(h) => lugar \notin {"nada", "restar", "restando", "fin"}
        PROVE  SinFugaDeDescriptores'
    <3>1. \A d \in Clientes : Atendido(d) => Atendido(d)'
      BY <2>5 DEF Ir, Atendido, TypeOK
    <3>2. \A f \in Fds : tabla[f] # Nadie => tabla[f] \in Clientes
      BY DEF TypeOK
    <3>3. \A f \in Fds : tabla'[f] # Nadie /\ Atendido(tabla[f])
                           => Atendido(tabla[f])'
      BY <2>5, <3>1, <3>2 DEF Atendido
    <3>. QED
      BY <2>5, <3>3, SinFugaConserva
  <2>6. ASSUME NEW h \in Clientes,
               RecibirId(h) \/ RecibirOperacion(h) \/ RecibirMensaje(h)
        PROVE  SinFugaDeDescriptores'
    <3>1. \E lugar \in {"sumar", "mensaje", "operacion", "cerrar otra vez"} : Ir(h, lugar)
      BY <2>6, DestinoRecibir
    <3>2. UNCHANGED <<tabla, fd>>
      BY <2>6 DEF RecibirId, RecibirOperacion, RecibirMensaje, Consumir
    <3>. QED
      BY <2>5, <3>1, <3>2 DEF Lugares
  <2>7. ASSUME NEW h \in Clientes, NoRecibir(h) PROVE SinFugaDeDescriptores'
    <3>1. \E lugar \in {"operacion", "cerrar", "caido"} : Ir(h, lugar)
      <4>1. hilo[h] \in {"id", "operacion", "mensaje"}
        BY <2>7 DEF NoRecibir, TrasFallo
      <4>. QED
        BY <2>7, <4>1, DestinoTrasFallo DEF NoRecibir
    <3>2. UNCHANGED <<tabla, fd>>
      BY <2>7 DEF NoRecibir
    <3>. QED
      BY <2>5, <3>1, <3>2 DEF Lugares
  <2>8. ASSUME NEW h \in Clientes, Cerrar(h) PROVE SinFugaDeDescriptores'
    <3>1. /\ fd[h] \in Fds /\ fd' = fd /\ tabla' = [tabla EXCEPT ![fd[h]] = Nadie]
          /\ \A d \in Clientes \ {h} : hilo'[d] = hilo[d]
      BY <2>8 DEF Cerrar, Liberar, Ir, TypeOK
    <3>2. \A f \in Fds : tabla'[f] = IF f = fd[h] THEN Nadie ELSE tabla[f]
      BY <3>1 DEF TypeOK
    <3>3. \A f \in Fds : tabla'[f] # Nadie => tabla'[f] \in Clientes \ {h}
      BY <3>2 DEF SinFugaDeDescriptores, TypeOK
    <3>. QED
      BY <3>1, <3>2, <3>3, SinFugaConserva DEF Atendido
  <2>9. ASSUME NEW h \in Clientes, Cargar(h) \/ GuardarSuma(h) \/ GuardarResta(h)
        PROVE  SinFugaDeDescriptores'
    <3>1. \E lugar \in Lugares :
            /\ Ir(h, lugar)
            /\ Atendido(h) => lugar \notin {"nada", "restar", "restando", "fin"}
      BY <2>9 DEF Cargar, GuardarSuma, GuardarResta, Atendido, Lugares
    <3>2. UNCHANGED <<tabla, fd>>
      BY <2>9 DEF Cargar, GuardarSuma, GuardarResta
    <3>. QED
      BY <2>5, <3>1, <3>2
  <2>10. CASE UNCHANGED vars
    BY <2>1, <2>10 DEF vars
  <2>. QED
    BY <2>2, <2>3, <2>4, <2>6, <2>7, <2>8, <2>9, <2>10 DEF Next, Hilo
<1>. QED
  BY <1>1, <1>2, TipoCorrecto, PTL DEF Spec

-----------------------------------------------------------------------------
(* Connections one after the other *)

Llegados == {c \in Clientes : par[c] # "afuera"}
SinContar == {h \in Clientes : hilo[h] = "fin" /\ ~contado[h]}

\* Nobody is attended before coming, finitely many have come, and a worker is
\* counted after its identification only.
LlegadaOK ==
  /\ \A c \in Clientes : par[c] = "afuera" => hilo[c] = "nada"
  /\ IsFiniteSet(Llegados)
  /\ \A c \in Clientes :
       contado[c] => hilo[c] \notin {"nada", "id", "sumar", "sumando"}

\* The thread h of the only connection alive reads from that connection, which is
\* in the table until its peer has closed, and what it read of the counter is
\* still what the counter holds.
AtiendeLoSuyo(h) ==
  /\ recv[h] # Nadie => recv[h] = h
  /\ hilo[h] \in {"id", "sumar", "sumando", "operacion", "mensaje"}
       => tabla[fd[h]] = h
  /\ hilo[h] = "cerrar" => par[h] = "cerrado"
  /\ hilo[h] = "cerrar otra vez" => par[h] = "cerrado" \/ h \in Raros
  /\ hilo[h] \in {"sumando", "restando"} => leido[h] = cantidad

\* The counter, exact but for those that ended without being counted.
CuentaOK == cantidad = Cardinality(Contados) - Cardinality(SinContar)

\* The inductive invariant of a Storage whose connections have not overlapped.
DeAUno ==
  ~solaparon =>
    /\ \A c, d \in Vivos : c = d
    /\ \A h \in Clientes : AtiendeLoSuyo(h)
    /\ CuentaOK

\* What may be read as -1 comes only from those whose identification holds it.
RarosOK == \A c \in Clientes \ Raros : bytes[c] \in Seq(Datos \ {"menos uno"})

\* (See RarosOK.)
LEMMA RarosCorrecto == Spec => []RarosOK
<1>. DEFINE D == Datos \ {"menos uno"}
<1>1. Init => RarosOK
  <2>1. <<>> \in Seq(D)
    BY EmptySeq
  <2>. QED BY <2>1 DEF Init, RarosOK
<1>2. TypeOK /\ RarosOK /\ [Next]_vars => RarosOK'
  <2>. SUFFICES ASSUME TypeOK, RarosOK, [Next]_vars PROVE RarosOK'
    OBVIOUS
  <2>1. CASE UNCHANGED bytes
    BY <2>1 DEF RarosOK
  <2>2. ASSUME NEW c \in Clientes, NEW datos, Enviar(c, datos),
               c \notin Raros => datos \in Seq(D)
        PROVE  RarosOK'
    <3>1. bytes' = [bytes EXCEPT ![c] = bytes[c] \o datos]
      BY <2>2 DEF Enviar
    <3>2. c \notin Raros => bytes[c] \o datos \in Seq(D)
      BY <2>2, ConcatProperties DEF RarosOK
    <3>. QED BY <3>1, <3>2 DEF RarosOK, TypeOK
  <2>3. ASSUME NEW c \in Clientes, Identificarse(c) PROVE RarosOK'
    <3>1. PICK resto \in Restos[c] : Enviar(c, <<"id">> \o resto)
      BY <2>3 DEF Identificarse
    <3>2. c \notin Raros => resto \in {<<>>, <<"resto">>}
      BY RestosAssumption DEF Raros
    <3>3. <<"id">> \in Seq(D) /\ <<>> \in Seq(D) /\ <<"resto">> \in Seq(D)
      BY DEF Datos
    <3>4. c \notin Raros => <<"id">> \o resto \in Seq(D)
      BY <3>2, <3>3, ConcatProperties
    <3>. QED BY <2>2, <3>1, <3>4
  <2>4. ASSUME NEW c \in Clientes, EnviarMensaje(c) PROVE RarosOK'
    <3>1. <<"mensaje", "cuerpo">> \in Seq(D)
      BY DEF Datos
    <3>. QED BY <2>2, <2>4, <3>1 DEF EnviarMensaje
  <2>5. ASSUME NEW h \in Clientes,
               RecibirId(h) \/ RecibirOperacion(h) \/ RecibirMensaje(h)
        PROVE  RarosOK'
    <3>. DEFINE x == recv[h]
    <3>1. x \in Clientes /\ bytes[x] \in Seq(Datos) /\ bytes[x] # <<>>
      BY <2>5 DEF RecibirId, RecibirOperacion, RecibirMensaje, HayDatos, TypeOK
    <3>2. Len(bytes[x]) \in Nat /\ Len(bytes[x]) > 0
      BY <3>1, LenProperties, EmptySeq
    <3>3. PICK n \in 0 .. Len(bytes[x]) : Consumir(h, n)
      BY <2>5, <3>2 DEF RecibirId, RecibirOperacion, RecibirMensaje
    <3>4. bytes' = [bytes EXCEPT ![x] = SubSeq(bytes[x], n + 1, Len(bytes[x]))]
      BY <3>3 DEF Consumir
    <3>. HIDE DEF x
    <3>5. x \notin Raros => SubSeq(bytes[x], n + 1, Len(bytes[x])) \in Seq(D)
      BY <3>1, QuedanDatos DEF RarosOK
    <3>. QED BY <3>1, <3>4, <3>5 DEF RarosOK, TypeOK
  <2>6. ASSUME NEW c \in Clientes, Conectar(c) \/ Desconectarse(c) \/ Aceptar(c)
        PROVE  RarosOK'
    BY <2>1, <2>6 DEF Conectar, Desconectarse, Aceptar, red
  <2>7. ASSUME NEW h \in Clientes, EmpezarRecv(h) \/ NoRecibir(h) \/ Cerrar(h) \/ Cargar(h)
                                    \/ GuardarSuma(h) \/ GuardarResta(h)
        PROVE  RarosOK'
    BY <2>1, <2>7
    DEF EmpezarRecv, NoRecibir, Cerrar, Cargar, GuardarSuma, GuardarResta, red
  <2>8. CASE UNCHANGED vars
    BY <2>1, <2>8 DEF vars, red
  <2>. QED
    BY <2>3, <2>4, <2>5, <2>6, <2>7, <2>8 DEF Next, Par, Hilo
<1>. QED
  BY <1>1, <1>2, TipoCorrecto, PTL DEF Spec

\* Where a thread goes: never back to where it was not counted yet.
LEMMA DestinoHilo ==
  ASSUME TypeOK, NEW h \in Clientes, Hilo(h)
  PROVE  /\ UNCHANGED <<par, envios, fd, solaparon>>
         /\ hilo[h] \notin {"nada", "fin", "caido"}
         /\ hilo' = [hilo EXCEPT ![h] = hilo'[h]]
         /\ hilo'[h] \notin {"nada", "id"} \/ hilo'[h] = hilo[h]
<1>1. CASE EmpezarRecv(h)
  BY <1>1 DEF EmpezarRecv, red, TypeOK
<1>2. CASE RecibirId(h) \/ RecibirOperacion(h) \/ RecibirMensaje(h)
  <2>1. \E lugar \in {"sumar", "operacion", "mensaje", "cerrar otra vez"} : Ir(h, lugar)
    BY <1>2, DestinoRecibir
  <2>2. hilo[h] \in {"id", "operacion", "mensaje"} /\ UNCHANGED <<par, envios, fd, solaparon>>
    BY <1>2 DEF RecibirId, RecibirOperacion, RecibirMensaje, Consumir
  <2>. QED BY <2>1, <2>2 DEF Ir, TypeOK
<1>3. CASE NoRecibir(h)
  <2>1. hilo[h] \in {"id", "operacion", "mensaje"}
    BY <1>3 DEF NoRecibir, TrasFallo
  <2>2. \E lugar \in {"operacion", "cerrar", "caido"} : Ir(h, lugar)
    BY <1>3, <2>1, DestinoTrasFallo DEF NoRecibir
  <2>. QED BY <1>3, <2>1, <2>2 DEF NoRecibir, Ir, red, TypeOK
<1>4. CASE Cerrar(h)
  BY <1>4 DEF Cerrar, Ir, red, TypeOK
<1>5. CASE Cargar(h) \/ GuardarSuma(h) \/ GuardarResta(h)
  BY <1>5 DEF Cargar, GuardarSuma, GuardarResta, Ir, red, TypeOK
<1>. QED
  BY <1>1, <1>2, <1>3, <1>4, <1>5 DEF Hilo

\* (See LlegadaOK.)
LEMMA LlegadaCorrecta == Spec => []LlegadaOK
<1>1. Init => LlegadaOK
  <2>. SUFFICES ASSUME Init PROVE LlegadaOK
    OBVIOUS
  <2>1. Llegados = {}
    BY DEF Init, Llegados
  <2>. QED BY <2>1, FS_EmptySet DEF Init, LlegadaOK
<1>2. TypeOK /\ LlegadaOK /\ [Next]_vars => LlegadaOK'
  <2>. SUFFICES ASSUME TypeOK, LlegadaOK, [Next]_vars PROVE LlegadaOK'
    OBVIOUS
  <2>1. ASSUME NEW c \in Clientes, Conectar(c) PROVE LlegadaOK'
    <3>1. Llegados' = Llegados \cup {c}
      BY <2>1 DEF Conectar, Llegados, TypeOK
    <3>2. IsFiniteSet(Llegados')
      BY <3>1, FS_AddElement DEF LlegadaOK
    <3>. QED BY <2>1, <3>2 DEF Conectar, LlegadaOK, TypeOK, cuenta
  <2>2. ASSUME NEW c \in Clientes,
               Identificarse(c) \/ EnviarMensaje(c) \/ Desconectarse(c)
        PROVE  LlegadaOK'
    <3>1. Llegados' = Llegados
      BY <2>2 DEF Identificarse, EnviarMensaje, Enviar, Desconectarse, Llegados, TypeOK
    <3>. QED
      BY <2>2, <3>1
      DEF Identificarse, EnviarMensaje, Enviar, Desconectarse, LlegadaOK, TypeOK, cuenta
  <2>3. ASSUME NEW c \in Clientes, Aceptar(c) PROVE LlegadaOK'
    <3>1. Llegados' = Llegados
      BY <2>3 DEF Aceptar, Llegados, red
    <3>. QED BY <2>3, <3>1 DEF Aceptar, Ir, LlegadaOK, TypeOK, red, cuenta
  <2>4. ASSUME NEW h \in Clientes, Hilo(h) PROVE LlegadaOK'
    <3>1. /\ UNCHANGED <<par, envios, fd, solaparon>> /\ hilo[h] # "nada"
          /\ hilo' = [hilo EXCEPT ![h] = hilo'[h]]
      BY <2>4, DestinoHilo
    <3>2. Llegados' = Llegados
      BY <3>1 DEF Llegados
    <3>3. \A c \in Clientes \ {h} : hilo'[c] = hilo[c]
      BY <3>1 DEF TypeOK
    <3>4. \A c \in Clientes : par'[c] = "afuera" => hilo'[c] = "nada"
      BY <3>1, <3>3 DEF LlegadaOK
    <3>5. ASSUME NEW c \in Clientes, contado'[c]
          PROVE  hilo'[c] \notin {"nada", "id", "sumar", "sumando"}
      <4>1. CASE GuardarSuma(h)
        BY <3>3, <3>5, <4>1 DEF GuardarSuma, Ir, TypeOK, LlegadaOK
      <4>2. CASE ~GuardarSuma(h)
        <5>1. contado' = contado
          BY <2>4, <4>2
          DEF Hilo, EmpezarRecv, RecibirId, RecibirOperacion, RecibirMensaje,
              Consumir, NoRecibir, Cerrar, Cargar, GuardarResta, cuenta
        <5>2. hilo[c] \notin {"nada", "id", "sumar", "sumando"}
          BY <3>5, <5>1 DEF LlegadaOK
        <5>3. CASE c # h
          BY <3>3, <5>2, <5>3
        <5>4. CASE c = h
          <6>1. hilo'[h] \notin {"nada", "id"}
            BY <2>4, <5>2, <5>4, DestinoHilo
          <6>2. hilo'[h] \notin {"sumar", "sumando"}
            <7>1. CASE NoRecibir(h)
              <8>1. hilo[h] \in {"id", "operacion", "mensaje"}
                BY <7>1 DEF NoRecibir, TrasFallo
              <8>2. \E lugar \in {"operacion", "cerrar", "caido"} : Ir(h, lugar)
                BY <7>1, <8>1, DestinoTrasFallo DEF NoRecibir
              <8>. QED BY <8>2 DEF Ir, TypeOK
            <7>2. CASE ~NoRecibir(h)
              <8>1. CASE RecibirId(h) \/ RecibirOperacion(h) \/ RecibirMensaje(h)
                <9>1. \E lugar \in {"operacion", "mensaje", "cerrar otra vez"} : Ir(h, lugar)
                  BY <5>2, <5>4, <8>1, DestinoRecibir
                <9>. QED BY <9>1 DEF Ir, TypeOK
              <8>2. CASE ~(RecibirId(h) \/ RecibirOperacion(h) \/ RecibirMensaje(h))
                BY <2>4, <5>2, <5>4, <7>2, <8>2
                DEF Hilo, EmpezarRecv, Cerrar, Cargar, GuardarSuma, GuardarResta, Ir, TypeOK
              <8>. QED BY <8>1, <8>2
            <7>. QED BY <7>1, <7>2
          <6>. QED BY <5>4, <6>1, <6>2
        <5>. QED BY <5>3, <5>4
      <4>. QED BY <4>1, <4>2
    <3>. QED BY <3>2, <3>4, <3>5 DEF LlegadaOK
  <2>5. CASE UNCHANGED vars
    BY <2>5 DEF vars, red, cuenta, LlegadaOK, Llegados
  <2>. QED
    BY <2>1, <2>2, <2>3, <2>4, <2>5 DEF Next, Par
<1>. QED
  BY <1>1, <1>2, TipoCorrecto, PTL DEF Spec

\* While connections have not overlapped, the other threads are not running.
LEMMA NadieMas ==
  ASSUME TypeOK, LlegadaOK, DeAUno, ~solaparon,
         NEW h \in Clientes, h \in Vivos, NEW d \in Clientes \ {h}
  PROVE  hilo[d] \in {"nada", "fin"}
<1>1. d \notin Vivos
  BY DEF DeAUno
<1>. QED
  BY <1>1 DEF Vivos, LlegadaOK

\* A thread that runs is that of a connection alive.
LEMMA HiloVivo ==
  ASSUME TypeOK, LlegadaOK, NEW h \in Clientes, hilo[h] \notin {"nada", "fin"}
  PROVE  h \in Vivos
  BY DEF Vivos, LlegadaOK

\* The sets behind the counter are finite.
LEMMA CuentasFinitas ==
  ASSUME LlegadaOK
  PROVE  /\ IsFiniteSet(Contados) /\ IsFiniteSet(SinContar)
         /\ Cardinality(Contados) \in Nat /\ Cardinality(SinContar) \in Nat
<1>1. Contados \subseteq Llegados /\ SinContar \subseteq Llegados
  BY DEF Contados, SinContar, Llegados, LlegadaOK
<1>2. IsFiniteSet(Contados) /\ IsFiniteSet(SinContar)
  BY <1>1, FS_Subset DEF LlegadaOK
<1>. QED
  BY <1>2, FS_CardinalityType

\* A step of the only thread that runs: what it must keep is its own.
LEMMA BastaLoSuyo ==
  ASSUME TypeOK, LlegadaOK, DeAUno, ~solaparon, NEW h \in Clientes, Hilo(h),
         \A d \in Clientes \ {h} : recv'[d] = recv[d],
         AtiendeLoSuyo(h)', CuentaOK'
  PROVE  DeAUno'
<1>1. /\ UNCHANGED <<par, envios, fd, solaparon>>
      /\ hilo[h] \notin {"nada", "fin", "caido"}
      /\ hilo' = [hilo EXCEPT ![h] = hilo'[h]]
  BY DestinoHilo
<1>2. \A d \in Clientes \ {h} : hilo[d] \in {"nada", "fin"} /\ hilo'[d] = hilo[d]
  BY <1>1, HiloVivo, NadieMas DEF TypeOK
<1>3. \A c, d \in Vivos' : c = d
  <2>1. \A c \in Vivos' : c \in Vivos
    BY <1>1, <1>2 DEF Vivos, LlegadaOK
  <2>. QED BY <2>1 DEF DeAUno
<1>4. ASSUME NEW d \in Clientes \ {h} PROVE AtiendeLoSuyo(d)'
  BY <1>2 DEF AtiendeLoSuyo, DeAUno
<1>. QED
  BY <1>3, <1>4 DEF DeAUno

\* Where nobody ends and nobody is counted the sets behind the counter stay.
LEMMA CuentaQuieta ==
  ASSUME CuentaOK, contado' = contado, cantidad' = cantidad,
         \A c \in Clientes : hilo'[c] = "fin" <=> hilo[c] = "fin"
  PROVE  CuentaOK'
<1>1. Contados' = Contados /\ SinContar' = SinContar
  BY DEF Contados, SinContar
<1>. QED
  BY <1>1 DEF CuentaOK

\* A recv begins or takes data.
LEMMA DeAUnoRecibe ==
  ASSUME TypeOK, RarosOK, SinFugaDeDescriptores, LlegadaOK, DeAUno, ~solaparon,
         NEW h \in Clientes,
         EmpezarRecv(h) \/ RecibirId(h) \/ RecibirOperacion(h) \/ RecibirMensaje(h)
  PROVE  DeAUno'
<1>1. Hilo(h)
  BY DEF Hilo
<1>2. AtiendeLoSuyo(h) /\ CuentaOK
  BY DEF DeAUno
<1>3. CASE EmpezarRecv(h)
  <2>. DEFINE x == tabla[fd[h]]
  <2>1. /\ x # Nadie /\ fd[h] \in Fds /\ x \in Clientes
        /\ recv' = [recv EXCEPT ![h] = x]
        /\ UNCHANGED <<red, tabla, hilo, fd, cuenta>>
        /\ hilo[h] \in {"id", "operacion", "mensaje"}
    BY <1>3 DEF EmpezarRecv, TypeOK
  <2>2. hilo[x] \notin {"nada", "fin"}
    BY <2>1 DEF SinFugaDeDescriptores
  <2>3. x \in Vivos /\ h \in Vivos
    BY <2>1, <2>2, HiloVivo
  <2>4. x = h
    BY <2>3 DEF DeAUno
  <2>. HIDE DEF x
  <2>5. recv'[h] = h /\ \A d \in Clientes \ {h} : recv'[d] = recv[d]
    BY <2>1, <2>4 DEF TypeOK
  <2>6. AtiendeLoSuyo(h)'
    BY <1>2, <2>1, <2>5 DEF AtiendeLoSuyo
  <2>7. CuentaOK'
    BY <1>2, <2>1, CuentaQuieta DEF cuenta
  <2>. QED BY <1>1, <2>5, <2>6, <2>7, BastaLoSuyo
<1>4. CASE RecibirId(h) \/ RecibirOperacion(h) \/ RecibirMensaje(h)
  <2>1. /\ recv' = [recv EXCEPT ![h] = Nadie] /\ UNCHANGED <<tabla, fd, cuenta>>
        /\ hilo[h] \in {"id", "operacion", "mensaje"}
    BY <1>4 DEF RecibirId, RecibirOperacion, RecibirMensaje, Consumir
  <2>6. PICK lugar \in {"sumar", "operacion", "mensaje", "cerrar otra vez"} :
          /\ Ir(h, lugar) /\ HayDatos(h)
          /\ lugar = "cerrar otra vez" => Head(bytes[recv[h]]) = "menos uno"
    BY <1>4, DestinoRecibir
  <2>7. hilo'[h] = lugar /\ \A d \in Clientes \ {h} : hilo'[d] = hilo[d]
    BY <2>6 DEF Ir, TypeOK
  <2>8. lugar = "cerrar otra vez" => h \in Raros
    <3>1. recv[h] = h
      BY <1>2, <2>6 DEF HayDatos, AtiendeLoSuyo
    <3>2. ASSUME h \notin Raros PROVE Head(bytes[h]) # "menos uno"
      <4>1. bytes[h] \in Seq(Datos \ {"menos uno"}) /\ bytes[h] # <<>>
        BY <2>6, <3>1, <3>2 DEF RarosOK, HayDatos
      <4>2. PICK s : s = bytes[h]
        OBVIOUS
      <4>3. PICK D : D = Datos \ {"menos uno"}
        OBVIOUS
      <4>4. Head(s) \in D
        <5>1. s \in Seq(D) /\ s # <<>>
          BY <4>1, <4>2, <4>3
        <5>. QED BY <5>1, HeadTailProperties
      <4>. QED BY <4>2, <4>3, <4>4
    <3>. QED BY <2>6, <3>1, <3>2
  <2>2. recv'[h] = Nadie /\ \A d \in Clientes \ {h} : recv'[d] = recv[d]
    BY <2>1 DEF TypeOK
  <2>3. AtiendeLoSuyo(h)'
    BY <1>2, <2>1, <2>2, <2>7, <2>8 DEF AtiendeLoSuyo
  <2>4. CuentaOK'
    BY <1>2, <2>1, <2>7, CuentaQuieta DEF cuenta
  <2>. QED BY <1>1, <2>2, <2>3, <2>4, BastaLoSuyo
<1>. QED
  BY <1>3, <1>4

\* A recv fails, or the thread closes.
LEMMA DeAUnoCierra ==
  ASSUME TypeOK, LlegadaOK, DeAUno, ~solaparon, NEW h \in Clientes,
         NoRecibir(h) \/ Cerrar(h)
  PROVE  DeAUno'
<1>1. Hilo(h)
  BY DEF Hilo
<1>2. AtiendeLoSuyo(h) /\ CuentaOK
  BY DEF DeAUno
<1>3. CASE NoRecibir(h)
  <2>1. hilo[h] \in {"id", "operacion", "mensaje"}
    BY <1>3 DEF NoRecibir, TrasFallo
  <2>2. /\ hilo'[h] \in {"operacion", "cerrar", "caido"}
        /\ \A d \in Clientes \ {h} : hilo'[d] = hilo[d]
    BY <1>3, <2>1, DestinoTrasFallo DEF NoRecibir, Ir, TypeOK
  <2>3. /\ recv' = [recv EXCEPT ![h] = Nadie] /\ UNCHANGED <<red, tabla, fd, cuenta>>
        /\ SinDatos(h)
    BY <1>3 DEF NoRecibir
  <2>4. recv'[h] = Nadie /\ \A d \in Clientes \ {h} : recv'[d] = recv[d]
    BY <2>3 DEF TypeOK
  <2>5. par[h] = "cerrado" /\ tabla[fd[h]] = h
    BY <1>2, <2>1, <2>3, NadieAssumption DEF SinDatos, AtiendeLoSuyo
  <2>6. AtiendeLoSuyo(h)'
    BY <2>2, <2>3, <2>4, <2>5 DEF AtiendeLoSuyo, red
  <2>7. CuentaOK'
    BY <1>2, <2>1, <2>2, <2>3, CuentaQuieta DEF cuenta
  <2>. QED BY <1>1, <2>4, <2>6, <2>7, BastaLoSuyo
<1>4. CASE Cerrar(h)
  <2>1. /\ hilo[h] \in {"cerrar", "cerrar otra vez"}
        /\ hilo'[h] \in {"cerrar otra vez", "restar"}
        /\ \A d \in Clientes \ {h} : hilo'[d] = hilo[d]
        /\ UNCHANGED <<red, fd, recv, cuenta>>
    BY <1>4 DEF Cerrar, Ir, TypeOK
  <2>2. AtiendeLoSuyo(h)'
    BY <1>2, <2>1 DEF AtiendeLoSuyo, red
  <2>3. CuentaOK'
    BY <1>2, <2>1, CuentaQuieta DEF cuenta
  <2>. QED BY <1>1, <2>1, <2>2, <2>3, BastaLoSuyo
<1>. QED
  BY <1>3, <1>4

\* The load and the store of the counter, which nobody touches in between.
LEMMA DeAUnoCuenta ==
  ASSUME TypeOK, LlegadaOK, DeAUno, ~solaparon, NEW h \in Clientes,
         Cargar(h) \/ GuardarSuma(h) \/ GuardarResta(h)
  PROVE  DeAUno'
<1>1. Hilo(h)
  BY DEF Hilo
<1>2. AtiendeLoSuyo(h) /\ CuentaOK
  BY DEF DeAUno
<1>3. /\ IsFiniteSet(Contados) /\ IsFiniteSet(SinContar)
      /\ Cardinality(Contados) \in Nat /\ Cardinality(SinContar) \in Nat
  BY CuentasFinitas
<1>4. CASE Cargar(h)
  <2>1. /\ \/ hilo[h] = "sumar" /\ hilo'[h] = "sumando"
           \/ hilo[h] = "restar" /\ hilo'[h] = "restando"
        /\ \A d \in Clientes \ {h} : hilo'[d] = hilo[d]
        /\ leido'[h] = cantidad
        /\ UNCHANGED <<red, tabla, fd, recv, cantidad, contado>>
    BY <1>4 DEF Cargar, Ir, TypeOK
  <2>2. AtiendeLoSuyo(h)'
    BY <1>2, <2>1 DEF AtiendeLoSuyo, red
  <2>3. CuentaOK'
    BY <1>2, <2>1, CuentaQuieta
  <2>. QED BY <1>1, <2>1, <2>2, <2>3, BastaLoSuyo
<1>5. CASE GuardarSuma(h)
  <2>1. /\ hilo[h] = "sumando" /\ hilo'[h] = "operacion"
        /\ \A d \in Clientes \ {h} : hilo'[d] = hilo[d]
        /\ cantidad' = leido[h] + 1
        /\ UNCHANGED <<red, tabla, fd, recv, leido>>
    BY <1>5 DEF GuardarSuma, Ir, TypeOK
  <2>2. /\ ~contado[h] /\ contado'[h]
        /\ \A d \in Clientes \ {h} : contado'[d] = contado[d]
    BY <1>5, <2>1 DEF GuardarSuma, LlegadaOK, TypeOK
  <2>3. Contados' = Contados \cup {h} /\ h \notin Contados /\ SinContar' = SinContar
    BY <2>1, <2>2 DEF Contados, SinContar
  <2>4. Cardinality(Contados') = Cardinality(Contados) + 1
    BY <1>3, <2>3, FS_AddElement
  <2>5. cantidad' = cantidad + 1 /\ cantidad \in Int
    BY <1>2, <2>1 DEF AtiendeLoSuyo, TypeOK
  <2>6. CuentaOK'
    BY <1>2, <1>3, <2>3, <2>4, <2>5 DEF CuentaOK
  <2>7. AtiendeLoSuyo(h)'
    BY <1>2, <2>1 DEF AtiendeLoSuyo, red
  <2>. QED BY <1>1, <2>1, <2>6, <2>7, BastaLoSuyo
<1>6. CASE GuardarResta(h)
  <2>1. /\ hilo[h] = "restando" /\ hilo'[h] = "fin"
        /\ \A d \in Clientes \ {h} : hilo'[d] = hilo[d]
        /\ cantidad' = leido[h] - 1
        /\ UNCHANGED <<red, tabla, fd, recv, leido, contado>>
    BY <1>6 DEF GuardarResta, Ir, TypeOK
  <2>2. cantidad' = cantidad - 1 /\ cantidad \in Int
    BY <1>2, <2>1 DEF AtiendeLoSuyo, TypeOK
  <2>3. ASSUME contado[h] PROVE CuentaOK'
    <3>1. Contados' = Contados \ {h} /\ h \in Contados /\ SinContar' = SinContar
      BY <2>1, <2>3 DEF Contados, SinContar
    <3>2. Cardinality(Contados') = Cardinality(Contados) - 1
      BY <1>3, <3>1, FS_RemoveElement
    <3>. QED BY <1>2, <1>3, <2>2, <3>1, <3>2 DEF CuentaOK
  <2>4. ASSUME ~contado[h] PROVE CuentaOK'
    <3>1. /\ SinContar' = SinContar \cup {h} /\ h \notin SinContar
          /\ Contados' = Contados
      BY <2>1, <2>4 DEF Contados, SinContar
    <3>2. Cardinality(SinContar') = Cardinality(SinContar) + 1
      BY <1>3, <3>1, FS_AddElement
    <3>. QED BY <1>2, <1>3, <2>2, <3>1, <3>2 DEF CuentaOK
  <2>5. CuentaOK'
    BY <2>3, <2>4
  <2>6. AtiendeLoSuyo(h)'
    BY <1>2, <2>1 DEF AtiendeLoSuyo, red
  <2>. QED BY <1>1, <2>1, <2>5, <2>6, BastaLoSuyo
<1>. QED
  BY <1>4, <1>5, <1>6

\* A connection is made, and its peer sends and leaves.
LEMMA DeAUnoPar ==
  ASSUME TypeOK, LlegadaOK, DeAUno, NEW c \in Clientes, Par(c)
  PROVE  DeAUno'
<1>. SUFFICES ASSUME ~solaparon' PROVE DeAUno'
  BY DEF DeAUno
<1>1. UNCHANGED <<tabla, hilo, fd, recv, cuenta>>
  BY DEF Par, Conectar, Identificarse, EnviarMensaje, Enviar, Desconectarse
<1>2. CASE Conectar(c)
  <2>1. ~solaparon /\ Vivos = {} /\ par[c] = "afuera" /\ par' = [par EXCEPT ![c] = "abierto"]
    BY <1>2 DEF Conectar, TypeOK
  <2>2. \A d \in Clientes : hilo[d] \in {"nada", "fin"}
    BY <2>1 DEF Vivos, LlegadaOK
  <2>3. Vivos' \subseteq {c}
    BY <1>1, <2>1 DEF Vivos, TypeOK
  <2>4. ASSUME NEW h \in Clientes PROVE AtiendeLoSuyo(h)'
    BY <1>1, <2>1, <2>2 DEF AtiendeLoSuyo, DeAUno
  <2>5. CuentaOK'
    BY <1>1, <2>1, CuentaQuieta DEF cuenta, DeAUno
  <2>. QED BY <2>3, <2>4, <2>5 DEF DeAUno
<1>3. CASE Identificarse(c) \/ EnviarMensaje(c) \/ Desconectarse(c)
  <2>1. /\ ~solaparon /\ par[c] = "abierto"
        /\ \A d \in Clientes : /\ par'[d] = "afuera" <=> par[d] = "afuera"
                               /\ par[d] = "cerrado" => par'[d] = "cerrado"
    BY <1>3 DEF Identificarse, EnviarMensaje, Enviar, Desconectarse, TypeOK
  <2>2. Vivos' = Vivos
    BY <1>1, <2>1 DEF Vivos
  <2>3. ASSUME NEW h \in Clientes PROVE AtiendeLoSuyo(h)'
    BY <1>1, <2>1 DEF AtiendeLoSuyo, DeAUno, cuenta
  <2>4. CuentaOK'
    BY <1>1, <2>1, CuentaQuieta DEF cuenta, DeAUno
  <2>. QED BY <2>1, <2>2, <2>3, <2>4 DEF DeAUno
<1>. QED
  BY <1>2, <1>3 DEF Par

\* The connection is accepted.
LEMMA DeAUnoAcepta ==
  ASSUME TypeOK, LlegadaOK, DeAUno, ~solaparon, NEW c \in Clientes, Aceptar(c)
  PROVE  DeAUno'
<1>. DEFINE m == Min(Libres)
<1>1. m \in Fds
  BY MinimoLibre DEF Aceptar, Libres
<1>2. /\ par[c] # "afuera" /\ hilo[c] = "nada"
      /\ tabla' = [tabla EXCEPT ![m] = c] /\ fd' = [fd EXCEPT ![c] = m]
      /\ hilo' = [hilo EXCEPT ![c] = "id"]
      /\ UNCHANGED <<red, recv, cuenta, solaparon>>
  BY DEF Aceptar, Ir
<1>. HIDE DEF m
<1>3. tabla'[m] = c /\ fd'[c] = m /\ hilo'[c] = "id"
  BY <1>1, <1>2 DEF TypeOK
<1>4. c \in Vivos
  BY <1>2 DEF Vivos
<1>5. \A d \in Clientes \ {c} : hilo[d] \in {"nada", "fin"} /\ hilo'[d] = hilo[d]
  BY <1>2, <1>4, NadieMas DEF TypeOK
<1>6. Vivos' = Vivos
  BY <1>2, <1>3, <1>5 DEF Vivos, red
<1>7. ASSUME NEW h \in Clientes PROVE AtiendeLoSuyo(h)'
  <2>1. CASE h = c
    BY <1>2, <1>3, <2>1 DEF AtiendeLoSuyo, DeAUno
  <2>2. CASE h # c
    BY <1>2, <1>5, <2>2 DEF AtiendeLoSuyo, DeAUno
  <2>. QED BY <2>1, <2>2
<1>8. CuentaOK'
  BY <1>2, <1>3, <1>5, CuentaQuieta DEF cuenta, DeAUno
<1>. QED
  BY <1>2, <1>6, <1>7, <1>8 DEF DeAUno

\* While connections come one after the other at most one is alive, its thread
\* reads and closes what is its own, and the counter is off by the threads that
\* ended without an identification and by nothing else.
THEOREM DeAUnoCorrecto == Spec => []DeAUno
<1>1. Init => DeAUno
  <2>. SUFFICES ASSUME Init PROVE DeAUno
    OBVIOUS
  <2>1. Vivos = {} /\ Contados = {} /\ SinContar = {}
    BY DEF Init, Vivos, Contados, SinContar
  <2>2. CuentaOK
    BY <2>1, FS_EmptySet DEF CuentaOK, Init
  <2>3. \A h \in Clientes : AtiendeLoSuyo(h)
    BY DEF Init, AtiendeLoSuyo
  <2>. QED BY <2>1, <2>2, <2>3 DEF DeAUno
<1>2. /\ TypeOK /\ RarosOK /\ SinFugaDeDescriptores /\ LlegadaOK
      /\ DeAUno /\ [Next]_vars
      => DeAUno'
  <2>. SUFFICES ASSUME TypeOK, RarosOK, SinFugaDeDescriptores, LlegadaOK, DeAUno, [Next]_vars
                PROVE  DeAUno'
    OBVIOUS
  <2>1. ASSUME NEW c \in Clientes, Par(c) PROVE DeAUno'
    BY <2>1, DeAUnoPar
  <2>2. ASSUME NEW c \in Clientes, Aceptar(c) PROVE DeAUno'
    <3>1. solaparon' = solaparon
      BY <2>2 DEF Aceptar
    <3>. QED BY <2>2, <3>1, DeAUnoAcepta DEF DeAUno
  <2>3. ASSUME NEW h \in Clientes, Hilo(h) PROVE DeAUno'
    <3>1. solaparon' = solaparon
      BY <2>3, DestinoHilo
    <3>2. CASE solaparon
      BY <3>1, <3>2 DEF DeAUno
    <3>3. CASE ~solaparon
      BY <2>3, <3>3, DeAUnoRecibe, DeAUnoCierra, DeAUnoCuenta DEF Hilo
    <3>. QED BY <3>2, <3>3
  <2>4. CASE UNCHANGED vars
    BY <2>4 DEF vars, red, cuenta, DeAUno, AtiendeLoSuyo, CuentaOK, Vivos, Contados,
                SinContar
  <2>. QED
    BY <2>1, <2>2, <2>3, <2>4 DEF Next
<1>. QED
  BY <1>1, <1>2, TipoCorrecto, RarosCorrecto, SiempreSinFugaDeDescriptores,
     LlegadaCorrecta, PTL
  DEF Spec

\* "Se desconecta el worker" (main_storage.c l. 119) is said of a worker that
\* disconnected, while connections come one after the other.
THEOREM SiempreSeDesconectaElQueCerro == Spec => []DeAUnoSeDesconectaElQueCerro
<1>1. DeAUno => DeAUnoSeDesconectaElQueCerro
  BY DEF DeAUno, AtiendeLoSuyo, DeAUnoSeDesconectaElQueCerro, SeDesconectaElQueCerro
<1>. QED
  BY <1>1, DeAUnoCorrecto, PTL

\* The counter of main_storage.c (l. 108, 118), while connections come one after
\* the other: the workers counted and not gone, less those that ended uncounted.
THEOREM SiempreContadorDeAUno == Spec => []ContadorDeAUno
<1>1. DeAUno => ContadorDeAUno
  BY DEF DeAUno, CuentaOK, ContadorDeAUno, SinContar
<1>. QED
  BY <1>1, DeAUnoCorrecto, PTL
=============================================================================
