------------------------ MODULE MasterConexiones_proofs ------------------------
(***************************************************************************)
(* Proofs about the packet of a Query Control, for every path and          *)
(* priority: buffer_create and buffer_add count the same bytes twice, and  *)
(* crear_paquete_y_enviar_master does not send the last three it writes;   *)
(* what is sent has the whole query all the same.                          *)
(***************************************************************************)
EXTENDS MasterConexiones, SequenceTheorems, TLAPS

\* A buffer whose stream is as long as its size and whose offset is inside it; no
\* byte after the offset has been written.
EsBuffer(b) ==
  /\ b.size \in Nat /\ b.offset \in Nat /\ b.offset <= b.size
  /\ b.stream \in Seq(Int) /\ Len(b.stream) = b.size
  /\ \A i \in b.offset + 1 .. b.size : b.stream[i] = Basura

\* malloc gives as many bytes as it is asked for.
LEMMA BasurasSon ==
  ASSUME NEW n \in Nat
  PROVE  /\ Basuras(n) \in Seq(Int) /\ Len(Basuras(n)) = n
         /\ \A i \in 1 .. n : Basuras(n)[i] = Basura
BY DEF Basuras, Basura

\* An integer takes four bytes, and they give it back.
LEMMA Int4YVuelta ==
  ASSUME NEW n \in Nat, n < 128 * 256 * 256 * 256
  PROVE  Int4(n) \in Seq(Int) /\ Len(Int4(n)) = 4 /\ Entero(Int4(n)) = n
<1>1. Int4(n) \in Seq(Int) /\ Len(Int4(n)) = 4
  BY DEF Int4
<1>2. Entero(Int4(n)) =
        (n % 256) + 256 * ((n \div 256) % 256)
          + 256 * 256 * ((n \div (256 * 256)) % 256)
          + 256 * 256 * 256 * ((n \div (256 * 256 * 256)) % 256)
  <2>1. (n \div (256 * 256 * 256)) % 256 < 128
    BY SMTT(30)
  <2> QED
    BY <2>1 DEF Entero, Int4
<1>3. (n % 256) + 256 * ((n \div 256) % 256)
        + 256 * 256 * ((n \div (256 * 256)) % 256)
        + 256 * 256 * 256 * ((n \div (256 * 256 * 256)) % 256) = n
  BY SMTT(30)
<1> QED
  BY <1>1, <1>2, <1>3

\* Two sequences of integers, one after the other.
LEMMA Concatenadas ==
  ASSUME NEW s \in Seq(Int), NEW t \in Seq(Int)
  PROVE  /\ s \o t \in Seq(Int) /\ Len(s \o t) = Len(s) + Len(t)
         /\ \A i \in 1 .. Len(s) : (s \o t)[i] = s[i]
         /\ \A i \in 1 .. Len(t) : (s \o t)[Len(s) + i] = t[i]
<1>1. /\ s \o t \in Seq(Int) /\ Len(s \o t) = Len(s) + Len(t)
      /\ \A i \in 1 .. Len(s) + Len(t) :
           (s \o t)[i] = IF i <= Len(s) THEN s[i] ELSE t[i - Len(s)]
  BY ConcatProperties
<1>2. Len(s) \in Nat /\ Len(t) \in Nat
  BY LenProperties
<1>3. \A i \in 1 .. Len(s) : (s \o t)[i] = s[i]
  BY <1>1, <1>2
<1>4. \A i \in 1 .. Len(t) : (s \o t)[Len(s) + i] = t[i]
  <2> SUFFICES ASSUME NEW i \in 1 .. Len(t) PROVE (s \o t)[Len(s) + i] = t[i]
    OBVIOUS
  <2>1. /\ Len(s) + i \in 1 .. Len(s) + Len(t) /\ ~(Len(s) + i <= Len(s))
        /\ Len(s) + i - Len(s) = i
    BY <1>2
  <2> QED
    BY <1>1, <2>1
<1> QED
  BY <1>1, <1>3, <1>4

\* The stream after buffer_add: longer, the same before the offset, the data after it.
LEMMA StreamAgregado ==
  ASSUME NEW stream \in Seq(Int), NEW data \in Seq(Int), NEW offset \in Nat,
         offset <= Len(stream),
         \A i \in offset + 1 .. Len(stream) : stream[i] = Basura
  PROVE  LET nuevo == Escrito(Agrandar(stream, Len(stream) + Len(data)), offset, data)
         IN  /\ nuevo \in Seq(Int) /\ Len(nuevo) = Len(stream) + Len(data)
             /\ \A i \in 1 .. offset : nuevo[i] = stream[i]
             /\ \A i \in 1 .. Len(data) : nuevo[offset + i] = data[i]
             /\ \A i \in offset + Len(data) + 1 .. Len(stream) + Len(data) :
                  nuevo[i] = Basura
<1> DEFINE n == Len(stream) + Len(data)
           grande == Agrandar(stream, n)
           nuevo == Escrito(grande, offset, data)
<1>1. Len(stream) \in Nat /\ Len(data) \in Nat
  BY LenProperties
<1>2. n \in Nat /\ n - Len(stream) = Len(data)
  BY <1>1
<1>3. grande = stream \o Basuras(Len(data))
  BY <1>2 DEF Agrandar
<1>4. /\ Basuras(Len(data)) \in Seq(Int) /\ Len(Basuras(Len(data))) = Len(data)
      /\ \A i \in 1 .. Len(data) : Basuras(Len(data))[i] = Basura
  BY <1>1, BasurasSon
<1>5. /\ grande \in Seq(Int) /\ Len(grande) = n
      /\ \A i \in 1 .. Len(stream) : grande[i] = stream[i]
      /\ \A i \in 1 .. Len(data) : grande[Len(stream) + i] = Basura
  <2> DEFINE basuras == Basuras(Len(data))
  <2>1. /\ basuras \in Seq(Int) /\ Len(basuras) = Len(data)
        /\ \A i \in 1 .. Len(data) : basuras[i] = Basura
    BY <1>4
  <2> HIDE DEF basuras
  <2>2. /\ stream \o basuras \in Seq(Int)
        /\ Len(stream \o basuras) = Len(stream) + Len(basuras)
        /\ \A i \in 1 .. Len(stream) : (stream \o basuras)[i] = stream[i]
        /\ \A i \in 1 .. Len(basuras) : (stream \o basuras)[Len(stream) + i] = basuras[i]
    BY <2>1, Concatenadas
  <2>3. grande = stream \o basuras
    BY <1>3 DEF basuras
  <2> QED
    BY <2>1, <2>2, <2>3
<1>6. nuevo = [i \in 1 .. n |-> IF i \in offset + 1 .. offset + Len(data)
                                THEN data[i - offset] ELSE grande[i]]
  BY <1>5 DEF Escrito
<1> HIDE DEF grande, nuevo, n
<1>7. nuevo \in Seq(Int) /\ Len(nuevo) = n
  <2>1. \A i \in 1 .. n : grande[i] \in Int
    BY <1>5, ElementOfSeq
  <2>2. \A i \in 1 .. Len(data) : data[i] \in Int
    BY ElementOfSeq
  <2>3. nuevo \in [1 .. n -> Int]
    <3> SUFFICES ASSUME NEW i \in 1 .. n
                 PROVE  (IF i \in offset + 1 .. offset + Len(data)
                         THEN data[i - offset] ELSE grande[i]) \in Int
      BY <1>6
    <3>1. CASE i \in offset + 1 .. offset + Len(data)
      <4>1. i - offset \in 1 .. Len(data)
        BY <1>1, <3>1
      <4> QED
        BY <2>2, <3>1, <4>1
    <3>2. CASE i \notin offset + 1 .. offset + Len(data)
      BY <2>1, <3>2
    <3> QED
      BY <3>1, <3>2
  <2> QED
    BY <1>2, <2>3
<1>8. ASSUME NEW i \in 1 .. offset PROVE nuevo[i] = stream[i]
  <2>1. i \in 1 .. n /\ i \in 1 .. Len(stream) /\ i \notin offset + 1 .. offset + Len(data)
    BY <1>1 DEF n
  <2> QED
    BY <1>5, <1>6, <2>1
<1>9. ASSUME NEW i \in 1 .. Len(data) PROVE nuevo[offset + i] = data[i]
  <2>1. /\ offset + i \in 1 .. n /\ offset + i \in offset + 1 .. offset + Len(data)
        /\ offset + i - offset = i
    BY <1>1 DEF n
  <2> QED
    BY <1>6, <2>1
<1>10. ASSUME NEW i \in offset + Len(data) + 1 .. n PROVE nuevo[i] = Basura
  <2>1. i \in 1 .. n /\ i \notin offset + 1 .. offset + Len(data)
    BY <1>1 DEF n
  <2>2. nuevo[i] = grande[i]
    BY <1>6, <2>1
  <2>3. CASE i <= Len(stream)
    <3>1. i \in 1 .. Len(stream) /\ i \in offset + 1 .. Len(stream)
      BY <1>1, <2>3 DEF n
    <3> QED BY <1>5, <2>2, <3>1
  <2>4. CASE i > Len(stream)
    <3>1. i - Len(stream) \in 1 .. Len(data) /\ Len(stream) + (i - Len(stream)) = i
      BY <1>1, <2>4 DEF n
    <3> QED BY <1>5, <2>2, <3>1
  <2> QED BY <1>1, <2>3, <2>4 DEF n
<1> QED
  BY <1>7, <1>8, <1>9, <1>10 DEF nuevo, grande, n

\* buffer_add appends at the offset, keeps what is before it and leaves a buffer.
LEMMA AgregarAlBuffer ==
  ASSUME NEW b, EsBuffer(b), NEW data \in Seq(Int), NEW c, c = BufferAdd(b, data)
  PROVE  /\ EsBuffer(c)
         /\ c.size = b.size + Len(data)
         /\ c.offset = b.offset + Len(data)
         /\ \A i \in 1 .. b.offset : c.stream[i] = b.stream[i]
         /\ \A i \in 1 .. Len(data) : c.stream[b.offset + i] = data[i]
<1>1. PICK stream \in Seq(Int), offset \in Nat, size \in Nat :
        /\ b.stream = stream /\ b.offset = offset /\ b.size = size
        /\ offset <= size /\ Len(stream) = size
        /\ \A i \in offset + 1 .. size : stream[i] = Basura
  BY DEF EsBuffer
<1>2. Len(data) \in Nat
  BY LenProperties
<1> DEFINE nuevo == Escrito(Agrandar(stream, Len(stream) + Len(data)), offset, data)
<1>3. /\ c.size = size + Len(data) /\ c.offset = offset + Len(data)
      /\ c.stream = nuevo
  BY <1>1 DEF BufferAdd
<1>4. /\ nuevo \in Seq(Int) /\ Len(nuevo) = Len(stream) + Len(data)
      /\ \A i \in 1 .. offset : nuevo[i] = stream[i]
      /\ \A i \in 1 .. Len(data) : nuevo[offset + i] = data[i]
      /\ \A i \in offset + Len(data) + 1 .. Len(stream) + Len(data) : nuevo[i] = Basura
  <2>1. /\ offset <= Len(stream)
        /\ \A i \in offset + 1 .. Len(stream) : stream[i] = Basura
    BY <1>1
  <2> QED
    BY <2>1, StreamAgregado
<1> HIDE DEF nuevo
<1>5. /\ size + Len(data) \in Nat /\ offset + Len(data) \in Nat
      /\ offset + Len(data) <= size + Len(data)
  BY <1>1, <1>2
<1> QED
  BY <1>1, <1>3, <1>4, <1>5 DEF EsBuffer

-----------------------------------------------------------------------------
\* The buffer of a query: its size is twice that of its fields, and its first bytes
\* are the priority, the length and the path.
LEMMA BufferDeConsulta ==
  ASSUME NEW path \in Seq(Int), NEW prioridad \in Int, Len(path) < 128 * 256 * 256 * 256
  PROVE  LET b == LlenarBufferMaster(path, prioridad)
         IN  /\ b.size = 2 * (5 + Len(path))
             /\ b.stream \in Seq(Int) /\ Len(b.stream) = b.size
             /\ b.stream[1] = prioridad
             /\ \A i \in 1 .. 4 : b.stream[1 + i] = Int4(Len(path))[i]
             /\ \A i \in 1 .. Len(path) : b.stream[5 + i] = path[i]
             /\ \A i \in 6 + Len(path) .. 2 * (5 + Len(path)) : b.stream[i] = Basura
<1> DEFINE L == Len(path)
           prio == <<prioridad>>
           b0 == BufferCreate(1 + 4 + L)
           b1 == BufferAdd(b0, prio)
           b2 == BufferAdd(b1, Int4(L))
           b3 == BufferAdd(b2, path)
<1>1. L \in Nat
  BY LenProperties
<1>2. Int4(L) \in Seq(Int) /\ Len(Int4(L)) = 4
  BY <1>1, Int4YVuelta
<1>3. prio \in Seq(Int) /\ Len(prio) = 1 /\ prio[1] = prioridad
  OBVIOUS
<1>4. EsBuffer(b0) /\ b0.size = 5 + L /\ b0.offset = 0
  <2>1. 1 + 4 + L \in Nat /\ 1 + 4 + L = 5 + L
    BY <1>1
  <2> QED
    BY <2>1, BasurasSon DEF BufferCreate, EsBuffer
<1>5. LlenarBufferMaster(path, prioridad) = b3
  BY DEF LlenarBufferMaster, BufferAddString, BufferAddUint8, BufferAddUint32
<1>6. /\ b1 = BufferAdd(b0, prio)
      /\ b2 = BufferAdd(b1, Int4(L))
      /\ b3 = BufferAdd(b2, path)
  OBVIOUS
<1> HIDE DEF b0, b1, b2, b3, prio, L
<1>7. /\ EsBuffer(b1) /\ b1.size = b0.size + Len(prio)
      /\ b1.offset = b0.offset + Len(prio)
      /\ \A i \in 1 .. Len(prio) : b1.stream[b0.offset + i] = prio[i]
  <2>1. PICK data \in Seq(Int) : data = prio
    BY <1>3
  <2>2. b1 = BufferAdd(b0, data)
    BY <1>6, <2>1
  <2>3. /\ EsBuffer(b1) /\ b1.size = b0.size + Len(data)
        /\ b1.offset = b0.offset + Len(data)
        /\ \A i \in 1 .. Len(data) : b1.stream[b0.offset + i] = data[i]
    BY <1>4, <2>2, AgregarAlBuffer
  <2> QED
    BY <2>1, <2>3
<1>8. b1.size = 6 + L /\ b1.offset = 1 /\ b1.stream[1] = prioridad
  <2>1. b1.stream[0 + 1] = prio[1]
    BY <1>3, <1>4, <1>7
  <2> QED
    BY <1>1, <1>3, <1>4, <1>7, <2>1
<1>9. /\ EsBuffer(b2) /\ b2.size = b1.size + Len(Int4(L))
      /\ b2.offset = b1.offset + Len(Int4(L))
      /\ \A i \in 1 .. b1.offset : b2.stream[i] = b1.stream[i]
      /\ \A i \in 1 .. Len(Int4(L)) : b2.stream[b1.offset + i] = Int4(L)[i]
  <2>1. PICK data \in Seq(Int) : data = Int4(L)
    BY <1>2
  <2>2. b2 = BufferAdd(b1, data)
    BY <1>6, <2>1
  <2>3. /\ EsBuffer(b2) /\ b2.size = b1.size + Len(data)
        /\ b2.offset = b1.offset + Len(data)
        /\ \A i \in 1 .. b1.offset : b2.stream[i] = b1.stream[i]
        /\ \A i \in 1 .. Len(data) : b2.stream[b1.offset + i] = data[i]
    BY <1>7, <2>2, AgregarAlBuffer
  <2> QED
    BY <2>1, <2>3
<1>10. /\ b2.size = 10 + L /\ b2.offset = 5 /\ b2.stream[1] = prioridad
       /\ \A i \in 1 .. 4 : b2.stream[1 + i] = Int4(L)[i]
  BY <1>1, <1>2, <1>8, <1>9
<1>11. /\ EsBuffer(b3) /\ b3.size = b2.size + Len(path)
       /\ b3.offset = b2.offset + Len(path)
       /\ \A i \in 1 .. b2.offset : b3.stream[i] = b2.stream[i]
       /\ \A i \in 1 .. Len(path) : b3.stream[b2.offset + i] = path[i]
  BY <1>6, <1>9, AgregarAlBuffer
<1>12. b3.size = 2 * (5 + L) /\ b3.stream \in Seq(Int) /\ Len(b3.stream) = b3.size
  BY <1>1, <1>10, <1>11 DEF EsBuffer, L
<1>13. /\ b3.stream[1] = prioridad
       /\ \A i \in 1 .. 4 : b3.stream[1 + i] = Int4(L)[i]
       /\ \A i \in 1 .. Len(path) : b3.stream[5 + i] = path[i]
  BY <1>10, <1>11
<1>14. \A i \in 6 + L .. 2 * (5 + L) : b3.stream[i] = Basura
  BY <1>1, <1>10, <1>11, <1>12 DEF EsBuffer, L
<1> QED
  BY <1>5, <1>12, <1>13, <1>14 DEF L

\* Two integers of four bytes, one after the other.
LEMMA Cabecera ==
  ASSUME NEW a \in Seq(Int), Len(a) = 4, NEW b \in Seq(Int), Len(b) = 4
  PROVE  /\ a \o b \in Seq(Int) /\ Len(a \o b) = 8
         /\ \A i \in 1 .. 4 : (a \o b)[i] = a[i] /\ (a \o b)[4 + i] = b[i]
<1>1. /\ a \o b \in Seq(Int) /\ Len(a \o b) = Len(a) + Len(b)
      /\ \A i \in 1 .. Len(a) : (a \o b)[i] = a[i]
      /\ \A i \in 1 .. Len(b) : (a \o b)[Len(a) + i] = b[i]
  BY Concatenadas
<1> QED
  BY <1>1

\* The bytes of a query as they are sent: the code, the doubled size, the priority,
\* the length, the path, and what realloc left in the rest.
LEMMA FormaDeConsulta ==
  ASSUME NEW path \in Seq(Int), NEW prioridad \in Int,
         10 + 2 * Len(path) < 128 * 256 * 256 * 256
  PROVE  LET p == PaqueteQuery(path, prioridad)
             L == Len(path)
         IN  /\ L \in Nat /\ p \in Seq(Int) /\ Len(p) = 15 + 2 * L
             /\ \A i \in 1 .. 4 : /\ p[i] = Int4(MENSAJE_MASTER)[i]
                                  /\ p[4 + i] = Int4(10 + 2 * L)[i]
                                  /\ p[9 + i] = Int4(L)[i]
             /\ p[9] = prioridad
             /\ \A i \in 1 .. L : p[13 + i] = path[i]
             /\ \A i \in 14 + L .. 15 + 2 * L : p[i] = Basura
<1> DEFINE L == Len(path)
           b == LlenarBufferMaster(path, prioridad)
           todo == Int4(MENSAJE_MASTER) \o Int4(b.size) \o b.stream
           p == PaqueteQuery(path, prioridad)
<1>1. L \in Nat /\ L < 128 * 256 * 256 * 256 /\ L = Len(path)
  BY LenProperties
<1>2. /\ b.size = 10 + 2 * L
      /\ b.stream \in Seq(Int) /\ Len(b.stream) = b.size
      /\ b.stream[1] = prioridad
      /\ \A i \in 1 .. 4 : b.stream[1 + i] = Int4(L)[i]
      /\ \A i \in 1 .. L : b.stream[5 + i] = path[i]
      /\ \A i \in 6 + L .. 10 + 2 * L : b.stream[i] = Basura
  <2>1. 2 * (5 + L) = 10 + 2 * L
    BY <1>1
  <2>2. /\ b.size = 2 * (5 + L)
        /\ b.stream \in Seq(Int) /\ Len(b.stream) = b.size
        /\ b.stream[1] = prioridad
        /\ \A i \in 1 .. 4 : b.stream[1 + i] = Int4(L)[i]
        /\ \A i \in 1 .. L : b.stream[5 + i] = path[i]
        /\ \A i \in 6 + L .. 2 * (5 + L) : b.stream[i] = Basura
    BY <1>1, BufferDeConsulta
  <2> HIDE DEF b, L
  <2> QED
    BY <2>1, <2>2
<1>3. p = SubSeq(todo, 1, b.size + 1 + 4)
  BY DEF PaqueteQuery, EnviadoAlMaster
<1>4. /\ Int4(b.size) \in Seq(Int) /\ Len(Int4(b.size)) = 4
      /\ Int4(MENSAJE_MASTER) \in Seq(Int) /\ Len(Int4(MENSAJE_MASTER)) = 4
  BY <1>1, <1>2 DEF Int4, MENSAJE_MASTER
<1>5. PICK stream \in Seq(Int), cabecera \in Seq(Int) :
        /\ b.stream = stream /\ Len(stream) = 10 + 2 * L
        /\ cabecera = Int4(MENSAJE_MASTER) \o Int4(b.size) /\ Len(cabecera) = 8
        /\ \A i \in 1 .. 4 : /\ cabecera[i] = Int4(MENSAJE_MASTER)[i]
                             /\ cabecera[4 + i] = Int4(b.size)[i]
  <2>1. PICK m \in Seq(Int) : m = Int4(MENSAJE_MASTER) /\ Len(m) = 4
    BY <1>4
  <2>2. PICK s \in Seq(Int) : s = Int4(b.size) /\ Len(s) = 4
    BY <1>4
  <2>3. PICK c \in Seq(Int) : c = m \o s
    BY <2>1, <2>2, Cabecera
  <2>4. Len(c) = 8 /\ \A i \in 1 .. 4 : c[i] = m[i] /\ c[4 + i] = s[i]
    <3>1. /\ Len(m \o s) = 8
          /\ \A i \in 1 .. 4 : (m \o s)[i] = m[i] /\ (m \o s)[4 + i] = s[i]
      BY <2>1, <2>2, Cabecera
    <3> QED
      BY <2>3, <3>1, Zenon
  <2>5. PICK stream \in Seq(Int) : b.stream = stream /\ Len(stream) = 10 + 2 * L
    BY <1>2
  <2>6. /\ c = Int4(MENSAJE_MASTER) \o Int4(b.size) /\ Len(c) = 8
        /\ \A i \in 1 .. 4 : c[i] = Int4(MENSAJE_MASTER)[i] /\ c[4 + i] = Int4(b.size)[i]
    BY <2>1, <2>2, <2>3, <2>4
  <2> HIDE DEF b, L
  <2> QED
    BY <2>5, <2>6
<1>6. todo = cabecera \o stream
  BY <1>5
<1> HIDE DEF L, b, todo, p
<1>7. /\ todo \in Seq(Int) /\ Len(todo) = 18 + 2 * L
      /\ \A i \in 1 .. 10 + 2 * L : todo[8 + i] = stream[i]
      /\ \A i \in 1 .. 8 : todo[i] = cabecera[i]
  <2>1. /\ cabecera \o stream \in Seq(Int)
        /\ Len(cabecera \o stream) = Len(cabecera) + Len(stream)
        /\ \A i \in 1 .. Len(stream) : (cabecera \o stream)[Len(cabecera) + i] = stream[i]
        /\ \A i \in 1 .. Len(cabecera) : (cabecera \o stream)[i] = cabecera[i]
    BY Concatenadas
  <2>2. /\ todo \in Seq(Int)
        /\ Len(todo) = Len(cabecera) + Len(stream)
        /\ \A i \in 1 .. Len(stream) : todo[Len(cabecera) + i] = stream[i]
        /\ \A i \in 1 .. Len(cabecera) : todo[i] = cabecera[i]
    BY <1>6, <2>1, Zenon
  <2>3. Len(cabecera) = 8 /\ Len(stream) = 10 + 2 * L
    BY <1>5
  <2>4. \A i \in 1 .. 10 + 2 * L : todo[8 + i] = stream[i]
    BY <2>2, <2>3, Zenon
  <2>5. Len(todo) = 8 + (10 + 2 * L)
    BY <2>2, <2>3, Zenon
  <2>6. Len(todo) = 18 + 2 * L
    BY <1>1, <2>5
  <2>7. \A i \in 1 .. 8 : todo[i] = cabecera[i]
    BY <2>2, <2>3, Zenon
  <2> QED
    BY <2>2, <2>4, <2>6, <2>7, Zenon
<1>8. /\ p \in Seq(Int) /\ Len(p) = 15 + 2 * L
      /\ \A i \in 1 .. 15 + 2 * L : p[i] = todo[i]
  <2>1. \A i \in 1 .. 15 + 2 * L : todo[i] \in Int
    BY <1>1, <1>7, ElementOfSeq
  <2>2. p = SubSeq(todo, 1, 15 + 2 * L) /\ 15 + 2 * L \in Int
    BY <1>1, <1>2, <1>3
  <2> DEFINE k == 15 + 2 * L
  <2>3. k \in Int /\ \A i \in 1 .. k : todo[i] \in Int
    BY <2>1, <2>2
  <2> HIDE DEF k
  <2>4. /\ SubSeq(todo, 1, k) \in Seq(Int)
        /\ Len(SubSeq(todo, 1, k)) = IF 1 <= k THEN k - 1 + 1 ELSE 0
        /\ \A i \in 1 .. k - 1 + 1 : SubSeq(todo, 1, k)[i] = todo[1 + i - 1]
    BY <2>3, SubSeqProperties
  <2>5. p = SubSeq(todo, 1, k) /\ k = 15 + 2 * L
    BY <2>2 DEF k
  <2> QED
    BY <1>1, <2>4, <2>5
<1>9. ASSUME NEW i \in 1 .. 4
      PROVE  /\ p[i] = Int4(MENSAJE_MASTER)[i]
             /\ p[4 + i] = Int4(10 + 2 * L)[i]
             /\ p[9 + i] = Int4(L)[i]
  <2>1. /\ i \in 1 .. 15 + 2 * L /\ 4 + i \in 1 .. 15 + 2 * L
        /\ 9 + i \in 1 .. 15 + 2 * L /\ i \in 1 .. 8 /\ 4 + i \in 1 .. 8
        /\ 1 + i \in 1 .. 10 + 2 * L /\ 8 + (1 + i) = 9 + i
    BY <1>1
  <2>2. p[i] = cabecera[i] /\ p[4 + i] = cabecera[4 + i]
    BY <1>7, <1>8, <2>1
  <2>3. p[9 + i] = stream[1 + i]
    BY <1>7, <1>8, <2>1
  <2> QED
    BY <1>2, <1>5, <2>2, <2>3
<1>10. p[9] = prioridad
  <2>1. 9 \in 1 .. 15 + 2 * L /\ 1 \in 1 .. 10 + 2 * L /\ 8 + 1 = 9
    BY <1>1
  <2>2. p[9] = todo[9]
    BY <1>8, <2>1
  <2>3. todo[8 + 1] = stream[1]
    BY <1>7, <2>1
  <2>4. stream[1] = prioridad
    BY <1>2, <1>5
  <2> QED
    BY <2>1, <2>2, <2>3, <2>4
<1>11. ASSUME NEW i \in 1 .. L PROVE p[13 + i] = path[i]
  <2>1. 13 + i \in 1 .. 15 + 2 * L /\ 5 + i \in 1 .. 10 + 2 * L /\ 8 + (5 + i) = 13 + i
    BY <1>1
  <2>2. p[13 + i] = todo[8 + (5 + i)]
    BY <1>8, <2>1
  <2>3. todo[8 + (5 + i)] = stream[5 + i]
    BY <1>7, <2>1
  <2> QED
    BY <1>2, <1>5, <2>2, <2>3
<1>12. ASSUME NEW i \in 14 + L .. 15 + 2 * L PROVE p[i] = Basura
  <2>1. /\ i \in 1 .. 15 + 2 * L /\ i - 8 \in 1 .. 10 + 2 * L
        /\ 8 + (i - 8) = i /\ i - 8 \in 6 + L .. 10 + 2 * L
    BY <1>1
  <2>2. p[i] = todo[8 + (i - 8)]
    BY <1>8, <2>1
  <2>3. todo[8 + (i - 8)] = stream[i - 8]
    BY <1>7, <2>1
  <2> QED
    BY <1>2, <1>5, <2>1, <2>2, <2>3
<1> QED
  BY <1>1, <1>8, <1>9, <1>10, <1>11, <1>12 DEF L, p

\* The bytes of an integer.
LEMMA BytesDeInt4 ==
  ASSUME NEW n \in Nat
  PROVE  /\ Int4(n) \in Seq(Int) /\ Len(Int4(n)) = 4
         /\ \A i \in 1 .. 4 : Int4(n)[i] \in Byte /\ Int4(n)[i] # Basura
<1>1. /\ n % 256 \in Byte /\ (n \div 256) % 256 \in Byte
      /\ (n \div (256 * 256)) % 256 \in Byte
      /\ (n \div (256 * 256 * 256)) % 256 \in Byte
  BY DEF Byte
<1>2. Int4(n) \in Seq(Int) /\ Len(Int4(n)) = 4
  BY DEF Int4
<1> QED
  BY <1>1, <1>2 DEF Int4, Byte, Basura

\* What is sent for a query is long enough for its fields, and the Master that takes
\* it whole, after the code and the size, finds in it the priority and the path that
\* were sent, whatever they are, as long as the doubled size fits a uint32_t
\* (serializacion_envio.c l. 22, 74).
THEOREM ConsultaIdaYVuelta ==
  ASSUME NEW path \in Seq(Byte), NEW prioridad \in Byte,
         10 + 2 * Len(path) < 128 * 256 * 256 * 256,
         NEW n \in Nat, n >= 13 + Len(path), n <= Len(PaqueteQuery(path, prioridad))
  PROVE  LET recibido == SubSeq(PaqueteQuery(path, prioridad), 9, n)
         IN  /\ Len(PaqueteQuery(path, prioridad)) >= 13 + Len(path)
             /\ Deserializable(recibido)
             /\ PaqueteDeserializar(recibido) = [prioridad |-> prioridad, path |-> path]
<1> DEFINE L == Len(path)
           p == PaqueteQuery(path, prioridad)
           r == SubSeq(p, 9, n)
<1>1. /\ L \in Nat /\ path \in Seq(Int) /\ prioridad \in Int
      /\ L < 128 * 256 * 256 * 256 /\ L = Len(path)
      /\ n \in Nat /\ n >= 13 + L /\ n <= Len(p)
  <2>1. Byte \subseteq Int
    BY DEF Byte
  <2>2. path \in Seq(Int) /\ prioridad \in Int
    BY <2>1, SeqMonotonic
  <2> QED
    BY <2>2, LenProperties
<1>2. /\ p \in Seq(Int) /\ Len(p) = 15 + 2 * L
      /\ p[9] = prioridad
      /\ \A i \in 1 .. 4 : p[9 + i] = Int4(L)[i]
      /\ \A i \in 1 .. L : p[13 + i] = path[i]
  BY <1>1, FormaDeConsulta
<1> HIDE DEF L, p, r
<1>3. /\ r \in Seq(Int) /\ Len(r) = n - 8
      /\ \A i \in 1 .. n - 8 : r[i] = p[8 + i]
  <2>1. n \in Int /\ 9 <= n /\ n <= 15 + 2 * L
    BY <1>1, <1>2
  <2>2. \A i \in 9 .. n : p[i] \in Int
    <3> SUFFICES ASSUME NEW i \in 9 .. n PROVE p[i] \in Int
      OBVIOUS
    <3>1. i \in 1 .. Len(p)
      BY <1>1
    <3> QED BY <1>2, <3>1, ElementOfSeq
  <2>3. /\ r \in Seq(Int)
        /\ Len(r) = IF 9 <= n THEN n - 9 + 1 ELSE 0
        /\ \A i \in 1 .. n - 9 + 1 : r[i] = p[9 + i - 1]
    BY <2>1, <2>2, SubSeqProperties DEF r
  <2> QED
    BY <2>1, <2>3
<1>4. /\ r[1] = prioridad
      /\ \A i \in 1 .. 4 : r[1 + i] = Int4(L)[i]
      /\ \A i \in 1 .. L : r[5 + i] = path[i]
  <2>1. 1 \in 1 .. n - 8 /\ 8 + 1 = 9
    BY <1>1
  <2>2. \A i \in 1 .. 4 : 1 + i \in 1 .. n - 8 /\ 8 + (1 + i) = 9 + i
    BY <1>1
  <2>3. \A i \in 1 .. L : 5 + i \in 1 .. n - 8 /\ 8 + (5 + i) = 13 + i
    BY <1>1
  <2>4. r[1] = prioridad
    BY <1>2, <1>3, <2>1
  <2>5. \A i \in 1 .. 4 : r[1 + i] = Int4(L)[i]
    <3> SUFFICES ASSUME NEW i \in 1 .. 4 PROVE r[1 + i] = Int4(L)[i]
      OBVIOUS
    <3>1. r[1 + i] = p[8 + (1 + i)]
      BY <1>3, <2>2
    <3> QED BY <1>2, <2>2, <3>1
  <2>6. \A i \in 1 .. L : r[5 + i] = path[i]
    <3> SUFFICES ASSUME NEW i \in 1 .. L PROVE r[5 + i] = path[i]
      OBVIOUS
    <3>1. r[5 + i] = p[8 + (5 + i)]
      BY <1>3, <2>3
    <3> QED BY <1>2, <2>3, <3>1
  <2> QED
    BY <2>4, <2>5, <2>6
<1>5. Entero(SubSeq(r, 2, 5)) = L
  <2> DEFINE e == SubSeq(r, 2, 5)
  <2>1. \A i \in 2 .. 5 : r[i] = Int4(L)[i - 1]
    <3> SUFFICES ASSUME NEW i \in 2 .. 5 PROVE r[i] = Int4(L)[i - 1]
      OBVIOUS
    <3>1. i - 1 \in 1 .. 4 /\ 1 + (i - 1) = i
      OBVIOUS
    <3> QED
      BY <1>4, <3>1
  <2>2. Int4(L) \in Seq(Int) /\ Len(Int4(L)) = 4 /\ Entero(Int4(L)) = L
    BY <1>1, Int4YVuelta
  <2>3. \A i \in 2 .. 5 : r[i] \in Int
    <3>1. r \in Seq(Int) /\ 5 <= Len(r) /\ Len(r) \in Nat
      BY <1>1, <1>3, LenProperties
    <3> QED
      BY <3>1, ElementOfSeq
  <2>4. \A i \in 1 .. 5 - 2 + 1 : e[i] = r[2 + i - 1]
    BY <2>3, SubSeqProperties
  <2> HIDE DEF e
  <2>5. e[1] = Int4(L)[1] /\ e[2] = Int4(L)[2] /\ e[3] = Int4(L)[3] /\ e[4] = Int4(L)[4]
    BY <2>1, <2>4
  <2> QED
    BY <2>2, <2>5 DEF Entero, e
<1>6. SubSeq(r, 6, 5 + L) = path
  <2> DEFINE t == SubSeq(r, 6, 5 + L)
  <2>1. \A i \in 6 .. 5 + L : r[i] = path[i - 5]
    <3> SUFFICES ASSUME NEW i \in 6 .. 5 + L PROVE r[i] = path[i - 5]
      OBVIOUS
    <3>1. i - 5 \in 1 .. L /\ 5 + (i - 5) = i
      BY <1>1
    <3> QED
      BY <1>4, <3>1
  <2>2. \A i \in 6 .. 5 + L : r[i] \in Int
    BY <1>1, <2>1, ElementOfSeq
  <2>3. /\ t \in Seq(Int)
        /\ Len(t) = IF 6 <= 5 + L THEN 5 + L - 6 + 1 ELSE 0
        /\ \A i \in 1 .. 5 + L - 6 + 1 : t[i] = r[6 + i - 1]
    BY <1>1, <2>2, SubSeqProperties
  <2> HIDE DEF t
  <2>4. Len(t) = Len(path) /\ \A i \in 1 .. Len(t) : t[i] = path[i]
    BY <1>1, <2>1, <2>3
  <2>5. t = path
    BY <1>1, <2>3, <2>4, SeqEqual
  <2> QED
    BY <2>5 DEF t
<1>7. PaqueteDeserializar(r) = [prioridad |-> prioridad, path |-> path]
  BY <1>4, <1>5, <1>6 DEF PaqueteDeserializar
<1>8. Deserializable(r)
  <2>1. \A i \in 1 .. 4 : Int4(L)[i] # Basura
    BY <1>1, BytesDeInt4
  <2>2. \A i \in 1 .. 5 : r[i] # Basura
    <3> SUFFICES ASSUME NEW i \in 1 .. 5 PROVE r[i] # Basura
      OBVIOUS
    <3>1. CASE i = 1
      BY <1>4, <3>1 DEF Byte, Basura
    <3>2. CASE i # 1
      <4>1. i - 1 \in 1 .. 4 /\ 1 + (i - 1) = i
        BY <3>2
      <4> QED BY <1>4, <2>1, <4>1
    <3> QED BY <3>1, <3>2
  <2> QED
    BY <1>1, <1>3, <1>5, <2>2 DEF Deserializable
<1> QED
  BY <1>1, <1>2, <1>7, <1>8 DEF r, p

-----------------------------------------------------------------------------
\* A text of a packet of agregar_a_paquete: its length, the text, and its NUL.
LEMMA TextoConNul ==
  ASSUME NEW s \in Seq(Int)
  PROVE  LET t == Int4(Len(s) + 1) \o s \o <<0>>
         IN  /\ t \in Seq(Int) /\ Len(t) = 5 + Len(s)
             /\ \A i \in 1 .. 4 : t[i] = Int4(Len(s) + 1)[i]
             /\ \A i \in 1 .. Len(s) : t[4 + i] = s[i]
             /\ t[5 + Len(s)] = 0
<1>1. Len(s) \in Nat
  BY LenProperties
<1>2. PICK m \in Seq(Int) : m = Int4(Len(s) + 1) /\ Len(m) = 4
  <2>1. Len(s) + 1 \in Nat
    BY <1>1
  <2> QED
    BY <2>1, BytesDeInt4, Zenon
<1>3. PICK nul \in Seq(Int) : nul = <<0>> /\ Len(nul) = 1 /\ nul[1] = 0
  <2> DEFINE nul == <<0>>
  <2>1. nul \in Seq(Int) /\ Len(nul) = 1 /\ nul[1] = 0
    OBVIOUS
  <2> QED
    BY <2>1
<1>4. PICK a \in Seq(Int) : a = m \o s
  BY <1>2, Concatenadas
<1>5. /\ Len(a) = 4 + Len(s)
      /\ \A i \in 1 .. 4 : a[i] = m[i]
      /\ \A i \in 1 .. Len(s) : a[4 + i] = s[i]
  <2>1. /\ Len(m \o s) = Len(m) + Len(s)
        /\ \A i \in 1 .. Len(m) : (m \o s)[i] = m[i]
        /\ \A i \in 1 .. Len(s) : (m \o s)[Len(m) + i] = s[i]
    BY Concatenadas
  <2> QED
    BY <1>2, <1>4, <2>1, Zenon
<1>6. PICK t \in Seq(Int) : t = a \o nul
  BY <1>3, <1>4, Concatenadas
<1>7. /\ Len(t) = Len(a) + 1
      /\ \A i \in 1 .. Len(a) : t[i] = a[i]
      /\ t[Len(a) + 1] = 0
  <2>1. /\ Len(a \o nul) = Len(a) + Len(nul)
        /\ \A i \in 1 .. Len(a) : (a \o nul)[i] = a[i]
        /\ \A i \in 1 .. Len(nul) : (a \o nul)[Len(a) + i] = nul[i]
    BY Concatenadas
  <2>2. 1 \in 1 .. 1
    OBVIOUS
  <2>3. /\ Len(t) = Len(a) + Len(nul)
        /\ \A i \in 1 .. Len(a) : t[i] = a[i]
        /\ \A i \in 1 .. Len(nul) : t[Len(a) + i] = nul[i]
    BY <1>6, <2>1, Zenon
  <2> QED
    BY <1>3, <2>2, <2>3, Zenon
<1>8. \A i \in 1 .. 4 : t[i] = Int4(Len(s) + 1)[i]
  <2>1. \A i \in 1 .. 4 : i \in 1 .. Len(a)
    BY <1>1, <1>5
  <2> QED
    BY <1>2, <1>5, <1>7, <2>1
<1>9. \A i \in 1 .. Len(s) : t[4 + i] = s[i]
  <2>1. \A n \in Nat : \A i \in 1 .. n : 4 + i \in 1 .. 4 + n
    OBVIOUS
  <2>2. \A i \in 1 .. Len(s) : 4 + i \in 1 .. Len(a)
    BY <1>1, <1>5, <2>1, Zenon
  <2> QED
    BY <1>5, <1>7, <2>2, Zenon
<1>10. t[5 + Len(s)] = 0 /\ Len(t) = 5 + Len(s)
  <2>1. Len(a) + 1 = 5 + Len(s)
    BY <1>1, <1>5
  <2> QED
    BY <1>7, <2>1
<1>11. t = Int4(Len(s) + 1) \o s \o <<0>>
  BY <1>2, <1>3, <1>4, <1>6, Zenon
<1> HIDE <1>2, <1>3, <1>4, <1>6
<1> QED
  BY <1>8, <1>9, <1>10, <1>11, Zenon

\* A code and a size before a stream (serializar_paquete).
LEMMA ConCabecera ==
  ASSUME NEW a \in Seq(Int), Len(a) = 4, NEW b \in Seq(Int), Len(b) = 4,
         NEW s \in Seq(Int)
  PROVE  /\ a \o b \o s \in Seq(Int) /\ Len(a \o b \o s) = 8 + Len(s)
         /\ \A i \in 1 .. 4 : (a \o b \o s)[i] = a[i] /\ (a \o b \o s)[4 + i] = b[i]
         /\ \A i \in 1 .. Len(s) : (a \o b \o s)[8 + i] = s[i]
<1>1. PICK c \in Seq(Int) : c = a \o b
  BY Cabecera
<1>2. Len(c) = 8 /\ \A i \in 1 .. 4 : c[i] = a[i] /\ c[4 + i] = b[i]
  <2>1. Len(a \o b) = 8 /\ \A i \in 1 .. 4 : (a \o b)[i] = a[i] /\ (a \o b)[4 + i] = b[i]
    BY Cabecera
  <2> QED
    BY <1>1, <2>1, Zenon
<1>3. PICK t \in Seq(Int) : t = c \o s
  BY <1>1, Concatenadas
<1>4. /\ Len(t) = 8 + Len(s)
      /\ \A i \in 1 .. 8 : t[i] = c[i]
      /\ \A i \in 1 .. Len(s) : t[8 + i] = s[i]
  <2>1. /\ Len(c \o s) = Len(c) + Len(s)
        /\ \A i \in 1 .. Len(c) : (c \o s)[i] = c[i]
        /\ \A i \in 1 .. Len(s) : (c \o s)[Len(c) + i] = s[i]
    BY Concatenadas
  <2> QED
    BY <1>2, <1>3, <2>1, Zenon
<1>5. \A i \in 1 .. 4 : t[i] = a[i] /\ t[4 + i] = b[i]
  <2>1. \A i \in 1 .. 4 : i \in 1 .. 8 /\ 4 + i \in 1 .. 8
    OBVIOUS
  <2> QED
    BY <1>2, <1>4, <2>1, Zenon
<1>6. t = a \o b \o s
  BY <1>1, <1>3
<1> QED
  BY <1>4, <1>5, <1>6, Zenon

\* An integer of one byte.
LEMMA Int4DeUnByte ==
  ASSUME NEW n \in 0 .. 255
  PROVE  Int4(n)[1] = n /\ Int4(n)[2] = 0 /\ Int4(n)[3] = 0 /\ Int4(n)[4] = 0
<1>1. n % 256 = n /\ (n \div 256) % 256 = 0
  OBVIOUS
<1>2. (n \div (256 * 256)) % 256 = 0 /\ (n \div (256 * 256 * 256)) % 256 = 0
  OBVIOUS
<1> QED
  BY <1>1, <1>2 DEF Int4

\* The bytes of the handshake of a Worker, as they are sent.
LEMMA FormaDeHandshake ==
  ASSUME NEW modulo \in Seq(Int), Len(modulo) = 6, NEW id \in Seq(Int)
  PROVE  LET p == PaqueteHandshake(modulo, id)
             L == Len(id)
         IN  /\ L \in Nat /\ p \in Seq(Int) /\ Len(p) = 24 + L
             /\ \A i \in 1 .. 4 : /\ p[i] = Int4(HANDSHAKE)[i]
                                  /\ p[4 + i] = Int4(16 + L)[i]
                                  /\ p[8 + i] = Int4(7)[i]
                                  /\ p[19 + i] = Int4(L + 1)[i]
             /\ \A i \in 1 .. 6 : p[12 + i] = modulo[i]
             /\ p[19] = 0
             /\ \A i \in 1 .. L : p[23 + i] = id[i]
             /\ p[24 + L] = 0
<1> DEFINE L == Len(id)
           tm == Int4(Len(modulo) + 1) \o modulo \o <<0>>
           ti == Int4(Len(id) + 1) \o id \o <<0>>
           stream == tm \o ti
           p == PaqueteHandshake(modulo, id)
<1>1. L \in Nat
  BY LenProperties
<1>2. p = Int4(HANDSHAKE) \o Int4(Len(stream)) \o stream
  BY DEF PaqueteHandshake
<1>3. /\ tm \in Seq(Int) /\ Len(tm) = 11
      /\ \A i \in 1 .. 4 : tm[i] = Int4(7)[i]
      /\ \A i \in 1 .. 6 : tm[4 + i] = modulo[i]
      /\ tm[11] = 0
  <2>1. Len(modulo) + 1 = 7 /\ 5 + Len(modulo) = 11
    OBVIOUS
  <2>2. /\ tm \in Seq(Int) /\ Len(tm) = 5 + Len(modulo)
        /\ \A i \in 1 .. 4 : tm[i] = Int4(Len(modulo) + 1)[i]
        /\ \A i \in 1 .. Len(modulo) : tm[4 + i] = modulo[i]
        /\ tm[5 + Len(modulo)] = 0
    BY TextoConNul
  <2> HIDE DEF tm
  <2> QED
    BY <2>1, <2>2
<1>4. /\ ti \in Seq(Int) /\ Len(ti) = 5 + L
      /\ \A i \in 1 .. 4 : ti[i] = Int4(L + 1)[i]
      /\ \A i \in 1 .. L : ti[4 + i] = id[i]
      /\ ti[5 + L] = 0
  BY TextoConNul
<1> HIDE DEF tm, ti, L
<1>5. /\ tm \o ti \in Seq(Int) /\ Len(tm \o ti) = 16 + L
      /\ \A i \in 1 .. 11 : (tm \o ti)[i] = tm[i]
      /\ \A i \in 1 .. 5 + L : (tm \o ti)[11 + i] = ti[i]
  <2>1. /\ tm \o ti \in Seq(Int) /\ Len(tm \o ti) = Len(tm) + Len(ti)
        /\ \A i \in 1 .. Len(tm) : (tm \o ti)[i] = tm[i]
        /\ \A i \in 1 .. Len(ti) : (tm \o ti)[Len(tm) + i] = ti[i]
    BY <1>3, <1>4, Concatenadas
  <2>2. Len(tm) + Len(ti) = 16 + L
    BY <1>1, <1>3, <1>4
  <2>3. Len(tm) = 11 /\ Len(ti) = 5 + L
    BY <1>3, <1>4
  <2> QED
    BY <2>1, <2>2, <2>3, Zenon
<1>6. PICK s \in Seq(Int) :
        /\ s = stream /\ Len(s) = 16 + L
        /\ \A i \in 1 .. 11 : s[i] = tm[i]
        /\ \A i \in 1 .. 5 + L : s[11 + i] = ti[i]
  BY <1>5
<1> HIDE DEF stream, p
<1>7. PICK m \in Seq(Int) : m = Int4(HANDSHAKE) /\ Len(m) = 4
  <2>1. HANDSHAKE \in Nat
    BY DEF HANDSHAKE
  <2> QED
    BY <2>1, BytesDeInt4, Zenon
<1>8. PICK n \in Seq(Int) : n = Int4(16 + L) /\ Len(n) = 4
  <2>1. 16 + L \in Nat
    BY <1>1
  <2> QED
    BY <2>1, BytesDeInt4, Zenon
<1>9. p = m \o n \o s
  BY <1>2, <1>6, <1>7, <1>8
<1>10. /\ p \in Seq(Int) /\ Len(p) = 8 + Len(s)
       /\ \A i \in 1 .. 4 : p[i] = m[i] /\ p[4 + i] = n[i]
       /\ \A i \in 1 .. Len(s) : p[8 + i] = s[i]
  <2>1. /\ m \o n \o s \in Seq(Int) /\ Len(m \o n \o s) = 8 + Len(s)
        /\ \A i \in 1 .. 4 : (m \o n \o s)[i] = m[i] /\ (m \o n \o s)[4 + i] = n[i]
        /\ \A i \in 1 .. Len(s) : (m \o n \o s)[8 + i] = s[i]
    <3>1. Len(m) = 4 /\ Len(n) = 4
      BY <1>7, <1>8, Zenon
    <3> QED
      BY <3>1, ConCabecera, Zenon
  <2> QED
    BY <1>9, <2>1, Zenon
<1>11. Len(p) = 24 + L /\ \A i \in 1 .. 16 + L : p[8 + i] = s[i]
  BY <1>1, <1>6, <1>10
<1>12. ASSUME NEW i \in 1 .. 11 PROVE p[8 + i] = tm[i]
  <2>1. i \in 1 .. 16 + L
    BY <1>1
  <2> QED
    BY <1>6, <1>11, <2>1
<1>13. ASSUME NEW i \in 1 .. 5 + L PROVE p[19 + i] = ti[i]
  <2>1. 11 + i \in 1 .. 16 + L /\ 8 + (11 + i) = 19 + i
    BY <1>1
  <2>2. p[8 + (11 + i)] = s[11 + i]
    BY <1>11, <2>1
  <2> QED
    BY <1>6, <2>1, <2>2
<1>14. ASSUME NEW i \in 1 .. 4
       PROVE  /\ p[i] = Int4(HANDSHAKE)[i] /\ p[4 + i] = Int4(16 + L)[i]
              /\ p[8 + i] = Int4(7)[i] /\ p[19 + i] = Int4(L + 1)[i]
  <2>1. i \in 1 .. 11 /\ i \in 1 .. 5 + L
    BY <1>1
  <2>2. p[8 + i] = tm[i] /\ p[19 + i] = ti[i]
    BY <1>12, <1>13, <2>1
  <2> QED
    BY <1>3, <1>4, <1>7, <1>8, <1>10, <2>2
<1>15. ASSUME NEW i \in 1 .. 6 PROVE p[12 + i] = modulo[i]
  <2>1. 4 + i \in 1 .. 11 /\ 8 + (4 + i) = 12 + i
    OBVIOUS
  <2>2. p[8 + (4 + i)] = tm[4 + i]
    BY <1>12, <2>1
  <2> QED
    BY <1>3, <2>1, <2>2
<1>16. p[19] = 0
  <2>1. p[8 + 11] = tm[11]
    BY <1>12
  <2> QED
    BY <1>3, <2>1
<1>17. ASSUME NEW i \in 1 .. L PROVE p[23 + i] = id[i]
  <2>1. 4 + i \in 1 .. 5 + L /\ 19 + (4 + i) = 23 + i
    BY <1>1
  <2>2. p[19 + (4 + i)] = ti[4 + i]
    BY <1>13, <2>1
  <2> QED
    BY <1>4, <2>1, <2>2
<1>18. p[24 + L] = 0
  <2>1. 5 + L \in 1 .. 5 + L /\ 19 + (5 + L) = 24 + L
    BY <1>1
  <2>2. p[19 + (5 + L)] = ti[5 + L]
    BY <1>13, <2>1
  <2> QED
    BY <1>4, <2>1, <2>2
<1> QED
  BY <1>1, <1>10, <1>11, <1>14, <1>15, <1>16, <1>17, <1>18 DEF L, p

-----------------------------------------------------------------------------
(* What each kind of peer sends. *)

\* What a byte of the socket may be.
Octeto == Byte \cup {Basura}

\* A query of L characters: code, size, priority, length, path, and bytes that nobody
\* wrote.
EsConsulta(f, L, p) ==
  /\ f[1] = 6 /\ f[2] = 0 /\ f[3] = 0 /\ f[4] = 0
  /\ \A i \in 1 .. 4 : f[4 + i] = Int4(10 + 2 * L)[i]
  /\ f[9] = p
  /\ \A i \in 1 .. 4 : f[9 + i] = Int4(L)[i]
  /\ \A i \in 14 .. 13 + L : f[i] \in 1 .. 255
  /\ \A i \in 14 + L .. 15 + 2 * L : f[i] = Basura

\* A handshake whose id has L characters: code, size, the module and the id with their
\* lengths and their NULs.
EsHandshake(f, L) ==
  /\ \A i \in 1 .. 4 : f[i] = 0
  /\ \A i \in 1 .. 4 : f[4 + i] = Int4(16 + L)[i]
  /\ f[9] = 7 /\ f[10] = 0 /\ f[11] = 0 /\ f[12] = 0
  /\ \A i \in 13 .. 18 : f[i] \in 65 .. 90
  /\ f[19] = 0
  /\ \A i \in 1 .. 4 : f[19 + i] = Int4(L + 1)[i]
  /\ \A i \in 24 .. 23 + L : f[i] \in 1 .. 255
  /\ f[24 + L] = 0

\* A sequence of integers whose elements are all in a set.
LEMMA ElementosEn ==
  ASSUME NEW S, NEW s \in Seq(Int), \A i \in 1 .. Len(s) : s[i] \in S
  PROVE  s \in Seq(S)
<1>1. Len(s) \in Nat /\ s = [i \in 1 .. Len(s) |-> s[i]]
  BY LenProperties
<1>2. [i \in 1 .. Len(s) |-> s[i]] \in [1 .. Len(s) -> S]
  OBVIOUS
<1>3. s \in [1 .. Len(s) -> S]
  BY <1>1, <1>2, Zenon
<1>4. \A n \in Nat : [1 .. n -> S] \subseteq Seq(S)
  BY SeqDef
<1> QED
  BY <1>1, <1>3, <1>4, Zenon

\* The texts and their lengths (ClientesAssumption).
LEMMA DatosDelCliente ==
  ASSUME NEW c \in Clientes
  PROVE  /\ c.tipo \in {"query", "worker"} /\ c.prioridad \in Byte
         /\ c.texto \in Seq(Byte \ {0}) /\ c.texto \in Seq(Int) /\ c.texto \in Seq(Byte)
         /\ Len(c.texto) \in Nat /\ Len(c.texto) < 256 * 256 * 256
         /\ \A i \in 1 .. Len(c.texto) : c.texto[i] \in 1 .. 255
<1>1. /\ c.tipo \in {"query", "worker"} /\ c.prioridad \in Byte
      /\ c.texto \in Seq(Byte \ {0}) /\ Len(c.texto) < 256 * 256 * 256
  BY ClientesAssumption
<1>2. Byte \ {0} \subseteq Int /\ Byte \ {0} \subseteq 1 .. 255 /\ Byte \ {0} \subseteq Byte
  BY DEF Byte
<1>3. c.texto \in Seq(Int) /\ c.texto \in Seq(Byte) /\ Len(c.texto) \in Nat
  BY <1>1, <1>2, SeqMonotonic, LenProperties
<1>4. \A i \in 1 .. Len(c.texto) : c.texto[i] \in 1 .. 255
  BY <1>1, <1>2, ElementOfSeq
<1> QED
  BY <1>1, <1>3, <1>4

\* The flow of a query.
LEMMA FlujoDeConsulta ==
  ASSUME NEW c \in Clientes, c.tipo = "query"
  PROVE  /\ Flujo(c) \in Seq(Int) /\ Len(Flujo(c)) = 15 + 2 * Len(c.texto)
         /\ EsConsulta(Flujo(c), Len(c.texto), c.prioridad)
         /\ \A i \in 1 .. Len(c.texto) : Flujo(c)[13 + i] = c.texto[i]
<1>1. PICK path \in Seq(Int), prio \in Int, L \in Nat :
        /\ path = c.texto /\ prio = c.prioridad /\ L = Len(path)
        /\ L < 256 * 256 * 256
        /\ \A i \in 1 .. L : path[i] \in 1 .. 255
  <2>1. Byte \subseteq Int
    BY DEF Byte
  <2> QED
    BY <2>1, DatosDelCliente
<1>2. PICK f : f = Flujo(c) /\ f = PaqueteQuery(path, prio)
  BY <1>1 DEF Flujo
<1>3. 10 + 2 * L < 128 * 256 * 256 * 256
  BY <1>1
<1>4. /\ f \in Seq(Int) /\ Len(f) = 15 + 2 * L
      /\ \A i \in 1 .. 4 : /\ f[i] = Int4(MENSAJE_MASTER)[i]
                           /\ f[4 + i] = Int4(10 + 2 * L)[i]
                           /\ f[9 + i] = Int4(L)[i]
      /\ f[9] = prio
      /\ \A i \in 1 .. L : f[13 + i] = path[i]
      /\ \A i \in 14 + L .. 15 + 2 * L : f[i] = Basura
  <2>1. LET p == PaqueteQuery(path, prio)
            l == Len(path)
        IN  /\ l \in Nat /\ p \in Seq(Int) /\ Len(p) = 15 + 2 * l
            /\ \A i \in 1 .. 4 : /\ p[i] = Int4(MENSAJE_MASTER)[i]
                                 /\ p[4 + i] = Int4(10 + 2 * l)[i]
                                 /\ p[9 + i] = Int4(l)[i]
            /\ p[9] = prio
            /\ \A i \in 1 .. l : p[13 + i] = path[i]
            /\ \A i \in 14 + l .. 15 + 2 * l : p[i] = Basura
    <3>1. 10 + 2 * Len(path) < 128 * 256 * 256 * 256
      BY <1>1, <1>3
    <3> QED
      BY <3>1, FormaDeConsulta
  <2> QED
    BY <1>1, <1>2, <2>1, Zenon
<1>5. f[1] = 6 /\ f[2] = 0 /\ f[3] = 0 /\ f[4] = 0
  <2>1. Int4(6)[1] = 6 /\ Int4(6)[2] = 0 /\ Int4(6)[3] = 0 /\ Int4(6)[4] = 0
    <3>1. 6 \in 0 .. 255
      OBVIOUS
    <3> QED
      BY <3>1, Int4DeUnByte
  <2>2. MENSAJE_MASTER = 6 /\ 1 \in 1 .. 4 /\ 2 \in 1 .. 4 /\ 3 \in 1 .. 4 /\ 4 \in 1 .. 4
    BY DEF MENSAJE_MASTER
  <2> QED
    BY <1>4, <2>1, <2>2, Zenon
<1>6. ASSUME NEW i \in 14 .. 13 + L PROVE f[i] \in 1 .. 255
  <2>1. i - 13 \in 1 .. L /\ 13 + (i - 13) = i
    OBVIOUS
  <2>2. f[13 + (i - 13)] = path[i - 13] /\ path[i - 13] \in 1 .. 255
    BY <1>1, <1>4, <2>1, Zenon
  <2> QED
    BY <2>1, <2>2, Zenon
<1>7. EsConsulta(f, L, prio)
  <2>1. /\ \A i \in 1 .. 4 : f[4 + i] = Int4(10 + 2 * L)[i]
        /\ \A i \in 1 .. 4 : f[9 + i] = Int4(L)[i]
        /\ f[9] = prio
        /\ \A i \in 14 + L .. 15 + 2 * L : f[i] = Basura
    BY <1>4, Zenon
  <2> QED
    BY <1>5, <1>6, <2>1, Zenon DEF EsConsulta
<1> QED
  BY <1>1, <1>2, <1>4, <1>7, Zenon

\* The flow of a Worker.
LEMMA FlujoDeWorker ==
  ASSUME NEW c \in Clientes, c.tipo = "worker"
  PROVE  /\ Flujo(c) \in Seq(Int) /\ Len(Flujo(c)) = 24 + Len(c.texto)
         /\ EsHandshake(Flujo(c), Len(c.texto))
         /\ \A i \in 1 .. Len(c.texto) : Flujo(c)[23 + i] = c.texto[i]
<1>1. PICK id \in Seq(Int), L \in Nat :
        id = c.texto /\ L = Len(id) /\ \A i \in 1 .. L : id[i] \in 1 .. 255
  BY DatosDelCliente
<1>2. PICK modulo \in Seq(Int) :
        modulo = Modulo /\ Len(modulo) = 6 /\ \A i \in 1 .. 6 : modulo[i] \in 65 .. 90
  <2>1. Modulo \in Seq(65 .. 90) /\ Len(Modulo) = 6 /\ 65 .. 90 \subseteq Int
    BY ModuloAssumption
  <2>2. Modulo \in Seq(Int)
    BY <2>1, SeqMonotonic
  <2>3. \A i \in 1 .. Len(Modulo) : Modulo[i] \in 65 .. 90
    BY <2>1, ElementOfSeq
  <2>4. \A i \in 1 .. 6 : Modulo[i] \in 65 .. 90
    BY <2>1, <2>3, Zenon
  <2> QED
    BY <2>1, <2>2, <2>4, Zenon
<1>3. PICK f : f = Flujo(c) /\ f = PaqueteHandshake(modulo, id)
  <2>1. "worker" # "query"
    OBVIOUS
  <2> QED
    BY <1>1, <1>2, <2>1 DEF Flujo
<1>4. /\ f \in Seq(Int) /\ Len(f) = 24 + L
      /\ \A i \in 1 .. 4 : /\ f[i] = Int4(HANDSHAKE)[i]
                           /\ f[4 + i] = Int4(16 + L)[i]
                           /\ f[8 + i] = Int4(7)[i]
                           /\ f[19 + i] = Int4(L + 1)[i]
      /\ \A i \in 1 .. 6 : f[12 + i] = modulo[i]
      /\ f[19] = 0
      /\ \A i \in 1 .. L : f[23 + i] = id[i]
      /\ f[24 + L] = 0
  <2>1. LET p == PaqueteHandshake(modulo, id)
            l == Len(id)
        IN  /\ l \in Nat /\ p \in Seq(Int) /\ Len(p) = 24 + l
            /\ \A i \in 1 .. 4 : /\ p[i] = Int4(HANDSHAKE)[i]
                                 /\ p[4 + i] = Int4(16 + l)[i]
                                 /\ p[8 + i] = Int4(7)[i]
                                 /\ p[19 + i] = Int4(l + 1)[i]
            /\ \A i \in 1 .. 6 : p[12 + i] = modulo[i]
            /\ p[19] = 0
            /\ \A i \in 1 .. l : p[23 + i] = id[i]
            /\ p[24 + l] = 0
    BY <1>2, FormaDeHandshake
  <2> QED
    BY <1>1, <1>3, <2>1, Zenon
<1>5. \A i \in 1 .. 4 : f[i] = 0
  <2>1. 0 \in 0 .. 255 /\ \A i \in 1 .. 4 : i = 1 \/ i = 2 \/ i = 3 \/ i = 4
    OBVIOUS
  <2>2. Int4(0)[1] = 0 /\ Int4(0)[2] = 0 /\ Int4(0)[3] = 0 /\ Int4(0)[4] = 0
    BY <2>1, Int4DeUnByte
  <2>3. HANDSHAKE = 0
    BY DEF HANDSHAKE
  <2>4. \A i \in 1 .. 4 : Int4(HANDSHAKE)[i] = 0
    <3> SUFFICES ASSUME NEW i \in 1 .. 4 PROVE Int4(0)[i] = 0
      BY <2>3, Zenon
    <3>1. i = 1 \/ i = 2 \/ i = 3 \/ i = 4
      BY <2>1
    <3> QED
      BY <2>2, <3>1, Zenon
  <2> QED
    BY <1>4, <2>4, Zenon
<1>6. f[9] = 7 /\ f[10] = 0 /\ f[11] = 0 /\ f[12] = 0
  <2>1. Int4(7)[1] = 7 /\ Int4(7)[2] = 0 /\ Int4(7)[3] = 0 /\ Int4(7)[4] = 0
    <3>1. 7 \in 0 .. 255
      OBVIOUS
    <3> QED
      BY <3>1, Int4DeUnByte
  <2>2. /\ 1 \in 1 .. 4 /\ 2 \in 1 .. 4 /\ 3 \in 1 .. 4 /\ 4 \in 1 .. 4
        /\ 8 + 1 = 9 /\ 8 + 2 = 10 /\ 8 + 3 = 11 /\ 8 + 4 = 12
    OBVIOUS
  <2>3. f[8 + 1] = Int4(7)[1] /\ f[8 + 2] = Int4(7)[2] /\ f[8 + 3] = Int4(7)[3]
        /\ f[8 + 4] = Int4(7)[4]
    BY <1>4, <2>2, Zenon
  <2> QED
    BY <2>1, <2>2, <2>3, Zenon
<1>7. ASSUME NEW i \in 13 .. 18 PROVE f[i] \in 65 .. 90
  <2>1. i - 12 \in 1 .. 6 /\ 12 + (i - 12) = i
    OBVIOUS
  <2>2. f[12 + (i - 12)] = modulo[i - 12]
    BY <1>4, <2>1, Zenon
  <2> QED
    BY <1>2, <2>1, <2>2, Zenon
<1>8. ASSUME NEW i \in 24 .. 23 + L PROVE f[i] \in 1 .. 255
  <2>1. i - 23 \in 1 .. L /\ 23 + (i - 23) = i
    OBVIOUS
  <2>2. f[23 + (i - 23)] = id[i - 23]
    BY <1>4, <2>1, Zenon
  <2> QED
    BY <1>1, <2>1, <2>2, Zenon
<1>9. EsHandshake(f, L)
  <2>1. /\ \A i \in 1 .. 4 : f[4 + i] = Int4(16 + L)[i]
        /\ \A i \in 1 .. 4 : f[19 + i] = Int4(L + 1)[i]
        /\ f[19] = 0 /\ f[24 + L] = 0
    BY <1>4, Zenon
  <2> QED
    BY <1>5, <1>6, <1>7, <1>8, <2>1, Zenon DEF EsHandshake
<1> QED
  BY <1>1, <1>3, <1>4, <1>9, Zenon

\* Every byte of a query is a byte, or one that nobody wrote.
LEMMA OctetosDeConsulta ==
  ASSUME NEW f, NEW L \in Nat, NEW p \in Byte, EsConsulta(f, L, p)
  PROVE  \A i \in 1 .. 15 + 2 * L : f[i] \in Octeto
<1> SUFFICES ASSUME NEW i \in 1 .. 15 + 2 * L PROVE f[i] \in Octeto
  OBVIOUS
<1>1. \A j \in 1 .. 4 : Int4(10 + 2 * L)[j] \in Octeto /\ Int4(L)[j] \in Octeto
  <2>1. 10 + 2 * L \in Nat
    OBVIOUS
  <2>2. \A j \in 1 .. 4 : Int4(10 + 2 * L)[j] \in Byte /\ Int4(L)[j] \in Byte
    BY <2>1, BytesDeInt4, Zenon
  <2> QED
    BY <2>2, Zenon DEF Octeto
<1>2. 0 \in Octeto /\ 6 \in Octeto /\ 1 .. 255 \subseteq Octeto /\ Basura \in Octeto
      /\ p \in Octeto
  BY DEF Octeto, Byte
<1>3. \/ i = 1 \/ i = 2 \/ i = 3 \/ i = 4 \/ i - 4 \in 1 .. 4 \/ i = 9
      \/ i - 9 \in 1 .. 4 \/ i \in 14 .. 13 + L \/ i \in 14 + L .. 15 + 2 * L
  OBVIOUS
<1>4. 4 + (i - 4) = i /\ 9 + (i - 9) = i
  OBVIOUS
<1>5. i - 4 \in 1 .. 4 => f[i] = Int4(10 + 2 * L)[i - 4]
  <2>1. i - 4 \in 1 .. 4 => f[4 + (i - 4)] = Int4(10 + 2 * L)[i - 4]
    BY Zenon DEF EsConsulta
  <2> QED BY <1>4, <2>1, Zenon
<1>6. i - 9 \in 1 .. 4 => f[i] = Int4(L)[i - 9]
  <2>1. i - 9 \in 1 .. 4 => f[9 + (i - 9)] = Int4(L)[i - 9]
    BY Zenon DEF EsConsulta
  <2> QED BY <1>4, <2>1, Zenon
<1>7. /\ i \in {1, 2, 3, 4, 9} => f[i] \in {6, 0, p}
      /\ i \in 14 .. 13 + L => f[i] \in 1 .. 255
      /\ i \in 14 + L .. 15 + 2 * L => f[i] = Basura
  BY Zenon DEF EsConsulta
<1> QED
  BY <1>1, <1>2, <1>3, <1>5, <1>6, <1>7, Zenon

\* Every byte of a handshake is a byte.
LEMMA BytesDeHandshake ==
  ASSUME NEW f, NEW L \in Nat, EsHandshake(f, L)
  PROVE  \A i \in 1 .. 24 + L : f[i] \in Byte
<1> SUFFICES ASSUME NEW i \in 1 .. 24 + L PROVE f[i] \in Byte
  OBVIOUS
<1>1. \A j \in 1 .. 4 : Int4(16 + L)[j] \in Byte /\ Int4(L + 1)[j] \in Byte
  <2>1. 16 + L \in Nat /\ L + 1 \in Nat
    OBVIOUS
  <2> QED
    BY <2>1, BytesDeInt4, Zenon
<1>2. 0 \in Byte /\ 7 \in Byte /\ 1 .. 255 \subseteq Byte /\ 65 .. 90 \subseteq Byte
  BY DEF Byte
<1>3. \/ i \in 1 .. 4 \/ i - 4 \in 1 .. 4 \/ i = 9 \/ i = 10 \/ i = 11 \/ i = 12
      \/ i \in 13 .. 18 \/ i = 19 \/ i - 19 \in 1 .. 4 \/ i \in 24 .. 23 + L \/ i = 24 + L
  OBVIOUS
<1>4. 4 + (i - 4) = i /\ 19 + (i - 19) = i
  OBVIOUS
<1>5. i - 4 \in 1 .. 4 => f[i] = Int4(16 + L)[i - 4]
  <2>1. i - 4 \in 1 .. 4 => f[4 + (i - 4)] = Int4(16 + L)[i - 4]
    BY Zenon DEF EsHandshake
  <2> QED BY <1>4, <2>1, Zenon
<1>6. i - 19 \in 1 .. 4 => f[i] = Int4(L + 1)[i - 19]
  <2>1. i - 19 \in 1 .. 4 => f[19 + (i - 19)] = Int4(L + 1)[i - 19]
    BY Zenon DEF EsHandshake
  <2> QED BY <1>4, <2>1, Zenon
<1>7. \A j \in 1 .. 4 : f[j] = 0
  BY Zenon DEF EsHandshake
<1>8. \A j \in 13 .. 18 : f[j] \in 65 .. 90
  BY Zenon DEF EsHandshake
<1>9. \A j \in 24 .. 23 + L : f[j] \in 1 .. 255
  BY Zenon DEF EsHandshake
<1>10. f[9] = 7 /\ f[10] = 0 /\ f[11] = 0 /\ f[12] = 0 /\ f[19] = 0 /\ f[24 + L] = 0
  BY Zenon DEF EsHandshake
<1>11. CASE i \in 1 .. 4
  BY <1>2, <1>7, <1>11, Zenon
<1>12. CASE i \in 13 .. 18
  BY <1>2, <1>8, <1>12, Zenon
<1>13. CASE i \in 24 .. 23 + L
  BY <1>2, <1>9, <1>13, Zenon
<1>14. CASE i - 4 \in 1 .. 4
  BY <1>1, <1>5, <1>14, Zenon
<1>15. CASE i - 19 \in 1 .. 4
  BY <1>1, <1>6, <1>15, Zenon
<1>16. CASE i = 9 \/ i = 10 \/ i = 11 \/ i = 12 \/ i = 19 \/ i = 24 + L
  BY <1>2, <1>10, <1>16, Zenon
<1> QED
  BY <1>3, <1>11, <1>12, <1>13, <1>14, <1>15, <1>16, Zenon

\* Every byte of the socket is a byte, or one that nobody wrote.
LEMMA FlujoTipo ==
  ASSUME NEW c \in Clientes
  PROVE  /\ Flujo(c) \in Seq(Octeto) /\ Flujo(c) \in Seq(Int) /\ Len(Flujo(c)) \in Nat
         /\ \A i \in 1 .. Len(Flujo(c)) : Flujo(c)[i] \in Octeto
<1>1. c.tipo \in {"query", "worker"} /\ c.prioridad \in Byte /\ Len(c.texto) \in Nat
  BY DatosDelCliente
<1>2. Flujo(c) \in Seq(Int) /\ \A i \in 1 .. Len(Flujo(c)) : Flujo(c)[i] \in Octeto
  <2>1. CASE c.tipo = "query"
    BY <1>1, <2>1, FlujoDeConsulta, OctetosDeConsulta
  <2>2. CASE c.tipo = "worker"
    BY <1>1, <2>2, FlujoDeWorker, BytesDeHandshake DEF Octeto
  <2> QED
    BY <1>1, <2>1, <2>2
<1>3. Len(Flujo(c)) \in Nat
  BY <1>2, LenProperties
<1> QED
  BY <1>2, <1>3, ElementosEn

-----------------------------------------------------------------------------
(* Types *)

\* The types, with what a recv has so far: bytes of the socket, and none outside of
\* the recv calls with MSG_WAITALL.  C only receives ids.
TipoInv ==
  /\ TypeOK
  /\ flujo = Flujo(cliente)
  /\ tengo \in [Hilos -> Seq(Octeto)]
  /\ \A h \in Hilos : lugar[h] \notin ConEspera => tengo[h] = <<>>
  /\ lugar["C"] \in {"id_codigo", "id_tamanio", "id_carga"}

\* The smaller of two numbers.
LEMMA MinDeDos ==
  ASSUME NEW a \in Int, NEW b \in Int
  PROVE  Min({a, b}) = IF a <= b THEN a ELSE b
<1> DEFINE m == IF a <= b THEN a ELSE b
<1>1. m \in {a, b} /\ \A y \in {a, b} : m <= y
  OBVIOUS
<1>2. \A x \in {a, b} : (\A y \in {a, b} : x <= y) => x = m
  OBVIOUS
<1>3. (CHOOSE x \in {a, b} : \A y \in {a, b} : x <= y) = m
  BY <1>1, <1>2
<1> QED
  BY <1>3 DEF Min

\* Two sequences of bytes of the socket, one after the other.
LEMMA Juntas ==
  ASSUME NEW s \in Seq(Octeto), NEW t \in Seq(Octeto)
  PROVE  /\ s \o t \in Seq(Octeto) /\ Len(s \o t) = Len(s) + Len(t)
         /\ \A i \in 1 .. Len(s) : (s \o t)[i] = s[i]
         /\ \A i \in 1 .. Len(t) : (s \o t)[Len(s) + i] = t[i]
<1>1. Octeto \subseteq Int
  BY DEF Octeto, Byte, Basura
<1>2. s \in Seq(Int) /\ t \in Seq(Int)
  BY <1>1, SeqMonotonic
<1>3. s \o t \in Seq(Octeto)
  BY ConcatProperties
<1> QED
  BY <1>2, <1>3, Concatenadas

\* How many bytes have been received, have arrived, and are to be received.
LEMMA Cuentas ==
  ASSUME TipoInv
  PROVE  /\ pos \in Nat /\ llegado \in Nat /\ Len(flujo) \in Nat
         /\ pos <= llegado /\ llegado <= Len(flujo)
         /\ Hay \in Nat /\ pos + Hay = llegado
         /\ flujo \in Seq(Octeto) /\ \A i \in 1 .. Len(flujo) : flujo[i] \in Octeto
<1>1. /\ flujo \in Seq(Octeto) /\ Len(flujo) \in Nat
      /\ \A i \in 1 .. Len(flujo) : flujo[i] \in Octeto
  BY FlujoTipo DEF TipoInv, TypeOK
<1> QED
  BY <1>1 DEF TipoInv, TypeOK, Hay

\* The next bytes of those that have arrived.
LEMMA TrozoEs ==
  ASSUME TipoInv, NEW n \in Nat, n <= Hay
  PROVE  /\ Trozo(n) \in Seq(Octeto) /\ Len(Trozo(n)) = n
         /\ \A i \in 1 .. n : Trozo(n)[i] = flujo[pos + i]
<1>1. PICK a \in Int, b \in Int : a = pos + 1 /\ b = pos + n
  BY Cuentas
<1>2. \A i \in a .. b : flujo[i] \in Octeto
  BY <1>1, Cuentas
<1>3. /\ SubSeq(flujo, a, b) \in Seq(Octeto)
      /\ Len(SubSeq(flujo, a, b)) = IF a <= b THEN b - a + 1 ELSE 0
      /\ \A i \in 1 .. b - a + 1 : SubSeq(flujo, a, b)[i] = flujo[a + i - 1]
  BY <1>2, SubSeqProperties
<1>4. PICK t : t = Trozo(n) /\ t = SubSeq(flujo, a, b)
  BY <1>1 DEF Trozo
<1>5. b - a + 1 = n /\ (IF a <= b THEN b - a + 1 ELSE 0) = n
  BY <1>1, Cuentas
<1>6. \A i \in 1 .. n : a + i - 1 = pos + i
  BY <1>1, Cuentas
<1>7. /\ t \in Seq(Octeto) /\ Len(t) = n
      /\ \A i \in 1 .. n : t[i] = flujo[a + i - 1]
  BY <1>3, <1>4, <1>5, Zenon
<1> QED
  BY <1>4, <1>6, <1>7, Zenon

\* The bytes of a complete integer.
LEMMA CompletoEs ==
  ASSUME NEW b \in Seq(Octeto), Completo(b)
  PROVE  /\ Len(b) = 4 /\ \A i \in 1 .. 4 : b[i] \in Byte
         /\ b[1] \in Byte /\ b[2] \in Byte /\ b[3] \in Byte /\ b[4] \in Byte
         /\ Entero(b) \in Nat
<1>1. Len(b) = 4 /\ \A i \in 1 .. 4 : b[i] \in Octeto /\ b[i] # Basura
  BY ElementOfSeq DEF Completo
<1>2. \A i \in 1 .. 4 : b[i] \in Byte
  BY <1>1, Zenon DEF Octeto
<1>3. b[1] \in Byte /\ b[2] \in Byte /\ b[3] \in Byte /\ b[4] \in Byte
  BY <1>2
<1>4. Entero(b) \in Nat
  <2>1. PICK x \in 0 .. 255, y \in 0 .. 255, z \in 0 .. 255, w \in 0 .. 255 :
          x = b[1] /\ y = b[2] /\ z = b[3] /\ w = b[4]
    BY <1>3 DEF Byte
  <2>2. Entero(b) = IF w < 128 THEN x + 256 * y + 256 * 256 * z + 256 * 256 * 256 * w
                              ELSE 256 * 256 * 256 * 64
    BY <2>1 DEF Entero, Enorme
  <2> QED
    BY <2>2
<1> QED
  BY <1>1, <1>2, <1>3, <1>4

\* What an integer may be.
LEMMA ValoresSon ==
  ASSUME NEW b \in Seq(Octeto), NEW v \in Valores(b)
  PROVE  /\ v \in Nat \cup {Otro}
         /\ Completo(b) => v = Entero(b)
<1>1. CASE Completo(b)
  BY <1>1, CompletoEs DEF Valores
<1>2. CASE ~Completo(b)
  BY <1>2 DEF Valores, Atendidos, MENSAJE, MENSAJE_MASTER, ID_WORKER
<1> QED
  BY <1>1, <1>2

\* How the recv of an integer may end.
LEMMA EnteroRecibido ==
  ASSUME TipoInv, NEW h \in Hilos, NEW r \in Enteros(h)
  PROVE  /\ r.n \in Nat /\ r.n <= Hay
         /\ r.bytes \in Seq(Octeto) /\ Len(r.bytes) = Len(tengo[h]) + r.n
         /\ Len(r.bytes) <= 4
         /\ r.bytes = tengo[h] \o Trozo(r.n)
         /\ r.valor \in Valores(r.bytes)
         /\ SeFue(h) => r.n = 0
         /\ ~SeFue(h) => r.n >= 1
         /\ ~SeFue(h) /\ lugar[h] \in ConEspera => Len(r.bytes) = 4
<1> DEFINE T == tengo[h]
<1>1. T \in Seq(Octeto) /\ Len(T) \in Nat /\ Len(T) < 4
  BY LenProperties DEF TipoInv, TypeOK
<1>2. CASE SeFue(h)
  <2>1. r \in [n : {0}, bytes : {T}, valor : Valores(T)]
    BY <1>2 DEF Enteros
  <2>2. r.n = 0 /\ r.bytes = T /\ r.valor \in Valores(T)
    BY <2>1
  <2>3. 0 \in Nat /\ 0 <= Hay
    BY Cuentas
  <2>4. Trozo(0) \in Seq(Octeto) /\ Len(Trozo(0)) = 0
    BY <2>3, TrozoEs
  <2>5. Trozo(0) = <<>>
    BY <2>4, EmptySeq
  <2>6. T \o <<>> = T
    BY <1>1, ConcatEmptySeq
  <2>7. Len(T) + 0 = Len(T) /\ Len(T) <= 4
    BY <1>1
  <2> QED
    BY <1>1, <1>2, <2>2, <2>3, <2>5, <2>6, <2>7, Zenon
<1>3. CASE ~SeFue(h)
  <2> DEFINE n == Min({4 - Len(T), Hay})
             b == T \o Trozo(n)
  <2>1. /\ PuedeRecibir(h) /\ (lugar[h] \in ConEspera => Len(b) = 4)
        /\ r \in [n : {n}, bytes : {b}, valor : Valores(b)]
    BY <1>3 DEF Enteros
  <2>2. n \in Nat /\ n <= Hay /\ n <= 4 - Len(T) /\ n >= 1
    <3>1. 4 - Len(T) \in Int /\ Hay \in Int /\ 4 - Len(T) >= 1
      BY <1>1, Cuentas
    <3>2. n = IF 4 - Len(T) <= Hay THEN 4 - Len(T) ELSE Hay
      BY <3>1, MinDeDos
    <3>3. Hay >= 1
      BY <2>1, <3>1 DEF PuedeRecibir
    <3>4. \A x, y \in Int : x >= 1 /\ y >= 1 =>
            LET m == IF x <= y THEN x ELSE y
            IN  m \in Nat /\ m <= y /\ m <= x /\ m >= 1
      OBVIOUS
    <3> HIDE DEF n
    <3> QED
      BY <3>1, <3>2, <3>3, <3>4, Zenon
  <2> HIDE DEF n
  <2>3. Trozo(n) \in Seq(Octeto) /\ Len(Trozo(n)) = n
    BY <2>2, TrozoEs
  <2>4. b \in Seq(Octeto) /\ Len(b) = Len(T) + n
    <3>1. PICK s \in Seq(Octeto), u \in Seq(Octeto) : s = T /\ u = Trozo(n) /\ Len(u) = n
      BY <1>1, <2>3, Zenon
    <3>2. s \o u \in Seq(Octeto) /\ Len(s \o u) = Len(s) + Len(u)
      BY Juntas
    <3> QED
      BY <3>1, <3>2, Zenon
  <2>5. r.n = n /\ r.bytes = b /\ r.valor \in Valores(b)
    BY <2>1
  <2> HIDE DEF b
  <2>6. Len(b) <= 4
    BY <1>1, <2>2, <2>4
  <2> QED
    BY <1>3, <2>1, <2>2, <2>4, <2>5, <2>6, Zenon DEF b
<1> QED
  BY <1>2, <1>3

\* How many bytes the other recv calls may take.
LEMMA CuantosSon ==
  ASSUME TipoInv, NEW h \in Hilos, NEW k \in Cuantos(h)
  PROVE  k \in Nat /\ k <= Hay /\ (SeFue(h) => k = 0)
<1>1. Hay \in Nat /\ campo[h] \in Nat \cup {Otro}
  BY Cuentas DEF TipoInv, TypeOK
<1>2. CASE SeFue(h) \/ campo[h] = 0
  BY <1>1, <1>2 DEF Cuantos
<1>3. CASE ~(SeFue(h) \/ campo[h] = 0)
  <2>1. \/ k \in 0 .. Hay
        \/ campo[h] # Otro /\ k = Min({campo[h], Hay})
    BY <1>3 DEF Cuantos
  <2>2. ASSUME campo[h] # Otro, k = Min({campo[h], Hay}) PROVE k \in 0 .. Hay
    <3>1. PICK c \in Nat, y \in Nat : c = campo[h] /\ y = Hay
      BY <1>1, <2>2
    <3>2. k = IF c <= y THEN c ELSE y
      BY <2>2, <3>1, MinDeDos
    <3> QED
      BY <3>1, <3>2
  <2> QED
    BY <1>1, <1>3, <2>1, <2>2
<1> QED
  BY <1>2, <1>3

\* A size, up to all that could be received.
LEMMA TopeEs ==
  ASSUME TipoInv, NEW v \in Nat \cup {Otro}
  PROVE  Tope(v) \in Nat \cup {Otro}
<1>1. CASE v = Otro
  BY <1>1 DEF Tope
<1>2. CASE v # Otro
  <2>1. PICK a \in Nat, b \in Nat : a = v /\ b = Len(flujo)
    BY <1>2, Cuentas
  <2>2. Min({a, b}) = IF a <= b THEN a ELSE b
    BY MinDeDos
  <2>3. Tope(v) = Min({a, b})
    BY <1>2, <2>1 DEF Tope
  <2> QED
    BY <2>2, <2>3
<1> QED
  BY <1>1, <1>2

\* Initially.
LEMMA TipoInicial == Init => TipoInv
<1> SUFFICES ASSUME Init PROVE TipoInv
  OBVIOUS
<1>1. Len(flujo) \in Nat
  BY FlujoTipo DEF Init
<1>2. <<>> \in Seq(Octeto) /\ Len(<<>>) = 0
  BY EmptySeq
<1>3. tengo \in [Hilos -> Seq(Octeto)] /\ \A h \in Hilos : Len(tengo[h]) < 4 /\ tengo[h] = <<>>
  BY <1>2 DEF Init
<1>4. lugar \in [Hilos -> Lugares] /\ lugar["C"] = "id_codigo"
  BY DEF Init, Hilos, Lugares
<1>5. llegado \in 0 .. Len(flujo) /\ pos \in 0 .. llegado
  BY <1>1 DEF Init
<1>6. campo \in [Hilos -> Nat \cup {Otro}] /\ codigo \in [Hilos -> {ID_WORKER, Otro}]
  BY DEF Init
<1>7. /\ cliente \in Clientes /\ flujo = Flujo(cliente)
      /\ cerrado \in BOOLEAN /\ abierto \in BOOLEAN /\ celda \in BOOLEAN
      /\ limpia \in BOOLEAN /\ avisado \in BOOLEAN /\ caido \in BOOLEAN
      /\ perdidos \subseteq {"Q", "W"}
      /\ reconocidos \subseteq [valor : {MENSAJE, MENSAJE_MASTER, ID_WORKER}, entero : BOOLEAN]
      /\ planificada = Nada
  BY DEF Init
<1> QED
  BY <1>3, <1>4, <1>5, <1>6, <1>7 DEF TipoInv, TypeOK

\* After the recv of an integer: none of its bytes is kept, and what has been received
\* does not go beyond what has arrived.
LEMMA TrasUnEntero ==
  ASSUME TipoInv, NEW h \in Hilos, NEW r \in Enteros(h), RecibirEntero(h, r)
  PROVE  /\ pos' \in 0 .. llegado /\ pos <= pos' /\ pos' = pos + r.n
         /\ tengo' \in [Hilos -> Seq(Octeto)]
         /\ tengo'[h] = <<>> /\ \A g \in Hilos \ {h} : tengo'[g] = tengo[g]
         /\ \A g \in Hilos : Len(tengo'[g]) < 4
         /\ limpia' \in BOOLEAN
         /\ reconocidos' \subseteq [valor : Atendidos, entero : BOOLEAN]
         /\ r.valor \in Nat \cup {Otro} /\ Tope(r.valor) \in Nat \cup {Otro}
<1>1. pos' = pos + r.n
  BY DEF RecibirEntero
<1>2. pos' \in 0 .. llegado /\ pos <= pos'
  <2>1. PICK p \in Nat, n \in Nat, y \in Nat : p = pos /\ n = r.n /\ y = Hay
    BY Cuentas, EnteroRecibido
  <2>2. n <= y /\ p + y = llegado
    BY <2>1, Cuentas, EnteroRecibido
  <2> QED
    BY <1>1, <2>1, <2>2
<1>3. <<>> \in Seq(Octeto) /\ Len(<<>>) = 0
  BY EmptySeq
<1>4. tengo' = [tengo EXCEPT ![h] = <<>>]
  BY DEF RecibirEntero
<1>5. /\ tengo' \in [Hilos -> Seq(Octeto)]
      /\ tengo'[h] = <<>> /\ \A g \in Hilos \ {h} : tengo'[g] = tengo[g]
  BY <1>3, <1>4 DEF TipoInv
<1>6. \A g \in Hilos : Len(tengo'[g]) < 4
  <2> SUFFICES ASSUME NEW g \in Hilos PROVE Len(tengo'[g]) < 4
    OBVIOUS
  <2>1. CASE g = h
    BY <1>3, <1>5, <2>1
  <2>2. CASE g # h
    BY <1>5, <2>2 DEF TipoInv, TypeOK
  <2> QED BY <2>1, <2>2
<1>7. limpia' \in BOOLEAN /\ reconocidos' \subseteq [valor : Atendidos, entero : BOOLEAN]
  <2>1. Completo(r.bytes) \in BOOLEAN
    BY DEF Completo
  <2>2. [valor : {r.valor} \cap Atendidos, entero : {Completo(r.bytes)}]
          \subseteq [valor : Atendidos, entero : BOOLEAN]
    BY <2>1
  <2>3. reconocidos \subseteq [valor : Atendidos, entero : BOOLEAN] /\ limpia \in BOOLEAN
    BY DEF TipoInv, TypeOK, Atendidos
  <2>4. limpia' \in BOOLEAN
    BY <2>3 DEF RecibirEntero
  <2>5. \/ reconocidos' = reconocidos
        \/ reconocidos' = reconocidos
             \cup [valor : {r.valor} \cap Atendidos, entero : {Completo(r.bytes)}]
    BY DEF RecibirEntero
  <2> QED
    BY <2>2, <2>3, <2>4, <2>5, Zenon
<1>8. r.valor \in Nat \cup {Otro}
  BY EnteroRecibido, ValoresSon
<1>9. Tope(r.valor) \in Nat \cup {Otro}
  BY <1>8, TopeEs
<1> QED
  BY <1>1, <1>2, <1>5, <1>6, <1>7, <1>8, <1>9

\* What stays, or moves as it may, in every step of a thread.
LEMMA TipoPaso ==
  ASSUME TipoInv, [Next]_vars
  PROVE  TipoInv'
<1> USE DEF TipoInv, TypeOK
<1>1. CASE UNCHANGED vars
  BY <1>1 DEF vars, par, hilos, historia
<1>2. CASE Llegar
  <2>1. llegado' \in 0 .. Len(flujo) /\ llegado <= llegado'
    BY <1>2, Cuentas DEF Llegar
  <2> QED
    BY <1>2, <2>1 DEF Llegar, par, hilos, historia
<1>3. CASE Cerrar
  BY <1>3 DEF Cerrar, par, hilos, historia
<1>4. ASSUME NEW h \in Hilos, Acumular(h) PROVE TipoInv'
  <2>1. /\ tengo' = [tengo EXCEPT ![h] = tengo[h] \o Trozo(Hay)]
        /\ Len(tengo[h]) + Hay < 4 /\ pos' = llegado /\ lugar[h] \in ConEspera
    BY <1>4 DEF Acumular
  <2>2. PICK s \in Seq(Octeto), u \in Seq(Octeto) :
          s = tengo[h] /\ u = Trozo(Hay) /\ Len(u) = Hay
    BY Cuentas, TrozoEs
  <2>3. s \o u \in Seq(Octeto) /\ Len(s \o u) < 4
    <3>1. s \o u \in Seq(Octeto) /\ Len(s \o u) = Len(s) + Len(u)
      BY Juntas
    <3> QED
      BY <2>1, <2>2, <3>1, Zenon
  <2>4. tengo' \in [Hilos -> Seq(Octeto)] /\ \A g \in Hilos : Len(tengo'[g]) < 4
    BY <2>1, <2>2, <2>3
  <2>5. \A g \in Hilos : lugar[g] \notin ConEspera => tengo'[g] = <<>>
    BY <2>1
  <2>6. pos' \in 0 .. llegado
    BY <2>1, Cuentas
  <2>7. limpia' \in BOOLEAN
    BY <1>4 DEF Acumular
  <2> QED
    BY <1>4, <2>4, <2>5, <2>6, <2>7 DEF Acumular, par
<1>5. ASSUME NEW h \in Hilos, LeerCelda(h) PROVE TipoInv'
  <2>1. lugar' = [lugar EXCEPT ![h] = "liberar"] /\ lugar[h] = "celda"
    BY <1>5 DEF LeerCelda, Ir
  <2>2. h # "C" /\ h \in {"Q", "W"}
    BY <2>1 DEF Hilos
  <2>3. lugar' \in [Hilos -> Lugares] /\ lugar'["C"] = lugar["C"]
    BY <2>1, <2>2 DEF Lugares, Hilos
  <2>4. \A g \in Hilos : lugar'[g] \notin ConEspera => tengo[g] = <<>>
    BY <2>1 DEF ConEspera
  <2>5. perdidos' \subseteq {"Q", "W"}
    BY <1>5, <2>2 DEF LeerCelda
  <2>6. planificada # Nada => lugar'["Q"] = "planificando"
    BY <2>1 DEF Hilos
  <2> QED
    BY <1>5, <2>3, <2>4, <2>5, <2>6 DEF LeerCelda, par, historia
<1>6. ASSUME NEW h \in Hilos, LiberarCelda(h) PROVE TipoInv'
  <2>1. lugar' = [lugar EXCEPT ![h] = "codigo"] /\ lugar[h] = "liberar"
    BY <1>6 DEF LiberarCelda, Ir
  <2>2. h # "C"
    BY <2>1
  <2>3. lugar' \in [Hilos -> Lugares] /\ lugar'["C"] = lugar["C"]
    BY <2>1, <2>2 DEF Lugares, Hilos
  <2>4. \A g \in Hilos : lugar'[g] \notin ConEspera => tengo[g] = <<>>
    BY <2>1 DEF ConEspera
  <2>5. planificada # Nada => lugar'["Q"] = "planificando"
    BY <2>1 DEF Hilos
  <2>6. caido' \in BOOLEAN /\ celda' \in BOOLEAN
    BY <1>6 DEF LiberarCelda
  <2> QED
    BY <1>6, <2>3, <2>4, <2>5, <2>6 DEF LiberarCelda, par, historia
<1>7. ASSUME NEW h \in Hilos, NoHayOperacion(h) PROVE TipoInv'
  <2>1. lugar' = [lugar EXCEPT ![h] = "fin"] /\ lugar[h] = "codigo" /\ tengo[h] = <<>>
    BY <1>7 DEF NoHayOperacion, Ir
  <2>2. h # "C"
    BY <2>1
  <2>3. lugar' \in [Hilos -> Lugares] /\ lugar'["C"] = lugar["C"]
    BY <2>1, <2>2 DEF Lugares, Hilos
  <2>4. \A g \in Hilos : lugar'[g] \notin ConEspera => tengo[g] = <<>>
    BY <2>1
  <2>5. planificada # Nada => lugar'["Q"] = "planificando"
    BY <2>1 DEF Hilos
  <2>6. abierto' \in BOOLEAN
    BY <1>7 DEF NoHayOperacion
  <2> QED
    BY <1>7, <2>3, <2>4, <2>5, <2>6 DEF NoHayOperacion, par, historia
<1>8. ASSUME NEW h \in Hilos, RecibirOperacion(h) PROVE TipoInv'
  <2>1. PICK r \in Enteros(h) :
          RecibirEntero(h, r)
          /\ \E l \in Destinos(h, r) : lugar' = [lugar EXCEPT ![h] = l]
    BY <1>8 DEF RecibirOperacion, Ir
  <2>2. lugar[h] = "codigo" /\ h # "C"
    BY <1>8 DEF RecibirOperacion
  <2>3. /\ pos' \in 0 .. llegado /\ tengo' \in [Hilos -> Seq(Octeto)]
        /\ tengo'[h] = <<>> /\ \A g \in Hilos \ {h} : tengo'[g] = tengo[g]
        /\ \A g \in Hilos : Len(tengo'[g]) < 4
        /\ limpia' \in BOOLEAN /\ reconocidos' \subseteq [valor : Atendidos, entero : BOOLEAN]
    BY <2>1, TrasUnEntero
  <2>4. Destinos(h, r) \subseteq Lugares
    BY DEF Destinos, Lugares
  <2>5. lugar' \in [Hilos -> Lugares] /\ lugar'["C"] = lugar["C"]
    BY <2>1, <2>2, <2>4 DEF Hilos
  <2>6. \A g \in Hilos : lugar'[g] \notin ConEspera => tengo'[g] = <<>>
    BY <2>1, <2>3
  <2>7. planificada # Nada => lugar'["Q"] = "planificando"
    BY <2>1, <2>2 DEF Hilos
  <2> QED
    BY <1>8, <2>3, <2>5, <2>6, <2>7 DEF RecibirOperacion, par, Atendidos
<1>9. ASSUME RecibirTamanio PROVE TipoInv'
  <2>1. "Q" \in Hilos
    BY DEF Hilos
  <2>2. PICK r \in Enteros("Q") :
          /\ RecibirEntero("Q", r) /\ campo' = [campo EXCEPT !["Q"] = Tope(r.valor)]
          /\ lugar' = [lugar EXCEPT !["Q"] = "carga"] /\ lugar["Q"] = "tamanio"
    BY <1>9 DEF RecibirTamanio, Ir
  <2>3. /\ pos' \in 0 .. llegado /\ tengo' \in [Hilos -> Seq(Octeto)]
        /\ tengo'["Q"] = <<>> /\ \A g \in Hilos \ {"Q"} : tengo'[g] = tengo[g]
        /\ \A g \in Hilos : Len(tengo'[g]) < 4
        /\ limpia' \in BOOLEAN /\ reconocidos' \subseteq [valor : Atendidos, entero : BOOLEAN]
        /\ Tope(r.valor) \in Nat \cup {Otro}
    BY <2>1, <2>2, TrasUnEntero
  <2>4. campo' \in [Hilos -> Nat \cup {Otro}]
    BY <2>2, <2>3
  <2>5. lugar' \in [Hilos -> Lugares] /\ lugar'["C"] = lugar["C"]
    BY <2>2 DEF Hilos, Lugares
  <2>6. \A g \in Hilos : lugar'[g] \notin ConEspera => tengo'[g] = <<>>
    BY <2>2, <2>3
  <2>7. planificada = Nada
    BY <2>2
  <2> QED
    BY <1>9, <2>3, <2>4, <2>5, <2>6, <2>7 DEF RecibirTamanio, par, Atendidos
<1>10. ASSUME RecibirCarga PROVE TipoInv'
  <2>1. "Q" \in Hilos
    BY DEF Hilos
  <2>2. PICK k \in Cuantos("Q") :
          /\ pos' = pos + k /\ limpia' \in BOOLEAN /\ caido' \in BOOLEAN
          /\ campo' = [campo EXCEPT !["Q"] = 0]
          /\ lugar' = [lugar EXCEPT !["Q"] = "planificando"] /\ lugar["Q"] = "carga"
    BY <1>10 DEF RecibirCarga, Ir
  <2>3. pos' \in 0 .. llegado
    BY <2>1, <2>2, CuantosSon, Cuentas
  <2>4. campo' \in [Hilos -> Nat \cup {Otro}]
    BY <2>2
  <2>5. /\ lugar' \in [Hilos -> Lugares] /\ lugar'["C"] = lugar["C"]
        /\ lugar'["Q"] = "planificando"
    BY <2>2 DEF Hilos, Lugares
  <2>6. \A g \in Hilos : lugar'[g] \notin ConEspera => tengo[g] = <<>>
    BY <2>2 DEF ConEspera
  <2> QED
    BY <1>10, <2>2, <2>3, <2>4, <2>5, <2>6 DEF RecibirCarga, par
<1>11. ASSUME RecibirMensaje PROVE TipoInv'
  <2>1. "W" \in Hilos
    BY DEF Hilos
  <2>2. CASE lugar["W"] = "msj_tamanio"
    <3>1. PICK r \in Enteros("W") :
            /\ RecibirEntero("W", r) /\ campo' = [campo EXCEPT !["W"] = Tope(r.valor)]
            /\ lugar' = [lugar EXCEPT !["W"] = "msj_cuerpo"]
            /\ UNCHANGED <<par, llegado, cerrado, abierto, celda, perdidos, codigo,
                           planificada, avisado, caido>>
      BY <1>11, <2>2 DEF RecibirMensaje, Ir
    <3>2. /\ pos' \in 0 .. llegado /\ tengo' \in [Hilos -> Seq(Octeto)]
          /\ tengo'["W"] = <<>> /\ \A g \in Hilos \ {"W"} : tengo'[g] = tengo[g]
          /\ \A g \in Hilos : Len(tengo'[g]) < 4
          /\ limpia' \in BOOLEAN /\ reconocidos' \subseteq [valor : Atendidos, entero : BOOLEAN]
          /\ Tope(r.valor) \in Nat \cup {Otro}
      BY <2>1, <3>1, TrasUnEntero
    <3>3. campo' \in [Hilos -> Nat \cup {Otro}]
      BY <3>1, <3>2
    <3>4. lugar' \in [Hilos -> Lugares] /\ lugar'["C"] = lugar["C"] /\ lugar'["Q"] = lugar["Q"]
      BY <3>1 DEF Hilos, Lugares
    <3>5. \A g \in Hilos : lugar'[g] \notin ConEspera => tengo'[g] = <<>>
      BY <3>1, <3>2
    <3> QED
      BY <3>1, <3>2, <3>3, <3>4, <3>5 DEF par, Atendidos
  <2>3. CASE lugar["W"] = "msj_cuerpo"
    <3>1. PICK k \in Cuantos("W") :
            /\ pos' = pos + k /\ limpia' \in BOOLEAN
            /\ IF campo["W"] > k /\ ~SeFue("W")
               THEN Ir("W", "msj_cuerpo") /\ campo' = [campo EXCEPT !["W"] = @ - k]
               ELSE Ir("W", "id_codigo") /\ campo' = [campo EXCEPT !["W"] = 0]
            /\ UNCHANGED <<par, llegado, cerrado, abierto, celda, perdidos, tengo, codigo,
                           planificada, reconocidos, avisado, caido>>
      BY <1>11, <2>3 DEF RecibirMensaje
    <3>2. k \in Nat /\ pos' \in 0 .. llegado
      BY <2>1, <3>1, CuantosSon, Cuentas
    <3>3. campo' \in [Hilos -> Nat \cup {Otro}]
      <4>1. CASE campo["W"] > k /\ ~SeFue("W")
        <5>1. PICK c \in Int : c = campo["W"] /\ (c \in Nat \/ c = Otro)
          BY <2>1 DEF Otro
        <5>2. c > k /\ c \in Nat
          BY <3>2, <4>1, <5>1 DEF Otro
        <5>3. c - k \in Nat
          BY <3>2, <5>2
        <5>4. campo' = [campo EXCEPT !["W"] = c - k]
          BY <3>1, <4>1, <5>1
        <5> QED BY <5>3, <5>4
      <4>2. CASE ~(campo["W"] > k /\ ~SeFue("W"))
        BY <3>1, <4>2
      <4> QED BY <4>1, <4>2
    <3>4. /\ lugar' = [lugar EXCEPT !["W"] = "msj_cuerpo"]
             \/ lugar' = [lugar EXCEPT !["W"] = "id_codigo"]
      BY <3>1 DEF Ir
    <3>5. lugar' \in [Hilos -> Lugares] /\ lugar'["C"] = lugar["C"] /\ lugar'["Q"] = lugar["Q"]
      BY <3>4 DEF Hilos, Lugares
    <3>6. \A g \in Hilos : lugar'[g] \notin ConEspera => tengo'[g] = <<>>
      BY <2>3, <3>1, <3>4 DEF ConEspera
    <3> QED
      BY <3>1, <3>2, <3>3, <3>5, <3>6 DEF par
  <2> QED
    BY <1>11, <2>2, <2>3 DEF RecibirMensaje
<1>12. ASSUME NEW h \in Hilos \ {"Q"}, RecibirId(h) PROVE TipoInv'
  <2>1. PICK r \in Enteros(h), sitio \in {"id_tamanio", "id_carga"} :
          /\ RecibirEntero(h, r) /\ lugar' = [lugar EXCEPT ![h] = sitio]
          /\ lugar[h] \in {"id_codigo", "id_tamanio"}
          /\ \/ campo' = [campo EXCEPT ![h] = Tope(r.valor)] /\ codigo' = codigo
             \/ /\ codigo' = [codigo EXCEPT ![h] =
                                IF r.valor = ID_WORKER THEN ID_WORKER ELSE Otro]
                /\ campo' = campo
          /\ UNCHANGED <<par, llegado, cerrado, abierto, celda, perdidos,
                         planificada, avisado, caido>>
    BY <1>12 DEF RecibirId, Ir
  <2>2. /\ pos' \in 0 .. llegado /\ tengo' \in [Hilos -> Seq(Octeto)]
        /\ tengo'[h] = <<>> /\ \A g \in Hilos \ {h} : tengo'[g] = tengo[g]
        /\ \A g \in Hilos : Len(tengo'[g]) < 4
        /\ limpia' \in BOOLEAN /\ reconocidos' \subseteq [valor : Atendidos, entero : BOOLEAN]
        /\ Tope(r.valor) \in Nat \cup {Otro}
    BY <2>1, TrasUnEntero
  <2>3. campo' \in [Hilos -> Nat \cup {Otro}] /\ codigo' \in [Hilos -> {ID_WORKER, Otro}]
    BY <2>1, <2>2
  <2>4. /\ lugar' \in [Hilos -> Lugares] /\ lugar'["Q"] = lugar["Q"]
        /\ lugar'["C"] \in {"id_codigo", "id_tamanio", "id_carga"}
    BY <2>1 DEF Hilos, Lugares
  <2>5. \A g \in Hilos : lugar'[g] \notin ConEspera => tengo'[g] = <<>>
    BY <2>1, <2>2
  <2> QED
    BY <2>1, <2>2, <2>3, <2>4, <2>5 DEF par, Atendidos
<1>13. ASSUME NEW h \in Hilos \ {"Q"}, RecibirCargaId(h) PROVE TipoInv'
  <2>1. PICK k \in Cuantos(h) : pos' = pos + k
    BY <1>13 DEF RecibirCargaId
  <2>2. /\ lugar' = [lugar EXCEPT ![h] = "id_codigo"] /\ lugar[h] = "id_carga"
        /\ campo' = [campo EXCEPT ![h] = 0] /\ codigo' = [codigo EXCEPT ![h] = Otro]
        /\ limpia' \in BOOLEAN /\ caido' \in BOOLEAN /\ avisado' \in BOOLEAN
        /\ UNCHANGED <<par, llegado, cerrado, abierto, celda, perdidos, tengo,
                       planificada, reconocidos>>
    BY <1>13 DEF RecibirCargaId, Ir
  <2>3. pos' \in 0 .. llegado
    BY <2>1, CuantosSon, Cuentas
  <2>4. campo' \in [Hilos -> Nat \cup {Otro}] /\ codigo' \in [Hilos -> {ID_WORKER, Otro}]
    BY <2>2
  <2>5. /\ lugar' \in [Hilos -> Lugares] /\ lugar'["Q"] = lugar["Q"]
        /\ lugar'["C"] \in {"id_codigo", "id_tamanio", "id_carga"}
    BY <2>2 DEF Hilos, Lugares
  <2>6. \A g \in Hilos : lugar'[g] \notin ConEspera => tengo'[g] = <<>>
    BY <2>2 DEF ConEspera
  <2> QED
    BY <2>2, <2>3, <2>4, <2>5, <2>6 DEF par
<1> QED
  BY <1>1, <1>2, <1>3, <1>4, <1>5, <1>6, <1>7, <1>8, <1>9, <1>10, <1>11, <1>12, <1>13
     DEF Next, Hilo, Hilos

\* The connection of the Master is always within its types: no count passes what has
\* arrived, and the planner is given something only by Q, at its end.
THEOREM TipoDelMaster == Spec => []TypeOK
<1>1. TipoInv /\ [Next]_vars => TipoInv'
  BY TipoPaso
<1>2. TipoInv => TypeOK
  BY DEF TipoInv
<1> QED
  BY TipoInicial, <1>1, <1>2, PTL DEF Spec

-----------------------------------------------------------------------------
(* What the planner is given when Q receives alone *)

\* C and W leave Q where it was, with what it had; if nothing has spoilt what Q is
\* receiving, they have received nothing.
LEMMA PasoDeOtro ==
  ASSUME TipoInv, NEW h \in Hilos \ {"Q"}, Hilo(h)
  PROVE  /\ lugar'["Q"] = lugar["Q"] /\ tengo'["Q"] = tengo["Q"]
         /\ campo'["Q"] = campo["Q"] /\ planificada' = planificada
         /\ UNCHANGED par /\ llegado' = llegado /\ cerrado' = cerrado
         /\ limpia' => limpia /\ pos' = pos
<1> USE DEF TipoInv, TypeOK
<1>1. "Q" \in Hilos /\ h # "Q" /\ h \in Hilos /\ pos \in Nat
  BY Cuentas DEF Hilos
<1>2. \A r : r.n = 0 => pos + r.n = pos
  BY <1>1
<1>3. \A k : k = 0 => pos + k = pos
  BY <1>1
<1>4. ASSUME NEW r \in Enteros(h), RecibirEntero(h, r)
      PROVE  tengo'["Q"] = tengo["Q"] /\ (limpia' => limpia /\ pos' = pos)
  BY <1>1, <1>2, <1>4 DEF RecibirEntero
<1>5. CASE Acumular(h)
  BY <1>1, <1>5 DEF Acumular
<1>6. CASE LeerCelda(h)
  BY <1>1, <1>6 DEF LeerCelda, Ir, historia
<1>7. CASE LiberarCelda(h)
  BY <1>1, <1>7 DEF LiberarCelda, Ir, historia
<1>8. CASE NoHayOperacion(h)
  BY <1>1, <1>8 DEF NoHayOperacion, Ir, historia
<1>9. CASE RecibirOperacion(h)
  <2>1. PICK r \in Enteros(h) : RecibirEntero(h, r)
    BY <1>9 DEF RecibirOperacion
  <2>2. lugar'["Q"] = lugar["Q"]
    BY <1>1, <1>9 DEF RecibirOperacion, Ir
  <2> QED
    BY <1>4, <1>9, <2>1, <2>2 DEF RecibirOperacion
<1>10. CASE h = "W" /\ RecibirMensaje
  <2>1. CASE lugar["W"] = "msj_tamanio"
    <3>1. PICK r \in Enteros("W") :
            RecibirEntero("W", r) /\ campo' = [campo EXCEPT !["W"] = Tope(r.valor)]
      BY <1>10, <2>1 DEF RecibirMensaje
    <3>2. lugar'["Q"] = lugar["Q"] /\ campo'["Q"] = campo["Q"]
      BY <1>1, <1>10, <2>1, <3>1 DEF RecibirMensaje, Ir
    <3> QED
      BY <1>4, <1>10, <2>1, <3>1, <3>2 DEF RecibirMensaje
  <2>2. CASE lugar["W"] # "msj_tamanio"
    <3>1. PICK k \in Cuantos("W") : pos' = pos + k /\ limpia' = (limpia /\ k = 0)
      BY <1>10, <2>2 DEF RecibirMensaje
    <3>2. lugar'["Q"] = lugar["Q"] /\ campo'["Q"] = campo["Q"]
      BY <1>1, <1>10, <2>2 DEF RecibirMensaje, Ir
    <3>3. limpia' => limpia /\ pos' = pos
      BY <1>3, <3>1, Zenon
    <3> QED
      BY <1>10, <2>2, <3>2, <3>3 DEF RecibirMensaje
  <2> QED
    BY <2>1, <2>2
<1>11. CASE RecibirId(h)
  <2>1. PICK r \in Enteros(h) :
          /\ RecibirEntero(h, r)
          /\ campo' = [campo EXCEPT ![h] = Tope(r.valor)] \/ campo' = campo
    BY <1>11 DEF RecibirId
  <2>2. lugar'["Q"] = lugar["Q"] /\ campo'["Q"] = campo["Q"]
    BY <1>1, <1>11, <2>1 DEF RecibirId, Ir
  <2> QED
    BY <1>4, <1>11, <2>1, <2>2 DEF RecibirId
<1>12. CASE RecibirCargaId(h)
  <2>1. limpia' => limpia /\ pos' = pos
    BY <1>3, <1>12, Zenon DEF RecibirCargaId
  <2>2. lugar'["Q"] = lugar["Q"] /\ campo'["Q"] = campo["Q"]
    BY <1>1, <1>12 DEF RecibirCargaId, Ir
  <2> QED
    BY <1>12, <2>1, <2>2 DEF RecibirCargaId
<1> QED
  BY <1>1, <1>5, <1>6, <1>7, <1>8, <1>9, <1>10, <1>11, <1>12 DEF Hilo

\* While nothing has spoilt what Q is receiving, all that has been received is what Q
\* has received: nothing, part of the code, the code, the code and the size.
LimpiaInv ==
  limpia /\ cliente.tipo = "query" =>
    /\ lugar["Q"] \in {"celda", "liberar"} => pos = 0
    /\ lugar["Q"] = "codigo" => pos = Len(tengo["Q"])
    /\ lugar["Q"] = "tamanio" => pos = 4
    /\ lugar["Q"] = "carga" => pos = 8
    /\ planificada # Nada =>
         planificada = [prioridad |-> cliente.prioridad, path |-> cliente.texto]

\* What Q takes after the code and the size is the query.
LEMMA CargaLimpia ==
  ASSUME TipoInv, cliente.tipo = "query", pos = 8, NEW k \in Nat, k <= Hay,
         k >= Min({5 + Len(cliente.texto), Len(flujo) - 8})
  PROVE  /\ Deserializable(Trozo(k))
         /\ PaqueteDeserializar(Trozo(k)) =
              [prioridad |-> cliente.prioridad, path |-> cliente.texto]
<1>1. PICK path \in Seq(Byte), prio \in Byte, L \in Nat :
        /\ path = cliente.texto /\ prio = cliente.prioridad /\ L = Len(path)
        /\ L < 256 * 256 * 256
  BY DatosDelCliente DEF TipoInv, TypeOK
<1>2. flujo = PaqueteQuery(path, prio) /\ Len(flujo) = 15 + 2 * L
  BY <1>1, FlujoDeConsulta DEF TipoInv, TypeOK, Flujo
<1>3. k >= 5 + L
  <2>1. Len(flujo) - 8 = 7 + 2 * L
    BY <1>1, <1>2
  <2>2. PICK x \in Nat, y \in Nat :
          x = 5 + Len(cliente.texto) /\ y = Len(flujo) - 8 /\ x = 5 + L /\ y = 7 + 2 * L
    BY <1>1, <2>1
  <2>3. Min({x, y}) = IF x <= y THEN x ELSE y
    BY MinDeDos
  <2>4. k >= Min({x, y})
    BY <2>2
  <2> QED
    BY <2>2, <2>3, <2>4
<1>4. PICK n \in Nat : n = pos + k /\ n >= 13 + L /\ n <= Len(PaqueteQuery(path, prio))
  BY <1>1, <1>2, <1>3, Cuentas
<1>5. 10 + 2 * Len(path) < 128 * 256 * 256 * 256 /\ n >= 13 + Len(path)
  BY <1>1, <1>4
<1>6. /\ Deserializable(SubSeq(PaqueteQuery(path, prio), 9, n))
      /\ PaqueteDeserializar(SubSeq(PaqueteQuery(path, prio), 9, n)) =
           [prioridad |-> prio, path |-> path]
  BY <1>4, <1>5, ConsultaIdaYVuelta
<1>7. Trozo(k) = SubSeq(PaqueteQuery(path, prio), 9, n)
  BY <1>2, <1>4 DEF Trozo
<1> QED
  BY <1>1, <1>6, <1>7

\* Every step preserves it.
LEMMA LimpiaPaso ==
  ASSUME TipoInv, LimpiaInv, [Next]_vars
  PROVE  LimpiaInv'
<1>1. "Q" \in Hilos /\ pos \in Nat
  BY Cuentas DEF Hilos
<1>2. CASE UNCHANGED vars
  BY <1>2 DEF vars, par, hilos, historia, LimpiaInv
<1>3. CASE Llegar
  BY <1>3 DEF Llegar, par, hilos, historia, LimpiaInv
<1>4. CASE Cerrar
  BY <1>4 DEF Cerrar, par, hilos, historia, LimpiaInv
<1>5. ASSUME NEW h \in Hilos \ {"Q"}, Hilo(h) PROVE LimpiaInv'
  BY <1>5, PasoDeOtro DEF LimpiaInv, par
<1>6. CASE Acumular("Q")
  <2>1. /\ tengo' = [tengo EXCEPT !["Q"] = tengo["Q"] \o Trozo(Hay)]
        /\ lugar["Q"] \in ConEspera /\ lugar' = lugar /\ pos' = llegado
        /\ limpia' => limpia
        /\ UNCHANGED <<cliente, planificada>>
    BY <1>6 DEF Acumular, par
  <2>2. PICK s \in Seq(Octeto), u \in Seq(Octeto) :
          s = tengo["Q"] /\ u = Trozo(Hay) /\ Len(u) = Hay
    BY <1>1, Cuentas, TrozoEs DEF TipoInv
  <2>3. Len(s \o u) = Len(s) + Len(u)
    BY Juntas
  <2>4. tengo'["Q"] = s \o u
    BY <1>1, <2>1, <2>2 DEF TipoInv
  <2>5. pos = Len(tengo["Q"]) => pos' = Len(tengo'["Q"])
    <3>1. Len(tengo'["Q"]) = Len(tengo["Q"]) + Hay
      BY <2>2, <2>3, <2>4, Zenon
    <3>2. pos' = pos + Hay
      BY <2>1, Cuentas
    <3> QED BY <3>1, <3>2, Zenon
  <2> QED
    BY <2>1, <2>5 DEF LimpiaInv, ConEspera
<1>7. CASE LeerCelda("Q")
  BY <1>1, <1>7 DEF LeerCelda, Ir, par, historia, LimpiaInv, TipoInv, TypeOK
<1>8. CASE LiberarCelda("Q")
  <2>1. tengo["Q"] = <<>> /\ Len(<<>>) = 0
    BY <1>1, <1>8, EmptySeq DEF LiberarCelda, TipoInv, ConEspera
  <2> QED
    BY <1>1, <1>8, <2>1 DEF LiberarCelda, Ir, par, historia, LimpiaInv, TipoInv, TypeOK
<1>9. CASE NoHayOperacion("Q")
  BY <1>1, <1>9 DEF NoHayOperacion, Ir, par, historia, LimpiaInv, TipoInv, TypeOK
<1>10. CASE RecibirOperacion("Q")
  <2>1. PICK r \in Enteros("Q") :
          RecibirEntero("Q", r)
          /\ \E l \in Destinos("Q", r) : lugar' = [lugar EXCEPT !["Q"] = l]
    BY <1>10 DEF RecibirOperacion, Ir
  <2>2. lugar'["Q"] \in {"tamanio", "fin"} /\ lugar["Q"] = "codigo"
    BY <1>1, <1>10, <2>1 DEF RecibirOperacion, Destinos, TipoInv, TypeOK
  <2>3. limpia' => limpia /\ Len(r.bytes) = 4
    BY <2>1 DEF RecibirEntero
  <2>4. ASSUME limpia', cliente.tipo = "query" PROVE pos' = 4
    <3>1. PICK n \in Nat, m \in Nat : n = r.n /\ m = Len(tengo["Q"])
      BY <1>1, EnteroRecibido, LenProperties DEF TipoInv
    <3>2. Len(r.bytes) = m + n /\ pos = m /\ pos' = pos + n
      BY <1>1, <2>1, <2>2, <2>3, <2>4, <3>1, EnteroRecibido DEF LimpiaInv, RecibirEntero
    <3> QED
      BY <2>3, <2>4, <3>2
  <2>5. cliente' = cliente /\ planificada' = planificada
    BY <1>10 DEF RecibirOperacion, par
  <2> QED
    BY <2>2, <2>3, <2>4, <2>5 DEF LimpiaInv
<1>11. CASE RecibirTamanio
  <2>1. PICK r \in Enteros("Q") : RecibirEntero("Q", r)
    BY <1>11 DEF RecibirTamanio
  <2>2. lugar["Q"] = "tamanio" /\ lugar'["Q"] = "carga" /\ tengo["Q"] = <<>>
    BY <1>1, <1>11 DEF RecibirTamanio, Ir, TipoInv, TypeOK, ConEspera
  <2>3. limpia' => limpia /\ Len(r.bytes) = 4
    BY <2>1 DEF RecibirEntero
  <2>4. ASSUME limpia', cliente.tipo = "query" PROVE pos' = 8
    <3>1. r.n \in Nat /\ Len(r.bytes) = Len(tengo["Q"]) + r.n /\ pos' = pos + r.n
      BY <1>1, <2>1, EnteroRecibido DEF RecibirEntero
    <3>2. Len(tengo["Q"]) = 0
      BY <2>2, EmptySeq
    <3>3. pos = 4
      BY <2>2, <2>3, <2>4 DEF LimpiaInv
    <3>4. PICK n \in Nat : n = r.n /\ 4 = 0 + n
      BY <2>3, <2>4, <3>1, <3>2
    <3> QED
      BY <3>1, <3>3, <3>4
  <2>5. cliente' = cliente /\ planificada' = planificada
    BY <1>11 DEF RecibirTamanio, par
  <2> QED
    BY <2>2, <2>3, <2>4, <2>5 DEF LimpiaInv
<1>12. CASE RecibirCarga
  <2>1. PICK k \in Cuantos("Q") :
          /\ limpia' = (limpia /\ k >= Min({5 + Len(cliente.texto), Len(flujo) - 8}))
          /\ IF Deserializable(Trozo(k))
             THEN planificada' = PaqueteDeserializar(Trozo(k)) /\ UNCHANGED caido
             ELSE planificada' = Dudosa /\ caido' \in BOOLEAN
    BY <1>12 DEF RecibirCarga
  <2>2. lugar["Q"] = "carga" /\ lugar'["Q"] = "planificando" /\ cliente' = cliente
    BY <1>1, <1>12 DEF RecibirCarga, Ir, TipoInv, TypeOK, par
  <2>3. ASSUME limpia', cliente.tipo = "query"
        PROVE  planificada' = [prioridad |-> cliente.prioridad, path |-> cliente.texto]
    <3>1. k \in Nat /\ k <= Hay
      BY <1>1, CuantosSon
    <3>2. pos = 8 /\ k >= Min({5 + Len(cliente.texto), Len(flujo) - 8})
      BY <2>1, <2>2, <2>3 DEF LimpiaInv
    <3> QED
      BY <2>1, <2>3, <3>1, <3>2, CargaLimpia
  <2> QED
    BY <2>2, <2>3 DEF LimpiaInv
<1> QED
  BY <1>2, <1>3, <1>4, <1>5, <1>6, <1>7, <1>8, <1>9, <1>10, <1>11, <1>12 DEF Next, Hilo

\* What the planner is given is what the Query Control sent, whatever the path and the
\* priority and however the packet is cut, when Q receives it alone and the path
\* arrives in one piece (deserealizacion_master.c l. 5-37, serializacion_envio.c l. 22, 74).
THEOREM SiempreConsultaEntera == Spec => []ConsultaEntera
<1>1. Init => TipoInv /\ LimpiaInv
  BY TipoInicial DEF Init, LimpiaInv, Hilos
<1>2. TipoInv /\ LimpiaInv /\ [Next]_vars => (TipoInv /\ LimpiaInv)'
  BY TipoPaso, LimpiaPaso
<1>3. TipoInv /\ LimpiaInv => ConsultaEntera
  BY DEF LimpiaInv, ConsultaEntera
<1> QED
  BY <1>1, <1>2, <1>3, PTL DEF Spec

-----------------------------------------------------------------------------
(* The codes the threads act on *)

\* The bytes s are at increasing places of x, none after the first q.
Dentro(s, q, x) ==
  \E f \in [1 .. Len(s) -> 1 .. q] :
    /\ \A i, j \in 1 .. Len(s) : i < j => f[i] < f[j]
    /\ \A i \in 1 .. Len(s) : s[i] = x[f[i]]

\* What a thread has so far are bytes of the flow, in order, with those that the
\* others took missing.
DentroInv == \A h \in Hilos : Dentro(tengo[h], pos, flujo)

\* They still are when more has been received.
LEMMA DentroCrece ==
  ASSUME NEW x, NEW s \in Seq(Octeto), NEW q \in Nat, NEW p \in Nat, q <= p, Dentro(s, q, x)
  PROVE  Dentro(s, p, x)
<1>1. PICK f \in [1 .. Len(s) -> 1 .. q] :
        /\ \A i, j \in 1 .. Len(s) : i < j => f[i] < f[j]
        /\ \A i \in 1 .. Len(s) : s[i] = x[f[i]]
  BY DEF Dentro
<1>2. 1 .. q \subseteq 1 .. p
  OBVIOUS
<1>3. f \in [1 .. Len(s) -> 1 .. p]
  BY <1>2
<1> QED
  BY <1>1, <1>3 DEF Dentro

\* Nothing is anywhere.
LEMMA DentroVacio ==
  ASSUME NEW x, NEW q \in Nat
  PROVE  Dentro(<<>>, q, x)
<1>1. Len(<<>>) = 0 /\ 1 .. 0 = {}
  OBVIOUS
<1> DEFINE f == [i \in 1 .. 0 |-> 1]
<1>2. f \in [1 .. 0 -> 1 .. q]
  BY <1>1
<1> HIDE DEF f
<1> QED
  BY <1>1, <1>2 DEF Dentro

\* The next bytes of the flow may be added.
LEMMA DentroSigue ==
  ASSUME NEW x, NEW s \in Seq(Octeto), NEW u \in Seq(Octeto), NEW q \in Nat, NEW n \in Nat,
         Len(u) = n, \A i \in 1 .. n : u[i] = x[q + i], Dentro(s, q, x)
  PROVE  Dentro(s \o u, q + n, x)
<1>1. PICK m \in Nat : m = Len(s)
  BY LenProperties
<1>2. PICK f \in [1 .. m -> 1 .. q] :
        /\ \A i, j \in 1 .. m : i < j => f[i] < f[j]
        /\ \A i \in 1 .. m : s[i] = x[f[i]]
  BY <1>1 DEF Dentro
<1>3. PICK t \in Seq(Octeto) :
        /\ t = s \o u /\ Len(t) = m + n
        /\ \A i \in 1 .. m : t[i] = s[i]
        /\ \A i \in 1 .. n : t[m + i] = u[i]
  <2>1. /\ s \o u \in Seq(Octeto) /\ Len(s \o u) = Len(s) + Len(u)
        /\ \A i \in 1 .. Len(s) : (s \o u)[i] = s[i]
        /\ \A i \in 1 .. Len(u) : (s \o u)[Len(s) + i] = u[i]
    BY Juntas
  <2> QED
    BY <1>1, <2>1, Zenon
<1> DEFINE g == [i \in 1 .. m + n |-> IF i <= m THEN f[i] ELSE q + (i - m)]
<1>4. \A i \in 1 .. m + n :
        /\ i <= m => i \in 1 .. m /\ g[i] = f[i] /\ f[i] \in 1 .. q
        /\ ~(i <= m) => i - m \in 1 .. n /\ m + (i - m) = i /\ g[i] = q + (i - m)
  OBVIOUS
<1>5. g \in [1 .. m + n -> 1 .. q + n]
  <2> SUFFICES ASSUME NEW i \in 1 .. m + n
               PROVE  (IF i <= m THEN f[i] ELSE q + (i - m)) \in 1 .. q + n
    OBVIOUS
  <2> QED
    OBVIOUS
<1> HIDE DEF g
<1>6. ASSUME NEW i \in 1 .. m + n, NEW j \in 1 .. m + n, i < j PROVE g[i] < g[j]
  <2>1. CASE j <= m
    <3>1. i <= m
      BY <1>6, <2>1
    <3> QED
      BY <1>2, <1>4, <1>6, <2>1, <3>1
  <2>2. CASE ~(j <= m) /\ i <= m
    <3>1. g[i] \in 1 .. q /\ g[j] = q + (j - m) /\ j - m \in 1 .. n
      BY <1>4, <2>2
    <3> QED
      BY <3>1
  <2>3. CASE ~(j <= m) /\ ~(i <= m)
    <3>1. g[i] = q + (i - m) /\ g[j] = q + (j - m)
      BY <1>4, <2>3
    <3> QED
      BY <1>6, <3>1
  <2> QED
    BY <2>1, <2>2, <2>3
<1>7. ASSUME NEW i \in 1 .. m + n PROVE t[i] = x[g[i]]
  <2>1. CASE i <= m
    <3>1. i \in 1 .. m /\ g[i] = f[i]
      BY <1>4, <2>1
    <3> QED
      BY <1>2, <1>3, <3>1, Zenon
  <2>2. CASE ~(i <= m)
    <3>1. i - m \in 1 .. n /\ m + (i - m) = i /\ g[i] = q + (i - m)
      BY <1>4, <2>2
    <3>2. t[m + (i - m)] = u[i - m] /\ u[i - m] = x[q + (i - m)]
      BY <1>3, <3>1, Zenon
    <3> QED
      BY <3>1, <3>2, Zenon
  <2> QED
    BY <2>1, <2>2
<1>8. Dentro(t, q + n, x)
  <2>1. g \in [1 .. Len(t) -> 1 .. q + n]
    BY <1>3, <1>5, Zenon
  <2>2. \A i, j \in 1 .. Len(t) : i < j => g[i] < g[j]
    BY <1>3, <1>6, Zenon
  <2>3. \A i \in 1 .. Len(t) : t[i] = x[g[i]]
    BY <1>3, <1>7, Zenon
  <2> QED
    BY <2>1, <2>2, <2>3, Zenon DEF Dentro
<1> QED
  BY <1>3, <1>8, Zenon

\* Four bytes of x, in order and none past the q-th, are those of b.
EnCuatro(b, q, x) ==
  \E p1, p2, p3, p4 \in 1 .. q :
    /\ p1 < p2 /\ p2 < p3 /\ p3 < p4
    /\ b[1] = x[p1] /\ b[2] = x[p2] /\ b[3] = x[p3] /\ b[4] = x[p4]

\* An integer that was received whole is at four places.
LEMMA DentroCuatro ==
  ASSUME NEW x, NEW b, NEW q \in Nat, Len(b) = 4, Dentro(b, q, x)
  PROVE  EnCuatro(b, q, x)
<1> SUFFICES \E p1, p2, p3, p4 \in 1 .. q :
               /\ p1 < p2 /\ p2 < p3 /\ p3 < p4
               /\ b[1] = x[p1] /\ b[2] = x[p2] /\ b[3] = x[p3] /\ b[4] = x[p4]
  BY Zenon DEF EnCuatro
<1>1. PICK f \in [1 .. 4 -> 1 .. q] :
        /\ \A i, j \in 1 .. 4 : i < j => f[i] < f[j]
        /\ \A i \in 1 .. 4 : b[i] = x[f[i]]
  BY DEF Dentro
<1>2. /\ 1 \in 1 .. 4 /\ 2 \in 1 .. 4 /\ 3 \in 1 .. 4 /\ 4 \in 1 .. 4
      /\ 1 < 2 /\ 2 < 3 /\ 3 < 4
  OBVIOUS
<1>3. /\ f[1] \in 1 .. q /\ f[2] \in 1 .. q /\ f[3] \in 1 .. q /\ f[4] \in 1 .. q
      /\ f[1] < f[2] /\ f[2] < f[3] /\ f[3] < f[4]
      /\ b[1] = x[f[1]] /\ b[2] = x[f[2]] /\ b[3] = x[f[3]] /\ b[4] = x[f[4]]
  BY <1>1, <1>2, Zenon
<1> QED
  BY <1>3, Zenon

\* A code is a byte and three zeros.
LEMMA CodigoEs ==
  ASSUME NEW b \in Seq(Octeto), Completo(b), Entero(b) \in 1 .. 255
  PROVE  b[1] = Entero(b) /\ b[2] = 0 /\ b[3] = 0 /\ b[4] = 0
<1>1. PICK x \in 0 .. 255, y \in 0 .. 255, z \in 0 .. 255, w \in 0 .. 255 :
        x = b[1] /\ y = b[2] /\ z = b[3] /\ w = b[4]
  BY CompletoEs DEF Byte
<1>2. Entero(b) = IF w < 128 THEN x + 256 * y + 256 * 256 * z + 256 * 256 * 256 * w
                             ELSE 256 * 256 * 256 * 64
  BY <1>1 DEF Entero, Enorme
<1>3. y = 0 /\ z = 0 /\ w = 0 /\ Entero(b) = x
  BY <1>2
<1> QED
  BY <1>1, <1>3

\* A byte of a query that three zeros follow, somewhere, is none of the path, and it is
\* of the code, of the sizes or the priority.
LEMMA CodigoEnConsulta ==
  ASSUME NEW f, NEW L \in Nat, NEW p, EsConsulta(f, L, p),
         NEW p1 \in 1 .. 15 + 2 * L, NEW p2 \in 1 .. 15 + 2 * L, p1 < p2,
         f[p1] \in 1 .. 255, f[p2] = 0
  PROVE  \/ f[p1] = 6 \/ f[p1] = p
         \/ \E i \in 1 .. 4 : f[p1] = Int4(10 + 2 * L)[i]
         \/ \E i \in 1 .. 4 : f[p1] = Int4(L)[i]
<1>1. \A x : x = Basura \/ x \in 1 .. 255 => x # 0
  BY DEF Basura
<1>2. /\ \A i \in 14 .. 13 + L : f[i] \in 1 .. 255
      /\ \A i \in 14 + L .. 15 + 2 * L : f[i] = Basura
  BY Zenon DEF EsConsulta
<1>3. ~(p2 \in 14 .. 13 + L) /\ ~(p2 \in 14 + L .. 15 + 2 * L)
  BY <1>1, <1>2, Zenon
<1>4. p1 < 13
  BY <1>3
<1>5. CASE p1 \in 1 .. 4
  <2>1. p1 = 1 \/ p1 = 2 \/ p1 = 3 \/ p1 = 4
    BY <1>5
  <2>2. f[1] = 6 /\ f[2] = 0 /\ f[3] = 0 /\ f[4] = 0
    BY Zenon DEF EsConsulta
  <2>3. f[p1] = 6 \/ f[p1] = 0
    BY <2>1, <2>2, Zenon
  <2>4. 0 \notin 1 .. 255
    OBVIOUS
  <2> QED
    BY <2>3, <2>4, Zenon
<1>6. CASE p1 \in 5 .. 8
  <2>1. p1 - 4 \in 1 .. 4 /\ 4 + (p1 - 4) = p1
    BY <1>6
  <2>2. f[4 + (p1 - 4)] = Int4(10 + 2 * L)[p1 - 4]
    BY <2>1, Zenon DEF EsConsulta
  <2> QED
    BY <2>1, <2>2, Zenon
<1>7. CASE p1 = 9
  <2>1. f[9] = p
    BY Zenon DEF EsConsulta
  <2> QED
    BY <1>7, <2>1, Zenon
<1>8. CASE p1 \in 10 .. 13
  <2>1. p1 - 9 \in 1 .. 4 /\ 9 + (p1 - 9) = p1
    BY <1>8
  <2>2. f[9 + (p1 - 9)] = Int4(L)[p1 - 9]
    BY <2>1, Zenon DEF EsConsulta
  <2> QED
    BY <2>1, <2>2, Zenon
<1>9. p1 \in 1 .. 4 \/ p1 \in 5 .. 8 \/ p1 = 9 \/ p1 \in 10 .. 13
  BY <1>4
<1> QED
  BY <1>5, <1>6, <1>7, <1>8, <1>9, Zenon

\* A byte of a handshake, other than a letter of WORKER, that three zeros follow is none
\* of the id: only one zero comes after it.
LEMMA CodigoEnHandshake ==
  ASSUME NEW f, NEW L \in Nat, EsHandshake(f, L),
         NEW p1 \in 1 .. 24 + L, NEW p2 \in 1 .. 24 + L, NEW p3 \in 1 .. 24 + L,
         p1 < p2, p2 < p3, f[p1] \in 1 .. 64, f[p2] = 0, f[p3] = 0
  PROVE  \/ f[p1] = 7
         \/ p1 \in 5 .. 8 /\ f[p1] = Int4(16 + L)[p1 - 4]
         \/ p1 \in 20 .. 23 /\ f[p1] = Int4(L + 1)[p1 - 19]
<1>1. /\ 0 \notin 1 .. 255 /\ 0 \notin 1 .. 64
      /\ \A x : ~(x \in 65 .. 90 /\ x \in 1 .. 64)
  OBVIOUS
<1>2. \A i \in 24 .. 23 + L : f[i] \in 1 .. 255
  BY Zenon DEF EsHandshake
<1>3. ~(p2 \in 24 .. 23 + L) /\ ~(p3 \in 24 .. 23 + L)
  <2>1. ASSUME NEW i \in 24 .. 23 + L, f[i] = 0 PROVE FALSE
    <3>1. f[i] \in 1 .. 255
      BY <1>2
    <3> QED
      BY <2>1, <3>1
  <2>2. ~(p2 \in 24 .. 23 + L)
    BY <2>1, Zenon
  <2>3. ~(p3 \in 24 .. 23 + L)
    BY <2>1, Zenon
  <2> QED
    BY <2>2, <2>3
<1>4. p2 <= 23
  BY <1>3
<1>5. p1 \in 1 .. 22
  BY <1>4
<1>6. CASE p1 \in 1 .. 4
  <2>1. f[p1] = 0
    <3>1. \A i \in 1 .. 4 : f[i] = 0
      BY Zenon DEF EsHandshake
    <3> QED
      BY <1>6, <3>1, Zenon
  <2> QED
    BY <1>1, <2>1, Zenon
<1>7. CASE p1 \in 5 .. 8
  <2>1. p1 - 4 \in 1 .. 4 /\ 4 + (p1 - 4) = p1
    BY <1>7
  <2>2. f[4 + (p1 - 4)] = Int4(16 + L)[p1 - 4]
    BY <2>1, Zenon DEF EsHandshake
  <2> QED
    BY <1>7, <2>1, <2>2, Zenon
<1>8. CASE p1 \in 9 .. 12
  <2>1. p1 = 9 \/ p1 = 10 \/ p1 = 11 \/ p1 = 12
    BY <1>8
  <2>2. f[9] = 7 /\ f[10] = 0 /\ f[11] = 0 /\ f[12] = 0
    BY Zenon DEF EsHandshake
  <2>3. f[p1] = 7 \/ f[p1] = 0
    BY <2>1, <2>2, Zenon
  <2> QED
    BY <1>1, <2>3, Zenon
<1>9. CASE p1 \in 13 .. 18
  <2>1. f[p1] \in 65 .. 90
    <3>1. \A i \in 13 .. 18 : f[i] \in 65 .. 90
      BY Zenon DEF EsHandshake
    <3> QED
      BY <1>9, <3>1, Zenon
  <2> QED
    BY <1>1, <2>1, Zenon
<1>10. CASE p1 = 19
  <2>1. f[19] = 0
    BY Zenon DEF EsHandshake
  <2> QED
    BY <1>1, <1>10, <2>1, Zenon
<1>11. CASE p1 \in 20 .. 23
  <2>1. p1 - 19 \in 1 .. 4 /\ 19 + (p1 - 19) = p1
    BY <1>11
  <2>2. f[19 + (p1 - 19)] = Int4(L + 1)[p1 - 19]
    BY <2>1, Zenon DEF EsHandshake
  <2> QED
    BY <1>11, <2>1, <2>2, Zenon
<1>12. \/ p1 \in 1 .. 4 \/ p1 \in 5 .. 8 \/ p1 \in 9 .. 12 \/ p1 \in 13 .. 18 \/ p1 = 19
       \/ p1 \in 20 .. 23
  BY <1>5
<1> QED
  BY <1>6, <1>7, <1>8, <1>9, <1>10, <1>11, <1>12, Zenon

\* A code that the threads attend to, received at increasing places of the flow, is one
\* of the bytes that may be taken for it.
LEMMA CodigoCoincide ==
  ASSUME TipoInv, NEW b \in Seq(Octeto), NEW q \in Nat, q <= Len(flujo),
         Completo(b), Dentro(b, q, flujo), Entero(b) \in Atendidos
  PROVE  Entero(b) \in Coincidencias
<1>1. Entero(b) \in 1 .. 64 /\ Entero(b) \in 1 .. 255
  BY DEF Atendidos, MENSAJE, MENSAJE_MASTER, ID_WORKER
<1>2. b[1] = Entero(b) /\ b[2] = 0 /\ b[3] = 0 /\ b[4] = 0
  BY <1>1, CodigoEs
<1>3. PICK p1, p2, p3, p4 \in 1 .. q :
        /\ p1 < p2 /\ p2 < p3 /\ p3 < p4
        /\ b[1] = flujo[p1] /\ b[2] = flujo[p2] /\ b[3] = flujo[p3] /\ b[4] = flujo[p4]
  <2>1. EnCuatro(b, q, flujo)
    BY DentroCuatro DEF Completo
  <2> QED
    BY <2>1, Zenon DEF EnCuatro
<1>4. PICK v : v = Entero(b) /\ flujo[p1] = v /\ v \in 1 .. 64 /\ v \in 1 .. 255
                /\ flujo[p2] = 0 /\ flujo[p3] = 0
  <2>1. flujo[p1] = Entero(b) /\ flujo[p2] = 0 /\ flujo[p3] = 0
    BY <1>2, <1>3, Zenon
  <2> QED
    BY <1>1, <2>1, Zenon
<1>5. /\ cliente \in Clientes /\ flujo = Flujo(cliente)
      /\ cliente.tipo \in {"query", "worker"} /\ Len(cliente.texto) \in Nat
  BY DatosDelCliente DEF TipoInv, TypeOK
<1>6. CASE cliente.tipo = "query"
  <2>1. PICK L \in Nat : L = Len(cliente.texto)
    BY <1>5
  <2>2. Len(flujo) = 15 + 2 * L /\ EsConsulta(flujo, L, cliente.prioridad)
    BY <1>5, <1>6, <2>1, FlujoDeConsulta
  <2>3. p1 \in 1 .. 15 + 2 * L /\ p2 \in 1 .. 15 + 2 * L
    BY <2>2
  <2>4. \/ v = 6 \/ v = cliente.prioridad
        \/ \E i \in 1 .. 4 : v = Int4(10 + 2 * L)[i]
        \/ \E i \in 1 .. 4 : v = Int4(L)[i]
    <3>1. flujo[p1] \in 1 .. 255
      BY <1>4, Zenon
    <3>2. \/ flujo[p1] = 6 \/ flujo[p1] = cliente.prioridad
          \/ \E i \in 1 .. 4 : flujo[p1] = Int4(10 + 2 * L)[i]
          \/ \E i \in 1 .. 4 : flujo[p1] = Int4(L)[i]
      <4>1. p1 < p2 /\ flujo[p2] = 0
        BY <1>3, <1>4, Zenon
      <4>2. PICK f, p : f = flujo /\ p = cliente.prioridad
        OBVIOUS
      <4>3. EsConsulta(f, L, p) /\ f[p1] \in 1 .. 255 /\ f[p2] = 0
        BY <2>2, <3>1, <4>1, <4>2, Zenon
      <4>4. \/ f[p1] = 6 \/ f[p1] = p
            \/ \E i \in 1 .. 4 : f[p1] = Int4(10 + 2 * L)[i]
            \/ \E i \in 1 .. 4 : f[p1] = Int4(L)[i]
        BY <2>3, <4>1, <4>3, CodigoEnConsulta
      <4> QED
        BY <4>2, <4>4, Zenon
    <3> QED
      BY <1>4, <3>2, Zenon
  <2>5. v \in {6, cliente.prioridad} \cup {Int4(10 + 2 * L)[i] : i \in 1 .. 4}
                \cup {Int4(L)[i] : i \in 1 .. 4}
    BY <2>4, Zenon
  <2>6. Coincidencias = {6, cliente.prioridad} \cup {Int4(10 + 2 * L)[i] : i \in 1 .. 4}
                          \cup {Int4(L)[i] : i \in 1 .. 4}
    BY <1>6, <2>1, Zenon DEF Coincidencias, MENSAJE_MASTER
  <2> QED
    BY <1>4, <2>5, <2>6, Zenon
<1>7. CASE cliente.tipo = "worker"
  <2>1. PICK L \in Nat : L = Len(cliente.texto)
    BY <1>5
  <2>2. Len(flujo) = 24 + L /\ EsHandshake(flujo, L)
    BY <1>5, <1>7, <2>1, FlujoDeWorker
  <2>3. p1 \in 1 .. 24 + L /\ p2 \in 1 .. 24 + L /\ p3 \in 1 .. 24 + L
    BY <2>2
  <2>4. \/ v = 7
        \/ p1 \in 5 .. 8 /\ v = Int4(16 + L)[p1 - 4]
        \/ p1 \in 20 .. 23 /\ v = Int4(L + 1)[p1 - 19]
    <3>1. flujo[p1] \in 1 .. 64
      BY <1>4, Zenon
    <3>2. \/ flujo[p1] = 7
          \/ p1 \in 5 .. 8 /\ flujo[p1] = Int4(16 + L)[p1 - 4]
          \/ p1 \in 20 .. 23 /\ flujo[p1] = Int4(L + 1)[p1 - 19]
      BY <1>3, <1>4, <2>2, <2>3, <3>1, CodigoEnHandshake, Zenon
    <3> QED
      BY <1>4, <3>2, Zenon
  <2>5. p1 \in 5 .. 8 => p1 - 4 \in 1 .. 4
    OBVIOUS
  <2>6. p1 \in 20 .. 23 => p1 - 19 \in 1 .. 4
    OBVIOUS
  <2>7. v \in {7} \cup {Int4(16 + L)[i] : i \in 1 .. 4} \cup {Int4(L + 1)[i] : i \in 1 .. 4}
    BY <2>4, <2>5, <2>6, Zenon
  <2>8. Coincidencias = {7} \cup {Int4(16 + L)[i] : i \in 1 .. 4}
                          \cup {Int4(L + 1)[i] : i \in 1 .. 4}
    <3>1. "worker" # "query" /\ Len(Modulo) + 1 = 7
      BY ModuloAssumption
    <3> QED
      BY <1>7, <2>1, <3>1, Zenon DEF Coincidencias
  <2> QED
    BY <1>4, <2>7, <2>8, Zenon
<1> QED
  BY <1>5, <1>6, <1>7

\* The first byte of a code that the threads attend to, wherever it is in the flow, is one
\* of those too, or a character of the text.
LEMMA PrimerByteCoincide ==
  ASSUME TipoInv, NEW v \in Atendidos, NEW p \in 1 .. Len(flujo), flujo[p] = v
  PROVE  v \in Coincidencias \/ v \in Range(cliente.texto)
<1>1. v \in 1 .. 64 /\ v # 0 /\ v # Basura /\ v \notin 65 .. 90
  BY DEF Atendidos, MENSAJE, MENSAJE_MASTER, ID_WORKER, Basura
<1>2. /\ cliente \in Clientes /\ flujo = Flujo(cliente)
      /\ cliente.tipo \in {"query", "worker"} /\ cliente.texto \in Seq(Int)
  BY DatosDelCliente DEF TipoInv, TypeOK
<1>3. PICK L \in Nat, texto \in Seq(Int) :
        /\ texto = cliente.texto /\ L = Len(texto)
        /\ \A i \in 1 .. L : texto[i] \in Range(texto)
  <2>1. \A i \in 1 .. Len(cliente.texto) : cliente.texto[i] \in Range(cliente.texto)
    BY <1>2 DEF Range
  <2> QED
    BY <1>2, <2>1, LenProperties
<1>4. CASE cliente.tipo = "query"
  <2>1. PICK f, prio :
          /\ f = flujo /\ prio = cliente.prioridad
          /\ Len(f) = 15 + 2 * L /\ EsConsulta(f, L, prio)
          /\ \A i \in 1 .. L : f[13 + i] = texto[i]
    BY <1>2, <1>3, <1>4, FlujoDeConsulta
  <2>2. Coincidencias = {6, prio} \cup {Int4(10 + 2 * L)[i] : i \in 1 .. 4}
                          \cup {Int4(L)[i] : i \in 1 .. 4}
    <3>1. L = Len(cliente.texto)
      BY <1>3, Zenon
    <3>2. Coincidencias =
            {6, cliente.prioridad} \cup {Int4(10 + 2 * L)[i] : i \in 1 .. 4}
              \cup {Int4(L)[i] : i \in 1 .. 4}
      BY <1>4, <3>1, Zenon DEF Coincidencias, MENSAJE_MASTER
    <3> QED
      BY <2>1, <3>2, Zenon
  <2>3. p \in 1 .. 15 + 2 * L /\ f[p] = v
    BY <2>1
  <2>4. CASE p \in 1 .. 4
    <3>1. p = 1 \/ p = 2 \/ p = 3 \/ p = 4
      BY <2>4
    <3>2. f[1] = 6 /\ f[2] = 0 /\ f[3] = 0 /\ f[4] = 0
      BY <2>1, Zenon DEF EsConsulta
    <3>3. f[p] = 6 \/ f[p] = 0
      BY <3>1, <3>2, Zenon
    <3> QED
      BY <1>1, <2>2, <2>3, <3>3, Zenon
  <2>5. CASE p \in 5 .. 8
    <3>1. p - 4 \in 1 .. 4 /\ 4 + (p - 4) = p
      BY <2>5
    <3>2. f[4 + (p - 4)] = Int4(10 + 2 * L)[p - 4]
      BY <2>1, <3>1, Zenon DEF EsConsulta
    <3> QED
      BY <2>2, <2>3, <3>1, <3>2, Zenon
  <2>6. CASE p = 9
    <3>1. f[9] = prio
      BY <2>1, Zenon DEF EsConsulta
    <3> QED
      BY <2>2, <2>3, <2>6, <3>1, Zenon
  <2>7. CASE p \in 10 .. 13
    <3>1. p - 9 \in 1 .. 4 /\ 9 + (p - 9) = p
      BY <2>7
    <3>2. f[9 + (p - 9)] = Int4(L)[p - 9]
      BY <2>1, <3>1, Zenon DEF EsConsulta
    <3> QED
      BY <2>2, <2>3, <3>1, <3>2, Zenon
  <2>8. CASE p \in 14 .. 13 + L
    <3>1. p - 13 \in 1 .. L /\ 13 + (p - 13) = p
      BY <2>8
    <3>2. f[13 + (p - 13)] = texto[p - 13]
      BY <2>1, <3>1, Zenon
    <3> QED
      BY <1>3, <2>3, <3>1, <3>2, Zenon
  <2>9. CASE p \in 14 + L .. 15 + 2 * L
    <3>1. f[p] = Basura
      <4>1. \A i \in 14 + L .. 15 + 2 * L : f[i] = Basura
        BY <2>1, Zenon DEF EsConsulta
      <4> QED
        BY <2>9, <4>1, Zenon
    <3> QED
      BY <1>1, <2>3, <3>1, Zenon
  <2>10. \/ p \in 1 .. 4 \/ p \in 5 .. 8 \/ p = 9 \/ p \in 10 .. 13 \/ p \in 14 .. 13 + L
         \/ p \in 14 + L .. 15 + 2 * L
    BY <2>3
  <2> QED
    BY <2>4, <2>5, <2>6, <2>7, <2>8, <2>9, <2>10, Zenon
<1>5. CASE cliente.tipo = "worker"
  <2>1. PICK f :
          /\ f = flujo /\ Len(f) = 24 + L /\ EsHandshake(f, L)
          /\ \A i \in 1 .. L : f[23 + i] = texto[i]
    BY <1>2, <1>3, <1>5, FlujoDeWorker
  <2>2. Coincidencias = {7} \cup {Int4(16 + L)[i] : i \in 1 .. 4}
                          \cup {Int4(L + 1)[i] : i \in 1 .. 4}
    <3>1. "worker" # "query" /\ Len(Modulo) + 1 = 7
      BY ModuloAssumption
    <3> QED
      BY <1>3, <1>5, <3>1, Zenon DEF Coincidencias
  <2>3. p \in 1 .. 24 + L /\ f[p] = v
    BY <2>1
  <2>4. CASE p \in 1 .. 4
    <3>1. f[p] = 0
      <4>1. \A i \in 1 .. 4 : f[i] = 0
        BY <2>1, Zenon DEF EsHandshake
      <4> QED
        BY <2>4, <4>1, Zenon
    <3> QED
      BY <1>1, <2>3, <3>1, Zenon
  <2>5. CASE p \in 5 .. 8
    <3>1. p - 4 \in 1 .. 4 /\ 4 + (p - 4) = p
      BY <2>5
    <3>2. f[4 + (p - 4)] = Int4(16 + L)[p - 4]
      BY <2>1, <3>1, Zenon DEF EsHandshake
    <3> QED
      BY <2>2, <2>3, <3>1, <3>2, Zenon
  <2>6. CASE p \in 9 .. 12
    <3>1. p = 9 \/ p = 10 \/ p = 11 \/ p = 12
      BY <2>6
    <3>2. f[9] = 7 /\ f[10] = 0 /\ f[11] = 0 /\ f[12] = 0
      BY <2>1, Zenon DEF EsHandshake
    <3>3. f[p] = 7 \/ f[p] = 0
      BY <3>1, <3>2, Zenon
    <3> QED
      BY <1>1, <2>2, <2>3, <3>3, Zenon
  <2>7. CASE p \in 13 .. 18
    <3>1. f[p] \in 65 .. 90
      <4>1. \A i \in 13 .. 18 : f[i] \in 65 .. 90
        BY <2>1, Zenon DEF EsHandshake
      <4> QED
        BY <2>7, <4>1, Zenon
    <3> QED
      BY <1>1, <2>3, <3>1, Zenon
  <2>8. CASE p = 19 \/ p = 24 + L
    <3>1. f[19] = 0 /\ f[24 + L] = 0
      BY <2>1, Zenon DEF EsHandshake
    <3>2. f[p] = 0
      <4>1. CASE p = 19
        BY <3>1, <4>1, Zenon
      <4>2. CASE p = 24 + L
        BY <3>1, <4>2, Zenon
      <4> QED
        BY <2>8, <4>1, <4>2, Zenon
    <3> QED
      BY <1>1, <2>3, <3>2, Zenon
  <2>9. CASE p \in 20 .. 23
    <3>1. p - 19 \in 1 .. 4 /\ 19 + (p - 19) = p
      BY <2>9
    <3>2. f[19 + (p - 19)] = Int4(L + 1)[p - 19]
      BY <2>1, <3>1, Zenon DEF EsHandshake
    <3> QED
      BY <2>2, <2>3, <3>1, <3>2, Zenon
  <2>10. CASE p \in 24 .. 23 + L
    <3>1. p - 23 \in 1 .. L /\ 23 + (p - 23) = p
      BY <2>10
    <3>2. f[23 + (p - 23)] = texto[p - 23]
      BY <2>1, <3>1, Zenon
    <3> QED
      BY <1>3, <2>3, <3>1, <3>2, Zenon
  <2>11. \/ p \in 1 .. 4 \/ p \in 5 .. 8 \/ p \in 9 .. 12 \/ p \in 13 .. 18
         \/ p = 19 \/ p = 24 + L \/ p \in 20 .. 23 \/ p \in 24 .. 23 + L
    BY <2>3
  <2> QED
    BY <2>4, <2>5, <2>6, <2>7, <2>8, <2>9, <2>10, <2>11, Zenon
<1> QED
  BY <1>2, <1>4, <1>5

\* The first byte of what was received of a code is that of the code it is taken for.
LEMMA PrimerByteEs ==
  ASSUME NEW b \in Seq(Octeto), NEW v \in Valores(b), v \in Atendidos, Empezado(b)
  PROVE  /\ Len(b) >= 1 /\ b[1] = v
<1>1. Len(b) \in Nat /\ Len(b) >= 1 /\ b[1] # Basura
  BY EmptySeq, LenProperties DEF Empezado
<1>2. v \in 1 .. 255 /\ v # Otro
  BY DEF Atendidos, MENSAJE, MENSAJE_MASTER, ID_WORKER, Otro
<1>3. CASE Completo(b)
  <2>1. v = Entero(b)
    BY <1>3, ValoresSon
  <2> QED
    BY <1>1, <1>2, <1>3, <2>1, CodigoEs
<1>4. CASE ~Completo(b)
  <2>1. 1 \in 1 .. Len(b) /\ v \in 0 .. 255
    BY <1>1, <1>2
  <2>2. b[1] \in {Basura, Int4(v)[1]}
    BY <1>2, <1>4, <2>1, Zenon DEF Valores
  <2>3. Int4(v)[1] = v
    BY <2>1, Int4DeUnByte
  <2> QED
    BY <1>1, <2>2, <2>3
<1> QED
  BY <1>3, <1>4

\* What was received of an integer, and what a thread keeps, are in the flow.
LEMMA DentroTrasUnEntero ==
  ASSUME TipoInv, DentroInv, NEW h \in Hilos, NEW r \in Enteros(h), RecibirEntero(h, r)
  PROVE  /\ Dentro(r.bytes, pos', flujo)
         /\ \A g \in Hilos : Dentro(tengo'[g], pos', flujo)
<1>1. /\ r.n \in Nat /\ r.n <= Hay /\ r.bytes = tengo[h] \o Trozo(r.n)
      /\ pos \in Nat /\ pos' = pos + r.n
      /\ tengo[h] \in Seq(Octeto) /\ Dentro(tengo[h], pos, flujo)
  BY EnteroRecibido, Cuentas DEF RecibirEntero, TipoInv, DentroInv
<1>2. /\ Trozo(r.n) \in Seq(Octeto) /\ Len(Trozo(r.n)) = r.n
      /\ \A i \in 1 .. r.n : Trozo(r.n)[i] = flujo[pos + i]
  BY <1>1, TrozoEs
<1>3. Dentro(tengo[h] \o Trozo(r.n), pos + r.n, flujo)
  BY <1>1, <1>2, DentroSigue, Zenon
<1>4. pos' \in Nat /\ pos <= pos'
  BY <1>1
<1>5. \A g \in Hilos : Dentro(tengo'[g], pos', flujo)
  <2> SUFFICES ASSUME NEW g \in Hilos PROVE Dentro(tengo'[g], pos', flujo)
    OBVIOUS
  <2>1. CASE g = h
    <3>1. tengo'[g] = <<>>
      BY <2>1 DEF RecibirEntero, TipoInv
    <3> QED
      BY <1>4, <3>1, DentroVacio
  <2>2. CASE g # h
    <3>1. tengo'[g] = tengo[g] /\ tengo[g] \in Seq(Octeto)
      BY <2>2 DEF RecibirEntero, TipoInv
    <3> QED
      BY <1>1, <1>4, <3>1, DentroCrece DEF DentroInv
  <2> QED
    BY <2>1, <2>2
<1> QED
  BY <1>1, <1>3, <1>5, Zenon

\* The codes the threads have acted on.
SoloInv == DentroInv /\ SoloCoincidencias

\* After the recv of an integer, the codes acted on are still some of those.
LEMMA SoloTrasUnEntero ==
  ASSUME TipoInv, SoloInv, NEW h \in Hilos, NEW r \in Enteros(h), RecibirEntero(h, r),
         UNCHANGED par
  PROVE  SoloInv'
<1>1. /\ Dentro(r.bytes, pos', flujo)
      /\ \A g \in Hilos : Dentro(tengo'[g], pos', flujo)
  BY DentroTrasUnEntero DEF SoloInv
<1>2. DentroInv'
  BY <1>1 DEF DentroInv, par
<1>3. Coincidencias' = Coincidencias
  BY DEF Coincidencias, par
<1>4. pos' \in Nat /\ pos' <= Len(flujo) /\ r.bytes \in Seq(Octeto)
  <2>1. pos' \in 0 .. llegado
    BY TrasUnEntero
  <2>2. r.bytes \in Seq(Octeto)
    BY EnteroRecibido
  <2> QED
    BY <2>1, <2>2, Cuentas
<1>5. r.valor \in Valores(r.bytes) /\ (Completo(r.bytes) => r.valor = Entero(r.bytes))
  BY EnteroRecibido, ValoresSon
<1>6. \/ reconocidos' = reconocidos
      \/ /\ Empezado(r.bytes)
         /\ reconocidos' = reconocidos
              \cup [valor : {r.valor} \cap Atendidos, entero : {Completo(r.bytes)}]
  BY DEF RecibirEntero
<1>7. ASSUME r.valor \in Atendidos, Empezado(r.bytes)
      PROVE  \/ r.valor \in Coincidencias
             \/ ~Completo(r.bytes) /\ r.valor \in Range(cliente.texto)
  <2>1. CASE Completo(r.bytes)
    BY <1>1, <1>4, <1>5, <1>7, <2>1, CodigoCoincide
  <2>2. CASE ~Completo(r.bytes)
    <3>1. PICK b \in Seq(Octeto), v \in Atendidos, q \in Nat :
            /\ b = r.bytes /\ v = r.valor /\ q = pos' /\ q <= Len(flujo)
            /\ Dentro(b, q, flujo)
      BY <1>1, <1>4, <1>7
    <3>2. 1 \in 1 .. Len(b) /\ b[1] = v
      <4>1. Len(b) >= 1 /\ b[1] = v
        BY <1>5, <1>7, <3>1, PrimerByteEs
      <4>2. Len(b) \in Nat
        BY LenProperties
      <4> QED
        BY <4>1, <4>2
    <3>3. PICK f \in [1 .. Len(b) -> 1 .. q] : \A i \in 1 .. Len(b) : b[i] = flujo[f[i]]
      BY <3>1 DEF Dentro
    <3>4. PICK p \in 1 .. q : flujo[p] = v
      BY <3>2, <3>3
    <3>5. Len(flujo) \in Nat /\ p \in 1 .. Len(flujo)
      BY <3>1, Cuentas
    <3> QED
      BY <2>2, <3>1, <3>4, <3>5, PrimerByteCoincide
  <2> QED
    BY <2>1, <2>2
<1>8. SoloCoincidencias'
  <2> SUFFICES ASSUME NEW s \in reconocidos'
               PROVE  s.valor \in Coincidencias \/ (~s.entero /\ s.valor \in Range(cliente.texto))
    BY <1>3 DEF SoloCoincidencias, par
  <2>1. CASE s \in reconocidos
    BY <2>1 DEF SoloInv, SoloCoincidencias
  <2>2. CASE s \notin reconocidos
    <3>1. /\ Empezado(r.bytes)
          /\ s \in [valor : {r.valor} \cap Atendidos, entero : {Completo(r.bytes)}]
      BY <1>6, <2>2, Zenon
    <3>2. s.valor = r.valor /\ r.valor \in Atendidos /\ s.entero = Completo(r.bytes)
      BY <3>1
    <3> QED
      BY <1>7, <3>1, <3>2, Zenon
  <2> QED
    BY <2>1, <2>2
<1> QED
  BY <1>2, <1>8 DEF SoloInv

\* The other steps keep or add what a thread has, and act on no code.
LEMMA SoloPaso ==
  ASSUME TipoInv, TipoInv', SoloInv, [Next]_vars
  PROVE  SoloInv'
<1>1. pos \in Nat /\ pos' \in Nat /\ \A g \in Hilos : tengo[g] \in Seq(Octeto)
  BY Cuentas DEF TipoInv, TypeOK
<1>2. ASSUME UNCHANGED <<par, tengo, reconocidos>>, pos <= pos' PROVE SoloInv'
  <2>1. DentroInv'
    BY <1>1, <1>2, DentroCrece DEF SoloInv, DentroInv, par
  <2> QED
    BY <1>2, <2>1 DEF SoloInv, SoloCoincidencias, Coincidencias, par
<1>3. ASSUME NEW h \in Hilos, NEW k \in Cuantos(h), pos' = pos + k,
             UNCHANGED <<par, tengo, reconocidos>>
      PROVE  SoloInv'
  <2>1. pos <= pos'
    BY <1>1, <1>3, CuantosSon
  <2> QED
    BY <1>2, <1>3, <2>1
<1>4. pos <= pos
  BY <1>1
<1>5. CASE UNCHANGED vars
  BY <1>2, <1>4, <1>5 DEF vars, hilos, historia
<1>6. CASE Llegar
  BY <1>2, <1>4, <1>6 DEF Llegar, hilos, historia
<1>7. CASE Cerrar
  BY <1>2, <1>4, <1>7 DEF Cerrar, hilos, historia
<1>8. ASSUME NEW h \in Hilos, Acumular(h) PROVE SoloInv'
  <2>1. /\ tengo' = [tengo EXCEPT ![h] = tengo[h] \o Trozo(Hay)]
        /\ pos' = pos + Hay /\ UNCHANGED <<par, reconocidos>>
    BY <1>8, Cuentas DEF Acumular
  <2>2. Hay \in Nat /\ pos <= pos'
    BY <1>1, <2>1, Cuentas
  <2>3. /\ Trozo(Hay) \in Seq(Octeto) /\ Len(Trozo(Hay)) = Hay
        /\ \A i \in 1 .. Hay : Trozo(Hay)[i] = flujo[pos + i]
    BY <2>2, TrozoEs
  <2>4. Dentro(tengo[h] \o Trozo(Hay), pos + Hay, flujo)
    BY <1>1, <2>2, <2>3, DentroSigue, Zenon DEF SoloInv, DentroInv
  <2>5. ASSUME NEW g \in Hilos PROVE Dentro(tengo'[g], pos', flujo)
    <3>1. CASE g = h
      BY <2>1, <2>4, <3>1 DEF TipoInv
    <3>2. CASE g # h
      <4>1. tengo'[g] = tengo[g]
        BY <2>1, <3>2 DEF TipoInv
      <4> QED
        BY <1>1, <2>2, <4>1, DentroCrece DEF SoloInv, DentroInv
    <3> QED
      BY <3>1, <3>2
  <2> QED
    BY <2>1, <2>5 DEF SoloInv, DentroInv, SoloCoincidencias, Coincidencias, par
<1>9. ASSUME NEW h \in Hilos, LeerCelda(h) \/ LiberarCelda(h) \/ NoHayOperacion(h)
      PROVE  SoloInv'
  BY <1>2, <1>4, <1>9 DEF LeerCelda, LiberarCelda, NoHayOperacion, historia
<1>10. ASSUME NEW h \in Hilos, RecibirOperacion(h) PROVE SoloInv'
  BY <1>10, SoloTrasUnEntero DEF RecibirOperacion
<1>11. ASSUME RecibirTamanio PROVE SoloInv'
  BY <1>11, SoloTrasUnEntero DEF RecibirTamanio, Hilos
<1>12. ASSUME RecibirCarga PROVE SoloInv'
  BY <1>3, <1>12 DEF RecibirCarga, Hilos
<1>13. ASSUME RecibirMensaje PROVE SoloInv'
  <2>1. "W" \in Hilos
    BY DEF Hilos
  <2>2. \/ \E r \in Enteros("W") : RecibirEntero("W", r) /\ UNCHANGED par
        \/ \E k \in Cuantos("W") : pos' = pos + k /\ UNCHANGED <<par, tengo, reconocidos>>
    BY <1>13 DEF RecibirMensaje
  <2> QED
    BY <1>3, <2>1, <2>2, SoloTrasUnEntero
<1>14. ASSUME NEW h \in Hilos, RecibirId(h) PROVE SoloInv'
  <2>1. \E r \in Enteros(h) : RecibirEntero(h, r) /\ UNCHANGED par
    BY <1>14 DEF RecibirId
  <2> QED
    BY <2>1, SoloTrasUnEntero
<1>15. ASSUME NEW h \in Hilos, RecibirCargaId(h) PROVE SoloInv'
  BY <1>3, <1>15 DEF RecibirCargaId
<1> QED
  BY <1>5, <1>6, <1>7, <1>8, <1>9, <1>10, <1>11, <1>12, <1>13, <1>14, <1>15
     DEF Next, Hilo

\* However the three threads share the bytes out, and for every text, a whole code they
\* act on is a byte of the code, the sizes or the priority of what was sent, and never of
\* the characters of a path or an id; the first byte of one that was cut, one of those or a
\* character (main_master.c l. 66, 78, 106, deserealizacion_master.c l. 86).
THEOREM SiempreSoloCoincidencias == Spec => []SoloCoincidencias
<1>1. Init => TipoInv /\ SoloInv
  <2> SUFFICES ASSUME Init PROVE SoloInv
    BY TipoInicial
  <2>1. DentroInv
    BY DentroVacio DEF Init, DentroInv
  <2> QED
    BY <2>1 DEF Init, SoloInv, SoloCoincidencias
<1>2. TipoInv /\ SoloInv /\ [Next]_vars => (TipoInv /\ SoloInv)'
  BY TipoPaso, SoloPaso
<1>3. SoloInv => SoloCoincidencias
  BY DEF SoloInv
<1> QED
  BY <1>1, <1>2, <1>3, PTL DEF Spec

-----------------------------------------------------------------------------
(* What the planner is given, however the bytes are shared out *)

\* How many bytes a query takes, by the bytes of its length.
Mide(a, b, c, d) == 5 + a + 256 * b + 256 * 256 * c + 256 * 256 * 256 * d

\* What is sent is far shorter than a size with its top bit set.
LEMMA FlujoCorto ==
  ASSUME TipoInv
  PROVE  Len(flujo) < 3 * (256 * 256 * 256)
<1>1. PICK L \in Nat : L = Len(cliente.texto) /\ L < 256 * 256 * 256
  BY DatosDelCliente DEF TipoInv, TypeOK
<1>2. Len(flujo) \in {15 + 2 * L, 24 + L}
  <2>1. /\ cliente \in Clientes /\ flujo = Flujo(cliente)
        /\ cliente.tipo \in {"query", "worker"}
    BY DatosDelCliente DEF TipoInv, TypeOK
  <2>2. cliente.tipo = "query" => Len(flujo) = 15 + 2 * L
    BY <1>1, <2>1, FlujoDeConsulta
  <2>3. cliente.tipo = "worker" => Len(flujo) = 24 + L
    BY <1>1, <2>1, FlujoDeWorker
  <2> QED
    BY <2>1, <2>2, <2>3
<1> QED
  BY <1>1, <1>2

\* The k bytes of x after its p-th are as many as their own length asks for.
SeMide(x, p, k) ==
  /\ x[p + 2] \in 0 .. 255 /\ x[p + 3] \in 0 .. 255
  /\ x[p + 4] \in 0 .. 255 /\ x[p + 5] \in 0 .. 255
  /\ k >= Mide(x[p + 2], x[p + 3], x[p + 4], x[p + 5])
  /\ p + k <= Len(x) /\ p + 5 <= Len(x)

\* Bytes that read as a query: the four of its length, and as many as it says.
LEMMA TrozoDeserializable ==
  ASSUME TipoInv, NEW k \in Nat, k <= Hay, Deserializable(Trozo(k))
  PROVE  SeMide(flujo, pos, k)
<1>1. PICK s \in Seq(Octeto) :
        s = Trozo(k) /\ Len(s) = k /\ \A i \in 1 .. k : s[i] = flujo[pos + i]
  BY TrozoEs
<1>2. /\ k >= 5 /\ \A i \in 1 .. 5 : s[i] # Basura
      /\ k >= 5 + Entero(SubSeq(s, 2, 5))
  BY <1>1 DEF Deserializable
<1>3. \A i \in 1 .. 5 : i \in 1 .. k
  BY <1>2
<1>4. \A i \in 1 .. 5 : s[i] \in Byte /\ s[i] = flujo[pos + i]
  <2> SUFFICES ASSUME NEW i \in 1 .. 5 PROVE s[i] \in Byte /\ s[i] = flujo[pos + i]
    OBVIOUS
  <2>1. s[i] \in Octeto
    BY <1>1, <1>3, ElementOfSeq
  <2> QED
    BY <1>1, <1>2, <1>3, <2>1 DEF Octeto
<1>5. PICK a \in 0 .. 255, b \in 0 .. 255, c \in 0 .. 255, d \in 0 .. 255 :
        /\ a = s[2] /\ b = s[3] /\ c = s[4] /\ d = s[5]
        /\ a = flujo[pos + 2] /\ b = flujo[pos + 3] /\ c = flujo[pos + 4]
        /\ d = flujo[pos + 5]
  <2>1. 2 \in 1 .. 5 /\ 3 \in 1 .. 5 /\ 4 \in 1 .. 5 /\ 5 \in 1 .. 5
    OBVIOUS
  <2>2. /\ s[2] \in Byte /\ s[3] \in Byte /\ s[4] \in Byte /\ s[5] \in Byte
        /\ s[2] = flujo[pos + 2] /\ s[3] = flujo[pos + 3] /\ s[4] = flujo[pos + 4]
        /\ s[5] = flujo[pos + 5]
    BY <1>4, <2>1, Zenon
  <2> QED
    BY <2>2, Zenon DEF Byte
<1>6. Entero(SubSeq(s, 2, 5)) = a + 256 * b + 256 * 256 * c + 256 * 256 * 256 * d
  <2>1. \A i \in 2 .. 5 : s[i] \in Byte
    BY <1>4
  <2>2. \A i \in 1 .. 5 - 2 + 1 : SubSeq(s, 2, 5)[i] = s[2 + i - 1]
    BY <2>1, SubSeqProperties
  <2>3. /\ 1 \in 1 .. 5 - 2 + 1 /\ 2 \in 1 .. 5 - 2 + 1 /\ 3 \in 1 .. 5 - 2 + 1
        /\ 4 \in 1 .. 5 - 2 + 1
        /\ 2 + 1 - 1 = 2 /\ 2 + 2 - 1 = 3 /\ 2 + 3 - 1 = 4 /\ 2 + 4 - 1 = 5
    OBVIOUS
  <2>4. PICK e : e = SubSeq(s, 2, 5)
    OBVIOUS
  <2>5. e[1] = a /\ e[2] = b /\ e[3] = c /\ e[4] = d
    BY <1>5, <2>2, <2>3, <2>4, Zenon
  <2>6. Entero(e) = IF d < 128 THEN a + 256 * b + 256 * 256 * c + 256 * 256 * 256 * d
                              ELSE 256 * 256 * 256 * 64
    BY <2>5 DEF Entero, Enorme
  <2>7. k >= 5 + Entero(e) /\ k <= Len(flujo) /\ Len(flujo) < 3 * (256 * 256 * 256)
    BY <1>2, <2>4, Cuentas, FlujoCorto
  <2>8. PICK n \in Nat : n = Entero(e)
    BY <2>6
  <2>9. n = a + 256 * b + 256 * 256 * c + 256 * 256 * 256 * d
    <3>1. PICK l \in Nat : l = Len(flujo)
      BY Cuentas
    <3>2. k >= 5 + n /\ k <= l /\ l < 3 * (256 * 256 * 256)
      BY <2>7, <2>8, <3>1
    <3> QED
      BY <2>6, <2>8, <3>1, <3>2
  <2> QED
    BY <2>4, <2>8, <2>9, Zenon
<1>7. pos + k <= Len(flujo) /\ pos + 5 <= Len(flujo)
  BY <1>2, Cuentas
<1>8. k >= Mide(a, b, c, d)
  <2>1. PICK n \in Nat : n = Entero(SubSeq(s, 2, 5))
                         /\ n = a + 256 * b + 256 * 256 * c + 256 * 256 * 256 * d
    BY <1>6
  <2>2. k >= 5 + n
    BY <1>2, <2>1
  <2> QED
    BY <2>1, <2>2 DEF Mide
<1>9. k >= Mide(flujo[pos + 2], flujo[pos + 3], flujo[pos + 4], flujo[pos + 5])
  BY <1>5, <1>8, Zenon
<1> QED
  BY <1>5, <1>7, <1>9, Zenon DEF SeMide

\* The lengths in question.
Cortos == 1 .. 239

\* A query of so few characters, in figures.
EsConsultaCorta(f, L) ==
  /\ f[7] = 0 /\ f[8] = 0
  /\ f[10] = L /\ f[11] = 0 /\ f[12] = 0 /\ f[13] = 0
  /\ \A i \in 14 .. 15 + 2 * L : f[i] \in 1 .. 255 \/ f[i] = Basura

\* The figures follow from the layout.
LEMMA ConsultaCorta ==
  ASSUME NEW f, NEW L \in Cortos, NEW p, EsConsulta(f, L, p)
  PROVE  EsConsultaCorta(f, L)
<1>1. L \in 1 .. 239
  BY DEF Cortos
<1>2. Int4(L)[1] = L /\ Int4(L)[2] = 0 /\ Int4(L)[3] = 0 /\ Int4(L)[4] = 0
  <2>1. L \in 0 .. 255
    BY <1>1
  <2> QED
    BY <2>1, Int4DeUnByte
<1>3. Int4(10 + 2 * L)[3] = 0 /\ Int4(10 + 2 * L)[4] = 0
  <2>1. PICK n \in 0 .. 1000 : n = 10 + 2 * L
    <3>1. 10 + 2 * L \in 0 .. 1000
      BY <1>1
    <3> QED
      BY <3>1
  <2>2. (n \div (256 * 256)) % 256 = 0 /\ (n \div (256 * 256 * 256)) % 256 = 0
    <3>1. n \div (256 * 256) = 0 /\ n \div (256 * 256 * 256) = 0
      OBVIOUS
    <3> QED
      BY <3>1
  <2>3. Int4(n)[3] = 0 /\ Int4(n)[4] = 0
    BY <2>2 DEF Int4
  <2> QED
    BY <2>1, <2>3
<1>4. f[4 + 3] = Int4(10 + 2 * L)[3] /\ f[4 + 4] = Int4(10 + 2 * L)[4]
  <2>1. 3 \in 1 .. 4 /\ 4 \in 1 .. 4
    OBVIOUS
  <2> QED
    BY <2>1, Zenon DEF EsConsulta
<1>5. /\ f[9 + 1] = Int4(L)[1] /\ f[9 + 2] = Int4(L)[2] /\ f[9 + 3] = Int4(L)[3]
      /\ f[9 + 4] = Int4(L)[4]
  <2>1. 1 \in 1 .. 4 /\ 2 \in 1 .. 4 /\ 3 \in 1 .. 4 /\ 4 \in 1 .. 4
    OBVIOUS
  <2> QED
    BY <2>1, Zenon DEF EsConsulta
<1>6. /\ 4 + 3 = 7 /\ 4 + 4 = 8 /\ 9 + 1 = 10 /\ 9 + 2 = 11 /\ 9 + 3 = 12 /\ 9 + 4 = 13
  OBVIOUS
<1>7. \A i \in 14 .. 15 + 2 * L : f[i] \in 1 .. 255 \/ f[i] = Basura
  <2>1. \A i \in 14 .. 15 + 2 * L : i \in 14 .. 13 + L \/ i \in 14 + L .. 15 + 2 * L
    BY <1>1
  <2> QED
    BY <2>1, Zenon DEF EsConsulta
<1>8. f[7] = 0 /\ f[8] = 0
  BY <1>3, <1>4, <1>6, Zenon
<1>9. f[10] = L /\ f[11] = 0 /\ f[12] = 0 /\ f[13] = 0
  BY <1>2, <1>5, <1>6, Zenon
<1> QED
  BY <1>7, <1>8, <1>9, Zenon DEF EsConsultaCorta

\* After the code and one more byte, what is left of a query reads as that query, from
\* its place, and as nothing from any other: its length would pass what is left.
LEMMA CargaDeConsulta ==
  ASSUME TipoInv, cliente.tipo = "query", Len(cliente.texto) \in 1 .. 239, pos >= 5,
         NEW k \in Nat, k <= Hay, Deserializable(Trozo(k))
  PROVE  PaqueteDeserializar(Trozo(k)) =
           [prioridad |-> cliente.prioridad, path |-> cliente.texto]
<1>1. PICK L \in 1 .. 239 : L = Len(cliente.texto)
  OBVIOUS
<1>2. PICK prio : prio = cliente.prioridad
  OBVIOUS
<1>3. Len(flujo) = 15 + 2 * L /\ EsConsulta(flujo, L, prio) /\ prio \in Byte
  BY <1>1, <1>2, FlujoDeConsulta, DatosDelCliente DEF TipoInv, TypeOK
<1>4. PICK p \in Nat : p = pos
  BY Cuentas
<1>5. PICK f : /\ f = flujo /\ p = pos /\ EsConsulta(f, L, prio)
               /\ Len(f) = 15 + 2 * L /\ SeMide(f, p, k)
  <2>1. SeMide(flujo, pos, k)
    BY TrozoDeserializable
  <2> QED
    BY <1>3, <1>4, <2>1, Zenon
<1>6. EsConsultaCorta(f, L)
  <2>1. EsConsulta(f, L, prio) /\ L \in Cortos
    BY <1>5 DEF Cortos
  <2> QED
    BY <2>1, ConsultaCorta, Zenon
<1>7. /\ f[7] = 0 /\ f[8] = 0
      /\ f[10] = L /\ f[11] = 0 /\ f[12] = 0 /\ f[13] = 0
      /\ \A i \in 14 .. 15 + 2 * L : f[i] \in 1 .. 255 \/ f[i] = Basura
  BY <1>6 DEF EsConsultaCorta
<1>8. PICK a \in 0 .. 255, b \in 0 .. 255, c \in 0 .. 255, d \in 0 .. 255 :
        /\ a = f[p + 2] /\ b = f[p + 3] /\ c = f[p + 4] /\ d = f[p + 5]
        /\ k >= Mide(a, b, c, d)
        /\ p + k <= 15 + 2 * L /\ p + 5 <= 15 + 2 * L
  <2>1. /\ f[p + 2] \in 0 .. 255 /\ f[p + 3] \in 0 .. 255
        /\ f[p + 4] \in 0 .. 255 /\ f[p + 5] \in 0 .. 255
        /\ k >= Mide(f[p + 2], f[p + 3], f[p + 4], f[p + 5])
    BY <1>5, Zenon DEF SeMide
  <2>2. p + k <= Len(f) /\ p + 5 <= Len(f)
    BY <1>5, Zenon DEF SeMide
  <2>3. p + k <= 15 + 2 * L /\ p + 5 <= 15 + 2 * L
    BY <1>5, <2>2, Zenon
  <2> USE <2>1
  <2> WITNESS f[p + 2] \in 0 .. 255, f[p + 3] \in 0 .. 255,
              f[p + 4] \in 0 .. 255, f[p + 5] \in 0 .. 255
  <2> QED
    BY <2>3, Zenon
<1>9. p >= 5 /\ k <= 10 + 2 * L
  BY <1>5, <1>8
<1>10. k >= 5 + a + 256 * b /\ (c # 0 => k > 1000) /\ (d # 0 => k > 1000)
  <2>1. k >= 5 + a + 256 * b + 256 * 256 * c + 256 * 256 * 256 * d
    BY <1>8, Zenon DEF Mide
  <2>2. k >= 5 + a + 256 * b
    BY <2>1
  <2>3. c # 0 => k > 1000
    BY <2>1
  <2>4. d # 0 => k > 1000
    BY <2>1
  <2> QED
    BY <2>2, <2>3, <2>4
<1>11. d = 0 /\ c = 0
  BY <1>9, <1>10
<1>12. p < 9
  <2>1. SUFFICES ASSUME p >= 9 PROVE FALSE
    OBVIOUS
  <2>2. p + 5 \in 14 .. 15 + 2 * L
    BY <1>8, <2>1
  <2>3. f[p + 5] \in 1 .. 255 \/ f[p + 5] = Basura
    BY <1>7, <2>2
  <2> QED
    BY <1>8, <1>11, <2>3 DEF Basura
<1>13. p # 5
  <2>1. p = 5 => d = L
    BY <1>7, <1>8
  <2> QED
    BY <1>11, <2>1
<1>14. p # 6
  <2>1. p = 6 => c = L
    BY <1>7, <1>8
  <2> QED
    BY <1>11, <2>1
<1>15. p # 7
  <2>1. p = 7 => b = L
    BY <1>7, <1>8
  <2>2. p = 7 => k <= 8 + 2 * L /\ k >= 5 + 256 * L
    BY <1>8, <1>10, <2>1
  <2> QED
    BY <2>2
<1>16. p = 8
  BY <1>9, <1>12, <1>13, <1>14, <1>15
<1>17. a = L
  BY <1>7, <1>8, <1>16
<1>18. k >= 5 + L
  BY <1>17, <1>10
<1>19. k >= Min({5 + Len(cliente.texto), Len(flujo) - 8})
  <2>1. PICK x \in Nat, y \in Nat :
          x = 5 + Len(cliente.texto) /\ y = Len(flujo) - 8 /\ x = 5 + L /\ y = 7 + 2 * L
    BY <1>1, <1>3
  <2>2. Min({x, y}) = IF x <= y THEN x ELSE y
    BY MinDeDos
  <2>3. k >= Min({x, y})
    BY <1>18, <2>1, <2>2
  <2> QED
    BY <2>1, <2>3
<1>20. pos = 8
  BY <1>5, <1>16
<1> QED
  BY <1>19, <1>20, CargaLimpia

\* What is left of a handshake after its sizes reads as nothing.
LEMMA CargaDeHandshake ==
  ASSUME TipoInv, cliente.tipo = "worker", Len(cliente.texto) \in 1 .. 239, pos >= 23,
         NEW k \in Nat, k <= Hay
  PROVE  ~Deserializable(Trozo(k))
<1> SUFFICES ASSUME Deserializable(Trozo(k)) PROVE FALSE
  OBVIOUS
<1>1. PICK L \in 1 .. 239 : L = Len(cliente.texto)
  OBVIOUS
<1>2. Len(flujo) = 24 + L /\ EsHandshake(flujo, L)
  BY <1>1, FlujoDeWorker DEF TipoInv, TypeOK
<1>3. PICK p \in Nat : p = pos
  BY Cuentas
<1>4. PICK f : /\ f = flujo /\ p = pos /\ EsHandshake(f, L) /\ p >= 23
               /\ Len(f) = 24 + L /\ SeMide(f, p, k)
  <2>1. SeMide(flujo, pos, k)
    BY TrozoDeserializable
  <2> QED
    BY <1>2, <1>3, <2>1, Zenon
<1>5. PICK a \in 0 .. 255, b \in 0 .. 255, c \in 0 .. 255, d \in 0 .. 255 :
        /\ a = f[p + 2] /\ b = f[p + 3] /\ c = f[p + 4] /\ d = f[p + 5]
        /\ k >= Mide(a, b, c, d)
        /\ p + k <= 24 + L /\ p + 5 <= 24 + L
  <2>1. /\ f[p + 2] \in 0 .. 255 /\ f[p + 3] \in 0 .. 255
        /\ f[p + 4] \in 0 .. 255 /\ f[p + 5] \in 0 .. 255
        /\ k >= Mide(f[p + 2], f[p + 3], f[p + 4], f[p + 5])
    BY <1>4, Zenon DEF SeMide
  <2>2. p + k <= Len(f) /\ p + 5 <= Len(f)
    BY <1>4, Zenon DEF SeMide
  <2>3. p + k <= 24 + L /\ p + 5 <= 24 + L
    BY <1>4, <2>2, Zenon
  <2> USE <2>1
  <2> WITNESS f[p + 2] \in 0 .. 255, f[p + 3] \in 0 .. 255,
              f[p + 4] \in 0 .. 255, f[p + 5] \in 0 .. 255
  <2> QED
    BY <2>3, Zenon
<1>6. \A i \in 24 .. 23 + L : f[i] \in 1 .. 255
  BY <1>4, Zenon DEF EsHandshake
<1>7. p + 4 \in 24 .. 23 + L
  BY <1>4, <1>5
<1>8. c \in 1 .. 255
  BY <1>5, <1>6, <1>7
<1>9. k <= 1 + L
  BY <1>4, <1>5
<1>10. c # 0 => k > 1000
  <2>1. k >= 5 + a + 256 * b + 256 * 256 * c + 256 * 256 * 256 * d
    BY <1>5, Zenon DEF Mide
  <2> QED
    BY <2>1
<1> QED
  BY <1>8, <1>9, <1>10

\* A handshake is taken for a query only after the sizes.
LEMMA OperacionDeHandshake ==
  ASSUME TipoInv, cliente.tipo = "worker", Len(cliente.texto) \in 1 .. 239,
         NEW b \in Seq(Octeto), Len(b) = 4, NEW q \in Nat, q <= Len(flujo),
         Dentro(b, q, flujo), MENSAJE_MASTER \in Valores(b)
  PROVE  q >= 23
<1>1. PICK L \in 1 .. 239 : L = Len(cliente.texto)
  OBVIOUS
<1>2. Len(flujo) = 24 + L /\ EsHandshake(flujo, L)
  BY <1>1, FlujoDeWorker DEF TipoInv, TypeOK
<1>3. PICK f : f = flujo /\ EsHandshake(f, L) /\ Dentro(b, q, f)
  BY <1>2, Zenon
<1>4. PICK p1, p2, p3, p4 \in 1 .. q :
        /\ p1 < p2 /\ p2 < p3 /\ p3 < p4
        /\ b[1] = f[p1] /\ b[2] = f[p2] /\ b[3] = f[p3] /\ b[4] = f[p4]
  <2>1. EnCuatro(b, q, f)
    BY <1>3, DentroCuatro
  <2> QED
    BY <2>1, Zenon DEF EnCuatro
<1>5. p1 \in 1 .. 24 + L /\ p2 \in 1 .. 24 + L /\ p3 \in 1 .. 24 + L /\ p4 \in 1 .. 24 + L
  BY <1>2
<1>6. Completo(b)
  <2>1. \A i \in 1 .. 24 + L : f[i] \in Byte
    BY <1>3, BytesDeHandshake
  <2>2. b[1] \in Byte /\ b[2] \in Byte /\ b[3] \in Byte /\ b[4] \in Byte
    BY <1>4, <1>5, <2>1, Zenon
  <2>3. Basura \notin Byte
    BY DEF Basura, Byte
  <2>4. \A i \in 1 .. 4 : i = 1 \/ i = 2 \/ i = 3 \/ i = 4
    OBVIOUS
  <2>5. \A i \in 1 .. 4 : b[i] # Basura
    <3> SUFFICES ASSUME NEW i \in 1 .. 4 PROVE b[i] # Basura
      OBVIOUS
    <3>1. b[i] \in Byte
      BY <2>2, <2>4, Zenon
    <3> QED
      BY <2>3, <3>1, Zenon
  <2> QED
    BY <2>5, Zenon DEF Completo
<1>7. Entero(b) = 6
  BY <1>6, ValoresSon DEF MENSAJE_MASTER
<1>8. b[1] = 6 /\ b[2] = 0 /\ b[3] = 0 /\ b[4] = 0
  <2>1. Entero(b) \in 1 .. 255
    BY <1>7
  <2> QED
    BY <1>6, <1>7, <2>1, CodigoEs
<1>9. f[p1] = 6 /\ f[p2] = 0 /\ f[p3] = 0
  BY <1>4, <1>8, Zenon
<1>10. \/ p1 \in 5 .. 8 /\ f[p1] = Int4(16 + L)[p1 - 4]
       \/ p1 \in 20 .. 23
  <2>1. f[p1] \in 1 .. 64 /\ f[p1] # 7
    BY <1>9
  <2>2. \/ f[p1] = 7
        \/ p1 \in 5 .. 8 /\ f[p1] = Int4(16 + L)[p1 - 4]
        \/ p1 \in 20 .. 23 /\ f[p1] = Int4(L + 1)[p1 - 19]
    <3>1. EsHandshake(f, L) /\ p1 < p2 /\ p2 < p3 /\ f[p2] = 0 /\ f[p3] = 0
      BY <1>3, <1>4, <1>9, Zenon
    <3>2. L \in Nat
      OBVIOUS
    <3> HIDE <1>3, <1>4
    <3> QED
      BY <1>5, <2>1, <3>1, <3>2, CodigoEnHandshake
  <2> QED
    BY <2>1, <2>2
<1>11. ~(p1 \in 5 .. 8 /\ f[p1] = Int4(16 + L)[p1 - 4])
  <2> SUFFICES ASSUME p1 \in 5 .. 8, f[p1] = Int4(16 + L)[p1 - 4] PROVE FALSE
    OBVIOUS
  <2>1. PICK n \in 17 .. 255 : n = 16 + L
    OBVIOUS
  <2>2. Int4(n)[1] = n /\ Int4(n)[2] = 0 /\ Int4(n)[3] = 0 /\ Int4(n)[4] = 0
    <3>1. n \in 0 .. 255
      OBVIOUS
    <3> QED
      BY <3>1, Int4DeUnByte
  <2>3. p1 - 4 = 1 \/ p1 - 4 = 2 \/ p1 - 4 = 3 \/ p1 - 4 = 4
    OBVIOUS
  <2>4. Int4(n)[p1 - 4] = n \/ Int4(n)[p1 - 4] = 0
    BY <2>2, <2>3, Zenon
  <2>5. Int4(n)[p1 - 4] = 6
    BY <1>9, <2>1
  <2> QED
    BY <2>4, <2>5
<1> QED
  BY <1>4, <1>10, <1>11

\* What has been received when Q takes what it received for a query, and when it waits
\* for the rest: no less than the code and the first byte of the size, or, from a
\* Worker, all but the id; or nothing more will ever come.
YaPaso(deConsulta) ==
  SeFue("Q") \/ pos >= IF cliente.tipo = "query" THEN deConsulta ELSE 23

\* For texts of 1 to 239 characters.
OtraInv ==
  Len(cliente.texto) \in 1 .. 239 =>
    /\ lugar["Q"] = "tamanio" => YaPaso(4)
    /\ lugar["Q"] = "carga" => YaPaso(5)
    /\ planificada \in {Nada, Dudosa, [prioridad |-> cliente.prioridad,
                                        path      |-> cliente.texto]}

\* What the peer sent before it closed has arrived.
CierreInv == cerrado => llegado = Len(flujo)

\* What no step takes back.
Avanza ==
  /\ UNCHANGED par
  /\ pos <= pos' /\ llegado <= llegado' /\ perdidos \subseteq perdidos'
  /\ abierto' => abierto
  /\ cerrado => cerrado' /\ llegado' = llegado
  /\ cerrado' => cerrado \/ llegado' = Len(flujo)

\* No step does.
LEMMA PasoAvanza ==
  ASSUME TipoInv, CierreInv, [Next]_vars
  PROVE  Avanza
<1>1. pos \in Nat /\ llegado \in Nat /\ pos <= pos /\ llegado <= llegado
  BY Cuentas
<1>2. ASSUME NEW h \in Hilos, NEW r \in Enteros(h), RecibirEntero(h, r) PROVE pos <= pos'
  BY <1>2, TrasUnEntero
<1>3. ASSUME NEW h \in Hilos, NEW k \in Cuantos(h), pos' = pos + k PROVE pos <= pos'
  BY <1>1, <1>3, CuantosSon
<1>4. CASE UNCHANGED vars
  BY <1>1, <1>4 DEF vars, par, Avanza
<1>5. CASE Llegar
  <2>1. PICK n \in Nat : n <= Len(flujo) /\ n > llegado /\ llegado' = n
    <3>1. \E n \in 1 .. Len(flujo) : n > llegado /\ llegado' = n
      BY <1>1, <1>5, Cuentas DEF Llegar
    <3> QED
      BY <3>1, Cuentas
  <2>2. Len(flujo) \in Nat
    BY Cuentas
  <2>3. llegado # Len(flujo) /\ llegado <= llegado'
    BY <1>1, <2>1, <2>2
  <2>4. ~cerrado
    BY <2>3 DEF CierreInv
  <2>5. /\ UNCHANGED par
        /\ pos' = pos /\ perdidos' = perdidos /\ abierto' = abierto /\ cerrado' = cerrado
    BY <1>5 DEF Llegar
  <2> QED
    BY <1>1, <2>3, <2>4, <2>5 DEF Avanza
<1>6. CASE Cerrar
  BY <1>1, <1>6 DEF Cerrar, Avanza
<1>7. ASSUME NEW h \in Hilos, Acumular(h) PROVE Avanza
  BY <1>1, <1>7, Cuentas DEF Acumular, Avanza
<1>8. ASSUME NEW h \in Hilos, LeerCelda(h) PROVE Avanza
  BY <1>1, <1>8 DEF LeerCelda, Avanza
<1>9. ASSUME NEW h \in Hilos, LiberarCelda(h) \/ NoHayOperacion(h) PROVE Avanza
  <2>1. /\ UNCHANGED par
        /\ pos' = pos /\ llegado' = llegado /\ perdidos' = perdidos /\ cerrado' = cerrado
    BY <1>9 DEF LiberarCelda, NoHayOperacion
  <2>2. abierto' = abierto \/ abierto' = (abierto /\ h \in perdidos)
    BY <1>9 DEF LiberarCelda, NoHayOperacion
  <2>3. abierto' => abierto
    BY <2>2, Zenon
  <2> QED
    BY <1>1, <2>1, <2>3 DEF Avanza
<1>10. ASSUME NEW h \in Hilos, RecibirOperacion(h) PROVE Avanza
  BY <1>1, <1>2, <1>10 DEF RecibirOperacion, Avanza
<1>11. ASSUME RecibirTamanio PROVE Avanza
  BY <1>1, <1>2, <1>11 DEF RecibirTamanio, Avanza, Hilos
<1>12. ASSUME RecibirCarga PROVE Avanza
  BY <1>1, <1>3, <1>12 DEF RecibirCarga, Avanza, Hilos
<1>13. ASSUME RecibirMensaje PROVE Avanza
  BY <1>1, <1>2, <1>3, <1>13 DEF RecibirMensaje, Avanza, Hilos
<1>14. ASSUME NEW h \in Hilos, RecibirId(h) PROVE Avanza
  BY <1>1, <1>2, <1>14 DEF RecibirId, Avanza
<1>15. ASSUME NEW h \in Hilos, RecibirCargaId(h) PROVE Avanza
  BY <1>1, <1>3, <1>15 DEF RecibirCargaId, Avanza
<1> QED
  BY <1>4, <1>5, <1>6, <1>7, <1>8, <1>9, <1>10, <1>11, <1>12, <1>13, <1>14, <1>15
     DEF Next, Hilo

\* Who has nothing more to receive will never have: the peer has closed, or the thread
\* has lost the descriptor, or it is closed.
LEMMA SeFueSigue ==
  ASSUME TipoInv, TipoInv', CierreInv, Avanza, NEW h \in Hilos, SeFue(h)
  PROVE  SeFue(h)'
<1>1. CASE h \in perdidos
  BY <1>1 DEF SeFue, Avanza
<1>2. CASE ~abierto
  BY <1>2 DEF SeFue, Avanza
<1>3. CASE cerrado /\ Hay = 0
  <2>1. cerrado' /\ llegado' = llegado /\ pos <= pos'
    BY <1>3 DEF Avanza
  <2>2. pos' \in Nat /\ pos' <= llegado' /\ llegado \in Nat /\ pos \in Nat /\ pos = llegado
    BY <1>3, Cuentas DEF TipoInv, TypeOK
  <2>3. pos' = llegado' /\ pos' \in Nat
    BY <2>1, <2>2
  <2>4. Hay' = 0
    <3>1. Hay' = llegado' - pos'
      BY Zenon DEF Hay
    <3>2. PICK n \in Nat : llegado' = n /\ pos' = n
      BY <2>3
    <3> QED
      BY <3>1, <3>2
  <2> QED
    BY <2>1, <2>4 DEF SeFue
<1> QED
  BY <1>1, <1>2, <1>3 DEF SeFue

\* What has passed has passed.
LEMMA YaPasoSigue ==
  ASSUME TipoInv, TipoInv', CierreInv, Avanza, NEW n \in Nat, YaPaso(n)
  PROVE  YaPaso(n)'
<1>1. "Q" \in Hilos /\ cliente' = cliente /\ pos <= pos' /\ pos \in Nat /\ pos' \in Nat
  BY Cuentas DEF Avanza, par, Hilos, TipoInv, TypeOK
<1>2. CASE SeFue("Q")
  BY <1>1, <1>2, SeFueSigue DEF YaPaso
<1>3. CASE pos >= IF cliente.tipo = "query" THEN n ELSE 23
  BY <1>1, <1>3 DEF YaPaso
<1> QED
  BY <1>2, <1>3 DEF YaPaso

\* Q takes what it received for a query after the code, or after the sizes of a Worker,
\* or when nothing more will come.
LEMMA OperacionDeConsulta ==
  ASSUME TipoInv, TipoInv', DentroInv, CierreInv, Avanza,
         Len(cliente.texto) \in 1 .. 239, lugar["Q"] = "codigo",
         NEW r \in Enteros("Q"), RecibirEntero("Q", r), r.valor = MENSAJE_MASTER
  PROVE  YaPaso(4)'
<1>1. "Q" \in Hilos /\ cliente' = cliente /\ flujo' = flujo
  BY DEF Hilos, Avanza, par
<1>2. CASE SeFue("Q")
  BY <1>1, <1>2, SeFueSigue DEF YaPaso
<1>3. CASE ~SeFue("Q")
  <2>1. r.bytes \in Seq(Octeto) /\ Len(r.bytes) = 4 /\ MENSAJE_MASTER \in Valores(r.bytes)
    BY <1>1, <1>3, EnteroRecibido DEF ConEspera
  <2>2. pos' \in Nat /\ pos' <= Len(flujo)
    <3>1. pos' \in 0 .. llegado
      BY <1>1, TrasUnEntero
    <3> QED
      BY <3>1, Cuentas
  <2>3. PICK q \in Nat, b \in Seq(Octeto) :
          /\ q = pos' /\ b = r.bytes /\ Len(b) = 4 /\ q <= Len(flujo)
          /\ Dentro(b, q, flujo) /\ MENSAJE_MASTER \in Valores(b)
    BY <1>1, <2>1, <2>2, DentroTrasUnEntero
  <2>4. q >= IF cliente.tipo = "query" THEN 4 ELSE 23
    <3>1. CASE cliente.tipo = "query"
      <4>1. PICK x : x = flujo
        OBVIOUS
      <4>2. Dentro(b, q, x) /\ Len(b) = 4
        BY <2>3, <4>1
      <4>3. EnCuatro(b, q, x)
        BY <4>2, DentroCuatro
      <4>4. PICK p1, p2, p3, p4 \in 1 .. q : p1 < p2 /\ p2 < p3 /\ p3 < p4
        BY <4>3, Zenon DEF EnCuatro
      <4> QED
        BY <3>1, <4>4
    <3>2. CASE cliente.tipo = "worker"
      <4>1. q >= 23
        BY <2>3, <3>2, OperacionDeHandshake
      <4> QED
        BY <3>2, <4>1
    <3> QED
      BY <3>1, <3>2, DatosDelCliente DEF TipoInv, TypeOK
  <2> QED
    BY <1>1, <2>3, <2>4 DEF YaPaso
<1> QED
  BY <1>2, <1>3

\* What Q takes of the rest is the query, or does not read as one.
LEMMA CargaSegura ==
  ASSUME TipoInv, YaPaso(5), Len(cliente.texto) \in 1 .. 239,
         NEW k \in Cuantos("Q"), Deserializable(Trozo(k))
  PROVE  PaqueteDeserializar(Trozo(k)) =
           [prioridad |-> cliente.prioridad, path |-> cliente.texto]
<1>1. k \in Nat /\ k <= Hay /\ (SeFue("Q") => k = 0)
  BY CuantosSon DEF Hilos
<1>2. CASE SeFue("Q")
  <2>1. k = 0
    BY <1>1, <1>2
  <2>2. Len(Trozo(k)) = 0
    BY <1>1, <2>1, TrozoEs
  <2> QED
    BY <2>2 DEF Deserializable
<1>3. CASE ~SeFue("Q") /\ cliente.tipo = "query"
  <2>1. pos >= 5
    BY <1>3 DEF YaPaso
  <2> QED
    BY <1>1, <1>3, <2>1, CargaDeConsulta
<1>4. CASE ~SeFue("Q") /\ cliente.tipo = "worker"
  <2>1. pos >= 23
    BY <1>4 DEF YaPaso
  <2> QED
    BY <1>1, <1>4, <2>1, CargaDeHandshake
<1> QED
  BY <1>2, <1>3, <1>4, DatosDelCliente DEF TipoInv, TypeOK

\* Every step preserves it.
LEMMA OtraPaso ==
  ASSUME TipoInv, TipoInv', DentroInv, CierreInv, OtraInv, [Next]_vars
  PROVE  OtraInv' /\ CierreInv'
<1>1. Avanza
  BY PasoAvanza
<1>2. CierreInv'
  <2>1. cerrado' => llegado' = Len(flujo)
    BY <1>1 DEF Avanza, CierreInv
  <2> QED
    BY <1>1, <2>1 DEF CierreInv, Avanza, par
<1>3. "Q" \in Hilos /\ cliente' = cliente /\ pos \in Nat
  BY <1>1, Cuentas DEF Hilos, Avanza, par
<1> SUFFICES ASSUME Len(cliente.texto) \in 1 .. 239
             PROVE  /\ lugar'["Q"] = "tamanio" => YaPaso(4)'
                    /\ lugar'["Q"] = "carga" => YaPaso(5)'
                    /\ planificada' \in {Nada, Dudosa, [prioridad |-> cliente.prioridad,
                                                        path      |-> cliente.texto]}
  BY <1>2, <1>3 DEF OtraInv
<1>4. /\ lugar["Q"] = "tamanio" => YaPaso(4)
      /\ lugar["Q"] = "carga" => YaPaso(5)
      /\ planificada \in {Nada, Dudosa, [prioridad |-> cliente.prioridad,
                                          path      |-> cliente.texto]}
  BY DEF OtraInv
<1>5. /\ YaPaso(4) => YaPaso(4)'
      /\ YaPaso(5) => YaPaso(5)'
  BY <1>1, YaPasoSigue
<1>6. ASSUME lugar'["Q"] = lugar["Q"] \/ lugar'["Q"] \notin {"tamanio", "carga"},
             planificada' = planificada
      PROVE  /\ lugar'["Q"] = "tamanio" => YaPaso(4)'
             /\ lugar'["Q"] = "carga" => YaPaso(5)'
             /\ planificada' \in {Nada, Dudosa, [prioridad |-> cliente.prioridad,
                                                 path      |-> cliente.texto]}
  BY <1>4, <1>5, <1>6
<1>7. CASE UNCHANGED vars \/ Llegar \/ Cerrar \/ Acumular("Q")
  BY <1>6, <1>7 DEF vars, Llegar, Cerrar, Acumular, hilos
<1>8. ASSUME NEW h \in Hilos \ {"Q"}, Hilo(h)
      PROVE  lugar'["Q"] = lugar["Q"] /\ planificada' = planificada
  BY <1>8, PasoDeOtro
<1>9. CASE LeerCelda("Q") \/ LiberarCelda("Q") \/ NoHayOperacion("Q")
  <2>1. lugar'["Q"] \in {"liberar", "codigo", "fin"} /\ planificada' = planificada
    BY <1>3, <1>9 DEF LeerCelda, LiberarCelda, NoHayOperacion, Ir, TipoInv, TypeOK
  <2> QED
    BY <1>6, <2>1
<1>10. CASE RecibirOperacion("Q")
  <2>1. PICK r \in Enteros("Q") :
          RecibirEntero("Q", r)
          /\ \E l \in Destinos("Q", r) : lugar' = [lugar EXCEPT !["Q"] = l]
    BY <1>10 DEF RecibirOperacion, Ir
  <2>2. lugar["Q"] = "codigo" /\ planificada' = planificada
    BY <1>10 DEF RecibirOperacion
  <2>3. lugar'["Q"] = IF r.valor = MENSAJE_MASTER THEN "tamanio" ELSE "fin"
    BY <1>3, <2>1 DEF Destinos, TipoInv, TypeOK
  <2>4. CASE r.valor = MENSAJE_MASTER
    <3>1. YaPaso(4)'
      BY <1>1, <2>1, <2>2, <2>4, OperacionDeConsulta
    <3> QED
      BY <1>4, <2>2, <2>3, <2>4, <3>1
  <2>5. CASE r.valor # MENSAJE_MASTER
    BY <1>4, <2>2, <2>3, <2>5
  <2> QED
    BY <2>4, <2>5
<1>11. CASE RecibirTamanio
  <2>1. PICK r \in Enteros("Q") : RecibirEntero("Q", r)
    BY <1>11 DEF RecibirTamanio
  <2>2. lugar["Q"] = "tamanio" /\ lugar'["Q"] = "carga" /\ planificada' = planificada
    BY <1>3, <1>11 DEF RecibirTamanio, Ir, TipoInv, TypeOK
  <2>3. YaPaso(4)
    BY <1>4, <2>2
  <2>4. YaPaso(5)'
    <3>1. CASE SeFue("Q")
      BY <1>1, <1>3, <3>1, SeFueSigue DEF YaPaso
    <3>2. CASE ~SeFue("Q")
      <4>1. PICK n \in Nat : n = r.n /\ n >= 1 /\ pos' = pos + n
        BY <1>3, <2>1, <3>2, EnteroRecibido DEF RecibirEntero
      <4>2. pos >= IF cliente.tipo = "query" THEN 4 ELSE 23
        BY <2>3, <3>2 DEF YaPaso
      <4>3. pos' >= IF cliente.tipo = "query" THEN 5 ELSE 23
        BY <1>3, <4>1, <4>2
      <4> QED
        BY <1>3, <4>3 DEF YaPaso
    <3> QED
      BY <3>1, <3>2
  <2> QED
    BY <1>4, <2>2, <2>4
<1>12. CASE RecibirCarga
  <2>1. PICK k \in Cuantos("Q") :
          IF Deserializable(Trozo(k))
          THEN planificada' = PaqueteDeserializar(Trozo(k)) /\ UNCHANGED caido
          ELSE planificada' = Dudosa /\ caido' \in BOOLEAN
    BY <1>12 DEF RecibirCarga
  <2>2. lugar["Q"] = "carga" /\ lugar'["Q"] = "planificando"
    BY <1>3, <1>12 DEF RecibirCarga, Ir, TipoInv, TypeOK
  <2>3. YaPaso(5)
    BY <1>4, <2>2
  <2>4. planificada' \in {Dudosa, [prioridad |-> cliente.prioridad,
                                   path      |-> cliente.texto]}
    BY <2>1, <2>3, CargaSegura
  <2> QED
    BY <2>2, <2>4
<1> QED
  BY <1>3, <1>6, <1>7, <1>8, <1>9, <1>10, <1>11, <1>12 DEF Next, Hilo

\* However the bytes of a packet are shared out and cut, the planner is never given a
\* query other than the one that was sent, for every text of 1 to 239 characters and
\* every priority (deserealizacion_master.c l. 5-37).
THEOREM SiempreNuncaOtraConsulta == Spec => []NuncaOtraConsulta
<1> DEFINE Inv == TipoInv /\ SoloInv /\ CierreInv /\ OtraInv
<1>1. Init => Inv
  <2> SUFFICES ASSUME Init PROVE Inv
    OBVIOUS
  <2>1. DentroInv
    BY DentroVacio DEF Init, DentroInv
  <2>2. lugar["Q"] = "celda"
    BY DEF Init, Hilos
  <2> QED
    BY TipoInicial, <2>1, <2>2 DEF Init, SoloInv, SoloCoincidencias, CierreInv, OtraInv
<1>2. Inv /\ [Next]_vars => Inv'
  <2> SUFFICES ASSUME Inv, [Next]_vars PROVE Inv'
    OBVIOUS
  <2>1. TipoInv'
    BY TipoPaso
  <2>2. SoloInv'
    BY <2>1, SoloPaso
  <2>3. OtraInv' /\ CierreInv'
    BY <2>1, OtraPaso DEF SoloInv
  <2> QED
    BY <2>1, <2>2, <2>3
<1>3. Inv => NuncaOtraConsulta
  BY DEF OtraInv, NuncaOtraConsulta
<1> QED
  BY <1>1, <1>2, <1>3, PTL DEF Spec
=============================================================================
