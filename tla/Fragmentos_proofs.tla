-------------------------- MODULE Fragmentos_proofs --------------------------
(***************************************************************************)
(* Theorems about Fragmentos, for every width of the type and block size.  *)
(***************************************************************************)
EXTENDS Fragmentos, TLAPS

\* The remainder modulo a positive number, as the integer it is.
LEMMA RestoRango ==
  ASSUME NEW n \in Int, NEW m \in Nat \ {0}
  PROVE  n % m \in 0 .. m - 1
  OBVIOUS

\* It leaves alone what is smaller.
LEMMA RestoPropio ==
  ASSUME NEW m \in Nat \ {0}, NEW n \in 0 .. m - 1
  PROVE  n % m = n
  OBVIOUS

\* Adding to a counter that starts at zero.
LEMMA CeroMas ==
  ASSUME NEW n \in Int
  PROVE  0 + n = n
  OBVIOUS

\* An access is not empty, fits in what is left and does not leave its page.
LEMMA LargoCorrecto ==
  ASSUME TypeOK, remaining > 0
  PROVE  /\ OffsetInPage \in 0 .. block_size - 1
         /\ Largo \in 1 .. remaining
         /\ OffsetInPage + Largo <= block_size
<1>1. (base + cursor) % Modulo \in Nat
  BY RestoRango, ModuloAssumption DEF TypeOK, Uint
<1>2. block_size \in 1 .. Modulo - 1 /\ block_size \in Nat \ {0}
  BY BlockSizesAssumption, ModuloAssumption DEF TypeOK
<1>3. OffsetInPage \in 0 .. block_size - 1
  <2>. DEFINE r == (base + cursor) % Modulo
  <2>1. r \in Int
    BY <1>1
  <2>2. OffsetInPage = r % block_size
    BY DEF OffsetInPage
  <2>. HIDE DEF r
  <2>. QED
    BY <1>2, <2>1, <2>2, RestoRango
<1>. QED
  BY <1>2, <1>3, ModuloAssumption DEF Largo, Menor, TypeOK, Uint

\* Before the loop nothing has been accessed and, for a WRITE, size is the -1 of
\* the parser.
InicioOK == fase = "parseo" => cursor = 0 /\ acceso = SinAcceso

\* The inductive invariant of the loop.
Inv == TypeOK /\ InicioOK /\ NadaDeMas /\ DentroDePagina

\* One access: the sums do not wrap, so the modulus changes nothing.
LEMMA PasoAcceder ==
  ASSUME Inv, Acceder
  PROVE  /\ cursor' = cursor + Largo /\ cursor' \in Uint
         /\ remaining' = remaining - Largo /\ remaining' \in Uint
         /\ acceso' \in [desde: Uint, offset: Uint, largo: Uint]
         /\ block_size' = block_size
<1>1. /\ cursor \in Uint /\ remaining \in Uint /\ size \in Uint
      /\ cursor + remaining = size
  BY DEF Inv, TypeOK, NadaDeMas, Acceder
<1>2. /\ Largo \in 1 .. remaining /\ OffsetInPage \in 0 .. block_size - 1
  BY LargoCorrecto DEF Inv, Acceder
<1>. HIDE DEF Largo, OffsetInPage
<1>3. cursor + Largo \in 0 .. Modulo - 1 /\ remaining - Largo \in 0 .. Modulo - 1
  BY <1>1, <1>2, ModuloAssumption DEF Uint
<1>4. cursor' = cursor + Largo /\ remaining' = remaining - Largo
  BY <1>3, RestoPropio, ModuloAssumption DEF Acceder
<1>5. Largo \in Uint /\ OffsetInPage \in Uint
  BY <1>1, <1>2, ModuloAssumption, BlockSizesAssumption DEF Uint, Inv, TypeOK
<1>. QED
  BY <1>1, <1>3, <1>4, <1>5 DEF Acceder, Uint

\* The accesses of a READ or a WRITE stay in their page, are not empty, and add up
\* to the size asked for, whatever the width, the base and the size.
THEOREM AccesosCorrectos == Spec => []Inv
<1>1. Init => Inv
  <2>. SUFFICES ASSUME Init PROVE Inv
    OBVIOUS
  <2>1. 0 \in Uint /\ Modulo - 1 \in Uint
    BY ModuloAssumption DEF Uint
  <2>2. TypeOK
    BY <2>1 DEF Init, TypeOK, SinAcceso
  <2>3. DentroDePagina
    BY BlockSizesAssumption, ModuloAssumption DEF Init, DentroDePagina, SinAcceso
  <2>. QED
    BY <2>2, <2>3 DEF Init, Inv, InicioOK, NadaDeMas
<1>2. Inv /\ [Next]_vars => Inv'
  <2>. SUFFICES ASSUME Inv, [Next]_vars PROVE Inv'
    OBVIOUS
  <2>1. ASSUME NEW b \in Numeros, NEW s \in Numeros, Read(b, s) PROVE Inv'
    <3>1. base' \in Uint /\ size' \in Uint
      BY <2>1, RestoRango, ModuloAssumption, NumerosAssumption
      DEF Read, AUint, Uint
    <3>2. cursor' = 0 /\ acceso' = SinAcceso /\ acceso' = acceso
      BY <2>1 DEF Read, Inv, InicioOK
    <3>7. block_size' = block_size
      BY <2>1 DEF Read
    <3>3. TypeOK'
      BY <2>1, <3>1, <3>2 DEF Read, Inv, TypeOK
    <3>4. size' \in Int /\ remaining' = size'
      BY <2>1, <3>3, ModuloAssumption DEF Read, TypeOK, Uint
    <3>5. NadaDeMas'
      <4>1. cursor' + remaining' = size'
        BY <3>2, <3>4, CeroMas
      <4>2. acceso' = SinAcceso'
        BY <3>2 DEF SinAcceso
      <4>. QED
        BY <4>1, <4>2 DEF NadaDeMas
    <3>6. DentroDePagina'
      BY <3>2, <3>7 DEF Inv, DentroDePagina
    <3>. QED
      BY <2>1, <3>3, <3>5, <3>6 DEF Read, Inv, InicioOK
  <2>2. ASSUME NEW b \in Numeros, NEW n \in Uint \ {0}, Write(b, n) PROVE Inv'
    <3>1. base' \in Uint
      BY <2>2, RestoRango, ModuloAssumption, NumerosAssumption
      DEF Write, AUint, Uint
    <3>2. cursor' = 0 /\ acceso' = SinAcceso /\ acceso' = acceso
      BY <2>2 DEF Write, Inv, InicioOK
    <3>7. block_size' = block_size
      BY <2>2 DEF Write
    <3>3. TypeOK'
      BY <2>2, <3>1, <3>2 DEF Write, Inv, TypeOK
    <3>4. size' \in Int /\ remaining' = size'
      BY <2>2, <3>3, ModuloAssumption DEF Write, TypeOK, Uint
    <3>5. NadaDeMas'
      <4>1. cursor' + remaining' = size'
        BY <3>2, <3>4, CeroMas
      <4>2. acceso' = SinAcceso'
        BY <3>2 DEF SinAcceso
      <4>. QED
        BY <4>1, <4>2 DEF NadaDeMas
    <3>6. DentroDePagina'
      BY <3>2, <3>7 DEF Inv, DentroDePagina
    <3>. QED
      BY <2>2, <3>3, <3>5, <3>6 DEF Write, Inv, InicioOK
  <2>3. CASE Acceder
    <3>1. TypeOK'
      BY <2>3, PasoAcceder DEF Acceder, Inv, TypeOK
    <3>2. Largo \in 1 .. remaining /\ OffsetInPage + Largo <= block_size
          /\ OffsetInPage \in 0 .. block_size - 1
      BY <2>3, LargoCorrecto DEF Acceder, Inv
    <3>3. /\ acceso'.desde = cursor /\ acceso'.largo = Largo
          /\ acceso'.offset = OffsetInPage
          /\ fase' = "ciclo" /\ size' = size /\ block_size' = block_size
      BY <2>3 DEF Acceder
    <3>4. cursor \in Uint /\ remaining \in Uint /\ cursor + remaining = size
      BY <2>3 DEF Acceder, Inv, TypeOK, NadaDeMas
    <3>5. cursor' = cursor + Largo /\ remaining' = remaining - Largo
      BY <2>3, PasoAcceder
    <3>. HIDE DEF Largo, OffsetInPage
    <3>. QED
      BY <3>1, <3>2, <3>3, <3>4, <3>5
      DEF Inv, InicioOK, NadaDeMas, DentroDePagina, Uint
  <2>4. CASE Terminar
    BY <2>4 DEF Terminar, Inv, TypeOK, InicioOK, NadaDeMas, DentroDePagina
  <2>5. CASE UNCHANGED vars
    BY <2>5 DEF vars, Inv, TypeOK, InicioOK, NadaDeMas, DentroDePagina
  <2>. QED
    BY <2>1, <2>2, <2>3, <2>4, <2>5 DEF Next, Parsear
<1>. QED
  BY <1>1, <1>2, PTL DEF Spec

\* No access crosses the end of its page.
COROLLARY SiempreDentroDePagina == Spec => []DentroDePagina
<1>1. Inv => DentroDePagina
  BY DEF Inv
<1>. QED
  BY <1>1, AccesosCorrectos, PTL

\* No byte is repeated or skipped.
COROLLARY SiempreNadaDeMas == Spec => []NadaDeMas
<1>1. Inv => NadaDeMas
  BY DEF Inv
<1>. QED
  BY <1>1, AccesosCorrectos, PTL

\* Types of the loop, whatever the block size and the numbers of the script.
THEOREM TipoCorrecto == Spec => []TypeOK
BY AccesosCorrectos, PTL DEF Inv

-----------------------------------------------------------------------------
(* Where each byte goes *)

\* Quotient and remainder.
LEMMA Division ==
  ASSUME NEW n \in Int, NEW m \in Nat \ {0}
  PROVE  /\ n \div m \in Int /\ n % m \in 0 .. m - 1
         /\ n = m * (n \div m) + (n % m)
  OBVIOUS

\* The remainder is the only one.
LEMMA RestoUnico ==
  ASSUME NEW m \in Nat \ {0}, NEW q \in Int, NEW r \in 0 .. m - 1
  PROVE  (m * q + r) % m = r
  OBVIOUS

\* Inside a page consecutive bytes have consecutive offsets.
LEMMA RestoSuma ==
  ASSUME NEW n \in Int, NEW m \in Nat \ {0}, NEW k \in Nat, (n % m) + k < m
  PROVE  (n + k) % m = (n % m) + k
<1>. DEFINE q == n \div m
            r == n % m
<1>1. q \in Int /\ r \in 0 .. m - 1 /\ n = m * q + r
  BY Division
<1>. HIDE DEF q, r
<1>2. r + k \in 0 .. m - 1
  BY <1>1 DEF r
<1>3. n + k = m * q + (r + k)
  BY <1>1
<1>4. (m * q + (r + k)) % m = r + k
  BY <1>1, <1>2, RestoUnico
<1>. QED
  BY <1>3, <1>4 DEF r

\* Wrapping around a type whose number of values is a multiple of the block size
\* does not move a byte inside its page.
LEMMA RestoDeResto ==
  ASSUME NEW n \in Int, NEW M \in Nat \ {0}, NEW m \in Nat \ {0}, M % m = 0
  PROVE  (n % M) % m = n % m
<1>. DEFINE q == n \div M
            c == M \div m
            t == n % M
            p == t \div m
            r == t % m
<1>1. q \in Int /\ t \in Int /\ n = M * q + t
  BY Division
<1>2. c \in Int /\ M = m * c
  BY Division
<1>3. p \in Int /\ r \in 0 .. m - 1 /\ t = m * p + r
  BY <1>1, Division
<1>. HIDE DEF q, c, t, p, r
<1>4. n = m * (c * q + p) + r
  <2>1. n = (m * c) * q + (m * p + r)
    BY <1>1, <1>2, <1>3
  <2>2. (m * c) * q = m * (c * q) /\ m * (c * q) + m * p = m * (c * q + p)
    BY <1>1, <1>2, <1>3
  <2>. QED BY <1>1, <1>2, <1>3, <2>1, <2>2
<1>5. c * q + p \in Int
  BY <1>1, <1>2, <1>3
<1>6. (m * (c * q + p) + r) % m = r
  BY <1>3, <1>5, RestoUnico
<1>. QED
  BY <1>4, <1>6 DEF r, t

\* The last access starts at the offset of its first byte: the fact about one
\* access that CadaByteEnSuLugar says of every byte.
AccesoOK ==
  acceso.largo > 0 =>
    acceso.offset = ((base + acceso.desde) % Modulo) % block_size

\* (See AccesoOK.)
LEMMA AccesoCorrecto == Spec => []AccesoOK
<1>1. Init => AccesoOK
  BY DEF Init, AccesoOK, SinAcceso
<1>2. Inv /\ AccesoOK /\ [Next]_vars => AccesoOK'
  <2>. SUFFICES ASSUME Inv, AccesoOK, [Next]_vars PROVE AccesoOK'
    OBVIOUS
  <2>1. CASE Parsear
    <3>1. acceso = SinAcceso /\ acceso' = acceso
      BY <2>1 DEF Parsear, Read, Write, Inv, InicioOK
    <3>2. acceso'.largo = 0
      BY <3>1 DEF SinAcceso
    <3>. QED BY <3>2 DEF AccesoOK
  <2>2. CASE Acceder
    <3>1. /\ acceso'.desde = cursor /\ acceso'.offset = OffsetInPage
          /\ base' = base /\ block_size' = block_size
      BY <2>2 DEF Acceder
    <3>. QED BY <3>1 DEF AccesoOK, OffsetInPage
  <2>3. CASE Terminar \/ UNCHANGED vars
    BY <2>3 DEF Terminar, vars, AccesoOK
  <2>. QED BY <2>1, <2>2, <2>3 DEF Next
<1>. QED
  BY <1>1, <1>2, AccesosCorrectos, PTL DEF Spec

\* Every byte of a READ or a WRITE is accessed at the offset that its own address
\* has in a page (worker_query.c l. 93-100, 116-123), for every width, block size,
\* base and size, also in a range that wraps around the type; only of the access
\* that crosses the last address nothing is said, unless the block size divides
\* the number of values of the type.
THEOREM SiempreCadaByteEnSuLugar == Spec => []CadaByteEnSuLugar
<1>1. Inv /\ AccesoOK => CadaByteEnSuLugar
  <2>. SUFFICES ASSUME Inv, AccesoOK, acceso.largo > 0,
                       ~CruzaElFinal(acceso) \/ Modulo % block_size = 0,
                       NEW k \in 0 .. acceso.largo - 1
                PROVE  acceso.offset + k
                         = ((base + (acceso.desde + k)) % Modulo) % block_size
    BY DEF CadaByteEnSuLugar, Direccion
  <2>. DEFINE d == acceso.desde
              o == acceso.offset
              l == acceso.largo
              n == base + d
              a == n % Modulo
  <2>1. /\ d \in Uint /\ o \in Uint /\ l \in Uint /\ base \in Uint
        /\ block_size \in Nat \ {0} /\ Modulo \in Nat \ {0}
    BY BlockSizesAssumption, ModuloAssumption DEF Inv, TypeOK
  <2>2. n \in Int /\ k \in Nat /\ base + (d + k) = n + k
    BY <2>1 DEF Uint
  <2>3. o + l <= block_size
    BY DEF Inv, DentroDePagina
  <2>4. o = a % block_size
    BY DEF AccesoOK
  <2>5. a + l <= Modulo \/ Modulo % block_size = 0
    <3>1. a \in 0 .. Modulo - 1
      BY <2>1, <2>2, RestoRango
    <3>2. CruzaElFinal(acceso) <=> a + l > Modulo
      BY DEF CruzaElFinal, Direccion
    <3>. HIDE DEF a
    <3>. QED BY <2>1, <3>1, <3>2 DEF Uint
  <2>6. k \in 0 .. l - 1
    OBVIOUS
  <2>. HIDE DEF d, o, l, n
  <2>7. a \in 0 .. Modulo - 1
    BY <2>1, <2>2, RestoRango
  <2>8. o + k < block_size
    BY <2>1, <2>3, <2>6 DEF Uint
  <2>9. CASE a + l <= Modulo
    <3>1. a + k < Modulo
      <4>. HIDE DEF a
      <4>. QED BY <2>1, <2>6, <2>7, <2>9 DEF Uint
    <3>2. (n + k) % Modulo = a + k
      BY <2>1, <2>2, <3>1, RestoSuma
    <3>. HIDE DEF a
    <3>3. (a + k) % block_size = (a % block_size) + k
      <4>1. a \in Int /\ (a % block_size) + k < block_size
        BY <2>4, <2>7, <2>8
      <4>. QED BY <2>1, <2>2, <4>1, RestoSuma
    <3>. QED BY <2>2, <2>4, <3>2, <3>3 DEF d, o
  <2>10. CASE Modulo % block_size = 0
    <3>1. o = n % block_size
      BY <2>1, <2>2, <2>4, <2>10, RestoDeResto
    <3>2. n + k \in Int
      BY <2>2
    <3>3. ((n + k) % Modulo) % block_size = (n + k) % block_size
      BY <2>1, <2>10, <3>2, RestoDeResto
    <3>4. (n + k) % block_size = (n % block_size) + k
      <4>1. (n % block_size) + k < block_size
        BY <2>8, <3>1
      <4>. QED BY <2>1, <2>2, <4>1, RestoSuma
    <3>. QED BY <2>2, <3>1, <3>3, <3>4 DEF d, o
  <2>. QED
    BY <2>5, <2>9, <2>10
<1>. QED
  BY <1>1, AccesosCorrectos, AccesoCorrecto, PTL
=============================================================================
