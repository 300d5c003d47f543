------------------------------ MODULE Fragmentos ------------------------------
(***************************************************************************)
(* The loop that splits a READ or a WRITE into accesses that stay inside   *)
(* one page: worker/src/worker_query.c l. 84-131, with the arguments as    *)
(* worker_instruccion_parsear_linea leaves them.  Everything is uint32_t:  *)
(* arithmetic is modulo `Modulo' (2^32 in the program).                    *)
(***************************************************************************)
EXTENDS Integers

CONSTANTS
  Modulo,       \* number of values of the unsigned type
  BlockSizes,   \* the block sizes the Storage may answer with
  Numeros       \* the numbers a script may hold, before conversion

ASSUME ModuloAssumption == Modulo \in Nat \ {0, 1}
\* worker_conectar_storage refuses a block size that is not positive (l. 71).
ASSUME BlockSizesAssumption == BlockSizes \subseteq 1 .. Modulo - 1
ASSUME NumerosAssumption == Numeros \subseteq Int

VARIABLES
  block_size,   \* worker->block_size, fixed when the Worker starts
  fase,         \* "parseo", "ciclo" or "hecho"
  base, size,   \* instr->base, instr->size
  cursor,       \* cursor_w, cursor_r
  remaining,    \* remaining_w, remaining_r
  contenido,    \* length of instr->contenido; 0 for a READ
  tipo,         \* "READ" or "WRITE"
  acceso        \* history: the last access, [desde, offset, largo]

vars == <<block_size, fase, base, size, cursor, remaining, contenido, tipo, acceso>>

Uint == 0 .. Modulo - 1
SinAcceso == [desde |-> 0, offset |-> 0, largo |-> 0]

\* Types of the loop.
TypeOK ==
  /\ block_size \in BlockSizes
  /\ fase \in {"parseo", "ciclo", "hecho"}
  /\ base \in Uint /\ size \in Uint /\ cursor \in Uint /\ remaining \in Uint
  /\ contenido \in Uint
  /\ tipo \in {"READ", "WRITE"}
  /\ acceso \in [desde: Uint, offset: Uint, largo: Uint]

\* strtoll stored in a uint32_t.
AUint(n) == n % Modulo

Init ==
  /\ block_size \in BlockSizes
  /\ fase = "parseo"
  /\ base = Modulo - 1 /\ size = Modulo - 1      \* instr->base = instr->size = -1
  /\ cursor = 0 /\ remaining = 0 /\ contenido = 0
  /\ tipo = "READ"
  /\ acceso = SinAcceso

Read(base_s, size_s) ==
  /\ fase = "parseo"
  /\ tipo' = "READ"
  /\ base' = AUint(base_s) /\ size' = AUint(size_s)
  /\ remaining' = size'
  /\ fase' = "ciclo"
  /\ UNCHANGED <<block_size, cursor, contenido, acceso>>

\* The parser sets the base and the content of a WRITE, never its size; a WRITE
\* without content is an invalid line.
Write(base_s, largo) ==
  /\ fase = "parseo"
  /\ tipo' = "WRITE"
  /\ base' = AUint(base_s) /\ contenido' = largo
  /\ remaining' = size
  /\ fase' = "ciclo"
  /\ UNCHANGED <<block_size, size, cursor, acceso>>

Menor(a, b) == IF a < b THEN a ELSE b
OffsetInPage == ((base + cursor) % Modulo) % block_size

LargoSinPagina == remaining                             \* mutant: MIN is dropped
LargoPagina == Menor(block_size, remaining)    \* mutant: the offset is forgotten
Largo == Menor(block_size - OffsetInPage, remaining)

AccederSinAvanzar ==   \* mutant: cursor is not moved
  /\ fase = "ciclo" /\ remaining > 0
  /\ acceso' = [desde |-> cursor, offset |-> OffsetInPage, largo |-> Largo]
  /\ remaining' = (remaining - Largo) % Modulo
  /\ UNCHANGED <<block_size, fase, base, size, contenido, tipo, cursor>>

AccederSinRestar ==   \* mutant: remaining is not decreased
  /\ fase = "ciclo" /\ remaining > 0
  /\ acceso' = [desde |-> cursor, offset |-> OffsetInPage, largo |-> Largo]
  /\ cursor' = (cursor + Largo) % Modulo
  /\ UNCHANGED <<block_size, fase, base, size, contenido, tipo, remaining>>

AccederSinModulo ==   \* mutant: cursor grows past the width of its type
  /\ fase = "ciclo" /\ remaining > 0
  /\ acceso' = [desde |-> cursor, offset |-> OffsetInPage, largo |-> Largo]
  /\ cursor' = cursor + block_size
  /\ remaining' = (remaining - Largo) % Modulo
  /\ UNCHANGED <<block_size, fase, base, size, contenido, tipo>>

Acceder ==
  /\ fase = "ciclo" /\ remaining > 0
  /\ acceso' = [desde |-> cursor, offset |-> OffsetInPage, largo |-> Largo]
  /\ cursor' = (cursor + Largo) % Modulo
  /\ remaining' = (remaining - Largo) % Modulo
  /\ UNCHANGED <<block_size, fase, base, size, contenido, tipo>>

Terminar ==
  /\ fase = "ciclo" /\ remaining = 0
  /\ fase' = "hecho"
  /\ UNCHANGED <<block_size, base, size, cursor, remaining, contenido, tipo,
                 acceso>>

Parsear ==
  \/ \E b, s \in Numeros : Read(b, s)
  \/ \E b \in Numeros, n \in Uint \ {0} : Write(b, n)

Next == Parsear \/ Acceder \/ Terminar
Spec == Init /\ [][Next]_vars

\* The loop has no exit but its condition and no call that can block.
FairSpec == Spec /\ WF_vars(Acceder \/ Terminar)

-----------------------------------------------------------------------------
(* Properties *)

\* An access never crosses the end of a page, even when base + cursor wraps
\* around (l. 93-94, 116-117).
DentroDePagina == acceso.offset + acceso.largo <= block_size

\* What has been accessed and what is left add up to the size asked for, and no
\* access is empty: the loop neither repeats nor skips a byte of the range.
NadaDeMas ==
  fase # "parseo" =>
    /\ cursor + remaining = size
    /\ acceso # SinAcceso =>
         acceso.largo > 0 /\ acceso.desde + acceso.largo = cursor

\* The address of byte n of the range; like base and cursor it is a uint32_t.
Direccion(n) == (base + n) % Modulo

\* Does the access go past the last address of the type into address 0?
CruzaElFinal(a) == Direccion(a.desde) + a.largo > Modulo

\* Every byte of a range, one that wraps around the type included, is accessed at
\* the offset its own address has in a page (l. 93, 116: one offset is computed
\* for the whole access).  Left out is the one access that crosses the last
\* address, when the block size does not divide the number of values of the type:
\* there the pages before and after the end do not line up.
CadaByteEnSuLugar ==
  acceso.largo > 0 /\ (~CruzaElFinal(acceso) \/ Modulo % block_size = 0) =>
    \A k \in 0 .. acceso.largo - 1 :
      acceso.offset + k = Direccion(acceso.desde + k) % block_size

\* The loop ends for every base and size (l. 92, 115).
CicloTermina == fase = "ciclo" ~> fase = "hecho"

\* A WRITE writes its content ("contenido (WRITE)", worker_instrucciones.h l. 39-40:
\* the header keeps size for READ and TRUNCATE).
EscribeContenido == tipo = "WRITE" /\ fase = "hecho" => cursor = contenido
=============================================================================
