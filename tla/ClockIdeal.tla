------------------------------ MODULE ClockIdeal ------------------------------
(***************************************************************************)
(* What a CLOCK-M replacement promises, in one step: the victim in closed  *)
(* form instead of a two-lap search.  `orden' is the clock order that       *)
(* starts at the hand.                                                     *)
(*   - If some occupied frame is in class (R,M) = (0,0), the first of them  *)
(*     in clock order goes, and the occupied frames passed over on the way  *)
(*     lose their use bit.                                                 *)
(*   - Otherwise the first occupied frame goes and every other one loses    *)
(*     its use bit: after one lap all R are 0 and the second lap stops at   *)
(*     the first occupied frame, modified or not.                          *)
(***************************************************************************)
EXTENDS Integers

CONSTANTS Bloques, Buffers, Nulo, MaxFrames
VARIABLES frames, puntero

Marcos == 0 .. MaxFrames - 1
Ocupados == {i \in Marcos : frames[i].ocupado}
Limpios == {i \in Ocupados : ~frames[i].bit_uso /\ ~frames[i].bit_modificado}

\* Steps the hand takes to reach frame i.
Distancia(i) == (i - puntero + MaxFrames) % MaxFrames
Primero(S) == CHOOSE i \in S : \A j \in S : Distancia(i) <= Distancia(j)

Libre == [id_bloque |-> Nulo, ocupado |-> FALSE, bit_uso |-> FALSE,
          bit_modificado |-> FALSE, contenido |-> Nulo]
Nueva(b, c) == [id_bloque |-> b, ocupado |-> TRUE, bit_uso |-> TRUE,
                bit_modificado |-> FALSE, contenido |-> c]

SinUso(p) == [p EXCEPT !.bit_uso = FALSE]

Init ==
  /\ frames = [i \in Marcos |-> Libre]
  /\ puntero = 0

Cargar(b, c) ==
  /\ \E i \in Marcos \ Ocupados : frames' = [frames EXCEPT ![i] = Nueva(b, c)]
  /\ UNCHANGED puntero

\* Victim v; the frames in `pasados' were visited and spared.
Sustituir(b, c, v, pasados) ==
  /\ frames' = [i \in Marcos |->
                  IF i = v THEN Nueva(b, c)
                  ELSE IF i \in pasados THEN SinUso(frames[i]) ELSE frames[i]]
  /\ puntero' = (v + 1) % MaxFrames

Reemplazar(b, c) ==
  /\ Ocupados # {}
  /\ IF Limpios # {}
     THEN LET v == Primero(Limpios)
          IN Sustituir(b, c, v, {i \in Ocupados : Distancia(i) < Distancia(v)})
     ELSE Sustituir(b, c, Primero(Ocupados), Ocupados)

Marcar(i, modificado) ==
  /\ i \in Ocupados
  /\ frames' = [frames EXCEPT ![i].bit_uso = TRUE,
                              ![i].bit_modificado = IF modificado THEN TRUE ELSE @]
  /\ UNCHANGED puntero

Vaciar ==
  /\ frames' = [i \in Marcos |-> Libre]
  /\ UNCHANGED puntero

Next ==
  \/ \E b \in Bloques, c \in Buffers : Cargar(b, c) \/ Reemplazar(b, c)
  \/ \E i \in Marcos, m \in BOOLEAN : Marcar(i, m)
  \/ Vaciar

Spec == Init /\ [][Next]_<<frames, puntero>>
=============================================================================
