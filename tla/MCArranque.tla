------------------------------- MODULE MCArranque -------------------------------
(* Arranque with answers of every kind. *)
EXTENDS Arranque

\* Too short, as expected and with more after; frames that fit the memory, frames
\* that do not, and block sizes that are no size; accepted or not.
MCRespuestas ==
  [size : {0, 4}, bloque : {2}, result : {0}]
    \cup [size : {8}, bloque : {-1, 0, 2, 5}, result : {0, 1}]
    \cup [size : {12}, bloque : {2}, result : {0}]

MCBasura == {-1, 0, 1}
=============================================================================
