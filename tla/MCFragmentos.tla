------------------------------ MODULE MCFragmentos ------------------------------
(* Fragmentos with a type of few values.                                      *)
EXTENDS Fragmentos

\* Every value of the type, and the negative and too large numbers a line may
\* hold before they are converted.
MCNumeros == -2 .. Modulo + 1
=============================================================================
