----------------------------- MODULE MCWorkerQuery -----------------------------
(* WorkerQuery with every script of up to two lines, and of three lines that  *)
(* begin with the creation of a file.                                         *)
EXTENDS WorkerQueryRefina

CONSTANTS f1, f2

\* One block, and a size that is not a whole number of blocks.
MCTamanios == {0, BlockSize, BlockSize + 1}

MCGuiones ==
  LET hasta2 == BoundedSeq(Lineas, 2)
      creaf1 == [tipo |-> "CREATE", ft |-> f1]
  IN hasta2 \cup {<<creaf1>> \o s : s \in hasta2}

\* For a question that one CREATE settles.
MCGuionesCortos == BoundedSeq(Lineas, 2)
MCInicioCero == {0}

MCInicios == {-1, 0, 1}
=============================================================================
