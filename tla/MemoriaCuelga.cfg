SPECIFICATION FairSpecObservada
CONSTANTS
  Bloques = {b1, b2}
  Buffers = {c1, c2, c3}
  Nulo = Nulo
  MaxFrames = 2
  Algoritmos = {"LRU", "CLOCK-M", "FIFO"}
  Reentrantes = {FALSE}
CHECK_DEADLOCK FALSE
PROPERTY LlamadaTermina
