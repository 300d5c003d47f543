SPECIFICATION FairSpecObservada
CONSTANTS
  Bloques = {b1, b2}
  Buffers = {c1, c2, c3, c4}
  Nulo = Nulo
  MaxFrames = 3
  Algoritmos = {"LRU", "CLOCK-M", "FIFO"}
  Reentrantes = {TRUE, FALSE}
ACTION_CONSTRAINT ModificadoSoloConClock
CHECK_DEADLOCK FALSE
INVARIANTS TypeOK ColaExacta ClockNuncaFalla SinFugas
PROPERTIES ImplementaLRU ImplementaClock LlamadaRegresa
