SPECIFICATION FairSpec
CONSTANTS
  TamMemoria = 4
  Largos = {1, 45}
  Respuestas <- MCRespuestas
  Basura <- MCBasura
  MaxRechazos = 3
INVARIANTS TypeOK BloqueDelStorage NuncaArrancaConMudo SigueEscuchando
PROPERTIES EsperaMutua ArranqueTermina
CHECK_DEADLOCK FALSE
