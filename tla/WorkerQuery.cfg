SPECIFICATION FairSpec
CONSTANTS
  f1 = f1
  f2 = f2
  FileTags = {f1, f2}
  BlockSize = 2
  Tamanios <- MCTamanios
  Guiones <- MCGuiones
  Inicios <- MCInicios
  Reentrantes = {TRUE, FALSE}
  Inicializados = {TRUE, FALSE}
CHECK_DEADLOCK FALSE
INVARIANTS TypeOK SinDuplicados OrdenDelGuion
PROPERTIES ImplementaTabla ConsultaTermina
