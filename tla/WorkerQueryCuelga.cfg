SPECIFICATION FairSpec
CONSTANTS
  f1 = f1
  f2 = f2
  FileTags = {f1, f2}
  BlockSize = 2
  Tamanios <- MCTamanios
  Guiones <- MCGuionesCortos
  Inicios <- MCInicioCero
  Reentrantes = {FALSE}
  Inicializados = {TRUE}
CHECK_DEADLOCK FALSE
PROPERTY CreateResponde
