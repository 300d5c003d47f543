SPECIFICATION FairSpec
CONSTANTS
  Modulo = 16
  BlockSizes = {3, 4}
  Numeros <- MCNumeros
CHECK_DEADLOCK FALSE
INVARIANT EscribeContenido
