SPECIFICATION FairSpec
CONSTANTS
  Modulo = 16
  BlockSizes = {1, 3, 4, 15}
  Numeros <- MCNumeros
CHECK_DEADLOCK FALSE
INVARIANTS TypeOK DentroDePagina NadaDeMas CadaByteEnSuLugar
PROPERTY CicloTermina
