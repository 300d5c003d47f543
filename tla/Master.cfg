SPECIFICATION FairSpec
CONSTANTS
  Clientes <- MCClientes
  Modulo <- MCModulo
  Cortes = {2, 7, 9}
INVARIANTS TypeOK ConsultaEntera NuncaOtraConsulta SoloCoincidencias
PROPERTY TerminanAlCerrar
CHECK_DEADLOCK FALSE
