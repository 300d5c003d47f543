SPECIFICATION FairSpec
CONSTANTS
  Clientes = {c1, c2, c3}
  Nadie = Nadie
  MaxFd = 1
  Locuaces = {c1}
  Restos <- MCRestos
  MaxMensajes = 1
  Simultaneos = 3
  Sondas = TRUE
INVARIANTS TypeOK SinFugaDeDescriptores DeAUnoSeDesconectaElQueCerro ContadorDeAUno
PROPERTY TodosTerminan
CHECK_DEADLOCK FALSE
