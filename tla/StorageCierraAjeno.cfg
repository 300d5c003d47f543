SPECIFICATION Spec
CONSTANTS
  Clientes = {c1, c2, c3}
  Nadie = Nadie
  MaxFd = 3
  Locuaces = {}
  Restos <- SinRestos
  MaxMensajes = 0
  Simultaneos = 3
  Sondas = FALSE
SYMMETRY Simetria
INVARIANT SeDesconectaElQueCerro
CHECK_DEADLOCK FALSE
