SPECIFICATION Spec
CONSTANTS
  Direcciones = {a1, a2, a3}
  Nombres = {n1, n2, n3}
  Nulo = Nulo
  Modulo = 3
SYMMETRY Simetria
INVARIANTS TypeOK ListaExacta AlcanzablePorSuNombre NombresAlDia TamanioExacto FueraSoloSiDesborda
CHECK_DEADLOCK FALSE
