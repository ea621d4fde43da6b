SPECIFICATION Spec
CONSTANTS
  Trabajadores = {w1, w2}
  Trabajos = {j1, j2}
  Peticiones = {p1}
  NoHay = NoHay
  MaxIntentos = 2
  Concurrencia = 2
  MaxReenvio = 2
  MaxCaidas = 1
  Habilitado = TRUE
INVARIANTS
  TypeOK
  UnaEntrega
  EnviadoDeVerdad
  
SYMMETRY Simetria
