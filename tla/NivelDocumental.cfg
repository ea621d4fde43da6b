SPECIFICATION Spec
CONSTANTS
  u1 = u1
  Usuarios = {u1}
  Roles = {{}, {"acceso_total"}, {"configurar"}}
  c1 = c1
  c2 = c2
  c3 = c3
  Carpetas = {c1, c2, c3}
  Ajenas = {}
  p1 = p1
  Peticiones = {p1}
  NoHay = NoHay
  Niveles = {6}
  MaxSaltos = 1
  MaxCambios = 1
INVARIANTS
  TypeOK
  NivelCorrecto
PROPERTIES
  
  RegistrarConserva
SYMMETRY Simetria
