SPECIFICATION Spec
CONSTANTS
  Items = {i1, i2}
  Previos = {i1}
  Nombres = {n1, n2}
  Peticiones = {p1, p2, p3, p4}
  Borrada = Borrada
  NoHay = NoHay
INVARIANTS
  TypeOK
  TipVigente
  
  
SYMMETRY Simetria
CHECK_DEADLOCK FALSE
