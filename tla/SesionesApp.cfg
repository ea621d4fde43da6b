SPECIFICATION Spec
CONSTANTS
  Usuarios = {u1, u2}
  Ids = {s1, s2}
  Peticiones = {p1, p2}
  Libre = Libre
  NoHay = NoHay
  MaxReloj = 1
  Vida = 0
  MaxClaves = 1
INVARIANTS
  TypeOK
  
  
PROPERTIES
  CerradaNoReabre
  
SYMMETRY Simetria
