SPECIFICATION Spec
CONSTANTS
  Tokens = {t1}
  Usuarios = {u1}
  NoHay = NoHay
  Apertura = 1
  Prorroga = 0
  Duracion = 0
  Items = {i1}
  Documentos <- DocumentosDeItems
  Contenidos = {c1, c2}
  Peticiones = {p1, p2}
  Libre = Libre
  MaxAlmacenes = 2
INVARIANTS
  TypeOK
  
  VersionConContenido
  AlmacenDeUnaVersion

  
SYMMETRY Simetria
