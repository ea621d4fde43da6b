SPECIFICATION FairSpec
CONSTANTS
  Usuarios = {u1}
  Documentos = {d1}
  NoHay = NoHay
  Apertura = 4
  Prorroga = 1
  Duracion = 1
  Tokens = {t1, t2, t3}
INVARIANTS
  TypeSesiones
PROPERTIES
  SinResurreccion
  CerradaSeLibera
