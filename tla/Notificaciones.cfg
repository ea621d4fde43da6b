SPECIFICATION FairSpec
CONSTANTS
  Usuarios = {u1, u2}
  Sockets = {s1, s2}
  Publicos = {}
  NoHay = NoHay
  Salen = {u1}
  Reinicia = TRUE
  Notifs = {n1}
  Limite = 1
INVARIANTS
  TypeOK
  CanalPrivado
PROPERTIES
  NoApagaConOtra
  EntregaGuardada
  
