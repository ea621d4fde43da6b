SPECIFICATION Spec
CONSTANTS
  Usuarios = {u1}
  Tarjetas = {t1}
  Medios = {m1}
  Anclajes = {a1}
  Claves = {k1}
  Peticiones = {p1, p2}
  Nada = Nada
INVARIANT
  FotoViva
SYMMETRY Simetria
CHECK_DEADLOCK FALSE
