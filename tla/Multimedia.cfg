SPECIFICATION Spec
CONSTANTS
  Usuarios = {u1}
  Tarjetas = {t1, t2}
  Medios = {m1, m2}
  Anclajes = {a1}
  Claves = {k1, k2}
  Peticiones = {p1, p2, p3, p4}
  Nada = Nada
INVARIANTS
  TypeOK
  ReferenciaViva
SYMMETRY Simetria
CHECK_DEADLOCK FALSE
