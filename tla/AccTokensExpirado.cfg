SPECIFICATION Spec
CONSTANTS
  Usuarios = {u1}
  SinUsuario = SinUsuario
  UsuarioPorDefecto = u1
  Vinculos = {g1}
  SinVinculo = SinVinculo
  Peticiones = {p1, p2}
  Cron = cron
  MaxGen = 2
  Rota = TRUE
PROPERTIES
  ExpiradoSoloSiMuerto
