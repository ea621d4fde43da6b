SPECIFICATION FairSpec
CONSTANTS
  Usuarios = {u1, u2}
  SinUsuario = SinUsuario
  UsuarioPorDefecto = u1
  Vinculos = {g1}
  SinVinculo = SinVinculo
  Peticiones = {p1, p2}
  Cron = cron
  MaxGen = 3
  Rota = TRUE
INVARIANTS
  TypeOK
  VinculoVigente
  VinculoExclusivo
PROPERTIES
  SinRetroceso
  EnlaceSpec
  PeticionResponde
  CronTermina
