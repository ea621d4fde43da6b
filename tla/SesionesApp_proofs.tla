-------------------------- MODULE SesionesApp_proofs --------------------------
(***************************************************************************)
(* Theorems about SesionesApp for any users, rows, requests and bounds.    *)
(***************************************************************************)
EXTENDS SesionesApp, TLAPS

(***************************************************************************)
(* The inductive invariant: a row holds a token of its own user, and what  *)
(* a request read from a row stays true of it while the request waits,     *)
(* its state and its token apart.                                          *)
(***************************************************************************)
FilaDeSuUsuario ==
  \A i \in Ids : sesiones[i] # NoHay => sesiones[i].token.sub = sesiones[i].idUsuario

FilaLeida ==
  \A p \in Peticiones :
    /\ En(p, "usuario") \/ En(p, "cerrar") =>
         /\ sesiones[pet[p].id] # NoHay
         /\ sesiones[pet[p].id].idUsuario = pet[p].sub
    /\ En(p, "actualizar") =>
         /\ sesiones[pet[p].id] # NoHay
         /\ sesiones[pet[p].id].idUsuario = pet[p].token.sub
    /\ En(p, "cerrada") =>
         /\ sesiones[pet[p].id] # NoHay
         /\ sesiones[pet[p].id].estado = 0

IInv == TypeOK /\ FilaDeSuUsuario /\ FilaLeida /\ SesionAlcanzable
-----------------------------------------------------------------------------
(* What a request holds, by what it waits for.                             *)
LEMMA Retenido ==
  ASSUME TypeOK, NEW p \in Peticiones
  PROVE  /\ En(p, "comparar") => pet[p].usuario \in Usuarios
         /\ En(p, "crear") => pet[p].token \in Jwt
         /\ En(p, "usuario") => pet[p].id \in Ids /\ pet[p].sub \in Usuarios
         /\ En(p, "actualizar") => pet[p].id \in Ids /\ pet[p].token \in Jwt
         /\ En(p, "cerrar") =>
              pet[p].id \in Ids /\ pet[p].sub \in Usuarios /\ pet[p].token \in Jwt
         /\ En(p, "cerrarTodas") \/ En(p, "cambiar") => pet[p].sub \in Usuarios
         /\ En(p, "cerrada") => pet[p].id \in Ids
         /\ En(p, "fin") => pet[p].token \in Jwt \union {NoHay}
<1>1. pet[p] = Libre \/ pet[p] \in EnEspera
  BY DEF TypeOK, Peticion
<1>2. QED
  BY <1>1 DEF En, EnEspera

LEMMA FirmadoEsJwt ==
  ASSUME TypeOK, NEW u \in Usuarios
  PROVE  Firmado(u) \in Jwt /\ Firmado(u).sub = u
BY DEF TypeOK, Firmado, Jwt

LEMMA Tipos ==
  ASSUME TypeOK, FilaLeida, [Next]_vars
  PROVE  TypeOK'
<1> USE Retenido
<1>1. CASE UNCHANGED vars
  BY <1>1 DEF vars, clientes, TypeOK
<1>2. CASE Tic
  BY <1>2, ConstantesSesiones DEF Tic, clientes, TypeOK
<1>3. ASSUME NEW p \in Peticiones, Empezar(p)
      PROVE  TypeOK'
  <2>1. ASSUME NEW u \in Usuarios, NEW k \in Claves, Login(p, u, k)
        PROVE  TypeOK'
    <3>1. [fase |-> "comparar", usuario |-> u, tecleada |-> k, leida |-> clave[u]] \in Peticion
      BY <2>1 DEF TypeOK, Peticion, EnEspera
    <3>2. QED
      BY <2>1, <3>1 DEF Login, Pasar, clientes, TypeOK
  <2>2. [fase |-> "fin", token |-> NoHay] \in Peticion
    BY DEF Peticion, EnEspera
  <2>3. ASSUME NEW t \in entregados, Refrescar(p, t)
        PROVE  TypeOK'
    <3>1. t.sub \in Usuarios
      BY DEF TypeOK, Jwt
    <3>2. \A i \in Ids : [fase |-> "usuario", id |-> i, sub |-> t.sub] \in Peticion
      BY <3>1 DEF Peticion, EnEspera
    <3>3. QED
      BY <2>2, <2>3, <3>2 DEF Refrescar, ConToken, Rechazar, Fin, Pasar, clientes, TypeOK
  <2>4. ASSUME NEW t \in entregados, Logout(p, t)
        PROVE  TypeOK'
    <3>1. t.sub \in Usuarios /\ t \in Jwt
      BY DEF TypeOK, Jwt
    <3>2. \A i \in Ids :
            [fase |-> "cerrar", id |-> i, sub |-> t.sub, token |-> t] \in Peticion
      BY <3>1 DEF Peticion, EnEspera
    <3>3. QED
      BY <2>2, <2>4, <3>2 DEF Logout, ConToken, Rechazar, Fin, Pasar, clientes, TypeOK
  <2>5. ASSUME NEW t \in entregados,
               PedirCerrarTodas(p, t) \/ \E k \in Claves : PedirCambio(p, t, k)
        PROVE  TypeOK'
    <3>1. t.sub \in Usuarios
      BY DEF TypeOK, Jwt
    <3>2. /\ [fase |-> "cerrarTodas", sub |-> t.sub] \in Peticion
          /\ [fase |-> "cambiar", sub |-> t.sub] \in Peticion
      BY <3>1 DEF Peticion, EnEspera
    <3>3. QED
      BY <2>2, <2>5, <3>2 DEF PedirCerrarTodas, PedirCambio, Rechazar, Fin, Pasar, clientes, TypeOK
  <2>6. QED
    BY <1>3, <2>1, <2>3, <2>4, <2>5 DEF Empezar
<1>4. ASSUME NEW p \in Peticiones, Seguir(p)
      PROVE  TypeOK'
  <2>1. [fase |-> "fin", token |-> NoHay] \in Peticion
    BY DEF Peticion, EnEspera
  <2>2. \A t \in Jwt : [fase |-> "fin", token |-> t] \in Peticion
    BY DEF Peticion, EnEspera
  <2>3. \A u : CerradasDe(u) \in [Ids -> Fila \union {NoHay}]
    BY DEF TypeOK, CerradasDe, Activa, Fila
  <2>4. CASE Comparar(p)
    <3>1. Firmado(pet[p].usuario) \in Jwt
      BY <2>4, FirmadoEsJwt DEF Comparar
    <3>2. [fase |-> "crear", token |-> Firmado(pet[p].usuario)] \in Peticion
      BY <3>1 DEF Peticion, EnEspera
    <3>3. QED
      BY <2>1, <2>4, <3>2 DEF Comparar, Rechazar, Fin, Pasar, clientes, TypeOK
  <2>5. CASE CrearSesion(p)
    <3>1. pet[p].token \in Jwt /\ pet[p].token.sub \in Usuarios
      BY <2>5 DEF CrearSesion, Jwt
    <3>2. [idUsuario |-> pet[p].token.sub, token |-> pet[p].token, estado |-> 1] \in Fila
      BY <3>1 DEF Fila
    <3>3. QED
      BY <2>1, <2>2, <2>5, <3>1, <3>2 DEF CrearSesion, Rechazar, Fin, Pasar, clientes, TypeOK
  <2>6. CASE LeerUsuario(p)
    <3>1. Firmado(pet[p].sub) \in Jwt /\ pet[p].id \in Ids
      BY <2>6, FirmadoEsJwt DEF LeerUsuario
    <3>2. [fase |-> "actualizar", id |-> pet[p].id, token |-> Firmado(pet[p].sub)] \in Peticion
      BY <3>1 DEF Peticion, EnEspera
    <3>3. QED
      BY <2>1, <2>6, <3>2 DEF LeerUsuario, Rechazar, Fin, Pasar, clientes, TypeOK
  <2>7. CASE Actualizar(p)
    <3>1. pet[p].token \in Jwt /\ pet[p].id \in Ids
      BY <2>7 DEF Actualizar
    <3>2. [sesiones EXCEPT ![pet[p].id].token = pet[p].token] \in [Ids -> Fila \union {NoHay}]
      BY <2>7, <3>1 DEF TypeOK, Fila, Actualizar, FilaLeida
    <3>3. QED
      BY <2>1, <2>2, <2>7, <3>1, <3>2 DEF Actualizar, Rechazar, Fin, Pasar, clientes, TypeOK
  <2>8. CASE Cerrar(p)
    <3>1. pet[p].id \in Ids
      BY <2>8 DEF Cerrar
    <3>2. [fase |-> "cerrada", id |-> pet[p].id] \in Peticion
      BY <3>1 DEF Peticion, EnEspera
    <3>3. [sesiones EXCEPT ![pet[p].id].estado = 0] \in [Ids -> Fila \union {NoHay}]
      BY <2>8, <3>1 DEF TypeOK, Fila, Cerrar, FilaLeida
    <3>4. QED
      BY <2>1, <2>8, <3>1, <3>2, <3>3 DEF Cerrar, Rechazar, Fin, Pasar, clientes, TypeOK
  <2>9. CASE CerrarTodas(p)
    BY <2>1, <2>3, <2>9 DEF CerrarTodas, Rechazar, Fin, Pasar, clientes, TypeOK
  <2>10. CASE CambiarContrasena(p)
    <3>1. pet[p].sub \in Usuarios
      BY <2>10 DEF CambiarContrasena
    <3>2. clave' \in [Usuarios -> Claves]
      BY <2>10, <3>1, ConstantesSesiones DEF CambiarContrasena, TypeOK, Claves
    <3>3. QED
      BY <2>1, <2>3, <2>10, <3>2 DEF CambiarContrasena, Rechazar, Fin, Pasar, clientes, TypeOK
  <2>11. CASE Responder(p) \/ LogoutRespondido(p)
    BY <2>11, Retenido DEF Responder, LogoutRespondido, Pasar, clientes, TypeOK, Peticion
  <2>12. QED
    BY <1>4, <2>4, <2>5, <2>6, <2>7, <2>8, <2>9, <2>10, <2>11 DEF Seguir
<1>5. QED
  BY <1>1, <1>2, <1>3, <1>4 DEF Next
-----------------------------------------------------------------------------
(* A row is inserted once, keeps its user, and stays closed.               *)
Estable ==
  \A i \in Ids :
    sesiones[i] # NoHay =>
      /\ sesiones'[i] # NoHay
      /\ sesiones'[i].idUsuario = sesiones[i].idUsuario
      /\ sesiones[i].estado = 0 => sesiones'[i].estado = 0

LEMMA CerradasDeEstable ==
  ASSUME TypeOK, NEW u, sesiones' = CerradasDe(u)
  PROVE  /\ Estable
         /\ \A i \in Ids : sesiones[i] = NoHay => sesiones'[i] = NoHay
         /\ \A i \in Ids : sesiones[i] # NoHay => sesiones'[i].token = sesiones[i].token
<1>1. \A i \in Ids : sesiones[i] # NoHay =>
        [sesiones[i] EXCEPT !.estado = 0] \in Fila
  BY DEF TypeOK, Fila
<1>2. QED
  BY <1>1, Distintos DEF TypeOK, CerradasDe, Activa, Estable, Fila

LEMMA FilasEstables ==
  ASSUME TypeOK, TypeOK', FilaLeida, [Next]_vars
  PROVE  Estable
<1> USE Retenido
<1>1. CASE UNCHANGED vars \/ Tic
  BY <1>1 DEF vars, Tic, Estable
<1>2. ASSUME NEW p \in Peticiones, Empezar(p)
      PROVE  Estable
  BY <1>2 DEF Empezar, Login, Refrescar, Logout, PedirCerrarTodas, PedirCambio, Estable
<1>3. ASSUME NEW p \in Peticiones, Seguir(p)
      PROVE  Estable
  <2>1. CASE UNCHANGED sesiones
    BY <2>1 DEF Estable
  <2>2. CASE CrearSesion(p)
    BY <2>1, <2>2 DEF CrearSesion, Estable, TypeOK
  <2>3. CASE Actualizar(p)
    BY <2>1, <2>3, Distintos DEF Actualizar, Estable, TypeOK, FilaLeida, Fila
  <2>4. CASE Cerrar(p)
    BY <2>1, <2>4, Distintos DEF Cerrar, Estable, TypeOK, FilaLeida, Fila
  <2>5. CASE CerrarTodas(p) \/ CambiarContrasena(p)
    BY <2>1, <2>5, CerradasDeEstable DEF CerrarTodas, CambiarContrasena
  <2>6. QED
    BY <1>3, <2>1, <2>2, <2>3, <2>4, <2>5
    DEF Seguir, Comparar, LeerUsuario, Responder, LogoutRespondido
<1>4. QED
  BY <1>1, <1>2, <1>3 DEF Next

(* A row only gets tokens of its user: at login, and at a refresh.         *)
LEMMA FilasDeSuUsuario ==
  ASSUME IInv, TypeOK', [Next]_vars
  PROVE  FilaDeSuUsuario'
<1> USE Retenido DEF IInv
<1>1. CASE UNCHANGED sesiones
  BY <1>1 DEF FilaDeSuUsuario
<1>2. ASSUME NEW p \in Peticiones, Seguir(p), ~UNCHANGED sesiones
      PROVE  FilaDeSuUsuario'
  <2>1. CASE CrearSesion(p)
    BY <1>2, <2>1 DEF CrearSesion, FilaDeSuUsuario, TypeOK
  <2>2. CASE Actualizar(p)
    BY <1>2, <2>2 DEF Actualizar, FilaDeSuUsuario, TypeOK, FilaLeida, Fila
  <2>3. CASE Cerrar(p)
    BY <1>2, <2>3 DEF Cerrar, FilaDeSuUsuario, TypeOK, FilaLeida, Fila
  <2>4. CASE CerrarTodas(p) \/ CambiarContrasena(p)
    BY <1>2, <2>4, CerradasDeEstable DEF CerrarTodas, CambiarContrasena, FilaDeSuUsuario, Estable
  <2>5. QED
    BY <1>2, <2>1, <2>2, <2>3, <2>4
    DEF Seguir, Comparar, LeerUsuario, Responder, LogoutRespondido
<1>3. QED
  BY <1>1, <1>2
  DEF Next, vars, Tic, Empezar, Login, Refrescar, Logout, PedirCerrarTodas, PedirCambio

(* What a waiting request read of its row.  One that waits since this step *)
(* has just read it, or holds what it already knew.                        *)
LEMMA FilasLeidas ==
  ASSUME IInv, TypeOK', [Next]_vars
  PROVE  FilaLeida'
<1> USE Retenido DEF IInv
<1>1. Estable
  BY FilasEstables
<1>2. ASSUME NEW q \in Peticiones, pet'[q] = pet[q]
      PROVE  FilaLeida!(q)'
  BY <1>1, <1>2 DEF FilaLeida, En, Estable
<1>3. CASE UNCHANGED pet
  BY <1>2, <1>3 DEF FilaLeida
<1>4. ASSUME NEW p \in Peticiones, Empezar(p)
      PROVE  FilaLeida!(p)' /\ \A q \in Peticiones \ {p} : pet'[q] = pet[q]
  <2>1. ASSUME NEW u \in Usuarios, NEW k \in Claves, Login(p, u, k)
        PROVE  FilaLeida!(p)' /\ \A q \in Peticiones \ {p} : pet'[q] = pet[q]
    BY <2>1 DEF Login, Pasar, En, TypeOK
  <2>2. ASSUME NEW t \in entregados, Refrescar(p, t)
        PROVE  FilaLeida!(p)' /\ \A q \in Peticiones \ {p} : pet'[q] = pet[q]
    BY <2>2 DEF Refrescar, Rechazar, Fin, ConToken, Activa, Pasar, En, TypeOK
  <2>3. ASSUME NEW t \in entregados, Logout(p, t)
        PROVE  FilaLeida!(p)' /\ \A q \in Peticiones \ {p} : pet'[q] = pet[q]
    BY <2>3 DEF Logout, Rechazar, Fin, ConToken, Activa, Pasar, En, TypeOK, FilaDeSuUsuario
  <2>4. ASSUME NEW t \in entregados,
               PedirCerrarTodas(p, t) \/ \E k \in Claves : PedirCambio(p, t, k)
        PROVE  FilaLeida!(p)' /\ \A q \in Peticiones \ {p} : pet'[q] = pet[q]
    BY <2>4 DEF PedirCerrarTodas, PedirCambio, Rechazar, Fin, Pasar, En, TypeOK
  <2>5. QED
    BY <1>4, <2>1, <2>2, <2>3, <2>4 DEF Empezar
<1>5. ASSUME NEW p \in Peticiones, Seguir(p)
      PROVE  FilaLeida!(p)' /\ \A q \in Peticiones \ {p} : pet'[q] = pet[q]
  <2>1. CASE LeerUsuario(p)
    BY <2>1, FirmadoEsJwt DEF LeerUsuario, Rechazar, Fin, Pasar, En, TypeOK, FilaLeida
  <2>2. CASE Cerrar(p)
    BY <2>2, Distintos DEF Cerrar, Rechazar, Fin, Pasar, En, TypeOK, FilaLeida, Fila
  <2>3. CASE Comparar(p) \/ CrearSesion(p) \/ Actualizar(p)
    BY <2>3 DEF Comparar, CrearSesion, Actualizar, Rechazar, Fin, Pasar, En, TypeOK
  <2>4. CASE CerrarTodas(p) \/ CambiarContrasena(p)
    BY <2>4 DEF CerrarTodas, CambiarContrasena, Rechazar, Fin, Pasar, En, TypeOK
  <2>5. CASE Responder(p) \/ LogoutRespondido(p)
    BY <2>5 DEF Responder, LogoutRespondido, Pasar, En, TypeOK
  <2>6. QED
    BY <1>5, <2>1, <2>2, <2>3, <2>4, <2>5 DEF Seguir
<1>6. QED
  BY <1>2, <1>3, <1>4, <1>5 DEF Next, vars, Tic, FilaLeida

(* The tokens on their way only leave towards a client or into the lost.   *)
LEMMA TokensEnCamino ==
  ASSUME TypeOK, [Next]_vars
  PROVE  entregados \union perdidos \union EnCamino
           \subseteq entregados' \union perdidos' \union EnCamino'
<1>1. ASSUME NEW p \in Peticiones, ~En(p, "fin"), \A q \in Peticiones \ {p} : pet'[q] = pet[q],
             entregados' = entregados, perdidos' = perdidos
      PROVE  entregados \union perdidos \union EnCamino
               \subseteq entregados' \union perdidos' \union EnCamino'
  BY <1>1 DEF EnCamino, En
<1>2. ASSUME NEW p \in Peticiones, Responder(p)
      PROVE  entregados \union perdidos \union EnCamino
               \subseteq entregados' \union perdidos' \union EnCamino'
  <2>1. \A q \in Peticiones \ {p} : pet'[q] = pet[q]
    BY <1>2 DEF Responder, Pasar, TypeOK
  <2>2. EnCamino \subseteq EnCamino' \union ({pet[p].token} \ {NoHay})
    BY <2>1 DEF EnCamino, En
  <2>3. pet[p].token = NoHay \/ pet[p].token \in entregados' \union perdidos'
    BY <1>2 DEF Responder, clientes
  <2>4. entregados \subseteq entregados' /\ perdidos \subseteq perdidos'
    BY <1>2 DEF Responder, clientes
  <2>5. QED
    BY <2>2, <2>3, <2>4
<1>3. CASE UNCHANGED <<pet, clientes>>
  BY <1>3 DEF EnCamino, En, clientes
<1>4. ASSUME NEW p \in Peticiones, Empezar(p) \/ Seguir(p), ~Responder(p)
      PROVE  /\ ~En(p, "fin")
             /\ \A q \in Peticiones \ {p} : pet'[q] = pet[q]
             /\ entregados' = entregados
             /\ perdidos' = perdidos
  <2>1. CASE Empezar(p)
    BY <2>1 DEF Empezar, Login, Refrescar, Logout, PedirCerrarTodas, PedirCambio,
                Rechazar, Fin, Pasar, En, TypeOK, clientes
  <2>2. CASE Comparar(p) \/ CrearSesion(p) \/ LeerUsuario(p) \/ Actualizar(p)
    BY <2>2 DEF Comparar, CrearSesion, LeerUsuario, Actualizar,
                Rechazar, Fin, Pasar, En, TypeOK, clientes
  <2>3. CASE Cerrar(p) \/ CerrarTodas(p) \/ CambiarContrasena(p) \/ LogoutRespondido(p)
    BY <2>3 DEF Cerrar, CerrarTodas, CambiarContrasena, LogoutRespondido,
                Rechazar, Fin, Pasar, En, TypeOK, clientes
  <2>4. QED
    BY <1>4, <2>1, <2>2, <2>3 DEF Seguir
<1>5. QED
  BY <1>1, <1>2, <1>3, <1>4 DEF Next, vars, Tic, clientes

LEMMA Alcanzables ==
  ASSUME IInv, TypeOK', [Next]_vars
  PROVE  SesionAlcanzable'
<1> USE Retenido DEF IInv
<1> DEFINE antes == entregados \union perdidos \union EnCamino
           ahora == entregados' \union perdidos' \union EnCamino'
<1>1. antes \subseteq ahora
  BY TokensEnCamino
<1>2. ASSUME \A i \in Ids : sesiones'[i] # NoHay =>
               sesiones[i] # NoHay /\ sesiones'[i].token = sesiones[i].token
      PROVE  SesionAlcanzable'
  BY <1>1, <1>2 DEF SesionAlcanzable
<1>3. ASSUME NEW p \in Peticiones, Seguir(p), ~UNCHANGED sesiones
      PROVE  SesionAlcanzable'
  <2>1. CASE CrearSesion(p) \/ Actualizar(p)
    <3>1. pet[p].token \in Jwt /\ pet[p].token # NoHay
      BY <2>1, Distintos DEF CrearSesion, Actualizar
    <3>2. [fase |-> "fin", token |-> pet[p].token] # Libre
      BY <3>1, Distintos DEF EnEspera
    <3>3. pet'[p] = [fase |-> "fin", token |-> pet[p].token]
      BY <1>3, <2>1 DEF CrearSesion, Actualizar, Fin, Pasar, TypeOK
    <3>4. pet[p].token \in EnCamino'
      BY <3>1, <3>2, <3>3 DEF EnCamino, En
    <3>5. \A i \in Ids : sesiones'[i] # NoHay =>
            \/ sesiones[i] # NoHay /\ sesiones'[i].token = sesiones[i].token
            \/ sesiones'[i].token = pet[p].token
      BY <1>3, <2>1, <3>1 DEF CrearSesion, Actualizar, TypeOK, Fila, FilaLeida
    <3>6. QED
      BY <1>1, <3>4, <3>5 DEF SesionAlcanzable
  <2>2. CASE Cerrar(p)
    BY <1>2, <1>3, <2>2 DEF Cerrar, TypeOK, Fila, FilaLeida
  <2>3. CASE CerrarTodas(p) \/ CambiarContrasena(p)
    BY <1>2, <1>3, <2>3, CerradasDeEstable DEF CerrarTodas, CambiarContrasena
  <2>4. QED
    BY <1>3, <2>1, <2>2, <2>3
    DEF Seguir, Comparar, LeerUsuario, Responder, LogoutRespondido
<1>4. CASE UNCHANGED sesiones
  BY <1>2, <1>4
<1>5. QED
  BY <1>3, <1>4
  DEF Next, vars, Tic, Empezar, Login, Refrescar, Logout, PedirCerrarTodas, PedirCambio
-----------------------------------------------------------------------------
LEMMA Inicio == Init => IInv
BY ConstantesSesiones
DEF Init, IInv, TypeOK, Claves, Peticion, FilaDeSuUsuario, FilaLeida, SesionAlcanzable, En

LEMMA Paso ==
  ASSUME IInv, [Next]_vars
  PROVE  IInv'
<1>1. TypeOK'
  BY Tipos DEF IInv
<1>2. QED
  BY <1>1, FilasDeSuUsuario, FilasLeidas, Alcanzables DEF IInv

(* Every variable keeps its type.                                          *)
THEOREM SesionesTypeOK == Spec => []TypeOK
<1>1. IInv => TypeOK
  BY DEF IInv
<1>2. QED
  BY <1>1, Inicio, Paso, PTL DEF Spec

(* The token of a session was, or is about to be, answered to a client.    *)
THEOREM TodaSesionAlcanzable == Spec => []SesionAlcanzable
<1>1. IInv => SesionAlcanzable
  BY DEF IInv
<1>2. QED
  BY <1>1, Inicio, Paso, PTL DEF Spec

(* A logout that succeeds has closed its session, whatever token a refresh *)
(* gave it in between.                                                     *)
THEOREM TodoLogoutCierra == Spec => []LogoutCierraLaSuya
<1>1. IInv => LogoutCierraLaSuya
  BY DEF IInv, FilaLeida, LogoutCierraLaSuya, Activa
<1>2. QED
  BY <1>1, Inicio, Paso, PTL DEF Spec

(* No overlap of requests opens a closed session again.                    *)
THEOREM NingunaReabre == Spec => CerradaNoReabre
<1>1. IInv /\ [Next]_vars =>
        [\A i \in Ids :
           sesiones[i] # NoHay =>
             /\ sesiones'[i] # NoHay
             /\ sesiones'[i].idUsuario = sesiones[i].idUsuario
             /\ sesiones[i].estado = 0 => sesiones'[i].estado = 0]_vars
  <2>1. SUFFICES ASSUME IInv, [Next]_vars PROVE Estable
    BY DEF Estable
  <2>2. QED
    BY <2>1, Paso, FilasEstables DEF IInv
<1>2. QED
  BY <1>1, Inicio, Paso, PTL DEF Spec, CerradaNoReabre

(* A session is closed only by a request of its own user.                  *)
THEOREM SoloCierraSuDueno == Spec => CierraSuDueno
<1>1. ASSUME IInv, [Next]_vars, NEW i \in Ids, Activa(i) /\ ~Activa(i)'
      PROVE  \E p \in Peticiones :
               /\ \E f \in {"cerrar", "cerrarTodas", "cambiar"} : En(p, f)
               /\ pet'[p] # pet[p]
               /\ pet[p].sub = sesiones[i].idUsuario
  <2> USE Retenido DEF IInv
  <2>1. sesiones'[i] # sesiones[i]
    BY <1>1 DEF Activa
  <2>2. PICK p \in Peticiones : Seguir(p)
    BY <1>1, <2>1
    DEF Next, vars, Tic, Empezar, Login, Refrescar, Logout, PedirCerrarTodas, PedirCambio
  <2>3. CASE CrearSesion(p)
    BY <1>1, <2>1, <2>3 DEF CrearSesion, Activa, TypeOK
  <2>4. CASE Actualizar(p)
    BY <1>1, <2>1, <2>4, Distintos DEF Actualizar, Activa, TypeOK, Fila, FilaLeida
  <2>5. CASE Cerrar(p)
    <3>1. i = pet[p].id
      BY <1>1, <2>1, <2>5 DEF Cerrar, TypeOK
    <3>2. pet'[p].fase # "cerrar"
      BY <1>1, <2>5 DEF Cerrar, Rechazar, Fin, Pasar, TypeOK
    <3>3. QED
      BY <1>1, <2>5, <3>1, <3>2 DEF Cerrar, FilaLeida, En
  <2>6. CASE CerrarTodas(p) \/ CambiarContrasena(p)
    <3>1. sesiones' = CerradasDe(pet[p].sub)
      BY <2>1, <2>6 DEF CerrarTodas, CambiarContrasena
    <3>2. pet[p].sub = sesiones[i].idUsuario
      BY <2>1, <3>1 DEF CerradasDe, Activa
    <3>3. pet'[p].fase = "fin"
      BY <1>1, <2>6 DEF CerrarTodas, CambiarContrasena, Rechazar, Fin, Pasar, TypeOK
    <3>4. En(p, "cerrarTodas") \/ En(p, "cambiar")
      BY <2>6 DEF CerrarTodas, CambiarContrasena
    <3>5. QED
      BY <3>2, <3>3, <3>4 DEF En
  <2>7. QED
    BY <2>1, <2>2, <2>3, <2>4, <2>5, <2>6
    DEF Seguir, Comparar, LeerUsuario, Responder, LogoutRespondido
<1>2. IInv /\ [Next]_vars =>
        [\A i \in Ids :
           (Activa(i) /\ ~Activa(i)') =>
             \E p \in Peticiones :
               /\ \E f \in {"cerrar", "cerrarTodas", "cambiar"} : En(p, f)
               /\ pet'[p] # pet[p]
               /\ pet[p].sub = sesiones[i].idUsuario]_vars
  BY <1>1
<1>3. QED
  BY <1>2, Inicio, Paso, PTL DEF Spec, CierraSuDueno
=============================================================================
