----------------------------- MODULE SesionesApp -----------------------------
(***************************************************************************)
(* The sessions of the application: login, refresh of the JWT, logout,     *)
(* closing every session and changing the password, over the rows of       *)
(* authSesiones.  A request stops at each of its awaits.                   *)
(*                                                                         *)
(* A JWT is its payload and the second it was signed in (iat), nothing     *)
(* else: two tokens signed for one user in one second are the same token.  *)
(* The guards of the API do not look at authSesiones; only a refresh does. *)
(*                                                                         *)
(* External: the SQL function that stores the new password, which closes   *)
(* the sessions of the user as the documentation of the endpoint says, and *)
(* the network, which may lose the answer to a request.                    *)
(***************************************************************************)
EXTENDS Integers, FiniteSets

CONSTANTS
  Usuarios,
  Ids,         (* the rows of authSesiones, a bound on the logins            *)
  Peticiones,  (* requests that may be in flight at once                     *)
  Libre,       (* an idle request slot                                       *)
  NoHay,       (* no row, no token                                           *)
  MaxReloj,    (* bound on the clock, in seconds                             *)
  Vida,        (* JWT_EXPIRES_IN, in seconds                                 *)
  MaxClaves    (* bound on the passwords of a user                           *)

ASSUME ConstantesSesiones ==
  /\ MaxReloj \in Nat
  /\ Vida \in Nat
  /\ MaxClaves \in Nat

VARIABLES
  sesiones,    (* authSesiones: the row of each id, or NoHay                 *)
  clave,       (* the current password of each user, as a version            *)
  reloj,
  pet,         (* the requests                                               *)
  entregados,  (* tokens whose answer reached a client                       *)
  perdidos     (* tokens whose answer was lost (history)                     *)

vars == <<sesiones, clave, reloj, pet, entregados, perdidos>>
clientes == <<entregados, perdidos>>

Jwt == [sub : Usuarios, iat : 0 .. MaxReloj]
Fila == [idUsuario : Usuarios, token : Jwt, estado : {0, 1}]
Claves == 0 .. MaxClaves

EnEspera ==
  [fase : {"comparar"}, usuario : Usuarios, tecleada : Claves, leida : Claves]
    \union [fase : {"crear"}, token : Jwt]
    \union [fase : {"usuario"}, id : Ids, sub : Usuarios]
    \union [fase : {"actualizar"}, id : Ids, token : Jwt]
    \union [fase : {"cerrar"}, id : Ids, sub : Usuarios, token : Jwt]
    \union [fase : {"cerrarTodas"}, sub : Usuarios]
    \union [fase : {"cambiar"}, sub : Usuarios]
    \union [fase : {"cerrada"}, id : Ids]
    \union [fase : {"fin"}, token : Jwt \union {NoHay}]

Peticion == {Libre} \union EnEspera

ASSUME Distintos ==
  /\ Libre \notin EnEspera
  /\ NoHay \notin Jwt \union Fila

TypeOK ==
  /\ sesiones \in [Ids -> Fila \union {NoHay}]
  /\ clave \in [Usuarios -> Claves]
  /\ reloj \in 0 .. MaxReloj
  /\ pet \in [Peticiones -> Peticion]
  /\ entregados \in SUBSET Jwt
  /\ perdidos \in SUBSET Jwt

Init ==
  /\ sesiones = [i \in Ids |-> NoHay]
  /\ clave = [u \in Usuarios |-> 0]
  /\ reloj = 0
  /\ pet = [p \in Peticiones |-> Libre]
  /\ entregados = {}
  /\ perdidos = {}

En(p, f) == pet[p] # Libre /\ pet[p].fase = f
Pasar(p, r) == pet' = [pet EXCEPT ![p] = r]
Fin(p, t) == Pasar(p, [fase |-> "fin", token |-> t])
Rechazar(p) == Fin(p, NoHay)

Firmado(u) == [sub |-> u, iat |-> reloj]
Vigente(t) == reloj <= t.iat + Vida
Activa(i) == sesiones[i] # NoHay /\ sesiones[i].estado = 1

(* obtenerSesionPorToken: any one of the active rows with the token.       *)
ConToken(t) == {i \in Ids : Activa(i) /\ sesiones[i].token = t}
-----------------------------------------------------------------------------
(* LoginUseCase: the hash is read, then compared, then a token is signed   *)
(* and its row inserted.  Earlier sessions stay open.                      *)
Login(p, u, k) ==
  /\ pet[p] = Libre
  /\ Pasar(p, [fase |-> "comparar", usuario |-> u, tecleada |-> k, leida |-> clave[u]])
  /\ UNCHANGED <<sesiones, clave, reloj, clientes>>

Comparar(p) ==
  /\ En(p, "comparar")
  /\ IF pet[p].tecleada = pet[p].leida
     THEN Pasar(p, [fase |-> "crear", token |-> Firmado(pet[p].usuario)])
     ELSE Rechazar(p)
  /\ UNCHANGED <<sesiones, clave, reloj, clientes>>

\* Mutant: the row is inserted without its token.
CrearSesionSinToken(p) ==
  /\ En(p, "crear")
  /\ \E i \in Ids :
       /\ sesiones[i] = NoHay
       /\ sesiones' = [sesiones EXCEPT ![i] =
            [idUsuario |-> pet[p].token.sub, token |-> NoHay, estado |-> 1]]
  /\ Fin(p, pet[p].token)
  /\ UNCHANGED <<clave, reloj, clientes>>

CrearSesion(p) ==
  /\ En(p, "crear")
  /\ \/ /\ \E i \in Ids :
             /\ sesiones[i] = NoHay
             /\ sesiones' = [sesiones EXCEPT ![i] =
                  [idUsuario |-> pet[p].token.sub, token |-> pet[p].token, estado |-> 1]]
        /\ Fin(p, pet[p].token)
     \/ Rechazar(p) /\ UNCHANGED sesiones
  /\ UNCHANGED <<clave, reloj, clientes>>
-----------------------------------------------------------------------------
(* RefreshTokenUseCase: the row of the token, even an expired one, then    *)
(* the user, then the new token over the row, by its id.                   *)
Refrescar(p, t) ==
  /\ pet[p] = Libre
  /\ t \in entregados
  /\ \/ /\ ConToken(t) = {}
        /\ Rechazar(p)
     \/ \E i \in ConToken(t) :
          IF sesiones[i].idUsuario = t.sub
          THEN Pasar(p, [fase |-> "usuario", id |-> i, sub |-> t.sub])
          ELSE Rechazar(p)
  /\ UNCHANGED <<sesiones, clave, reloj, clientes>>

LeerUsuario(p) ==
  /\ En(p, "usuario")
  /\ \/ Rechazar(p)
     \/ Pasar(p, [fase |-> "actualizar", id |-> pet[p].id, token |-> Firmado(pet[p].sub)])
  /\ UNCHANGED <<sesiones, clave, reloj, clientes>>

\* Mutant: the update writes the whole row, its state included.
ActualizarReabriendo(p) ==
  /\ En(p, "actualizar")
  /\ sesiones' = [sesiones EXCEPT ![pet[p].id].token = pet[p].token,
                                  ![pet[p].id].estado = 1]
  /\ Fin(p, pet[p].token)
  /\ UNCHANGED <<clave, reloj, clientes>>

\* Mutant: the token is signed again for the answer.
ActualizarFirmandoDosVeces(p) ==
  /\ En(p, "actualizar")
  /\ sesiones' = [sesiones EXCEPT ![pet[p].id].token = Firmado(pet[p].token.sub)]
  /\ Fin(p, pet[p].token)
  /\ UNCHANGED <<clave, reloj, clientes>>

Actualizar(p) ==
  /\ En(p, "actualizar")
  /\ \/ /\ sesiones' = [sesiones EXCEPT ![pet[p].id].token = pet[p].token]
        /\ Fin(p, pet[p].token)
     \/ Rechazar(p) /\ UNCHANGED sesiones
  /\ UNCHANGED <<clave, reloj, clientes>>
-----------------------------------------------------------------------------
(* LogoutUseCase, behind the JWT guard: the row of the token is closed by  *)
(* its id.  Marking the user as disconnected is an action of Presencia.    *)
Logout(p, t) ==
  /\ pet[p] = Libre
  /\ t \in entregados
  /\ \/ /\ ~Vigente(t) \/ ConToken(t) = {}
        /\ Rechazar(p)
     \/ /\ Vigente(t)
        /\ \E i \in ConToken(t) :
             Pasar(p, [fase |-> "cerrar", id |-> i, sub |-> t.sub, token |-> t])
  /\ UNCHANGED <<sesiones, clave, reloj, clientes>>

\* Mutant: the session is closed by its token.
CerrarPorToken(p) ==
  /\ En(p, "cerrar")
  /\ sesiones' = [i \in Ids |-> IF i \in ConToken(pet[p].token)
                                THEN [sesiones[i] EXCEPT !.estado = 0] ELSE sesiones[i]]
  /\ Pasar(p, [fase |-> "cerrada", id |-> pet[p].id])
  /\ UNCHANGED <<clave, reloj, clientes>>

Cerrar(p) ==
  /\ En(p, "cerrar")
  /\ \/ /\ sesiones' = [sesiones EXCEPT ![pet[p].id].estado = 0]
        /\ Pasar(p, [fase |-> "cerrada", id |-> pet[p].id])
     \/ Rechazar(p) /\ UNCHANGED sesiones
  /\ UNCHANGED <<clave, reloj, clientes>>

\* Mutant: every active session is closed, whoever it belongs to.
CerradasDeTodos(u) ==
  [i \in Ids |-> IF Activa(i) THEN [sesiones[i] EXCEPT !.estado = 0] ELSE sesiones[i]]

(* CerrarTodasSesionesUseCase: one update over the rows of the user.       *)
CerradasDe(u) ==
  [i \in Ids |-> IF Activa(i) /\ sesiones[i].idUsuario = u
                 THEN [sesiones[i] EXCEPT !.estado = 0] ELSE sesiones[i]]

PedirCerrarTodas(p, t) ==
  /\ pet[p] = Libre
  /\ t \in entregados
  /\ IF Vigente(t) THEN Pasar(p, [fase |-> "cerrarTodas", sub |-> t.sub]) ELSE Rechazar(p)
  /\ UNCHANGED <<sesiones, clave, reloj, clientes>>

CerrarTodas(p) ==
  /\ En(p, "cerrarTodas")
  /\ sesiones' \in {CerradasDe(pet[p].sub), sesiones}
  /\ Rechazar(p)
  /\ UNCHANGED <<clave, reloj, clientes>>

(* CambiarContrasenaPerfilUseCase: the current hash is read and compared,  *)
(* then the new one is stored, and the sessions of the user closed.        *)
PedirCambio(p, t, k) ==
  /\ pet[p] = Libre
  /\ t \in entregados
  /\ IF Vigente(t) /\ k = clave[t.sub]
     THEN Pasar(p, [fase |-> "cambiar", sub |-> t.sub]) ELSE Rechazar(p)
  /\ UNCHANGED <<sesiones, clave, reloj, clientes>>

CambiarContrasena(p) ==
  /\ En(p, "cambiar")
  /\ \/ /\ clave[pet[p].sub] < MaxClaves
        /\ clave' = [clave EXCEPT ![pet[p].sub] = @ + 1]
        /\ sesiones' = CerradasDe(pet[p].sub)
     \/ UNCHANGED <<clave, sesiones>>
  /\ Rechazar(p)
  /\ UNCHANGED <<reloj, clientes>>
-----------------------------------------------------------------------------
(* The answer reaches the client, or its connection is gone.               *)
Responder(p) ==
  /\ En(p, "fin")
  /\ Pasar(p, Libre)
  /\ IF pet[p].token = NoHay
     THEN UNCHANGED clientes
     ELSE \/ entregados' = entregados \union {pet[p].token} /\ UNCHANGED perdidos
          \/ perdidos' = perdidos \union {pet[p].token} /\ UNCHANGED entregados
  /\ UNCHANGED <<sesiones, clave, reloj>>

LogoutRespondido(p) ==
  /\ En(p, "cerrada")
  /\ Pasar(p, Libre)
  /\ UNCHANGED <<sesiones, clave, reloj, clientes>>

Tic ==
  /\ reloj < MaxReloj
  /\ reloj' = reloj + 1
  /\ UNCHANGED <<sesiones, clave, pet, clientes>>

Empezar(p) ==
  \/ \E u \in Usuarios, k \in Claves : Login(p, u, k)
  \/ \E t \in entregados :
       \/ Refrescar(p, t)
       \/ Logout(p, t)
       \/ PedirCerrarTodas(p, t)
       \/ \E k \in Claves : PedirCambio(p, t, k)

Seguir(p) ==
  \/ Comparar(p)
  \/ CrearSesion(p)
  \/ LeerUsuario(p)
  \/ Actualizar(p)
  \/ Cerrar(p)
  \/ CerrarTodas(p)
  \/ CambiarContrasena(p)
  \/ Responder(p)
  \/ LogoutRespondido(p)

Next == Tic \/ \E p \in Peticiones : Empezar(p) \/ Seguir(p)

Spec == Init /\ [][Next]_vars
-----------------------------------------------------------------------------
(* A closed session never becomes active again, nor does its row change    *)
(* hands: a refresh that read it while it was active writes over it after  *)
(* a logout, and must not undo it.                                         *)
CerradaNoReabre ==
  [][\A i \in Ids :
       sesiones[i] # NoHay =>
         /\ sesiones'[i] # NoHay
         /\ sesiones'[i].idUsuario = sesiones[i].idUsuario
         /\ sesiones[i].estado = 0 => sesiones'[i].estado = 0]_vars

(* The token of a session is always the one some client was, or is about   *)
(* to be, given: however refreshes overlap, no session ends up under a     *)
(* token that nobody was answered.                                         *)
EnCamino == {pet[p].token : p \in {q \in Peticiones : En(q, "fin") /\ pet[q].token # NoHay}}

SesionAlcanzable ==
  \A i \in Ids : sesiones[i] # NoHay =>
    sesiones[i].token \in entregados \union perdidos \union EnCamino

(* A logout that succeeds has closed the session it was called with, even  *)
(* when a refresh of another tab changed its token in between.             *)
LogoutCierraLaSuya ==
  \A p \in Peticiones : En(p, "cerrada") => ~Activa(pet[p].id)

(* A session is closed only on behalf of its own user, although logout     *)
(* takes the user from the token and the row from the token's text, and    *)
(* never compares the two.                                                 *)
CierraSuDueno ==
  [][\A i \in Ids :
       (Activa(i) /\ ~Activa(i)') =>
         \E p \in Peticiones :
           /\ \E f \in {"cerrar", "cerrarTodas", "cambiar"} : En(p, f)
           /\ pet'[p] # pet[p]
           /\ pet[p].sub = sesiones[i].idUsuario]_vars
=============================================================================
