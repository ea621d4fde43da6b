------------------------------ MODULE AccTokens ------------------------------
(***************************************************************************)
(* The Autodesk (ACC) 3-legged token of every user: one active database    *)
(* row per linked user, Autodesk's single-use refresh tokens, and the      *)
(* requests that read the row, call Autodesk and write the row back, each  *)
(* await being a separate step.                                            *)
(*                                                                         *)
(* A grant (vinculo) is one consent given at Autodesk.  Its refresh tokens *)
(* are the pairs [vinculo, gen]: generation n+1 replaces generation n.     *)
(* A database row is identified by the grant it was inserted for, since    *)
(* acc_GuardarToken3Legged inserts a row for every code exchanged.         *)
(***************************************************************************)
EXTENDS Naturals, FiniteSets

CONSTANTS
  Usuarios,           (* users of the application                            *)
  SinUsuario,         (* no user: an idle request                            *)
  UsuarioPorDefecto,  (* the user of a callback without JWT: id 1            *)
  Vinculos,           (* grants Autodesk may issue (bounds the relinks)      *)
  SinVinculo,         (* no grant: an empty row or token                     *)
  Peticiones,         (* HTTP requests that may be in flight at once         *)
  Cron,               (* the request slot of the refresh cron                *)
  MaxGen,             (* bound on the generations of a refresh token         *)
  Rota                (* Autodesk answers a refresh with a new refresh token *)

ASSUME ConstantesAcc ==
  /\ UsuarioPorDefecto \in Usuarios
  /\ SinUsuario \notin Usuarios
  /\ SinVinculo \notin Vinculos
  /\ Cron \notin Peticiones
  /\ MaxGen \in Nat \ {0}
  /\ Rota \in BOOLEAN

VARIABLES
  fila,      (* the active row of each user in the token table             *)
  vigente,   (* Autodesk: the generation it still accepts, 0 for none      *)
  titular,   (* Autodesk: the user who gave the consent                    *)
  perdidos,  (* history: grants whose rotated token was never stored       *)
  fase,      (* where each request is waiting                              *)
  usuario,   (* whose row each request works on                            *)
  leida,     (* the token each request read from the row                   *)
  nuevo,     (* the token each request received from Autodesk              *)
  res,       (* the outcome of a finished request                          *)
  cron       (* the loop of the refresh cron                               *)

autodesk == <<vigente, titular>>
peticion == <<fase, usuario, leida, nuevo, res>>
vars == <<fila, vigente, titular, perdidos, fase, usuario, leida, nuevo, res, cron>>

Procesos == Peticiones \union {Cron}
Generaciones == 0 .. MaxGen
Token == [vinculo : Vinculos \union {SinVinculo}, gen : Generaciones]
Fila  == [vinculo : Vinculos \union {SinVinculo}, gen : Generaciones, vencido : BOOLEAN]
SinToken == [vinculo |-> SinVinculo, gen |-> 0]
SinFila  == [vinculo |-> SinVinculo, gen |-> 0, vencido |-> FALSE]

Fases == {"libre", "pedir", "guardar", "canjear", "guardarNuevo", "revocar", "fin"}
Resultados == {"ninguno", "ok", "token", "noEncontrado", "sinRefresco",
               "expirado", "error"}

TypeOK ==
  /\ fila \in [Usuarios -> Fila]
  /\ vigente \in [Vinculos -> Generaciones]
  /\ titular \in [Vinculos -> Usuarios \union {SinUsuario}]
  /\ perdidos \in SUBSET Vinculos
  /\ fase \in [Procesos -> Fases]
  /\ usuario \in [Procesos -> Usuarios \union {SinUsuario}]
  /\ leida \in [Procesos -> Token]
  /\ nuevo \in [Procesos -> Token]
  /\ res \in [Procesos -> Resultados]
  /\ cron \in [activo : BOOLEAN, lista : SUBSET Usuarios, pend : SUBSET Usuarios,
               ok : SUBSET Usuarios, mal : SUBSET Usuarios]

Emitidos == {g \in Vinculos : titular[g] # SinUsuario}
Activa(u) == fila[u].vinculo # SinVinculo

CronParado == [activo |-> FALSE, lista |-> {}, pend |-> {}, ok |-> {}, mal |-> {}]

(***************************************************************************)
(* Any set of users may be linked already when the API starts: rows        *)
(* written before, each by its own grant, with the token Autodesk accepts. *)
(***************************************************************************)
Init ==
  /\ \E previo \in [Usuarios -> Vinculos \union {SinVinculo}] :
       /\ \A u, v \in Usuarios : previo[u] = previo[v] /\ u # v => previo[u] = SinVinculo
       /\ fila = [u \in Usuarios |->
                    IF previo[u] = SinVinculo THEN SinFila
                    ELSE [vinculo |-> previo[u], gen |-> 1, vencido |-> FALSE]]
       /\ vigente = [g \in Vinculos |-> IF \E u \in Usuarios : previo[u] = g THEN 1 ELSE 0]
       /\ titular = [g \in Vinculos |->
                       IF \E u \in Usuarios : previo[u] = g
                       THEN CHOOSE u \in Usuarios : previo[u] = g
                       ELSE SinUsuario]
  /\ perdidos = {}
  /\ fase = [p \in Procesos |-> "libre"]
  /\ usuario = [p \in Procesos |-> SinUsuario]
  /\ leida = [p \in Procesos |-> SinToken]
  /\ nuevo = [p \in Procesos |-> SinToken]
  /\ res = [p \in Procesos |-> "ninguno"]
  /\ cron = CronParado

(***************************************************************************)
(* Control of a request: it waits at a phase with what it holds in memory, *)
(* or it ends with an outcome and keeps nothing.                           *)
(***************************************************************************)
Esperar(p, f, u, l, n) ==
  /\ fase' = [fase EXCEPT ![p] = f]
  /\ usuario' = [usuario EXCEPT ![p] = u]
  /\ leida' = [leida EXCEPT ![p] = l]
  /\ nuevo' = [nuevo EXCEPT ![p] = n]
  /\ res' = res

Terminar(p, u, r) ==
  /\ fase' = [fase EXCEPT ![p] = "fin"]
  /\ usuario' = [usuario EXCEPT ![p] = u]
  /\ leida' = [leida EXCEPT ![p] = SinToken]
  /\ nuevo' = [nuevo EXCEPT ![p] = SinToken]
  /\ res' = [res EXCEPT ![p] = r]

(***************************************************************************)
(* RefrescarToken3LeggedUseCase up to its first call of Autodesk.          *)
(***************************************************************************)
LeerParaRefrescar(p, u) ==
  /\ fase[p] = "libre"
  /\ \/ /\ ~Activa(u)
        /\ Terminar(p, u, "noEncontrado")
     \/ /\ Activa(u)
        /\ fila[u].gen = 0
        /\ Terminar(p, u, "sinRefresco")
     \/ /\ Activa(u)
        /\ fila[u].gen # 0
        /\ Esperar(p, "pedir", u, [vinculo |-> fila[u].vinculo, gen |-> fila[u].gen], SinToken)

(* POST /acc/oauth/refresh, and Collabora's resolveAccAccessToken.         *)
PedirRefresco(p, u) ==
  /\ LeerParaRefrescar(p, u)
  /\ UNCHANGED <<fila, autodesk, perdidos, cron>>

(* ObtenerTokenValidoHelper: a token with more than 5 minutes left is      *)
(* returned as it is, an expired one is refreshed first.                   *)
PedirTokenValido(p, u) ==
  /\ \/ /\ fase[p] = "libre"
        /\ Activa(u)
        /\ ~fila[u].vencido
        /\ Terminar(p, u, "token")
     \/ /\ Activa(u) => fila[u].vencido
        /\ LeerParaRefrescar(p, u)
  /\ UNCHANGED <<fila, autodesk, perdidos, cron>>

(***************************************************************************)
(* AutodeskAuthClient.refrescarToken.  Autodesk accepts only the live      *)
(* generation; a rotated answer may be lost on its way back (the HTTP      *)
(* client gives up after 30 s); without a new refresh token in the answer  *)
(* the caller keeps the one it read.                                       *)
(***************************************************************************)
Aceptado(t) == t.gen # 0 /\ vigente[t.vinculo] = t.gen
Siguiente(n) == IF Rota THEN n + 1 ELSE n

RefrescarOk(p) ==
  LET t == leida[p] IN
  /\ fase[p] = "pedir"
  /\ Aceptado(t)
  /\ Siguiente(t.gen) <= MaxGen
  /\ vigente' = [vigente EXCEPT ![t.vinculo] = Siguiente(t.gen)]
  /\ \/ /\ Esperar(p, "guardar", usuario[p], t,
                   [vinculo |-> t.vinculo, gen |-> Siguiente(t.gen)])
        /\ UNCHANGED perdidos
     \/ /\ Terminar(p, usuario[p], "error")
        /\ perdidos' = IF Rota THEN perdidos \union {t.vinculo} ELSE perdidos
  /\ UNCHANGED <<fila, titular, cron>>

RefrescarRechazado(p) ==
  /\ fase[p] = "pedir"
  /\ ~Aceptado(leida[p])
  /\ Terminar(p, usuario[p], "expirado")
  /\ UNCHANGED <<fila, autodesk, perdidos, cron>>

RefrescarFalla(p) ==
  /\ fase[p] = "pedir"
  /\ Terminar(p, usuario[p], "error")
  /\ UNCHANGED <<fila, autodesk, perdidos, cron>>

(***************************************************************************)
(* AccRepository.actualizarToken3Legged, by row id: a row revoked or       *)
(* replaced in the meantime is no longer the user's active one.  The       *)
(* outcome may be an error all the same: no row returned for such an id,   *)
(* or the connection lost after the update.                                *)
(***************************************************************************)
\* Mutant: the update keeps the refresh token that was read.
GuardarElLeido(p) ==
  LET u == usuario[p] IN
  /\ fase[p] = "guardar"
  /\ IF fila[u].vinculo = leida[p].vinculo
     THEN fila' = [fila EXCEPT ![u].vencido = FALSE] ELSE UNCHANGED fila
  /\ \E r \in {"ok", "error"} : Terminar(p, u, r)
  /\ UNCHANGED <<autodesk, perdidos, cron>>

\* Mutant: the update is addressed to the user, not to the row that was read.
GuardarPorUsuario(p) ==
  LET u == usuario[p] IN
  /\ fase[p] = "guardar"
  /\ fila' = [fila EXCEPT ![u] = [vinculo |-> leida[p].vinculo,
                                  gen |-> nuevo[p].gen, vencido |-> FALSE]]
  /\ \E r \in {"ok", "error"} : Terminar(p, u, r)
  /\ UNCHANGED <<autodesk, perdidos, cron>>

\* Mutant: the update falls on the default user, as the callback's insert does.
GuardarAlPorDefecto(p) ==
  /\ fase[p] = "guardar"
  /\ fila' = [fila EXCEPT ![UsuarioPorDefecto] = [vinculo |-> leida[p].vinculo,
                                  gen |-> nuevo[p].gen, vencido |-> FALSE]]
  /\ \E r \in {"ok", "error"} : Terminar(p, usuario[p], r)
  /\ UNCHANGED <<autodesk, perdidos, cron>>

Guardar(p) ==
  LET u == usuario[p] IN
  /\ fase[p] = "guardar"
  /\ \/ /\ fila[u].vinculo = leida[p].vinculo
        /\ fila' = [fila EXCEPT ![u] = [vinculo |-> leida[p].vinculo,
                                        gen |-> nuevo[p].gen, vencido |-> FALSE]]
     \/ /\ fila[u].vinculo # leida[p].vinculo
        /\ UNCHANGED fila
  /\ \E r \in {"ok", "error"} : Terminar(p, u, r)
  /\ UNCHANGED <<autodesk, perdidos, cron>>

GuardarFalla(p) ==
  /\ fase[p] = "guardar"
  /\ Terminar(p, usuario[p], "error")
  /\ perdidos' = IF Rota THEN perdidos \union {leida[p].vinculo} ELSE perdidos
  /\ UNCHANGED <<fila, autodesk, cron>>

(***************************************************************************)
(* CallbackAutorizacionUseCase.  The route carries no JWT, so the user is  *)
(* always the default one, whoever gave the consent.                       *)
(***************************************************************************)
RecibirCallback(p) ==
  /\ fase[p] = "libre"
  /\ \/ Esperar(p, "canjear", UsuarioPorDefecto, SinToken, SinToken)
     \/ Terminar(p, UsuarioPorDefecto, "error")
  /\ UNCHANGED <<fila, autodesk, perdidos, cron>>

(* intercambiarCodigoPorToken: the answer may come without refresh token.  *)
Canjear(p) ==
  /\ fase[p] = "canjear"
  /\ \/ \E g \in Vinculos \ Emitidos, quien \in Usuarios, n \in {0, 1} :
          /\ titular' = [titular EXCEPT ![g] = quien]
          /\ vigente' = [vigente EXCEPT ![g] = n]
          /\ Esperar(p, "guardarNuevo", usuario[p], SinToken, [vinculo |-> g, gen |-> n])
     \/ /\ Terminar(p, usuario[p], "error")
        /\ UNCHANGED autodesk
  /\ UNCHANGED <<fila, perdidos, cron>>

\* Mutant: the insert forgets the expiry of the token.
GuardarNuevoSinVencimiento(p) ==
  /\ fase[p] = "guardarNuevo"
  /\ fila' = [fila EXCEPT ![usuario[p]] = nuevo[p]]
  /\ Terminar(p, usuario[p], "ok")
  /\ UNCHANGED <<autodesk, perdidos, cron>>

(* guardarToken3Legged: the inserted row becomes the user's active one.    *)
GuardarNuevo(p) ==
  /\ fase[p] = "guardarNuevo"
  /\ \/ /\ fila' = [fila EXCEPT ![usuario[p]] = [vinculo |-> nuevo[p].vinculo,
                                                 gen |-> nuevo[p].gen, vencido |-> FALSE]]
        /\ Terminar(p, usuario[p], "ok")
     \/ /\ Terminar(p, usuario[p], "error")
        /\ UNCHANGED fila
  /\ UNCHANGED <<autodesk, perdidos, cron>>

(***************************************************************************)
(* RevocarTokenUseCase: read the row, then revoke it by id.                *)
(***************************************************************************)
LeerParaRevocar(p, u) ==
  /\ fase[p] = "libre"
  /\ \/ /\ ~Activa(u)
        /\ Terminar(p, u, "noEncontrado")
     \/ /\ Activa(u)
        /\ Esperar(p, "revocar", u, [vinculo |-> fila[u].vinculo, gen |-> fila[u].gen], SinToken)
  /\ UNCHANGED <<fila, autodesk, perdidos, cron>>

Revocar(p) ==
  LET u == usuario[p] IN
  /\ fase[p] = "revocar"
  /\ fila' = IF fila[u].vinculo = leida[p].vinculo
             THEN [fila EXCEPT ![u] = SinFila] ELSE fila
  /\ Terminar(p, u, "ok")
  /\ UNCHANGED <<autodesk, perdidos, cron>>

\* Mutant: an exception never reaches the exception filter.
ResponderSinErrores(p) ==
  /\ fase[p] = "fin"
  /\ res[p] # "error"
  /\ fase' = [fase EXCEPT ![p] = "libre"]
  /\ usuario' = [usuario EXCEPT ![p] = SinUsuario]
  /\ res' = [res EXCEPT ![p] = "ninguno"]
  /\ UNCHANGED <<leida, nuevo>>

(* The response is sent and the request is forgotten.                      *)
Responder(p) ==
  /\ fase[p] = "fin"
  /\ fase' = [fase EXCEPT ![p] = "libre"]
  /\ usuario' = [usuario EXCEPT ![p] = SinUsuario]
  /\ res' = [res EXCEPT ![p] = "ninguno"]
  /\ UNCHANGED <<leida, nuevo>>

ResponderPeticion(p) ==
  /\ Responder(p)
  /\ UNCHANGED <<fila, autodesk, perdidos, cron>>

(***************************************************************************)
(* CronRefrescarTokensAccUseCase: the users with a stored refresh token,   *)
(* one after the other, a failure of one not stopping the loop.            *)
(***************************************************************************)
CronListar ==
  /\ ~cron.activo
  /\ LET lista == {u \in Usuarios : Activa(u) /\ fila[u].gen # 0} IN
     cron' = [activo |-> TRUE, lista |-> lista, pend |-> lista, ok |-> {}, mal |-> {}]
  /\ UNCHANGED <<fila, autodesk, perdidos, peticion>>

\* Mutant: the loop does not advance past the user it refreshes.
CronRefrescarSinAvanzar ==
  /\ cron.activo
  /\ \E u \in cron.pend : LeerParaRefrescar(Cron, u)
  /\ UNCHANGED <<fila, autodesk, perdidos, cron>>

CronRefrescar ==
  /\ cron.activo
  /\ \E u \in cron.pend :
       /\ LeerParaRefrescar(Cron, u)
       /\ cron' = [cron EXCEPT !.pend = @ \ {u}]
  /\ UNCHANGED <<fila, autodesk, perdidos>>

CronAnotar ==
  /\ cron' = IF res[Cron] = "ok"
             THEN [cron EXCEPT !.ok = @ \union {usuario[Cron]}]
             ELSE [cron EXCEPT !.mal = @ \union {usuario[Cron]}]
  /\ Responder(Cron)
  /\ UNCHANGED <<fila, autodesk, perdidos>>

CronTerminar ==
  /\ cron.activo
  /\ cron.pend = {}
  /\ fase[Cron] = "libre"
  /\ cron' = [cron EXCEPT !.activo = FALSE]
  /\ UNCHANGED <<fila, autodesk, perdidos, peticion>>

(***************************************************************************)
(* The environment: access tokens age, Autodesk ends a grant (unused for   *)
(* too long, or withdrawn there), the API process restarts.                *)
(***************************************************************************)
Vencer(u) ==
  /\ Activa(u)
  /\ ~fila[u].vencido
  /\ fila' = [fila EXCEPT ![u].vencido = TRUE]
  /\ UNCHANGED <<autodesk, perdidos, peticion, cron>>

Caducar(g) ==
  /\ vigente[g] # 0
  /\ vigente' = [vigente EXCEPT ![g] = 0]
  /\ UNCHANGED <<fila, titular, perdidos, peticion, cron>>

Reiniciar ==
  /\ \E p \in Procesos : fase[p] # "libre"
  /\ perdidos' = perdidos \union
       (IF Rota THEN {leida[p].vinculo : p \in {q \in Procesos : fase[q] = "guardar"}} ELSE {})
  /\ fase' = [p \in Procesos |-> "libre"]
  /\ usuario' = [p \in Procesos |-> SinUsuario]
  /\ leida' = [p \in Procesos |-> SinToken]
  /\ nuevo' = [p \in Procesos |-> SinToken]
  /\ res' = [p \in Procesos |-> "ninguno"]
  /\ cron' = CronParado
  /\ UNCHANGED <<fila, autodesk>>

Refresco(p) ==
  \/ RefrescarOk(p)
  \/ RefrescarRechazado(p)
  \/ RefrescarFalla(p)
  \/ Guardar(p)
  \/ GuardarFalla(p)

Peticion(p) ==
  \/ \E u \in Usuarios : PedirRefresco(p, u) \/ PedirTokenValido(p, u) \/ LeerParaRevocar(p, u)
  \/ RecibirCallback(p)
  \/ Canjear(p)
  \/ GuardarNuevo(p)
  \/ Revocar(p)
  \/ ResponderPeticion(p)

CronPaso == CronListar \/ CronRefrescar \/ CronAnotar \/ CronTerminar

Entorno ==
  \/ \E u \in Usuarios : Vencer(u)
  \/ \E g \in Vinculos : Caducar(g)
  \/ Reiniciar

Next ==
  \/ \E p \in Procesos : Refresco(p)
  \/ \E p \in Peticiones : Peticion(p)
  \/ CronPaso
  \/ Entorno

Spec == Init /\ [][Next]_vars

(***************************************************************************)
(* Fairness: a request that awaits a call gets an answer or an error, since*)
(* the HTTP client has a timeout, and the cron goes on with its loop. New  *)
(* requests, cron calls, restarts and the ageing of tokens are never owed. *)
(***************************************************************************)
Avanza(p) ==
  \/ Refresco(p)
  \/ Canjear(p)
  \/ GuardarNuevo(p)
  \/ Revocar(p)
  \/ ResponderPeticion(p)

FairSpec ==
  /\ Spec
  /\ \A p \in Peticiones : WF_vars(Avanza(p))
  /\ WF_vars(Refresco(Cron))
  /\ WF_vars(CronRefrescar \/ CronAnotar \/ CronTerminar)
-----------------------------------------------------------------------------
(***************************************************************************)
(* A link is usable when the stored refresh token is the one Autodesk      *)
(* accepts, or a request that will store it there has it in hand.          *)
(***************************************************************************)
TieneVigente(p, u) ==
  /\ fase[p] = "guardar"
  /\ leida[p].vinculo = fila[u].vinculo
  /\ nuevo[p].gen = vigente[fila[u].vinculo]
  /\ nuevo[p].gen # 0

Vivo(u) ==
  /\ Activa(u)
  /\ Aceptado(fila[u]) \/ \E p \in Procesos : TieneVigente(p, u)

(* Refreshes racing for one single-use refresh token never leave a user    *)
(* with a dead one: a linked row is unusable only if Autodesk ended the    *)
(* grant, no refresh token came with it, or a rotated token was lost on    *)
(* its way to the database (a crash, a timeout, a failed update).          *)
VinculoVigente ==
  \A u \in Usuarios :
    /\ Activa(u)
    /\ fila[u].gen # 0
    /\ vigente[fila[u].vinculo] # 0
    /\ fila[u].vinculo \notin perdidos
    => Vivo(u)

(* No grant is stored for two users, whatever callbacks, refreshes and     *)
(* revocations are in flight.                                              *)
VinculoExclusivo ==
  \A u, v \in Usuarios :
    u # v /\ Activa(u) => fila[u].vinculo # fila[v].vinculo

(* A late write never undoes a newer one: the update of a refresh that     *)
(* was under way when the row was revoked or replaced by a new consent     *)
(* does not bring the old grant back, and the generation stored for a      *)
(* grant never goes back to one already used.                              *)
SinRetroceso ==
  [][\A u \in Usuarios :
       /\ Activa(u) /\ fila'[u].vinculo = fila[u].vinculo => fila'[u].gen >= fila[u].gen
       /\ fila'[u].vinculo \notin {fila[u].vinculo, SinVinculo} =>
            \E p \in Procesos : fase[p] = "guardarNuevo" /\ nuevo[p].vinculo = fila'[u].vinculo]_vars

(* "Refresh token expirado o invalido. Por favor, vuelva a autenticarse":  *)
(* the answer is given only when the link really is unusable.              *)
ExpiradoSoloSiMuerto ==
  [][\A p \in Procesos :
       fase[p] = "pedir" /\ res'[p] = "expirado" => ~Vivo(usuario[p])]_vars

(* Every request that calls Autodesk or the database is answered, and the  *)
(* cron finishes its round, a failed user not holding up the others.       *)
PeticionResponde ==
  \A p \in Peticiones : fase[p] # "libre" ~> fase[p] = "libre"

CronTermina == cron.activo ~> ~cron.activo

(***************************************************************************)
(* What the component promises: a user's link lives, dies or is given up,  *)
(* and only a new consent replaces it (EnlaceAcc).                         *)
(***************************************************************************)
Estado(u) == [vinculo |-> fila[u].vinculo, vivo |-> Vivo(u)]
PorGuardar == {nuevo[p].vinculo : p \in {q \in Procesos : fase[q] = "guardarNuevo"}}

Enlace == INSTANCE EnlaceAcc WITH enlace <- [u \in Usuarios |-> Estado(u)],
                                  consentidos <- Emitidos, pendientes <- PorGuardar

(* Whatever the refreshes, callbacks, revocations and restarts do, a link  *)
(* that died or was revoked comes back only with a consent given since.    *)
EnlaceSpec == Enlace!Spec
=============================================================================
