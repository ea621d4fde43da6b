---------------------------- MODULE Notificaciones ----------------------------
(***************************************************************************)
(* BroadcastService.emitNotificationToUser and the table                   *)
(* notificacionespendientes, over the sockets of Presencia.  A             *)
(* notification is stored first and then sent to the sockets of its user.  *)
(*                                                                         *)
(* External: the frontend, which lists the pending notifications, shows    *)
(* them, and then asks to mark them as delivered.                          *)
(***************************************************************************)
EXTENDS Presencia, Sequences

CONSTANTS
  Notifs,   (* the notifications the program may emit                        *)
  Limite    (* LIMIT of the listing, 50 in the code                          *)

VARIABLES
  emision,    (* where emitNotificationToUser is with each notification      *)
  tabla,      (* its row, or NoHay                                           *)
  orden,      (* the rows by fechacreacion                                   *)
  recibidas,  (* the sockets each notification was sent to                   *)
  vistas,     (* the notifications shown to their user                       *)
  campana     (* the users whose frontend has listed and not yet marked      *)

filas == <<tabla, orden>>
frontend == <<vistas, campana>>
vars == <<presencia, emision, filas, recibidas, frontend>>

Fila == [usuario : Usuarios, entregada : BOOLEAN, estado : {0, 1}]

ASSUME ConstantesNotificaciones == Limite \in Nat \ {0} /\ NoHay \notin Fila

Fases == {"nueva", "guardar", "guardada", "hecha", "error"}

TypeOK ==
  /\ TypePresencia
  /\ emision \in [Notifs -> [fase : Fases, para : Usuarios \union {NoHay}]]
  /\ tabla \in [Notifs -> Fila \union {NoHay}]
  /\ orden \in Seq(Notifs)
  /\ recibidas \in [Notifs -> SUBSET Sockets]
  /\ vistas \in SUBSET Notifs
  /\ campana \in SUBSET Usuarios

Init ==
  /\ InitPresencia
  /\ emision = [n \in Notifs |-> [fase |-> "nueva", para |-> NoHay]]
  /\ tabla = [n \in Notifs |-> NoHay]
  /\ orden = <<>>
  /\ recibidas = [n \in Notifs |-> {}]
  /\ vistas = {}
  /\ campana = {}

En(n, f) == emision[n].fase = f
Pasar(n, f) == emision' = [emision EXCEPT ![n].fase = f]
-----------------------------------------------------------------------------
\* Mutant: the id of something else is taken for the user's.
EmitirSinUsuario(n, u) ==
  /\ En(n, "nueva")
  /\ emision' = [emision EXCEPT ![n] = [fase |-> "guardar", para |-> n]]
  /\ UNCHANGED <<presencia, filas, recibidas, frontend>>

EmitNotificationToUser(n, u) ==
  /\ En(n, "nueva")
  /\ emision' = [emision EXCEPT ![n] = [fase |-> "guardar", para |-> u]]
  /\ UNCHANGED <<presencia, filas, recibidas, frontend>>

(* guardarNotificacionPendiente: an error, also one after the row is       *)
(* stored, is thrown to the caller, and nothing is sent.                   *)
Guardar(n) ==
  /\ En(n, "guardar")
  /\ \/ /\ tabla' = [tabla EXCEPT ![n] =
                       [usuario |-> emision[n].para, entregada |-> FALSE, estado |-> 1]]
        /\ orden' = Append(orden, n)
        /\ \E f \in {"guardada", "error"} : Pasar(n, f)
     \/ /\ Pasar(n, "error")
        /\ UNCHANGED filas
  /\ UNCHANGED <<presencia, recibidas, frontend>>

\* Mutant: it is sent without waiting for it to be stored.
EnviarSinEsperar(n) ==
  /\ En(n, "guardar") \/ En(n, "guardada")
  /\ recibidas' = [recibidas EXCEPT ![n] = salas[emision[n].para]]
  /\ vistas' = IF salas[emision[n].para] # {} THEN vistas \union {n} ELSE vistas
  /\ Pasar(n, "hecha")
  /\ UNCHANGED <<presencia, filas, campana>>

(* isUserConnected and emitToChannel, in one go.                           *)
Enviar(n) ==
  /\ En(n, "guardada")
  /\ recibidas' = [recibidas EXCEPT ![n] = salas[emision[n].para]]
  /\ vistas' = IF salas[emision[n].para] # {} THEN vistas \union {n} ELSE vistas
  /\ Pasar(n, "hecha")
  /\ UNCHANGED <<presencia, filas, campana>>
-----------------------------------------------------------------------------
\* Mutant: only the users with no socket open have a pending list.
ListadoSoloFuera(u, todas) ==
  {n \in Notifs : /\ tabla[n] # NoHay
                  /\ tabla[n].usuario = u
                  /\ salas[u] = {}
                  /\ todas \/ ~tabla[n].entregada}

(* The last Limite rows of a user that are active, all of them or those    *)
(* not delivered.                                                          *)
Listado(u, todas) ==
  LET suyas == {i \in DOMAIN orden : LET f == tabla[orden[i]] IN
                  /\ f.usuario = u
                  /\ todas \/ ~f.entregada
                  /\ f.estado = 1}
  IN {orden[i] : i \in {j \in suyas : Cardinality({k \in suyas : k > j}) < Limite}}

ObtenerPendientes(u) ==
  /\ vistas' = vistas \union Listado(u, FALSE)
  /\ campana' = IF Listado(u, FALSE) = {} THEN campana ELSE campana \union {u}
  /\ UNCHANGED <<presencia, emision, filas, recibidas>>

ObtenerNotificaciones(u) ==
  /\ vistas' = vistas \union Listado(u, TRUE)
  /\ UNCHANGED <<presencia, emision, filas, recibidas, campana>>

(* marcarTodasComoEntregadas: every row of the user, after the listing.    *)
MarcarEntregadas(u) ==
  /\ u \in campana
  /\ campana' = campana \ {u}
  /\ tabla' = [n \in Notifs |->
       IF tabla[n] # NoHay /\ tabla[n].usuario = u /\ ~tabla[n].entregada
       THEN [tabla[n] EXCEPT !.entregada = TRUE] ELSE tabla[n]]
  /\ UNCHANGED <<presencia, emision, orden, recibidas, vistas>>

EliminarNotificacion(n, u) ==
  /\ tabla[n] # NoHay
  /\ tabla[n].usuario = u
  /\ tabla[n].estado = 1
  /\ n \in vistas
  /\ tabla' = [tabla EXCEPT ![n].estado = 0]
  /\ UNCHANGED <<presencia, emision, orden, recibidas, frontend>>

EliminarTodas(u) ==
  /\ tabla' = [n \in Notifs |->
       IF tabla[n] # NoHay /\ tabla[n].usuario = u
       THEN [tabla[n] EXCEPT !.estado = 0] ELSE tabla[n]]
  /\ UNCHANGED <<presencia, emision, orden, recibidas, frontend>>
-----------------------------------------------------------------------------
(* A restart abandons the emissions that are under way.                    *)
Reiniciar ==
  /\ ReiniciarGateway
  /\ emision' = [n \in Notifs |->
       IF En(n, "guardar") \/ En(n, "guardada")
       THEN [emision[n] EXCEPT !.fase = "error"] ELSE emision[n]]
  /\ UNCHANGED <<filas, recibidas, frontend>>

Sesiones == PasoGateway /\ UNCHANGED <<emision, filas, recibidas, frontend>>

Emision(n) ==
  \/ \E u \in Usuarios : EmitNotificationToUser(n, u)
  \/ Guardar(n)
  \/ Enviar(n)

Bandeja(u) ==
  \/ ObtenerPendientes(u)
  \/ ObtenerNotificaciones(u)
  \/ MarcarEntregadas(u)
  \/ \E n \in Notifs : EliminarNotificacion(n, u)
  \/ EliminarTodas(u)

Next ==
  \/ Sesiones
  \/ Reiniciar
  \/ \E n \in Notifs : Emision(n)
  \/ \E u \in Usuarios : Bandeja(u)

Spec == Init /\ [][Next]_vars

(* An emission goes on while the process lives, and a user opens the       *)
(* application and looks at the bell now and then.                         *)
FairSpec ==
  /\ Spec
  /\ \A n \in Notifs : WF_vars(Guardar(n) \/ Enviar(n))
  /\ \A u \in Usuarios : WF_vars(ObtenerPendientes(u))
-----------------------------------------------------------------------------
(* "Siempre persiste en BD" (broadcast.service.ts), whoever connects,       *)
(* leaves or changes channel meanwhile: a socket is sent a notification    *)
(* only when it is in the table, of the user it was meant for, and the     *)
(* socket is open and authenticated as that user.                          *)
EntregaGuardada ==
  [][\A n \in Notifs : \A s \in recibidas'[n] \ recibidas[n] :
       /\ tabla[n] # NoHay
       /\ tabla[n].usuario = emision[n].para
       /\ s \in abierto /\ userId[s] = tabla[n].usuario]_vars

(* A notification that was stored and nobody deletes or marks is shown to  *)
(* its user in the end, connected or not.                                  *)
AlFinalSeVe ==
  \A n \in Notifs :
    tabla[n] # NoHay ~>
      \/ n \in vistas
      \/ tabla[n] # NoHay /\ (tabla[n].entregada \/ tabla[n].estado = 0)
=============================================================================
