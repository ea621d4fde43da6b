------------------------ MODULE Notificaciones_proofs ------------------------
(***************************************************************************)
(* Theorems about Presencia and about Notificaciones, which contains it,   *)
(* for any users, sockets, channels and notifications.  The first part is  *)
(* about the gateway alone; what it promises is inherited in the second:   *)
(* every step of Notificaciones is a step of Presencia or leaves it as it  *)
(* was.                                                                    *)
(***************************************************************************)
EXTENDS Notificaciones, TLAPS

(***************************************************************************)
(* The inductive invariant adds to the privacy of the channels that an     *)
(* open authenticated socket is registered, which is what handleDisconnect *)
(* looks at, and that one that is being verified has no user yet.          *)
(***************************************************************************)
Registrado ==
  \A s \in abierto : userId[s] # NoHay => s \in connectedClients

SinUsuarioAun ==
  \A s \in Sockets : verificando[s] # NoHay => userId[s] = NoHay

IInv == TypePresencia /\ CanalPrivado /\ Registrado /\ SinUsuarioAun
-----------------------------------------------------------------------------
LEMMA Inicio == InitPresencia => IInv
BY ConstantesPresencia
DEF InitPresencia, SinProceso, IInv, TypePresencia, CanalPrivado, Registrado, SinUsuarioAun, Canales

LEMMA Tipos ==
  ASSUME TypePresencia, [NextPresencia]_presencia
  PROVE  TypePresencia'
<1>1. CASE UNCHANGED presencia
  BY <1>1 DEF presencia, red, bd, TypePresencia
<1>2. ASSUME NEW s \in Sockets, NEW u \in Usuarios, Conectar(s, u)
      PROVE  TypePresencia'
  BY <1>2 DEF Conectar, TypePresencia, bd
<1>3. ASSUME NEW s \in Sockets, Verificado(s)
      PROVE  TypePresencia'
  <2>1. verificando[s] \in Usuarios /\ verificando[s] \in Canales
    BY <1>3 DEF Verificado, TypePresencia, Canales
  <2>2. [socket |-> s, usuario |-> verificando[s], valor |-> TRUE] \in Escritura
    BY <2>1 DEF Escritura
  <2>3. salas' \in [Canales -> SUBSET Sockets]
    BY <1>3, <2>1 DEF Verificado, TypePresencia
  <2>4. QED
    BY <1>3, <2>1, <2>2, <2>3 DEF Verificado, TypePresencia
<1>4. ASSUME NEW s \in Sockets, VerificacionFalla(s)
      PROVE  TypePresencia'
  BY <1>4 DEF VerificacionFalla, TypePresencia, bd
<1>5. ASSUME NEW s \in Sockets, Desconectar(s)
      PROVE  TypePresencia'
  <2>1. userId[s] # NoHay =>
          [socket |-> s, usuario |-> userId[s], valor |-> FALSE] \in Escritura
    BY DEF Escritura, TypePresencia
  <2>2. QED
    BY <1>5, <2>1 DEF Desconectar, TypePresencia
<1>6. ASSUME NEW s \in Sockets, NEW c \in Canales, Suscribir(s, c) \/ Desuscribir(s, c)
      PROVE  TypePresencia'
  BY <1>6 DEF Suscribir, Desuscribir, TypePresencia, bd
<1>7. ASSUME NEW w \in escrituras, Escribir(w)
      PROVE  TypePresencia'
  <2>1. w.usuario \in Usuarios /\ w.valor \in BOOLEAN
    BY DEF TypePresencia, Escritura
  <2>2. QED
    BY <1>7, <2>1 DEF Escribir, TypePresencia, red
<1>8. ASSUME NEW u \in Usuarios, LogoutMarca(u)
      PROVE  TypePresencia'
  <2>1. [socket |-> NoHay, usuario |-> u, valor |-> FALSE] \in Escritura
    BY DEF Escritura
  <2>2. QED
    BY <1>8, <2>1 DEF LogoutMarca, TypePresencia, red
<1>9. CASE ReiniciarGateway
  BY <1>9 DEF ReiniciarGateway, TypePresencia
<1>10. QED
  BY <1>1, <1>2, <1>3, <1>4, <1>5, <1>6, <1>7, <1>8, <1>9 DEF NextPresencia, PasoGateway

LEMMA Paso ==
  ASSUME IInv, [NextPresencia]_presencia
  PROVE  IInv'
<1> USE DEF IInv
<1>1. TypePresencia'
  BY Tipos
<1>2. CASE UNCHANGED red
  BY <1>1, <1>2 DEF red, CanalPrivado, Registrado, SinUsuarioAun
<1>3. ASSUME NEW s \in Sockets, NEW u \in Usuarios, Conectar(s, u)
      PROVE  IInv'
  BY <1>1, <1>3 DEF Conectar, Nuevo, CanalPrivado, Registrado, SinUsuarioAun, TypePresencia
<1>4. ASSUME NEW s \in Sockets, Verificado(s)
      PROVE  IInv'
  <2>1. verificando[s] \in Usuarios /\ verificando[s] \in Canales
    BY <1>4 DEF Verificado, TypePresencia, Canales
  <2>2. \A u \in Usuarios : s \notin salas[u]
    BY <1>4, ConstantesPresencia DEF Verificado, CanalPrivado, SinUsuarioAun
  <2>3. CanalPrivado'
    BY <1>4, <2>1, <2>2 DEF Verificado, CanalPrivado, TypePresencia, Canales
  <2>4. QED
    BY <1>1, <1>4, <2>3 DEF Verificado, Registrado, SinUsuarioAun, TypePresencia
<1>5. ASSUME NEW s \in Sockets, VerificacionFalla(s)
      PROVE  IInv'
  BY <1>1, <1>5 DEF VerificacionFalla, CanalPrivado, Registrado, SinUsuarioAun, TypePresencia, Canales
<1>6. ASSUME NEW s \in Sockets, Desconectar(s)
      PROVE  IInv'
  BY <1>1, <1>6 DEF Desconectar, CanalPrivado, Registrado, SinUsuarioAun, TypePresencia, Canales
<1>7. ASSUME NEW s \in Sockets, NEW c \in Canales, Suscribir(s, c) \/ Desuscribir(s, c)
      PROVE  IInv'
  <2>1. CanalPrivado'
    BY <1>7, ConstantesPresencia
    DEF Suscribir, Desuscribir, Permitido, CanalPrivado, TypePresencia, Canales
  <2>2. QED
    BY <1>1, <1>7, <2>1 DEF Suscribir, Desuscribir, Registrado, SinUsuarioAun
<1>8. CASE ReiniciarGateway
  BY <1>1, <1>8 DEF ReiniciarGateway, CanalPrivado, Registrado, SinUsuarioAun, Canales
<1>9. ASSUME \/ \E w \in escrituras : Escribir(w)
             \/ \E u \in Usuarios : LogoutMarca(u)
             \/ UNCHANGED presencia
      PROVE  UNCHANGED red
  BY <1>9 DEF Escribir, LogoutMarca, presencia, red
<1>10. QED
  BY <1>2, <1>3, <1>4, <1>5, <1>6, <1>7, <1>8, <1>9 DEF NextPresencia, PasoGateway

(* Every variable keeps its type.                                          *)
THEOREM PresenciaTypeOK == SpecPresencia => []TypePresencia
<1>1. IInv => TypePresencia
  BY DEF IInv
<1>2. QED
  BY <1>1, Inicio, Paso, PTL DEF SpecPresencia

(* The private channel of a user only reaches his own open sockets.        *)
THEOREM TodoCanalPrivado == SpecPresencia => []CanalPrivado
<1>1. IInv => CanalPrivado
  BY DEF IInv
<1>2. QED
  BY <1>1, Inicio, Paso, PTL DEF SpecPresencia

(* The gateway marks a user as disconnected only after his last socket.    *)
THEOREM NuncaApagaConOtra == SpecPresencia => NoApagaConOtra
<1>1. ASSUME IInv, [NextPresencia]_presencia, NEW w \in escrituras' \ escrituras,
             w.socket # NoHay, ~w.valor
      PROVE  ~OtraConexion(w.usuario, w.socket)
  <2>1. PICK s \in Sockets : Verificado(s) \/ Desconectar(s)
    BY <1>1
    DEF NextPresencia, PasoGateway, presencia, red, bd, Conectar, VerificacionFalla, Suscribir, Desuscribir, Escribir,
        LogoutMarca, ReiniciarGateway
  <2>2. CASE Verificado(s)
    BY <1>1, <2>2 DEF Verificado
  <2>3. CASE Desconectar(s)
    <3>1. /\ w.socket = s
          /\ w.usuario = userId[s]
          /\ userId[s] # NoHay
          /\ ~\E c \in connectedClients \ {s} : userId[c] = userId[s]
      BY <1>1, <2>3 DEF Desconectar
    <3>2. QED
      BY <1>1, <3>1 DEF IInv, Registrado, OtraConexion
  <2>4. QED
    BY <2>1, <2>2, <2>3
<1>2. IInv /\ [NextPresencia]_presencia =>
        [\A w \in escrituras' \ escrituras :
           w.socket # NoHay /\ ~w.valor => ~OtraConexion(w.usuario, w.socket)]_presencia
  BY <1>1
<1>3. QED
  BY <1>2, Inicio, Paso, PTL DEF SpecPresencia, NoApagaConOtra
-----------------------------------------------------------------------------
(* Notificaciones.                                                         *)

(***************************************************************************)
(* An emission under way is meant for a user, and one that waits to be     *)
(* sent has its row in the table.                                          *)
(***************************************************************************)
ParaUsuario ==
  \A n \in Notifs : En(n, "guardar") \/ En(n, "guardada") => emision[n].para \in Usuarios

GuardadaEnTabla ==
  \A n \in Notifs : En(n, "guardada") => tabla[n] # NoHay /\ tabla[n].usuario = emision[n].para

NInv == TypeOK /\ IInv /\ ParaUsuario /\ GuardadaEnTabla
-----------------------------------------------------------------------------
LEMMA InicioNotif == Init => NInv
<1>1. Init => IInv
  BY Inicio DEF Init
<1>2. Init => TypeOK
  BY <1>1 DEF Init, TypeOK, IInv, Fases
<1>3. QED
  BY <1>1, <1>2 DEF Init, NInv, ParaUsuario, GuardadaEnTabla, En

(* A step of the whole is one of the gateway, or leaves it alone.          *)
LEMMA PasoPresencia == [Next]_vars => [NextPresencia]_presencia
BY DEF Next, vars, Sesiones, Reiniciar, Emision, Bandeja, EmitNotificationToUser, Guardar, Enviar,
       ObtenerPendientes, ObtenerNotificaciones, MarcarEntregadas, EliminarNotificacion,
       EliminarTodas, NextPresencia

LEMMA ListadoNotifs ==
  ASSUME TypeOK, NEW u, NEW todas
  PROVE  Listado(u, todas) \subseteq Notifs
<1>1. ASSUME NEW x \in Listado(u, todas)
      PROVE  x \in Notifs
  <2>1. PICK i \in DOMAIN orden : x = orden[i]
    BY <1>1 DEF Listado
  <2>2. QED
    BY <2>1 DEF TypeOK
<1>2. QED
  BY <1>1

(* The rows of the table that a change of one field leaves are rows.       *)
LEMMA FilaCambiada ==
  ASSUME NEW f \in Fila
  PROVE  /\ [f EXCEPT !.entregada = TRUE] \in Fila
         /\ [f EXCEPT !.estado = 0] \in Fila
         /\ [f EXCEPT !.entregada = TRUE].usuario = f.usuario
         /\ [f EXCEPT !.estado = 0].usuario = f.usuario
BY DEF Fila

Propio == <<emision, filas, recibidas, frontend>>
PropioInv == TypeOK /\ ParaUsuario /\ GuardadaEnTabla

LEMMA PasoPropio ==
  ASSUME NInv, [Next]_vars, TypePresencia'
  PROVE  PropioInv'
<1> USE DEF NInv, PropioInv
<1>1. CASE UNCHANGED Propio
  BY <1>1 DEF Propio, filas, frontend, TypeOK, ParaUsuario, GuardadaEnTabla, En
<1>2. ASSUME NEW n \in Notifs, NEW u \in Usuarios, EmitNotificationToUser(n, u)
      PROVE  PropioInv'
  <2>1. emision'[n] = [fase |-> "guardar", para |-> u] /\ UNCHANGED <<filas, recibidas, frontend>>
    BY <1>2 DEF EmitNotificationToUser, TypeOK
  <2>2. \A m \in Notifs \ {n} : emision'[m] = emision[m]
    BY <1>2 DEF EmitNotificationToUser, TypeOK
  <2>3. TypeOK'
    BY <1>2 DEF EmitNotificationToUser, TypeOK, Fases, filas, frontend
  <2>4. QED
    BY <2>1, <2>2, <2>3 DEF ParaUsuario, GuardadaEnTabla, En, filas
<1>3. ASSUME NEW n \in Notifs, Guardar(n)
      PROVE  PropioInv'
  <2>1. emision[n].para \in Usuarios
    BY <1>3 DEF Guardar, ParaUsuario
  <2>2. PICK f \in {"guardada", "error"} : emision' = [emision EXCEPT ![n].fase = f]
    BY <1>3 DEF Guardar, Pasar
  <2>3. emision' \in [Notifs -> [fase : Fases, para : Usuarios \union {NoHay}]]
    BY <2>2 DEF TypeOK, Fases
  <2> DEFINE fila == [usuario |-> emision[n].para, entregada |-> FALSE, estado |-> 1]
  <2>4. fila \in Fila /\ fila # NoHay
    <3>1. fila \in Fila
      BY <2>1 DEF Fila
    <3>2. QED
      BY <3>1, ConstantesNotificaciones
  <2>5. CASE tabla' = [tabla EXCEPT ![n] = fila] /\ orden' = Append(orden, n)
    <3>1. tabla' \in [Notifs -> Fila \union {NoHay}] /\ orden' \in Seq(Notifs)
      BY <2>4, <2>5 DEF TypeOK
    <3>2. TypeOK'
      BY <1>3, <2>3, <3>1 DEF TypeOK, Guardar, frontend
    <3>3. tabla'[n] = fila /\ emision'[n].para = emision[n].para
      BY <2>2, <2>5 DEF TypeOK
    <3>4. \A m \in Notifs \ {n} : tabla'[m] = tabla[m] /\ emision'[m] = emision[m]
      BY <2>2, <2>5 DEF TypeOK
    <3>5. QED
      BY <2>1, <2>4, <3>2, <3>3, <3>4 DEF ParaUsuario, GuardadaEnTabla, En
  <2>6. CASE emision' = [emision EXCEPT ![n].fase = "error"] /\ UNCHANGED filas
    <3>1. TypeOK'
      BY <1>3, <2>3, <2>6 DEF TypeOK, Guardar, filas, frontend
    <3>2. emision'[n].fase = "error" /\ \A m \in Notifs \ {n} : emision'[m] = emision[m]
      BY <2>6 DEF TypeOK
    <3>3. QED
      BY <2>6, <3>1, <3>2 DEF ParaUsuario, GuardadaEnTabla, En, filas
  <2>7. QED
    BY <1>3, <2>5, <2>6 DEF Guardar, Pasar
<1>4. ASSUME NEW n \in Notifs, Enviar(n)
      PROVE  PropioInv'
  <2>1. emision' = [emision EXCEPT ![n].fase = "hecha"]
    BY <1>4 DEF Enviar, Pasar
  <2>2. emision' \in [Notifs -> [fase : Fases, para : Usuarios \union {NoHay}]]
    BY <2>1 DEF TypeOK, Fases
  <2>3. emision[n].para \in Canales
    BY <1>4 DEF Enviar, ParaUsuario, Canales
  <2>4. recibidas' \in [Notifs -> SUBSET Sockets] /\ vistas' \in SUBSET Notifs
    BY <1>4, <2>3 DEF Enviar, TypeOK, TypePresencia
  <2>5. TypeOK'
    BY <1>4, <2>2, <2>4 DEF TypeOK, Enviar, filas
  <2>6. emision'[n].fase = "hecha" /\ \A m \in Notifs \ {n} : emision'[m] = emision[m]
    BY <2>1 DEF TypeOK
  <2>7. QED
    BY <1>4, <2>5, <2>6 DEF Enviar, ParaUsuario, GuardadaEnTabla, En, filas
<1>5. ASSUME NEW u \in Usuarios, ObtenerPendientes(u) \/ ObtenerNotificaciones(u)
      PROVE  PropioInv'
  <2>1. vistas' \in SUBSET Notifs /\ campana' \in SUBSET Usuarios
    BY <1>5, ListadoNotifs DEF ObtenerPendientes, ObtenerNotificaciones, TypeOK
  <2>2. QED
    BY <1>5, <2>1
    DEF ObtenerPendientes, ObtenerNotificaciones, TypeOK, ParaUsuario, GuardadaEnTabla, En, filas
<1>6. ASSUME UNCHANGED <<emision, orden, recibidas, vistas>>, campana' \in SUBSET Usuarios,
             tabla' \in [Notifs -> Fila \union {NoHay}],
             \A n \in Notifs : tabla[n] # NoHay =>
               tabla'[n] \in Fila /\ tabla'[n].usuario = tabla[n].usuario
      PROVE  PropioInv'
  <2>1. TypeOK'
    BY <1>6 DEF TypeOK
  <2>2. QED
    BY <1>6, <2>1, ConstantesNotificaciones DEF ParaUsuario, GuardadaEnTabla, En
<1>7. ASSUME NEW u \in Usuarios,
             \/ MarcarEntregadas(u)
             \/ \E n \in Notifs : EliminarNotificacion(n, u)
             \/ EliminarTodas(u)
      PROVE  PropioInv'
  <2>1. \A n \in Notifs : tabla[n] # NoHay => tabla[n] \in Fila
    BY DEF TypeOK
  <2>2. \A n \in Notifs : tabla'[n] \in {tabla[n]} \union
          (IF tabla[n] = NoHay THEN {}
           ELSE {[tabla[n] EXCEPT !.entregada = TRUE], [tabla[n] EXCEPT !.estado = 0]})
    BY <1>7 DEF MarcarEntregadas, EliminarNotificacion, EliminarTodas, TypeOK
  <2>3. \A n \in Notifs : tabla[n] # NoHay =>
          tabla'[n] \in Fila /\ tabla'[n].usuario = tabla[n].usuario
    BY <2>1, <2>2, FilaCambiada
  <2>4. DOMAIN tabla' = Notifs /\ tabla' = [n \in Notifs |-> tabla'[n]]
    BY <1>7 DEF MarcarEntregadas, EliminarNotificacion, EliminarTodas, TypeOK
  <2>5. tabla' \in [Notifs -> Fila \union {NoHay}]
    BY <2>2, <2>3, <2>4
  <2>6. UNCHANGED <<emision, orden, recibidas, vistas>> /\ campana' \in SUBSET Usuarios
    BY <1>7 DEF MarcarEntregadas, EliminarNotificacion, EliminarTodas, frontend, TypeOK
  <2>7. QED
    BY <1>6, <2>3, <2>5, <2>6
<1>8. CASE Reiniciar
  <2>1. \A n \in Notifs : emision'[n] \in {emision[n], [emision[n] EXCEPT !.fase = "error"]}
                          /\ ~En(n, "guardar")' /\ ~En(n, "guardada")'
    BY <1>8 DEF Reiniciar, TypeOK, En
  <2>2. emision' \in [Notifs -> [fase : Fases, para : Usuarios \union {NoHay}]]
    BY <1>8 DEF Reiniciar, TypeOK, Fases
  <2>3. QED
    BY <1>8, <2>1, <2>2 DEF Reiniciar, TypeOK, ParaUsuario, GuardadaEnTabla, filas, frontend
<1>9. QED
  BY <1>1, <1>2, <1>3, <1>4, <1>5, <1>7, <1>8
  DEF Next, vars, Propio, Sesiones, Emision, Bandeja

LEMMA PasoNotif ==
  ASSUME NInv, [Next]_vars
  PROVE  NInv'
<1>1. IInv'
  BY PasoPresencia, Paso DEF NInv
<1>2. PropioInv'
  BY <1>1, PasoPropio DEF IInv
<1>3. QED
  BY <1>1, <1>2 DEF NInv, PropioInv

(* What the gateway promises by itself it promises under notifications.    *)
THEOREM ImplementaPresencia == Spec => SpecPresencia
<1>1. Init => InitPresencia
  BY DEF Init
<1>2. QED
  BY <1>1, PasoPresencia, PTL DEF Spec, SpecPresencia

(* Every variable keeps its type.                                          *)
THEOREM NotificacionesTypeOK == Spec => []TypeOK
<1>1. NInv => TypeOK
  BY DEF NInv
<1>2. QED
  BY <1>1, InicioNotif, PasoNotif, PTL DEF Spec

(* The private channel of a user only reaches his own open sockets, with   *)
(* notifications emitted meanwhile.                                        *)
THEOREM CanalPrivadoConNotificaciones == Spec => []CanalPrivado
BY ImplementaPresencia, TodoCanalPrivado, PTL

(* The gateway never marks a user with another socket as gone.             *)
THEOREM NuncaApagaConNotificaciones == Spec => NoApagaConOtra
BY ImplementaPresencia, NuncaApagaConOtra

(* A notification reaches a socket only once stored, and only sockets of   *)
(* the user it is stored for.                                              *)
THEOREM SeGuardaAntesDeEnviar == Spec => EntregaGuardada
<1>1. ASSUME NInv, [Next]_vars, NEW n \in Notifs, NEW s \in recibidas'[n] \ recibidas[n]
      PROVE  /\ tabla[n] # NoHay
             /\ tabla[n].usuario = emision[n].para
             /\ s \in abierto /\ userId[s] = tabla[n].usuario
  <2>1. PICK m \in Notifs : Enviar(m)
    BY <1>1 DEF Next, vars, Sesiones, Reiniciar, Emision, Bandeja, EmitNotificationToUser, Guardar,
                ObtenerPendientes, ObtenerNotificaciones, MarcarEntregadas, EliminarNotificacion,
                EliminarTodas
  <2>2. m = n /\ s \in salas[emision[n].para]
    BY <1>1, <2>1 DEF Enviar, NInv, TypeOK
  <2>3. QED
    <3>1. En(n, "guardada") /\ emision[n].para \in Usuarios
      BY <1>1, <2>1, <2>2 DEF Enviar, NInv, ParaUsuario
    <3>2. QED
      BY <1>1, <2>2, <3>1 DEF NInv, GuardadaEnTabla, IInv, CanalPrivado
<1>2. NInv /\ [Next]_vars =>
        [\A n \in Notifs : \A s \in recibidas'[n] \ recibidas[n] :
           /\ tabla[n] # NoHay
           /\ tabla[n].usuario = emision[n].para
           /\ s \in abierto /\ userId[s] = tabla[n].usuario]_vars
  BY <1>1
<1>3. QED
  BY <1>2, InicioNotif, PasoNotif, PTL DEF Spec, EntregaGuardada
=============================================================================
