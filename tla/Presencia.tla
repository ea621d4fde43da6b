------------------------------ MODULE Presencia ------------------------------
(***************************************************************************)
(* BroadcastGateway: the sockets of the users, the rooms they are in and   *)
(* the flag isconnected of the database.                                   *)
(*                                                                         *)
(* External: socket.io, which takes a socket that closes out of its rooms, *)
(* and lets none join once closed; and the pool of connections to the      *)
(* database, where two writes issued in one order may run in the other.    *)
(***************************************************************************)
EXTENDS Integers, FiniteSets

CONSTANTS
  Usuarios,
  Sockets,
  Publicos,  (* public channels: "menus" and those of the marks of a project *)
  NoHay,
  Salen,     (* the users who may log out                                    *)
  Reinicia   (* whether the process may restart                              *)

ASSUME ConstantesPresencia ==
  /\ Salen \subseteq Usuarios
  /\ Reinicia \in BOOLEAN
  /\ NoHay \notin Usuarios \union Sockets
  /\ Publicos \intersect Usuarios = {}

VARIABLES
  abierto,           (* the sockets whose transport is open                  *)
  verificando,       (* handleConnection in verifyAsync: the user of the JWT *)
  userId,            (* client.userId                                        *)
  connectedClients,
  salas,             (* rooms; the private channel of a user is the user     *)
  escrituras,        (* setUsuarioConectado issued, not run yet              *)
  isconnected        (* the flag in authUsuarios                             *)

red == <<abierto, verificando, userId, connectedClients, salas>>
bd == <<escrituras, isconnected>>
presencia == <<red, bd>>

Canales == Publicos \union Usuarios
Escritura == [socket : Sockets \union {NoHay}, usuario : Usuarios, valor : BOOLEAN]

TypePresencia ==
  /\ abierto \in SUBSET Sockets
  /\ verificando \in [Sockets -> Usuarios \union {NoHay}]
  /\ userId \in [Sockets -> Usuarios \union {NoHay}]
  /\ connectedClients \in SUBSET Sockets
  /\ salas \in [Canales -> SUBSET Sockets]
  /\ escrituras \in SUBSET Escritura
  /\ isconnected \in [Usuarios -> BOOLEAN]

SinProceso ==
  /\ abierto = {}
  /\ verificando = [s \in Sockets |-> NoHay]
  /\ userId = [s \in Sockets |-> NoHay]
  /\ connectedClients = {}
  /\ salas = [c \in Canales |-> {}]
  /\ escrituras = {}

InitPresencia == SinProceso /\ isconnected = [u \in Usuarios |-> FALSE]

Pendientes(s) == {w \in escrituras : w.socket = s}

(* A socket is new: nothing of an earlier one of its name is left.         *)
Nuevo(s) ==
  /\ s \notin abierto \union connectedClients
  /\ verificando[s] = NoHay
  /\ Pendientes(s) = {}
-----------------------------------------------------------------------------
(* handleConnection, up to verifyAsync.                                    *)
Conectar(s, u) ==
  /\ Nuevo(s)
  /\ abierto' = abierto \union {s}
  /\ verificando' = [verificando EXCEPT ![s] = u]
  /\ userId' = [userId EXCEPT ![s] = NoHay]
  /\ UNCHANGED <<connectedClients, salas, bd>>

(* handleConnection, after verifyAsync: nothing looks whether the socket   *)
(* is still open.                                                          *)
Verificado(s) ==
  /\ verificando[s] # NoHay
  /\ LET u == verificando[s] IN
     /\ userId' = [userId EXCEPT ![s] = u]
     /\ connectedClients' = connectedClients \union {s}
     /\ salas' = IF s \in abierto THEN [salas EXCEPT ![u] = @ \union {s}] ELSE salas
     /\ escrituras' = escrituras \union {[socket |-> s, usuario |-> u, valor |-> TRUE]}
  /\ verificando' = [verificando EXCEPT ![s] = NoHay]
  /\ UNCHANGED <<abierto, isconnected>>

VerificacionFalla(s) ==
  /\ verificando[s] # NoHay
  /\ verificando' = [verificando EXCEPT ![s] = NoHay]
  /\ abierto' = abierto \ {s}
  /\ salas' = [c \in Canales |-> salas[c] \ {s}]
  /\ UNCHANGED <<userId, connectedClients, bd>>

\* Mutant: the other connections of the user are not looked at.
DesconectarSinMirar(s) ==
  /\ s \in abierto
  /\ abierto' = abierto \ {s}
  /\ salas' = [c \in Canales |-> salas[c] \ {s}]
  /\ connectedClients' = connectedClients \ {s}
  /\ LET u == userId[s] IN
     escrituras' = IF u # NoHay
                   THEN escrituras \union {[socket |-> s, usuario |-> u, valor |-> FALSE]}
                   ELSE escrituras
  /\ UNCHANGED <<verificando, userId, isconnected>>

(* handleDisconnect.  The write is not awaited.                            *)
Desconectar(s) ==
  /\ s \in abierto
  /\ abierto' = abierto \ {s}
  /\ salas' = [c \in Canales |-> salas[c] \ {s}]
  /\ connectedClients' = connectedClients \ {s}
  /\ LET u == userId[s]
         otra == \E c \in connectedClients' : userId[c] = u
     IN escrituras' = IF u # NoHay /\ ~otra
                      THEN escrituras \union {[socket |-> s, usuario |-> u, valor |-> FALSE]}
                      ELSE escrituras
  /\ UNCHANGED <<verificando, userId, isconnected>>

\* Mutant: any channel whose name is well formed is allowed.
PermitidoATodos(s, c) == userId[s] # NoHay

(* canSubscribeToChannel                                                   *)
Permitido(s, c) == userId[s] # NoHay /\ (c \in Publicos \/ c = userId[s])

Suscribir(s, c) ==
  /\ s \in abierto
  /\ Permitido(s, c)
  /\ salas' = [salas EXCEPT ![c] = @ \union {s}]
  /\ UNCHANGED <<abierto, verificando, userId, connectedClients, bd>>

Desuscribir(s, c) ==
  /\ s \in abierto
  /\ salas' = [salas EXCEPT ![c] = @ \ {s}]
  /\ UNCHANGED <<abierto, verificando, userId, connectedClients, bd>>
-----------------------------------------------------------------------------
(* setUsuarioConectado runs, or fails and is logged.                       *)
Escribir(w) ==
  /\ w \in escrituras
  /\ escrituras' = escrituras \ {w}
  /\ isconnected' \in {[isconnected EXCEPT ![w.usuario] = w.valor], isconnected}
  /\ UNCHANGED red

(* The last step of LogoutUseCase, whatever sockets the user has.          *)
LogoutMarca(u) ==
  /\ u \in Salen
  /\ escrituras' = escrituras \union {[socket |-> NoHay, usuario |-> u, valor |-> FALSE]}
  /\ UNCHANGED <<red, isconnected>>

(* The process restarts: no handleDisconnect runs.                         *)
ReiniciarGateway ==
  /\ Reinicia
  /\ abierto' = {}
  /\ verificando' = [s \in Sockets |-> NoHay]
  /\ userId' = [s \in Sockets |-> NoHay]
  /\ connectedClients' = {}
  /\ salas' = [c \in Canales |-> {}]
  /\ escrituras' = {}
  /\ UNCHANGED isconnected

PasoGateway ==
  \/ \E s \in Sockets :
       \/ \E u \in Usuarios : Conectar(s, u)
       \/ Verificado(s)
       \/ VerificacionFalla(s)
       \/ Desconectar(s)
       \/ \E c \in Canales : Suscribir(s, c) \/ Desuscribir(s, c)
  \/ \E w \in escrituras : Escribir(w)
  \/ \E u \in Usuarios : LogoutMarca(u)

NextPresencia == PasoGateway \/ ReiniciarGateway

SpecPresencia == InitPresencia /\ [][NextPresencia]_presencia
-----------------------------------------------------------------------------
(* Whatever a socket subscribes to, and however its closing overlaps its   *)
(* handshake, the private channel of a user only reaches open sockets      *)
(* authenticated as that user.                                             *)
CanalPrivado ==
  \A u \in Usuarios : \A s \in salas[u] : s \in abierto /\ userId[s] = u

(* The gateway does not mark a user as disconnected when one of his        *)
(* sockets closes while another one, authenticated, is open.               *)
OtraConexion(u, s) == \E c \in abierto \ {s} : userId[c] = u

NoApagaConOtra ==
  [][\A w \in escrituras' \ escrituras :
       w.socket # NoHay /\ ~w.valor => ~OtraConexion(w.usuario, w.socket)]_presencia
=============================================================================
