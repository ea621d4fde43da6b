----------------------------- MODULE EdicionWopi -----------------------------
(***************************************************************************)
(* CollaboraController: opening a document for Collabora, the keepalive of *)
(* its session and the WOPI calls, over the sessions of SesionesWopi.  A   *)
(* request is a handler that stops at each of its awaits.                  *)
(*                                                                         *)
(* External: the document level of a user (database), Autodesk's storages  *)
(* and versions, and the frontend, which shows "Guardando..." from         *)
(* document.save_started to document.saved.                                *)
(***************************************************************************)
EXTENDS SesionesWopi, Sequences, FiniteSets

CONSTANTS
  Items,        (* the files in ACC                                          *)
  Contenidos,   (* the bytes Collabora may send                              *)
  Peticiones,   (* requests that may be in flight at once                    *)
  Libre,        (* an idle request slot                                      *)
  MaxAlmacenes  (* bound on the storages created in ACC                      *)

(* A document id stands for the item or for one version of it: whoever     *)
(* opens the same id edits in the same Collabora session.                  *)
ASSUME ConstantesEdicion ==
  /\ Documentos = Items \X {"actual", "version"}
  /\ MaxAlmacenes \in Nat

ItemDe(d) == d[1]

VARIABLES
  nivel,      (* the document level of each user in each item                *)
  editores,   (* history: who has ever had the level to edit what            *)
  pet,        (* the requests                                                *)
  almacenes,  (* the storages created in ACC, in order                       *)
  versiones,  (* the versions of each item                                   *)
  auditoria,  (* the saves recorded in the audit log                         *)
  guardando   (* the user and item pairs whose frontend shows "Guardando..." *)

acc == <<almacenes, versiones>>
avisos == <<auditoria, guardando>>
vars == <<sesiones, nivel, editores, pet, acc, avisos>>

Niveles == {"nada", "ver", "editar"}
Respuestas == {"200", "400", "401", "403", "error"}
Guardado == [userId : Usuarios, item : Items, contenido : Contenidos,
             alm : 0 .. MaxAlmacenes]

(* What a request holds while it waits, by what it waits for.              *)
Peticion ==
  {Libre}
    \union [fase : {"abrir"}, userId : Usuarios, docId : Documentos, permiso : Permisos]
    \union [fase : {"leer"}]
    \union [fase : {"renovar"}, token : Tokens]
    \union [fase : {"resolver"}, guardado : Guardado, autosave : BOOLEAN]
    \union [fase : {"almacen", "subir", "completar", "version", "auditar"}, guardado : Guardado]
    \union [fase : {"fin"}, res : Respuestas]
    \union [fase : {"guardado"}, guardado : Guardado]

TypeOK ==
  /\ TypeSesiones
  /\ nivel \in [Usuarios \X Items -> Niveles]
  /\ editores \in SUBSET (Usuarios \X Items)
  /\ pet \in [Peticiones -> Peticion]
  /\ almacenes \in Seq([estado : {"creado", "subido", "completo"},
                        contenido : Contenidos \union {NoHay}])
  /\ versiones \in [Items -> Seq(Guardado)]
  /\ auditoria \in SUBSET Guardado
  /\ guardando \in SUBSET (Usuarios \X Items)

Editan(n) == {ui \in Usuarios \X Items : n[ui] = "editar"}

Init ==
  /\ InitSesiones
  /\ nivel \in [Usuarios \X Items -> Niveles]
  /\ editores = Editan(nivel)
  /\ pet = [p \in Peticiones |-> Libre]
  /\ almacenes = <<>>
  /\ versiones = [i \in Items |-> <<>>]
  /\ auditoria = {}
  /\ guardando = {}

En(p, f) == pet[p] # Libre /\ pet[p].fase = f
Pasar(p, r) == pet' = [pet EXCEPT ![p] = r]
Contestar(p, codigo) == Pasar(p, [fase |-> "fin", res |-> codigo])
-----------------------------------------------------------------------------
(***************************************************************************)
(* getCollaboraConfig: the level decides the mode, and the session is      *)
(* created after the calls that look for the file.  The version in the     *)
(* query is assumed to be one of the item in the path, as the history of   *)
(* versions of the frontend sends it.                                      *)
(***************************************************************************)
\* Mutant: the mode is the level, which WOPI does not know.
PedirConfigConNivel(p, u, d, soloLectura) ==
  /\ pet[p] = Libre
  /\ Pasar(p, [fase |-> "abrir", userId |-> u, docId |-> d, permiso |-> nivel[<<u, ItemDe(d)>>]])
  /\ UNCHANGED <<sesiones, nivel, editores, acc, avisos>>

\* Mutant: only the query parameter decides the mode.
PedirConfigSinNivel(p, u, d, soloLectura) ==
  /\ pet[p] = Libre
  /\ Pasar(p, [fase |-> "abrir", userId |-> u, docId |-> d,
               permiso |-> IF soloLectura THEN "view" ELSE "edit"])
  /\ UNCHANGED <<sesiones, nivel, editores, acc, avisos>>

PedirConfig(p, u, d, soloLectura) ==
  /\ pet[p] = Libre
  /\ LET n == nivel[<<u, ItemDe(d)>>] IN
     \/ /\ n = "nada"
        /\ Contestar(p, "403")
     \/ /\ n # "nada"
        /\ Pasar(p, [fase |-> "abrir", userId |-> u, docId |-> d,
                     permiso |-> IF soloLectura \/ n # "editar" THEN "view" ELSE "edit"])
  /\ UNCHANGED <<sesiones, nivel, editores, acc, avisos>>

AbrirSesion(p) ==
  /\ En(p, "abrir")
  /\ \/ /\ \E t \in Tokens :
             CreateUserSessionToken(t, pet[p].userId, pet[p].docId, pet[p].permiso)
        /\ Contestar(p, "200")
     \/ /\ \E codigo \in {"401", "error"} : Contestar(p, codigo)
        /\ UNCHANGED sesiones
  /\ UNCHANGED <<nivel, editores, acc, avisos>>

(***************************************************************************)
(* keepaliveCollaboraSession: the session is extended before its owner is  *)
(* compared with the caller, and again after the Autodesk token.           *)
(***************************************************************************)
Keepalive(p, t, u) ==
  /\ pet[p] = Libre
  /\ t \in enUso
  /\ IF SesionValida(t) /\ userSessions[t].userId = u
     THEN Pasar(p, [fase |-> "renovar", token |-> t])
     ELSE Contestar(p, "403")
  /\ ValidateUserSessionToken(t)
  /\ UNCHANGED <<nivel, editores, acc, avisos>>

Renovar(p) ==
  /\ En(p, "renovar")
  /\ \/ /\ Contestar(p, "401")
        /\ UNCHANGED sesiones
     \/ /\ Contestar(p, "200")
        /\ TouchUserSession(pet[p].token)
  /\ UNCHANGED <<nivel, editores, acc, avisos>>

(***************************************************************************)
(* CheckFileInfo and GetFile: the session and the document id are checked, *)
(* then Autodesk is asked for the file.                                    *)
(***************************************************************************)
LeerDocumento(p, t, d) ==
  /\ pet[p] = Libre
  /\ t \in enUso
  /\ IF SesionValida(t) /\ userSessions[t].docId = d
     THEN Pasar(p, [fase |-> "leer"])
     ELSE Contestar(p, "403")
  /\ ValidateUserSessionToken(t)
  /\ UNCHANGED <<nivel, editores, acc, avisos>>

Leido(p) ==
  /\ En(p, "leer")
  /\ \E codigo \in {"200", "401", "error"} : Contestar(p, codigo)
  /\ UNCHANGED <<sesiones, nivel, editores, acc, avisos>>

(***************************************************************************)
(* PutFile.  What the session says is copied at the beginning and used to  *)
(* the end, however long Autodesk takes.                                   *)
(***************************************************************************)
PutFile(p, t, d, c, autosave) ==
  /\ pet[p] = Libre
  /\ t \in enUso
  /\ IF /\ SesionValida(t)
        /\ userSessions[t].docId = d
        /\ userSessions[t].wopiPermission = "edit"
     THEN Pasar(p, [fase |-> "resolver", autosave |-> autosave,
                    guardado |-> [userId |-> userSessions[t].userId,
                                  item |-> ItemDe(userSessions[t].docId),
                                  contenido |-> c, alm |-> 0]])
     ELSE Contestar(p, "403")
  /\ ValidateUserSessionToken(t)
  /\ UNCHANGED <<nivel, editores, acc, avisos>>

(* After the Autodesk token: an autosave is answered without any upload.   *)
ResolverToken(p) ==
  /\ En(p, "resolver")
  /\ LET g == pet[p].guardado IN
     \/ /\ \E codigo \in {"401", "400"} : Contestar(p, codigo)
        /\ UNCHANGED guardando
     \/ /\ pet[p].autosave
        /\ Contestar(p, "200")
        /\ UNCHANGED guardando
     \/ /\ ~pet[p].autosave
        /\ Pasar(p, [fase |-> "almacen", guardado |-> g])
        /\ guardando' = guardando \union {<<g.userId, g.item>>}
  /\ UNCHANGED <<sesiones, nivel, editores, acc, auditoria>>

(* An answer of Autodesk that never comes, or comes as an error, may leave *)
(* the work done or not.                                                   *)
FallaAutodesk(p) == \E codigo \in {"401", "403", "error"} : Contestar(p, codigo)

CrearAlmacen(p) ==
  /\ En(p, "almacen")
  /\ Len(almacenes) < MaxAlmacenes
  /\ LET nuevo == Append(almacenes, [estado |-> "creado", contenido |-> NoHay]) IN
     \/ /\ almacenes' = nuevo
        /\ Pasar(p, [fase |-> "subir", guardado |-> [pet[p].guardado EXCEPT !.alm = Len(nuevo)]])
     \/ /\ almacenes' \in {almacenes, nuevo}
        /\ FallaAutodesk(p)
  /\ UNCHANGED <<sesiones, nivel, editores, versiones, avisos>>

\* Mutant: the version is created without completing the upload.
SubirSinCompletar(p) ==
  /\ En(p, "subir")
  /\ LET g == pet[p].guardado IN
     /\ almacenes' = [almacenes EXCEPT ![g.alm] = [estado |-> "subido", contenido |-> g.contenido]]
     /\ Pasar(p, [fase |-> "version", guardado |-> g])
  /\ UNCHANGED <<sesiones, nivel, editores, versiones, avisos>>

SubirContenido(p) ==
  /\ En(p, "subir")
  /\ LET g == pet[p].guardado
         subido == [almacenes EXCEPT ![g.alm] = [estado |-> "subido", contenido |-> g.contenido]] IN
     \/ /\ almacenes' = subido
        /\ Pasar(p, [fase |-> "completar", guardado |-> g])
     \/ /\ almacenes' \in {almacenes, subido}
        /\ FallaAutodesk(p)
  /\ UNCHANGED <<sesiones, nivel, editores, versiones, avisos>>

CompletarSubida(p) ==
  /\ En(p, "completar")
  /\ LET g == pet[p].guardado
         completo == [almacenes EXCEPT ![g.alm].estado = "completo"] IN
     \/ /\ almacenes' = completo
        /\ Pasar(p, [fase |-> "version", guardado |-> g])
     \/ /\ almacenes' \in {almacenes, completo}
        /\ FallaAutodesk(p)
  /\ UNCHANGED <<sesiones, nivel, editores, versiones, avisos>>

\* Mutant: a failed call is made again, as if it had not been done.
CrearVersionConReintento(p) ==
  /\ En(p, "version")
  /\ LET g == pet[p].guardado
         creada == [versiones EXCEPT ![g.item] = Append(@, g)] IN
     /\ Len(versiones[g.item]) < MaxAlmacenes
     /\ versiones' = creada
     /\ \/ Pasar(p, [fase |-> "auditar", guardado |-> g])
        \/ UNCHANGED pet
  /\ UNCHANGED <<sesiones, nivel, editores, almacenes, avisos>>

\* Mutant: the error of the call is only logged.
CrearVersionSinError(p) ==
  /\ En(p, "version")
  /\ LET g == pet[p].guardado IN
     /\ versiones' \in {versiones, [versiones EXCEPT ![g.item] = Append(@, g)]}
     /\ Pasar(p, [fase |-> "auditar", guardado |-> g])
  /\ UNCHANGED <<sesiones, nivel, editores, almacenes, avisos>>

CrearVersion(p) ==
  /\ En(p, "version")
  /\ LET g == pet[p].guardado
         creada == [versiones EXCEPT ![g.item] = Append(@, g)] IN
     \/ /\ versiones' = creada
        /\ Pasar(p, [fase |-> "auditar", guardado |-> g])
     \/ /\ versiones' \in {versiones, creada}
        /\ FallaAutodesk(p)
  /\ UNCHANGED <<sesiones, nivel, editores, almacenes, avisos>>

(* The audit log is written if it can be; the save is announced anyway.    *)
AuditarYAvisar(p) ==
  /\ En(p, "auditar")
  /\ LET g == pet[p].guardado IN
     /\ auditoria' \in {auditoria, auditoria \union {g}}
     /\ guardando' = guardando \ {<<g.userId, g.item>>}
     /\ Pasar(p, [fase |-> "guardado", guardado |-> g])
  /\ UNCHANGED <<sesiones, nivel, editores, acc>>

(* The handler has answered ("guardado" is the 200 of a manual save).      *)
Olvidar(p) ==
  /\ En(p, "fin") \/ En(p, "guardado")
  /\ Pasar(p, Libre)
  /\ UNCHANGED <<sesiones, nivel, editores, acc, avisos>>
-----------------------------------------------------------------------------
(* The rest of the world: levels change, time passes, and the process      *)
(* restarts, which breaks the sockets of the frontends as well.            *)
CambiarNivel(u, i, n) ==
  /\ nivel' = [nivel EXCEPT ![<<u, i>>] = n]
  /\ editores' = editores \union Editan(nivel')
  /\ UNCHANGED <<sesiones, pet, acc, avisos>>

Reiniciar ==
  /\ ReiniciarSesiones
  /\ pet' = [p \in Peticiones |-> Libre]
  /\ guardando' = {}
  /\ UNCHANGED <<nivel, editores, acc, auditoria>>

(* Done with a token: its editor is closed and no keepalive of it is under *)
(* way, which would still extend the session.                              *)
Terminar(t) ==
  /\ \A p \in Peticiones : ~(En(p, "renovar") /\ pet[p].token = t)
  /\ CerrarEditor(t)

Almacen ==
  /\ Tic \/ CleanExpiredTokens \/ \E t \in Tokens : Terminar(t)
  /\ UNCHANGED <<nivel, editores, pet, acc, avisos>>

Llegada(p) ==
  \/ \E u \in Usuarios, d \in Documentos, soloLectura \in BOOLEAN : PedirConfig(p, u, d, soloLectura)
  \/ \E t \in Tokens, u \in Usuarios : Keepalive(p, t, u)
  \/ \E t \in Tokens, d \in Documentos :
       \/ LeerDocumento(p, t, d)
       \/ \E c \in Contenidos, autosave \in BOOLEAN : PutFile(p, t, d, c, autosave)

Avanza(p) ==
  \/ AbrirSesion(p)
  \/ Renovar(p)
  \/ Leido(p)
  \/ ResolverToken(p)
  \/ CrearAlmacen(p)
  \/ SubirContenido(p)
  \/ CompletarSubida(p)
  \/ CrearVersion(p)
  \/ AuditarYAvisar(p)
  \/ Olvidar(p)

Entorno ==
  \/ \E u \in Usuarios, i \in Items, n \in Niveles : CambiarNivel(u, i, n)
  \/ Almacen
  \/ Reiniciar

Next ==
  \/ \E p \in Peticiones : Llegada(p) \/ Avanza(p)
  \/ Entorno

Spec == Init /\ [][Next]_vars
-----------------------------------------------------------------------------
EnAcc(g) == \E n \in DOMAIN versiones[g.item] : versiones[g.item][n] = g

(* Every version in ACC opens: its storage was completed and holds the     *)
(* bytes of the very save that created it, whatever saves, failures and    *)
(* retries were going on.                                                  *)
VersionConContenido ==
  \A i \in Items : \A n \in DOMAIN versiones[i] :
    LET g == versiones[i][n] IN
    /\ g.alm \in DOMAIN almacenes
    /\ almacenes[g.alm] = [estado |-> "completo", contenido |-> g.contenido]

(* Only those who had the level to edit an item ever write a version of    *)
(* it, although PutFile looks at the session alone and not at the level.   *)
EscrituraAutorizada ==
  \A i \in Items : \A n \in DOMAIN versiones[i] : <<versiones[i][n].userId, i>> \in editores

(* A save is never claimed that is not in ACC: neither by the 200 to       *)
(* Collabora, nor by the audit log, nor by the document.saved that puts    *)
(* out a frontend's "Guardando...", which only a restart does otherwise.   *)
Avisada(ui) ==
  \E p \in Peticiones :
    /\ En(p, "auditar")
    /\ <<pet[p].guardado.userId, pet[p].guardado.item>> = ui
    /\ EnAcc(pet[p].guardado)

SinFalsoGuardado ==
  [][/\ \A p \in Peticiones : En(p, "guardado")' => EnAcc(pet[p].guardado)'
     /\ \A g \in auditoria' : EnAcc(g)'
     /\ \A ui \in guardando \ guardando' : Avisada(ui) \/ \A p \in Peticiones : pet'[p] = Libre]_vars

(* No two versions share a storage: a save never becomes two versions nor  *)
(* takes the bytes of another.                                             *)
AlmacenDeUnaVersion ==
  \A i, j \in Items : \A n \in DOMAIN versiones[i], m \in DOMAIN versiones[j] :
    versiones[i][n].alm = versiones[j][m].alm => i = j /\ n = m
=============================================================================
