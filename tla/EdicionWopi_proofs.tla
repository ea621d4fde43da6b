-------------------------- MODULE EdicionWopi_proofs --------------------------
(***************************************************************************)
(* Theorems about SesionesWopi and about EdicionWopi, which opens, extends *)
(* and drops the sessions of the former, for any tokens, users, files,     *)
(* contents, requests in flight and durations.                             *)
(***************************************************************************)
EXTENDS EdicionWopi, SequenceTheorems, TLAPS

(* A token not given out is in neither map.                                *)
SoloEmitidos ==
  \A t \in Tokens \ emitidos : userSessions[t] = NoHay /\ tokens[t] = NoHay

SesionesInv == TypeSesiones /\ SoloEmitidos

LEMMA EnvejecerQuita ==
  ASSUME NEW n \in Nat, NEW r \in Resta(n)
  PROVE  /\ Envejecer(r) \in Resta(n)
         /\ Envejecer(r) <= r
BY DEF Envejecer, Resta

LEMMA SesionesInvInicial == InitSesiones => SesionesInv
BY DEF InitSesiones, SesionesInv, TypeSesiones, SoloEmitidos

LEMMA TicTipos ==
  ASSUME TypeSesiones, Tic
  PROVE  TypeSesiones'
<1>1. ASSUME NEW t \in Tokens, userSessions[t] # NoHay
      PROVE  [userSessions[t] EXCEPT !.resta = Envejecer(@)] \in Sesion
  <2>1. userSessions[t] \in Sesion
    BY <1>1 DEF TypeSesiones
  <2>2. userSessions[t].resta \in Resta(Apertura) \union Resta(Prorroga)
    BY <2>1 DEF Sesion
  <2>3. Envejecer(userSessions[t].resta) \in Resta(Apertura) \union Resta(Prorroga)
    BY <2>2, EnvejecerQuita, ConstantesWopi
  <2>4. QED
    BY <2>1, <2>3 DEF Sesion
<1>2. userSessions' \in [Tokens -> Sesion \union {NoHay}]
  BY <1>1 DEF Tic
<1>3. tokens' \in [Tokens -> Resta(Duracion) \union {NoHay}]
  BY EnvejecerQuita, ConstantesWopi DEF Tic, TypeSesiones
<1>4. QED
  BY <1>2, <1>3 DEF Tic, TypeSesiones

LEMMA SesionesInvPaso == SesionesInv /\ [NextSesiones]_sesiones => SesionesInv'
<1> SUFFICES ASSUME SesionesInv, [NextSesiones]_sesiones
             PROVE  SesionesInv'
  OBVIOUS
<1> USE DEF SesionesInv, TypeSesiones, SoloEmitidos
<1>1. ASSUME NEW t \in Tokens, NEW u \in Usuarios, NEW d \in Documentos,
             NEW permiso \in Permisos, CreateUserSessionToken(t, u, d, permiso)
      PROVE  SesionesInv'
  <2>1. [userId |-> u, docId |-> d, wopiPermission |-> permiso, resta |-> Apertura] \in Sesion
    BY ConstantesWopi DEF Sesion, Resta
  <2>2. QED
    BY <1>1, <2>1 DEF CreateUserSessionToken, Emitir
<1>2. ASSUME NEW t \in Tokens, GenerateToken(t)
      PROVE  SesionesInv'
  <2>1. Duracion \in Resta(Duracion)
    BY ConstantesWopi DEF Resta
  <2>2. QED
    BY <1>2, <2>1 DEF GenerateToken, Emitir
<1>3. ASSUME NEW t \in Tokens, t \in enUso, Prorrogar(t)
      PROVE  SesionesInv'
  <2>1. ASSUME SesionValida(t)
        PROVE  [userSessions[t] EXCEPT !.resta = Prorroga] \in Sesion
    BY <2>1, ConstantesWopi DEF SesionValida, Sesion, Resta
  <2>2. CASE SesionValida(t)
    BY <1>3, <2>1, <2>2 DEF Prorrogar
  <2>3. CASE ~SesionValida(t)
    BY <1>3, <2>3 DEF Prorrogar
  <2>4. QED
    BY <2>2, <2>3
<1>4. ASSUME NEW t \in Tokens, Uso(t) \/ CerrarEditor(t)
      PROVE  SesionesInv'
  BY <1>3, <1>4 DEF Uso, CerrarEditor, ValidateUserSessionToken, TouchUserSession,
                    ValidateToken, InvalidateToken
<1>5. CASE CleanExpiredTokens \/ ReiniciarSesiones
  BY <1>5 DEF CleanExpiredTokens, ReiniciarSesiones
<1>6. CASE Tic
  BY <1>6, TicTipos DEF Tic
<1>7. CASE UNCHANGED sesiones
  BY <1>7 DEF sesiones
<1>8. QED
  BY <1>1, <1>2, <1>4, <1>5, <1>6, <1>7 DEF NextSesiones

(* The two maps hold well-formed entries, of tokens given out only.        *)
THEOREM SesionesTypeOK == SpecSesiones => []TypeSesiones
<1>1. SesionesInv => TypeSesiones
  BY DEF SesionesInv
<1>2. QED
  BY <1>1, SesionesInvInicial, SesionesInvPaso, PTL DEF SpecSesiones

(* A token that stopped working never works again.                         *)
THEOREM NingunaResurreccion == SpecSesiones => SinResurreccion
<1> DEFINE Paso == \A t \in emitidos : ~Vale(t) => ~Vale(t)'
<1>1. SesionesInv /\ [NextSesiones]_sesiones => [Paso]_sesiones
  <2> SUFFICES ASSUME SesionesInv, NextSesiones, NEW t \in Tokens, t \in emitidos, ~Vale(t), Vale(t)'
               PROVE  FALSE
    BY DEF SesionesInv, TypeSesiones
  <2> USE DEF Vale, SesionValida, TokenValido, SesionesInv, TypeSesiones
  <2>1. ASSUME NEW s \in Tokens, Emitir(s)
        PROVE  s # t
    BY <2>1 DEF Emitir
  <2>2. ASSUME NEW s \in Tokens, NEW u \in Usuarios, NEW d \in Documentos,
               NEW permiso \in Permisos, CreateUserSessionToken(s, u, d, permiso)
        PROVE  FALSE
    BY <2>1, <2>2 DEF CreateUserSessionToken
  <2>3. ASSUME NEW s \in Tokens, GenerateToken(s)
        PROVE  FALSE
    BY <2>1, <2>3 DEF GenerateToken
  <2>4. ASSUME NEW s \in Tokens, Prorrogar(s)
        PROVE  FALSE
    <3>1. CASE s = t
      BY <2>4, <3>1 DEF Prorrogar
    <3>2. CASE s # t
      BY <2>4, <3>2 DEF Prorrogar
    <3>3. QED
      BY <3>1, <3>2
  <2>5. ASSUME NEW s \in Tokens, Uso(s) \/ CerrarEditor(s)
        PROVE  FALSE
    BY <2>4, <2>5 DEF Uso, CerrarEditor, ValidateUserSessionToken, TouchUserSession,
                      ValidateToken, InvalidateToken
  <2>6. CASE CleanExpiredTokens \/ ReiniciarSesiones
    BY <2>6 DEF CleanExpiredTokens, ReiniciarSesiones
  <2>7. CASE Tic
    <3>1. ASSUME userSessions[t] # NoHay
          PROVE  userSessions'[t].resta < 0
      <4>1. userSessions[t] \in Sesion /\ ~(userSessions[t].resta >= 0)
        BY <3>1
      <4>2. userSessions[t].resta \in Int /\ userSessions[t].resta < 0
        BY <4>1, ConstantesWopi DEF Sesion, Resta
      <4>3. userSessions'[t].resta = Envejecer(userSessions[t].resta)
        BY <2>7, <3>1, <4>1 DEF Tic, Sesion
      <4>4. QED
        BY <4>2, <4>3 DEF Envejecer
    <3>2. ASSUME tokens[t] # NoHay
          PROVE  tokens'[t] < 0
      BY <2>7, <3>2, ConstantesWopi DEF Tic, Resta, Envejecer
    <3>3. userSessions[t] = NoHay => userSessions'[t] = NoHay
      BY <2>7 DEF Tic
    <3>4. tokens[t] = NoHay => tokens'[t] = NoHay
      BY <2>7 DEF Tic
    <3>5. ASSUME userSessions[t] # NoHay
          PROVE  userSessions'[t].resta \in Int
      BY <2>7, <3>5, ConstantesWopi DEF Tic, Sesion, Resta, Envejecer
    <3>6. ASSUME tokens[t] # NoHay
          PROVE  tokens'[t] \in Int
      BY <2>7, <3>6, ConstantesWopi DEF Tic, Resta, Envejecer
    <3>7. QED
      BY <3>1, <3>2, <3>3, <3>4, <3>5, <3>6
  <2>8. QED
    BY <2>2, <2>3, <2>5, <2>6, <2>7 DEF NextSesiones
<1>2. QED
  BY <1>1, SesionesInvInicial, SesionesInvPaso, PTL DEF SpecSesiones, SinResurreccion
-----------------------------------------------------------------------------
(***************************************************************************)
(* The sessions.  What an open editor does to them leaves who opened what, *)
(* and to do what, as it was.                                              *)
(***************************************************************************)
Misma(t) ==
  userSessions'[t] # NoHay =>
    /\ userSessions[t] # NoHay
    /\ userSessions'[t].userId = userSessions[t].userId
    /\ userSessions'[t].docId = userSessions[t].docId
    /\ userSessions'[t].wopiPermission = userSessions[t].wopiPermission

LEMMA ProrrogarMantiene ==
  ASSUME TypeSesiones, NEW t \in Tokens, Prorrogar(t)
  PROVE  TypeSesiones' /\ \A s \in Tokens : Misma(s)
<1>1. ASSUME SesionValida(t)
      PROVE  [userSessions[t] EXCEPT !.resta = Prorroga] \in Sesion
  BY <1>1, ConstantesWopi DEF SesionValida, Sesion, Resta, TypeSesiones
<1>2. CASE SesionValida(t)
  <2>1. userSessions' = [userSessions EXCEPT ![t] = [userSessions[t] EXCEPT !.resta = Prorroga]]
    BY <1>2 DEF Prorrogar, TypeSesiones
  <2>2. TypeSesiones'
    BY <1>1, <1>2, <2>1 DEF Prorrogar, TypeSesiones
  <2>3. userSessions[t] # NoHay /\ userSessions[t] \in Sesion
    BY <1>2 DEF SesionValida, TypeSesiones
  <2>4. \A s \in Tokens : Misma(s)
    BY <2>1, <2>3 DEF Misma, TypeSesiones, Sesion
  <2>5. QED
    BY <2>2, <2>4
<1>3. CASE ~SesionValida(t)
  BY <1>3 DEF Prorrogar, TypeSesiones, Misma
<1>4. QED
  BY <1>2, <1>3

LEMMA TicMantiene ==
  ASSUME TypeSesiones, Tic
  PROVE  TypeSesiones' /\ \A s \in Tokens : Misma(s)
<1>0. \A n \in Nat : \A r \in Resta(n) : Envejecer(r) \in Resta(n)
  BY DEF Resta, Envejecer
<1>1. ASSUME NEW t \in Tokens, userSessions[t] # NoHay
      PROVE  /\ [userSessions[t] EXCEPT !.resta = Envejecer(@)] \in Sesion
             /\ Misma(t)
  <2>1. userSessions[t] \in Sesion
    BY <1>1 DEF TypeSesiones
  <2>2. Envejecer(userSessions[t].resta) \in Resta(Apertura) \union Resta(Prorroga)
    BY <1>0, <2>1, ConstantesWopi DEF Sesion
  <2>3. userSessions'[t] = [userSessions[t] EXCEPT !.resta = Envejecer(@)]
    BY <1>1 DEF Tic
  <2>4. QED
    BY <1>1, <2>1, <2>2, <2>3 DEF Sesion, Misma
<1>2. userSessions' \in [Tokens -> Sesion \union {NoHay}]
  BY <1>1 DEF Tic
<1>3. tokens' \in [Tokens -> Resta(Duracion) \union {NoHay}]
  BY <1>0, ConstantesWopi DEF Tic, TypeSesiones
<1>4. \A s \in Tokens : Misma(s)
  BY <1>1 DEF Misma, Tic
<1>5. QED
  BY <1>2, <1>3, <1>4 DEF Tic, TypeSesiones

LEMMA AlmacenMantiene ==
  ASSUME TypeSesiones,
         \/ Tic \/ CleanExpiredTokens \/ ReiniciarSesiones \/ UNCHANGED sesiones
         \/ \E t \in Tokens : CerrarEditor(t)
  PROVE  TypeSesiones' /\ \A s \in Tokens : Misma(s)
<1>1. CASE Tic
  BY <1>1, TicMantiene
<1>2. CASE CleanExpiredTokens
  BY <1>2 DEF CleanExpiredTokens, TypeSesiones, Misma
<1>3. CASE ReiniciarSesiones
  BY <1>3 DEF ReiniciarSesiones, TypeSesiones, Misma
<1>4. CASE UNCHANGED sesiones
  BY <1>4 DEF sesiones, TypeSesiones, Misma
<1>5. CASE \E t \in Tokens : CerrarEditor(t)
  BY <1>5 DEF CerrarEditor, TypeSesiones, Misma
<1>6. QED
  BY <1>1, <1>2, <1>3, <1>4, <1>5

LEMMA CrearSesionMantiene ==
  ASSUME TypeSesiones, NEW t \in Tokens, NEW u \in Usuarios, NEW d \in Documentos,
         NEW permiso \in Permisos, CreateUserSessionToken(t, u, d, permiso)
  PROVE  /\ TypeSesiones'
         /\ \A s \in Tokens \ {t} : Misma(s)
         /\ userSessions'[t].userId = u
         /\ userSessions'[t].docId = d
         /\ userSessions'[t].wopiPermission = permiso
<1>1. [userId |-> u, docId |-> d, wopiPermission |-> permiso, resta |-> Apertura] \in Sesion
  BY ConstantesWopi DEF Sesion, Resta
<1>2. TypeSesiones'
  BY <1>1 DEF CreateUserSessionToken, Emitir, TypeSesiones
<1>3. QED
  BY <1>2 DEF CreateUserSessionToken, TypeSesiones, Misma
-----------------------------------------------------------------------------
(***************************************************************************)
(* The inductive invariant.  Who has, or is about to get, a session to     *)
(* edit has had the level to; a save under way keeps that; and a storage   *)
(* is of one save, which has left in it what its stage says.               *)
(***************************************************************************)
SesionAutorizada(t) ==
  userSessions[t] # NoHay /\ userSessions[t].wopiPermission = "edit" =>
    <<userSessions[t].userId, ItemDe(userSessions[t].docId)>> \in editores

ConGuardado == {"resolver", "almacen", "subir", "completar", "version", "auditar", "guardado"}

PeticionAutorizada(p) ==
  /\ En(p, "abrir") /\ pet[p].permiso = "edit" =>
       <<pet[p].userId, ItemDe(pet[p].docId)>> \in editores
  /\ \A f \in ConGuardado : En(p, f) => <<pet[p].guardado.userId, pet[p].guardado.item>> \in editores

Autorizado ==
  /\ Editan(nivel) \subseteq editores
  /\ \A t \in Tokens : SesionAutorizada(t)
  /\ \A p \in Peticiones : PeticionAutorizada(p)
  /\ EscrituraAutorizada

EnSubida(p) == En(p, "subir") \/ En(p, "completar") \/ En(p, "version")
AlmDe(p) == pet[p].guardado.alm
Contiene(p, e) == almacenes[AlmDe(p)] = [estado |-> e, contenido |-> pet[p].guardado.contenido]

EtapaDe(p) ==
  /\ EnSubida(p) => AlmDe(p) \in 1 .. Len(almacenes)
  /\ En(p, "completar") => Contiene(p, "subido")
  /\ En(p, "version") => Contiene(p, "completo")
  /\ En(p, "auditar") \/ En(p, "guardado") => EnAcc(pet[p].guardado)

AlmacenPropio(p) ==
  EnSubida(p) =>
    /\ \A q \in Peticiones \ {p} : EnSubida(q) => AlmDe(q) # AlmDe(p)
    /\ \A i \in Items : \A n \in DOMAIN versiones[i] : versiones[i][n].alm # AlmDe(p)

Guardados ==
  /\ \A p \in Peticiones : EtapaDe(p) /\ AlmacenPropio(p)
  /\ \A g \in auditoria : EnAcc(g)
  /\ VersionConContenido
  /\ AlmacenDeUnaVersion

IInv == TypeOK /\ Autorizado /\ Guardados

LEMMA Inicio == Init => IInv
<1> SUFFICES ASSUME Init PROVE IInv
  OBVIOUS
<1>1. TypeSesiones
  BY DEF Init, InitSesiones, TypeSesiones
<1>2. TypeOK
  BY <1>1 DEF Init, TypeOK, Peticion, Editan
<1>3. Autorizado
  BY DEF Init, InitSesiones, Autorizado, SesionAutorizada, PeticionAutorizada, En, EscrituraAutorizada
<1>4. Guardados
  BY DEF Init, Guardados, EtapaDe, AlmacenPropio, EnSubida, En, VersionConContenido,
         AlmacenDeUnaVersion
<1>5. QED
  BY <1>2, <1>3, <1>4 DEF IInv
-----------------------------------------------------------------------------
(* A request that goes on to r, the others staying as they are.            *)
LEMMA PasarUna ==
  ASSUME pet \in [Peticiones -> Peticion], NEW p \in Peticiones, NEW r, Pasar(p, r)
  PROVE  /\ pet'[p] = r
         /\ \A q \in Peticiones \ {p} : pet'[q] = pet[q]
         /\ r \in Peticion => pet' \in [Peticiones -> Peticion]
BY DEF Pasar

(* What a request holds at each stage.                                     *)
LEMMA DeGuardado ==
  ASSUME NEW p \in Peticiones, pet[p] \in Peticion, NEW f \in ConGuardado, En(p, f)
  PROVE  pet[p].guardado \in Guardado
BY DEF Peticion, ConGuardado, En

LEMMA DeAbrir ==
  ASSUME NEW p \in Peticiones, pet[p] \in Peticion, En(p, "abrir")
  PROVE  pet[p].userId \in Usuarios /\ pet[p].docId \in Documentos /\ pet[p].permiso \in Permisos
BY DEF Peticion, En

LEMMA ARespuesta ==
  ASSUME NEW c \in Respuestas
  PROVE  [fase |-> "fin", res |-> c] \in Peticion
BY DEF Peticion

LEMMA AGuardado ==
  ASSUME NEW g \in Guardado,
         NEW f \in {"almacen", "subir", "completar", "version", "auditar", "guardado"}
  PROVE  [fase |-> f, guardado |-> g] \in Peticion
BY DEF Peticion

(* Authorization is kept while nobody loses a level they had, and what is  *)
(* new is authorized.                                                      *)
LEMMA AutorizadoMantiene ==
  ASSUME Autorizado, Editan(nivel') \subseteq editores', editores \subseteq editores',
         \A t \in Tokens : Misma(t) \/ SesionAutorizada(t)',
         \A p \in Peticiones : pet'[p] = pet[p] \/ PeticionAutorizada(p)',
         versiones' = versiones
  PROVE  Autorizado'
<1>1. \A t \in Tokens : SesionAutorizada(t)'
  BY DEF Autorizado, SesionAutorizada, Misma
<1>2. \A p \in Peticiones : PeticionAutorizada(p)'
  BY DEF Autorizado, PeticionAutorizada, En
<1>3. EscrituraAutorizada'
  BY DEF Autorizado, EscrituraAutorizada
<1>4. QED
  BY <1>1, <1>2, <1>3 DEF Autorizado

(* The saves are kept by a step that leaves Autodesk alone: no request     *)
(* begins to use a storage, and what is said to be saved was already there. *)
LEMMA GuardadosMantiene ==
  ASSUME Guardados, UNCHANGED acc,
         \A p \in Peticiones :
           \/ pet'[p] = pet[p]
           \/ ~EnSubida(p)' /\ EtapaDe(p)',
         \A g \in auditoria' \ auditoria : EnAcc(g)
  PROVE  Guardados'
<1>1. UNCHANGED <<almacenes, versiones>>
  BY DEF acc
<1>2. \A g : EnAcc(g)' = EnAcc(g)
  BY <1>1 DEF EnAcc
<1>3. ASSUME NEW p \in Peticiones
      PROVE  EtapaDe(p)'
  <2>1. CASE pet'[p] = pet[p]
    <3>1. \A f : En(p, f)' <=> En(p, f)
      BY <2>1 DEF En
    <3>2. EtapaDe(p)
      BY DEF Guardados
    <3>3. QED
      BY <1>1, <1>2, <2>1, <3>1, <3>2 DEF EtapaDe, EnSubida, AlmDe, Contiene
  <2>2. QED
    BY <2>1
<1>4. \A p \in Peticiones : EnSubida(p)' => EnSubida(p) /\ AlmDe(p)' = AlmDe(p)
  BY DEF EnSubida, En, AlmDe
<1>5. \A p \in Peticiones : AlmacenPropio(p)'
  BY <1>1, <1>4 DEF Guardados, AlmacenPropio
<1>6. VersionConContenido' /\ AlmacenDeUnaVersion'
  BY <1>1 DEF Guardados, VersionConContenido, AlmacenDeUnaVersion
<1>7. QED
  BY <1>2, <1>3, <1>5, <1>6 DEF Guardados
-----------------------------------------------------------------------------
(* A step of one request that leaves Autodesk and the levels alone.        *)
LEMMA PasoDePeticion ==
  ASSUME IInv, NEW p \in Peticiones, NEW r \in Peticion, Pasar(p, r),
         TypeSesiones', \A t \in Tokens : Misma(t) \/ SesionAutorizada(t)',
         PeticionAutorizada(p)', ~EnSubida(p)', EtapaDe(p)',
         UNCHANGED <<nivel, editores, acc>>,
         auditoria' \in SUBSET Guardado, \A g \in auditoria' \ auditoria : EnAcc(g),
         guardando' \in SUBSET (Usuarios \X Items)
  PROVE  IInv'
<1>1. /\ pet'[p] = r
      /\ \A q \in Peticiones \ {p} : pet'[q] = pet[q]
      /\ pet' \in [Peticiones -> Peticion]
  BY PasarUna DEF IInv, TypeOK
<1>2. UNCHANGED <<almacenes, versiones>>
  BY DEF acc
<1>3. TypeOK'
  BY <1>1, <1>2 DEF IInv, TypeOK
<1>4. Autorizado'
  BY <1>1, <1>2, AutorizadoMantiene DEF IInv, Autorizado, Editan
<1>5. Guardados'
  BY <1>1, GuardadosMantiene DEF IInv
<1>6. QED
  BY <1>3, <1>4, <1>5 DEF IInv

(* A request that holds no save and no right to open has nothing to keep.  *)
LEMMA SinGuardado ==
  ASSUME NEW p \in Peticiones, pet'[p] = Libre \/ pet'[p].fase \in {"fin", "leer", "renovar"}
  PROVE  PeticionAutorizada(p)' /\ ~EnSubida(p)' /\ EtapaDe(p)'
BY DEF PeticionAutorizada, EnSubida, EtapaDe, En, ConGuardado

LEMMA PasoAjeno ==
  ASSUME IInv, NEW p \in Peticiones, NEW r \in Peticion, Pasar(p, r),
         r = Libre \/ r.fase \in {"fin", "leer", "renovar"},
         TypeSesiones', \A t \in Tokens : Misma(t) \/ SesionAutorizada(t)',
         UNCHANGED <<nivel, editores, acc, avisos>>
  PROVE  IInv'
<1>1. pet'[p] = r
  BY PasarUna DEF IInv, TypeOK
<1>2. PeticionAutorizada(p)' /\ ~EnSubida(p)' /\ EtapaDe(p)'
  BY <1>1, SinGuardado
<1>3. auditoria' = auditoria /\ guardando' = guardando
  BY DEF avisos
<1>4. auditoria \in SUBSET Guardado /\ guardando \in SUBSET (Usuarios \X Items)
  BY DEF IInv, TypeOK
<1>5. QED
  BY <1>2, <1>3, <1>4, PasoDePeticion

LEMMA ContestarMantiene ==
  ASSUME IInv, NEW p \in Peticiones, NEW c \in Respuestas, Contestar(p, c),
         TypeSesiones', \A t \in Tokens : Misma(t) \/ SesionAutorizada(t)',
         UNCHANGED <<nivel, editores, acc, avisos>>
  PROVE  IInv'
<1>1. [fase |-> "fin", res |-> c] \in Peticion /\ Pasar(p, [fase |-> "fin", res |-> c])
  BY ARespuesta DEF Contestar
<1>2. [fase |-> "fin", res |-> c].fase = "fin"
  OBVIOUS
<1>3. QED
  BY <1>1, <1>2, PasoAjeno

LEMMA SesionesQuietas ==
  ASSUME IInv, UNCHANGED sesiones
  PROVE  TypeSesiones' /\ \A t \in Tokens : Misma(t)
BY AlmacenMantiene DEF IInv, TypeOK
-----------------------------------------------------------------------------
(* The requests, one by one.                                               *)
LEMMA PedirConfigMantiene ==
  ASSUME IInv, NEW p \in Peticiones, NEW u \in Usuarios, NEW d \in Documentos,
         NEW soloLectura \in BOOLEAN, PedirConfig(p, u, d, soloLectura)
  PROVE  IInv'
<1> DEFINE n == nivel[<<u, ItemDe(d)>>]
           permiso == IF soloLectura \/ n # "editar" THEN "view" ELSE "edit"
           r == [fase |-> "abrir", userId |-> u, docId |-> d, permiso |-> permiso]
<1>1. TypeSesiones' /\ \A t \in Tokens : Misma(t)
  BY SesionesQuietas DEF PedirConfig
<1>2. CASE Contestar(p, "403")
  BY <1>1, <1>2, ContestarMantiene DEF PedirConfig, Respuestas
<1>3. CASE Pasar(p, r)
  <2>1. r \in Peticion
    BY DEF Peticion, Permisos
  <2>2. pet'[p] = r
    BY <1>3, PasarUna DEF IInv, TypeOK
  <2>3. UNCHANGED <<nivel, editores, acc>> /\ UNCHANGED <<auditoria, guardando>>
    BY DEF PedirConfig, avisos
  <2>4. permiso = "edit" => <<u, ItemDe(d)>> \in editores
    <3>1. <<u, ItemDe(d)>> \in Usuarios \X Items
      BY ConstantesEdicion DEF ItemDe
    <3>2. QED
      BY <3>1 DEF IInv, Autorizado, Editan
  <2>5. PeticionAutorizada(p)' /\ ~EnSubida(p)' /\ EtapaDe(p)'
    BY <2>2, <2>3, <2>4 DEF PeticionAutorizada, EnSubida, EtapaDe, En, ConGuardado, ItemDe
  <2>6. auditoria \in SUBSET Guardado /\ guardando \in SUBSET (Usuarios \X Items)
    BY DEF IInv, TypeOK
  <2>7. QED
    BY <1>1, <1>3, <2>1, <2>3, <2>5, <2>6, PasoDePeticion
<1>4. QED
  BY <1>2, <1>3 DEF PedirConfig

LEMMA AbrirSesionMantiene ==
  ASSUME IInv, NEW p \in Peticiones, AbrirSesion(p)
  PROVE  IInv'
<1>1. CASE UNCHANGED sesiones /\ \E codigo \in {"401", "error"} : Contestar(p, codigo)
  <2>1. PICK codigo \in {"401", "error"} : Contestar(p, codigo)
    BY <1>1
  <2>2. codigo \in Respuestas
    BY DEF Respuestas
  <2>3. QED
    BY <1>1, <2>1, <2>2, SesionesQuietas, ContestarMantiene DEF AbrirSesion
<1>2. ASSUME NEW t \in Tokens,
             CreateUserSessionToken(t, pet[p].userId, pet[p].docId, pet[p].permiso),
             Contestar(p, "200")
      PROVE  IInv'
  <2>0. pet[p] \in Peticion /\ En(p, "abrir") /\ TypeSesiones
    BY DEF IInv, TypeOK, AbrirSesion
  <2>1. pet[p].userId \in Usuarios /\ pet[p].docId \in Documentos /\ pet[p].permiso \in Permisos
    BY <2>0, DeAbrir
  <2>2. /\ TypeSesiones'
        /\ \A s \in Tokens \ {t} : Misma(s)
        /\ userSessions'[t].userId = pet[p].userId
        /\ userSessions'[t].docId = pet[p].docId
        /\ userSessions'[t].wopiPermission = pet[p].permiso
    BY <1>2, <2>0, <2>1, CrearSesionMantiene
  <2>3. SesionAutorizada(t)'
    BY <2>0, <2>2 DEF SesionAutorizada, IInv, Autorizado, PeticionAutorizada, AbrirSesion, ItemDe
  <2>4. \A s \in Tokens : Misma(s) \/ SesionAutorizada(s)'
    BY <2>2, <2>3
  <2>5. "200" \in Respuestas /\ UNCHANGED <<nivel, editores, acc, avisos>>
    BY DEF Respuestas, AbrirSesion
  <2>6. QED
    BY <1>2, <2>2, <2>4, <2>5, ContestarMantiene
<1>3. QED
  BY <1>1, <1>2 DEF AbrirSesion

LEMMA KeepaliveMantiene ==
  ASSUME IInv, NEW p \in Peticiones, NEW t \in Tokens, NEW u \in Usuarios, Keepalive(p, t, u)
  PROVE  IInv'
<1>1. TypeSesiones' /\ \A s \in Tokens : Misma(s)
  BY ProrrogarMantiene DEF Keepalive, ValidateUserSessionToken, IInv, TypeOK
<1>2. CASE Pasar(p, [fase |-> "renovar", token |-> t])
  <2>1. [fase |-> "renovar", token |-> t] \in Peticion
    BY DEF Peticion
  <2>2. QED
    BY <1>1, <1>2, <2>1, PasoAjeno DEF Keepalive
<1>3. CASE Contestar(p, "403")
  BY <1>1, <1>3, ContestarMantiene DEF Keepalive, Respuestas
<1>4. QED
  BY <1>2, <1>3 DEF Keepalive

LEMMA RenovarMantiene ==
  ASSUME IInv, NEW p \in Peticiones, Renovar(p)
  PROVE  IInv'
<1>1. pet[p].token \in Tokens
  BY DEF Renovar, En, IInv, TypeOK, Peticion
<1>2. TypeSesiones' /\ \A s \in Tokens : Misma(s)
  BY <1>1, SesionesQuietas, ProrrogarMantiene DEF Renovar, TouchUserSession, IInv, TypeOK
<1>3. "200" \in Respuestas /\ "401" \in Respuestas
  BY DEF Respuestas
<1>4. QED
  BY <1>2, <1>3, ContestarMantiene DEF Renovar

LEMMA LeerMantiene ==
  ASSUME IInv, NEW p \in Peticiones, NEW t \in Tokens, NEW d \in Documentos, LeerDocumento(p, t, d)
  PROVE  IInv'
<1>1. TypeSesiones' /\ \A s \in Tokens : Misma(s)
  BY ProrrogarMantiene DEF LeerDocumento, ValidateUserSessionToken, IInv, TypeOK
<1>2. CASE Pasar(p, [fase |-> "leer"])
  <2>1. [fase |-> "leer"] \in Peticion
    BY DEF Peticion
  <2>2. QED
    BY <1>1, <1>2, <2>1, PasoAjeno DEF LeerDocumento
<1>3. CASE Contestar(p, "403")
  BY <1>1, <1>3, ContestarMantiene DEF LeerDocumento, Respuestas
<1>4. QED
  BY <1>2, <1>3 DEF LeerDocumento

LEMMA LeidoMantiene ==
  ASSUME IInv, NEW p \in Peticiones, Leido(p)
  PROVE  IInv'
<1>1. PICK codigo \in {"200", "401", "error"} : Contestar(p, codigo)
  BY DEF Leido
<1>2. codigo \in Respuestas
  BY DEF Respuestas
<1>3. QED
  BY <1>1, <1>2, SesionesQuietas, ContestarMantiene DEF Leido

LEMMA PutFileMantiene ==
  ASSUME IInv, NEW p \in Peticiones, NEW t \in Tokens, NEW d \in Documentos,
         NEW c \in Contenidos, NEW autosave \in BOOLEAN, PutFile(p, t, d, c, autosave)
  PROVE  IInv'
<1> DEFINE g == [userId |-> userSessions[t].userId, item |-> ItemDe(userSessions[t].docId),
                 contenido |-> c, alm |-> 0]
           r == [fase |-> "resolver", autosave |-> autosave, guardado |-> g]
<1>1. TypeSesiones' /\ \A s \in Tokens : Misma(s)
  BY ProrrogarMantiene DEF PutFile, ValidateUserSessionToken, IInv, TypeOK
<1>2. CASE SesionValida(t) /\ userSessions[t].wopiPermission = "edit" /\ Pasar(p, r)
  <2>1. userSessions[t] # NoHay /\ userSessions[t] \in Sesion
    BY <1>2 DEF SesionValida, IInv, TypeOK, TypeSesiones
  <2>2. g \in Guardado /\ <<g.userId, g.item>> \in editores
    <3>1. userSessions[t].userId \in Usuarios /\ userSessions[t].docId \in Documentos
      BY <2>1 DEF Sesion
    <3>2. ItemDe(userSessions[t].docId) \in Items
      BY <3>1, ConstantesEdicion DEF ItemDe
    <3>3. QED
      BY <1>2, <2>1, <3>1, <3>2, ConstantesEdicion
         DEF Guardado, IInv, Autorizado, SesionAutorizada
  <2>3. r \in Peticion
    BY <2>2 DEF Peticion
  <2>4. pet'[p] = r
    BY <1>2, PasarUna DEF IInv, TypeOK
  <2>5. UNCHANGED <<nivel, editores, acc>> /\ UNCHANGED <<auditoria, guardando>>
    BY DEF PutFile, avisos
  <2>6. PeticionAutorizada(p)' /\ ~EnSubida(p)' /\ EtapaDe(p)'
    BY <2>2, <2>4, <2>5 DEF PeticionAutorizada, EnSubida, EtapaDe, En
  <2>7. auditoria \in SUBSET Guardado /\ guardando \in SUBSET (Usuarios \X Items)
    BY DEF IInv, TypeOK
  <2>8. QED
    BY <1>1, <1>2, <2>3, <2>5, <2>6, <2>7, PasoDePeticion
<1>3. CASE Contestar(p, "403")
  BY <1>1, <1>3, ContestarMantiene DEF PutFile, Respuestas
<1>4. QED
  BY <1>2, <1>3 DEF PutFile

LEMMA ResolverMantiene ==
  ASSUME IInv, NEW p \in Peticiones, ResolverToken(p)
  PROVE  IInv'
<1> DEFINE g == pet[p].guardado
<1>1. TypeSesiones' /\ \A t \in Tokens : Misma(t)
  BY SesionesQuietas DEF ResolverToken
<1>2. ASSUME NEW c \in {"401", "400", "200"}, Contestar(p, c), UNCHANGED guardando
      PROVE  IInv'
  BY <1>1, <1>2, ContestarMantiene DEF ResolverToken, Respuestas, avisos
<1>3. CASE Pasar(p, [fase |-> "almacen", guardado |-> g]) /\ guardando' = guardando \union {<<g.userId, g.item>>}
  <2>1. g \in Guardado /\ <<g.userId, g.item>> \in editores
    <3>1. En(p, "resolver") /\ "resolver" \in ConGuardado /\ pet[p] \in Peticion
      BY DEF ResolverToken, ConGuardado, IInv, TypeOK
    <3>2. QED
      BY <3>1, DeGuardado DEF IInv, Autorizado, PeticionAutorizada
  <2>2. [fase |-> "almacen", guardado |-> g] \in Peticion
    BY <2>1, AGuardado
  <2>3. pet'[p] = [fase |-> "almacen", guardado |-> g]
    BY <1>3, PasarUna DEF IInv, TypeOK
  <2>4. UNCHANGED <<nivel, editores, acc, auditoria>>
    BY DEF ResolverToken
  <2>5. PeticionAutorizada(p)' /\ ~EnSubida(p)' /\ EtapaDe(p)'
    BY <2>1, <2>3, <2>4 DEF PeticionAutorizada, EnSubida, EtapaDe, En
  <2>6. auditoria \in SUBSET Guardado /\ guardando' \in SUBSET (Usuarios \X Items)
    BY <1>3, <2>1 DEF IInv, TypeOK, Guardado
  <2>7. QED
    BY <1>1, <1>3, <2>2, <2>4, <2>5, <2>6, PasoDePeticion
<1>4. QED
  BY <1>2, <1>3 DEF ResolverToken

LEMMA AuditarMantiene ==
  ASSUME IInv, NEW p \in Peticiones, AuditarYAvisar(p)
  PROVE  IInv'
<1> DEFINE g == pet[p].guardado
<1>1. TypeSesiones' /\ \A t \in Tokens : Misma(t)
  BY SesionesQuietas DEF AuditarYAvisar
<1>2. En(p, "auditar") /\ "auditar" \in ConGuardado /\ pet[p] \in Peticion
  BY DEF AuditarYAvisar, ConGuardado, IInv, TypeOK
<1>3. g \in Guardado /\ <<g.userId, g.item>> \in editores /\ EnAcc(g)
  BY <1>2, DeGuardado DEF IInv, Autorizado, PeticionAutorizada, Guardados, EtapaDe
<1>4. [fase |-> "guardado", guardado |-> g] \in Peticion
  BY <1>3, AGuardado
<1>5. Pasar(p, [fase |-> "guardado", guardado |-> g])
  BY DEF AuditarYAvisar
<1>6. pet'[p] = [fase |-> "guardado", guardado |-> g]
  BY <1>5, PasarUna DEF IInv, TypeOK
<1>7. UNCHANGED <<nivel, editores, acc>> /\ UNCHANGED <<versiones>>
  BY DEF AuditarYAvisar, acc
<1>8. PeticionAutorizada(p)' /\ ~EnSubida(p)' /\ EtapaDe(p)'
  <2>1. EnAcc(g)'
    BY <1>3, <1>6, <1>7 DEF EnAcc
  <2>2. QED
    BY <1>3, <1>6, <1>7, <2>1 DEF PeticionAutorizada, EnSubida, EtapaDe, En, EnAcc
<1>9. auditoria' \in SUBSET Guardado /\ \A h \in auditoria' \ auditoria : EnAcc(h)
  BY <1>3 DEF AuditarYAvisar, IInv, TypeOK
<1>10. guardando' \in SUBSET (Usuarios \X Items)
  BY DEF AuditarYAvisar, IInv, TypeOK
<1>11. QED
  BY <1>1, <1>4, <1>5, <1>7, <1>8, <1>9, <1>10, PasoDePeticion

LEMMA OlvidarMantiene ==
  ASSUME IInv, NEW p \in Peticiones, Olvidar(p)
  PROVE  IInv'
BY SesionesQuietas, PasoAjeno DEF Olvidar, Peticion
-----------------------------------------------------------------------------
(* The environment.                                                        *)
LEMMA EntornoMantiene ==
  ASSUME IInv, Entorno
  PROVE  IInv'
<1>1. ASSUME NEW u \in Usuarios, NEW i \in Items, NEW n \in Niveles, CambiarNivel(u, i, n)
      PROVE  IInv'
  <2>1. TypeSesiones' /\ \A t \in Tokens : Misma(t)
    BY <1>1, SesionesQuietas DEF CambiarNivel
  <2>2. UNCHANGED <<pet, almacenes, versiones, auditoria, guardando>> /\ UNCHANGED acc
    BY <1>1 DEF CambiarNivel, acc, avisos
  <2>3. nivel' \in [Usuarios \X Items -> Niveles] /\ editores' \in SUBSET (Usuarios \X Items)
        /\ editores \subseteq editores' /\ Editan(nivel') \subseteq editores'
    BY <1>1 DEF CambiarNivel, IInv, TypeOK, Editan
  <2>4. TypeOK'
    BY <2>1, <2>2, <2>3 DEF IInv, TypeOK
  <2>5. Autorizado'
    BY <2>1, <2>2, <2>3, AutorizadoMantiene DEF IInv
  <2>6. Guardados'
    BY <2>2, GuardadosMantiene DEF IInv
  <2>7. QED
    BY <2>4, <2>5, <2>6 DEF IInv
<1>2. CASE Almacen
  <2>1. TypeSesiones' /\ \A t \in Tokens : Misma(t)
    BY <1>2, AlmacenMantiene DEF Almacen, Terminar, IInv, TypeOK
  <2>2. /\ UNCHANGED <<nivel, editores, pet, almacenes, versiones, auditoria, guardando>>
        /\ UNCHANGED acc
    BY <1>2 DEF Almacen, acc, avisos
  <2>3. TypeOK'
    BY <2>1, <2>2 DEF IInv, TypeOK
  <2>4. Autorizado'
    BY <2>1, <2>2, AutorizadoMantiene DEF IInv, Autorizado, Editan
  <2>5. Guardados'
    BY <2>2, GuardadosMantiene DEF IInv
  <2>6. QED
    BY <2>3, <2>4, <2>5 DEF IInv
<1>3. CASE Reiniciar
  <2>1. TypeSesiones' /\ \A t \in Tokens : Misma(t)
    BY <1>3, AlmacenMantiene DEF Reiniciar, IInv, TypeOK
  <2>2. /\ UNCHANGED <<nivel, editores, almacenes, versiones, auditoria>>
        /\ UNCHANGED acc /\ guardando' = {}
        /\ \A p \in Peticiones : pet'[p] = Libre
        /\ pet' \in [Peticiones -> Peticion]
    BY <1>3 DEF Reiniciar, acc, Peticion
  <2>3. TypeOK'
    BY <2>1, <2>2 DEF IInv, TypeOK
  <2>4. \A p \in Peticiones : PeticionAutorizada(p)' /\ ~EnSubida(p)' /\ EtapaDe(p)'
    BY <2>2, SinGuardado
  <2>5. Autorizado'
    BY <2>1, <2>2, <2>4, AutorizadoMantiene DEF IInv, Autorizado, Editan
  <2>6. Guardados'
    BY <2>2, <2>4, GuardadosMantiene DEF IInv
  <2>7. QED
    BY <2>3, <2>5, <2>6 DEF IInv
<1>4. QED
  BY <1>1, <1>2, <1>3 DEF Entorno
-----------------------------------------------------------------------------
(***************************************************************************)
(* The storages.  A step adds one at the end, or fills that of request p,  *)
(* which neither another request nor a version uses.                       *)
(***************************************************************************)
Deposito == [estado : {"creado", "subido", "completo"}, contenido : Contenidos \union {NoHay}]

LEMMA AlmacenesMantiene ==
  ASSUME IInv, NEW p \in Peticiones, NEW r \in Peticion, Pasar(p, r), PeticionAutorizada(p)',
         EtapaDe(p)',
         EnSubida(p)' => \/ EnSubida(p) /\ AlmDe(p)' = AlmDe(p)
                         \/ AlmDe(p)' = Len(almacenes) + 1,
         almacenes' \in Seq(Deposito), Len(almacenes) <= Len(almacenes'),
         \A k \in 1 .. Len(almacenes) :
           almacenes'[k] = almacenes[k] \/ (EnSubida(p) /\ k = AlmDe(p)),
         UNCHANGED <<sesiones, nivel, editores, versiones, avisos>>
  PROVE  IInv'
<1>1. /\ pet'[p] = r
      /\ \A q \in Peticiones \ {p} : pet'[q] = pet[q]
      /\ pet' \in [Peticiones -> Peticion]
  BY PasarUna DEF IInv, TypeOK
<1>2. TypeSesiones' /\ \A t \in Tokens : Misma(t)
  BY SesionesQuietas
<1>3. TypeOK'
  BY <1>1, <1>2 DEF IInv, TypeOK, avisos, Deposito
<1>4. Autorizado'
  BY <1>1, <1>2, AutorizadoMantiene DEF IInv, Autorizado, Editan
<1>5. /\ Len(almacenes) \in Nat /\ DOMAIN almacenes = 1 .. Len(almacenes)
      /\ Len(almacenes') \in Nat /\ DOMAIN almacenes' = 1 .. Len(almacenes')
      /\ 1 .. Len(almacenes) \subseteq 1 .. Len(almacenes')
  <2>1. almacenes \in Seq(Deposito)
    BY DEF IInv, TypeOK, Deposito
  <2>2. QED
    BY <2>1, LenProperties
<1>6. VersionConContenido'
  <2> SUFFICES ASSUME NEW i \in Items, NEW n \in DOMAIN versiones[i]
               PROVE  /\ versiones[i][n].alm \in DOMAIN almacenes'
                      /\ almacenes'[versiones[i][n].alm]
                           = [estado |-> "completo", contenido |-> versiones[i][n].contenido]
    BY DEF VersionConContenido
  <2>1. /\ versiones[i][n].alm \in DOMAIN almacenes
        /\ almacenes[versiones[i][n].alm]
             = [estado |-> "completo", contenido |-> versiones[i][n].contenido]
    BY DEF IInv, Guardados, VersionConContenido
  <2>2. EnSubida(p) => versiones[i][n].alm # AlmDe(p)
    BY DEF IInv, Guardados, AlmacenPropio
  <2>3. QED
    BY <1>5, <2>1, <2>2
<1>7. ASSUME NEW q \in Peticiones
      PROVE  EtapaDe(q)'
  <2>1. CASE q = p
    BY <2>1
  <2>2. CASE q # p
    <3>1. /\ \A f : En(q, f)' <=> En(q, f)
          /\ AlmDe(q)' = AlmDe(q) /\ pet'[q].guardado = pet[q].guardado
      BY <1>1, <2>2 DEF En, AlmDe
    <3>2. EtapaDe(q) /\ (EnSubida(p) /\ EnSubida(q) => AlmDe(q) # AlmDe(p))
      BY <2>2 DEF IInv, Guardados, AlmacenPropio
    <3>3. EnSubida(q) => AlmDe(q) \in 1 .. Len(almacenes) /\ almacenes'[AlmDe(q)] = almacenes[AlmDe(q)]
      BY <3>2 DEF EtapaDe
    <3>4. \A g : EnAcc(g)' <=> EnAcc(g)
      BY DEF EnAcc
    <3>5. QED
      BY <1>5, <3>1, <3>2, <3>3, <3>4 DEF EtapaDe, EnSubida, Contiene
  <2>3. QED
    BY <2>1, <2>2
<1>8. ASSUME NEW q \in Peticiones
      PROVE  AlmacenPropio(q)'
  <2>1. ASSUME NEW s \in Peticiones
        PROVE  EnSubida(s) => AlmDe(s) \in 1 .. Len(almacenes)
    BY DEF IInv, Guardados, EtapaDe
  <2>2. ASSUME NEW i \in Items, NEW n \in DOMAIN versiones[i]
        PROVE  versiones[i][n].alm \in 1 .. Len(almacenes)
    BY <1>5 DEF IInv, Guardados, VersionConContenido
  <2>3. ASSUME NEW s \in Peticiones \ {p}
        PROVE  (EnSubida(s)' <=> EnSubida(s)) /\ AlmDe(s)' = AlmDe(s)
    BY <1>1, <2>3 DEF EnSubida, En, AlmDe
  <2>4. Len(almacenes) + 1 \notin 1 .. Len(almacenes)
    BY <1>5
  <2>5. AlmacenPropio(p) /\ AlmacenPropio(q)
    BY DEF IInv, Guardados
  <2>6. CASE q = p
    BY <2>1, <2>2, <2>3, <2>4, <2>5, <2>6 DEF AlmacenPropio
  <2>7. CASE q # p
    <3>1. EnSubida(q)' => EnSubida(q) /\ AlmDe(q)' = AlmDe(q)
      BY <2>3, <2>7
    <3>2. ASSUME EnSubida(q)', NEW s \in Peticiones \ {q}, EnSubida(s)'
          PROVE  AlmDe(s)' # AlmDe(q)'
      <4>1. CASE s = p
        BY <2>1, <2>4, <2>5, <2>7, <3>1, <3>2, <4>1 DEF AlmacenPropio
      <4>2. CASE s # p
        BY <2>3, <2>5, <3>1, <3>2, <4>2 DEF AlmacenPropio
      <4>3. QED
        BY <4>1, <4>2
    <3>3. EnSubida(q)' => \A i \in Items : \A n \in DOMAIN versiones[i] : versiones[i][n].alm # AlmDe(q)'
      BY <2>5, <3>1 DEF AlmacenPropio
    <3>4. QED
      BY <3>2, <3>3 DEF AlmacenPropio
  <2>8. QED
    BY <2>6, <2>7
<1>9. AlmacenDeUnaVersion' /\ \A g \in auditoria' : EnAcc(g)'
  BY DEF IInv, Guardados, AlmacenDeUnaVersion, EnAcc, avisos
<1>10. QED
  BY <1>3, <1>4, <1>6, <1>7, <1>8, <1>9 DEF IInv, Guardados

(* Every error of Autodesk is an answer.                                   *)
LEMMA FallaEsRespuesta ==
  ASSUME NEW p \in Peticiones, FallaAutodesk(p), pet \in [Peticiones -> Peticion]
  PROVE  \E r \in Peticion : /\ Pasar(p, r)
                             /\ PeticionAutorizada(p)' /\ ~EnSubida(p)' /\ EtapaDe(p)'
<1>1. PICK c \in {"401", "403", "error"} : Contestar(p, c)
  BY DEF FallaAutodesk
<1>2. [fase |-> "fin", res |-> c] \in Peticion
  BY ARespuesta DEF Respuestas
<1>3. Pasar(p, [fase |-> "fin", res |-> c]) /\ pet'[p] = [fase |-> "fin", res |-> c]
  BY <1>1, PasarUna DEF Contestar
<1>4. QED
  BY <1>2, <1>3, SinGuardado

(* What a save under way holds, and that its next stage may hold it.       *)
LEMMA EnEtapa ==
  ASSUME IInv, NEW p \in Peticiones, NEW f \in {"almacen", "subir", "completar", "version"}, En(p, f)
  PROVE  /\ pet[p].guardado \in Guardado
         /\ <<pet[p].guardado.userId, pet[p].guardado.item>> \in editores
         /\ pet \in [Peticiones -> Peticion]
<1>1. f \in ConGuardado /\ pet[p] \in Peticion
  BY DEF ConGuardado, IInv, TypeOK
<1>2. QED
  BY <1>1, DeGuardado DEF IInv, TypeOK, Autorizado, PeticionAutorizada

LEMMA SigueAutorizada ==
  ASSUME NEW p \in Peticiones, NEW g, NEW f \in {"subir", "completar", "version", "auditar"},
         pet'[p] = [fase |-> f, guardado |-> g], <<g.userId, g.item>> \in editores, editores' = editores
  PROVE  PeticionAutorizada(p)'
BY DEF PeticionAutorizada, En

LEMMA NuevaEtapa ==
  ASSUME NEW p \in Peticiones, NEW g, NEW f \in {"subir", "completar", "version", "auditar"},
         pet'[p] = [fase |-> f, guardado |-> g],
         f # "auditar" => g.alm \in 1 .. Len(almacenes'),
         f = "completar" => almacenes'[g.alm] = [estado |-> "subido", contenido |-> g.contenido],
         f = "version" => almacenes'[g.alm] = [estado |-> "completo", contenido |-> g.contenido],
         f = "auditar" => \E n \in DOMAIN versiones'[g.item] : versiones'[g.item][n] = g
  PROVE  EtapaDe(p)' /\ AlmDe(p)' = g.alm
<1>1. /\ pet'[p].fase = f /\ pet'[p].guardado = g
      /\ \A h : h \in {"subir", "completar", "version", "auditar", "guardado"} /\ En(p, h)' => h = f
  BY DEF En
<1>2. EtapaDe(p)' /\ AlmDe(p)' = g.alm
  BY <1>1 DEF EtapaDe, EnSubida, AlmDe, Contiene, EnAcc
<1>3. QED
  BY <1>2

LEMMA CrearAlmacenMantiene ==
  ASSUME IInv, NEW p \in Peticiones, CrearAlmacen(p)
  PROVE  IInv'
<1> DEFINE vacio == [estado |-> "creado", contenido |-> NoHay]
           nuevo == Append(almacenes, vacio)
           g == [pet[p].guardado EXCEPT !.alm = Len(nuevo)]
           r == [fase |-> "subir", guardado |-> g]
<1>1. /\ pet[p].guardado \in Guardado
      /\ <<pet[p].guardado.userId, pet[p].guardado.item>> \in editores
      /\ pet \in [Peticiones -> Peticion]
  BY EnEtapa DEF CrearAlmacen
<1>2. /\ almacenes \in Seq(Deposito) /\ vacio \in Deposito
      /\ nuevo \in Seq(Deposito) /\ Len(nuevo) = Len(almacenes) + 1 /\ Len(almacenes) \in Nat
      /\ \A k \in 1 .. Len(almacenes) : nuevo[k] = almacenes[k]
  <2>1. almacenes \in Seq(Deposito) /\ vacio \in Deposito
    BY DEF IInv, TypeOK, Deposito
  <2>2. QED
    BY <2>1, AppendProperties, LenProperties
<1>3. UNCHANGED <<sesiones, nivel, editores, versiones, avisos>> /\ editores' = editores
  BY DEF CrearAlmacen
<1>4. CASE almacenes' = nuevo /\ Pasar(p, r)
  <2>1. g \in Guardado /\ <<g.userId, g.item>> \in editores /\ g.alm = Len(almacenes) + 1
    <3>1. Len(almacenes) + 1 \in 0 .. MaxAlmacenes
      BY <1>2, ConstantesEdicion DEF CrearAlmacen
    <3>2. QED
      BY <1>1, <1>2, <3>1 DEF Guardado
  <2>2. r \in Peticion
    BY <2>1, AGuardado
  <2>3. pet'[p] = r
    BY <1>1, <1>4, PasarUna
  <2>4. PeticionAutorizada(p)'
    BY <1>3, <2>1, <2>3, SigueAutorizada
  <2>5. EtapaDe(p)' /\ AlmDe(p)' = Len(almacenes) + 1
    <3>1. g.alm \in 1 .. Len(almacenes')
      BY <1>2, <1>4, <2>1
    <3>2. QED
      BY <2>1, <2>3, <3>1, NuevaEtapa
  <2>6. QED
    BY <1>2, <1>3, <1>4, <2>2, <2>4, <2>5, AlmacenesMantiene
<1>5. CASE almacenes' \in {almacenes, nuevo} /\ FallaAutodesk(p)
  <2>1. /\ almacenes' \in Seq(Deposito) /\ Len(almacenes) <= Len(almacenes')
        /\ \A k \in 1 .. Len(almacenes) : almacenes'[k] = almacenes[k]
    BY <1>2, <1>5
  <2>2. QED
    BY <1>1, <1>3, <1>5, <2>1, FallaEsRespuesta, AlmacenesMantiene
<1>6. QED
  BY <1>4, <1>5 DEF CrearAlmacen

(* Filling the storage of a save under way.                                *)
LEMMA LlenarMantiene ==
  ASSUME IInv, NEW p \in Peticiones, EnSubida(p), NEW v \in Deposito,
         NEW f \in {"completar", "version"},
         f = "completar" => v = [estado |-> "subido", contenido |-> pet[p].guardado.contenido],
         f = "version" => v = [estado |-> "completo", contenido |-> pet[p].guardado.contenido],
         UNCHANGED <<sesiones, nivel, editores, versiones, avisos>>,
         \/ /\ almacenes' = [almacenes EXCEPT ![AlmDe(p)] = v]
            /\ Pasar(p, [fase |-> f, guardado |-> pet[p].guardado])
         \/ /\ almacenes' \in {almacenes, [almacenes EXCEPT ![AlmDe(p)] = v]}
            /\ FallaAutodesk(p)
  PROVE  IInv'
<1> DEFINE g == pet[p].guardado
           lleno == [almacenes EXCEPT ![AlmDe(p)] = v]
           r == [fase |-> f, guardado |-> g]
<1>1. g \in Guardado /\ <<g.userId, g.item>> \in editores /\ pet \in [Peticiones -> Peticion]
  BY EnEtapa DEF EnSubida
<1>2. almacenes \in Seq(Deposito) /\ AlmDe(p) \in 1 .. Len(almacenes)
  BY DEF IInv, TypeOK, Deposito, Guardados, EtapaDe
<1>3. /\ lleno \in Seq(Deposito) /\ Len(lleno) = Len(almacenes) /\ Len(almacenes) \in Nat
      /\ lleno[AlmDe(p)] = v
      /\ \A k \in 1 .. Len(almacenes) : lleno[k] = almacenes[k] \/ k = AlmDe(p)
  BY <1>2, ExceptSeq, LenProperties
<1>4. CASE almacenes' = lleno /\ Pasar(p, r)
  <2>1. r \in Peticion
    BY <1>1, AGuardado
  <2>2. pet'[p] = r
    BY <1>1, <1>4, PasarUna
  <2>3. PeticionAutorizada(p)'
    BY <1>1, <2>2, SigueAutorizada
  <2>4. g.alm \in 1 .. Len(almacenes') /\ almacenes'[g.alm] = v /\ AlmDe(p) = g.alm
    BY <1>2, <1>3, <1>4 DEF AlmDe
  <2>5. EtapaDe(p)' /\ AlmDe(p)' = AlmDe(p)
    <3>1. /\ f = "completar" => almacenes'[g.alm] = [estado |-> "subido", contenido |-> g.contenido]
          /\ f = "version" => almacenes'[g.alm] = [estado |-> "completo", contenido |-> g.contenido]
      BY <2>4
    <3>2. EtapaDe(p)' /\ AlmDe(p)' = g.alm
      <4> HIDE DEF g, lleno
      <4>1. CASE f = "completar"
        BY <2>2, <2>4, <3>1, <4>1, NuevaEtapa
      <4>2. CASE f = "version"
        BY <2>2, <2>4, <3>1, <4>2, NuevaEtapa
      <4>3. QED
        BY <4>1, <4>2
    <3>3. QED
      BY <2>4, <3>2
  <2>6. almacenes' \in Seq(Deposito) /\ Len(almacenes) <= Len(almacenes')
    BY <1>3, <1>4
  <2>7. QED
    BY <1>3, <1>4, <2>1, <2>3, <2>5, <2>6, AlmacenesMantiene
<1>5. CASE almacenes' \in {almacenes, lleno} /\ FallaAutodesk(p)
  <2>1. /\ almacenes' \in Seq(Deposito) /\ Len(almacenes) <= Len(almacenes')
        /\ \A k \in 1 .. Len(almacenes) : almacenes'[k] = almacenes[k] \/ k = AlmDe(p)
    BY <1>2, <1>3, <1>5
  <2>2. QED
    BY <1>1, <1>5, <2>1, FallaEsRespuesta, AlmacenesMantiene
<1>6. QED
  BY <1>4, <1>5

LEMMA SubirMantiene ==
  ASSUME IInv, NEW p \in Peticiones, SubirContenido(p)
  PROVE  IInv'
<1> DEFINE v == [estado |-> "subido", contenido |-> pet[p].guardado.contenido]
<1>1. EnSubida(p) /\ pet[p].guardado \in Guardado
  BY EnEtapa DEF SubirContenido, EnSubida
<1>2. v \in Deposito
  BY <1>1 DEF Deposito, Guardado
<1>3. QED
  BY <1>1, <1>2, LlenarMantiene DEF SubirContenido, AlmDe

LEMMA CompletarMantiene ==
  ASSUME IInv, NEW p \in Peticiones, CompletarSubida(p)
  PROVE  IInv'
<1> DEFINE v == [estado |-> "completo", contenido |-> pet[p].guardado.contenido]
<1>1. EnSubida(p) /\ pet[p].guardado \in Guardado
  BY EnEtapa DEF CompletarSubida, EnSubida
<1>2. v \in Deposito
  BY <1>1 DEF Deposito, Guardado
<1>3. almacenes[AlmDe(p)] = [estado |-> "subido", contenido |-> pet[p].guardado.contenido]
  BY DEF CompletarSubida, IInv, Guardados, EtapaDe, Contiene
<1>4. [almacenes EXCEPT ![AlmDe(p)].estado = "completo"] = [almacenes EXCEPT ![AlmDe(p)] = v]
  <2>1. [almacenes[AlmDe(p)] EXCEPT !.estado = "completo"] = v
    BY <1>3
  <2>2. [almacenes EXCEPT ![AlmDe(p)].estado = "completo"]
          = [almacenes EXCEPT ![AlmDe(p)] = [almacenes[AlmDe(p)] EXCEPT !.estado = "completo"]]
    <3>1. almacenes \in Seq(Deposito) /\ AlmDe(p) \in 1 .. Len(almacenes)
      BY <1>1 DEF IInv, TypeOK, Deposito, Guardados, EtapaDe
    <3>2. DOMAIN almacenes = 1 .. Len(almacenes)
      BY <3>1, LenProperties
    <3>3. QED
      BY <3>1, <3>2
  <2>3. QED
    BY <2>1, <2>2
<1>5. QED
  BY <1>1, <1>2, <1>4, LlenarMantiene DEF CompletarSubida, AlmDe
-----------------------------------------------------------------------------
(***************************************************************************)
(* The version: it is the only one of its storage because the storage was  *)
(* of a save still under way, which ends here whatever Autodesk answers.   *)
(***************************************************************************)
Creada(g) == versiones' = [versiones EXCEPT ![g.item] = Append(@, g)]

LEMMA UnaMas ==
  ASSUME versiones \in [Items -> Seq(Guardado)], NEW g \in Guardado,
         Creada(g) \/ versiones' = versiones
  PROVE  /\ versiones' \in [Items -> Seq(Guardado)]
         /\ \A i \in Items : \A n \in DOMAIN versiones[i] :
              n \in DOMAIN versiones'[i] /\ versiones'[i][n] = versiones[i][n]
         /\ \A i \in Items : \A n \in DOMAIN versiones'[i] :
              \/ n \in DOMAIN versiones[i] /\ versiones'[i][n] = versiones[i][n]
              \/ Creada(g) /\ i = g.item /\ n = Len(versiones[i]) + 1 /\ versiones'[i][n] = g
         /\ Creada(g) => \E n \in DOMAIN versiones'[g.item] : versiones'[g.item][n] = g
         /\ \A h \in Guardado : EnAcc(h) => EnAcc(h)'
<1>1. CASE versiones' = versiones /\ ~Creada(g)
  BY <1>1 DEF EnAcc
<1>2. CASE Creada(g)
  <2>1. g.item \in Items
    BY DEF Guardado
  <2>2. /\ versiones'[g.item] = Append(versiones[g.item], g)
        /\ \A i \in Items \ {g.item} : versiones'[i] = versiones[i]
    BY <1>2, <2>1 DEF Creada
  <2>3. ASSUME NEW i \in Items
        PROVE  /\ versiones[i] \in Seq(Guardado) /\ Len(versiones[i]) \in Nat
               /\ DOMAIN versiones[i] = 1 .. Len(versiones[i])
    BY LenProperties
  <2>4. /\ versiones'[g.item] \in Seq(Guardado)
        /\ DOMAIN versiones'[g.item] = 1 .. (Len(versiones[g.item]) + 1)
        /\ versiones'[g.item][Len(versiones[g.item]) + 1] = g
        /\ \A n \in 1 .. Len(versiones[g.item]) : versiones'[g.item][n] = versiones[g.item][n]
    BY <2>1, <2>2, <2>3, AppendProperties, LenProperties
  <2>5. versiones' \in [Items -> Seq(Guardado)]
    BY <1>2, <2>2, <2>4 DEF Creada
  <2>6. ASSUME NEW i \in Items, NEW n \in DOMAIN versiones[i]
        PROVE  n \in DOMAIN versiones'[i] /\ versiones'[i][n] = versiones[i][n]
    <3>1. CASE i # g.item
      BY <2>2, <3>1
    <3>2. CASE i = g.item
      <4>1. Len(versiones[i]) \in Nat /\ n \in 1 .. Len(versiones[i])
        BY <2>3
      <4>2. n \in 1 .. (Len(versiones[i]) + 1)
        BY <4>1
      <4>3. QED
        BY <2>4, <3>2, <4>1, <4>2
    <3>3. QED
      BY <3>1, <3>2
  <2>7. ASSUME NEW i \in Items, NEW n \in DOMAIN versiones'[i]
        PROVE  \/ n \in DOMAIN versiones[i] /\ versiones'[i][n] = versiones[i][n]
               \/ i = g.item /\ n = Len(versiones[i]) + 1 /\ versiones'[i][n] = g
    <3>1. CASE i # g.item
      BY <2>2, <3>1
    <3>2. CASE i = g.item
      BY <2>3, <2>4, <3>2
    <3>3. QED
      BY <3>1, <3>2
  <2>8. \E n \in DOMAIN versiones'[g.item] : versiones'[g.item][n] = g
    <3>1. Len(versiones[g.item]) + 1 \in DOMAIN versiones'[g.item]
      BY <2>1, <2>3, <2>4
    <3>2. QED
      BY <2>4, <3>1
  <2>9. \A h \in Guardado : EnAcc(h) => EnAcc(h)'
    BY <2>6 DEF EnAcc, Guardado
  <2>10. QED
    BY <1>2, <2>5, <2>6, <2>7, <2>8, <2>9
<1>3. QED
  BY <1>1, <1>2

LEMMA CrearVersionMantiene ==
  ASSUME IInv, NEW p \in Peticiones, CrearVersion(p)
  PROVE  IInv'
<1> DEFINE g == pet[p].guardado
<1>1. g \in Guardado /\ <<g.userId, g.item>> \in editores /\ pet \in [Peticiones -> Peticion]
  BY EnEtapa DEF CrearVersion
<1>2. UNCHANGED <<sesiones, nivel, editores, almacenes, auditoria, guardando>>
  BY DEF CrearVersion, avisos
<1>3. /\ EnSubida(p) /\ AlmDe(p) = g.alm /\ g.alm \in DOMAIN almacenes
      /\ almacenes[g.alm] = [estado |-> "completo", contenido |-> g.contenido]
  <2>1. EnSubida(p) /\ En(p, "version")
    BY DEF CrearVersion, EnSubida
  <2>2. g.alm \in 1 .. Len(almacenes) /\ almacenes[g.alm] = [estado |-> "completo", contenido |-> g.contenido]
    BY <2>1 DEF IInv, Guardados, EtapaDe, AlmDe, Contiene
  <2>3. DOMAIN almacenes = 1 .. Len(almacenes)
    BY LenProperties DEF IInv, TypeOK
  <2>4. QED
    BY <2>1, <2>2, <2>3 DEF AlmDe
<1>4. versiones \in [Items -> Seq(Guardado)] /\ (Creada(g) \/ versiones' = versiones)
  BY DEF IInv, TypeOK, CrearVersion, Creada
<1>5. \/ Creada(g) /\ Pasar(p, [fase |-> "auditar", guardado |-> g])
      \/ FallaAutodesk(p)
  BY DEF CrearVersion, Creada
<1> HIDE DEF g
<1>6. /\ versiones' \in [Items -> Seq(Guardado)]
      /\ \A i \in Items : \A n \in DOMAIN versiones[i] :
           n \in DOMAIN versiones'[i] /\ versiones'[i][n] = versiones[i][n]
      /\ \A i \in Items : \A n \in DOMAIN versiones'[i] :
           \/ n \in DOMAIN versiones[i] /\ versiones'[i][n] = versiones[i][n]
           \/ i = g.item /\ n = Len(versiones[i]) + 1 /\ versiones'[i][n] = g
      /\ Creada(g) => \E n \in DOMAIN versiones'[g.item] : versiones'[g.item][n] = g
      /\ \A h \in Guardado : EnAcc(h) => EnAcc(h)'
  BY <1>1, <1>4, UnaMas
<1>7. \E r \in Peticion : Pasar(p, r) /\ PeticionAutorizada(p)' /\ ~EnSubida(p)' /\ EtapaDe(p)'
  <2>1. CASE FallaAutodesk(p)
    BY <1>1, <2>1, FallaEsRespuesta
  <2>2. CASE Creada(g) /\ Pasar(p, [fase |-> "auditar", guardado |-> g])
    <3>1. [fase |-> "auditar", guardado |-> g] \in Peticion
      BY <1>1, AGuardado
    <3>2. pet'[p] = [fase |-> "auditar", guardado |-> g]
      BY <1>1, <2>2, PasarUna
    <3>3. PeticionAutorizada(p)'
      BY <1>1, <1>2, <3>2, SigueAutorizada
    <3>4. EtapaDe(p)'
      BY <1>6, <2>2, <3>2, NuevaEtapa
    <3>5. ~EnSubida(p)'
      BY <3>2 DEF EnSubida, En
    <3>6. QED
      BY <2>2, <3>1, <3>3, <3>4, <3>5
  <2>3. QED
    BY <1>5, <2>1, <2>2
<1>8. /\ pet' \in [Peticiones -> Peticion]
      /\ \A q \in Peticiones \ {p} : pet'[q] = pet[q]
  BY <1>1, <1>7, PasarUna
<1>9. TypeSesiones' /\ \A t \in Tokens : Misma(t)
  BY <1>2, SesionesQuietas
<1>10. TypeOK'
  BY <1>2, <1>6, <1>8, <1>9 DEF IInv, TypeOK
<1>11. Autorizado'
  <2>1. \A t \in Tokens : SesionAutorizada(t)'
    BY <1>2, <1>9 DEF IInv, Autorizado, SesionAutorizada, Misma
  <2>2. \A q \in Peticiones : PeticionAutorizada(q)'
    BY <1>2, <1>7, <1>8 DEF IInv, Autorizado, PeticionAutorizada, En
  <2>3. EscrituraAutorizada'
    BY <1>1, <1>2, <1>6 DEF IInv, Autorizado, EscrituraAutorizada
  <2>4. QED
    BY <1>2, <2>1, <2>2, <2>3 DEF IInv, Autorizado, Editan
<1>12. VersionConContenido'
  <2> SUFFICES ASSUME NEW i \in Items, NEW n \in DOMAIN versiones'[i]
               PROVE  /\ versiones'[i][n].alm \in DOMAIN almacenes
                      /\ almacenes[versiones'[i][n].alm]
                           = [estado |-> "completo", contenido |-> versiones'[i][n].contenido]
    BY <1>2 DEF VersionConContenido
  <2>1. CASE n \in DOMAIN versiones[i] /\ versiones'[i][n] = versiones[i][n]
    BY <2>1 DEF IInv, Guardados, VersionConContenido
  <2>2. CASE versiones'[i][n] = g
    BY <1>3, <2>2
  <2>3. QED
    BY <1>6, <2>1, <2>2
<1>13. ASSUME NEW i \in Items, NEW n \in DOMAIN versiones[i]
       PROVE  versiones[i][n].alm # g.alm
  BY <1>3 DEF IInv, Guardados, AlmacenPropio
<1>14. AlmacenDeUnaVersion'
  <2> SUFFICES ASSUME NEW i \in Items, NEW j \in Items,
                      NEW n \in DOMAIN versiones'[i], NEW m \in DOMAIN versiones'[j],
                      versiones'[i][n].alm = versiones'[j][m].alm
               PROVE  i = j /\ n = m
    BY DEF AlmacenDeUnaVersion
  <2>1. CASE n \in DOMAIN versiones[i] /\ m \in DOMAIN versiones[j]
    BY <1>6, <2>1 DEF IInv, Guardados, AlmacenDeUnaVersion
  <2>2. CASE n \notin DOMAIN versiones[i]
    BY <1>6, <1>13, <2>2
  <2>3. CASE m \notin DOMAIN versiones[j]
    BY <1>6, <1>13, <2>3
  <2>4. QED
    BY <2>1, <2>2, <2>3
<1>15. ASSUME NEW q \in Peticiones
       PROVE  EtapaDe(q)' /\ AlmacenPropio(q)'
  <2>1. CASE q = p
    BY <1>7, <2>1 DEF AlmacenPropio
  <2>2. CASE q # p
    <3>1. /\ \A f : En(q, f)' <=> En(q, f)
          /\ AlmDe(q)' = AlmDe(q) /\ pet'[q].guardado = pet[q].guardado
      BY <1>8, <2>2 DEF En, AlmDe
    <3>2. EtapaDe(q) /\ AlmacenPropio(q) /\ AlmacenPropio(p)
      BY DEF IInv, Guardados
    <3>3. En(q, "auditar") \/ En(q, "guardado") => EnAcc(pet[q].guardado)'
      <4>1. ASSUME En(q, "auditar") \/ En(q, "guardado")
            PROVE  pet[q].guardado \in Guardado
        BY <4>1, DeGuardado DEF ConGuardado, IInv, TypeOK
      <4>2. ASSUME En(q, "auditar") \/ En(q, "guardado")
            PROVE  \E n \in DOMAIN versiones'[pet[q].guardado.item] :
                     versiones'[pet[q].guardado.item][n] = pet[q].guardado
        BY <1>6, <3>2, <4>1, <4>2 DEF EtapaDe, EnAcc
      <4>3. QED
        BY <3>1, <4>2 DEF EnAcc
    <3>4. EtapaDe(q)'
      BY <1>2, <3>1, <3>2, <3>3 DEF EtapaDe, EnSubida, Contiene, EnAcc
    <3>5. \A s \in Peticiones : EnSubida(s)' => EnSubida(s) /\ AlmDe(s)' = AlmDe(s)
      BY <1>7, <1>8 DEF EnSubida, En, AlmDe
    <3>6. AlmacenPropio(q)'
      <4> SUFFICES ASSUME EnSubida(q)'
                   PROVE  /\ \A s \in Peticiones \ {q} : EnSubida(s)' => AlmDe(s)' # AlmDe(q)'
                          /\ \A i \in Items : \A n \in DOMAIN versiones'[i] :
                               versiones'[i][n].alm # AlmDe(q)'
        BY DEF AlmacenPropio
      <4>1. EnSubida(q) /\ AlmDe(q)' = AlmDe(q) /\ AlmDe(q) # g.alm
        BY <1>3, <2>2, <3>2, <3>5 DEF AlmacenPropio
      <4>2. \A s \in Peticiones \ {q} : EnSubida(s)' => AlmDe(s)' # AlmDe(q)'
        BY <3>2, <3>5, <4>1 DEF AlmacenPropio
      <4>3. \A i \in Items : \A n \in DOMAIN versiones'[i] : versiones'[i][n].alm # AlmDe(q)'
        BY <1>6, <3>2, <4>1 DEF AlmacenPropio
      <4>4. QED
        BY <4>2, <4>3
    <3>7. QED
      BY <3>4, <3>6
  <2>3. QED
    BY <2>1, <2>2
<1>16. \A h \in auditoria' : EnAcc(h)'
  <2>1. auditoria \in SUBSET Guardado /\ \A h \in auditoria : EnAcc(h)
    BY DEF IInv, TypeOK, Guardados
  <2>2. \A h \in auditoria : EnAcc(h)'
    BY <1>6, <2>1
  <2>3. QED
    BY <1>2, <2>2 DEF EnAcc
<1>17. QED
  BY <1>10, <1>11, <1>12, <1>14, <1>15, <1>16 DEF IInv, Guardados
-----------------------------------------------------------------------------
LEMMA Paso == IInv /\ [Next]_vars => IInv'
<1> SUFFICES ASSUME IInv, [Next]_vars PROVE IInv'
  OBVIOUS
<1>1. ASSUME NEW p \in Peticiones, Llegada(p)
      PROVE  IInv'
  BY <1>1, PedirConfigMantiene, KeepaliveMantiene, LeerMantiene, PutFileMantiene DEF Llegada
<1>2. ASSUME NEW p \in Peticiones, Avanza(p)
      PROVE  IInv'
  BY <1>2, AbrirSesionMantiene, RenovarMantiene, LeidoMantiene, ResolverMantiene,
     CrearAlmacenMantiene, SubirMantiene, CompletarMantiene, CrearVersionMantiene,
     AuditarMantiene, OlvidarMantiene DEF Avanza
<1>3. CASE Entorno
  BY <1>3, EntornoMantiene
<1>4. CASE UNCHANGED vars
  <2>1. /\ UNCHANGED <<sesiones, nivel, editores, pet, almacenes, versiones, auditoria, guardando>>
        /\ UNCHANGED acc
    BY <1>4 DEF vars, acc, avisos
  <2>2. TypeSesiones' /\ \A t \in Tokens : Misma(t)
    BY <2>1, SesionesQuietas
  <2>3. TypeOK'
    BY <2>1, <2>2 DEF IInv, TypeOK
  <2>4. Autorizado'
    BY <2>1, <2>2, AutorizadoMantiene DEF IInv, Autorizado, Editan
  <2>5. Guardados'
    BY <2>1, GuardadosMantiene DEF IInv
  <2>6. QED
    BY <2>3, <2>4, <2>5 DEF IInv
<1>5. QED
  BY <1>1, <1>2, <1>3, <1>4 DEF Next

LEMMA SiempreIInv == Spec => []IInv
BY Inicio, Paso, PTL DEF Spec

(* Every variable keeps its shape, whatever requests, failures of Autodesk *)
(* and restarts are interleaved.                                           *)
THEOREM EdicionTypeOK == Spec => []TypeOK
<1>1. IInv => TypeOK
  BY DEF IInv
<1>2. QED
  BY <1>1, SiempreIInv, PTL

(* PutFile, which looks at the session alone, writes versions only of      *)
(* items its user has had the level to edit.                               *)
THEOREM EscribenLosEditores == Spec => []EscrituraAutorizada
<1>1. IInv => EscrituraAutorizada
  BY DEF IInv, Autorizado
<1>2. QED
  BY <1>1, SiempreIInv, PTL

(* Every version opens: its storage is complete and holds its own bytes.   *)
THEOREM VersionesCompletas == Spec => []VersionConContenido
<1>1. IInv => VersionConContenido
  BY DEF IInv, Guardados
<1>2. QED
  BY <1>1, SiempreIInv, PTL

(* No storage becomes two versions, whatever saves fail half way.          *)
THEOREM UnaVersionPorAlmacen == Spec => []AlmacenDeUnaVersion
<1>1. IInv => AlmacenDeUnaVersion
  BY DEF IInv, Guardados
<1>2. QED
  BY <1>1, SiempreIInv, PTL

(* Nothing is announced or logged as saved that is not in ACC.             *)
THEOREM NadaFalsamenteGuardado == Spec => SinFalsoGuardado
<1> DEFINE Bien == /\ \A p \in Peticiones : En(p, "guardado")' => EnAcc(pet[p].guardado)'
                   /\ \A g \in auditoria' : EnAcc(g)'
                   /\ \A ui \in guardando \ guardando' :
                        Avisada(ui) \/ \A p \in Peticiones : pet'[p] = Libre
<1>1. IInv /\ IInv' /\ [Next]_vars => [Bien]_vars
  <2> SUFFICES ASSUME IInv, IInv', Next PROVE Bien
    OBVIOUS
  <2>1. /\ \A p \in Peticiones : En(p, "guardado")' => EnAcc(pet[p].guardado)'
        /\ \A g \in auditoria' : EnAcc(g)'
    BY DEF IInv, Guardados, EtapaDe
  <2>2. ASSUME NEW ui \in guardando, ui \notin guardando'
        PROVE  Avisada(ui) \/ \A p \in Peticiones : pet'[p] = Libre
    <3>1. ASSUME NEW p \in Peticiones, Llegada(p)
          PROVE  FALSE
      BY <2>2, <3>1 DEF Llegada, PedirConfig, Keepalive, LeerDocumento, PutFile, avisos
    <3>2. ASSUME NEW p \in Peticiones, Avanza(p), ~AuditarYAvisar(p)
          PROVE  FALSE
      BY <2>2, <3>2 DEF Avanza, AbrirSesion, Renovar, Leido, ResolverToken, CrearAlmacen,
           SubirContenido, CompletarSubida, CrearVersion, Olvidar, avisos
    <3>3. ASSUME NEW p \in Peticiones, AuditarYAvisar(p)
          PROVE  Avisada(ui)
      <4>1. En(p, "auditar") /\ <<pet[p].guardado.userId, pet[p].guardado.item>> = ui
        BY <2>2, <3>3 DEF AuditarYAvisar
      <4>2. EnAcc(pet[p].guardado)
        BY <4>1 DEF IInv, Guardados, EtapaDe
      <4>3. QED
        BY <4>1, <4>2 DEF Avisada
    <3>4. CASE Entorno
      BY <2>2, <3>4 DEF Entorno, CambiarNivel, Almacen, Reiniciar, avisos
    <3>5. QED
      BY <3>1, <3>2, <3>3, <3>4 DEF Next
  <2>3. QED
    BY <2>1, <2>2
<1>2. Spec => [][Bien]_vars
  BY <1>1, Inicio, Paso, PTL DEF Spec
<1>3. QED
  BY <1>2 DEF SinFalsoGuardado
-----------------------------------------------------------------------------
(***************************************************************************)
(* The editing of documents implements the store of sessions: it uses a    *)
(* token only while SesionesWopi says that it may be used.                 *)
(***************************************************************************)
RenovarEnUso == \A p \in Peticiones : En(p, "renovar") => pet[p].token \in enUso

\* The actions of a request that leave the sessions alone.
SinSesiones(p) ==
  \/ \E u \in Usuarios, d \in Documentos, soloLectura \in BOOLEAN : PedirConfig(p, u, d, soloLectura)
  \/ Leido(p) \/ ResolverToken(p) \/ CrearAlmacen(p) \/ SubirContenido(p) \/ CompletarSubida(p)
  \/ CrearVersion(p) \/ AuditarYAvisar(p) \/ Olvidar(p)

LEMMA PasoEnUso ==
  ASSUME IInv, RenovarEnUso, [Next]_vars
  PROVE  RenovarEnUso'
<1>0. pet \in [Peticiones -> Peticion] /\ enUso \subseteq Tokens
  BY DEF IInv, TypeOK, TypeSesiones
<1>1. ASSUME NEW p \in Peticiones, enUso \subseteq enUso',
             \A q \in Peticiones \ {p} : pet'[q] = pet[q],
             En(p, "renovar")' => pet'[p].token \in enUso'
      PROVE  RenovarEnUso'
  BY <1>1 DEF RenovarEnUso, En
<1>2. ASSUME NEW p \in Peticiones, SinSesiones(p)
      PROVE  RenovarEnUso'
  <2>1. enUso' = enUso
    BY <1>2 DEF SinSesiones, PedirConfig, Leido, ResolverToken, CrearAlmacen, SubirContenido,
       CompletarSubida, CrearVersion, AuditarYAvisar, Olvidar, sesiones
  <2>2. ASSUME NEW r, Pasar(p, r), r = Libre \/ r.fase # "renovar"
        PROVE  (\A q \in Peticiones \ {p} : pet'[q] = pet[q]) /\ ~En(p, "renovar")'
    BY <1>0, <2>2 DEF Pasar, En
  <2>3. \E r : Pasar(p, r) /\ (r = Libre \/ r.fase # "renovar")
    <3>1. ASSUME NEW codigo, Contestar(p, codigo)
          PROVE  \E r : Pasar(p, r) /\ (r = Libre \/ r.fase # "renovar")
      BY <3>1 DEF Contestar
    <3>2. CASE \E u \in Usuarios, d \in Documentos, soloLectura \in BOOLEAN : PedirConfig(p, u, d, soloLectura)
      BY <3>1, <3>2 DEF PedirConfig
    <3>3. CASE Leido(p)
      BY <3>1, <3>3 DEF Leido
    <3>4. CASE ResolverToken(p)
      BY <3>1, <3>4 DEF ResolverToken
    <3>5. CASE CrearAlmacen(p)
      BY <3>1, <3>5 DEF CrearAlmacen, FallaAutodesk
    <3>6. CASE SubirContenido(p)
      BY <3>1, <3>6 DEF SubirContenido, FallaAutodesk
    <3>7. CASE CompletarSubida(p)
      BY <3>1, <3>7 DEF CompletarSubida, FallaAutodesk
    <3>8. CASE CrearVersion(p)
      BY <3>1, <3>8 DEF CrearVersion, FallaAutodesk
    <3>9. CASE AuditarYAvisar(p) \/ Olvidar(p)
      BY <3>9 DEF AuditarYAvisar, Olvidar
    <3>10. QED
      BY <1>2, <3>2, <3>3, <3>4, <3>5, <3>6, <3>7, <3>8, <3>9 DEF SinSesiones
  <2>4. QED
    BY <1>1, <2>1, <2>2, <2>3
<1>3. ASSUME NEW p \in Peticiones, NEW t \in Tokens, NEW u \in Usuarios, Keepalive(p, t, u)
      PROVE  RenovarEnUso'
  <2>1. /\ t \in enUso /\ enUso' = enUso
        /\ \/ Pasar(p, [fase |-> "renovar", token |-> t])
           \/ Pasar(p, [fase |-> "fin", res |-> "403"])
    BY <1>3 DEF Keepalive, Contestar, ValidateUserSessionToken, Prorrogar
  <2>2. (\A q \in Peticiones \ {p} : pet'[q] = pet[q]) /\ (En(p, "renovar")' => pet'[p].token = t)
    BY <1>0, <2>1 DEF Pasar, En
  <2>3. QED
    BY <1>1, <2>1, <2>2
<1>4. ASSUME NEW p \in Peticiones, NEW t \in Tokens, NEW d \in Documentos,
             \/ LeerDocumento(p, t, d)
             \/ \E c \in Contenidos, autosave \in BOOLEAN : PutFile(p, t, d, c, autosave)
      PROVE  RenovarEnUso'
  <2>1. enUso' = enUso
    BY <1>4 DEF LeerDocumento, PutFile, ValidateUserSessionToken, Prorrogar
  <2>2. (\A q \in Peticiones \ {p} : pet'[q] = pet[q]) /\ ~En(p, "renovar")'
    BY <1>0, <1>4 DEF LeerDocumento, PutFile, Contestar, Pasar, En
  <2>3. QED
    BY <1>1, <2>1, <2>2
<1>5. ASSUME NEW p \in Peticiones, AbrirSesion(p) \/ Renovar(p)
      PROVE  RenovarEnUso'
  <2>1. enUso \subseteq enUso'
    BY <1>5 DEF AbrirSesion, Renovar, CreateUserSessionToken, Emitir, TouchUserSession, Prorrogar,
                sesiones
  <2>2. (\A q \in Peticiones \ {p} : pet'[q] = pet[q]) /\ ~En(p, "renovar")'
    BY <1>0, <1>5 DEF AbrirSesion, Renovar, Contestar, Pasar, En
  <2>3. QED
    BY <1>1, <2>1, <2>2
<1>6. CASE Almacen
  <2>1. CASE \E t \in Tokens : Terminar(t)
    <3>1. PICK t \in Tokens : Terminar(t)
      BY <2>1
    <3>2. pet' = pet /\ enUso' = enUso \ {t}
      BY <1>6, <3>1 DEF Almacen, Terminar, CerrarEditor
    <3>3. \A p \in Peticiones : En(p, "renovar") => pet[p].token # t
      BY <3>1 DEF Terminar
    <3>4. QED
      BY <3>2, <3>3 DEF RenovarEnUso, En
  <2>2. CASE Tic \/ CleanExpiredTokens
    BY <1>6, <2>2 DEF Almacen, Tic, CleanExpiredTokens, RenovarEnUso, En
  <2>3. QED
    BY <1>6, <2>1, <2>2 DEF Almacen
<1>7. CASE Reiniciar
  BY <1>7 DEF Reiniciar, RenovarEnUso, En
<1>8. ASSUME UNCHANGED <<sesiones, pet>>
      PROVE  RenovarEnUso'
  BY <1>8 DEF sesiones, RenovarEnUso, En
<1>9. QED
  BY <1>2, <1>3, <1>4, <1>5, <1>6, <1>7, <1>8
  DEF Next, Llegada, Avanza, Entorno, SinSesiones, CambiarNivel, vars

LEMMA PasoDeSesiones ==
  ASSUME IInv, RenovarEnUso, [Next]_vars
  PROVE  [NextSesiones]_sesiones
<1>1. ASSUME NEW t \in Tokens, t \in enUso, Prorrogar(t)
      PROVE  NextSesiones
  BY <1>1 DEF NextSesiones, Uso, ValidateUserSessionToken
<1>2. ASSUME NEW p \in Peticiones, SinSesiones(p)
      PROVE  UNCHANGED sesiones
  BY <1>2 DEF SinSesiones, PedirConfig, Leido, ResolverToken, CrearAlmacen, SubirContenido,
     CompletarSubida, CrearVersion, AuditarYAvisar, Olvidar
<1>3. ASSUME NEW p \in Peticiones, NEW t \in Tokens,
             \/ \E u \in Usuarios : Keepalive(p, t, u)
             \/ \E d \in Documentos : \/ LeerDocumento(p, t, d)
                                      \/ \E c \in Contenidos, autosave \in BOOLEAN :
                                           PutFile(p, t, d, c, autosave)
      PROVE  NextSesiones
  BY <1>1, <1>3 DEF Keepalive, LeerDocumento, PutFile, ValidateUserSessionToken
<1>4. ASSUME NEW p \in Peticiones, AbrirSesion(p)
      PROVE  [NextSesiones]_sesiones
  <2>1. pet[p].userId \in Usuarios /\ pet[p].docId \in Documentos /\ pet[p].permiso \in Permisos
    BY <1>4, DeAbrir DEF AbrirSesion, IInv, TypeOK
  <2>2. QED
    BY <1>4, <2>1 DEF AbrirSesion, NextSesiones
<1>5. ASSUME NEW p \in Peticiones, Renovar(p)
      PROVE  [NextSesiones]_sesiones
  <2>1. pet[p].token \in enUso /\ enUso \subseteq Tokens
    BY <1>5 DEF Renovar, RenovarEnUso, IInv, TypeOK, TypeSesiones
  <2>2. QED
    BY <1>1, <1>5, <2>1 DEF Renovar, TouchUserSession
<1>6. CASE Almacen \/ Reiniciar
  BY <1>6 DEF Almacen, Terminar, Reiniciar, NextSesiones
<1>7. QED
  BY <1>2, <1>3, <1>4, <1>5, <1>6
  DEF Next, Llegada, Avanza, Entorno, SinSesiones, CambiarNivel, vars

(* The handlers of Collabora implement the specification of the store of   *)
(* sessions: each of their steps is one of its operations, or none.        *)
THEOREM ImplementaSesiones == Spec => SpecSesiones
<1>1. Init => InitSesiones /\ IInv /\ RenovarEnUso
  BY Inicio DEF Init, RenovarEnUso, En
<1>2. IInv /\ RenovarEnUso /\ [Next]_vars => (IInv /\ RenovarEnUso)'
  BY Paso, PasoEnUso
<1>3. IInv /\ RenovarEnUso /\ [Next]_vars => [NextSesiones]_sesiones
  BY PasoDeSesiones
<1>4. QED
  BY <1>1, <1>2, <1>3, PTL DEF Spec, SpecSesiones

(* So neither the keepalive, which extends a session before it asks whose  *)
(* it is, nor a read nor a save brings an expired token back.              *)
THEOREM EdicionSinResurreccion == Spec => SinResurreccion
BY ImplementaSesiones, NingunaResurreccion, PTL
=============================================================================
