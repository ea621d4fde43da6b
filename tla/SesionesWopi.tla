----------------------------- MODULE SesionesWopi -----------------------------
(***************************************************************************)
(* DocumentTokenService: the two in-memory maps of tokens through which    *)
(* Collabora and Office Online reach a document without a JWT.             *)
(*                                                                         *)
(* Time is the time left: resta is what remains before expiresAt, and a    *)
(* token has expired when resta < 0, since the code asks now > expiresAt.  *)
(* The Autodesk token kept in an entry is left out: no caller reads it     *)
(* back from a session (updateSessionAccessToken only replaces it).        *)
(***************************************************************************)
EXTENDS Integers

CONSTANTS
  Tokens,      (* the values randomUUID will give (bounds the openings)      *)
  Usuarios,
  Documentos,  (* document ids: generateStableDocId(ForVersion)              *)
  NoHay,       (* no entry in a map                                          *)
  Apertura,    (* life of a new WOPI session (8 h)                           *)
  Prorroga,    (* life of a session after a use (2 h)                        *)
  Duracion     (* life of a download token (10 min)                          *)

Permisos == {"view", "edit"}
Resta(maximo) == -1 .. maximo
Sesion == [userId : Usuarios, docId : Documentos, wopiPermission : Permisos,
           resta : Resta(Apertura) \union Resta(Prorroga)]

ASSUME ConstantesWopi ==
  /\ Apertura \in Nat
  /\ Prorroga \in Nat
  /\ Duracion \in Nat
  /\ NoHay \notin Sesion \union Resta(Duracion)

VARIABLES
  userSessions,  (* WOPI sessions, by token                                  *)
  tokens,        (* download tokens: the time each has left                  *)
  emitidos,      (* history: the tokens given out                            *)
  enUso          (* tokens that an open editor, or a call of one that is     *)
                 (* under way, may still use                                 *)

sesiones == <<userSessions, tokens, emitidos, enUso>>

TypeSesiones ==
  /\ userSessions \in [Tokens -> Sesion \union {NoHay}]
  /\ tokens \in [Tokens -> Resta(Duracion) \union {NoHay}]
  /\ emitidos \in SUBSET Tokens
  /\ enUso \in SUBSET emitidos

InitSesiones ==
  /\ userSessions = [t \in Tokens |-> NoHay]
  /\ tokens = [t \in Tokens |-> NoHay]
  /\ emitidos = {}
  /\ enUso = {}

(* randomUUID never repeats a token.                                       *)
Emitir(t) ==
  /\ t \in Tokens \ emitidos
  /\ emitidos' = emitidos \union {t}
  /\ enUso' = enUso \union {t}

\* Mutant: the slide is added to the first expiry.
CrearSesionConProrroga(t, u, d, permiso) ==
  /\ Emitir(t)
  /\ userSessions' = [userSessions EXCEPT
       ![t] = [userId |-> u, docId |-> d, wopiPermission |-> permiso, resta |-> Apertura + Prorroga]]
  /\ UNCHANGED tokens

CreateUserSessionToken(t, u, d, permiso) ==
  /\ Emitir(t)
  /\ userSessions' = [userSessions EXCEPT
       ![t] = [userId |-> u, docId |-> d, wopiPermission |-> permiso, resta |-> Apertura]]
  /\ UNCHANGED tokens

SesionValida(t) ==
  /\ userSessions[t] # NoHay
  /\ userSessions[t].resta >= 0

\* Mutant: the expiry is not looked at, only the presence of the session.
ProrrogarSinComprobar(t) ==
  /\ userSessions' = IF userSessions[t] # NoHay
                     THEN [userSessions EXCEPT ![t].resta = Prorroga]
                     ELSE userSessions
  /\ UNCHANGED <<tokens, emitidos, enUso>>

(* validateUserSessionToken and touchUserSession: a valid session gets     *)
(* Prorroga from now on, an expired one is dropped.                        *)
Prorrogar(t) ==
  /\ userSessions' = IF SesionValida(t)
                     THEN [userSessions EXCEPT ![t].resta = Prorroga]
                     ELSE [userSessions EXCEPT ![t] = NoHay]
  /\ UNCHANGED <<tokens, emitidos, enUso>>

ValidateUserSessionToken(t) == Prorrogar(t)
TouchUserSession(t) == Prorrogar(t)

GenerateToken(t) ==
  /\ Emitir(t)
  /\ tokens' = [tokens EXCEPT ![t] = Duracion]
  /\ UNCHANGED userSessions

TokenValido(t) ==
  /\ tokens[t] # NoHay
  /\ tokens[t] >= 0

(* validateToken: a download token is not extended by its use.             *)
ValidateToken(t) ==
  /\ tokens' = IF TokenValido(t) THEN tokens ELSE [tokens EXCEPT ![t] = NoHay]
  /\ UNCHANGED <<userSessions, emitidos, enUso>>

InvalidateToken(t) ==
  /\ tokens' = [tokens EXCEPT ![t] = NoHay]
  /\ UNCHANGED <<userSessions, emitidos, enUso>>

\* Mutant: only the first of the two maps is cleaned.
CleanExpiredTokensParcial ==
  /\ tokens' = [t \in Tokens |-> IF TokenValido(t) THEN tokens[t] ELSE NoHay]
  /\ UNCHANGED <<userSessions, emitidos, enUso>>

(* The interval of five minutes drops every expired entry.                 *)
CleanExpiredTokens ==
  /\ tokens' = [t \in Tokens |-> IF TokenValido(t) THEN tokens[t] ELSE NoHay]
  /\ userSessions' = [t \in Tokens |-> IF SesionValida(t) THEN userSessions[t] ELSE NoHay]
  /\ UNCHANGED <<emitidos, enUso>>

(* The maps live in the memory of the process.                             *)
ReiniciarSesiones ==
  /\ userSessions' = [t \in Tokens |-> NoHay]
  /\ tokens' = [t \in Tokens |-> NoHay]
  /\ UNCHANGED <<emitidos, enUso>>

Envejecer(r) == IF r < 0 THEN r ELSE r - 1

(* A unit of time goes by.                                                 *)
Tic ==
  /\ userSessions' = [t \in Tokens |->
       IF userSessions[t] = NoHay THEN NoHay
       ELSE [userSessions[t] EXCEPT !.resta = Envejecer(@)]]
  /\ tokens' = [t \in Tokens |-> IF tokens[t] = NoHay THEN NoHay ELSE Envejecer(tokens[t])]
  /\ UNCHANGED <<emitidos, enUso>>

(* The user closes the editor: its token is not presented again.           *)
CerrarEditor(t) ==
  /\ t \in enUso
  /\ enUso' = enUso \ {t}
  /\ UNCHANGED <<userSessions, tokens, emitidos>>

Uso(t) ==
  /\ t \in enUso
  /\ \/ ValidateUserSessionToken(t)
     \/ TouchUserSession(t)
     \/ ValidateToken(t)
     \/ InvalidateToken(t)

NextSesiones ==
  \/ \E t \in Tokens, u \in Usuarios, d \in Documentos, permiso \in Permisos :
       CreateUserSessionToken(t, u, d, permiso)
  \/ \E t \in Tokens : GenerateToken(t) \/ Uso(t) \/ CerrarEditor(t)
  \/ CleanExpiredTokens
  \/ ReiniciarSesiones
  \/ Tic

SpecSesiones == InitSesiones /\ [][NextSesiones]_sesiones

(* Time goes by and the interval of the constructor keeps firing.          *)
FairSpec == SpecSesiones /\ WF_sesiones(Tic) /\ WF_sesiones(CleanExpiredTokens)
-----------------------------------------------------------------------------
Vale(t) == SesionValida(t) \/ TokenValido(t)

(* A token that expired, was invalidated or was lost in a restart never    *)
(* works again, whatever order uses, the cleaner and the clock come in.    *)
SinResurreccion ==
  [][\A t \in emitidos : ~Vale(t) => ~Vale(t)']_sesiones

(* The maps do not grow for ever: the entry of an editor that was closed   *)
(* is dropped some day, although nobody ever presents its token again.     *)
CerradaSeLibera ==
  \A t \in Tokens :
    t \in emitidos \ enUso ~> userSessions[t] = NoHay /\ tokens[t] = NoHay
=============================================================================
