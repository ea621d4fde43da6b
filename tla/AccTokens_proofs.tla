--------------------------- MODULE AccTokens_proofs ---------------------------
(***************************************************************************)
(* Theorems about AccTokens for any users, grants, requests and bound, and *)
(* for an Autodesk that rotates refresh tokens as well as for one that     *)
(* does not.                                                               *)
(***************************************************************************)
EXTENDS AccTokens, TLAPS

(***************************************************************************)
(* The inductive invariant.  Who works on what:                            *)
(***************************************************************************)
EnCurso(p) == fase[p] \in {"pedir", "guardar"}

(* a request that waits works on a user's row, with a token to renew;      *)
Ocupacion ==
  \A p \in Procesos :
    /\ fase[p] \notin {"libre"} => usuario[p] \in Usuarios
    /\ EnCurso(p) => /\ leida[p].vinculo \in Emitidos
                     /\ leida[p].gen # 0
    /\ fase[p] = "guardar" => /\ nuevo[p].vinculo = leida[p].vinculo
                              /\ nuevo[p].gen = Siguiente(leida[p].gen)

(* a consent not stored yet is known to one request only;                  *)
Reciente ==
  \A p \in Procesos : fase[p] = "guardarNuevo" =>
    /\ nuevo[p].vinculo \in Emitidos
    /\ vigente[nuevo[p].vinculo] \in {0, nuevo[p].gen}
    /\ \A u \in Usuarios : fila[u].vinculo # nuevo[p].vinculo
    /\ \A q \in Procesos :
         /\ EnCurso(q) => leida[q].vinculo # nuevo[p].vinculo
         /\ fase[q] = "guardarNuevo" /\ q # p => nuevo[q].vinculo # nuevo[p].vinculo

(* a grant is stored in one row, and is renewed for the user of that row.  *)
Reparto ==
  /\ VinculoExclusivo
  /\ \A u \in Usuarios : Activa(u) => fila[u].vinculo \in Emitidos
  /\ \A p \in Procesos, u \in Usuarios :
       EnCurso(p) /\ leida[p].vinculo = fila[u].vinculo => usuario[p] = u

(***************************************************************************)
(* How the generations relate: neither a row nor a request is ahead of     *)
(* Autodesk; a row is never behind what a request read from it, and does   *)
(* not move while a renewed token waits to be stored in it; a generation   *)
(* is renewed once.                                                        *)
(***************************************************************************)
Orden ==
  /\ \A u \in Usuarios :
       Activa(u) /\ vigente[fila[u].vinculo] # 0 => fila[u].gen <= vigente[fila[u].vinculo]
  /\ \A p \in Procesos :
       fase[p] = "guardar" /\ vigente[leida[p].vinculo] # 0 =>
         nuevo[p].gen <= vigente[leida[p].vinculo]
  /\ \A p \in Procesos :
       EnCurso(p) /\ leida[p].vinculo = fila[usuario[p]].vinculo =>
         /\ leida[p].gen <= fila[usuario[p]].gen
         /\ fase[p] = "guardar" => fila[usuario[p]].gen = leida[p].gen
  /\ Rota => \A p, q \in Procesos :
       /\ fase[p] = "guardar"
       /\ fase[q] = "guardar"
       /\ leida[p] = leida[q]
       => p = q

IInv == TypeOK /\ Ocupacion /\ Reciente /\ Reparto /\ Orden /\ VinculoVigente
-----------------------------------------------------------------------------
LEMMA TokensBienFormados ==
  /\ SinToken \in Token
  /\ SinFila \in Fila
  /\ \A g \in Vinculos \union {SinVinculo}, n \in Generaciones, b \in BOOLEAN :
       /\ [vinculo |-> g, gen |-> n] \in Token
       /\ [vinculo |-> g, gen |-> n, vencido |-> b] \in Fila
BY ConstantesAcc DEF SinToken, SinFila, Token, Fila, Generaciones

(* The control of a request keeps the types of its five variables.         *)
LEMMA EsperarTipos ==
  ASSUME TypeOK, NEW p \in Procesos, NEW f \in Fases,
         NEW u \in Usuarios \union {SinUsuario}, NEW l \in Token, NEW n \in Token,
         Esperar(p, f, u, l, n)
  PROVE  /\ fase' \in [Procesos -> Fases]
         /\ usuario' \in [Procesos -> Usuarios \union {SinUsuario}]
         /\ leida' \in [Procesos -> Token]
         /\ nuevo' \in [Procesos -> Token]
         /\ res' \in [Procesos -> Resultados]
BY DEF TypeOK, Esperar

LEMMA TerminarTipos ==
  ASSUME TypeOK, NEW p \in Procesos, NEW u \in Usuarios \union {SinUsuario},
         NEW r \in Resultados, Terminar(p, u, r)
  PROVE  /\ fase' \in [Procesos -> Fases]
         /\ usuario' \in [Procesos -> Usuarios \union {SinUsuario}]
         /\ leida' \in [Procesos -> Token]
         /\ nuevo' \in [Procesos -> Token]
         /\ res' \in [Procesos -> Resultados]
BY TokensBienFormados DEF TypeOK, Terminar, Fases

LEMMA LeerTipos ==
  ASSUME TypeOK, NEW p \in Procesos, NEW u \in Usuarios, LeerParaRefrescar(p, u)
  PROVE  /\ fase' \in [Procesos -> Fases]
         /\ usuario' \in [Procesos -> Usuarios \union {SinUsuario}]
         /\ leida' \in [Procesos -> Token]
         /\ nuevo' \in [Procesos -> Token]
         /\ res' \in [Procesos -> Resultados]
<1>1. fila[u].vinculo \in Vinculos \union {SinVinculo} /\ fila[u].gen \in Generaciones
  BY DEF TypeOK, Fila
<1>2. CASE Terminar(p, u, "noEncontrado") \/ Terminar(p, u, "sinRefresco")
  BY <1>2, TerminarTipos DEF Resultados
<1>3. CASE Esperar(p, "pedir", u, [vinculo |-> fila[u].vinculo, gen |-> fila[u].gen], SinToken)
  BY <1>1, <1>3, EsperarTipos, TokensBienFormados DEF Fases
<1>4. QED
  BY <1>2, <1>3 DEF LeerParaRefrescar

LEMMA Tipos ==
  ASSUME TypeOK, Ocupacion, [Next]_vars
  PROVE  TypeOK'
<1> USE DEF autodesk
<1>1. ASSUME NEW p \in Procesos, Refresco(p)
      PROVE  TypeOK'
  <2>1. CASE RefrescarOk(p)
    <3> DEFINE t == leida[p]
               s == [vinculo |-> t.vinculo, gen |-> Siguiente(t.gen)]
    <3>1. t \in Token /\ t.gen \in Generaciones /\ t.vinculo \in Vinculos \union {SinVinculo}
      BY DEF TypeOK, Token
    <3>2. Siguiente(t.gen) \in Generaciones
      BY <2>1, <3>1, ConstantesAcc DEF RefrescarOk, Siguiente, Generaciones
    <3>3. s \in Token
      BY <3>1, <3>2, TokensBienFormados
    <3>4. vigente' \in [Vinculos -> Generaciones] /\ perdidos' \in SUBSET Vinculos
      <4>1. t.vinculo \in Vinculos
        BY <2>1 DEF RefrescarOk, Ocupacion, EnCurso, Emitidos
      <4>2. QED
        BY <2>1, <3>2, <4>1 DEF RefrescarOk, TypeOK
    <3>5. CASE Esperar(p, "guardar", usuario[p], t, s)
      <4> HIDE DEF t, s
      <4>1. usuario[p] \in Usuarios \union {SinUsuario} /\ "guardar" \in Fases
        BY DEF TypeOK, Fases
      <4>2. QED
        BY <2>1, <3>1, <3>3, <3>4, <3>5, <4>1, EsperarTipos DEF TypeOK, RefrescarOk
    <3>6. CASE Terminar(p, usuario[p], "error")
      BY <2>1, <3>4, <3>6, TerminarTipos DEF TypeOK, RefrescarOk, Resultados
    <3>7. QED
      BY <2>1, <3>5, <3>6 DEF RefrescarOk
  <2>2. CASE RefrescarRechazado(p) \/ RefrescarFalla(p)
    BY <2>2, TerminarTipos DEF RefrescarRechazado, RefrescarFalla, TypeOK, Resultados
  <2>3. CASE Guardar(p)
    <3>1. PICK r \in {"ok", "error"} : Terminar(p, usuario[p], r)
      BY <2>3 DEF Guardar
    <3>2. fila' \in [Usuarios -> Fila]
      <4>1. leida[p].vinculo \in Vinculos \union {SinVinculo} /\ nuevo[p].gen \in Generaciones
        BY DEF TypeOK, Token
      <4>2. [vinculo |-> leida[p].vinculo, gen |-> nuevo[p].gen, vencido |-> FALSE] \in Fila
        BY <4>1, TokensBienFormados
      <4>3. QED
        BY <2>3, <4>2 DEF Guardar, TypeOK
    <3>3. r \in Resultados /\ usuario[p] \in Usuarios \union {SinUsuario}
      BY DEF Resultados, TypeOK
    <3>4. QED
      BY <2>3, <3>1, <3>2, <3>3, TerminarTipos DEF Guardar, TypeOK
  <2>4. CASE GuardarFalla(p)
    <3>1. perdidos' \in SUBSET Vinculos
      BY <2>4 DEF GuardarFalla, TypeOK, Ocupacion, EnCurso, Emitidos
    <3>2. QED
      BY <2>4, <3>1, TerminarTipos DEF GuardarFalla, TypeOK, Resultados
  <2>5. QED
    BY <1>1, <2>1, <2>2, <2>3, <2>4 DEF Refresco
<1>2. ASSUME NEW p \in Peticiones, Peticion(p)
      PROVE  TypeOK'
  <2> p \in Procesos
    BY DEF Procesos
  <2>1. ASSUME NEW u \in Usuarios, PedirRefresco(p, u)
        PROVE  TypeOK'
    BY <2>1, LeerTipos DEF PedirRefresco, TypeOK
  <2>2. ASSUME NEW u \in Usuarios, PedirTokenValido(p, u)
        PROVE  TypeOK'
    BY <2>2, LeerTipos, TerminarTipos DEF PedirTokenValido, TypeOK, Resultados
  <2>3. ASSUME NEW u \in Usuarios, LeerParaRevocar(p, u)
        PROVE  TypeOK'
    <3>1. fila[u].vinculo \in Vinculos \union {SinVinculo} /\ fila[u].gen \in Generaciones
      BY DEF TypeOK, Fila
    <3>2. CASE Terminar(p, u, "noEncontrado")
      BY <2>3, <3>2, TerminarTipos DEF LeerParaRevocar, TypeOK, Resultados
    <3>3. CASE Esperar(p, "revocar", u, [vinculo |-> fila[u].vinculo, gen |-> fila[u].gen], SinToken)
      <4>1. [vinculo |-> fila[u].vinculo, gen |-> fila[u].gen] \in Token
        BY <3>1, TokensBienFormados
      <4>2. "revocar" \in Fases
        BY DEF Fases
      <4>3. QED
        BY <2>3, <3>3, <4>1, <4>2, EsperarTipos, TokensBienFormados DEF LeerParaRevocar, TypeOK
    <3>4. QED
      BY <2>3, <3>2, <3>3 DEF LeerParaRevocar
  <2>4. CASE RecibirCallback(p)
    BY <2>4, EsperarTipos, TerminarTipos, TokensBienFormados, ConstantesAcc
    DEF RecibirCallback, TypeOK, Fases, Resultados
  <2>5. CASE Canjear(p)
    <3>1. ASSUME NEW g \in Vinculos \ Emitidos, NEW quien \in Usuarios, NEW n \in {0, 1},
                 titular' = [titular EXCEPT ![g] = quien],
                 vigente' = [vigente EXCEPT ![g] = n],
                 Esperar(p, "guardarNuevo", usuario[p], SinToken, [vinculo |-> g, gen |-> n])
          PROVE  TypeOK'
      <4>1. n \in Generaciones
        BY ConstantesAcc DEF Generaciones
      <4>2. [vinculo |-> g, gen |-> n] \in Token /\ "guardarNuevo" \in Fases
        BY <4>1, TokensBienFormados DEF Fases
      <4>3. usuario[p] \in Usuarios \union {SinUsuario}
        BY DEF TypeOK
      <4>4. QED
        BY <2>5, <3>1, <4>1, <4>2, <4>3, EsperarTipos, TokensBienFormados DEF Canjear, TypeOK
    <3>2. CASE Terminar(p, usuario[p], "error") /\ UNCHANGED autodesk
      BY <2>5, <3>2, TerminarTipos DEF Canjear, TypeOK, Resultados
    <3>3. QED
      BY <2>5, <3>1, <3>2 DEF Canjear
  <2>6. CASE GuardarNuevo(p)
    <3>1. nuevo[p].vinculo \in Vinculos \union {SinVinculo} /\ nuevo[p].gen \in Generaciones
      BY DEF TypeOK, Token
    <3>2. [vinculo |-> nuevo[p].vinculo, gen |-> nuevo[p].gen, vencido |-> FALSE] \in Fila
      BY <3>1, TokensBienFormados
    <3>3. QED
      BY <2>6, <3>2, TerminarTipos DEF GuardarNuevo, TypeOK, Resultados
  <2>7. CASE Revocar(p)
    BY <2>7, TerminarTipos, TokensBienFormados DEF Revocar, TypeOK, Resultados
  <2>8. CASE ResponderPeticion(p)
    BY <2>8 DEF ResponderPeticion, Responder, TypeOK, Fases, Resultados
  <2>9. QED
    BY <1>2, <2>1, <2>2, <2>3, <2>4, <2>5, <2>6, <2>7, <2>8 DEF Peticion
<1>3. CASE CronPaso
  <2> Cron \in Procesos
    BY DEF Procesos
  <2>1. CASE CronListar
    BY <2>1 DEF CronListar, TypeOK, peticion
  <2>2. CASE CronRefrescar
    BY <2>2, LeerTipos DEF CronRefrescar, TypeOK
  <2>3. CASE CronAnotar
    BY <2>3 DEF CronAnotar, Responder, Ocupacion, TypeOK, Fases, Resultados
  <2>4. CASE CronTerminar
    BY <2>4 DEF CronTerminar, TypeOK, peticion
  <2>5. QED
    BY <1>3, <2>1, <2>2, <2>3, <2>4 DEF CronPaso
<1>4. CASE Entorno
  <2>1. ASSUME NEW u \in Usuarios, Vencer(u)
        PROVE  TypeOK'
    BY <2>1 DEF Vencer, TypeOK, Fila, peticion
  <2>2. ASSUME NEW g \in Vinculos, Caducar(g)
        PROVE  TypeOK'
    BY <2>2, ConstantesAcc DEF Caducar, TypeOK, Generaciones, peticion
  <2>3. CASE Reiniciar
    <3>1. \A p \in Procesos : fase[p] = "guardar" => leida[p].vinculo \in Vinculos
      BY DEF Ocupacion, EnCurso, Emitidos
    <3>2. perdidos' \in SUBSET Vinculos
      BY <2>3, <3>1 DEF Reiniciar, TypeOK
    <3>3. QED
      BY <2>3, <3>2, TokensBienFormados DEF Reiniciar, TypeOK, CronParado, Fases, Resultados
  <2>4. QED
    BY <1>4, <2>1, <2>2, <2>3 DEF Entorno
<1>5. CASE UNCHANGED vars
  BY <1>5 DEF vars, TypeOK
<1>6. QED
  BY <1>1, <1>2, <1>3, <1>4, <1>5 DEF Next

-----------------------------------------------------------------------------
(***************************************************************************)
(* What the steps do to the rest of the invariant.  Most of them only let  *)
(* requests go: no row and no grant changes, a request either keeps what   *)
(* it holds or waits no longer for a token, and what a request that was    *)
(* about to store a rotated token lets go is recorded in perdidos, or has  *)
(* no row to be stored in any more.                                        *)
(***************************************************************************)
Enlazado == Ocupacion /\ Reciente /\ Reparto /\ Orden /\ VinculoVigente

Sigue(q) ==
  /\ fase'[q] = fase[q]
  /\ usuario'[q] = usuario[q]
  /\ leida'[q] = leida[q]
  /\ nuevo'[q] = nuevo[q]

Suelta ==
  /\ UNCHANGED <<fila, vigente, titular>>
  /\ perdidos \subseteq perdidos'
  /\ \A q \in Procesos :
       \/ Sigue(q)
       \/ /\ fase'[q] \notin {"pedir", "guardar", "guardarNuevo"}
          /\ fase'[q] # "libre" => usuario'[q] \in Usuarios
          /\ fase[q] = "guardar" /\ Rota =>
               \/ leida[q].vinculo \in perdidos'
               \/ \A u \in Usuarios : fila[u].vinculo # leida[q].vinculo

LEMMA SueltaConserva ==
  ASSUME TypeOK, Enlazado, Suelta
  PROVE  Enlazado'
<1> USE DEF Suelta, Sigue, Enlazado, EnCurso, Emitidos, Activa
<1>1. Ocupacion'
  BY DEF Ocupacion, Siguiente
<1>2. Reciente'
  BY DEF Reciente
<1>3. Reparto'
  BY DEF Reparto, VinculoExclusivo
<1>4. Orden'
  BY DEF Orden, Ocupacion
<1>5. VinculoVigente'
  <2> SUFFICES ASSUME NEW u \in Usuarios, Activa(u), fila[u].gen # 0,
                      vigente[fila[u].vinculo] # 0, fila[u].vinculo \notin perdidos'
               PROVE  Vivo(u)'
    BY DEF VinculoVigente
  <2>1. Vivo(u)
    BY DEF VinculoVigente
  <2>2. CASE Aceptado(fila[u])
    BY <2>2 DEF Vivo, Aceptado
  <2>3. ASSUME NEW p \in Procesos, TieneVigente(p, u)
        PROVE  Vivo(u)'
    <3>1. CASE Sigue(p)
      BY <2>3, <3>1 DEF TieneVigente, Vivo
    <3>2. CASE ~Rota
      <4>1. nuevo[p].gen = leida[p].gen /\ usuario[p] = u
        BY <2>3, <3>2 DEF TieneVigente, Ocupacion, Siguiente, Reparto
      <4>2. fila[u].gen = leida[p].gen
        BY <2>3, <4>1 DEF TieneVigente, Orden
      <4>3. QED
        BY <2>3, <4>1, <4>2 DEF TieneVigente, Vivo, Aceptado
    <3>3. CASE Rota /\ ~Sigue(p)
      BY <2>3, <3>3 DEF TieneVigente
    <3>4. QED
      BY <3>1, <3>2, <3>3 DEF TypeOK
  <2>4. QED
    BY <2>1, <2>2, <2>3 DEF Vivo
<1>6. QED
  BY <1>1, <1>2, <1>3, <1>4, <1>5

LEMMA TerminarSuelta ==
  ASSUME TypeOK, NEW p \in Procesos, NEW u \in Usuarios, NEW r \in Resultados,
         Terminar(p, u, r), UNCHANGED <<fila, vigente, titular>>,
         perdidos \subseteq perdidos',
         fase[p] = "guardar" /\ Rota =>
               \/ leida[p].vinculo \in perdidos'
               \/ \A v \in Usuarios : fila[v].vinculo # leida[p].vinculo
  PROVE  Suelta
BY DEF Terminar, Suelta, Sigue, TypeOK

LEMMA EsperarSuelta ==
  ASSUME TypeOK, NEW p \in Procesos, NEW u \in Usuarios, NEW f \in {"canjear", "revocar"},
         NEW l, NEW n, Esperar(p, f, u, l, n), fase[p] = "libre",
         UNCHANGED <<fila, vigente, titular, perdidos>>
  PROVE  Suelta
BY DEF Esperar, Suelta, Sigue, TypeOK

(* Starting a refresh: the row is read, and nothing is ahead of it.        *)
LEMMA LeerConserva ==
  ASSUME TypeOK, Enlazado, NEW p \in Procesos, NEW u \in Usuarios,
         LeerParaRefrescar(p, u), UNCHANGED <<fila, vigente, titular, perdidos>>
  PROVE  Enlazado'
<1>1. CASE Terminar(p, u, "noEncontrado") \/ Terminar(p, u, "sinRefresco")
  <2>1. fase[p] # "guardar"
    BY DEF LeerParaRefrescar
  <2>2. Suelta
    BY <1>1, <2>1, TerminarSuelta DEF Resultados
  <2>3. QED
    BY <2>2, SueltaConserva
<1>2. CASE /\ Activa(u) /\ fila[u].gen # 0
           /\ Esperar(p, "pedir", u, [vinculo |-> fila[u].vinculo, gen |-> fila[u].gen], SinToken)
  <2> USE <1>2 DEF Esperar, Enlazado, EnCurso, Emitidos, Activa
  <2>0. fase[p] = "libre"
    BY DEF LeerParaRefrescar
  <2>1. /\ fase'[p] = "pedir" /\ usuario'[p] = u
        /\ leida'[p].vinculo = fila[u].vinculo /\ leida'[p].gen = fila[u].gen
    BY DEF TypeOK
  <2>2. \A q \in Procesos \ {p} : Sigue(q)
    BY DEF TypeOK, Sigue
  <2> HIDE <1>2 DEF Esperar
  <2>3. fila[u].gen \in Nat
    BY DEF TypeOK, Fila, Generaciones
  <2>4. Ocupacion'
    BY <1>2, <2>1, <2>2 DEF Ocupacion, Reparto, Sigue, Siguiente
  <2>5. Reciente'
    BY <1>2, <2>0, <2>1, <2>2 DEF Reciente, Sigue
  <2>6. Reparto'
    BY <1>2, <2>1, <2>2 DEF Reparto, VinculoExclusivo, Sigue
  <2>7. Orden'
    <3>1. /\ fila' = fila /\ vigente' = vigente
          /\ fase'[p] = "pedir" /\ usuario'[p] = u /\ leida'[p].gen <= fila[u].gen
      BY <2>1, <2>3
    <3>2. QED
      BY <2>2, <3>1 DEF Orden, Sigue
  <2>8. VinculoVigente'
    <3>1. \A v \in Usuarios : Vivo(v) => Vivo(v)'
      BY <2>0, <2>2 DEF Vivo, Aceptado, TieneVigente, Sigue
    <3>2. QED
      BY <3>1 DEF VinculoVigente
  <2>9. QED
    BY <2>4, <2>5, <2>6, <2>7, <2>8
<1>3. QED
  BY <1>1, <1>2 DEF LeerParaRefrescar

(* Autodesk accepts a token: the request alone holds the next generation,  *)
(* or the answer is lost and the grant is recorded as such.                *)
LEMMA RefrescarOkConserva ==
  ASSUME TypeOK, Enlazado, NEW p \in Procesos, RefrescarOk(p)
  PROVE  Enlazado'
<1> DEFINE g == leida[p].vinculo
           n == leida[p].gen
<1> USE DEF Enlazado, EnCurso, Emitidos, Activa
<1>1. /\ fase[p] = "pedir" /\ g \in Vinculos /\ n \in Nat \ {0}
      /\ vigente[g] = n /\ n <= Siguiente(n) /\ Siguiente(n) \in Nat \ {0}
      /\ titular[g] # SinUsuario
  BY ConstantesAcc DEF RefrescarOk, Aceptado, Ocupacion, TypeOK, Token, Generaciones, Siguiente
<1>2. /\ UNCHANGED <<fila, titular>> /\ perdidos \subseteq perdidos'
      /\ vigente' = [vigente EXCEPT ![g] = Siguiente(n)]
  BY DEF RefrescarOk
<1>3. vigente'[g] = Siguiente(n) /\ \A h \in Vinculos : h # g => vigente'[h] = vigente[h]
  BY <1>1, <1>2 DEF TypeOK
<1>4. usuario[p] \in Usuarios
  BY <1>1 DEF Ocupacion
<1>5. \A q \in Procesos \ {p} : Sigue(q)
  BY DEF RefrescarOk, Esperar, Terminar, Sigue, TypeOK
<1>6. \/ /\ fase'[p] = "guardar" /\ usuario'[p] = usuario[p] /\ leida'[p] = leida[p]
         /\ nuevo'[p].vinculo = g /\ nuevo'[p].gen = Siguiente(n)
      \/ /\ fase'[p] = "fin" /\ usuario'[p] = usuario[p]
         /\ Rota => g \in perdidos'
  BY DEF RefrescarOk, Esperar, Terminar, TypeOK
<1>7. \A q \in Procesos : fase[q] = "guardar" => leida[q].vinculo \in Vinculos /\ nuevo[q].gen \in Nat
                                               /\ leida[q].gen \in Nat
  BY DEF Ocupacion, TypeOK, Token, Generaciones
<1>8. \A u \in Usuarios : fila[u].gen \in Nat /\ (Activa(u) => fila[u].vinculo \in Vinculos)
  BY DEF TypeOK, Fila, Generaciones
<1> HIDE DEF g, n
<1>9. Ocupacion'
  BY <1>1, <1>2, <1>4, <1>5, <1>6 DEF Ocupacion, Sigue, Siguiente, g, n
<1>10. Reciente'
  <2>1. ASSUME NEW q \in Procesos, fase'[q] = "guardarNuevo"
        PROVE  fase[q] = "guardarNuevo" /\ nuevo'[q] = nuevo[q] /\ nuevo[q].vinculo # g
    BY <1>1, <1>5, <1>6, <2>1 DEF Sigue, Reciente, g
  <2>2. \A q \in Procesos : fase'[q] \in {"pedir", "guardar"} =>
                              fase[q] \in {"pedir", "guardar"} /\ leida'[q] = leida[q]
    BY <1>1, <1>5, <1>6 DEF Sigue
  <2>3. ASSUME NEW q \in Procesos, fase'[q] = "guardarNuevo"
        PROVE  vigente'[nuevo'[q].vinculo] \in {0, nuevo'[q].gen}
    BY <1>3, <2>1, <2>3 DEF Reciente
  <2>4. QED
    BY <1>2, <2>1, <2>2, <2>3 DEF Reciente
<1>11. Reparto'
  BY <1>1, <1>2, <1>5, <1>6 DEF Reparto, VinculoExclusivo, Sigue
<1>12. Orden'
  <2>1. \A u \in Usuarios : Activa(u)' /\ vigente'[fila'[u].vinculo] # 0 =>
                              fila'[u].gen <= vigente'[fila'[u].vinculo]
    BY <1>1, <1>2, <1>3, <1>8 DEF Orden
  <2>2. \A q \in Procesos : fase'[q] = "guardar" /\ vigente'[leida'[q].vinculo] # 0 =>
                              nuevo'[q].gen <= vigente'[leida'[q].vinculo]
    BY <1>1, <1>3, <1>5, <1>6, <1>7 DEF Orden, Sigue, g
  <2>3. ASSUME NEW q \in Procesos, EnCurso(q)', leida'[q].vinculo = fila'[usuario'[q]].vinculo
        PROVE  /\ leida'[q].gen <= fila'[usuario'[q]].gen
               /\ fase'[q] = "guardar" => fila'[usuario'[q]].gen = leida'[q].gen
    <3>1. CASE q = p
      <4>1. leida[p].vinculo = fila[usuario[p]].vinculo /\ leida'[p] = leida[p] /\ usuario'[p] = usuario[p]
        BY <1>2, <1>6, <2>3, <3>1
      <4>2. n <= fila[usuario[p]].gen
        BY <1>1, <4>1 DEF Orden, n
      <4>3. fila[usuario[p]].gen <= n
        <5>1. Activa(usuario[p]) /\ vigente[fila[usuario[p]].vinculo] # 0
          BY <1>1, <4>1, ConstantesAcc DEF g
        <5>2. QED
          BY <1>1, <1>4, <4>1, <5>1 DEF Orden, g
      <4>4. QED
        BY <1>1, <1>2, <1>4, <1>8, <3>1, <4>1, <4>2, <4>3 DEF n
    <3>2. CASE q # p
      BY <1>2, <1>5, <2>3, <3>2 DEF Orden, Sigue
    <3>3. QED
      BY <3>1, <3>2
  <2>4. ASSUME Rota, NEW q \in Procesos \ {p}, fase'[q] = "guardar", fase'[p] = "guardar"
        PROVE  leida'[q] # leida'[p]
    <3>1. SUFFICES ASSUME leida[q] = leida[p], fase[q] = "guardar"
                   PROVE  FALSE
      BY <1>5, <1>6, <2>4 DEF Sigue
    <3>2. nuevo[q].gen = n + 1
      BY <2>4, <3>1 DEF Ocupacion, Siguiente, n
    <3>3. nuevo[q].gen <= vigente[g]
      BY <1>1, <3>1 DEF Orden, g
    <3>4. QED
      BY <1>1, <3>2, <3>3
  <2>5. Rota => \A q, r \in Procesos :
          fase'[q] = "guardar" /\ fase'[r] = "guardar" /\ leida'[q] = leida'[r] => q = r
    BY <1>5, <2>4 DEF Orden, Sigue
  <2>6. QED
    BY <2>1, <2>2, <2>3, <2>5 DEF Orden
<1>13. VinculoVigente'
  <2> SUFFICES ASSUME NEW u \in Usuarios, Activa(u), fila[u].gen # 0,
                      vigente'[fila[u].vinculo] # 0, fila[u].vinculo \notin perdidos'
               PROVE  Vivo(u)'
    BY <1>2 DEF VinculoVigente
  <2>1. CASE fila[u].vinculo # g
    <3>1. vigente'[fila[u].vinculo] = vigente[fila[u].vinculo]
      BY <1>3, <1>8, <2>1
    <3>2. Vivo(u)
      BY <1>2, <3>1 DEF VinculoVigente
    <3>3. QED
      BY <1>1, <1>2, <1>5, <3>1, <3>2 DEF Vivo, Aceptado, TieneVigente, Sigue
  <2>2. CASE fila[u].vinculo = g /\ fase'[p] = "guardar"
    BY <1>1, <1>2, <1>3, <1>6, <2>2 DEF Vivo, TieneVigente, g
  <2>3. CASE fila[u].vinculo = g /\ fase'[p] = "fin"
    <3>1. Siguiente(n) = n /\ vigente' = vigente
      BY <1>1, <1>2, <1>6, <2>3 DEF Siguiente, TypeOK
    <3>2. Vivo(u)
      BY <1>2, <3>1 DEF VinculoVigente
    <3>3. QED
      BY <1>1, <1>2, <1>5, <3>1, <3>2 DEF Vivo, Aceptado, TieneVigente, Sigue
  <2>4. QED
    BY <1>6, <2>1, <2>2, <2>3
<1>14. QED
  BY <1>9, <1>10, <1>11, <1>12, <1>13

(* The update of the row: it stores the only renewed token there is, or it *)
(* touches a row that is no longer the user's and changes nothing.         *)
LEMMA GuardarConserva ==
  ASSUME TypeOK, Enlazado, NEW p \in Procesos, Guardar(p)
  PROVE  Enlazado'
<1> DEFINE u == usuario[p]
           g == leida[p].vinculo
<1> USE DEF Enlazado, EnCurso, Emitidos, Activa
<1>1. /\ fase[p] = "guardar" /\ u \in Usuarios /\ g \in Vinculos
      /\ nuevo[p].gen = Siguiente(leida[p].gen)
      /\ nuevo[p].gen \in Nat \ {0} /\ leida[p].gen \in Nat \ {0}
  BY ConstantesAcc DEF Guardar, Ocupacion, Siguiente, TypeOK, Token, Generaciones
<1>2. UNCHANGED <<vigente, titular, perdidos>>
  BY DEF Guardar, autodesk
<1>3. PICK r \in {"ok", "error"} : Terminar(p, u, r)
  BY DEF Guardar
<1>4. fase'[p] = "fin" /\ usuario'[p] = u /\ \A q \in Procesos \ {p} : Sigue(q)
  BY <1>3 DEF Terminar, Sigue, TypeOK
<1>5. CASE fila[u].vinculo # g
  <2>1. \A v \in Usuarios : fila[v].vinculo # g
    BY <1>1, <1>5 DEF Reparto
  <2>2. fila' = fila
    BY <1>5 DEF Guardar
  <2>3. Suelta
    <3>1. r \in Resultados
      BY DEF Resultados
    <3>2. QED
      BY <1>1, <1>2, <1>3, <2>1, <2>2, <3>1, TerminarSuelta
  <2>4. QED
    BY <2>3, SueltaConserva
<1>6. CASE fila[u].vinculo = g
  <2>1. /\ fila'[u].vinculo = g /\ fila'[u].gen = nuevo[p].gen
        /\ \A v \in Usuarios : v # u => fila'[v] = fila[v]
    BY <1>1, <1>6 DEF Guardar, TypeOK
  <2>2. \A v \in Usuarios : fila'[v].vinculo = fila[v].vinculo
    BY <1>6, <2>1
  <2>3. fila[u].gen = leida[p].gen
    BY <1>1, <1>6 DEF Orden
  <2> HIDE DEF u, g
  <2>4. Ocupacion'
    BY <1>1, <1>2, <1>4 DEF Ocupacion, Sigue, Siguiente
  <2>5. Reciente'
    BY <1>2, <1>4, <2>2 DEF Reciente, Sigue
  <2>6. Reparto'
    BY <1>2, <1>4, <2>2 DEF Reparto, VinculoExclusivo, Sigue
  <2>7. Orden'
    <3>1. \A v \in Usuarios : Activa(v)' /\ vigente'[fila'[v].vinculo] # 0 =>
                              fila'[v].gen <= vigente'[fila'[v].vinculo]
      <4>1. vigente[g] # 0 => nuevo[p].gen <= vigente[g]
        BY <1>1 DEF Orden, g
      <4>2. QED
        BY <1>2, <2>1, <4>1 DEF Orden
    <3>2. ASSUME NEW q \in Procesos, EnCurso(q)', leida'[q].vinculo = fila'[usuario'[q]].vinculo
          PROVE  /\ leida'[q].gen <= fila'[usuario'[q]].gen
                 /\ fase'[q] = "guardar" => fila'[usuario'[q]].gen = leida'[q].gen
      <4>1. q # p /\ Sigue(q) /\ EnCurso(q) /\ usuario[q] \in Usuarios
        BY <1>4, <3>2 DEF Sigue, Ocupacion
      <4>2. leida[q].vinculo = fila[usuario[q]].vinculo
        BY <2>2, <3>2, <4>1 DEF Sigue
      <4>3. /\ leida[q].gen <= fila[usuario[q]].gen
            /\ fase[q] = "guardar" => fila[usuario[q]].gen = leida[q].gen
        BY <4>1, <4>2 DEF Orden
      <4>4. CASE usuario[q] # u
        BY <2>1, <4>1, <4>3, <4>4 DEF Sigue
      <4>5. CASE usuario[q] = u /\ Rota
        <5>1. fase[q] # "guardar"
          <6>1. SUFFICES ASSUME fase[q] = "guardar"
                         PROVE  FALSE
            OBVIOUS
          <6>2. leida[q].gen = leida[p].gen /\ leida[q].vinculo = leida[p].vinculo
            BY <1>6, <2>3, <4>2, <4>3, <4>5, <6>1 DEF g
          <6>3. leida[q] = leida[p]
            BY <6>2 DEF TypeOK, Token
          <6>4. QED
            BY <1>1, <4>1, <4>5, <6>1, <6>3 DEF Orden
        <5>2. leida[q].gen \in Nat
          BY DEF TypeOK, Token, Generaciones
        <5>3. leida[q].gen <= nuevo[p].gen
          BY <1>1, <2>3, <4>3, <4>5, <5>2 DEF Siguiente
        <5>4. QED
          BY <2>1, <4>1, <4>5, <5>1, <5>3 DEF Sigue
      <4>6. CASE usuario[q] = u /\ ~Rota
        <5>1. fila'[u].gen = fila[u].gen
          BY <1>1, <2>1, <2>3, <4>6 DEF Siguiente
        <5>2. QED
          BY <4>1, <4>3, <4>6, <5>1 DEF Sigue
      <4>7. QED
        BY <4>4, <4>5, <4>6
    <3>3. /\ \A q \in Procesos : fase'[q] = "guardar" => fase[q] = "guardar" /\ Sigue(q)
      BY <1>4 DEF Sigue
    <3>4. QED
      BY <1>2, <3>1, <3>2, <3>3 DEF Orden, Sigue
  <2>8. VinculoVigente'
    <3> SUFFICES ASSUME NEW v \in Usuarios, Activa(v)', fila'[v].gen # 0,
                        vigente[fila'[v].vinculo] # 0, fila'[v].vinculo \notin perdidos
                 PROVE  Vivo(v)'
      BY <1>2 DEF VinculoVigente
    <3>1. CASE v # u
      <4>1. Vivo(v) /\ fila'[v] = fila[v]
        BY <2>1, <3>1 DEF VinculoVigente
      <4>2. \A q \in Procesos : TieneVigente(q, v) => q # p
        BY <1>1, <3>1 DEF TieneVigente, Reparto, u
      <4>3. QED
        BY <1>2, <1>4, <4>1, <4>2 DEF Vivo, Aceptado, TieneVigente, Sigue
    <3>2. CASE v = u
      <4>1. Vivo(u)
        BY <1>1, <1>6, <2>1, <2>3, <3>2 DEF VinculoVigente
      <4>2. CASE Aceptado(fila[u])
        <5>1. vigente[g] = leida[p].gen /\ nuevo[p].gen <= vigente[g]
          BY <1>1, <1>6, <2>3, <4>2 DEF Aceptado, Orden, g
        <5>2. nuevo[p].gen = vigente[g]
          BY <1>1, <5>1 DEF Siguiente
        <5>3. QED
          BY <1>1, <1>2, <2>1, <3>2, <5>2 DEF Vivo, Aceptado
      <4>3. ASSUME NEW q \in Procesos, TieneVigente(q, u)
            PROVE  Vivo(v)'
        <5>1. CASE q = p
          <6>1. fila'[v].gen = vigente'[fila'[v].vinculo] /\ fila'[v].gen # 0
            BY <1>1, <1>2, <1>6, <2>1, <3>2, <4>3, <5>1 DEF TieneVigente
          <6>2. QED
            BY <6>1 DEF Vivo, Aceptado
        <5>2. CASE q # p
          <6>1. TieneVigente(q, v)'
            BY <1>2, <1>4, <2>2, <3>2, <4>3, <5>2 DEF TieneVigente, Sigue
          <6>2. QED
            BY <6>1 DEF Vivo
        <5>3. QED
          BY <5>1, <5>2
      <4>4. QED
        BY <3>2, <4>1, <4>2, <4>3 DEF Vivo
    <3>3. QED
      BY <3>1, <3>2
  <2>9. QED
    BY <2>4, <2>5, <2>6, <2>7, <2>8
<1>7. QED
  BY <1>5, <1>6

(* A new consent: the request that exchanged the code is alone to know it. *)
LEMMA CanjearConserva ==
  ASSUME TypeOK, Enlazado, NEW p \in Procesos, Canjear(p)
  PROVE  Enlazado'
<1> USE DEF Enlazado, EnCurso, Emitidos, Activa
<1>1. ASSUME NEW g \in Vinculos \ Emitidos, NEW quien \in Usuarios, NEW n \in {0, 1},
             titular' = [titular EXCEPT ![g] = quien],
             vigente' = [vigente EXCEPT ![g] = n],
             Esperar(p, "guardarNuevo", usuario[p], SinToken, [vinculo |-> g, gen |-> n])
      PROVE  Enlazado'
  <2>1. fila' = fila /\ perdidos' = perdidos /\ fase[p] = "canjear"
    BY DEF Canjear
  <2>2. /\ fase'[p] = "guardarNuevo" /\ usuario'[p] = usuario[p]
        /\ nuevo'[p].vinculo = g /\ nuevo'[p].gen = n
        /\ \A q \in Procesos \ {p} : Sigue(q)
    BY <1>1 DEF Esperar, Sigue, TypeOK
  <2>3. /\ vigente'[g] = n /\ titular'[g] # SinUsuario /\ g \notin Emitidos
        /\ \A h \in Emitidos : vigente'[h] = vigente[h] /\ titular'[h] = titular[h]
    BY <1>1, ConstantesAcc DEF TypeOK
  <2>4. \A u \in Usuarios : Activa(u) => fila[u].vinculo \in Emitidos
    BY DEF Reparto
  <2>5. \A q \in Procesos : EnCurso(q) => leida[q].vinculo \in Emitidos
    BY DEF Ocupacion
  <2>6. \A q \in Procesos : fase[q] = "guardarNuevo" => nuevo[q].vinculo \in Emitidos
    BY DEF Reciente
  <2>7. Ocupacion'
    BY <2>1, <2>2, <2>3 DEF Ocupacion, Sigue, Siguiente
  <2>8. Reciente'
    <3>1. \A u \in Usuarios : fila[u].vinculo # g
      BY <2>3, <2>4, ConstantesAcc
    <3>2. ASSUME NEW q \in Procesos \ {p}, fase'[q] = "guardarNuevo"
          PROVE  /\ nuevo'[q].vinculo = nuevo[q].vinculo /\ nuevo'[q].gen = nuevo[q].gen
                 /\ fase[q] = "guardarNuevo" /\ nuevo[q].vinculo \in Emitidos
                 /\ nuevo[q].vinculo # g
      BY <2>2, <2>3, <2>6, <3>2 DEF Sigue
    <3>3. \A q \in Procesos : EnCurso(q)' =>
             q # p /\ EnCurso(q) /\ leida'[q].vinculo = leida[q].vinculo /\ leida[q].vinculo # g
      BY <2>2, <2>3, <2>5 DEF Sigue
    <3>4. ASSUME NEW q \in Procesos, fase'[q] = "guardarNuevo"
          PROVE  /\ nuevo'[q].vinculo \in Emitidos'
                 /\ vigente'[nuevo'[q].vinculo] \in {0, nuevo'[q].gen}
                 /\ \A u \in Usuarios : fila'[u].vinculo # nuevo'[q].vinculo
                 /\ \A r \in Procesos :
                      /\ EnCurso(r)' => leida'[r].vinculo # nuevo'[q].vinculo
                      /\ fase'[r] = "guardarNuevo" /\ r # q => nuevo'[r].vinculo # nuevo'[q].vinculo
      <4>1. CASE q = p
        BY <1>1, <2>1, <2>2, <2>3, <3>1, <3>2, <3>3, <4>1
      <4>2. CASE q # p
        BY <2>1, <2>2, <2>3, <3>2, <3>3, <3>4, <4>2 DEF Reciente
      <4>3. QED
        BY <4>1, <4>2
    <3>5. QED
      BY <3>4 DEF Reciente
  <2>9. Reparto'
    BY <2>1, <2>2, <2>3, <2>4 DEF Reparto, VinculoExclusivo, Sigue
  <2>10. Orden'
    BY <2>1, <2>2, <2>3, <2>4, <2>5 DEF Orden, Sigue
  <2>11. VinculoVigente'
    <3>1. ASSUME NEW u \in Usuarios, Activa(u)
          PROVE  vigente'[fila[u].vinculo] = vigente[fila[u].vinculo] /\ (Vivo(u) => Vivo(u)')
      BY <2>1, <2>2, <2>3, <2>4, <3>1 DEF Vivo, Aceptado, TieneVigente, Sigue
    <3>2. QED
      BY <2>1, <3>1 DEF VinculoVigente
  <2>12. QED
    BY <2>7, <2>8, <2>9, <2>10, <2>11
<1>2. CASE Terminar(p, usuario[p], "error") /\ UNCHANGED autodesk
  <2>1. fase[p] = "canjear" /\ usuario[p] \in Usuarios /\ UNCHANGED <<fila, vigente, titular, perdidos>>
    BY <1>2 DEF Canjear, autodesk, Ocupacion
  <2>2. Suelta
    BY <1>2, <2>1, TerminarSuelta DEF Resultados
  <2>3. QED
    BY <2>2, SueltaConserva
<1>3. QED
  BY <1>1, <1>2 DEF Canjear

(* The row inserted by a callback replaces whatever the user had.          *)
LEMMA GuardarNuevoConserva ==
  ASSUME TypeOK, Enlazado, NEW p \in Procesos, GuardarNuevo(p)
  PROVE  Enlazado'
<1> DEFINE u == usuario[p]
           g == nuevo[p].vinculo
<1> USE DEF Enlazado, EnCurso, Emitidos, Activa
<1>1. /\ fase[p] = "guardarNuevo" /\ u \in Usuarios
      /\ UNCHANGED <<vigente, titular, perdidos>>
  BY DEF GuardarNuevo, Ocupacion, autodesk
<1>2. CASE Terminar(p, u, "error") /\ UNCHANGED fila
  <2>1. Suelta
    BY <1>1, <1>2, TerminarSuelta DEF Resultados
  <2>2. QED
    BY <2>1, SueltaConserva
<1>3. CASE /\ Terminar(p, u, "ok")
           /\ fila' = [fila EXCEPT ![u] = [vinculo |-> g, gen |-> nuevo[p].gen, vencido |-> FALSE]]
  <2>1. fase'[p] = "fin" /\ usuario'[p] = u /\ \A q \in Procesos \ {p} : Sigue(q)
    BY <1>3 DEF Terminar, Sigue, TypeOK
  <2>2. /\ fila'[u].vinculo = g /\ fila'[u].gen = nuevo[p].gen
        /\ \A v \in Usuarios : v # u => fila'[v] = fila[v]
    BY <1>1, <1>3 DEF TypeOK
  <2>3. /\ g \in Emitidos /\ vigente[g] \in {0, nuevo[p].gen}
        /\ \A v \in Usuarios : fila[v].vinculo # g
        /\ \A q \in Procesos :
             /\ EnCurso(q) => leida[q].vinculo # g
             /\ fase[q] = "guardarNuevo" /\ q # p => nuevo[q].vinculo # g
    BY <1>1 DEF Reciente
  <2>4. nuevo[p].gen \in Nat
    BY DEF TypeOK, Token, Generaciones
  <2> HIDE DEF u, g
  <2>5. Ocupacion'
    BY <1>1, <2>1 DEF Ocupacion, Sigue, Siguiente
  <2>6. Reciente'
    BY <1>1, <2>1, <2>2, <2>3 DEF Reciente, Sigue
  <2>7. Reparto'
    BY <1>1, <2>1, <2>2, <2>3 DEF Reparto, VinculoExclusivo, Sigue
  <2>8. Orden'
    <3>1. \A v \in Usuarios : Activa(v)' /\ vigente'[fila'[v].vinculo] # 0 =>
                              fila'[v].gen <= vigente'[fila'[v].vinculo]
      BY <1>1, <2>2, <2>3, <2>4 DEF Orden
    <3>2. ASSUME NEW q \in Procesos, EnCurso(q)', leida'[q].vinculo = fila'[usuario'[q]].vinculo
          PROVE  EnCurso(q) /\ Sigue(q) /\ fila'[usuario[q]] = fila[usuario[q]]
      <4>1. q # p /\ EnCurso(q) /\ Sigue(q) /\ usuario[q] \in Usuarios
        BY <2>1, <3>2 DEF Sigue, Ocupacion
      <4>2. usuario[q] # u
        BY <2>2, <2>3, <3>2, <4>1 DEF Sigue
      <4>3. QED
        BY <2>2, <4>1, <4>2
    <3>3. \A q \in Procesos : fase'[q] = "guardar" => fase[q] = "guardar" /\ Sigue(q)
      BY <2>1 DEF Sigue
    <3>4. QED
      BY <1>1, <3>1, <3>2, <3>3 DEF Orden, Sigue
  <2>9. VinculoVigente'
    <3> SUFFICES ASSUME NEW v \in Usuarios, Activa(v)', fila'[v].gen # 0,
                        vigente[fila'[v].vinculo] # 0, fila'[v].vinculo \notin perdidos
                 PROVE  Vivo(v)'
      BY <1>1 DEF VinculoVigente
    <3>1. CASE v # u
      <4>1. Vivo(v) /\ fila'[v] = fila[v]
        BY <2>2, <3>1 DEF VinculoVigente
      <4>2. \A q \in Procesos : TieneVigente(q, v) => q # p
        BY <1>1 DEF TieneVigente
      <4>3. QED
        BY <1>1, <2>1, <4>1, <4>2 DEF Vivo, Aceptado, TieneVigente, Sigue
    <3>2. CASE v = u
      BY <1>1, <2>2, <2>3, <3>2 DEF Vivo, Aceptado
    <3>3. QED
      BY <3>1, <3>2
  <2>10. QED
    BY <2>5, <2>6, <2>7, <2>8, <2>9
<1>4. QED
  BY <1>2, <1>3 DEF GuardarNuevo

LEMMA RevocarConserva ==
  ASSUME TypeOK, Enlazado, NEW p \in Procesos, Revocar(p)
  PROVE  Enlazado'
<1> DEFINE u == usuario[p]
<1> USE DEF Enlazado, EnCurso, Emitidos, Activa
<1>1. /\ fase[p] = "revocar" /\ u \in Usuarios
      /\ UNCHANGED <<vigente, titular, perdidos>> /\ Terminar(p, u, "ok")
  BY DEF Revocar, Ocupacion, autodesk
<1>2. fase'[p] = "fin" /\ usuario'[p] = u /\ \A q \in Procesos \ {p} : Sigue(q)
  BY <1>1 DEF Terminar, Sigue, TypeOK
<1>3. CASE fila' = fila
  <2>1. Suelta
    BY <1>1, <1>3, TerminarSuelta DEF Resultados
  <2>2. QED
    BY <2>1, SueltaConserva
<1>4. CASE fila' = [fila EXCEPT ![u] = SinFila]
  <2>1. fila'[u].vinculo = SinVinculo /\ \A v \in Usuarios : v # u => fila'[v] = fila[v]
    BY <1>1, <1>4 DEF TypeOK, SinFila
  <2>2. \A q \in Procesos : EnCurso(q) \/ fase[q] = "guardarNuevo" => q # p
    BY <1>1
  <2>3. \A q \in Procesos : EnCurso(q) => leida[q].vinculo # SinVinculo
    BY ConstantesAcc DEF Ocupacion
  <2>4. \A q \in Procesos : fase[q] = "guardarNuevo" => nuevo[q].vinculo # SinVinculo
    BY ConstantesAcc DEF Reciente
  <2> HIDE DEF u
  <2>5. Ocupacion'
    BY <1>1, <1>2 DEF Ocupacion, Sigue, Siguiente
  <2>6. Reciente'
    BY <1>1, <1>2, <2>1, <2>4 DEF Reciente, Sigue
  <2>7. Reparto'
    BY <1>1, <1>2, <2>1, <2>3 DEF Reparto, VinculoExclusivo, Sigue
  <2>8. Orden'
    <3>1. \A v \in Usuarios : Activa(v)' => v # u /\ fila'[v] = fila[v]
      BY <2>1
    <3>2. ASSUME NEW q \in Procesos, EnCurso(q)', leida'[q].vinculo = fila'[usuario'[q]].vinculo
          PROVE  EnCurso(q) /\ Sigue(q) /\ fila'[usuario[q]] = fila[usuario[q]]
      BY <1>2, <2>1, <2>3, <3>2 DEF Sigue, Ocupacion
    <3>3. \A q \in Procesos : fase'[q] = "guardar" => fase[q] = "guardar" /\ Sigue(q)
      BY <1>2 DEF Sigue
    <3>4. QED
      BY <1>1, <3>1, <3>2, <3>3 DEF Orden, Sigue
  <2>9. VinculoVigente'
    BY <1>1, <1>2, <2>1, <2>2 DEF VinculoVigente, Vivo, Aceptado, TieneVigente, Sigue
  <2>10. QED
    BY <2>5, <2>6, <2>7, <2>8, <2>9
<1>5. QED
  BY <1>3, <1>4 DEF Revocar

LEMMA EntornoConserva ==
  ASSUME TypeOK, Enlazado, Entorno
  PROVE  Enlazado'
<1> USE DEF Enlazado, EnCurso, Emitidos, Activa
<1>1. ASSUME NEW u \in Usuarios, Vencer(u)
      PROVE  Enlazado'
  <2>1. /\ UNCHANGED <<vigente, titular, perdidos, fase, usuario, leida, nuevo>>
        /\ \A v \in Usuarios : fila'[v].vinculo = fila[v].vinculo /\ fila'[v].gen = fila[v].gen
    BY <1>1 DEF Vencer, autodesk, peticion, TypeOK, Fila
  <2>2. Ocupacion' /\ Reciente' /\ Reparto'
    BY <2>1 DEF Ocupacion, Reciente, Reparto, VinculoExclusivo, Siguiente
  <2>3. Orden'
    BY <2>1 DEF Orden, Ocupacion
  <2>4. VinculoVigente'
    BY <2>1 DEF VinculoVigente, Vivo, Aceptado, TieneVigente
  <2>5. QED
    BY <2>2, <2>3, <2>4
<1>2. ASSUME NEW g \in Vinculos, Caducar(g)
      PROVE  Enlazado'
  <2>1. /\ UNCHANGED <<fila, titular, perdidos, fase, usuario, leida, nuevo>>
        /\ vigente'[g] = 0 /\ \A h \in Vinculos : h # g => vigente'[h] = vigente[h]
    BY <1>2 DEF Caducar, peticion, TypeOK
  <2>2. \A u \in Usuarios : Activa(u) => fila[u].vinculo \in Vinculos
    BY DEF Reparto
  <2>3. \A q \in Procesos : /\ EnCurso(q) => leida[q].vinculo \in Vinculos
                            /\ fase[q] = "guardarNuevo" => nuevo[q].vinculo \in Vinculos
    BY DEF Ocupacion, Reciente
  <2>4. Ocupacion' /\ Reparto'
    BY <2>1 DEF Ocupacion, Reparto, VinculoExclusivo, Siguiente
  <2>5. Reciente'
    BY <2>1, <2>3 DEF Reciente
  <2>6. Orden'
    BY <2>1, <2>2, <2>3 DEF Orden
  <2>7. VinculoVigente'
    <3>1. ASSUME NEW u \in Usuarios, Activa(u), vigente'[fila[u].vinculo] # 0
          PROVE  vigente'[fila[u].vinculo] = vigente[fila[u].vinculo]
      BY <2>1, <2>2, <3>1
    <3>2. QED
      BY <2>1, <3>1 DEF VinculoVigente, Vivo, Aceptado, TieneVigente
  <2>8. QED
    BY <2>4, <2>5, <2>6, <2>7
<1>3. CASE Reiniciar
  <2>1. UNCHANGED <<fila, vigente, titular>> /\ perdidos \subseteq perdidos'
    BY <1>3 DEF Reiniciar, autodesk
  <2>2. ASSUME NEW q \in Procesos
        PROVE  fase'[q] = "libre" /\ (fase[q] = "guardar" /\ Rota => leida[q].vinculo \in perdidos')
    BY <1>3 DEF Reiniciar
  <2>3. Suelta
    BY <2>1, <2>2 DEF Suelta
  <2>4. QED
    BY <2>3, SueltaConserva
<1>4. QED
  BY <1>1, <1>2, <1>3 DEF Entorno

-----------------------------------------------------------------------------
LEMMA IInvInicial == Init => IInv
<1> SUFFICES ASSUME Init
             PROVE  IInv
  OBVIOUS
<1> USE DEF Init
<1>1. PICK previo \in [Usuarios -> Vinculos \union {SinVinculo}] :
        /\ \A u, v \in Usuarios : previo[u] = previo[v] /\ u # v => previo[u] = SinVinculo
        /\ fila = [u \in Usuarios |->
                     IF previo[u] = SinVinculo THEN SinFila
                     ELSE [vinculo |-> previo[u], gen |-> 1, vencido |-> FALSE]]
        /\ vigente = [g \in Vinculos |-> IF \E u \in Usuarios : previo[u] = g THEN 1 ELSE 0]
        /\ titular = [g \in Vinculos |->
                        IF \E u \in Usuarios : previo[u] = g
                        THEN CHOOSE u \in Usuarios : previo[u] = g
                        ELSE SinUsuario]
  OBVIOUS
<1>2. \A g \in Vinculos : (\E u \in Usuarios : previo[u] = g) =>
                             titular[g] \in Usuarios /\ vigente[g] = 1
  BY <1>1
<1>3. \A p \in Procesos : fase[p] = "libre"
  OBVIOUS
<1>4. \A u \in Usuarios : /\ fila[u].vinculo = previo[u]
                          /\ Activa(u) => fila[u].gen = 1 /\ fila[u].vinculo \in Vinculos
  BY <1>1 DEF SinFila, Activa
<1>5. TypeOK
  <2>1. fila \in [Usuarios -> Fila]
    <3>1. 1 \in Generaciones
      BY ConstantesAcc DEF Generaciones
    <3>2. \A u \in Usuarios : [vinculo |-> previo[u], gen |-> 1, vencido |-> FALSE] \in Fila
      BY <3>1, TokensBienFormados
    <3>3. QED
      BY <1>1, <3>2, TokensBienFormados
  <2>2. vigente \in [Vinculos -> Generaciones]
    BY <1>1, ConstantesAcc DEF Generaciones
  <2>3. titular \in [Vinculos -> Usuarios \union {SinUsuario}]
    <3>1. \A g \in Vinculos : titular[g] \in Usuarios \union {SinUsuario}
      BY <1>1, <1>2
    <3>2. QED
      BY <1>1, <3>1
  <2>4. QED
    BY <2>1, <2>2, <2>3, TokensBienFormados DEF TypeOK, Fases, Resultados, CronParado
<1>6. Ocupacion /\ Reciente
  BY <1>3 DEF Ocupacion, Reciente, EnCurso
<1>7. Reparto
  <2>1. \A u \in Usuarios : Activa(u) => fila[u].vinculo \in Emitidos
    BY <1>2, <1>4, ConstantesAcc DEF Emitidos
  <2>2. VinculoExclusivo
    BY <1>1, <1>4 DEF VinculoExclusivo, Activa
  <2>3. QED
    BY <1>3, <2>1, <2>2 DEF Reparto, EnCurso
<1>8. \A u \in Usuarios : Activa(u) => fila[u].gen = 1 /\ vigente[fila[u].vinculo] = 1
  BY <1>2, <1>4
<1>9. Orden /\ VinculoVigente
  BY <1>3, <1>8 DEF Orden, VinculoVigente, Vivo, Aceptado, EnCurso
<1>10. QED
  BY <1>5, <1>6, <1>7, <1>9 DEF IInv

LEMMA IInvPaso == IInv /\ [Next]_vars => IInv'
<1> SUFFICES ASSUME IInv, [Next]_vars
             PROVE  IInv'
  OBVIOUS
<1>1. TypeOK /\ Enlazado
  BY DEF IInv, Enlazado
<1>2. TypeOK'
  BY <1>1, Tipos DEF Enlazado
<1>3. ASSUME NEW p \in Procesos
      PROVE  fase[p] # "libre" => usuario[p] \in Usuarios
  BY <1>1 DEF Enlazado, Ocupacion
<1>4. ASSUME NEW p \in Procesos, Refresco(p)
      PROVE  Enlazado'
  <2>1. CASE RefrescarRechazado(p) \/ RefrescarFalla(p) \/ GuardarFalla(p)
    <3>1. Suelta
      BY <1>1, <1>3, <2>1, TerminarSuelta
      DEF RefrescarRechazado, RefrescarFalla, GuardarFalla, autodesk, Resultados
    <3>2. QED
      BY <1>1, <3>1, SueltaConserva
  <2>2. QED
    BY <1>1, <1>4, <2>1, RefrescarOkConserva, GuardarConserva DEF Refresco
<1>5. ASSUME NEW p \in Peticiones, Peticion(p)
      PROVE  Enlazado'
  <2> p \in Procesos
    BY DEF Procesos
  <2>1. ASSUME NEW u \in Usuarios, PedirRefresco(p, u)
        PROVE  Enlazado'
    BY <1>1, <2>1, LeerConserva DEF PedirRefresco, autodesk
  <2>2. ASSUME NEW u \in Usuarios, PedirTokenValido(p, u)
        PROVE  Enlazado'
    <3>1. UNCHANGED <<fila, vigente, titular, perdidos>>
      BY <2>2 DEF PedirTokenValido, autodesk
    <3>2. CASE fase[p] = "libre" /\ Terminar(p, u, "token")
      <4>1. Suelta
        BY <1>1, <3>1, <3>2, TerminarSuelta DEF Resultados
      <4>2. QED
        BY <1>1, <4>1, SueltaConserva
    <3>3. QED
      BY <1>1, <2>2, <3>1, <3>2, LeerConserva DEF PedirTokenValido
  <2>3. ASSUME NEW u \in Usuarios, LeerParaRevocar(p, u)
        PROVE  Enlazado'
    <3>1. UNCHANGED <<fila, vigente, titular, perdidos>> /\ fase[p] = "libre"
      BY <2>3 DEF LeerParaRevocar, autodesk
    <3>2. Suelta
      BY <1>1, <2>3, <3>1, TerminarSuelta, EsperarSuelta DEF LeerParaRevocar, Resultados
    <3>3. QED
      BY <1>1, <3>2, SueltaConserva
  <2>4. CASE RecibirCallback(p)
    <3>1. UNCHANGED <<fila, vigente, titular, perdidos>> /\ fase[p] = "libre"
      BY <2>4 DEF RecibirCallback, autodesk
    <3>2. Suelta
      BY <1>1, <2>4, <3>1, TerminarSuelta, EsperarSuelta, ConstantesAcc
      DEF RecibirCallback, Resultados
    <3>3. QED
      BY <1>1, <3>2, SueltaConserva
  <2>5. CASE ResponderPeticion(p)
    <3>1. Suelta
      BY <1>1, <2>5 DEF ResponderPeticion, Responder, autodesk, Suelta, Sigue, TypeOK
    <3>2. QED
      BY <1>1, <3>1, SueltaConserva
  <2>6. QED
    BY <1>1, <1>5, <2>1, <2>2, <2>3, <2>4, <2>5,
       CanjearConserva, GuardarNuevoConserva, RevocarConserva DEF Peticion
<1>6. ASSUME CronPaso
      PROVE  Enlazado'
  <2> Cron \in Procesos
    BY DEF Procesos
  <2>1. CASE CronListar \/ CronTerminar
    <3>1. Suelta
      BY <2>1 DEF CronListar, CronTerminar, autodesk, peticion, Suelta, Sigue
    <3>2. QED
      BY <1>1, <3>1, SueltaConserva
  <2>2. CASE CronRefrescar
    <3>1. PICK u \in cron.pend : LeerParaRefrescar(Cron, u)
      BY <2>2 DEF CronRefrescar
    <3>2. u \in Usuarios
      BY <1>1, <3>1 DEF TypeOK
    <3>3. UNCHANGED <<fila, vigente, titular, perdidos>>
      BY <2>2 DEF CronRefrescar, autodesk
    <3>4. QED
      BY <1>1, <3>1, <3>2, <3>3, LeerConserva
  <2>3. CASE CronAnotar
    <3>1. Suelta
      BY <1>1, <2>3 DEF CronAnotar, Responder, autodesk, Suelta, Sigue, TypeOK
    <3>2. QED
      BY <1>1, <3>1, SueltaConserva
  <2>4. QED
    BY <1>6, <2>1, <2>2, <2>3 DEF CronPaso
<1>7. ASSUME UNCHANGED vars
      PROVE  Enlazado'
  <2>1. Suelta
    BY <1>7 DEF vars, Suelta, Sigue
  <2>2. QED
    BY <1>1, <2>1, SueltaConserva
<1>8. Enlazado'
  BY <1>1, <1>4, <1>5, <1>6, <1>7, EntornoConserva DEF Next
<1>9. QED
  BY <1>2, <1>8 DEF IInv, Enlazado

(* Every behaviour keeps the inductive invariant.                          *)
THEOREM InvarianteInductivo == Spec => []IInv
BY IInvInicial, IInvPaso, PTL DEF Spec

(* The variables keep their types: a stored token, a token in flight and   *)
(* the cron's lists are always well formed.                                *)
THEOREM TiposCorrectos == Spec => []TypeOK
<1>1. IInv => TypeOK
  BY DEF IInv
<1>2. QED
  BY <1>1, InvarianteInductivo, PTL

(* However many refreshes race for a user's single-use refresh token, a    *)
(* link is unusable only for a reason outside that race: Autodesk ended    *)
(* the grant, or a rotated token was lost before it could be stored.       *)
THEOREM VigenciaDelVinculo == Spec => []VinculoVigente
<1>1. IInv => VinculoVigente
  BY DEF IInv
<1>2. QED
  BY <1>1, InvarianteInductivo, PTL

(* No grant is ever stored for two users.                                  *)
THEOREM ExclusividadDelVinculo == Spec => []VinculoExclusivo
<1>1. IInv => VinculoExclusivo
  BY DEF IInv, Reparto
<1>2. QED
  BY <1>1, InvarianteInductivo, PTL

-----------------------------------------------------------------------------
(* A late write never undoes a newer one.                                  *)
THEOREM EscriturasSinRetroceso == Spec => SinRetroceso
<1> DEFINE Paso ==
      \A u \in Usuarios :
       /\ Activa(u) /\ fila'[u].vinculo = fila[u].vinculo => fila'[u].gen >= fila[u].gen
       /\ fila'[u].vinculo \notin {fila[u].vinculo, SinVinculo} =>
            \E p \in Procesos : fase[p] = "guardarNuevo" /\ nuevo[p].vinculo = fila'[u].vinculo
<1>1. IInv /\ [Next]_vars => [Paso]_vars
  <2> SUFFICES ASSUME IInv, Next
               PROVE  Paso
    BY DEF vars
  <2>1. \A u \in Usuarios : fila[u].gen \in Nat
    BY DEF IInv, TypeOK, Fila, Generaciones
  <2>2. CASE fila' = fila
    BY <2>1, <2>2
  <2>3. ASSUME NEW p \in Procesos, Guardar(p)
        PROVE  Paso
    <3>1. fase[p] = "guardar" /\ usuario[p] \in Usuarios
      BY <2>3 DEF Guardar, IInv, Ocupacion
    <3>2. CASE fila[usuario[p]].vinculo = leida[p].vinculo
      <4>1. fila[usuario[p]].gen = leida[p].gen /\ nuevo[p].gen = Siguiente(leida[p].gen)
        BY <3>1, <3>2 DEF IInv, Orden, Ocupacion, EnCurso
      <4>2. nuevo[p].gen >= fila[usuario[p]].gen
        BY <2>1, <3>1, <4>1 DEF Siguiente
      <4>3. /\ fila'[usuario[p]].vinculo = leida[p].vinculo
            /\ fila'[usuario[p]].gen = nuevo[p].gen
            /\ \A u \in Usuarios : u # usuario[p] => fila'[u] = fila[u]
        BY <2>3, <3>1, <3>2 DEF Guardar, IInv, TypeOK
      <4>4. QED
        BY <2>1, <3>2, <4>2, <4>3
    <3>3. QED
      BY <2>2, <2>3, <3>2 DEF Guardar
  <2>4. ASSUME NEW p \in Peticiones, GuardarNuevo(p)
        PROVE  Paso
    <3>1. p \in Procesos /\ fase[p] = "guardarNuevo" /\ usuario[p] \in Usuarios
      BY <2>4 DEF GuardarNuevo, IInv, Ocupacion, Procesos
    <3>2. \A u \in Usuarios : fila[u].vinculo # nuevo[p].vinculo
      BY <3>1 DEF IInv, Reciente
    <3>3. \A u \in Usuarios : fila'[u] = fila[u] \/ fila'[u].vinculo = nuevo[p].vinculo
      BY <2>4, <3>1 DEF GuardarNuevo, IInv, TypeOK
    <3>4. QED
      BY <2>1, <3>1, <3>2, <3>3
  <2>5. ASSUME NEW p \in Peticiones, Revocar(p)
        PROVE  Paso
    <3>1. \A u \in Usuarios : fila'[u] = fila[u] \/ fila'[u].vinculo = SinVinculo
      BY <2>5 DEF Revocar, IInv, TypeOK, SinFila
    <3>2. QED
      BY <2>1, <3>1 DEF Activa
  <2>6. ASSUME NEW u \in Usuarios, Vencer(u)
        PROVE  Paso
    <3>1. \A v \in Usuarios : fila'[v].vinculo = fila[v].vinculo /\ fila'[v].gen = fila[v].gen
      BY <2>6 DEF Vencer, IInv, TypeOK, Fila
    <3>2. QED
      BY <2>1, <3>1
  <2>7. ASSUME NEW p \in Procesos, Refresco(p), ~Guardar(p)
        PROVE  fila' = fila
    BY <2>7 DEF Refresco, RefrescarOk, RefrescarRechazado, RefrescarFalla, GuardarFalla
  <2>8. ASSUME NEW p \in Peticiones, Peticion(p), ~GuardarNuevo(p), ~Revocar(p)
        PROVE  fila' = fila
    BY <2>8 DEF Peticion, PedirRefresco, PedirTokenValido, LeerParaRevocar, RecibirCallback,
                Canjear, ResponderPeticion
  <2>9. CronPaso => fila' = fila
    BY DEF CronPaso, CronListar, CronRefrescar, CronAnotar, CronTerminar
  <2>10. Entorno => fila' = fila \/ \E u \in Usuarios : Vencer(u)
    BY DEF Entorno, Caducar, Reiniciar
  <2> HIDE DEF Paso
  <2>11. QED
    BY <2>2, <2>3, <2>4, <2>5, <2>6, <2>7, <2>8, <2>9, <2>10 DEF Next
<1>2. QED
  BY <1>1, InvarianteInductivo, PTL DEF Spec, SinRetroceso

-----------------------------------------------------------------------------
(***************************************************************************)
(* Refinement: what happens to the users' links, seen as EnlaceAcc.  Most  *)
(* steps only let links die and consents be forgotten.                     *)
(***************************************************************************)
Decae ==
  /\ UNCHANGED titular
  /\ PorGuardar' \subseteq PorGuardar
  /\ \A u \in Usuarios : /\ fila'[u].vinculo = fila[u].vinculo
                         /\ Vivo(u)' => Vivo(u)

LEMMA DecaeImplementa ==
  ASSUME Decae
  PROVE  Enlace!Next
<1> DEFINE caidos == {u \in Usuarios : ~Vivo(u)'}
           olvidados == PorGuardar \ PorGuardar'
<1>1. ASSUME NEW u \in Usuarios
      PROVE  Estado(u)' = [vinculo |-> Estado(u).vinculo,
                           vivo |-> Estado(u).vivo /\ u \notin caidos]
  <2>1. Estado(u)' = [vinculo |-> fila[u].vinculo, vivo |-> Vivo(u)']
    BY DEF Decae, Estado
  <2>2. Estado(u).vinculo = fila[u].vinculo /\ Estado(u).vivo = Vivo(u)
    BY DEF Estado
  <2>3. (Vivo(u))' \in BOOLEAN
    BY DEF Vivo
  <2>4. Vivo(u)' <=> Vivo(u) /\ u \notin caidos
    BY DEF Decae
  <2>5. Vivo(u)' = (Estado(u).vivo /\ u \notin caidos)
    BY <2>2, <2>3, <2>4
  <2> HIDE DEF caidos
  <2>6. QED
    BY <2>1, <2>2, <2>5, Zenon
<1>4. Emitidos' = Emitidos
  BY DEF Decae, Emitidos
<1>5. PorGuardar' = PorGuardar \ olvidados
  BY DEF Decae
<1> HIDE DEF caidos
<1>6. [u \in Usuarios |-> Estado(u)]' =
        [u \in Usuarios |->
           [vinculo |-> [v \in Usuarios |-> Estado(v)][u].vinculo,
            vivo |-> [v \in Usuarios |-> Estado(v)][u].vivo /\ u \notin caidos]]
  BY <1>1, Zenon
<1> HIDE DEF olvidados
<1>7. Enlace!Decaer(caidos, olvidados)
  BY <1>4, <1>5, <1>6 DEF Enlace!Decaer
<1>8. QED
  BY <1>7 DEF Enlace!Next, caidos, olvidados

(* The requests other than p are as they were.                             *)
LEMMA OtrosSiguen ==
  ASSUME TypeOK, NEW p \in Procesos, NEW f, NEW u, NEW l, NEW n, NEW r,
         Esperar(p, f, u, l, n) \/ Terminar(p, u, r)
  PROVE  /\ fase'[p] \in {f, "fin"}
         /\ \A q \in Procesos \ {p} : Sigue(q)
BY DEF Esperar, Terminar, Sigue, TypeOK

(* A request ends, or waits for something else than a row to store in.     *)
LEMMA ControlDecae ==
  ASSUME TypeOK, NEW p \in Procesos, fase'[p] \notin {"guardar", "guardarNuevo"},
         \A q \in Procesos \ {p} : Sigue(q), UNCHANGED <<fila, vigente, titular>>
  PROVE  Enlace!Next
<1>1. \A u \in Usuarios : Vivo(u)' => Vivo(u)
  BY DEF Vivo, Aceptado, TieneVigente, Activa, Sigue
<1>2. PorGuardar' \subseteq PorGuardar
  BY DEF PorGuardar, Sigue
<1>3. QED
  BY <1>1, <1>2, DecaeImplementa DEF Decae

LEMMA SueltaDecae ==
  ASSUME Suelta
  PROVE  Enlace!Next
<1>1. \A u \in Usuarios : Vivo(u)' => Vivo(u)
  BY DEF Suelta, Sigue, Vivo, Aceptado, TieneVigente, Activa
<1>2. PorGuardar' \subseteq PorGuardar
  BY DEF PorGuardar, Suelta, Sigue
<1>3. QED
  BY <1>1, <1>2, DecaeImplementa DEF Decae, Suelta

LEMMA LeerDecae ==
  ASSUME TypeOK, NEW p \in Procesos, NEW u \in Usuarios,
         LeerParaRefrescar(p, u), UNCHANGED <<fila, vigente, titular>>
  PROVE  Enlace!Next
<1>1. /\ fase'[p] \notin {"guardar", "guardarNuevo"}
      /\ \A q \in Procesos \ {p} : Sigue(q)
  BY DEF LeerParaRefrescar, Esperar, Terminar, Sigue, TypeOK
<1>2. QED
  BY <1>1, ControlDecae

LEMMA RefrescarOkDecae ==
  ASSUME IInv, NEW p \in Procesos, RefrescarOk(p)
  PROVE  Enlace!Next
<1> DEFINE g == leida[p].vinculo
           n == leida[p].gen
<1>1. /\ fase[p] = "pedir" /\ g \in Vinculos /\ n \in Nat \ {0} /\ vigente[g] = n
      /\ fila' = fila /\ vigente' = [vigente EXCEPT ![g] = Siguiente(n)] /\ titular' = titular
  BY ConstantesAcc DEF IInv, RefrescarOk, Aceptado, Ocupacion, EnCurso, Emitidos,
                       TypeOK, Token, Generaciones
<1>2. \A h \in Vinculos : h # g => vigente'[h] = vigente[h]
  BY <1>1 DEF IInv, TypeOK
<1>3. fase'[p] \in {"guardar", "fin"} /\ \A q \in Procesos \ {p} : Sigue(q)
  BY OtrosSiguen DEF RefrescarOk, IInv
<1>4. fase'[p] = "guardar" => leida'[p].vinculo = g
  BY DEF RefrescarOk, Esperar, Terminar, IInv, TypeOK
<1> HIDE DEF g, n
<1>5. ASSUME NEW u \in Usuarios, Activa(u)
      PROVE  Vivo(u)' => Vivo(u)
  <2>1. fila[u].vinculo \in Vinculos /\ fila[u].gen \in Nat
    BY <1>5 DEF IInv, Reparto, Emitidos, TypeOK, Fila, Generaciones
  <2>2. CASE fila[u].vinculo = g
    <3>1. usuario[p] = u
      BY <1>1, <2>2 DEF IInv, Reparto, EnCurso, g
    <3>2. n <= fila[u].gen
      BY <1>1, <2>2, <3>1 DEF IInv, Orden, EnCurso, g, n
    <3>3. fila[u].gen <= n
      BY <1>1, <1>5, <2>2 DEF IInv, Orden
    <3>4. fila[u].gen = vigente[g]
      BY <1>1, <2>1, <3>2, <3>3
    <3>5. QED
      BY <1>1, <1>5, <2>2, <3>4 DEF Vivo, Aceptado
  <2>3. CASE fila[u].vinculo # g
    BY <1>1, <1>2, <1>3, <1>4, <1>5, <2>1, <2>3 DEF Vivo, Aceptado, TieneVigente, Sigue, Activa
  <2>4. QED
    BY <2>2, <2>3
<1>6. \A u \in Usuarios : Vivo(u)' => Activa(u)
  BY <1>1 DEF Vivo, Activa
<1>7. PorGuardar' \subseteq PorGuardar
  BY <1>3 DEF PorGuardar, Sigue
<1>8. QED
  BY <1>1, <1>5, <1>6, <1>7, DecaeImplementa DEF Decae

LEMMA GuardarDecae ==
  ASSUME IInv, NEW p \in Procesos, Guardar(p)
  PROVE  Enlace!Next
<1> DEFINE u == usuario[p]
<1>1. /\ fase[p] = "guardar" /\ u \in Usuarios /\ leida[p].vinculo \in Vinculos
      /\ vigente' = vigente /\ titular' = titular
  BY DEF Guardar, autodesk, IInv, Ocupacion, EnCurso, Emitidos
<1>2. fase'[p] = "fin" /\ \A q \in Procesos \ {p} : Sigue(q)
  BY DEF Guardar, Terminar, Sigue, IInv, TypeOK
<1>3. CASE fila' = fila
  BY <1>1, <1>2, <1>3, ControlDecae DEF IInv
<1>4. CASE fila[u].vinculo = leida[p].vinculo
  <2>1. /\ fila'[u].vinculo = leida[p].vinculo /\ fila'[u].gen = nuevo[p].gen
        /\ \A v \in Usuarios : v # u => fila'[v] = fila[v]
    BY <1>1, <1>4 DEF Guardar, IInv, TypeOK
  <2>2. \A v \in Usuarios : fila'[v].vinculo = fila[v].vinculo
    BY <1>4, <2>1
  <2>3. \A v \in Usuarios : Activa(v)' <=> Activa(v)
    BY <2>2 DEF Activa
  <2> HIDE DEF u
  <2>4. ASSUME NEW v \in Usuarios, Vivo(v)'
        PROVE  Vivo(v)
    <3>1. Activa(v)
      BY <2>3, <2>4 DEF Vivo
    <3>2. ASSUME NEW q \in Procesos, TieneVigente(q, v)'
          PROVE  Vivo(v)
      BY <1>1, <1>2, <2>2, <3>1, <3>2 DEF Vivo, TieneVigente, Sigue
    <3>3. CASE fila'[v].gen # 0 /\ vigente[fila'[v].vinculo] = fila'[v].gen
      <4>1. CASE v = u
        BY <1>1, <1>4, <2>1, <3>1, <3>3, <4>1 DEF Vivo, TieneVigente
      <4>2. CASE v # u
        BY <2>1, <3>1, <3>3, <4>2 DEF Vivo, Aceptado
      <4>3. QED
        BY <4>1, <4>2
    <3>4. QED
      BY <1>1, <2>4, <3>2, <3>3 DEF Vivo, Aceptado
  <2>5. PorGuardar' \subseteq PorGuardar
    BY <1>2 DEF PorGuardar, Sigue
  <2>6. QED
    BY <1>1, <2>2, <2>4, <2>5, DecaeImplementa DEF Decae
<1>5. QED
  BY <1>3, <1>4 DEF Guardar

(* A consent not stored yet is in no row: the links do not see it.         *)
LEMMA CanjearConsiente ==
  ASSUME IInv, NEW p \in Procesos, Canjear(p)
  PROVE  Enlace!Next
<1>1. fila' = fila /\ fase[p] = "canjear"
  BY DEF Canjear
<1>2. CASE Terminar(p, usuario[p], "error") /\ UNCHANGED autodesk
  <2>1. fase'[p] = "fin" /\ \A q \in Procesos \ {p} : Sigue(q)
    BY <1>2 DEF Terminar, Sigue, IInv, TypeOK
  <2>2. QED
    BY <1>1, <1>2, <2>1, ControlDecae DEF IInv, autodesk
<1>3. ASSUME NEW g \in Vinculos \ Emitidos, NEW quien \in Usuarios, NEW n \in {0, 1},
             titular' = [titular EXCEPT ![g] = quien],
             vigente' = [vigente EXCEPT ![g] = n],
             Esperar(p, "guardarNuevo", usuario[p], SinToken, [vinculo |-> g, gen |-> n])
      PROVE  Enlace!Next
  <2>1. /\ fase'[p] = "guardarNuevo" /\ nuevo'[p].vinculo = g
        /\ \A q \in Procesos \ {p} : Sigue(q)
    BY <1>3 DEF Esperar, Sigue, IInv, TypeOK
  <2>2. PorGuardar' = PorGuardar \union {g}
    <3>1. PorGuardar' \subseteq PorGuardar \union {g}
      BY <2>1 DEF PorGuardar, Sigue
    <3>2. g \in PorGuardar'
      BY <2>1 DEF PorGuardar
    <3>3. PorGuardar \subseteq PorGuardar'
      BY <1>1, <2>1 DEF PorGuardar, Sigue
    <3>4. QED
      BY <3>1, <3>2, <3>3
  <2>3. Emitidos' = Emitidos \union {g}
    BY <1>3, ConstantesAcc DEF Emitidos, IInv, TypeOK
  <2>4. \A u \in Usuarios : Activa(u) => vigente'[fila[u].vinculo] = vigente[fila[u].vinculo]
    <3>1. \A u \in Usuarios : Activa(u) => fila[u].vinculo \in Emitidos
      BY DEF IInv, Reparto
    <3>2. QED
      BY <1>3, <3>1 DEF IInv, TypeOK, Emitidos
  <2>5. \A u \in Usuarios : Vivo(u)' <=> Vivo(u)
    BY <1>1, <2>1, <2>4 DEF Vivo, Aceptado, TieneVigente, Activa, Sigue
  <2>6. \A u \in Usuarios : Vivo(u) \in BOOLEAN /\ Vivo(u)' \in BOOLEAN
    BY DEF Vivo
  <2>7. \A u \in Usuarios : Estado(u)' = Estado(u)
    BY <1>1, <2>5, <2>6 DEF Estado
  <2>8. Enlace!Consentir(g)
    BY <2>2, <2>3, <2>7 DEF Enlace!Consentir
  <2>9. QED
    BY <2>8 DEF Enlace!Next
<1>4. QED
  BY <1>2, <1>3 DEF Canjear

(* A step that ends a request which has no renewed token in hand, and      *)
(* leaves a user's row alone, leaves the link of that user alone.          *)
LEMMA OtrosIgual ==
  ASSUME IInv, NEW p \in Procesos, fase[p] # "guardar", fase'[p] = "fin",
         \A q \in Procesos \ {p} : Sigue(q), vigente' = vigente,
         NEW v \in Usuarios, fila'[v] = fila[v]
  PROVE  Estado(v)' = Estado(v)
<1>1. Vivo(v)' <=> Vivo(v)
  BY DEF Vivo, Aceptado, TieneVigente, Activa, Sigue
<1>2. Vivo(v) \in BOOLEAN /\ Vivo(v)' \in BOOLEAN
  BY DEF Vivo
<1>3. QED
  BY <1>1, <1>2 DEF Estado

LEMMA GuardarNuevoVincula ==
  ASSUME IInv, NEW p \in Procesos, GuardarNuevo(p)
  PROVE  Enlace!Next
<1>0. PICK u \in Usuarios : u = usuario[p]
  BY DEF GuardarNuevo, IInv, Ocupacion
<1>1. /\ fase[p] = "guardarNuevo" /\ nuevo[p].vinculo \in Vinculos
      /\ vigente' = vigente /\ titular' = titular
  BY DEF GuardarNuevo, IInv, Reciente, Emitidos, autodesk
<1>2. fase'[p] = "fin" /\ \A q \in Procesos \ {p} : Sigue(q)
  BY DEF GuardarNuevo, Terminar, Sigue, IInv, TypeOK
<1>3. /\ \A v \in Usuarios : v # u => fila'[v] = fila[v]
      /\ fila' = fila \/ fila'[u].vinculo = nuevo[p].vinculo
  BY <1>0 DEF GuardarNuevo, IInv, TypeOK
<1>4. \A v \in Usuarios : v # u => Estado(v)' = Estado(v)
  BY <1>1, <1>2, <1>3, OtrosIgual
<1>5. CASE fila' = fila
  BY <1>1, <1>2, <1>5, ControlDecae DEF IInv
<1>6. ASSUME fila'[u].vinculo = nuevo[p].vinculo
      PROVE  Enlace!Next
  <2>1. PICK g \in Vinculos : g = nuevo[p].vinculo
    BY <1>1
  <2>2. PICK b \in BOOLEAN : b = Vivo(u)'
    BY DEF Vivo
  <2>3. Estado(u)' = [vinculo |-> g, vivo |-> b]
    BY <1>6, <2>1, <2>2 DEF Estado
  <2>4. [v \in Usuarios |-> Estado(v)]' =
          [[v \in Usuarios |-> Estado(v)] EXCEPT ![u] = [vinculo |-> g, vivo |-> b]]
    BY <1>4, <2>3
  <2>5. g \in PorGuardar
    BY <1>1, <2>1 DEF PorGuardar
  <2>6. PorGuardar' = PorGuardar \ {g}
    <3>1. \A q \in Procesos \ {p} : fase[q] = "guardarNuevo" => nuevo[q].vinculo # g
      BY <1>1, <2>1 DEF IInv, Reciente
    <3>2. \A q \in Procesos : fase'[q] = "guardarNuevo" =>
                                q # p /\ fase[q] = "guardarNuevo" /\ nuevo'[q] = nuevo[q]
      BY <1>2 DEF Sigue
    <3>3. PorGuardar' \subseteq PorGuardar \ {g}
      BY <3>1, <3>2 DEF PorGuardar
    <3>4. PorGuardar \ {g} \subseteq PorGuardar'
      BY <1>2, <2>1 DEF PorGuardar, Sigue
    <3>5. QED
      BY <3>3, <3>4
  <2>7. Emitidos' = Emitidos
    BY <1>1 DEF Emitidos
  <2>8. Enlace!Vincular(u)
    BY <2>4, <2>5, <2>6, <2>7 DEF Enlace!Vincular
  <2>9. QED
    BY <2>8 DEF Enlace!Next
<1>7. QED
  BY <1>3, <1>5, <1>6

LEMMA RevocarDesvincula ==
  ASSUME IInv, NEW p \in Procesos, Revocar(p)
  PROVE  Enlace!Next
<1>0. PICK u \in Usuarios : u = usuario[p]
  BY DEF Revocar, IInv, Ocupacion
<1>1. fase[p] = "revocar" /\ vigente' = vigente /\ titular' = titular
  BY DEF Revocar, autodesk
<1>2. fase'[p] = "fin" /\ \A q \in Procesos \ {p} : Sigue(q)
  BY DEF Revocar, Terminar, Sigue, IInv, TypeOK
<1>3. /\ \A v \in Usuarios : v # u => fila'[v] = fila[v]
      /\ fila' = fila \/ fila'[u].vinculo = SinVinculo
  BY <1>0 DEF Revocar, IInv, TypeOK, SinFila
<1>4. \A v \in Usuarios : v # u => Estado(v)' = Estado(v)
  BY <1>1, <1>2, <1>3, OtrosIgual
<1>5. CASE fila' = fila
  BY <1>1, <1>2, <1>5, ControlDecae DEF IInv
<1>6. ASSUME fila' # fila
      PROVE  Enlace!Next
  <2>1. fila'[u].vinculo = SinVinculo
    BY <1>3, <1>6
  <2>2. Estado(u)' = [vinculo |-> SinVinculo, vivo |-> FALSE]
    BY <2>1 DEF Estado, Vivo, Activa
  <2>3. PorGuardar' = PorGuardar
    <3>1. PorGuardar' \subseteq PorGuardar
      BY <1>2 DEF PorGuardar, Sigue
    <3>2. PorGuardar \subseteq PorGuardar'
      BY <1>1, <1>2 DEF PorGuardar, Sigue
    <3>3. QED
      BY <3>1, <3>2
  <2>4. Emitidos' = Emitidos
    BY <1>1 DEF Emitidos
  <2>5. CASE Activa(u)
    <3>1. Estado(u) # Enlace!Ninguno
      BY <2>5 DEF Estado, Activa, Enlace!Ninguno
    <3>2. [v \in Usuarios |-> Estado(v)]' =
            [[v \in Usuarios |-> Estado(v)] EXCEPT ![u] = Enlace!Ninguno]
      BY <1>4, <2>2 DEF Enlace!Ninguno
    <3>3. Enlace!Desvincular(u)
      BY <2>3, <2>4, <3>1, <3>2 DEF Enlace!Desvincular
    <3>4. QED
      BY <3>3 DEF Enlace!Next
  <2>6. CASE ~Activa(u)
    <3>1. \A v \in Usuarios : Estado(v)' = Estado(v)
      BY <1>4, <2>2, <2>6 DEF Estado, Vivo, Activa
    <3>2. \A v \in Usuarios : fila'[v].vinculo = fila[v].vinculo /\ (Vivo(v)' => Vivo(v))
      BY <1>1, <1>2, <1>3, <2>1, <2>6
      DEF Vivo, Activa, Aceptado, TieneVigente, Sigue
    <3>3. QED
      BY <1>1, <2>3, <3>2, DecaeImplementa DEF Decae
  <2>7. QED
    BY <2>5, <2>6
<1>7. QED
  BY <1>5, <1>6

LEMMA EntornoDecae ==
  ASSUME IInv, Entorno
  PROVE  Enlace!Next
<1>1. ASSUME NEW u \in Usuarios, Vencer(u)
      PROVE  Enlace!Next
  <2>1. \A v \in Usuarios : fila'[v].vinculo = fila[v].vinculo /\ fila'[v].gen = fila[v].gen
    BY <1>1 DEF Vencer, IInv, TypeOK, Fila
  <2>2. \A v \in Usuarios : Vivo(v)' => Vivo(v)
    BY <1>1, <2>1 DEF Vencer, autodesk, peticion, Vivo, Aceptado, TieneVigente, Activa
  <2>3. PorGuardar' = PorGuardar /\ titular' = titular
    BY <1>1 DEF Vencer, autodesk, peticion, PorGuardar
  <2>4. QED
    BY <2>1, <2>2, <2>3, DecaeImplementa DEF Decae
<1>2. ASSUME NEW g \in Vinculos, Caducar(g)
      PROVE  Enlace!Next
  <2>1. \A v \in Usuarios : Activa(v) => fila[v].vinculo \in Vinculos
    BY DEF IInv, Reparto, Emitidos
  <2>2. \A h \in Vinculos : vigente'[h] \in {0, vigente[h]}
    BY <1>2 DEF Caducar, IInv, TypeOK
  <2>3. \A v \in Usuarios : Vivo(v)' => Vivo(v)
    BY <1>2, <2>1, <2>2 DEF Caducar, peticion, Vivo, Aceptado, TieneVigente, Activa
  <2>4. PorGuardar' = PorGuardar /\ titular' = titular /\ fila' = fila
    BY <1>2 DEF Caducar, peticion, PorGuardar
  <2>5. QED
    BY <2>3, <2>4, DecaeImplementa DEF Decae
<1>3. CASE Reiniciar
  <2>1. \A q \in Procesos : fase'[q] = "libre"
    BY <1>3 DEF Reiniciar
  <2>2. \A v \in Usuarios : Vivo(v)' => Vivo(v)
    BY <1>3, <2>1 DEF Reiniciar, autodesk, Vivo, Aceptado, TieneVigente, Activa
  <2>3. PorGuardar' = {} /\ titular' = titular /\ fila' = fila
    BY <1>3, <2>1 DEF PorGuardar, Reiniciar, autodesk
  <2>4. QED
    BY <2>2, <2>3, DecaeImplementa DEF Decae
<1>4. QED
  BY <1>1, <1>2, <1>3 DEF Entorno

LEMMA PasoImplementa == IInv /\ Next => Enlace!Next
<1> SUFFICES ASSUME IInv, Next
             PROVE  Enlace!Next
  OBVIOUS
<1> USE DEF autodesk
<1>0. TypeOK
  BY DEF IInv
<1>1. ASSUME NEW p \in Procesos, Refresco(p)
      PROVE  Enlace!Next
  <2>1. CASE RefrescarRechazado(p) \/ RefrescarFalla(p) \/ GuardarFalla(p)
    <3>1. fase'[p] = "fin" /\ \A q \in Procesos \ {p} : Sigue(q)
      BY <1>0, <2>1 DEF RefrescarRechazado, RefrescarFalla, GuardarFalla, Terminar, Sigue, TypeOK
    <3>2. QED
      BY <1>0, <2>1, <3>1, ControlDecae DEF RefrescarRechazado, RefrescarFalla, GuardarFalla
  <2>2. QED
    BY <1>1, <2>1, RefrescarOkDecae, GuardarDecae DEF Refresco
<1>2. ASSUME NEW p \in Peticiones, Peticion(p)
      PROVE  Enlace!Next
  <2> p \in Procesos
    BY DEF Procesos
  <2>1. ASSUME NEW u \in Usuarios, PedirRefresco(p, u)
        PROVE  Enlace!Next
    BY <1>0, <2>1, LeerDecae DEF PedirRefresco
  <2>2. ASSUME NEW u \in Usuarios, PedirTokenValido(p, u)
        PROVE  Enlace!Next
    <3>1. CASE Terminar(p, u, "token")
      <4>1. fase'[p] = "fin" /\ \A q \in Procesos \ {p} : Sigue(q)
        BY <1>0, <3>1 DEF Terminar, Sigue, TypeOK
      <4>2. QED
        BY <1>0, <2>2, <4>1, ControlDecae DEF PedirTokenValido
    <3>2. QED
      BY <1>0, <2>2, <3>1, LeerDecae DEF PedirTokenValido
  <2>3. ASSUME NEW u \in Usuarios, LeerParaRevocar(p, u)
        PROVE  Enlace!Next
    <3>1. fase'[p] \in {"revocar", "fin"} /\ \A q \in Procesos \ {p} : Sigue(q)
      BY <1>0, <2>3 DEF LeerParaRevocar, Esperar, Terminar, Sigue, TypeOK
    <3>2. QED
      BY <1>0, <2>3, <3>1, ControlDecae DEF LeerParaRevocar
  <2>4. CASE RecibirCallback(p)
    <3>1. fase'[p] \in {"canjear", "fin"} /\ \A q \in Procesos \ {p} : Sigue(q)
      BY <1>0, <2>4 DEF RecibirCallback, Esperar, Terminar, Sigue, TypeOK
    <3>2. QED
      BY <1>0, <2>4, <3>1, ControlDecae DEF RecibirCallback
  <2>5. CASE ResponderPeticion(p)
    BY <1>0, <2>5, SueltaDecae DEF ResponderPeticion, Responder, Suelta, Sigue, TypeOK
  <2>6. QED
    BY <1>2, <2>1, <2>2, <2>3, <2>4, <2>5,
       CanjearConsiente, GuardarNuevoVincula, RevocarDesvincula DEF Peticion
<1>3. CASE CronPaso
  <2> Cron \in Procesos
    BY DEF Procesos
  <2>1. CASE CronListar \/ CronTerminar
    BY <2>1, SueltaDecae DEF CronListar, CronTerminar, peticion, Suelta, Sigue
  <2>2. CASE CronRefrescar
    BY <1>0, <2>2, LeerDecae DEF CronRefrescar, TypeOK
  <2>3. CASE CronAnotar
    BY <1>0, <2>3, SueltaDecae DEF CronAnotar, Responder, Suelta, Sigue, TypeOK
  <2>4. QED
    BY <1>3, <2>1, <2>2, <2>3 DEF CronPaso
<1>4. QED
  BY <1>1, <1>2, <1>3, EntornoDecae DEF Next

LEMMA InicioImplementa == Init => Enlace!Init
<1> SUFFICES ASSUME Init
             PROVE  Enlace!Init
  OBVIOUS
<1>1. IInv /\ perdidos = {} /\ \A p \in Procesos : fase[p] = "libre"
  BY IInvInicial DEF Init
<1>2. ASSUME NEW u \in Usuarios, Activa(u)
      PROVE  /\ fila[u].vinculo \in Emitidos
             /\ fila[u].gen = 1
             /\ vigente[fila[u].vinculo] # 0
  <2>1. fila[u].vinculo \in Emitidos /\ fila[u].vinculo \in Vinculos
    BY <1>1, <1>2 DEF IInv, Reparto, Emitidos
  <2>2. PICK previo \in [Usuarios -> Vinculos \union {SinVinculo}] :
          /\ fila = [v \in Usuarios |->
                       IF previo[v] = SinVinculo THEN SinFila
                       ELSE [vinculo |-> previo[v], gen |-> 1, vencido |-> FALSE]]
          /\ vigente = [g \in Vinculos |-> IF \E v \in Usuarios : previo[v] = g THEN 1 ELSE 0]
    BY DEF Init
  <2>3. fila[u].vinculo = previo[u] /\ fila[u].gen = 1
    BY <1>2, <2>2 DEF SinFila, Activa
  <2>4. QED
    BY <2>1, <2>2, <2>3
<1>3. ASSUME NEW u \in Usuarios
      PROVE  IF Activa(u) THEN Estado(u) = [vinculo |-> fila[u].vinculo, vivo |-> TRUE]
                          ELSE Estado(u) = Enlace!Ninguno
  <2>1. Activa(u) => Vivo(u) = TRUE
    BY <1>1, <1>2 DEF IInv, VinculoVigente, Vivo
  <2>2. ~Activa(u) => Vivo(u) = FALSE /\ fila[u].vinculo = SinVinculo
    BY DEF Vivo, Activa
  <2>3. QED
    BY <2>1, <2>2 DEF Estado, Enlace!Ninguno
<1>4. \A u \in Usuarios : Estado(u) \in [vinculo : Vinculos, vivo : {TRUE}]
                                          \union {Enlace!Ninguno}
  <2> SUFFICES ASSUME NEW u \in Usuarios
               PROVE  Estado(u) \in [vinculo : Vinculos, vivo : {TRUE}] \union {Enlace!Ninguno}
    OBVIOUS
  <2>1. CASE Activa(u)
    <3>1. fila[u].vinculo \in Vinculos
      BY <1>2, <2>1 DEF Emitidos
    <3>2. [vinculo |-> fila[u].vinculo, vivo |-> TRUE] \in [vinculo : Vinculos, vivo : {TRUE}]
      BY <3>1
    <3>3. QED
      BY <1>3, <2>1, <3>2
  <2>2. CASE ~Activa(u)
    BY <1>3, <2>2
  <2>3. QED
    BY <2>1, <2>2
<1>5. \A u, v \in Usuarios : u # v /\ Estado(u) # Enlace!Ninguno => Estado(u) # Estado(v)
  BY <1>1, <1>3 DEF IInv, Reparto, VinculoExclusivo, Estado
<1>6. Emitidos = {Estado(u).vinculo : u \in Usuarios} \ {SinVinculo}
  <2>1. ASSUME NEW g \in Emitidos
        PROVE  \E u \in Usuarios : fila[u].vinculo = g /\ g # SinVinculo
    BY ConstantesAcc DEF Init, Emitidos
  <2>2. \A u \in Usuarios : Estado(u).vinculo = fila[u].vinculo
    BY DEF Estado
  <2>3. Emitidos \subseteq {Estado(u).vinculo : u \in Usuarios} \ {SinVinculo}
    BY <2>1, <2>2
  <2>4. {Estado(u).vinculo : u \in Usuarios} \ {SinVinculo} \subseteq Emitidos
    BY <1>2, <2>2 DEF Activa
  <2>5. QED
    BY <2>3, <2>4
<1>7. PorGuardar = {}
  BY <1>1 DEF PorGuardar
<1>8. QED
  BY <1>4, <1>5, <1>6, <1>7 DEF Enlace!Init

(* The tokens, the races and the crashes of AccTokens are, for the users,  *)
(* the links of EnlaceAcc: a link that died or was revoked comes back only *)
(* with a consent given since, and no request touches two users' links.    *)
THEOREM ImplementaEnlace == Spec => EnlaceSpec
<1>1. [Next]_vars /\ IInv =>
        [Enlace!Next]_<<[u \in Usuarios |-> Estado(u)], Emitidos, PorGuardar>>
  <2>1. ASSUME UNCHANGED vars
        PROVE  UNCHANGED <<[u \in Usuarios |-> Estado(u)], Emitidos, PorGuardar>>
    BY <2>1 DEF vars, Estado, Activa, Vivo, Aceptado, TieneVigente, Emitidos, PorGuardar
  <2>2. QED
    BY <2>1, PasoImplementa
<1>2. QED
  BY <1>1, InicioImplementa, InvarianteInductivo, PTL DEF Spec, EnlaceSpec, Enlace!Spec
=============================================================================
