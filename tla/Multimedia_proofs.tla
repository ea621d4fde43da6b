-------------------------- MODULE Multimedia_proofs --------------------------
(***************************************************************************)
(* Theorems about Multimedia for any owners, cards, keys and requests.     *)
(***************************************************************************)
EXTENDS Multimedia, TLAPS

(***************************************************************************)
(* Cards and what has attachments, together: a key of Medios is named by   *)
(* cards, one of Claves by the rows of attachments.                        *)
(***************************************************************************)
Unicas == Medios \cup Claves
Duenos == Tarjetas \cup Anclajes

Nombra(d, k) ==
  \/ d \in Tarjetas /\ k \in Medios /\ tarjeta[d] = k
  \/ d \in Anclajes /\ k \in Claves /\ k \in adjunto[d]

Nombrada(k) == \E d \in Duenos : Nombra(d, k)

(* What a request holds at each of its steps.                              *)
Forma(r) ==
  /\ r.paso = "nueva" => r = Nueva
  /\ r.paso = "foto" => r.dueno \in Usuarios /\ r.clave \in Usuarios
  /\ r.paso \in {"foto", "registrar", "leer", "adjuntar", "deshacer"} => r.sobran = {}
  /\ r.paso = "registrar" => r.op \in {"crear", "editar"} /\ r.clave \in Medios
  /\ r.paso = "deshacer" => r.clave \in Objetos
  /\ r.paso \in {"registrar", "leer", "fila"} =>
       r.dueno \in Tarjetas /\ r.clave \in Medios \cup {Nada} /\ r.sobran \subseteq Medios
  /\ r.paso = "adjuntar" => r.dueno \in Anclajes /\ r.clave \in Claves
  /\ r.paso = "anclaje" => r.dueno \in Anclajes /\ r.sobran \subseteq Claves

Formas == TypeOK /\ \A p \in Peticiones : Forma(pet[p])

(***************************************************************************)
(* The life of a key that no client named twice.  It is held by the one    *)
(* request that uploaded it; until that request writes its row nobody      *)
(* names the key and nobody is to delete it; a request that is to delete   *)
(* it holds the only row that may name it, and once it deletes there is    *)
(* none.                                                                   *)
(***************************************************************************)
UnaPeticion(k) ==
  \A p, q \in Peticiones : pet[p].clave = k /\ pet[q].clave = k => p = q

Pendiente(p, k) == pet[p].clave = k /\ pet[p].paso \in {"registrar", "leer", "fila", "adjuntar"}

SinNombrarAun(k) == \A p \in Peticiones : Pendiente(p, k) =>
  k \in almacen /\ ~Nombrada(k) /\ \A q \in Peticiones : k \notin pet[q].sobran

Deshecha(k) == \A p \in Peticiones : pet[p].clave = k /\ En(p, "deshacer") => ~Nombrada(k)

Sobra(k) == \A p \in Peticiones : k \in pet[p].sobran =>
  /\ pet[p].paso \in {"fila", "anclaje"} => \A d \in Duenos \ {pet[p].dueno} : ~Nombra(d, k)
  /\ En(p, "borrar") => ~Nombrada(k)

UnDueno(k) == \A d, e \in Duenos : Nombra(d, k) /\ Nombra(e, k) => d = e

Viva(k) == Nombrada(k) => k \in almacen

SinUsar(k) == k \notin subidas =>
  ~Nombrada(k) /\ \A p \in Peticiones : pet[p].clave # k /\ k \notin pet[p].sobran

Vida(k) ==
  /\ UnaPeticion(k) /\ SinNombrarAun(k) /\ Deshecha(k) /\ Sobra(k)
  /\ UnDueno(k) /\ Viva(k) /\ SinUsar(k)

IInv == Formas /\ \A k \in Unicas \ compartidas : Vida(k)
-----------------------------------------------------------------------------
LEMMA NuevaPeticion == Nueva \in Peticion /\ Forma(Nueva)
BY DEF Nueva, Peticion, Pasos, Objetos, Forma

LEMMA Inicio == Init => IInv
<1> SUFFICES ASSUME Init PROVE IInv
  OBVIOUS
<1>1. \A p \in Peticiones : pet[p] = Nueva
  BY DEF Init
<1>2. Formas
  BY <1>1, NuevaPeticion DEF Formas, Init, TypeOK, Estados, Objetos
<1>3. ASSUME NEW k \in Unicas PROVE Vida(k)
  <2>1. ~Nombrada(k)
    BY MultimediaAssumption DEF Nombrada, Nombra, Init, Unicas, Estados
  <2>2. k # Nada
    BY MultimediaAssumption DEF Unicas
  <2>3. \A p \in Peticiones : pet[p].clave # k /\ pet[p].sobran = {}
    BY <1>1, <2>2 DEF Nueva
  <2>4. QED
    BY <2>1, <2>3 DEF Vida, UnaPeticion, SinNombrarAun, Pendiente, Deshecha, Sobra, UnDueno,
                      Viva, SinUsar, Nombrada
<1>4. QED
  BY <1>2, <1>3 DEF IInv
-----------------------------------------------------------------------------
(***************************************************************************)
(* A step of request p changes no other request.                           *)
(***************************************************************************)
Accion(p) ==
  PasoFoto(p) \/ PasoTarjeta(p) \/ PasoAdjunto(p) \/ Deshacer(p) \/ Borrar(p)

(* The request p becomes r.                                                *)
Cambia(p, r) == pet' = [pet EXCEPT ![p] = r]

LEMMA PeticionCambiada ==
  ASSUME Formas, NEW p \in Peticiones, NEW r \in Peticion, Forma(r), Cambia(p, r)
  PROVE  /\ pet'[p] = r
         /\ \A q \in Peticiones \ {p} : pet'[q] = pet[q]
         /\ pet' \in [Peticiones -> Peticion]
         /\ \A q \in Peticiones : Forma(pet'[q])
BY DEF Cambia, Formas, TypeOK

(* The forms a request takes.                                              *)
LEMMA Avanza ==
  ASSUME Formas, NEW p \in Peticiones, NEW paso \in Pasos, Sigue(p, paso)
  PROVE  LET r == [pet[p] EXCEPT !.paso = paso]
         IN  /\ Cambia(p, r) /\ r \in Peticion
             /\ r.op = pet[p].op /\ r.clave = pet[p].clave /\ r.dueno = pet[p].dueno
             /\ r.sobran = pet[p].sobran /\ r.borra = pet[p].borra /\ r.paso = paso
<1>1. pet[p] \in Peticion
  BY DEF Formas, TypeOK
<1>2. QED
  BY <1>1 DEF Sigue, Cambia, Formas, TypeOK, Peticion

(* The step of p leaves the rows and the objects alone.                    *)
Quieto == UNCHANGED <<almacen, tarjeta, adjunto, subidas, compartidas>>

LEMMA FormasPaso ==
  ASSUME Formas, NEW p \in Peticiones, NEW r \in Peticion, Forma(r), Cambia(p, r),
         almacen' \subseteq Objetos, foto' \subseteq Usuarios,
         tarjeta' \in [Tarjetas -> Estados \cup {Nada} \cup Medios],
         adjunto' \in [Anclajes -> SUBSET Claves], borrado' \subseteq Anclajes,
         subidas' \subseteq Unicas, compartidas' \subseteq Unicas
  PROVE  Formas'
BY PeticionCambiada DEF Formas, TypeOK, Unicas

(* A request that only moves on keeps the life of every key, unless it     *)
(* moves to where it did not hold what that step needs.                    *)
LEMMA VidaAvanza ==
  ASSUME Formas, NEW k \in Unicas, Vida(k), NEW p \in Peticiones, NEW paso \in Pasos,
         Sigue(p, paso), UNCHANGED <<almacen, tarjeta, adjunto, subidas>>,
         \/ paso = "fin"
         \/ paso \in {"leer", "fila", "deshacer"} /\ En(p, "registrar")
         \/ paso = "deshacer" /\ En(p, "foto") /\ pet[p].clave \in Usuarios
  PROVE  Vida(k)'
<1>1. /\ pet'[p].paso = paso
      /\ \A q \in Peticiones \ {p} : pet'[q] = pet[q]
      /\ \A q \in Peticiones : /\ pet'[q].clave = pet[q].clave
                               /\ pet'[q].sobran = pet[q].sobran
                               /\ pet'[q].dueno = pet[q].dueno
  BY DEF Sigue, Formas, TypeOK, Peticion
<1>2. \A d : Nombra(d, k)' <=> Nombra(d, k)
  BY DEF Nombra
<1>3. Nombrada(k)' <=> Nombrada(k)
  BY <1>2 DEF Nombrada
<1>4. En(p, "registrar") \/ En(p, "foto") => pet[p].sobran = {}
  BY DEF Formas, Forma, En
<1>5. UnaPeticion(k)' /\ UnDueno(k)' /\ Viva(k)' /\ SinUsar(k)'
  BY <1>1, <1>2, <1>3 DEF Vida, UnaPeticion, UnDueno, Viva, SinUsar
<1>6. SinNombrarAun(k)'
  BY <1>1, <1>3 DEF Vida, SinNombrarAun, Pendiente, En
<1>7. Deshecha(k)'
  <2>1. pet[p].clave \in Usuarios => pet[p].clave # k
    BY MultimediaAssumption DEF Unicas
  <2>2. QED
    BY <1>1, <1>3, <2>1 DEF Vida, SinNombrarAun, Pendiente, Deshecha, En
<1>8. Sobra(k)'
  BY <1>1, <1>2, <1>3, <1>4 DEF Vida, Sobra, En
<1>9. QED
  BY <1>5, <1>6, <1>7, <1>8 DEF Vida

(* The steps that only move the request on, also after a call that failed. *)
LEMMA PasoQuieto ==
  ASSUME IInv, NEW p \in Peticiones, NEW paso \in Pasos, Sigue(p, paso), Quieto,
         foto' \subseteq Usuarios, borrado' \subseteq Anclajes,
         \/ paso = "fin"
         \/ En(p, "registrar") /\ paso = "deshacer"
         \/ En(p, "registrar") /\ paso = TrasMedio(p)
         \/ En(p, "foto") /\ paso = "deshacer" /\ pet[p].clave \in Usuarios
  PROVE  IInv'
<1> DEFINE r == [pet[p] EXCEPT !.paso = paso]
<1>1. Formas /\ Forma(pet[p])
  BY DEF IInv, Formas
<1>2. /\ Cambia(p, r) /\ r \in Peticion
      /\ r.op = pet[p].op /\ r.clave = pet[p].clave /\ r.dueno = pet[p].dueno
      /\ r.sobran = pet[p].sobran /\ r.paso = paso
  BY <1>1, Avanza
<1>3. Forma(r)
  BY <1>1, <1>2 DEF Forma, En, TrasMedio, Objetos
<1>4. Formas'
  BY <1>1, <1>2, <1>3, FormasPaso DEF Quieto, Formas, TypeOK, Unicas
<1>5. ASSUME NEW k \in Unicas \ compartidas PROVE Vida(k)'
  BY <1>1, VidaAvanza DEF IInv, Quieto, TrasMedio
<1>6. QED
  BY <1>4, <1>5 DEF IInv, Quieto

LEMMA PasoSubirFoto ==
  ASSUME IInv, NEW p \in Peticiones, NEW u \in Usuarios, SubirFoto(p, u)
  PROVE  IInv'
<1> DEFINE r == [Nueva EXCEPT !.op = "foto", !.paso = "foto", !.dueno = u,
                              !.clave = u, !.borra = TRUE]
<1>1. Formas /\ pet[p] = Nueva
  BY DEF IInv, Formas, Forma, SubirFoto, Subir, En
<1>2. Cambia(p, r) /\ almacen' = almacen \cup {u}
  BY DEF SubirFoto, Subir, Cambia
<1>3. r \in Peticion /\ Forma(r) /\ r.sobran = {} /\ r.clave = u /\ r.paso = "foto"
  BY DEF Nueva, Peticion, Pasos, Objetos, Forma
<1>4. Formas'
  BY <1>1, <1>2, <1>3, FormasPaso DEF SubirFoto, Formas, TypeOK, Objetos, Unicas
<1>5. /\ pet'[p] = r
      /\ \A q \in Peticiones \ {p} : pet'[q] = pet[q]
  BY <1>1, <1>2, <1>3, PeticionCambiada
<1>6. ASSUME NEW k \in Unicas \ compartidas PROVE Vida(k)'
  <2>1. u # k /\ Vida(k)
    BY MultimediaAssumption DEF Unicas, IInv
  <2>2. \A d : Nombra(d, k)' <=> Nombra(d, k)
    BY DEF Nombra, SubirFoto
  <2>3. (Nombrada(k)' <=> Nombrada(k)) /\ (k \in almacen <=> k \in almacen')
    BY <1>2, <2>1, <2>2 DEF Nombrada
  <2>4. QED
    BY <1>3, <1>5, <2>1, <2>2, <2>3
    DEF Vida, UnaPeticion, SinNombrarAun, Pendiente, Deshecha, Sobra, UnDueno, Viva, SinUsar, En,
        SubirFoto
<1>7. QED
  BY <1>4, <1>6 DEF IInv, SubirFoto

(* An upload takes a key nobody has used, or makes it a shared one.        *)
LEMMA VidaSubida ==
  ASSUME Formas, NEW k \in Unicas, Vida(k), NEW p \in Peticiones, NEW r \in Peticion,
         Cambia(p, r), Forma(r), r.sobran = {}, pet[p] = Nueva,
         r.paso \in {"registrar", "adjuntar"}, r.clave = k => k \notin subidas,
         almacen' = almacen \cup {r.clave}, subidas' = subidas \cup {r.clave},
         UNCHANGED <<tarjeta, adjunto>>
  PROVE  Vida(k)'
<1>1. /\ pet'[p] = r
      /\ \A q \in Peticiones \ {p} : pet'[q] = pet[q]
  BY PeticionCambiada
<1>2. \A d : Nombra(d, k)' <=> Nombra(d, k)
  BY DEF Nombra
<1>3. Nombrada(k)' <=> Nombrada(k)
  BY <1>2 DEF Nombrada
<1>4. Nueva.clave # k /\ Nueva.sobran = {}
  BY MultimediaAssumption DEF Nueva, Unicas
<1>5. CASE r.clave = k
  <2>1. ~Nombrada(k) /\ \A q \in Peticiones : pet[q].clave # k /\ k \notin pet[q].sobran
    BY <1>5 DEF Vida, SinUsar
  <2>2. \A q \in Peticiones : (pet'[q].clave = k => q = p) /\ k \notin pet'[q].sobran
    BY <1>1, <2>1
  <2>3. QED
    BY <1>1, <1>3, <1>5, <2>1, <2>2
    DEF Vida, UnaPeticion, SinNombrarAun, Pendiente, Deshecha, Sobra, UnDueno, Viva, SinUsar, En,
        Nombrada
<1>6. CASE r.clave # k
  BY <1>1, <1>2, <1>3, <1>4, <1>6
  DEF Vida, UnaPeticion, SinNombrarAun, Pendiente, Deshecha, Sobra, UnDueno, Viva, SinUsar, En
<1>7. QED
  BY <1>5, <1>6

LEMMA PasoSubirMedio ==
  ASSUME IInv, NEW p \in Peticiones, NEW t \in Tarjetas, NEW m \in Medios, NEW op,
         SubirMedio(p, op, t, m)
  PROVE  IInv'
<1> DEFINE r == [Nueva EXCEPT !.op = op, !.paso = "registrar", !.dueno = t,
                              !.clave = m, !.borra = TRUE]
<1>1. Formas /\ pet[p] = Nueva /\ op \in {"crear", "editar"}
  BY DEF IInv, Formas, Forma, SubirMedio, Subir, En
<1>2. Cambia(p, r) /\ almacen' = almacen \cup {m} /\ subidas' = subidas \cup {m} /\ m \notin subidas
  BY DEF SubirMedio, Subir, Cambia
<1>3. r \in Peticion /\ Forma(r) /\ r.sobran = {} /\ r.clave = m /\ r.paso = "registrar"
  BY <1>1 DEF Nueva, Peticion, Pasos, Objetos, Forma
<1>4. Formas'
  BY <1>1, <1>2, <1>3, FormasPaso DEF SubirMedio, Formas, TypeOK, Objetos, Unicas
<1>5. ASSUME NEW k \in Unicas \ compartidas PROVE Vida(k)'
  <2>1. Vida(k) /\ UNCHANGED <<tarjeta, adjunto>>
    BY DEF IInv, SubirMedio
  <2>2. QED
    BY <1>1, <1>2, <1>3, <2>1, VidaSubida
<1>6. QED
  BY <1>4, <1>5 DEF IInv, SubirMedio

LEMMA PasoSubirAdjunto ==
  ASSUME IInv, NEW p \in Peticiones, NEW a \in Anclajes, NEW c \in Claves, SubirAdjunto(p, a, c)
  PROVE  IInv'
<1> DEFINE r == [Nueva EXCEPT !.op = "adjuntar", !.paso = "adjuntar", !.dueno = a,
                              !.clave = c, !.borra = TRUE]
<1>1. Formas /\ pet[p] = Nueva
  BY DEF IInv, Formas, Forma, SubirAdjunto, Subir, En
<1>2. Cambia(p, r) /\ almacen' = almacen \cup {c} /\ subidas' = subidas \cup {c}
  BY DEF SubirAdjunto, Subir, Cambia
<1>3. r \in Peticion /\ Forma(r) /\ r.sobran = {} /\ r.clave = c /\ r.paso = "adjuntar"
  BY DEF Nueva, Peticion, Pasos, Objetos, Forma
<1>4. Formas'
  BY <1>1, <1>2, <1>3, FormasPaso DEF SubirAdjunto, Formas, TypeOK, Objetos, Unicas
<1>5. ASSUME NEW k \in Unicas \ compartidas' PROVE Vida(k)'
  <2>1. Vida(k) /\ UNCHANGED <<tarjeta, adjunto>> /\ (c = k => k \notin subidas)
    BY DEF IInv, SubirAdjunto
  <2>2. QED
    BY <1>1, <1>2, <1>3, <2>1, VidaSubida
<1>6. QED
  BY <1>4, <1>5 DEF IInv

(* A request that names no key, or one that becomes shared.                *)
LEMMA PasoSinSubir ==
  ASSUME IInv, NEW p \in Peticiones, NEW t \in Tarjetas, NEW c \in Medios \cup {Nada},
         NEW op \in {"crear", "editar", "eliminar"}, SinSubir(p, op, t, c)
  PROVE  IInv'
<1> DEFINE r == [Nueva EXCEPT !.op = op, !.dueno = t, !.clave = c,
                              !.paso = IF op = "crear" THEN "fila" ELSE "leer",
                              !.borra = (c = Nada)]
<1>1. Formas /\ pet[p] = Nueva
  BY DEF IInv, Formas, Forma, SinSubir, En
<1>2. Cambia(p, r) /\ compartidas' = compartidas \cup ({c} \ {Nada})
  BY DEF SinSubir, Cambia
<1>3. /\ r \in Peticion /\ r.clave = c /\ r.sobran = {} /\ r.dueno = t
      /\ r.paso \in {"fila", "leer"}
  BY DEF Nueva, Peticion, Pasos, Objetos
<1>4. Forma(r)
  BY <1>3 DEF Forma
<1>5. Formas'
  BY <1>1, <1>2, <1>3, <1>4, FormasPaso DEF SinSubir, Formas, TypeOK, Objetos, Unicas
<1>6. /\ pet'[p] = r
      /\ \A q \in Peticiones \ {p} : pet'[q] = pet[q]
  BY <1>1, <1>2, <1>3, <1>4, PeticionCambiada
<1>7. ASSUME NEW k \in Unicas \ compartidas' PROVE Vida(k)'
  <2>1. Vida(k) /\ c # k
    BY <1>2, MultimediaAssumption DEF IInv, Unicas
  <2>2. \A d : Nombra(d, k)' <=> Nombra(d, k)
    BY DEF Nombra, SinSubir
  <2>3. Nombrada(k)' <=> Nombrada(k)
    BY <2>2 DEF Nombrada
  <2>4. QED
    BY <1>3, <1>6, <2>1, <2>2, <2>3
    DEF Vida, UnaPeticion, SinNombrarAun, Pendiente, Deshecha, Sobra, UnDueno, Viva, SinUsar, En,
        SinSubir
<1>8. QED
  BY <1>5, <1>7 DEF IInv

(***************************************************************************)
(* A request reads what its owner names, to delete it later.               *)
(***************************************************************************)
LEMMA VidaLectura ==
  ASSUME Formas, NEW k \in Unicas, Vida(k), NEW p \in Peticiones, NEW r \in Peticion,
         Cambia(p, r), Forma(r), r.clave = k => pet[p].clave = k, r.dueno \in Duenos,
         r.paso = "fila" => En(p, "leer"), r.paso \in {"fila", "anclaje"},
         k \in r.sobran => Nombra(r.dueno, k),
         UNCHANGED <<almacen, tarjeta, adjunto, subidas>>
  PROVE  Vida(k)'
<1>1. /\ pet'[p] = r
      /\ \A q \in Peticiones \ {p} : pet'[q] = pet[q]
  BY PeticionCambiada
<1>2. \A d : Nombra(d, k)' <=> Nombra(d, k)
  BY DEF Nombra
<1>3. Nombrada(k)' <=> Nombrada(k)
  BY <1>2 DEF Nombrada
<1>4. k \in r.sobran => Nombrada(k) /\ \A d \in Duenos \ {r.dueno} : ~Nombra(d, k)
  BY DEF Vida, UnDueno, Nombrada
<1>5. UnaPeticion(k)' /\ UnDueno(k)' /\ Viva(k)' /\ SinUsar(k)' /\ Deshecha(k)'
  BY <1>1, <1>2, <1>3, <1>4
  DEF Vida, UnaPeticion, UnDueno, Viva, SinUsar, Deshecha, En
<1>6. SinNombrarAun(k)'
  BY <1>1, <1>3, <1>4 DEF Vida, SinNombrarAun, Pendiente, En
<1>7. Sobra(k)'
  BY <1>1, <1>2, <1>3, <1>4 DEF Vida, Sobra, En
<1>8. QED
  BY <1>5, <1>6, <1>7 DEF Vida

LEMMA PasoLeerAnterior ==
  ASSUME IInv, NEW p \in Peticiones, LeerAnterior(p)
  PROVE  IInv'
<1> DEFINE t == pet[p].dueno
           lee == IF pet[p].borra THEN {tarjeta[t]} \cap Medios ELSE {}
           r == [pet[p] EXCEPT !.paso = "fila", !.sobran = lee]
<1>1. Formas /\ pet[p] \in Peticion /\ Forma(pet[p]) /\ En(p, "leer") /\ t \in Tarjetas
  BY DEF IInv, Formas, TypeOK, Forma, LeerAnterior, En
<1>2. Cambia(p, r)
  BY <1>1 DEF LeerAnterior, Cambia, Formas, TypeOK, Peticion
<1>3. /\ r \in Peticion /\ r.clave = pet[p].clave /\ r.dueno = t /\ r.sobran = lee
      /\ r.paso = "fila"
  BY <1>1 DEF Peticion, Pasos, Objetos
<1>4. Forma(r)
  BY <1>1, <1>3 DEF Forma, En
<1>5. Formas'
  BY <1>1, <1>2, <1>3, <1>4, FormasPaso DEF LeerAnterior, Formas, TypeOK, Unicas
<1>6. ASSUME NEW k \in Unicas \ compartidas PROVE Vida(k)'
  <2>1. Vida(k) /\ UNCHANGED <<almacen, tarjeta, adjunto, subidas>>
    BY DEF IInv, LeerAnterior
  <2>2. k \in r.sobran => Nombra(t, k)
    BY <1>1, <1>3 DEF Nombra
  <2>3. QED
    BY <1>1, <1>2, <1>3, <1>4, <2>1, <2>2, VidaLectura DEF Duenos
<1>7. QED
  BY <1>5, <1>6 DEF IInv, LeerAnterior

LEMMA PasoListarAnclaje ==
  ASSUME IInv, NEW p \in Peticiones, NEW a \in Anclajes, ListarAnclaje(p, a)
  PROVE  IInv'
<1> DEFINE r == [Nueva EXCEPT !.op = "quitar", !.paso = "anclaje", !.dueno = a, !.sobran = adjunto[a]]
<1>1. Formas /\ pet[p] = Nueva /\ adjunto[a] \subseteq Claves
  BY DEF IInv, Formas, TypeOK, Forma, ListarAnclaje, En
<1>2. Cambia(p, r)
  BY DEF ListarAnclaje, Cambia
<1>3. /\ r \in Peticion /\ Forma(r) /\ r.clave = Nada /\ r.dueno = a
      /\ r.sobran = adjunto[a] /\ r.paso = "anclaje"
  BY <1>1 DEF Nueva, Peticion, Pasos, Objetos, Forma
<1>4. Formas'
  BY <1>1, <1>2, <1>3, FormasPaso DEF ListarAnclaje, Formas, TypeOK, Unicas
<1>5. ASSUME NEW k \in Unicas \ compartidas PROVE Vida(k)'
  <2>1. Vida(k) /\ UNCHANGED <<almacen, tarjeta, adjunto, subidas>> /\ k # Nada
    BY MultimediaAssumption DEF IInv, ListarAnclaje, Unicas
  <2>2. k \in r.sobran => Nombra(a, k)
    BY <1>1, <1>3 DEF Nombra
  <2>3. QED
    BY <1>1, <1>2, <1>3, <2>1, <2>2, VidaLectura DEF Duenos
<1>6. QED
  BY <1>4, <1>5 DEF IInv, ListarAnclaje

(***************************************************************************)
(* The rows of one owner change: what is named anew is what p uploaded,    *)
(* and nobody names what p deletes next.                                   *)
(***************************************************************************)
LEMMA VidaEscritura ==
  ASSUME Formas, NEW k \in Unicas, Vida(k), NEW p \in Peticiones, NEW r \in Peticion,
         Cambia(p, r), Forma(r), r.clave = pet[p].clave, r.paso \in {"borrar", "fin"},
         NEW o \in Duenos,
         \A d \in Duenos \ {o} : Nombra(d, k)' <=> Nombra(d, k),
         Nombra(o, k)' => Nombra(o, k) \/ Pendiente(p, k),
         k \in r.sobran => k \in pet[p].sobran \/ Nombrada(k),
         k \in r.sobran /\ r.paso = "borrar" => ~Nombrada(k)',
         UNCHANGED <<almacen, subidas>>
  PROVE  Vida(k)'
<1>1. /\ pet'[p] = r
      /\ \A q \in Peticiones \ {p} : pet'[q] = pet[q]
  BY PeticionCambiada
<1>2. \A d \in Duenos : Nombra(d, k)' => Nombra(d, k) \/ Pendiente(p, k)
  OBVIOUS
<1>3. Nombrada(k)' => Nombrada(k) \/ Pendiente(p, k)
  BY <1>2 DEF Nombrada
<1>4. UnaPeticion(k)' /\ Viva(k)' /\ SinUsar(k)'
  BY <1>1, <1>3 DEF Vida, UnaPeticion, SinNombrarAun, Pendiente, Viva, SinUsar
<1>5. SinNombrarAun(k)'
  <2>1. ASSUME NEW q \in Peticiones, Pendiente(q, k)'
        PROVE  q # p /\ Pendiente(q, k)
    BY <1>1, <2>1 DEF Pendiente
  <2>2. ASSUME NEW q \in Peticiones, Pendiente(q, k)'
        PROVE  ~Pendiente(p, k) /\ ~Nombrada(k)
    BY <2>1, <2>2 DEF Vida, UnaPeticion, SinNombrarAun, Pendiente
  <2>3. QED
    BY <1>1, <1>3, <2>1, <2>2 DEF Vida, SinNombrarAun
<1>6. Deshecha(k)'
  BY <1>1, <1>3 DEF Vida, UnaPeticion, Deshecha, Pendiente, En
<1>7. Sobra(k)'
  <2>1. ASSUME NEW q \in Peticiones \ {p}, k \in pet[q].sobran
        PROVE  ~Pendiente(p, k)
    BY <2>1 DEF Vida, SinNombrarAun
  <2>2. QED
    BY <1>1, <1>2, <1>3, <2>1 DEF Vida, Sobra, En
<1>8. UnDueno(k)'
  <2>1. Pendiente(p, k) => ~Nombrada(k)
    BY DEF Vida, SinNombrarAun
  <2>2. Pendiente(p, k) => \A d \in Duenos \ {o} : ~Nombra(d, k)'
    BY <2>1 DEF Nombrada
  <2>3. QED
    BY <1>2, <2>2 DEF Vida, UnDueno
<1>9. QED
  BY <1>4, <1>5, <1>6, <1>7, <1>8 DEF Vida

LEMMA PasoEscribirFila ==
  ASSUME IInv, NEW p \in Peticiones, En(p, "fila"), FilaEscrita(p),
         NEW paso \in {"borrar", "fin"},
         pet' = [pet EXCEPT ![p].paso = paso],
         UNCHANGED <<almacen, foto, adjunto, borrado, subidas, compartidas>>
  PROVE  IInv'
<1> DEFINE r == [pet[p] EXCEPT !.paso = paso]
<1>1. Formas /\ Forma(pet[p]) /\ paso \in Pasos
  BY DEF IInv, Formas, Pasos
<1> PICK t \in Tarjetas : t = pet[p].dueno
  BY <1>1 DEF Forma, En
<1>2. /\ pet[p].clave \in Medios \cup {Nada} /\ pet[p].sobran \subseteq Medios
      /\ tarjeta \in [Tarjetas -> Estados \cup {Nada} \cup Medios]
  BY <1>1 DEF Forma, En, Formas, TypeOK
<1>3. /\ Cambia(p, r) /\ r \in Peticion /\ r.clave = pet[p].clave
      /\ r.sobran = pet[p].sobran /\ r.paso = paso
  BY <1>1, Avanza DEF Sigue
<1>4. Forma(r)
  BY <1>3 DEF Forma
<1>5. PICK x \in {"eliminada", pet[p].clave} : tarjeta' = [tarjeta EXCEPT ![t] = x]
  BY DEF FilaEscrita
<1>6. Formas'
  BY <1>1, <1>2, <1>3, <1>4, <1>5, FormasPaso DEF Formas, TypeOK, Unicas, Estados
<1>7. ASSUME NEW k \in Unicas \ compartidas PROVE Vida(k)'
  <2>1. Vida(k) /\ "eliminada" # k
    BY MultimediaAssumption DEF IInv, Unicas, Estados
  <2>2. \A d \in Duenos \ {t} : Nombra(d, k)' <=> Nombra(d, k)
    BY <1>2, <1>5 DEF Nombra
  <2>3. tarjeta'[t] = k => Pendiente(p, k)
    BY <1>2, <1>5, <2>1 DEF Pendiente, En
  <2>4. Nombra(t, k)' => Nombra(t, k) \/ Pendiente(p, k)
    BY <2>3 DEF Nombra
  <2>5. k \in r.sobran => ~Nombrada(k)'
    <3>1. SUFFICES ASSUME k \in pet[p].sobran PROVE ~Nombrada(k)'
      BY <1>3
    <3>2. \A d \in Duenos \ {t} : ~Nombra(d, k)
      BY <2>1, <3>1 DEF Vida, Sobra, En
    <3>3. ~Pendiente(p, k)
      BY <2>1, <3>1 DEF Vida, SinNombrarAun
    <3>4. k \notin Claves
      BY <1>2, <3>1, MultimediaAssumption
    <3>5. ~Nombra(t, k)'
      BY <2>3, <3>3, <3>4 DEF Nombra
    <3>6. QED
      BY <2>2, <3>2, <3>5 DEF Nombrada
  <2>6. QED
    BY <1>1, <1>2, <1>3, <1>4, <2>1, <2>2, <2>4, <2>5, VidaEscritura DEF Duenos
<1>8. QED
  BY <1>6, <1>7 DEF IInv

LEMMA PasoAgregarAdjunto ==
  ASSUME IInv, NEW p \in Peticiones, En(p, "adjuntar"), Termina(p),
         adjunto' = [adjunto EXCEPT ![pet[p].dueno] = @ \cup {pet[p].clave}],
         UNCHANGED <<almacen, foto, tarjeta, borrado, subidas, compartidas>>
  PROVE  IInv'
<1> DEFINE r == [pet[p] EXCEPT !.paso = "fin"]
<1>1. Formas /\ Forma(pet[p]) /\ "fin" \in Pasos
  BY DEF IInv, Formas, Pasos
<1> PICK a \in Anclajes : a = pet[p].dueno
  BY <1>1 DEF Forma, En
<1>2. /\ pet[p].clave \in Claves /\ pet[p].sobran = {}
      /\ adjunto \in [Anclajes -> SUBSET Claves]
  BY <1>1 DEF Forma, En, Formas, TypeOK
<1>3. /\ Cambia(p, r) /\ r \in Peticion /\ r.clave = pet[p].clave
      /\ r.sobran = pet[p].sobran /\ r.paso = "fin"
  BY <1>1, Avanza DEF Termina
<1>4. Forma(r)
  BY <1>3 DEF Forma
<1>5. Formas'
  BY <1>1, <1>2, <1>3, <1>4, FormasPaso DEF Formas, TypeOK, Unicas
<1>6. ASSUME NEW k \in Unicas \ compartidas PROVE Vida(k)'
  <2>1. Vida(k)
    BY DEF IInv
  <2>2. \A d \in Duenos \ {a} : Nombra(d, k)' <=> Nombra(d, k)
    BY <1>2 DEF Nombra
  <2>3. Nombra(a, k)' => Nombra(a, k) \/ Pendiente(p, k)
    BY <1>2 DEF Nombra, Pendiente, En
  <2>4. QED
    BY <1>1, <1>2, <1>3, <1>4, <2>1, <2>2, <2>3, VidaEscritura DEF Duenos
<1>7. QED
  BY <1>5, <1>6 DEF IInv

LEMMA PasoQuitarAdjunto ==
  ASSUME IInv, NEW p \in Peticiones, NEW a \in Anclajes, QuitarAdjunto(p, a)
  PROVE  IInv'
<1>1. Formas /\ pet[p] = Nueva /\ adjunto \in [Anclajes -> SUBSET Claves]
  BY DEF IInv, Formas, TypeOK, Forma, QuitarAdjunto, En
<1>2. PICK c \in adjunto[a] : /\ adjunto' = [adjunto EXCEPT ![a] = adjunto[a] \ {c}]
                             /\ (Quitar(p, a, {c}) \/ Termina(p))
  BY DEF QuitarAdjunto
<1>3. c \in Claves /\ adjunto'[a] = adjunto[a] \ {c}
  <2>1. adjunto \in [Anclajes -> SUBSET Claves]
    BY <1>1
  <2>2. adjunto' = [adjunto EXCEPT ![a] = adjunto[a] \ {c}]
    BY <1>2
  <2>3. QED
    BY <2>1, <2>2
<1>4. PICK r \in Peticion : /\ Cambia(p, r) /\ Forma(r) /\ r.clave = Nada
                           /\ r.paso \in {"borrar", "fin"} /\ r.sobran \subseteq {c}
  <2>1. CASE Quitar(p, a, {c})
    <3> DEFINE r == [Nueva EXCEPT !.op = "quitar", !.paso = "borrar", !.dueno = a, !.sobran = {c}]
    <3>1. Cambia(p, r)
      BY <2>1 DEF Quitar, Cambia
    <3>2. r \in Peticion /\ Forma(r) /\ r.clave = Nada /\ r.paso = "borrar" /\ r.sobran = {c}
      BY <1>3 DEF Nueva, Peticion, Pasos, Objetos, Forma
    <3>3. QED
      BY <3>1, <3>2
  <2>2. CASE Termina(p)
    <3> DEFINE r == [Nueva EXCEPT !.paso = "fin"]
    <3>1. Cambia(p, r)
      BY <1>1, <2>2, Avanza DEF Termina, Pasos
    <3>2. r \in Peticion /\ Forma(r) /\ r.clave = Nada /\ r.paso = "fin" /\ r.sobran = {}
      BY DEF Nueva, Peticion, Pasos, Objetos, Forma
    <3>3. QED
      BY <3>1, <3>2
  <2>3. QED
    BY <1>2, <2>1, <2>2
<1>5. Formas'
  BY <1>1, <1>2, <1>4, FormasPaso DEF QuitarAdjunto, Formas, TypeOK, Unicas
<1>6. ASSUME NEW k \in Unicas \ compartidas PROVE Vida(k)'
  <2>1. Vida(k)
    BY DEF IInv
  <2>2. \A d \in Duenos \ {a} : Nombra(d, k)' <=> Nombra(d, k)
    BY <1>1, <1>2 DEF Nombra, QuitarAdjunto
  <2>3. Nombra(a, k)' => Nombra(a, k)
    BY <1>1, <1>2 DEF Nombra, QuitarAdjunto
  <2>4. k = c => Nombra(a, k) /\ ~Nombra(a, k)'
    <3>1. k = c => k \notin Medios
      BY <1>3, MultimediaAssumption
    <3>2. QED
      BY <1>3, <3>1 DEF Nombra
  <2>5. k = c => Nombrada(k) /\ ~Nombrada(k)'
    BY <2>1, <2>2, <2>4 DEF Nombrada, Vida, UnDueno, Duenos
  <2>6. k \in r.sobran => Nombrada(k) /\ ~Nombrada(k)'
    BY <1>4, <2>5
  <2>7. r.clave = pet[p].clave /\ UNCHANGED <<almacen, subidas>> /\ a \in Duenos
    BY <1>1, <1>4 DEF Nueva, QuitarAdjunto, Duenos
  <2>8. QED
    BY <1>1, <1>4, <2>1, <2>2, <2>3, <2>6, <2>7, VidaEscritura
<1>7. QED
  BY <1>5, <1>6 DEF IInv, QuitarAdjunto

LEMMA PasoEliminarAnclaje ==
  ASSUME IInv, NEW p \in Peticiones, En(p, "anclaje"),
         NEW paso \in {"borrar", "fin"},
         pet' = [pet EXCEPT ![p].paso = paso],
         adjunto' = [adjunto EXCEPT ![pet[p].dueno] = {}],
         borrado' = borrado \cup {pet[p].dueno},
         UNCHANGED <<almacen, foto, tarjeta, subidas, compartidas>>
  PROVE  IInv'
<1> DEFINE r == [pet[p] EXCEPT !.paso = paso]
<1>1. Formas /\ Forma(pet[p]) /\ paso \in Pasos
  BY DEF IInv, Formas, Pasos
<1> PICK a \in Anclajes : a = pet[p].dueno
  BY <1>1 DEF Forma, En
<1>2. /\ pet[p].sobran \subseteq Claves
      /\ adjunto \in [Anclajes -> SUBSET Claves]
  BY <1>1 DEF Forma, En, Formas, TypeOK
<1>3. /\ Cambia(p, r) /\ r \in Peticion /\ r.clave = pet[p].clave
      /\ r.sobran = pet[p].sobran /\ r.paso = paso
  BY <1>1, Avanza DEF Sigue
<1>4. Forma(r)
  BY <1>3 DEF Forma
<1>5. Formas'
  BY <1>1, <1>2, <1>3, <1>4, FormasPaso DEF Formas, TypeOK, Unicas
<1>6. ASSUME NEW k \in Unicas \ compartidas PROVE Vida(k)'
  <2>1. Vida(k)
    BY DEF IInv
  <2>2. \A d \in Duenos \ {a} : Nombra(d, k)' <=> Nombra(d, k)
    BY <1>2 DEF Nombra
  <2>3. Nombra(a, k)' => Nombra(a, k) /\ k \in Medios
    BY <1>2 DEF Nombra
  <2>4. k \in r.sobran => ~Nombrada(k)'
    <3>1. SUFFICES ASSUME k \in pet[p].sobran PROVE ~Nombrada(k)'
      BY <1>3
    <3>2. \A d \in Duenos \ {a} : ~Nombra(d, k)
      BY <2>1, <3>1 DEF Vida, Sobra, En
    <3>3. k \notin Medios
      BY <1>2, <3>1, MultimediaAssumption
    <3>4. QED
      BY <2>2, <2>3, <3>2, <3>3 DEF Nombrada
  <2>5. QED
    BY <1>1, <1>2, <1>3, <1>4, <2>1, <2>2, <2>3, <2>4, VidaEscritura DEF Duenos
<1>7. QED
  BY <1>5, <1>6 DEF IInv

(***************************************************************************)
(* What is deleted from the bucket is named by nobody, and by nobody later.*)
(***************************************************************************)
LEMMA PasoDeshacer ==
  ASSUME IInv, NEW p \in Peticiones, Deshacer(p)
  PROVE  IInv'
<1> DEFINE r == [pet[p] EXCEPT !.paso = "fin"]
<1>1. Formas /\ Forma(pet[p]) /\ "fin" \in Pasos /\ En(p, "deshacer")
  BY DEF IInv, Formas, Pasos, Deshacer
<1>2. /\ Cambia(p, r) /\ r \in Peticion /\ r.clave = pet[p].clave
      /\ r.sobran = pet[p].sobran /\ r.paso = "fin"
  BY <1>1, Avanza DEF Deshacer, Termina
<1>3. Forma(r)
  BY <1>2 DEF Forma
<1>4. Formas'
  BY <1>1, <1>2, <1>3, FormasPaso DEF Deshacer, Formas, TypeOK, Unicas
<1>5. /\ pet'[p].paso = "fin"
      /\ \A q \in Peticiones \ {p} : pet'[q] = pet[q]
      /\ \A q \in Peticiones : pet'[q].clave = pet[q].clave /\ pet'[q].sobran = pet[q].sobran
  BY <1>1, <1>2, <1>3, PeticionCambiada
<1>6. ASSUME NEW k \in Unicas \ compartidas PROVE Vida(k)'
  <2>1. Vida(k)
    BY DEF IInv
  <2>2. \A d : Nombra(d, k)' <=> Nombra(d, k)
    BY DEF Nombra, Deshacer
  <2>3. Nombrada(k)' <=> Nombrada(k)
    BY <2>2 DEF Nombrada
  <2>4. k \in almacen /\ pet[p].clave # k => k \in almacen'
    BY DEF Deshacer
  <2>5. pet[p].clave = k => ~Nombrada(k) /\ \A q \in Peticiones : ~Pendiente(q, k)
    BY <1>1, <2>1 DEF Vida, UnaPeticion, Deshecha, Pendiente, En
  <2>6. \A q \in Peticiones : Pendiente(q, k)' => q # p /\ Pendiente(q, k)
    BY <1>5 DEF Pendiente
  <2>7. Viva(k)'
    BY <2>1, <2>3, <2>4, <2>5 DEF Vida, Viva
  <2>8. SinNombrarAun(k)'
    <3>1. ASSUME NEW q \in Peticiones, Pendiente(q, k)'
          PROVE  /\ k \in almacen' /\ ~Nombrada(k)'
                 /\ \A x \in Peticiones : k \notin pet'[x].sobran
      <4>1. Pendiente(q, k) /\ pet[p].clave # k
        BY <2>5, <2>6, <3>1
      <4>2. k \in almacen /\ ~Nombrada(k) /\ \A x \in Peticiones : k \notin pet[x].sobran
        BY <2>1, <4>1 DEF Vida, SinNombrarAun
      <4>3. QED
        BY <1>5, <2>3, <2>4, <4>1, <4>2
    <3>2. QED
      BY <3>1 DEF SinNombrarAun
  <2>9. UnaPeticion(k)' /\ Deshecha(k)' /\ Sobra(k)'
    BY <1>5, <2>1, <2>2, <2>3 DEF Vida, UnaPeticion, Deshecha, Sobra, En
  <2>10. UnDueno(k)' /\ SinUsar(k)'
    BY <1>5, <2>1, <2>2, <2>3 DEF Vida, UnDueno, SinUsar, Deshacer
  <2>11. QED
    BY <2>7, <2>8, <2>9, <2>10 DEF Vida
<1>7. QED
  BY <1>4, <1>6 DEF IInv, Deshacer

LEMMA PasoBorrar ==
  ASSUME IInv, NEW p \in Peticiones, Borrar(p)
  PROVE  IInv'
<1>1. PICK c \in pet[p].sobran :
        /\ almacen' \in {almacen, almacen \ {c}}
        /\ pet' = [pet EXCEPT ![p].sobran = pet[p].sobran \ {c},
                              ![p].paso = IF pet[p].sobran = {c} THEN "fin" ELSE pet[p].paso]
  BY DEF Borrar, IInv, Formas, TypeOK, Peticion
<1> DEFINE r == [pet[p] EXCEPT !.sobran = pet[p].sobran \ {c},
                               !.paso = IF pet[p].sobran = {c} THEN "fin" ELSE pet[p].paso]
<1>2. Formas /\ pet \in [Peticiones -> Peticion] /\ Forma(pet[p]) /\ pet[p].paso = "borrar"
  BY DEF IInv, Formas, TypeOK, Borrar, En
<1>3. Cambia(p, r)
  BY <1>1, <1>2 DEF Cambia, Peticion
<1>4. /\ r \in Peticion /\ r.clave = pet[p].clave /\ r.dueno = pet[p].dueno
      /\ r.sobran = pet[p].sobran \ {c} /\ r.paso \in {"borrar", "fin"}
  BY <1>2 DEF Peticion, Pasos
<1>5. Forma(r)
  BY <1>4 DEF Forma
<1>6. Formas'
  BY <1>1, <1>2, <1>3, <1>4, <1>5, FormasPaso DEF Borrar, Formas, TypeOK, Unicas
<1>7. /\ pet'[p] = r
      /\ \A q \in Peticiones \ {p} : pet'[q] = pet[q]
  BY <1>2, <1>3, <1>4, <1>5, PeticionCambiada
<1>8. ASSUME NEW k \in Unicas \ compartidas PROVE Vida(k)'
  <2>1. Vida(k)
    BY DEF IInv
  <2>2. \A d : Nombra(d, k)' <=> Nombra(d, k)
    BY DEF Nombra, Borrar
  <2>3. Nombrada(k)' <=> Nombrada(k)
    BY <2>2 DEF Nombrada
  <2>4. k \in almacen /\ c # k => k \in almacen'
    BY <1>1
  <2>5. c = k => ~Nombrada(k) /\ \A q \in Peticiones : ~Pendiente(q, k)
    BY <1>2, <2>1 DEF Vida, Sobra, SinNombrarAun, En
  <2>6. \A q \in Peticiones : Pendiente(q, k)' => Pendiente(q, k)
    BY <1>4, <1>7 DEF Pendiente
  <2>7. Viva(k)' /\ SinNombrarAun(k)'
    BY <1>4, <1>7, <2>1, <2>3, <2>4, <2>5, <2>6 DEF Vida, Viva, SinNombrarAun
  <2>8. Sobra(k)'
    BY <1>2, <1>4, <1>7, <2>1, <2>2, <2>3 DEF Vida, Sobra, En
  <2>9. UnaPeticion(k)' /\ Deshecha(k)'
    <3>1. \A q \in Peticiones : pet'[q].clave = pet[q].clave
      BY <1>4, <1>7
    <3>2. \A q \in Peticiones : En(q, "deshacer")' => En(q, "deshacer")
      BY <1>4, <1>7 DEF En
    <3>3. QED
      BY <2>1, <2>3, <3>1, <3>2 DEF Vida, UnaPeticion, Deshecha
  <2>10. UnDueno(k)' /\ SinUsar(k)'
    BY <1>4, <1>7, <2>1, <2>2, <2>3 DEF Vida, UnDueno, SinUsar, Borrar
  <2>11. QED
    BY <2>7, <2>8, <2>9, <2>10 DEF Vida
<1>9. QED
  BY <1>6, <1>8 DEF IInv, Borrar

LEMMA PasoActualizarFoto ==
  ASSUME IInv, NEW p \in Peticiones, ActualizarFoto(p)
  PROVE  IInv'
<1>1. PICK paso \in {"fin", "deshacer"} : Sigue(p, paso)
  BY DEF ActualizarFoto, Termina
<1>2. pet[p].dueno \in Usuarios /\ pet[p].clave \in Usuarios /\ paso \in Pasos
  BY DEF IInv, Formas, Forma, ActualizarFoto, En, Pasos
<1>3. foto' \subseteq Usuarios /\ borrado' \subseteq Anclajes /\ Quieto
  BY <1>2 DEF ActualizarFoto, IInv, Formas, TypeOK, Quieto
<1>4. QED
  BY <1>1, <1>2, <1>3, PasoQuieto DEF ActualizarFoto
-----------------------------------------------------------------------------
LEMMA Paso ==
  ASSUME IInv, [Next]_vars
  PROVE  IInv'
<1>1. CASE UNCHANGED vars
  BY <1>1
  DEF vars, IInv, Formas, TypeOK, Vida, UnaPeticion, SinNombrarAun, Pendiente, Deshecha, Sobra,
      UnDueno, Viva, SinUsar, Nombrada, Nombra, En
<1> SUFFICES ASSUME NEW p \in Peticiones, Accion(p) PROVE IInv'
  BY <1>1 DEF Next, Accion
<1> "fin" \in Pasos /\ "deshacer" \in Pasos /\ "leer" \in Pasos /\ "fila" \in Pasos
  BY DEF Pasos
<1>2. foto \subseteq Usuarios /\ borrado \subseteq Anclajes
  BY DEF IInv, Formas, TypeOK
<1>3. CASE PasoFoto(p)
  BY <1>3, PasoSubirFoto, PasoActualizarFoto DEF PasoFoto
<1>4. CASE RegistrarArchivo(p)
  <2>1. PICK paso \in {TrasMedio(p), "deshacer"} : Sigue(p, paso)
    BY <1>4 DEF RegistrarArchivo
  <2>2. paso \in Pasos /\ Quieto /\ En(p, "registrar") /\ UNCHANGED <<foto, borrado>>
    BY <1>4 DEF RegistrarArchivo, Quieto, TrasMedio
  <2>3. QED
    BY <1>2, <2>1, <2>2, PasoQuieto
<1>5. CASE EscribirFila(p)
  <2>1. CASE FilaEscrita(p)
    <3>1. PICK paso \in {"borrar", "fin"} : pet' = [pet EXCEPT ![p].paso = paso]
      BY <1>5 DEF EscribirFila, LuegoBorra, Termina, Sigue, IInv, Formas, TypeOK, Peticion
    <3>2. QED
      BY <1>5, <2>1, <3>1, PasoEscribirFila DEF EscribirFila
  <2>2. CASE UNCHANGED tarjeta /\ Termina(p)
    BY <1>2, <1>5, <2>2, PasoQuieto DEF EscribirFila, Termina, Quieto
  <2>3. QED
    BY <1>5, <2>1, <2>2 DEF EscribirFila
<1>6. CASE PasoTarjeta(p)
  <2>1. CASE \E t \in Tarjetas, k \in Medios, op \in {"crear", "editar"} : SubirMedio(p, op, t, k)
    BY <2>1, PasoSubirMedio
  <2>2. CASE \E t \in Tarjetas, k \in Medios \cup {Nada}, op \in {"crear", "editar", "eliminar"} :
               SinSubir(p, op, t, k)
    BY <2>2, PasoSinSubir
  <2>3. QED
    BY <1>4, <1>5, <1>6, <2>1, <2>2, PasoLeerAnterior DEF PasoTarjeta
<1>7. CASE AgregarAdjunto(p)
  <2>1. CASE UNCHANGED adjunto
    BY <1>2, <1>7, <2>1, PasoQuieto DEF AgregarAdjunto, Termina, Quieto
  <2>2. CASE adjunto' = [adjunto EXCEPT ![pet[p].dueno] = adjunto[pet[p].dueno] \cup {pet[p].clave}]
    BY <1>7, <2>2, PasoAgregarAdjunto DEF AgregarAdjunto
  <2>3. QED
    BY <1>7, <2>1, <2>2 DEF AgregarAdjunto
<1>8. CASE EliminarAnclaje(p)
  <2>1. CASE UNCHANGED <<adjunto, borrado>> /\ Termina(p)
    BY <1>2, <1>8, <2>1, PasoQuieto DEF EliminarAnclaje, Termina, Quieto
  <2>2. CASE /\ borrado' = borrado \cup {pet[p].dueno}
             /\ adjunto' = [adjunto EXCEPT ![pet[p].dueno] = {}]
             /\ LuegoBorra(p, pet[p].sobran) \/ Termina(p)
    <3>1. PICK paso \in {"borrar", "fin"} : pet' = [pet EXCEPT ![p].paso = paso]
      BY <2>2 DEF LuegoBorra, Termina, Sigue, IInv, Formas, TypeOK, Peticion
    <3>2. QED
      BY <1>8, <2>2, <3>1, PasoEliminarAnclaje DEF EliminarAnclaje
  <2>3. QED
    BY <1>8, <2>1, <2>2 DEF EliminarAnclaje
<1>9. CASE PasoAdjunto(p)
  BY <1>7, <1>8, <1>9, PasoSubirAdjunto, PasoQuitarAdjunto, PasoListarAnclaje DEF PasoAdjunto
<1>10. QED
  BY <1>3, <1>6, <1>9, PasoDeshacer, PasoBorrar DEF Accion

(* Every variable keeps its type.                                          *)
THEOREM MultimediaTypeOK == Spec => []TypeOK
<1>1. IInv => TypeOK
  BY DEF IInv, Formas
<1>2. QED
  BY <1>1, Inicio, Paso, PTL DEF Spec

(* A card or an attachment never names an object that was deleted, unless  *)
(* a client named its key twice.                                           *)
THEOREM TodaReferenciaViva == Spec => []ReferenciaViva
<1>1. IInv => ReferenciaViva
  <2>1. ASSUME NEW k \in Unicas, Viva(k)
        PROVE  /\ \A t \in Tarjetas : k \in Medios /\ tarjeta[t] = k => k \in almacen
               /\ \A a \in Anclajes : k \in Claves /\ k \in adjunto[a] => k \in almacen
    BY <2>1 DEF Viva, Nombrada, Nombra, Duenos
  <2>2. ASSUME IInv, NEW k \in Unicas
        PROVE  /\ \A t \in Tarjetas : tarjeta[t] = k => k \in Medios
               /\ \A a \in Anclajes : k \in adjunto[a] => k \in Claves
    BY <2>2, MultimediaAssumption DEF IInv, Formas, TypeOK, Unicas
  <2>3. QED
    BY <2>1, <2>2 DEF IInv, Vida, ReferenciaViva, Unicas
<1>2. QED
  BY <1>1, Inicio, Paso, PTL DEF Spec
=============================================================================
