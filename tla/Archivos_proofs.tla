--------------------------- MODULE Archivos_proofs ---------------------------
(***************************************************************************)
(* Theorems about Archivos for any items, names and requests.              *)
(***************************************************************************)
EXTENDS Archivos, SequenceTheorems, TLAPS

(***************************************************************************)
(* What a request has done when it is about to be logged.                  *)
(***************************************************************************)
Subido(p) ==
  \E i \in Existentes : \E k \in DOMAIN items[i].versiones :
    /\ Anadida(p, i, k) /\ items[i].versiones[k].contenido = p
    /\ pet[p].item = NoHay => k = 1
    /\ pet[p].item # NoHay => i = pet[p].item /\ k > 1

Renombrado(p) ==
  \E k \in DOMAIN items[pet[p].item].versiones :
    /\ Anadida(p, pet[p].item, k) /\ items[pet[p].item].versiones[k].contenido # Borrada

Eliminado(p) ==
  \E k \in DOMAIN items[pet[p].item].versiones :
    items[pet[p].item].versiones[k].contenido = Borrada

ConContenido(i, k) == k \in DOMAIN items[i].versiones /\ items[i].versiones[k].contenido # Borrada

Copiado(p) ==
  \E i \in Existentes : \E k \in DOMAIN items[i].versiones :
    Anadida(p, i, k) /\ ConContenido(i, k) /\ (i = pet[p].item \/ k = 1)

Restaurado(p) ==
  \E i \in Existentes : \E k \in DOMAIN items[i].versiones :
    ConContenido(i, k) /\ (i = pet[p].item \/ k = 1)

Hecho(p) ==
  /\ pet[p].tipo \in Tipos
  /\ pet[p].tipo = "subir" => Subido(p)
  /\ pet[p].tipo = "renombrar" => Renombrado(p)
  /\ pet[p].tipo = "eliminar" => Eliminado(p)
  /\ pet[p].tipo = "restaurar" =>
       Restaurado(p) /\ (pet[p].fase = "registrar" \/ registro[p] # NoHay => Copiado(p))

(***************************************************************************)
(* The inductive invariant: a request names an item that exists, holds     *)
(* what its next call sends, and has done its work when it is logged.      *)
(***************************************************************************)
Forma(p) ==
  LET r == pet[p] IN
  /\ r.item # NoHay => r.item \in Existentes
  /\ r.fase \in {"borrar", "listar", "copiar", "copiarItem", "recrear", "releer"} =>
       r.item \in Existentes
  /\ r.fase = "publicar" => r.tipo = "subir" /\ r.nombre \in Nombres
  /\ r.fase \in {"copiar", "copiarItem"} =>
       /\ r.tipo \in {"renombrar", "restaurar"} /\ r.nombre \in Nombres
       /\ r.base \in Contenidos \cup {Borrada}
  /\ r.fase = "releer" => r.tipo = "renombrar"
  /\ r.fase \in {"listar", "recrear"} => r.tipo = "restaurar"
  /\ r.tipo = "restaurar" => r.nombre \in Nombres
  /\ r.tipo = "restaurar" /\ r.fase \in {"copiar", "copiarItem", "recrear"} => r.base \in Contenidos
  /\ r.tipo \in {"renombrar", "eliminar", "restaurar"} => r.item \in Existentes

Trabajo(p) ==
  /\ pet[p].fase \in {"releer", "registrar", "hecha"} => Hecho(p)
  /\ registro[p] # NoHay => pet[p].fase = "hecha" /\ registro[p] = Entrada(p)

IInv == TypeOK /\ \A p \in Peticiones : Forma(p) /\ Trabajo(p)
-----------------------------------------------------------------------------
LEMMA VersionesDe ==
  ASSUME TypeOK, NEW i \in Existentes
  PROVE  /\ i \in Items /\ items[i] \in Item
         /\ items[i].nombre \in Nombres
         /\ items[i].versiones \in Seq(Version)
         /\ Len(items[i].versiones) \in Nat \ {0}
         /\ DOMAIN items[i].versiones = 1 .. Len(items[i].versiones)
<1>1. i \in Items /\ items[i] \in Item
  BY DEF TypeOK, Existentes
<1>2. items[i].versiones \in Seq(Version) /\ items[i].versiones # <<>>
  BY <1>1 DEF Item
<1>3. QED
  BY <1>1, <1>2 DEF Item

(***************************************************************************)
(* The list of versions of an item only grows at its end.                  *)
(***************************************************************************)
Crece ==
  \A i \in Existentes :
    /\ i \in Existentes'
    /\ \A k \in DOMAIN items[i].versiones :
         /\ k \in DOMAIN items'[i].versiones
         /\ items'[i].versiones[k] = items[i].versiones[k]

LEMMA QuietoCrece ==
  ASSUME UNCHANGED items
  PROVE  Crece
BY DEF Crece, Existentes

LEMMA CrearVersionCrece ==
  ASSUME TypeOK, NEW i \in Existentes, NEW n \in Nombres, NEW v \in Version, CrearVersion(i, n, v)
  PROVE  /\ items' \in [Items -> Item \cup {NoHay}]
         /\ Crece
         /\ \E k \in DOMAIN items'[i].versiones : k > 1 /\ items'[i].versiones[k] = v
<1> DEFINE s == items[i].versiones
           x == [nombre |-> n, versiones |-> Append(s, v)]
<1>1. i \in Items /\ s \in Seq(Version) /\ Len(s) \in Nat \ {0} /\ DOMAIN s = 1 .. Len(s)
  BY VersionesDe
<1>2. items' = [items EXCEPT ![i] = x]
  BY DEF CrearVersion
<1>3. /\ Append(s, v) \in Seq(Version) /\ Len(Append(s, v)) = Len(s) + 1
      /\ DOMAIN Append(s, v) = 1 .. (Len(s) + 1)
      /\ Append(s, v)[Len(s) + 1] = v
      /\ \A k \in 1 .. Len(s) : Append(s, v)[k] = s[k]
  BY <1>1
<1>4. x \in Item /\ x # NoHay
  <2>1. x \in Item
    BY <1>1, <1>3 DEF Item
  <2>2. QED
    BY <2>1, NoHayDistinto
<1>5. items' \in [Items -> Item \cup {NoHay}]
  BY <1>2, <1>4 DEF TypeOK
<1>6. items'[i].versiones = Append(s, v) /\ items'[i] # NoHay /\ \A j \in Items \ {i} : items'[j] = items[j]
  BY <1>1, <1>2, <1>4 DEF TypeOK
<1>7. Crece
  <2>1. ASSUME NEW j \in Existentes
        PROVE  j \in Existentes' /\ \A k \in DOMAIN items[j].versiones :
                 k \in DOMAIN items'[j].versiones /\ items'[j].versiones[k] = items[j].versiones[k]
    <3>1. CASE j = i
      BY <1>1, <1>3, <1>6, <3>1 DEF Existentes
    <3>2. CASE j # i
      BY <1>6, <3>2 DEF Existentes
    <3>3. QED
      BY <3>1, <3>2
  <2>2. QED
    BY <2>1 DEF Crece
<1>8. QED
  <2>1. Len(s) + 1 \in DOMAIN items'[i].versiones /\ Len(s) + 1 > 1
    BY <1>1, <1>3, <1>6
  <2>2. items'[i].versiones[Len(s) + 1] = v
    BY <1>3, <1>6
  <2>3. QED
    BY <1>5, <1>7, <2>1, <2>2

LEMMA CrearItemCrece ==
  ASSUME TypeOK, NEW n \in Nombres, NEW v \in Version, CrearItem(n, v)
  PROVE  /\ items' \in [Items -> Item \cup {NoHay}]
         /\ Crece
         /\ \E i \in Existentes' : 1 \in DOMAIN items'[i].versiones /\ items'[i].versiones[1] = v
<1> DEFINE x == [nombre |-> n, versiones |-> <<v>>]
<1>1. PICK i \in Items \ Existentes : items' = [items EXCEPT ![i] = x]
  BY DEF CrearItem
<1>2. <<v>> \in Seq(Version) /\ <<v>> # <<>> /\ DOMAIN <<v>> = 1 .. 1 /\ <<v>>[1] = v
  OBVIOUS
<1>3. x \in Item /\ x # NoHay
  <2>1. x \in Item
    BY <1>2 DEF Item
  <2>2. QED
    BY <2>1, NoHayDistinto
<1>4. items' \in [Items -> Item \cup {NoHay}]
  BY <1>1, <1>3 DEF TypeOK
<1>5. items'[i] = x /\ \A j \in Items \ {i} : items'[j] = items[j]
  BY <1>1 DEF TypeOK
<1>6. Crece
  BY <1>3, <1>5 DEF Crece, Existentes
<1>7. i \in Existentes' /\ items'[i].versiones = <<v>>
  BY <1>3, <1>5 DEF Existentes
<1>8. QED
  BY <1>2, <1>4, <1>6, <1>7
-----------------------------------------------------------------------------
(* What was done stays done.                                               *)
LEMMA HechoPersiste ==
  ASSUME Crece, NEW p \in Peticiones, Hecho(p), pet[p].tipo # "subir" => pet[p].item \in Existentes,
         pet[p].item # NoHay => pet[p].item \in Existentes,
         pet'[p].tipo = pet[p].tipo, pet'[p].item = pet[p].item,
         (pet'[p].fase = "registrar" \/ registro'[p] # NoHay) =>
            (pet[p].fase = "registrar" \/ registro[p] # NoHay)
  PROVE  Hecho(p)'
<1>1. pet[p].tipo = "subir" => Subido(p)'
  BY DEF Crece, Hecho, Subido, Anadida
<1>2. pet[p].tipo = "renombrar" => Renombrado(p)'
  BY DEF Crece, Hecho, Renombrado, Anadida
<1>3. pet[p].tipo = "eliminar" => Eliminado(p)'
  BY DEF Crece, Hecho, Eliminado
<1>4. Restaurado(p) => Restaurado(p)'
  BY DEF Crece, Restaurado, ConContenido
<1>5. Copiado(p) => Copiado(p)'
  BY DEF Crece, Copiado, ConContenido, Anadida
<1>6. QED
  BY <1>1, <1>2, <1>3, <1>4, <1>5 DEF Hecho

(* The requests that do not move.                                          *)
LEMMA OtrasQuietas ==
  ASSUME IInv, Crece, NEW q \in Peticiones, pet'[q] = pet[q], registro'[q] = registro[q]
  PROVE  Forma(q)' /\ Trabajo(q)'
<1>1. Forma(q) /\ Trabajo(q)
  BY DEF IInv
<1>2. Forma(q)'
  BY <1>1 DEF Forma, Crece
<1>3. pet[q].tipo \in Tipos /\ pet[q].tipo # "subir" => pet[q].item \in Existentes
  BY <1>1 DEF Forma, Tipos
<1>4. Hecho(q) => Hecho(q)'
  BY <1>1, <1>3, HechoPersiste DEF Hecho, Forma
<1>5. Entrada(q)' = Entrada(q)
  BY DEF Entrada
<1>6. QED
  BY <1>1, <1>2, <1>4, <1>5 DEF Trabajo
-----------------------------------------------------------------------------
(***************************************************************************)
(* A step of request p, which becomes r.                                   *)
(***************************************************************************)
LEMMA PasoDe ==
  ASSUME IInv, Crece, items' \in [Items -> Item \cup {NoHay}],
         NEW p \in Peticiones, NEW r \in Peticion, pet' = [pet EXCEPT ![p] = r],
         registro' \in [Peticiones -> Entradas \cup {NoHay}],
         \A q \in Peticiones \ {p} : registro'[q] = registro[q],
         pet'[p] = r => Forma(p)' /\ Trabajo(p)'
  PROVE  IInv'
<1>1. pet \in [Peticiones -> Peticion]
  BY DEF IInv, TypeOK
<1>2. pet'[p] = r /\ \A q \in Peticiones \ {p} : pet'[q] = pet[q]
  BY <1>1
<1>3. TypeOK'
  BY <1>1 DEF TypeOK
<1>4. \A q \in Peticiones \ {p} : Forma(q)' /\ Trabajo(q)'
  BY <1>2, OtrasQuietas
<1>5. QED
  BY <1>2, <1>3, <1>4 DEF IInv

(* One that has still nothing to be logged.                                *)
LEMMA PasoSinAsentar ==
  ASSUME IInv, Crece, items' \in [Items -> Item \cup {NoHay}], UNCHANGED registro,
         NEW p \in Peticiones, NEW r \in Peticion, pet' = [pet EXCEPT ![p] = r],
         pet[p].fase # "hecha", r.fase \notin {"releer", "registrar", "hecha"},
         pet'[p] = r => Forma(p)'
  PROVE  IInv'
<1>1. registro[p] = NoHay /\ registro \in [Peticiones -> Entradas \cup {NoHay}]
  BY DEF IInv, Trabajo, TypeOK
<1>2. pet'[p] = r => Trabajo(p)'
  BY <1>1 DEF Trabajo
<1>3. QED
  BY <1>1, <1>2, PasoDe

LEMMA PasoError ==
  ASSUME IInv, Crece, items' \in [Items -> Item \cup {NoHay}], UNCHANGED registro,
         NEW p \in Peticiones, Pasar(p, "error"), pet[p].fase # "hecha"
  PROVE  IInv'
<1> DEFINE r == [pet[p] EXCEPT !.fase = "error"]
<1>1. pet[p] \in Peticion /\ Forma(p) /\ pet \in [Peticiones -> Peticion]
  BY DEF IInv, TypeOK
<1>2. /\ r \in Peticion /\ r.fase = "error" /\ r.item = pet[p].item
      /\ r.tipo = pet[p].tipo /\ r.nombre = pet[p].nombre
  BY <1>1 DEF Peticion, Fases
<1>3. pet' = [pet EXCEPT ![p] = r]
  BY <1>1 DEF Pasar, Peticion
<1>4. pet'[p] = r => Forma(p)'
  BY <1>1, <1>2 DEF Forma, Crece
<1>5. QED
  BY <1>2, <1>3, <1>4, PasoSinAsentar

(* The same, with the items as they were.                                  *)
LEMMA PasoQuieto ==
  ASSUME IInv, UNCHANGED <<items, registro>>,
         NEW p \in Peticiones, NEW r \in Peticion, pet' = [pet EXCEPT ![p] = r],
         pet[p].fase # "hecha", r.fase \notin {"releer", "registrar", "hecha"},
         pet'[p] = r => Forma(p)'
  PROVE  IInv'
<1>1. Crece /\ items' \in [Items -> Item \cup {NoHay}]
  BY QuietoCrece DEF IInv, TypeOK
<1>2. QED
  BY <1>1, PasoSinAsentar

LEMMA ListadoDe ==
  ASSUME TypeOK, NEW i \in Existentes
  PROVE  /\ Len(Listado(i)) \in Nat
         /\ \A k \in 1 .. Len(Listado(i)) : Listado(i)[k] \in Version
         /\ 1 \in 1 .. Len(Listado(i))
<1> DEFINE s == items[i].versiones
<1>1. s \in Seq(Version) /\ Len(s) \in Nat \ {0} /\ DOMAIN s = 1 .. Len(s)
  BY VersionesDe
<1>2. \A k \in 1 .. Len(s) : (Len(s) - k) + 1 \in 1 .. Len(s)
  BY <1>1
<1>3. \A k \in 1 .. Len(s) : s[(Len(s) - k) + 1] \in Version
  BY <1>1, <1>2
<1>4. Listado(i) = [k \in 1 .. Len(s) |-> s[(Len(s) - k) + 1]]
  BY DEF Listado, Reverse
<1>5. Listado(i) \in [1 .. Len(s) -> Version]
  BY <1>3, <1>4
<1>6. Listado(i) \in Seq(Version) /\ DOMAIN Listado(i) = 1 .. Len(s)
  BY <1>1, <1>5, SeqDef
<1>7. Len(Listado(i)) = Len(s)
  BY <1>1, <1>6
<1>8. QED
  BY <1>1, <1>5, <1>7

LEMMA TipDe ==
  ASSUME TypeOK, NEW i \in Existentes
  PROVE  /\ Len(items[i].versiones) \in DOMAIN items[i].versiones
         /\ Tip(i) = items[i].versiones[Len(items[i].versiones)]
BY VersionesDe DEF Tip, Last
-----------------------------------------------------------------------------
(* Requests that begin.                                                    *)
LEMMA PasoSubirBuscar ==
  ASSUME IInv, NEW p \in Peticiones, SubirBuscar(p)
  PROVE  IInv'
<1>1. PICK n \in Nombres, i \in Existentes \cup {NoHay} :
        pet' = [pet EXCEPT ![p] = [Nueva EXCEPT !.tipo = "subir", !.fase = "publicar",
                                                !.item = i, !.nombre = n]]
  BY DEF SubirBuscar, Listados
<1> DEFINE r == [Nueva EXCEPT !.tipo = "subir", !.fase = "publicar", !.item = i, !.nombre = n]
<1>2. /\ r \in Peticion /\ r.tipo = "subir" /\ r.fase = "publicar" /\ r.item = i /\ r.nombre = n
  BY DEF Nueva, Peticion, Fases, Tipos, Existentes
<1>3. pet'[p] = r => Forma(p)'
  BY <1>2 DEF Forma, Existentes, SubirBuscar
<1>4. QED
  BY <1>1, <1>2, <1>3, PasoQuieto DEF SubirBuscar

LEMMA PasoRenombrarListar ==
  ASSUME IInv, NEW p \in Peticiones, RenombrarListar(p)
  PROVE  IInv'
<1>1. PICK i \in Existentes, n \in Nombres :
        pet' = [pet EXCEPT ![p] = [tipo |-> "renombrar", fase |-> "copiar", item |-> i,
                                   nombre |-> n, base |-> Listado(i)[1].contenido,
                                   visto |-> Len(Listado(i))]]
  BY DEF RenombrarListar
<1> DEFINE r == [tipo |-> "renombrar", fase |-> "copiar", item |-> i, nombre |-> n,
                 base |-> Listado(i)[1].contenido, visto |-> Len(Listado(i))]
<1>2. Listado(i)[1] \in Version /\ Len(Listado(i)) \in Nat /\ i \in Items
  BY ListadoDe DEF IInv, Existentes
<1>3. r \in Peticion /\ r.base \in Contenidos \cup {Borrada}
  BY <1>2 DEF Version, Peticion, Fases, Tipos
<1>4. pet'[p] = r => Forma(p)'
  BY <1>3 DEF Forma, Existentes, RenombrarListar
<1>5. QED
  BY <1>1, <1>3, <1>4, PasoQuieto DEF RenombrarListar

LEMMA PasoEliminarMirar ==
  ASSUME IInv, NEW p \in Peticiones, EliminarMirar(p)
  PROVE  IInv'
<1>1. PICK i \in Existentes :
        pet' = [pet EXCEPT ![p] = [Nueva EXCEPT !.tipo = "eliminar", !.item = i,
                                     !.fase = IF EstaBorrado(i) THEN "registrar" ELSE "borrar"]]
  BY DEF EliminarMirar
<1> DEFINE r == [Nueva EXCEPT !.tipo = "eliminar", !.item = i,
                              !.fase = IF EstaBorrado(i) THEN "registrar" ELSE "borrar"]
<1>2. /\ r \in Peticion /\ r.tipo = "eliminar" /\ r.item = i
      /\ r.fase = IF EstaBorrado(i) THEN "registrar" ELSE "borrar"
  BY DEF Nueva, Peticion, Fases, Tipos, Existentes
<1>3. UNCHANGED <<items, registro>> /\ pet[p].fase # "hecha"
  BY DEF EliminarMirar
<1>4. Crece /\ TypeOK /\ registro[p] = NoHay
  BY <1>3, QuietoCrece DEF IInv, Trabajo
<1>5. pet'[p] = r => Forma(p)'
  BY <1>2, <1>3 DEF Forma, Existentes
<1>6. pet'[p] = r /\ EstaBorrado(i) => Eliminado(p)'
  BY <1>2, <1>3, <1>4, TipDe DEF Eliminado, EstaBorrado
<1>7. pet'[p] = r => Trabajo(p)'
  BY <1>2, <1>3, <1>4, <1>6 DEF Trabajo, Hecho, Tipos
<1>8. QED
  BY <1>1, <1>2, <1>3, <1>4, <1>5, <1>7, PasoDe DEF TypeOK

LEMMA PasoRestaurarMirar ==
  ASSUME IInv, NEW p \in Peticiones, RestaurarMirar(p)
  PROVE  IInv'
<1>1. PICK i \in Existentes :
        pet' = [pet EXCEPT ![p] = [Nueva EXCEPT !.tipo = "restaurar", !.item = i,
                                     !.nombre = items[i].nombre,
                                     !.fase = IF EstaBorrado(i) THEN "listar" ELSE "hecha"]]
  BY DEF RestaurarMirar
<1> DEFINE r == [Nueva EXCEPT !.tipo = "restaurar", !.item = i, !.nombre = items[i].nombre,
                              !.fase = IF EstaBorrado(i) THEN "listar" ELSE "hecha"]
<1>2. UNCHANGED <<items, registro>> /\ pet[p].fase # "hecha"
  BY DEF RestaurarMirar
<1>3. Crece /\ TypeOK /\ registro[p] = NoHay
  BY <1>2, QuietoCrece DEF IInv, Trabajo
<1>4. items[i].nombre \in Nombres
  BY <1>3, VersionesDe
<1>5. /\ r \in Peticion /\ r.tipo = "restaurar" /\ r.item = i /\ r.nombre \in Nombres
      /\ r.fase = IF EstaBorrado(i) THEN "listar" ELSE "hecha"
  BY <1>4 DEF Nueva, Peticion, Fases, Tipos, Existentes
<1>6. pet'[p] = r => Forma(p)'
  BY <1>2, <1>5 DEF Forma, Existentes
<1>7. pet'[p] = r /\ ~EstaBorrado(i) => Restaurado(p)'
  <2> DEFINE k == Len(items[i].versiones)
  <2>1. ~EstaBorrado(i) => k \in DOMAIN items[i].versiones /\ ConContenido(i, k)
    BY <1>3, TipDe DEF EstaBorrado, ConContenido
  <2>2. QED
    BY <1>2, <1>5, <2>1 DEF Restaurado, ConContenido, Existentes
<1>8. pet'[p] = r => Trabajo(p)'
  BY <1>2, <1>3, <1>5, <1>7 DEF Trabajo, Hecho, Tipos
<1>9. QED
  BY <1>1, <1>2, <1>3, <1>5, <1>6, <1>8, PasoDe DEF TypeOK

-----------------------------------------------------------------------------
(* Requests that go on without a change in Autodesk.                       *)
LEMMA PasoRenombrarReleer ==
  ASSUME IInv, NEW p \in Peticiones, RenombrarReleer(p)
  PROVE  IInv'
<1> DEFINE r == [pet[p] EXCEPT !.fase = "registrar"]
<1>1. /\ pet[p] \in Peticion /\ pet \in [Peticiones -> Peticion] /\ Forma(p)
      /\ pet[p].tipo = "renombrar" /\ pet[p].fase = "releer" /\ UNCHANGED <<items, registro>>
  BY DEF IInv, TypeOK, RenombrarReleer, En
<1>2. Crece /\ TypeOK /\ registro[p] = NoHay /\ Hecho(p)
  BY <1>1, QuietoCrece DEF IInv, Trabajo
<1>3. /\ r \in Peticion /\ r.fase = "registrar" /\ r.item = pet[p].item
      /\ r.tipo = pet[p].tipo /\ r.nombre = pet[p].nombre
  BY <1>1 DEF Peticion, Fases
<1>4. pet' = [pet EXCEPT ![p] = r]
  BY <1>1 DEF RenombrarReleer, Pasar, Peticion
<1>5. pet'[p] = r => Forma(p)'
  BY <1>1, <1>2, <1>3 DEF Forma, Crece
<1>6. pet'[p] = r => Trabajo(p)'
  BY <1>1, <1>2, <1>3 DEF Trabajo, Hecho, Renombrado, Anadida, Tipos
<1>7. QED
  BY <1>1, <1>2, <1>3, <1>4, <1>5, <1>6, PasoDe DEF TypeOK

LEMMA PasoRestaurarListar ==
  ASSUME IInv, NEW p \in Peticiones, RestaurarListar(p)
  PROVE  IInv'
<1>1. /\ pet[p] \in Peticion /\ pet \in [Peticiones -> Peticion] /\ Forma(p) /\ TypeOK
      /\ pet[p].tipo = "restaurar" /\ pet[p].fase = "listar"
  BY DEF IInv, TypeOK, RestaurarListar, En
<1>2. pet[p].item \in Existentes /\ pet[p].nombre \in Nombres
  BY <1>1 DEF Forma
<1>3. PICK k \in 1 .. Len(Listado(pet[p].item)) :
        /\ Listado(pet[p].item)[k].contenido # Borrada
        /\ pet' = [pet EXCEPT ![p].fase = "copiar",
                              ![p].base = Listado(pet[p].item)[k].contenido,
                              ![p].visto = Len(Listado(pet[p].item))]
  BY DEF RestaurarListar
<1>4. PICK b : b = Listado(pet[p].item)[k].contenido
  OBVIOUS
<1>5. PICK l \in Nat : l = Len(Listado(pet[p].item))
  BY <1>1, <1>2, ListadoDe
<1>6. b \in Contenidos
  BY <1>1, <1>2, <1>3, <1>4, ListadoDe DEF Version
<1> DEFINE r == [pet[p] EXCEPT !.fase = "copiar", !.base = b, !.visto = l]
<1>7. /\ r \in Peticion /\ r.fase = "copiar" /\ r.base = b /\ r.item = pet[p].item
      /\ r.tipo = "restaurar" /\ r.nombre = pet[p].nombre
  BY <1>1, <1>5, <1>6 DEF Peticion, Fases
<1>8. pet' = [pet EXCEPT ![p] = r]
  BY <1>1, <1>3, <1>4, <1>5 DEF Peticion
<1>9. pet'[p] = r => Forma(p)'
  BY <1>2, <1>6, <1>7 DEF Forma, Existentes, RestaurarListar
<1>10. QED
  BY <1>1, <1>7, <1>8, <1>9, PasoQuieto DEF RestaurarListar

LEMMA PasoRestaurarReintentar ==
  ASSUME IInv, NEW p \in Peticiones, RestaurarReintentar(p)
  PROVE  IInv'
<1>1. /\ pet[p] \in Peticion /\ pet \in [Peticiones -> Peticion] /\ Forma(p)
      /\ pet[p].tipo = "restaurar" /\ pet[p].fase \in {"copiar", "copiarItem"}
  BY DEF IInv, TypeOK, RestaurarReintentar
<1>2. PICK f \in {"copiarItem", "recrear"} : Pasar(p, f)
  BY DEF RestaurarReintentar
<1> DEFINE r == [pet[p] EXCEPT !.fase = f]
<1>3. /\ r \in Peticion /\ r.fase = f /\ r.item = pet[p].item /\ r.base = pet[p].base
      /\ r.tipo = pet[p].tipo /\ r.nombre = pet[p].nombre
  BY <1>1 DEF Peticion, Fases
<1>4. pet' = [pet EXCEPT ![p] = r]
  BY <1>1, <1>2 DEF Pasar, Peticion
<1>5. pet'[p] = r => Forma(p)'
  BY <1>1, <1>3 DEF Forma, Existentes, RestaurarReintentar
<1>6. QED
  BY <1>1, <1>3, <1>4, <1>5, PasoQuieto DEF RestaurarReintentar

LEMMA PasoFalla ==
  ASSUME IInv, NEW p \in Peticiones, Falla(p)
  PROVE  IInv'
<1>1. Crece /\ items' \in [Items -> Item \cup {NoHay}] /\ UNCHANGED registro
  BY QuietoCrece DEF IInv, TypeOK, Falla
<1>2. QED
  BY <1>1, PasoError DEF Falla
-----------------------------------------------------------------------------
(***************************************************************************)
(* Requests that change the folder: the answer arrives and the request     *)
(* goes on with its work done, or is lost.                                 *)
(***************************************************************************)
LEMMA PasoRespondido ==
  ASSUME IInv, Crece, items' \in [Items -> Item \cup {NoHay}], UNCHANGED registro,
         NEW p \in Peticiones, NEW f \in {"releer", "registrar"},
         Pasar(p, f), pet[p].fase # "hecha", pet[p].tipo \in Tipos,
         f = "releer" => pet[p].tipo = "renombrar",
         /\ pet'[p].tipo = pet[p].tipo /\ pet'[p].item = pet[p].item /\ pet'[p].fase = f
         => Hecho(p)'
  PROVE  IInv'
<1> DEFINE r == [pet[p] EXCEPT !.fase = f]
<1>1. /\ pet[p] \in Peticion /\ pet \in [Peticiones -> Peticion] /\ Forma(p)
      /\ registro[p] = NoHay /\ registro \in [Peticiones -> Entradas \cup {NoHay}]
  BY DEF IInv, TypeOK, Trabajo
<1>2. /\ r \in Peticion /\ r.fase = f /\ r.item = pet[p].item /\ r.base = pet[p].base
      /\ r.tipo = pet[p].tipo /\ r.nombre = pet[p].nombre
  BY <1>1 DEF Peticion, Fases
<1>3. pet' = [pet EXCEPT ![p] = r]
  BY <1>1 DEF Pasar, Peticion
<1>4. pet'[p] = r => Forma(p)'
  BY <1>1, <1>2 DEF Forma, Crece
<1>5. pet'[p] = r => Trabajo(p)'
  BY <1>1, <1>2 DEF Trabajo
<1>6. QED
  BY <1>1, <1>2, <1>3, <1>4, <1>5, PasoDe

LEMMA PasoSubirPublicar ==
  ASSUME IInv, NEW p \in Peticiones, SubirPublicar(p)
  PROVE  IInv'
<1> DEFINE v == [contenido |-> p, autor |-> p, visto |-> 0]
<1>1. /\ TypeOK /\ Forma(p) /\ UNCHANGED registro
      /\ pet[p].tipo = "subir" /\ pet[p].fase = "publicar" /\ pet[p].nombre \in Nombres
      /\ pet[p].item # NoHay => pet[p].item \in Existentes
  BY DEF IInv, Forma, SubirPublicar, En
<1>2. v \in Version /\ v.contenido = p /\ v.autor = p
  BY DEF Version, Contenidos
<1>3. CASE pet[p].item # NoHay
  <2>1. CrearVersion(pet[p].item, pet[p].nombre, v)
    BY <1>3 DEF SubirPublicar
  <2>2. /\ items' \in [Items -> Item \cup {NoHay}] /\ Crece
        /\ \E k \in DOMAIN items'[pet[p].item].versiones :
             k > 1 /\ items'[pet[p].item].versiones[k] = v
    BY <1>1, <1>2, <1>3, <2>1, CrearVersionCrece
  <2>3. pet'[p].tipo = pet[p].tipo /\ pet'[p].item = pet[p].item => Hecho(p)'
    BY <1>1, <1>2, <1>3, <2>2 DEF Hecho, Subido, Anadida, Crece, Tipos
  <2>4. CASE Pasar(p, "registrar")
    BY <1>1, <2>2, <2>3, <2>4, PasoRespondido DEF Tipos
  <2>5. QED
    BY <1>1, <2>2, <2>4, PasoError DEF SubirPublicar, Respondida
<1>4. CASE pet[p].item = NoHay
  <2>1. CrearItem(pet[p].nombre, v)
    BY <1>4 DEF SubirPublicar
  <2>2. /\ items' \in [Items -> Item \cup {NoHay}] /\ Crece
        /\ \E i \in Existentes' : 1 \in DOMAIN items'[i].versiones /\ items'[i].versiones[1] = v
    BY <1>1, <1>2, <2>1, CrearItemCrece
  <2>3. pet'[p].tipo = pet[p].tipo /\ pet'[p].item = pet[p].item => Hecho(p)'
    BY <1>1, <1>2, <1>4, <2>2 DEF Hecho, Subido, Anadida, Tipos
  <2>4. CASE Pasar(p, "registrar")
    BY <1>1, <2>2, <2>3, <2>4, PasoRespondido DEF Tipos
  <2>5. QED
    BY <1>1, <2>2, <2>4, PasoError DEF SubirPublicar, Respondida
<1>5. QED
  BY <1>3, <1>4

LEMMA PasoCopiarVersion ==
  ASSUME IInv, NEW p \in Peticiones, CopiarVersion(p)
  PROVE  IInv'
<1> DEFINE v == Copia(p)
           n == IF pet[p].tipo = "renombrar" THEN pet[p].nombre ELSE items[pet[p].item].nombre
<1>1. /\ TypeOK /\ Forma(p) /\ UNCHANGED registro /\ pet[p] \in Peticion
      /\ pet[p].tipo \in {"renombrar", "restaurar"} /\ pet[p].fase \in {"copiar", "copiarItem"}
      /\ pet[p].nombre \in Nombres /\ pet[p].item \in Existentes
      /\ pet[p].base \in Contenidos /\ pet[p].base # Borrada
  BY DEF IInv, TypeOK, Forma, CopiarVersion
<1>2. v \in Version /\ v.contenido # Borrada /\ v.autor = p
  BY <1>1 DEF Copia, Version, Contenidos, Peticion
<1>3. n \in Nombres
  BY <1>1, VersionesDe
<1>4. CrearVersion(pet[p].item, n, v)
  BY DEF CopiarVersion
<1>5. /\ items' \in [Items -> Item \cup {NoHay}] /\ Crece
      /\ \E k \in DOMAIN items'[pet[p].item].versiones :
           k > 1 /\ items'[pet[p].item].versiones[k] = v
  <2> HIDE DEF n, v
  <2>1. QED
    BY <1>1, <1>2, <1>3, <1>4, CrearVersionCrece
<1>6. pet'[p].tipo = pet[p].tipo /\ pet'[p].item = pet[p].item => Hecho(p)'
  <2>1. PICK k \in DOMAIN items'[pet[p].item].versiones :
          /\ items'[pet[p].item].versiones[k].contenido # Borrada
          /\ items'[pet[p].item].versiones[k].autor = p
    BY <1>2, <1>5
  <2>2. pet[p].item \in Existentes'
    BY <1>1, <1>5 DEF Crece
  <2>3. QED
    BY <1>1, <2>1, <2>2
    DEF Hecho, Renombrado, Restaurado, Copiado, ConContenido, Anadida, Tipos
<1>7. PICK f \in {"releer", "registrar"} :
        /\ f = "releer" => pet[p].tipo = "renombrar"
        /\ Respondida(p, f)
  BY DEF CopiarVersion
<1>8. CASE Pasar(p, f)
  BY <1>1, <1>5, <1>6, <1>7, <1>8, PasoRespondido DEF Tipos
<1>9. QED
  BY <1>1, <1>5, <1>7, <1>8, PasoError DEF Respondida

LEMMA PasoEliminarBorrar ==
  ASSUME IInv, NEW p \in Peticiones, EliminarBorrar(p)
  PROVE  IInv'
<1> DEFINE v == [contenido |-> Borrada, autor |-> p, visto |-> 0]
<1>1. /\ TypeOK /\ Forma(p) /\ UNCHANGED registro
      /\ pet[p].tipo = "eliminar" /\ pet[p].fase = "borrar" /\ pet[p].item \in Existentes
  BY DEF IInv, Forma, EliminarBorrar, En
<1>2. v \in Version /\ v.contenido = Borrada
  BY DEF Version, Contenidos
<1>3. items[pet[p].item].nombre \in Nombres
  BY <1>1, VersionesDe
<1>4. /\ items' \in [Items -> Item \cup {NoHay}] /\ Crece
      /\ \E k \in DOMAIN items'[pet[p].item].versiones :
           k > 1 /\ items'[pet[p].item].versiones[k] = v
  BY <1>1, <1>2, <1>3, CrearVersionCrece DEF EliminarBorrar
<1>5. pet'[p].tipo = pet[p].tipo /\ pet'[p].item = pet[p].item => Hecho(p)'
  BY <1>1, <1>2, <1>4 DEF Hecho, Eliminado, Tipos
<1>6. CASE Pasar(p, "registrar")
  BY <1>1, <1>4, <1>5, <1>6, PasoRespondido DEF Tipos
<1>7. QED
  BY <1>1, <1>4, <1>6, PasoError DEF EliminarBorrar, Respondida

LEMMA PasoRestaurarRecrear ==
  ASSUME IInv, NEW p \in Peticiones, RestaurarRecrear(p)
  PROVE  IInv'
<1>1. /\ TypeOK /\ Forma(p) /\ UNCHANGED registro /\ pet[p] \in Peticion
      /\ pet[p].tipo = "restaurar" /\ pet[p].fase = "recrear"
      /\ pet[p].nombre \in Nombres /\ pet[p].base \in Contenidos
  BY DEF IInv, TypeOK, Forma, RestaurarRecrear, En
<1>2. pet[p].base # Borrada
  BY <1>1, ArchivosAssumption DEF Contenidos
<1>3. Copia(p) \in Version /\ Copia(p).contenido # Borrada /\ Copia(p).autor = p
  BY <1>1, <1>2 DEF Copia, Version, Contenidos, Peticion
<1>4. /\ items' \in [Items -> Item \cup {NoHay}] /\ Crece
      /\ \E i \in Existentes' : 1 \in DOMAIN items'[i].versiones /\ items'[i].versiones[1] = Copia(p)
  BY <1>1, <1>3, CrearItemCrece DEF RestaurarRecrear
<1>5. pet'[p].tipo = pet[p].tipo /\ pet'[p].item = pet[p].item => Hecho(p)'
  <2>1. PICK i \in Existentes' : /\ 1 \in DOMAIN items'[i].versiones
                                 /\ items'[i].versiones[1].contenido # Borrada
                                 /\ items'[i].versiones[1].autor = p
    BY <1>3, <1>4
  <2>2. QED
    BY <1>1, <2>1 DEF Hecho, Restaurado, Copiado, ConContenido, Anadida, Tipos
<1>6. CASE Pasar(p, "registrar")
  BY <1>1, <1>4, <1>5, <1>6, PasoRespondido DEF Tipos
<1>7. QED
  BY <1>1, <1>4, <1>6, PasoError DEF RestaurarRecrear, Respondida

LEMMA PasoRegistrar ==
  ASSUME IInv, NEW p \in Peticiones, Registrar(p)
  PROVE  IInv'
<1> DEFINE r == [pet[p] EXCEPT !.fase = "hecha"]
<1>1. /\ pet[p] \in Peticion /\ pet \in [Peticiones -> Peticion] /\ Forma(p) /\ TypeOK
      /\ pet[p].fase = "registrar" /\ UNCHANGED items /\ Hecho(p) /\ registro[p] = NoHay
  BY DEF IInv, TypeOK, Registrar, Trabajo
<1>2. Crece /\ pet[p].tipo \in Tipos
  BY <1>1, QuietoCrece DEF Hecho
<1>3. Entrada(p) \in Entradas
  BY <1>2 DEF Entrada, Entradas, Tipos
<1>4. /\ registro' \in [Peticiones -> Entradas \cup {NoHay}]
      /\ \A q \in Peticiones \ {p} : registro'[q] = registro[q]
      /\ registro'[p] \in {NoHay, Entrada(p)}
  BY <1>1, <1>3 DEF Registrar, TypeOK
<1>5. /\ r \in Peticion /\ r.fase = "hecha" /\ r.item = pet[p].item
      /\ r.tipo = pet[p].tipo /\ r.nombre = pet[p].nombre
  BY <1>1 DEF Peticion, Fases
<1>6. pet' = [pet EXCEPT ![p] = r]
  BY <1>1 DEF Registrar, Pasar, Peticion
<1>7. pet'[p] = r => Forma(p)'
  BY <1>1, <1>2, <1>5 DEF Forma, Crece
<1>8. pet'[p] = r => Trabajo(p)'
  <2>1. pet[p].item # NoHay => pet[p].item \in Existentes
    BY <1>1 DEF Forma
  <2>2. pet[p].tipo # "subir" => pet[p].item \in Existentes
    BY <1>1, <1>2 DEF Forma, Tipos
  <2>3. pet'[p] = r => Hecho(p)'
    BY <1>1, <1>2, <1>5, <2>1, <2>2, HechoPersiste
  <2>4. pet'[p] = r => Entrada(p)' = Entrada(p)
    BY <1>5 DEF Entrada
  <2>5. QED
    BY <1>4, <1>5, <2>3, <2>4 DEF Trabajo
<1>9. QED
  BY <1>1, <1>2, <1>4, <1>5, <1>6, <1>7, <1>8, PasoDe DEF TypeOK
-----------------------------------------------------------------------------
LEMMA Inicio == Init => IInv
<1> SUFFICES ASSUME Init PROVE IInv
  OBVIOUS
<1>1. items \in [Items -> Item \cup {NoHay}]
  <2>1. ASSUME NEW i \in Items
        PROVE  <<[contenido |-> i, autor |-> i, visto |-> 0]>> \in Seq(Version) \ {<<>>}
    BY DEF Version, Contenidos
  <2>2. [nombre: Nombres, versiones: {<<[contenido |-> i, autor |-> i, visto |-> 0]>> : i \in Items}]
          \subseteq Item
    BY <2>1 DEF Item
  <2>3. QED
    BY <2>2 DEF Init
<1>2. Nueva \in Peticion
  BY DEF Nueva, Peticion, Fases
<1>3. TypeOK
  BY <1>1, <1>2 DEF Init, TypeOK
<1>4. \A p \in Peticiones : Forma(p) /\ Trabajo(p)
  BY NoHayDistinto DEF Init, Nueva, Forma, Trabajo, Tipos
<1>5. QED
  BY <1>3, <1>4 DEF IInv

LEMMA Paso ==
  ASSUME IInv, [Next]_vars
  PROVE  IInv'
<1>1. CASE UNCHANGED vars
  <2>1. Crece
    BY <1>1, QuietoCrece DEF vars
  <2>2. TypeOK'
    BY <1>1 DEF vars, IInv, TypeOK
  <2>3. \A q \in Peticiones : Forma(q)' /\ Trabajo(q)'
    BY <1>1, <2>1, OtrasQuietas DEF vars
  <2>4. QED
    BY <2>2, <2>3 DEF IInv
<1>2. QED
  BY <1>1, PasoSubirBuscar, PasoSubirPublicar, PasoRenombrarListar, PasoRenombrarReleer,
     PasoCopiarVersion, PasoEliminarMirar, PasoEliminarBorrar, PasoRestaurarMirar,
     PasoRestaurarListar, PasoRestaurarReintentar, PasoRestaurarRecrear, PasoRegistrar, PasoFalla
  DEF Next

(* Every variable keeps its type, and no item is without a version.        *)
THEOREM ArchivosTypeOK == Spec => []TypeOK
<1>1. IInv => TypeOK
  BY DEF IInv
<1>2. QED
  BY <1>1, Inicio, Paso, PTL DEF Spec

(* A request that was answered as done has done what it was asked for, and *)
(* no later request of anybody undoes it in the list of versions.          *)
THEOREM LaRespuestaEsVerdad == Spec => []ExitoDeVerdad
<1>1. IInv => ExitoDeVerdad
  <2>1. ASSUME IInv, NEW p \in Peticiones, pet[p].fase = "hecha"
        PROVE  Hecho(p)
    BY <2>1 DEF IInv, Trabajo
  <2>2. ASSUME NEW p \in Peticiones, Hecho(p)
        PROVE  CASE pet[p].tipo = "subir" ->
                      \E i \in Existentes : \E k \in DOMAIN items[i].versiones :
                        Anadida(p, i, k) /\ items[i].versiones[k].contenido = p
                 [] pet[p].tipo = "renombrar" -> Renombrado(p)
                 [] pet[p].tipo = "eliminar" -> Eliminado(p)
                 [] pet[p].tipo = "restaurar" ->
                      \E i \in Existentes : \E k \in DOMAIN items[i].versiones :
                        (i = pet[p].item \/ k = 1) /\ items[i].versiones[k].contenido # Borrada
    BY <2>2 DEF Hecho, Tipos, Subido, Restaurado, ConContenido
  <2>3. QED
    BY <2>1, <2>2 DEF ExitoDeVerdad, Renombrado, Eliminado
<1>2. QED
  BY <1>1, Inicio, Paso, PTL DEF Spec

(* The audit entry of a request agrees with what it did to the folder: a   *)
(* new file and a new version are never taken for each other, and a rename *)
(* or a restore is logged only with the version it added.                  *)
THEOREM LaAuditoriaCuadra == Spec => []RegistroCuadra
<1>1. IInv => RegistroCuadra
  <2> SUFFICES ASSUME IInv, NEW p \in Peticiones, registro[p] # NoHay
               PROVE  /\ registro[p] = "FILE_UPLOAD" =>
                            \E i \in Existentes : Anadida(p, i, 1)
                      /\ registro[p] = "FILE_VERSION_SAVE" =>
                            \E k \in DOMAIN items[pet[p].item].versiones :
                              k > 1 /\ Anadida(p, pet[p].item, k)
                      /\ registro[p] \in {"FILE_UPDATE", "FILE_RESTORE"} =>
                            \E i \in Existentes : \E k \in DOMAIN items[i].versiones : Anadida(p, i, k)
    BY NoHayDistinto DEF RegistroCuadra, Entradas
  <2>1. Hecho(p) /\ Forma(p) /\ registro[p] = Entrada(p) /\ pet[p].tipo \in Tipos
    BY DEF IInv, Trabajo, Hecho
  <2>2. CASE pet[p].tipo = "subir"
    BY <2>1, <2>2 DEF Hecho, Subido, Entrada, Anadida
  <2>3. CASE pet[p].tipo = "renombrar"
    BY <2>1, <2>3 DEF Hecho, Renombrado, Entrada, Forma
  <2>4. CASE pet[p].tipo = "eliminar"
    BY <2>1, <2>4 DEF Entrada
  <2>5. CASE pet[p].tipo = "restaurar"
    BY <2>1, <2>5 DEF Hecho, Copiado, Entrada
  <2>6. QED
    BY <2>1, <2>2, <2>3, <2>4, <2>5 DEF Tipos
<1>2. QED
  BY <1>1, Inicio, Paso, PTL DEF Spec
-----------------------------------------------------------------------------
(***************************************************************************)
(* What the newest version shows.  A list of versions is sound when its    *)
(* first one has content and each version with content shows what the last *)
(* original up to it brought, unless a late copy came before.              *)
(***************************************************************************)
Brota(s, k) == k = 1 \/ s[k].contenido = s[k].autor

Tardia(s, k) ==
  /\ s[k].contenido # Borrada
  /\ ~Brota(s, k)
  /\ \E m \in (s[k].visto + 1) .. (k - 1) : Brota(s, m)

\* Version m is the last original up to version k.
Fuente(s, k, m) == m \in 1 .. k /\ Brota(s, m) /\ \A l \in (m + 1) .. k : ~Brota(s, l)

Fiel(s) ==
  /\ s[1].contenido # Borrada
  /\ \A k \in 1 .. Len(s) : \E m \in 1 .. k : Fuente(s, k, m)
  /\ \A k \in 1 .. Len(s) : \A m \in 1 .. k :
       /\ s[k].contenido # Borrada /\ Fuente(s, k, m)
       /\ \A l \in 1 .. k : ~Tardia(s, l)
       => s[k].contenido = s[m].contenido

\* Content b was that of the newest version not deleted when s had w versions.
Elegida(s, b, w) ==
  w <= Len(s) /\ \E j \in 1 .. w : s[j].contenido = b /\ \A l \in (j + 1) .. w : s[l].contenido = Borrada

Vigencia ==
  /\ \A i \in Existentes : Fiel(items[i].versiones)
  /\ \A p \in Peticiones :
       pet[p].fase \in {"copiar", "copiarItem"} /\ pet[p].base # Borrada
       => Elegida(items[pet[p].item].versiones, pet[p].base, pet[p].visto)

LEMMA FielUna ==
  ASSUME NEW v \in Version, v.contenido # Borrada
  PROVE  Fiel(<<v>>)
<1>1. Len(<<v>>) = 1 /\ <<v>>[1] = v
  OBVIOUS
<1>2. Fuente(<<v>>, 1, 1)
  BY DEF Fuente, Brota
<1>3. QED
  BY <1>1, <1>2 DEF Fiel

LEMMA FielAlAnadir ==
  ASSUME NEW s \in Seq(Version), Len(s) \in Nat \ {0}, Fiel(s), NEW v \in Version,
         \/ v.contenido \in {v.autor, Borrada}
         \/ Elegida(s, v.contenido, v.visto)
  PROVE  Fiel(Append(s, v))
<1>1. PICK n \in Nat : n = Len(s) /\ n > 0
  OBVIOUS
<1>2. PICK t \in Seq(Version) : t = Append(s, v)
  <2>1. Append(s, v) \in Seq(Version)
    OBVIOUS
  <2>2. QED
    BY <2>1, Zenon
<1>3. /\ Len(t) = n + 1 /\ t[n + 1] = v
      /\ \A k \in 1 .. n : t[k] = s[k]
  BY <1>1, <1>2
<1>4. \A k \in 1 .. n : (Brota(t, k) <=> Brota(s, k)) /\ s[k] \in Version
  BY <1>1, <1>3 DEF Brota
<1>5. \A k \in 1 .. n : Tardia(t, k) <=> Tardia(s, k)
  <2>1. ASSUME NEW k \in 1 .. n PROVE Tardia(t, k) <=> Tardia(s, k)
    <3>1. s[k].visto \in Nat /\ t[k] = s[k]
      BY <1>3, <1>4 DEF Version
    <3>2. \A m \in (s[k].visto + 1) .. (k - 1) : m \in 1 .. n
      BY <3>1
    <3>3. QED
      BY <1>4, <3>1, <3>2 DEF Tardia
  <2>2. QED
    BY <2>1
<1>6. \A k \in 1 .. n : \A m \in 1 .. k : Fuente(t, k, m) <=> Fuente(s, k, m)
  BY <1>4 DEF Fuente
<1>7. t[1].contenido # Borrada
  BY <1>1, <1>3 DEF Fiel
<1>8. \A k \in 1 .. n : \E m \in 1 .. k : Fuente(t, k, m)
  BY <1>1, <1>6 DEF Fiel
<1>9. ASSUME NEW k \in 1 .. n, NEW m \in 1 .. k, t[k].contenido # Borrada, Fuente(t, k, m),
             \A l \in 1 .. k : ~Tardia(t, l)
      PROVE  t[k].contenido = t[m].contenido
  <2>1. s[k].contenido # Borrada /\ Fuente(s, k, m) /\ \A l \in 1 .. k : ~Tardia(s, l)
    BY <1>3, <1>5, <1>6, <1>9
  <2>2. s[k].contenido = s[m].contenido
    BY <1>1, <2>1 DEF Fiel
  <2>3. QED
    BY <1>3, <2>2
<1>10. \E m \in 1 .. (n + 1) : Fuente(t, n + 1, m)
  <2>1. CASE Brota(t, n + 1)
    BY <2>1 DEF Fuente
  <2>2. CASE ~Brota(t, n + 1)
    <3>1. PICK m \in 1 .. n : Fuente(t, n, m)
      BY <1>1, <1>8
    <3>2. Fuente(t, n + 1, m)
      BY <2>2, <3>1 DEF Fuente
    <3>3. QED
      BY <3>2
  <2>3. QED
    BY <2>1, <2>2
<1>11. ASSUME NEW m \in 1 .. (n + 1), v.contenido # Borrada, Fuente(t, n + 1, m),
              \A l \in 1 .. (n + 1) : ~Tardia(t, l)
       PROVE  v.contenido = t[m].contenido
  <2>1. CASE m = n + 1
    BY <1>3, <2>1
  <2>2. CASE m # n + 1
    <3>1. m \in 1 .. n /\ Brota(t, m) /\ ~Brota(t, n + 1) /\ \A l \in (m + 1) .. (n + 1) : ~Brota(t, l)
      BY <1>11, <2>2 DEF Fuente
    <3>2. v.contenido # v.autor /\ v.visto \in Nat
      BY <1>3, <3>1 DEF Brota, Version
    <3>3. PICK w \in Nat : w = v.visto
      BY <3>2
    <3>4. w <= n /\ \E j \in 1 .. w :
                      s[j].contenido = v.contenido /\ \A l \in (j + 1) .. w : s[l].contenido = Borrada
      BY <1>1, <1>11, <3>2, <3>3 DEF Elegida
    <3>5. PICK j \in 1 .. w :
            s[j].contenido = v.contenido /\ \A l \in (j + 1) .. w : s[l].contenido = Borrada
      BY <3>4
    <3>6. ~(\E l \in (w + 1) .. n : Brota(t, l))
      <4>1. ~Tardia(t, n + 1)
        BY <1>11
      <4>2. \A l \in (w + 1) .. n : l \in (v.visto + 1) .. ((n + 1) - 1)
        BY <3>3
      <4>3. QED
        BY <1>3, <1>11, <3>1, <4>1, <4>2 DEF Tardia
    <3>7. m <= w
      BY <3>1, <3>6
    <3>8. s[m].contenido # Borrada
      <4>1. CASE m = 1
        BY <4>1 DEF Fiel
      <4>2. CASE m # 1
        <5>1. s[m].contenido = s[m].autor /\ s[m].autor \in Contenidos
          BY <1>4, <3>1, <4>2 DEF Brota, Version
        <5>2. QED
          BY <5>1, ArchivosAssumption DEF Contenidos
      <4>3. QED
        BY <4>1, <4>2
    <3>9. m <= j
      BY <3>5, <3>7, <3>8
    <3>10. j \in 1 .. n /\ m \in 1 .. j /\ s[j].contenido # Borrada /\ t[j] = s[j] /\ t[m] = s[m]
      BY <1>3, <1>11, <3>4, <3>5, <3>9, <3>1
    <3>11. Fuente(t, j, m) /\ \A l \in 1 .. j : ~Tardia(t, l)
      BY <1>11, <3>1, <3>10 DEF Fuente
    <3>12. QED
      BY <1>9, <3>5, <3>10, <3>11
  <2>3. QED
    BY <2>1, <2>2
<1>12. \A k \in 1 .. (n + 1) : k \in 1 .. n \/ k = n + 1
  BY <1>1
<1>13. Fiel(t)
  BY <1>3, <1>7, <1>8, <1>9, <1>10, <1>11, <1>12 DEF Fiel
<1>14. QED
  BY <1>2, <1>13

LEMMA ElegidaPersiste ==
  ASSUME TypeOK, TypeOK', Crece, NEW i \in Existentes, NEW b, NEW w \in Nat,
         Elegida(items[i].versiones, b, w)
  PROVE  Elegida(items'[i].versiones, b, w)
<1>1. /\ Len(items[i].versiones) \in Nat
      /\ DOMAIN items[i].versiones = 1 .. Len(items[i].versiones)
  BY VersionesDe
<1>2. i \in Existentes'
  BY DEF Crece
<1>3. /\ Len(items'[i].versiones) \in Nat
      /\ DOMAIN items'[i].versiones = 1 .. Len(items'[i].versiones)
  <2>1. items'[i] \in Item
    BY <1>2 DEF TypeOK, Existentes
  <2>2. QED
    BY <2>1 DEF Item
<1>4. \A k \in 1 .. Len(items[i].versiones) :
        /\ k \in 1 .. Len(items'[i].versiones)
        /\ items'[i].versiones[k] = items[i].versiones[k]
  BY <1>1, <1>3 DEF Crece
<1>5. w <= Len(items[i].versiones) /\ w <= Len(items'[i].versiones)
  <2>1. w <= Len(items[i].versiones)
    BY DEF Elegida
  <2>2. CASE w = 0
    BY <1>3, <2>1, <2>2
  <2>3. CASE w # 0
    BY <1>1, <1>3, <1>4, <2>1, <2>3
  <2>4. QED
    BY <2>1, <2>2, <2>3
<1>6. PICK j \in 1 .. w :
        /\ items[i].versiones[j].contenido = b
        /\ \A l \in (j + 1) .. w : items[i].versiones[l].contenido = Borrada
  BY DEF Elegida
<1>7. /\ items'[i].versiones[j].contenido = b
      /\ \A l \in (j + 1) .. w : items'[i].versiones[l].contenido = Borrada
  <2>1. \A k \in 1 .. w : items'[i].versiones[k] = items[i].versiones[k]
    BY <1>1, <1>4, <1>5
  <2>2. j \in 1 .. w /\ \A l \in (j + 1) .. w : l \in 1 .. w
    OBVIOUS
  <2>3. QED
    BY <1>6, <2>1, <2>2
<1>8. QED
  BY <1>5, <1>7 DEF Elegida

(* A step of request p.                                                    *)
LEMMA VigenciaDe ==
  ASSUME IInv, IInv', Vigencia, Crece, NEW p \in Peticiones,
         \A q \in Peticiones \ {p} : pet'[q] = pet[q],
         \A i \in Existentes' : Fiel(items'[i].versiones),
         pet'[p].fase \in {"copiar", "copiarItem"} /\ pet'[p].base # Borrada
         => Elegida(items'[pet'[p].item].versiones, pet'[p].base, pet'[p].visto)
  PROVE  Vigencia'
<1>1. ASSUME NEW q \in Peticiones \ {p}, pet'[q].fase \in {"copiar", "copiarItem"},
             pet'[q].base # Borrada
      PROVE  Elegida(items'[pet'[q].item].versiones, pet'[q].base, pet'[q].visto)
  <2>1. pet[q] = pet'[q] /\ pet[q].item \in Existentes /\ pet[q].visto \in Nat
    BY <1>1 DEF IInv, Forma, TypeOK, Peticion
  <2>2. Elegida(items[pet[q].item].versiones, pet[q].base, pet[q].visto)
    BY <1>1, <2>1 DEF Vigencia
  <2>3. Elegida(items'[pet[q].item].versiones, pet[q].base, pet[q].visto)
    BY <2>1, <2>2, ElegidaPersiste DEF IInv
  <2>4. QED
    BY <2>1, <2>3
<1>2. QED
  BY <1>1 DEF Vigencia

(* One that leaves the folder alone and chooses nothing.                   *)
LEMMA VigenciaQuieta ==
  ASSUME IInv, IInv', Vigencia, UNCHANGED items, NEW p \in Peticiones, NEW r,
         pet' = [pet EXCEPT ![p] = r], r.fase \notin {"copiar", "copiarItem"}
  PROVE  Vigencia'
<1>1. Crece /\ Existentes' = Existentes
  BY QuietoCrece DEF Existentes
<1>2. pet'[p] = r /\ \A q \in Peticiones \ {p} : pet'[q] = pet[q]
  BY DEF IInv, TypeOK
<1>3. \A i \in Existentes' : Fiel(items'[i].versiones)
  BY <1>1 DEF Vigencia
<1>4. QED
  BY <1>1, <1>2, <1>3, VigenciaDe

LEMMA PasarDe ==
  ASSUME IInv, NEW p \in Peticiones, NEW f, Pasar(p, f)
  PROVE  /\ pet'[p].fase = f /\ pet'[p].item = pet[p].item /\ pet'[p].base = pet[p].base
         /\ pet'[p].visto = pet[p].visto
         /\ \A q \in Peticiones \ {p} : pet'[q] = pet[q]
<1>1. pet[p] \in Peticion /\ pet \in [Peticiones -> Peticion]
  BY DEF IInv, TypeOK
<1>2. QED
  BY <1>1 DEF Pasar, Peticion

(* One that adds a version.                                                *)
LEMMA VigenciaAlCrearVersion ==
  ASSUME IInv, IInv', Vigencia, NEW p \in Peticiones, NEW i \in Existentes, NEW n \in Nombres,
         NEW v \in Version, CrearVersion(i, n, v),
         \/ v.contenido \in {v.autor, Borrada}
         \/ Elegida(items[i].versiones, v.contenido, v.visto),
         NEW f, f \notin {"copiar", "copiarItem"}, Pasar(p, f)
  PROVE  Vigencia'
<1>1. TypeOK /\ Crece
  BY CrearVersionCrece DEF IInv
<1>2. /\ items[i].versiones \in Seq(Version) /\ Len(items[i].versiones) \in Nat \ {0} /\ i \in Items
  BY <1>1, VersionesDe
<1>3. Fiel(Append(items[i].versiones, v))
  BY <1>2, FielAlAnadir DEF Vigencia
<1>4. /\ items'[i].versiones = Append(items[i].versiones, v)
      /\ \A j \in Items \ {i} : items'[j] = items[j]
  BY <1>1, <1>2 DEF CrearVersion, TypeOK
<1>5. ASSUME NEW j \in Existentes'
      PROVE  Fiel(items'[j].versiones)
  <2>1. CASE j = i
    BY <1>3, <1>4, <2>1
  <2>2. CASE j # i
    BY <1>4, <2>2 DEF Existentes, Vigencia
  <2>3. QED
    BY <2>1, <2>2
<1>6. QED
  BY <1>1, <1>5, PasarDe, VigenciaDe

(* One that adds an item.                                                  *)
LEMMA VigenciaAlCrearItem ==
  ASSUME IInv, IInv', Vigencia, NEW p \in Peticiones, NEW n \in Nombres,
         NEW v \in Version, CrearItem(n, v), v.contenido # Borrada,
         NEW f, f \notin {"copiar", "copiarItem"}, Pasar(p, f)
  PROVE  Vigencia'
<1>1. TypeOK /\ Crece
  BY CrearItemCrece DEF IInv
<1>2. PICK i \in Items \ Existentes :
        items' = [items EXCEPT ![i] = [nombre |-> n, versiones |-> <<v>>]]
  BY DEF CrearItem
<1>3. items'[i].versiones = <<v>> /\ \A j \in Items \ {i} : items'[j] = items[j]
  BY <1>1, <1>2 DEF TypeOK
<1>4. ASSUME NEW j \in Existentes'
      PROVE  Fiel(items'[j].versiones)
  <2>1. CASE j = i
    BY <1>3, <2>1, FielUna
  <2>2. CASE j # i
    BY <1>3, <2>2 DEF Existentes, Vigencia
  <2>3. QED
    BY <2>1, <2>2
<1>5. QED
  BY <1>1, <1>4, PasarDe, VigenciaDe

LEMMA ListadoInverso ==
  ASSUME TypeOK, NEW i \in Existentes
  PROVE  /\ Len(Listado(i)) = Len(items[i].versiones)
         /\ \A k \in 1 .. Len(Listado(i)) :
              Listado(i)[k] = items[i].versiones[(Len(items[i].versiones) - k) + 1]
<1> DEFINE s == items[i].versiones
<1>1. s \in Seq(Version) /\ Len(s) \in Nat \ {0}
  BY VersionesDe
<1>2. Listado(i) = [k \in 1 .. Len(s) |-> s[(Len(s) - k) + 1]]
  BY DEF Listado, Reverse
<1>3. Len(Listado(i)) = Len(s)
  <2>1. \A k \in 1 .. Len(s) : s[(Len(s) - k) + 1] \in Version
    BY <1>1
  <2>2. Listado(i) \in [1 .. Len(s) -> Version]
    BY <1>2, <2>1
  <2>3. Listado(i) \in Seq(Version) /\ DOMAIN Listado(i) = 1 .. Len(s)
    BY <1>1, <2>2, SeqDef
  <2>4. QED
    BY <1>1, <2>3
<1>4. QED
  BY <1>2, <1>3

LEMMA VigenteRenombrarListar ==
  ASSUME IInv, IInv', Vigencia, NEW p \in Peticiones, RenombrarListar(p)
  PROVE  Vigencia'
<1>1. PICK i \in Existentes, n \in Nombres :
        pet' = [pet EXCEPT ![p] = [tipo |-> "renombrar", fase |-> "copiar", item |-> i,
                                   nombre |-> n, base |-> Listado(i)[1].contenido,
                                   visto |-> Len(Listado(i))]]
  BY DEF RenombrarListar
<1>2. UNCHANGED items /\ Crece /\ Existentes' = Existentes /\ TypeOK
  BY QuietoCrece DEF RenombrarListar, Existentes, IInv
<1>3. /\ pet'[p].item = i /\ pet'[p].base = Listado(i)[1].contenido
      /\ pet'[p].visto = Len(Listado(i))
      /\ \A q \in Peticiones \ {p} : pet'[q] = pet[q]
  BY <1>1, <1>2 DEF TypeOK
<1>4. Len(items[i].versiones) \in Nat \ {0} /\ 1 \in 1 .. Len(Listado(i))
  BY <1>2, VersionesDe, ListadoDe
<1>5. /\ Listado(i)[1] = items[i].versiones[(Len(items[i].versiones) - 1) + 1]
      /\ Len(Listado(i)) = Len(items[i].versiones)
  BY <1>2, <1>4, ListadoInverso
<1>6. PICK l \in Nat : l = Len(items[i].versiones) /\ l > 0
  BY <1>4
<1>7. (l - 1) + 1 = l /\ l \in 1 .. l /\ (l + 1) .. l = {}
  BY <1>6
<1>8. Elegida(items[i].versiones, pet'[p].base, pet'[p].visto)
  BY <1>3, <1>5, <1>6, <1>7 DEF Elegida
<1>9. \A j \in Existentes' : Fiel(items'[j].versiones)
  BY <1>2 DEF Vigencia
<1>10. QED
  BY <1>2, <1>3, <1>8, <1>9, VigenciaDe

LEMMA VigenteRestaurarListar ==
  ASSUME IInv, IInv', Vigencia, NEW p \in Peticiones, RestaurarListar(p)
  PROVE  Vigencia'
<1>1. PICK i \in Existentes : i = pet[p].item
  BY DEF IInv, Forma, RestaurarListar, En
<1>2. UNCHANGED items /\ Crece /\ Existentes' = Existentes /\ TypeOK
  BY QuietoCrece DEF RestaurarListar, Existentes, IInv
<1>3. PICK k \in 1 .. Len(Listado(i)) :
        /\ \A j \in 1 .. (k - 1) : Listado(i)[j].contenido = Borrada
        /\ pet' = [pet EXCEPT ![p].fase = "copiar", ![p].base = Listado(i)[k].contenido,
                              ![p].visto = Len(Listado(i))]
  BY <1>1 DEF RestaurarListar
<1>4. /\ pet'[p].item = i /\ pet'[p].base = Listado(i)[k].contenido
      /\ pet'[p].visto = Len(Listado(i))
      /\ \A q \in Peticiones \ {p} : pet'[q] = pet[q]
  <2>1. pet[p] \in Peticion /\ pet \in [Peticiones -> Peticion]
    BY <1>2 DEF TypeOK
  <2>2. QED
    BY <1>1, <1>3, <2>1 DEF Peticion
<1>5. PICK l \in Nat : l = Len(items[i].versiones) /\ l > 0
  BY <1>2, VersionesDe
<1>6. /\ Len(Listado(i)) = l
      /\ \A m \in 1 .. l : Listado(i)[m] = items[i].versiones[(l - m) + 1]
  BY <1>2, <1>5, ListadoInverso
<1>7. PICK j \in 1 .. l : j = (l - k) + 1
  BY <1>3, <1>6
<1>8. items[i].versiones[j].contenido = pet'[p].base /\ pet'[p].visto = l
  BY <1>3, <1>4, <1>6, <1>7
<1>9. \A m \in (j + 1) .. l : items[i].versiones[m].contenido = Borrada
  <2>1. ASSUME NEW m \in (j + 1) .. l
        PROVE  items[i].versiones[m].contenido = Borrada
    <3>1. PICK h \in 1 .. (k - 1) : h = (l - m) + 1
      BY <1>3, <1>6, <1>7
    <3>2. k \in 1 .. l
      BY <1>3, <1>6
    <3>3. h \in 1 .. l /\ (l - h) + 1 = m
      BY <1>5, <3>1, <3>2
    <3>4. QED
      BY <1>3, <1>6, <3>1, <3>3
  <2>2. QED
    BY <2>1
<1>10. Elegida(items[i].versiones, pet'[p].base, pet'[p].visto)
  <2>1. l <= Len(items[i].versiones)
    BY <1>5
  <2>2. \E x \in 1 .. l : /\ items[i].versiones[x].contenido = pet'[p].base
                         /\ \A m \in (x + 1) .. l : items[i].versiones[m].contenido = Borrada
    BY <1>7, <1>8, <1>9
  <2>3. QED
    BY <1>8, <2>1, <2>2 DEF Elegida
<1>11. \A x \in Existentes' : Fiel(items'[x].versiones)
  BY <1>2 DEF Vigencia
<1>12. QED
  BY <1>2, <1>4, <1>10, <1>11, VigenciaDe

LEMMA VigenteRestaurarReintentar ==
  ASSUME IInv, IInv', Vigencia, NEW p \in Peticiones, RestaurarReintentar(p)
  PROVE  Vigencia'
<1>1. /\ UNCHANGED items /\ Crece /\ Existentes' = Existentes
      /\ pet[p].fase \in {"copiar", "copiarItem"}
  BY QuietoCrece DEF RestaurarReintentar, Existentes
<1>2. /\ pet'[p].item = pet[p].item /\ pet'[p].base = pet[p].base /\ pet'[p].visto = pet[p].visto
      /\ \A q \in Peticiones \ {p} : pet'[q] = pet[q]
  BY PasarDe DEF RestaurarReintentar
<1>3. pet[p].base # Borrada => Elegida(items[pet[p].item].versiones, pet[p].base, pet[p].visto)
  BY <1>1 DEF Vigencia
<1>4. \A i \in Existentes' : Fiel(items'[i].versiones)
  BY <1>1 DEF Vigencia
<1>5. QED
  BY <1>1, <1>2, <1>3, <1>4, VigenciaDe

LEMMA VigenteCopiarVersion ==
  ASSUME IInv, IInv', Vigencia, NEW p \in Peticiones, CopiarVersion(p)
  PROVE  Vigencia'
<1>1. PICK n : n = IF pet[p].tipo = "renombrar" THEN pet[p].nombre ELSE items[pet[p].item].nombre
  OBVIOUS
<1>2. PICK v : v = Copia(p)
  OBVIOUS
<1>3. /\ TypeOK /\ pet[p] \in Peticion /\ pet[p].fase \in {"copiar", "copiarItem"}
      /\ pet[p].nombre \in Nombres /\ pet[p].item \in Existentes
      /\ pet[p].base \in Contenidos /\ pet[p].base # Borrada
  BY DEF IInv, TypeOK, Forma, CopiarVersion
<1>4. v \in Version /\ v.contenido = pet[p].base /\ v.visto = pet[p].visto
  BY <1>2, <1>3 DEF Copia, Version, Contenidos, Peticion
<1>5. n \in Nombres /\ CrearVersion(pet[p].item, n, v)
  BY <1>1, <1>2, <1>3, VersionesDe DEF CopiarVersion
<1>6. Elegida(items[pet[p].item].versiones, v.contenido, v.visto)
  BY <1>3, <1>4 DEF Vigencia
<1>7. PICK f \in {"releer", "registrar", "error"} : Pasar(p, f)
  BY DEF CopiarVersion, Respondida
<1>8. QED
  BY <1>3, <1>4, <1>5, <1>6, <1>7, VigenciaAlCrearVersion

LEMMA VigenteSubirPublicar ==
  ASSUME IInv, IInv', Vigencia, NEW p \in Peticiones, SubirPublicar(p)
  PROVE  Vigencia'
<1>1. PICK v : v = [contenido |-> p, autor |-> p, visto |-> 0]
  OBVIOUS
<1>2. v \in Version /\ v.contenido = v.autor /\ v.contenido # Borrada
  BY <1>1, ArchivosAssumption DEF Version, Contenidos
<1>3. pet[p].nombre \in Nombres /\ (pet[p].item # NoHay => pet[p].item \in Existentes)
  BY DEF IInv, Forma, SubirPublicar, En
<1>4. PICK f \in {"registrar", "error"} : Pasar(p, f)
  BY DEF SubirPublicar, Respondida
<1>5. CASE pet[p].item # NoHay
  BY <1>1, <1>2, <1>3, <1>4, <1>5, VigenciaAlCrearVersion DEF SubirPublicar
<1>6. CASE pet[p].item = NoHay
  BY <1>1, <1>2, <1>3, <1>4, <1>6, VigenciaAlCrearItem DEF SubirPublicar
<1>7. QED
  BY <1>5, <1>6

LEMMA VigenteEliminarBorrar ==
  ASSUME IInv, IInv', Vigencia, NEW p \in Peticiones, EliminarBorrar(p)
  PROVE  Vigencia'
<1>1. PICK v : v = [contenido |-> Borrada, autor |-> p, visto |-> 0]
  OBVIOUS
<1>2. v \in Version /\ v.contenido = Borrada
  BY <1>1 DEF Version, Contenidos
<1>3. pet[p].item \in Existentes /\ TypeOK
  BY DEF IInv, Forma, EliminarBorrar, En
<1>4. items[pet[p].item].nombre \in Nombres
  BY <1>3, VersionesDe
<1>5. PICK f \in {"registrar", "error"} : Pasar(p, f)
  BY DEF EliminarBorrar, Respondida
<1>6. CrearVersion(pet[p].item, items[pet[p].item].nombre, v)
  BY <1>1 DEF EliminarBorrar
<1>7. QED
  BY <1>2, <1>3, <1>4, <1>5, <1>6, VigenciaAlCrearVersion

LEMMA VigenteRestaurarRecrear ==
  ASSUME IInv, IInv', Vigencia, NEW p \in Peticiones, RestaurarRecrear(p)
  PROVE  Vigencia'
<1>1. /\ pet[p] \in Peticion /\ pet[p].nombre \in Nombres /\ pet[p].base \in Contenidos
  BY DEF IInv, TypeOK, Forma, RestaurarRecrear, En
<1>2. Copia(p) \in Version /\ Copia(p).contenido # Borrada
  BY <1>1, ArchivosAssumption DEF Copia, Version, Contenidos, Peticion
<1>3. PICK f \in {"registrar", "error"} : Pasar(p, f)
  BY DEF RestaurarRecrear, Respondida
<1>4. PICK v : v = Copia(p)
  OBVIOUS
<1>5. CrearItem(pet[p].nombre, v)
  BY <1>4 DEF RestaurarRecrear
<1>6. QED
  BY <1>1, <1>2, <1>3, <1>4, <1>5, VigenciaAlCrearItem

(* The other actions read the folder at most.                              *)
LEMMA VigenteElResto ==
  ASSUME IInv, IInv', Vigencia, NEW p \in Peticiones,
         \/ SubirBuscar(p) \/ RenombrarReleer(p) \/ EliminarMirar(p) \/ RestaurarMirar(p)
         \/ Registrar(p) \/ Falla(p)
  PROVE  Vigencia'
<1>1. UNCHANGED items
  BY DEF SubirBuscar, RenombrarReleer, EliminarMirar, RestaurarMirar, Registrar, Falla
<1>2. \E r : pet' = [pet EXCEPT ![p] = r] /\ r.fase \notin {"copiar", "copiarItem"}
  <2>1. pet[p] \in Peticion /\ pet \in [Peticiones -> Peticion]
    BY DEF IInv, TypeOK
  <2>2. CASE SubirBuscar(p)
    <3>1. PICK n \in Nombres, i \in Existentes \cup {NoHay} :
            pet' = [pet EXCEPT ![p] = [Nueva EXCEPT !.tipo = "subir", !.fase = "publicar",
                                                    !.item = i, !.nombre = n]]
      BY <2>2 DEF SubirBuscar, Listados
    <3>2. [Nueva EXCEPT !.tipo = "subir", !.fase = "publicar", !.item = i, !.nombre = n].fase
            = "publicar"
      BY DEF Nueva
    <3>3. QED
      BY <3>1, <3>2
  <2>3. CASE EliminarMirar(p)
    <3>1. PICK i \in Existentes :
            pet' = [pet EXCEPT ![p] = [Nueva EXCEPT !.tipo = "eliminar", !.item = i,
                                         !.fase = IF EstaBorrado(i) THEN "registrar" ELSE "borrar"]]
      BY <2>3 DEF EliminarMirar
    <3>2. [Nueva EXCEPT !.tipo = "eliminar", !.item = i,
             !.fase = IF EstaBorrado(i) THEN "registrar" ELSE "borrar"].fase \in {"registrar", "borrar"}
      BY DEF Nueva
    <3>3. QED
      BY <3>1, <3>2
  <2>4. CASE RestaurarMirar(p)
    <3>1. PICK i \in Existentes :
            pet' = [pet EXCEPT ![p] = [Nueva EXCEPT !.tipo = "restaurar", !.item = i,
                                         !.nombre = items[i].nombre,
                                         !.fase = IF EstaBorrado(i) THEN "listar" ELSE "hecha"]]
      BY <2>4 DEF RestaurarMirar
    <3>2. [Nueva EXCEPT !.tipo = "restaurar", !.item = i, !.nombre = items[i].nombre,
             !.fase = IF EstaBorrado(i) THEN "listar" ELSE "hecha"].fase \in {"listar", "hecha"}
      BY DEF Nueva
    <3>3. QED
      BY <3>1, <3>2
  <2>5. CASE \E f \in {"registrar", "hecha", "error"} : Pasar(p, f)
    <3>1. PICK f \in {"registrar", "hecha", "error"} : Pasar(p, f)
      BY <2>5
    <3>2. pet' = [pet EXCEPT ![p] = [pet[p] EXCEPT !.fase = f]]
      BY <2>1, <3>1 DEF Pasar
    <3>3. [pet[p] EXCEPT !.fase = f].fase = f
      BY <2>1 DEF Peticion
    <3>4. QED
      BY <3>2, <3>3
  <2>6. QED
    BY <2>2, <2>3, <2>4, <2>5 DEF RenombrarReleer, Registrar, Falla
<1>3. QED
  BY <1>1, <1>2, VigenciaQuieta

LEMMA InicioVigente ==
  ASSUME Init
  PROVE  Vigencia
<1>1. ASSUME NEW i \in Existentes
      PROVE  Fiel(items[i].versiones)
  <2>1. PICK j \in Items : items[i].versiones = <<[contenido |-> j, autor |-> j, visto |-> 0]>>
    BY <1>1 DEF Init, Existentes
  <2>2. PICK v : v = [contenido |-> j, autor |-> j, visto |-> 0]
    OBVIOUS
  <2>3. v \in Version /\ v.contenido # Borrada
    BY <2>2, ArchivosAssumption DEF Version, Contenidos
  <2>4. QED
    BY <2>1, <2>2, <2>3, FielUna
<1>2. \A p \in Peticiones : pet[p].fase = "nueva"
  BY DEF Init, Nueva
<1>3. QED
  BY <1>1, <1>2 DEF Vigencia

LEMMA PasoVigente ==
  ASSUME IInv, IInv', Vigencia, [Next]_vars
  PROVE  Vigencia'
<1>1. CASE UNCHANGED vars
  BY <1>1 DEF vars, Vigencia, Existentes
<1>2. QED
  BY <1>1, VigenteRenombrarListar, VigenteRestaurarListar, VigenteRestaurarReintentar,
     VigenteCopiarVersion, VigenteSubirPublicar, VigenteEliminarBorrar, VigenteRestaurarRecrear,
     VigenteElResto
  DEF Next

(* However a file is deleted, restored and renamed, its newest version     *)
(* with content is the one uploaded last, unless a rename or a restore     *)
(* that overlapped an upload brought an older one back.                    *)
THEOREM LaVigenteEsLaUltimaSubida == Spec => []TipVigente
<1>1. IInv /\ Vigencia => TipVigente
  <2> SUFFICES ASSUME IInv, Vigencia, NEW i \in Existentes, ~EstaBorrado(i),
                      \A k \in DOMAIN items[i].versiones : ~Atrasada(i, k)
               PROVE  Tip(i).contenido = items[i].versiones[UltimoOriginal(i)].contenido
    BY DEF TipVigente
  <2>1. PICK s : s = items[i].versiones
    OBVIOUS
  <2>2. PICK n \in Nat : n = Len(s) /\ n > 0 /\ DOMAIN s = 1 .. n
    BY <2>1, VersionesDe DEF IInv
  <2>3. Tip(i) = s[n] /\ s[n].contenido # Borrada
    BY <2>1, <2>2, TipDe DEF IInv, EstaBorrado
  <2>4. \A k \in 1 .. n : (Original(i, k) <=> Brota(s, k)) /\ ~Tardia(s, k)
    BY <2>1, <2>2 DEF Original, Brota, Atrasada, Tardia
  <2>5. PICK m \in 1 .. n : Fuente(s, n, m)
    BY <2>1, <2>2 DEF Vigencia, Fiel
  <2>6. s[n].contenido = s[m].contenido
    BY <2>1, <2>2, <2>3, <2>4, <2>5 DEF Vigencia, Fiel
  <2>7. Original(i, m) /\ \A k \in 1 .. n : Original(i, k) => k <= m
    BY <2>4, <2>5 DEF Fuente
  <2>8. PICK u : u = UltimoOriginal(i)
    OBVIOUS
  <2>9. /\ u \in 1 .. n /\ Original(i, u)
        /\ \A k \in 1 .. n : Original(i, k) => k <= u
    BY <2>1, <2>2, <2>7, <2>8 DEF UltimoOriginal
  <2>10. u = m
    BY <2>7, <2>9
  <2>11. QED
    BY <2>1, <2>3, <2>6, <2>8, <2>10
<1>2. Init => IInv /\ Vigencia
  BY Inicio, InicioVigente
<1>3. IInv /\ Vigencia /\ [Next]_vars => (IInv /\ Vigencia)'
  BY Paso, PasoVigente
<1>4. QED
  BY <1>1, <1>2, <1>3, PTL DEF Spec
=============================================================================
