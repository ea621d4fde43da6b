------------------------------ MODULE Archivos ------------------------------
(***************************************************************************)
(* The files of one ACC folder as the data-management use cases change     *)
(* them: upload (in one call, or in chunks that                            *)
(* completar-subida-chunked.use-case.ts closes), rename, delete and        *)
(* restore.  No call of this API replaces a file: every operation reads    *)
(* the folder or the list of versions in one request to Autodesk and adds  *)
(* a version in a later one, with nothing held between them, and leaves an *)
(* entry in the audit table at the end.  Deleting adds a version of type   *)
(* Deleted and renaming or restoring adds a copy of an earlier version.    *)
(*                                                                         *)
(* Autodesk is the environment: it keeps the versions of an item in order, *)
(* may refuse any request, and may carry one out and lose the answer.      *)
(* Each of Peticiones is used once.                                        *)
(***************************************************************************)
EXTENDS Integers, SequencesExt

CONSTANTS
    Items,        \* identifiers of items; the versions of one are a sequence
    Previos,      \* items that are in the folder at the start
    Nombres,      \* names of files
    Peticiones,   \* requests; the content an upload brings is the request itself
    Borrada,      \* the content of a version of type Deleted
    NoHay         \* null

ASSUME ArchivosAssumption ==
    /\ Previos \subseteq Items
    /\ Items \cap Peticiones = {}
    /\ {Borrada, NoHay} \cap (Items \cup Peticiones) = {}

VARIABLES
    items,      \* [Items -> NoHay or the name and the versions, oldest first]; of a
                \* version, visto is history: how long the list was when a copy was chosen
    pet,        \* the requests
    registro    \* the audit entry each request left, or NoHay

vars == <<items, pet, registro>>

\* What an item of the start holds is told by the item itself.
Contenidos == Items \cup Peticiones

Version == [contenido: Contenidos \cup {Borrada}, autor: Contenidos, visto: Nat]

Item == [nombre: Nombres, versiones: Seq(Version) \ {<<>>}]

Tipos == {"subir", "renombrar", "eliminar", "restaurar"}

Fases == {"nueva", "publicar", "borrar", "listar", "copiar", "copiarItem",
          "recrear", "releer", "registrar", "hecha", "error"}

Nueva == [tipo |-> NoHay, fase |-> "nueva", item |-> NoHay, nombre |-> NoHay,
          base |-> NoHay, visto |-> 0]

Peticion == [tipo: Tipos \cup {NoHay}, fase: Fases, item: Items \cup {NoHay},
             nombre: Nombres \cup {NoHay},
             base: Contenidos \cup {Borrada, NoHay}, visto: Nat]

Entradas == {"FILE_UPLOAD", "FILE_VERSION_SAVE", "FILE_UPDATE", "FILE_DELETE", "FILE_RESTORE"}

ASSUME NoHayDistinto == NoHay \notin Item \cup Tipos \cup Entradas

-----------------------------------------------------------------------------
(* What Autodesk answers.                                                  *)

Existentes == {i \in Items : items[i] # NoHay}

\* GET /items/{id}/tip: the newest version.
Tip(i) == Last(items[i].versiones)

EstaBorrado(i) == Tip(i).contenido = Borrada

\* GET /items/{id}/versions: newest first.
Listado(i) == Reverse(items[i].versiones)

\* GET /folders/{id}/contents: a deleted item is not listed.
Listados(n) == {i \in Existentes : items[i].nombre = n /\ ~EstaBorrado(i)}

\* POST /versions on item i, by request p; the version takes the name of the file.
CrearVersion(i, n, v) ==
    items' = [items EXCEPT ![i] = [nombre |-> n, versiones |-> Append(@.versiones, v)]]

\* POST /items: Autodesk gives the new item an identifier of its own.
CrearItem(n, v) ==
    \E i \in Items \ Existentes : items' = [items EXCEPT ![i] = [nombre |-> n, versiones |-> <<v>>]]

-----------------------------------------------------------------------------
(* The requests.                                                           *)

En(p, t, f) == pet[p].tipo = t /\ pet[p].fase = f

Pasar(p, f) == pet' = [pet EXCEPT ![p].fase = f]

\* The call to Autodesk did what was asked: the request goes on to f, or the
\* answer is lost and the request ends in an error.
Respondida(p, f) == Pasar(p, f) \/ Pasar(p, "error")

\* The call did nothing: an error of the network or a refusal.  Where the code
\* swallows the error the action of that phase has the alternative itself.
Falla(p) ==
    /\ pet[p].fase \in {"publicar", "borrar", "listar", "copiar", "copiarItem",
                        "recrear", "releer"}
    /\ Pasar(p, "error")
    /\ UNCHANGED <<items, registro>>

Init ==
    /\ items \in [Items -> {NoHay} \cup
                   [nombre: Nombres,
                    versiones: {<<[contenido |-> i, autor |-> i, visto |-> 0]>> : i \in Items}]]
    /\ \A i \in Items :
          IF i \in Previos THEN items[i] # NoHay /\ Tip(i).contenido = i ELSE items[i] = NoHay
    /\ pet = [p \in Peticiones |-> Nueva]
    /\ registro = [p \in Peticiones |-> NoHay]

(***************************************************************************)
(* Upload.  The folder is searched for an item of the same name; a failed  *)
(* search, or an item past the first page, counts as none.                 *)
(***************************************************************************)
SubirBuscar(p) ==
    /\ pet[p].fase = "nueva"
    /\ \E n \in Nombres : \E i \in Listados(n) \cup {NoHay} :
          pet' = [pet EXCEPT ![p] = [Nueva EXCEPT !.tipo = "subir", !.fase = "publicar",
                                                  !.item = i, !.nombre = n]]
    /\ UNCHANGED <<items, registro>>

\* Mutant: an upload whose item cannot be created is answered as done.
PublicarTragaError(p) ==
    /\ En(p, "subir", "publicar")
    /\ pet[p].item = NoHay
    /\ Pasar(p, "registrar")
    /\ UNCHANGED <<items, registro>>

\* The content is in its storage (each upload has its own, which no other request
\* sees): it becomes a version of the item that was found, or a new item.
SubirPublicar(p) ==
    LET v == [contenido |-> p, autor |-> p, visto |-> 0] IN
    /\ En(p, "subir", "publicar")
    /\ \/ pet[p].item # NoHay /\ CrearVersion(pet[p].item, pet[p].nombre, v)
       \/ pet[p].item = NoHay /\ CrearItem(pet[p].nombre, v)
    /\ Respondida(p, "registrar")
    /\ UNCHANGED registro

(***************************************************************************)
(* Rename: the first version of the list is taken for the current one and  *)
(* copied under the new name; then the item is read again, and if that     *)
(* fails the request ends in an error though the file has its new name.    *)
(***************************************************************************)
\* Mutant: the versions are taken to come oldest first.
RenombrarLaPrimera(p) ==
    /\ pet[p].fase = "nueva"
    /\ \E i \in Existentes, n \in Nombres :
          pet' = [pet EXCEPT ![p] = [tipo |-> "renombrar", fase |-> "copiar", item |-> i,
                                     nombre |-> n, base |-> Last(Listado(i)).contenido,
                                     visto |-> Len(Listado(i))]]
    /\ UNCHANGED <<items, registro>>

RenombrarListar(p) ==
    /\ pet[p].fase = "nueva"
    /\ \E i \in Existentes, n \in Nombres :
          pet' = [pet EXCEPT ![p] = [tipo |-> "renombrar", fase |-> "copiar", item |-> i,
                                     nombre |-> n, base |-> Listado(i)[1].contenido,
                                     visto |-> Len(Listado(i))]]
    /\ UNCHANGED <<items, registro>>

RenombrarReleer(p) ==
    /\ En(p, "renombrar", "releer")
    /\ Pasar(p, "registrar")
    /\ UNCHANGED <<items, registro>>

\* Mutant: the copy is asked for without the version to copy.
CopiaSinOrigen(p) == [contenido |-> NoHay, autor |-> p, visto |-> pet[p].visto]

\* A copy of the version the request chose.  Autodesk copies no Deleted version.
Copia(p) == [contenido |-> pet[p].base, autor |-> p, visto |-> pet[p].visto]

CopiarVersion(p) ==
    /\ pet[p].fase \in {"copiar", "copiarItem"}
    /\ pet[p].base # Borrada
    /\ CrearVersion(pet[p].item,
                    IF pet[p].tipo = "renombrar" THEN pet[p].nombre ELSE items[pet[p].item].nombre,
                    Copia(p))
    /\ Respondida(p, IF pet[p].tipo = "renombrar" THEN "releer" ELSE "registrar")
    /\ UNCHANGED registro

(***************************************************************************)
(* Delete: unless the newest version is a Deleted one already, a Deleted   *)
(* version is added in a second call.                                      *)
(***************************************************************************)
EliminarMirar(p) ==
    /\ pet[p].fase = "nueva"
    /\ \E i \in Existentes :
          pet' = [pet EXCEPT ![p] =
                    [Nueva EXCEPT !.tipo = "eliminar", !.item = i,
                       !.fase = IF EstaBorrado(i) THEN "registrar" ELSE "borrar"]]
    /\ UNCHANGED <<items, registro>>

EliminarBorrar(p) ==
    /\ En(p, "eliminar", "borrar")
    /\ CrearVersion(pet[p].item, items[pet[p].item].nombre,
                    [contenido |-> Borrada, autor |-> p, visto |-> 0])
    /\ Respondida(p, "registrar")
    /\ UNCHANGED registro

(***************************************************************************)
(* Restore: the newest version is read; if it is a Deleted one, the list   *)
(* is read and its first version of another type is copied.  The copy is   *)
(* tried without and with the item, and when Autodesk answers both times   *)
(* that the item is deleted the version becomes a new item.                *)
(***************************************************************************)
\* Mutant: restoring a file that is not deleted is logged too.
RestaurarRegistraSiempre(p) ==
    /\ pet[p].fase = "nueva"
    /\ \E i \in Existentes :
          pet' = [pet EXCEPT ![p] =
                    [Nueva EXCEPT !.tipo = "restaurar", !.item = i, !.nombre = items[i].nombre,
                       !.fase = IF EstaBorrado(i) THEN "listar" ELSE "registrar"]]
    /\ UNCHANGED <<items, registro>>

RestaurarMirar(p) ==
    /\ pet[p].fase = "nueva"
    /\ \E i \in Existentes :
          pet' = [pet EXCEPT ![p] =
                    [Nueva EXCEPT !.tipo = "restaurar", !.item = i, !.nombre = items[i].nombre,
                       !.fase = IF EstaBorrado(i) THEN "listar" ELSE "hecha"]]
    /\ UNCHANGED <<items, registro>>

RestaurarListar(p) ==
    /\ En(p, "restaurar", "listar")
    /\ LET lista == Listado(pet[p].item) IN
       \E k \in 1..Len(lista) :
          /\ lista[k].contenido # Borrada
          /\ \A j \in 1..(k - 1) : lista[j].contenido = Borrada
          /\ pet' = [pet EXCEPT ![p].fase = "copiar", ![p].base = lista[k].contenido,
                                ![p].visto = Len(lista)]
    /\ UNCHANGED <<items, registro>>

\* esErrorItemEliminado: the next way of restoring is tried.
RestaurarReintentar(p) ==
    /\ pet[p].tipo = "restaurar"
    /\ pet[p].fase \in {"copiar", "copiarItem"}
    /\ Pasar(p, IF pet[p].fase = "copiar" THEN "copiarItem" ELSE "recrear")
    /\ UNCHANGED <<items, registro>>

RestaurarRecrear(p) ==
    /\ En(p, "restaurar", "recrear")
    /\ CrearItem(pet[p].nombre, Copia(p))
    /\ Respondida(p, "registrar")
    /\ UNCHANGED registro

(***************************************************************************)
(* The audit entry, which is written only when the request carries its     *)
(* address and its agent and whose failure is swallowed: the request is    *)
(* answered the same way without it.                                       *)
(***************************************************************************)
Entrada(p) ==
    CASE pet[p].tipo = "subir" -> IF pet[p].item = NoHay THEN "FILE_UPLOAD" ELSE "FILE_VERSION_SAVE"
      [] pet[p].tipo = "renombrar" -> "FILE_UPDATE"
      [] pet[p].tipo = "eliminar" -> "FILE_DELETE"
      [] pet[p].tipo = "restaurar" -> "FILE_RESTORE"

Registrar(p) ==
    /\ pet[p].fase = "registrar"
    /\ registro' \in {registro, [registro EXCEPT ![p] = Entrada(p)]}
    /\ Pasar(p, "hecha")
    /\ UNCHANGED items

Next ==
    \E p \in Peticiones :
        \/ SubirBuscar(p) \/ SubirPublicar(p)
        \/ RenombrarListar(p) \/ RenombrarReleer(p)
        \/ CopiarVersion(p)
        \/ EliminarMirar(p) \/ EliminarBorrar(p)
        \/ RestaurarMirar(p) \/ RestaurarListar(p) \/ RestaurarReintentar(p) \/ RestaurarRecrear(p)
        \/ Registrar(p)
        \/ Falla(p)

Spec == Init /\ [][Next]_vars

-----------------------------------------------------------------------------
(* Properties.                                                             *)

\* Every variable keeps its shape: an item has a first version, and nothing
\* that was read from Autodesk is used without having been found.
TypeOK ==
    /\ items \in [Items -> Item \cup {NoHay}]
    /\ pet \in [Peticiones -> Peticion]
    /\ registro \in [Peticiones -> Entradas \cup {NoHay}]

\* Version k brought content: it is the first of its item or it was uploaded.
Original(i, k) ==
    LET v == items[i].versiones[k] IN k = 1 \/ v.contenido = v.autor

UltimoOriginal(i) ==
    CHOOSE k \in DOMAIN items[i].versiones :
        /\ Original(i, k)
        /\ \A m \in DOMAIN items[i].versiones : Original(i, m) => m <= k

\* Version k is a copy chosen from a list that lacked an upload made before it:
\* what a rename or a restore that overlaps an upload adds.
Atrasada(i, k) ==
    LET vs == items[i].versiones IN
    /\ vs[k].contenido # Borrada
    /\ ~Original(i, k)
    /\ \E m \in (vs[k].visto + 1)..(k - 1) : Original(i, m)

\* However often a file is deleted, restored and renamed, one that is not deleted
\* shows the last content somebody uploaded to it, unless a rename or a restore
\* chose its version before that upload and added its copy after it.
TipVigente ==
    \A i \in Existentes :
        ~EstaBorrado(i) /\ (\A k \in DOMAIN items[i].versiones : ~Atrasada(i, k))
        => Tip(i).contenido = items[i].versiones[UltimoOriginal(i)].contenido

\* The version request p added to item i is version k.
Anadida(p, i, k) == k \in DOMAIN items[i].versiones /\ items[i].versiones[k].autor = p

\* A request that was answered as done was done, at any time later: the uploaded
\* content is a version, the renamed file has a copy with content, the deleted one
\* a Deleted version, and the restored one a version with content.
ExitoDeVerdad ==
    \A p \in Peticiones : pet[p].fase = "hecha" =>
        CASE pet[p].tipo = "subir" ->
               \E i \in Existentes : \E k \in DOMAIN items[i].versiones :
                  Anadida(p, i, k) /\ items[i].versiones[k].contenido = p
          [] pet[p].tipo = "renombrar" ->
               \E k \in DOMAIN items[pet[p].item].versiones :
                  Anadida(p, pet[p].item, k) /\ items[pet[p].item].versiones[k].contenido # Borrada
          [] pet[p].tipo = "eliminar" ->
               \E k \in DOMAIN items[pet[p].item].versiones :
                  items[pet[p].item].versiones[k].contenido = Borrada
          [] pet[p].tipo = "restaurar" ->
               \E i \in Existentes : \E k \in DOMAIN items[i].versiones :
                  /\ i = pet[p].item \/ k = 1
                  /\ items[i].versiones[k].contenido # Borrada

\* The audit tells what happened to the file: a new file is logged by the upload
\* that created the item and a new version by one that added to an existing item,
\* never both ("para no duplicar"), and a rename or a restore is logged only by a
\* request that added a version.
RegistroCuadra ==
    \A p \in Peticiones :
        /\ registro[p] = "FILE_UPLOAD" =>
              \E i \in Existentes : Anadida(p, i, 1)
        /\ registro[p] = "FILE_VERSION_SAVE" =>
              \E k \in DOMAIN items[pet[p].item].versiones : k > 1 /\ Anadida(p, pet[p].item, k)
        /\ registro[p] \in {"FILE_UPDATE", "FILE_RESTORE"} =>
              \E i \in Existentes : \E k \in DOMAIN items[i].versiones : Anadida(p, i, k)
=============================================================================
