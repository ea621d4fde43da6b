----------------------------- MODULE Multimedia -----------------------------
(***************************************************************************)
(* The objects of MinIO against the rows of the database that name them.   *)
(* The bucket and the database share no transaction: every use case does   *)
(* one call after the other, and each may fail by itself.                  *)
(*                                                                         *)
(*   photo       profile photo and worker signature.  The key is made of   *)
(*               the owner, so that a new upload takes the place of the    *)
(*               old object; the row is written afterwards                 *)
(*   card        picture or video of a card of the news.  The key is       *)
(*               unique; the file gets a row of its own (genarchivo) and   *)
(*               the card names that row                                   *)
(*   attachment  evidence of an activity and photos of an element of the   *)
(*               viewer.  The client uploads first, under a key it may     *)
(*               choose by an index, and adds the row in a later request   *)
(*                                                                         *)
(* A call to the database may be refused, or be carried out and its answer *)
(* lost.  Each of Peticiones is used once; the process may stop between    *)
(* any two steps, since nothing here obliges a request to go on.           *)
(***************************************************************************)
CONSTANTS
    Usuarios,      \* owners of a photo; the owner stands for its key
    Tarjetas,      \* ids of cards
    Medios,        \* unique keys of the media of cards
    Anclajes,      \* activities and anchored elements, with attachments
    Claves,        \* keys of attachments, unique or chosen by an index
    Peticiones,
    Nada           \* null; and the medium of a card that keeps no object here

\* A card that does not exist yet, and one that does no more.
Estados == {"libre", "eliminada"}

ASSUME MultimediaAssumption ==
    /\ ({Nada} \cup Estados) \cap (Medios \cup Claves) = {}
    /\ Usuarios \cap (Medios \cup Claves) = {}
    /\ Medios \cap Claves = {}

VARIABLES
    almacen,       \* keys of the objects in the bucket
    foto,          \* users whose row names their photo
    tarjeta,       \* [Tarjetas -> "libre", "eliminada", Nada or the key it names]
    adjunto,       \* [Anclajes -> keys its rows name]
    borrado,       \* anchored elements that were deleted
    subidas,       \* history: keys uploaded so far
    compartidas,   \* history: keys a client named a second time
    pet            \* the requests

vars == <<almacen, foto, tarjeta, adjunto, borrado, subidas, compartidas, pet>>

Objetos == Usuarios \cup Medios \cup Claves

Pasos == {"nueva", "foto", "registrar", "leer", "fila", "adjuntar", "anclaje",
          "deshacer", "borrar", "fin"}

Peticion == [op: {"foto", "crear", "editar", "eliminar", "adjuntar", "quitar", Nada},
             paso: Pasos,
             dueno: Usuarios \cup Tarjetas \cup Anclajes \cup {Nada},
             clave: Objetos \cup {Nada},     \* the object the request uploaded or names
             borra: BOOLEAN,                 \* debeBorrarArchivoStorage
             sobran: SUBSET Objetos]         \* objects it has to delete

Nueva == [op |-> Nada, paso |-> "nueva", dueno |-> Nada, clave |-> Nada,
          borra |-> FALSE, sobran |-> {}]

TypeOK ==
    /\ almacen \subseteq Objetos
    /\ foto \subseteq Usuarios
    /\ tarjeta \in [Tarjetas -> Estados \cup {Nada} \cup Medios]
    /\ adjunto \in [Anclajes -> SUBSET Claves]
    /\ borrado \subseteq Anclajes
    /\ subidas \subseteq Medios \cup Claves
    /\ compartidas \subseteq Medios \cup Claves
    /\ pet \in [Peticiones -> Peticion]

Init ==
    /\ foto \in SUBSET Usuarios /\ almacen = foto
    /\ borrado = {} /\ subidas = {} /\ compartidas = {}
    /\ tarjeta = [t \in Tarjetas |-> "libre"]
    /\ adjunto = [a \in Anclajes |-> {}]
    /\ pet = [p \in Peticiones |-> Nueva]

-----------------------------------------------------------------------------
(* Shared by the use cases.                                                *)

En(p, paso) == pet[p].paso = paso

Sigue(p, paso) == pet' = [pet EXCEPT ![p].paso = paso]

Termina(p) == Sigue(p, "fin")

\* putObject, the first call of every upload; an upload that fails leaves nothing.
Subir(p, op, dueno, k, paso) ==
    /\ En(p, "nueva")
    /\ almacen' = almacen \cup {k}
    /\ pet' = [pet EXCEPT ![p] = [Nueva EXCEPT !.op = op, !.paso = paso, !.dueno = dueno,
                                               !.clave = k, !.borra = TRUE]]

\* The rollback of an upload: its errors are swallowed by the storage services.
Deshacer(p) ==
    /\ En(p, "deshacer")
    /\ almacen' \in {almacen, almacen \ {pet[p].clave}}
    /\ Termina(p)
    /\ UNCHANGED <<foto, tarjeta, adjunto, borrado, subidas, compartidas>>

\* The objects a change left over are deleted after it, one call for each.
Borrar(p) ==
    /\ En(p, "borrar")
    /\ \E k \in pet[p].sobran :
         /\ almacen' \in {almacen, almacen \ {k}}
         /\ pet' = [pet EXCEPT ![p].sobran = @ \ {k},
                               ![p].paso = IF pet[p].sobran = {k} THEN "fin" ELSE @]
    /\ UNCHANGED <<foto, tarjeta, adjunto, borrado, subidas, compartidas>>

\* What follows a change of rows that succeeded: the deletions, if there are any.
LuegoBorra(p, sobran) ==
    pet' = [pet EXCEPT ![p].sobran = sobran,
                       ![p].paso = IF sobran = {} THEN "fin" ELSE "borrar"]

-----------------------------------------------------------------------------
(* Photo of a user, signature of a worker.                                 *)

SubirFoto(p, u) ==
    /\ Subir(p, "foto", u, u, "foto")
    /\ UNCHANGED <<foto, tarjeta, adjunto, borrado, subidas, compartidas>>

\* Any error of the update, its answer being lost too, leads to the rollback.
ActualizarFoto(p) ==
    /\ En(p, "foto")
    /\ \/ foto' = foto \cup {pet[p].dueno} /\ Termina(p)
       \/ foto' \in {foto, foto \cup {pet[p].dueno}} /\ Sigue(p, "deshacer")
    /\ UNCHANGED <<almacen, tarjeta, adjunto, borrado, subidas, compartidas>>

-----------------------------------------------------------------------------
(* Cards of the news.                                                      *)

Vigente(t) == tarjeta[t] \notin Estados

\* The key holds a random part: it was never used before.
SubirMedio(p, op, t, k) ==
    /\ op \in {"crear", "editar"}
    /\ k \notin subidas
    /\ op = "editar" => Vigente(t)
    /\ Subir(p, op, t, k, "registrar")
    /\ subidas' = subidas \cup {k}
    /\ UNCHANGED <<foto, tarjeta, adjunto, borrado, compartidas>>

TrasMedio(p) == IF pet[p].op = "editar" THEN "leer" ELSE "fila"

\* persistUploadedFile: the row of the file; on any error the upload is undone.
RegistrarArchivo(p) ==
    /\ En(p, "registrar")
    /\ Sigue(p, TrasMedio(p)) \/ Sigue(p, "deshacer")
    /\ UNCHANGED <<almacen, foto, tarjeta, adjunto, borrado, subidas, compartidas>>

\* A card without a file here (sinMultimedia, or the address of an external video), an
\* edit that drops the file, and a deletion; an idArchivo of the body names a file that
\* is registered already, and then editing does not delete the one before.
SinSubir(p, op, t, k) ==
    /\ En(p, "nueva")
    /\ k = Nada \/ (k \in subidas /\ op # "eliminar")
    /\ compartidas' = compartidas \cup ({k} \ {Nada})
    /\ pet' = [pet EXCEPT ![p] = [Nueva EXCEPT !.op = op, !.dueno = t, !.clave = k,
                                               !.paso = IF op = "crear" THEN "fila" ELSE "leer",
                                               !.borra = (k = Nada)]]
    /\ UNCHANGED <<almacen, foto, tarjeta, adjunto, borrado, subidas>>

\* Mutant: the file of the card is deleted whether it is to be replaced or kept.
LeerAnteriorSiempre(p) ==
    LET t == pet[p].dueno IN
    /\ En(p, "leer")
    /\ pet' = [pet EXCEPT ![p].paso = "fila", ![p].sobran = {tarjeta[t]}]
    /\ UNCHANGED <<almacen, foto, tarjeta, adjunto, borrado, subidas, compartidas>>

\* obtenerArchivoUrlPorTarjeta, before the card is written.
LeerAnterior(p) ==
    LET t == pet[p].dueno IN
    /\ En(p, "leer")
    /\ pet' = [pet EXCEPT ![p].paso = "fila",
                          ![p].sobran = IF pet[p].borra THEN {tarjeta[t]} \cap Medios ELSE {}]
    /\ UNCHANGED <<almacen, foto, tarjeta, adjunto, borrado, subidas, compartidas>>

\* gen_CrearNovedadTarjeta, gen_EditarNovedadTarjeta and gen_EliminarNovedadTarjeta.
FilaEscrita(p) ==
    LET t == pet[p].dueno IN
    /\ IF pet[p].op = "crear" THEN tarjeta[t] = "libre" ELSE Vigente(t)
    /\ tarjeta' = [tarjeta EXCEPT ![t] = IF pet[p].op = "eliminar" THEN "eliminada"
                                         ELSE pet[p].clave]

\* Mutant: the answer of the database is not looked at before deleting.
EscribirFilaSinMirar(p) ==
    /\ En(p, "fila")
    /\ FilaEscrita(p) \/ UNCHANGED tarjeta
    /\ LuegoBorra(p, pet[p].sobran)
    /\ UNCHANGED <<almacen, foto, adjunto, borrado, subidas, compartidas>>

EscribirFila(p) ==
    /\ En(p, "fila")
    /\ \/ FilaEscrita(p) /\ LuegoBorra(p, pet[p].sobran)
       \/ (FilaEscrita(p) \/ UNCHANGED tarjeta) /\ Termina(p)
    /\ UNCHANGED <<almacen, foto, adjunto, borrado, subidas, compartidas>>

-----------------------------------------------------------------------------
(* Attachments.                                                            *)

\* An upload under an index in use replaces the object; without an index k is new.
SubirAdjunto(p, a, k) ==
    /\ Subir(p, "adjuntar", a, k, "adjuntar")
    /\ subidas' = subidas \cup {k}
    /\ compartidas' = compartidas \cup ({k} \cap subidas)
    /\ UNCHANGED <<foto, tarjeta, adjunto, borrado>>

\* The client's next request, with the key it was given; nothing undoes the upload.
AgregarAdjunto(p) ==
    LET a == pet[p].dueno IN
    /\ En(p, "adjuntar")
    /\ \/ a \notin borrado /\ adjunto' = [adjunto EXCEPT ![a] = @ \cup {pet[p].clave}]
       \/ UNCHANGED adjunto
    /\ Termina(p)
    /\ UNCHANGED <<almacen, foto, tarjeta, borrado, subidas, compartidas>>

Quitar(p, a, sobran) ==
    pet' = [pet EXCEPT ![p] = [Nueva EXCEPT !.op = "quitar", !.paso = "borrar",
                                            !.dueno = a, !.sobran = sobran]]

\* One attachment: the function removes the row and returns the address it held.
QuitarAdjunto(p, a) ==
    /\ En(p, "nueva")
    /\ \E k \in adjunto[a] :
         /\ adjunto' = [adjunto EXCEPT ![a] = @ \ {k}]
         /\ Quitar(p, a, {k}) \/ Termina(p)
    /\ UNCHANGED <<almacen, foto, tarjeta, borrado, subidas, compartidas>>

\* An anchored element with all its photos: the list is read before the rows go.
ListarAnclaje(p, a) ==
    /\ En(p, "nueva")
    /\ a \notin borrado
    /\ pet' = [pet EXCEPT ![p] = [Nueva EXCEPT !.op = "quitar", !.paso = "anclaje",
                                               !.dueno = a, !.sobran = adjunto[a]]]
    /\ UNCHANGED <<almacen, foto, tarjeta, adjunto, borrado, subidas, compartidas>>

EliminarAnclaje(p) ==
    LET a == pet[p].dueno IN
    /\ En(p, "anclaje")
    /\ \/ /\ a \notin borrado
          /\ borrado' = borrado \cup {a}
          /\ adjunto' = [adjunto EXCEPT ![a] = {}]
          /\ LuegoBorra(p, pet[p].sobran) \/ Termina(p)
       \/ UNCHANGED <<adjunto, borrado>> /\ Termina(p)
    /\ UNCHANGED <<almacen, foto, tarjeta, subidas, compartidas>>

-----------------------------------------------------------------------------

PasoFoto(p) == (\E u \in Usuarios : SubirFoto(p, u)) \/ ActualizarFoto(p)

PasoTarjeta(p) ==
    \/ \E t \in Tarjetas, k \in Medios, op \in {"crear", "editar"} : SubirMedio(p, op, t, k)
    \/ \E t \in Tarjetas, k \in Medios \cup {Nada}, op \in {"crear", "editar", "eliminar"} :
          SinSubir(p, op, t, k)
    \/ RegistrarArchivo(p) \/ LeerAnterior(p) \/ EscribirFila(p)

PasoAdjunto(p) ==
    \/ \E a \in Anclajes, k \in Claves : SubirAdjunto(p, a, k)
    \/ \E a \in Anclajes : QuitarAdjunto(p, a) \/ ListarAnclaje(p, a)
    \/ AgregarAdjunto(p) \/ EliminarAnclaje(p)

Next == \E p \in Peticiones :
    PasoFoto(p) \/ PasoTarjeta(p) \/ PasoAdjunto(p) \/ Deshacer(p) \/ Borrar(p)

Spec == Init /\ [][Next]_vars

-----------------------------------------------------------------------------

\* A card or an attachment names an object that is in the bucket, whatever call failed
\* and in whatever order requests for it interleaved, unless a client named its key a
\* second time: an idArchivo given to another card, or an index uploaded again.
ReferenciaViva == \A k \in (Medios \cup Claves) \ compartidas :
    /\ \A t \in Tarjetas : tarjeta[t] = k => k \in almacen
    /\ \A a \in Anclajes : k \in adjunto[a] => k \in almacen

\* "Rollback: eliminar archivo si la BD falla" (subir-foto-perfil.use-case.ts): after it
\* a user's row names the photo it named before, which is still there.
FotoViva == foto \subseteq almacen
=============================================================================
