--------------------------- MODULE NivelDocumental ---------------------------
(***************************************************************************)
(* The level of a user on a folder of a project: the walk up the folders   *)
(* that are not registered, the level of the registered one it finds, and  *)
(* the operations that this level allows on the registry itself: to        *)
(* register a folder under its parent, to move or delete its entry, and to *)
(* assign a level.  Every read is a step, and the folders may be moved in  *)
(* Autodesk between two of them.                                           *)
(*                                                                         *)
(* External: the tree of folders of Autodesk, and the SQL: it answers the  *)
(* nearest assignment in the registry, refuses an entry that would be      *)
(* above itself, and with an entry deletes its assignments, while those    *)
(* below it go on inheriting from above.                                   *)
(***************************************************************************)
EXTENDS Integers, FiniteSets

CONSTANTS
  Usuarios,
  Roles,       (* the sets of roles a user may come with, of                 *)
               (* "acceso_total", "ver_todos" and "configurar"               *)
  Carpetas, Ajenas,   (* folders, and those of another project               *)
  Peticiones,         (* requests that may be in flight at once              *)
  NoHay,
  Niveles,            (* levels in use, from 1 (ver) to 6 (administrar)      *)
  MaxSaltos,          (* MAX_UNREGISTERED_ANCESTORS, 12 in the code          *)
  MaxCambios          (* bound on the moves in Autodesk                      *)

(* The projects, whose own entries of the registry are always there.       *)
Proyectos == {"project"} \union (IF Ajenas = {} THEN {} ELSE {"otro"})

ASSUME ConstantesNivel ==
  /\ Roles \subseteq SUBSET {"acceso_total", "ver_todos", "configurar"}
  /\ Ajenas \subseteq Carpetas
  /\ Carpetas \intersect {"project", "otro", "sin", NoHay} = {}
  /\ NoHay \notin {"project", "otro", "sin"}
  /\ Niveles \subseteq 1 .. 6
  /\ MaxSaltos \in Nat \ {0}
  /\ MaxCambios \in Nat
  /\ IsFiniteSet(Carpetas)

VARIABLES
  padre,    (* the folder above each one in Autodesk                         *)
  reg,      (* accresources: the entry above each registered folder          *)
  nivel,    (* useraccaccess: the level assigned to a user on an entry       *)
  cambios,  (* moves in Autodesk                                             *)
  pet       (* the requests                                                  *)

vars == <<padre, reg, nivel, cambios, pet>>

Recursos == Carpetas \union Proyectos
ProyectoDe(x) == IF x \in Ajenas \union {"otro"} THEN "otro" ELSE "project"
Sube == Carpetas \union {NoHay}
DOCUMENT_CAPABILITY_LEVEL ==
  [view |-> 1, download |-> 2, publish_markup |-> 3, upload |-> 4, create_folder |-> 4,
   edit |-> 5, delete |-> 5, delete_folder |-> 6, manage_permissions |-> 6]

Fases == {"libre", "ubicar", "actual", "recurso", "cadena", "subir", "proyecto", "decidir",
          "verPadre", "verRaiz", "aplicar", "fin"}
Ops == {"consultar", "registrar", "mover", "eliminar", "asignar"}
Peticion == [fase : Fases, op : Ops, quien : Usuarios, roles : Roles \union {{}}, sobre : Recursos,
             dato : Recursos \union {NoHay}, proy : Proyectos,
             sube : Recursos \union {NoHay}, paso : 0 .. MaxSaltos,
             nivel : 0 .. 7, gestiona : BOOLEAN, quieto : BOOLEAN, tope : 0 .. 6]

TypeOK ==
  /\ padre \in [Carpetas -> Sube]
  /\ reg \in [Carpetas -> Recursos \union {"sin"}]
  /\ nivel \in [Usuarios \X Recursos -> {0} \union Niveles]
  /\ cambios \in 0 .. MaxCambios
  /\ pet \in [Peticiones -> Peticion]

(* The n-th entry above x by the function f, NoHay past the last one.      *)
Ancestros(f, x) ==
  LET a[n \in 0 .. Cardinality(Carpetas) + 1] ==
        IF n = 0 THEN x
        ELSE IF a[n - 1] \in Carpetas THEN f[a[n - 1]] ELSE NoHay
  IN a
Largo == 0 .. Cardinality(Carpetas) + 1
Llega(f) == \A x \in Carpetas : Ancestros(f, x)[Cardinality(Carpetas) + 1] \notin Carpetas

(* A folder is in the project of what is above it.                         *)
MismoProyecto(f) == \A x \in Carpetas : f[x] \in Recursos => ProyectoDe(f[x]) = ProyectoDe(x)

Arbol(f) == Llega(f) /\ MismoProyecto(f)
Registrada(x) == x \in Proyectos \/ (x \in Carpetas /\ reg[x] # "sin")
RegistroValido(r) ==
  /\ Arbol([x \in Carpetas |-> IF r[x] \in Carpetas THEN r[x] ELSE NoHay])
  /\ MismoProyecto(r)
  /\ \A x \in Carpetas : r[x] \in Carpetas => r[r[x]] # "sin"

(* acc_ObtenerNivelDocumentoUsuario: the nearest assignment, going up the  *)
(* registry.                                                               *)
NivelRegistrado(u, x) ==
  LET a == Ancestros(reg, x)
      con == {n \in Largo : a[n] \in Recursos /\ nivel[<<u, a[n]>>] # 0}
  IN IF con = {} THEN 0
     ELSE nivel[<<u, a[CHOOSE n \in con : \A m \in con : n <= m]>>]

Nueva(u, ro) ==
  [fase |-> "libre", op |-> "consultar", quien |-> u, roles |-> ro, sobre |-> "project",
   dato |-> NoHay, proy |-> "project", sube |-> NoHay, paso |-> 0, nivel |-> 0,
   gestiona |-> FALSE, quieto |-> TRUE, tope |-> 0]

Init ==
  /\ padre \in {f \in [Carpetas -> Sube] : Arbol(f)}
  /\ reg \in {r \in [Carpetas -> Recursos \union {"sin"}] : RegistroValido(r)}
  /\ nivel \in {n \in [Usuarios \X Recursos -> {0} \union Niveles] :
                 \A e \in DOMAIN n : n[e] # 0 => Registrada(e[2])}
  /\ cambios = 0
  /\ \E u \in Usuarios : pet = [p \in Peticiones |-> Nueva(u, {})]

(* The highest level assigned to a user in a project.                      *)
Tope(n, u, y) ==
  CHOOSE t \in 0 .. 6 :
    LET suyos == {n[<<u, x>>] : x \in {z \in Recursos : ProyectoDe(z) = y}}
    IN t \in suyos /\ \A s \in suyos : s <= t

(* What the requests under way have read may have changed.  For the        *)
(* properties: a request is quieto while this does not happen and Autodesk *)
(* answers it; tope is the highest level its user has had since it began.  *)
Cambiada(r) ==
  LET t == Tope(nivel', r.quien, r.proy)
  IN [r EXCEPT !.quieto = FALSE, !.tope = IF t > @ THEN t ELSE @]

Avisar(ps) == [p \in Peticiones |-> IF p \in ps /\ pet[p].fase # "libre"
                                     THEN Cambiada(pet[p]) ELSE pet[p]]
-----------------------------------------------------------------------------
(* forFolder begins: the folder, or the project.                           *)
Desde(r, x) ==
  IF "acceso_total" \in r.roles THEN [r EXCEPT !.fase = "decidir", !.nivel = 7]
  ELSE [r EXCEPT !.fase = IF x \in Carpetas THEN "cadena" ELSE "proyecto", !.sube = x,
                 !.tope = Tope(nivel, r.quien, r.proy)]

Pedir(p, r) ==
  /\ pet[p].fase = "libre"
  /\ pet' = [pet EXCEPT ![p] = r]
  /\ UNCHANGED <<padre, reg, nivel, cambios>>

(* With a folder in the path, the project is that of the path; else the    *)
(* project is what is asked for.                                           *)
Consultar(p, u, ro, x) ==
  Pedir(p, Desde([Nueva(u, ro) EXCEPT !.sobre = x, !.proy = IF x \in Proyectos THEN x ELSE @], x))

(* forItem: the folder is asked for first.                                 *)
ConsultarItem(p, u, ro, x) ==
  LET r == [Nueva(u, ro) EXCEPT !.sobre = x]
  IN Pedir(p, IF "acceso_total" \in ro THEN Desde(r, x) ELSE [r EXCEPT !.fase = "ubicar"])

Ubicar(p) ==
  /\ pet[p].fase = "ubicar"
  /\ \/ pet' = [pet EXCEPT ![p] = Desde(@, pet[p].sobre)]
     \/ pet' = [pet EXCEPT ![p].fase = "fin", ![p].quieto = FALSE]
  /\ UNCHANGED <<padre, reg, nivel, cambios>>

(* assertRegistration and then crearRecurso.  With full access nothing is  *)
(* asked; a folder that is registered under that very parent is let        *)
(* through.                                                                *)
Registrar(p, u, ro, x, arriba) ==
  /\ x # arriba
  /\ Pedir(p, [Nueva(u, ro) EXCEPT
       !.op = "registrar", !.sobre = x, !.dato = arriba,
       !.fase = IF "acceso_total" \in ro THEN "aplicar" ELSE "actual"])

(* assertResource and then the operation on an entry of the registry.      *)
Administrar(p, u, ro, o, x, d) ==
  /\ o \in {"mover", "eliminar"} => x \in Carpetas
  /\ Pedir(p, [Nueva(u, ro) EXCEPT
       !.op = o, !.sobre = x, !.dato = d,
       !.fase = IF "acceso_total" \in ro THEN "aplicar" ELSE "recurso"])

VerActual(p) ==
  /\ pet[p].fase = "actual"
  /\ pet' = [pet EXCEPT ![p] =
       IF reg[@.sobre] = @.dato THEN [@ EXCEPT !.fase = "aplicar"] ELSE [@ EXCEPT !.fase = "recurso"]]
  /\ UNCHANGED <<padre, reg, nivel, cambios>>

Objeto(r) == IF r.op = "registrar" THEN r.dato ELSE r.sobre

VerRecurso(p) ==
  /\ pet[p].fase = "recurso"
  /\ LET x == Objeto(pet[p]) IN
     pet' = [pet EXCEPT ![p] =
       IF Registrada(x) THEN Desde([@ EXCEPT !.proy = ProyectoDe(x)], x)
       ELSE [@ EXCEPT !.fase = "fin"]]
  /\ UNCHANGED <<padre, reg, nivel, cambios>>

\* Mutant: the project of the entry is not compared.
HallarDeCualquiera(r) ==
  [r EXCEPT !.fase = "decidir", !.nivel = NivelRegistrado(r.quien, r.sube)]

(* resolveFolder found an entry: its level, if it is of the project.       *)
Hallar(r) ==
  [r EXCEPT !.fase = "decidir",
            !.nivel = IF ProyectoDe(r.sube) # r.proy THEN 0 ELSE NivelRegistrado(r.quien, r.sube)]

Cadena(p) ==
  /\ pet[p].fase = "cadena"
  /\ pet' = [pet EXCEPT ![p] = IF Registrada(@.sube) THEN Hallar(@) ELSE [@ EXCEPT !.fase = "subir"]]
  /\ UNCHANGED <<padre, reg, nivel, cambios>>

\* Mutant: a chain too long ends at the project.
TrasSubirSinLimite(r, arriba) ==
  IF arriba # NoHay /\ r.paso < MaxSaltos
  THEN [r EXCEPT !.fase = "cadena", !.sube = arriba, !.paso = @ + 1]
  ELSE [r EXCEPT !.fase = "proyecto", !.sube = r.proy]

\* Mutant: one more turn of the loop.
TrasSubirUnoMas(r, arriba) ==
  IF arriba = NoHay THEN [r EXCEPT !.fase = "proyecto", !.sube = r.proy]
  ELSE IF r.paso <= MaxSaltos
       THEN [r EXCEPT !.fase = "cadena", !.sube = arriba, !.paso = @ + 1]
       ELSE [r EXCEPT !.fase = "decidir", !.nivel = 0]

(* The loop goes on while there is a folder and steps; past its bound with *)
(* folders left, nothing; with none left, the project.                     *)
TrasSubir(r, arriba) ==
  IF arriba = NoHay THEN [r EXCEPT !.fase = "proyecto", !.sube = r.proy]
  ELSE IF r.paso < MaxSaltos
       THEN [r EXCEPT !.fase = "cadena", !.sube = arriba, !.paso = @ + 1]
       ELSE [r EXCEPT !.fase = "decidir", !.nivel = 0]

(* Autodesk answers the folder above, or fails and there is no level.      *)
Subir(p) ==
  /\ pet[p].fase = "subir"
  /\ \/ pet' = [pet EXCEPT ![p] = TrasSubir(@, padre[@.sube])]
     \/ pet' = [pet EXCEPT ![p] = [@ EXCEPT !.fase = "decidir", !.nivel = 0, !.quieto = FALSE]]
  /\ UNCHANGED <<padre, reg, nivel, cambios>>

Proyecto(p) ==
  /\ pet[p].fase = "proyecto"
  /\ pet' = [pet EXCEPT ![p].fase = "decidir",
                        ![p].nivel = NivelRegistrado(pet[p].quien, pet[p].proy)]
  /\ UNCHANGED <<padre, reg, nivel, cambios>>

(* The roles over the level: «ver todos» gives the first one, «configurar  *)
(* proyecto» only to manage permissions.                                   *)
ConRoles(ro, n) == IF n = 0 /\ "ver_todos" \in ro THEN 1 ELSE n

GestionaCon(ro, n) == n >= DOCUMENT_CAPABILITY_LEVEL.manage_permissions \/ "configurar" \in ro

\* Mutant: the level is not required to change an entry.
SeguirSinNivel(o, n, g) ==
  CASE o = "consultar" -> "fin"
    [] o = "registrar" -> IF n >= DOCUMENT_CAPABILITY_LEVEL.view THEN "verPadre" ELSE "fin"
    [] OTHER -> "aplicar"

Seguir(o, n, g) ==
  CASE o = "consultar" -> "fin"
    [] o = "registrar" -> IF n >= DOCUMENT_CAPABILITY_LEVEL.view THEN "verPadre" ELSE "fin"
    [] OTHER -> IF g THEN "aplicar" ELSE "fin"

Decidir(p) ==
  /\ pet[p].fase = "decidir"
  /\ LET n == ConRoles(pet[p].roles, pet[p].nivel)
         g == GestionaCon(pet[p].roles, n)
     IN pet' = [pet EXCEPT ![p].nivel = n, ![p].gestiona = g, ![p].fase = Seguir(pet[p].op, n, g)]
  /\ UNCHANGED <<padre, reg, nivel, cambios>>

\* Mutant: the folder above in Autodesk is not compared.
PadreValeSiempre(r, real) == "aplicar"

(* The parent it is to be registered under, against the one in Autodesk.   *)
PadreVale(r, real) ==
  IF r.dato \in Proyectos THEN IF real = NoHay THEN "fin" ELSE "verRaiz"
  ELSE IF real = r.dato THEN "aplicar" ELSE "fin"

VerPadre(p) ==
  /\ pet[p].fase = "verPadre"
  /\ \/ pet' = [pet EXCEPT ![p].fase = PadreVale(pet[p], padre[pet[p].sobre]),
                           ![p].sube = padre[pet[p].sobre]]
     \/ pet' = [pet EXCEPT ![p].fase = "fin"]
  /\ UNCHANGED <<padre, reg, nivel, cambios>>

(* Under the project: the folder above must not be registered.             *)
VerRaiz(p) ==
  /\ pet[p].fase = "verRaiz"
  /\ pet' = [pet EXCEPT ![p].fase = IF Registrada(pet[p].sube) THEN "fin" ELSE "aplicar"]
  /\ UNCHANGED <<padre, reg, nivel, cambios>>

Cambio(r) ==
  CASE r.op \in {"registrar", "mover"} -> [reg EXCEPT ![r.sobre] = r.dato]
    [] r.op = "eliminar" -> [x \in Carpetas |->
         IF x = r.sobre THEN "sin" ELSE IF reg[x] = r.sobre THEN reg[r.sobre] ELSE reg[x]]
    [] OTHER -> reg

(* The write, or its refusal by the SQL.                                   *)
Aplicar(p) ==
  /\ pet[p].fase = "aplicar"
  /\ LET r == pet[p] IN
     \/ /\ r.op # "asignar"
        /\ RegistroValido(Cambio(r))
        /\ r.op \in {"mover", "eliminar"} => reg[r.sobre] # "sin"
        /\ reg' = Cambio(r)
        /\ nivel' = [e \in DOMAIN nivel |->
                       IF r.op = "eliminar" /\ e[2] = r.sobre THEN 0 ELSE nivel[e]]
        /\ pet' = [Avisar(Peticiones \ {p}) EXCEPT ![p].fase = "fin"]
     \/ /\ r.op = "asignar"
        /\ Registrada(r.sobre)
        /\ \E u \in Usuarios, n \in {0} \union Niveles : nivel' = [nivel EXCEPT ![<<u, r.sobre>>] = n]
        /\ UNCHANGED reg
        /\ pet' = [Avisar(Peticiones \ {p}) EXCEPT ![p].fase = "fin"]
     \/ pet' = [pet EXCEPT ![p].fase = "fin"] /\ UNCHANGED <<reg, nivel>>
  /\ UNCHANGED <<padre, cambios>>

Responder(p) ==
  /\ pet[p].fase = "fin"
  /\ pet' = [pet EXCEPT ![p] = Nueva(pet[p].quien, {})]
  /\ UNCHANGED <<padre, reg, nivel, cambios>>

(* A folder is moved, in Autodesk, by whoever.                             *)
MoverEnAutodesk(x, a) ==
  /\ cambios < MaxCambios
  /\ cambios' = cambios + 1
  /\ a # padre[x]
  /\ padre' = [padre EXCEPT ![x] = a]
  /\ Arbol(padre')
  /\ UNCHANGED <<reg, nivel>>
  /\ pet' = Avisar(Peticiones)

Empezar(p) ==
  \E u \in Usuarios, ro \in Roles, x \in Recursos :
    \/ Consultar(p, u, ro, x)
    \/ x \in Carpetas /\ ConsultarItem(p, u, ro, x)
    \/ x \in Carpetas /\ \E a \in Recursos : Registrar(p, u, ro, x, a)
    \/ \E a \in Recursos \ {x} : Administrar(p, u, ro, "mover", x, a)
    \/ \E o \in {"eliminar", "asignar"} : Administrar(p, u, ro, o, x, NoHay)

Atender(p) ==
  \/ Ubicar(p) \/ VerActual(p) \/ VerRecurso(p)
  \/ Cadena(p) \/ Subir(p) \/ Proyecto(p) \/ Decidir(p)
  \/ VerPadre(p) \/ VerRaiz(p) \/ Aplicar(p) \/ Responder(p)

Next ==
  \/ \E p \in Peticiones : Empezar(p) \/ Atender(p)
  \/ \E x \in Carpetas, a \in Sube : MoverEnAutodesk(x, a)

Spec == Init /\ [][Next]_vars
-----------------------------------------------------------------------------
(* The level of a folder, as the tree and the registry are: that of the    *)
(* nearest registered folder, if it is not too far up; that of the project *)
(* if there is none, nor folders out of reach.                             *)
NivelDe(u, x, y) ==
  LET a == Ancestros(padre, x)
      r == {n \in Largo : Registrada(a[n])}
      n == CHOOSE m \in r : \A k \in r : m <= k
  IN IF r # {} /\ n <= MaxSaltos
     THEN IF ProyectoDe(a[n]) = y THEN NivelRegistrado(u, a[n]) ELSE 0
     ELSE IF MaxSaltos + 1 \in Largo /\ a[MaxSaltos + 1] # NoHay THEN 0
     ELSE NivelRegistrado(u, y)

(* And what the roles make of it.                                          *)
NivelConRoles(r, x, y) ==
  IF "acceso_total" \in r.roles THEN 7 ELSE ConRoles(r.roles, NivelDe(r.quien, x, y))

(* What is answered, if nothing it read changed meanwhile, is the level of *)
(* the folder and what the roles add to it.                                *)
NivelCorrecto ==
  \A p \in Peticiones :
    LET r == pet[p]
        n == NivelConRoles(r, r.sobre, r.proy)
    IN r.fase = "fin" /\ r.op = "consultar" /\ r.quieto =>
         /\ r.nivel = n
         /\ r.gestiona <=> n >= 6 \/ "configurar" \in r.roles

(* Whatever changes meanwhile, nobody is given more than what was assigned *)
(* to them in that project since the request began, or their roles give.   *)
NuncaMas ==
  \A p \in Peticiones :
    LET r == pet[p] IN
    /\ r.nivel > r.tope => \/ "acceso_total" \in r.roles
                           \/ "ver_todos" \in r.roles /\ r.nivel = 1
    /\ r.gestiona => r.roles \intersect {"acceso_total", "configurar"} # {} \/ r.tope = 6

(* The registry and the levels change only by who has on the entry, or on  *)
(* the parent of the one that is registered, the level it takes.           *)
CambioConNivel ==
  [][\A p \in Peticiones :
       LET r == pet[p]
           n == NivelConRoles(r, Objeto(r), ProyectoDe(Objeto(r)))
       IN r.fase = "aplicar" /\ r.quieto /\ pet'[p].fase = "fin" /\ <<reg, nivel>>' # <<reg, nivel>> =>
            \/ r.op = "registrar" /\ n >= 1
            \/ r.op # "registrar" /\ (n >= 6 \/ "configurar" \in r.roles)]_vars

(* Registering a folder leaves everybody's level on it as it was: under    *)
(* the folder above it in Autodesk and, if none above it is registered nor *)
(* out of reach, under the project.                                        *)
Registra(r) ==
  /\ r.fase = "aplicar" /\ r.op = "registrar" /\ r.quieto
  /\ "acceso_total" \notin r.roles
  /\ reg[r.sobre] = "sin" /\ reg'[r.sobre] # "sin"

HeredaDelProyecto(x) ==
  \A n \in Largo \ {0} :
    LET a == Ancestros(padre, x)[n] IN ~Registrada(a) /\ (n > MaxSaltos => a = NoHay)

RegistrarConserva ==
  [][\A p \in Peticiones :
       LET r == pet[p] IN
       Registra(r) /\ pet'[p].fase = "fin" /\ (r.dato \in Carpetas \/ HeredaDelProyecto(r.sobre)) =>
         \A u \in Usuarios : NivelDe(u, r.sobre, r.proy)' = NivelDe(u, r.sobre, r.proy)]_vars
=============================================================================
