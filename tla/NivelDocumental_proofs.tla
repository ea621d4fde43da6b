----------------------- MODULE NivelDocumental_proofs -----------------------
(***************************************************************************)
(* Theorems about NivelDocumental for any folders, users, roles and        *)
(* requests, and any number of steps up the tree.                          *)
(***************************************************************************)
EXTENDS NivelDocumental, FiniteSetTheorems, WellFoundedInduction, TLAPS

-----------------------------------------------------------------------------
(* Induction over the naturals, for a set, from their well-foundedness.    *)

(* A set of naturals that is not empty has a least one.                    *)
LEMMA Minimo ==
  ASSUME NEW T \in SUBSET Nat, T # {}
  PROVE  \E x \in T : \A y \in T : x <= y
<1> DEFINE R == OpToRel(<, Nat)
<1>1. IsWellFoundedOn(R, Nat)
  BY NatLessThanWellFounded
<1>2. \A x, y \in Nat : <<y, x>> \in R <=> y < x
  BY DEF OpToRel
<1> HIDE DEF R
<1>3. PICK x \in T : \A y \in T : ~(<<y, x>> \in R)
  BY <1>1, WFMin
<1>4. ASSUME NEW y \in T
      PROVE  x <= y
  <2>1. x \in Nat /\ y \in Nat /\ ~(<<y, x>> \in R)
    BY <1>3
  <2>2. ~(y < x)
    BY <1>2, <2>1
  <2>3. QED
    BY <2>1, <2>2
<1>5. QED
  BY <1>4

(* What holds of 0 and of the next one of each that it holds of.           *)
LEMMA Induccion ==
  ASSUME NEW N \in Nat, NEW T, 0 \in T,
         \A n \in 0 .. N : n + 1 \in 0 .. N /\ n \in T => n + 1 \in T
  PROVE  \A n \in 0 .. N : n \in T
<1> DEFINE F == {n \in 0 .. N : n \notin T}
<1>1. SUFFICES ASSUME F # {} PROVE FALSE
  OBVIOUS
<1>2. F \in SUBSET Nat
  OBVIOUS
<1> HIDE DEF F
<1>3. PICK n \in F : \A m \in F : n <= m
  BY <1>1, <1>2, Minimo
<1>4. n \in 0 .. N /\ n \notin T
  BY <1>3 DEF F
<1>5. n - 1 \in 0 .. N /\ n - 1 < n
  BY <1>4
<1>6. n - 1 \in T
  BY <1>3, <1>5 DEF F
<1>7. (n - 1) + 1 = n
  BY <1>4
<1>8. QED
  BY <1>4, <1>5, <1>6, <1>7
-----------------------------------------------------------------------------
(* The chain of the entries above one.                                     *)

Alto == Cardinality(Carpetas) + 1

LEMMA AltoNat == Alto \in Nat /\ Alto >= 1 /\ Largo = 0 .. Alto
BY ConstantesNivel, FS_CardinalityType DEF Alto, Largo

Cadenas(f, x, N, g) ==
  g = [n \in 0 .. N |-> IF n = 0 THEN x
                        ELSE IF g[n - 1] \in Carpetas THEN f[g[n - 1]] ELSE NoHay]

LEMMA HayCadena ==
  ASSUME NEW f, NEW x, NEW N \in Nat
  PROVE  \E g : Cadenas(f, x, N, g)
<1> DEFINE T == {n \in 0 .. N : \E g : Cadenas(f, x, n, g)}
<1>1. 0 \in T
  <2> DEFINE g == [n \in 0 .. 0 |-> x]
  <2>1. Cadenas(f, x, 0, g)
    BY DEF Cadenas
  <2>2. QED
    BY <2>1
<1>2. ASSUME NEW n \in 0 .. N, n + 1 \in 0 .. N, n \in T
      PROVE  n + 1 \in T
  <2>1. PICK g : Cadenas(f, x, n, g)
    BY <1>2
  <2> DEFINE z == IF g[n] \in Carpetas THEN f[g[n]] ELSE NoHay
             h == [m \in 0 .. n + 1 |-> IF m = n + 1 THEN z ELSE g[m]]
  <2>2. \A m \in 0 .. n : h[m] = g[m]
    OBVIOUS
  <2>3. h[n + 1] = z
    OBVIOUS
  <2>4. h[0] = x
    BY <2>1 DEF Cadenas
  <2>5. ASSUME NEW m \in 0 .. n + 1, m # 0
        PROVE  h[m] = IF h[m - 1] \in Carpetas THEN f[h[m - 1]] ELSE NoHay
    <3>1. m - 1 \in 0 .. n
      BY <2>5
    <3>2. CASE m = n + 1
      BY <2>2, <2>3, <3>1, <3>2
    <3>3. CASE m # n + 1
      <4>1. m \in 0 .. n
        BY <3>3
      <4>2. g[m] = IF g[m - 1] \in Carpetas THEN f[g[m - 1]] ELSE NoHay
        BY <2>1, <2>5, <4>1 DEF Cadenas
      <4>3. QED
        BY <2>2, <3>1, <4>1, <4>2
    <3>4. QED
      BY <3>2, <3>3
  <2>6. h = [m \in 0 .. n + 1 |-> h[m]]
    OBVIOUS
  <2> HIDE DEF h
  <2>7. Cadenas(f, x, n + 1, h)
    BY <2>4, <2>5, <2>6 DEF Cadenas
  <2>8. QED
    BY <1>2, <2>7
<1>3. \A n \in 0 .. N : n \in T
  <2> HIDE DEF T
  <2>1. QED
    BY <1>1, <1>2, Induccion
<1>4. QED
  BY <1>3

LEMMA AncestrosEs ==
  ASSUME NEW f, NEW x
  PROVE  Cadenas(f, x, Alto, Ancestros(f, x))
<1>1. PICK g : Cadenas(f, x, Alto, g)
  BY HayCadena, AltoNat
<1>2. QED
  BY <1>1 DEF Ancestros, Cadenas, Alto

(* The first one is itself, and each of the others is above the one before *)
(* it.                                                                     *)
LEMMA AncestrosPaso ==
  ASSUME NEW f, NEW x
  PROVE  /\ Ancestros(f, x)[0] = x
         /\ \A n \in Largo : n + 1 \in Largo =>
              Ancestros(f, x)[n + 1] =
                IF Ancestros(f, x)[n] \in Carpetas THEN f[Ancestros(f, x)[n]] ELSE NoHay
         /\ 0 \in Largo
<1> DEFINE a == Ancestros(f, x)
<1>1. Cadenas(f, x, Alto, a)
  BY AncestrosEs
<1> HIDE DEF a
<1>2. a[0] = x
  BY <1>1, AltoNat DEF Cadenas
<1>3. ASSUME NEW n \in Largo, n + 1 \in Largo
      PROVE  a[n + 1] = IF a[n] \in Carpetas THEN f[a[n]] ELSE NoHay
  <2>1. n + 1 \in 0 .. Alto /\ n + 1 # 0 /\ (n + 1) - 1 = n
    BY <1>3, AltoNat
  <2>2. QED
    BY <1>1, <2>1 DEF Cadenas
<1>4. QED
  BY <1>2, <1>3, AltoNat DEF a

LEMMA InduccionLargo ==
  ASSUME NEW T, 0 \in T, \A n \in Largo : n + 1 \in Largo /\ n \in T => n + 1 \in T
  PROVE  \A n \in Largo : n \in T
BY AltoNat, Induccion

(* A set that is closed upwards holds the whole chain.                     *)
LEMMA CadenaEn ==
  ASSUME NEW f, NEW x, NEW S, x \in S, NoHay \in S, \A c \in Carpetas \intersect S : f[c] \in S
  PROVE  \A n \in Largo : Ancestros(f, x)[n] \in S
<1> DEFINE a == Ancestros(f, x)
           T == {n \in Largo : a[n] \in S}
<1>1. 0 \in T
  BY AncestrosPaso
<1>2. \A n \in Largo : n + 1 \in Largo /\ n \in T => n + 1 \in T
  BY AncestrosPaso
<1>3. \A n \in Largo : n \in T
  <2> HIDE DEF T
  <2>1. QED
    BY <1>1, <1>2, InduccionLargo
<1>4. QED
  BY <1>3

(* Past the end there is nothing.                                          *)
LEMMA CadenaAcaba ==
  ASSUME NEW f, NEW x, NEW k \in Largo, Ancestros(f, x)[k] \notin Carpetas
  PROVE  \A n \in Largo : n > k => Ancestros(f, x)[n] = NoHay
<1> DEFINE a == Ancestros(f, x)
           T == {n \in Largo : n > k => a[n] = NoHay}
<1>1. 0 \in T
  BY AltoNat
<1>2. ASSUME NEW n \in Largo, n + 1 \in Largo, n \in T PROVE n + 1 \in T
  <2>1. a[n + 1] = IF a[n] \in Carpetas THEN f[a[n]] ELSE NoHay
    BY <1>2, AncestrosPaso
  <2>2. n \in Nat /\ k \in Nat
    BY AltoNat
  <2>3. CASE n > k
    BY <1>2, <2>1, <2>3, ConstantesNivel
  <2>4. CASE n = k
    BY <1>2, <2>1, <2>4
  <2>5. CASE n < k
    BY <1>2, <2>2, <2>5
  <2>6. QED
    BY <2>2, <2>3, <2>4, <2>5
<1>3. \A n \in Largo : n \in T
  <2> HIDE DEF T
  <2>1. QED
    BY <1>1, <1>2, InduccionLargo
<1>4. QED
  BY <1>3

(* The chain of a folder is the one of what is above it, one further.      *)
LEMMA CadenaCorrida ==
  ASSUME NEW f, NEW x \in Carpetas
  PROVE  \A n \in Largo : n + 1 \in Largo => Ancestros(f, x)[n + 1] = Ancestros(f, f[x])[n]
<1> DEFINE a == Ancestros(f, x)
           b == Ancestros(f, f[x])
           T == {n \in Largo : n + 1 \in Largo => a[n + 1] = b[n]}
<1>1. 0 \in T
  BY AncestrosPaso
<1>2. ASSUME NEW n \in Largo, n + 1 \in Largo, n \in T PROVE n + 1 \in T
  <2>1. SUFFICES ASSUME (n + 1) + 1 \in Largo PROVE a[(n + 1) + 1] = b[n + 1]
    BY <1>2
  <2>2. a[(n + 1) + 1] = IF a[n + 1] \in Carpetas THEN f[a[n + 1]] ELSE NoHay
    BY <1>2, <2>1, AncestrosPaso
  <2>3. b[n + 1] = IF b[n] \in Carpetas THEN f[b[n]] ELSE NoHay
    BY <1>2, AncestrosPaso
  <2>4. QED
    BY <1>2, <2>2, <2>3
<1>3. \A n \in Largo : n \in T
  <2> HIDE DEF T
  <2>1. QED
    BY <1>1, <1>2, InduccionLargo
<1>4. QED
  BY <1>3

(* Two functions that agree along a chain give the same one, if nothing    *)
(* that is no folder is taken for one.                                     *)
LEMMA CadenaIgual ==
  ASSUME NEW f, NEW g, NEW x, NEW S, x \in S, NoHay \in S,
         \A c \in Carpetas \intersect S : f[c] \in S /\ g[c] = f[c]
  PROVE  \A n \in Largo : Ancestros(g, x)[n] = Ancestros(f, x)[n]
<1> DEFINE a == Ancestros(f, x)
           b == Ancestros(g, x)
           T == {n \in Largo : a[n] = b[n]}
<1>1. 0 \in T
  BY AncestrosPaso
<1>2. ASSUME NEW n \in Largo, n + 1 \in Largo, n \in T PROVE n + 1 \in T
  <2>1. a[n] \in S
    BY CadenaEn
  <2>2. a[n + 1] = IF a[n] \in Carpetas THEN f[a[n]] ELSE NoHay
    BY <1>2, AncestrosPaso
  <2>3. b[n + 1] = IF b[n] \in Carpetas THEN g[b[n]] ELSE NoHay
    BY <1>2, AncestrosPaso
  <2>4. QED
    BY <1>2, <2>1, <2>2, <2>3
<1>3. \A n \in Largo : n \in T
  <2> HIDE DEF T
  <2>1. QED
    BY <1>1, <1>2, InduccionLargo
<1>4. QED
  BY <1>3
-----------------------------------------------------------------------------
(***************************************************************************)
(* The inductive invariant.                                                *)
(***************************************************************************)

(* The tree and the registry are trees of one project each, and only what  *)
(* is registered has levels.                                               *)
Arboles ==
  /\ Arbol(padre)
  /\ RegistroValido(reg)
  /\ \A e \in Usuarios \X Recursos : nivel[e] # 0 => Registrada(e[2])

Buscando == {"cadena", "subir", "proyecto"}

(* What a request carries, by its operation and in each of its phases.     *)
FormaOp(r) ==
  /\ r.op \in {"registrar", "mover"} => r.sobre \in Carpetas /\ r.dato \in Recursos
  /\ r.op = "eliminar" => r.sobre \in Carpetas

FormaFase(r) ==
  /\ r.fase \in {"cadena", "subir"} => r.sube \in Carpetas
  /\ r.fase \in {"ubicar", "actual", "recurso"} => r.paso = 0
  /\ r.fase \in {"actual", "verPadre", "verRaiz"} => r.op = "registrar"
  /\ r.fase \in {"recurso", "aplicar"} => r.op # "consultar"
  /\ r.fase = "ubicar" => r.op = "consultar" /\ r.sobre \in Carpetas
  /\ "acceso_total" \in r.roles =>
       /\ r.fase \in {"libre", "decidir", "aplicar", "fin"}
       /\ r.fase = "decidir" => r.op = "consultar"

(* No more than tope, at every step of the way to the answer.              *)
Acotada(r) ==
  /\ r.fase \in {"libre", "ubicar", "actual", "recurso"} \union Buscando =>
       r.nivel = 0 /\ ~r.gestiona
  /\ r.fase \in Buscando => Tope(nivel, r.quien, r.proy) <= r.tope
  /\ r.fase = "decidir" =>
       ~r.gestiona /\ (r.nivel <= r.tope \/ "acceso_total" \in r.roles)
  /\ r.nivel > r.tope => \/ "acceso_total" \in r.roles
                         \/ "ver_todos" \in r.roles /\ r.nivel = 1
  /\ r.gestiona => r.roles \intersect {"acceso_total", "configurar"} # {} \/ r.tope = 6

(* While nothing it read has changed: how far up the tree it is and what   *)
(* is still to be found there.                                             *)
EnCamino(r) ==
  /\ r.fase \in {"cadena", "subir"} =>
       /\ Objeto(r) \in Carpetas
       /\ r.paso \in Largo
       /\ r.sube = Ancestros(padre, Objeto(r))[r.paso]
       /\ \A k \in Largo : k < r.paso => ~Registrada(Ancestros(padre, Objeto(r))[k])
  /\ r.fase = "subir" => ~Registrada(r.sube)
  /\ r.fase = "proyecto" =>
       NivelDe(r.quien, Objeto(r), r.proy) = NivelRegistrado(r.quien, r.proy)
  /\ r.fase = "decidir" =>
       r.nivel = IF "acceso_total" \in r.roles THEN 7 ELSE NivelDe(r.quien, Objeto(r), r.proy)

(* What it has made sure of before it changes the registry or the levels.  *)
Comprobada(r) ==
  /\ r.op # "consultar" /\ r.fase \in Buscando \union {"decidir", "verPadre", "verRaiz"} =>
       Registrada(Objeto(r)) /\ r.proy = ProyectoDe(Objeto(r))
  /\ r.fase \in {"verPadre", "verRaiz"} => NivelConRoles(r, r.dato, ProyectoDe(r.dato)) >= 1
  /\ r.fase = "verRaiz" => r.dato \in Proyectos
  /\ r.fase = "aplicar" /\ r.op = "registrar" =>
       \/ "acceso_total" \in r.roles
       \/ reg[r.sobre] = r.dato
       \/ /\ NivelConRoles(r, r.dato, ProyectoDe(r.dato)) >= 1
          /\ Registrada(r.dato) /\ r.proy = ProyectoDe(r.dato)
          /\ r.dato \in Carpetas => padre[r.sobre] = r.dato
  /\ r.fase = "aplicar" /\ r.op # "registrar" =>
       NivelConRoles(r, r.sobre, ProyectoDe(r.sobre)) >= 6 \/ "configurar" \in r.roles

Contestada(r) ==
  r.fase = "fin" /\ r.op = "consultar" =>
    LET n == NivelConRoles(r, r.sobre, r.proy)
    IN r.nivel = n /\ (r.gestiona <=> n >= 6 \/ "configurar" \in r.roles)

Fiel(r) == r.quieto => EnCamino(r) /\ Comprobada(r) /\ Contestada(r)

Bien(r) == FormaOp(r) /\ FormaFase(r) /\ Acotada(r) /\ Fiel(r)

Invariante == TypeOK /\ Arboles /\ \A p \in Peticiones : Bien(pet[p])
-----------------------------------------------------------------------------
(* The projects, the levels and the chains of a state.                     *)

LEMMA ProyectoBien ==
  /\ \A x \in Recursos : ProyectoDe(x) \in Proyectos
  /\ \A y \in Proyectos : ProyectoDe(y) = y /\ y \notin Carpetas /\ y \in Recursos
  /\ "project" \in Proyectos
  /\ NoHay \notin Recursos /\ "sin" \notin Recursos /\ NoHay # "sin"
<1>1. "project" \notin Ajenas /\ "otro" \notin Ajenas
  BY ConstantesNivel
<1>2. \A x \in Recursos : ProyectoDe(x) \in Proyectos
  <2>1. TAKE x \in Recursos
  <2>2. CASE x \in Ajenas \union {"otro"}
    <3>1. Ajenas # {}
      BY <2>2, ConstantesNivel DEF Recursos, Proyectos
    <3>2. QED
      BY <2>2, <3>1 DEF ProyectoDe, Proyectos
  <2>3. CASE x \notin Ajenas \union {"otro"}
    BY <2>3 DEF ProyectoDe, Proyectos
  <2>4. QED
    BY <2>2, <2>3
<1>3. \A y \in Proyectos : ProyectoDe(y) = y /\ y \notin Carpetas /\ y \in Recursos
  <2>1. TAKE y \in Proyectos
  <2>2. y \in {"project", "otro"}
    BY DEF Proyectos
  <2>3. QED
    BY <1>1, <2>2, ConstantesNivel DEF ProyectoDe, Recursos
<1>4. NoHay \notin Recursos /\ "sin" \notin Recursos /\ NoHay # "sin"
  BY ConstantesNivel DEF Recursos, Proyectos
<1>5. QED
  BY <1>2, <1>3, <1>4 DEF Proyectos

(* The highest level is one of those of the project, and none is higher.   *)
LEMMA TopeBien ==
  ASSUME NEW n \in [Usuarios \X Recursos -> 0 .. 6], NEW u \in Usuarios, NEW y \in Proyectos
  PROVE  /\ Tope(n, u, y) \in 0 .. 6
         /\ \A z \in Recursos : ProyectoDe(z) = y => n[<<u, z>>] <= Tope(n, u, y)
<1> DEFINE suyos == {n[<<u, x>>] : x \in {z \in Recursos : ProyectoDe(z) = y}}
           faltan == {k \in 0 .. 6 : 6 - k \in suyos}
<1>1. \A z \in Recursos : n[<<u, z>>] \in 0 .. 6
  OBVIOUS
<1>2. suyos \subseteq 0 .. 6
  BY <1>1
<1>3. n[<<u, y>>] \in suyos
  BY ProyectoBien
<1> HIDE DEF suyos
<1>4. 6 - n[<<u, y>>] \in faltan
  <2>1. PICK k \in 0 .. 6 : k = n[<<u, y>>]
    BY <1>2, <1>3
  <2>2. 6 - k \in 0 .. 6 /\ 6 - (6 - k) = k
    BY <2>1
  <2>3. QED
    BY <1>3, <2>1, <2>2
<1>5. PICK k \in faltan : \A j \in faltan : k <= j
  <2>1. faltan \in SUBSET Nat
    OBVIOUS
  <2>2. QED
    BY <1>4, <2>1, Minimo
<1>6. 6 - k \in suyos /\ 6 - k \in 0 .. 6
  BY <1>5
<1>7. \A s \in suyos : s <= 6 - k
  <2>1. TAKE s \in suyos
  <2>2. PICK v \in 0 .. 6 : v = s
    BY <1>2
  <2>3. 6 - v \in 0 .. 6 /\ 6 - (6 - v) = v
    BY <2>2
  <2>4. 6 - v \in faltan
    BY <2>2, <2>3
  <2>5. k <= 6 - v
    BY <1>5, <2>4
  <2>6. QED
    BY <1>5, <2>2, <2>5
<1>8. /\ Tope(n, u, y) \in 0 .. 6
      /\ Tope(n, u, y) \in suyos
      /\ \A s \in suyos : s <= Tope(n, u, y)
  <2>1. \E t \in 0 .. 6 : t \in suyos /\ \A s \in suyos : s <= t
    BY <1>6, <1>7
  <2>2. Tope(n, u, y) = CHOOSE t \in 0 .. 6 : t \in suyos /\ \A s \in suyos : s <= t
    BY DEF Tope, suyos
  <2>3. QED
    BY <2>1, <2>2
<1>9. \A z \in Recursos : ProyectoDe(z) = y => n[<<u, z>>] \in suyos
  BY DEF suyos
<1>10. QED
  BY <1>8, <1>9

(* The level of the registry and the one of the tree, of any functions.    *)
Tiene(nv, a, u, n) == a[n] \in Recursos /\ nv[<<u, a[n]>>] # 0

NR(re, nv, u, x) ==
  LET a == Ancestros(re, x)
      con == {n \in Largo : Tiene(nv, a, u, n)}
  IN IF con = {} THEN 0
     ELSE nv[<<u, a[CHOOSE n \in con : \A m \in con : n <= m]>>]

RG(re, x) == x \in Proyectos \/ (x \in Carpetas /\ re[x] # "sin")

ND(pa, re, nv, u, x, y) ==
  LET a == Ancestros(pa, x)
      r == {n \in Largo : RG(re, a[n])}
      n == CHOOSE m \in r : \A k \in r : m <= k
  IN IF r # {} /\ n <= MaxSaltos
     THEN IF ProyectoDe(a[n]) = y THEN NR(re, nv, u, a[n]) ELSE 0
     ELSE IF MaxSaltos + 1 \in Largo /\ a[MaxSaltos + 1] # NoHay THEN 0
     ELSE NR(re, nv, u, y)

LEMMA EsNR == ASSUME NEW u, NEW x PROVE NivelRegistrado(u, x) = NR(reg, nivel, u, x)
BY DEF NivelRegistrado, NR, Tiene

LEMMA EsND ==
  ASSUME NEW u, NEW x, NEW y PROVE NivelDe(u, x, y) = ND(padre, reg, nivel, u, x, y)
BY EsNR DEF NivelDe, ND, Registrada, RG

LEMMA PrimeroUnico ==
  ASSUME NEW T \in SUBSET Nat, NEW k \in T, \A m \in T : k <= m
  PROVE  (CHOOSE n \in T : \A m \in T : n <= m) = k
<1>1. \A n \in T : (\A m \in T : n <= m) => n = k
  BY SMT
<1>2. QED
  BY <1>1

LEMMA NRSin ==
  ASSUME NEW re, NEW nv, NEW u, NEW x,
         \A n \in Largo : ~Tiene(nv, Ancestros(re, x), u, n)
  PROVE  NR(re, nv, u, x) = 0
BY DEF NR

LEMMA NRCon ==
  ASSUME NEW re, NEW nv, NEW u, NEW x, NEW k \in Largo,
         Tiene(nv, Ancestros(re, x), u, k),
         \A m \in Largo : m < k => ~Tiene(nv, Ancestros(re, x), u, m)
  PROVE  NR(re, nv, u, x) = nv[<<u, Ancestros(re, x)[k]>>]
<1> DEFINE con == {n \in Largo : Tiene(nv, Ancestros(re, x), u, n)}
<1>1. con \in SUBSET Nat /\ k \in con
  BY AltoNat
<1>2. \A m \in con : k <= m
  BY AltoNat
<1> HIDE DEF con
<1>3. (CHOOSE n \in con : \A m \in con : n <= m) = k
  BY <1>1, <1>2, PrimeroUnico
<1>4. QED
  BY <1>1, <1>3 DEF NR, con

(* There is a first one that has a level, or there is none.                *)
LEMMA NRCasos ==
  ASSUME NEW re, NEW nv, NEW u, NEW x
  PROVE  \/ \A n \in Largo : ~Tiene(nv, Ancestros(re, x), u, n)
         \/ \E k \in Largo : /\ Tiene(nv, Ancestros(re, x), u, k)
                             /\ \A m \in Largo : m < k => ~Tiene(nv, Ancestros(re, x), u, m)
<1> DEFINE con == {n \in Largo : Tiene(nv, Ancestros(re, x), u, n)}
<1>1. SUFFICES ASSUME con # {}
      PROVE  \E k \in Largo : /\ Tiene(nv, Ancestros(re, x), u, k)
                              /\ \A m \in Largo : m < k => ~Tiene(nv, Ancestros(re, x), u, m)
  OBVIOUS
<1>2. con \in SUBSET Nat
  BY AltoNat
<1> HIDE DEF con
<1>3. PICK k \in con : \A m \in con : k <= m
  BY <1>1, <1>2, Minimo
<1>4. k \in Largo /\ Tiene(nv, Ancestros(re, x), u, k)
  BY <1>3 DEF con
<1>5. ASSUME NEW m \in Largo, m < k PROVE ~Tiene(nv, Ancestros(re, x), u, m)
  <2>1. m \notin con
    BY <1>2, <1>3, <1>4, <1>5, AltoNat
  <2>2. QED
    BY <2>1 DEF con
<1>6. QED
  BY <1>4, <1>5

(* Going up the registry does not leave the project: the level is 0 or one *)
(* of the user's in that project.                                          *)
LEMMA NREnProyecto ==
  ASSUME NEW re \in [Carpetas -> Recursos \union {"sin"}], MismoProyecto(re),
         NEW nv, NEW u, NEW x \in Recursos
  PROVE  \/ NR(re, nv, u, x) = 0
         \/ \E z \in Recursos : ProyectoDe(z) = ProyectoDe(x) /\ NR(re, nv, u, x) = nv[<<u, z>>]
<1> DEFINE a == Ancestros(re, x)
           S == {z \in Recursos : ProyectoDe(z) = ProyectoDe(x)} \union {NoHay, "sin"}
<1>1. \A n \in Largo : a[n] \in S
  <2>1. x \in S /\ NoHay \in S
    OBVIOUS
  <2>2. \A c \in Carpetas \intersect S : re[c] \in S
    <3>1. TAKE c \in Carpetas \intersect S
    <3>2. c # NoHay /\ c # "sin"
      BY ConstantesNivel
    <3>3. ProyectoDe(c) = ProyectoDe(x)
      BY <3>2
    <3>4. re[c] \in Recursos \union {"sin"}
      OBVIOUS
    <3>5. CASE re[c] \in Recursos
      <4>1. ProyectoDe(re[c]) = ProyectoDe(c)
        BY <3>5 DEF MismoProyecto
      <4>2. QED
        BY <3>3, <3>5, <4>1
    <3>6. QED
      BY <3>4, <3>5
  <2> HIDE DEF S
  <2>3. QED
    BY <2>1, <2>2, CadenaEn
<1>2. CASE \A n \in Largo : ~Tiene(nv, a, u, n)
  BY <1>2, NRSin
<1>3. CASE \E k \in Largo : Tiene(nv, a, u, k) /\ \A m \in Largo : m < k => ~Tiene(nv, a, u, m)
  <2>1. PICK k \in Largo : Tiene(nv, a, u, k) /\ \A m \in Largo : m < k => ~Tiene(nv, a, u, m)
    BY <1>3
  <2>2. NR(re, nv, u, x) = nv[<<u, a[k]>>]
    BY <2>1, NRCon
  <2>3. a[k] \in Recursos /\ ProyectoDe(a[k]) = ProyectoDe(x)
    BY <1>1, <2>1, ProyectoBien DEF Tiene
  <2>4. QED
    BY <2>2, <2>3
<1>4. QED
  BY <1>2, <1>3, NRCasos

(* The three ends of the way up.                                           *)
LEMMA NDHallada ==
  ASSUME NEW pa, NEW re, NEW nv, NEW u, NEW x, NEW y, NEW k \in Largo,
         RG(re, Ancestros(pa, x)[k]), k <= MaxSaltos,
         \A m \in Largo : m < k => ~RG(re, Ancestros(pa, x)[m])
  PROVE  ND(pa, re, nv, u, x, y) =
           IF ProyectoDe(Ancestros(pa, x)[k]) = y THEN NR(re, nv, u, Ancestros(pa, x)[k]) ELSE 0
<1> DEFINE r == {n \in Largo : RG(re, Ancestros(pa, x)[n])}
<1>1. r \in SUBSET Nat /\ k \in r
  BY AltoNat
<1>2. \A m \in r : k <= m
  BY AltoNat
<1> HIDE DEF r
<1>3. (CHOOSE m \in r : \A j \in r : m <= j) = k
  BY <1>1, <1>2, PrimeroUnico
<1>4. QED
  BY <1>1, <1>3 DEF ND, r

LEMMA NDSinHallar ==
  ASSUME NEW pa, NEW re, NEW nv, NEW u, NEW x, NEW y,
         \A m \in Largo : m <= MaxSaltos => ~RG(re, Ancestros(pa, x)[m])
  PROVE  ND(pa, re, nv, u, x, y) =
           IF MaxSaltos + 1 \in Largo /\ Ancestros(pa, x)[MaxSaltos + 1] # NoHay THEN 0
           ELSE NR(re, nv, u, y)
<1> DEFINE r == {n \in Largo : RG(re, Ancestros(pa, x)[n])}
<1>1. CASE r = {}
  BY <1>1 DEF ND
<1>2. CASE r # {}
  <2>1. r \in SUBSET Nat
    BY AltoNat
  <2>2. \A m \in r : ~(m <= MaxSaltos)
    OBVIOUS
  <2> HIDE DEF r
  <2>3. PICK k \in r : \A m \in r : k <= m
    BY <1>2, <2>1, Minimo
  <2>4. (CHOOSE m \in r : \A j \in r : m <= j) = k
    BY <2>1, <2>3, PrimeroUnico
  <2>5. QED
    BY <2>2, <2>3, <2>4 DEF ND, r
<1>3. QED
  BY <1>1, <1>2
-----------------------------------------------------------------------------
(* What is read of a state that does not change.                           *)
LEMMA Leido ==
  ASSUME UNCHANGED <<padre, reg, nivel>>
  PROVE  /\ \A x : Registrada(x)' = Registrada(x)
         /\ \A u, x : NivelRegistrado(u, x)' = NivelRegistrado(u, x)
         /\ \A u, x, y : NivelDe(u, x, y)' = NivelDe(u, x, y)
<1>1. \A x : Registrada(x)' = Registrada(x)
  BY DEF Registrada
<1>2. \A u, x : NivelRegistrado(u, x)' = NivelRegistrado(u, x)
  BY DEF NivelRegistrado
<1>3. ASSUME NEW u, NEW x, NEW y PROVE NivelDe(u, x, y)' = NivelDe(u, x, y)
  BY SMT DEF NivelDe, NivelRegistrado, Registrada
<1>4. QED
  BY <1>1, <1>2, <1>3

LEMMA BienIgual ==
  ASSUME NEW s, UNCHANGED <<padre, reg, nivel>>, Bien(s)
  PROVE  Bien(s)'
<1>1. FormaOp(s)' /\ FormaFase(s)'
  BY DEF Bien, FormaOp, FormaFase
<1>2. Acotada(s)'
  BY DEF Bien, Acotada
<1>3. s.quieto => EnCamino(s)'
  BY Leido DEF Bien, Fiel, EnCamino, Objeto
<1>4. \A x, y : NivelConRoles(s, x, y)' = NivelConRoles(s, x, y)
  BY Leido DEF NivelConRoles
<1>5. s.quieto => Comprobada(s)'
  BY <1>4, Leido DEF Bien, Fiel, Comprobada, Objeto
<1>6. s.quieto => Contestada(s)'
  BY <1>4 DEF Bien, Fiel, Contestada
<1>7. QED
  BY <1>1, <1>2, <1>3, <1>5, <1>6 DEF Bien, Fiel

(* A step of one request over a state that does not change.                *)
LEMMA UnaPeticion ==
  ASSUME Invariante, NEW p \in Peticiones, NEW s \in Peticion, Bien(s),
         pet' = [pet EXCEPT ![p] = s], UNCHANGED <<padre, reg, nivel, cambios>>
  PROVE  Invariante'
<1>1. TypeOK'
  BY DEF Invariante, TypeOK
<1>2. Arboles'
  BY Leido DEF Invariante, Arboles
<1>3. ASSUME NEW q \in Peticiones PROVE Bien(pet[q])'
  <2>1. PICK t : t = pet'[q]
    OBVIOUS
  <2>2. Bien(t)
    BY <2>1 DEF Invariante, TypeOK
  <2>3. Bien(t)'
    BY <2>2, BienIgual
  <2>4. QED
    BY <2>1, <2>3
<1>4. QED
  BY <1>1, <1>2, <1>3 DEF Invariante

(* The levels are up to 6.                                                 *)
LEMMA NivelesHasta6 ==
  ASSUME TypeOK
  PROVE  nivel \in [Usuarios \X Recursos -> 0 .. 6]
<1>1. {0} \union Niveles \subseteq 0 .. 6
  BY ConstantesNivel
<1>2. \A e \in Usuarios \X Recursos : nivel[e] \in 0 .. 6
  BY <1>1 DEF TypeOK
<1>3. nivel = [e \in Usuarios \X Recursos |-> nivel[e]]
  BY DEF TypeOK
<1>4. QED
  BY <1>2, <1>3

(* What a request may find in the registry.                                *)
LEMMA RegistradoBien ==
  ASSUME Invariante, NEW u \in Usuarios, NEW x \in Recursos
  PROVE  /\ NivelRegistrado(u, x) \in 0 .. 6
         /\ NivelRegistrado(u, x) <= Tope(nivel, u, ProyectoDe(x))
<1>1. reg \in [Carpetas -> Recursos \union {"sin"}] /\ MismoProyecto(reg)
  BY DEF Invariante, TypeOK, Arboles, RegistroValido
<1>2. nivel \in [Usuarios \X Recursos -> 0 .. 6]
  BY NivelesHasta6 DEF Invariante
<1>3. ProyectoDe(x) \in Proyectos
  BY ProyectoBien
<1>4. /\ Tope(nivel, u, ProyectoDe(x)) \in 0 .. 6
      /\ \A z \in Recursos :
           ProyectoDe(z) = ProyectoDe(x) => nivel[<<u, z>>] <= Tope(nivel, u, ProyectoDe(x))
  BY <1>2, <1>3, TopeBien
<1>5. \/ NR(reg, nivel, u, x) = 0
      \/ \E z \in Recursos : ProyectoDe(z) = ProyectoDe(x) /\ NR(reg, nivel, u, x) = nivel[<<u, z>>]
  BY <1>1, NREnProyecto
<1>6. \A z \in Recursos : nivel[<<u, z>>] \in 0 .. 6
  BY <1>2
<1> DEFINE v == NR(reg, nivel, u, x)
           t == Tope(nivel, u, ProyectoDe(x))
<1> HIDE DEF v, t
<1>7. ASSUME v = 0 PROVE v \in 0 .. 6 /\ v <= t
  BY <1>4, <1>7 DEF t
<1>8. ASSUME NEW z \in Recursos, ProyectoDe(z) = ProyectoDe(x), v = nivel[<<u, z>>]
      PROVE  v \in 0 .. 6 /\ v <= t
  BY <1>4, <1>6, <1>8 DEF t
<1>9. v \in 0 .. 6 /\ v <= t
  BY <1>4, <1>5, <1>7, <1>8 DEF v, t
<1>10. QED
  BY <1>9, EsNR DEF v, t

(* forFolder begins: with full access it has decided; else it looks at the *)
(* folder itself, or at the project.                                       *)
LEMMA DesdeBien ==
  ASSUME Invariante, NEW r \in Peticion, NEW x \in Recursos, x = Objeto(r), FormaOp(r),
         r.nivel = 0, ~r.gestiona, r.paso = 0,
         "acceso_total" \in r.roles => r.op = "consultar",
         r.op # "consultar" => Registrada(x) /\ r.proy = ProyectoDe(x),
         x \in Proyectos => r.proy = x
  PROVE  Desde(r, x) \in Peticion /\ Bien(Desde(r, x))
<1> DEFINE t == Tope(nivel, r.quien, r.proy)
<1>1. t \in 0 .. 6
  BY NivelesHasta6, TopeBien DEF Invariante, Peticion
<1> HIDE DEF t
<1>2. CASE "acceso_total" \in r.roles
  <2> DEFINE s == [r EXCEPT !.fase = "decidir", !.nivel = 7]
  <2>1. s \in Peticion
    <3>1. "decidir" \in Fases /\ 7 \in 0 .. 7
      BY DEF Fases
    <3>2. QED
      BY <3>1, Zenon DEF Peticion
  <2>2. /\ s.fase = "decidir" /\ s.nivel = 7
        /\ s.op = r.op /\ s.sobre = r.sobre /\ s.dato = r.dato /\ s.roles = r.roles
        /\ s.gestiona = r.gestiona
    BY DEF Peticion
  <2>3. Desde(r, x) = s
    BY <1>2 DEF Desde
  <2> HIDE DEF s
  <2>4. FormaOp(s) /\ FormaFase(s)
    BY <1>2, <2>2 DEF FormaOp, FormaFase
  <2>5. Acotada(s)
    BY <1>2, <2>2 DEF Acotada, Buscando
  <2>6. Fiel(s)
    BY <1>2, <2>2 DEF Fiel, EnCamino, Comprobada, Contestada
  <2>7. QED
    BY <2>1, <2>3, <2>4, <2>5, <2>6 DEF Bien
<1>3. CASE "acceso_total" \notin r.roles
  <2> DEFINE f == IF x \in Carpetas THEN "cadena" ELSE "proyecto"
             s == [r EXCEPT !.fase = f, !.sube = x, !.tope = t]
  <2>1. s \in Peticion
    <3>1. f \in Fases /\ x \in Recursos \union {NoHay}
      BY DEF Fases
    <3> HIDE DEF f
    <3>2. QED
      BY <1>1, <3>1, Zenon DEF Peticion
  <2>2. /\ s.fase = f /\ s.sube = x /\ s.tope = t
        /\ s.op = r.op /\ s.sobre = r.sobre /\ s.dato = r.dato /\ s.roles = r.roles
        /\ s.gestiona = r.gestiona /\ s.nivel = 0 /\ s.paso = 0
        /\ s.quien = r.quien /\ s.proy = r.proy
    BY DEF Peticion
  <2>3. Desde(r, x) = s
    BY <1>3 DEF Desde, t
  <2> HIDE DEF s
  <2>4. Objeto(s) = x
    BY <2>2 DEF Objeto
  <2>5. FormaOp(s) /\ FormaFase(s)
    BY <1>3, <2>2 DEF FormaOp, FormaFase
  <2>6. Acotada(s)
    BY <1>1, <1>3, <2>2 DEF Acotada, Buscando, t
  <2>7. EnCamino(s)
    <3>1. CASE x \in Carpetas
      <4>1. /\ 0 \in Largo
            /\ \A k \in Largo : ~(k < 0)
            /\ Ancestros(padre, x)[0] = x
        BY AltoNat, AncestrosPaso
      <4>2. QED
        BY <2>2, <2>4, <3>1, <4>1 DEF EnCamino
    <3>2. CASE x \notin Carpetas
      <4>1. x \in Proyectos /\ ProyectoDe(x) = x /\ r.proy = x
        BY <3>2, ProyectoBien DEF Recursos
      <4>2. Ancestros(padre, x)[0] = x /\ 0 \in Largo
        BY AncestrosPaso
      <4>3. RG(reg, x) /\ 0 <= MaxSaltos /\ \A m \in Largo : ~(m < 0)
        BY <4>1, ConstantesNivel, AltoNat DEF RG
      <4>4. ND(padre, reg, nivel, r.quien, x, x) = NR(reg, nivel, r.quien, x)
        BY <4>1, <4>2, <4>3, NDHallada
      <4>5. QED
        BY <2>2, <2>4, <3>2, <4>1, <4>4, EsND, EsNR DEF EnCamino
    <3>3. QED
      BY <3>1, <3>2
  <2>8. Comprobada(s) /\ Contestada(s)
    BY <2>2, <2>4 DEF Comprobada, Contestada, Buscando
  <2>9. QED
    BY <2>1, <2>3, <2>5, <2>6, <2>7, <2>8 DEF Bien, Fiel
<1>4. QED
  BY <1>2, <1>3
-----------------------------------------------------------------------------
(* The steps of a request over a state that does not change.               *)

LEMMA Pedida ==
  ASSUME Invariante, NEW p \in Peticiones
  PROVE  pet[p] \in Peticion /\ Bien(pet[p])
BY DEF Invariante, TypeOK

(* What was asked for comes out at its end with no level.                  *)
LEMMA FinBien ==
  ASSUME NEW r \in Peticion, FormaOp(r), r.nivel = 0, ~r.gestiona, NEW b \in BOOLEAN,
         r.op # "consultar" \/ ~b
  PROVE  LET s == [r EXCEPT !.fase = "fin", !.quieto = b] IN s \in Peticion /\ Bien(s)
<1> DEFINE s == [r EXCEPT !.fase = "fin", !.quieto = b]
<1>1. s \in Peticion
  <2>1. "fin" \in Fases
    BY DEF Fases
  <2>2. QED
    BY <2>1, Zenon DEF Peticion
<1>2. /\ s.fase = "fin" /\ s.op = r.op /\ s.roles = r.roles /\ s.quieto = b
      /\ s.sobre = r.sobre /\ s.dato = r.dato
      /\ s.nivel = 0 /\ ~s.gestiona /\ s.tope \in 0 .. 6
  BY DEF Peticion
<1> HIDE DEF s
<1>3. Bien(s)
  BY <1>2 DEF Bien, FormaOp, FormaFase, Acotada, Buscando, Fiel, EnCamino, Comprobada, Contestada
<1>4. QED
  BY <1>1, <1>3 DEF s

LEMMA PasoUbicar ==
  ASSUME Invariante, NEW p \in Peticiones, Ubicar(p)
  PROVE  Invariante'
<1>1. PICK r \in Peticion : r = pet[p]
  BY Pedida
<1>2. Bien(r) /\ r.fase = "ubicar"
  BY <1>1, Pedida DEF Ubicar
<1>3. /\ r.op = "consultar" /\ r.sobre \in Carpetas /\ r.paso = 0
      /\ r.nivel = 0 /\ ~r.gestiona /\ FormaOp(r) /\ "acceso_total" \notin r.roles
  BY <1>2 DEF Bien, FormaFase, Acotada
<1>4. CASE pet' = [pet EXCEPT ![p] = Desde(r, r.sobre)]
  <2>1. r.sobre \in Recursos /\ r.sobre = Objeto(r) /\ r.sobre \notin Proyectos
    BY <1>3, ProyectoBien DEF Objeto, Recursos
  <2>2. Desde(r, r.sobre) \in Peticion /\ Bien(Desde(r, r.sobre))
    BY <1>3, <2>1, DesdeBien
  <2>3. PICK s \in Peticion : s = Desde(r, r.sobre)
    BY <2>2
  <2>4. QED
    BY <1>4, <2>2, <2>3, UnaPeticion DEF Ubicar
<1>5. CASE pet' = [pet EXCEPT ![p].fase = "fin", ![p].quieto = FALSE]
  <2> DEFINE s == [r EXCEPT !.fase = "fin", !.quieto = FALSE]
  <2>1. s \in Peticion /\ Bien(s)
    BY <1>3, FinBien
  <2>2. pet' = [pet EXCEPT ![p] = s]
    BY <1>1, <1>5 DEF Invariante, TypeOK
  <2> HIDE DEF s
  <2>3. QED
    BY <2>1, <2>2, UnaPeticion DEF Ubicar
<1>6. QED
  BY <1>1, <1>4, <1>5 DEF Ubicar

LEMMA PasoVerActual ==
  ASSUME Invariante, NEW p \in Peticiones, VerActual(p)
  PROVE  Invariante'
<1>1. PICK r \in Peticion : r = pet[p]
  BY Pedida
<1>2. Bien(r) /\ r.fase = "actual"
  BY <1>1, Pedida DEF VerActual
<1>3. /\ r.op = "registrar" /\ r.sobre \in Carpetas /\ r.paso = 0
      /\ r.nivel = 0 /\ ~r.gestiona /\ FormaOp(r) /\ "acceso_total" \notin r.roles
  BY <1>2 DEF Bien, FormaFase, FormaOp, Acotada
<1> DEFINE f == IF reg[r.sobre] = r.dato THEN "aplicar" ELSE "recurso"
<1>4. PICK g \in {"aplicar", "recurso"} : g = f
  OBVIOUS
<1> DEFINE s == [r EXCEPT !.fase = g]
<1>5. s \in Peticion
  <2>1. g \in Fases
    BY DEF Fases
  <2>2. QED
    BY <2>1, Zenon DEF Peticion
<1>6. /\ s.fase = g /\ s.op = "registrar" /\ s.roles = r.roles
      /\ s.sobre = r.sobre /\ s.dato = r.dato /\ s.paso = 0
      /\ s.nivel = 0 /\ ~s.gestiona /\ s.tope \in 0 .. 6
  BY <1>3 DEF Peticion
<1>7. pet' = [pet EXCEPT ![p] = s]
  BY <1>1, <1>4 DEF VerActual
<1> HIDE DEF s
<1>8. FormaOp(s) /\ FormaFase(s)
  BY <1>3, <1>6 DEF FormaOp, FormaFase
<1>9. Acotada(s)
  BY <1>6 DEF Acotada, Buscando
<1>10. Fiel(s)
  BY <1>4, <1>6 DEF Fiel, EnCamino, Comprobada, Contestada, Buscando
<1>11. QED
  BY <1>5, <1>7, <1>8, <1>9, <1>10, UnaPeticion DEF VerActual, Bien

LEMMA PasoVerRecurso ==
  ASSUME Invariante, NEW p \in Peticiones, VerRecurso(p)
  PROVE  Invariante'
<1>1. PICK r \in Peticion : r = pet[p]
  BY Pedida
<1>2. Bien(r) /\ r.fase = "recurso"
  BY <1>1, Pedida DEF VerRecurso
<1>3. /\ r.op # "consultar" /\ r.paso = 0
      /\ r.nivel = 0 /\ ~r.gestiona /\ FormaOp(r) /\ "acceso_total" \notin r.roles
  BY <1>2 DEF Bien, FormaFase, Acotada
<1>4. PICK x \in Recursos : x = Objeto(r)
  BY <1>3 DEF Objeto, FormaOp, Peticion
<1>5. CASE Registrada(x)
  <2> DEFINE t == [r EXCEPT !.proy = ProyectoDe(x)]
  <2>1. ProyectoDe(x) \in Proyectos /\ (x \in Proyectos => ProyectoDe(x) = x)
    BY ProyectoBien
  <2>2. t \in Peticion
    BY <2>1, Zenon DEF Peticion
  <2>3. /\ t.proy = ProyectoDe(x) /\ t.op = r.op /\ t.roles = r.roles /\ t.nivel = 0
        /\ ~t.gestiona /\ t.paso = 0 /\ t.sobre = r.sobre /\ t.dato = r.dato
    BY <1>3 DEF Peticion
  <2>4. pet' = [pet EXCEPT ![p] = Desde(t, x)]
    BY <1>1, <1>4, <1>5 DEF VerRecurso
  <2> HIDE DEF t
  <2>5. x = Objeto(t) /\ FormaOp(t)
    BY <1>3, <1>4, <2>3 DEF Objeto, FormaOp
  <2>6. Desde(t, x) \in Peticion /\ Bien(Desde(t, x))
    BY <1>3, <1>5, <2>1, <2>2, <2>3, <2>5, DesdeBien
  <2>7. PICK s \in Peticion : s = Desde(t, x)
    BY <2>6
  <2>8. QED
    BY <2>4, <2>6, <2>7, UnaPeticion DEF VerRecurso
<1>6. CASE ~Registrada(x)
  <2>1. PICK b \in BOOLEAN : b = r.quieto
    BY DEF Peticion
  <2> DEFINE s == [r EXCEPT !.fase = "fin", !.quieto = b]
  <2>2. s \in Peticion /\ Bien(s)
    BY <1>3, FinBien
  <2>3. [r EXCEPT !.fase = "fin"] = s
    BY <2>1 DEF Peticion
  <2>4. pet' = [pet EXCEPT ![p] = s]
    BY <1>1, <1>4, <1>6, <2>3 DEF VerRecurso
  <2> HIDE DEF s
  <2>5. QED
    BY <2>2, <2>4, UnaPeticion DEF VerRecurso
<1>7. QED
  BY <1>5, <1>6
LEMMA PasoCadena ==
  ASSUME Invariante, NEW p \in Peticiones, Cadena(p)
  PROVE  Invariante'
<1>1. PICK r \in Peticion : r = pet[p]
  BY Pedida
<1>2. Bien(r) /\ r.fase = "cadena"
  BY <1>1, Pedida DEF Cadena
<1>3. /\ r.sube \in Carpetas /\ r.nivel = 0 /\ ~r.gestiona /\ "acceso_total" \notin r.roles
      /\ Tope(nivel, r.quien, r.proy) <= r.tope
  BY <1>2 DEF Bien, FormaFase, Acotada, Buscando
<1>4. CASE Registrada(r.sube)
  <2> DEFINE v == IF ProyectoDe(r.sube) # r.proy THEN 0 ELSE NivelRegistrado(r.quien, r.sube)
  <2>1. v \in 0 .. 6 /\ v <= r.tope
    <3>1. r.quien \in Usuarios /\ r.tope \in 0 .. 6 /\ r.sube \in Recursos
      BY <1>3 DEF Peticion, Recursos
    <3>2. /\ NivelRegistrado(r.quien, r.sube) \in 0 .. 6
          /\ NivelRegistrado(r.quien, r.sube) <= Tope(nivel, r.quien, ProyectoDe(r.sube))
      BY <3>1, RegistradoBien
    <3>3. Tope(nivel, r.quien, r.proy) \in 0 .. 6
      BY NivelesHasta6, TopeBien DEF Invariante, Peticion
    <3>4. QED
      BY <1>3, <3>1, <3>2, <3>3
  <2>2. PICK n \in 0 .. 6 : n = v
    BY <2>1
  <2> DEFINE s == [r EXCEPT !.fase = "decidir", !.nivel = n]
  <2>3. s \in Peticion
    <3>1. "decidir" \in Fases /\ n \in 0 .. 7
      BY DEF Fases
    <3>2. QED
      BY <3>1, Zenon DEF Peticion
  <2>4. /\ s.fase = "decidir" /\ s.nivel = n /\ s.tope = r.tope
        /\ s.op = r.op /\ s.sobre = r.sobre /\ s.dato = r.dato /\ s.roles = r.roles
        /\ ~s.gestiona /\ s.quien = r.quien /\ s.proy = r.proy /\ s.quieto = r.quieto
    BY <1>3 DEF Peticion
  <2>5. pet' = [pet EXCEPT ![p] = s]
    BY <1>1, <1>4, <2>2 DEF Cadena, Hallar
  <2> HIDE DEF s
  <2>6. FormaOp(s) /\ FormaFase(s)
    BY <1>2, <1>3, <2>4 DEF Bien, FormaOp, FormaFase
  <2>7. Acotada(s)
    <3>1. n \in 0 .. 6 /\ r.tope \in 0 .. 6 /\ n <= r.tope /\ ~(n > r.tope)
      BY <2>1, <2>2 DEF Peticion
    <3>2. QED
      BY <1>3, <2>4, <3>1 DEF Acotada, Buscando
  <2>8. ASSUME r.quieto PROVE EnCamino(s)
    <3>1. /\ r.paso \in Largo /\ r.paso <= MaxSaltos
          /\ r.sube = Ancestros(padre, Objeto(r))[r.paso]
          /\ \A k \in Largo : k < r.paso => ~Registrada(Ancestros(padre, Objeto(r))[k])
      BY <1>2, <2>8, ConstantesNivel DEF Bien, Fiel, EnCamino, Peticion
    <3>2. \A x : Registrada(x) <=> RG(reg, x)
      BY DEF Registrada, RG
    <3>3. ND(padre, reg, nivel, r.quien, Objeto(r), r.proy) =
            IF ProyectoDe(r.sube) = r.proy THEN NR(reg, nivel, r.quien, r.sube) ELSE 0
      BY <1>4, <3>1, <3>2, NDHallada
    <3>4. n = NivelDe(r.quien, Objeto(r), r.proy)
      BY <2>2, <3>3, EsND, EsNR
    <3>5. QED
      BY <1>3, <2>4, <3>4 DEF EnCamino, Objeto
  <2>9. ASSUME r.quieto PROVE Comprobada(s) /\ Contestada(s)
    BY <1>2, <2>4, <2>9 DEF Bien, Fiel, Comprobada, Contestada, Buscando, Objeto
  <2>10. QED
    BY <2>3, <2>4, <2>5, <2>6, <2>7, <2>8, <2>9, UnaPeticion DEF Cadena, Bien, Fiel
<1>5. CASE ~Registrada(r.sube)
  <2> DEFINE s == [r EXCEPT !.fase = "subir"]
  <2>1. s \in Peticion
    <3>1. "subir" \in Fases
      BY DEF Fases
    <3>2. QED
      BY <3>1, Zenon DEF Peticion
  <2>2. /\ s.fase = "subir" /\ s.nivel = 0 /\ s.tope = r.tope /\ s.sube = r.sube
        /\ s.op = r.op /\ s.sobre = r.sobre /\ s.dato = r.dato /\ s.roles = r.roles
        /\ ~s.gestiona /\ s.quien = r.quien /\ s.proy = r.proy /\ s.quieto = r.quieto
        /\ s.paso = r.paso /\ s.tope \in 0 .. 6
    BY <1>3 DEF Peticion
  <2>3. pet' = [pet EXCEPT ![p] = s]
    BY <1>1, <1>5 DEF Cadena
  <2> HIDE DEF s
  <2>4. FormaOp(s) /\ FormaFase(s)
    BY <1>2, <1>3, <2>2 DEF Bien, FormaOp, FormaFase
  <2>5. Acotada(s)
    BY <1>3, <2>2 DEF Acotada, Buscando
  <2>6. Objeto(s) = Objeto(r)
    BY <2>2 DEF Objeto
  <2>7. ASSUME r.quieto PROVE EnCamino(s) /\ Comprobada(s) /\ Contestada(s)
    BY <1>2, <1>5, <2>2, <2>6, <2>7
       DEF Bien, Fiel, EnCamino, Comprobada, Contestada, Buscando
  <2>8. QED
    BY <2>1, <2>2, <2>3, <2>4, <2>5, <2>7, UnaPeticion DEF Cadena, Bien, Fiel
<1>6. QED
  BY <1>4, <1>5

(* The folder above is looked at, or there are no more, or too many.       *)
LEMMA TrasSubirBien ==
  ASSUME Invariante, NEW r \in Peticion, Bien(r), r.fase = "subir"
  PROVE  TrasSubir(r, padre[r.sube]) \in Peticion /\ Bien(TrasSubir(r, padre[r.sube]))
<1>1. /\ r.sube \in Carpetas /\ r.nivel = 0 /\ ~r.gestiona /\ "acceso_total" \notin r.roles
      /\ Tope(nivel, r.quien, r.proy) <= r.tope /\ FormaOp(r) /\ r.tope \in 0 .. 6
  BY DEF Bien, FormaFase, Acotada, Buscando, Peticion
<1>2. PICK arriba \in Sube : arriba = padre[r.sube]
  <2>1. padre[r.sube] \in Sube
    BY <1>1 DEF Invariante, TypeOK
  <2>2. QED
    BY <2>1
<1> DEFINE a == Ancestros(padre, Objeto(r))
<1>3. ASSUME r.quieto
      PROVE  /\ Objeto(r) \in Carpetas /\ r.paso \in Largo /\ r.sube = a[r.paso]
             /\ \A k \in Largo : k <= r.paso => ~RG(reg, a[k])
             /\ r.paso + 1 \in Largo /\ a[r.paso + 1] = arriba
  <2>1. /\ Objeto(r) \in Carpetas /\ r.paso \in Largo /\ r.sube = a[r.paso]
        /\ \A k \in Largo : k < r.paso => ~RG(reg, a[k])
        /\ ~RG(reg, r.sube)
    BY <1>3 DEF Bien, Fiel, EnCamino, Registrada, RG
  <2>2. a[Alto] \notin Carpetas
    BY <2>1 DEF Invariante, Arboles, Arbol, Llega, Alto
  <2>3. r.paso \in 0 .. Alto /\ r.paso # Alto
    BY <1>1, <2>1, <2>2, AltoNat
  <2>4. r.paso + 1 \in Largo
    BY <2>3, AltoNat
  <2>5. a[r.paso + 1] = arriba
    BY <1>1, <1>2, <2>1, <2>4, AncestrosPaso
  <2>6. ASSUME NEW k \in Largo, k <= r.paso PROVE ~RG(reg, a[k])
    <3>1. k < r.paso \/ k = r.paso
      BY <2>3, <2>6, AltoNat
    <3>2. QED
      BY <2>1, <3>1
  <2> HIDE DEF a
  <2>7. QED
    BY <2>1, <2>4, <2>5, <2>6
<1>4. r.quieto => Comprobada(r)
  BY DEF Bien, Fiel
<1>5. CASE arriba = NoHay
  <2> DEFINE s == [r EXCEPT !.fase = "proyecto", !.sube = r.proy]
  <2>1. s \in Peticion
    <3>1. "proyecto" \in Fases /\ r.proy \in Recursos \union {NoHay}
      BY ProyectoBien DEF Fases, Peticion
    <3>2. QED
      BY <3>1, Zenon DEF Peticion
  <2>2. /\ s.fase = "proyecto" /\ s.nivel = 0 /\ s.tope = r.tope /\ s.quieto = r.quieto
        /\ s.op = r.op /\ s.sobre = r.sobre /\ s.dato = r.dato /\ s.roles = r.roles
        /\ ~s.gestiona /\ s.quien = r.quien /\ s.proy = r.proy
    BY <1>1 DEF Peticion
  <2>3. TrasSubir(r, padre[r.sube]) = s
    BY <1>2, <1>5 DEF TrasSubir
  <2> HIDE DEF s
  <2>4. FormaOp(s) /\ FormaFase(s) /\ Acotada(s) /\ Objeto(s) = Objeto(r)
    BY <1>1, <2>2 DEF FormaOp, FormaFase, Acotada, Buscando, Objeto
  <2>5. ASSUME r.quieto PROVE EnCamino(s)
    <3>1. \A m \in Largo : m > r.paso + 1 => a[m] = NoHay
      <4>1. NoHay \notin Carpetas
        BY ConstantesNivel
      <4>2. QED
        BY <1>3, <1>5, <2>5, <4>1, CadenaAcaba
    <3>2. \A m \in Largo : m > r.paso => a[m] = NoHay
      <4>1. TAKE m \in Largo
      <4>2. m \in Nat /\ r.paso \in Nat
        BY AltoNat, ConstantesNivel DEF Peticion
      <4>3. m > r.paso => m = r.paso + 1 \/ m > r.paso + 1
        BY <4>2
      <4> HIDE DEF a
      <4>4. QED
        BY <1>3, <1>5, <2>5, <3>1, <4>3
    <3>3. ~RG(reg, NoHay)
      BY ProyectoBien, ConstantesNivel DEF RG, Recursos
    <3>4. \A m \in Largo : m <= MaxSaltos => ~RG(reg, a[m])
      <4>1. TAKE m \in Largo
      <4>2. m <= r.paso \/ m > r.paso
        BY AltoNat, ConstantesNivel DEF Peticion
      <4> HIDE DEF a
      <4>3. QED
        BY <1>3, <2>5, <3>2, <3>3, <4>2
    <3>5. MaxSaltos + 1 \in Largo => a[MaxSaltos + 1] = NoHay
      <4>1. MaxSaltos + 1 > r.paso
        BY ConstantesNivel DEF Peticion
      <4> HIDE DEF a
      <4>2. QED
        BY <3>2, <4>1
    <3>6. ND(padre, reg, nivel, r.quien, Objeto(r), r.proy) = NR(reg, nivel, r.quien, r.proy)
      BY <3>4, <3>5, NDSinHallar
    <3>7. QED
      BY <2>2, <2>4, <3>6, EsND, EsNR DEF EnCamino
  <2>6. ASSUME r.quieto PROVE Comprobada(s) /\ Contestada(s)
    BY <1>4, <2>2, <2>4, <2>6 DEF Comprobada, Contestada, Buscando
  <2>7. QED
    BY <2>1, <2>2, <2>3, <2>4, <2>5, <2>6 DEF Bien, Fiel
<1>6. CASE arriba # NoHay /\ r.paso < MaxSaltos
  <2> DEFINE s == [r EXCEPT !.fase = "cadena", !.sube = arriba, !.paso = r.paso + 1]
  <2>1. arriba \in Carpetas
    BY <1>6 DEF Sube
  <2>2. s \in Peticion
    <3>1. "cadena" \in Fases /\ arriba \in Recursos \union {NoHay} /\ r.paso + 1 \in 0 .. MaxSaltos
      BY <1>6, <2>1, ConstantesNivel DEF Fases, Peticion, Recursos
    <3>2. QED
      BY <3>1, Zenon DEF Peticion
  <2>3. /\ s.fase = "cadena" /\ s.nivel = 0 /\ s.tope = r.tope /\ s.quieto = r.quieto
        /\ s.op = r.op /\ s.sobre = r.sobre /\ s.dato = r.dato /\ s.roles = r.roles
        /\ ~s.gestiona /\ s.quien = r.quien /\ s.proy = r.proy
        /\ s.sube = arriba /\ s.paso = r.paso + 1
    BY <1>1 DEF Peticion
  <2>4. TrasSubir(r, padre[r.sube]) = s
    BY <1>2, <1>6 DEF TrasSubir
  <2> HIDE DEF s
  <2>5. FormaOp(s) /\ FormaFase(s) /\ Acotada(s) /\ Objeto(s) = Objeto(r)
    BY <1>1, <2>1, <2>3 DEF FormaOp, FormaFase, Acotada, Buscando, Objeto
  <2>6. ASSUME r.quieto PROVE EnCamino(s)
    <3>1. \A k \in Largo : k < r.paso + 1 => ~Registrada(a[k])
      <4>1. TAKE k \in Largo
      <4>2. k < r.paso + 1 => k <= r.paso
        BY AltoNat, ConstantesNivel DEF Peticion
      <4> HIDE DEF a
      <4>3. QED
        BY <1>3, <2>6, <4>2 DEF Registrada, RG
    <3>2. QED
      BY <1>3, <2>3, <2>5, <2>6, <3>1 DEF EnCamino
  <2>7. ASSUME r.quieto PROVE Comprobada(s) /\ Contestada(s)
    BY <1>4, <2>3, <2>5, <2>7 DEF Comprobada, Contestada, Buscando
  <2>8. QED
    BY <2>2, <2>3, <2>4, <2>5, <2>6, <2>7 DEF Bien, Fiel
<1>7. CASE arriba # NoHay /\ ~(r.paso < MaxSaltos)
  <2> DEFINE s == [r EXCEPT !.fase = "decidir", !.nivel = 0]
  <2>1. s \in Peticion
    <3>1. "decidir" \in Fases /\ 0 \in 0 .. 7
      BY DEF Fases
    <3>2. QED
      BY <3>1, Zenon DEF Peticion
  <2>2. /\ s.fase = "decidir" /\ s.nivel = 0 /\ s.tope = r.tope /\ s.quieto = r.quieto
        /\ s.op = r.op /\ s.sobre = r.sobre /\ s.dato = r.dato /\ s.roles = r.roles
        /\ ~s.gestiona /\ s.quien = r.quien /\ s.proy = r.proy
    BY <1>1 DEF Peticion
  <2>3. TrasSubir(r, padre[r.sube]) = s
    BY <1>2, <1>7 DEF TrasSubir
  <2> HIDE DEF s
  <2>4. FormaOp(s) /\ FormaFase(s) /\ Acotada(s) /\ Objeto(s) = Objeto(r)
    BY <1>1, <2>2 DEF FormaOp, FormaFase, Acotada, Buscando, Objeto
  <2>5. ASSUME r.quieto PROVE EnCamino(s)
    <3>1. r.paso = MaxSaltos
      BY <1>7, ConstantesNivel DEF Peticion
    <3>2. /\ \A m \in Largo : m <= MaxSaltos => ~RG(reg, a[m])
          /\ MaxSaltos + 1 \in Largo /\ a[MaxSaltos + 1] # NoHay
      BY <1>3, <1>7, <2>5, <3>1
    <3>3. ND(padre, reg, nivel, r.quien, Objeto(r), r.proy) = 0
      BY <3>2, NDSinHallar
    <3>4. QED
      BY <1>1, <2>2, <2>4, <3>3, EsND DEF EnCamino
  <2>6. ASSUME r.quieto PROVE Comprobada(s) /\ Contestada(s)
    BY <1>4, <2>2, <2>4, <2>6 DEF Comprobada, Contestada, Buscando
  <2>7. QED
    BY <2>1, <2>2, <2>3, <2>4, <2>5, <2>6 DEF Bien, Fiel
<1>8. QED
  BY <1>5, <1>6, <1>7
LEMMA PasoSubir ==
  ASSUME Invariante, NEW p \in Peticiones, Subir(p)
  PROVE  Invariante'
<1>1. PICK r \in Peticion : r = pet[p]
  BY Pedida
<1>2. Bien(r) /\ r.fase = "subir"
  BY <1>1, Pedida DEF Subir
<1>3. CASE pet' = [pet EXCEPT ![p] = TrasSubir(r, padre[r.sube])]
  <2>1. PICK s \in Peticion : s = TrasSubir(r, padre[r.sube])
    BY <1>2, TrasSubirBien
  <2>2. Bien(s)
    BY <1>2, <2>1, TrasSubirBien
  <2>3. QED
    BY <1>3, <2>1, <2>2, UnaPeticion DEF Subir
<1>4. CASE pet' = [pet EXCEPT ![p] = [r EXCEPT !.fase = "decidir", !.nivel = 0, !.quieto = FALSE]]
  <2> DEFINE s == [r EXCEPT !.fase = "decidir", !.nivel = 0, !.quieto = FALSE]
  <2>1. s \in Peticion
    <3>1. "decidir" \in Fases /\ 0 \in 0 .. 7 /\ FALSE \in BOOLEAN
      BY DEF Fases
    <3>2. QED
      BY <3>1, Zenon DEF Peticion
  <2>2. /\ s.fase = "decidir" /\ s.nivel = 0 /\ s.tope = r.tope /\ ~s.quieto
        /\ s.op = r.op /\ s.sobre = r.sobre /\ s.dato = r.dato /\ s.roles = r.roles
        /\ s.gestiona = r.gestiona /\ s.tope \in 0 .. 6
    BY DEF Peticion
  <2>3. pet' = [pet EXCEPT ![p] = s]
    BY <1>4
  <2> HIDE DEF s
  <2>4. ~r.gestiona /\ "acceso_total" \notin r.roles /\ FormaOp(r)
    BY <1>2 DEF Bien, FormaFase, Acotada, Buscando
  <2>5. FormaOp(s) /\ FormaFase(s) /\ Acotada(s) /\ Fiel(s)
    BY <2>2, <2>4 DEF FormaOp, FormaFase, Acotada, Buscando, Fiel
  <2>6. QED
    BY <2>1, <2>3, <2>5, UnaPeticion DEF Subir, Bien
<1>5. QED
  BY <1>1, <1>3, <1>4 DEF Subir

LEMMA PasoProyecto ==
  ASSUME Invariante, NEW p \in Peticiones, Proyecto(p)
  PROVE  Invariante'
<1>1. PICK r \in Peticion : r = pet[p]
  BY Pedida
<1>2. Bien(r) /\ r.fase = "proyecto"
  BY <1>1, Pedida DEF Proyecto
<1>3. /\ r.nivel = 0 /\ ~r.gestiona /\ "acceso_total" \notin r.roles
      /\ Tope(nivel, r.quien, r.proy) <= r.tope
  BY <1>2 DEF Bien, FormaFase, Acotada, Buscando
<1>4. NivelRegistrado(r.quien, r.proy) \in 0 .. 6 /\ NivelRegistrado(r.quien, r.proy) <= r.tope
  <2>1. r.quien \in Usuarios /\ r.tope \in 0 .. 6 /\ r.proy \in Recursos /\ ProyectoDe(r.proy) = r.proy
    BY ProyectoBien DEF Peticion
  <2>2. /\ NivelRegistrado(r.quien, r.proy) \in 0 .. 6
        /\ NivelRegistrado(r.quien, r.proy) <= Tope(nivel, r.quien, r.proy)
    BY <2>1, RegistradoBien
  <2>3. Tope(nivel, r.quien, r.proy) \in 0 .. 6
    BY NivelesHasta6, TopeBien DEF Invariante, Peticion
  <2>4. QED
    BY <1>3, <2>1, <2>2, <2>3
<1>5. PICK n \in 0 .. 6 : n = NivelRegistrado(r.quien, r.proy)
  BY <1>4
<1> DEFINE s == [r EXCEPT !.fase = "decidir", !.nivel = n]
<1>6. s \in Peticion
  <2>1. "decidir" \in Fases /\ n \in 0 .. 7
    BY DEF Fases
  <2>2. QED
    BY <2>1, Zenon DEF Peticion
<1>7. /\ s.fase = "decidir" /\ s.nivel = n /\ s.tope = r.tope
      /\ s.op = r.op /\ s.sobre = r.sobre /\ s.dato = r.dato /\ s.roles = r.roles
      /\ ~s.gestiona /\ s.quien = r.quien /\ s.proy = r.proy /\ s.quieto = r.quieto
  BY <1>3 DEF Peticion
<1>8. pet' = [pet EXCEPT ![p] = s]
  BY <1>1, <1>5 DEF Proyecto, Invariante, TypeOK
<1> HIDE DEF s
<1>9. FormaOp(s) /\ FormaFase(s) /\ Objeto(s) = Objeto(r)
  BY <1>2, <1>3, <1>7 DEF Bien, FormaOp, FormaFase, Objeto
<1>10. Acotada(s)
  <2>1. n \in 0 .. 6 /\ r.tope \in 0 .. 6 /\ n <= r.tope /\ ~(n > r.tope)
    BY <1>4, <1>5 DEF Peticion
  <2>2. QED
    BY <1>7, <2>1 DEF Acotada, Buscando
<1>11. ASSUME r.quieto PROVE EnCamino(s) /\ Comprobada(s) /\ Contestada(s)
  BY <1>2, <1>3, <1>5, <1>7, <1>9, <1>11
     DEF Bien, Fiel, EnCamino, Comprobada, Contestada, Buscando
<1>12. QED
  BY <1>6, <1>7, <1>8, <1>9, <1>10, <1>11, UnaPeticion DEF Proyecto, Bien, Fiel

(* What is decided from the level that was found and the roles.            *)
LEMMA PasoDecidir ==
  ASSUME Invariante, NEW p \in Peticiones, Decidir(p)
  PROVE  Invariante'
<1>1. PICK r \in Peticion : r = pet[p]
  BY Pedida
<1>2. Bien(r) /\ r.fase = "decidir"
  BY <1>1, Pedida DEF Decidir
<1>3. /\ ~r.gestiona /\ (r.nivel <= r.tope \/ "acceso_total" \in r.roles) /\ FormaOp(r)
      /\ "acceso_total" \in r.roles => r.op = "consultar"
      /\ r.nivel \in 0 .. 7 /\ r.tope \in 0 .. 6 /\ r.op \in Ops
  BY <1>2 DEF Bien, FormaFase, Acotada, Buscando, Peticion
<1>4. PICK n \in 0 .. 7 : n = ConRoles(r.roles, r.nivel)
  BY <1>3 DEF ConRoles
<1>5. PICK g \in BOOLEAN : g = GestionaCon(r.roles, n)
  BY DEF GestionaCon
<1>6. g <=> n >= 6 \/ "configurar" \in r.roles
  BY <1>5 DEF GestionaCon, DOCUMENT_CAPABILITY_LEVEL
<1>7. PICK f \in {"fin", "verPadre", "aplicar"} : f = Seguir(r.op, n, g)
  BY <1>3 DEF Seguir, DOCUMENT_CAPABILITY_LEVEL, Ops
<1>8. /\ f = "verPadre" => r.op = "registrar" /\ n >= 1
      /\ f = "aplicar" => r.op # "registrar" /\ r.op # "consultar" /\ g
  BY <1>3, <1>7 DEF Seguir, DOCUMENT_CAPABILITY_LEVEL, Ops
<1> DEFINE s == [r EXCEPT !.nivel = n, !.gestiona = g, !.fase = f]
<1>9. s \in Peticion
  <2>1. f \in Fases
    BY DEF Fases
  <2>2. QED
    BY <2>1, Zenon DEF Peticion
<1>10. /\ s.fase = f /\ s.nivel = n /\ s.gestiona = g /\ s.tope = r.tope
       /\ s.op = r.op /\ s.sobre = r.sobre /\ s.dato = r.dato /\ s.roles = r.roles
       /\ s.quien = r.quien /\ s.proy = r.proy /\ s.quieto = r.quieto
  BY DEF Peticion
<1>11. pet' = [pet EXCEPT ![p] = s]
  <2>1. pet' = [pet EXCEPT ![p].nivel = n, ![p].gestiona = g, ![p].fase = f]
    BY <1>1, <1>4, <1>5, <1>7 DEF Decidir
  <2>2. QED
    BY <1>1, <2>1 DEF Invariante, TypeOK
<1> HIDE DEF s
<1>12. FormaOp(s) /\ FormaFase(s) /\ Objeto(s) = Objeto(r)
  BY <1>3, <1>8, <1>10 DEF FormaOp, FormaFase, Objeto
<1>13. Acotada(s)
  <2>1. \/ n = r.nivel
        \/ n = 1 /\ r.nivel = 0 /\ "ver_todos" \in r.roles
    BY <1>4 DEF ConRoles
  <2>2. n > r.tope => "acceso_total" \in r.roles \/ ("ver_todos" \in r.roles /\ n = 1)
    BY <1>3, <2>1
  <2>3. n >= 6 => "acceso_total" \in r.roles \/ r.tope = 6
    BY <1>3, <2>1
  <2>4. QED
    BY <1>6, <1>10, <2>2, <2>3 DEF Acotada, Buscando
<1>14. ASSUME r.quieto PROVE EnCamino(s) /\ Comprobada(s) /\ Contestada(s)
  <2>1. /\ r.nivel = IF "acceso_total" \in r.roles THEN 7 ELSE NivelDe(r.quien, Objeto(r), r.proy)
        /\ r.op # "consultar" => Registrada(Objeto(r)) /\ r.proy = ProyectoDe(Objeto(r))
    BY <1>2, <1>14 DEF Bien, Fiel, EnCamino, Comprobada, Buscando
  <2>2. n = NivelConRoles(r, Objeto(r), r.proy)
    BY <1>4, <2>1 DEF NivelConRoles, ConRoles
  <2>3. \A x, y : NivelConRoles(s, x, y) = NivelConRoles(r, x, y)
    BY <1>10 DEF NivelConRoles
  <2>4. EnCamino(s)
    BY <1>10 DEF EnCamino
  <2>5. Comprobada(s)
    BY <1>6, <1>8, <1>10, <1>12, <2>1, <2>2, <2>3 DEF Comprobada, Buscando, Objeto
  <2>6. Contestada(s)
    BY <1>6, <1>10, <2>2, <2>3 DEF Contestada, Objeto
  <2>7. QED
    BY <2>4, <2>5, <2>6
<1>15. QED
  BY <1>9, <1>10, <1>11, <1>12, <1>13, <1>14, UnaPeticion DEF Decidir, Bien, Fiel

LEMMA PasoVerPadre ==
  ASSUME Invariante, NEW p \in Peticiones, VerPadre(p)
  PROVE  Invariante'
<1>1. PICK r \in Peticion : r = pet[p]
  BY Pedida
<1>2. Bien(r) /\ r.fase = "verPadre"
  BY <1>1, Pedida DEF VerPadre
<1>3. /\ r.op = "registrar" /\ FormaOp(r) /\ "acceso_total" \notin r.roles
      /\ r.sobre \in Carpetas /\ r.dato \in Recursos
  BY <1>2 DEF Bien, FormaFase, FormaOp
<1>4. PICK real \in Recursos \union {NoHay} : real = padre[r.sobre]
  <2>1. padre[r.sobre] \in Recursos \union {NoHay}
    BY <1>3 DEF Invariante, TypeOK, Sube, Recursos
  <2>2. QED
    BY <2>1
<1>5. \E f \in {"fin", "verRaiz", "aplicar"}, x \in Recursos \union {NoHay} :
        /\ pet' = [pet EXCEPT ![p] = [r EXCEPT !.fase = f, !.sube = x]]
        /\ f = "verRaiz" => r.dato \in Proyectos
        /\ f = "aplicar" => r.dato \notin Proyectos /\ r.dato = padre[r.sobre]
  <2>1. CASE pet' = [pet EXCEPT ![p].fase = PadreVale(r, real), ![p].sube = real]
    <3>1. PICK f \in {"fin", "verRaiz", "aplicar"} : f = PadreVale(r, real)
      BY DEF PadreVale
    <3>2. /\ f = "verRaiz" => r.dato \in Proyectos
          /\ f = "aplicar" => r.dato \notin Proyectos /\ r.dato = real
      BY <3>1 DEF PadreVale
    <3>3. pet' = [pet EXCEPT ![p] = [r EXCEPT !.fase = f, !.sube = real]]
      BY <1>1, <2>1, <3>1 DEF Invariante, TypeOK
    <3>4. QED
      BY <1>4, <3>2, <3>3
  <2>2. CASE pet' = [pet EXCEPT ![p].fase = "fin"]
    <3>1. PICK x \in Recursos \union {NoHay} : x = r.sube
      BY DEF Peticion
    <3>2. [r EXCEPT !.fase = "fin"] = [r EXCEPT !.fase = "fin", !.sube = x]
      BY <3>1 DEF Peticion
    <3>3. pet' = [pet EXCEPT ![p] = [r EXCEPT !.fase = "fin", !.sube = x]]
      BY <1>1, <2>2, <3>2 DEF Invariante, TypeOK
    <3>4. QED
      BY <3>3
  <2>3. QED
    BY <1>1, <1>4, <2>1, <2>2 DEF VerPadre
<1>6. PICK f \in {"fin", "verRaiz", "aplicar"}, x \in Recursos \union {NoHay} :
        /\ pet' = [pet EXCEPT ![p] = [r EXCEPT !.fase = f, !.sube = x]]
        /\ f = "verRaiz" => r.dato \in Proyectos
        /\ f = "aplicar" => r.dato \notin Proyectos /\ r.dato = padre[r.sobre]
  BY <1>5
<1> DEFINE s == [r EXCEPT !.fase = f, !.sube = x]
<1>7. s \in Peticion
  <2>1. f \in Fases
    BY DEF Fases
  <2>2. QED
    BY <2>1, Zenon DEF Peticion
<1>8. /\ s.fase = f /\ s.nivel = r.nivel /\ s.gestiona = r.gestiona /\ s.tope = r.tope
      /\ s.op = r.op /\ s.sobre = r.sobre /\ s.dato = r.dato /\ s.roles = r.roles
      /\ s.quien = r.quien /\ s.proy = r.proy /\ s.quieto = r.quieto
  BY DEF Peticion
<1>9. pet' = [pet EXCEPT ![p] = s]
  BY <1>6
<1> HIDE DEF s
<1>10. FormaOp(s) /\ FormaFase(s)
  BY <1>3, <1>8 DEF FormaOp, FormaFase
<1>11. Acotada(s)
  BY <1>2, <1>8 DEF Bien, Acotada, Buscando
<1>12. ASSUME r.quieto PROVE EnCamino(s) /\ Comprobada(s) /\ Contestada(s)
  <2>1. /\ Registrada(r.dato) /\ r.proy = ProyectoDe(r.dato)
        /\ NivelConRoles(r, r.dato, ProyectoDe(r.dato)) >= 1
    BY <1>2, <1>3, <1>12 DEF Bien, Fiel, Comprobada, Buscando, Objeto
  <2>2. \A z, y : NivelConRoles(s, z, y) = NivelConRoles(r, z, y)
    BY <1>8 DEF NivelConRoles
  <2>3. EnCamino(s) /\ Contestada(s)
    BY <1>3, <1>8 DEF EnCamino, Contestada
  <2>4. Comprobada(s)
    BY <1>3, <1>6, <1>8, <2>1, <2>2 DEF Comprobada, Buscando, Objeto
  <2>5. QED
    BY <2>3, <2>4
<1>13. QED
  BY <1>7, <1>8, <1>9, <1>10, <1>11, <1>12, UnaPeticion DEF VerPadre, Bien, Fiel

LEMMA PasoVerRaiz ==
  ASSUME Invariante, NEW p \in Peticiones, VerRaiz(p)
  PROVE  Invariante'
<1>1. PICK r \in Peticion : r = pet[p]
  BY Pedida
<1>2. Bien(r) /\ r.fase = "verRaiz"
  BY <1>1, Pedida DEF VerRaiz
<1>3. /\ r.op = "registrar" /\ FormaOp(r) /\ "acceso_total" \notin r.roles
      /\ r.sobre \in Carpetas /\ r.dato \in Recursos
  BY <1>2 DEF Bien, FormaFase, FormaOp
<1>4. PICK f \in {"fin", "aplicar"} : f = IF Registrada(r.sube) THEN "fin" ELSE "aplicar"
  OBVIOUS
<1> DEFINE s == [r EXCEPT !.fase = f]
<1>5. s \in Peticion
  <2>1. f \in Fases
    BY DEF Fases
  <2>2. QED
    BY <2>1, Zenon DEF Peticion
<1>6. /\ s.fase = f /\ s.nivel = r.nivel /\ s.gestiona = r.gestiona /\ s.tope = r.tope
      /\ s.op = r.op /\ s.sobre = r.sobre /\ s.dato = r.dato /\ s.roles = r.roles
      /\ s.quien = r.quien /\ s.proy = r.proy /\ s.quieto = r.quieto
  BY DEF Peticion
<1>7. pet' = [pet EXCEPT ![p] = s]
  BY <1>1, <1>4 DEF VerRaiz, Invariante, TypeOK
<1> HIDE DEF s
<1>8. FormaOp(s) /\ FormaFase(s)
  BY <1>3, <1>6 DEF FormaOp, FormaFase
<1>9. Acotada(s)
  BY <1>2, <1>6 DEF Bien, Acotada, Buscando
<1>10. ASSUME r.quieto PROVE EnCamino(s) /\ Comprobada(s) /\ Contestada(s)
  <2>1. /\ Registrada(r.dato) /\ r.proy = ProyectoDe(r.dato)
        /\ NivelConRoles(r, r.dato, ProyectoDe(r.dato)) >= 1
        /\ r.dato \in Proyectos
    BY <1>2, <1>3, <1>10 DEF Bien, Fiel, Comprobada, Buscando, Objeto
  <2>2. \A z, y : NivelConRoles(s, z, y) = NivelConRoles(r, z, y)
    BY <1>6 DEF NivelConRoles
  <2>3. EnCamino(s) /\ Contestada(s)
    BY <1>3, <1>6 DEF EnCamino, Contestada
  <2>4. r.dato \notin Carpetas
    BY <2>1, ProyectoBien
  <2>5. Comprobada(s)
    BY <1>3, <1>6, <2>1, <2>2, <2>4 DEF Comprobada, Buscando, Objeto
  <2>6. QED
    BY <2>3, <2>5
<1>11. QED
  BY <1>5, <1>6, <1>7, <1>8, <1>9, <1>10, UnaPeticion DEF VerRaiz, Bien, Fiel
LEMMA NuevaBien ==
  ASSUME NEW u \in Usuarios, NEW ro \in Roles \union {{}}
  PROVE  /\ Nueva(u, ro) \in Peticion
         /\ Bien(Nueva(u, ro))
         /\ Nueva(u, ro).roles = ro
<1>1. Nueva(u, ro) \in Peticion
  BY ProyectoBien, ConstantesNivel DEF Nueva, Peticion, Fases, Ops, Recursos
<1>2. Bien(Nueva(u, ro))
  BY DEF Nueva, Bien, FormaOp, FormaFase, Acotada, Buscando, Fiel, EnCamino, Comprobada, Contestada
<1>3. QED
  BY <1>1, <1>2 DEF Nueva

LEMMA PasoResponder ==
  ASSUME Invariante, NEW p \in Peticiones, Responder(p)
  PROVE  Invariante'
<1>1. PICK r \in Peticion : r = pet[p]
  BY Pedida
<1>2. PICK s \in Peticion : s = Nueva(r.quien, {})
  <2>1. r.quien \in Usuarios
    BY DEF Peticion
  <2>2. QED
    BY <2>1, NuevaBien
<1>3. Bien(s)
  BY <1>2, NuevaBien DEF Peticion
<1>4. QED
  BY <1>1, <1>2, <1>3, UnaPeticion DEF Responder

(* A request that begins to change something: with full access it goes     *)
(* straight to it.                                                         *)
LEMMA CambioEmpieza ==
  ASSUME Invariante, NEW p \in Peticiones, NEW u \in Usuarios, NEW ro \in Roles,
         NEW o \in Ops, NEW x \in Recursos, NEW d \in Recursos \union {NoHay}, NEW f,
         o # "consultar",
         o \in {"registrar", "mover"} => x \in Carpetas /\ d \in Recursos,
         o = "eliminar" => x \in Carpetas,
         f = IF "acceso_total" \in ro THEN "aplicar"
             ELSE IF o = "registrar" THEN "actual" ELSE "recurso",
         Pedir(p, [Nueva(u, ro) EXCEPT !.op = o, !.sobre = x, !.dato = d, !.fase = f])
  PROVE  Invariante'
<1>1. PICK r \in Peticion : r = Nueva(u, ro)
  BY NuevaBien
<1> DEFINE s == [r EXCEPT !.op = o, !.sobre = x, !.dato = d, !.fase = f]
<1>2. s \in Peticion
  <2>1. f \in Fases
    BY DEF Fases
  <2>2. QED
    BY <2>1, Zenon DEF Peticion
<1>3. r.roles = ro /\ r.nivel = 0 /\ ~r.gestiona /\ r.paso = 0
  BY <1>1 DEF Nueva
<1>4. /\ s.fase = f /\ s.op = o /\ s.sobre = x /\ s.dato = d /\ s.roles = ro
      /\ s.nivel = 0 /\ ~s.gestiona /\ s.paso = 0 /\ s.tope \in 0 .. 6
  BY <1>3 DEF Peticion
<1>5. pet' = [pet EXCEPT ![p] = s]
  BY <1>1 DEF Pedir
<1> HIDE DEF s
<1>6. FormaOp(s) /\ FormaFase(s)
  BY <1>4 DEF FormaOp, FormaFase
<1>7. Acotada(s)
  BY <1>4 DEF Acotada, Buscando
<1>8. Fiel(s)
  <2>1. "acceso_total" \in ro => \A z, y : NivelConRoles(s, z, y) = 7
    BY <1>4 DEF NivelConRoles
  <2>2. QED
    BY <1>4, <2>1 DEF Fiel, EnCamino, Comprobada, Contestada, Buscando
<1>9. QED
  BY <1>2, <1>5, <1>6, <1>7, <1>8, UnaPeticion DEF Pedir, Bien

LEMMA PasoConsultar ==
  ASSUME Invariante, NEW p \in Peticiones, NEW u \in Usuarios, NEW ro \in Roles,
         NEW x \in Recursos, Consultar(p, u, ro, x)
  PROVE  Invariante'
<1>1. PICK r \in Peticion : r = Nueva(u, ro)
  BY NuevaBien
<1>2. PICK y \in Proyectos : y = IF x \in Proyectos THEN x ELSE r.proy
  BY DEF Peticion
<1> DEFINE t == [r EXCEPT !.sobre = x, !.proy = y]
<1>3. t \in Peticion
  BY Zenon DEF Peticion
<1>4. r.op = "consultar" /\ r.nivel = 0 /\ ~r.gestiona /\ r.paso = 0
  BY <1>1 DEF Nueva
<1>5. /\ t.op = "consultar" /\ t.nivel = 0 /\ ~t.gestiona /\ t.paso = 0
      /\ t.sobre = x /\ t.proy = y
  BY <1>4 DEF Peticion
<1>6. Pedir(p, Desde(t, x))
  BY <1>1, <1>2 DEF Consultar
<1> HIDE DEF t
<1>7. Desde(t, x) \in Peticion /\ Bien(Desde(t, x))
  BY <1>2, <1>3, <1>5, DesdeBien DEF Objeto, FormaOp
<1>8. PICK s \in Peticion : s = Desde(t, x)
  BY <1>7
<1>9. QED
  BY <1>6, <1>7, <1>8, UnaPeticion DEF Pedir

LEMMA PasoConsultarItem ==
  ASSUME Invariante, NEW p \in Peticiones, NEW u \in Usuarios, NEW ro \in Roles,
         NEW x \in Carpetas, ConsultarItem(p, u, ro, x)
  PROVE  Invariante'
<1>1. PICK r \in Peticion : r = Nueva(u, ro)
  BY NuevaBien
<1>2. x \in Recursos /\ x \notin Proyectos
  BY ProyectoBien DEF Recursos
<1>3. r.op = "consultar" /\ r.nivel = 0 /\ ~r.gestiona /\ r.paso = 0 /\ r.roles = ro
  BY <1>1 DEF Nueva
<1>4. CASE "acceso_total" \in ro
  <2> DEFINE t == [r EXCEPT !.sobre = x]
  <2>1. t \in Peticion
    BY <1>2, Zenon DEF Peticion
  <2>2. t.op = "consultar" /\ t.nivel = 0 /\ ~t.gestiona /\ t.paso = 0 /\ t.sobre = x
    BY <1>3 DEF Peticion
  <2>3. Pedir(p, Desde(t, x))
    BY <1>1, <1>4 DEF ConsultarItem
  <2> HIDE DEF t
  <2>4. Desde(t, x) \in Peticion /\ Bien(Desde(t, x))
    BY <1>2, <2>1, <2>2, DesdeBien DEF Objeto, FormaOp
  <2>5. PICK s \in Peticion : s = Desde(t, x)
    BY <2>4
  <2>6. QED
    BY <2>3, <2>4, <2>5, UnaPeticion DEF Pedir
<1>5. CASE "acceso_total" \notin ro
  <2> DEFINE s == [r EXCEPT !.sobre = x, !.fase = "ubicar"]
  <2>1. s \in Peticion
    <3>1. "ubicar" \in Fases
      BY DEF Fases
    <3>2. QED
      BY <1>2, <3>1, Zenon DEF Peticion
  <2>2. /\ s.fase = "ubicar" /\ s.op = "consultar" /\ s.sobre = x /\ s.roles = ro
        /\ s.nivel = 0 /\ ~s.gestiona /\ s.paso = 0 /\ s.tope \in 0 .. 6
    BY <1>3 DEF Peticion
  <2>3. [[r EXCEPT !.sobre = x] EXCEPT !.fase = "ubicar"] = s
    BY DEF Peticion
  <2>4. Pedir(p, s)
    BY <1>1, <1>5, <2>3 DEF ConsultarItem
  <2> HIDE DEF s
  <2>5. FormaOp(s) /\ FormaFase(s)
    BY <1>5, <2>2 DEF FormaOp, FormaFase
  <2>6. Acotada(s) /\ Fiel(s)
    BY <2>2 DEF Acotada, Buscando, Fiel, EnCamino, Comprobada, Contestada
  <2>7. QED
    BY <2>1, <2>4, <2>5, <2>6, UnaPeticion DEF Pedir, Bien
<1>6. QED
  BY <1>4, <1>5

LEMMA PasoEmpezar ==
  ASSUME Invariante, NEW p \in Peticiones, Empezar(p)
  PROVE  Invariante'
<1>1. PICK u \in Usuarios, ro \in Roles, x \in Recursos :
        \/ Consultar(p, u, ro, x)
        \/ x \in Carpetas /\ ConsultarItem(p, u, ro, x)
        \/ x \in Carpetas /\ \E a \in Recursos : Registrar(p, u, ro, x, a)
        \/ \E a \in Recursos \ {x} : Administrar(p, u, ro, "mover", x, a)
        \/ \E o \in {"eliminar", "asignar"} : Administrar(p, u, ro, o, x, NoHay)
  BY DEF Empezar
<1>2. CASE Consultar(p, u, ro, x)
  BY <1>2, PasoConsultar
<1>3. CASE x \in Carpetas /\ ConsultarItem(p, u, ro, x)
  BY <1>3, PasoConsultarItem
<1>4. ASSUME x \in Carpetas, NEW a \in Recursos, Registrar(p, u, ro, x, a)
      PROVE  Invariante'
  <2>1. PICK f : f = IF "acceso_total" \in ro THEN "aplicar" ELSE "actual"
    OBVIOUS
  <2>2. Pedir(p, [Nueva(u, ro) EXCEPT !.op = "registrar", !.sobre = x, !.dato = a, !.fase = f])
    BY <1>4, <2>1 DEF Registrar
  <2>3. "registrar" \in Ops
    BY DEF Ops
  <2>4. QED
    BY <1>4, <2>1, <2>2, <2>3, CambioEmpieza
<1>5. ASSUME NEW o \in {"mover", "eliminar", "asignar"}, NEW d \in Recursos \union {NoHay},
             o = "mover" => d \in Recursos, Administrar(p, u, ro, o, x, d)
      PROVE  Invariante'
  <2>1. PICK f : f = IF "acceso_total" \in ro THEN "aplicar" ELSE "recurso"
    OBVIOUS
  <2>2. Pedir(p, [Nueva(u, ro) EXCEPT !.op = o, !.sobre = x, !.dato = d, !.fase = f])
    BY <1>5, <2>1 DEF Administrar
  <2>3. o \in Ops /\ o # "consultar" /\ o # "registrar"
    BY DEF Ops
  <2>4. o \in {"mover", "eliminar"} => x \in Carpetas
    BY <1>5 DEF Administrar
  <2>5. QED
    BY <1>5, <2>1, <2>2, <2>3, <2>4, CambioEmpieza
<1>6. QED
  BY <1>1, <1>2, <1>3, <1>4, <1>5
-----------------------------------------------------------------------------
(* The writes, of the registry and of the tree: what the others had read   *)
(* may have changed.                                                       *)

LEMMA AvisadaBien ==
  ASSUME Invariante, NEW q \in Peticiones, nivel' \in [Usuarios \X Recursos -> 0 .. 6],
         NEW s, s = IF pet[q].fase # "libre" THEN Cambiada(pet[q]) ELSE pet[q]
  PROVE  s \in Peticion /\ Bien(s)'
<1>1. PICK r \in Peticion : r = pet[q]
  BY Pedida
<1>2. Bien(r)
  BY <1>1, Pedida
<1>3. CASE r.fase = "libre"
  <2>1. s = r
    BY <1>1, <1>3
  <2>2. FormaOp(r)' /\ FormaFase(r)'
    BY <1>2 DEF Bien, FormaOp, FormaFase
  <2>3. Acotada(r)'
    BY <1>2, <1>3 DEF Bien, Acotada, Buscando
  <2>4. Fiel(r)'
    BY <1>3 DEF Fiel, EnCamino, Comprobada, Contestada, Buscando
  <2>5. QED
    BY <2>1, <2>2, <2>3, <2>4 DEF Bien
<1>4. CASE r.fase # "libre"
  <2>1. PICK t \in 0 .. 6 : t = Tope(nivel', r.quien, r.proy)
    <3>1. r.quien \in Usuarios /\ r.proy \in Proyectos
      BY DEF Peticion
    <3>2. QED
      BY <3>1, TopeBien
  <2>2. PICK m \in 0 .. 6 : m = IF t > r.tope THEN t ELSE r.tope
    BY DEF Peticion
  <2>3. t <= m /\ r.tope <= m /\ r.tope \in 0 .. 6 /\ r.nivel \in 0 .. 7
    BY <2>2 DEF Peticion
  <2> DEFINE v == [r EXCEPT !.quieto = FALSE, !.tope = m]
  <2>4. v \in Peticion
    BY Zenon DEF Peticion
  <2>5. /\ v.fase = r.fase /\ v.op = r.op /\ v.sobre = r.sobre /\ v.dato = r.dato
        /\ v.roles = r.roles /\ v.sube = r.sube /\ v.paso = r.paso /\ v.nivel = r.nivel
        /\ v.gestiona = r.gestiona /\ v.quien = r.quien /\ v.proy = r.proy
        /\ v.quieto = FALSE /\ v.tope = m
    BY DEF Peticion
  <2>6. s = v
    BY <1>1, <1>4, <2>1, <2>2 DEF Cambiada
  <2> HIDE DEF v
  <2>7. FormaOp(v)' /\ FormaFase(v)'
    BY <1>2, <2>5 DEF Bien, FormaOp, FormaFase
  <2>8. Acotada(v)'
    <3>1. Acotada(r)
      BY <1>2 DEF Bien
    <3>2. /\ r.nivel <= r.tope => r.nivel <= m
          /\ r.nivel > m => r.nivel > r.tope
          /\ r.tope = 6 => m = 6
      BY <2>3
    <3>3. Tope(nivel', v.quien, v.proy) <= v.tope
      BY <2>1, <2>3, <2>5
    <3>4. QED
      BY <2>5, <3>1, <3>2, <3>3 DEF Acotada
  <2>9. Fiel(v)'
    BY <2>5 DEF Fiel
  <2>10. QED
    BY <2>4, <2>6, <2>7, <2>8, <2>9 DEF Bien
<1>5. QED
  BY <1>3, <1>4

(* The one that wrote.                                                     *)
LEMMA EscritaBien ==
  ASSUME Invariante, NEW p \in Peticiones, pet[p].fase = "aplicar",
         NEW s, s = [pet[p] EXCEPT !.fase = "fin"]
  PROVE  s \in Peticion /\ Bien(s)'
<1>1. PICK r \in Peticion : r = pet[p]
  BY Pedida
<1>2. Bien(r) /\ r.fase = "aplicar" /\ r.op # "consultar"
  BY <1>1, Pedida DEF Bien, FormaFase
<1>3. s \in Peticion
  <2>1. "fin" \in Fases
    BY DEF Fases
  <2>2. QED
    BY <1>1, <2>1, Zenon DEF Peticion
<1>4. /\ s.fase = "fin" /\ s.op = r.op /\ s.sobre = r.sobre /\ s.dato = r.dato
      /\ s.roles = r.roles /\ s.nivel = r.nivel /\ s.tope = r.tope /\ s.gestiona = r.gestiona
  BY <1>1 DEF Peticion
<1>5. FormaOp(s)' /\ FormaFase(s)' /\ Acotada(s)'
  BY <1>2, <1>4 DEF Bien, FormaOp, FormaFase, Acotada, Buscando
<1>6. Fiel(s)'
  BY <1>2, <1>4 DEF Fiel, EnCamino, Comprobada, Contestada, Buscando
<1>7. QED
  BY <1>3, <1>5, <1>6 DEF Bien

LEMMA PasoMoverEnAutodesk ==
  ASSUME Invariante, NEW x \in Carpetas, NEW a \in Sube, MoverEnAutodesk(x, a)
  PROVE  Invariante'
<1>1. /\ padre' = [padre EXCEPT ![x] = a] /\ Arbol(padre') /\ UNCHANGED <<reg, nivel>>
      /\ cambios < MaxCambios /\ cambios' = cambios + 1 /\ pet' = Avisar(Peticiones)
  BY DEF MoverEnAutodesk
<1>2. nivel' \in [Usuarios \X Recursos -> 0 .. 6]
  BY <1>1, NivelesHasta6 DEF Invariante
<1>3. ASSUME NEW q \in Peticiones PROVE pet'[q] \in Peticion /\ Bien(pet[q])'
  <2>1. PICK s : s = pet'[q]
    OBVIOUS
  <2>2. s = IF pet[q].fase # "libre" THEN Cambiada(pet[q]) ELSE pet[q]
    BY <1>1, <2>1 DEF Avisar
  <2>3. s \in Peticion /\ Bien(s)'
    BY <1>2, <2>2, AvisadaBien
  <2>4. QED
    BY <2>1, <2>3
<1>4. pet' \in [Peticiones -> Peticion]
  BY <1>1, <1>3 DEF Avisar
<1>5. TypeOK'
  <2>1. padre' \in [Carpetas -> Sube]
    BY <1>1 DEF Invariante, TypeOK
  <2>2. cambios' \in 0 .. MaxCambios
    BY <1>1, ConstantesNivel DEF Invariante, TypeOK
  <2>3. QED
    BY <1>1, <1>4, <2>1, <2>2 DEF Invariante, TypeOK
<1>6. Arboles'
  BY <1>1 DEF Invariante, Arboles, Registrada
<1>7. QED
  BY <1>3, <1>5, <1>6 DEF Invariante
LEMMA CambioBien ==
  ASSUME Invariante, NEW r \in Peticion, FormaOp(r),
         r.op \in {"registrar", "mover", "eliminar"}, r.op = "eliminar" => reg[r.sobre] # "sin"
  PROVE  /\ Cambio(r) \in [Carpetas -> Recursos \union {"sin"}]
         /\ \A z \in Carpetas :
              reg[z] # "sin" /\ (r.op = "eliminar" => z # r.sobre) => Cambio(r)[z] # "sin"
<1>1. reg \in [Carpetas -> Recursos \union {"sin"}] /\ "sin" \notin Recursos
  BY ProyectoBien DEF Invariante, TypeOK
<1>2. CASE r.op \in {"registrar", "mover"}
  <2>1. Cambio(r) = [reg EXCEPT ![r.sobre] = r.dato]
    BY <1>2 DEF Cambio
  <2>2. r.dato \in Recursos /\ r.sobre \in Carpetas
    BY <1>2 DEF FormaOp
  <2>3. QED
    BY <1>1, <1>2, <2>1, <2>2
<1>3. CASE r.op = "eliminar"
  <2>1. Cambio(r) = [z \in Carpetas |->
                       IF z = r.sobre THEN "sin" ELSE IF reg[z] = r.sobre THEN reg[r.sobre] ELSE reg[z]]
    BY <1>3 DEF Cambio
  <2>2. r.sobre \in Carpetas
    BY <1>3 DEF FormaOp
  <2>3. QED
    BY <1>1, <1>3, <2>1, <2>2
<1>4. QED
  BY <1>2, <1>3

LEMMA PasoAplicar ==
  ASSUME Invariante, NEW p \in Peticiones, Aplicar(p)
  PROVE  Invariante'
<1>1. PICK r \in Peticion : r = pet[p]
  BY Pedida
<1>2. Bien(r) /\ r.fase = "aplicar" /\ r.op # "consultar" /\ FormaOp(r)
  BY <1>1, Pedida DEF Aplicar, Bien, FormaFase
<1>3. PICK s : s = [r EXCEPT !.fase = "fin"]
  OBVIOUS
<1>4. s \in Peticion /\ Bien(s)'
  BY <1>1, <1>2, <1>3, EscritaBien
<1>5. UNCHANGED <<padre, cambios>>
  BY DEF Aplicar
<1>6. CASE pet' = [pet EXCEPT ![p].fase = "fin"] /\ UNCHANGED <<reg, nivel>>
  <2>1. pet' = [pet EXCEPT ![p] = s]
    BY <1>1, <1>3, <1>6 DEF Invariante, TypeOK
  <2>2. UNCHANGED <<padre, reg, nivel, cambios>>
    BY <1>5, <1>6
  <2>3. ASSUME NEW q \in Peticiones PROVE Bien(pet[q])'
    <3>1. PICK t : t = pet'[q]
      OBVIOUS
    <3>2. CASE q = p
      BY <1>4, <2>1, <3>1, <3>2 DEF Invariante, TypeOK
    <3>3. CASE q # p
      <4>1. Bien(t) /\ t = pet[q]
        BY <2>1, <3>1, <3>3 DEF Invariante, TypeOK
      <4>2. Bien(t)'
        BY <2>2, <4>1, BienIgual
      <4>3. QED
        BY <3>1, <4>2
    <3>4. QED
      BY <3>2, <3>3
  <2>4. TypeOK'
    BY <1>4, <2>1, <2>2 DEF Invariante, TypeOK
  <2>5. Arboles'
    BY <2>2, Leido DEF Invariante, Arboles
  <2>6. QED
    BY <2>3, <2>4, <2>5 DEF Invariante
<1>7. ASSUME pet' = [Avisar(Peticiones \ {p}) EXCEPT ![p].fase = "fin"],
             reg' \in [Carpetas -> Recursos \union {"sin"}], RegistroValido(reg'),
             nivel' \in [Usuarios \X Recursos -> {0} \union Niveles],
             \A e \in Usuarios \X Recursos : nivel'[e] # 0 => Registrada(e[2])'
      PROVE  Invariante'
  <2>1. nivel' \in [Usuarios \X Recursos -> 0 .. 6]
    <3>1. {0} \union Niveles \subseteq 0 .. 6
      BY ConstantesNivel
    <3>2. \A e \in Usuarios \X Recursos : nivel'[e] \in 0 .. 6
      BY <1>7, <3>1
    <3>3. nivel' = [e \in Usuarios \X Recursos |-> nivel'[e]]
      BY <1>7
    <3>4. QED
      BY <3>2, <3>3
  <2>2. pet' = [q \in Peticiones |->
                  IF q = p THEN s
                  ELSE IF pet[q].fase # "libre" THEN Cambiada(pet[q]) ELSE pet[q]]
    BY <1>1, <1>3, <1>7 DEF Avisar
  <2>3. ASSUME NEW q \in Peticiones PROVE pet'[q] \in Peticion /\ Bien(pet[q])'
    <3>1. PICK t : t = pet'[q]
      OBVIOUS
    <3>2. CASE q = p
      BY <1>4, <2>2, <3>1, <3>2
    <3>3. CASE q # p
      <4>1. t = IF pet[q].fase # "libre" THEN Cambiada(pet[q]) ELSE pet[q]
        BY <2>2, <3>1, <3>3
      <4>2. t \in Peticion /\ Bien(t)'
        BY <2>1, <4>1, AvisadaBien
      <4>3. QED
        BY <3>1, <4>2
    <3>4. QED
      BY <3>2, <3>3
  <2>4. pet' \in [Peticiones -> Peticion]
    BY <2>2, <2>3
  <2>5. TypeOK'
    BY <1>5, <1>7, <2>4 DEF Invariante, TypeOK
  <2>6. Arboles'
    BY <1>5, <1>7 DEF Invariante, Arboles
  <2>7. QED
    BY <2>3, <2>5, <2>6 DEF Invariante
<1>8. CASE /\ r.op # "asignar"
           /\ RegistroValido(Cambio(r))
           /\ r.op \in {"mover", "eliminar"} => reg[r.sobre] # "sin"
           /\ reg' = Cambio(r)
           /\ nivel' = [e \in DOMAIN nivel |->
                          IF r.op = "eliminar" /\ e[2] = r.sobre THEN 0 ELSE nivel[e]]
           /\ pet' = [Avisar(Peticiones \ {p}) EXCEPT ![p].fase = "fin"]
  <2>1. r.op \in {"registrar", "mover", "eliminar"}
    BY <1>2, <1>8 DEF Peticion, Ops
  <2>2. /\ Cambio(r) \in [Carpetas -> Recursos \union {"sin"}]
        /\ \A z \in Carpetas :
             reg[z] # "sin" /\ (r.op = "eliminar" => z # r.sobre) => Cambio(r)[z] # "sin"
    BY <1>2, <1>8, <2>1, CambioBien
  <2>3. nivel \in [Usuarios \X Recursos -> {0} \union Niveles]
    BY DEF Invariante, TypeOK
  <2>4. nivel' \in [Usuarios \X Recursos -> {0} \union Niveles]
    BY <1>8, <2>3
  <2>5. ASSUME NEW e \in Usuarios \X Recursos, nivel'[e] # 0 PROVE Registrada(e[2])'
    <3>1. nivel[e] # 0 /\ (r.op = "eliminar" => e[2] # r.sobre)
      BY <1>8, <2>3, <2>5
    <3>2. Registrada(e[2])
      BY <3>1 DEF Invariante, Arboles
    <3>3. QED
      BY <1>8, <2>2, <3>1, <3>2 DEF Registrada
  <2>6. QED
    BY <1>7, <1>8, <2>2, <2>4, <2>5
<1>9. CASE /\ Registrada(r.sobre)
           /\ \E u \in Usuarios, n \in {0} \union Niveles : nivel' = [nivel EXCEPT ![<<u, r.sobre>>] = n]
           /\ UNCHANGED reg
           /\ pet' = [Avisar(Peticiones \ {p}) EXCEPT ![p].fase = "fin"]
  <2>1. PICK u \in Usuarios, n \in {0} \union Niveles : nivel' = [nivel EXCEPT ![<<u, r.sobre>>] = n]
    BY <1>9
  <2>2. nivel \in [Usuarios \X Recursos -> {0} \union Niveles]
    BY DEF Invariante, TypeOK
  <2>3. nivel' \in [Usuarios \X Recursos -> {0} \union Niveles]
    BY <2>1, <2>2
  <2>4. ASSUME NEW e \in Usuarios \X Recursos, nivel'[e] # 0 PROVE Registrada(e[2])'
    <3>1. Registrada(e[2])
      <4>1. CASE e = <<u, r.sobre>>
        BY <1>9, <4>1
      <4>2. CASE e # <<u, r.sobre>>
        BY <2>1, <2>2, <2>4, <4>2 DEF Invariante, Arboles
      <4>3. QED
        BY <4>1, <4>2
    <3>2. QED
      BY <1>9, <3>1 DEF Registrada
  <2>5. reg' \in [Carpetas -> Recursos \union {"sin"}] /\ RegistroValido(reg')
    BY <1>9 DEF Invariante, TypeOK, Arboles
  <2>6. QED
    BY <1>7, <1>9, <2>3, <2>4, <2>5
<1>10. QED
  BY <1>1, <1>6, <1>8, <1>9 DEF Aplicar
-----------------------------------------------------------------------------
LEMMA InvarianteInicial == Init => Invariante
<1>1. SUFFICES ASSUME Init PROVE Invariante
  OBVIOUS
<1>2. /\ padre \in [Carpetas -> Sube] /\ Arbol(padre)
      /\ reg \in [Carpetas -> Recursos \union {"sin"}] /\ RegistroValido(reg)
      /\ nivel \in {n \in [Usuarios \X Recursos -> {0} \union Niveles] :
                      \A e \in DOMAIN n : n[e] # 0 => Registrada(e[2])}
      /\ cambios = 0
      /\ \E u \in Usuarios : pet = [p \in Peticiones |-> Nueva(u, {})]
  BY <1>1, Zenon DEF Init
<1>3. /\ nivel \in [Usuarios \X Recursos -> {0} \union Niveles]
      /\ \A e \in DOMAIN nivel : nivel[e] # 0 => Registrada(e[2])
  BY <1>2, Zenon
<1>4. PICK u \in Usuarios : pet = [p \in Peticiones |-> Nueva(u, {})]
  BY <1>2
<1>5. \A p \in Peticiones : pet[p] \in Peticion /\ Bien(pet[p])
  BY <1>4, NuevaBien
<1>6. pet \in [Peticiones -> Peticion]
  BY <1>4, <1>5
<1>7. TypeOK
  BY <1>2, <1>3, <1>6, ConstantesNivel DEF TypeOK
<1>8. Arboles
  <2>1. DOMAIN nivel = Usuarios \X Recursos
    BY <1>3
  <2>2. QED
    BY <1>2, <1>3, <2>1 DEF Arboles
<1>9. QED
  BY <1>5, <1>7, <1>8 DEF Invariante

LEMMA InvarianteSigue == Invariante /\ [Next]_vars => Invariante'
<1>1. SUFFICES ASSUME Invariante, [Next]_vars PROVE Invariante'
  OBVIOUS
<1>2. ASSUME NEW p \in Peticiones, Empezar(p) PROVE Invariante'
  BY <1>1, <1>2, PasoEmpezar
<1>3. ASSUME NEW p \in Peticiones, Atender(p) PROVE Invariante'
  BY <1>1, <1>3, PasoUbicar, PasoVerActual, PasoVerRecurso, PasoCadena, PasoSubir, PasoProyecto,
     PasoDecidir, PasoVerPadre, PasoVerRaiz, PasoAplicar, PasoResponder DEF Atender
<1>4. ASSUME NEW x \in Carpetas, NEW a \in Sube, MoverEnAutodesk(x, a) PROVE Invariante'
  BY <1>1, <1>4, PasoMoverEnAutodesk
<1>5. CASE UNCHANGED vars
  <2>1. TypeOK'
    BY <1>1, <1>5 DEF Invariante, TypeOK, vars
  <2>2. UNCHANGED <<padre, reg, nivel>> /\ pet' = pet
    BY <1>5 DEF vars
  <2>3. Arboles'
    BY <1>1, <2>2, Leido DEF Invariante, Arboles
  <2>4. ASSUME NEW q \in Peticiones PROVE Bien(pet[q])'
    <3>1. PICK t : t = pet[q]
      OBVIOUS
    <3>2. Bien(t)'
      BY <1>1, <2>2, <3>1, BienIgual DEF Invariante
    <3>3. QED
      BY <2>2, <3>1, <3>2
  <2>5. QED
    BY <2>1, <2>3, <2>4 DEF Invariante
<1>6. QED
  BY <1>1, <1>2, <1>3, <1>4, <1>5 DEF Next

LEMMA SiempreInvariante == Spec => []Invariante
BY InvarianteInicial, InvarianteSigue, PTL DEF Spec

(* The types of the tree, the registry, the levels and the requests.       *)
THEOREM NivelTypeOK == Spec => []TypeOK
<1>1. Invariante => TypeOK
  BY DEF Invariante
<1>2. QED
  BY <1>1, SiempreInvariante, PTL

(* No folder moved, no entry changed and no level assigned or taken away   *)
(* while a request is under way gives its user more than the highest level *)
(* they have had in that project since it began, or than their roles give. *)
THEOREM NadieRecibeMas == Spec => []NuncaMas
<1>1. Invariante => NuncaMas
  BY DEF Invariante, Bien, Acotada, NuncaMas
<1>2. QED
  BY <1>1, SiempreInvariante, PTL

(* The answer, step by step up the folders, is the level that the tree and *)
(* the registry give all at once.                                          *)
THEOREM LaRespuestaEsElNivel == Spec => []NivelCorrecto
<1>1. Invariante => NivelCorrecto
  BY DEF Invariante, Bien, Fiel, Contestada, NivelCorrecto
<1>2. QED
  BY <1>1, SiempreInvariante, PTL
-----------------------------------------------------------------------------
(* A request that was about to write and has ended did so itself.          *)

LEMMA CambiadaIgual ==
  ASSUME NEW q \in Peticiones, pet[q] \in Peticion
  PROVE  Cambiada(pet[q]).fase = pet[q].fase
BY DEF Cambiada, Peticion

LEMMA QuienEscribe ==
  ASSUME Invariante, [Next]_vars, NEW p \in Peticiones, pet[p].fase = "aplicar", pet'[p].fase = "fin"
  PROVE  Aplicar(p)
<1>1. pet \in [Peticiones -> Peticion] /\ "aplicar" # "fin"
  BY DEF Invariante, TypeOK
<1>2. pet'[p] # pet[p] /\ Cambiada(pet[p]).fase # "fin"
  BY <1>1, CambiadaIgual
<1>3. ASSUME NEW q \in Peticiones, NEW r, pet' = [pet EXCEPT ![q] = r], pet[q].fase # "aplicar"
      PROVE  FALSE
  BY <1>1, <1>2, <1>3
<1>4. ASSUME NEW q \in Peticiones, NEW r, Pedir(q, r)
      PROVE  FALSE
  BY <1>3, <1>4 DEF Pedir
<1>5. ASSUME NEW q \in Peticiones, Empezar(q)
      PROVE  FALSE
  <2>1. PICK u \in Usuarios, ro \in Roles, x \in Recursos :
          \/ Consultar(q, u, ro, x)
          \/ ConsultarItem(q, u, ro, x)
          \/ \E a : Registrar(q, u, ro, x, a)
          \/ \E o, a : Administrar(q, u, ro, o, x, a)
    BY <1>5, Zenon DEF Empezar
  <2>2. CASE Consultar(q, u, ro, x)
    BY <1>4, <2>2, Zenon DEF Consultar
  <2>3. CASE ConsultarItem(q, u, ro, x)
    BY <1>4, <2>3, Zenon DEF ConsultarItem
  <2>4. CASE \E a : Registrar(q, u, ro, x, a)
    BY <1>4, <2>4, Zenon DEF Registrar
  <2>5. CASE \E o, a : Administrar(q, u, ro, o, x, a)
    BY <1>4, <2>5, Zenon DEF Administrar
  <2>6. QED
    BY <2>1, <2>2, <2>3, <2>4, <2>5
<1>6. ASSUME NEW q \in Peticiones, pet[q].fase # "aplicar", Atender(q)
      PROVE  FALSE
  <2>1. CASE Ubicar(q) \/ VerPadre(q)
    <3>1. pet'[p] = pet[p]
      BY <1>1, <1>6, <2>1 DEF Ubicar, VerPadre
    <3>2. QED
      BY <1>2, <3>1
  <2>2. CASE VerActual(q) \/ VerRecurso(q) \/ Cadena(q) \/ Subir(q)
    BY <1>3, <1>6, <2>2 DEF VerActual, VerRecurso, Cadena, Subir
  <2>3. CASE Proyecto(q) \/ Decidir(q) \/ VerRaiz(q) \/ Responder(q)
    <3>1. pet'[p] = pet[p]
      BY <1>1, <1>6, <2>3 DEF Proyecto, Decidir, VerRaiz, Responder
    <3>2. QED
      BY <1>2, <3>1
  <2>4. QED
    BY <1>6, <2>1, <2>2, <2>3 DEF Atender, Aplicar
<1>7. ASSUME NEW q \in Peticiones \ {p}, Aplicar(q)
      PROVE  FALSE
  <2>1. pet'[p] = Cambiada(pet[p]) \/ pet'[p] = pet[p]
    BY <1>1, <1>7 DEF Aplicar, Avisar
  <2>2. QED
    BY <1>2, <2>1
<1>8. ASSUME NEW x \in Carpetas, NEW a \in Sube, MoverEnAutodesk(x, a)
      PROVE  FALSE
  <2>1. pet'[p] = Cambiada(pet[p]) \/ pet'[p] = pet[p]
    BY <1>8 DEF MoverEnAutodesk, Avisar
  <2>2. QED
    BY <1>2, <2>1
<1>9. ASSUME UNCHANGED vars
      PROVE  FALSE
  BY <1>2, <1>9 DEF vars
<1>10. PICK q \in Peticiones : Atender(q)
  <2>1. Next
    BY <1>9
  <2>2. QED
    BY <1>5, <1>8, <2>1, Zenon DEF Next
<1>11. Aplicar(q)
  <2>1. pet[q].fase = "aplicar"
    BY <1>6, <1>10
  <2>2. QED
    BY <1>10, <2>1 DEF Atender, Ubicar, VerActual, VerRecurso, Cadena, Subir, Proyecto, Decidir,
       VerPadre, VerRaiz, Responder
<1>12. QED
  BY <1>7, <1>11

(* The registry and the levels are changed only by who may.                *)
THEOREM SoloCambiaQuienPuede == Spec => CambioConNivel
<1> DEFINE Puede(p) ==
      LET r == pet[p]
          n == NivelConRoles(r, Objeto(r), ProyectoDe(Objeto(r)))
      IN r.fase = "aplicar" /\ r.quieto /\ pet'[p].fase = "fin" /\ <<reg, nivel>>' # <<reg, nivel>> =>
           \/ r.op = "registrar" /\ n >= 1
           \/ r.op # "registrar" /\ (n >= 6 \/ "configurar" \in r.roles)
<1>1. ASSUME Invariante, [Next]_vars, NEW p \in Peticiones
      PROVE  Puede(p)
  <2>1. PICK r \in Peticion : r = pet[p]
    BY <1>1, Pedida
  <2> DEFINE n == NivelConRoles(r, Objeto(r), ProyectoDe(Objeto(r)))
  <2>2. SUFFICES ASSUME r.fase = "aplicar", r.quieto, pet'[p].fase = "fin",
                        <<reg, nivel>>' # <<reg, nivel>>
        PROVE  \/ r.op = "registrar" /\ n >= 1
               \/ r.op # "registrar" /\ (n >= 6 \/ "configurar" \in r.roles)
    BY <2>1
  <2>3. FormaOp(r) /\ Comprobada(r)
    BY <1>1, <2>1, <2>2, Pedida DEF Bien, Fiel
  <2>4. CASE r.op # "registrar"
    BY <2>2, <2>3, <2>4 DEF Comprobada, Objeto
  <2>5. CASE r.op = "registrar"
    <3>1. Objeto(r) = r.dato
      BY <2>5 DEF Objeto
    <3>2. reg[r.sobre] # r.dato
      <4>1. SUFFICES ASSUME reg[r.sobre] = r.dato PROVE FALSE
        OBVIOUS
      <4>2. Aplicar(p)
        BY <1>1, <2>1, <2>2, QuienEscribe
      <4>3. /\ reg' = Cambio(r)
            /\ nivel' = [e \in DOMAIN nivel |->
                           IF r.op = "eliminar" /\ e[2] = r.sobre THEN 0 ELSE nivel[e]]
        BY <2>1, <2>2, <2>5, <4>2 DEF Aplicar
      <4>4. reg' = reg
        BY <1>1, <2>5, <4>1, <4>3 DEF Cambio, Invariante, TypeOK
      <4>5. nivel' = nivel
        BY <1>1, <2>5, <4>3 DEF Invariante, TypeOK
      <4>6. QED
        BY <2>2, <4>4, <4>5
    <3>3. "acceso_total" \in r.roles => n = 7
      BY DEF NivelConRoles
    <3>4. QED
      BY <2>2, <2>3, <2>5, <3>1, <3>2, <3>3 DEF Comprobada
  <2>6. QED
    BY <2>4, <2>5
<1>2. Invariante /\ [Next]_vars => [\A p \in Peticiones : Puede(p)]_vars
  <2> HIDE DEF Puede
  <2>1. QED
    BY <1>1
<1>3. Spec => [][\A p \in Peticiones : Puede(p)]_vars
  <2> HIDE DEF Puede
  <2>1. QED
    BY <1>2, SiempreInvariante, PTL DEF Spec
<1>4. QED
  BY <1>3 DEF CambioConNivel
-----------------------------------------------------------------------------
(* The registration of a folder leaves its level as it was.                *)

(* The chain of the folders alone goes as far as the one of the registry.  *)
LEMMA CadenaDeCarpetas ==
  ASSUME NEW f, NEW x \in Carpetas,
         NEW g, g = [c \in Carpetas |-> IF f[c] \in Carpetas THEN f[c] ELSE NoHay]
  PROVE  \A n \in Largo : Ancestros(f, x)[n] \in Carpetas =>
           Ancestros(g, x)[n] = Ancestros(f, x)[n]
<1> DEFINE a == Ancestros(f, x)
           b == Ancestros(g, x)
           T == {n \in Largo : a[n] \in Carpetas => b[n] = a[n]}
<1>1. 0 \in T
  BY AncestrosPaso
<1>2. ASSUME NEW n \in Largo, n + 1 \in Largo, n \in T PROVE n + 1 \in T
  <2>1. a[n + 1] = IF a[n] \in Carpetas THEN f[a[n]] ELSE NoHay
    BY <1>2, AncestrosPaso
  <2>2. b[n + 1] = IF b[n] \in Carpetas THEN g[b[n]] ELSE NoHay
    BY <1>2, AncestrosPaso
  <2>3. NoHay \notin Carpetas
    BY ConstantesNivel
  <2> HIDE DEF a, b
  <2>4. QED
    BY <1>2, <2>1, <2>2, <2>3
<1>3. \A n \in Largo : n \in T
  <2> HIDE DEF T
  <2>1. QED
    BY <1>1, <1>2, InduccionLargo
<1>4. QED
  BY <1>3

LEMMA RegistroAcaba ==
  ASSUME NEW re, RegistroValido(re), NEW x \in Carpetas
  PROVE  Ancestros(re, x)[Alto] \notin Carpetas
<1> DEFINE g == [c \in Carpetas |-> IF re[c] \in Carpetas THEN re[c] ELSE NoHay]
<1>1. Ancestros(g, x)[Alto] \notin Carpetas
  BY DEF RegistroValido, Arbol, Llega, Alto
<1>2. Alto \in Largo
  BY AltoNat
<1> HIDE DEF g
<1>3. Ancestros(re, x)[Alto] \in Carpetas => Ancestros(g, x)[Alto] = Ancestros(re, x)[Alto]
  BY <1>2, CadenaDeCarpetas DEF g
<1>4. QED
  BY <1>1, <1>3

(* In the registry, the new entry answers what the one above it does.      *)
LEMMA NivelHeredado ==
  ASSUME NEW re \in [Carpetas -> Recursos \union {"sin"}], RegistroValido(re),
         NEW x \in Carpetas, re[x] = "sin", NEW d \in Recursos, d # x,
         NEW re2, re2[x] = d, \A c \in Carpetas \ {x} : re2[c] = re[c], RegistroValido(re2),
         NEW nv, NEW u, nv[<<u, x>>] = 0
  PROVE  NR(re2, nv, u, x) = NR(re, nv, u, d)
<1> DEFINE a == Ancestros(re2, x)
           b == Ancestros(re, d)
           S == (Recursos \ {x}) \union {NoHay, "sin"}
<1>1. \A n \in Largo : Ancestros(re2, d)[n] = b[n]
  <2>1. d \in S /\ NoHay \in S
    OBVIOUS
  <2>2. \A c \in Carpetas \intersect S : re[c] \in S /\ re2[c] = re[c]
    <3>1. TAKE c \in Carpetas \intersect S
    <3>2. c # x
      BY ConstantesNivel
    <3>3. re[c] # x
      BY DEF RegistroValido
    <3>4. QED
      BY <3>2, <3>3
  <2> HIDE DEF S
  <2>3. QED
    BY <2>1, <2>2, CadenaIgual
<1>2. re2[x] = d
  OBVIOUS
<1>3. a[0] = x /\ 0 \in Largo
  BY AncestrosPaso
<1>4. \A n \in Largo : n + 1 \in Largo => a[n + 1] = b[n]
  <2>1. \A n \in Largo : n + 1 \in Largo => a[n + 1] = Ancestros(re2, re2[x])[n]
    BY CadenaCorrida
  <2>2. QED
    BY <1>1, <1>2, <2>1
<1>5. b[Alto] \notin Recursos
  <2>1. a[Alto] \notin Carpetas
    BY RegistroAcaba
  <2>2. Alto - 1 \in Largo /\ Alto \in Largo /\ (Alto - 1) + 1 = Alto
    BY AltoNat
  <2>3. b[Alto - 1] \notin Carpetas
    BY <1>4, <2>1, <2>2
  <2>4. b[Alto] = NoHay
    BY <2>2, <2>3, AncestrosPaso
  <2>5. QED
    BY <2>4, ProyectoBien
<1>6. ~Tiene(nv, a, u, 0) /\ ~Tiene(nv, b, u, Alto)
  BY <1>3, <1>5 DEF Tiene
<1>7. \A n \in Largo : n + 1 \in Largo => (Tiene(nv, a, u, n + 1) <=> Tiene(nv, b, u, n))
  BY <1>4 DEF Tiene
<1> HIDE DEF a, b
<1>8. CASE \A n \in Largo : ~Tiene(nv, b, u, n)
  <2>1. ASSUME NEW n \in Largo PROVE ~Tiene(nv, a, u, n)
    <3>1. CASE n = 0
      BY <1>6, <3>1
    <3>2. CASE n # 0
      <4>1. n - 1 \in Largo /\ (n - 1) + 1 = n
        BY <3>2, AltoNat
      <4>2. QED
        BY <1>7, <1>8, <4>1
    <3>3. QED
      BY <3>1, <3>2
  <2>2. NR(re2, nv, u, x) = 0
    BY <2>1, NRSin DEF a
  <2>3. NR(re, nv, u, d) = 0
    BY <1>8, NRSin DEF b
  <2>4. QED
    BY <2>2, <2>3
<1>9. ASSUME NEW k \in Largo, Tiene(nv, b, u, k),
             \A m \in Largo : m < k => ~Tiene(nv, b, u, m)
      PROVE  NR(re2, nv, u, x) = NR(re, nv, u, d)
  <2>1. k # Alto
    BY <1>6, <1>9
  <2>2. k + 1 \in Largo
    BY <2>1, AltoNat
  <2>3. Tiene(nv, a, u, k + 1) /\ a[k + 1] = b[k]
    BY <1>4, <1>7, <1>9, <2>2
  <2>4. ASSUME NEW m \in Largo, m < k + 1 PROVE ~Tiene(nv, a, u, m)
    <3>1. CASE m = 0
      BY <1>6, <3>1
    <3>2. CASE m # 0
      <4>1. m - 1 \in Largo /\ (m - 1) + 1 = m /\ m - 1 < k
        BY <2>4, <3>2, AltoNat
      <4>2. QED
        BY <1>7, <1>9, <4>1
    <3>3. QED
      BY <3>1, <3>2
  <2>5. NR(re2, nv, u, x) = nv[<<u, a[k + 1]>>]
    BY <2>2, <2>3, <2>4, NRCon DEF a
  <2>6. NR(re, nv, u, d) = nv[<<u, b[k]>>]
    BY <1>9, NRCon DEF b
  <2>7. QED
    BY <2>3, <2>5, <2>6
<1>10. QED
  <2>1. \/ \A n \in Largo : ~Tiene(nv, b, u, n)
        \/ \E k \in Largo : Tiene(nv, b, u, k) /\ \A m \in Largo : m < k => ~Tiene(nv, b, u, m)
    BY NRCasos, Zenon DEF b
  <2>2. QED
    BY <1>8, <1>9, <2>1, Zenon

HeredaDe(pa, re, x) ==
  \A n \in Largo \ {0} :
    LET a == Ancestros(pa, x)[n] IN ~RG(re, a) /\ (n > MaxSaltos => a = NoHay)

LEMMA NivelConservado ==
  ASSUME NEW re \in [Carpetas -> Recursos \union {"sin"}], RegistroValido(re),
         NEW x \in Carpetas, re[x] = "sin", NEW d \in Recursos, RG(re, d),
         NEW re2, re2[x] = d, \A c \in Carpetas \ {x} : re2[c] = re[c], RegistroValido(re2),
         NEW nv, NEW u, nv[<<u, x>>] = 0, NEW pa, NEW y, ProyectoDe(d) = y,
         d \in Carpetas => pa[x] = d, d \in Carpetas \/ HeredaDe(pa, re, x)
  PROVE  ND(pa, re2, nv, u, x, y) = ND(pa, re, nv, u, x, y)
<1> DEFINE a == Ancestros(pa, x)
<1>1. d # x /\ ~RG(re, x)
  BY ProyectoBien DEF RG
<1>2. a[0] = x /\ 0 \in Largo /\ MaxSaltos \in Nat \ {0}
  BY AncestrosPaso, ConstantesNivel
<1>3. re2[x] = d
  OBVIOUS
<1>4. NR(re2, nv, u, x) = NR(re, nv, u, d)
  BY <1>1, NivelHeredado
<1>5. ND(pa, re2, nv, u, x, y) = NR(re, nv, u, d)
  <2>1. RG(re2, a[0])
    BY <1>2, <1>3, ProyectoBien DEF RG
  <2>2. 0 <= MaxSaltos /\ \A m \in Largo : ~(m < 0)
    BY <1>2, AltoNat
  <2>3. ProyectoDe(x) = y
    BY <1>3 DEF RegistroValido, MismoProyecto
  <2>4. QED
    BY <1>2, <1>4, <2>1, <2>2, <2>3, NDHallada
<1>6. CASE d \in Carpetas
  <2>1. 1 \in Largo /\ 1 <= MaxSaltos /\ 0 + 1 = 1
    BY <1>2, AltoNat
  <2>2. a[1] = d
    BY <1>2, <1>6, <2>1, AncestrosPaso
  <2>3. \A m \in Largo : m < 1 => m = 0
    BY AltoNat
  <2>4. \A m \in Largo : m < 1 => ~RG(re, a[m])
    BY <1>1, <1>2, <2>3
  <2>5. ND(pa, re, nv, u, x, y) = NR(re, nv, u, d)
    BY <2>1, <2>2, <2>4, NDHallada
  <2>6. QED
    BY <1>5, <2>5
<1>7. CASE d \notin Carpetas
  <2>1. d = y
    BY <1>7, ProyectoBien DEF Recursos
  <2>2. \A n \in Largo \ {0} : ~RG(re, a[n]) /\ (n > MaxSaltos => a[n] = NoHay)
    BY <1>7 DEF HeredaDe
  <2>3. \A m \in Largo : m <= MaxSaltos => ~RG(re, a[m])
    BY <1>1, <1>2, <2>2
  <2>4. MaxSaltos + 1 # 0 /\ MaxSaltos + 1 > MaxSaltos
    BY <1>2
  <2>5. ~(MaxSaltos + 1 \in Largo /\ a[MaxSaltos + 1] # NoHay)
    BY <2>2, <2>4
  <2>6. ND(pa, re, nv, u, x, y) = NR(re, nv, u, d)
    BY <2>1, <2>3, <2>5, NDSinHallar
  <2>7. QED
    BY <1>5, <2>6
<1>8. QED
  BY <1>6, <1>7

LEMMA EsNDDespues ==
  ASSUME NEW u, NEW p \in Peticiones
  PROVE  NivelDe(u, pet[p].sobre, pet[p].proy)' =
           ND(padre', reg', nivel', u, pet'[p].sobre, pet'[p].proy)
BY DEF NivelDe, ND, NivelRegistrado, NR, Tiene, Registrada, RG

(* Who registers a folder under the one above it, or under the project     *)
(* that it inherits from, gives and takes nothing.                         *)
THEOREM RegistrarNoCambiaNada == Spec => RegistrarConserva
<1> DEFINE Conserva(p) ==
      LET r == pet[p] IN
      Registra(r) /\ pet'[p].fase = "fin" /\ (r.dato \in Carpetas \/ HeredaDelProyecto(r.sobre)) =>
        \A u \in Usuarios : NivelDe(u, r.sobre, r.proy)' = NivelDe(u, r.sobre, r.proy)
<1>1. ASSUME Invariante, [Next]_vars, NEW p \in Peticiones
      PROVE  Conserva(p)
  <2>1. PICK r \in Peticion : r = pet[p]
    BY <1>1, Pedida
  <2>2. SUFFICES ASSUME Registra(r), pet'[p].fase = "fin",
                        r.dato \in Carpetas \/ HeredaDelProyecto(r.sobre),
                        NEW u \in Usuarios
        PROVE  NivelDe(u, pet[p].sobre, pet[p].proy)' = NivelDe(u, pet[p].sobre, pet[p].proy)
    BY <2>1
  <2>3. /\ r.fase = "aplicar" /\ r.op = "registrar" /\ r.quieto
        /\ "acceso_total" \notin r.roles
        /\ reg[r.sobre] = "sin" /\ reg'[r.sobre] # "sin"
    BY <2>2 DEF Registra
  <2>4. /\ r.sobre \in Carpetas /\ r.dato \in Recursos
        /\ Registrada(r.dato) /\ r.proy = ProyectoDe(r.dato)
        /\ r.dato \in Carpetas => padre[r.sobre] = r.dato
    <3>1. FormaOp(r) /\ Comprobada(r)
      BY <1>1, <2>1, <2>3, Pedida DEF Bien, Fiel
    <3>2. r.sobre \in Carpetas /\ r.dato \in Recursos
      BY <2>3, <3>1 DEF FormaOp
    <3>3. reg[r.sobre] # r.dato
      BY <2>3, <3>2, ProyectoBien
    <3>4. QED
      BY <2>3, <3>1, <3>2, <3>3 DEF Comprobada
  <2>5. Aplicar(p)
    BY <1>1, <2>1, <2>2, <2>3, QuienEscribe
  <2>6. /\ RegistroValido(Cambio(r))
        /\ reg' = Cambio(r) /\ padre' = padre
        /\ nivel' = [e \in DOMAIN nivel |->
                       IF r.op = "eliminar" /\ e[2] = r.sobre THEN 0 ELSE nivel[e]]
        /\ pet' = [Avisar(Peticiones \ {p}) EXCEPT ![p].fase = "fin"]
    BY <2>1, <2>3, <2>5 DEF Aplicar
  <2>7. reg \in [Carpetas -> Recursos \union {"sin"}] /\ RegistroValido(reg)
    BY <1>1 DEF Invariante, TypeOK, Arboles
  <2>8. /\ reg'[r.sobre] = r.dato
        /\ \A c \in Carpetas \ {r.sobre} : reg'[c] = reg[c]
        /\ RegistroValido(reg')
    BY <2>3, <2>4, <2>6, <2>7 DEF Cambio
  <2>9. nivel' = nivel
    BY <1>1, <2>3, <2>6 DEF Invariante, TypeOK
  <2>10. nivel[<<u, r.sobre>>] = 0
    <3>1. ~Registrada(r.sobre)
      BY <2>3, <2>4, ProyectoBien DEF Registrada
    <3>2. <<u, r.sobre>> \in Usuarios \X Recursos
      BY <2>4 DEF Recursos
    <3>3. QED
      BY <1>1, <3>1, <3>2 DEF Invariante, Arboles
  <2>11. pet'[p].sobre = r.sobre /\ pet'[p].proy = r.proy
    BY <2>1, <2>6 DEF Avisar, Peticion
  <2>12. RG(reg, r.dato)
    BY <2>4 DEF Registrada, RG
  <2>13. r.dato \in Carpetas \/ HeredaDe(padre, reg, r.sobre)
    BY <2>2 DEF HeredaDelProyecto, HeredaDe, Registrada, RG
  <2>14. PICK x \in Carpetas, d \in Recursos : x = r.sobre /\ d = r.dato
    BY <2>4
  <2>15. PICK y, pa, re, re2, nv :
           /\ y = r.proy /\ pa = padre /\ re = reg /\ re2 = reg' /\ nv = nivel
    OBVIOUS
  <2>16. ND(pa, re2, nv, u, x, y) = ND(pa, re, nv, u, x, y)
    <3>1. re \in [Carpetas -> Recursos \union {"sin"}] /\ RegistroValido(re) /\ re[x] = "sin"
      BY <2>3, <2>7, <2>14, <2>15
    <3>2. re2[x] = d /\ (\A c \in Carpetas \ {x} : re2[c] = re[c]) /\ RegistroValido(re2)
      BY <2>8, <2>14, <2>15
    <3>3. RG(re, d) /\ nv[<<u, x>>] = 0 /\ ProyectoDe(d) = y /\ (d \in Carpetas => pa[x] = d)
      BY <2>4, <2>10, <2>12, <2>14, <2>15
    <3>4. d \in Carpetas \/ HeredaDe(pa, re, x)
      BY <2>13, <2>14, <2>15
    <3>5. QED
      BY <3>1, <3>2, <3>3, <3>4, NivelConservado
  <2>17. NivelDe(u, pet[p].sobre, pet[p].proy) = ND(padre, reg, nivel, u, x, y)
    BY <2>1, <2>14, <2>15, EsND
  <2>18. NivelDe(u, pet[p].sobre, pet[p].proy)' = ND(padre', reg', nivel', u, x, y)
    BY <2>11, <2>14, <2>15, EsNDDespues
  <2>19. QED
    BY <2>6, <2>9, <2>14, <2>15, <2>16, <2>17, <2>18
<1>2. Invariante /\ [Next]_vars => [\A p \in Peticiones : Conserva(p)]_vars
  <2> HIDE DEF Conserva
  <2>1. QED
    BY <1>1
<1>3. Spec => [][\A p \in Peticiones : Conserva(p)]_vars
  <2> HIDE DEF Conserva
  <2>1. QED
    BY <1>2, SiempreInvariante, PTL DEF Spec
<1>4. QED
  BY <1>3 DEF RegistrarConserva
=============================================================================
