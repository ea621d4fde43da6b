------------------------------ MODULE EnlaceAcc ------------------------------
(***************************************************************************)
(* What the users are promised of their Autodesk link, with no tokens, no  *)
(* requests and no interleaving.  A user's link holds one consent and is   *)
(* alive (it can be renewed without the user) or dead (the user must give  *)
(* consent again).  A consent is stored at most once, so nothing but a new *)
(* one replaces a dead link or brings a removed one back.                  *)
(***************************************************************************)
CONSTANTS Usuarios, Vinculos, SinVinculo

VARIABLES
  enlace,       (* the consent each user's link holds, and whether it lives  *)
  consentidos,  (* the consents given so far                                 *)
  pendientes    (* those given and not stored yet                            *)

Ninguno == [vinculo |-> SinVinculo, vivo |-> FALSE]

Init ==
  /\ enlace \in [Usuarios -> [vinculo : Vinculos, vivo : {TRUE}] \union {Ninguno}]
  /\ \A u, v \in Usuarios : u # v /\ enlace[u] # Ninguno => enlace[u] # enlace[v]
  /\ consentidos = {enlace[u].vinculo : u \in Usuarios} \ {SinVinculo}
  /\ pendientes = {}

Consentir(g) ==
  /\ g \notin consentidos
  /\ consentidos' = consentidos \union {g}
  /\ pendientes' = pendientes \union {g}
  /\ UNCHANGED enlace

(* A consent that cannot be renewed makes a link dead from the start.      *)
Vincular(u) ==
  \E g \in pendientes, vivo \in BOOLEAN :
    /\ enlace' = [enlace EXCEPT ![u] = [vinculo |-> g, vivo |-> vivo]]
    /\ pendientes' = pendientes \ {g}
    /\ UNCHANGED consentidos

Desvincular(u) ==
  /\ enlace[u] # Ninguno
  /\ enlace' = [enlace EXCEPT ![u] = Ninguno]
  /\ UNCHANGED <<consentidos, pendientes>>

(* Links die and consents are forgotten, several at once when the API      *)
(* restarts.                                                               *)
Decaer(caidos, olvidados) ==
  /\ enlace' = [u \in Usuarios |->
                  [vinculo |-> enlace[u].vinculo,
                   vivo |-> enlace[u].vivo /\ u \notin caidos]]
  /\ pendientes' = pendientes \ olvidados
  /\ UNCHANGED consentidos

Next ==
  \/ \E g \in Vinculos : Consentir(g)
  \/ \E u \in Usuarios : Vincular(u) \/ Desvincular(u)
  \/ \E caidos \in SUBSET Usuarios, olvidados \in SUBSET pendientes : Decaer(caidos, olvidados)

Spec == Init /\ [][Next]_<<enlace, consentidos, pendientes>>
=============================================================================
