--------------------------- MODULE MCNotificaciones ---------------------------
(***************************************************************************)
(* Instances of Notificaciones for TLC: users, sockets and notifications   *)
(* are interchangeable.                                                    *)
(***************************************************************************)
EXTENDS Notificaciones, TLC

Simetria == Permutations(Sockets) \union Permutations(Usuarios)
            \union Permutations(Notifs)
=============================================================================
