---------------------------- MODULE MCSesionesApp ----------------------------
(***************************************************************************)
(* Instances of SesionesApp for TLC: users, rows and requests are          *)
(* interchangeable.                                                        *)
(***************************************************************************)
EXTENDS SesionesApp, TLC

Simetria == Permutations(Usuarios) \union Permutations(Ids) \union Permutations(Peticiones)
=============================================================================
