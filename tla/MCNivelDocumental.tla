-------------------------- MODULE MCNivelDocumental --------------------------
(***************************************************************************)
(* NivelDocumental on a small instance; the folders that are not of the    *)
(* other project are alike, and the requests too.                          *)
(***************************************************************************)
EXTENDS NivelDocumental, TLC

Simetria == Permutations(Carpetas \ Ajenas) \union Permutations(Peticiones)
=============================================================================
