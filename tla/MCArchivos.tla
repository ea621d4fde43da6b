----------------------------- MODULE MCArchivos -----------------------------
(***************************************************************************)
(* Archivos for TLC: the requests are interchangeable, and so are the      *)
(* names of the files.                                                     *)
(***************************************************************************)
EXTENDS Archivos

Simetria == Permutations(Peticiones) \cup Permutations(Nombres)
=============================================================================
