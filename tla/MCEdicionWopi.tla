---------------------------- MODULE MCEdicionWopi ----------------------------
(***************************************************************************)
(* Instances of EdicionWopi for TLC: tokens, requests, users and contents  *)
(* are interchangeable.                                                    *)
(***************************************************************************)
EXTENDS EdicionWopi, TLC

\* The ids of an item and of one version of it.
DocumentosDeItems == Items \X {"actual", "version"}

Simetria == Permutations(Tokens) \union Permutations(Peticiones)
            \union Permutations(Usuarios) \union Permutations(Contenidos)
=============================================================================
