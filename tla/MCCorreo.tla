------------------------------- MODULE MCCorreo -------------------------------
(***************************************************************************)
(* Instances of Correo for TLC: workers, jobs and requests are             *)
(* interchangeable.                                                        *)
(***************************************************************************)
EXTENDS Correo, TLC

Simetria == Permutations(Trabajadores) \union Permutations(Trabajos)
            \union Permutations(Peticiones)
=============================================================================
