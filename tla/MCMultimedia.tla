---------------------------- MODULE MCMultimedia ----------------------------
(***************************************************************************)
(* Multimedia for TLC: requests, cards and the unique keys of their media  *)
(* are interchangeable.                                                    *)
(***************************************************************************)
EXTENDS Multimedia, TLC

Simetria == UNION {Permutations(S) : S \in {Peticiones, Tarjetas, Medios}}
=============================================================================
