---------------------------- MODULE MCSesionesWopi ----------------------------
(***************************************************************************)
(* Instances of SesionesWopi for TLC: the tokens are interchangeable.      *)
(***************************************************************************)
EXTENDS SesionesWopi, TLC

Simetria == Permutations(Tokens)
=============================================================================
