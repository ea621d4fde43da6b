----------------------------- MODULE MCAccTokens -----------------------------
(***************************************************************************)
(* Instances of AccTokens for TLC: requests are interchangeable, and so    *)
(* are the grants, which only Autodesk names.                              *)
(***************************************************************************)
EXTENDS AccTokens, TLC

Simetria == Permutations(Peticiones) \union Permutations(Vinculos)
=============================================================================
