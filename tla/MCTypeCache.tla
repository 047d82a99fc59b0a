------------------------------ MODULE MCTypeCache ------------------------------
(***************************************************************************)
(* type A struct { B *B; C any }, type B struct { A *A } and type D struct *)
(* { Next *D }: A and B need each other, D needs itself and is not known   *)
(* to the others: it is met only in a C, when an A is encoded.             *)
(***************************************************************************)
EXTENDS TypeCache, TLC

CONSTANTS A, B, C, D

TypeElems == (A :> <<B, C>>) @@ (B :> <<A>>) @@ (C :> <<>>) @@ (D :> <<D>>)
===============================================================================
