-------------------------- MODULE MCTextureSystem --------------------------
(***************************************************************************)
(* For TextureSystem: a hash that keeps the names apart, and one name that *)
(* is held twice at a time.                                                *)
(***************************************************************************)
EXTENDS TextureSystemProperties, SequencesExt

CONSTANTS a, b, c, t   \* names

Order == SetToSeq(Name)
HashApart == [n \in Name |-> CHOOSE k \in Entry : Order[k + 1] = n]
HeldAtATime == [n \in Name |-> IF n = a THEN 2 ELSE 1]
=============================================================================
