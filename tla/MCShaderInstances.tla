------------------------- MODULE MCShaderInstances -------------------------
(* Materials of one shader, two of which share a texture. *)
EXTENDS ShaderInstances, TLC

CONSTANTS m1, m2, m3, brick, slate

SharedTexture == m1 :> brick @@ m2 :> brick @@ m3 :> slate

AlikeMaterials == Permutations({m1, m2})
=============================================================================
