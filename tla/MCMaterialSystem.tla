-------------------------- MODULE MCMaterialSystem --------------------------
(***************************************************************************)
(* Three materials that share two textures: one has the same texture       *)
(* twice, and one may fail to load.                                        *)
(***************************************************************************)
EXTENDS MaterialSystem

CONSTANTS a, b, brick, glass, sky

Materials == {brick, glass, sky}
Configs == [m \in Materials |-> CASE m = brick -> <<a, a, NoMap>>
                                  [] m = glass -> <<a, b, NoMap>>
                                  [] m = sky   -> <<NoMap, NoMap, b>>]
=============================================================================
