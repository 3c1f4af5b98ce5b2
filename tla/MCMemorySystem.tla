--------------------------- MODULE MCMemorySystem ---------------------------
(***************************************************************************)
(* Two threads and two pools that do not begin on a multiple of the        *)
(* alignment.  The small pool has room for two blocks, the medium one for  *)
(* one.                                                                    *)
(***************************************************************************)
EXTENDS MemorySystem, TLC

CONSTANTS small, medium, string, array

Pools == {small, medium}
SizePool(size) == IF size <= 1 THEN small ELSE medium
Bases == small :> 1 @@ medium :> 21
Sizes == small :> 9 @@ medium :> 6
Requests == {[size |-> 1, alignment |-> 1, tag |-> string],
             [size |-> 1, alignment |-> 2, tag |-> array],
             [size |-> 2, alignment |-> 2, tag |-> string]}
=============================================================================
