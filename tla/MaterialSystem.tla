--------------------------- MODULE MaterialSystem ---------------------------
(***************************************************************************)
(* engine/src/systems/material_system.c on top of the texture system: a    *)
(* material has three maps, each pointing at a texture it has a reference  *)
(* to.  All calls are on the main thread, where a call of the material     *)
(* system makes several of the texture system; textures arrive, or are     *)
(* lost, between calls, and materials may go before that.                  *)
(*                                                                         *)
(* The texture system is its contract, which TextureSystem implements.  A  *)
(* map without a configured texture, or whose texture was refused, points  *)
(* at a default one, whose references nobody counts on.                    *)
(***************************************************************************)
EXTENDS Integers, FiniteSets

CONSTANTS Image,        \* names of textures
          Material,     \* names of materials
          Config,       \* the textures each material configures, for its three maps
          AutoRelease,  \* the materials configured with auto_release
          Faulty,       \* those whose load may fail: the shader is not found, or
                        \* the renderer has no resources for a map or an instance
          MaxMaterials, \* max_material_count
          MaxHeld,      \* bound: references of a material at a time
          MaxStray,     \* bound: stray references of a texture before a further load
          NoMap, Null

Map == 1 .. 3     \* diffuse, specular, normal
Slot == 0 .. MaxMaterials - 1

ASSUME ConfigAssumption ==
  /\ NoMap \notin Image /\ Null \notin Slot /\ Null \notin Material
  /\ Config \in [Material -> [Map -> Image \cup {NoMap}]]
ASSUME BoundAssumption == MaxMaterials \in Nat \ {0} /\ MaxHeld \in Nat /\ MaxStray \in Nat

VARIABLES count, auto, image, open,  \* the texture system
          mref,  \* registered_material_table: MATERIAL_REFERENCE by name
          slot,  \* registered_materials
          call,  \* the call on the main thread: what it does, and the map it is at
          held,  \* history: references the callers have, by name
          stray  \* history: references of a texture that nobody will give back

textures == <<count, auto, image, open>>
vars == <<count, auto, image, open, mref, slot, call, held, stray>>

Textures == INSTANCE TextureContract WITH Name <- Image

Unreferenced == [count |-> 0, handle |-> Null, auto |-> FALSE]
NoMaps == [k \in Map |-> NoMap]
Unused == [used |-> FALSE, map |-> NoMaps]
Idle == [op |-> "idle", material |-> Null, slot |-> 0, map |-> 1]

TypeOK ==
  /\ image \in [Image -> {"none", "coming", "here", "lost"}] /\ count \in [Image -> Nat]
  /\ auto \in [Image -> BOOLEAN] /\ open \in BOOLEAN
  /\ mref \in [Material -> [count : Nat, handle : Slot \cup {Null}, auto : BOOLEAN]]
  /\ slot \in [Slot -> [used : BOOLEAN, map : [Map -> Image \cup {NoMap}]]]
  /\ call \in [op : {"idle", "load", "destroy", "close", "closed"},
               material : Material \cup {Null}, slot : 0 .. MaxMaterials, map : 1 .. 4]
  /\ held \in [Material -> Nat] /\ stray \in [Image -> Nat]

Init == /\ Textures!Init
        /\ mref = [m \in Material |-> Unreferenced]
        /\ slot = [i \in Slot |-> Unused]
        /\ call = Idle
        /\ held = [m \in Material |-> 0] /\ stray = [t \in Image |-> 0]

Ready == call.op = "idle"

-----------------------------------------------------------------------------
(* material_system_acquire_from_config *)

\* The entry of a material after an acquire.
Counted(m, i) == [mref EXCEPT ![m] = [count |-> @.count + 1, handle |-> i,
                                      auto |-> IF @.count = 0 THEN m \in AutoRelease ELSE @.auto]]

Holds(m) == held' = [held EXCEPT ![m] = @ + 1]

AcquireAgain(m) ==
  /\ Ready /\ mref[m].handle # Null /\ held[m] < MaxHeld
  /\ mref' = Counted(m, mref[m].handle) /\ Holds(m)
  /\ UNCHANGED <<textures, slot, call, stray>>

FirstFree(i) == i \in Slot /\ ~slot[i].used /\ \A k \in Slot : ~slot[k].used => i <= k

\* A free slot is zeroed for the material, and is not free from then on: its id
\* is 0.
AcquireNew(m) ==
  /\ Ready /\ mref[m].handle = Null /\ held[m] < MaxHeld /\ \A t \in Image : stray[t] <= MaxStray
  /\ \E i \in 0 .. MaxMaterials :
       /\ FirstFree(i)
       /\ slot' = [slot EXCEPT ![i] = [used |-> TRUE, map |-> NoMaps]]
       /\ call' = [op |-> "load", material |-> m, slot |-> i, map |-> 1]
  /\ UNCHANGED <<textures, mref, held, stray>>

\* No slot is free: the call returns null.
Refused(m) == Ready /\ mref[m].handle = Null /\ \A i \in Slot : slot[i].used

\* load_material, for one map.  A texture that is not there may be refused.
LoadMap ==
  LET t == Config[call.material][call.map]
  IN  /\ call.op = "load" /\ call.map \in Map
      /\ \/ /\ t # NoMap /\ Textures!Acquire(t, TRUE)
            /\ slot' = [slot EXCEPT ![call.slot].map[call.map] = t]
         \/ /\ t # NoMap => image[t] = "none"
            /\ slot' = [slot EXCEPT ![call.slot].map[call.map] = NoMap]
            /\ UNCHANGED textures
      /\ call' = [call EXCEPT !.map = @ + 1]
      /\ UNCHANGED <<mref, held, stray>>

\* The load fails after a map.  The entry is not written, and the slot keeps
\* what it has.
LoadStops ==
  /\ call.op = "load" /\ call.map > 1 /\ call.material \in Faulty
  /\ call' = Idle
  /\ UNCHANGED <<textures, mref, slot, held, stray>>

LoadEnd ==
  /\ call.op = "load" /\ call.map \notin Map
  /\ mref' = Counted(call.material, call.slot) /\ Holds(call.material)
  /\ call' = Idle
  /\ UNCHANGED <<textures, slot, stray>>

-----------------------------------------------------------------------------
(* material_system_release and material_system_shutdown *)

Release(m) ==
  LET last == mref[m].count = 1 /\ mref[m].auto
      i == mref[m].handle
  IN  /\ Ready /\ open /\ held[m] > 0
      /\ held' = [held EXCEPT ![m] = @ - 1]
      /\ IF last THEN call' = [op |-> "destroy", material |-> m, slot |-> i, map |-> 1] /\ UNCHANGED mref
                 ELSE mref' = [mref EXCEPT ![m].count = @ - 1] /\ UNCHANGED call
      /\ UNCHANGED <<textures, slot, stray>>

\* A slot is being destroyed.
Destroying == \/ call.op = "destroy"
              \/ call.op = "close" /\ call.slot \in Slot /\ slot[call.slot].used

\* The reference of a map is given up by the empty name: it stays counted.
GoesAstray(t) == stray' = [stray EXCEPT ![t] = @ + 1]

\* Mutant: a texture that two maps share is released once.
DestroyMapOnce ==
  LET t == slot[call.slot].map[call.map]
      again == \E k \in 1 .. call.map - 1 : slot[call.slot].map[k] = t
  IN  /\ Destroying /\ call.map \in Map
      /\ \/ (t = NoMap \/ again) /\ UNCHANGED <<textures, stray>>
         \/ t # NoMap /\ ~again /\ image[t] = "here" /\ Textures!Release(t) /\ UNCHANGED stray
         \/ t # NoMap /\ ~again /\ image[t] # "here" /\ GoesAstray(t) /\ UNCHANGED textures
      /\ call' = [call EXCEPT !.map = @ + 1]
      /\ UNCHANGED <<mref, slot, held>>

\* destroy_material, for one map: the texture is released by the name it has,
\* which is empty until it has arrived.
DestroyMap ==
  LET t == slot[call.slot].map[call.map]
  IN  /\ Destroying /\ call.map \in Map
      /\ \/ t = NoMap /\ UNCHANGED <<textures, stray>>
         \/ t # NoMap /\ image[t] = "here" /\ Textures!Release(t) /\ UNCHANGED stray
         \/ t # NoMap /\ image[t] # "here" /\ GoesAstray(t) /\ UNCHANGED textures
      /\ call' = [call EXCEPT !.map = @ + 1]
      /\ UNCHANGED <<mref, slot, held>>

\* Mutant: the entry keeps its handle.
DestroyEndKeeps ==
  /\ call.op = "destroy" /\ call.map \notin Map
  /\ slot' = [slot EXCEPT ![call.slot] = Unused]
  /\ mref' = [mref EXCEPT ![call.material].count = 0]
  /\ call' = Idle
  /\ UNCHANGED <<textures, held, stray>>

DestroyEnd ==
  /\ call.op = "destroy" /\ call.map \notin Map
  /\ slot' = [slot EXCEPT ![call.slot] = Unused]
  /\ mref' = [mref EXCEPT ![call.material] = Unreferenced]
  /\ call' = Idle
  /\ UNCHANGED <<textures, held, stray>>

\* The systems manager shuts the material system down before the texture system.
Shutdown ==
  /\ Ready /\ open
  /\ call' = [Idle EXCEPT !.op = "close"]
  /\ UNCHANGED <<textures, mref, slot, held, stray>>

\* Mutant: only materials with an entry are destroyed.
CloseSlotListed ==
  LET listed == \E m \in Material : mref[m].handle = call.slot
  IN  /\ call.op = "close" /\ call.slot \in Slot
      /\ slot[call.slot].used /\ listed => call.map \notin Map
      /\ slot' = [slot EXCEPT ![call.slot] = Unused]
      /\ call' = [call EXCEPT !.slot = @ + 1, !.map = 1]
      /\ UNCHANGED <<textures, mref, held, stray>>

\* A slot that is in use is destroyed, map by map, and the next one is looked at.
CloseSlot ==
  /\ call.op = "close" /\ call.slot \in Slot
  /\ slot[call.slot].used => call.map \notin Map
  /\ slot' = [slot EXCEPT ![call.slot] = Unused]
  /\ call' = [call EXCEPT !.slot = @ + 1, !.map = 1]
  /\ UNCHANGED <<textures, mref, held, stray>>

CloseTextures ==
  /\ call.op = "close" /\ call.slot \notin Slot
  /\ Textures!Close
  /\ call' = [call EXCEPT !.op = "closed"]
  /\ UNCHANGED <<mref, slot, held, stray>>

\* job_system_update finishes a load between two calls, or a job thread has found
\* no room for its result.
Arrive(t) == /\ Ready /\ Textures!Arrive(t)
             /\ UNCHANGED <<mref, slot, call, held, stray>>

Drop(t) == /\ Ready /\ Textures!Drop(t)
           /\ UNCHANGED <<mref, slot, call, held, stray>>

Next == \/ \E m \in Material : AcquireAgain(m) \/ AcquireNew(m) \/ Release(m)
        \/ LoadMap \/ LoadStops \/ LoadEnd
        \/ DestroyMap \/ DestroyEnd
        \/ Shutdown \/ CloseSlot \/ CloseTextures
        \/ \E t \in Image : Arrive(t) \/ Drop(t)
        \/ (call.op = "closed" \/ \E m \in Material : Refused(m)) /\ UNCHANGED vars

Spec == Init /\ [][Next]_vars

-----------------------------------------------------------------------------
\* The maps that point at a texture and have not given up their reference.
Pointing(t) ==
  {p \in Slot \X Map : /\ slot[p[1]].used /\ slot[p[1]].map[p[2]] = t
                       /\ Destroying /\ call.slot = p[1] => p[2] >= call.map}

\* A texture has one reference for each map that points at it, also where a load
\* has failed half-way, and while a material is being destroyed, and one for each
\* map that was given up before the texture had arrived.
CountIsMaps == open => \A t \in Image : count[t] = Cardinality(Pointing(t)) + stray[t]

\* A map never points at a texture that is gone, whatever went before.
MapAlive == open => \A t \in Image : Pointing(t) # {} => image[t] # "none"

\* The references of the maps are theirs from the load to the release, and what
\* goes astray is counted too much, never too little.
TexturesHeld == CountIsMaps /\ MapAlive

\* A registered material has a slot of its own, with the maps it configures; a
\* map may have the default texture instead.
MaterialsApart ==
  call.op \in {"idle", "load"} =>
    /\ \A m \in Material : mref[m].handle # Null =>
         /\ slot[mref[m].handle].used
         /\ \A k \in Map : slot[mref[m].handle].map[k] \in {Config[m][k], NoMap}
    /\ \A m, n \in Material : mref[m].handle # Null /\ mref[m].handle = mref[n].handle => m = n

\* The count of a material is the number of references its callers have, and
\* acquires that failed left none.
CountIsHolders == Ready => \A m \in Material : mref[m].count = held[m]

\* What a registered material has is its own, and lasts as long as its holders.
MaterialsOwned == MaterialsApart /\ CountIsHolders

\* Shutting the material system down, at any time, gives back every reference to
\* a texture, those of materials whose load failed included: what is still counted
\* then are the references of maps given up before their texture had arrived.
NothingLeft == call.op = "closed" => \A t \in Image : count[t] = stray[t]
=============================================================================
