------------------------ MODULE MaterialSystemProofs ------------------------
(***************************************************************************)
(* For any number of materials, textures and slots: registered materials   *)
(* never share a slot, their counts are exact, and each texture has one    *)
(* reference for each map that points at it and for each map that was      *)
(* given up before the texture arrived; and a shutdown gives back all but  *)
(* the latter, those of half-loaded materials included.                    *)
(*                                                                         *)
(* What has to be added to make this inductive is what a call has done so  *)
(* far: the maps before call.map are loaded, or given up, and the slot of  *)
(* a load is nobody's yet.                                                 *)
(***************************************************************************)
EXTENDS MaterialSystem, FiniteSetTheorems, TLAPS

\* The slot of a load has the maps loaded so far, and no entry leads to it.
LoadInv ==
  call.op = "load" =>
    /\ call.material \in Material /\ call.slot \in Slot /\ slot[call.slot].used
    /\ mref[call.material].handle = Null
    /\ \A m \in Material : mref[m].handle # call.slot
    /\ \A k \in Map : LET t == slot[call.slot].map[k] IN
         /\ t \in {Config[call.material][k], NoMap}
         /\ k >= call.map => t = NoMap

\* A material that is destroyed still has its entry, with the last reference.
DestroyInv ==
  call.op = "destroy" => /\ call.material \in Material /\ call.slot \in Slot
                         /\ mref[call.material].handle = call.slot
                         /\ mref[call.material].count = 1

\* MaterialsApart, also while a material is destroyed.
ApartInv ==
  call.op \in {"idle", "load", "destroy"} =>
    /\ \A m \in Material : mref[m].handle # Null =>
         /\ slot[mref[m].handle].used
         /\ \A k \in Map : slot[mref[m].handle].map[k] \in {Config[m][k], NoMap}
    /\ \A m, n \in Material : mref[m].handle # Null /\ mref[m].handle = mref[n].handle => m = n

\* CountIsHolders, also within a call; a counted material has a slot.
HoldersInv ==
  call.op \in {"idle", "load", "destroy"} =>
    \A m \in Material :
      /\ mref[m].count > 0 => mref[m].handle # Null
      /\ mref[m].count = held[m] + (IF call.op = "destroy" /\ call.material = m THEN 1 ELSE 0)

\* Textures are auto-released: they are there as long as they are counted.
TexturesInv ==
  /\ open <=> call.op # "closed"
  /\ open => \A t \in Image : /\ image[t] = "none" <=> count[t] = 0
                              /\ count[t] > 0 => auto[t]

UnusedInv == \A i \in Slot : ~slot[i].used => slot[i] = Unused

MInv == /\ TypeOK /\ LoadInv /\ DestroyInv /\ ApartInv /\ HoldersInv /\ TexturesInv /\ UnusedInv
        /\ CountIsMaps

-----------------------------------------------------------------------------
\* What the assumptions say of the constants.
LEMMA Constants == /\ Null \notin Slot /\ Null \notin Material /\ NoMap \notin Image
                   /\ MaxMaterials \in Nat /\ Slot \subseteq 0 .. MaxMaterials
                   /\ \A m \in Material, k \in Map : Config[m][k] \in Image \cup {NoMap}
BY ConfigAssumption, BoundAssumption DEF Slot

\* What an acquire of a texture, always auto-released, does to the contract.
LEMMA TextureAcquired ==
  ASSUME TypeOK, TexturesInv, NEW t \in Image, Textures!Acquire(t, TRUE)
  PROVE  /\ open' = open /\ open
         /\ count' \in [Image -> Nat] /\ auto' \in [Image -> BOOLEAN]
         /\ image' \in [Image -> {"none", "coming", "here", "lost"}]
         /\ count' = [count EXCEPT ![t] = @ + 1]
         /\ \A u \in Image : image'[u] = "none" <=> count'[u] = 0
         /\ \A u \in Image : count'[u] > 0 => auto'[u]
<1>1. /\ open' = open /\ open
      /\ count' = [count EXCEPT ![t] = @ + 1]
      /\ auto' = [auto EXCEPT ![t] = IF count[t] = 0 THEN TRUE ELSE @]
  BY DEF Textures!Acquire
<1>2. PICK i \in {"coming", "here", "lost"} :
        image' = IF image[t] = "none" THEN [image EXCEPT ![t] = i] ELSE image
  BY DEF Textures!Acquire
<1>3. /\ count' \in [Image -> Nat]
      /\ image' \in [Image -> {"none", "coming", "here", "lost"}]
  BY <1>1, <1>2 DEF TypeOK
<1>4. \A u \in Image : image'[u] = "none" <=> count'[u] = 0
  BY <1>1, <1>2 DEF TypeOK, TexturesInv
<1>5. auto' \in [Image -> BOOLEAN]
  BY <1>1, Zenon DEF TypeOK
<1>6. \A u \in Image : count'[u] > 0 => auto'[u]
  <2> SUFFICES ASSUME NEW u \in Image, count'[u] > 0 PROVE auto'[u]
    OBVIOUS
  <2>1. CASE u # t
    <3>1. count[u] > 0 /\ auto'[u] = auto[u]
      BY <1>1, <2>1 DEF TypeOK
    <3> QED  BY <1>1, <3>1 DEF TexturesInv
  <2>2. CASE u = t
    <3>1. auto'[t] = IF count[t] = 0 THEN TRUE ELSE auto[t]
      BY <1>1 DEF TypeOK
    <3>2. count[t] = 0 \/ count[t] > 0
      BY DEF TypeOK
    <3> QED  BY <1>1, <2>2, <3>1, <3>2 DEF TexturesInv
  <2> QED  BY <2>1, <2>2
<1> QED  BY <1>1, <1>3, <1>4, <1>5, <1>6

\* And what a release does.
LEMMA TextureReleased ==
  ASSUME TypeOK, TexturesInv, NEW t \in Image, Textures!Release(t)
  PROVE  /\ open' = open /\ open
         /\ count' \in [Image -> Nat] /\ auto' \in [Image -> BOOLEAN]
         /\ image' \in [Image -> {"none", "coming", "here", "lost"}]
         /\ count' = [count EXCEPT ![t] = @ - 1]
         /\ \A u \in Image : image'[u] \in {image[u], "none"}
         /\ \A u \in Image : image'[u] = "none" <=> count'[u] = 0
         /\ \A u \in Image : count'[u] > 0 => auto'[u]
<1>1. /\ open' = open /\ open /\ count[t] > 0
      /\ count' = [count EXCEPT ![t] = @ - 1]
      /\ auto' = IF count[t] = 1 /\ auto[t] THEN [auto EXCEPT ![t] = FALSE] ELSE auto
      /\ image' = IF count[t] = 1 /\ auto[t] THEN [image EXCEPT ![t] = "none"] ELSE image
  BY DEF Textures!Release
<1>2. auto[t]
  BY <1>1 DEF TexturesInv
<1>3. /\ count' \in [Image -> Nat]
      /\ image' \in [Image -> {"none", "coming", "here", "lost"}]
      /\ \A u \in Image : image'[u] \in {image[u], "none"}
  BY <1>1 DEF TypeOK
<1>4. auto' \in [Image -> BOOLEAN]
  BY <1>1, Zenon DEF TypeOK
<1>5. \A u \in Image : image'[u] = "none" <=> count'[u] = 0
  <2>1. image' = IF count[t] = 1 THEN [image EXCEPT ![t] = "none"] ELSE image
    BY <1>1, <1>2
  <2> QED  BY <1>1, <2>1 DEF TypeOK, TexturesInv
<1>6. \A u \in Image : count'[u] > 0 => auto'[u]
  <2> SUFFICES ASSUME NEW u \in Image, count'[u] > 0 PROVE auto'[u]
    OBVIOUS
  <2>1. count[u] > 0 /\ (u = t => count[t] # 1)
    BY <1>1 DEF TypeOK
  <2>2. auto'[u] = auto[u]
    <3>1. CASE count[t] = 1
      <4>1. u # t /\ auto' = [auto EXCEPT ![t] = FALSE]
        BY <1>1, <1>2, <2>1, <3>1
      <4> QED  BY <4>1, Zenon DEF TypeOK
    <3>2. CASE count[t] # 1
      BY <1>1, <3>2
    <3> QED  BY <3>1, <3>2
  <2> QED  BY <1>1, <2>1, <2>2 DEF TexturesInv
<1> QED  BY <1>1, <1>3, <1>4, <1>5, <1>6

\* The pairs of slots and maps are finitely many, and so are those that point at
\* a texture.
LEMMA PointingFinite ==
  ASSUME NEW t PROVE IsFiniteSet(Pointing(t)) /\ Cardinality(Pointing(t)) \in Nat
<1>1. IsFiniteSet(Slot) /\ IsFiniteSet(Map)
  <2>1. 0 \in Int /\ 1 \in Int /\ 3 \in Int /\ MaxMaterials - 1 \in Int
    BY BoundAssumption
  <2>2. IsFiniteSet(0 .. MaxMaterials - 1) /\ IsFiniteSet(1 .. 3)
    BY <2>1, FS_Interval, Zenon
  <2> QED  BY <2>2 DEF Slot, Map
<1>2. IsFiniteSet(Slot \X Map)
  BY <1>1, FS_Product
<1>3. Pointing(t) \subseteq Slot \X Map
  BY DEF Pointing
<1>4. IsFiniteSet(Pointing(t))
  BY <1>2, <1>3, FS_Subset
<1> QED  BY <1>4, FS_CardinalityType

\* What Counted does to the table.
LEMMA CountedMref ==
  ASSUME TypeOK, NEW m \in Material, NEW i \in Slot, mref' = Counted(m, i)
  PROVE  /\ mref' \in [Material -> [count : Nat, handle : Slot \cup {Null}, auto : BOOLEAN]]
         /\ \A n \in Material : mref'[n].handle = IF n = m THEN i ELSE mref[n].handle
         /\ \A n \in Material : mref'[n].count = IF n = m THEN mref[n].count + 1 ELSE mref[n].count
<1> DEFINE a == IF mref[m].count = 0 THEN m \in AutoRelease ELSE mref[m].auto
           r == [count |-> mref[m].count + 1, handle |-> i, auto |-> a]
<1>1. a \in BOOLEAN
  <2>1. mref[m].auto \in BOOLEAN
    BY DEF TypeOK
  <2>2. (m \in AutoRelease) \in BOOLEAN
    OBVIOUS
  <2> QED  BY <2>1, <2>2, Zenon
<1>2. r.count \in Nat /\ r.handle = i /\ r.count = mref[m].count + 1 /\ r.auto = a
  BY DEF TypeOK
<1>3. r = [count |-> r.count, handle |-> r.handle, auto |-> r.auto]
  OBVIOUS
<1>4. mref' = [mref EXCEPT ![m] = r]
  BY DEF Counted
<1> HIDE DEF r, a
<1>5. r \in [count : Nat, handle : Slot \cup {Null}, auto : BOOLEAN]
  BY <1>1, <1>2, <1>3, Zenon
<1> QED  BY <1>2, <1>4, <1>5 DEF TypeOK

\* A call goes on to its next map.
LEMMA CallAdvances ==
  ASSUME TypeOK, call.map \in Map, call' = [call EXCEPT !.map = @ + 1]
  PROVE  /\ call' \in [op : {"idle", "load", "destroy", "close", "closed"},
                      material : Material \cup {Null}, slot : 0 .. MaxMaterials, map : 1 .. 4]
         /\ call'.op = call.op /\ call'.slot = call.slot /\ call'.material = call.material
         /\ call'.map = call.map + 1
<1>1. call.map + 1 \in 1 .. 4
  BY DEF Map
<1>2. call = [op |-> call.op, material |-> call.material, slot |-> call.slot, map |-> call.map]
  BY DEF TypeOK
<1>3. call' = [op |-> call.op, material |-> call.material, slot |-> call.slot, map |-> call.map + 1]
  BY <1>2
<1> QED  BY <1>1, <1>3 DEF TypeOK

\* Nothing changes what points where.
LEMMA SamePointing ==
  ASSUME CountIsMaps, open' => open, UNCHANGED <<count, stray>>,
         \A t \in Image : Pointing(t)' = Pointing(t)
  PROVE  CountIsMaps'
BY DEF CountIsMaps

-----------------------------------------------------------------------------
\* material_system_init leaves nothing registered and nothing held.
LEMMA InitMInv == Init => MInv
<1> SUFFICES ASSUME Init PROVE MInv
  OBVIOUS
<1>0. /\ count = [n \in Image |-> 0] /\ auto = [n \in Image |-> FALSE]
      /\ image = [n \in Image |-> "none"] /\ open = TRUE
      /\ mref = [m \in Material |-> Unreferenced] /\ slot = [i \in Slot |-> Unused]
      /\ call = Idle /\ held = [m \in Material |-> 0] /\ stray = [t \in Image |-> 0]
  BY DEF Init, Textures!Init
<1>1. TypeOK
  <2>1. /\ image \in [Image -> {"none", "coming", "here", "lost"}] /\ count \in [Image -> Nat]
        /\ held \in [Material -> Nat] /\ stray \in [Image -> Nat]
    BY <1>0
  <2>2. auto \in [Image -> BOOLEAN] /\ open \in BOOLEAN
    BY <1>0, Zenon
  <2>3. mref \in [Material -> [count : Nat, handle : Slot \cup {Null}, auto : BOOLEAN]]
    BY <1>0 DEF Unreferenced
  <2>4. slot \in [Slot -> [used : BOOLEAN, map : [Map -> Image \cup {NoMap}]]]
    BY <1>0 DEF Unused, NoMaps
  <2>5. call \in [op : {"idle", "load", "destroy", "close", "closed"},
                 material : Material \cup {Null}, slot : 0 .. MaxMaterials, map : 1 .. 4]
    BY <1>0, Constants DEF Idle
  <2> QED  BY <2>1, <2>2, <2>3, <2>4, <2>5 DEF TypeOK
<1>2. /\ call.op = "idle" /\ \A m \in Material : mref[m].count = 0 /\ mref[m].handle = Null
      /\ \A i \in Slot : slot[i] = Unused /\ ~slot[i].used
  BY <1>0 DEF Idle, Unreferenced, Unused
<1>3. LoadInv /\ DestroyInv /\ ApartInv /\ UnusedInv
  BY <1>2 DEF LoadInv, DestroyInv, ApartInv, UnusedInv
<1>4. HoldersInv /\ TexturesInv
  BY <1>0, <1>2 DEF HoldersInv, TexturesInv
<1>5. CountIsMaps
  <2>1. \A t \in Image : Pointing(t) = {}
    BY <1>2 DEF Pointing
  <2>2. ASSUME NEW t \in Image PROVE count[t] = Cardinality(Pointing(t)) + stray[t]
    BY <1>0, <2>1, FS_EmptySet
  <2> QED  BY <2>2 DEF CountIsMaps
<1> QED  BY <1>1, <1>3, <1>4, <1>5 DEF MInv

\* Calls on materials that are registered.
LEMMA AgainMInv == ASSUME MInv, NEW m \in Material, AcquireAgain(m) PROVE MInv'
<1>1. /\ TypeOK /\ LoadInv /\ DestroyInv /\ ApartInv /\ HoldersInv /\ TexturesInv /\ UnusedInv
      /\ CountIsMaps
  BY DEF MInv
<1>2. /\ call.op = "idle" /\ mref[m].handle # Null
      /\ mref' = Counted(m, mref[m].handle)
      /\ held' = [held EXCEPT ![m] = @ + 1]
      /\ UNCHANGED <<count, auto, image, open, slot, call, stray>>
  BY DEF AcquireAgain, Ready, Holds, textures
<1>3. /\ mref' \in [Material -> [count : Nat, handle : Slot \cup {Null}, auto : BOOLEAN]]
      /\ \A n \in Material : mref'[n].handle = mref[n].handle
      /\ \A n \in Material : mref'[n].count = IF n = m THEN mref[n].count + 1 ELSE mref[n].count
  <2>1. mref[m].handle \in Slot
    BY <1>1, <1>2 DEF TypeOK
  <2> QED  BY <1>1, <1>2, <2>1, CountedMref
<1>4. TypeOK'
  BY <1>1, <1>2, <1>3 DEF TypeOK
<1>5. LoadInv' /\ DestroyInv' /\ UnusedInv' /\ TexturesInv'
  BY <1>1, <1>2 DEF LoadInv, DestroyInv, UnusedInv, TexturesInv
<1>6. ApartInv'
  BY <1>1, <1>2, <1>3 DEF ApartInv
<1>7. HoldersInv'
  BY <1>1, <1>2, <1>3 DEF HoldersInv, TypeOK
<1>8. CountIsMaps'
  BY <1>1, <1>2 DEF CountIsMaps, Pointing, Destroying
<1> QED  BY <1>1, <1>4, <1>5, <1>6, <1>7, <1>8 DEF MInv

\* A free slot is taken for a load.
LEMMA NewMInv == ASSUME MInv, NEW m \in Material, AcquireNew(m) PROVE MInv'
<1>1. /\ TypeOK /\ LoadInv /\ DestroyInv /\ ApartInv /\ HoldersInv /\ TexturesInv /\ UnusedInv
      /\ CountIsMaps
  BY DEF MInv
<1>2. PICK i \in Slot : /\ ~slot[i].used
                        /\ slot' = [slot EXCEPT ![i] = [used |-> TRUE, map |-> NoMaps]]
                        /\ call' = [op |-> "load", material |-> m, slot |-> i, map |-> 1]
  BY DEF AcquireNew, FirstFree
<1>3. /\ call.op = "idle" /\ mref[m].handle = Null
      /\ UNCHANGED <<count, auto, image, open, mref, held, stray>>
  BY DEF AcquireNew, Ready, textures
<1>4. NoMaps \in [Map -> Image \cup {NoMap}] /\ \A k \in Map : NoMaps[k] = NoMap
  BY DEF NoMaps
<1>5. /\ slot' \in [Slot -> [used : BOOLEAN, map : [Map -> Image \cup {NoMap}]]]
      /\ slot'[i].used /\ slot'[i].map = NoMaps
      /\ \A k \in Slot : k # i => slot'[k] = slot[k]
  BY <1>1, <1>2, <1>4 DEF TypeOK
<1>6. call' \in [op : {"idle", "load", "destroy", "close", "closed"},
                 material : Material \cup {Null}, slot : 0 .. MaxMaterials, map : 1 .. 4]
  BY <1>2, Constants
<1>7. TypeOK'
  BY <1>1, <1>3, <1>5, <1>6 DEF TypeOK
<1>8. \A n \in Material : mref[n].handle # i
  BY <1>1, <1>2, <1>3, Constants DEF ApartInv
<1>9. LoadInv'
  BY <1>2, <1>3, <1>4, <1>5, <1>8 DEF LoadInv, Map
<1>10. ApartInv'
  BY <1>1, <1>2, <1>3, <1>5, <1>8 DEF ApartInv, TypeOK
<1>11. HoldersInv' /\ TexturesInv' /\ DestroyInv'
  BY <1>1, <1>2, <1>3 DEF HoldersInv, TexturesInv, DestroyInv
<1>12. UnusedInv'
  BY <1>1, <1>5 DEF UnusedInv
<1>13. CountIsMaps'
  <2>1. \A t \in Image : Pointing(t)' = Pointing(t)
    <3> SUFFICES ASSUME NEW t \in Image PROVE Pointing(t)' = Pointing(t)
      OBVIOUS
    <3>1. ~Destroying /\ ~Destroying'
      BY <1>2, <1>3 DEF Destroying
    <3>2. ASSUME NEW p \in Slot \X Map
          PROVE  (slot'[p[1]].used /\ slot'[p[1]].map[p[2]] = t)
                   <=> (slot[p[1]].used /\ slot[p[1]].map[p[2]] = t)
      BY <1>2, <1>4, <1>5, Constants
    <3> QED  BY <3>1, <3>2 DEF Pointing
  <2> QED  BY <1>1, <1>3, <2>1, SamePointing
<1> QED  BY <1>1, <1>7, <1>9, <1>10, <1>11, <1>12, <1>13 DEF MInv

\* A map of a material that loads gets its texture, and the texture a reference.
LEMMA LoadMapMInv == ASSUME MInv, LoadMap PROVE MInv'
<1> DEFINE i == call.slot
           k == call.map
<1>1. /\ TypeOK /\ LoadInv /\ DestroyInv /\ ApartInv /\ HoldersInv /\ TexturesInv /\ UnusedInv
      /\ CountIsMaps
  BY DEF MInv
<1>2. PICK t \in {Config[call.material][call.map], NoMap} :
      /\ call.op = "load" /\ k \in Map
      /\ slot' = [slot EXCEPT ![i].map[k] = t]
      /\ call' = [call EXCEPT !.map = @ + 1]
      /\ UNCHANGED <<mref, held, stray>>
      /\ IF t = NoMap THEN UNCHANGED textures ELSE Textures!Acquire(t, TRUE)
  BY DEF LoadMap
<1>3. /\ call.material \in Material /\ i \in Slot /\ slot[i].used
      /\ mref[call.material].handle = Null
      /\ \A m \in Material : mref[m].handle # i
      /\ \A l \in Map : /\ slot[i].map[l] \in {Config[call.material][l], NoMap}
                        /\ l >= k => slot[i].map[l] = NoMap
      /\ t \in Image \cup {NoMap}
  BY <1>1, <1>2, Constants DEF LoadInv
<1>4. /\ open' = open
      /\ count' \in [Image -> Nat] /\ auto' \in [Image -> BOOLEAN]
      /\ image' \in [Image -> {"none", "coming", "here", "lost"}]
      /\ \A u \in Image : count'[u] = IF u = t THEN count[u] + 1 ELSE count[u]
      /\ open => \A u \in Image : (image'[u] = "none" <=> count'[u] = 0) /\ (count'[u] > 0 => auto'[u])
  <2>1. CASE t = NoMap
    <3>1. UNCHANGED <<count, auto, image, open>>
      BY <1>2, <2>1 DEF textures
    <3> QED  BY <1>1, <2>1, <3>1, Constants DEF TypeOK, TexturesInv
  <2>2. CASE t # NoMap
    <3>1. t \in Image /\ Textures!Acquire(t, TRUE)
      BY <1>2, <1>3, <2>2
    <3>2. /\ open' = open /\ open
          /\ count' \in [Image -> Nat] /\ auto' \in [Image -> BOOLEAN]
          /\ image' \in [Image -> {"none", "coming", "here", "lost"}]
          /\ count' = [count EXCEPT ![t] = @ + 1]
          /\ \A u \in Image : image'[u] = "none" <=> count'[u] = 0
          /\ \A u \in Image : count'[u] > 0 => auto'[u]
      BY <1>1, <3>1, TextureAcquired, Zenon
    <3>3. \A u \in Image : count'[u] = IF u = t THEN count[u] + 1 ELSE count[u]
      BY <1>1, <3>1, <3>2 DEF TypeOK
    <3> QED  BY <3>2, <3>3, Zenon
  <2> QED  BY <2>1, <2>2
<1>5. /\ slot' \in [Slot -> [used : BOOLEAN, map : [Map -> Image \cup {NoMap}]]]
      /\ slot'[i].used
      /\ \A l \in Map : slot'[i].map[l] = IF l = k THEN t ELSE slot[i].map[l]
      /\ \A j \in Slot : j # i => slot'[j] = slot[j]
  BY <1>1, <1>2, <1>3 DEF TypeOK
<1>6. /\ call' \in [op : {"idle", "load", "destroy", "close", "closed"},
                   material : Material \cup {Null}, slot : 0 .. MaxMaterials, map : 1 .. 4]
      /\ call'.op = "load" /\ call'.slot = i /\ call'.material = call.material /\ call'.map = k + 1
  BY <1>1, <1>2, CallAdvances
<1>7. TypeOK'
  <2>1. open' \in BOOLEAN
    BY <1>1, <1>4 DEF TypeOK
  <2> QED  BY <1>1, <1>2, <1>4, <1>5, <1>6, <2>1 DEF TypeOK
<1>8. LoadInv'
  BY <1>1, <1>2, <1>3, <1>5, <1>6 DEF LoadInv, Map
<1>9. ApartInv'
  BY <1>1, <1>2, <1>3, <1>5, <1>6 DEF ApartInv, TypeOK
<1>10. HoldersInv' /\ DestroyInv'
  BY <1>1, <1>2, <1>6 DEF HoldersInv, DestroyInv
<1>11. TexturesInv'
  BY <1>1, <1>2, <1>4, <1>6 DEF TexturesInv
<1>12. UnusedInv'
  BY <1>1, <1>5 DEF UnusedInv
<1>13. CountIsMaps'
  <2> SUFFICES ASSUME CountIsMaps, open, NEW u \in Image
               PROVE  count'[u] = Cardinality(Pointing(u)') + stray[u]
    BY <1>1, <1>2, <1>4 DEF CountIsMaps
  <2>1. ~Destroying /\ ~Destroying'
    BY <1>2, <1>6 DEF Destroying
  <2>2. /\ count[u] = Cardinality(Pointing(u)) + stray[u] /\ stray[u] \in Nat
        /\ Cardinality(Pointing(u)) \in Nat /\ IsFiniteSet(Pointing(u))
    BY <1>1, PointingFinite DEF CountIsMaps, TypeOK
  <2>3. <<i, k>> \in Slot \X Map /\ <<i, k>> \notin Pointing(u)
    <3>1. slot[i].map[k] = NoMap /\ u # NoMap
      BY <1>2, <1>3, Constants DEF Map
    <3> QED  BY <1>2, <1>3, <3>1 DEF Pointing
  <2>4. ASSUME NEW x \in Slot, NEW y \in Map
        PROVE  <<x, y>> \in Pointing(u)' <=> (<<x, y>> \in Pointing(u) \/ (u = t /\ x = i /\ y = k))
    <3>1. <<x, y>> \in Pointing(u)' <=> slot'[x].used /\ slot'[x].map[y] = u
      BY <2>1 DEF Pointing
    <3>2. <<x, y>> \in Pointing(u) <=> slot[x].used /\ slot[x].map[y] = u
      BY <2>1 DEF Pointing
    <3>3. CASE x = i /\ y = k
      <4>1. <<x, y>> \notin Pointing(u)
        BY <2>3, <3>3
      <4>2. slot'[x].used /\ slot'[x].map[y] = t
        BY <1>5, <3>3
      <4> QED  BY <3>1, <3>3, <4>1, <4>2
    <3>4. CASE ~(x = i /\ y = k)
      BY <1>3, <1>5, <3>1, <3>2, <3>4
    <3> QED  BY <3>3, <3>4
  <2>5. Pointing(u)' = IF u = t THEN Pointing(u) \cup {<<i, k>>} ELSE Pointing(u)
    <3>1. Pointing(u) \subseteq Slot \X Map /\ Pointing(u)' \subseteq Slot \X Map
      BY DEF Pointing
    <3> QED  BY <2>3, <2>4, <3>1
  <2>6. CASE u = t
    <3>1. Cardinality(Pointing(u) \cup {<<i, k>>}) = Cardinality(Pointing(u)) + 1
      BY <2>2, <2>3, FS_AddElement
    <3> QED  BY <1>4, <2>2, <2>5, <2>6, <3>1
  <2>7. CASE u # t
    BY <1>4, <2>2, <2>5, <2>7
  <2> QED  BY <2>6, <2>7
<1> QED  BY <1>1, <1>7, <1>8, <1>9, <1>10, <1>11, <1>12, <1>13 DEF MInv

\* The load gives up: the slot keeps what it has.
LEMMA LoadStopsMInv == ASSUME MInv, LoadStops PROVE MInv'
<1>1. /\ TypeOK /\ LoadInv /\ DestroyInv /\ ApartInv /\ HoldersInv /\ TexturesInv /\ UnusedInv
      /\ CountIsMaps
  BY DEF MInv
<1>2. /\ call.op = "load" /\ call' = Idle
      /\ UNCHANGED <<count, auto, image, open, mref, slot, held, stray>>
  BY DEF LoadStops, textures
<1>3. TypeOK'
  BY <1>1, <1>2, Constants DEF TypeOK, Idle
<1>4. LoadInv' /\ DestroyInv' /\ UnusedInv'
  BY <1>1, <1>2 DEF LoadInv, DestroyInv, UnusedInv, Idle
<1>5. ApartInv' /\ HoldersInv' /\ TexturesInv'
  BY <1>1, <1>2 DEF ApartInv, HoldersInv, TexturesInv, Idle
<1>6. CountIsMaps'
  BY <1>1, <1>2 DEF CountIsMaps, Pointing, Destroying, Idle
<1> QED  BY <1>1, <1>3, <1>4, <1>5, <1>6 DEF MInv

\* The material that was loaded gets its entry, and the caller its reference.
LEMMA LoadEndMInv == ASSUME MInv, LoadEnd PROVE MInv'
<1> DEFINE m == call.material
           i == call.slot
<1>1. /\ TypeOK /\ LoadInv /\ DestroyInv /\ ApartInv /\ HoldersInv /\ TexturesInv /\ UnusedInv
      /\ CountIsMaps
  BY DEF MInv
<1>2. /\ call.op = "load" /\ call.map \notin Map /\ call' = Idle
      /\ mref' = Counted(m, i) /\ held' = [held EXCEPT ![m] = @ + 1]
      /\ UNCHANGED <<count, auto, image, open, slot, stray>>
  BY DEF LoadEnd, Holds, textures
<1>3. /\ m \in Material /\ i \in Slot /\ slot[i].used /\ mref[m].handle = Null
      /\ \A n \in Material : mref[n].handle # i
      /\ \A k \in Map : slot[i].map[k] \in {Config[m][k], NoMap}
  BY <1>1, <1>2 DEF LoadInv
<1>4. /\ mref' \in [Material -> [count : Nat, handle : Slot \cup {Null}, auto : BOOLEAN]]
      /\ \A n \in Material : mref'[n].handle = IF n = m THEN i ELSE mref[n].handle
      /\ \A n \in Material : mref'[n].count = IF n = m THEN mref[n].count + 1 ELSE mref[n].count
  <2> HIDE DEF m, i
  <2> QED  BY <1>1, <1>2, <1>3, CountedMref
<1>5. TypeOK'
  <2>1. held' \in [Material -> Nat]
    <3>1. held \in [Material -> Nat] /\ held[m] + 1 \in Nat
      BY <1>1, <1>3 DEF TypeOK
    <3> QED  BY <1>2, <3>1
  <2>2. call' \in [op : {"idle", "load", "destroy", "close", "closed"},
                   material : Material \cup {Null}, slot : 0 .. MaxMaterials, map : 1 .. 4]
    BY <1>2, Constants DEF Idle
  <2> QED  BY <1>1, <1>2, <1>4, <2>1, <2>2 DEF TypeOK
<1>6. call'.op = "idle"
  BY <1>2 DEF Idle
<1>7. LoadInv' /\ DestroyInv' /\ UnusedInv' /\ TexturesInv'
  BY <1>1, <1>2, <1>6 DEF LoadInv, DestroyInv, UnusedInv, TexturesInv
<1>8. ApartInv'
  <2> HIDE DEF m, i
  <2> QED  BY <1>1, <1>2, <1>3, <1>4, <1>6 DEF ApartInv
<1>9. HoldersInv'
  <2>1. mref[m].count = 0 /\ held[m] = 0
    BY <1>1, <1>2, <1>3 DEF HoldersInv, TypeOK
  <2>2. \A n \in Material : held'[n] = IF n = m THEN held[n] + 1 ELSE held[n]
    BY <1>1, <1>2, <1>3 DEF TypeOK
  <2>3. i # Null
    BY <1>3, Constants
  <2> HIDE DEF m, i
  <2> QED  BY <1>1, <1>2, <1>3, <1>4, <1>6, <2>1, <2>2, <2>3 DEF HoldersInv
<1>10. CountIsMaps'
  <2>1. ~Destroying /\ ~Destroying'
    BY <1>2, <1>6 DEF Destroying
  <2>2. \A t \in Image : Pointing(t)' = Pointing(t)
    BY <1>2, <2>1 DEF Pointing
  <2> QED  BY <1>1, <1>2, <2>2, SamePointing
<1> QED  BY <1>1, <1>5, <1>7, <1>8, <1>9, <1>10 DEF MInv

\* A reference is given back; the last one starts to destroy the material.
LEMMA ReleaseMInv == ASSUME MInv, NEW m \in Material, Release(m) PROVE MInv'
<1> DEFINE last == mref[m].count = 1 /\ mref[m].auto
           i == mref[m].handle
<1>1. /\ TypeOK /\ LoadInv /\ DestroyInv /\ ApartInv /\ HoldersInv /\ TexturesInv /\ UnusedInv
      /\ CountIsMaps
  BY DEF MInv
<1>2. /\ call.op = "idle" /\ held[m] > 0
      /\ held' = [held EXCEPT ![m] = @ - 1]
      /\ UNCHANGED <<count, auto, image, open, slot, stray>>
      /\ IF last THEN /\ call' = [op |-> "destroy", material |-> m, slot |-> i, map |-> 1]
                      /\ UNCHANGED mref
                 ELSE mref' = [mref EXCEPT ![m].count = @ - 1] /\ UNCHANGED call
  BY DEF Release, Ready, textures
<1>3. mref[m].count = held[m] /\ i \in Slot
  BY <1>1, <1>2 DEF HoldersInv, TypeOK
<1>4. /\ held' \in [Material -> Nat]
      /\ \A n \in Material : held'[n] = IF n = m THEN held[n] - 1 ELSE held[n]
  BY <1>1, <1>2 DEF TypeOK
<1>5. LoadInv' /\ UnusedInv' /\ TexturesInv'
  <2>1. call'.op \in {"idle", "destroy"}
    BY <1>2
  <2> QED  BY <1>1, <1>2, <2>1 DEF LoadInv, UnusedInv, TexturesInv
<1>6. CountIsMaps'
  <2>1. ~Destroying /\ (Destroying' => call'.map = 1)
    BY <1>2 DEF Destroying
  <2>2. \A t \in Image : Pointing(t)' = Pointing(t)
    BY <1>2, <2>1 DEF Pointing, Map
  <2> QED  BY <1>1, <1>2, <2>2, SamePointing
<1>7. CASE last
  <2>0. /\ call' = [op |-> "destroy", material |-> m, slot |-> i, map |-> 1] /\ UNCHANGED mref
        /\ mref[m].count = 1
    BY <1>2, <1>7
  <2> HIDE DEF last, i
  <2>1. TypeOK'
    <3>1. call' \in [op : {"idle", "load", "destroy", "close", "closed"},
                     material : Material \cup {Null}, slot : 0 .. MaxMaterials, map : 1 .. 4]
      BY <1>3, <2>0, Constants
    <3> QED  BY <1>1, <1>2, <1>4, <2>0, <3>1 DEF TypeOK
  <2>2. DestroyInv'
    BY <1>3, <2>0 DEF DestroyInv, i
  <2>3. ApartInv'
    BY <1>1, <1>2, <2>0 DEF ApartInv
  <2>4. HoldersInv'
    BY <1>1, <1>2, <1>3, <1>4, <2>0 DEF HoldersInv, TypeOK
  <2> QED  BY <1>1, <1>5, <1>6, <2>1, <2>2, <2>3, <2>4 DEF MInv
<1>8. CASE ~last
  <2>0. mref' = [mref EXCEPT ![m].count = @ - 1] /\ UNCHANGED call
    BY <1>2, <1>8
  <2> HIDE DEF last
  <2>1. /\ mref' \in [Material -> [count : Nat, handle : Slot \cup {Null}, auto : BOOLEAN]]
        /\ \A n \in Material : /\ mref'[n].handle = mref[n].handle
                               /\ mref'[n].count = IF n = m THEN mref[n].count - 1 ELSE mref[n].count
    <3>1. mref[m].count - 1 \in Nat
      BY <1>1, <1>2, <1>3 DEF TypeOK
    <3>2. mref \in [Material -> [count : Nat, handle : Slot \cup {Null}, auto : BOOLEAN]]
      BY <1>1 DEF TypeOK
    <3> HIDE DEF i
    <3>3. mref' = [mref EXCEPT ![m].count = mref[m].count - 1]
      BY <2>0
    <3>4. mref' \in [Material -> [count : Nat, handle : Slot \cup {Null}, auto : BOOLEAN]]
      BY <3>1, <3>2, <3>3
    <3>5. \A n \in Material : /\ mref'[n].handle = mref[n].handle
                             /\ mref'[n].count = IF n = m THEN mref[n].count - 1 ELSE mref[n].count
      BY <3>2, <3>3
    <3> QED  BY <3>4, <3>5
  <2>2. TypeOK'
    BY <1>1, <1>2, <1>4, <2>0, <2>1 DEF TypeOK
  <2>3. ApartInv' /\ DestroyInv'
    BY <1>1, <1>2, <2>0, <2>1 DEF ApartInv, DestroyInv
  <2>4. HoldersInv'
    BY <1>1, <1>2, <1>3, <1>4, <2>0, <2>1 DEF HoldersInv, TypeOK
  <2> QED  BY <1>1, <1>5, <1>6, <2>2, <2>3, <2>4 DEF MInv
<1> QED  BY <1>7, <1>8

\* A map gives up its reference, or has none to give up.
LEMMA DestroyMapMInv == ASSUME MInv, DestroyMap PROVE MInv'
<1> DEFINE i == call.slot
           k == call.map
           t == slot[call.slot].map[call.map]
<1>1. /\ TypeOK /\ LoadInv /\ DestroyInv /\ ApartInv /\ HoldersInv /\ TexturesInv /\ UnusedInv
      /\ CountIsMaps
  BY DEF MInv
<1>2. /\ Destroying /\ k \in Map
      /\ call' = [call EXCEPT !.map = @ + 1]
      /\ UNCHANGED <<mref, slot, held>>
      /\ IF t # NoMap /\ image[t] = "here" THEN Textures!Release(t)
                                         ELSE UNCHANGED <<count, auto, image, open>>
      /\ stray' = IF t # NoMap /\ image[t] # "here" THEN [stray EXCEPT ![t] = @ + 1] ELSE stray
  BY DEF DestroyMap, GoesAstray, textures
<1>3. call.op \in {"destroy", "close"} /\ i \in Slot /\ slot[i].used /\ t \in Image \cup {NoMap}
  <2>1. CASE call.op = "destroy"
    <3>1. i \in Slot /\ call.material \in Material /\ mref[call.material].handle = i
      BY <1>1, <2>1 DEF DestroyInv
    <3>2. slot[i].used
      BY <1>1, <2>1, <3>1, Constants DEF ApartInv
    <3> QED  BY <1>1, <1>2, <2>1, <3>1, <3>2 DEF TypeOK
  <2>2. CASE call.op = "close"
    <3>1. i \in Slot /\ slot[i].used
      BY <1>2, <2>2 DEF Destroying
    <3> QED  BY <1>1, <1>2, <2>2, <3>1 DEF TypeOK
  <2> QED  BY <1>2, <2>1, <2>2 DEF Destroying
<1> DEFINE released == t # NoMap /\ image[t] = "here"
<1>4. /\ open' = open
      /\ count' \in [Image -> Nat] /\ auto' \in [Image -> BOOLEAN]
      /\ image' \in [Image -> {"none", "coming", "here", "lost"}]
      /\ \A u \in Image : count'[u] = IF released /\ u = t THEN count[u] - 1 ELSE count[u]
      /\ \A u \in Image : image'[u] \in {image[u], "none"}
      /\ open => \A u \in Image : (image'[u] = "none" <=> count'[u] = 0) /\ (count'[u] > 0 => auto'[u])
  <2>1. CASE ~released
    <3>1. UNCHANGED <<count, auto, image, open>>
      BY <1>2, <2>1
    <3> QED  BY <1>1, <2>1, <3>1 DEF TypeOK, TexturesInv
  <2>2. CASE released
    <3>1. t \in Image /\ Textures!Release(t)
      BY <1>2, <1>3, <2>2
    <3> HIDE DEF t
    <3> QED  BY <1>1, <2>2, <3>1, TextureReleased DEF TypeOK
  <2> QED  BY <2>1, <2>2
<1>5. /\ call' \in [op : {"idle", "load", "destroy", "close", "closed"},
                   material : Material \cup {Null}, slot : 0 .. MaxMaterials, map : 1 .. 4]
      /\ call'.op = call.op /\ call'.slot = i /\ call'.material = call.material /\ call'.map = k + 1
  BY <1>1, <1>2, CallAdvances
<1> HIDE DEF released
<1>6. TypeOK'
  <2>1. open' \in BOOLEAN
    BY <1>1, <1>4 DEF TypeOK
  <2>2. stray' \in [Image -> Nat]
    <3>1. CASE t # NoMap /\ image[t] # "here"
      <4>1. t \in Image /\ stray' = [stray EXCEPT ![t] = @ + 1]
        BY <1>2, <1>3, <3>1
      <4> HIDE DEF t
      <4> QED  BY <1>1, <4>1 DEF TypeOK
    <3>2. CASE ~(t # NoMap /\ image[t] # "here")
      BY <1>1, <1>2, <3>2 DEF TypeOK
    <3> QED  BY <3>1, <3>2
  <2> QED  BY <1>1, <1>2, <1>4, <1>5, <2>1, <2>2 DEF TypeOK
<1>7. LoadInv' /\ UnusedInv'
  BY <1>1, <1>2, <1>3, <1>5 DEF LoadInv, UnusedInv
<1>8. DestroyInv' /\ ApartInv' /\ HoldersInv'
  BY <1>1, <1>2, <1>5 DEF DestroyInv, ApartInv, HoldersInv
<1>9. TexturesInv'
  BY <1>1, <1>3, <1>4, <1>5 DEF TexturesInv
<1>10. CountIsMaps'
  <2> SUFFICES ASSUME CountIsMaps, open, NEW u \in Image
               PROVE  count'[u] = Cardinality(Pointing(u)') + stray'[u]
    BY <1>1, <1>4 DEF CountIsMaps
  <2>1. Destroying'
    BY <1>2, <1>5 DEF Destroying
  <2>2. /\ count[u] = Cardinality(Pointing(u)) + stray[u] /\ stray[u] \in Nat
        /\ Cardinality(Pointing(u)) \in Nat /\ IsFiniteSet(Pointing(u))
    BY <1>1, PointingFinite DEF CountIsMaps, TypeOK
  <2>3. ASSUME NEW x \in Slot, NEW y \in Map
        PROVE  <<x, y>> \in Pointing(u)' <=> (<<x, y>> \in Pointing(u) /\ ~(x = i /\ y = k))
    <3>1. <<x, y>> \in Pointing(u)'
            <=> slot[x].used /\ slot[x].map[y] = u /\ (i = x => y >= k + 1)
      BY <1>2, <1>5, <2>1 DEF Pointing
    <3>2. <<x, y>> \in Pointing(u)
            <=> slot[x].used /\ slot[x].map[y] = u /\ (i = x => y >= k)
      BY <1>2 DEF Pointing
    <3>3. y >= k + 1 <=> (y >= k /\ y # k)
      BY <1>2 DEF Map
    <3> QED  BY <3>1, <3>2, <3>3
  <2>4. Pointing(u)' = Pointing(u) \ {<<i, k>>}
    <3>1. Pointing(u) \subseteq Slot \X Map /\ Pointing(u)' \subseteq Slot \X Map
      BY DEF Pointing
    <3> QED  BY <2>3, <3>1
  <2>5. <<i, k>> \in Pointing(u) <=> u = t
    BY <1>2, <1>3 DEF Pointing, Map
  <2>6. CASE u = t
    <3>1. u # NoMap /\ <<i, k>> \in Pointing(u)
      BY <2>5, <2>6, Constants
    <3>2. Cardinality(Pointing(u)') = Cardinality(Pointing(u)) - 1
      <4>1. IsFiniteSet(Pointing(u)) /\ <<i, k>> \in Pointing(u)
        BY <2>2, <3>1
      <4>2. Cardinality(Pointing(u) \ {<<i, k>>}) = Cardinality(Pointing(u)) - 1
        BY <4>1, FS_RemoveElement
      <4> QED  BY <2>4, <4>2
    <3>3. CASE released
      <4>1. stray' = stray
        BY <1>2, <3>3 DEF released
      <4>2. count'[u] = count[u] - 1
        BY <1>4, <2>6, <3>3
      <4> QED  BY <2>2, <3>2, <4>1, <4>2
    <3>4. CASE ~released
      <4>1. stray'[u] = stray[u] + 1
        BY <1>1, <1>2, <2>6, <3>1, <3>4 DEF released, TypeOK
      <4>2. count'[u] = count[u]
        BY <1>4, <3>4
      <4> QED  BY <2>2, <3>2, <4>1, <4>2
    <3> QED  BY <3>3, <3>4
  <2>7. CASE u # t
    <3>1. Pointing(u)' = Pointing(u)
      BY <2>4, <2>5, <2>7
    <3>2. stray'[u] = stray[u]
      BY <1>1, <1>2, <2>7 DEF TypeOK
    <3> QED  BY <1>4, <2>2, <2>7, <3>1, <3>2
  <2> QED  BY <2>6, <2>7
<1> QED  BY <1>1, <1>6, <1>7, <1>8, <1>9, <1>10 DEF MInv

\* The slot and the entry of a destroyed material are cleared.
LEMMA DestroyEndMInv == ASSUME MInv, DestroyEnd PROVE MInv'
<1> DEFINE i == call.slot
           m == call.material
<1>1. /\ TypeOK /\ LoadInv /\ DestroyInv /\ ApartInv /\ HoldersInv /\ TexturesInv /\ UnusedInv
      /\ CountIsMaps
  BY DEF MInv
<1>2. /\ call.op = "destroy" /\ call.map \notin Map /\ call' = Idle
      /\ slot' = [slot EXCEPT ![i] = Unused]
      /\ mref' = [mref EXCEPT ![m] = Unreferenced]
      /\ UNCHANGED <<count, auto, image, open, held, stray>>
  BY DEF DestroyEnd, textures
<1>3. m \in Material /\ i \in Slot /\ mref[m].handle = i /\ mref[m].count = 1
  BY <1>1, <1>2 DEF DestroyInv
<1>4. /\ slot' \in [Slot -> [used : BOOLEAN, map : [Map -> Image \cup {NoMap}]]]
      /\ slot'[i] = Unused /\ \A j \in Slot : j # i => slot'[j] = slot[j]
      /\ ~Unused.used
  <2>1. Unused \in [used : BOOLEAN, map : [Map -> Image \cup {NoMap}]] /\ ~Unused.used
    BY DEF Unused, NoMaps
  <2> QED  BY <1>1, <1>2, <1>3, <2>1 DEF TypeOK
<1>5. /\ mref' \in [Material -> [count : Nat, handle : Slot \cup {Null}, auto : BOOLEAN]]
      /\ mref'[m].handle = Null /\ mref'[m].count = 0
      /\ \A n \in Material : n # m => mref'[n] = mref[n]
  BY <1>1, <1>2, <1>3 DEF TypeOK, Unreferenced
<1>6. call'.op = "idle" /\ call' \in [op : {"idle", "load", "destroy", "close", "closed"},
                 material : Material \cup {Null}, slot : 0 .. MaxMaterials, map : 1 .. 4]
  BY <1>2, Constants DEF Idle
<1> HIDE DEF i, m
<1>7. TypeOK'
  BY <1>1, <1>2, <1>4, <1>5, <1>6 DEF TypeOK
<1>8. LoadInv' /\ DestroyInv' /\ TexturesInv'
  BY <1>1, <1>2, <1>6 DEF LoadInv, DestroyInv, TexturesInv
<1>9. UnusedInv'
  BY <1>1, <1>3, <1>4 DEF UnusedInv
<1>10. ApartInv'
  <2>1. \A n \in Material : n # m /\ mref[n].handle # Null => mref[n].handle # i
    BY <1>1, <1>2, <1>3 DEF ApartInv
  <2>2. \A n \in Material : mref'[n].handle # Null =>
          n # m /\ mref'[n] = mref[n] /\ mref[n].handle \in Slot /\ slot'[mref[n].handle] = slot[mref[n].handle]
    BY <1>1, <1>4, <1>5, <2>1 DEF TypeOK
  <2> QED  BY <1>1, <1>2, <2>2 DEF ApartInv
<1>11. HoldersInv'
  <2>1. held[m] = 0
    BY <1>1, <1>2, <1>3 DEF HoldersInv, TypeOK, m
  <2>2. \A n \in Material : n # m => (mref[n].count > 0 => mref[n].handle # Null) /\ mref[n].count = held[n]
    BY <1>1, <1>2 DEF HoldersInv, TypeOK, m
  <2> QED  BY <1>1, <1>2, <1>3, <1>5, <1>6, <2>1, <2>2 DEF HoldersInv, TypeOK
<1>12. CountIsMaps'
  <2>1. Destroying /\ ~Destroying' /\ call.map = 4
    BY <1>1, <1>2, <1>6 DEF Destroying, TypeOK, Map
  <2>2. ASSUME NEW t \in Image PROVE Pointing(t)' = Pointing(t)
    <3>1. ASSUME NEW x \in Slot, NEW y \in Map
          PROVE  (slot'[x].used /\ slot'[x].map[y] = t)
                   <=> (slot[x].used /\ slot[x].map[y] = t /\ (call.slot = x => y >= call.map))
      <4>1. CASE x = i
        BY <1>4, <2>1, <4>1 DEF i, Map
      <4>2. CASE x # i
        BY <1>4, <4>2 DEF i
      <4> QED  BY <4>1, <4>2
    <3> QED  BY <2>1, <3>1 DEF Pointing
  <2> QED  BY <1>1, <1>2, <2>2, SamePointing
<1> QED  BY <1>1, <1>7, <1>8, <1>9, <1>10, <1>11, <1>12 DEF MInv

\* The system starts to shut down.
LEMMA ShutdownMInv == ASSUME MInv, Shutdown PROVE MInv'
<1>1. /\ TypeOK /\ LoadInv /\ DestroyInv /\ ApartInv /\ HoldersInv /\ TexturesInv /\ UnusedInv
      /\ CountIsMaps
  BY DEF MInv
<1>2. /\ call.op = "idle" /\ open
      /\ call' = [op |-> "close", material |-> Null, slot |-> 0, map |-> 1]
      /\ UNCHANGED <<count, auto, image, open, mref, slot, held, stray>>
  BY DEF Shutdown, Ready, Idle, textures
<1>3. TypeOK'
  BY <1>1, <1>2, Constants DEF TypeOK
<1>4. LoadInv' /\ DestroyInv' /\ ApartInv' /\ HoldersInv' /\ TexturesInv' /\ UnusedInv'
  BY <1>1, <1>2 DEF LoadInv, DestroyInv, ApartInv, HoldersInv, TexturesInv, UnusedInv
<1>5. CountIsMaps'
  <2>1. ~Destroying /\ call'.map = 1
    BY <1>2 DEF Destroying
  <2>2. \A t \in Image : Pointing(t)' = Pointing(t)
    BY <1>2, <2>1 DEF Pointing, Map
  <2> QED  BY <1>1, <1>2, <2>2, SamePointing
<1> QED  BY <1>1, <1>3, <1>4, <1>5 DEF MInv

\* A slot is done with.
LEMMA CloseSlotMInv == ASSUME MInv, CloseSlot PROVE MInv'
<1> DEFINE i == call.slot
<1>1. /\ TypeOK /\ LoadInv /\ DestroyInv /\ ApartInv /\ HoldersInv /\ TexturesInv /\ UnusedInv
      /\ CountIsMaps
  BY DEF MInv
<1>2. /\ call.op = "close" /\ i \in Slot
      /\ slot[i].used => call.map \notin Map
      /\ slot' = [slot EXCEPT ![i] = Unused]
      /\ call' = [call EXCEPT !.slot = @ + 1, !.map = 1]
      /\ UNCHANGED <<count, auto, image, open, mref, held, stray>>
  BY DEF CloseSlot, textures
<1>3. /\ slot' \in [Slot -> [used : BOOLEAN, map : [Map -> Image \cup {NoMap}]]]
      /\ slot'[i] = Unused /\ \A j \in Slot : j # i => slot'[j] = slot[j]
      /\ ~Unused.used /\ \A k \in Map : Unused.map[k] = NoMap
  <2>1. /\ Unused \in [used : BOOLEAN, map : [Map -> Image \cup {NoMap}]]
        /\ ~Unused.used /\ \A k \in Map : Unused.map[k] = NoMap
    BY DEF Unused, NoMaps
  <2> QED  BY <1>1, <1>2, <2>1 DEF TypeOK
<1>4. /\ call' \in [op : {"idle", "load", "destroy", "close", "closed"},
                   material : Material \cup {Null}, slot : 0 .. MaxMaterials, map : 1 .. 4]
      /\ call'.op = "close" /\ call'.map = 1 /\ call'.slot = i + 1
  <2>1. i + 1 \in 0 .. MaxMaterials
    BY <1>2, BoundAssumption DEF Slot
  <2>2. call' = [op |-> "close", material |-> call.material, slot |-> i + 1, map |-> 1]
    BY <1>1, <1>2 DEF TypeOK
  <2> QED  BY <1>1, <2>1, <2>2 DEF TypeOK
<1>5. TypeOK'
  BY <1>1, <1>2, <1>3, <1>4 DEF TypeOK
<1>6. LoadInv' /\ DestroyInv' /\ ApartInv' /\ HoldersInv' /\ TexturesInv'
  BY <1>1, <1>2, <1>4 DEF LoadInv, DestroyInv, ApartInv, HoldersInv, TexturesInv
<1> HIDE DEF i
<1>7. UnusedInv'
  BY <1>1, <1>3 DEF UnusedInv
<1>8. CountIsMaps'
  <2>1. ASSUME NEW t \in Image PROVE Pointing(t)' = Pointing(t)
    <3>1. ASSUME NEW x \in Slot, NEW y \in Map
          PROVE  (slot'[x].used /\ slot'[x].map[y] = t)
                   <=> (/\ slot[x].used /\ slot[x].map[y] = t
                        /\ (Destroying /\ call.slot = x => y >= call.map))
      <4>1. CASE x = i
        <5>1. slot[i].used => Destroying /\ call.map = 4
          BY <1>1, <1>2 DEF Destroying, TypeOK, Map, i
        <5> QED  BY <1>3, <4>1, <5>1 DEF i, Map
      <4>2. CASE x # i
        BY <1>3, <4>2 DEF i
      <4> QED  BY <4>1, <4>2
    <3>2. \A y \in Map : y >= call'.map
      BY <1>4 DEF Map
    <3> QED  BY <3>1, <3>2 DEF Pointing
  <2> QED  BY <1>1, <1>2, <2>1, SamePointing
<1> QED  BY <1>1, <1>5, <1>6, <1>7, <1>8 DEF MInv

\* The texture system is shut down after the material system.
LEMMA CloseTexturesMInv == ASSUME MInv, CloseTextures PROVE MInv'
<1>1. /\ TypeOK /\ LoadInv /\ DestroyInv /\ ApartInv /\ HoldersInv /\ TexturesInv /\ UnusedInv
  BY DEF MInv
<1>2. /\ call.op = "close" /\ call' = [call EXCEPT !.op = "closed"]
      /\ open' = FALSE /\ image' = [n \in Image |-> "none"]
      /\ UNCHANGED <<count, auto, mref, slot, held, stray>>
  BY DEF CloseTextures, Textures!Close
<1>3. /\ call'.op = "closed"
      /\ call' \in [op : {"idle", "load", "destroy", "close", "closed"},
                   material : Material \cup {Null}, slot : 0 .. MaxMaterials, map : 1 .. 4]
  BY <1>1, <1>2 DEF TypeOK
<1>4. TypeOK'
  <2>1. image' \in [Image -> {"none", "coming", "here", "lost"}] /\ open' \in BOOLEAN
    BY <1>2
  <2> QED  BY <1>1, <1>2, <1>3, <2>1 DEF TypeOK
<1>5. LoadInv' /\ DestroyInv' /\ ApartInv' /\ HoldersInv' /\ TexturesInv' /\ UnusedInv'
  BY <1>1, <1>2, <1>3 DEF LoadInv, DestroyInv, ApartInv, HoldersInv, TexturesInv, UnusedInv
<1>6. CountIsMaps'
  BY <1>2, <1>3 DEF CountIsMaps
<1> QED  BY <1>4, <1>5, <1>6 DEF MInv

\* A texture arrives, or its load is dropped.
LEMMA ArriveMInv == ASSUME MInv, NEW t \in Image, Arrive(t) \/ Drop(t) PROVE MInv'
<1>1. /\ TypeOK /\ LoadInv /\ DestroyInv /\ ApartInv /\ HoldersInv /\ TexturesInv /\ UnusedInv
      /\ CountIsMaps
  BY DEF MInv
<1>2. PICK i \in {"here", "lost"} :
        /\ call.op = "idle" /\ image[t] = "coming" /\ image' = [image EXCEPT ![t] = i]
        /\ UNCHANGED <<count, auto, open, mref, slot, call, held, stray>>
  BY DEF Arrive, Drop, Ready, Textures!Arrive, Textures!Drop
<1>3. TypeOK'
  BY <1>1, <1>2 DEF TypeOK
<1>4. LoadInv' /\ DestroyInv' /\ ApartInv' /\ HoldersInv' /\ UnusedInv'
  BY <1>1, <1>2 DEF LoadInv, DestroyInv, ApartInv, HoldersInv, UnusedInv
<1>5. TexturesInv'
  BY <1>1, <1>2 DEF TexturesInv, TypeOK
<1>6. CountIsMaps'
  BY <1>1, <1>2 DEF CountIsMaps, Pointing, Destroying
<1> QED  BY <1>1, <1>3, <1>4, <1>5, <1>6 DEF MInv

\* Every step of every call, and of the loads between them, keeps the invariant.
LEMMA NextMInv == MInv /\ [Next]_vars => MInv'
<1> SUFFICES ASSUME MInv, [Next]_vars PROVE MInv'
  OBVIOUS
<1>1. CASE UNCHANGED vars
  BY <1>1 DEF vars, MInv, TypeOK, LoadInv, DestroyInv, ApartInv, HoldersInv, TexturesInv, UnusedInv,
              CountIsMaps, Pointing, Destroying
<1>2. CASE \E m \in Material : AcquireAgain(m) \/ AcquireNew(m) \/ Release(m)
  BY <1>2, AgainMInv, NewMInv, ReleaseMInv
<1>3. CASE LoadMap \/ LoadStops \/ LoadEnd
  BY <1>3, LoadMapMInv, LoadStopsMInv, LoadEndMInv
<1>4. CASE DestroyMap \/ DestroyEnd
  BY <1>4, DestroyMapMInv, DestroyEndMInv
<1>5. CASE Shutdown \/ CloseSlot \/ CloseTextures
  BY <1>5, ShutdownMInv, CloseSlotMInv, CloseTexturesMInv
<1>6. CASE \E t \in Image : Arrive(t) \/ Drop(t)
  BY <1>6, ArriveMInv
<1> QED  BY <1>1, <1>2, <1>3, <1>4, <1>5, <1>6 DEF Next

-----------------------------------------------------------------------------
\* The inductive invariant of the material system, for every number of textures,
\* materials and slots, whenever materials go and textures arrive.
THEOREM MaterialInvariant == Spec => []MInv
<1>1. Init => MInv
  BY InitMInv
<1>2. MInv /\ [Next]_vars => MInv'
  BY NextMInv
<1> QED  BY <1>1, <1>2, PTL DEF Spec

\* Every record of the material system and of its textures stays well formed,
\* however many materials, maps and slots there are.
THEOREM MaterialTypeCorrect == Spec => []TypeOK
<1>1. MInv => TypeOK
  BY DEF MInv
<1> QED  BY <1>1, MaterialInvariant, PTL

\* Two registered materials never lead to the same slot, and the slot of each has
\* the maps its configuration names: a slot is found free, filled and entered
\* without another material getting in between.
THEOREM MaterialsStayApart == Spec => []MaterialsApart
<1>1. MInv => MaterialsApart
  BY DEF MInv, ApartInv, MaterialsApart
<1> QED  BY <1>1, MaterialInvariant, PTL

\* Between calls a material counts its callers' references exactly, whatever
\* loads failed before.
THEOREM MaterialCountExact == Spec => []CountIsHolders
<1>1. MInv => CountIsHolders
  BY DEF MInv, HoldersInv, CountIsHolders, Ready, TypeOK
<1> QED  BY <1>1, MaterialInvariant, PTL

\* The references of a texture are the maps that point at it and those given up
\* before it had arrived, at every step of every call.
THEOREM TextureCountExact == Spec => []CountIsMaps
<1>1. MInv => CountIsMaps
  BY DEF MInv
<1> QED  BY <1>1, MaterialInvariant, PTL

\* And no map points at a texture that is gone.
THEOREM MapsStayAlive == Spec => []MapAlive
<1>1. MInv => MapAlive
  <2> SUFFICES ASSUME MInv, open, NEW t \in Image, Pointing(t) # {} PROVE image[t] # "none"
    BY DEF MapAlive
  <2>1. count[t] = Cardinality(Pointing(t)) + stray[t] /\ stray[t] \in Nat
    BY DEF MInv, CountIsMaps, TypeOK
  <2>2. Cardinality(Pointing(t)) # 0 /\ Cardinality(Pointing(t)) \in Nat
    BY PointingFinite, FS_EmptySet
  <2> QED  BY <2>1, <2>2 DEF MInv, TexturesInv
<1> QED  BY <1>1, MaterialInvariant, PTL

\* Registered materials: their slots and their counts.
THEOREM MaterialsStayOwned == Spec => []MaterialsOwned
  BY MaterialsStayApart, MaterialCountExact, PTL DEF MaterialsOwned

\* Their textures, from load_material to destroy_material.
THEOREM TexturesStayHeld == Spec => []TexturesHeld
  BY TextureCountExact, MapsStayAlive, PTL DEF TexturesHeld

-----------------------------------------------------------------------------
\* The shutdown has emptied the slots it has passed, and when it is over, only
\* stray references are left.
SweptInv ==
  /\ call.op = "close" => \A i \in Slot : i < call.slot => ~slot[i].used
  /\ NothingLeft

\* The shutdown goes through the slots in order and gives up the maps of each:
\* when none is left, nothing points at a texture.
LEMMA NextSweptInv == MInv /\ SweptInv /\ [Next]_vars => SweptInv'
<1> SUFFICES ASSUME MInv, SweptInv, [Next]_vars PROVE SweptInv'
  OBVIOUS
<1>1. TypeOK /\ CountIsMaps /\ TexturesInv
  BY DEF MInv
<1>2. ASSUME call'.op \notin {"close", "closed"} PROVE SweptInv'
  BY <1>2 DEF SweptInv, NothingLeft
<1>3. ASSUME \E m \in Material : AcquireAgain(m) \/ AcquireNew(m) \/ Release(m) PROVE SweptInv'
  <2>1. call'.op \notin {"close", "closed"}
    BY <1>3 DEF AcquireAgain, AcquireNew, Release, Ready
  <2> QED  BY <1>2, <2>1
<1>4. ASSUME LoadMap \/ LoadStops \/ LoadEnd \/ DestroyEnd PROVE SweptInv'
  <2>1. call'.op \in {"load", "idle"}
    <3>1. CASE LoadMap
      BY <1>1, <3>1, CallAdvances DEF LoadMap
    <3>2. CASE LoadStops \/ LoadEnd \/ DestroyEnd
      BY <3>2 DEF LoadStops, LoadEnd, DestroyEnd, Idle
    <3> QED  BY <1>4, <3>1, <3>2
  <2> QED  BY <1>2, <2>1
<1>5. ASSUME \E t \in Image : Arrive(t) \/ Drop(t) PROVE SweptInv'
  <2>1. call'.op = "idle"
    BY <1>5 DEF Arrive, Drop, Ready
  <2> QED  BY <1>2, <2>1
<1>6. ASSUME Shutdown PROVE SweptInv'
  <2>1. call' = [op |-> "close", material |-> Null, slot |-> 0, map |-> 1]
    BY <1>6 DEF Shutdown, Idle
  <2>2. \A i \in Slot : ~(i < 0)
    BY DEF Slot
  <2> QED  BY <2>1, <2>2 DEF SweptInv, NothingLeft
<1>7. ASSUME DestroyMap PROVE SweptInv'
  <2>1. /\ call'.op = call.op /\ call'.slot = call.slot /\ slot' = slot
        /\ call.op \in {"destroy", "close"}
    BY <1>1, <1>7, CallAdvances DEF DestroyMap, Destroying
  <2> QED  BY <2>1 DEF SweptInv, NothingLeft
<1>8. ASSUME CloseSlot PROVE SweptInv'
  <2>1. /\ call.op = "close" /\ call.slot \in Slot /\ slot' = [slot EXCEPT ![call.slot] = Unused]
        /\ call' = [call EXCEPT !.slot = @ + 1, !.map = 1]
    BY <1>8 DEF CloseSlot
  <2>2. call'.op = "close" /\ call'.slot = call.slot + 1
    BY <1>1, <2>1 DEF TypeOK
  <2>3. \A i \in Slot : i < call'.slot => ~slot'[i].used
    <3> SUFFICES ASSUME NEW i \in Slot, i < call'.slot PROVE ~slot'[i].used
      OBVIOUS
    <3>1. i = call.slot \/ i < call.slot
      BY <2>1, <2>2 DEF Slot
    <3> QED  BY <1>1, <2>1, <3>1 DEF SweptInv, TypeOK, Unused
  <2> QED  BY <2>2, <2>3 DEF SweptInv, NothingLeft
<1>9. ASSUME CloseTextures PROVE SweptInv'
  <2>1. /\ call.op = "close" /\ call.slot \notin Slot /\ open /\ UNCHANGED <<count, stray>>
        /\ call' = [call EXCEPT !.op = "closed"]
    BY <1>1, <1>9 DEF CloseTextures, Textures!Close, TexturesInv
  <2>2. call.slot = MaxMaterials /\ \A i \in Slot : i < call.slot
    BY <1>1, <2>1, Constants DEF TypeOK, Slot
  <2>3. \A t \in Image : Pointing(t) = {}
    BY <2>1, <2>2 DEF SweptInv, Pointing
  <2>4. \A t \in Image : count[t] = stray[t]
    <3> SUFFICES ASSUME NEW t \in Image PROVE count[t] = stray[t]
      OBVIOUS
    <3>1. Cardinality(Pointing(t)) = 0
      BY <2>3, FS_EmptySet
    <3>2. count[t] = Cardinality(Pointing(t)) + stray[t] /\ stray[t] \in Nat
      BY <1>1, <2>1 DEF CountIsMaps, TypeOK
    <3> QED  BY <3>1, <3>2
  <2>5. call'.op = "closed"
    BY <1>1, <2>1 DEF TypeOK
  <2> QED  BY <2>1, <2>4, <2>5 DEF SweptInv, NothingLeft
<1>10. ASSUME UNCHANGED vars PROVE SweptInv'
  BY <1>10 DEF SweptInv, NothingLeft, vars, textures
<1> QED  BY <1>3, <1>4, <1>5, <1>6, <1>7, <1>8, <1>9, <1>10 DEF Next

\* The shutdown, whenever it comes, gives back every reference to a texture, those
\* of half-loaded materials included, but those of maps whose texture had not
\* arrived when they were given up.
THEOREM NothingIsLeft == Spec => []NothingLeft
<1>1. Init => MInv /\ SweptInv
  <2>1. Init => SweptInv
    BY DEF Init, Idle, SweptInv, NothingLeft
  <2> QED  BY <2>1, InitMInv
<1>2. MInv /\ SweptInv /\ [Next]_vars => MInv' /\ SweptInv'
  BY NextMInv, NextSweptInv
<1>3. SweptInv => NothingLeft
  BY DEF SweptInv
<1> QED  BY <1>1, <1>2, <1>3, PTL DEF Spec
=============================================================================
