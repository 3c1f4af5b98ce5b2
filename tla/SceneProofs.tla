----------------------------- MODULE SceneProofs -----------------------------
(***************************************************************************)
(* For scenes of any size, any pool of geometries and any number of late   *)
(* loads: who holds each slot of the geometry system and each entry of the *)
(* light system.                                                           *)
(*                                                                         *)
(* Added to make this inductive: what a scene without arrays holds, that a *)
(* mesh that has not arrived has no geometries, and that without an early  *)
(* unload all pending loads are for meshes of the present scene that have  *)
(* not arrived.                                                            *)
(***************************************************************************)
EXTENDS Scene, FiniteSetTheorems, SequenceTheorems, TLAPS

\* What there is of a scene in each of its states.
ShapeInv ==
    /\ block = NoBlock <=> state = "uninitialized"
    /\ state # "loaded" /\ state # "unloading" => sky = NoGeometry
    /\ \A i \in DOMAIN meshes : ~meshes[i].arrived => meshes[i].geometries = <<>>

\* Unless a scene was unloaded while it was loading, loads are answered into
\* meshes that wait for them, and only a skybox that did not load loses a slot.
LoadsInv ==
    "early" \notin slipped =>
        /\ \A l \in loads : l.block = block /\ l.scene = opened /\ ~meshes[l.mesh].arrived
        /\ state = "uninitialized" => loads = {}
        /\ state # "loading" => lost = {}

IInv == /\ TypeOK /\ ShapeInv /\ SlotsHeldOnce /\ MaterialsCounted /\ LightsOfScene
        /\ PointerCurrent /\ LoadsInv

-----------------------------------------------------------------------------
LEMMA Constants ==
    /\ NoBlock \notin Block /\ NoGeometry \notin Slot /\ SlotCount \in Nat /\ MaxScenes \in Nat
    /\ GeometriesOf \in [MeshIndex -> Nat]
    /\ IsFiniteSet(Slot) /\ IsFiniteSet(LightIndex)
<1>1. IsFiniteSet(Slot) /\ IsFiniteSet(LightIndex)
  BY CountAssumption, FS_Interval DEF Slot, LightIndex
<1> QED  BY <1>1, BlockAssumption, CountAssumption DEF NoGeometry, Slot

\* The slots that calls of the geometry system return were free.
LEMMA AcquisitionsFree ==
    ASSUME NEW n \in Nat, NEW got \in Acquisitions(n)
    PROVE  /\ got \in Seq(Slot \cup {NoGeometry})
           /\ Reached(got) \subseteq Slot \ registered
<1>1. got \in [1..n -> (Slot \ registered) \cup {NoGeometry}]  BY DEF Acquisitions
<1>2. got \in [1..n -> Slot \cup {NoGeometry}]  BY <1>1
<1>3. got \in Seq(Slot \cup {NoGeometry})  BY <1>2, SeqDef
<1>4. Reached(got) \subseteq Slot \ registered  BY <1>1 DEF Reached, Range
<1> QED  BY <1>3, <1>4

\* What is shown is what a mesh that has arrived reaches.
LEMMA ShownIs ==
    ASSUME NEW s
    PROVE  s \in Shown <=> \E i \in DOMAIN meshes : meshes[i].arrived /\ s \in Reached(meshes[i].geometries)
BY DEF Shown

LEMMA ReachedNone == Reached(<<>>) = {}
BY DEF Reached, Range

\* Slots are registered that were free: the types, and the count of materials.
LEMMA RegisterCounts ==
    ASSUME IInv, NEW n \in Nat, NEW got \in Acquisitions(n), NEW by \in SUBSET Reached(got), Register(got, by)
    PROVE  /\ registered' = registered \cup Reached(got) /\ registered' \subseteq Slot
           /\ reference_count' \in [Slot -> Nat]
           /\ \A s \in Slot : reference_count'[s] = IF s \in registered' THEN 1 ELSE 0
           /\ named' \subseteq registered' /\ materials' \in Int
           /\ materials' = Cardinality(named')
<1>1. Reached(got) \subseteq Slot \ registered  BY AcquisitionsFree
<1>2. by \subseteq Slot /\ named \subseteq registered /\ registered \subseteq Slot  BY <1>1 DEF IInv, TypeOK
<1>3. IsFiniteSet(by) /\ IsFiniteSet(named)  BY <1>2, Constants, FS_Subset
<1>4. by \cap named = {}  BY <1>1, <1>2
<1>5. Cardinality(named \cup by) = Cardinality(named) + Cardinality(by)
  <2>1. Cardinality(named \cup by) = Cardinality(named) + Cardinality(by) - Cardinality(named \cap by)
    BY <1>3, FS_Union
  <2>2. Cardinality(named \cap by) = 0
    <3>1. named \cap by = {}  BY <1>4
    <3> QED  BY <3>1, FS_EmptySet
  <2>3. Cardinality(named) \in Nat /\ Cardinality(by) \in Nat  BY <1>3, FS_CardinalityType
  <2> QED  BY <2>1, <2>2, <2>3
<1>6. materials' = materials + Cardinality(by) /\ named' = named \cup by /\ registered' = registered \cup Reached(got)
  BY DEF Register
<1>7. materials' = Cardinality(named')  BY <1>5, <1>6 DEF IInv, MaterialsCounted
<1>8. materials' \in Int
  BY <1>3, <1>6, FS_CardinalityType DEF IInv, TypeOK
<1>9. reference_count' = [s \in Slot |-> IF s \in Reached(got) THEN 1 ELSE reference_count[s]]
  BY DEF Register
<1>10. \A s \in Slot : reference_count[s] = IF s \in registered THEN 1 ELSE 0  BY DEF IInv, SlotsHeldOnce
<1>11. reference_count' \in [Slot -> Nat]  BY <1>9 DEF IInv, TypeOK
<1>12. \A s \in Slot : reference_count'[s] = IF s \in registered' THEN 1 ELSE 0  BY <1>6, <1>9, <1>10
<1> QED  BY <1>1, <1>2, <1>6, <1>7, <1>8, <1>11, <1>12

\* The slots of the scene are released: each was held once, and is free.
LEMMA ReleaseCounts ==
    ASSUME IInv, NEW slots, slots = Held, Release(slots)
    PROVE  /\ registered' = lost
           /\ reference_count' \in [Slot -> Nat]
           /\ \A s \in Slot : reference_count'[s] = IF s \in registered' THEN 1 ELSE 0
           /\ named' \subseteq registered' /\ materials' \in Int
           /\ materials' = Cardinality(named')
<1> DEFINE left == [s \in Slot |-> IF s \in slots \cap registered /\ reference_count[s] > 0
                                   THEN reference_count[s] - 1 ELSE reference_count[s]]
           dead == {s \in slots \cap registered : left[s] < 1}
<1>1. /\ registered' = registered \ dead /\ reference_count' = left
      /\ named' = named \ dead /\ materials' = materials - Cardinality(named \cap dead)
  BY DEF Release
<1>2. /\ registered = Held \cup lost /\ Held \cap lost = {} /\ registered \subseteq Slot
      /\ \A s \in Slot : reference_count[s] = IF s \in registered THEN 1 ELSE 0
  BY DEF IInv, SlotsHeldOnce, TypeOK
<1>3. \A s \in Slot : left[s] = IF s \in lost THEN 1 ELSE 0
  BY <1>2
<1>4. dead = Held  BY <1>2, <1>3
<1>5. registered' = lost  BY <1>1, <1>2, <1>4
<1>6. left \in [Slot -> Nat]  BY <1>3
<1>7. named \subseteq registered /\ materials \in Int /\ materials = Cardinality(named)
  BY DEF IInv, TypeOK, MaterialsCounted
<1>8. IsFiniteSet(named)  BY <1>2, <1>7, Constants, FS_Subset
<1>9. Cardinality(named \ dead) = Cardinality(named) - Cardinality(named \cap dead)
  BY <1>8, FS_Difference
<1>10. Cardinality(named \ dead) \in Nat  BY <1>8, FS_Difference, FS_CardinalityType
<1>11. materials' = Cardinality(named')  BY <1>1, <1>7, <1>9
<1> HIDE DEF left, dead
<1> QED  BY <1>1, <1>2, <1>3, <1>4, <1>5, <1>6, <1>7, <1>10, <1>11

-----------------------------------------------------------------------------
LEMMA InitInv == Init => IInv
<1> SUFFICES ASSUME Init PROVE IInv
  OBVIOUS
<1>1. TypeOK  BY Constants DEF Init, TypeOK
<1>2. Held = {}  BY DEF Init, Held, Shown
<1>3. SlotsHeldOnce  BY <1>2, Constants DEF Init, SlotsHeldOnce, Shown
<1>4. MaterialsCounted  BY FS_EmptySet DEF Init, MaterialsCounted
<1>5. ShapeInv /\ LightsOfScene /\ PointerCurrent /\ LoadsInv
  BY DEF Init, ShapeInv, LightsOfScene, PointerCurrent, LoadsInv
<1> QED  BY <1>1, <1>3, <1>4, <1>5 DEF IInv

\* A scene that is not there holds nothing.
LEMMA Nothing ==
    ASSUME IInv, state = "uninitialized"
    PROVE  block = NoBlock /\ meshes = <<>> /\ Held = {} /\ Shown = {} /\ dir_light = NoBlock /\ p_lights = {}
<1>1. block = NoBlock  BY DEF IInv, ShapeInv
<1>2. meshes = <<>>  BY <1>1 DEF IInv, TypeOK
<1>3. Shown = {}  BY <1>2, ShownIs
<1>4. sky = NoGeometry  BY DEF IInv, ShapeInv
<1>5. dir_light = NoBlock  BY <1>1 DEF IInv, LightsOfScene
<1>6. p_lights = {}
  <2>1. \A light \in p_lights : light[1] \in Block /\ light[1] = NoBlock
    BY <1>1 DEF IInv, TypeOK, LightsOfScene
  <2> QED  BY <2>1, Constants
<1> QED  BY <1>1, <1>2, <1>3, <1>4, <1>5, <1>6 DEF Held

\* The one geometry of a skybox.
LEMMA AcquiredOne ==
    ASSUME NEW got \in Acquisitions(1)
    PROVE  got[1] \in Slot \cup {NoGeometry} /\ Reached(got) = {got[1]} \ {NoGeometry}
<1>1. got \in [1..1 -> (Slot \ registered) \cup {NoGeometry}]  BY DEF Acquisitions
<1>2. 1 \in 1..1 /\ \A i \in 1..1 : i = 1  OBVIOUS
<1>3. DOMAIN got = 1..1  BY <1>1
<1>4. Range(got) = {got[1]}  BY <1>2, <1>3 DEF Range
<1> QED  BY <1>1, <1>2, <1>4 DEF Reached

\* A new scene has a block of its own and meshes that hold nothing.
LEMMA Opened ==
    ASSUME IInv, NEW b \in Block, Open(b), state' \in {"loaded", "loading"}
    PROVE  /\ state = "uninitialized" /\ block' = b /\ opened' = opened + 1 /\ opened' \in 1..MaxScenes
           /\ meshes' \in [MeshIndex -> Mesh] /\ p_light_1' \in Block \cup {NoBlock}
           /\ p_light_1' = IF LightCount > 0 THEN b ELSE NoBlock
           /\ \A i \in DOMAIN meshes' : ~meshes'[i].arrived /\ meshes'[i].geometries = <<>>
           /\ Shown' = {}
           /\ phase' = phase /\ running' = running
<1>1. state = "uninitialized"  BY DEF Open, IInv, TypeOK
<1>2. NewMesh \in Mesh /\ ~NewMesh.arrived /\ NewMesh.geometries = <<>>  BY DEF NewMesh, Mesh
<1>3. meshes' \in [MeshIndex -> Mesh]  BY <1>2 DEF Open
<1>4. \A i \in DOMAIN meshes' : ~meshes'[i].arrived /\ meshes'[i].geometries = <<>>
  BY <1>2, <1>3 DEF Open
<1>5. Shown' = {}  BY <1>4 DEF Shown
<1>6. opened' \in 1..MaxScenes  BY Constants DEF Open, IInv, TypeOK
<1> QED  BY <1>1, <1>3, <1>4, <1>5, <1>6 DEF Open

\* The parts of TypeOK that the calls of the geometry system keep.
GeometryTypes == /\ registered \subseteq Slot /\ reference_count \in [Slot -> Nat]
                 /\ named \subseteq registered /\ materials \in Int

LEMMA LoadSceneInv == ASSUME IInv, LoadScene PROVE IInv'
<1> PICK b \in Block, got \in Acquisitions(1) :
      /\ Open(b)
      /\ state' = "loaded"
      /\ sky' = got[1] /\ Register(got, {})
      /\ loads' = loads \cup {[mesh |-> i, block |-> b, scene |-> opened + 1] : i \in MeshIndex}
      /\ Light(b)
      /\ slipped' = slipped \cup (IF Refused(got) THEN {"refused"} ELSE {})
      /\ lost' = lost /\ written' = written
  BY DEF LoadScene
<1> USE DEF IInv
<1>1. /\ state = "uninitialized" /\ block' = b /\ opened' = opened + 1 /\ opened' \in 1..MaxScenes
      /\ meshes' \in [MeshIndex -> Mesh] /\ p_light_1' \in Block \cup {NoBlock}
      /\ p_light_1' = IF LightCount > 0 THEN b ELSE NoBlock
      /\ \A i \in DOMAIN meshes' : ~meshes'[i].arrived /\ meshes'[i].geometries = <<>>
      /\ Shown' = {} /\ phase' = phase /\ running' = running
  BY Opened
<1>2. got[1] \in Slot \cup {NoGeometry} /\ Reached(got) = {got[1]} \ {NoGeometry} /\ Reached(got) \subseteq Slot \ registered
  BY AcquiredOne, AcquisitionsFree
<1>3. /\ registered' = registered \cup Reached(got)
      /\ \A s \in Slot : reference_count'[s] = IF s \in registered' THEN 1 ELSE 0
      /\ GeometryTypes' /\ materials' = Cardinality(named')
  BY RegisterCounts DEF GeometryTypes
<1>4. Held = {} /\ dir_light = NoBlock /\ p_lights = {}  BY <1>1, Nothing
<1>5. b # NoBlock  BY Constants
<1>6. dir_light' = b /\ p_lights' \subseteq {b} \X LightIndex
  BY <1>4 DEF Light
<1>7. TypeOK'
  <2>1. loads' \subseteq Load  BY <1>1 DEF TypeOK, Load
  <2>2. slipped' \subseteq {"early", "refused"}  BY DEF TypeOK
  <2>3. lost' \subseteq Slot /\ sky' \in Slot \cup {NoGeometry}  BY <1>2 DEF TypeOK
  <2> QED  BY <1>1, <1>3, <1>5, <1>6, <2>1, <2>2, <2>3, Constants DEF TypeOK, GeometryTypes
<1>8. SlotsHeldOnce'
  <2>1. Held' = Reached(got)  BY <1>1, <1>2 DEF Held
  <2>2. registered = lost  BY <1>4 DEF SlotsHeldOnce
  <2>3. \A i \in DOMAIN meshes' : Reached(meshes'[i].geometries) = {}  BY <1>1, ReachedNone
  <2> QED  BY <1>1, <1>2, <1>3, <2>1, <2>2, <2>3 DEF SlotsHeldOnce
<1>9. ShapeInv'
  BY <1>1, <1>5 DEF ShapeInv
<1>10. LightsOfScene' /\ PointerCurrent' /\ MaterialsCounted'
  BY <1>1, <1>3, <1>6 DEF LightsOfScene, PointerCurrent, MaterialsCounted
<1>11. LoadsInv'
  <2> SUFFICES ASSUME "early" \notin slipped'
               PROVE  /\ \A l \in loads' : l.block = b /\ l.scene = opened' /\ ~meshes'[l.mesh].arrived
                      /\ lost' = {}
    BY <1>1 DEF LoadsInv
  <2>1. loads = {} /\ lost = {}  BY <1>1 DEF LoadsInv
  <2> QED  BY <1>1, <2>1
<1> QED  BY <1>7, <1>8, <1>9, <1>10, <1>11

LEMMA LoadSceneFailsInv == ASSUME IInv, LoadSceneFails PROVE IInv'
<1> PICK b \in Block, got \in Acquisitions(0) \cup Acquisitions(1) :
      /\ Open(b)
      /\ state' = "loading"
      /\ sky' = NoGeometry /\ Register(got, {})
      /\ lost' = lost \cup Reached(got)
      /\ UNCHANGED <<loads, dir_light, p_lights, written, slipped>>
  BY DEF LoadSceneFails
<1> PICK n \in {0, 1} : got \in Acquisitions(n)
  OBVIOUS
<1> USE DEF IInv
<1>1. /\ state = "uninitialized" /\ block' = b /\ opened' = opened + 1 /\ opened' \in 1..MaxScenes
      /\ meshes' \in [MeshIndex -> Mesh] /\ p_light_1' \in Block \cup {NoBlock}
      /\ \A i \in DOMAIN meshes' : ~meshes'[i].arrived /\ meshes'[i].geometries = <<>>
      /\ Shown' = {} /\ phase' = phase /\ running' = running
  BY Opened
<1>2. Reached(got) \subseteq Slot \ registered
  BY AcquisitionsFree
<1>3. /\ registered' = registered \cup Reached(got)
      /\ \A s \in Slot : reference_count'[s] = IF s \in registered' THEN 1 ELSE 0
      /\ GeometryTypes' /\ materials' = Cardinality(named')
  BY RegisterCounts DEF GeometryTypes
<1>4. Held = {} /\ dir_light = NoBlock /\ p_lights = {}  BY <1>1, Nothing
<1>5. b # NoBlock  BY Constants
<1>6. TypeOK'
  <2>1. lost' \subseteq Slot  BY <1>2 DEF TypeOK
  <2> QED  BY <1>1, <1>3, <1>5, <2>1, Constants DEF TypeOK, GeometryTypes
<1>7. SlotsHeldOnce'
  <2>1. Held' = {}  BY <1>1 DEF Held
  <2>2. registered = lost  BY <1>4 DEF SlotsHeldOnce
  <2>3. \A i \in DOMAIN meshes' : Reached(meshes'[i].geometries) = {}  BY <1>1, ReachedNone
  <2> QED  BY <1>1, <1>3, <2>1, <2>2, <2>3 DEF SlotsHeldOnce
<1>8. ShapeInv'
  BY <1>1, <1>5 DEF ShapeInv
<1>9. LightsOfScene' /\ PointerCurrent' /\ MaterialsCounted'
  BY <1>3, <1>4 DEF LightsOfScene, PointerCurrent, MaterialsCounted
<1>10. LoadsInv'
  BY <1>1 DEF LoadsInv
<1> QED  BY <1>6, <1>7, <1>8, <1>9, <1>10

\* A load is answered into a mesh of the present block, or into memory that
\* was freed.
LEMMA ArriveInv == ASSUME IInv, NEW l \in loads, Arrive(l) PROVE IInv'
<1> USE DEF IInv
<1>1. l \in Load /\ GeometriesOf[l.mesh] \in Nat  BY Constants DEF TypeOK, Load
<1> PICK got \in Acquisitions(GeometriesOf[l.mesh]) : \E by \in SUBSET Reached(got) :
        /\ Register(got, by)
        /\ slipped' = slipped \cup (IF Refused(got) THEN {"refused"} ELSE {})
        /\ IF l.block = block
           THEN /\ meshes' = [meshes EXCEPT ![l.mesh] = [arrived |-> TRUE, geometries |-> got]]
                /\ lost' = lost \cup Reached(meshes[l.mesh].geometries)
           ELSE lost' = lost \cup Reached(got) /\ UNCHANGED meshes
  BY DEF Arrive
<1> PICK by \in SUBSET Reached(got) :
        /\ Register(got, by)
        /\ slipped' = slipped \cup (IF Refused(got) THEN {"refused"} ELSE {})
        /\ IF l.block = block
           THEN /\ meshes' = [meshes EXCEPT ![l.mesh] = [arrived |-> TRUE, geometries |-> got]]
                /\ lost' = lost \cup Reached(meshes[l.mesh].geometries)
           ELSE lost' = lost \cup Reached(got) /\ UNCHANGED meshes
  OBVIOUS
<1>2. /\ loads' = loads \ {l}
      /\ UNCHANGED <<phase, running, state, block, sky, opened, dir_light, p_lights, p_light_1, written>>
  BY DEF Arrive, lightVars
<1>3. got \in Seq(Slot \cup {NoGeometry}) /\ Reached(got) \subseteq Slot \ registered
  BY <1>1, AcquisitionsFree
<1>4. /\ registered' = registered \cup Reached(got)
      /\ \A s \in Slot : reference_count'[s] = IF s \in registered' THEN 1 ELSE 0
      /\ GeometryTypes' /\ materials' = Cardinality(named')
  BY <1>1, RegisterCounts DEF GeometryTypes
<1>5. LightsOfScene' /\ PointerCurrent' /\ MaterialsCounted'
  BY <1>2, <1>4 DEF LightsOfScene, PointerCurrent, MaterialsCounted
<1>6. slipped' \subseteq {"early", "refused"} /\ ("early" \in slipped' => "early" \in slipped)  BY DEF TypeOK
<1>7. CASE l.block = block
  <2> DEFINE i == l.mesh
             old == Reached(meshes[i].geometries)
  <2>1. block # NoBlock /\ meshes \in [MeshIndex -> Mesh] /\ i \in MeshIndex
    BY <1>1, <1>7, Constants DEF TypeOK, Load
  <2>2. meshes' = [meshes EXCEPT ![i] = [arrived |-> TRUE, geometries |-> got]] /\ lost' = lost \cup old
    BY <1>7
  <2>3. meshes' \in [MeshIndex -> Mesh]
    BY <1>3, <2>1, <2>2 DEF Mesh
  <2>4. /\ meshes'[i].arrived /\ meshes'[i].geometries = got
        /\ \A j \in MeshIndex : j # i => meshes'[j] = meshes[j]
    BY <2>1, <2>2
  <2>5. old \subseteq Shown
    <3>1. CASE meshes[i].arrived  BY <2>1, <3>1, ShownIs
    <3>2. CASE ~meshes[i].arrived  BY <2>1, <3>2, ReachedNone DEF ShapeInv
    <3> QED  BY <3>1, <3>2
  <2>6. Shown' = (Shown \ old) \cup Reached(got)
    <3>1. ASSUME NEW s PROVE s \in Shown' <=> s \in (Shown \ old) \cup Reached(got)
      <4>1. s \in Shown' <=> \E j \in MeshIndex : meshes'[j].arrived /\ s \in Reached(meshes'[j].geometries)
        BY <2>3 DEF Shown
      <4>2. s \in Shown <=> \E j \in MeshIndex : meshes[j].arrived /\ s \in Reached(meshes[j].geometries)
        BY <2>1 DEF Shown
      <4>3. \A j \in MeshIndex : j # i => Reached(meshes[j].geometries) \cap old = {}
        BY <2>1 DEF SlotsHeldOnce
      <4> QED  BY <2>1, <2>4, <4>1, <4>2, <4>3
    <3> QED  BY <3>1
  <2>7. TypeOK'
    <3>1. lost' \subseteq Slot  BY <2>2, <2>5 DEF TypeOK, SlotsHeldOnce, Held
    <3> QED  BY <1>2, <1>4, <1>6, <2>1, <2>3, <3>1 DEF TypeOK, GeometryTypes
  <2>8. SlotsHeldOnce'
    <3>1. Held' = (Held \ old) \cup Reached(got)
      BY <1>2, <2>5, <2>6 DEF Held, SlotsHeldOnce
    <3>2. registered' = Held' \cup lost' /\ Held' \cap lost' = {} /\ sky' \notin Shown'
      BY <1>2, <1>3, <1>4, <2>2, <2>5, <2>6, <3>1, Constants DEF SlotsHeldOnce, Held, TypeOK
    <3>3. ASSUME NEW j \in MeshIndex, NEW k \in MeshIndex, j # k
          PROVE  Reached(meshes'[j].geometries) \cap Reached(meshes'[k].geometries) = {}
      <4>1. \A x \in MeshIndex : Reached(meshes[x].geometries) \subseteq registered
        <5> SUFFICES ASSUME NEW x \in MeshIndex PROVE Reached(meshes[x].geometries) \subseteq registered
          OBVIOUS
        <5>1. CASE meshes[x].arrived  BY <2>1, <5>1, ShownIs DEF SlotsHeldOnce, Held
        <5>2. CASE ~meshes[x].arrived  BY <2>1, <5>2, ReachedNone DEF ShapeInv
        <5> QED  BY <5>1, <5>2
      <4>2. Reached(meshes[j].geometries) \cap Reached(meshes[k].geometries) = {}
        BY <2>1, <3>3 DEF SlotsHeldOnce
      <4> QED  BY <1>3, <2>4, <3>3, <4>1, <4>2
    <3> QED  BY <1>4, <2>3, <3>2, <3>3 DEF SlotsHeldOnce
  <2>9. ShapeInv'
    BY <1>2, <2>1, <2>3, <2>4 DEF ShapeInv
  <2>10. LoadsInv'
    <3> SUFFICES ASSUME "early" \notin slipped'
                 PROVE  /\ \A k \in loads' : k.block = block' /\ k.scene = opened' /\ ~meshes'[k.mesh].arrived
                        /\ state' = "uninitialized" => loads' = {}
                        /\ state' # "loading" => lost' = {}
      BY DEF LoadsInv
    <3>1. /\ \A k \in loads : k.block = block /\ k.scene = opened /\ ~meshes[k.mesh].arrived
          /\ state = "uninitialized" => loads = {}
          /\ state # "loading" => lost = {}
      BY <1>6 DEF LoadsInv
    <3>2. old = {}  BY <2>1, <3>1, ReachedNone DEF ShapeInv
    <3>3. ASSUME NEW k \in loads' PROVE k.mesh \in MeshIndex /\ k.mesh # i
      BY <1>1, <1>2, <3>1, <3>3 DEF TypeOK, Load
    <3> QED  BY <1>2, <2>2, <2>4, <3>1, <3>2, <3>3
  <2> QED  BY <1>5, <2>7, <2>8, <2>9, <2>10
<1>8. CASE l.block # block
  <2>1. lost' = lost \cup Reached(got) /\ meshes' = meshes  BY <1>8
  <2>2. Shown' = Shown /\ Held' = Held  BY <1>2, <2>1 DEF Shown, Held
  <2>3. TypeOK'
    BY <1>2, <1>3, <1>4, <1>6, <2>1 DEF TypeOK, GeometryTypes
  <2>4. SlotsHeldOnce'
    BY <1>2, <1>3, <1>4, <2>1, <2>2 DEF SlotsHeldOnce
  <2>5. ShapeInv'  BY <1>2, <2>1 DEF ShapeInv
  <2>6. LoadsInv'  BY <1>6, <1>8 DEF LoadsInv
  <2> QED  BY <1>5, <2>3, <2>4, <2>5, <2>6
<1> QED  BY <1>7, <1>8

\* The scene goes: the slots it held are free, and those that were lost stay.
LEMMA ActualUnloadInv ==
    ASSUME IInv, ActualUnload, state \in {"loaded", "unloading"}, loads' \in {loads, {}},
           phase' \in {"render", "stopped"}, running' = running, written' \in Block \cup {NoBlock}
    PROVE  IInv'
<1> USE DEF IInv
<1>1. /\ state' = "uninitialized" /\ block' = NoBlock /\ meshes' = <<>> /\ sky' = NoGeometry
      /\ slipped' = slipped \cup (IF \E l \in loads : l.scene = opened THEN {"early"} ELSE {})
      /\ UNCHANGED <<opened, p_light_1, lost>>
  BY DEF ActualUnload, ZeroScene
<1>2. /\ registered' = lost
      /\ \A s \in Slot : reference_count'[s] = IF s \in registered' THEN 1 ELSE 0
      /\ GeometryTypes' /\ materials' = Cardinality(named')
  <2>1. Release(Held)  BY DEF ActualUnload, Held
  <2>2. lost \subseteq Slot  BY DEF TypeOK
  <2> QED  BY <2>1, <2>2, ReleaseCounts DEF GeometryTypes
<1>3. dir_light' = NoBlock /\ p_lights' = {}
  <2>1. /\ dir_light' = IF dir_light = block THEN NoBlock ELSE dir_light
        /\ p_lights' = p_lights \ {<<block, i>> : i \in LightIndex}
    BY DEF ActualUnload, LightsOut
  <2>2. \A light \in p_lights : \E i \in LightIndex : light = <<block, i>>
    <3> SUFFICES ASSUME NEW light \in p_lights PROVE \E i \in LightIndex : light = <<block, i>>
      OBVIOUS
    <3>1. light \in Block \X LightIndex /\ light[1] = block  BY DEF TypeOK, LightsOfScene
    <3>2. light = <<light[1], light[2]>> /\ light[2] \in LightIndex  BY <3>1
    <3> QED  BY <3>1, <3>2
  <2> QED  BY <2>1, <2>2 DEF LightsOfScene
<1>4. Shown' = {} /\ Held' = {}
  BY <1>1 DEF Shown, Held
<1>5. TypeOK'
  BY <1>1, <1>2, <1>3, <1>4 DEF TypeOK, GeometryTypes
<1>6. SlotsHeldOnce'
  BY <1>1, <1>2, <1>4 DEF SlotsHeldOnce
<1>7. ShapeInv' /\ LightsOfScene' /\ PointerCurrent' /\ MaterialsCounted'
  BY <1>1, <1>2, <1>3 DEF ShapeInv, LightsOfScene, PointerCurrent, MaterialsCounted
<1>8. LoadsInv'
  <2> SUFFICES ASSUME "early" \notin slipped' PROVE loads' = {} /\ lost' = {}
    BY <1>1 DEF LoadsInv
  <2>1. "early" \notin slipped /\ \A l \in loads : l.scene # opened  BY <1>1
  <2> QED  BY <1>1, <2>1 DEF LoadsInv
<1> QED  BY <1>5, <1>6, <1>7, <1>8

\* What changes neither the scene nor the systems it uses.
Still == UNCHANGED <<block, meshes, sky, opened, geometryVars, lightVars, lost, slipped>>

\* Other steps only move the frame, ask for an unload or drop loads.
LEMMA StillInv ==
    ASSUME IInv, Still, loads' \subseteq loads, TypeOK',
           state' = state \/ (state = "loaded" /\ state' = "unloading")
    PROVE  IInv'
<1> USE DEF IInv
<1>1. Shown' = Shown /\ Held' = Held  BY DEF Still, Shown, Held
<1>2. SlotsHeldOnce'  BY <1>1 DEF Still, SlotsHeldOnce, geometryVars
<1>3. MaterialsCounted' /\ LightsOfScene' /\ PointerCurrent'
  BY DEF Still, MaterialsCounted, LightsOfScene, PointerCurrent, geometryVars, lightVars
<1>4. ShapeInv' /\ LoadsInv'  BY DEF Still, ShapeInv, LoadsInv
<1> QED  BY <1>2, <1>3, <1>4

LEMMA NextInv == IInv /\ [Next]_vars => IInv'
<1> SUFFICES ASSUME IInv, [Next]_vars PROVE IInv'
  OBVIOUS
<1>1. CASE LoadScene  BY <1>1, LoadSceneInv
<1>2. CASE LoadSceneFails  BY <1>2, LoadSceneFailsInv
<1>3. ASSUME NEW l \in loads, Arrive(l) PROVE IInv'  BY <1>3, ArriveInv
<1>4. ASSUME NEW l \in loads, ArriveFails(l) PROVE IInv'
  <2>1. Still /\ loads' \subseteq loads /\ state' = state  BY <1>4 DEF ArriveFails, Still, sceneVars
  <2>2. TypeOK'
    BY <1>4 DEF ArriveFails, IInv, TypeOK, sceneVars, geometryVars, lightVars
  <2> QED  BY <2>1, <2>2, StillInv
<1>9. ASSUME NEW l \in loads, LoadDropped(l) PROVE IInv'
  <2>1. Still /\ loads' \subseteq loads /\ state' = state  BY <1>9 DEF LoadDropped, Still, sceneVars
  <2>2. TypeOK'
    BY <1>9 DEF LoadDropped, IInv, TypeOK, sceneVars, geometryVars, lightVars
  <2> QED  BY <2>1, <2>2, StillInv
<1>5. CASE UnloadScene
  <2>1. Still /\ loads' \subseteq loads /\ state = "loaded" /\ state' = "unloading"
    BY <1>5 DEF UnloadScene, Still
  <2>2. TypeOK'
    BY <1>5 DEF UnloadScene, IInv, TypeOK, geometryVars, lightVars
  <2> QED  BY <2>1, <2>2, StillInv
<1>6. CASE BeginFrame \/ EndJobs \/ Render \/ Quit \/ Finished \/ UNCHANGED vars
  <2>1. Still /\ loads' = loads /\ state' = state
    BY <1>6 DEF BeginFrame, EndJobs, Render, Quit, Finished, Still, sceneVars, vars
  <2>2. phase' \in {"pump", "jobs", "update", "render", "stopped", "crashed"} /\ running' \in {"yes", "quit", "no"}
    BY <1>6 DEF BeginFrame, EndJobs, Render, Quit, Finished, vars, IInv, TypeOK
  <2>4. written' \in Block \cup {NoBlock}
    BY <1>6 DEF BeginFrame, EndJobs, Render, Quit, Finished, vars, IInv, TypeOK
  <2>3. TypeOK'
    BY <2>1, <2>2, <2>4 DEF Still, IInv, TypeOK, geometryVars, lightVars
  <2> QED  BY <2>1, <2>3, StillInv
<1>7. CASE Update
  <2>1. /\ loads' = loads /\ running' = running /\ phase' = "render"
        /\ written' \in Block \cup {NoBlock}
    BY <1>7 DEF Update, IInv, TypeOK
  <2>2. CASE state = "unloading"
    BY <1>7, <2>1, <2>2, ActualUnloadInv DEF Update
  <2>3. CASE state # "unloading"
    <3>1. Still /\ state' = state  BY <1>7, <2>3 DEF Update, Still, sceneVars
    <3>2. TypeOK'  BY <2>1, <3>1 DEF Still, IInv, TypeOK, geometryVars, lightVars
    <3> QED  BY <2>1, <3>1, <3>2, StillInv
  <2> QED  BY <2>2, <2>3
<1>8. CASE Shutdown
  <2>1. /\ loads' = {} /\ running' = running /\ phase' = "stopped"
        /\ written' \in Block \cup {NoBlock}
    BY <1>8 DEF Shutdown, IInv, TypeOK
  <2>2. CASE state = "loaded"
    BY <1>8, <2>1, <2>2, ActualUnloadInv DEF Shutdown
  <2>3. CASE state # "loaded"
    <3>1. Still /\ state' = state  BY <1>8, <2>3 DEF Shutdown, Still, sceneVars
    <3>2. TypeOK'  BY <2>1, <3>1 DEF Still, IInv, TypeOK, geometryVars, lightVars
    <3> QED  BY <2>1, <3>1, <3>2, StillInv
  <2> QED  BY <2>2, <2>3
<1> QED  BY <1>1, <1>2, <1>3, <1>4, <1>5, <1>6, <1>7, <1>8, <1>9 DEF Next

LEMMA Invariance == Spec => []IInv
BY InitInv, NextInv, PTL DEF Spec

-----------------------------------------------------------------------------
\* The shape of the state.
THEOREM TypesHold == Spec => []TypeOK
<1>1. IInv => TypeOK  BY DEF IInv
<1> QED  BY <1>1, Invariance, PTL

\* geometry_system_acquire_from_config, geometry_system_release: no two
\* holders share a slot, and none is released while another shows it.
THEOREM EachSlotHeldOnce == Spec => []SlotsHeldOnce
<1>1. IInv => SlotsHeldOnce  BY DEF IInv
<1> QED  BY <1>1, Invariance, PTL

\* create_geometry and destroy_geometry balance their calls of the material system.
THEOREM MaterialsBalanced == Spec => []MaterialsCounted
<1>1. IInv => MaterialsCounted  BY DEF IInv
<1> QED  BY <1>1, Invariance, PTL

\* light_system_*_add and _remove: no light of a scene that is gone.
THEOREM LightsGoWithTheScene == Spec => []LightsOfScene
<1>1. IInv => LightsOfScene  BY DEF IInv
<1> QED  BY <1>1, Invariance, PTL

\* load_main_scene looks the light up in the scene it has just created.
THEOREM PointerStaysCurrent == Spec => []PointerCurrent
<1>1. IInv => PointerCurrent  BY DEF IInv
<1> QED  BY <1>1, Invariance, PTL

\* application_update tests the state before it writes, and in the states that it
\* writes in the pointer is to the scene.
THEOREM WritesStayCurrent == Spec => WritesCurrent
<1>1. IInv /\ [Next]_vars => [written' # written => written' \in {NoBlock, block}]_vars
  <2> SUFFICES ASSUME IInv, Next, written' # written
               PROVE  written' \in {NoBlock, block}
    BY DEF vars
  <2>1. CASE Update
    BY <2>1 DEF Update, IInv, PointerCurrent
  <2>2. CASE Render
    BY <2>2 DEF Render
  <2>3. CASE ~Update /\ ~Render
    BY <2>3 DEF Next, LoadScene, LoadSceneFails, UnloadScene, Arrive, ArriveFails, LoadDropped,
                BeginFrame, EndJobs, Quit, Shutdown, Finished, vars
  <2> QED  BY <2>1, <2>2, <2>3
<1> QED  BY <1>1, Invariance, PTL DEF Spec, WritesCurrent

\* simple_scene_actual_unload gives everything back, if nothing was still loading.
THEOREM NothingIsLeft == Spec => []NothingLeft
<1>1. IInv => NothingLeft
  <2> SUFFICES ASSUME IInv, state = "uninitialized", "early" \notin slipped
               PROVE  registered = {} /\ materials = 0 /\ dir_light = NoBlock /\ p_lights = {}
    BY DEF NothingLeft
  <2>1. Held = {} /\ dir_light = NoBlock /\ p_lights = {}  BY Nothing
  <2>2. lost = {}  BY DEF IInv, LoadsInv
  <2>3. registered = {}  BY <2>1, <2>2 DEF IInv, SlotsHeldOnce
  <2>4. named = {}  BY <2>3 DEF IInv, TypeOK
  <2>5. materials = 0  BY <2>4, FS_EmptySet DEF IInv, MaterialsCounted
  <2> QED  BY <2>1, <2>3, <2>5
<1> QED  BY <1>1, Invariance, PTL

\* The geometries of a scene, with the materials they hold.
THEOREM GeometriesStayOwned == Spec => []GeometriesOwned
  BY EachSlotHeldOnce, MaterialsBalanced, PTL DEF GeometriesOwned

\* The lights of a scene: where the light system and the testbed point, and what
\* the testbed writes to.
THEOREM LightsStayCurrent == Spec => LightsCurrent
  BY LightsGoWithTheScene, PointerStaysCurrent, WritesStayCurrent, PTL DEF LightsCurrent

-----------------------------------------------------------------------------
(***************************************************************************)
(* A pool that is large enough never runs short.  When an acquire returns  *)
(* null though the renderer did not refuse, every slot is in use, each by  *)
(* a geometry that a mesh of the present scene has or is to get, or by the *)
(* skybox.  That is one slot for each place of a mesh, and the place that  *)
(* got null is made up for by the skybox: no more slots than places.       *)
(***************************************************************************)
Places == UNION {{i} \X (1..GeometriesOf[i]) : i \in MeshIndex}

\* max_geometry_count is more than all meshes of the configuration need.
Roomy == Cardinality(Places) < SlotCount

FullInv ==
    slipped = {} =>
        /\ phase # "crashed"
        /\ state = "loaded" =>
               /\ sky # NoGeometry
               /\ \A i \in MeshIndex : meshes[i].arrived =>
                      meshes[i].geometries \in [1..GeometriesOf[i] -> Slot]

LEMMA PlacesFinite == IsFiniteSet(Places) /\ Cardinality(Places) \in Nat
<1> DEFINE row == [i \in MeshIndex |-> {i} \X (1..GeometriesOf[i])]
           rows == {{i} \X (1..GeometriesOf[i]) : i \in MeshIndex}
<1>1. IsFiniteSet(MeshIndex)
  BY CountAssumption, FS_Interval DEF MeshIndex
<1>2. row \in Surjection(MeshIndex, rows)
  BY DEF Surjection
<1>3. IsFiniteSet(rows)
  BY <1>1, <1>2, FS_Surjection
<1>4. ASSUME NEW r \in rows PROVE IsFiniteSet(r)
  <2>1. PICK i \in MeshIndex : r = {i} \X (1..GeometriesOf[i])
    OBVIOUS
  <2>2. GeometriesOf[i] \in Int
    BY CountAssumption
  <2>3. 1 \in Int
    OBVIOUS
  <2>4. IsFiniteSet(1..GeometriesOf[i])
    BY <2>2, <2>3, FS_Interval
  <2>5. IsFiniteSet({i})
    BY FS_Singleton
  <2> QED  BY <2>1, <2>4, <2>5, FS_Product
<1>5. IsFiniteSet(UNION rows)
  BY <1>3, <1>4, FS_UNION
<1> QED  BY <1>5, FS_CardinalityType DEF Places

\* The slots that places are mapped to are no more than the places.
LEMMA PlacesSuffice ==
    ASSUME Roomy, NEW f \in [Places -> Slot \cup {NoGeometry}]
    PROVE  \E s \in Slot : \A p \in Places : f[p] # s
<1> SUFFICES ASSUME \A s \in Slot : \E p \in Places : f[p] = s PROVE FALSE
  OBVIOUS
<1>1. f \in Surjection(Places, Range(f)) /\ Slot \subseteq Range(f)
  BY DEF Surjection, Range
<1>2. IsFiniteSet(Range(f)) /\ Cardinality(Range(f)) <= Cardinality(Places)
  BY <1>1, PlacesFinite, FS_Surjection
<1>3. Cardinality(Slot) <= Cardinality(Range(f))
  BY <1>1, <1>2, FS_Subset
<1>4. Cardinality(Slot) = SlotCount
  <2>1. SlotCount \in Nat /\ 1 \in Int /\ SlotCount \in Int
    BY CountAssumption
  <2>2. Cardinality(1..SlotCount) = IF 1 > SlotCount THEN 0 ELSE SlotCount - 1 + 1
    BY <2>1, FS_Interval
  <2> QED  BY <2>1, <2>2 DEF Slot
<1>5. Cardinality(Range(f)) \in Nat
  BY <1>2, FS_CardinalityType
<1> QED  BY <1>2, <1>3, <1>4, <1>5, PlacesFinite, CountAssumption DEF Roomy

\* A load that is answered into a mesh of a loaded scene gets all its geometries,
\* unless the renderer refuses one.
LEMMA LoadGetsAll ==
    ASSUME Roomy, IInv, FullInv, state = "loaded", slipped = {}, NEW l \in loads,
           NEW got \in Acquisitions(GeometriesOf[l.mesh]), ~Refused(got)
    PROVE  got \in [1..GeometriesOf[l.mesh] -> Slot]
<1> DEFINE i == l.mesh
<1>1. /\ i \in MeshIndex /\ block # NoBlock /\ meshes \in [MeshIndex -> Mesh]
      /\ lost = {} /\ registered = Held
  BY DEF IInv, TypeOK, Load, LoadsInv, ShapeInv, SlotsHeldOnce
<1>2. got \in [1..GeometriesOf[i] -> (Slot \ registered) \cup {NoGeometry}]
  BY DEF Acquisitions
<1>3. sky \in Slot \cup {NoGeometry}
  BY DEF IInv, TypeOK
<1>4. ASSUME NEW k \in 1..GeometriesOf[i], got[k] = NoGeometry PROVE FALSE
  <2>1. NoGeometry \in Range(got)
    BY <1>2, <1>4 DEF Range
  <2>2. Slot \ registered \subseteq Range(got)
    BY <2>1 DEF Refused
  <2> DEFINE f == [p \in Places |->
                     IF p = <<i, k>> THEN sky
                     ELSE IF p[1] = i THEN got[p[2]]
                     ELSE IF meshes[p[1]].arrived THEN meshes[p[1]].geometries[p[2]] ELSE NoGeometry]
  <2>3. ASSUME NEW p \in Places
        PROVE  p = <<p[1], p[2]>> /\ p[1] \in MeshIndex /\ p[2] \in 1..GeometriesOf[p[1]]
    <3>1. PICK j \in MeshIndex : p \in {j} \X (1..GeometriesOf[j])
      BY DEF Places
    <3> QED  BY <3>1
  <2>4. ASSUME NEW p \in Places PROVE f[p] \in Slot \cup {NoGeometry}
    <3>1. p[1] = i => got[p[2]] \in Slot \cup {NoGeometry}
      BY <1>2, <2>3
    <3>2. meshes[p[1]].arrived => meshes[p[1]].geometries[p[2]] \in Slot \cup {NoGeometry}
      BY <2>3 DEF FullInv
    <3> QED  BY <1>3, <3>1, <3>2
  <2>5. f \in [Places -> Slot \cup {NoGeometry}]
    BY <2>4
  <2>6. \A j \in MeshIndex : \A m \in 1..GeometriesOf[j] : <<j, m>> \in Places
    BY DEF Places
  <2>7. ASSUME NEW s \in Slot PROVE \E p \in Places : f[p] = s
    <3>1. NoGeometry # s
      BY Constants
    <3>2. CASE s = sky
      <4>1. <<i, k>> \in Places
        BY <1>1, <2>6
      <4> QED  BY <3>2, <4>1
    <3>3. CASE s \in Shown
      <4>1. PICK j \in MeshIndex : meshes[j].arrived /\ s \in Reached(meshes[j].geometries)
        BY <1>1, <3>3, ShownIs
      <4>2. j # i
        BY <1>1, <4>1 DEF IInv, LoadsInv
      <4>3. meshes[j].geometries \in [1..GeometriesOf[j] -> Slot]
        BY <4>1 DEF FullInv
      <4>4. PICK m \in 1..GeometriesOf[j] : meshes[j].geometries[m] = s
        BY <4>1, <4>3 DEF Reached, Range
      <4>5. <<j, m>> \in Places
        BY <2>6
      <4>6. f[<<j, m>>] = s
        BY <4>1, <4>2, <4>4, <4>5
      <4> QED  BY <4>5, <4>6
    <3>4. CASE s \notin registered
      <4>1. PICK m \in 1..GeometriesOf[i] : got[m] = s
        BY <1>2, <2>2, <3>4 DEF Range
      <4>2. <<i, m>> \in Places /\ m # k
        BY <1>1, <1>4, <2>6, <3>1, <4>1
      <4>3. f[<<i, m>>] = s
        BY <4>1, <4>2
      <4> QED  BY <4>2, <4>3
    <3> QED  BY <1>1, <3>2, <3>3, <3>4 DEF Held
  <2> HIDE DEF f
  <2> QED  BY <2>5, <2>7, PlacesSuffice
<1> QED  BY <1>2, <1>4

\* The first acquire of a scene, for its skybox.
LEMMA SkyGetsOne ==
    ASSUME Roomy, IInv, state = "uninitialized", slipped = {},
           NEW got \in Acquisitions(1), ~Refused(got)
    PROVE  got[1] # NoGeometry
<1>1. Held = {} /\ lost = {} /\ registered = {}
  BY Nothing DEF IInv, LoadsInv, SlotsHeldOnce
<1>2. 1 \in Slot
  BY CountAssumption, PlacesFinite DEF Roomy, Slot
<1>3. got \in [1..1 -> Slot \cup {NoGeometry}] /\ 1 \in 1..1
  BY <1>1 DEF Acquisitions
<1>4. Reached(got) = {got[1]} \ {NoGeometry}
  BY AcquiredOne
<1> SUFFICES ASSUME got[1] = NoGeometry PROVE FALSE
  OBVIOUS
<1>5. NoGeometry \in Range(got)
  BY <1>3 DEF Range
<1>6. 1 \in Range(got)
  BY <1>1, <1>2, <1>5 DEF Refused
<1> QED  BY <1>2, <1>4, <1>6, Constants DEF Reached

LEMMA NextFullInv == Roomy /\ IInv /\ FullInv /\ [Next]_vars => FullInv'
<1> SUFFICES ASSUME Roomy, IInv, FullInv, [Next]_vars, slipped' = {} PROVE FullInv'
  BY DEF FullInv
<1> DEFINE Goal == FullInv'
<1>1. ASSUME slipped = {}, phase' # "crashed", UNCHANGED <<sky, meshes>>, state' = "loaded" => state = "loaded"
      PROVE  Goal
  BY <1>1 DEF FullInv
<1>2. ASSUME LoadScene PROVE Goal
  <2>1. PICK b \in Block, got \in Acquisitions(1) :
          /\ Open(b) /\ state' = "loaded" /\ sky' = got[1]
          /\ slipped' = slipped \cup (IF Refused(got) THEN {"refused"} ELSE {})
    BY <1>2 DEF LoadScene
  <2>2. slipped = {} /\ ~Refused(got)
    BY <2>1
  <2>3. /\ state = "uninitialized" /\ phase' = phase
        /\ meshes' \in [MeshIndex -> Mesh] /\ \A i \in DOMAIN meshes' : ~meshes'[i].arrived
    BY <2>1, Opened
  <2>4. sky' # NoGeometry
    BY <2>1, <2>2, <2>3, SkyGetsOne
  <2> QED  BY <2>2, <2>3, <2>4 DEF FullInv
<1>3. ASSUME LoadSceneFails PROVE Goal
  <2>1. state' # "loaded" /\ phase' = phase /\ slipped = slipped'
    BY <1>3 DEF LoadSceneFails, Open
  <2> QED  BY <2>1 DEF FullInv
<1>4. ASSUME NEW l \in loads, Arrive(l) PROVE Goal
  <2>1. PICK got \in Acquisitions(GeometriesOf[l.mesh]) :
          /\ slipped' = slipped \cup (IF Refused(got) THEN {"refused"} ELSE {})
          /\ l.block = block => meshes' = [meshes EXCEPT ![l.mesh] = [arrived |-> TRUE, geometries |-> got]]
    BY <1>4 DEF Arrive
  <2>2. slipped = {} /\ ~Refused(got)
    BY <2>1
  <2>3. phase' = phase /\ state' = state /\ sky' = sky
    BY <1>4 DEF Arrive
  <2>4. CASE state # "loaded"
    BY <2>2, <2>3, <2>4 DEF FullInv
  <2>5. CASE state = "loaded"
    <3>1. got \in [1..GeometriesOf[l.mesh] -> Slot]
      BY <2>2, <2>5, LoadGetsAll
    <3>2. l.block = block /\ l.mesh \in MeshIndex /\ meshes \in [MeshIndex -> Mesh]
      BY <2>2, <2>5 DEF IInv, LoadsInv, TypeOK, Load, ShapeInv
    <3>3. /\ meshes'[l.mesh].geometries = got
          /\ \A j \in MeshIndex : j # l.mesh => meshes'[j] = meshes[j]
      BY <2>1, <3>2
    <3> QED  BY <2>2, <2>3, <2>5, <3>1, <3>3 DEF FullInv
  <2> QED  BY <2>4, <2>5
<1>5. ASSUME \/ UnloadScene \/ BeginFrame \/ EndJobs \/ Quit
             \/ \E l \in loads : ArriveFails(l) \/ LoadDropped(l)
      PROVE  Goal
  <2>1. /\ slipped' = slipped /\ UNCHANGED <<sky, meshes>>
        /\ state' = "loaded" => state = "loaded"
    BY <1>5 DEF UnloadScene, BeginFrame, EndJobs, Quit, ArriveFails, LoadDropped, sceneVars
  <2>2. phase' = phase \/ phase' \in {"jobs", "update"}
    BY <1>5 DEF UnloadScene, BeginFrame, EndJobs, Quit, ArriveFails, LoadDropped
  <2> QED  BY <1>1, <2>1, <2>2 DEF FullInv
<1>6. ASSUME Finished \/ UNCHANGED vars PROVE Goal
  <2>1. UNCHANGED vars
    BY <1>6 DEF Finished
  <2>2. UNCHANGED <<slipped, phase, sky, meshes, state>>
    BY <2>1 DEF vars, sceneVars
  <2> QED  BY <1>1, <2>2 DEF FullInv
<1>7. ASSUME Update \/ Shutdown PROVE Goal
  <2>1. phase' \in {"render", "stopped"}
    BY <1>7 DEF Update, Shutdown
  <2>2. CASE ActualUnload
    <3>1. state' = "uninitialized"
      BY <2>2 DEF ActualUnload, ZeroScene
    <3> QED  BY <2>1, <3>1 DEF FullInv
  <2>3. CASE UNCHANGED <<sceneVars, slipped>>
    BY <1>1, <2>1, <2>3 DEF sceneVars
  <2> QED  BY <1>7, <2>2, <2>3 DEF Update, Shutdown
<1>8. ASSUME Render PROVE Goal
  <2>1. slipped = {} /\ UNCHANGED <<sky, meshes, state>>
    BY <1>8 DEF Render, sceneVars
  <2>2. state = "loaded" => ~DrawsNull
    <3> SUFFICES ASSUME state = "loaded" PROVE ~DrawsNull
      OBVIOUS
    <3>1. meshes \in [MeshIndex -> Mesh]
      BY DEF IInv, TypeOK, ShapeInv
    <3>2. /\ sky # NoGeometry
          /\ \A i \in MeshIndex : meshes[i].arrived => meshes[i].geometries \in [1..GeometriesOf[i] -> Slot]
      BY <2>1 DEF FullInv
    <3>3. \A i \in MeshIndex : meshes[i].arrived => NoGeometry \notin Range(meshes[i].geometries)
      BY <3>2, Constants DEF Range
    <3> QED  BY <3>1, <3>2, <3>3 DEF DrawsNull
  <2>3. phase' = "pump"
    BY <1>8, <2>2 DEF Render
  <2> QED  BY <1>1, <2>1, <2>3
<1> QED  BY <1>2, <1>3, <1>4, <1>5, <1>6, <1>7, <1>8 DEF Next

\* When the pool has more slots than the meshes of the configuration have
\* geometries, nothing is drawn with a null geometry, however often the scene is
\* loaded, unless an upload was refused or a scene went while it was loading.
THEOREM NeverRunsShort == Roomy => (Spec => []NeverShort)
<1> SUFFICES ASSUME Roomy PROVE Spec => []NeverShort
  OBVIOUS
<1>1. Init => IInv /\ FullInv
  <2>1. Init => FullInv
    BY DEF Init, FullInv
  <2> QED  BY <2>1, InitInv
<1>2. IInv /\ FullInv /\ [Next]_vars => IInv' /\ FullInv'
  BY NextInv, NextFullInv
<1>3. FullInv => NeverShort
  BY DEF FullInv, NeverShort
<1> QED  BY <1>1, <1>2, <1>3, PTL DEF Spec
=============================================================================
