------------------------------- MODULE Scene -------------------------------
(***************************************************************************)
(* A scene of the engine and what it holds: simple_scene.c (life cycle),   *)
(* mesh.c (loads by jobs), geometry_system.c (counted slots), skybox.c and *)
(* light_system.c, driven by the testbed and by the frames of engine.c.    *)
(*                                                                         *)
(* A mesh load carries the raw address of its mesh.  An address is a block *)
(* (the memory of the scene's arrays) and a place in it; a later scene may *)
(* get the same block.  A job's answer reaches the main thread in any      *)
(* later frame and in any order, or never, where the job system has no     *)
(* room for the job or for its result (JobSystem).                         *)
(***************************************************************************)
EXTENDS Integers, FiniteSets, Sequences, Functions

CONSTANTS
    SlotCount,      \* max_geometry_count
    Block,          \* where the arrays of a scene may be allocated
    NoBlock,
    MeshCount,      \* meshes of the scene's configuration
    GeometriesOf,   \* the number of geometries in the resource of each mesh
    LightCount,     \* point lights of the configuration
    MaxPointLights, \* MAX_POINT_LIGHTS
    MaxScenes       \* bound: how often the scene is loaded

Slot == 1..SlotCount      \* registered_geometries
NoGeometry == 0           \* a null GEOMETRY*
MeshIndex == 1..MeshCount
LightIndex == 1..LightCount

ASSUME BlockAssumption == NoBlock \notin Block
ASSUME CountAssumption == /\ SlotCount \in Nat /\ MeshCount \in Nat /\ LightCount \in Nat
                          /\ MaxPointLights \in Nat /\ MaxScenes \in Nat
                          /\ GeometriesOf \in [MeshIndex -> Nat]

VARIABLES
    phase,       \* where the frame of the main thread is
    running,     \* is_running: "yes", "quit" within this frame, "no"
    state,       \* scene->state
    block,       \* scene->meshes and scene->point_lights
    meshes,      \* the meshes in that block
    sky,         \* the geometry of scene->sb, NoGeometry without a loaded sb
    loads,       \* mesh load jobs that have not answered
    opened,      \* how many scenes were created, global_scene_id
    registered,  \* slots with an id
    reference_count,
    named,       \* registered slots that hold a material acquired by name
    materials,   \* what the material system counts for those
    dir_light,   \* light_system: the directional light, by its block
    p_lights,    \* light_system: addresses of the point lights
    p_light_1,   \* the testbed's pointer to a point light, by its block
    written,     \* history: the block this frame's update wrote to through it
    lost,        \* history: slots whose only holder was overwritten or dead memory
    slipped      \* history: "early" unloads, uploads the renderer "refused"

sceneVars == <<state, block, meshes, sky>>
lightVars == <<dir_light, p_lights, p_light_1>>
geometryVars == <<registered, reference_count, named, materials>>
vars == <<phase, running, sceneVars, loads, opened, geometryVars, lightVars, written, lost, slipped>>

\* arrived: the generation is not INVALID_ID_U8, to which it comes back only after
\* 256 loads into the same mesh.
Mesh == [arrived : BOOLEAN, geometries : Seq(Slot \cup {NoGeometry})]
Load == [mesh : MeshIndex, block : Block, scene : 1..MaxScenes]
NewMesh == [arrived |-> FALSE, geometries |-> <<>>]

\* The geometries a sequence of pointers reaches.
Reached(geometries) == Range(geometries) \ {NoGeometry}
-----------------------------------------------------------------------------
(* geometry_system.c *)

\* What n calls of geometry_system_acquire_from_config may return: each the
\* first free slot, or null when none is free or the renderer refuses.
Acquisitions(n) ==
    LET free == Slot \ registered
    IN  {got \in [1..n -> free \cup {NoGeometry}] :
            /\ \A i, j \in 1..n : (i < j /\ got[j] # NoGeometry) => got[i] < got[j]
            /\ \A i \in 1..n, s \in free : s < got[i] => s \in Reached(got)}

\* The renderer refused: a null although a slot was left.
Refused(got) == NoGeometry \in Range(got) /\ (Slot \ registered) \ Range(got) # {}

\* The slots of got are taken; "by" names those whose material was found, the
\* others use the default material or none, which are not counted.
Register(got, by) ==
    /\ registered' = registered \cup Reached(got)
    /\ reference_count' = [s \in Slot |-> IF s \in Reached(got) THEN 1 ELSE reference_count[s]]
    /\ named' = named \cup by
    /\ materials' = materials + Cardinality(by)

\* Mutant: The geometry is not marked for auto release.
ReleaseKeeps(slots) ==
    /\ reference_count' = [s \in Slot |-> IF s \in slots \cap registered /\ reference_count[s] > 0
                                         THEN reference_count[s] - 1 ELSE reference_count[s]]
    /\ UNCHANGED <<registered, named, materials>>

\* geometry_system_release for each of these slots, then destroy_geometry for
\* those that nothing refers to any more.
Release(slots) ==
    LET valid == slots \cap registered
        left == [s \in Slot |-> IF s \in valid /\ reference_count[s] > 0
                                THEN reference_count[s] - 1 ELSE reference_count[s]]
        dead == {s \in valid : left[s] < 1}
    IN  /\ registered' = registered \ dead
        /\ reference_count' = left
        /\ named' = named \ dead
        /\ materials' = materials - Cardinality(named \cap dead)
-----------------------------------------------------------------------------
(* The scene *)

Init ==
    /\ phase = "pump" /\ running = "yes"
    /\ state = "uninitialized" /\ block = NoBlock /\ meshes = <<>> /\ sky = NoGeometry
    /\ loads = {} /\ opened = 0
    /\ registered = {} /\ reference_count = [s \in Slot |-> 0] /\ named = {} /\ materials = 0
    /\ dir_light = NoBlock /\ p_lights = {} /\ p_light_1 = NoBlock /\ written = NoBlock
    /\ lost = {} /\ slipped = {}

\* simple_scene_create and simple_scene_init: new arrays, a mesh and a light
\* in them for each of the configuration; the testbed then looks up its light.
Open(b) ==
    /\ phase = "pump" /\ state \in {"uninitialized", "initialized"} /\ opened < MaxScenes
    /\ block' = b /\ opened' = opened + 1
    /\ meshes' = [i \in MeshIndex |-> NewMesh]
    /\ p_light_1' = IF LightCount > 0 THEN b ELSE NoBlock
    /\ UNCHANGED <<phase, running>>

\* The lights are registered until the light system is full.
Light(b) ==
    /\ dir_light' = b
    /\ p_lights' = p_lights \cup
           {<<b, i>> : i \in {j \in LightIndex : Cardinality(p_lights) + j <= MaxPointLights}}

\* EVENT_CODE_DEBUG1: load_main_scene, then simple_scene_load.
LoadScene ==
    \E b \in Block, got \in Acquisitions(1) :
        /\ Open(b)
        /\ state' = "loaded"
        /\ sky' = got[1] /\ Register(got, {})
        /\ loads' = loads \cup {[mesh |-> i, block |-> b, scene |-> opened + 1] : i \in MeshIndex}
        /\ Light(b)
        /\ slipped' = slipped \cup (IF Refused(got) THEN {"refused"} ELSE {})
        /\ UNCHANGED <<written, lost>>

\* The skybox does not load: simple_scene_load leaves the scene in its LOADING
\* state without a skybox.  The geometry was acquired or not by then.
LoadSceneFails ==
    \E b \in Block, got \in Acquisitions(0) \cup Acquisitions(1) :
        /\ Open(b)
        /\ state' = "loading"
        /\ sky' = NoGeometry /\ Register(got, {})
        /\ lost' = lost \cup Reached(got)
        /\ UNCHANGED <<loads, dir_light, p_lights, written, slipped>>

\* EVENT_CODE_DEBUG2: simple_scene_unload, not immediate.
UnloadScene ==
    /\ phase = "pump" /\ state = "loaded"
    /\ state' = "unloading"
    /\ UNCHANGED <<phase, running, block, meshes, sky, loads, opened, geometryVars, lightVars, written, lost, slipped>>

\* mesh_load_job_success for a load whose mesh is still where it was, as far
\* as the pointer can tell: what that mesh held before is overwritten.
Arrive(l) ==
    /\ phase = "jobs" /\ l \in loads
    /\ loads' = loads \ {l}
    /\ \E got \in Acquisitions(GeometriesOf[l.mesh]) : \E by \in SUBSET Reached(got) :
        /\ Register(got, by)
        /\ slipped' = slipped \cup (IF Refused(got) THEN {"refused"} ELSE {})
        /\ IF l.block = block
           THEN /\ meshes' = [meshes EXCEPT ![l.mesh] =
                       [arrived |-> TRUE, geometries |-> got]]
                /\ lost' = lost \cup Reached(meshes[l.mesh].geometries)
           ELSE lost' = lost \cup Reached(got) /\ UNCHANGED meshes
    /\ UNCHANGED <<phase, running, state, block, sky, opened, lightVars, written>>

Over == phase \in {"stopped", "crashed"}

\* mesh_load_job_fail.
ArriveFails(l) ==
    /\ phase = "jobs" /\ l \in loads
    /\ loads' = loads \ {l}
    /\ UNCHANGED <<phase, running, sceneVars, opened, geometryVars, lightVars, written, lost, slipped>>

\* No room for the job when it is submitted, or for its result: nobody is told.
LoadDropped(l) ==
    /\ ~Over /\ l \in loads
    /\ loads' = loads \ {l}
    /\ UNCHANGED <<phase, running, sceneVars, opened, geometryVars, lightVars, written, lost, slipped>>

\* The geometries of the meshes that have arrived.
Shown == UNION {Reached(meshes[i].geometries) :
                    i \in {j \in DOMAIN meshes : meshes[j].arrived}}

\* The light system lets go of the lights of this scene.
LightsOut ==
    /\ dir_light' = IF dir_light = block THEN NoBlock ELSE dir_light
    /\ p_lights' = p_lights \ {<<block, i>> : i \in LightIndex}

\* The end of simple_scene_actual_unload: the arrays are destroyed, the scene
\* is zeroed.  The loads of this scene keep their addresses.
ZeroScene ==
    /\ state' = "uninitialized" /\ block' = NoBlock /\ meshes' = <<>> /\ sky' = NoGeometry
    /\ slipped' = slipped \cup (IF \E l \in loads : l.scene = opened THEN {"early"} ELSE {})
    /\ UNCHANGED <<opened, p_light_1, lost>>

\* Mutant: the skybox is destroyed without its unload.
ActualUnloadKeepsSky == Release(Shown) /\ LightsOut /\ ZeroScene

\* simple_scene_actual_unload: skybox_unload, mesh_unload of each mesh that has
\* arrived, the lights out of the light system.
ActualUnload == Release(Shown \cup ({sky} \ {NoGeometry})) /\ LightsOut /\ ZeroScene
-----------------------------------------------------------------------------
(* The frames of engine.c *)

\* render_loop once the messages are pumped and the window is not minimised.
BeginFrame ==
    /\ phase = "pump" /\ running # "no"
    /\ phase' = "jobs"
    /\ running' = IF running = "quit" THEN "no" ELSE running
    /\ UNCHANGED <<sceneVars, loads, opened, geometryVars, lightVars, written, lost, slipped>>

\* systems_manager_update is over.
EndJobs ==
    /\ phase = "jobs" /\ phase' = "update"
    /\ UNCHANGED <<running, sceneVars, loads, opened, geometryVars, lightVars, written, lost, slipped>>

\* Mutant: application_update tests for LOADED alone, as application_render does.
UpdateLoaded ==
    /\ phase = "update" /\ phase' = "render"
    /\ written' = IF state = "loaded" THEN p_light_1 ELSE NoBlock
    /\ UNCHANGED <<running, sceneVars, loads, opened, geometryVars, lightVars, lost, slipped>>

\* Mutant: application_update writes to its light whatever the scene is.
UpdateLightAlways ==
    /\ phase = "update" /\ phase' = "render"
    /\ IF state = "unloading" THEN ActualUnload
       ELSE UNCHANGED <<sceneVars, opened, geometryVars, lightVars, lost, slipped>>
    /\ written' = p_light_1
    /\ UNCHANGED <<running, loads>>

\* application_update calls simple_scene_update from LOADED on, and then moves
\* and colours its light, also when the scene was unloaded just now.
Update ==
    /\ phase = "update" /\ phase' = "render"
    /\ IF state = "unloading" THEN ActualUnload
       ELSE UNCHANGED <<sceneVars, opened, geometryVars, lightVars, lost, slipped>>
    /\ written' = IF state \in {"loaded", "unloading"} THEN p_light_1 ELSE NoBlock
    /\ UNCHANGED <<running, loads>>

\* simple_scene_populate_render_packet reads the extents of each geometry of a
\* mesh that has arrived, and the draw of the skybox its internal_id, both
\* without a test for null.
DrawsNull ==
    \/ sky = NoGeometry
    \/ \E i \in DOMAIN meshes : /\ meshes[i].arrived
                              /\ NoGeometry \in Range(meshes[i].geometries)

Render ==
    /\ phase = "render"
    /\ phase' = IF state = "loaded" /\ DrawsNull THEN "crashed" ELSE "pump"
    /\ written' = NoBlock
    /\ UNCHANGED <<running, sceneVars, loads, opened, geometryVars, lightVars, lost, slipped>>

\* EVENT_CODE_APPLICATION_QUIT.
Quit ==
    /\ phase = "pump" /\ running = "yes" /\ running' = "quit"
    /\ UNCHANGED <<phase, sceneVars, loads, opened, geometryVars, lightVars, written, lost, slipped>>

\* post_render_shutdown: application_shutdown unloads a scene that is loaded;
\* the job system drops the loads that have not answered.
Shutdown ==
    /\ phase = "pump" /\ running # "yes"
    /\ phase' = "stopped" /\ loads' = {}
    /\ IF state = "loaded" THEN ActualUnload
       ELSE UNCHANGED <<sceneVars, opened, geometryVars, lightVars, lost, slipped>>
    /\ UNCHANGED <<running, written>>

Finished == Over /\ UNCHANGED vars

Frame == BeginFrame \/ EndJobs \/ Update \/ Render

Next ==
    \/ LoadScene \/ LoadSceneFails \/ UnloadScene
    \/ \E l \in loads : Arrive(l) \/ ArriveFails(l) \/ LoadDropped(l)
    \/ BeginFrame \/ EndJobs \/ Update \/ Render
    \/ Quit \/ Shutdown \/ Finished

Spec == Init /\ [][Next]_vars

\* Frames go on: the window is not minimised for ever.
Fairness == WF_vars(Frame) /\ WF_vars(Shutdown)

FairSpec == Spec /\ Fairness
-----------------------------------------------------------------------------
(* Properties *)

Held == Shown \cup ({sky} \ {NoGeometry})

\* The state has the shape the code gives it.
TypeOK ==
    /\ phase \in {"pump", "jobs", "update", "render", "stopped", "crashed"}
    /\ running \in {"yes", "quit", "no"}
    /\ state \in {"uninitialized", "loading", "loaded", "unloading"}
    /\ block \in Block \cup {NoBlock}
    /\ meshes \in IF block = NoBlock THEN {<<>>} ELSE [MeshIndex -> Mesh]
    /\ sky \in Slot \cup {NoGeometry}
    /\ loads \subseteq Load /\ opened \in 0..MaxScenes
    /\ registered \subseteq Slot /\ reference_count \in [Slot -> Nat]
    /\ named \subseteq registered /\ materials \in Int
    /\ dir_light \in Block \cup {NoBlock} /\ p_lights \subseteq Block \X LightIndex
    /\ p_light_1 \in Block \cup {NoBlock} /\ written \in Block \cup {NoBlock}
    /\ lost \subseteq Slot /\ slipped \subseteq {"early", "refused"}

\* A slot of the geometry system is in use, with count one, exactly while a
\* mesh, the skybox or an address that no longer counts refers to it; no two of
\* them refer to the same slot, so a release never frees what another shows.
SlotsHeldOnce ==
    /\ registered = Held \cup lost
    /\ \A s \in Slot : reference_count[s] = IF s \in registered THEN 1 ELSE 0
    /\ Held \cap lost = {} /\ sky \notin Shown
    /\ \A i, j \in DOMAIN meshes :
           i # j => Reached(meshes[i].geometries) \cap Reached(meshes[j].geometries) = {}

\* A material is counted once for every geometry that has it: the uploads that
\* were refused and the geometries destroyed leave no count behind.
MaterialsCounted == materials = Cardinality(named)

\* Geometries have one holder each and take their materials with them.
GeometriesOwned == SlotsHeldOnce /\ MaterialsCounted

\* The light system points only into the arrays of the present scene, never
\* into those that an unload freed.
LightsOfScene ==
    /\ dir_light \in {NoBlock, block}
    /\ \A light \in p_lights : light[1] = block

\* As long as a scene is loaded, and until it is unloaded, the testbed's pointer
\* is to a light of this scene, if it has one.
PointerCurrent ==
    state \in {"loaded", "unloading"} => p_light_1 = IF LightCount > 0 THEN block ELSE NoBlock

\* An update of the testbed writes only to a light of the scene that it found.
WritesCurrent == [][written' # written => written' \in {NoBlock, block}]_vars

\* The light system never points into arrays that an unload freed.  The testbed's
\* pointer does so from an unload to the next scene, and no update that begins
\* in between writes through it.  The update that unloads still does, after it has
\* freed the lights (testbed_main.c:392 comes after simple_scene_update).
LightsCurrent == [](LightsOfScene /\ PointerCurrent) /\ WritesCurrent

\* A scene unloaded after its loads have answered gives everything back.
NothingLeft ==
    (state = "uninitialized" /\ "early" \notin slipped)
        => registered = {} /\ materials = 0 /\ dir_light = NoBlock /\ p_lights = {}

\* The pool is large enough for one scene, and scenes follow each other: a mesh
\* or the skybox is drawn with a null geometry only after an upload was refused or a scene was
\* unloaded while it was loading.
NeverShort == phase = "crashed" => slipped # {}

\* An unload that was asked for takes place.
UnloadHappens == (state = "unloading") ~> (state = "uninitialized" \/ Over)
=============================================================================
