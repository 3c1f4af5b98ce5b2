-------------------------- MODULE ShaderInstances --------------------------
(***************************************************************************)
(* The instances of one shader of the Vulkan back end (vulkan_backend.c):  *)
(* an id, a range of the uniform buffer and a descriptor set for each      *)
(* image of the swapchain, acquired by a material with its texture map and *)
(* written when the material is first drawn in a frame.  The GPU reads the *)
(* sets later, while the next frame is recorded.                           *)
(*                                                                         *)
(* The three maps of a material are one here.  A texture is counted and    *)
(* destroyed as TextureSystem shows; its view is named after it, and what  *)
(* refers to a view that was destroyed refers to Gone from then on.        *)
(* Frames, fences and images are those of VulkanFrame, without the resize. *)
(***************************************************************************)
EXTENDS Integers, FiniteSets

CONSTANTS
    Material,      \* those that use the shader
    Texture,
    TextureOf,     \* the texture of each material
    IdCount,       \* VULKAN_MAX_MATERIAL_COUNT: instance ids, ranges of the buffer
    SetCount,      \* instances the descriptor pool has sets for
    Image,         \* images of the swapchain, at most three
    MaxCount,      \* bound: references of a texture
    NoView, Default, Gone

InstanceId == 0 .. IdCount - 1
NoId == IdCount            \* INVALID_ID
NoRange == IdCount
Frame == {0, 1}            \* max_frames_in_flight

ASSUME TextureAssumption == /\ IsFiniteSet(Material) /\ TextureOf \in [Material -> Texture]
                            /\ {NoView, Default, Gone} \cap Texture = {}
                            /\ NoView # Default /\ NoView # Gone /\ Default # Gone
ASSUME CountAssumption == /\ IdCount \in Nat \ {0} /\ SetCount \in 0 .. IdCount
                          /\ Cardinality(Image) \in 1 .. 3 /\ MaxCount \in Nat

VARIABLES
    instance,  \* internal_id of each material, NoId without one
    taken,     \* instance ids in use
    offset,    \* instance_states[id].offset
    sets,      \* ids that have descriptor sets of the pool
    written,   \* what the sets refer to, by id and image
    image,     \* each texture: "none", "coming" or "here"
    count,     \* references of each texture
    pc,        \* "update" between frames, "record" within one
    frame,     \* current_frame
    index,     \* image_index
    synced,    \* materials whose render_frame_number is that of this frame
    bound,     \* ids bound in the command buffer that is being recorded
    pending,   \* submissions the GPU has not finished
    leaked,    \* history: ids of materials whose load failed
    rewritten  \* history: ids whose set was written after it was bound in a buffer

instances == <<instance, taken, offset, sets, written>>
textures == <<image, count>>
recording == <<pc, frame, index, synced, bound>>
history == <<leaked, rewritten>>
vars == <<instances, textures, recording, pending, history>>

Set == [view : Texture \cup {NoView, Default, Gone}, range : InstanceId \cup {NoRange}]
NewSet == [view |-> NoView, range |-> NoRange]

TypeOK ==
    /\ instance \in [Material -> InstanceId \cup {NoId}]
    /\ taken \subseteq InstanceId /\ sets \subseteq taken
    /\ offset \in [InstanceId -> InstanceId \cup {NoRange}]
    /\ written \in [InstanceId -> [Image -> Set]]
    /\ image \in [Texture -> {"none", "coming", "here"}] /\ count \in [Texture -> 0 .. MaxCount]
    /\ pc \in {"update", "record"} /\ frame \in Frame /\ index \in Image
    /\ synced \subseteq Material /\ bound \subseteq sets
    /\ pending \subseteq [frame : Frame, image : Image, bound : SUBSET InstanceId]
    /\ leaked \subseteq taken /\ rewritten \subseteq InstanceId

Init ==
    /\ instance = [m \in Material |-> NoId]
    /\ taken = {} /\ sets = {}
    /\ offset = [i \in InstanceId |-> NoRange]
    /\ written = [i \in InstanceId |-> [k \in Image |-> NewSet]]
    /\ image = [t \in Texture |-> "none"] /\ count = [t \in Texture |-> 0]
    /\ pc = "update" /\ frame = 0 /\ index \in Image
    /\ synced = {} /\ bound = {} /\ pending = {} /\ leaked = {} /\ rewritten = {}

\* vkDeviceWaitIdle returns.
Idle == pending = {}

-----------------------------------------------------------------------------
(* load_material *)

Least(i, S) == i \in S /\ \A j \in S : i <= j

\* What shader_instance_resources_acquire looks for: the first id that is free,
\* and, for the free list of the buffer, the first range that is.
FirstFree(i) == Least(i, InstanceId \ taken)
FirstRange(r) == Least(r, InstanceId \ {offset[i] : i \in taken})

\* The texture system counts one more reference, and starts the load of a new
\* texture.
AcquireTexture(t) ==
    /\ count' = [count EXCEPT ![t] = @ + 1]
    /\ image' = [image EXCEPT ![t] = IF @ = "none" THEN "coming" ELSE @]

\* Three new descriptor sets, with every generation invalid.
FreshSets(i) == written' = [written EXCEPT ![i] = [k \in Image |-> NewSet]]

\* A slot is free for the material, which is loaded now.
Loads(m) == pc = "update" /\ instance[m] = NoId /\ count[TextureOf[m]] < MaxCount

\* Mutant: the range is the first one after those of all instances.
AcquireByCount(m) ==
    /\ Loads(m) /\ Cardinality(sets) < SetCount
    /\ AcquireTexture(TextureOf[m])
    /\ \E i \in InstanceId :
          /\ FirstFree(i)
          /\ taken' = taken \cup {i} /\ instance' = [instance EXCEPT ![m] = i]
          /\ offset' = [offset EXCEPT ![i] = Cardinality(taken)]
          /\ sets' = sets \cup {i} /\ FreshSets(i)
    /\ UNCHANGED <<recording, pending, history>>

\* The material has its texture, an id, a range and sets.
Acquire(m) ==
    /\ Loads(m) /\ Cardinality(sets) < SetCount
    /\ AcquireTexture(TextureOf[m])
    /\ \E i, r \in InstanceId :
          /\ FirstFree(i) /\ FirstRange(r)
          /\ taken' = taken \cup {i} /\ instance' = [instance EXCEPT ![m] = i]
          /\ offset' = [offset EXCEPT ![i] = r]
          /\ sets' = sets \cup {i} /\ FreshSets(i)
    /\ UNCHANGED <<recording, pending, history>>

\* The pool has no sets left: the load fails, and its slot keeps the texture,
\* the id and the range.  The material is not registered, and may be acquired
\* again in another slot.
AcquireNoSets(m) ==
    /\ Loads(m) /\ Cardinality(sets) = SetCount
    /\ AcquireTexture(TextureOf[m])
    /\ \E i, r \in InstanceId :
          /\ FirstFree(i) /\ FirstRange(r)
          /\ taken' = taken \cup {i} /\ leaked' = leaked \cup {i}
          /\ offset' = [offset EXCEPT ![i] = r]
    /\ UNCHANGED <<instance, sets, written, recording, pending, rewritten>>

\* No id is free: the slot keeps the texture.
AcquireNoId(m) ==
    /\ Loads(m) /\ taken = InstanceId
    /\ AcquireTexture(TextureOf[m])
    /\ UNCHANGED <<instances, recording, pending, history>>

-----------------------------------------------------------------------------
(* destroy_material *)

\* The texture goes with this reference.
Last(t) == image[t] = "here" /\ count[t] = 1

\* texture_system_release by the name the texture has, which is empty until it
\* has arrived.
ReleaseTexture(t) ==
    /\ count' = [count EXCEPT ![t] = IF image[t] = "here" THEN @ - 1 ELSE @]
    /\ image' = [image EXCEPT ![t] = IF Last(t) THEN "none" ELSE @]

\* What the sets refer to without the texture, and without the sets of i.
Destroyed(t, i) ==
    [j \in InstanceId |-> [k \in Image |->
        [view |-> IF j = i THEN NoView ELSE IF Last(t) /\ written[j][k].view = t THEN Gone
                                                                            ELSE written[j][k].view,
         range |-> written[j][k].range]]]

\* Mutant: nothing waits for the GPU.
ReleaseAtOnce(m) ==
    LET i == instance[m]
    IN  /\ pc = "update" /\ i # NoId
        /\ ReleaseTexture(TextureOf[m])
        /\ taken' = taken \ {i} /\ sets' = sets \ {i} /\ written' = Destroyed(TextureOf[m], i)
        /\ offset' = [offset EXCEPT ![i] = NoRange]
        /\ instance' = [instance EXCEPT ![m] = NoId] /\ synced' = synced \ {m}
        /\ UNCHANGED <<pc, frame, index, bound, pending, history>>

\* The texture, the samplers of the map and the instance go, each once the GPU
\* is idle.  Zeroing the generations does not make them invalid.
Release(m) ==
    LET i == instance[m]
    IN  /\ pc = "update" /\ i # NoId
        /\ Idle
        /\ ReleaseTexture(TextureOf[m])
        /\ taken' = taken \ {i} /\ sets' = sets \ {i} /\ written' = Destroyed(TextureOf[m], i)
        /\ offset' = [offset EXCEPT ![i] = NoRange]
        /\ instance' = [instance EXCEPT ![m] = NoId] /\ synced' = synced \ {m}
        /\ UNCHANGED <<pc, frame, index, bound, pending, history>>

\* texture_load_job_success, from job_system_update: the view is created, and
\* the texture that was there, which has none, is destroyed when the GPU is idle.
Arrive(t) ==
    /\ pc = "update" /\ image[t] = "coming"
    /\ Idle
    /\ image' = [image EXCEPT ![t] = "here"]
    /\ UNCHANGED <<instances, count, recording, pending, history>>

-----------------------------------------------------------------------------
(* A frame *)

\* renderer_draw_frame counts the frame; frame_begin waits for the fence of the
\* previous one with this current_frame and gets an image, which may be one
\* whose last frame the GPU has not finished.
Begin ==
    /\ pc = "update" /\ \A b \in pending : b.frame # frame
    /\ pc' = "record" /\ index' \in Image /\ bound' = {}
    /\ synced' = {}
    /\ UNCHANGED <<instances, textures, frame, pending, history>>

\* The view of the texture a map points at, or that of a default texture.
Shown(t) == IF image[t] = "here" THEN t ELSE Default

\* Mutant: the sampler too is written only once for each image.
UpdatedOnce(i, t) ==
    [written EXCEPT ![i][index] = IF @.range = NoRange THEN [view |-> Shown(t), range |-> offset[i]] ELSE @]

\* The set of this image: its buffer is written only once, its sampler always.
Updated(i, t) ==
    [written EXCEPT ![i][index] = [view |-> Shown(t),
                                   range |-> IF @.range = NoRange THEN offset[i] ELSE @.range]]

\* vkUpdateDescriptorSets for the set of i and this image, which invalidates the
\* buffer that is being recorded if the set is bound in it.
Write(i, t) == /\ written' = Updated(i, t)
               /\ rewritten' = rewritten \cup ({i} \cap bound)

\* Mutant: the number of the frame is not kept in the material.
DrawUnsynced(m) ==
    /\ pc = "record" /\ instance[m] # NoId
    /\ IF m \in synced THEN UNCHANGED <<written, rewritten>> ELSE Write(instance[m], TextureOf[m])
    /\ bound' = bound \cup {instance[m]}
    /\ UNCHANGED <<instance, taken, offset, sets, textures, pc, frame, index, synced, pending, leaked>>

\* render_view_world_on_render for a geometry with this material: the set is
\* written the first time in the frame, and bound every time.
Draw(m) ==
    /\ pc = "record" /\ instance[m] # NoId
    /\ IF m \in synced THEN UNCHANGED <<written, rewritten>> ELSE Write(instance[m], TextureOf[m])
    /\ synced' = synced \cup {m} /\ bound' = bound \cup {instance[m]}
    /\ UNCHANGED <<instance, taken, offset, sets, textures, pc, frame, index, pending, leaked>>

\* frame_end waits for the frame that last used the image, and submits.
Submit ==
    /\ pc = "record" /\ \A b \in pending : b.image # index
    /\ pending' = pending \cup {[frame |-> frame, image |-> index, bound |-> bound]}
    /\ frame' = 1 - frame
    /\ pc' = "update" /\ bound' = {}
    /\ UNCHANGED <<instances, textures, index, synced, history>>

\* A view fails: the frame is not ended.
ViewFails ==
    /\ pc = "record"
    /\ pc' = "update" /\ bound' = {}
    /\ UNCHANGED <<instances, textures, frame, index, synced, pending, history>>

\* The GPU finishes a submission: external.
Execute(b) ==
    /\ pending' = pending \ {b}
    /\ UNCHANGED <<instances, textures, recording, history>>

Next ==
    \/ \E m \in Material : \/ Acquire(m) \/ AcquireNoSets(m) \/ AcquireNoId(m)
                         \/ Release(m) \/ Draw(m)
    \/ \E t \in Texture : Arrive(t)
    \/ Begin \/ Submit \/ ViewFails
    \/ \E b \in pending : Execute(b)

Spec == Init /\ [][Next]_vars

-----------------------------------------------------------------------------
(* Properties *)

\* What a read of the set of i for image k reaches is there: the set, the view
\* in it, and the range of the buffer, which is the one the material writes to.
Alive(i, k) == /\ i \in sets
               /\ written[i][k].view \in {Default} \cup {t \in Texture : image[t] = "here"}
               /\ written[i][k].range = offset[i]

\* Whatever the GPU may still read is there, for the submissions and for the
\* command buffer that is being recorded.
ReadsAlive ==
    /\ \A b \in pending : \A i \in b.bound : Alive(i, b.image)
    /\ \A i \in bound : Alive(i, index)

\* A material drawn in this frame is drawn with its texture as it is now: one
\* that has arrived since the set was last written is not missed.
DrawsCurrent ==
    pc = "record" => \A m \in synced : written[instance[m]][index].view = Shown(TextureOf[m])

\* Materials never share an instance or a range of the buffer, whatever was
\* acquired, released and refused before.
InstancesApart ==
    \A m, n \in Material : (m # n /\ instance[m] # NoId) =>
        /\ instance[m] # instance[n]
        /\ instance[n] # NoId => offset[instance[m]] # offset[instance[n]]

\* The texture of a material with an instance is never destroyed under it.
TextureHeld == \A m \in Material : instance[m] # NoId => image[TextureOf[m]] # "none"

\* An id is in use while a material has it or a load that failed left it; the
\* ranges of the buffer last as long as the ids, and only materials have sets.
IdsHeld ==
    LET held == {instance[m] : m \in Material} \ {NoId}
    IN  /\ taken = held \cup leaked /\ held \cap leaked = {}
        /\ sets = held
        /\ \A i \in InstanceId : offset[i] # NoRange <=> i \in taken

\* Ids, ranges and sets have one owner each, none is lost to a refusal, and what
\* a material with an instance shows is kept for it.
InstancesOwned == InstancesApart /\ IdsHeld /\ TextureHeld

\* No set is written once it is bound in the buffer that is being recorded, which
\* would invalidate that buffer, however often a material is drawn in a frame and
\* whatever frames were given up before.
NeverRewritten == rewritten = {}
=============================================================================
