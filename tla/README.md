# YwmaaEngine in TLA+

TLA+ modules for the core of YwmaaEngine (`engine/src`), TLC configurations that
check them on small instances, and TLAPS proofs of what holds for every size.
Every definition follows the C source; `PROJECT.json` names the lines.

## The system and its parts

The engine is one process: a main thread runs the frame loop (`core/engine.c`),
and a few job threads run jobs for it. All state is kept by *systems*, blocks of
memory reached through `systems_manager_get_state`. What is not locked belongs to
the main thread.

| part | state | operations | what makes it hard | what makes it correct |
|---|---|---|---|---|
| job system | three queues, the info of each thread, 512 result entries, a mutex for each | create, submit, update, the thread loop, shutdown | threads, nested mutexes, callbacks outside locks, full queues | each job once, on a thread of its type, one callback, none lost unless full |
| ring queue | block, head, tail, length | enqueue, dequeue, peek | wrap-around, full, empty | a bounded FIFO |
| systems manager | 128 systems | register, initialise, update, shut down | order of start and stop, number of threads | what a system uses is up while it is |
| free list | linked nodes from a fixed pool | allocate, free, resize, clear | coalescing, an empty pool, resize | what is given out is disjoint; a refusal means no room |
| ymemory over the hpha and dynamic allocators | three pools of the size classes, headers in the pools' own memory, statistics, one mutex | allocate, free, report, from any thread | alignment and padding, a full pool and the fallback to the platform, two lockings in one call, a log that allocates | no byte has two owners, what is freed comes back, statistics agree with the headers, calls return |
| texture, material, geometry and camera systems | arrays of slots, a hash table from names to references | acquire, release, load, destroy | reference counts, loads in flight while a slot is reused | a slot is alive as long as it is referenced |
| resource system and loaders | registered loaders | load, unload | I/O | one loader per type |
| event and layers systems | listeners per code; a stack of layers | register, unregister, fire; push, pop | listeners that change during a fire | each listener hears each event once |
| scenes with meshes, skyboxes and lights | arrays of meshes and lights, a state, the testbed's pointers | initialise, load (by jobs), unload at a later update, destroy | unload during a load, memory used again by the next scene | each geometry and light belongs to the scene that is there, nothing is left behind |
| input, keymaps, console, yvar, identifiers | small tables | set, get | limits of the tables | no entry lost or aliased |
| renderer frontend and Vulkan frame | frames in flight, fences, semaphores, images, swapchain, render targets | draw a frame, resize, recreate | the GPU and the window run on their own; a frame may fail in the middle | nothing is used while the GPU has it, no wait without an end |
| shader instances (shader system, Vulkan backend) | ids, ranges of the uniform buffer, descriptor sets for each image | acquire, apply, bind, release | the GPU reads late; textures arrive between frames | what is read is there and is what the material has |
| WebGPU backend | handles | frame, resize, buffers | calls of a graphics API | frames between begin and end |

The job system is called by the texture system and by meshes: they
submit jobs, and their callbacks run on the main thread inside
`job_system_update`, once per frame. A turn of the loop is: the events of the
platform (resize, quit, keys), the answers of jobs, the update of the game, and
the frame. A scene owns meshes and lights, a mesh acquires geometries, a geometry
a material, a material three textures and an instance of a shader; each of these
is counted, and each may be given up while a load for it, or a frame that shows
it, is still on its way.

## Modules

```
BoundedFifo <-- RingQueue <-- DataStructureProofs (INSTANCE RingQueue, EXTENDS FreeList)
JobThreads --> JobSystem --> JobSystemProperties --> JobSystemInvariant --> JobSystemProofs
                              (INSTANCE JobContract)                   \--> MCJobSystem
BlockAllocator <-- FreeList <-- DataStructureProofs
TextureContract <-- TextureSystemProperties --> TextureSystemProofs
        ^             (EXTENDS TextureSystem) \--> MCTextureSystem
        |
        +--------- MaterialSystem --> MaterialSystemProofs, MCMaterialSystem
MemorySystem --> MemorySystemProofs, MCMemorySystem
VulkanFrame --> VulkanFrameProofs
Scene --> SceneProofs, MCScene
ShaderInstances --> ShaderInstancesProofs, MCShaderInstances
```

A system that is used by another one has a contract, a module of its own that
says what callers may rely on. The detailed module is shown to implement it
(`INSTANCE ... WITH` a refinement mapping), and the user is written on the
contract: the job system on FIFOs, the material system on `TextureContract`.
Where a module needs only one consequence of another it says so at the top:
`Scene` lets the answers of jobs come in any later frame and in any order,
`MemorySystem` takes the first fit of the free list, `ShaderInstances` has the
frames and fences of `VulkanFrame` without the resize.

**RingQueue** (`data_structures/ring_queue.c`). `block`, `head`, `tail` and
`length` are the fields of `RING_QUEUE`; the tail starts at -1. `Enqueue`,
`Dequeue` and `Peek` are the three calls, `EnqueueFull` and `TakeEmpty` their
refusals. `BoundedFifo` is what they amount to: a sequence.

**JobThreads** (`systems/job_system.h`, `core/systems_manager.c`). The types and
priorities of jobs, and the number and masks of the threads the engine starts,
with the comparison of the cap instead of the number of threads.

**JobSystem** (`systems/job_system.c`). One step per access to shared state: the
wait for a mutex is a step, the section under it with its unlock the next.
`sub[c]` is the call of `job_system_submit` each thread is in, the main thread or
a running job; `main` is where `job_system_update` is (peek a queue, find a
thread, test it under its mutex, assign under the queue's; then the results:
copy under the lock, call back outside it, clear under it again) or
`job_system_shutdown`; `thr[w]` is where `job_thread_run` is. `phase` is the
shutdown, from which each mutex and queue disappears in turn; a thread that
touches one that is gone, or not there yet, crashes (`crashed`). `hist` and
`order` are history only. `JobContract` gives each job a stage, new, waiting,
running, returned, over, or lost when there is no room.

**FreeList** (`memory/freelist.c`). The pool of nodes is `node`, a place is in
use when its size is not 0, and `get_node` never looks at place 0. Each branch of
`freelist_allocate_block`, `freelist_free_block`, `freelist_resize` and
`freelist_clear` is an action; `FreeFault`, `ResizeFault` and `ClearFault` are
the branches that write through null. `BlockAllocator` is the promise: what is
given out is free, a refusal means that no run of free bytes is that long.

**TextureSystem** (`systems/texture_system.c`). `ref` is the hash table of
`TEXTURE_REFERENCE`, `texture` the slots, `load` the parameters of the load jobs
in flight. An acquire is atomic, as all of it runs on the main thread; a load is
two steps, `LoadRead` on a job thread and `LoadSuccess` from
`job_system_update`. That a load runs at most once and is answered at most once
is what the job system is shown to do; that it drops jobs is modelled too: an
acquire may find the queue full, and `LoadDropped` is a result without room
(`dropped`). `Hash` is any function from names to entries, because the
hash table keeps no keys. `owned` counts the backend's textures, `held` the
references of the callers. The callers in the repository release by the name
that is in the texture, which is empty until it has arrived, so they never give
up the last reference before; `Hasty` are callers that release by another name.

**MaterialSystem** (`systems/material_system.c`), on `TextureContract`. A call is
`call.op` with the map it is at: `LoadMap` three times and `LoadEnd`, or
`LoadStops` after any map when the renderer or the shader fails; `DestroyMap`
three times and `DestroyEnd`, or, in the shutdown, `CloseSlot`. Between calls
textures arrive or are lost. A map whose texture is not configured, or was
refused, has a default texture (`NoMap`). Releases and the shutdown come at any
time: a map whose texture has not arrived is released by the empty name, and its
reference stays counted, which `stray` records (`GoesAstray`).

**MemorySystem** (`core/ymemory.c`, `memory/hpha_allocator.c`,
`memory/dynamic_allocator.c`). `reserved` is what each pool's free list has given
out, `header` the `alloc_header`s in the pool's memory, by address: a write over
one destroys it (`Overwrite`), and a free trusts what it finds there. A call is
`pc[t]`: `reserve` under the first locking, `report` under the second, `zero`
outside both; a free is `release` and `unreport`. `FallBack` takes a block from
the platform, `LogsUnderMutex` is the line that a full pool writes to the log
while the mutex is held, and goes to `relock` when a consumer of the log
(`Watch`) allocates. Before `Start` there is only the platform. `platform` blocks
have no header, so a free of one counts garbage (`garbled`).

**VulkanFrame** (`core/engine.c`, `renderer_frontend.c`, `vulkan_backend.c`,
`vulkan_swapchain.c`). `pc` goes through a turn of the loop: `Pump` gives one
event of the window to the engine and the frontend; `SkipFrame`, `ApplyResize`
or `DrawFrame` are the branches of `renderer_draw_frame`; `Recreate`, `Acquire`
or `OutOfDate` those of `frame_begin`; `MarkImage` is `frame_end` up to the
submission and `Submit` the rest with present. An acquire may answer that the
swapchain is suboptimal, which the code takes for a success. `fence`, `available`, `acquired`
and `inFlight` are the synchronisation objects. `Window` (sizes that change at
any time), `Execute` (the GPU) and the choice of the image in `Acquire` are the
outside. `ViewFails` and `SubmitFails` are the failures the engine ignores, at
most one in a behaviour.

**Scene** (`resources/simple_scene.c`, `mesh.c`, `skybox.c`,
`systems/geometry_system.c`, `light_system.c`, `testbed_main.c`). `block` is the
memory of the arrays of the present scene; a load job (`loads`) carries the block
and the index of its mesh, and answers in any later frame. An answer whose scene
is gone writes into dead memory (its slots are `lost`) or into the mesh of a
later scene in the same block. `phase` is the turn of the loop: in `pump` the keys
of the testbed (`LoadScene`, `UnloadScene`), in `jobs` the answers (`Arrive`,
`ArriveFails`), then `Update` with the actual unload and the write to
the light the testbed keeps (`written`), and `Render`, which crashes
on a null geometry. `LoadDropped` is a load without an answer. `slipped` records an unload before the last answer
and an upload the renderer refused: several properties hold up to there, and the
runs show that they hold no longer.

**ShaderInstances** (`vulkan_backend.c`, with `material_system.c`,
`texture_system.c` and the view of the world around it). `instance` is the
`internal_id` of a material, `offset` its range of the uniform buffer, `sets` the
ids with descriptor sets, `written[i][k]` what the set of id i and image k refers
to; a view that was destroyed is `Gone` there. `Draw` applies a material that was
not drawn in this frame and binds it otherwise; `bound` and `pending` are what
the command buffer being recorded and those with the GPU will read, and
`rewritten` collects the sets that a `Write` changed although they were bound. `AcquireNoId`
and `AcquireNoSets` are the refusals; the second keeps the id (`leaked`). The
three maps of a material are one.

## Runs

| run | shows | bounds, and why they are enough |
|---|---|---|
| `ring_queue` | indices in step, a bounded FIFO | capacity 3, 3 items: full, empty and wrapped in every phase |
| `job_system` | right thread, at most once and answered as it went, contract, no assignment or result erased | 2 threads, 2 jobs, queues and results of one place, so that both fill; shutdown at any time; a running job submits |
| `job_order` | jobs of one queue are handed out in the order of acceptance | 3 jobs in a queue of 2, 2 threads |
| `job_liveness` | accepted jobs run, stored results are answered | 1 thread that takes all types, 2 jobs of three kinds, so that a low one may wait behind a high one; shutdown possible. Finitely many jobs: see Fairness |
| `freelist` | each free byte listed once, in merged nodes; no node lost; a block allocator | 6 bytes resized to 7, blocks of 1 and 2, a pool of 3: all merges, the pool exhausted |
| `texture_system` | distinct handles, backend textures owned once, holders counted and served, held images arrive or were dropped, the contract | 2 images, one may be missing, a cube that may fail, a writeable texture; 4 slots, 2 names held at a time, 2 loads in flight that may be dropped; one image is held up to twice |
| `material_system` | texture references are maps, or went astray, at every step and none dangles, materials own what they have, nothing else left at the end | releases and shutdown during loads; 3 materials on 2 textures, one material with the same texture twice, one that may fail to load, 3 slots so that failed loads use up the slots; no new material once a texture has two stray references |
| `memory_system` | headers survive, bytes apart, places come back, statistics balance, calls return | 2 threads, 2 pools at odd addresses with room for two blocks and for one, 3 requests of different alignment, one block of the platform: both pools full and fragmented, padding of each length, both threads between their lockings |
| `memory_full` | the disagreement below | as `memory_system` |
| `vulkan_frame` | fences return, images free, presented in turn, targets of the swapchain, never stuck, a resize takes effect | 3 images and 2 frames in flight, the most the arrays have room for; 2 sizes and minimised; 2 waiting events; a delay of 2 frames |
| `scene` | geometries owned once, lights current, nothing left, never short, unloads take place | 2 scenes in 2 blocks, so that the second may or may not get the memory of the first; meshes of 1 and 2 geometries and a skybox, which just fill 4 slots; 2 lights |
| `shader_instances` | reads alive, draws current, instances owned, no bound set rewritten | 3 materials, two on one texture; 3 ids, sets for 2; 2 images and 2 frames, so that the index of the frame and of the image part |

`MaxHeld` bounds the references callers take, `MaxNames` the names they hold at a
time, `MaxStray` the stray references of a texture, `MaxLoads` the loads in
flight, `MaxScenes` the scenes that are loaded, `MaxEvents` the waiting events, and
`CountLimit` stands for 2^64; the set `Job` is the jobs that are ever created.
`QueueCapacity`, `MaxResults`, `EntryBytes`, `ResizeBytes` and `MinEntries` are
the source's constants, made small. `Symmetry` permutes the jobs, which no
definition tells apart, and is used only where no liveness is checked.

### Fairness

`FairSpec` of the job system assumes that the frame loop calls
`job_system_update` again and again (`core/engine.c` does so each frame), that a
thread that can go on does, and that a thread waiting for a mutex gets it if it
is free again and again (strong fairness: the mutexes are held for a few
instructions, and a job thread sleeps 10 ms between polls). Nothing is assumed of
who submits, nor that a shutdown comes. `Served` is about finitely many jobs, each
of a type that some thread takes (`Covered`): `process_queue` prefers the high and
normal queues, so a stream of such jobs that never ends would starve a low one, and
nothing promises otherwise. `FairSpec` of the texture system is that each load goes
on, to its end or to where it is dropped: loads of textures and meshes are all
the jobs there are (`texture_system.c:558`, `mesh.c:81`), general and of normal
priority, so they are in one FIFO and none is starved as long as a thread takes
general jobs (`JobDualCore.cfg` is where none does). `TextureArrives` therefore
excepts the images whose load was dropped. That of `Scene` is only that the
frames and the shutdown go on; loads may never answer. `FairSpec` of the memory system: a thread in a call
goes on, and the mutex is not kept from it, for which weak fairness is enough,
because the sections under the mutex are single steps and nobody who can go on
holds it between steps. `Fairness` of `VulkanFrame`: the main thread goes on where it is
not blocked, and the GPU finishes each submission, which Vulkan promises; nothing
is assumed of the window, and no failure has to come.

### Disagreements with what the source says

One is a run, `memory_full`: `hpha_allocator.c:92` says "Fallback to platform
allocator", but the failed allocation is logged first, with `allocation_mutex`
held. The debug console of the testbed is a consumer of the log and allocates the
line it keeps, so the thread waits for the mutex it holds. `CallsReturn` of
`memory_system` excludes just this; `FullPoolFallsBack` does not.

Five more have a property and a configuration in this directory, to run with
`tlc -config <configuration> <module>`, each of which ends in a counterexample:

* `JobPriorityClaim.cfg` with `MCJobSystem`: a job at the head of the high queue
  that no idle thread takes ends the search of that queue, and normal jobs go
  first, against `job_system.h:36` (`HighExhaustedFirst`).
* `JobStartup.cfg` with `MCJobSystem`: each thread creates the mutex of its own
  info; a submit right after `job_system_init` may lock one that does not exist
  (`InfoMutexExists`).
* `JobDualCore.cfg` with `MCJobSystem`: with two processors and a multithreaded
  renderer the only job thread has the mask of GPU jobs; general jobs are accepted
  and never run (`ServedByAnyThreads`, which is `Served` without `Covered`).
* `FreeListResize.cfg` with `FreeList`: resizing twice after the head became empty
  links a node to itself, and every later walk is endless (`ResizeKeepsList`).
* `TextureRelease.cfg` with `MCTextureSystem`: a texture released while it loads, by
  a caller that keeps the name, is written into the freed slot, with id 0. The slot is lost, or is the next name's
  (`SlotReclaimed`).

Seen while modelling, without a run: a free that needs a node when the pool is
used up writes through null (`freelist.c:151`; the model stops there);
the load job reads the data of an image that was not found (`texture_system.c:514`;
likewise); a cube that fails leaves its name and a generation in a free slot
(`texture_system.c:429`); a writeable texture acquired again is made again over
the first (`texture_system.c:172`); a resize of a writeable texture answers false
when it succeeds (`texture_system.c:249`); two names with one hash share an entry
(`hashtable.c:58`); a material whose load fails keeps its slot and references
until shutdown (`material_system.c:248`); a material destroyed before its textures
arrived releases the empty name and gives nothing back (`material_system.c:550`); a
submission that fails after its fence was reset leaves the next turn of this frame
waiting for ever (`vulkan_backend.c:586`), and a view that fails leaves the image
acquired and its semaphore signalled (`renderer_frontend.c:138`), as
`renderer_draw_frame`'s result is not looked at; the command buffer and the
descriptor sets of an image are written while the last frame that used the image
may still be with the GPU (`vulkan_backend.c:525` and `1971`); a mesh whose
scene was unloaded writes through a stale address when it arrives (`mesh.c:30`);
`application_update` writes to its light after `simple_scene_update` has
unloaded the scene and freed the lights (`testbed_main.c:392`); a quit while
a scene is UNLOADING leaves it to the end of the process (`testbed_main.c:349`);
a geometry that is refused is kept as null, and drawn (`vulkan_backend.c:1365`); a
block of the platform is uncounted with a size and a tag nobody set
(`ymemory.c:265`); a skybox that fails to load leaves its scene LOADING for good
(`simple_scene.c:176`).

## Proofs

All theorems hold for every value of the constants that satisfies the named
assumptions.

* **DataStructureProofs**, the free list: `BytesStayListed`, `PlacesStayReturned`
  and `ListImplementsAllocator`, for any sizes above 0, requests and numbers of
  nodes, and a null that is not a number. The list of the model is a walk from
  `head`, and the proofs need a sequence that they can cut: `Chain` says that a
  sequence of distinct places is linked and ends in null, and `ChainIsList` that
  such a sequence is what the walk gives. `IInv` says that, while the list works
  (`Ready`), there is a chain that is `Tidy` (nodes ascend and do not touch, none is
  empty but place 0 at the head, and every place in use is in the chain) and
  `Shared` (a byte is in a node exactly when it is in no block, and no two blocks
  have a byte in common). That only place 0 can be empty and linked is what makes
  `get_node`, which never looks at place 0, safe. Each branch has a lemma: it cuts
  a place out of the chain, puts one in or replaces one (`ChainCut`, `ChainPut`,
  `ChainReplace`), and the bytes follow. A resize copies the whole chain:
  `RangesGrow` and `RangesExtend` say that the copies cover the old ranges and the
  new bytes; where the copy of an empty head is given out twice the list becomes a
  cycle, and `Looped` shows that such a list is not `Ready` any more. Inductions
  over lengths use that a set of numbers has a least one (`Least`).
* **DataStructureProofs**, the ring queue, instantiated as `Ring`: `IndexCorrect`
  (the indices agree) and `RingImplementsFifo`, which states the `ImplementsFifo`
  that `ring_queue` checks. The invariant says that the tail is the place before
  head + length, modulo the capacity; the refinement lemmas show that reading the
  block from the head gives the sequence, with the element appended or taken away.
* **JobSystemProofs**: `InvariantHolds`, and from it `TypeCorrect`,
  `RightThreadHolds`, `AtMostOnceHolds`, `CallbackIsOutcomeHolds`. `AtMostOnce` is
  not inductive: one has to know that a job is in one place at a time (a call, a
  queue, an info, a result entry), that a thread keeps its info until it resets
  it, that the job main holds is still the head of its queue although the queue
  was peeked without its mutex, and that a called-back entry is the one the main
  thread is at. `IInv` is these parts, each named for what it relates, and there
  is one lemma for each action that changes something.
  `NothingIsErased`, which is about infos and results, not queues, needs two facts more (`EInv`): a job whose info is about to be
  reset has an outcome, and a result entry about to be cleared had its callback.
  `HandedOutAsAccepted` rests on `OInv`: each queue holds jobs of its own priority
  in the order of acceptance, and only a job of high priority is handed over
  without being queued. `JobsImplementContract` maps each job to a
  stage of `JobContract`. The places where a job may be are apart, so a step that
  moves one job leaves the stage of all others, and there is one lemma for each
  kind of move (accept, assign, start, finish, answer, drop).
* **TextureSystemProofs**: `TextureTypeCorrect` and `HandlesStayDistinct`, also
  for hasty callers and for any hash. A free slot is given to an entry, so one
  has to know that no entry leads to a free slot (`HandleTaken`).
  `BackendStaysOwned` and `CountsStayExact` hold when no two names share an entry
  (`NamesApart`), also for hasty callers: the count of textures the backend has
  goes up only where a slot's data was absent. `HoldersStayServed`, `SlotsStayReclaimed`
  and the refinement `TexturesImplementContract` are for callers that release by
  the name in the texture (`Patient`, that is `NamesApart` and `~Hasty`), as those in
  the repository do, whatever loads are dropped. `TInv` adds what connects a load to
  its entry: a load that is on its way is the only one for its slot, the slot is the
  one its name leads to, and a held name has the texture, or such a load, or one that
  was dropped (`ServeInv`, `LoadInv`). That `~Hasty` cannot be dropped for
  `SlotsStayReclaimed` is what `TextureRelease.cfg` shows.
* **MaterialSystemProofs**: `MaterialTypeCorrect`, `MaterialsStayApart`,
  `MaterialCountExact`, `TexturesStayHeld` with its parts `TextureCountExact` and
  `MapsStayAlive`, and `NothingIsLeft`, all of them for releases and
  shutdowns at any time, textures on their way or lost included. `MInv` adds what a
  call has done so far: the maps before the current one are loaded or have the
  default, the slot of a load is nobody's, and the material being destroyed has its
  last reference. `SweptInv` is that a shutdown has emptied the slots it has passed.
  The step that matters is `DestroyMap`: a map that has not given up its reference
  counts, so its texture is registered; it has arrived and is released, and the count
  goes down with the set of maps, or the reference goes from the maps to `stray`.
* **VulkanFrameProofs**: `FencesNotLost`, `ImagesInFlightKept`, `TakesTurns` and
  `RecordsToItsSwapchain`, for two or three images, any sizes, any delay and any
  number of waiting events. `IInv` relates what no property mentions: a pending
  submission is the one of its frame and is marked in `images_in_flight`, so the
  two waits for fences cover the image and the frame (`FenceInv`); a semaphore is signalled only within a frame that was not ended
  (`UnsentInv`); where the targets are those of a stale swapchain, an event that
  will replace them is waiting, or the frontend counts its frames (`EventInv`,
  `StaleInv`). The last is the one that needs thought: it is why an out-of-date
  acquire need not rebuild the targets itself.
* **SceneProofs**: `GeometriesStayOwned`, `LightsStayCurrent` and `NothingIsLeft`,
  for any pool, any number of meshes, blocks, scenes and late answers.
  `LightsStayCurrent` is an invariant and a property of steps (`WritesStayCurrent`):
  an update writes to the scene that it found, which the update that unloads has
  just freed, and never to an earlier one. The
  invariant adds that, as long as no scene was unloaded early, a load that was not
  answered belongs to the present scene and to a mesh that has not arrived
  (`LoadsInv`), so that a mesh is written once and nothing is lost.
  `NeverRunsShort` is for a pool with more slots than the meshes have geometries
  (`Roomy`, which the configuration of the engine and the run satisfy): every slot in
  use is then the image of a place that was given one, and the places are fewer
  than the slots, so one is free whenever one is asked for.
* **ShaderInstancesProofs**: `NothingFreedUnderTheGPU`, `DrawnAsItIs`,
  `SetsWrittenOnce` and `InstancesStayOwned`, for any materials, textures, ids and
  sets. What makes it work is that a release waits for the device (`Idle`), so an
  id that is taken again is in no submission, and that its sets are fresh, so
  nothing of the former owner is believed to be written. `SetsWrittenOnce` needs that
  the sets bound in the buffer being recorded are those of the materials known as
  applied in this frame (`BoundSynced`), so that a next draw does not write.
* **MemorySystemProofs**: `HeadersStaySound`, `BlocksStayApart` and
  `NothingIsLost`, for any threads, pools, requests and alignments, on the
  assumptions that pools do not overlap and the platform's blocks lie outside of
  them. `IInv` adds that a block is known by its address and is one caller's or one
  call's (`OwnInv`), that two places of a pool are apart and inside of it
  (`ApartInv`), and that a block of no pool is the platform's. Three steps carry it:
  what `Zero` writes ends where the block does, so no header is hit; the padding of
  `AlignUp` and the header fit in what `Required` adds, so the new block stays in its
  place; and `Release` finds by the address the pool the block was cut from and by
  the header the place, which nobody else has. `StatsStayBalanced`, for finitely
  many threads and tags, needs the converse as well: a header in memory is that of
  a block somebody has (`OwnedInv`), so none is overwritten by a new one and none
  is measured twice, and a call that frees has no tag before it has read the header
  (`StrayInv`). The statistics are sums, folds of the library that pick the elements
  of a set one after the other. That a sum is the same in any order, and so
  changes by what is put in or taken out (`SumWith`, `SumWithout`, `SumChanged`), is
  proved from a smallest set that would be an exception (`Smallest`), as finite
  sets are well-founded under inclusion; it does not use the library's induction.

What is only model-checked: liveness, which the provers cannot reach.

The contracts close the chain from above and from below: the material system is
proved on `TextureContract`, and the texture system is proved to implement it; the
job system is proved to implement `JobContract`, and its queues are ring queues,
proved to be FIFOs; the free list under the memory system is proved to be a
block allocator.

## What is left out

Of the modelled parts: scratch memory and parameters of jobs (data), the
platform's clock, the default textures and the default material, which have no
slot, wrapping of foreign backend textures, uniforms, meshes with configurations of
their own and the hierarchy of transforms. The
shutdown of the texture system happens with the job system still up, so its
loads may still end; the model stops at the shutdown. `FreeList` is resized only
to larger sizes: `freelist_resize` accepts an equal one, which its caller
(`renderer_frontend.c:494`) refuses before. `VulkanFrame` leaves out a surface that
lets the swapchain choose its extent (`vulkan_swapchain.c:145`), a swapchain that
cannot be created because the size is 0, and an acquire that fails for another reason
than being out of date (`vulkan_swapchain.c:60`). What a write to freed memory
does to its next owner is not modelled, except where `Scene` says so.

### Not modelled

* Mathematics, strings, files, logging and metrics: arithmetic, data and output.
* The WebGPU backend, and what the Vulkan backend does to create devices,
  pipelines, buffers and images: calls of a graphics API. The vendored libraries
  and headers, which are most of the lines of the repository, are not the engine.
* The linear allocator (one counter), containers (data), identifiers and uuids.
* The event and layers systems, input and keymaps, the console: sequential tables
  of the main thread. What is delicate in them, a table that changes while it is
  walked, is not done by any caller in the repository; the events themselves are
  steps of the modules that hear them.
* The camera system, whose acquire of a new name always fails
  (`camera_system.c:103` compares the index), and whose default camera is all the
  engine uses. Fonts, the ui and texts, which are loaded once.
* Hot reload of the application's library, and platforms other than Linux.

## Plan

Done: the job system on the ring queue, the free list and the memory system, the
texture and material systems with the contract between them, the frame and the
swapchain, scenes with their meshes, geometries and lights, shader instances.

What would come next, in this order:

1. `MemorySystem` on `BlockAllocator` instead of its own first fit.
2. `ShaderInstances` with the resize of `VulkanFrame`, where the number of images
   may change.
3. Listeners that register and unregister within an event, once a caller does.
