--------------------------- MODULE TextureSystem ---------------------------
(***************************************************************************)
(* engine/src/systems/texture_system.c: textures in an array of slots,     *)
(* found by name through a hash table of reference counts, and loaded by   *)
(* jobs.  All calls and the callbacks of the jobs are on the main thread;  *)
(* the first half of a load is on a job thread.  JobSystem shows that a    *)
(* job runs once and its callback follows once, unless there is no room    *)
(* for the job or for its result: then it is dropped without a word.       *)
(*                                                                         *)
(* A generation is only ever compared with INVALID_ID: valid stands for    *)
(* generation # INVALID_ID.  A texture that is not valid is drawn as the   *)
(* default texture.                                                        *)
(***************************************************************************)
EXTENDS Integers, FiniteSets

CONSTANTS Image,       \* names acquired with texture_system_acquire
          MissingImage,\* those whose file may not be there
          Cube,        \* names acquired with texture_system_acquire_cube
          BrokenCube,  \* those that may lack a side, or have one of another size
          Target,      \* names of writeable textures
          Unnamed,     \* the empty name: that of a texture not loaded yet
          MaxTextures, \* max_texture_count: slots, and entries of the hash table
          Hash,        \* the entry of each name
          CountLimit,  \* 2^64: reference counts wrap around
          MaxHeld,     \* bound: references of each name at a time
          MaxNames,    \* bound: names that are held at a time
          MaxLoads,    \* bound: loads in flight at a time
          Hasty,       \* whether callers release a texture that has not arrived
          Null

Name == Image \cup Cube \cup Target
Slot == 0 .. MaxTextures - 1
Entry == 0 .. MaxTextures - 1

ASSUME NameAssumption ==
  /\ MissingImage \subseteq Image /\ BrokenCube \subseteq Cube
  /\ Image \cap Cube = {} /\ Image \cap Target = {} /\ Cube \cap Target = {}
  /\ Unnamed \notin Name
ASSUME SizeAssumption ==
  /\ MaxTextures \in Nat \ {0} /\ CountLimit \in Nat /\ MaxLoads \in Nat /\ MaxNames \in Nat
  /\ MaxHeld \in [Name -> 0 .. CountLimit - 1] /\ CountLimit > 1
  /\ Hash \in [Name -> Entry]
  /\ Null \notin Slot
  /\ Hasty \in BOOLEAN

VARIABLES ref,      \* registered_texture_table: TEXTURE_REFERENCE by hash
          texture,  \* registered_textures
          load,     \* TEXTURE_LOAD_PARAMS of the jobs in flight
          owned,    \* history: textures of the backend created and not destroyed
          held,     \* history: references the callers have, by name
          dropped,  \* history: images whose load the job system dropped
          up,       \* state_ptr is not null
          fault     \* a job thread read through null

vars == <<ref, texture, load, owned, held, dropped, up, fault>>

NoLoad == [stage |-> "none", name |-> Unnamed, slot |-> 0]
Destroyed == [id |-> Null, name |-> Unnamed, valid |-> FALSE, data |-> FALSE]

Reference == [count : 0 .. CountLimit - 1, handle : Slot \cup {Null}, auto : BOOLEAN]
Texture == [id : Slot \cup {Null}, name : Name \cup {Unnamed}, valid : BOOLEAN, data : BOOLEAN]
Params == [stage : {"none", "queued", "read"}, name : Image \cup {Unnamed}, slot : Slot]

TypeOK ==
  /\ ref \in [Entry -> Reference]
  /\ texture \in [Slot -> Texture]
  /\ load \in [1 .. MaxLoads -> Params]
  /\ owned \in Int /\ held \in [Name -> Nat] /\ dropped \subseteq Image \cup {Unnamed}
  /\ up \in BOOLEAN /\ fault \in BOOLEAN

Init ==
  /\ ref = [e \in Entry |-> [count |-> 0, handle |-> Null, auto |-> FALSE]]
  /\ texture = [i \in Slot |-> Destroyed]
  /\ load = [j \in 1 .. MaxLoads |-> NoLoad]
  /\ owned = 0 /\ held = [n \in Name |-> 0] /\ dropped = {}
  /\ up = TRUE /\ fault = FALSE

Ready == up /\ ~fault

-----------------------------------------------------------------------------
(* process_texture_reference with a difference of 1 *)

Count(e, diff) == (ref[e].count + diff + CountLimit) % CountLimit

Free(i) == texture[i].id = Null
FirstFree(i) == Free(i) /\ \A k \in Slot : Free(k) => i <= k

\* Mutant: every caller sets auto_release.
CountedAnew(n, auto, i) ==
  [ref EXCEPT ![Hash[n]] = [count |-> Count(Hash[n], 1), handle |-> i, auto |-> auto]]

\* The entry of a name after an acquire that gives it slot i.  auto_release is
\* taken from the first caller only.
Counted(n, auto, i) ==
  LET r == ref[Hash[n]]
  IN  [ref EXCEPT ![Hash[n]] = [count |-> Count(Hash[n], 1), handle |-> i,
                                auto |-> IF r.count = 0 THEN auto ELSE r.auto]]

Holds(n) == /\ held[n] < MaxHeld[n]
            /\ Cardinality({m \in Name \ {n} : held[m] > 0}) < MaxNames
            /\ held' = [held EXCEPT ![n] = @ + 1]

\* The name has a slot.
AcquireAgain(n, auto) ==
  /\ Ready /\ n \notin Target /\ ref[Hash[n]].handle # Null /\ Holds(n)
  /\ ref' = Counted(n, auto, ref[Hash[n]].handle)
  /\ UNCHANGED <<texture, load, owned, dropped, up, fault>>

\* The name has no slot, and i is the one for it.
New(n, i) == Ready /\ ref[Hash[n]].handle = Null /\ FirstFree(i)

\* The slot is taken at once, and a job will load the image into it, unless the
\* queue of the jobs is full.
AcquireImage(n, auto) ==
  \E i \in Slot :
      /\ New(n, i) /\ n \in Image /\ Holds(n)
      /\ ref' = Counted(n, auto, i)
      /\ texture' = [texture EXCEPT ![i].id = i]
      /\ \/ /\ \E j \in 1 .. MaxLoads :
                 /\ load[j].stage = "none" /\ \A k \in 1 .. j - 1 : load[k].stage # "none"
                 /\ load' = [load EXCEPT ![j] = [stage |-> "queued", name |-> n, slot |-> i]]
            /\ dropped' = dropped \ {n}
         \/ /\ dropped' = dropped \cup {n}
            /\ UNCHANGED load
      /\ UNCHANGED <<owned, up, fault>>

\* The six sides are loaded within the call.  The skybox auto-releases its cube.
AcquireCube(n) ==
  \E i \in Slot :
      /\ New(n, i) /\ n \in Cube /\ Holds(n)
      /\ ref' = Counted(n, TRUE, i)
      /\ texture' = [texture EXCEPT ![i] = [id |-> i, name |-> n, valid |-> TRUE, data |-> TRUE]]
      /\ owned' = owned + 1
      /\ UNCHANGED <<load, dropped, up, fault>>

\* Mutant: the count is kept.
AcquireCubeCounted(n) ==
  \E i \in Slot :
      /\ New(n, i) /\ n \in BrokenCube
      /\ ref' = [ref EXCEPT ![Hash[n]].count = Count(Hash[n], 1)]
      /\ texture' = [texture EXCEPT ![i].name = n, ![i].valid = TRUE]
      /\ UNCHANGED <<load, owned, held, dropped, up, fault>>

\* A side fails after the first one: the slot stays free, the count is not
\* kept, but the slot has the name and a generation.
AcquireCubeFails(n) ==
  \E i \in Slot :
      /\ New(n, i) /\ n \in BrokenCube
      /\ texture' = [texture EXCEPT ![i].name = n, ![i].valid = TRUE]
      /\ UNCHANGED <<ref, load, owned, held, dropped, up, fault>>

\* texture_system_aquire_writeable makes a backend texture whatever the slot
\* has; its caller, the font system, acquires each name once.  The vulkan
\* backend leaves the generation invalid until the texture is written.
AcquireTarget(n) ==
  \E i \in Slot :
      /\ New(n, i) /\ n \in Target /\ Holds(n)
      /\ ref' = Counted(n, FALSE, i)
      /\ texture' = [texture EXCEPT ![i] = [id |-> i, name |-> n, valid |-> FALSE, data |-> TRUE]]
      /\ owned' = owned + 1
      /\ UNCHANGED <<load, dropped, up, fault>>

\* No slot is free for the name: an acquire changes nothing.
Refused(n) == Ready /\ ref[Hash[n]].handle = Null /\ \A i \in Slot : ~Free(i)

\* texture_system_write_data and texture_system_resize on a writeable texture:
\* the backend's texture is kept or replaced by another one.
WriteTarget(n) ==
  /\ Ready /\ n \in Target /\ held[n] > 0
  /\ texture' = [texture EXCEPT ![ref[Hash[n]].handle].valid = TRUE]
  /\ UNCHANGED <<ref, load, owned, held, dropped, up, fault>>

-----------------------------------------------------------------------------
(* process_texture_reference with a difference of -1 *)

\* The last reference of an auto-released texture goes.
Expires(e) == Count(e, -1) = 0 /\ ref[e].auto

\* Mutant: the handle stays in the entry.
ReleaseKeepsHandle(n) ==
  LET e == Hash[n]
  IN  /\ ref' = [ref EXCEPT ![e].count = Count(e, -1)]
      /\ texture' = IF Expires(e) THEN [texture EXCEPT ![ref[e].handle] = Destroyed] ELSE texture
      /\ owned' = IF Expires(e) /\ texture[ref[e].handle].data THEN owned - 1 ELSE owned

\* Mutant: the slot is cleared before the backend's texture is destroyed.
ReleaseClearsFirst(n) ==
  LET e == Hash[n]
  IN  /\ ref' = [ref EXCEPT ![e] = IF Expires(e) THEN [count |-> 0, handle |-> Null, auto |-> FALSE]
                                             ELSE [@ EXCEPT !.count = Count(e, -1)]]
      /\ texture' = IF Expires(e) THEN [texture EXCEPT ![ref[e].handle] = Destroyed] ELSE texture
      /\ UNCHANGED owned

\* texture_system_release.  Nothing tells an entry without references from one
\* that has some.
ReleaseName(n) ==
  LET e == Hash[n]
  IN  /\ ref' = [ref EXCEPT ![e] = IF Expires(e) THEN [count |-> 0, handle |-> Null, auto |-> FALSE]
                                             ELSE [@ EXCEPT !.count = Count(e, -1)]]
      /\ texture' = IF Expires(e) THEN [texture EXCEPT ![ref[e].handle] = Destroyed] ELSE texture
      /\ owned' = IF Expires(e) /\ texture[ref[e].handle].data THEN owned - 1 ELSE owned

\* A caller that is not hasty goes by the name in the texture, as the material
\* system and the skybox do, and that is empty until the texture has arrived.  A
\* writeable texture is never given up by the font system.
Release(n) ==
  /\ Ready /\ held[n] > 0
  /\ Expires(Hash[n]) => Hasty \/ texture[ref[Hash[n]].handle].name = n
  /\ held' = [held EXCEPT ![n] = @ - 1]
  /\ ReleaseName(n)
  /\ UNCHANGED <<load, dropped, up, fault>>

-----------------------------------------------------------------------------
\* Mutant: the result is not handed on.
LoadReadDropped(j) ==
  /\ Ready /\ load[j].stage = "queued"
  /\ load' = [load EXCEPT ![j] = NoLoad]
  /\ texture' = [texture EXCEPT ![load[j].slot].valid = FALSE]
  /\ UNCHANGED <<ref, owned, held, dropped, up, fault>>

\* texture_load_job_start, on a job thread: the image is read, and the texture
\* is drawn as the default one until the job is done.
LoadRead(j) ==
  /\ Ready /\ load[j].stage = "queued"
  /\ load' = [load EXCEPT ![j].stage = "read"]
  /\ texture' = [texture EXCEPT ![load[j].slot].valid = FALSE]
  /\ UNCHANGED <<ref, owned, held, dropped, up, fault>>

\* The width of an image that is not there is read before the result is tested.
LoadFault(j) ==
  /\ Ready /\ load[j].stage = "queued" /\ load[j].name \in MissingImage
  /\ fault' = TRUE
  /\ UNCHANGED <<ref, texture, load, owned, held, dropped, up>>

\* texture_load_job_success, from job_system_update: the slot is overwritten
\* with the loaded texture, id included, and what was in it is destroyed.
LoadSuccess(j) ==
  LET i == load[j].slot
  IN  /\ Ready /\ load[j].stage = "read"
      /\ texture' = [texture EXCEPT ![i] = [id |-> 0, name |-> load[j].name, valid |-> TRUE,
                                            data |-> TRUE]]
      /\ owned' = IF texture[i].data THEN owned ELSE owned + 1
      /\ load' = [load EXCEPT ![j] = NoLoad]
      /\ UNCHANGED <<ref, held, dropped, up, fault>>

\* store_result finds no room: the callback will not be called.
LoadDropped(j) ==
  /\ Ready /\ load[j].stage = "read"
  /\ load' = [load EXCEPT ![j] = NoLoad]
  /\ dropped' = dropped \cup {load[j].name}
  /\ UNCHANGED <<ref, texture, owned, held, up, fault>>

LoadStep(j) == LoadRead(j) \/ LoadFault(j) \/ LoadSuccess(j) \/ LoadDropped(j)

\* Textures with an invalid generation are passed over.
Shutdown ==
  LET gone == {i \in Slot : texture[i].valid}
  IN  /\ Ready
      /\ up' = FALSE
      /\ texture' = [i \in Slot |-> IF i \in gone THEN Destroyed ELSE texture[i]]
      /\ owned' = owned - Cardinality({i \in gone : texture[i].data})
      /\ UNCHANGED <<ref, load, held, dropped, fault>>

Main == \/ \E n \in Image, auto \in BOOLEAN : AcquireImage(n, auto)
        \/ \E n \in Cube : AcquireCube(n) \/ AcquireCubeFails(n)
        \/ \E n \in Name, auto \in BOOLEAN : AcquireAgain(n, auto)
        \/ \E n \in Target : AcquireTarget(n)
        \/ \E n \in Target : WriteTarget(n)
        \/ \E n \in Image \cup Cube : Release(n)

Next == \/ Main
        \/ \E j \in 1 .. MaxLoads : LoadStep(j)
        \/ Shutdown
        \/ (~Ready \/ \E n \in Name : Refused(n)) /\ UNCHANGED vars

Spec == Init /\ [][Next]_vars

\* The job threads and the frame loop go on: a load that is queued is started, and
\* one that was read is answered or dropped.
FairSpec == Spec /\ \A j \in 1 .. MaxLoads : WF_vars(LoadStep(j))
=============================================================================
