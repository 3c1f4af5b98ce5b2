---------------------- MODULE TextureSystemProperties ----------------------
(***************************************************************************)
(* What the texture system is for: one slot per name, as long as somebody  *)
(* holds it, with the image of that name.                                  *)
(***************************************************************************)
EXTENDS TextureSystem

\* Two entries never lead to one slot, whatever was released and loaded in
\* between.
HandlesDistinct ==
  \A d, e \in Entry : ref[d].handle # Null /\ ref[d].handle = ref[e].handle => d = e

\* Strengthens HandlesDistinct: while the system is up, the slot of an entry is
\* in use, so that a free slot is nobody's.  LoadSuccess gives the slot of
\* another texture the id 0, but never frees it.
HandleTaken ==
  up => \A e \in Entry : ref[e].handle # Null => texture[ref[e].handle].id # Null

\* The count of an entry is the number of references given out for its name:
\* no failed acquire leaves one behind and no release is lost or wraps.
CountIsHolders ==
  up => \A n \in Name : ref[Hash[n]].count = held[n]

\* Each texture of the backend belongs to exactly one slot: overwriting a slot
\* loses none and destroying it twice is impossible.
BackendOwned == owned = Cardinality({i \in Slot : texture[i].data})

\* A name somebody holds has a slot, and the slot has its texture, or one job is
\* on the way to load it, or that job was dropped.
HeldIsRegistered ==
  Ready => \A n \in Name : held[n] > 0 =>
    LET i == ref[Hash[n]].handle
        loads == {j \in 1 .. MaxLoads : load[j].stage # "none" /\ load[j].slot = i}
    IN  /\ i # Null /\ texture[i].id # Null
        /\ texture[i].data => texture[i].name = n /\ n \notin dropped
        /\ IF texture[i].data \/ n \in dropped THEN loads = {}
           ELSE Cardinality(loads) = 1 /\ \A j \in loads : load[j].name = n

\* Who holds a name is counted, and has the texture or its load.
HoldersServed == CountIsHolders /\ HeldIsRegistered

\* texture_system.c:605 "Check if the reference count has reached 0. If it has,
\* and the reference is set to auto-release, destroy the texture.": a slot in use
\* is the slot of some name, and none is lost.
SlotReclaimed ==
  Ready => \A i \in Slot : texture[i].id # Null => \E e \in Entry : ref[e].handle = i

\* A texture that stays held is loaded in the end, unless its own load was dropped
\* or an image is missing: no other acquire, release or load takes its turn away.
TextureArrives ==
  \A n \in Image : held[n] > 0 ~> \/ held[n] = 0 \/ ~Ready \/ n \in dropped
                                  \/ texture[ref[Hash[n]].handle].name = n

\* What callers see is the contract: counts are exact, auto_release is the first
\* caller's, and no release, load or acquire of another name takes away an image
\* that has arrived.
Closed == [n \in Name |-> "none"]
ImageOf(n) == LET i == ref[Hash[n]].handle
              IN  CASE i = Null -> "none"
                    [] i # Null /\ texture[i].data /\ texture[i].name = n -> "here"
                    [] i # Null /\ n \in dropped /\ ~texture[i].data -> "lost"
                    [] OTHER -> "coming"
Contract == INSTANCE TextureContract
              WITH count <- [n \in Name |-> ref[Hash[n]].count],
                   auto <- [n \in Name |-> ref[Hash[n]].auto],
                   image <- IF up THEN [n \in Name |-> ImageOf(n)] ELSE Closed,
                   open <- up
ImplementsContract == Contract!Spec
=============================================================================
