------------------------ MODULE TextureSystemProofs ------------------------
(***************************************************************************)
(* What the texture system does for its callers, for any number of slots,  *)
(* names and loads in flight.                                              *)
(*                                                                         *)
(* Two names never share a slot, whenever callers release.                 *)
(* HandlesDistinct is not inductive: a free slot is given to an entry, so  *)
(* one has to know that no entry leads to a free slot.  That is            *)
(* HandleTaken, whose own hard case is Release: it frees a slot, and needs *)
(* HandlesDistinct to know that no other entry leads there.                *)
(*                                                                         *)
(* The other parts build on it: what the backend holds (KInv), who is      *)
(* served and the contract of the callers (TInv), and that no slot is lost *)
(* (UsedInv), each under the assumptions about callers that it needs.      *)
(***************************************************************************)
EXTENDS TextureSystemProperties, FiniteSetTheorems, TLAPS

HInv == TypeOK /\ HandlesDistinct /\ HandleTaken

\* A count stays below the limit, where it wraps around.
LEMMA CountType ==
  ASSUME TypeOK, NEW e \in Entry, NEW diff \in {1, -1}
  PROVE  Count(e, diff) \in 0 .. CountLimit - 1
<1>1. ref[e].count \in Int
  BY DEF TypeOK, Reference
<1>2. CountLimit \in Nat /\ CountLimit > 0
  BY SizeAssumption
<1>3. ref[e].count + diff + CountLimit \in Int
  BY <1>1, <1>2
<1>4. \A x \in Int : x % CountLimit \in 0 .. CountLimit - 1
  BY <1>2
<1> QED  BY <1>3, <1>4 DEF Count

\* texture_system_init leaves every slot free and every entry without one.
LEMMA InitHInv == Init => HInv
<1> SUFFICES ASSUME Init PROVE HInv
  OBVIOUS
<1>1. 0 \in 0 .. CountLimit - 1 /\ 0 \in Slot /\ Null \notin Slot
  BY SizeAssumption DEF Slot
<1>2. TypeOK
  <2>1. ref \in [Entry -> Reference]
    BY <1>1 DEF Init, Reference
  <2>2. texture \in [Slot -> Texture]
    BY DEF Init, Destroyed, Texture
  <2>3. load \in [1 .. MaxLoads -> Params]
    BY <1>1 DEF Init, NoLoad, Params
  <2>4. held \in [Name -> Nat]
    BY SizeAssumption DEF Init
  <2>5. owned \in Int
    BY DEF Init
  <2>6. up \in BOOLEAN /\ fault \in BOOLEAN /\ dropped \subseteq Image \cup {Unnamed}
    BY Zenon DEF Init
  <2> QED  BY <2>1, <2>2, <2>3, <2>4, <2>5, <2>6 DEF TypeOK
<1>3. HandlesDistinct /\ HandleTaken
  BY DEF Init, HandlesDistinct, HandleTaken
<1> QED  BY <1>2, <1>3 DEF HInv

\* What an acquire that gives the name slot i does to its entry.
LEMMA CountedType ==
  ASSUME TypeOK, NEW n \in Name, NEW auto \in BOOLEAN, NEW i \in Slot
  PROVE  /\ Hash[n] \in Entry
         /\ Counted(n, auto, i) \in [Entry -> Reference]
         /\ \A e \in Entry : Counted(n, auto, i)[e].handle = IF e = Hash[n] THEN i
                                                            ELSE ref[e].handle
<1>1. Hash[n] \in Entry
  BY SizeAssumption
<1>2. Count(Hash[n], 1) \in 0 .. CountLimit - 1
  BY <1>1, CountType
<1> DEFINE r == [count |-> Count(Hash[n], 1), handle |-> i,
                 auto |-> IF ref[Hash[n]].count = 0 THEN auto ELSE ref[Hash[n]].auto]
<1>3. r \in Reference
  BY <1>1, <1>2 DEF TypeOK, Reference
<1>4. Counted(n, auto, i) = [ref EXCEPT ![Hash[n]] = r]
  BY DEF Counted
<1> HIDE DEF r
<1>5. Counted(n, auto, i) \in [Entry -> Reference]
  BY <1>1, <1>3, <1>4 DEF TypeOK
<1>6. r.handle = i
  BY DEF r
<1>7. \A e \in Entry : Counted(n, auto, i)[e].handle = IF e = Hash[n] THEN i ELSE ref[e].handle
  BY <1>1, <1>4, <1>6 DEF TypeOK
<1> QED  BY <1>1, <1>5, <1>7

\* An acquire that gives a name a free slot, or the slot it has, keeps the
\* entries apart, when the slot is in use afterwards and no other one is freed.
LEMMA AcquireApart ==
  ASSUME HInv, up' = up, up,
         NEW n \in Name, NEW auto \in BOOLEAN, NEW i \in Slot,
         ref' = Counted(n, auto, i),
         Free(i) \/ i = ref[Hash[n]].handle,
         texture'[i].id # Null,
         \A k \in Slot : texture[k].id # Null => texture'[k].id # Null
  PROVE  HandlesDistinct' /\ HandleTaken'
<1>1. TypeOK /\ HandlesDistinct /\ HandleTaken /\ i # Null
  BY SizeAssumption DEF HInv
<1>2. /\ Hash[n] \in Entry
      /\ \A e \in Entry : ref'[e].handle = IF e = Hash[n] THEN i ELSE ref[e].handle
  BY <1>1, CountedType
<1>3. \A e \in Entry : e # Hash[n] => ref[e].handle # i
  BY <1>1, <1>2 DEF HandlesDistinct, HandleTaken, Free
<1>4. HandlesDistinct'
  BY <1>1, <1>2, <1>3 DEF HandlesDistinct
<1>5. \A e \in Entry : ref[e].handle \in Slot \cup {Null}
  BY <1>1 DEF TypeOK, Reference
<1>6. HandleTaken'
  BY <1>1, <1>2, <1>5 DEF HandleTaken
<1> QED  BY <1>4, <1>6

\* Handles and ids that stay as they are stay apart.
LEMMA SameHandles ==
  ASSUME HInv, up' = up, \A e \in Entry : ref'[e].handle = ref[e].handle,
         \A k \in Slot : texture'[k].id = texture[k].id
  PROVE  HandlesDistinct' /\ HandleTaken'
BY DEF HInv, TypeOK, Reference, HandlesDistinct, HandleTaken

\* Every call and every half of a load keeps the invariant.
LEMMA NextHInv == HInv /\ [Next]_vars => HInv'
<1> SUFFICES ASSUME HInv, [Next]_vars PROVE HInv'
  OBVIOUS
<1>0. TypeOK /\ HandlesDistinct /\ HandleTaken
  BY DEF HInv
<1>1. ASSUME NEW n \in Image, NEW auto \in BOOLEAN, AcquireImage(n, auto)
      PROVE  HInv'
  <2>1. PICK i \in Slot : /\ New(n, i) /\ Holds(n)
                          /\ ref' = Counted(n, auto, i)
                          /\ texture' = [texture EXCEPT ![i].id = i]
                          /\ \/ \E j \in 1 .. MaxLoads :
                                  load' = [load EXCEPT ![j] = [stage |-> "queued", name |-> n, slot |-> i]]
                             \/ load' = load
                          /\ dropped' \subseteq dropped \cup {n}
                          /\ UNCHANGED <<owned, up, fault>>
    BY <1>1 DEF AcquireImage
  <2>2. n \in Name
    BY DEF Name
  <2>3. TypeOK'
    <3>1. ref' \in [Entry -> Reference]
      BY <1>0, <2>1, <2>2, CountedType
    <3>2. texture' \in [Slot -> Texture]
      BY <1>0, <2>1 DEF TypeOK, Texture
    <3>3. load' \in [1 .. MaxLoads -> Params]
      BY <1>0, <2>1 DEF TypeOK, Params
    <3>4. held' \in [Name -> Nat]
      BY <1>0, <2>1, <2>2, SizeAssumption DEF TypeOK, Holds
    <3>5. dropped' \subseteq Image \cup {Unnamed}
      BY <1>0, <2>1 DEF TypeOK
    <3> QED  BY <1>0, <2>1, <3>1, <3>2, <3>3, <3>4, <3>5 DEF TypeOK
  <2>4. HandlesDistinct' /\ HandleTaken'
    <3>1. texture'[i].id # Null /\ \A k \in Slot : texture[k].id # Null => texture'[k].id # Null
      BY <1>0, <2>1, SizeAssumption DEF TypeOK, Texture
    <3>2. up /\ Free(i)
      BY <2>1 DEF New, Ready, FirstFree
    <3> QED  BY <2>1, <2>2, <3>1, <3>2, AcquireApart
  <2> QED  BY <2>3, <2>4 DEF HInv
<1>2. ASSUME NEW n \in Cube, AcquireCube(n)
      PROVE  HInv'
  <2>1. PICK i \in Slot : /\ New(n, i) /\ Holds(n)
                          /\ ref' = Counted(n, TRUE, i)
                          /\ texture' = [texture EXCEPT ![i] = [id |-> i, name |-> n, valid |-> TRUE,
                                                                data |-> TRUE]]
                          /\ owned' = owned + 1
                          /\ UNCHANGED <<load, dropped, up, fault>>
    BY <1>2 DEF AcquireCube
  <2>2. n \in Name
    BY DEF Name
  <2>3. TypeOK'
    <3>1. ref' \in [Entry -> Reference]
      BY <1>0, <2>1, <2>2, CountedType
    <3>2. texture' \in [Slot -> Texture]
      BY <1>0, <2>1, <2>2 DEF TypeOK, Texture
    <3>3. held' \in [Name -> Nat] /\ owned' \in Int
      BY <1>0, <2>1, <2>2, SizeAssumption DEF TypeOK, Holds
    <3> QED  BY <1>0, <2>1, <3>1, <3>2, <3>3 DEF TypeOK
  <2>4. HandlesDistinct' /\ HandleTaken'
    <3>1. texture'[i].id # Null /\ \A k \in Slot : texture[k].id # Null => texture'[k].id # Null
      BY <1>0, <2>1, SizeAssumption DEF TypeOK, Texture
    <3>2. up /\ Free(i)
      BY <2>1 DEF New, Ready, FirstFree
    <3> QED  BY <2>1, <2>2, <3>1, <3>2, AcquireApart
  <2> QED  BY <2>3, <2>4 DEF HInv
<1>3. ASSUME NEW n \in Cube, AcquireCubeFails(n)
      PROVE  HInv'
  <2>1. PICK i \in Slot : texture' = [texture EXCEPT ![i].name = n, ![i].valid = TRUE]
    BY <1>3 DEF AcquireCubeFails
  <2>2. UNCHANGED <<ref, load, owned, held, dropped, up, fault>> /\ n \in Name
    BY <1>3 DEF AcquireCubeFails, Name
  <2>3. texture' \in [Slot -> Texture] /\ \A k \in Slot : texture'[k].id = texture[k].id
    BY <1>0, <2>1, <2>2 DEF TypeOK, Texture
  <2> QED  BY <1>0, <2>2, <2>3, SameHandles DEF TypeOK, HInv
<1>4. ASSUME NEW n \in Name, NEW auto \in BOOLEAN, AcquireAgain(n, auto)
      PROVE  HInv'
  <2> DEFINE i == ref[Hash[n]].handle
  <2>1. /\ i # Null /\ Holds(n) /\ up /\ ref' = Counted(n, auto, i)
        /\ UNCHANGED <<texture, load, owned, dropped, up, fault>>
    BY <1>4 DEF AcquireAgain, Ready
  <2>2. Hash[n] \in Entry
    BY SizeAssumption
  <2>3. i \in Slot /\ texture[i].id # Null
    BY <1>0, <2>1, <2>2 DEF TypeOK, Reference, HandleTaken
  <2>4. ref' \in [Entry -> Reference]
    BY <1>0, <2>1, <2>3, CountedType
  <2>5. held' \in [Name -> Nat]
    BY <1>0, <2>1, SizeAssumption DEF TypeOK, Holds
  <2>6. TypeOK'
    BY <1>0, <2>1, <2>4, <2>5 DEF TypeOK
  <2>7. HandlesDistinct' /\ HandleTaken'
    BY <2>1, <2>3, AcquireApart
  <2> QED  BY <2>6, <2>7 DEF HInv
<1>5. ASSUME NEW n \in Target, AcquireTarget(n)
      PROVE  HInv'
  <2>1. PICK i \in Slot : /\ New(n, i) /\ Holds(n)
                          /\ ref' = Counted(n, FALSE, i)
                          /\ texture' = [texture EXCEPT ![i] = [id |-> i, name |-> n, valid |-> FALSE,
                                                                data |-> TRUE]]
                          /\ owned' = owned + 1
                          /\ UNCHANGED <<load, dropped, up, fault>>
    BY <1>5 DEF AcquireTarget
  <2>2. n \in Name
    BY DEF Name
  <2>3. TypeOK'
    <3>1. ref' \in [Entry -> Reference]
      BY <1>0, <2>1, <2>2, CountedType
    <3>2. texture' \in [Slot -> Texture]
      BY <1>0, <2>1, <2>2 DEF TypeOK, Texture
    <3>3. held' \in [Name -> Nat] /\ owned' \in Int
      BY <1>0, <2>1, <2>2, SizeAssumption DEF TypeOK, Holds
    <3> QED  BY <1>0, <2>1, <3>1, <3>2, <3>3 DEF TypeOK
  <2>4. HandlesDistinct' /\ HandleTaken'
    <3>1. texture'[i].id # Null /\ \A k \in Slot : texture[k].id # Null => texture'[k].id # Null
      BY <1>0, <2>1, SizeAssumption DEF TypeOK, Texture
    <3>2. up /\ Free(i)
      BY <2>1 DEF New, Ready, FirstFree
    <3> QED  BY <2>1, <2>2, <3>1, <3>2, AcquireApart
  <2> QED  BY <2>3, <2>4 DEF HInv
<1>6. ASSUME NEW n \in Target, WriteTarget(n)
      PROVE  HInv'
  <2>1. /\ texture' = [texture EXCEPT ![ref[Hash[n]].handle].valid = TRUE]
        /\ UNCHANGED <<ref, load, owned, held, dropped, up, fault>>
    BY <1>6 DEF WriteTarget
  <2>2. texture' \in [Slot -> Texture] /\ \A k \in Slot : texture'[k].id = texture[k].id
    BY <1>0, <2>1 DEF TypeOK, Texture
  <2> QED  BY <1>0, <2>1, <2>2, SameHandles DEF TypeOK, HInv
<1>7. ASSUME NEW n \in Name, Release(n)
      PROVE  HInv'
  <2> DEFINE e == Hash[n]
  <2>1. /\ held' = [held EXCEPT ![n] = @ - 1] /\ held[n] > 0 /\ ReleaseName(n)
        /\ UNCHANGED <<load, dropped, up, fault>>
    BY <1>7 DEF Release
  <2>2. held' \in [Name -> Nat]
    BY <1>0, <2>1, SizeAssumption DEF TypeOK
  <2>3. e \in Entry
    BY SizeAssumption
  <2>4. CASE Expires(e)
    <3>1. /\ ref' = [ref EXCEPT ![e] = [count |-> 0, handle |-> Null, auto |-> FALSE]]
          /\ texture' = [texture EXCEPT ![ref[e].handle] = Destroyed]
          /\ owned' \in {owned, owned - 1}
      BY <2>1, <2>4 DEF ReleaseName
    <3>2. ref' \in [Entry -> Reference]
      BY <1>0, <2>3, <3>1, SizeAssumption DEF TypeOK, Reference
    <3>3. texture' \in [Slot -> Texture]
      BY <1>0, <3>1 DEF TypeOK, Texture, Destroyed
    <3>4. TypeOK'
      BY <1>0, <2>1, <2>2, <3>1, <3>2, <3>3 DEF TypeOK
    <3>5. \A d \in Entry : ref'[d].handle = IF d = e THEN Null ELSE ref[d].handle
      BY <1>0, <2>3, <3>1 DEF TypeOK
    <3>6. HandlesDistinct'
      BY <1>0, <2>3, <3>5 DEF HandlesDistinct
    <3>7. ASSUME up', NEW d \in Entry, ref'[d].handle # Null
          PROVE  texture'[ref'[d].handle].id # Null
      <4>1. d # e /\ ref'[d].handle = ref[d].handle
        BY <3>5, <3>7
      <4>2. ref[d].handle # ref[e].handle /\ ref[d].handle \in Slot
        BY <1>0, <2>3, <3>7, <4>1 DEF HandlesDistinct, TypeOK, Reference
      <4>3. texture'[ref[d].handle] = texture[ref[d].handle]
        BY <1>0, <3>1, <4>2 DEF TypeOK
      <4> QED  BY <1>0, <2>1, <3>7, <4>1, <4>3 DEF HandleTaken
    <3> QED  BY <3>4, <3>6, <3>7 DEF HInv, HandleTaken
  <2>5. CASE ~Expires(e)
    <3>1. /\ ref' = [ref EXCEPT ![e].count = Count(e, -1)]
          /\ UNCHANGED <<texture, owned>>
      BY <2>1, <2>5 DEF ReleaseName
    <3>2. Count(e, -1) \in 0 .. CountLimit - 1
      BY <1>0, <2>3, CountType
    <3>3. ref' \in [Entry -> Reference] /\ \A d \in Entry : ref'[d].handle = ref[d].handle
      BY <1>0, <2>3, <3>1, <3>2 DEF TypeOK, Reference
    <3>4. TypeOK'
      BY <1>0, <2>1, <2>2, <3>1, <3>3 DEF TypeOK
    <3> QED  BY <1>0, <2>1, <3>1, <3>3, <3>4, SameHandles DEF HInv
  <2> QED  BY <2>4, <2>5
<1>8. ASSUME NEW j \in 1 .. MaxLoads, LoadRead(j)
      PROVE  HInv'
  <2>1. /\ load' = [load EXCEPT ![j].stage = "read"]
        /\ texture' = [texture EXCEPT ![load[j].slot].valid = FALSE]
        /\ UNCHANGED <<ref, owned, held, dropped, up, fault>>
    BY <1>8 DEF LoadRead
  <2>2. texture' \in [Slot -> Texture] /\ \A k \in Slot : texture'[k].id = texture[k].id
    BY <1>0, <2>1 DEF TypeOK, Texture
  <2>3. load' \in [1 .. MaxLoads -> Params]
    BY <1>0, <2>1 DEF TypeOK, Params
  <2> QED  BY <1>0, <2>1, <2>2, <2>3, SameHandles DEF TypeOK, HInv
<1>9. ASSUME NEW j \in 1 .. MaxLoads, LoadFault(j)
      PROVE  HInv'
  BY <1>0, <1>9, SameHandles DEF LoadFault, TypeOK, HInv
<1>10. ASSUME NEW j \in 1 .. MaxLoads, LoadSuccess(j)
       PROVE  HInv'
  <2> DEFINE i == load[j].slot
  <2>1. /\ texture' = [texture EXCEPT ![i] = [id |-> 0, name |-> load[j].name, valid |-> TRUE,
                                              data |-> TRUE]]
        /\ owned' \in {owned, owned + 1}
        /\ load' = [load EXCEPT ![j] = NoLoad]
        /\ UNCHANGED <<ref, held, dropped, up, fault>>
    BY <1>10 DEF LoadSuccess
  <2>2. i \in Slot /\ load[j].name \in Name \cup {Unnamed} /\ 0 \in Slot
    BY <1>0, <1>10, SizeAssumption DEF TypeOK, Params, Name, Slot
  <2>3. texture' \in [Slot -> Texture]
    BY <1>0, <2>1, <2>2 DEF TypeOK, Texture
  <2>4. load' \in [1 .. MaxLoads -> Params]
    BY <1>0, <2>1, <2>2 DEF TypeOK, Params, NoLoad
  <2>5. TypeOK'
    BY <1>0, <2>1, <2>3, <2>4 DEF TypeOK
  <2>6. \A k \in Slot : texture[k].id # Null => texture'[k].id # Null
    BY <1>0, <2>1, <2>2, SizeAssumption DEF TypeOK
  <2>7. HandlesDistinct' /\ HandleTaken'
    BY <1>0, <2>1, <2>6 DEF HandlesDistinct, HandleTaken, TypeOK, Reference
  <2> QED  BY <2>5, <2>7 DEF HInv
<1>13. ASSUME NEW j \in 1 .. MaxLoads, LoadDropped(j)
       PROVE  HInv'
  <2>1. /\ load' = [load EXCEPT ![j] = NoLoad] /\ dropped' = dropped \cup {load[j].name}
        /\ UNCHANGED <<ref, texture, owned, held, up, fault>>
    BY <1>13 DEF LoadDropped
  <2>2. load' \in [1 .. MaxLoads -> Params] /\ dropped' \subseteq Image \cup {Unnamed}
    <3>1. 0 \in Slot
      BY SizeAssumption DEF Slot
    <3> QED  BY <1>0, <2>1, <3>1 DEF TypeOK, Params, NoLoad
  <2> QED  BY <1>0, <2>1, <2>2, SameHandles DEF TypeOK, HInv
<1>11. CASE Shutdown
  <2>1. texture' \in [Slot -> Texture] /\ UNCHANGED <<ref, load, held, dropped, fault>> /\ up' = FALSE
    BY <1>0, <1>11 DEF Shutdown, TypeOK, Texture, Destroyed
  <2>2. owned' \in Int
    <3>1. IsFiniteSet(Slot)
      BY FS_Interval, SizeAssumption DEF Slot
    <3>2. \A S : S \subseteq Slot => Cardinality(S) \in Int
      BY <3>1, FS_Subset, FS_CardinalityType
    <3> DEFINE S == {i \in {k \in Slot : texture[k].valid} : texture[i].data}
    <3>3. owned' = owned - Cardinality(S) /\ S \subseteq Slot
      BY <1>11 DEF Shutdown
    <3> QED  BY <1>0, <3>2, <3>3 DEF TypeOK
  <2>3. TypeOK'
    BY <1>0, <2>1, <2>2 DEF TypeOK
  <2> QED  BY <1>0, <2>1, <2>3 DEF HInv, HandlesDistinct, HandleTaken
<1>12. CASE UNCHANGED vars
  BY <1>0, <1>12, SameHandles DEF vars, TypeOK, HInv
<1> QED
  BY <1>1, <1>2, <1>3, <1>4, <1>5, <1>6, <1>7, <1>8, <1>9, <1>10, <1>11, <1>12, <1>13
  DEF Next, Main, LoadStep, Name

\* The inductive invariant holds whatever callers and jobs do.
THEOREM InvariantOfTextures == Spec => []HInv
BY InitHInv, NextHInv, PTL DEF Spec

\* The texture system is type-correct for all sizes.
THEOREM TextureTypeCorrect == Spec => []TypeOK
<1>1. HInv => TypeOK
  BY DEF HInv
<1> QED  BY <1>1, InvariantOfTextures, PTL

\* process_texture_reference never gives one slot to two names.
THEOREM HandlesStayDistinct == Spec => []HandlesDistinct
<1>1. HInv => HandlesDistinct
  BY DEF HInv
<1> QED  BY <1>1, InvariantOfTextures, PTL

-----------------------------------------------------------------------------
(***************************************************************************)
(* Each texture of the backend belongs to one slot, and the counts of the  *)
(* entries are those of the callers, when no two names share an entry of   *)
(* the hash table, which keeps no keys: the code relies on it.  Callers    *)
(* may release a texture that has not arrived.                             *)
(***************************************************************************)
NamesApart == \A m, n \in Name : Hash[m] = Hash[n] => m = n

Handle(n) == ref[Hash[n]].handle

\* A free slot has no data of the backend: AcquireTarget does not look.
FreeInv == \A i \in Slot : texture[i].id = Null => ~texture[i].data

CountInv == \A n \in Name : ref[Hash[n]].count = held[n] /\ held[n] <= MaxHeld[n]
HeldInv == \A n \in Name : held[n] > 0 => Handle(n) # Null

KInv == HInv /\ FreeInv /\ (up => CountInv /\ HeldInv) /\ BackendOwned

DataSlots == {i \in Slot : texture[i].data}

\* Below the limit a count does not wrap around.
LEMMA CountExact ==
  ASSUME TypeOK, NEW n \in Name, ref[Hash[n]].count = held[n], NEW diff \in {1, -1},
         held[n] + diff \in 0 .. CountLimit - 1
  PROVE  Count(Hash[n], diff) = held[n] + diff
<1> DEFINE y == held[n] + diff
           q == (y + CountLimit) \div CountLimit
           m == (y + CountLimit) % CountLimit
<1>1. CountLimit \in Nat \ {0} /\ y \in 0 .. CountLimit - 1
  BY SizeAssumption
<1>2. Count(Hash[n], diff) = m
  BY DEF Count
<1> HIDE DEF y
<1>3. q \in Int /\ m \in 0 .. CountLimit - 1 /\ y + CountLimit = CountLimit * q + m
  BY <1>1
<1> HIDE DEF q, m
<1>4. q = 1
  <2>1. CASE q <= 0  BY <1>1, <1>3, <2>1
  <2>2. CASE q >= 2
    <3>1. CountLimit * q >= CountLimit * 2  BY <1>1, <1>3, <2>2
    <3> QED  BY <1>1, <1>3, <3>1
  <2> QED  BY <1>3, <2>1, <2>2
<1>5. m = y
  BY <1>1, <1>3, <1>4
<1> QED  BY <1>2, <1>5 DEF y

\* Entries of two names, and their slots, are two.
LEMMA HandlesOfNames ==
  ASSUME HInv, NamesApart, NEW m \in Name, NEW n \in Name, m # n
  PROVE  /\ Hash[m] \in Entry /\ Hash[n] \in Entry /\ Hash[m] # Hash[n]
         /\ Handle(m) # Null => Handle(m) # Handle(n)
         /\ Handle(m) \in Slot \cup {Null}
<1>1. Hash[m] \in Entry /\ Hash[n] \in Entry /\ Hash[m] # Hash[n]
  BY SizeAssumption DEF NamesApart
<1> QED  BY <1>1 DEF HInv, HandlesDistinct, TypeOK, Reference, Handle

\* What the entries of the names are after an acquire.
LEMMA CountedExact ==
  ASSUME KInv, NamesApart, up, NEW n \in Name, NEW auto \in BOOLEAN, NEW i \in Slot, Holds(n),
         ref' = Counted(n, auto, i)
  PROVE  /\ ref'[Hash[n]].count = held[n] + 1 /\ ref'[Hash[n]].handle = i
         /\ ref'[Hash[n]].auto = IF held[n] = 0 THEN auto ELSE ref[Hash[n]].auto
         /\ \A m \in Name : m # n => ref'[Hash[m]] = ref[Hash[m]] /\ held'[m] = held[m]
         /\ held'[n] = held[n] + 1 /\ held[n] + 1 <= MaxHeld[n]
         /\ CountInv' /\ HeldInv'
<1>1. /\ HInv /\ TypeOK /\ CountInv /\ HeldInv /\ Hash[n] \in Entry /\ ref[Hash[n]].count = held[n]
      /\ held[n] \in Nat /\ MaxHeld[n] \in 0 .. CountLimit - 1 /\ CountLimit \in Nat
  BY SizeAssumption DEF KInv, HInv, CountInv, TypeOK
<1>2. held[n] < MaxHeld[n] /\ held' = [held EXCEPT ![n] = @ + 1]
  BY DEF Holds
<1>3. Count(Hash[n], 1) = held[n] + 1
  BY <1>1, <1>2, CountExact
<1> DEFINE r == [count |-> held[n] + 1, handle |-> i,
                 auto |-> IF held[n] = 0 THEN auto ELSE ref[Hash[n]].auto]
<1>4. ref' = [ref EXCEPT ![Hash[n]] = r]
  BY <1>1, <1>3 DEF Counted
<1> HIDE DEF r
<1>5. ref'[Hash[n]] = r /\ \A e \in Entry : e # Hash[n] => ref'[e] = ref[e]
  BY <1>1, <1>4 DEF TypeOK
<1>6. /\ held'[n] = held[n] + 1 /\ held[n] + 1 <= MaxHeld[n]
      /\ \A m \in Name : m # n => held'[m] = held[m]
  BY <1>1, <1>2 DEF TypeOK
<1>7. \A m \in Name : m # n => ref'[Hash[m]] = ref[Hash[m]]
  BY <1>1, <1>5, HandlesOfNames
<1>8. /\ r.count = held[n] + 1 /\ r.handle = i /\ i # Null
      /\ r.auto = IF held[n] = 0 THEN auto ELSE ref[Hash[n]].auto
  BY SizeAssumption DEF r
<1>9. CountInv'
  BY <1>1, <1>5, <1>6, <1>7, <1>8 DEF CountInv
<1>10. HeldInv'
  BY <1>1, <1>5, <1>6, <1>7, <1>8 DEF HeldInv, Handle
<1> QED  BY <1>5, <1>6, <1>7, <1>8, <1>9, <1>10

\* What a release does: when the last reference of an auto-released texture
\* goes, its slot and its entry are emptied, and the backend's texture goes if
\* there is one; otherwise one reference less is counted.
LEMMA ReleaseExact ==
  ASSUME KInv, NamesApart, up, NEW n \in Name, held[n] > 0,
         held' = [held EXCEPT ![n] = @ - 1], ReleaseName(n)
  PROVE  /\ Handle(n) \in Slot /\ texture[Handle(n)].id # Null
         /\ Expires(Hash[n]) <=> held[n] = 1 /\ ref[Hash[n]].auto
         /\ held'[n] = held[n] - 1
         /\ \A m \in Name : m # n => ref'[Hash[m]] = ref[Hash[m]] /\ held'[m] = held[m]
         /\ ref'[Hash[n]] = [count |-> held[n] - 1,
                             handle |-> IF Expires(Hash[n]) THEN Null ELSE Handle(n),
                             auto |-> ~Expires(Hash[n]) /\ ref[Hash[n]].auto]
         /\ texture'[Handle(n)] = IF Expires(Hash[n]) THEN Destroyed ELSE texture[Handle(n)]
         /\ \A k \in Slot : k # Handle(n) => texture'[k] = texture[k]
         /\ owned' = IF Expires(Hash[n]) /\ texture[Handle(n)].data THEN owned - 1 ELSE owned
         /\ CountInv' /\ HeldInv'
<1> DEFINE e == Hash[n]
<1>1. /\ HInv /\ TypeOK /\ CountInv /\ HeldInv /\ e \in Entry /\ ref[e].count = held[n]
      /\ held[n] \in Nat /\ MaxHeld[n] \in 0 .. CountLimit - 1 /\ CountLimit \in Nat
      /\ ref[e] \in Reference
  BY SizeAssumption DEF KInv, HInv, CountInv, TypeOK
<1>2. Handle(n) \in Slot /\ texture[Handle(n)].id # Null
  BY <1>1 DEF HeldInv, HInv, HandleTaken, TypeOK, Reference, Handle
<1>3. held[n] - 1 \in 0 .. CountLimit - 1
  BY <1>1 DEF CountInv
<1>4. Count(e, -1) = held[n] - 1
  BY <1>1, <1>3, CountExact
<1>5. Expires(e) <=> held[n] = 1 /\ ref[e].auto
  BY <1>1, <1>4 DEF Expires
<1> DEFINE r == IF Expires(e) THEN [count |-> 0, handle |-> Null, auto |-> FALSE]
                              ELSE [ref[e] EXCEPT !.count = Count(e, -1)]
<1>6. /\ ref' = [ref EXCEPT ![e] = r]
      /\ texture' = IF Expires(e) THEN [texture EXCEPT ![Handle(n)] = Destroyed] ELSE texture
      /\ owned' = IF Expires(e) /\ texture[Handle(n)].data THEN owned - 1 ELSE owned
  BY DEF ReleaseName, Handle
<1>7. r = [count |-> held[n] - 1, handle |-> IF Expires(e) THEN Null ELSE Handle(n),
           auto |-> ~Expires(e) /\ ref[e].auto]
  <2>1. CASE Expires(e)
    <3>1. (~Expires(e) /\ ref[e].auto) = FALSE /\ held[n] - 1 = 0
      BY <1>1, <1>5, <2>1
    <3> QED  BY <2>1, <3>1
  <2>2. CASE ~Expires(e)
    <3>1. [ref[e] EXCEPT !.count = Count(e, -1)]
            = [count |-> held[n] - 1, handle |-> ref[e].handle, auto |-> ref[e].auto]
      BY <1>1, <1>4 DEF Reference
    <3>2. (~Expires(e) /\ ref[e].auto) = ref[e].auto
      BY <1>1, <2>2, Zenon DEF Reference
    <3> QED  BY <2>2, <3>1, <3>2 DEF Handle
  <2> QED  BY <2>1, <2>2
<1> HIDE DEF r
<1>8. ref'[e] = r /\ \A d \in Entry : d # e => ref'[d] = ref[d]
  BY <1>1, <1>6 DEF TypeOK
<1>9. held'[n] = held[n] - 1 /\ \A m \in Name : m # n => held'[m] = held[m]
  BY <1>1 DEF TypeOK
<1>10. \A m \in Name : m # n => ref'[Hash[m]] = ref[Hash[m]]
  BY <1>1, <1>8, HandlesOfNames
<1>11. /\ texture'[Handle(n)] = IF Expires(e) THEN Destroyed ELSE texture[Handle(n)]
       /\ \A k \in Slot : k # Handle(n) => texture'[k] = texture[k]
  BY <1>1, <1>2, <1>6 DEF TypeOK
<1>12. CountInv'
  BY <1>1, <1>7, <1>8, <1>9, <1>10 DEF CountInv
<1>13. HeldInv'
  <2>1. held[n] - 1 > 0 => r.handle # Null
    BY <1>2, <1>5, <1>7, SizeAssumption
  <2> QED  BY <1>1, <1>8, <1>9, <1>10, <2>1 DEF HeldInv, Handle
<1> QED  BY <1>2, <1>5, <1>6, <1>7, <1>8, <1>9, <1>10, <1>11, <1>12, <1>13

\* The slots with data are finitely many, and one more or less of them is
\* one more or less texture of the backend.
LEMMA DataFinite == IsFiniteSet(DataSlots)
<1>1. IsFiniteSet(Slot)
  BY FS_Interval, SizeAssumption DEF Slot
<1>2. DataSlots \subseteq Slot
  BY DEF DataSlots
<1> QED  BY <1>1, <1>2, FS_Subset

LEMMA OwnedSame ==
  ASSUME BackendOwned, owned' = owned, \A k \in Slot : texture'[k].data = texture[k].data
  PROVE  BackendOwned'
<1>1. DataSlots' = DataSlots
  BY DEF DataSlots
<1> QED  BY <1>1 DEF BackendOwned, DataSlots

LEMMA OwnedMore ==
  ASSUME BackendOwned, owned' = owned + 1, NEW i \in Slot, ~texture[i].data, texture'[i].data,
         \A k \in Slot : k # i => texture'[k].data = texture[k].data
  PROVE  BackendOwned'
<1>1. DataSlots' = DataSlots \cup {i} /\ i \notin DataSlots
  BY DEF DataSlots
<1>2. IsFiniteSet(DataSlots)
  BY DataFinite
<1>3. Cardinality(DataSlots') = Cardinality(DataSlots) + 1
  BY <1>1, <1>2, FS_AddElement
<1> QED  BY <1>3 DEF BackendOwned, DataSlots

LEMMA OwnedLess ==
  ASSUME BackendOwned, owned' = owned - 1, NEW i \in Slot, texture[i].data, ~texture'[i].data,
         \A k \in Slot : k # i => texture'[k].data = texture[k].data
  PROVE  BackendOwned'
<1>1. DataSlots' = DataSlots \ {i} /\ i \in DataSlots
  BY DEF DataSlots
<1>2. IsFiniteSet(DataSlots)
  BY DataFinite
<1>3. Cardinality(DataSlots') = Cardinality(DataSlots) - 1
  BY <1>1, <1>2, FS_RemoveElement
<1> QED  BY <1>3 DEF BackendOwned, DataSlots

\* texture_system_init owns nothing.
LEMMA InitKInv == Init => KInv
<1> SUFFICES ASSUME Init PROVE KInv
  OBVIOUS
<1>1. HInv
  BY InitHInv
<1>2. \A i \in Slot : ~texture[i].data
  BY DEF Init, Destroyed
<1>3. FreeInv
  BY <1>2 DEF FreeInv
<1>4. CountInv /\ HeldInv
  BY SizeAssumption DEF Init, CountInv, HeldInv
<1>5. BackendOwned
  <2>1. {i \in Slot : texture[i].data} = {}
    BY <1>2
  <2> QED  BY <2>1, FS_EmptySet DEF Init, BackendOwned
<1> QED  BY <1>1, <1>3, <1>4, <1>5 DEF KInv

\* A new slot for a name, filled within the call.
LEMMA AcquireOwned ==
  ASSUME KInv, NamesApart, up, up' = up, NEW n \in Name, NEW auto \in BOOLEAN, NEW i \in Slot,
         Free(i), Holds(n), ref' = Counted(n, auto, i), owned' = owned + 1,
         NEW valid \in BOOLEAN,
         texture' = [texture EXCEPT ![i] = [id |-> i, name |-> n, valid |-> valid, data |-> TRUE]]
  PROVE  FreeInv' /\ (up' => CountInv' /\ HeldInv') /\ BackendOwned'
<1>1. TypeOK /\ FreeInv /\ BackendOwned /\ ~texture[i].data /\ i # Null
  BY SizeAssumption DEF KInv, HInv, FreeInv, Free
<1>2. /\ texture'[i] = [id |-> i, name |-> n, valid |-> valid, data |-> TRUE]
      /\ \A k \in Slot : k # i => texture'[k] = texture[k]
  BY <1>1 DEF TypeOK
<1>3. FreeInv'
  BY <1>1, <1>2 DEF FreeInv
<1>4. BackendOwned'
  <2>1. texture'[i].data = TRUE /\ \A k \in Slot : k # i => texture'[k].data = texture[k].data
    BY <1>2
  <2> QED  BY <1>1, <2>1, OwnedMore
<1> QED  BY <1>3, <1>4, CountedExact

\* Every call and every half of a load keeps the counts and what is owned.
LEMMA NextKInv == NamesApart /\ KInv /\ [Next]_vars => KInv'
<1> SUFFICES ASSUME NamesApart, KInv, [Next]_vars
             PROVE  FreeInv' /\ (up' => CountInv' /\ HeldInv') /\ BackendOwned'
  BY NextHInv DEF KInv
<1> DEFINE Goal == FreeInv' /\ (up' => CountInv' /\ HeldInv') /\ BackendOwned'
<1>0. HInv /\ TypeOK /\ FreeInv /\ (up => CountInv /\ HeldInv) /\ BackendOwned
  BY DEF KInv, HInv
<1>1. ASSUME NEW n \in Image, NEW auto \in BOOLEAN, AcquireImage(n, auto)
      PROVE  Goal
  <2>1. PICK i \in Slot : /\ New(n, i) /\ Holds(n)
                          /\ ref' = Counted(n, auto, i)
                          /\ texture' = [texture EXCEPT ![i].id = i]
                          /\ UNCHANGED <<owned, up, fault>>
    BY <1>1 DEF AcquireImage
  <2>2. n \in Name /\ up
    BY <2>1 DEF Name, New, Ready
  <2>3. /\ texture'[i].id = i /\ i # Null
        /\ \A k \in Slot : texture'[k].data = texture[k].data
        /\ \A k \in Slot : k # i => texture'[k] = texture[k]
    BY <1>0, <2>1, SizeAssumption DEF TypeOK, Texture
  <2>4. FreeInv'
    BY <1>0, <2>3 DEF FreeInv
  <2>5. BackendOwned'
    BY <1>0, <2>1, <2>3, OwnedSame
  <2> QED  BY <2>1, <2>2, <2>4, <2>5, CountedExact
<1>2. ASSUME NEW n \in Cube, AcquireCube(n)
      PROVE  Goal
  <2>1. PICK i \in Slot : /\ New(n, i) /\ Holds(n)
                          /\ ref' = Counted(n, TRUE, i)
                          /\ texture' = [texture EXCEPT ![i] = [id |-> i, name |-> n, valid |-> TRUE,
                                                                data |-> TRUE]]
                          /\ owned' = owned + 1
                          /\ UNCHANGED <<load, dropped, up, fault>>
    BY <1>2 DEF AcquireCube
  <2>2. n \in Name /\ up /\ Free(i)
    BY <2>1 DEF Name, New, Ready, FirstFree
  <2> QED  BY <2>1, <2>2, AcquireOwned
<1>3. ASSUME NEW n \in Cube, AcquireCubeFails(n)
      PROVE  Goal
  <2>1. PICK i \in Slot : texture' = [texture EXCEPT ![i].name = n, ![i].valid = TRUE]
    BY <1>3 DEF AcquireCubeFails
  <2>2. UNCHANGED <<ref, load, owned, held, dropped, up, fault>>
    BY <1>3 DEF AcquireCubeFails
  <2>3. \A k \in Slot : texture'[k].id = texture[k].id /\ texture'[k].data = texture[k].data
    BY <1>0, <2>1 DEF TypeOK, Texture
  <2> QED  BY <1>0, <2>2, <2>3, OwnedSame DEF FreeInv, CountInv, HeldInv, Handle
<1>4. ASSUME NEW n \in Name, NEW auto \in BOOLEAN, AcquireAgain(n, auto)
      PROVE  Goal
  <2> DEFINE i == ref[Hash[n]].handle
  <2>1. /\ i # Null /\ Holds(n) /\ up /\ ref' = Counted(n, auto, i)
        /\ UNCHANGED <<texture, load, owned, dropped, up, fault>>
    BY <1>4 DEF AcquireAgain, Ready
  <2>2. i \in Slot
    BY <1>0, <2>1, SizeAssumption DEF TypeOK, Reference
  <2>3. FreeInv' /\ BackendOwned'
    BY <1>0, <2>1, OwnedSame DEF FreeInv
  <2> QED  BY <2>1, <2>2, <2>3, CountedExact
<1>5. ASSUME NEW n \in Target, AcquireTarget(n)
      PROVE  Goal
  <2>1. PICK i \in Slot : /\ New(n, i) /\ Holds(n)
                          /\ ref' = Counted(n, FALSE, i)
                          /\ texture' = [texture EXCEPT ![i] = [id |-> i, name |-> n, valid |-> FALSE,
                                                                data |-> TRUE]]
                          /\ owned' = owned + 1
                          /\ UNCHANGED <<load, dropped, up, fault>>
    BY <1>5 DEF AcquireTarget
  <2>2. n \in Name /\ up /\ Free(i)
    BY <2>1 DEF Name, New, Ready, FirstFree
  <2> QED  BY <2>1, <2>2, AcquireOwned
<1>6. ASSUME NEW n \in Target, WriteTarget(n)
      PROVE  Goal
  <2>1. /\ texture' = [texture EXCEPT ![ref[Hash[n]].handle].valid = TRUE]
        /\ UNCHANGED <<ref, load, owned, held, dropped, up, fault>>
    BY <1>6 DEF WriteTarget
  <2>2. \A k \in Slot : texture'[k].id = texture[k].id /\ texture'[k].data = texture[k].data
    BY <1>0, <2>1 DEF TypeOK, Texture
  <2> QED  BY <1>0, <2>1, <2>2, OwnedSame DEF FreeInv, CountInv, HeldInv, Handle
<1>7. ASSUME NEW n \in Name, Release(n)
      PROVE  Goal
  <2> DEFINE i == Handle(n)
  <2>1. /\ held' = [held EXCEPT ![n] = @ - 1] /\ held[n] > 0 /\ ReleaseName(n)
        /\ up /\ UNCHANGED <<load, dropped, up, fault>>
    BY <1>7 DEF Release, Ready
  <2>2. /\ i \in Slot
        /\ texture'[i] = IF Expires(Hash[n]) THEN Destroyed ELSE texture[i]
        /\ \A k \in Slot : k # i => texture'[k] = texture[k]
        /\ owned' = IF Expires(Hash[n]) /\ texture[i].data THEN owned - 1 ELSE owned
        /\ CountInv' /\ HeldInv'
    BY <2>1, ReleaseExact
  <2>3. ~Destroyed.data
    BY DEF Destroyed
  <2>4. FreeInv'
    BY <1>0, <2>2, <2>3 DEF FreeInv
  <2>5. BackendOwned'
    <3>1. CASE Expires(Hash[n]) /\ texture[i].data
      BY <1>0, <2>2, <2>3, <3>1, OwnedLess
    <3>2. CASE Expires(Hash[n]) /\ ~texture[i].data
      <4>1. texture[i].data = FALSE /\ Destroyed.data = FALSE
        BY <1>0, <2>2, <3>2, Zenon DEF TypeOK, Texture, Destroyed
      <4>2. \A k \in Slot : texture'[k].data = texture[k].data
        BY <2>2, <3>2, <4>1
      <4> QED  BY <1>0, <2>2, <3>2, <4>2, OwnedSame
    <3>3. CASE ~Expires(Hash[n])
      BY <1>0, <2>2, <3>3, OwnedSame
    <3> QED  BY <3>1, <3>2, <3>3
  <2> QED  BY <2>2, <2>4, <2>5
<1>8. ASSUME NEW j \in 1 .. MaxLoads, LoadRead(j)
      PROVE  Goal
  <2>1. /\ texture' = [texture EXCEPT ![load[j].slot].valid = FALSE]
        /\ UNCHANGED <<ref, owned, held, dropped, up, fault>>
    BY <1>8 DEF LoadRead
  <2>2. \A k \in Slot : texture'[k].id = texture[k].id /\ texture'[k].data = texture[k].data
    BY <1>0, <2>1 DEF TypeOK, Texture
  <2> QED  BY <1>0, <2>1, <2>2, OwnedSame DEF FreeInv, CountInv, HeldInv, Handle
<1>9. ASSUME NEW j \in 1 .. MaxLoads, LoadFault(j)
      PROVE  Goal
  <2>1. UNCHANGED <<ref, texture, load, owned, held, dropped, up>>
    BY <1>9 DEF LoadFault
  <2> QED  BY <1>0, <2>1, OwnedSame DEF FreeInv, CountInv, HeldInv, Handle
<1>10. ASSUME NEW j \in 1 .. MaxLoads, LoadSuccess(j)
       PROVE  Goal
  <2> DEFINE i == load[j].slot
  <2>1. /\ texture' = [texture EXCEPT ![i] = [id |-> 0, name |-> load[j].name, valid |-> TRUE,
                                              data |-> TRUE]]
        /\ owned' = IF texture[i].data THEN owned ELSE owned + 1
        /\ UNCHANGED <<ref, held, dropped, up, fault>>
    BY <1>10 DEF LoadSuccess
  <2>2. i \in Slot
    BY <1>0 DEF TypeOK, Params
  <2>3. /\ texture'[i].data = TRUE /\ texture'[i].id = 0
        /\ \A k \in Slot : k # i => texture'[k] = texture[k]
    BY <1>0, <2>1, <2>2 DEF TypeOK
  <2>4. FreeInv'
    <3>1. 0 # Null
      BY SizeAssumption DEF Slot
    <3> QED  BY <1>0, <2>3, <3>1 DEF FreeInv
  <2>5. BackendOwned'
    <3>1. CASE texture[i].data
      <4>1. texture[i].data = TRUE
        BY <1>0, <2>2, <3>1, Zenon DEF TypeOK, Texture
      <4> QED  BY <1>0, <2>1, <2>3, <3>1, <4>1, OwnedSame
    <3>2. CASE ~texture[i].data
      BY <1>0, <2>1, <2>2, <2>3, <3>2, OwnedMore
    <3> QED  BY <3>1, <3>2
  <2> QED  BY <1>0, <2>1, <2>4, <2>5 DEF CountInv, HeldInv, Handle
<1>13. ASSUME NEW j \in 1 .. MaxLoads, LoadDropped(j)
       PROVE  Goal
  <2>1. UNCHANGED <<ref, texture, owned, held, up>>
    BY <1>13 DEF LoadDropped
  <2> QED  BY <1>0, <2>1, OwnedSame DEF FreeInv, CountInv, HeldInv, Handle
<1>11. CASE Shutdown
  <2> DEFINE gone == {i \in Slot : texture[i].valid}
             S == {i \in gone : texture[i].data}
  <2>1. /\ texture' = [i \in Slot |-> IF i \in gone THEN Destroyed ELSE texture[i]]
        /\ owned' = owned - Cardinality(S) /\ up' = FALSE
    BY <1>11 DEF Shutdown
  <2>2. ~Destroyed.data
    BY DEF Destroyed
  <2>3. FreeInv'
    BY <1>0, <2>1, <2>2 DEF FreeInv
  <2>4. DataSlots' = DataSlots \ S /\ S = DataSlots \cap S
    BY <2>1, <2>2 DEF DataSlots
  <2>5. Cardinality(DataSlots') = Cardinality(DataSlots) - Cardinality(S)
    <3> HIDE DEF S
    <3> QED  BY <2>4, DataFinite, FS_Difference
  <2>6. BackendOwned'
    BY <1>0, <2>1, <2>5 DEF BackendOwned, DataSlots
  <2> QED  BY <2>1, <2>3, <2>6
<1>12. CASE UNCHANGED vars
  BY <1>0, <1>12, OwnedSame DEF vars, FreeInv, CountInv, HeldInv, Handle
<1> QED
  BY <1>1, <1>2, <1>3, <1>4, <1>5, <1>6, <1>7, <1>8, <1>9, <1>10, <1>11, <1>12, <1>13
  DEF Next, Main, LoadStep, Name

\* Overwriting a slot with a loaded texture, releasing it and shutting the
\* system down lose no texture of the backend and destroy none twice.
THEOREM BackendStaysOwned == NamesApart => (Spec => []BackendOwned)
<1> SUFFICES ASSUME NamesApart PROVE Spec => []BackendOwned
  OBVIOUS
<1>1. KInv /\ [Next]_vars => KInv'
  BY NextKInv
<1>2. KInv => BackendOwned
  BY DEF KInv
<1> QED  BY <1>1, <1>2, InitKInv, PTL DEF Spec

\* An acquire that fails leaves no reference behind, and no release is lost or
\* wraps around.
THEOREM CountsStayExact == NamesApart => (Spec => []CountIsHolders)
<1> SUFFICES ASSUME NamesApart PROVE Spec => []CountIsHolders
  OBVIOUS
<1>1. KInv /\ [Next]_vars => KInv'
  BY NextKInv
<1>2. KInv => CountIsHolders
  BY DEF KInv, CountInv, CountIsHolders
<1> QED  BY <1>1, <1>2, InitKInv, PTL DEF Spec

-----------------------------------------------------------------------------
(***************************************************************************)
(* Who holds a name has its texture or its load, and the callers see the   *)
(* contract: when, besides, callers do not give up the last reference of a *)
(* texture that has not arrived.                                           *)
(*                                                                         *)
(* What has to be added is that loads and slots belong together: a load in *)
(* flight is for the name whose entry leads to its slot, it is the only    *)
(* one for that slot, and it is there exactly as long as the slot has no   *)
(* data and the job system did not drop the load.  A caller tells by the   *)
(* name in a slot that the texture is there: no slot without data has the  *)
(* name of an image (BareInv), although a cube that fails leaves its own.  *)
(***************************************************************************)
Patient == NamesApart /\ ~Hasty

InFlight(j) == load[j].stage # "none"

ServeInv ==
  \A n \in Name : Handle(n) # Null =>
    IF texture[Handle(n)].data
    THEN texture[Handle(n)].name = n /\ n \notin dropped
    ELSE n \in dropped \/ \E j \in 1 .. MaxLoads : InFlight(j) /\ load[j].slot = Handle(n)
LoadInv ==
  /\ \A j \in 1 .. MaxLoads : InFlight(j) =>
       /\ load[j].name \in Image \ dropped /\ Handle(load[j].name) = load[j].slot
       /\ ~texture[load[j].slot].data
  /\ \A j, k \in 1 .. MaxLoads : InFlight(j) /\ InFlight(k) /\ load[j].slot = load[k].slot => j = k

BareInv == \A i \in Slot : ~texture[i].data => texture[i].name \notin Image

TInv == KInv /\ BareInv /\ (up => ServeInv /\ LoadInv)

\* Names of images come with data, and go with it.
LEMMA NextBare == TypeOK /\ BareInv /\ [Next]_vars => BareInv'
<1> SUFFICES ASSUME TypeOK, BareInv, [Next]_vars PROVE BareInv'
  OBVIOUS
<1>1. ASSUME \A k \in Slot : texture'[k].data = texture[k].data /\ texture'[k].name = texture[k].name
      PROVE  BareInv'
  BY <1>1 DEF BareInv
<1>2. ASSUME NEW i \in Slot, NEW t, texture' = [texture EXCEPT ![i] = t],
             t.data = TRUE \/ t.name \notin Image
      PROVE  BareInv'
  BY <1>2 DEF BareInv, TypeOK
<1>3. Destroyed.name \notin Image
  BY NameAssumption DEF Destroyed, Name
<1>4. ASSUME NEW n \in Image, NEW auto \in BOOLEAN, AcquireImage(n, auto) PROVE BareInv'
  <2>1. PICK i \in Slot : texture' = [texture EXCEPT ![i].id = i]
    BY <1>4 DEF AcquireImage
  <2> QED  BY <1>1, <2>1 DEF TypeOK, Texture
<1>5. ASSUME NEW n \in Cube, AcquireCube(n) PROVE BareInv'
  BY <1>2, <1>5 DEF AcquireCube
<1>6. ASSUME NEW n \in Cube, AcquireCubeFails(n) PROVE BareInv'
  <2>1. PICK i \in Slot : texture' = [texture EXCEPT ![i].name = n, ![i].valid = TRUE]
    BY <1>6 DEF AcquireCubeFails
  <2>2. /\ texture'[i].name = n /\ n \notin Image
        /\ \A k \in Slot : k # i => texture'[k] = texture[k]
    BY <2>1, NameAssumption DEF TypeOK, Texture
  <2> QED  BY <2>2 DEF BareInv
<1>7. ASSUME NEW n \in Target, AcquireTarget(n) PROVE BareInv'
  BY <1>2, <1>7 DEF AcquireTarget
<1>8. ASSUME NEW n \in Target, WriteTarget(n) PROVE BareInv'
  <2>1. texture' = [texture EXCEPT ![ref[Hash[n]].handle].valid = TRUE]
    BY <1>8 DEF WriteTarget
  <2> QED  BY <1>1, <2>1 DEF TypeOK, Texture
<1>9. ASSUME NEW n \in Name, Release(n) PROVE BareInv'
  <2>1. \/ texture' = texture
        \/ texture' = [texture EXCEPT ![ref[Hash[n]].handle] = Destroyed]
    BY <1>9 DEF Release, ReleaseName
  <2> QED  BY <1>3, <2>1 DEF BareInv, TypeOK
<1>10. ASSUME NEW j \in 1 .. MaxLoads, LoadRead(j) PROVE BareInv'
  <2>1. texture' = [texture EXCEPT ![load[j].slot].valid = FALSE]
    BY <1>10 DEF LoadRead
  <2> QED  BY <1>1, <2>1 DEF TypeOK, Texture
<1>11. ASSUME NEW j \in 1 .. MaxLoads, LoadSuccess(j) PROVE BareInv'
  <2>1. load[j].slot \in Slot
    BY DEF TypeOK, Params
  <2> QED  BY <1>2, <1>11, <2>1 DEF LoadSuccess
<1>12. ASSUME Shutdown PROVE BareInv'
  BY <1>3, <1>12 DEF Shutdown, BareInv, TypeOK
<1>13. ASSUME UNCHANGED texture PROVE BareInv'
  BY <1>1, <1>13
<1> QED
  BY <1>4, <1>5, <1>6, <1>7, <1>8, <1>9, <1>10, <1>11, <1>12, <1>13
  DEF Next, Main, LoadStep, Name, AcquireAgain, LoadFault, LoadDropped, vars

-----------------------------------------------------------------------------
\* A free slot is nobody's, and no load goes there.
LEMMA FreeUnused ==
  ASSUME TInv, up, NEW i \in Slot, Free(i)
  PROVE  /\ \A n \in Name : Handle(n) # i
         /\ \A j \in 1 .. MaxLoads : InFlight(j) => load[j].slot # i
         /\ texture[i].data = FALSE /\ i # Null
<1>1. HandleTaken /\ FreeInv /\ LoadInv /\ i # Null /\ TypeOK
  BY SizeAssumption DEF TInv, KInv, HInv
<1>2. \A n \in Name : Handle(n) # i
  BY <1>1, SizeAssumption DEF HandleTaken, Handle, Free
<1>3. \A j \in 1 .. MaxLoads : InFlight(j) => load[j].slot # i
  BY <1>1, <1>2 DEF LoadInv, Name
<1>4. texture[i].data = FALSE
  BY <1>1, Zenon DEF FreeInv, Free, TypeOK, Texture
<1> QED  BY <1>1, <1>2, <1>3, <1>4

\* A step that leaves the handles, what is in the slots in use and the loads in
\* flight as they are.
LEMMA SameServed ==
  ASSUME TInv, up, \A n \in Name : ref'[Hash[n]].handle = ref[Hash[n]].handle,
         \A k \in Slot : ~Free(k) => /\ texture'[k].data = texture[k].data
                                     /\ texture'[k].name = texture[k].name,
         \A j \in 1 .. MaxLoads : /\ load'[j].slot = load[j].slot /\ load'[j].name = load[j].name
                                  /\ load'[j].stage = "none" <=> load[j].stage = "none",
         dropped' = dropped
  PROVE  ServeInv' /\ LoadInv'
<1>1. HInv /\ TypeOK /\ HandleTaken /\ ServeInv /\ LoadInv
  BY DEF TInv, KInv, HInv
<1>2. \A n \in Name : Handle(n) # Null => Handle(n) \in Slot /\ ~Free(Handle(n))
  BY <1>1, SizeAssumption DEF TypeOK, Reference, HandleTaken, Handle, Free
<1>3. ServeInv'
  BY <1>1, <1>2 DEF ServeInv, Handle, InFlight
<1>4. ASSUME NEW j \in 1 .. MaxLoads, InFlight(j)
      PROVE  load[j].slot \in Slot /\ load[j].name \in Name /\ ~Free(load[j].slot)
  BY <1>1, <1>2, <1>4, FreeUnused DEF LoadInv, TypeOK, Params, Name
<1>5. LoadInv'
  BY <1>1, <1>4 DEF LoadInv, Handle, InFlight
<1> QED  BY <1>3, <1>5

\* A slot that is filled within the call.
LEMMA FilledServed ==
  ASSUME TInv, NamesApart, up, NEW n \in Cube \cup Target, NEW i \in Slot, Free(i), Handle(n) = Null,
         ref'[Hash[n]].handle = i, \A m \in Name : m # n => ref'[Hash[m]] = ref[Hash[m]],
         texture'[i].data = TRUE, texture'[i].name = n,
         \A k \in Slot : k # i => texture'[k] = texture[k],
         load' = load, dropped' = dropped
  PROVE  ServeInv' /\ LoadInv'
<1>1. TypeOK /\ ServeInv /\ LoadInv /\ n \in Name
  BY DEF TInv, KInv, HInv, Name
<1>9. n \notin dropped
  BY <1>1, NameAssumption DEF TypeOK, Name
<1>0. \A m \in Name : Handle(m) # i
  BY FreeUnused
<1>2. ServeInv'
  <2> SUFFICES ASSUME NEW m \in Name, ref'[Hash[m]].handle # Null
               PROVE  IF texture'[ref'[Hash[m]].handle].data
                      THEN texture'[ref'[Hash[m]].handle].name = m /\ m \notin dropped
                      ELSE \/ m \in dropped
                           \/ \E j \in 1 .. MaxLoads : InFlight(j) /\ load[j].slot = ref'[Hash[m]].handle
    BY DEF ServeInv, Handle, InFlight
  <2>1. CASE m = n
    BY <1>9, <2>1
  <2>2. CASE m # n
    <3>1. ref'[Hash[m]].handle = Handle(m) /\ Handle(m) # i /\ Handle(m) \in Slot
      BY <1>0, <1>1, <2>2, SizeAssumption DEF Handle, TypeOK, Reference
    <3>2. texture'[Handle(m)] = texture[Handle(m)]
      BY <3>1
    <3> QED  BY <1>1, <3>1, <3>2 DEF ServeInv
  <2> QED  BY <2>1, <2>2
<1>3. ASSUME NEW j \in 1 .. MaxLoads, InFlight(j)
      PROVE  /\ load[j].name \in Image \ dropped /\ ref'[Hash[load[j].name]].handle = load[j].slot
             /\ ~texture'[load[j].slot].data
  <2>1. load[j].name \in Image \ dropped /\ Handle(load[j].name) = load[j].slot /\ load[j].slot # i
        /\ ~texture[load[j].slot].data /\ load[j].slot \in Slot
    BY <1>1, <1>3, FreeUnused DEF LoadInv, TypeOK, Params
  <2>2. load[j].name # n
    BY <2>1, SizeAssumption
  <2> QED  BY <2>1, <2>2 DEF Handle, Name
<1>4. LoadInv'
  BY <1>1, <1>3 DEF LoadInv, Handle, InFlight
<1> QED  BY <1>2, <1>4

\* A slot that is taken, and a load queued for it.
LEMMA QueuedServed ==
  ASSUME TInv, NamesApart, up, NEW n \in Image, NEW i \in Slot, Free(i), Handle(n) = Null,
         ref'[Hash[n]].handle = i, \A m \in Name : m # n => ref'[Hash[m]] = ref[Hash[m]],
         \A k \in Slot : texture'[k].data = texture[k].data /\ texture'[k].name = texture[k].name,
         NEW l \in 1 .. MaxLoads, ~InFlight(l),
         load' = [load EXCEPT ![l] = [stage |-> "queued", name |-> n, slot |-> i]],
         dropped' = dropped \ {n}
  PROVE  ServeInv' /\ LoadInv'
<1>1. TypeOK /\ ServeInv /\ LoadInv /\ n \in Name
  BY DEF TInv, KInv, HInv, Name
<1>2. /\ load'[l] = [stage |-> "queued", name |-> n, slot |-> i]
      /\ \A j \in 1 .. MaxLoads : j # l => load'[j] = load[j]
  BY <1>1 DEF TypeOK
<1>3. /\ load'[l].stage # "none" /\ load'[l].name = n /\ load'[l].slot = i
      /\ \A j \in 1 .. MaxLoads : InFlight(j) => j # l /\ load'[j] = load[j]
  BY <1>2
<1>4. /\ \A m \in Name : Handle(m) # i
      /\ \A j \in 1 .. MaxLoads : InFlight(j) => load[j].slot # i
      /\ texture[i].data = FALSE
  BY FreeUnused
<1>5. ServeInv'
  <2> SUFFICES ASSUME NEW m \in Name, ref'[Hash[m]].handle # Null
               PROVE  IF texture'[ref'[Hash[m]].handle].data
                      THEN texture'[ref'[Hash[m]].handle].name = m /\ m \notin dropped'
                      ELSE \/ m \in dropped'
                           \/ \E j \in 1 .. MaxLoads : /\ load'[j].stage # "none"
                                                       /\ load'[j].slot = ref'[Hash[m]].handle
    BY DEF ServeInv, Handle, InFlight
  <2>1. CASE m = n
    BY <1>3, <1>4, <2>1
  <2>2. CASE m # n
    <3>1. ref'[Hash[m]].handle = Handle(m) /\ Handle(m) \in Slot
      BY <1>1, <2>2, SizeAssumption DEF Handle, TypeOK, Reference
    <3>2. /\ texture'[Handle(m)].data = texture[Handle(m)].data
          /\ texture'[Handle(m)].name = texture[Handle(m)].name
      BY <3>1
    <3> QED  BY <1>1, <1>3, <3>1, <3>2 DEF ServeInv, InFlight
  <2> QED  BY <2>1, <2>2
<1>6. ASSUME NEW j \in 1 .. MaxLoads, load'[j].stage # "none"
      PROVE  /\ load'[j].name \in Image \ dropped'
             /\ ref'[Hash[load'[j].name]].handle = load'[j].slot
             /\ ~texture'[load'[j].slot].data
  <2>1. CASE j = l
    BY <1>3, <1>4, <2>1
  <2>2. CASE j # l
    <3>1. load'[j] = load[j] /\ InFlight(j)
      BY <1>2, <1>6, <2>2 DEF InFlight
    <3>2. load[j].name \in Image \ dropped /\ Handle(load[j].name) = load[j].slot /\ load[j].slot # i
          /\ ~texture[load[j].slot].data /\ load[j].slot \in Slot
      BY <1>1, <1>4, <3>1 DEF LoadInv, TypeOK, Params
    <3>3. load[j].name # n
      BY <3>2, SizeAssumption
    <3> QED  BY <3>1, <3>2, <3>3 DEF Handle, Name
  <2> QED  BY <2>1, <2>2
<1>7. ASSUME NEW j \in 1 .. MaxLoads, NEW k \in 1 .. MaxLoads, load'[j].stage # "none",
             load'[k].stage # "none", load'[j].slot = load'[k].slot
      PROVE  j = k
  BY <1>1, <1>2, <1>3, <1>4, <1>7 DEF LoadInv, InFlight
<1>8. LoadInv'
  BY <1>6, <1>7 DEF LoadInv, Handle, InFlight
<1> QED  BY <1>5, <1>8

\* A slot that is taken for an image, whose load is dropped at once.
LEMMA DroppedServed ==
  ASSUME TInv, NamesApart, up, NEW n \in Image, NEW i \in Slot, Free(i), Handle(n) = Null,
         ref'[Hash[n]].handle = i, \A m \in Name : m # n => ref'[Hash[m]] = ref[Hash[m]],
         \A k \in Slot : texture'[k].data = texture[k].data /\ texture'[k].name = texture[k].name,
         load' = load, dropped' = dropped \cup {n}
  PROVE  ServeInv' /\ LoadInv'
<1>1. TypeOK /\ ServeInv /\ LoadInv /\ n \in Name
  BY DEF TInv, KInv, HInv, Name
<1>2. texture[i].data = FALSE
  BY FreeUnused
<1>3. ServeInv'
  <2> SUFFICES ASSUME NEW m \in Name, ref'[Hash[m]].handle # Null
               PROVE  IF texture'[ref'[Hash[m]].handle].data
                      THEN texture'[ref'[Hash[m]].handle].name = m /\ m \notin dropped'
                      ELSE \/ m \in dropped'
                           \/ \E j \in 1 .. MaxLoads : InFlight(j) /\ load[j].slot = ref'[Hash[m]].handle
    BY DEF ServeInv, Handle, InFlight
  <2>1. CASE m = n
    BY <1>2, <2>1
  <2>2. CASE m # n
    <3>1. ref'[Hash[m]].handle = Handle(m) /\ Handle(m) \in Slot
      BY <1>1, <2>2, SizeAssumption DEF Handle, TypeOK, Reference
    <3>2. /\ texture'[Handle(m)].data = texture[Handle(m)].data
          /\ texture'[Handle(m)].name = texture[Handle(m)].name
      BY <3>1
    <3>3. m \in dropped' <=> m \in dropped
      BY <2>2
    <3> QED  BY <1>1, <3>1, <3>2, <3>3 DEF ServeInv
  <2> QED  BY <2>1, <2>2
<1>4. ASSUME NEW j \in 1 .. MaxLoads, InFlight(j)
      PROVE  /\ load[j].name \in Image \ dropped' /\ ref'[Hash[load[j].name]].handle = load[j].slot
             /\ ~texture'[load[j].slot].data
  <2>1. load[j].name \in Image \ dropped /\ Handle(load[j].name) = load[j].slot
        /\ ~texture[load[j].slot].data /\ load[j].slot \in Slot
    BY <1>1, <1>4 DEF LoadInv, TypeOK, Params
  <2>2. load[j].name # n
    BY <2>1, SizeAssumption
  <2> QED  BY <2>1, <2>2 DEF Handle, Name
<1>5. LoadInv'
  BY <1>1, <1>4 DEF LoadInv, Handle, InFlight
<1> QED  BY <1>3, <1>5

\* A load in flight for the slot of a name is the one of that name.
LEMMA LoadOfSlot ==
  ASSUME TInv, NamesApart, up, NEW n \in Name, Handle(n) # Null, NEW j \in 1 .. MaxLoads, InFlight(j),
         load[j].slot = Handle(n)
  PROVE  load[j].name = n /\ n \in Image
<1>1. HInv /\ LoadInv
  BY DEF TInv, KInv, HInv
<1>2. load[j].name \in Image /\ load[j].name \in Name /\ Handle(load[j].name) = Handle(n)
  BY <1>1 DEF LoadInv, Name
<1> QED  BY <1>1, <1>2, HandlesOfNames

\* A texture whose slot has its name has arrived: it has data and no load.
LEMMA ExpiresLoaded ==
  ASSUME TInv, NamesApart, up, NEW n \in Name, Handle(n) # Null, texture[Handle(n)].name = n
  PROVE  texture[Handle(n)].data /\ \A j \in 1 .. MaxLoads : InFlight(j) => load[j].name # n
<1>1. HInv /\ TypeOK /\ ServeInv /\ LoadInv /\ BareInv /\ Handle(n) \in Slot
  BY SizeAssumption DEF TInv, KInv, HInv, TypeOK, Reference, Handle
<1>2. texture[Handle(n)].data
  <2> SUFFICES ASSUME ~texture[Handle(n)].data PROVE FALSE
    OBVIOUS
  <2>1. n \notin Image
    BY <1>1 DEF BareInv
  <2>2. n \notin dropped
    BY <1>1, <2>1, NameAssumption DEF TypeOK
  <2>3. PICK j \in 1 .. MaxLoads : InFlight(j) /\ load[j].slot = Handle(n)
    BY <1>1, <2>2 DEF ServeInv
  <2> QED  BY <2>1, <2>3, LoadOfSlot
<1>3. ASSUME NEW j \in 1 .. MaxLoads, InFlight(j), load[j].name = n PROVE FALSE
  <2>1. load[j].slot = Handle(n) /\ ~texture[load[j].slot].data
    BY <1>1, <1>3 DEF LoadInv
  <2> QED  BY <1>2, <2>1
<1> QED  BY <1>2, <1>3

\* A slot that is emptied with its entry.
LEMMA EmptiedServed ==
  ASSUME TInv, NamesApart, up, NEW n \in Name, Handle(n) # Null, texture[Handle(n)].name = n,
         ref'[Hash[n]].handle = Null, \A m \in Name : m # n => ref'[Hash[m]] = ref[Hash[m]],
         \A k \in Slot : k # Handle(n) => texture'[k] = texture[k],
         load' = load, dropped' = dropped
  PROVE  ServeInv' /\ LoadInv'
<1>1. HInv /\ TypeOK /\ ServeInv /\ LoadInv
  BY DEF TInv, KInv, HInv
<1>2. ASSUME NEW m \in Name, m # n, Handle(m) # Null
      PROVE  texture'[Handle(m)] = texture[Handle(m)]
  BY <1>1, <1>2, HandlesOfNames
<1>3. ServeInv'
  BY <1>1, <1>2 DEF ServeInv, Handle, InFlight
<1>4. ASSUME NEW j \in 1 .. MaxLoads, InFlight(j)
      PROVE  /\ load[j].name \in Image \ dropped /\ ref'[Hash[load[j].name]].handle = load[j].slot
             /\ ~texture'[load[j].slot].data
  <2>1. /\ load[j].name \in Image \ dropped /\ Handle(load[j].name) = load[j].slot /\ load[j].slot \in Slot
        /\ ~texture[load[j].slot].data
    BY <1>1, <1>4 DEF LoadInv, TypeOK, Params
  <2>2. load[j].name # n /\ load[j].name \in Name
    BY <1>4, <2>1, ExpiresLoaded DEF Name
  <2> QED  BY <1>2, <2>1, <2>2, SizeAssumption DEF Handle
<1>5. LoadInv'
  BY <1>1, <1>4 DEF LoadInv, Handle, InFlight
<1> QED  BY <1>3, <1>5

\* A load that is done.
LEMMA LoadedServed ==
  ASSUME TInv, NamesApart, up, NEW l \in 1 .. MaxLoads, InFlight(l), ref' = ref,
         texture'[load[l].slot].data = TRUE, texture'[load[l].slot].name = load[l].name,
         \A k \in Slot : k # load[l].slot => texture'[k] = texture[k],
         load' = [load EXCEPT ![l] = NoLoad], dropped' = dropped
  PROVE  ServeInv' /\ LoadInv'
<1>1. HInv /\ TypeOK /\ ServeInv /\ LoadInv
  BY DEF TInv, KInv, HInv
<1>2. /\ load'[l].stage = "none" /\ \A j \in 1 .. MaxLoads : j # l => load'[j] = load[j]
  BY <1>1 DEF TypeOK, NoLoad
<1>3. /\ load[l].name \in Name \ dropped /\ Handle(load[l].name) = load[l].slot
      /\ load[l].slot \in Slot
  BY <1>1 DEF LoadInv, TypeOK, Params, Name
<1>4. ServeInv'
  <2> SUFFICES ASSUME NEW m \in Name, Handle(m) # Null
               PROVE  IF texture'[Handle(m)].data
                      THEN texture'[Handle(m)].name = m /\ m \notin dropped
                      ELSE \/ m \in dropped
                           \/ \E j \in 1 .. MaxLoads : load'[j].stage # "none" /\ load'[j].slot = Handle(m)
    BY DEF ServeInv, Handle, InFlight
  <2>1. CASE m = load[l].name
    BY <1>3, <2>1
  <2>2. CASE m # load[l].name
    <3>1. Handle(m) # load[l].slot /\ Handle(m) \in Slot
      BY <1>1, <1>3, <2>2, HandlesOfNames
    <3> QED  BY <1>1, <1>2, <3>1 DEF ServeInv, InFlight
  <2> QED  BY <2>1, <2>2
<1>5. ASSUME NEW j \in 1 .. MaxLoads, load'[j].stage # "none"
      PROVE  /\ j # l /\ load'[j] = load[j] /\ load[j].slot # load[l].slot
             /\ load[j].name \in Image \ dropped /\ Handle(load[j].name) = load[j].slot
             /\ ~texture'[load[j].slot].data
  <2>1. j # l /\ load'[j] = load[j] /\ InFlight(j)
    BY <1>2, <1>5 DEF InFlight
  <2>2. load[j].slot # load[l].slot /\ load[j].slot \in Slot
    BY <1>1, <2>1 DEF LoadInv, TypeOK, Params
  <2> QED  BY <1>1, <2>1, <2>2 DEF LoadInv
<1>6. LoadInv'
  BY <1>1, <1>5 DEF LoadInv, Handle, InFlight
<1> QED  BY <1>4, <1>6

\* A load whose result is dropped.
LEMMA LostServed ==
  ASSUME TInv, NamesApart, up, NEW l \in 1 .. MaxLoads, InFlight(l), UNCHANGED <<ref, texture>>,
         load' = [load EXCEPT ![l] = NoLoad], dropped' = dropped \cup {load[l].name}
  PROVE  ServeInv' /\ LoadInv'
<1>1. HInv /\ TypeOK /\ ServeInv /\ LoadInv
  BY DEF TInv, KInv, HInv
<1>2. /\ load'[l].stage = "none" /\ \A j \in 1 .. MaxLoads : j # l => load'[j] = load[j]
  BY <1>1 DEF TypeOK, NoLoad
<1>3. /\ load[l].name \in Name /\ Handle(load[l].name) = load[l].slot /\ load[l].slot \in Slot
      /\ ~texture[load[l].slot].data
  BY <1>1 DEF LoadInv, TypeOK, Params, Name
<1>4. ServeInv'
  <2> SUFFICES ASSUME NEW m \in Name, Handle(m) # Null
               PROVE  IF texture[Handle(m)].data
                      THEN texture[Handle(m)].name = m /\ m \notin dropped'
                      ELSE \/ m \in dropped'
                           \/ \E j \in 1 .. MaxLoads : load'[j].stage # "none" /\ load'[j].slot = Handle(m)
    BY DEF ServeInv, Handle, InFlight
  <2>1. CASE m = load[l].name
    BY <1>3, <2>1
  <2>2. CASE m # load[l].name
    <3>1. Handle(m) # load[l].slot
      BY <1>1, <1>3, <2>2, HandlesOfNames
    <3>2. m \in dropped' <=> m \in dropped
      BY <2>2
    <3> QED  BY <1>1, <1>2, <3>1, <3>2 DEF ServeInv, InFlight
  <2> QED  BY <2>1, <2>2
<1>5. ASSUME NEW j \in 1 .. MaxLoads, load'[j].stage # "none"
      PROVE  /\ j # l /\ load'[j] = load[j]
             /\ load[j].name \in Image \ dropped' /\ Handle(load[j].name) = load[j].slot
             /\ ~texture[load[j].slot].data
  <2>1. j # l /\ load'[j] = load[j] /\ InFlight(j)
    BY <1>2, <1>5 DEF InFlight
  <2>2. load[j].slot # load[l].slot
    BY <1>1, <2>1 DEF LoadInv
  <2>3. load[j].name # load[l].name
    BY <1>1, <1>3, <2>1, <2>2 DEF LoadInv
  <2> QED  BY <1>1, <2>1, <2>3 DEF LoadInv
<1>6. LoadInv'
  BY <1>1, <1>5 DEF LoadInv, Handle, InFlight
<1> QED  BY <1>4, <1>6

-----------------------------------------------------------------------------
\* The contract's variables.
CCount == [n \in Name |-> ref[Hash[n]].count]
CAuto == [n \in Name |-> ref[Hash[n]].auto]
CImage == IF up THEN [n \in Name |-> ImageOf(n)] ELSE Closed

\* The image of a name in terms of its slot.
LEMMA ImageCases ==
  ASSUME NEW n \in Name
  PROVE  /\ Handle(n) = Null => ImageOf(n) = "none"
         /\ Handle(n) # Null /\ texture[Handle(n)].data /\ texture[Handle(n)].name = n => ImageOf(n) = "here"
         /\ Handle(n) # Null /\ ~texture[Handle(n)].data /\ n \notin dropped => ImageOf(n) = "coming"
         /\ Handle(n) # Null /\ ~texture[Handle(n)].data /\ n \in dropped => ImageOf(n) = "lost"
BY DEF ImageOf, Handle

LEMMA ImageSame ==
  ASSUME NEW n \in Name, ref'[Hash[n]].handle = ref[Hash[n]].handle, n \in dropped' <=> n \in dropped,
         ref[Hash[n]].handle # Null => /\ texture'[Handle(n)].data = texture[Handle(n)].data
                                       /\ texture'[Handle(n)].name = texture[Handle(n)].name
  PROVE  ImageOf(n)' = ImageOf(n)
BY DEF ImageOf, Handle

\* A step that callers do not see.
LEMMA ContractStutter ==
  ASSUME up' = up, \A n \in Name : /\ ref'[Hash[n]].count = ref[Hash[n]].count
                                   /\ ref'[Hash[n]].auto = ref[Hash[n]].auto
                                   /\ ImageOf(n)' = ImageOf(n)
  PROVE  UNCHANGED Contract!vars
<1>1. CCount' = CCount
  BY DEF CCount
<1>2. CAuto' = CAuto
  BY DEF CAuto
<1>3. CImage' = CImage
  BY DEF CImage, Closed
<1> QED  BY <1>1, <1>2, <1>3 DEF Contract!vars, CCount, CAuto, CImage

\* One more reference.
LEMMA ContractAcquire ==
  ASSUME up, up' = up, NEW n \in Name, NEW a \in BOOLEAN,
         ref'[Hash[n]].count = ref[Hash[n]].count + 1,
         ref'[Hash[n]].auto = IF ref[Hash[n]].count = 0 THEN a ELSE ref[Hash[n]].auto,
         IF ImageOf(n) = "none" THEN ImageOf(n)' \in {"coming", "here", "lost"}
                                ELSE ImageOf(n)' = ImageOf(n),
         \A m \in Name : m # n => ref'[Hash[m]] = ref[Hash[m]] /\ ImageOf(m)' = ImageOf(m)
  PROVE  Contract!Next
<1>1. CCount' = [CCount EXCEPT ![n] = @ + 1]
  BY DEF CCount
<1>2. CAuto' = [CAuto EXCEPT ![n] = IF CCount[n] = 0 THEN a ELSE @]
  BY DEF CAuto, CCount
<1>3. CImage' = [CImage EXCEPT ![n] = ImageOf(n)'] /\ CImage[n] = ImageOf(n)
  BY DEF CImage
<1>4. IF CImage[n] = "none" THEN \E i \in {"coming", "here", "lost"} : CImage' = [CImage EXCEPT ![n] = i]
                            ELSE CImage' = CImage
  <2>1. CASE CImage[n] = "none"
    BY <1>3, <2>1
  <2>2. CASE CImage[n] # "none"
    <3>1. CImage' = [CImage EXCEPT ![n] = CImage[n]]
      BY <1>3, <2>2
    <3>2. CImage = [m \in Name |-> ImageOf(m)]
      BY DEF CImage
    <3> QED  BY <2>2, <3>1, <3>2
  <2> QED  BY <2>1, <2>2
<1>5. Contract!Acquire(n, a)
  BY <1>1, <1>2, <1>4 DEF Contract!Acquire, CCount, CAuto, CImage
<1> QED  BY <1>5 DEF Contract!Next

\* An image arrives.
LEMMA ContractArrive ==
  ASSUME up, up' = up, ref' = ref, NEW n \in Name, ImageOf(n) = "coming", ImageOf(n)' = "here",
         \A m \in Name : m # n => ImageOf(m)' = ImageOf(m)
  PROVE  Contract!Next
<1>1. CCount' = CCount /\ CAuto' = CAuto
  BY DEF CCount, CAuto
<1>2. CImage' = [CImage EXCEPT ![n] = "here"] /\ CImage[n] = "coming"
  BY DEF CImage
<1>3. Contract!Arrive(n)
  BY <1>1, <1>2 DEF Contract!Arrive, CCount, CAuto, CImage
<1> QED  BY <1>3 DEF Contract!Next

\* An image will not arrive.
LEMMA ContractDrop ==
  ASSUME up, up' = up, ref' = ref, NEW n \in Name, ImageOf(n) = "coming", ImageOf(n)' = "lost",
         \A m \in Name : m # n => ImageOf(m)' = ImageOf(m)
  PROVE  Contract!Next
<1>1. CCount' = CCount /\ CAuto' = CAuto
  BY DEF CCount, CAuto
<1>2. CImage' = [CImage EXCEPT ![n] = "lost"] /\ CImage[n] = "coming"
  BY DEF CImage
<1>3. Contract!Drop(n)
  BY <1>1, <1>2 DEF Contract!Drop, CCount, CAuto, CImage
<1> QED  BY <1>3 DEF Contract!Next

\* One reference less, and the last one takes the image with it.
LEMMA ContractRelease ==
  ASSUME up, up' = up, NEW n \in Name, NEW last \in BOOLEAN,
         last <=> ref[Hash[n]].count = 1 /\ ref[Hash[n]].auto,
         last => ImageOf(n) = "here", ref[Hash[n]].count > 0,
         ref'[Hash[n]].count = ref[Hash[n]].count - 1,
         ref'[Hash[n]].auto = IF last THEN FALSE ELSE ref[Hash[n]].auto,
         ImageOf(n)' = IF last THEN "none" ELSE ImageOf(n),
         \A m \in Name : m # n => ref'[Hash[m]] = ref[Hash[m]] /\ ImageOf(m)' = ImageOf(m)
  PROVE  Contract!Next
<1>0. /\ CCount[n] = ref[Hash[n]].count /\ CAuto[n] = ref[Hash[n]].auto /\ CImage[n] = ImageOf(n)
  BY DEF CCount, CAuto, CImage
<1>1. CCount' = [CCount EXCEPT ![n] = @ - 1]
  BY DEF CCount
<1>2. CAuto' = IF last THEN [CAuto EXCEPT ![n] = FALSE] ELSE CAuto
  BY DEF CAuto
<1>3. CImage' = IF last THEN [CImage EXCEPT ![n] = "none"] ELSE CImage
  BY DEF CImage
<1>4. last <=> CCount[n] = 1 /\ CAuto[n]
  BY <1>0
<1>5. Contract!Release(n)
  <2>1. CASE last
    <3>1. CCount[n] = 1 /\ CAuto[n]
      BY <1>4, <2>1
    <3> QED  BY <1>0, <1>1, <1>2, <1>3, <2>1, <3>1 DEF Contract!Release, CCount, CAuto, CImage
  <2>2. CASE ~last
    <3>1. ~(CCount[n] = 1 /\ CAuto[n])
      BY <1>4, <2>2
    <3> QED  BY <1>0, <1>1, <1>2, <1>3, <2>2, <3>1 DEF Contract!Release, CCount, CAuto, CImage
  <2> QED  BY <2>1, <2>2
<1> QED  BY <1>5 DEF Contract!Next

\* The system goes down.
LEMMA ContractClose ==
  ASSUME up, up' = FALSE, ref' = ref
  PROVE  Contract!Next
<1>1. CCount' = CCount /\ CAuto' = CAuto
  BY DEF CCount, CAuto
<1>2. CImage' = [n \in Name |-> "none"]
  BY DEF CImage, Closed
<1>3. Contract!Close
  BY <1>1, <1>2 DEF Contract!Close, CCount, CAuto, CImage
<1> QED  BY <1>3 DEF Contract!Next

-----------------------------------------------------------------------------
\* texture_system_init serves nobody.
LEMMA InitTInv == Init => TInv
<1> SUFFICES ASSUME Init PROVE TInv
  OBVIOUS
<1>1. KInv
  BY InitKInv
<1>2. ServeInv
  BY SizeAssumption DEF Init, ServeInv, Handle
<1>3. LoadInv
  BY DEF Init, LoadInv, InFlight, NoLoad
<1>4. BareInv
  BY NameAssumption DEF Init, BareInv, Destroyed, Name
<1> QED  BY <1>1, <1>2, <1>3, <1>4 DEF TInv

\* The contract's step of an acquire that gives a name its slot.
LEMMA AcquireSeen ==
  ASSUME TInv, NamesApart, up, up' = up, NEW n \in Name, NEW a \in BOOLEAN, NEW i \in Slot,
         Free(i), Handle(n) = Null, Holds(n), ref' = Counted(n, a, i),
         \A k \in Slot : k # i => texture'[k] = texture[k],
         texture'[i].data = FALSE \/ (texture'[i].data = TRUE /\ texture'[i].name = n),
         \A m \in Name : m # n => (m \in dropped' <=> m \in dropped)
  PROVE  Contract!Next
<1>0. KInv /\ TypeOK /\ CountInv
  BY DEF TInv, KInv, HInv
<1>1. /\ ref'[Hash[n]].count = held[n] + 1 /\ ref'[Hash[n]].handle = i
      /\ ref'[Hash[n]].auto = IF held[n] = 0 THEN a ELSE ref[Hash[n]].auto
      /\ \A m \in Name : m # n => ref'[Hash[m]] = ref[Hash[m]]
  BY <1>0, CountedExact
<1>2. ref[Hash[n]].count = held[n]
  BY <1>0 DEF CountInv
<1>3. ImageOf(n) = "none"
  BY ImageCases
<1>4. ImageOf(n)' \in {"coming", "here", "lost"}
  <2>1. i # Null
    BY SizeAssumption
  <2>2. CASE texture'[i].data = FALSE
    BY <1>1, <2>1, <2>2 DEF ImageOf
  <2>3. CASE texture'[i].data = TRUE /\ texture'[i].name = n
    BY <1>1, <2>1, <2>3 DEF ImageOf
  <2> QED  BY <2>2, <2>3
<1>5. \A m \in Name : Handle(m) # i
  BY FreeUnused
<1>6. ASSUME NEW m \in Name, m # n
      PROVE  ImageOf(m)' = ImageOf(m)
  <2>1. ref'[Hash[m]].handle = ref[Hash[m]].handle
    BY <1>1, <1>6
  <2>2. Handle(m) # Null => Handle(m) \in Slot
    BY <1>0, SizeAssumption DEF TypeOK, Reference, Handle
  <2>3. ref[Hash[m]].handle # Null => /\ texture'[Handle(m)].data = texture[Handle(m)].data
                                      /\ texture'[Handle(m)].name = texture[Handle(m)].name
    BY <1>5, <2>2 DEF Handle
  <2> QED  BY <1>6, <2>1, <2>3, ImageSame
<1> QED  BY <1>1, <1>2, <1>3, <1>4, <1>6, ContractAcquire

\* The contract stutters when handles and what is in the slots in use stay.
LEMMA NothingSeen ==
  ASSUME TInv, up, up' = up,
         \A n \in Name : /\ ref'[Hash[n]] = ref[Hash[n]], dropped' = dropped,
         \A k \in Slot : ~Free(k) => /\ texture'[k].data = texture[k].data
                                     /\ texture'[k].name = texture[k].name
  PROVE  UNCHANGED Contract!vars
<1>1. HandleTaken /\ TypeOK
  BY DEF TInv, KInv, HInv
<1>2. ASSUME NEW n \in Name
      PROVE  ImageOf(n)' = ImageOf(n)
  <2>1. Handle(n) # Null => Handle(n) \in Slot /\ ~Free(Handle(n))
    BY <1>1, SizeAssumption DEF HandleTaken, TypeOK, Reference, Handle, Free
  <2> QED  BY <2>1, ImageSame DEF Handle
<1> QED  BY <1>2, ContractStutter

\* Every call and every half of a load keeps the invariant and is a step of
\* the contract or none.
LEMMA NextServed ==
  Patient /\ TInv /\ [Next]_vars => TInv' /\ [Contract!Next]_(Contract!vars)
<1> SUFFICES ASSUME Patient, TInv, [Next]_vars
             PROVE  TInv' /\ [Contract!Next]_(Contract!vars)
  OBVIOUS
<1> DEFINE Goal == (up' => ServeInv' /\ LoadInv') /\ (Contract!Next \/ UNCHANGED Contract!vars)
<1>0. /\ KInv /\ HInv /\ TypeOK /\ HandleTaken /\ (up => ServeInv /\ LoadInv /\ CountInv) /\ BareInv
      /\ NamesApart /\ ~Hasty
  BY DEF TInv, KInv, HInv, Patient
<1>1. ASSUME NEW n \in Image, NEW auto \in BOOLEAN, AcquireImage(n, auto)
      PROVE  Goal
  <2>1. PICK i \in Slot :
          /\ New(n, i) /\ Holds(n) /\ ref' = Counted(n, auto, i)
          /\ texture' = [texture EXCEPT ![i].id = i]
          /\ \/ /\ \E j \in 1 .. MaxLoads :
                     /\ load[j].stage = "none"
                     /\ load' = [load EXCEPT ![j] = [stage |-> "queued", name |-> n, slot |-> i]]
                /\ dropped' = dropped \ {n}
             \/ dropped' = dropped \cup {n} /\ load' = load
          /\ UNCHANGED <<owned, up, fault>>
    BY <1>1 DEF AcquireImage
  <2>2. n \in Name /\ up /\ Free(i) /\ Handle(n) = Null
    BY <2>1 DEF Name, New, Ready, FirstFree, Handle
  <2>4. /\ \A k \in Slot : texture'[k].data = texture[k].data /\ texture'[k].name = texture[k].name
        /\ \A k \in Slot : k # i => texture'[k] = texture[k]
    BY <1>0, <2>1 DEF TypeOK, Texture
  <2>5. ref'[Hash[n]].handle = i /\ \A m \in Name : m # n => ref'[Hash[m]] = ref[Hash[m]]
    BY <1>0, <2>1, <2>2, CountedExact
  <2>6. ServeInv' /\ LoadInv'
    <3>1. CASE dropped' = dropped \cup {n} /\ load' = load
      BY <1>0, <2>2, <2>4, <2>5, <3>1, DroppedServed
    <3>2. ASSUME NEW l \in 1 .. MaxLoads, load[l].stage = "none", dropped' = dropped \ {n},
                 load' = [load EXCEPT ![l] = [stage |-> "queued", name |-> n, slot |-> i]]
          PROVE  ServeInv' /\ LoadInv'
      <4>1. ~InFlight(l)
        BY <3>2 DEF InFlight
      <4> QED  BY <1>0, <2>2, <2>4, <2>5, <3>2, <4>1, QueuedServed
    <3> QED  BY <2>1, <3>1, <3>2
  <2>7. texture'[i].data = FALSE
    BY <2>2, <2>4, FreeUnused
  <2>8. Contract!Next
    BY <1>0, <2>1, <2>2, <2>4, <2>7, AcquireSeen
  <2> QED  BY <2>6, <2>8
<1>2. ASSUME NEW n \in Cube \cup Target, NEW a \in BOOLEAN, NEW valid \in BOOLEAN, NEW i \in Slot,
             New(n, i), Holds(n), ref' = Counted(n, a, i),
             texture' = [texture EXCEPT ![i] = [id |-> i, name |-> n, valid |-> valid, data |-> TRUE]],
             UNCHANGED <<load, dropped, up>>
      PROVE  Goal
  <2>1. up /\ Free(i) /\ Handle(n) = Null /\ n \in Name
    BY <1>2 DEF New, Ready, FirstFree, Handle, Name
  <2>2. /\ texture'[i].data = TRUE /\ texture'[i].name = n
        /\ \A k \in Slot : k # i => texture'[k] = texture[k]
    BY <1>0, <1>2 DEF TypeOK
  <2>3. ref'[Hash[n]].handle = i /\ \A m \in Name : m # n => ref'[Hash[m]] = ref[Hash[m]]
    BY <1>0, <1>2, <2>1, CountedExact
  <2>4. ServeInv' /\ LoadInv'
    BY <1>0, <1>2, <2>1, <2>2, <2>3, FilledServed
  <2>5. Contract!Next
    BY <1>0, <1>2, <2>1, <2>2, AcquireSeen
  <2> QED  BY <2>4, <2>5
<1>3. ASSUME NEW n \in Cube, AcquireCube(n)
      PROVE  Goal
  <2>1. PICK i \in Slot : /\ New(n, i) /\ Holds(n)
                          /\ ref' = Counted(n, TRUE, i)
                          /\ texture' = [texture EXCEPT ![i] = [id |-> i, name |-> n, valid |-> TRUE,
                                                                data |-> TRUE]]
                          /\ UNCHANGED <<load, dropped, up>>
    BY <1>3 DEF AcquireCube
  <2> QED  BY <1>2, <2>1
<1>4. ASSUME NEW n \in Target, AcquireTarget(n)
      PROVE  Goal
  <2>1. PICK i \in Slot : /\ New(n, i) /\ Holds(n)
                          /\ ref' = Counted(n, FALSE, i)
                          /\ texture' = [texture EXCEPT ![i] = [id |-> i, name |-> n, valid |-> FALSE,
                                                                data |-> TRUE]]
                          /\ UNCHANGED <<load, dropped, up>>
    BY <1>4 DEF AcquireTarget
  <2> QED  BY <1>2, <2>1
<1>5. ASSUME up, UNCHANGED <<ref, load, dropped, up>>,
             \A k \in Slot : ~Free(k) => /\ texture'[k].data = texture[k].data
                                         /\ texture'[k].name = texture[k].name
      PROVE  Goal
  BY <1>5, SameServed, NothingSeen
<1>6. ASSUME NEW n \in Cube, AcquireCubeFails(n)
      PROVE  Goal
  <2>1. PICK i \in Slot : New(n, i) /\ texture' = [texture EXCEPT ![i].name = n, ![i].valid = TRUE]
    BY <1>6 DEF AcquireCubeFails
  <2>2. UNCHANGED <<ref, load, dropped, up>> /\ up /\ Free(i)
    BY <1>6, <2>1 DEF AcquireCubeFails, New, Ready, FirstFree
  <2>3. \A k \in Slot : k # i => texture'[k] = texture[k]
    BY <1>0, <2>1 DEF TypeOK
  <2> QED  BY <1>5, <2>2, <2>3
<1>7. ASSUME NEW n \in Name, NEW auto \in BOOLEAN, AcquireAgain(n, auto)
      PROVE  Goal
  <2> DEFINE i == ref[Hash[n]].handle
  <2>1. /\ i # Null /\ Holds(n) /\ up /\ ref' = Counted(n, auto, i)
        /\ UNCHANGED <<texture, load, owned, dropped, up, fault>>
    BY <1>7 DEF AcquireAgain, Ready
  <2>2. i \in Slot
    BY <1>0, <2>1, SizeAssumption DEF TypeOK, Reference
  <2>3. /\ ref'[Hash[n]].count = held[n] + 1 /\ ref'[Hash[n]].handle = i
        /\ ref'[Hash[n]].auto = IF held[n] = 0 THEN auto ELSE ref[Hash[n]].auto
        /\ \A m \in Name : m # n => ref'[Hash[m]] = ref[Hash[m]]
    BY <1>0, <2>1, <2>2, CountedExact
  <2>4. \A m \in Name : ref'[Hash[m]].handle = ref[Hash[m]].handle
    BY <2>3
  <2>5. ServeInv' /\ LoadInv'
    BY <2>1, <2>4, SameServed
  <2>6. \A m \in Name : ImageOf(m)' = ImageOf(m)
    BY <2>1, <2>4, ImageSame
  <2>7. ref[Hash[n]].count = held[n]
    BY <1>0, <2>1 DEF CountInv
  <2>8. ImageOf(n) # "none"
    BY <2>1 DEF ImageOf
  <2>9. Contract!Next
    BY <2>1, <2>3, <2>6, <2>7, <2>8, ContractAcquire
  <2> QED  BY <2>5, <2>9
<1>8. ASSUME NEW n \in Target, WriteTarget(n)
      PROVE  Goal
  <2>1. /\ texture' = [texture EXCEPT ![ref[Hash[n]].handle].valid = TRUE]
        /\ UNCHANGED <<ref, load, dropped, up>> /\ up
    BY <1>8 DEF WriteTarget, Ready
  <2>2. \A k \in Slot : texture'[k].data = texture[k].data /\ texture'[k].name = texture[k].name
    BY <1>0, <2>1 DEF TypeOK, Texture
  <2> QED  BY <1>5, <2>1, <2>2
<1>9. ASSUME NEW n \in Name, Release(n)
      PROVE  Goal
  <2> DEFINE i == Handle(n)
             last == held[n] = 1 /\ ref[Hash[n]].auto
  <2>1. /\ held' = [held EXCEPT ![n] = @ - 1] /\ held[n] > 0 /\ ReleaseName(n)
        /\ Expires(Hash[n]) => texture[Handle(n)].name = n
        /\ up /\ UNCHANGED <<load, dropped, up, fault>>
    BY <1>0, <1>9 DEF Release, Ready, Handle
  <2>2. /\ i \in Slot
        /\ Expires(Hash[n]) <=> last
        /\ \A m \in Name : m # n => ref'[Hash[m]] = ref[Hash[m]]
        /\ ref'[Hash[n]] = [count |-> held[n] - 1,
                            handle |-> IF Expires(Hash[n]) THEN Null ELSE i,
                            auto |-> ~Expires(Hash[n]) /\ ref[Hash[n]].auto]
        /\ texture'[i] = IF Expires(Hash[n]) THEN Destroyed ELSE texture[i]
        /\ \A k \in Slot : k # i => texture'[k] = texture[k]
    BY <1>0, <2>1, ReleaseExact
  <2>3. i # Null /\ ref[Hash[n]].count = held[n]
    BY <1>0, <2>1, <2>2, SizeAssumption DEF CountInv
  <2>4. ref'[Hash[n]].auto = IF Expires(Hash[n]) THEN FALSE ELSE ref[Hash[n]].auto
    <3>1. ref'[Hash[n]].auto = (~Expires(Hash[n]) /\ ref[Hash[n]].auto)
      BY <2>2
    <3>2. ref[Hash[n]].auto \in BOOLEAN
      BY <1>0, SizeAssumption DEF TypeOK, Reference
    <3> QED  BY <3>1, <3>2, Zenon
  <2>5. ASSUME NEW m \in Name, m # n
        PROVE  ImageOf(m)' = ImageOf(m)
    <3>1. Handle(m) # Null => Handle(m) # i /\ Handle(m) \in Slot
      BY <1>0, <2>5, HandlesOfNames
    <3>2. Handle(m) # Null => texture'[Handle(m)] = texture[Handle(m)]
      BY <2>2, <3>1
    <3>3. ref'[Hash[m]].handle = ref[Hash[m]].handle
      BY <2>2, <2>5
    <3> QED  BY <2>1, <3>2, <3>3, ImageSame DEF Handle
  <2>6. CASE Expires(Hash[n])
    <3>1. ServeInv' /\ LoadInv'
      BY <1>0, <2>1, <2>2, <2>3, <2>6, EmptiedServed
    <3>2. ImageOf(n) = "here"
      BY <1>0, <2>1, <2>3, <2>6, ExpiresLoaded, ImageCases
    <3>3. ImageOf(n)' = "none"
      <4>1. ref'[Hash[n]].handle = Null
        BY <2>2, <2>6
      <4> QED  BY <4>1 DEF ImageOf
    <3>4. ref'[Hash[n]].count = ref[Hash[n]].count - 1 /\ ref[Hash[n]].count > 0
      BY <2>1, <2>2, <2>3
    <3>5. TRUE <=> ref[Hash[n]].count = 1 /\ ref[Hash[n]].auto
      BY <2>2, <2>3, <2>6
    <3>6. ref'[Hash[n]].auto = FALSE
      BY <2>4, <2>6
    <3>7. Contract!Next
      BY <2>1, <2>2, <2>5, <3>2, <3>3, <3>4, <3>5, <3>6, ContractRelease
    <3> QED  BY <3>1, <3>7
  <2>7. CASE ~Expires(Hash[n])
    <3>1. /\ \A m \in Name : ref'[Hash[m]].handle = ref[Hash[m]].handle
          /\ \A k \in Slot : texture'[k] = texture[k]
      BY <2>2, <2>7 DEF Handle
    <3>2. ServeInv' /\ LoadInv'
      BY <2>1, <3>1, SameServed
    <3>3. ImageOf(n)' = ImageOf(n)
      BY <2>1, <2>2, <3>1, ImageSame DEF Handle
    <3>4. ref'[Hash[n]].count = ref[Hash[n]].count - 1 /\ ref[Hash[n]].count > 0
      BY <2>1, <2>2, <2>3
    <3>5. FALSE <=> ref[Hash[n]].count = 1 /\ ref[Hash[n]].auto
      BY <2>2, <2>3, <2>7
    <3>6. ref'[Hash[n]].auto = ref[Hash[n]].auto
      BY <2>4, <2>7
    <3>7. Contract!Next
      BY <2>1, <2>2, <2>5, <3>3, <3>4, <3>5, <3>6, ContractRelease
    <3> QED  BY <3>2, <3>7
  <2> QED  BY <2>6, <2>7
<1>10. ASSUME NEW j \in 1 .. MaxLoads, LoadRead(j)
       PROVE  Goal
  <2>1. /\ load' = [load EXCEPT ![j].stage = "read"] /\ load[j].stage = "queued"
        /\ texture' = [texture EXCEPT ![load[j].slot].valid = FALSE]
        /\ UNCHANGED <<ref, owned, held, dropped, up, fault>> /\ up
    BY <1>10 DEF LoadRead, Ready
  <2>2. \A k \in Slot : texture'[k].data = texture[k].data /\ texture'[k].name = texture[k].name
    BY <1>0, <2>1 DEF TypeOK, Texture
  <2>3. \A l \in 1 .. MaxLoads : /\ load'[l].slot = load[l].slot /\ load'[l].name = load[l].name
                                 /\ load'[l].stage = "none" <=> load[l].stage = "none"
    BY <1>0, <2>1 DEF TypeOK, Params
  <2>4. ServeInv' /\ LoadInv'
    BY <2>1, <2>2, <2>3, SameServed
  <2>5. UNCHANGED Contract!vars
    BY <2>1, <2>2, NothingSeen
  <2> QED  BY <2>4, <2>5
<1>11. ASSUME NEW j \in 1 .. MaxLoads, LoadFault(j)
       PROVE  Goal
  BY <1>5, <1>11 DEF LoadFault, Ready
<1>12. ASSUME NEW j \in 1 .. MaxLoads, LoadSuccess(j)
       PROVE  Goal
  <2> DEFINE i == load[j].slot
             n == load[j].name
  <2>1. /\ texture' = [texture EXCEPT ![i] = [id |-> 0, name |-> n, valid |-> TRUE, data |-> TRUE]]
        /\ load' = [load EXCEPT ![j] = NoLoad]
        /\ up /\ UNCHANGED <<ref, held, dropped, up, fault>> /\ InFlight(j)
    BY <1>12 DEF LoadSuccess, Ready, InFlight
  <2>2. i \in Slot /\ n \in Name \ dropped /\ Handle(n) = i /\ ~texture[i].data /\ i # Null
    BY <1>0, <2>1, SizeAssumption DEF TypeOK, Params, LoadInv, Name
  <2>3. /\ texture'[i].data = TRUE /\ texture'[i].name = n
        /\ \A k \in Slot : k # i => texture'[k] = texture[k]
    BY <1>0, <2>1, <2>2 DEF TypeOK
  <2>4. ServeInv' /\ LoadInv'
    BY <1>0, <2>1, <2>3, LoadedServed
  <2>5. ImageOf(n) = "coming"
    BY <2>2, ImageCases
  <2>6. ref'[Hash[n]].handle = i
    BY <2>1, <2>2 DEF Handle
  <2>7. ASSUME NEW m \in Name, m = n
        PROVE  ImageOf(m)' = "here"
    <3>1. ref'[Hash[m]].handle = i
      BY <2>6, <2>7
    <3>2. texture'[i].data /\ texture'[i].name = m
      BY <2>3, <2>7
    <3> HIDE DEF n, i
    <3> QED  BY <2>2, <3>1, <3>2 DEF ImageOf
  <2>8. ASSUME NEW m \in Name, m # n
        PROVE  ImageOf(m)' = ImageOf(m)
    <3>1. Handle(m) # Null => Handle(m) # i /\ Handle(m) \in Slot
      BY <1>0, <2>2, <2>8, HandlesOfNames
    <3>2. Handle(m) # Null => texture'[Handle(m)] = texture[Handle(m)]
      BY <2>3, <3>1
    <3> QED  BY <2>1, <3>2, ImageSame DEF Handle
  <2>9. Contract!Next
    <3>1. \A m \in Name : m = n => ImageOf(m)' = "here" /\ ImageOf(m) = "coming"
      BY <2>5, <2>7
    <3> HIDE DEF n, i
    <3>2. PICK x \in Name : x = n
      BY <2>2
    <3> QED  BY <2>1, <2>8, <3>1, <3>2, ContractArrive
  <2> QED  BY <2>4, <2>9
<1>18. ASSUME NEW j \in 1 .. MaxLoads, LoadDropped(j)
       PROVE  Goal
  <2>1. /\ load' = [load EXCEPT ![j] = NoLoad] /\ dropped' = dropped \cup {load[j].name}
        /\ up /\ UNCHANGED <<ref, texture, up>> /\ InFlight(j)
    BY <1>18 DEF LoadDropped, Ready, InFlight
  <2>2. PICK n \in Name : /\ n = load[j].name /\ n \notin dropped /\ Handle(n) = load[j].slot
                          /\ Handle(n) # Null /\ ~texture[Handle(n)].data
    BY <1>0, <2>1, SizeAssumption DEF TypeOK, Params, LoadInv, Name
  <2>3. ServeInv' /\ LoadInv'
    BY <1>0, <2>1, LostServed
  <2>4. ImageOf(n) = "coming"
    BY <2>2, ImageCases
  <2>5. n \in dropped' /\ \A m \in Name : m # n => (m \in dropped' <=> m \in dropped)
    BY <2>1, <2>2
  <2>6. ImageOf(n)' = "lost"
    BY <2>1, <2>2, <2>5 DEF ImageOf, Handle
  <2>7. ASSUME NEW m \in Name, m # n
        PROVE  ImageOf(m)' = ImageOf(m)
    BY <2>1, <2>5, <2>7, ImageSame
  <2>8. Contract!Next
    BY <2>1, <2>4, <2>6, <2>7, ContractDrop
  <2> QED  BY <2>3, <2>8
<1>13. ASSUME Shutdown PROVE Goal
  BY <1>13, ContractClose DEF Shutdown, Ready
<1>14. ASSUME UNCHANGED vars PROVE Goal
  <2>1. CASE up
    BY <1>5, <1>14, <2>1 DEF vars
  <2>2. CASE ~up
    <3>1. up' = up /\ \A n \in Name : /\ ref'[Hash[n]].count = ref[Hash[n]].count
                                      /\ ref'[Hash[n]].auto = ref[Hash[n]].auto
                                      /\ ImageOf(n)' = ImageOf(n)
      BY <1>14 DEF vars, ImageOf
    <3> QED  BY <2>2, <3>1, ContractStutter
  <2> QED  BY <2>1, <2>2
<1>15. Goal
  BY <1>1, <1>3, <1>4, <1>6, <1>7, <1>8, <1>9, <1>10, <1>11, <1>12, <1>13, <1>14, <1>18
  DEF Next, Main, LoadStep, Name
<1>16. KInv' /\ BareInv'
  BY <1>0, NextKInv, NextBare
<1> HIDE DEF Goal
<1>17. (up' => ServeInv' /\ LoadInv') /\ (Contract!Next \/ UNCHANGED Contract!vars)
  BY <1>15 DEF Goal
<1> QED  BY <1>16, <1>17, Zenon DEF TInv

-----------------------------------------------------------------------------
\* What the invariant says of the holders.
LEMMA ServedHolders == NamesApart /\ TInv => HoldersServed
<1> SUFFICES ASSUME NamesApart, TInv PROVE HoldersServed
  OBVIOUS
<1>0. KInv /\ HInv /\ HandleTaken /\ TypeOK /\ (up => ServeInv /\ LoadInv /\ CountInv /\ HeldInv)
  BY DEF TInv, KInv, HInv
<1>1. CountIsHolders
  BY <1>0 DEF CountIsHolders, CountInv
<1>2. ASSUME up, NEW n \in Name, held[n] > 0
      PROVE  LET i == ref[Hash[n]].handle
                 loads == {j \in 1 .. MaxLoads : load[j].stage # "none" /\ load[j].slot = i}
             IN  /\ i # Null /\ texture[i].id # Null
                 /\ texture[i].data => texture[i].name = n /\ n \notin dropped
                 /\ IF texture[i].data \/ n \in dropped THEN loads = {}
                    ELSE Cardinality(loads) = 1 /\ \A j \in loads : load[j].name = n
  <2> DEFINE i == ref[Hash[n]].handle
             loads == {j \in 1 .. MaxLoads : load[j].stage # "none" /\ load[j].slot = i}
  <2>1. i = Handle(n) /\ i # Null /\ texture[i].id # Null
    BY <1>0, <1>2, SizeAssumption DEF HeldInv, HandleTaken, Handle
  <2>2. CASE texture[i].data
    <3>1. texture[i].name = n /\ n \notin dropped
      BY <1>0, <1>2, <2>1, <2>2 DEF ServeInv
    <3>2. loads = {}
      BY <1>0, <1>2, <2>2 DEF LoadInv, InFlight
    <3> QED  BY <2>1, <2>2, <3>1, <3>2
  <2>4. CASE ~texture[i].data /\ n \in dropped
    <3>1. loads = {}
      <4>1. \A j \in 1 .. MaxLoads : InFlight(j) => load[j].name \notin dropped
        BY <1>0, <1>2 DEF LoadInv
      <4> QED  BY <1>2, <2>1, <2>4, <4>1, LoadOfSlot DEF InFlight
    <3> QED  BY <2>1, <2>4, <3>1
  <2>3. CASE ~texture[i].data /\ n \notin dropped
    <3>1. PICK j \in 1 .. MaxLoads : InFlight(j) /\ load[j].slot = i
      BY <1>0, <1>2, <2>1, <2>3 DEF ServeInv
    <3>2. loads = {j}
      BY <1>0, <1>2, <3>1 DEF LoadInv, InFlight
    <3>3. Cardinality(loads) = 1
      <4> HIDE DEF loads
      <4> QED  BY <3>2, FS_Singleton
    <3>4. load[j].name = n
      BY <1>2, <2>1, <3>1, LoadOfSlot
    <3> QED  BY <2>1, <2>3, <3>2, <3>3, <3>4
  <2> QED  BY <2>2, <2>3, <2>4
<1>3. HeldIsRegistered
  BY <1>2 DEF HeldIsRegistered, Ready
<1> QED  BY <1>1, <1>3 DEF HoldersServed

\* Callers that hold a name are counted, and the slot of the name has its
\* texture, or one job is on the way to load it, or that job was dropped.
THEOREM HoldersStayServed == Patient => (Spec => []HoldersServed)
<1> SUFFICES ASSUME Patient PROVE Spec => []HoldersServed
  OBVIOUS
<1>1. TInv /\ [Next]_vars => TInv'
  BY NextServed
<1>2. TInv => HoldersServed
  BY ServedHolders DEF Patient
<1> QED  BY <1>1, <1>2, InitTInv, PTL DEF Spec

\* texture_system.c implements the contract of its callers, step by step.
THEOREM TexturesImplementContract == Patient => (Spec => ImplementsContract)
<1> SUFFICES ASSUME Patient PROVE Spec => ImplementsContract
  OBVIOUS
<1>1. Init => Contract!Init
  <2> SUFFICES ASSUME Init PROVE Contract!Init
    OBVIOUS
  <2>1. \A n \in Name : /\ ref[Hash[n]].count = 0 /\ ref[Hash[n]].auto = FALSE
                        /\ ref[Hash[n]].handle = Null
    BY SizeAssumption DEF Init
  <2>2. \A n \in Name : ImageOf(n) = "none"
    BY <2>1 DEF ImageOf
  <2>3. CCount = [n \in Name |-> 0] /\ CAuto = [n \in Name |-> FALSE]
    BY <2>1 DEF CCount, CAuto
  <2>4. up = TRUE /\ CImage = [n \in Name |-> "none"]
    BY <2>2 DEF CImage, Init
  <2> QED  BY <2>3, <2>4 DEF Contract!Init, CCount, CAuto, CImage
<1>2. TInv /\ [Next]_vars => TInv' /\ [Contract!Next]_(Contract!vars)
  BY NextServed
<1> QED  BY <1>1, <1>2, InitTInv, PTL DEF Spec, ImplementsContract, Contract!Spec

-----------------------------------------------------------------------------
\* SlotReclaimed, by name.
UsedInv == up => \A i \in Slot : texture[i].id # Null => \E n \in Name : Handle(n) = i

\* No slot is lost, whatever callers do that wait for a texture.
LEMMA NextUsed == NamesApart /\ ~Hasty /\ TInv /\ UsedInv /\ [Next]_vars => UsedInv'
<1> SUFFICES ASSUME NamesApart, ~Hasty, TInv, UsedInv, [Next]_vars, up'
             PROVE  \A i \in Slot : texture'[i].id # Null => \E n \in Name : ref'[Hash[n]].handle = i
  BY DEF UsedInv, Handle
<1> DEFINE Goal == \A i \in Slot : texture'[i].id # Null => \E n \in Name : ref'[Hash[n]].handle = i
<1>0. KInv /\ HInv /\ TypeOK /\ HandleTaken /\ (up => LoadInv)
  BY DEF TInv, KInv, HInv
<1>1. ASSUME up, \A n \in Name : ref'[Hash[n]].handle = ref[Hash[n]].handle,
             \A k \in Slot : texture'[k].id = texture[k].id
      PROVE  Goal
  BY <1>1 DEF UsedInv, Handle
<1>2. ASSUME NEW n \in Name, NEW i \in Slot, up, Handle(n) = Null,
             \E a \in BOOLEAN : ref' = Counted(n, a, i), Holds(n),
             \A k \in Slot : k # i => texture'[k] = texture[k]
      PROVE  Goal
  <2>1. ref'[Hash[n]].handle = i /\ \A m \in Name : m # n => ref'[Hash[m]] = ref[Hash[m]]
    BY <1>0, <1>2, CountedExact
  <2>2. \A k \in Slot : k # i /\ texture[k].id # Null => \E m \in Name : m # n /\ Handle(m) = k
    BY <1>2, SizeAssumption DEF UsedInv
  <2> QED  BY <1>2, <2>1, <2>2 DEF Handle
<1>3. ASSUME NEW n \in Image, NEW auto \in BOOLEAN, AcquireImage(n, auto) PROVE Goal
  <2>1. PICK i \in Slot : New(n, i) /\ Holds(n) /\ ref' = Counted(n, auto, i)
                          /\ texture' = [texture EXCEPT ![i].id = i]
    BY <1>3 DEF AcquireImage
  <2>2. \A k \in Slot : k # i => texture'[k] = texture[k]
    BY <1>0, <2>1 DEF TypeOK
  <2> QED  BY <1>2, <2>1, <2>2 DEF New, Ready, Handle, Name
<1>4. ASSUME NEW n \in Cube, AcquireCube(n) PROVE Goal
  <2>1. PICK i \in Slot : New(n, i) /\ Holds(n) /\ ref' = Counted(n, TRUE, i)
                          /\ texture' = [texture EXCEPT ![i] = [id |-> i, name |-> n, valid |-> TRUE,
                                                                data |-> TRUE]]
    BY <1>4 DEF AcquireCube
  <2>2. \A k \in Slot : k # i => texture'[k] = texture[k]
    BY <1>0, <2>1 DEF TypeOK
  <2> QED  BY <1>2, <2>1, <2>2 DEF New, Ready, Handle, Name
<1>5. ASSUME NEW n \in Cube, AcquireCubeFails(n) PROVE Goal
  <2>1. PICK i \in Slot : New(n, i) /\ texture' = [texture EXCEPT ![i].name = n, ![i].valid = TRUE]
    BY <1>5 DEF AcquireCubeFails
  <2>2. ref' = ref /\ \A k \in Slot : texture'[k].id = texture[k].id
    BY <1>0, <1>5, <2>1 DEF AcquireCubeFails, TypeOK, Texture
  <2> QED  BY <1>1, <2>1, <2>2 DEF New, Ready
<1>6. ASSUME NEW n \in Name, NEW auto \in BOOLEAN, AcquireAgain(n, auto) PROVE Goal
  <2>1. /\ Handle(n) # Null /\ Holds(n) /\ up /\ ref' = Counted(n, auto, Handle(n))
        /\ texture' = texture
    BY <1>6 DEF AcquireAgain, Ready, Handle
  <2>2. Handle(n) \in Slot
    BY <1>0, <2>1, SizeAssumption DEF TypeOK, Reference, Handle
  <2>3. /\ ref'[Hash[n]].handle = Handle(n)
        /\ \A m \in Name : m # n => ref'[Hash[m]] = ref[Hash[m]]
    BY <1>0, <2>1, <2>2, CountedExact
  <2> QED  BY <1>1, <2>1, <2>3 DEF Handle
<1>7. ASSUME NEW n \in Target, AcquireTarget(n) PROVE Goal
  <2>1. PICK i \in Slot : New(n, i) /\ Holds(n) /\ ref' = Counted(n, FALSE, i)
                          /\ texture' = [texture EXCEPT ![i] = [id |-> i, name |-> n, valid |-> FALSE,
                                                                data |-> TRUE]]
    BY <1>7 DEF AcquireTarget
  <2>2. \A k \in Slot : k # i => texture'[k] = texture[k]
    BY <1>0, <2>1 DEF TypeOK
  <2> QED  BY <1>2, <2>1, <2>2 DEF New, Ready, Handle, Name
<1>8. ASSUME NEW n \in Target, WriteTarget(n) PROVE Goal
  <2>1. texture' = [texture EXCEPT ![ref[Hash[n]].handle].valid = TRUE] /\ ref' = ref /\ up
    BY <1>8 DEF WriteTarget, Ready
  <2>2. \A k \in Slot : texture'[k].id = texture[k].id
    BY <1>0, <2>1 DEF TypeOK, Texture
  <2> QED  BY <1>1, <2>1, <2>2
<1>9. ASSUME NEW n \in Name, Release(n) PROVE Goal
  <2>1. /\ held' = [held EXCEPT ![n] = @ - 1] /\ held[n] > 0 /\ ReleaseName(n) /\ up
    BY <1>9 DEF Release, Ready
  <2>2. /\ Handle(n) \in Slot
        /\ \A m \in Name : m # n => ref'[Hash[m]] = ref[Hash[m]]
        /\ ref'[Hash[n]] = [count |-> held[n] - 1,
                            handle |-> IF Expires(Hash[n]) THEN Null ELSE Handle(n),
                            auto |-> ~Expires(Hash[n]) /\ ref[Hash[n]].auto]
        /\ texture'[Handle(n)] = IF Expires(Hash[n]) THEN Destroyed ELSE texture[Handle(n)]
        /\ \A k \in Slot : k # Handle(n) => texture'[k] = texture[k]
    BY <1>0, <2>1, ReleaseExact
  <2>5. ref'[Hash[n]].handle = IF Expires(Hash[n]) THEN Null ELSE Handle(n)
    BY <2>2
  <2>3. CASE Expires(Hash[n])
    <3>1. texture'[Handle(n)].id = Null
      BY <2>2, <2>3 DEF Destroyed
    <3>2. \A k \in Slot : k # Handle(n) /\ texture[k].id # Null => \E m \in Name : m # n /\ Handle(m) = k
      BY <2>1 DEF UsedInv
    <3> QED  BY <2>2, <2>3, <2>5, <3>1, <3>2 DEF Handle
  <2>4. CASE ~Expires(Hash[n])
    <3>1. \A m \in Name : ref'[Hash[m]].handle = ref[Hash[m]].handle
      BY <2>2, <2>4, <2>5 DEF Handle
    <3>2. \A k \in Slot : texture'[k].id = texture[k].id
      BY <2>2, <2>4
    <3> QED  BY <1>1, <2>1, <3>1, <3>2
  <2> QED  BY <2>3, <2>4
<1>10. ASSUME NEW j \in 1 .. MaxLoads, LoadRead(j) PROVE Goal
  <2>1. texture' = [texture EXCEPT ![load[j].slot].valid = FALSE] /\ ref' = ref /\ up
    BY <1>10 DEF LoadRead, Ready
  <2>2. \A k \in Slot : texture'[k].id = texture[k].id
    BY <1>0, <2>1 DEF TypeOK, Texture
  <2> QED  BY <1>1, <2>1, <2>2
<1>11. ASSUME NEW j \in 1 .. MaxLoads, LoadFault(j) PROVE Goal
  BY <1>1, <1>11 DEF LoadFault, Ready
<1>12. ASSUME NEW j \in 1 .. MaxLoads, LoadSuccess(j) PROVE Goal
  <2> DEFINE i == load[j].slot
  <2>1. /\ texture' = [texture EXCEPT ![i] = [id |-> 0, name |-> load[j].name, valid |-> TRUE,
                                              data |-> TRUE]]
        /\ up /\ ref' = ref /\ InFlight(j)
    BY <1>12 DEF LoadSuccess, Ready, InFlight
  <2>2. load[j].name \in Name /\ Handle(load[j].name) = i
    BY <1>0, <2>1 DEF LoadInv, Name
  <2>3. \A k \in Slot : k # i => texture'[k] = texture[k]
    BY <1>0, <2>1 DEF TypeOK
  <2> QED  BY <2>1, <2>2, <2>3 DEF UsedInv, Handle
<1>15. ASSUME NEW j \in 1 .. MaxLoads, LoadDropped(j) PROVE Goal
  BY <1>1, <1>15 DEF LoadDropped, Ready
<1>13. ASSUME Shutdown PROVE Goal
  BY <1>13 DEF Shutdown
<1>14. ASSUME UNCHANGED vars PROVE Goal
  BY <1>1, <1>14 DEF vars
<1> QED
  BY <1>3, <1>4, <1>5, <1>6, <1>7, <1>8, <1>9, <1>10, <1>11, <1>12, <1>13, <1>14, <1>15
  DEF Next, Main, LoadStep, Name

\* texture_system.c:605 holds for callers that wait for a texture before they
\* give it up: every slot in use is the slot of a name.  A release before
\* the texture has arrived is the only way to lose one.
THEOREM SlotsStayReclaimed == Patient => (Spec => []SlotReclaimed)
<1> SUFFICES ASSUME Patient PROVE Spec => []SlotReclaimed
  OBVIOUS
<1>1. Init => UsedInv
  BY DEF Init, UsedInv, Destroyed
<1>2. TInv /\ UsedInv /\ [Next]_vars => TInv' /\ UsedInv'
  BY NextServed, NextUsed DEF Patient
<1>3. UsedInv => SlotReclaimed
  BY SizeAssumption DEF UsedInv, SlotReclaimed, Ready, Handle
<1> QED  BY <1>1, <1>2, <1>3, InitTInv, PTL DEF Spec
=============================================================================
