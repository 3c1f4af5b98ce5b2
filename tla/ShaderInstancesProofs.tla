----------------------- MODULE ShaderInstancesProofs -----------------------
(***************************************************************************)
(* For any number of materials, textures, ids and images: what the GPU may *)
(* still read is there, materials are drawn with their textures as they    *)
(* are, no set is written again once it is bound, and instances are never  *)
(* shared.                                                                 *)
(*                                                                         *)
(* What has to be added to make this inductive: ranges of different ids    *)
(* are different, the buffer descriptor of a set is not written yet or is  *)
(* the range of the id, what is bound in a buffer belongs to the materials *)
(* drawn in this frame and nothing is bound between frames, and a texture  *)
(* has at least one reference for each material with an instance.          *)
(***************************************************************************)
EXTENDS ShaderInstances, FiniteSetTheorems, TLAPS

\* No two instances have the same range of the buffer.
RangesApart == \A i, j \in taken : i # j => offset[i] # offset[j]

\* The buffer descriptors of a set are written with the range of its instance.
RangesWritten == \A i \in sets, k \in Image : written[i][k].range \in {NoRange, offset[i]}

\* A material has the instance it was given alone.
InstanceAlone == \A m, n \in Material : instance[m] # NoId /\ m # n => instance[m] # instance[n]

BoundInv == pc = "update" => bound = {}

\* What is bound in a buffer is known from the materials: those that were drawn
\* in this frame have the ids that are bound.
BoundSynced == pc = "record" => bound = {instance[m] : m \in synced}

Users(t) == {m \in Material : instance[m] # NoId /\ TextureOf[m] = t}

\* The references of a texture, and when it is there.
Counted == \A t \in Texture : /\ Cardinality(Users(t)) <= count[t]
                              /\ image[t] = "none" => Users(t) = {}

IInv == /\ TypeOK /\ IdsHeld /\ RangesApart /\ RangesWritten /\ InstanceAlone /\ BoundInv /\ Counted
        /\ ReadsAlive /\ DrawsCurrent /\ BoundSynced /\ NeverRewritten

-----------------------------------------------------------------------------
LEMMA Constants == /\ IdCount \in Nat /\ NoId \notin InstanceId /\ NoRange \notin InstanceId
                   /\ MaxCount \in Nat /\ TextureOf \in [Material -> Texture]
                   /\ \A m \in Material : TextureOf[m] \in Texture
                   /\ \A t \in Texture : t # NoView /\ t # Default /\ t # Gone
                   /\ NoView # Default /\ NoView # Gone /\ Default # Gone
BY TextureAssumption, CountAssumption DEF InstanceId, NoId, NoRange

\* There are finitely many users of a texture.
LEMMA UsersFinite ==
  ASSUME NEW t PROVE IsFiniteSet(Users(t)) /\ Cardinality(Users(t)) \in Nat
<1>1. Users(t) \in SUBSET Material  BY DEF Users
<1>2. IsFiniteSet(Users(t))  BY <1>1, TextureAssumption, FS_Subset
<1> QED  BY <1>2, FS_CardinalityType

LEMMA InitInv == Init => IInv
<1> SUFFICES ASSUME Init PROVE IInv
  OBVIOUS
<1>1. TypeOK
  BY Constants DEF Init, TypeOK, Set, NewSet, Frame
<1>2. Counted
  <2>1. \A t \in Texture : Users(t) = {}  BY DEF Init, Users
  <2> QED  BY <2>1, FS_EmptySet DEF Init, Counted
<1>3. IdsHeld
  BY Constants DEF Init, IdsHeld
<1>4. /\ RangesApart /\ RangesWritten /\ InstanceAlone /\ BoundInv
      /\ ReadsAlive /\ DrawsCurrent /\ BoundSynced /\ NeverRewritten
  BY DEF Init, RangesApart, RangesWritten, InstanceAlone, BoundInv, ReadsAlive, DrawsCurrent,
         BoundSynced, NeverRewritten
<1> QED  BY <1>1, <1>2, <1>3, <1>4 DEF IInv

\* What no action but an acquire or a release of references changes.
LEMMA CountedSame ==
  ASSUME Counted, instance' = instance, count' = count,
         \A t \in Texture : image'[t] = "none" => image[t] = "none"
  PROVE  Counted'
<1>1. \A t \in Texture : Users(t)' = Users(t)  BY DEF Users
<1> QED  BY <1>1 DEF Counted

\* Another reference.
LEMMA CountedAcquire ==
  ASSUME TypeOK, Counted, NEW m \in Material, instance[m] = NoId, AcquireTexture(TextureOf[m]),
         instance' \in {instance} \cup {[instance EXCEPT ![m] = i] : i \in InstanceId}
  PROVE  Counted'
<1> SUFFICES ASSUME NEW t \in Texture
             PROVE  /\ Cardinality(Users(t)') <= count'[t]
                    /\ image'[t] = "none" => Users(t)' = {}
  BY DEF Counted
<1>1. IsFiniteSet(Users(t)) /\ Cardinality(Users(t)) \in Nat  BY UsersFinite
<1>2. CASE t = TextureOf[m]
  <2>1. Users(t)' \in {Users(t), Users(t) \cup {m}}
    <3>1. CASE instance' = instance  BY <3>1 DEF Users
    <3>2. CASE \E i \in InstanceId : instance' = [instance EXCEPT ![m] = i]
      BY <3>2, <1>2, Constants DEF Users, TypeOK
    <3> QED  BY <3>1, <3>2
  <2>2. Cardinality(Users(t)') \in {Cardinality(Users(t)), Cardinality(Users(t)) + 1}
    BY <1>1, <2>1, FS_AddElement
  <2>3. count'[t] = count[t] + 1 /\ image'[t] # "none"
    BY <1>2 DEF AcquireTexture, TypeOK
  <2> QED  BY <1>1, <2>2, <2>3 DEF Counted, TypeOK
<1>3. CASE t # TextureOf[m]
  <2>1. Users(t)' = Users(t)
    <3>1. CASE instance' = instance  BY <3>1 DEF Users
    <3>2. CASE \E i \in InstanceId : instance' = [instance EXCEPT ![m] = i]
      BY <3>2, <1>3 DEF Users, TypeOK
    <3> QED  BY <3>1, <3>2
  <2>2. count'[t] = count[t] /\ image'[t] = image[t]
    BY <1>3 DEF AcquireTexture, TypeOK
  <2> QED  BY <2>1, <2>2 DEF Counted
<1> QED  BY <1>2, <1>3

LEMMA AcquireTextureType ==
  ASSUME TypeOK, NEW m \in Material, Loads(m), AcquireTexture(TextureOf[m])
  PROVE  /\ image' \in [Texture -> {"none", "coming", "here"}]
         /\ count' \in [Texture -> 0 .. MaxCount]
BY Constants DEF TypeOK, Loads, AcquireTexture

\* A new instance for a material disturbs nobody.
LEMMA AcquireInv ==
  ASSUME IInv, NEW m \in Material, Acquire(m) PROVE IInv'
<1> PICK i \in InstanceId, r \in InstanceId :
      /\ FirstFree(i) /\ FirstRange(r)
      /\ taken' = taken \cup {i} /\ instance' = [instance EXCEPT ![m] = i]
      /\ offset' = [offset EXCEPT ![i] = r]
      /\ sets' = sets \cup {i} /\ FreshSets(i)
  BY DEF Acquire
<1>1. /\ i \notin taken /\ \A j \in taken : offset[j] # r
  BY DEF FirstFree, FirstRange, Least
<1>2. /\ pc = "update" /\ instance[m] = NoId /\ AcquireTexture(TextureOf[m]) /\ Loads(m)
      /\ UNCHANGED <<pc, frame, index, synced, bound, pending, leaked, rewritten>>
  BY DEF Acquire, Loads, recording, history
<1>3. TypeOK'
  <2>1. written' \in [InstanceId -> [Image -> Set]]
    BY DEF FreshSets, IInv, TypeOK, Set, NewSet
  <2> QED  BY <1>2, <2>1, AcquireTextureType DEF IInv, TypeOK
<1>4. IdsHeld'
  <2>1. {instance'[n] : n \in Material} \ {NoId} = ({instance[n] : n \in Material} \ {NoId}) \cup {i}
    BY <1>2, Constants DEF IInv, TypeOK
  <2>2. leaked' = leaked /\ i \notin leaked  BY <1>1, <1>2 DEF IInv, TypeOK
  <2>3. \A j \in InstanceId : offset'[j] # NoRange <=> j \in taken'
    BY <1>1, Constants DEF IInv, TypeOK, IdsHeld
  <2>4. /\ taken = ({instance[n] : n \in Material} \ {NoId}) \cup leaked
        /\ ({instance[n] : n \in Material} \ {NoId}) \cap leaked = {}
        /\ sets = {instance[n] : n \in Material} \ {NoId}
    BY DEF IInv, IdsHeld
  <2> QED  BY <2>1, <2>2, <2>3, <2>4 DEF IdsHeld
<1>5. RangesApart'
  BY <1>1 DEF IInv, RangesApart, TypeOK
<1>6. RangesWritten'
  BY <1>1 DEF IInv, RangesWritten, TypeOK, FreshSets, NewSet
<1>7. InstanceAlone'
  <2>1. \A n \in Material : instance[n] # i
    BY <1>1, Constants DEF IInv, IdsHeld
  <2> QED  BY <2>1, Constants DEF IInv, InstanceAlone, TypeOK
<1>8. Counted'
  BY <1>2, CountedAcquire DEF IInv
<1>9. BoundInv' /\ DrawsCurrent' /\ BoundSynced' /\ NeverRewritten'
  BY <1>2 DEF IInv, BoundInv, DrawsCurrent, BoundSynced, NeverRewritten
<1>10. ReadsAlive'
  <2>1. bound' = {}  BY <1>2 DEF IInv, BoundInv
  <2>2. ASSUME NEW b \in pending, NEW j \in b.bound PROVE Alive(j, b.image)'
    <3>1. Alive(j, b.image) /\ j \in sets /\ j # i /\ j \in InstanceId
      BY <1>1 DEF IInv, ReadsAlive, Alive, TypeOK
    <3>2. written'[j] = written[j] /\ offset'[j] = offset[j]
      BY <3>1 DEF FreshSets, IInv, TypeOK
    <3>3. \A t \in Texture : image[t] = "here" => image'[t] = "here"
      BY <1>2 DEF AcquireTexture, IInv, TypeOK
    <3> QED  BY <3>1, <3>2, <3>3 DEF Alive
  <2> QED  BY <1>2, <2>1, <2>2 DEF ReadsAlive
<1> QED  BY <1>3, <1>4, <1>5, <1>6, <1>7, <1>8, <1>9, <1>10 DEF IInv

\* A load that fails for want of sets.
LEMMA AcquireNoSetsInv ==
  ASSUME IInv, NEW m \in Material, AcquireNoSets(m) PROVE IInv'
<1> PICK i \in InstanceId, r \in InstanceId :
      /\ FirstFree(i) /\ FirstRange(r)
      /\ taken' = taken \cup {i} /\ leaked' = leaked \cup {i}
      /\ offset' = [offset EXCEPT ![i] = r]
  BY DEF AcquireNoSets
<1>1. /\ i \notin taken /\ \A j \in taken : offset[j] # r
  BY DEF FirstFree, FirstRange, Least
<1>2. /\ pc = "update" /\ instance[m] = NoId /\ AcquireTexture(TextureOf[m]) /\ Loads(m)
      /\ UNCHANGED <<pc, frame, index, synced, bound, pending, instance, sets, written, rewritten>>
  BY DEF AcquireNoSets, Loads, recording
<1>3. TypeOK'
  BY <1>2, AcquireTextureType DEF IInv, TypeOK
<1>4. IdsHeld'
  <2>1. \A j \in InstanceId : offset'[j] # NoRange <=> j \in taken'
    BY <1>1, Constants DEF IInv, TypeOK, IdsHeld
  <2>2. /\ taken = ({instance[n] : n \in Material} \ {NoId}) \cup leaked
        /\ ({instance[n] : n \in Material} \ {NoId}) \cap leaked = {}
        /\ sets = {instance[n] : n \in Material} \ {NoId}
    BY DEF IInv, IdsHeld
  <2> QED  BY <1>1, <1>2, <2>1, <2>2 DEF IdsHeld
<1>5. RangesApart'
  BY <1>1 DEF IInv, RangesApart, TypeOK
<1>6. RangesWritten'
  BY <1>1, <1>2 DEF IInv, RangesWritten, TypeOK
<1>7. InstanceAlone' /\ BoundInv' /\ DrawsCurrent' /\ BoundSynced' /\ NeverRewritten'
  BY <1>2 DEF IInv, InstanceAlone, BoundInv, DrawsCurrent, BoundSynced, NeverRewritten
<1>8. Counted'
  BY <1>2, CountedAcquire DEF IInv
<1>9. ReadsAlive'
  <2>1. bound' = {}  BY <1>2 DEF IInv, BoundInv
  <2>2. ASSUME NEW b \in pending, NEW j \in b.bound PROVE Alive(j, b.image)'
    <3>1. Alive(j, b.image) /\ j \in sets /\ j # i /\ j \in InstanceId
      BY <1>1 DEF IInv, ReadsAlive, Alive, TypeOK
    <3>2. written' = written /\ sets' = sets /\ offset'[j] = offset[j]
      BY <1>2, <3>1 DEF IInv, TypeOK
    <3>3. \A t \in Texture : image[t] = "here" => image'[t] = "here"
      BY <1>2 DEF AcquireTexture, IInv, TypeOK
    <3> QED  BY <3>1, <3>2, <3>3 DEF Alive
  <2> QED  BY <1>2, <2>1, <2>2 DEF ReadsAlive
<1> QED  BY <1>3, <1>4, <1>5, <1>6, <1>7, <1>8, <1>9 DEF IInv

LEMMA AcquireNoIdInv ==
  ASSUME IInv, NEW m \in Material, AcquireNoId(m) PROVE IInv'
<1>1. /\ pc = "update" /\ instance[m] = NoId /\ AcquireTexture(TextureOf[m]) /\ Loads(m)
      /\ UNCHANGED <<pc, frame, index, synced, bound, pending, leaked, rewritten, instance, taken, offset, sets, written>>
  BY DEF AcquireNoId, Loads, recording, instances, history
<1>2. TypeOK'
  BY <1>1, AcquireTextureType DEF IInv, TypeOK
<1>3. /\ IdsHeld' /\ RangesApart' /\ RangesWritten' /\ InstanceAlone'
      /\ BoundInv' /\ DrawsCurrent' /\ BoundSynced' /\ NeverRewritten'
  BY <1>1 DEF IInv, IdsHeld, RangesApart, RangesWritten, InstanceAlone, BoundInv, DrawsCurrent,
         BoundSynced, NeverRewritten
<1>4. Counted'
  BY <1>1, CountedAcquire DEF IInv
<1>5. ReadsAlive'
  <2>1. \A t \in Texture : image[t] = "here" => image'[t] = "here"
    BY <1>1 DEF AcquireTexture, IInv, TypeOK
  <2> QED  BY <1>1, <2>1 DEF IInv, ReadsAlive, Alive
<1> QED  BY <1>2, <1>3, <1>4, <1>5 DEF IInv

-----------------------------------------------------------------------------
\* The material was one user of its texture, which had a reference for it.
LEMMA UserCounted ==
  ASSUME TypeOK, Counted, NEW m \in Material, instance[m] # NoId
  PROVE  LET t == TextureOf[m] IN
         /\ t \in Texture /\ m \in Users(t) /\ count[t] > 0 /\ image[t] # "none"
         /\ count[t] = 1 => Users(t) = {m}
<1> DEFINE t == TextureOf[m]
<1>1. t \in Texture /\ m \in Users(t)  BY Constants DEF Users
<1>2. IsFiniteSet(Users(t)) /\ Cardinality(Users(t)) \in Nat  BY UsersFinite
<1>3. Cardinality(Users(t)) # 0  BY <1>1, <1>2, FS_EmptySet
<1>4. count[t] \in Nat /\ Cardinality(Users(t)) <= count[t]  BY <1>1, Constants DEF Counted, TypeOK
<1>5. count[t] > 0  BY <1>2, <1>3, <1>4
<1>6. image[t] # "none"  BY <1>1 DEF Counted
<1>7. ASSUME count[t] = 1 PROVE Users(t) = {m}
  <2>1. Cardinality(Users(t)) = 1  BY <1>2, <1>3, <1>4, <1>7
  <2>2. \E x : Users(t) = {x}  BY <1>2, <2>1, FS_Singleton
  <2> QED  BY <1>1, <2>2
<1> QED  BY <1>1, <1>5, <1>6, <1>7

\* A release gives back one reference, or none while the texture is loading.
LEMMA CountedRelease ==
  ASSUME TypeOK, Counted, NEW m \in Material, instance[m] # NoId, ReleaseTexture(TextureOf[m]),
         instance' = [instance EXCEPT ![m] = NoId]
  PROVE  Counted'
<1> SUFFICES ASSUME NEW t \in Texture
             PROVE  /\ Cardinality(Users(t)') <= count'[t]
                    /\ image'[t] = "none" => Users(t)' = {}
  BY DEF Counted
<1>1. IsFiniteSet(Users(t)) /\ Cardinality(Users(t)) \in Nat  BY UsersFinite
<1>2. CASE t = TextureOf[m]
  <2>1. Users(t)' = Users(t) \ {m}
    BY <1>2, Constants DEF Users, TypeOK
  <2>2. m \in Users(t) /\ count[t] > 0 /\ image[t] # "none" /\ (count[t] = 1 => Users(t) = {m})
    BY <1>2, UserCounted
  <2>3. Cardinality(Users(t)') = Cardinality(Users(t)) - 1
    BY <1>1, <2>1, <2>2, FS_RemoveElement
  <2>4. count'[t] \in {count[t], count[t] - 1}
    BY <1>2 DEF ReleaseTexture, TypeOK
  <2>5. Cardinality(Users(t)') <= count'[t]
    BY <1>1, <2>3, <2>4, Constants DEF Counted, TypeOK
  <2>6. ASSUME image'[t] = "none" PROVE Users(t)' = {}
    <3>1. count[t] = 1  BY <1>2, <2>2, <2>6 DEF ReleaseTexture, Last, TypeOK
    <3> QED  BY <2>1, <2>2, <3>1
  <2> QED  BY <2>5, <2>6
<1>3. CASE t # TextureOf[m]
  <2>1. Users(t)' = Users(t)  BY <1>3 DEF Users, TypeOK
  <2>2. count'[t] = count[t] /\ image'[t] = image[t]
    BY <1>3 DEF ReleaseTexture, TypeOK
  <2> QED  BY <2>1, <2>2 DEF Counted
<1> QED  BY <1>2, <1>3

\* A release waits until nothing is read, so that what goes is not missed.
LEMMA ReleaseInv ==
  ASSUME IInv, NEW m \in Material, Release(m) PROVE IInv'
<1> DEFINE i == instance[m]
<1>1. /\ pc = "update" /\ i # NoId /\ pending = {} /\ ReleaseTexture(TextureOf[m])
      /\ taken' = taken \ {i} /\ sets' = sets \ {i} /\ written' = Destroyed(TextureOf[m], i)
      /\ offset' = [offset EXCEPT ![i] = NoRange]
      /\ instance' = [instance EXCEPT ![m] = NoId] /\ synced' = synced \ {m}
      /\ UNCHANGED <<pc, frame, index, bound, pending, leaked, rewritten>>
  BY DEF Release, Idle, history
<1>2. /\ i \in InstanceId /\ i \in taken /\ i \in sets /\ i \notin leaked
      /\ \A n \in Material : n # m => instance[n] # i
  BY <1>1 DEF IInv, TypeOK, IdsHeld, InstanceAlone
<1>3. bound = {}  BY <1>1 DEF IInv, BoundInv
<1>4. TypeOK'
  <2>1. written' \in [InstanceId -> [Image -> Set]]
    <3>1. ASSUME NEW j \in InstanceId, NEW k \in Image PROVE written'[j][k] \in Set
      <4>1. written[j][k] \in Set  BY DEF IInv, TypeOK
      <4>2. written'[j][k] = [view |-> IF j = i THEN NoView
                                       ELSE IF Last(TextureOf[m]) /\ written[j][k].view = TextureOf[m] THEN Gone
                                       ELSE written[j][k].view,
                              range |-> written[j][k].range]
        BY <1>1 DEF Destroyed
      <4> QED  BY <4>1, <4>2 DEF Set
    <3> QED  BY <1>1, <3>1 DEF Destroyed
  <2>2. count' \in [Texture -> 0 .. MaxCount]
    <3>1. count[TextureOf[m]] > 0  BY <1>1, UserCounted DEF IInv
    <3> QED  BY <1>1, <3>1, Constants DEF ReleaseTexture, IInv, TypeOK
  <2>3. image' \in [Texture -> {"none", "coming", "here"}]
    BY <1>1 DEF ReleaseTexture, IInv, TypeOK
  <2>4. leaked' \subseteq taken' /\ sets' \subseteq taken' /\ taken' \subseteq InstanceId /\ bound' \subseteq sets'
    BY <1>1, <1>2, <1>3 DEF IInv, TypeOK
  <2>5. /\ instance' \in [Material -> InstanceId \cup {NoId}]
        /\ offset' \in [InstanceId -> InstanceId \cup {NoRange}]
        /\ synced' \subseteq Material
    BY <1>1 DEF IInv, TypeOK
  <2> QED  BY <1>1, <2>1, <2>2, <2>3, <2>4, <2>5 DEF IInv, TypeOK
<1>5. IdsHeld'
  <2>1. {instance'[n] : n \in Material} \ {NoId} = ({instance[n] : n \in Material} \ {NoId}) \ {i}
    BY <1>1, <1>2, Constants DEF IInv, TypeOK
  <2>2. \A j \in InstanceId : offset'[j] # NoRange <=> j \in taken'
    BY <1>1, <1>2 DEF IInv, TypeOK, IdsHeld
  <2>3. /\ taken = ({instance[n] : n \in Material} \ {NoId}) \cup leaked
        /\ ({instance[n] : n \in Material} \ {NoId}) \cap leaked = {}
        /\ sets = {instance[n] : n \in Material} \ {NoId}
    BY DEF IInv, IdsHeld
  <2> QED  BY <1>1, <1>2, <2>1, <2>2, <2>3 DEF IdsHeld
<1>6. RangesApart'
  BY <1>1 DEF IInv, RangesApart, TypeOK
<1>7. RangesWritten'
  <2>1. ASSUME NEW j \in sets', NEW k \in Image PROVE written'[j][k].range \in {NoRange, offset'[j]}
    <3>1. j \in sets /\ j # i /\ j \in InstanceId  BY <1>1 DEF IInv, TypeOK
    <3>2. written'[j][k].range = written[j][k].range  BY <1>1, <3>1 DEF Destroyed
    <3>3. offset'[j] = offset[j]  BY <1>1, <3>1 DEF IInv, TypeOK
    <3> QED  BY <3>1, <3>2, <3>3 DEF IInv, RangesWritten
  <2> QED  BY <2>1 DEF RangesWritten
<1>8. InstanceAlone'
  BY <1>1, Constants DEF IInv, InstanceAlone, TypeOK
<1>9. Counted'
  BY <1>1, CountedRelease DEF IInv
<1>10. BoundInv' /\ DrawsCurrent' /\ BoundSynced' /\ NeverRewritten' /\ ReadsAlive'
  BY <1>1, <1>3 DEF IInv, BoundInv, DrawsCurrent, BoundSynced, NeverRewritten, ReadsAlive
<1> QED  BY <1>4, <1>5, <1>6, <1>7, <1>8, <1>9, <1>10 DEF IInv

LEMMA ArriveInv ==
  ASSUME IInv, NEW t \in Texture, Arrive(t) PROVE IInv'
<1>1. /\ pc = "update" /\ pending = {} /\ image[t] = "coming" /\ image' = [image EXCEPT ![t] = "here"]
      /\ UNCHANGED <<instance, taken, offset, sets, written, count, pc, frame, index, synced, bound,
                     pending, leaked, rewritten>>
  BY DEF Arrive, Idle, instances, recording, history
<1>2. TypeOK'  BY <1>1 DEF IInv, TypeOK
<1>3. Counted'  BY <1>1, CountedSame DEF IInv, TypeOK
<1>4. BoundInv' /\ DrawsCurrent' /\ BoundSynced' /\ NeverRewritten' /\ ReadsAlive'
  BY <1>1 DEF IInv, BoundInv, DrawsCurrent, BoundSynced, NeverRewritten, ReadsAlive
<1>5. IdsHeld' /\ RangesApart' /\ RangesWritten' /\ InstanceAlone'
  BY <1>1 DEF IInv, IdsHeld, RangesApart, RangesWritten, InstanceAlone
<1> QED  BY <1>2, <1>3, <1>4, <1>5 DEF IInv

\* A frame begins with nothing drawn.
LEMMA BeginInv ==
  ASSUME IInv, Begin PROVE IInv'
<1>1. /\ pc' = "record" /\ index' \in Image /\ bound' = {} /\ synced' = {}
      /\ UNCHANGED <<instance, taken, offset, sets, written, image, count, frame, pending, leaked, rewritten>>
  BY DEF Begin, instances, textures, history
<1>2. TypeOK'  BY <1>1 DEF IInv, TypeOK
<1>3. Counted'  BY <1>1, CountedSame DEF IInv, TypeOK
<1>4. ReadsAlive'
  BY <1>1 DEF IInv, ReadsAlive, Alive
<1>5. BoundInv' /\ DrawsCurrent' /\ BoundSynced' /\ NeverRewritten'
  BY <1>1 DEF IInv, BoundInv, DrawsCurrent, BoundSynced, NeverRewritten
<1>6. IdsHeld' /\ RangesApart' /\ RangesWritten' /\ InstanceAlone'
  BY <1>1 DEF IInv, IdsHeld, RangesApart, RangesWritten, InstanceAlone
<1> QED  BY <1>2, <1>3, <1>4, <1>5, <1>6 DEF IInv

\* A draw writes the set of its own instance, and only when that is not bound.
LEMMA DrawInv ==
  ASSUME IInv, NEW m \in Material, Draw(m) PROVE IInv'
<1> DEFINE i == instance[m]
           u == Updated(i, TextureOf[m])
<1>1. /\ pc = "record" /\ i # NoId
      /\ written' = IF m \in synced THEN written ELSE u
      /\ rewritten' = IF m \in synced THEN rewritten ELSE rewritten \cup ({i} \cap bound)
      /\ synced' = synced \cup {m} /\ bound' = bound \cup {i}
      /\ UNCHANGED <<instance, taken, offset, sets, image, count, pc, frame, index, pending, leaked>>
  BY DEF Draw, Write, textures
<1>2. i \in InstanceId /\ i \in sets /\ index \in Image /\ TextureOf[m] \in Texture /\ offset[i] \in InstanceId
  BY <1>1, Constants DEF IInv, TypeOK, IdsHeld
<1>3. /\ u \in [InstanceId -> [Image -> Set]]
      /\ \A j \in InstanceId, k \in Image : <<j, k>> # <<i, index>> => u[j][k] = written[j][k]
      /\ u[i][index].view = Shown(TextureOf[m])
      /\ u[i][index].range = IF written[i][index].range = NoRange THEN offset[i]
                                                                 ELSE written[i][index].range
  BY <1>2 DEF Updated, Shown, Set, IInv, TypeOK
<1>4. u[i][index].range = offset[i]
  BY <1>2, <1>3 DEF IInv, RangesWritten
<1>5. TypeOK'
  BY <1>1, <1>2, <1>3 DEF IInv, TypeOK
<1>6. IdsHeld' /\ RangesApart' /\ InstanceAlone'
  BY <1>1 DEF IInv, IdsHeld, RangesApart, InstanceAlone
<1>7. Counted'
  BY <1>1, CountedSame DEF IInv
<1>8. RangesWritten'
  BY <1>1, <1>2, <1>3, <1>4 DEF IInv, RangesWritten, TypeOK
<1>9. BoundInv' /\ BoundSynced'
  BY <1>1 DEF IInv, BoundInv, BoundSynced
<1>10. NeverRewritten'
  <2>1. CASE m \in synced  BY <1>1, <2>1 DEF IInv, NeverRewritten
  <2>2. CASE m \notin synced
    <3>1. \A n \in synced : instance[n] # i
      BY <1>1, <2>2 DEF IInv, InstanceAlone, TypeOK
    <3>2. i \notin bound  BY <1>1, <3>1 DEF IInv, BoundSynced
    <3> QED  BY <1>1, <2>2, <3>2 DEF IInv, NeverRewritten
  <2> QED  BY <2>1, <2>2
<1>11. ASSUME NEW j, NEW k \in Image, Alive(j, k) PROVE Alive(j, k)'
  <2>1. j \in InstanceId  BY <1>11 DEF Alive, IInv, TypeOK
  <2>2. CASE m \in synced \/ <<j, k>> # <<i, index>>
    BY <1>1, <1>3, <1>11, <2>1, <2>2 DEF Alive
  <2>3. CASE m \notin synced /\ j = i /\ k = index
    BY <1>1, <1>2, <1>3, <1>4, <2>3 DEF Alive, Shown
  <2> QED  BY <2>2, <2>3
<1>12. Alive(i, index)'
  <2>1. CASE m \in synced
    <3>1. i \in bound  BY <1>1, <2>1 DEF IInv, BoundSynced
    <3>2. Alive(i, index)  BY <3>1 DEF IInv, ReadsAlive
    <3> QED  BY <1>1, <1>2, <2>1, <3>2 DEF Alive
  <2>2. CASE m \notin synced
    BY <1>1, <1>2, <1>3, <1>4, <2>2 DEF Alive, Shown
  <2> QED  BY <2>1, <2>2
<1>13. ReadsAlive'
  <2>1. \A b \in pending : b.image \in Image  BY DEF IInv, TypeOK
  <2> QED  BY <1>1, <1>2, <1>11, <1>12, <2>1 DEF IInv, ReadsAlive
<1>14. DrawsCurrent'
  <2> SUFFICES ASSUME NEW n \in synced'
               PROVE  written'[instance[n]][index].view = Shown(TextureOf[n])
    BY <1>1 DEF DrawsCurrent, Shown
  <2>1. CASE n \in synced
    <3>1. written[instance[n]][index].view = Shown(TextureOf[n])
      BY <1>1, <2>1 DEF IInv, DrawsCurrent
    <3>2. instance[n] \in InstanceId /\ n \in Material
      BY <1>1, <2>1 DEF IInv, BoundSynced, TypeOK
    <3>3. CASE m \in synced  BY <1>1, <3>1, <3>3
    <3>4. CASE m \notin synced
      <4>1. instance[n] # i
        BY <1>1, <2>1, <3>2, <3>4 DEF IInv, InstanceAlone
      <4> QED  BY <1>1, <1>2, <1>3, <3>1, <3>2, <3>4, <4>1
    <3> QED  BY <3>3, <3>4
  <2>2. CASE n \notin synced
    BY <1>1, <1>3, <2>2
  <2> QED  BY <2>1, <2>2
<1> QED  BY <1>5, <1>6, <1>7, <1>8, <1>9, <1>10, <1>13, <1>14 DEF IInv

LEMMA SubmitInv ==
  ASSUME IInv, Submit PROVE IInv'
<1>1. /\ pc = "record" /\ pc' = "update" /\ bound' = {} /\ frame' = 1 - frame
      /\ pending' = pending \cup {[frame |-> frame, image |-> index, bound |-> bound]}
      /\ UNCHANGED <<instance, taken, offset, sets, written, image, count, index, synced, leaked, rewritten>>
  BY DEF Submit, instances, textures, history
<1>2. TypeOK'
  BY <1>1 DEF IInv, TypeOK, Frame
<1>3. Counted'  BY <1>1, CountedSame DEF IInv
<1>4. ReadsAlive'
  BY <1>1 DEF IInv, ReadsAlive, Alive
<1>5. BoundInv' /\ DrawsCurrent' /\ BoundSynced' /\ NeverRewritten'
  BY <1>1 DEF IInv, BoundInv, DrawsCurrent, BoundSynced, NeverRewritten
<1>6. IdsHeld' /\ RangesApart' /\ RangesWritten' /\ InstanceAlone'
  BY <1>1 DEF IInv, IdsHeld, RangesApart, RangesWritten, InstanceAlone
<1> QED  BY <1>2, <1>3, <1>4, <1>5, <1>6 DEF IInv

\* A frame that is given up, and one that the GPU has finished.
LEMMA EndInv ==
  ASSUME IInv, ViewFails \/ \E b \in pending : Execute(b) PROVE IInv'
<1>1. /\ \/ pc' = "update" /\ bound' = {} /\ UNCHANGED pending
         \/ pending' \subseteq pending /\ UNCHANGED <<pc, bound>>
      /\ UNCHANGED <<instance, taken, offset, sets, written, image, count, frame, index, synced, leaked, rewritten>>
  BY DEF ViewFails, Execute, instances, textures, recording, history
<1>2. TypeOK'  BY <1>1 DEF IInv, TypeOK
<1>3. Counted'  BY <1>1, CountedSame DEF IInv
<1>4. ReadsAlive'
  BY <1>1 DEF IInv, ReadsAlive, Alive
<1>5. BoundInv' /\ DrawsCurrent' /\ BoundSynced' /\ NeverRewritten'
  BY <1>1 DEF IInv, BoundInv, DrawsCurrent, BoundSynced, NeverRewritten, Shown
<1>6. IdsHeld' /\ RangesApart' /\ RangesWritten' /\ InstanceAlone'
  BY <1>1 DEF IInv, IdsHeld, RangesApart, RangesWritten, InstanceAlone
<1> QED  BY <1>2, <1>3, <1>4, <1>5, <1>6 DEF IInv

LEMMA NextInv == IInv /\ [Next]_vars => IInv'
<1> SUFFICES ASSUME IInv, [Next]_vars PROVE IInv'
  OBVIOUS
<1>1. ASSUME NEW m \in Material, Acquire(m) \/ AcquireNoSets(m) \/ AcquireNoId(m) PROVE IInv'
  BY <1>1, AcquireInv, AcquireNoSetsInv, AcquireNoIdInv
<1>2. ASSUME NEW m \in Material, Release(m) \/ Draw(m) PROVE IInv'
  BY <1>2, ReleaseInv, DrawInv
<1>3. ASSUME NEW t \in Texture, Arrive(t) PROVE IInv'
  BY <1>3, ArriveInv
<1>4. CASE Begin  BY <1>4, BeginInv
<1>5. CASE Submit  BY <1>5, SubmitInv
<1>6. CASE ViewFails \/ \E b \in pending : Execute(b)  BY <1>6, EndInv
<1>7. CASE UNCHANGED vars
  <2>1. Counted'
    BY <1>7, CountedSame DEF IInv, vars, instances, textures
  <2> QED
    BY <1>7, <2>1 DEF vars, instances, textures, recording, history, IInv, TypeOK, IdsHeld, RangesApart,
         RangesWritten, InstanceAlone, BoundInv, ReadsAlive, Alive, DrawsCurrent, Shown,
         BoundSynced, NeverRewritten
<1> QED  BY <1>1, <1>2, <1>3, <1>4, <1>5, <1>6, <1>7 DEF Next

LEMMA Invariance == Spec => []IInv
BY InitInv, NextInv, PTL DEF Spec

-----------------------------------------------------------------------------
\* The shape of the state, with bound and synced within what they speak of.
THEOREM TypesHold == Spec => []TypeOK
<1>1. IInv => TypeOK  BY DEF IInv
<1> QED  BY <1>1, Invariance, PTL

\* Nothing is freed under the GPU (shader_instance_resources_release,
\* texture_destroy), and no set leads to another instance's range.
THEOREM NothingFreedUnderTheGPU == Spec => []ReadsAlive
<1>1. IInv => ReadsAlive  BY DEF IInv
<1> QED  BY <1>1, Invariance, PTL

\* shader_apply_instance with needs_update: what is drawn is the texture of the
\* material at that time.
THEOREM DrawnAsItIs == Spec => []DrawsCurrent
<1>1. IInv => DrawsCurrent  BY DEF IInv
<1> QED  BY <1>1, Invariance, PTL

\* render_view_world_on_render with render_frame_number: a set is never written
\* again in the buffer that has it bound, so that the buffer stays valid.
THEOREM SetsWrittenOnce == Spec => []NeverRewritten
<1>1. IInv => NeverRewritten  BY DEF IInv
<1> QED  BY <1>1, Invariance, PTL

\* shader_instance_resources_acquire gives out an id and a range only once.
THEOREM InstancesNotShared == Spec => []InstancesApart
<1>1. IInv => InstancesApart
  BY Constants DEF IInv, InstancesApart, InstanceAlone, RangesApart, IdsHeld, TypeOK
<1> QED  BY <1>1, Invariance, PTL

\* The ids in use are those of materials and of loads that failed.
THEOREM IdsAccounted == Spec => []IdsHeld
<1>1. IInv => IdsHeld  BY DEF IInv
<1> QED  BY <1>1, Invariance, PTL

\* texture_system_release keeps a texture that a material with an instance has.
THEOREM TexturesKept == Spec => []TextureHeld
<1>1. IInv => TextureHeld
  BY UserCounted DEF IInv, TextureHeld
<1> QED  BY <1>1, Invariance, PTL

\* What an instance has is its own.
THEOREM InstancesStayOwned == Spec => []InstancesOwned
  BY InstancesNotShared, IdsAccounted, TexturesKept, PTL DEF InstancesOwned
=============================================================================
