------------------------ MODULE MemorySystemProofs ------------------------
(***************************************************************************)
(* For any threads, pools, requests and addresses: a header survives until *)
(* its block is freed, blocks share no byte, and what a pool has given out *)
(* is somebody's; and the statistics are the sizes in the headers, but for *)
(* the calls between their two steps.                                      *)
(*                                                                         *)
(* What has to be added to make this inductive: a block is known by its    *)
(* address and is one caller's or one thread's, the places of two blocks   *)
(* of a pool are apart, a place is inside of its pool, and a block of no   *)
(* pool is the platform's.                                                 *)
(***************************************************************************)
EXTENDS MemorySystem, FiniteSetTheorems, TLAPS

Holding == {"report", "zero", "release"}
Holds(t) == pc[t] \in Holding /\ call[t].block # Null
Mine(t) == [block |-> call[t].block, request |-> call[t].request]
PoolFor(b) == PoolOf(b.request.size)

\* The locals of a call are what its place says.
CallInv ==
  \A t \in Thread :
    /\ pc[t] \in {"idle", "reserve"} => call[t].block = Null
    /\ pc[t] \in {"reserve", "relock", "report", "zero", "release"} => call[t].request \in Request
    /\ pc[t] = "release" => call[t].block # Null

\* A block has one owner, a caller or a thread in a call.
OwnInv ==
  /\ \A b, c \in Blocks : b.block = c.block => b = c
  /\ \A t \in Thread : Holds(t) => Mine(t) \notin live
  /\ \A t, u \in Thread : Holds(t) /\ Holds(u) /\ t # u => call[t].block # call[u].block

PlatformInv == \A b \in Blocks : ~InPool(b) => b.block \in platform

\* The places of two blocks of one pool are apart, and inside of the pool.
ApartInv ==
  /\ \A b, c \in Blocks : InPool(b) /\ InPool(c) /\ b # c /\ PoolFor(b) = PoolFor(c)
                            => Apart(PlaceOf(b), PlaceOf(c))
  /\ \A p \in Pool : \A r \in reserved[p] : r.offset + r.size <= PoolSize[p]

\* Before memory_system_init there is only the platform.
EarlyInv == ~up => /\ \A p \in Pool : reserved[p] = {}
                   /\ \A t \in Thread : pc[t] = "idle"

IInv == /\ TypeOK /\ CallInv /\ OwnInv /\ PlatformInv /\ HeaderIntact /\ ApartInv /\ NothingLost
        /\ EarlyInv

-----------------------------------------------------------------------------
(***************************************************************************)
(* The statistics.  A header in memory is that of a block somebody has, so *)
(* what is counted is what the calls have reported; a call that frees      *)
(* measures nothing until it has found the header.                         *)
(***************************************************************************)
Somebodys(x) == \/ \E l \in live : l.block = x
                \/ \E t \in Thread : Holds(t) /\ call[t].block = x

OwnedInv ==
  /\ IsFiniteSet(DOMAIN header)
  /\ \A h \in DOMAIN header : /\ Somebodys(h + HeaderBytes)
                              /\ \E p \in Pool : Within(p, h + HeaderBytes)
  /\ ~up => DOMAIN header = {}

StrayInv == \A t \in Thread : pc[t] = "release" => call[t].tag = Stray

BInv == IInv /\ OwnedInv /\ StrayInv /\ StatsBalance

-----------------------------------------------------------------------------
(***************************************************************************)
(* Sums over finite sets.  The library's fold picks the elements of a set  *)
(* one after the other; that its value does not depend on which it picks   *)
(* is shown here, from the smallest set that would be an exception.        *)
(***************************************************************************)
LEMMA Smallest ==
  ASSUME NEW C, C # {}, \A U \in C : IsFiniteSet(U)
  PROVE  \E U \in C : \A V \in C : V \subseteq U => V = U
<1> DEFINE W == UNION C
<1>1. C \subseteq FiniteSubsetsOf(W)
  BY DEF FiniteSubsetsOf
<1>2. IsWellFoundedOn(StrictSubsetOrdering(W), FiniteSubsetsOf(W))
  BY FS_StrictSubsetOrderingWellFounded
<1>3. \A U \in C : U \subseteq W
  OBVIOUS
<1> HIDE DEF W
<1>4. PICK U \in C : \A V \in C : <<V, U>> \notin StrictSubsetOrdering(W)
  BY <1>1, <1>2, WFMin
<1>5. ASSUME NEW V \in C, V \subseteq U, V # U PROVE FALSE
  <2>1. <<V, U>> \in StrictSubsetOrdering(W)
    BY <1>3, <1>5 DEF StrictSubsetOrdering
  <2> QED  BY <1>4, <2>1
<1> QED  BY <1>5

Some(U) == CHOOSE x \in U : TRUE

\* g is a fold that adds up f over the subsets of S.
IsFold(f, S, g) ==
  g = [U \in SUBSET S |-> IF U = {} THEN 0 ELSE f[Some(U)] + g[U \ {Some(U)}]]

LEMMA SomeIsIn == \A U : U # {} => Some(U) \in U
  BY DEF Some

LEMMA FoldEmpty ==
  ASSUME NEW w, NEW D, NEW it, IsFold(w, D, it)
  PROVE  it[{}] = 0
<1>1. \A U \in SUBSET D : it[U] = IF U = {} THEN 0 ELSE w[Some(U)] + it[U \ {Some(U)}]
  BY DEF IsFold
<1> QED  BY <1>1

\* Where the numbers are the same, so are the folds.
LEMMA FoldsAgree ==
  ASSUME NEW S, NEW T, NEW f, NEW g, NEW h, NEW k, IsFold(f, S, h), IsFold(g, T, k),
         NEW U, IsFiniteSet(U), U \subseteq S, U \subseteq T, \A x \in U : f[x] = g[x]
  PROVE  h[U] = k[U]
<1> DEFINE C == {V \in SUBSET U : h[V] # k[V]}
<1> SUFFICES ASSUME C # {} PROVE FALSE
  OBVIOUS
<1>1. \A V \in C : IsFiniteSet(V)
  BY FS_Subset
<1>2. PICK V \in C : \A W \in C : W \subseteq V => W = V
  <2> HIDE DEF C
  <2> QED  BY <1>1, Smallest
<1>3. V # {}
  BY FoldEmpty
<1>4. Some(V) \in V /\ Some(V) \in U
  BY <1>3, SomeIsIn
<1>5. h[V \ {Some(V)}] = k[V \ {Some(V)}]
  BY <1>2, <1>4
<1>6. h[V] = f[Some(V)] + h[V \ {Some(V)}] /\ k[V] = g[Some(V)] + k[V \ {Some(V)}]
  <2>1. V \in SUBSET S /\ V \in SUBSET T
    BY <1>2
  <2> HIDE DEF C
  <2>2. h[V] = f[Some(V)] + h[V \ {Some(V)}]
    BY <1>3, <2>1 DEF IsFold
  <2>3. k[V] = g[Some(V)] + k[V \ {Some(V)}]
    BY <1>3, <2>1 DEF IsFold
  <2> QED  BY <2>2, <2>3
<1>7. h[V] = k[V]
  BY <1>4, <1>5, <1>6
<1> QED  BY <1>2, <1>7

\* There is such a fold.
LEMMA FoldExists ==
  ASSUME NEW f, NEW S, IsFiniteSet(S)
  PROVE  \E g : IsFold(f, S, g)
<1> DEFINE C == {V \in SUBSET S : ~\E g : IsFold(f, V, g)}
<1> SUFFICES ASSUME C # {} PROVE FALSE
  OBVIOUS
<1>1. \A V \in C : IsFiniteSet(V)
  BY FS_Subset
<1>2. PICK V \in C : \A W \in C : W \subseteq V => W = V
  <2> HIDE DEF C
  <2> QED  BY <1>1, Smallest
<1> DEFINE fold(W) == CHOOSE g : IsFold(f, W, g)
           val(W) == fold(W)[W]
           all == [W \in SUBSET V |-> IF W = {} THEN 0 ELSE f[Some(W)] + val(W \ {Some(W)})]
<1>3. ASSUME NEW W, W \subseteq V, W # V PROVE IsFold(f, W, fold(W))
  BY <1>2, <1>3
<1>4. ASSUME NEW W, W \subseteq V, W # V PROVE all[W] = val(W)
  <2>1. CASE W = {}
    <3>1. IsFold(f, W, fold(W))
      BY <1>3, <1>4
    <3> HIDE DEF fold
    <3> QED  BY <2>1, <3>1, FoldEmpty
  <2>2. CASE W # {}
    <3> DEFINE X == W \ {Some(W)}
    <3>1. Some(W) \in W /\ X \subseteq W /\ X \subseteq V /\ X # V
      BY <1>4, <2>2, SomeIsIn
    <3>2. IsFold(f, W, fold(W)) /\ IsFold(f, X, fold(X))
      BY <1>3, <1>4, <3>1
    <3>3. IsFiniteSet(X)
      BY <3>1, FS_Subset
    <3> HIDE DEF fold
    <3>4. fold(W)[X] = fold(X)[X]
      BY <3>1, <3>2, <3>3, FoldsAgree
    <3>5. fold(W)[W] = f[Some(W)] + fold(W)[X]
      BY <2>2, <3>2 DEF IsFold
    <3>6. all[W] = f[Some(W)] + val(X)
      BY <1>4, <2>2
    <3> QED  BY <3>4, <3>5, <3>6
  <2> QED  BY <2>1, <2>2
<1> HIDE DEF val
<1>5. ASSUME NEW W \in SUBSET V, W # {} PROVE val(W \ {Some(W)}) = all[W \ {Some(W)}]
  <2>1. Some(W) \in W
    BY <1>5, SomeIsIn
  <2> QED  BY <1>4, <1>5, <2>1
<1>6. all = [W \in SUBSET V |-> IF W = {} THEN 0 ELSE f[Some(W)] + all[W \ {Some(W)}]]
  BY <1>5
<1> HIDE DEF all
<1>7. IsFold(f, V, all)
  BY <1>6 DEF IsFold
<1> QED  BY <1>2, <1>7

Numbers(f, S) == \A x \in S : f[x] \in Int

\* Any element may be the first.
LEMMA FoldsInAnyOrder ==
  ASSUME NEW f, NEW S, IsFiniteSet(S), Numbers(f, S), NEW g, IsFold(f, S, g)
  PROVE  /\ g[S] \in Int
         /\ \A y \in S : g[S] = g[S \ {y}] + f[y]
<1> DEFINE Fine(U) == g[U] \in Int /\ \A y \in U : g[U] = g[U \ {y}] + f[y]
           C == {U \in SUBSET S : ~Fine(U)}
<1> SUFFICES ASSUME C # {} PROVE FALSE
  OBVIOUS
<1>1. \A U \in C : IsFiniteSet(U)
  BY FS_Subset
<1>2. PICK U \in C : \A V \in C : V \subseteq U => V = U
  <2> HIDE DEF C
  <2> QED  BY <1>1, Smallest
<1>3. \A V \in SUBSET U : V # U => Fine(V)
  BY <1>2
<1>4. U # {}
  <2>1. g[{}] = 0
    BY FoldEmpty
  <2>2. Fine({})
    BY <2>1
  <2>3. ~Fine(U)
    BY <1>2
  <2> HIDE DEF Fine
  <2> QED  BY <2>2, <2>3
<1> DEFINE c == Some(U)
<1>5. c \in U /\ f[c] \in Int
  BY <1>2, <1>4, SomeIsIn DEF Numbers
<1>6. g[U] = f[c] + g[U \ {c}]
  <2>1. U \in SUBSET S
    BY <1>2
  <2> HIDE DEF Fine, C
  <2> QED  BY <1>4, <2>1 DEF IsFold
<1> HIDE DEF c
<1>7. Fine(U \ {c})
  BY <1>3, <1>5
<1>8. g[U] \in Int
  BY <1>5, <1>6, <1>7
<1>9. ASSUME NEW y \in U PROVE g[U] = g[U \ {y}] + f[y]
  <2>1. CASE y = c
    BY <1>5, <1>6, <1>7, <2>1
  <2>2. CASE y # c
    <3>1. g[U \ {c}] = g[(U \ {c}) \ {y}] + f[y]
      BY <1>7, <2>2
    <3>2. Fine(U \ {y}) /\ Fine((U \ {c}) \ {y})
      BY <1>3, <1>5
    <3>3. g[U \ {y}] = g[(U \ {y}) \ {c}] + f[c]
      BY <1>5, <2>2, <3>2
    <3>4. (U \ {y}) \ {c} = (U \ {c}) \ {y}
      OBVIOUS
    <3>5. f[y] \in Int /\ f[c] \in Int /\ g[(U \ {c}) \ {y}] \in Int
      BY <1>2, <1>5, <3>2 DEF Numbers
    <3>6. PICK i \in Int, j \in Int, k \in Int : i = f[y] /\ j = f[c] /\ k = g[(U \ {c}) \ {y}]
      BY <3>5
    <3>7. g[U \ {c}] = k + i
      BY <3>1, <3>6
    <3>8. g[U \ {y}] = k + j
      BY <3>3, <3>4, <3>6
    <3>9. g[U] = j + (k + i)
      BY <1>6, <3>6, <3>7
    <3>10. j + (k + i) = (k + j) + i
      OBVIOUS
    <3> QED  BY <3>6, <3>8, <3>9, <3>10
  <2> QED  BY <2>1, <2>2
<1> QED  BY <1>2, <1>8, <1>9

\* What the sum of the library is.
LEMMA SumIsFold ==
  ASSUME NEW f, NEW S, IsFiniteSet(S)
  PROVE  \E g : IsFold(f, S, g) /\ SumFunctionOnSet(f, S) = g[S]
<1> DEFINE rec(g) == [U \in SUBSET S |->
                        IF U = {} THEN 0
                        ELSE f[CHOOSE x \in U : TRUE] + g[U \ {CHOOSE x \in U : TRUE}]]
           it == CHOOSE g : g = rec(g)
<1>1. \E g : g = rec(g)
  <2>1. PICK g : IsFold(f, S, g)
    BY FoldExists
  <2>2. g = rec(g)
    BY <2>1 DEF IsFold, Some
  <2> HIDE DEF rec
  <2> QED  BY <2>2
<1>2. it = rec(it)
  BY <1>1
<1>3. SumFunctionOnSet(f, S) = it[S]
  BY DEF SumFunctionOnSet, FoldFunctionOnSet, MapThenFoldSet
<1>4. IsFold(f, S, it)
  <2> HIDE DEF it
  <2> QED  BY <1>2 DEF IsFold, Some
<1> QED  BY <1>3, <1>4

LEMMA SumSame ==
  ASSUME NEW S, IsFiniteSet(S), NEW f, NEW g, \A x \in S : f[x] = g[x]
  PROVE  SumFunctionOnSet(f, S) = SumFunctionOnSet(g, S)
<1>1. PICK h : IsFold(f, S, h) /\ SumFunctionOnSet(f, S) = h[S]
  BY SumIsFold
<1>2. PICK k : IsFold(g, S, k) /\ SumFunctionOnSet(g, S) = k[S]
  BY SumIsFold
<1> QED  BY <1>1, <1>2, FoldsAgree

LEMMA SumEmpty == ASSUME NEW f PROVE SumFunctionOnSet(f, {}) = 0
  BY SumIsFold, FoldEmpty, FS_EmptySet

LEMMA SumType ==
  ASSUME NEW S, IsFiniteSet(S), NEW f, Numbers(f, S)
  PROVE  SumFunctionOnSet(f, S) \in Int
<1>1. PICK g : IsFold(f, S, g) /\ SumFunctionOnSet(f, S) = g[S]
  BY SumIsFold
<1> QED  BY <1>1, FoldsInAnyOrder

\* An element taken out takes its number along.
LEMMA SumWithout ==
  ASSUME NEW S, IsFiniteSet(S), NEW f, Numbers(f, S), NEW y \in S
  PROVE  SumFunctionOnSet(f, S) = SumFunctionOnSet(f, S \ {y}) + f[y]
<1>1. PICK g : IsFold(f, S, g) /\ SumFunctionOnSet(f, S) = g[S]
  BY SumIsFold
<1>2. IsFiniteSet(S \ {y})
  BY FS_RemoveElement
<1>3. PICK h : IsFold(f, S \ {y}, h) /\ SumFunctionOnSet(f, S \ {y}) = h[S \ {y}]
  BY <1>2, SumIsFold
<1>4. g[S \ {y}] = h[S \ {y}]
  BY <1>1, <1>2, <1>3, FoldsAgree
<1>5. \A x \in S : g[S] = g[S \ {x}] + f[x]
  BY <1>1, FoldsInAnyOrder
<1> QED  BY <1>1, <1>3, <1>4, <1>5

LEMMA SumWith ==
  ASSUME NEW S, IsFiniteSet(S), NEW y, y \notin S, NEW f, Numbers(f, S \cup {y})
  PROVE  SumFunctionOnSet(f, S \cup {y}) = SumFunctionOnSet(f, S) + f[y]
<1>1. IsFiniteSet(S \cup {y}) /\ (S \cup {y}) \ {y} = S /\ y \in S \cup {y}
  BY FS_AddElement
<1> QED  BY <1>1, SumWithout

\* One number that changes changes the sum by as much.
LEMMA SumChanged ==
  ASSUME NEW S, IsFiniteSet(S), NEW y \in S, NEW f, NEW g,
         Numbers(f, S), Numbers(g, S), \A x \in S \ {y} : f[x] = g[x]
  PROVE  SumFunctionOnSet(g, S) = SumFunctionOnSet(f, S) + g[y] - f[y]
<1>1. IsFiniteSet(S \ {y})
  BY FS_RemoveElement
<1>2. SumFunctionOnSet(f, S \ {y}) = SumFunctionOnSet(g, S \ {y})
  BY <1>1, SumSame
<1>3. SumFunctionOnSet(f, S \ {y}) \in Int
  <2>1. Numbers(f, S \ {y})
    BY DEF Numbers
  <2> QED  BY <1>1, <2>1, SumType
<1>4. /\ SumFunctionOnSet(f, S) = SumFunctionOnSet(f, S \ {y}) + f[y]
      /\ SumFunctionOnSet(g, S) = SumFunctionOnSet(g, S \ {y}) + g[y]
  BY SumWithout
<1>5. f[y] \in Int /\ g[y] \in Int
  BY DEF Numbers
<1> QED  BY <1>2, <1>3, <1>4, <1>5

LEMMA SumOfZeros ==
  ASSUME NEW S, IsFiniteSet(S), NEW f, \A x \in S : f[x] = 0
  PROVE  SumFunctionOnSet(f, S) = 0
<1> DEFINE C == {U \in SUBSET S : SumFunctionOnSet(f, U) # 0}
<1> SUFFICES ASSUME C # {} PROVE FALSE
  OBVIOUS
<1>1. \A U \in C : IsFiniteSet(U)
  BY FS_Subset
<1>2. PICK U \in C : \A V \in C : V \subseteq U => V = U
  <2> HIDE DEF C
  <2> QED  BY <1>1, Smallest
<1>3. PICK y : y \in U
  BY <1>2, SumEmpty
<1>4. SumFunctionOnSet(f, U) = SumFunctionOnSet(f, U \ {y}) + f[y]
  <2>1. Numbers(f, U)
    BY <1>2 DEF Numbers
  <2> QED  BY <1>1, <1>2, <1>3, <2>1, SumWithout
<1>5. SumFunctionOnSet(f, U \ {y}) = 0
  BY <1>2, <1>3
<1> QED  BY <1>2, <1>3, <1>4, <1>5

-----------------------------------------------------------------------------
LEMMA Constants ==
  /\ HeaderBytes \in Nat \ {0} /\ HeaderAlignment \in Nat \ {0}
  /\ Null \notin Int /\ Null \notin Request /\ PlatformBlock \subseteq Int
  /\ \A p \in Pool : Base[p] \in Nat /\ PoolSize[p] \in Nat
  /\ \A r \in Request : /\ r.size \in Nat \ {0} /\ r.alignment \in Nat \ {0} /\ r.tag \in Tag
                        /\ PoolOf(r.size) \in Pool
BY PoolAssumption, RequestAssumption, PlatformAssumption

\* get_aligned goes up to the next multiple, by less than the granularity.
LEMMA AlignUpBounds ==
  ASSUME NEW x \in Nat, NEW g \in Nat \ {0}
  PROVE  /\ AlignUp(x, g) \in Nat
         /\ x <= AlignUp(x, g) /\ AlignUp(x, g) < x + g
<1> DEFINE n == x + g - 1
           q == n \div g
           m == n % g
<1>1. n \in Nat /\ q \in Nat /\ m \in 0 .. g - 1 /\ n = g * q + m  OBVIOUS
<1>2. q * g = g * q /\ q * g \in Nat  BY <1>1
<1>3. AlignUp(x, g) = q * g  BY DEF AlignUp
<1> QED  BY <1>1, <1>2, <1>3

LEMMA RequiredBounds ==
  ASSUME NEW r \in Request
  PROVE  /\ Alignment(r) \in Nat \ {0} /\ Required(r) \in Nat \ {0}
         /\ Required(r) = Alignment(r) + HeaderBytes + r.size
BY Constants DEF Alignment, Required

\* Whose blocks they are.
LEMMA BlocksAre == Blocks = live \cup {Mine(t) : t \in {u \in Thread : Holds(u)}}
BY DEF Blocks, Mine, Holds, Holding

LEMMA BlocksNext == Blocks' = live' \cup {Mine(t)' : t \in {u \in Thread : Holds(u)'}}
BY DEF Blocks, Mine, Holds, Holding

LEMMA BlockTypes ==
  ASSUME TypeOK, CallInv, NEW b \in Blocks
  PROVE  b \in [block : Int, request : Request] /\ PoolFor(b) \in Pool
<1>1. b \in [block : Int, request : Request]
  <2>1. CASE b \in live  BY <2>1 DEF TypeOK
  <2>2. ASSUME NEW t \in Thread, Holds(t), b = Mine(t) PROVE b \in [block : Int, request : Request]
    <3>1. call[t].block \in Int  BY <2>2 DEF Holds, TypeOK
    <3>2. call[t].request \in Request  BY <2>2 DEF Holds, Holding, CallInv
    <3> QED  BY <2>2, <3>1, <3>2 DEF Mine
  <2> QED  BY <2>1, <2>2, BlocksAre
<1> QED  BY <1>1, Constants DEF PoolFor

\* A block of a pool, its header included, is inside of its pool.
LEMMA InsidePool ==
  ASSUME IInv, NEW b \in Blocks, InPool(b)
  PROVE  /\ b.block - HeaderBytes \in DOMAIN header
         /\ header[b.block - HeaderBytes] \in [size : Nat, padding : Nat, tag : Tag]
         /\ PlaceOf(b) \in reserved[PoolFor(b)] /\ PlaceOf(b) \in [offset : Nat, size : Nat]
         /\ Base[PoolFor(b)] + PlaceOf(b).offset <= b.block - HeaderBytes
         /\ b.block + b.request.size <= Base[PoolFor(b)] + PlaceOf(b).offset + PlaceOf(b).size
         /\ PlaceOf(b).offset + PlaceOf(b).size <= PoolSize[PoolFor(b)]
         /\ Within(PoolFor(b), b.block)
<1>1. PoolFor(b) \in Pool  BY BlockTypes DEF IInv
<1>2. /\ b.block - HeaderBytes \in DOMAIN header
      /\ PlaceOf(b) \in reserved[PoolFor(b)]
      /\ Base[PoolFor(b)] + PlaceOf(b).offset <= b.block - HeaderBytes
      /\ b.block + b.request.size <= Base[PoolFor(b)] + PlaceOf(b).offset + PlaceOf(b).size
      /\ Within(PoolFor(b), b.block)
  BY DEF IInv, HeaderIntact, PoolFor
<1>3. header[b.block - HeaderBytes] \in [size : Nat, padding : Nat, tag : Tag]
  BY <1>2 DEF IInv, TypeOK
<1>4. PlaceOf(b) \in [offset : Nat, size : Nat]  BY <1>1, <1>2 DEF IInv, TypeOK
<1>5. PlaceOf(b).offset + PlaceOf(b).size <= PoolSize[PoolFor(b)]
  BY <1>1, <1>2 DEF IInv, ApartInv
<1> QED  BY <1>2, <1>3, <1>4, <1>5

\* Two blocks are apart where one of them is a pool's.
LEMMA BlocksDisjoint ==
  ASSUME IInv, NEW b \in Blocks, NEW c \in Blocks, InPool(b), b # c
  PROVE  End(b) <= First(c) \/ End(c) <= First(b)
<1> USE Constants DEF PoolFor
<1>1. /\ b \in [block : Int, request : Request] /\ PoolFor(b) \in Pool
      /\ c \in [block : Int, request : Request] /\ PoolFor(c) \in Pool
  BY BlockTypes DEF IInv
<1>2. CASE ~InPool(c)
  <2>1. c.block \in PlatformBlock  BY <1>2 DEF IInv, PlatformInv, TypeOK
  <2>2. c.block + c.request.size <= Base[PoolFor(b)] \/ c.block >= Base[PoolFor(b)] + PoolSize[PoolFor(b)]
    BY <1>1, <2>1, PlatformAssumption
  <2> QED  BY <1>1, <1>2, <2>2, InsidePool DEF First, End
<1>3. CASE InPool(c) /\ PoolFor(b) # PoolFor(c)
  <2>1. \/ Base[PoolFor(b)] + PoolSize[PoolFor(b)] <= Base[PoolFor(c)]
        \/ Base[PoolFor(c)] + PoolSize[PoolFor(c)] <= Base[PoolFor(b)]
    BY <1>1, <1>3, PoolAssumption
  <2> QED  BY <1>1, <1>3, <2>1, InsidePool DEF First, End
<1>4. CASE InPool(c) /\ PoolFor(b) = PoolFor(c)
  <2>1. Apart(PlaceOf(b), PlaceOf(c))  BY <1>4 DEF IInv, ApartInv
  <2> QED  BY <1>1, <1>4, <2>1, InsidePool DEF First, End, Apart
<1> QED  BY <1>2, <1>3, <1>4

LEMMA BytesAreApart == ASSUME IInv PROVE BytesApart
<1> SUFFICES ASSUME NEW b \in Blocks, NEW c \in Blocks, InPool(b), b # c
             PROVE  Bytes(b) \cap Bytes(c) = {}
  BY DEF BytesApart
<1>1. End(b) <= First(c) \/ End(c) <= First(b)  BY BlocksDisjoint
<1>2. First(b) \in Int /\ First(c) \in Int /\ End(b) \in Int /\ End(c) \in Int
  BY BlockTypes, Constants DEF First, End, IInv
<1> QED  BY <1>1, <1>2 DEF Bytes

-----------------------------------------------------------------------------
(* One lemma for what several steps have in common. *)

\* Blocks whose headers and places were not touched stay as they are.
LEMMA Carried ==
  ASSUME IInv,
         \A b \in Blocks' : b \in Blocks,
         \A b \in Blocks' : InPool(b) =>
            /\ b.block - HeaderBytes \in DOMAIN header'
            /\ header'[b.block - HeaderBytes] = header[b.block - HeaderBytes]
            /\ PlaceOf(b) \in reserved'[PoolFor(b)]
  PROVE  /\ HeaderIntact'
         /\ \A b, c \in Blocks' : InPool(b) /\ InPool(c) /\ b # c /\ PoolFor(b) = PoolFor(c)
                                    => Apart(PlaceOf(b)', PlaceOf(c)')
         /\ \A b \in Blocks' : InPool(b) => PlaceOf(b)' = PlaceOf(b)
<1>1. ASSUME NEW b \in Blocks', InPool(b) PROVE PlaceOf(b)' = PlaceOf(b)
  BY <1>1 DEF PlaceOf
<1>2. HeaderIntact'
  <2> SUFFICES ASSUME NEW b \in Blocks', InPool(b)
               PROVE  LET h == b.block - HeaderBytes
                          p == PoolOf(b.request.size)
                      IN  /\ h \in DOMAIN header' /\ header'[h].size = Required(b.request)
                          /\ PlaceOf(b)' \in reserved'[p]
                          /\ Base[p] + PlaceOf(b)'.offset <= h
                          /\ b.block + b.request.size <= Base[p] + PlaceOf(b)'.offset + PlaceOf(b)'.size
                          /\ Within(p, b.block)
    BY DEF HeaderIntact, InPool, Within
  <2>1. PlaceOf(b)' = PlaceOf(b)  BY <1>1
  <2>2. b \in Blocks  OBVIOUS
  <2> QED  BY <2>1, <2>2 DEF IInv, HeaderIntact, PoolFor
<1>3. \A b, c \in Blocks' : InPool(b) /\ InPool(c) /\ b # c /\ PoolFor(b) = PoolFor(c)
                              => Apart(PlaceOf(b)', PlaceOf(c)')
  BY <1>1 DEF IInv, ApartInv
<1> QED  BY <1>1, <1>2, <1>3

\* A step after which the blocks, the headers, the places and the owners are the same.
LEMMA Unchanged ==
  ASSUME IInv, Blocks' = Blocks, UNCHANGED <<reserved, header, platform>>
  PROVE  /\ PlatformInv' /\ HeaderIntact' /\ ApartInv' /\ NothingLost'
         /\ \A b, c \in Blocks' : b.block = c.block => b = c
<1>1. \A b \in Blocks : InPool(b) => /\ b.block - HeaderBytes \in DOMAIN header
                                     /\ PlaceOf(b) \in reserved[PoolFor(b)]
  BY InsidePool
<1>2. /\ HeaderIntact'
      /\ \A b, c \in Blocks' : InPool(b) /\ InPool(c) /\ b # c /\ PoolFor(b) = PoolFor(c)
                                 => Apart(PlaceOf(b)', PlaceOf(c)')
      /\ \A b \in Blocks' : InPool(b) => PlaceOf(b)' = PlaceOf(b)
  BY <1>1, Carried
<1>3. ApartInv'
  BY <1>2 DEF IInv, ApartInv, InPool, Within, PoolFor
<1>4. NothingLost'
  BY <1>2 DEF IInv, NothingLost, InPool, Within
<1>5. PlatformInv'
  BY DEF IInv, PlatformInv, InPool, Within
<1> QED  BY <1>2, <1>3, <1>4, <1>5 DEF IInv, OwnInv

\* A step that leaves the owners and what they own alone.
LEMMA SameStep ==
  ASSUME IInv, TypeOK', CallInv', EarlyInv', live' = live, UNCHANGED <<reserved, header, platform>>,
         \A u \in Thread : Holds(u)' <=> Holds(u),
         \A u \in Thread : Holds(u) => Mine(u)' = Mine(u)
  PROVE  IInv'
<1>1. Blocks' = Blocks
  <2>1. {u \in Thread : Holds(u)'} = {u \in Thread : Holds(u)}  OBVIOUS
  <2>2. {Mine(t)' : t \in {u \in Thread : Holds(u)'}} = {Mine(t) : t \in {u \in Thread : Holds(u)}}
    BY <2>1
  <2> QED  BY <2>2, BlocksAre, BlocksNext
<1>2. OwnInv'
  <2>1. \A t \in Thread : Holds(t) => call'[t].block = call[t].block  BY DEF Mine
  <2>2. \A b, c \in Blocks' : b.block = c.block => b = c  BY <1>1, Unchanged
  <2>3. \A t \in Thread : Holds(t)' => Mine(t)' \notin live'  BY DEF IInv, OwnInv
  <2>4. \A t, u \in Thread : Holds(t)' /\ Holds(u)' /\ t # u => call'[t].block # call'[u].block
    BY <2>1 DEF IInv, OwnInv
  <2> QED  BY <2>2, <2>3, <2>4 DEF OwnInv
<1> QED  BY <1>1, <1>2, Unchanged DEF IInv

\* What the statistics become is of their type.
LEMMA CountsType ==
  ASSUME TypeOK, NEW n \in Int, NEW g \in Tag \cup {Stray}, Counts(n, g)
  PROVE  tagged' \in [Tag -> Int] /\ total' \in Int /\ garbled' \in BOOLEAN
<1>1. CASE garbled \/ g = Stray
  <2>1. garbled' = TRUE /\ tagged' = [x \in Tag |-> 0] /\ total' = 0
    BY <1>1, Zenon DEF Counts
  <2>2. garbled' \in BOOLEAN  BY <2>1, Zenon
  <2>3. tagged' \in [Tag -> Int] /\ total' \in Int  BY <2>1
  <2> QED  BY <2>2, <2>3
<1>2. CASE ~(garbled \/ g = Stray)
  <2>1. /\ tagged' = [tagged EXCEPT ![g] = @ + n] /\ total' = total + n /\ garbled' = garbled
    BY <1>2, Zenon DEF Counts
  <2>2. garbled' \in BOOLEAN  BY <2>1, Zenon DEF TypeOK
  <2>3. tagged' \in [Tag -> Int] /\ total' \in Int  BY <1>2, <2>1 DEF TypeOK
  <2> QED  BY <2>2, <2>3
<1> QED  BY <1>1, <1>2

-----------------------------------------------------------------------------
LEMMA InitInv == Init => IInv
<1> SUFFICES ASSUME Init PROVE IInv  OBVIOUS
<1>1. TypeOK
  <2>1. /\ header \in [DOMAIN header -> [size : Nat, padding : Nat, tag : Tag]] /\ DOMAIN header = {}
    BY DEF Init
  <2>2. up \in BOOLEAN /\ consumer \in BOOLEAN /\ garbled \in BOOLEAN  BY Zenon DEF Init
  <2> QED  BY <2>1, <2>2 DEF Init, TypeOK, NoCall, Locals, Place
<1>2. Blocks = {}  BY DEF Init, Blocks
<1>3. CallInv  BY DEF Init, CallInv, NoCall, Locals
<1>4. OwnInv /\ PlatformInv /\ HeaderIntact
  BY <1>2 DEF OwnInv, PlatformInv, HeaderIntact, Holds, Holding, Init
<1>5. ApartInv /\ NothingLost /\ EarlyInv
  BY <1>2 DEF ApartInv, NothingLost, EarlyInv, Init
<1> QED  BY <1>1, <1>3, <1>4, <1>5 DEF IInv

LEMMA StartInv == IInv /\ Start => IInv'
<1> SUFFICES ASSUME IInv, Start PROVE IInv'  OBVIOUS
<1>1. TypeOK'  BY DEF IInv, TypeOK, Start, memory, stats
<1>2. CallInv' /\ EarlyInv'  BY DEF IInv, CallInv, EarlyInv, Start, memory
<1>3. \A u \in Thread : (Holds(u)' <=> Holds(u)) /\ Mine(u)' = Mine(u)
  BY DEF Start, Holds, Mine
<1> QED  BY <1>1, <1>2, <1>3, SameStep DEF Start, memory

LEMMA WatchInv == IInv /\ Watch => IInv'
<1> SUFFICES ASSUME IInv, Watch PROVE IInv'  OBVIOUS
<1>1. TypeOK'  BY DEF IInv, TypeOK, Watch, memory, stats
<1>2. CallInv' /\ EarlyInv'  BY DEF IInv, CallInv, EarlyInv, Watch, memory
<1>3. \A u \in Thread : (Holds(u)' <=> Holds(u)) /\ Mine(u)' = Mine(u)
  BY DEF Watch, Holds, Mine
<1> QED  BY <1>1, <1>2, <1>3, SameStep DEF Watch, memory

LEMMA StutterInv == IInv /\ UNCHANGED vars => IInv'
<1> SUFFICES ASSUME IInv, UNCHANGED vars PROVE IInv'  OBVIOUS
<1>1. TypeOK'  BY DEF IInv, TypeOK, vars
<1>2. CallInv' /\ EarlyInv'  BY DEF IInv, CallInv, EarlyInv, vars
<1>3. \A u \in Thread : (Holds(u)' <=> Holds(u)) /\ Mine(u)' = Mine(u)
  BY DEF vars, Holds, Mine
<1> QED  BY <1>1, <1>2, <1>3, SameStep DEF vars

LEMMA AllocateCallInv ==
  ASSUME IInv, NEW t \in Thread, NEW r \in Request, AllocateCall(t, r) PROVE IInv'
<1> USE DEF Locals, AllocateCall, Goes, memory, stats
<1>1. TypeOK'  BY DEF IInv, TypeOK, Place
<1>2. CallInv' /\ EarlyInv'  BY DEF IInv, TypeOK, CallInv, EarlyInv
<1>3. \A u \in Thread : (Holds(u)' <=> Holds(u)) /\ (Holds(u) => Mine(u)' = Mine(u))
  BY DEF IInv, TypeOK, Holds, Holding, Mine
<1> QED  BY <1>1, <1>2, <1>3, SameStep

LEMMA LogsUnderMutexInv == ASSUME IInv, NEW t \in Thread, LogsUnderMutex(t) PROVE IInv'
<1> USE DEF LogsUnderMutex, Goes, memory, stats
<1>1. TypeOK'  BY DEF IInv, TypeOK, Place
<1>2. CallInv' /\ EarlyInv'  BY DEF IInv, TypeOK, CallInv, EarlyInv
<1>3. \A u \in Thread : (Holds(u)' <=> Holds(u)) /\ (Holds(u) => Mine(u)' = Mine(u))
  BY DEF IInv, TypeOK, Holds, Holding, Mine
<1> QED  BY <1>1, <1>2, <1>3, SameStep

LEMMA ReportInv == ASSUME IInv, NEW t \in Thread, Report(t) PROVE IInv'
<1> USE DEF Report, Goes, memory
<1>0. tagged' \in [Tag -> Int] /\ total' \in Int /\ garbled' \in BOOLEAN
  <2>1. call[t].size \in Int /\ call[t].tag \in Tag \cup {Stray}  BY DEF IInv, TypeOK
  <2> QED  BY <2>1, CountsType DEF IInv
<1>1. TypeOK'  BY <1>0 DEF IInv, TypeOK, Place
<1>2. CallInv' /\ EarlyInv'  BY DEF IInv, TypeOK, CallInv, EarlyInv
<1>3. \A u \in Thread : (Holds(u)' <=> Holds(u)) /\ (Holds(u) => Mine(u)' = Mine(u))
  BY DEF IInv, TypeOK, Holds, Holding, Mine
<1> QED  BY <1>1, <1>2, <1>3, SameStep

LEMMA UnreportInv == ASSUME IInv, NEW t \in Thread, Unreport(t) PROVE IInv'
<1> USE DEF Unreport, Returns, Goes, memory
<1>0. tagged' \in [Tag -> Int] /\ total' \in Int /\ garbled' \in BOOLEAN
  <2>1. -call[t].size \in Int /\ call[t].tag \in Tag \cup {Stray}  BY DEF IInv, TypeOK
  <2> QED  BY <2>1, CountsType DEF IInv
<1>1. TypeOK'  BY <1>0 DEF IInv, TypeOK, Place, NoCall, Locals
<1>2. CallInv' /\ EarlyInv'  BY DEF IInv, TypeOK, CallInv, EarlyInv, NoCall, Locals
<1>3. \A u \in Thread : (Holds(u)' <=> Holds(u)) /\ (Holds(u) => Mine(u)' = Mine(u))
  BY DEF IInv, TypeOK, Holds, Holding, Mine
<1> QED  BY <1>1, <1>2, <1>3, SameStep

LEMMA ReturnsNullInv == ASSUME IInv, NEW t \in Thread, ReturnsNull(t) PROVE IInv'
<1> USE DEF ReturnsNull, Returns, Goes, memory, stats
<1>1. TypeOK'  BY DEF IInv, TypeOK, Place, NoCall, Locals
<1>2. CallInv' /\ EarlyInv'  BY DEF IInv, TypeOK, CallInv, EarlyInv, NoCall, Locals
<1>3. \A u \in Thread : (Holds(u)' <=> Holds(u)) /\ (Holds(u) => Mine(u)' = Mine(u))
  BY DEF IInv, TypeOK, Holds, Holding, Mine
<1> QED  BY <1>1, <1>2, <1>3, SameStep

-----------------------------------------------------------------------------
(* Blocks of the platform *)

\* A block of the platform is in no pool.
LEMMA PlatformOutside ==
  ASSUME NEW x \in PlatformBlock, NEW r \in Request, NEW p \in Pool
  PROVE  ~Within(p, x)
<1>1. x + r.size <= Base[p] \/ x >= Base[p] + PoolSize[p]  BY PlatformAssumption
<1>2. x \in Int /\ r.size \in Nat \ {0} /\ Base[p] \in Nat /\ PoolSize[p] \in Nat
  BY Constants
<1> QED  BY <1>1, <1>2 DEF Within

\* Another block of the platform changes nothing for those there are.
LEMMA PlatformGained ==
  ASSUME IInv, NEW x \in PlatformBlock \ platform, NEW r \in Request,
         Blocks' = Blocks \cup {[block |-> x, request |-> r]},
         platform' = platform \cup {x}, UNCHANGED <<reserved, header>>
  PROVE  /\ PlatformInv' /\ HeaderIntact' /\ ApartInv' /\ NothingLost'
         /\ \A b \in Blocks : b.block # x
         /\ \A b, c \in Blocks' : b.block = c.block => b = c
<1> DEFINE new == [block |-> x, request |-> r]
<1>1. ~InPool(new)  BY PlatformOutside DEF InPool
<1>2. \A b \in Blocks : b.block # x
  BY <1>1 DEF IInv, PlatformInv, InPool
<1>3. \A b \in Blocks' : InPool(b) => b \in Blocks  BY <1>1
<1>4. \A b \in Blocks : InPool(b) => PlaceOf(b)' = PlaceOf(b)  BY DEF PlaceOf
<1>5. HeaderIntact'
  <2> SUFFICES ASSUME NEW b \in Blocks', InPool(b)
               PROVE  LET h == b.block - HeaderBytes
                          p == PoolOf(b.request.size)
                      IN  /\ h \in DOMAIN header' /\ header'[h].size = Required(b.request)
                          /\ PlaceOf(b)' \in reserved'[p]
                          /\ Base[p] + PlaceOf(b)'.offset <= h
                          /\ b.block + b.request.size <= Base[p] + PlaceOf(b)'.offset + PlaceOf(b)'.size
                          /\ Within(p, b.block)
    BY DEF HeaderIntact, InPool, Within
  <2> QED  BY <1>3, <1>4 DEF IInv, HeaderIntact
<1>6. ApartInv'
  BY <1>3, <1>4 DEF IInv, ApartInv, InPool, Within, PoolFor
<1>7. NothingLost'
  BY <1>4 DEF IInv, NothingLost, InPool, Within
<1>8. PlatformInv'
  BY DEF IInv, PlatformInv, InPool, Within
<1>9. \A b, c \in Blocks' : b.block = c.block => b = c
  BY <1>2 DEF IInv, OwnInv
<1> QED  BY <1>2, <1>5, <1>6, <1>7, <1>8, <1>9

LEMMA AllocateEarlyInv == ASSUME IInv, NEW r \in Request, AllocateEarly(r) PROVE IInv'
<1> USE DEF AllocateEarly, stats
<1>1. PICK x \in PlatformBlock \ platform :
        platform' = platform \cup {x} /\ live' = live \cup {[block |-> x, request |-> r]}
  OBVIOUS
<1>2. \A u \in Thread : (Holds(u)' <=> Holds(u)) /\ Mine(u)' = Mine(u) /\ ~Holds(u)
  BY DEF IInv, EarlyInv, Holds, Holding, Mine
<1>3. Blocks' = Blocks \cup {[block |-> x, request |-> r]}
  BY <1>1, <1>2, BlocksAre, BlocksNext
<1>4. TypeOK'  BY <1>1, Constants DEF IInv, TypeOK
<1>5. CallInv' /\ EarlyInv'  BY DEF IInv, CallInv, EarlyInv
<1>6. /\ PlatformInv' /\ HeaderIntact' /\ ApartInv' /\ NothingLost'
      /\ \A b, c \in Blocks' : b.block = c.block => b = c
  BY <1>1, <1>3, PlatformGained
<1>7. OwnInv'  BY <1>2, <1>6 DEF OwnInv
<1> QED  BY <1>4, <1>5, <1>6, <1>7 DEF IInv

LEMMA FallBackInv == ASSUME IInv, NEW t \in Thread, FallBack(t) PROVE IInv'
<1> USE DEF Locals, FallBack, Goes, stats
<1> DEFINE r == call[t].request
<1>1. /\ r \in Request /\ pc[t] = "reserve" /\ call[t].block = Null /\ ~Holds(t)
      /\ up /\ t \in DOMAIN pc /\ t \in DOMAIN call
  BY DEF IInv, TypeOK, CallInv, EarlyInv, Holds, Holding
<1>2. EarlyInv'  BY <1>1 DEF IInv, EarlyInv
<1>3. CASE /\ PlatformBlock = platform
           /\ call' = [call EXCEPT ![t] = Locals(r, Null, 0, r.tag)] /\ UNCHANGED platform
  <2>1. TypeOK'  BY <1>1, <1>3, Constants DEF IInv, TypeOK, Place
  <2>2. CallInv'  BY <1>1, <1>3 DEF IInv, TypeOK, CallInv
  <2>3. \A u \in Thread : (Holds(u)' <=> Holds(u)) /\ (Holds(u) => Mine(u)' = Mine(u))
    BY <1>1, <1>3 DEF IInv, TypeOK, Holds, Holding, Mine
  <2> QED  BY <1>2, <1>3, <2>1, <2>2, <2>3, SameStep
<1>4. ASSUME NEW x \in PlatformBlock \ platform, platform' = platform \cup {x},
             call' = [call EXCEPT ![t] = Locals(r, x, 0, r.tag)]
      PROVE  IInv'
  <2> DEFINE new == [block |-> x, request |-> r]
  <2>1. TypeOK'  BY <1>1, <1>4, Constants DEF IInv, TypeOK, Place
  <2>2. CallInv'  BY <1>1, <1>4 DEF IInv, TypeOK, CallInv
  <2>3. /\ call'[t].block = x /\ call'[t].request = r /\ pc'[t] = "report" /\ x # Null
        /\ \A u \in Thread : u # t => call'[u] = call[u] /\ pc'[u] = pc[u]
    <3>1. call[t] \in [request : Request \cup {Null}, block : Int \cup {Null}, size : Nat,
                       tag : Tag \cup {Stray}]
      BY DEF IInv, TypeOK
    <3> QED  BY <1>1, <1>4, <3>1, Constants
  <2>4. Holds(t)' /\ Mine(t)' = new
    BY <2>3 DEF Holds, Holding, Mine
  <2>5. \A u \in Thread : u # t => (Holds(u)' <=> Holds(u)) /\ Mine(u)' = Mine(u)
    BY <2>3 DEF Holds, Mine
  <2>6. Blocks' = Blocks \cup {new}
    BY <1>1, <2>4, <2>5, BlocksAre, BlocksNext
  <2>7. /\ PlatformInv' /\ HeaderIntact' /\ ApartInv' /\ NothingLost'
        /\ \A b \in Blocks : b.block # x
        /\ \A b, c \in Blocks' : b.block = c.block => b = c
    BY <1>1, <1>4, <2>6, PlatformGained
  <2>8. OwnInv'
    <3>1. \A u \in Thread : Holds(u) => Mine(u) \in Blocks  BY BlocksAre
    <3>2. \A u \in Thread : Holds(u) => call[u].block # x  BY <2>7, <3>1 DEF Mine
    <3>3. new \notin live  BY <2>7, BlocksAre
    <3>4. \A u \in Thread : Holds(u)' => Mine(u)' \notin live'
      BY <2>4, <2>5, <3>3 DEF IInv, OwnInv
    <3>5. \A u, v \in Thread : Holds(u)' /\ Holds(v)' /\ u # v => call'[u].block # call'[v].block
      BY <2>3, <2>5, <3>2 DEF IInv, OwnInv
    <3> QED  BY <2>7, <3>4, <3>5 DEF OwnInv
  <2> QED  BY <1>2, <2>1, <2>2, <2>7, <2>8 DEF IInv
<1> QED  BY <1>3, <1>4

-----------------------------------------------------------------------------
(* Blocks that change their owner *)

LEMMA FreeCallInv == ASSUME IInv, NEW t \in Thread, NEW l \in live, FreeCall(t, l) PROVE IInv'
<1> USE DEF Locals, FreeCall, Goes, memory, stats
<1>1. /\ l \in [block : Int, request : Request] /\ l = [block |-> l.block, request |-> l.request]
      /\ l.block # Null /\ ~Holds(t) /\ l \in Blocks
  BY Constants, BlocksAre DEF IInv, TypeOK, CallInv, Holds, Holding
<1>2. TypeOK'  BY <1>1 DEF IInv, TypeOK, Place
<1>3. CallInv' /\ EarlyInv'  BY <1>1 DEF IInv, TypeOK, CallInv, EarlyInv
<1>4. Holds(t)' /\ Mine(t)' = l /\ call'[t].block = l.block
  BY <1>1 DEF IInv, TypeOK, Holds, Holding, Mine
<1>5. \A u \in Thread : u # t => (Holds(u)' <=> Holds(u)) /\ Mine(u)' = Mine(u) /\ call'[u].block = call[u].block
  BY DEF IInv, TypeOK, Holds, Mine
<1>6. Blocks' = Blocks
  BY <1>1, <1>4, <1>5, BlocksAre, BlocksNext
<1>7. /\ PlatformInv' /\ HeaderIntact' /\ ApartInv' /\ NothingLost'
      /\ \A b, c \in Blocks' : b.block = c.block => b = c
  BY <1>6, Unchanged
<1>8. OwnInv'
  <2>1. \A u \in Thread : Holds(u) => Mine(u) \in Blocks /\ Mine(u) # l /\ Mine(u).block = call[u].block
    BY BlocksAre DEF IInv, OwnInv, Mine
  <2>2. \A u \in Thread : Holds(u) => call[u].block # l.block
    BY <1>1, <2>1 DEF IInv, OwnInv
  <2>3. \A u \in Thread : Holds(u)' => Mine(u)' \notin live'
    BY <1>4, <1>5 DEF IInv, OwnInv
  <2>4. \A u, v \in Thread : Holds(u)' /\ Holds(v)' /\ u # v => call'[u].block # call'[v].block
    BY <1>4, <1>5, <2>2 DEF IInv, OwnInv
  <2> QED  BY <1>7, <2>3, <2>4 DEF OwnInv
<1> QED  BY <1>2, <1>3, <1>7, <1>8 DEF IInv

\* The headers of the blocks are what they were.
HeadersStay ==
  \A b \in Blocks : InPool(b) => /\ b.block - HeaderBytes \in DOMAIN header'
                                 /\ header'[b.block - HeaderBytes] = header[b.block - HeaderBytes]

\* What is zeroed ends where the block does: it meets neither the block's own header
\* nor another's.
LEMMA ZeroInv ==
  ASSUME IInv, NEW t \in Thread, Zero(t)
  PROVE  IInv' /\ HeadersStay
<1> USE DEF Zero, Returns, Goes, stats
<1> DEFINE mine == Mine(t)
           r == call[t].request
           x == call[t].block
<1>1. /\ Holds(t) /\ mine \in Blocks /\ mine = [block |-> x, request |-> r] /\ x \in Int
      /\ r \in Request /\ r.size \in Nat \ {0} /\ up
  <2>1. Holds(t)  BY DEF Holds, Holding
  <2>2. x \in Int  BY <2>1 DEF IInv, TypeOK, Holds
  <2>3. r \in Request  BY DEF IInv, CallInv
  <2> QED  BY <2>1, <2>2, <2>3, BlocksAre, Constants DEF Mine, IInv, EarlyInv
<1>2. TypeOK'
  <2>1. /\ header' \in [DOMAIN header' -> [size : Nat, padding : Nat, tag : Tag]]
        /\ DOMAIN header' \subseteq DOMAIN header
    BY DEF IInv, TypeOK, Overwrite
  <2> QED  BY <1>1, <2>1 DEF IInv, TypeOK, Place, NoCall, Locals
<1>3. CallInv' /\ EarlyInv'  BY <1>1 DEF IInv, TypeOK, CallInv, EarlyInv, NoCall, Locals
<1>4. ~Holds(t)' /\ live' = live \cup {mine}
  BY <1>1 DEF IInv, TypeOK, Holds, Holding
<1>5. \A u \in Thread : u # t => (Holds(u)' <=> Holds(u)) /\ Mine(u)' = Mine(u) /\ call'[u] = call[u]
  BY DEF IInv, TypeOK, Holds, Mine
<1>6. Blocks' = Blocks
  BY <1>1, <1>4, <1>5, BlocksAre, BlocksNext
<1>7. ASSUME NEW b \in Blocks, InPool(b)
      PROVE  /\ b.block - HeaderBytes \in DOMAIN header'
             /\ header'[b.block - HeaderBytes] = header[b.block - HeaderBytes]
  <2> DEFINE h == b.block - HeaderBytes
  <2>1. h \in DOMAIN header /\ b.block \in Int /\ b.request.size \in Nat \ {0}
    BY <1>7, InsidePool, BlockTypes, Constants DEF IInv
  <2>2. ~Hit(h, x, r.size)
    <3>1. CASE b = mine  BY <1>1, <2>1, <3>1, Constants DEF Hit
    <3>2. CASE b # mine
      <4>1. End(b) <= First(mine) \/ End(mine) <= First(b)
        BY <1>1, <1>7, <3>2, BlocksDisjoint
      <4>2. First(mine) <= x /\ End(mine) = x + r.size /\ First(mine) \in Int
        BY <1>1, Constants DEF First, End
      <4>3. First(b) = h /\ End(b) = b.block + b.request.size  BY <1>7 DEF First, End
      <4> QED  BY <1>1, <2>1, <4>1, <4>2, <4>3, Constants DEF Hit
    <3> QED  BY <3>1, <3>2
  <2> QED  BY <2>1, <2>2 DEF Overwrite
<1>8. /\ HeaderIntact'
      /\ \A b, c \in Blocks' : InPool(b) /\ InPool(c) /\ b # c /\ PoolFor(b) = PoolFor(c)
                                 => Apart(PlaceOf(b)', PlaceOf(c)')
      /\ \A b \in Blocks' : InPool(b) => PlaceOf(b)' = PlaceOf(b)
  <2>1. \A b \in Blocks' : InPool(b) => PlaceOf(b) \in reserved'[PoolFor(b)]
    BY <1>6, InsidePool
  <2> QED  BY <1>6, <1>7, <2>1, Carried
<1>9. ApartInv'  BY <1>8 DEF IInv, ApartInv, InPool, Within, PoolFor
<1>10. NothingLost'  BY <1>6, <1>8 DEF IInv, NothingLost, InPool, Within
<1>11. PlatformInv'  BY <1>6 DEF IInv, PlatformInv, InPool, Within
<1>12. OwnInv'
  <2>1. \A b, c \in Blocks' : b.block = c.block => b = c  BY <1>6 DEF IInv, OwnInv
  <2>2. \A u \in Thread : Holds(u)' => Mine(u)' \notin live'
    <3>1. \A u \in Thread : u # t /\ Holds(u) => Mine(u) # mine
      BY <1>1 DEF IInv, OwnInv, Mine
    <3> QED  BY <1>4, <1>5, <3>1 DEF IInv, OwnInv
  <2>3. \A u, v \in Thread : Holds(u)' /\ Holds(v)' /\ u # v => call'[u].block # call'[v].block
    BY <1>4, <1>5 DEF IInv, OwnInv
  <2> QED  BY <2>1, <2>2, <2>3 DEF OwnInv
<1> QED  BY <1>2, <1>3, <1>7, <1>8, <1>9, <1>10, <1>11, <1>12 DEF IInv, HeadersStay

LEMMA FreeEarlyInv == ASSUME IInv, NEW l \in live, FreeEarly(l) PROVE IInv'
<1> USE DEF FreeEarly, stats
<1>1. \A u \in Thread : ~Holds(u) /\ ~Holds(u)'
  BY DEF IInv, EarlyInv, Holds, Holding
<1>2. Blocks = live /\ Blocks' = live \ {l}  BY <1>1, BlocksAre, BlocksNext
<1>3. TypeOK'  BY DEF IInv, TypeOK
<1>4. CallInv' /\ EarlyInv'  BY DEF IInv, CallInv, EarlyInv
<1>5. \A b \in Blocks : InPool(b) => FALSE
  <2>1. \A b \in Blocks : InPool(b) => PoolFor(b) \in Pool /\ PlaceOf(b) \in reserved[PoolFor(b)]
    BY InsidePool, BlockTypes DEF IInv
  <2> QED  BY <2>1 DEF IInv, EarlyInv
<1>6. \A b \in Blocks' : b \in Blocks /\ ~InPool(b) /\ b.block # l.block
  BY <1>2, <1>5 DEF IInv, OwnInv
<1>7. HeaderIntact' /\ ApartInv' /\ NothingLost'
  BY <1>6 DEF IInv, HeaderIntact, ApartInv, NothingLost, EarlyInv, InPool, Within
<1>8. PlatformInv'  BY <1>6 DEF IInv, PlatformInv, InPool, Within
<1>9. OwnInv'  BY <1>1, <1>6 DEF IInv, OwnInv
<1> QED  BY <1>3, <1>4, <1>7, <1>8, <1>9 DEF IInv

\* A block that goes takes its bytes along and leaves the others' owners alone.
LEMMA BlockGone ==
  ASSUME IInv, NEW t \in Thread, Holds(t), ~Holds(t)', live' = live,
         \A u \in Thread : u # t => (Holds(u)' <=> Holds(u)) /\ Mine(u)' = Mine(u) /\ call'[u] = call[u]
  PROVE  /\ Mine(t) \in Blocks /\ Blocks' = Blocks \ {Mine(t)}
         /\ \A b \in Blocks' : b.block # call[t].block
         /\ OwnInv'
<1>1. Mine(t) \in Blocks /\ Mine(t).block = call[t].block  BY BlocksAre DEF Mine
<1>2. Mine(t) \notin Blocks'
  <2>1. Mine(t) \notin live  BY DEF IInv, OwnInv
  <2>2. \A u \in Thread : Holds(u)' => Mine(u)' # Mine(t)
    BY DEF IInv, OwnInv, Mine
  <2> QED  BY <2>1, <2>2, BlocksNext
<1>3. Blocks' = Blocks \ {Mine(t)}
  BY <1>2, BlocksAre, BlocksNext
<1>4. \A b \in Blocks' : b.block # call[t].block
  BY <1>1, <1>3 DEF IInv, OwnInv
<1>5. OwnInv'
  <2>1. \A b, c \in Blocks' : b.block = c.block => b = c  BY <1>3 DEF IInv, OwnInv
  <2>2. \A u \in Thread : Holds(u)' => Mine(u)' \notin live'  BY DEF IInv, OwnInv
  <2>3. \A u, v \in Thread : Holds(u)' /\ Holds(v)' /\ u # v => call'[u].block # call'[v].block
    BY DEF IInv, OwnInv
  <2> QED  BY <2>1, <2>2, <2>3 DEF OwnInv
<1> QED  BY <1>1, <1>3, <1>4, <1>5

LEMMA ReleasePlatformInv == ASSUME IInv, NEW t \in Thread, ReleasePlatform(t) PROVE IInv'
<1> USE DEF ReleasePlatform, Goes, stats
<1>1. /\ Holds(t) /\ ~Holds(t)' /\ live' = live /\ up
      /\ \A u \in Thread : u # t => (Holds(u)' <=> Holds(u)) /\ Mine(u)' = Mine(u) /\ call'[u] = call[u]
  BY DEF IInv, TypeOK, CallInv, EarlyInv, Holds, Holding, Mine
<1>2. /\ Mine(t) \in Blocks /\ Blocks' = Blocks \ {Mine(t)} /\ OwnInv'
      /\ \A b \in Blocks' : b.block # call[t].block
  BY <1>1, BlockGone
<1>3. ~InPool(Mine(t))  BY DEF InPool, Mine
<1>4. TypeOK'  BY DEF IInv, TypeOK, Place
<1>5. CallInv' /\ EarlyInv'  BY <1>1 DEF IInv, TypeOK, CallInv, EarlyInv
<1>6. \A b \in Blocks' : b \in Blocks /\ b # Mine(t)  BY <1>2
<1>7. /\ HeaderIntact'
      /\ \A b, c \in Blocks' : InPool(b) /\ InPool(c) /\ b # c /\ PoolFor(b) = PoolFor(c)
                                 => Apart(PlaceOf(b)', PlaceOf(c)')
      /\ \A b \in Blocks' : InPool(b) => PlaceOf(b)' = PlaceOf(b)
  <2>1. \A b \in Blocks' : InPool(b) => /\ b.block - HeaderBytes \in DOMAIN header
                                        /\ PlaceOf(b) \in reserved[PoolFor(b)]
    BY <1>6, InsidePool
  <2> QED  BY <1>6, <2>1, Carried
<1>8. ApartInv'  BY <1>7 DEF IInv, ApartInv, InPool, Within, PoolFor
<1>9. NothingLost'
  BY <1>2, <1>3, <1>7 DEF IInv, NothingLost, InPool, Within
<1>10. PlatformInv'
  BY <1>2, <1>6 DEF IInv, PlatformInv, InPool, Within
<1> QED  BY <1>2, <1>4, <1>5, <1>7, <1>8, <1>9, <1>10 DEF IInv

LEMMA ReleaseInv == ASSUME IInv, NEW t \in Thread, Release(t) PROVE IInv'
<1> USE DEF Release, Goes, stats
<1> DEFINE x == call[t].block
           h == x - HeaderBytes
           mine == Mine(t)
           p == PoolFor(mine)
<1>1. /\ Holds(t) /\ ~Holds(t)' /\ live' = live /\ up /\ x \in Int
      /\ \A u \in Thread : u # t => (Holds(u)' <=> Holds(u)) /\ Mine(u)' = Mine(u) /\ call'[u] = call[u]
  BY DEF IInv, TypeOK, CallInv, EarlyInv, Holds, Holding, Mine
<1>2. /\ mine \in Blocks /\ Blocks' = Blocks \ {mine} /\ OwnInv'
      /\ \A b \in Blocks' : b.block # x
  BY <1>1, BlockGone
<1>3. mine.block = x  BY DEF Mine
<1>4. PICK q \in Pool : /\ Within(q, x) /\ h \in DOMAIN header
                        /\ reserved' = [reserved EXCEPT ![q] =
                             @ \ {[offset |-> h - header[h].padding - Base[q], size |-> header[h].size]}]
  OBVIOUS
<1>5. InPool(mine)  BY <1>3, <1>4 DEF InPool
<1>6. q = p /\ p \in Pool
  <2>1. Within(p, x) /\ p \in Pool  BY <1>2, <1>3, <1>5, InsidePool, BlockTypes DEF IInv
  <2> QED  BY <1>1, <1>4, <2>1, PoolAssumption DEF Within
<1>7. reserved' = [reserved EXCEPT ![p] = @ \ {PlaceOf(mine)}]
  BY <1>3, <1>4, <1>6 DEF PlaceOf, PoolFor
<1>8. header[h] \in [size : Nat, padding : Nat, tag : Tag]
  BY <1>2, <1>3, <1>5, InsidePool
<1>9. header' = [y \in DOMAIN header \ {h} |-> header[y]]  OBVIOUS
<1>10. TypeOK'
  <2>1. reserved' \in [Pool -> SUBSET [offset : Nat, size : Nat]]
    BY <1>7 DEF IInv, TypeOK
  <2>2. /\ header' \in [DOMAIN header' -> [size : Nat, padding : Nat, tag : Tag]]
        /\ DOMAIN header' \subseteq Int
    BY <1>9 DEF IInv, TypeOK
  <2>3. call' \in [Thread -> [request : Request \cup {Null}, block : Int \cup {Null}, size : Nat,
                              tag : Tag \cup {Stray}]]
    BY <1>8 DEF IInv, TypeOK, Locals
  <2> QED  BY <2>1, <2>2, <2>3 DEF IInv, TypeOK, Place
<1>11. CallInv' /\ EarlyInv'
  <2>1. CallInv'  BY <1>1 DEF IInv, TypeOK, CallInv, Locals
  <2>2. EarlyInv'  BY <1>1 DEF EarlyInv
  <2> QED  BY <2>1, <2>2
<1>12. \A b \in Blocks' : b \in Blocks /\ b # mine  BY <1>2
<1>13. ASSUME NEW b \in Blocks', InPool(b)
       PROVE  /\ b.block - HeaderBytes \in DOMAIN header'
              /\ header'[b.block - HeaderBytes] = header[b.block - HeaderBytes]
              /\ PlaceOf(b) \in reserved'[PoolFor(b)]
  <2>1. /\ b.block - HeaderBytes \in DOMAIN header /\ b.block \in Int /\ PoolFor(b) \in Pool
        /\ PlaceOf(b) \in reserved[PoolFor(b)]
    BY <1>12, <1>13, InsidePool, BlockTypes DEF IInv
  <2>2. b.block - HeaderBytes # h  BY <1>1, <1>2, <2>1, Constants
  <2>3. CASE PoolFor(b) = p
    <3>1. Apart(PlaceOf(b), PlaceOf(mine))
      BY <1>2, <1>5, <1>12, <1>13, <2>3 DEF IInv, ApartInv
    <3>2. PlaceOf(b) \in [offset : Nat, size : Nat] /\ PlaceOf(b).size # 0
      <4>1. PlaceOf(b).size = Required(b.request)
        BY <1>12, <1>13 DEF IInv, HeaderIntact, PlaceOf
      <4> QED  BY <1>12, <1>13, <4>1, InsidePool, BlockTypes, RequiredBounds DEF IInv
    <3>3. PlaceOf(b) # PlaceOf(mine)  BY <3>1, <3>2 DEF Apart
    <3> QED  BY <1>6, <1>7, <1>9, <2>1, <2>2, <2>3, <3>3 DEF IInv, TypeOK
  <2>4. CASE PoolFor(b) # p
    BY <1>6, <1>7, <1>9, <2>1, <2>2, <2>4 DEF IInv, TypeOK
  <2> QED  BY <2>3, <2>4
<1>14. /\ HeaderIntact'
       /\ \A b, c \in Blocks' : InPool(b) /\ InPool(c) /\ b # c /\ PoolFor(b) = PoolFor(c)
                                  => Apart(PlaceOf(b)', PlaceOf(c)')
       /\ \A b \in Blocks' : InPool(b) => PlaceOf(b)' = PlaceOf(b)
  BY <1>12, <1>13, Carried
<1>15. \A o \in Pool : reserved'[o] \subseteq reserved[o]
  BY <1>7 DEF IInv, TypeOK
<1>16. ApartInv'  BY <1>14, <1>15 DEF IInv, ApartInv, InPool, Within, PoolFor
<1>17. NothingLost'
  <2> SUFFICES ASSUME NEW o \in Pool, NEW r \in reserved'[o]
               PROVE  \E b \in Blocks' : PoolFor(b) = o /\ InPool(b) /\ PlaceOf(b)' = r
    BY DEF NothingLost, PoolFor, InPool, Within
  <2>1. PICK b \in Blocks : PoolFor(b) = o /\ InPool(b) /\ PlaceOf(b) = r
    BY <1>15 DEF IInv, NothingLost, PoolFor
  <2>2. b # mine  BY <1>6, <1>7, <2>1 DEF IInv, TypeOK
  <2> QED  BY <1>2, <1>14, <2>1, <2>2
<1>18. PlatformInv'
  BY <1>12 DEF IInv, PlatformInv, InPool, Within
<1> QED  BY <1>2, <1>10, <1>11, <1>14, <1>16, <1>17, <1>18 DEF IInv

-----------------------------------------------------------------------------
(* A new block of a pool *)

\* A block there was lies outside of a place that has room.
LEMMA RoomIsFree ==
  ASSUME IInv, NEW p \in Pool, NEW n \in Nat \ {0}, NEW offset \in Room(p, n),
         NEW b \in Blocks, InPool(b)
  PROVE  /\ End(b) <= Base[p] + offset \/ Base[p] + offset + n <= First(b)
         /\ PoolFor(b) = p => Apart([offset |-> offset, size |-> n], PlaceOf(b))
<1> DEFINE place == [offset |-> offset, size |-> n]
<1>1. /\ offset \in Nat /\ offset + n <= PoolSize[p]
      /\ \A r \in reserved[p] : Apart(place, r)
  BY Constants DEF Room
<1>2. /\ b.block \in Int /\ b.request.size \in Nat /\ PoolFor(b) \in Pool
      /\ First(b) = b.block - HeaderBytes /\ End(b) = b.block + b.request.size
  BY BlockTypes, Constants DEF IInv, First, End
<1>3. /\ PlaceOf(b) \in reserved[PoolFor(b)] /\ PlaceOf(b) \in [offset : Nat, size : Nat]
      /\ Base[PoolFor(b)] + PlaceOf(b).offset <= First(b)
      /\ End(b) <= Base[PoolFor(b)] + PlaceOf(b).offset + PlaceOf(b).size
      /\ PlaceOf(b).offset + PlaceOf(b).size <= PoolSize[PoolFor(b)]
  BY <1>2, InsidePool
<1>4. First(b) \in Int /\ End(b) \in Int  BY <1>2, Constants
<1>5. CASE PoolFor(b) = p
  <2>1. Apart(place, PlaceOf(b))  BY <1>1, <1>3, <1>5
  <2> QED  BY <1>1, <1>2, <1>3, <1>4, <1>5, <2>1, Constants DEF Apart
<1>6. CASE PoolFor(b) # p
  <2>1. \/ Base[PoolFor(b)] + PoolSize[PoolFor(b)] <= Base[p]
        \/ Base[p] + PoolSize[p] <= Base[PoolFor(b)]
    BY <1>2, <1>6, PoolAssumption
  <2> QED  BY <1>1, <1>2, <1>3, <1>4, <1>6, <2>1, Constants
<1> QED  BY <1>5, <1>6

\* The block a call has reserved, with its header.
HeaderOf(t) == call[t].block - HeaderBytes
NewBlock(t) ==
  /\ pc'[t] = "report" /\ call'[t].block \in Int
  /\ \A b \in Blocks : InPool(b) => b.block # call'[t].block
  /\ \E p \in Pool : Within(p, call'[t].block)
  /\ HeaderOf(t)' \in DOMAIN header' /\ DOMAIN header' \subseteq DOMAIN header \cup {HeaderOf(t)'}
  /\ \A h \in DOMAIN header' : h # HeaderOf(t)' => header'[h] = header[h]
  /\ header'[HeaderOf(t)'].size = call'[t].size /\ header'[HeaderOf(t)'].tag = call'[t].tag

LEMMA ReserveInv ==
  ASSUME IInv, NEW t \in Thread, Reserve(t)
  PROVE  IInv' /\ HeadersStay /\ NewBlock(t)
<1> DEFINE r == call[t].request
           p == PoolOf(r.size)
           n == Required(r)
<1>1. PICK offset \in FirstFit(p, n) : ReserveAt(t, p, offset)  BY DEF Reserve
<1> DEFINE start == Base[p] + offset
           h == AlignUp(start, Alignment(r))
           x == h + HeaderBytes
           new == [block |-> x, request |-> r]
           place == [offset |-> offset, size |-> n]
           was == [size |-> n, padding |-> h - start, tag |-> r.tag]
<1>2. /\ pc[t] = "reserve" /\ pc' = [pc EXCEPT ![t] = "report"]
      /\ up' = up /\ consumer' = consumer /\ holder' = holder /\ platform' = platform
      /\ tagged' = tagged /\ total' = total /\ garbled' = garbled /\ live' = live
  BY DEF Reserve, Goes, stats
<1>3. /\ reserved' = [reserved EXCEPT ![p] = @ \cup {place}]
      /\ header' = Put(Overwrite(header, h, HeaderBytes), h, was)
      /\ call' = [call EXCEPT ![t] = Locals(r, x, n, r.tag)]
  BY <1>1 DEF ReserveAt
<1>4. /\ r \in Request /\ r.size \in Nat \ {0} /\ r.tag \in Tag /\ p \in Pool /\ ~Holds(t) /\ up
      /\ t \in DOMAIN pc /\ t \in DOMAIN call /\ p \in DOMAIN reserved
  BY <1>2, Constants DEF IInv, TypeOK, CallInv, EarlyInv, Holds, Holding
<1>5. /\ n \in Nat \ {0} /\ n = Alignment(r) + HeaderBytes + r.size
      /\ Alignment(r) \in Nat \ {0}
  BY <1>4, RequiredBounds
<1>6. /\ offset \in Room(p, n) /\ offset \in Nat /\ offset + n <= PoolSize[p]
      /\ \A o \in reserved[p] : Apart(place, o)
  BY <1>4, <1>5, Constants DEF FirstFit, Room
<1>7. start \in Nat /\ h \in Nat /\ start <= h /\ h < start + Alignment(r) /\ x \in Nat
  <2>1. start \in Nat  BY <1>4, <1>6, Constants
  <2>2. h \in Nat /\ start <= h /\ h < start + Alignment(r)
    BY <1>5, <2>1, AlignUpBounds
  <2> QED  BY <2>1, <2>2, Constants
<1>8. start <= h /\ x + r.size <= start + n /\ Within(p, x)
  BY <1>4, <1>5, <1>6, <1>7, Constants DEF Within
<1> HIDE DEF n, start, h, x, place
<1>9. /\ pc'[t] = "report" /\ call'[t].block = x /\ call'[t].request = r /\ x # Null
      /\ \A u \in Thread : u # t => call'[u] = call[u] /\ pc'[u] = pc[u]
  BY <1>2, <1>3, <1>4, <1>7, Constants DEF IInv, TypeOK, Locals
<1>10. Holds(t)' /\ Mine(t)' = new
  BY <1>9 DEF Holds, Holding, Mine
<1>11. \A u \in Thread : u # t => (Holds(u)' <=> Holds(u)) /\ Mine(u)' = Mine(u)
  BY <1>9 DEF Holds, Mine
<1>12. Blocks' = Blocks \cup {new}
  BY <1>2, <1>4, <1>10, <1>11, BlocksAre, BlocksNext
<1>13. /\ InPool(new) /\ PoolFor(new) = p /\ new.block = x /\ new.request = r
  BY <1>4, <1>8 DEF InPool, PoolFor
<1>14. ASSUME NEW b \in Blocks, InPool(b)
       PROVE  /\ End(b) <= start \/ start + n <= First(b)
              /\ PoolFor(b) = p => Apart(place, PlaceOf(b))
  BY <1>4, <1>5, <1>6, <1>14, RoomIsFree DEF start, place
<1>15. DOMAIN header' = {y \in DOMAIN header : ~Hit(y, h, HeaderBytes)} \cup {h}
  BY <1>3 DEF Put, Overwrite
<1>16. header'[h] = was /\ \A y \in DOMAIN header' : y # h => header'[y] = header[y]
  BY <1>3, <1>15 DEF Put, Overwrite
<1>17. ASSUME NEW b \in Blocks, InPool(b)
       PROVE  /\ b.block - HeaderBytes \in DOMAIN header'
              /\ header'[b.block - HeaderBytes] = header[b.block - HeaderBytes]
              /\ PlaceOf(b) \in reserved'[PoolFor(b)]
              /\ PlaceOf(b)' = PlaceOf(b) /\ b.block # x
  <2> DEFINE k == b.block - HeaderBytes
  <2>1. /\ b.block \in Int /\ b.request.size \in Nat \ {0} /\ PoolFor(b) \in Pool
        /\ k \in DOMAIN header /\ PlaceOf(b) \in reserved[PoolFor(b)]
        /\ First(b) = k /\ End(b) = b.block + b.request.size
    BY <1>17, InsidePool, BlockTypes, Constants DEF IInv, First, End
  <2>2. k + HeaderBytes <= h \/ x + r.size <= k
    <3>1. End(b) <= start \/ start + n <= First(b)  BY <1>14, <1>17
    <3>2. start \in Int /\ n \in Int /\ x \in Int /\ h \in Int  BY <1>5, <1>7
    <3> QED  BY <1>4, <1>8, <2>1, <3>1, <3>2, Constants
  <2>3. ~Hit(k, h, HeaderBytes) /\ k # h /\ b.block # x
    BY <1>4, <1>7, <2>1, <2>2, Constants DEF Hit, x
  <2>4. k \in DOMAIN header' /\ header'[k] = header[k]
    BY <1>15, <1>16, <2>1, <2>3
  <2>5. PlaceOf(b)' = PlaceOf(b)  BY <2>4 DEF PlaceOf
  <2>6. PlaceOf(b) \in reserved'[PoolFor(b)]
    BY <1>3, <1>4, <2>1 DEF IInv, TypeOK
  <2> QED  BY <2>3, <2>4, <2>5, <2>6
<1>18. \A b \in Blocks' : b = new => PlaceOf(b)' = place
  <2>1. x - HeaderBytes = h  BY <1>7, Constants DEF x
  <2>2. header'[h].padding = h - start /\ header'[h].size = n  BY <1>16
  <2>3. h - (h - start) - Base[p] = offset
    BY <1>4, <1>6, <1>7, Constants DEF start
  <2> QED  BY <1>13, <2>1, <2>2, <2>3 DEF PlaceOf, place, PoolFor
<1>19. place \in reserved'[p] /\ place \in [offset : Nat, size : Nat]
  BY <1>3, <1>4, <1>5, <1>6 DEF place
<1>20. TypeOK'
  <2>1. reserved' \in [Pool -> SUBSET [offset : Nat, size : Nat]]
    BY <1>3, <1>19 DEF IInv, TypeOK
  <2>2. was \in [size : Nat, padding : Nat, tag : Tag]
    BY <1>4, <1>5, <1>7
  <2>3. DOMAIN header' \subseteq Int /\ header' \in [DOMAIN header' -> [size : Nat, padding : Nat, tag : Tag]]
    <3>1. DOMAIN header' \subseteq Int  BY <1>7, <1>15 DEF IInv, TypeOK
    <3>2. \A y \in DOMAIN header' : header'[y] \in [size : Nat, padding : Nat, tag : Tag]
      BY <1>15, <1>16, <2>2 DEF IInv, TypeOK
    <3>3. header' = [y \in DOMAIN header' |-> header'[y]]  BY <1>3 DEF Put
    <3> QED  BY <3>1, <3>2, <3>3
  <2>4. call' \in [Thread -> [request : Request \cup {Null}, block : Int \cup {Null}, size : Nat,
                              tag : Tag \cup {Stray}]]
    BY <1>3, <1>4, <1>5, <1>7 DEF IInv, TypeOK, Locals
  <2> QED  BY <1>2, <2>1, <2>3, <2>4 DEF IInv, TypeOK, Place
<1>21. CallInv' /\ EarlyInv'
  <2>1. CallInv'  BY <1>4, <1>9 DEF IInv, TypeOK, CallInv
  <2>2. EarlyInv'  BY <1>2, <1>4 DEF EarlyInv
  <2> QED  BY <2>1, <2>2
<1>22. \A b \in Blocks : b.block # x
  <2>1. \A b \in Blocks : InPool(b) => b.block # x  BY <1>17
  <2>2. \A b \in Blocks : b.block = x => InPool(b)  BY <1>4, <1>8 DEF InPool
  <2> QED  BY <2>1, <2>2
<1>23. HeaderIntact'
  <2> SUFFICES ASSUME NEW b \in Blocks', InPool(b)
               PROVE  LET k == b.block - HeaderBytes
                          o == PoolOf(b.request.size)
                      IN  /\ k \in DOMAIN header' /\ header'[k].size = Required(b.request)
                          /\ PlaceOf(b)' \in reserved'[o]
                          /\ Base[o] + PlaceOf(b)'.offset <= k
                          /\ b.block + b.request.size <= Base[o] + PlaceOf(b)'.offset + PlaceOf(b)'.size
                          /\ Within(o, b.block)
    BY DEF HeaderIntact, InPool, Within
  <2>1. CASE b \in Blocks
    BY <1>17, <2>1 DEF IInv, HeaderIntact, PoolFor
  <2>2. CASE b = new
    <3>1. b.block - HeaderBytes = h  BY <1>7, <2>2, Constants DEF x
    <3>2. h \in DOMAIN header' /\ header'[h].size = Required(r)  BY <1>15, <1>16 DEF n
    <3>3. place.offset = offset /\ place.size = n  BY DEF place
    <3>4. Base[p] + offset <= h /\ x + r.size <= Base[p] + offset + n
      BY <1>8 DEF start
    <3> QED  BY <1>8, <1>13, <1>18, <1>19, <2>2, <3>1, <3>2, <3>3, <3>4 DEF PoolFor
  <2> QED  BY <1>12, <2>1, <2>2
<1>24. ApartInv'
  <2>1. ASSUME NEW b \in Blocks', NEW c \in Blocks', InPool(b), InPool(c), b # c, PoolFor(b) = PoolFor(c)
        PROVE  Apart(PlaceOf(b)', PlaceOf(c)')
    <3>1. CASE b \in Blocks /\ c \in Blocks
      BY <1>17, <2>1, <3>1 DEF IInv, ApartInv
    <3>2. CASE b = new /\ c \in Blocks
      BY <1>13, <1>14, <1>17, <1>18, <2>1, <3>2
    <3>3. CASE b \in Blocks /\ c = new
      <4>1. Apart(place, PlaceOf(b))  BY <1>13, <1>14, <2>1, <3>3
      <4>2. Apart(PlaceOf(b), place)  BY <4>1 DEF Apart
      <4> QED  BY <1>17, <1>18, <2>1, <3>3, <4>2
    <3> QED  BY <1>12, <2>1, <3>1, <3>2, <3>3
  <2>2. \A q \in Pool : \A o \in reserved'[q] : o.offset + o.size <= PoolSize[q]
    BY <1>3, <1>6 DEF IInv, ApartInv, TypeOK, place
  <2> QED  BY <2>1, <2>2 DEF ApartInv, InPool, Within, PoolFor
<1>25. NothingLost'
  <2> SUFFICES ASSUME NEW q \in Pool, NEW o \in reserved'[q]
               PROVE  \E b \in Blocks' : PoolFor(b) = q /\ InPool(b) /\ PlaceOf(b)' = o
    BY DEF NothingLost, PoolFor, InPool, Within
  <2>1. CASE o \in reserved[q]
    <3>1. PICK b \in Blocks : PoolFor(b) = q /\ InPool(b) /\ PlaceOf(b) = o
      BY <2>1 DEF IInv, NothingLost, PoolFor
    <3> QED  BY <1>12, <1>17, <3>1
  <2>2. CASE o = place /\ q = p
    BY <1>12, <1>13, <1>18, <2>2
  <2> QED  BY <1>3, <2>1, <2>2 DEF IInv, TypeOK
<1>26. PlatformInv'
  BY <1>2, <1>12, <1>13 DEF IInv, PlatformInv, InPool, Within
<1>27. OwnInv'
  <2>1. \A b, c \in Blocks' : b.block = c.block => b = c
    BY <1>12, <1>13, <1>22 DEF IInv, OwnInv
  <2>2. \A u \in Thread : Holds(u) => Mine(u) \in Blocks /\ Mine(u).block = call[u].block
    BY BlocksAre DEF Mine
  <2>3. new \notin live  BY <1>13, <1>22, BlocksAre
  <2>4. \A u \in Thread : Holds(u)' => Mine(u)' \notin live'
    BY <1>2, <1>10, <1>11, <2>3 DEF IInv, OwnInv
  <2>5. \A u, v \in Thread : Holds(u)' /\ Holds(v)' /\ u # v => call'[u].block # call'[v].block
    BY <1>9, <1>11, <1>22, <2>2 DEF IInv, OwnInv
  <2> QED  BY <2>1, <2>4, <2>5 DEF OwnInv
<1>28. NewBlock(t)
  <2>1. HeaderOf(t)' = h  BY <1>7, <1>9, Constants DEF HeaderOf, x
  <2>2. call'[t].size = n /\ call'[t].tag = r.tag
    BY <1>3, <1>4 DEF IInv, TypeOK, Locals
  <2>3. header'[h].size = n /\ header'[h].tag = r.tag  BY <1>16
  <2>4. h \in DOMAIN header' /\ DOMAIN header' \subseteq DOMAIN header \cup {h}  BY <1>15
  <2> QED  BY <1>4, <1>7, <1>8, <1>9, <1>16, <1>22, <2>1, <2>2, <2>3, <2>4 DEF NewBlock
<1>29. HeadersStay  BY <1>17 DEF HeadersStay
<1> QED  BY <1>20, <1>21, <1>23, <1>24, <1>25, <1>26, <1>27, <1>28, <1>29 DEF IInv

-----------------------------------------------------------------------------
LEMMA NextInv == IInv /\ [Next]_vars => IInv'
<1> SUFFICES ASSUME IInv, [Next]_vars PROVE IInv'  OBVIOUS
<1>1. CASE Start  BY <1>1, StartInv
<1>2. CASE Watch  BY <1>2, WatchInv
<1>3. ASSUME NEW r \in Request, AllocateEarly(r) PROVE IInv'  BY <1>3, AllocateEarlyInv
<1>4. ASSUME NEW r \in Request, NEW t \in Thread, AllocateCall(t, r) PROVE IInv'
  BY <1>4, AllocateCallInv
<1>5. ASSUME NEW l \in live, FreeEarly(l) PROVE IInv'  BY <1>5, FreeEarlyInv
<1>6. ASSUME NEW l \in live, NEW t \in Thread, FreeCall(t, l) PROVE IInv'
  BY <1>6, FreeCallInv
<1>7. ASSUME NEW t \in Thread, Step(t) PROVE IInv'
  BY <1>7, ReserveInv, LogsUnderMutexInv, FallBackInv, ReportInv, ZeroInv, ReturnsNullInv,
     ReleaseInv, ReleasePlatformInv, UnreportInv
  DEF Step
<1>8. CASE UNCHANGED vars  BY <1>8, StutterInv
<1> QED  BY <1>1, <1>2, <1>3, <1>4, <1>5, <1>6, <1>7, <1>8 DEF Next

LEMMA Invariance == Spec => []IInv
BY InitInv, NextInv, PTL DEF Spec

-----------------------------------------------------------------------------
(* The sums of the statistics, in a step *)

\* What is counted for one call, and for one header.
Owing(place, g, t) == IF pc[t] = place /\ call[t].tag = g THEN call[t].size ELSE 0
Worth(hs, g, h) == IF hs[h].tag = g THEN hs[h].size ELSE 0
SumOfSizes(hs, g) == SumFunctionOnSet([h \in DOMAIN hs |-> Worth(hs, g, h)], DOMAIN hs)

LEMMA BetweenIs ==
  \A place, g : Between(place, g) = SumFunctionOnSet([t \in Thread |-> Owing(place, g, t)], Thread)
BY DEF Between, SumFunction, Owing

LEMMA MeasuredIs == \A g : Measured(g) = SumOfSizes(header, g)
BY DEF Measured, SumFunction, SumOfSizes, Worth

LEMMA MeasuredNext == \A g : Measured(g)' = SumOfSizes(header', g)
BY DEF Measured, SumFunction, SumOfSizes, Worth

LEMMA OwingType ==
  ASSUME TypeOK, NEW place, NEW g, NEW t \in Thread
  PROVE  Owing(place, g, t) \in Int
BY DEF TypeOK, Owing

LEMMA BetweenType ==
  ASSUME TypeOK, NEW place, NEW g
  PROVE  Between(place, g) \in Int
<1> DEFINE f == [t \in Thread |-> Owing(place, g, t)]
<1>1. Numbers(f, Thread)
  BY OwingType DEF Numbers
<1> HIDE DEF f
<1>2. SumFunctionOnSet(f, Thread) \in Int
  BY <1>1, FiniteAssumption, SumType
<1> QED  BY <1>2, BetweenIs DEF f

\* A step of one call changes the sum by what it changes for that call.
LEMMA BetweenChanges ==
  ASSUME TypeOK, TypeOK', NEW place, NEW g, NEW t \in Thread,
         \A u \in Thread : u # t => Owing(place, g, u)' = Owing(place, g, u)
  PROVE  Between(place, g)' = Between(place, g) + Owing(place, g, t)' - Owing(place, g, t)
<1> DEFINE e == [u \in Thread |-> Owing(place, g, u)]
           f == [u \in Thread |-> Owing(place, g, u)']
<1>1. Numbers(e, Thread)
  BY OwingType DEF Numbers
<1>2. Numbers(f, Thread)
  <2>1. \A u \in Thread : Owing(place, g, u)' \in Int
    BY DEF TypeOK, Owing
  <2> QED  BY <2>1 DEF Numbers
<1>3. \A u \in Thread \ {t} : e[u] = f[u]
  OBVIOUS
<1>4. e[t] = Owing(place, g, t) /\ f[t] = Owing(place, g, t)'
  OBVIOUS
<1>5. Between(place, g) = SumFunctionOnSet(e, Thread)
  BY BetweenIs
<1>6. Between(place, g)' = SumFunctionOnSet(f, Thread)
  BY DEF Between, SumFunction, Owing
<1> HIDE DEF e, f
<1>7. SumFunctionOnSet(f, Thread) = SumFunctionOnSet(e, Thread) + f[t] - e[t]
  BY <1>1, <1>2, <1>3, FiniteAssumption, SumChanged
<1> QED  BY <1>4, <1>5, <1>6, <1>7

LEMMA BetweenSame ==
  ASSUME NEW place, NEW g, \A u \in Thread : Owing(place, g, u)' = Owing(place, g, u)
  PROVE  Between(place, g)' = Between(place, g)
<1> DEFINE e == [u \in Thread |-> Owing(place, g, u)]
           f == [u \in Thread |-> Owing(place, g, u)']
<1>1. e = f
  OBVIOUS
<1>2. Between(place, g) = SumFunctionOnSet(e, Thread)
  BY BetweenIs
<1>3. Between(place, g)' = SumFunctionOnSet(f, Thread)
  BY DEF Between, SumFunction, Owing
<1> QED  BY <1>1, <1>2, <1>3

Headers(hs) ==
  IsFiniteSet(DOMAIN hs) /\ \A h \in DOMAIN hs : hs[h].size \in Nat

LEMMA SizesType ==
  ASSUME NEW hs, Headers(hs), NEW g
  PROVE  /\ Numbers([h \in DOMAIN hs |-> Worth(hs, g, h)], DOMAIN hs)
         /\ SumOfSizes(hs, g) \in Int
<1> DEFINE f == [h \in DOMAIN hs |-> Worth(hs, g, h)]
<1>1. Numbers(f, DOMAIN hs)
  BY DEF Numbers, Worth, Headers
<1> HIDE DEF f
<1>2. SumFunctionOnSet(f, DOMAIN hs) \in Int
  BY <1>1, SumType DEF Headers
<1> QED  BY <1>1, <1>2 DEF SumOfSizes, f

\* A header more adds its size.
LEMMA SizesGrow ==
  ASSUME NEW hs, NEW ks, Headers(hs), Headers(ks), NEW k, k \notin DOMAIN hs,
         DOMAIN ks = DOMAIN hs \cup {k}, \A h \in DOMAIN hs : ks[h] = hs[h], NEW g
  PROVE  SumOfSizes(ks, g) = SumOfSizes(hs, g) + Worth(ks, g, k)
<1> DEFINE D == DOMAIN hs
           e == [h \in DOMAIN hs |-> Worth(hs, g, h)]
           f == [h \in DOMAIN ks |-> Worth(ks, g, h)]
<1>1. Numbers(f, D \cup {k}) /\ IsFiniteSet(D)
  BY SizesType DEF Headers
<1>2. \A h \in D : f[h] = e[h]
  BY DEF Worth
<1>3. f[k] = Worth(ks, g, k)
  OBVIOUS
<1>4. SumOfSizes(hs, g) = SumFunctionOnSet(e, D) /\ SumOfSizes(ks, g) = SumFunctionOnSet(f, D \cup {k})
  BY DEF SumOfSizes
<1>5. k \notin D
  OBVIOUS
<1> HIDE DEF D, e, f
<1>6. SumFunctionOnSet(f, D) = SumFunctionOnSet(e, D)
  BY <1>1, <1>2, SumSame
<1>7. SumFunctionOnSet(f, D \cup {k}) = SumFunctionOnSet(f, D) + f[k]
  BY <1>1, <1>5, SumWith
<1> QED  BY <1>3, <1>4, <1>6, <1>7

LEMMA HeadersAre == TypeOK /\ OwnedInv => Headers(header)
BY DEF TypeOK, OwnedInv, Headers

LEMMA HeadersNext == TypeOK' /\ OwnedInv' => Headers(header')
BY DEF TypeOK, OwnedInv, Headers

-----------------------------------------------------------------------------
(* The numbers a step may change *)

\* What a step adds on one side of the balance it adds on the other.
LEMMA BalanceMoves ==
  ASSUME TypeOK, TypeOK', NEW t \in Thread, NEW g \in Tag,
         \A u \in Thread : u # t => pc'[u] = pc[u] /\ call'[u] = call[u],
         NEW m \in Int, Measured(g) \in Int, Measured(g)' = Measured(g) + m,
         tagged'[g] + Owing("report", g, t)' - Owing("report", g, t)
           = tagged[g] + m + Owing("unreport", g, t)' - Owing("unreport", g, t),
         tagged[g] + Between("report", g) = Measured(g) + Between("unreport", g)
  PROVE  tagged'[g] + Between("report", g)' = Measured(g)' + Between("unreport", g)'
<1>1. \A place : \A u \in Thread : u # t => Owing(place, g, u)' = Owing(place, g, u)
  BY DEF Owing
<1>2. /\ Between("report", g)' = Between("report", g) + Owing("report", g, t)' - Owing("report", g, t)
      /\ Between("unreport", g)'
           = Between("unreport", g) + Owing("unreport", g, t)' - Owing("unreport", g, t)
  BY <1>1, BetweenChanges
<1>3. PICK a \in Int, b \in Int : a = Between("report", g) /\ b = Between("unreport", g)
  BY BetweenType
<1>4. PICK c \in Int, d \in Int : c = Owing("report", g, t) /\ d = Owing("unreport", g, t)
  BY OwingType
<1>5. PICK e \in Int, f \in Int : e = Owing("report", g, t)' /\ f = Owing("unreport", g, t)'
  BY DEF TypeOK, Owing
<1>6. PICK x \in Int, y \in Int : x = tagged[g] /\ y = tagged'[g]
  BY DEF TypeOK
<1>7. PICK z \in Int : z = Measured(g)
  OBVIOUS
<1>8. Between("report", g)' = a + e - c /\ Between("unreport", g)' = b + f - d /\ Measured(g)' = z + m
  BY <1>2, <1>3, <1>4, <1>5, <1>7
<1>9. y + e - c = x + m + f - d /\ x + a = z + b
  BY <1>3, <1>4, <1>5, <1>6, <1>7
<1>10. y + (a + e - c) = z + m + (b + f - d)
  BY <1>9
<1> QED  BY <1>6, <1>8, <1>10

\* A step that counts nothing and is in no place where something is counted.
LEMMA QuietBalance ==
  ASSUME StatsBalance, UNCHANGED <<header, tagged, total, garbled>>,
         \A u \in Thread : \A g \in Tag : /\ Owing("report", g, u)' = Owing("report", g, u)
                                          /\ Owing("unreport", g, u)' = Owing("unreport", g, u)
  PROVE  StatsBalance'
<1>1. \A g \in Tag : Measured(g)' = Measured(g)
  BY MeasuredIs, MeasuredNext
<1>2. \A g \in Tag : /\ Between("report", g)' = Between("report", g)
                     /\ Between("unreport", g)' = Between("unreport", g)
  BY BetweenSame
<1>3. ASSUME ~garbled' PROVE StatsBalance'
  <2>1. ~garbled
    BY <1>3, Zenon
  <2> QED  BY <1>1, <1>2, <2>1 DEF StatsBalance
<1> QED  BY <1>3 DEF StatsBalance

\* The headers stay somebody's where none comes and no owner goes.
LEMMA OwnedKept ==
  ASSUME OwnedInv, DOMAIN header' \subseteq DOMAIN header, up' = up,
         \A h \in DOMAIN header' : Somebodys(h + HeaderBytes) => Somebodys(h + HeaderBytes)'
  PROVE  OwnedInv'
<1>1. IsFiniteSet(DOMAIN header')
  BY FS_Subset DEF OwnedInv
<1>2. \A h \in DOMAIN header' : Somebodys(h + HeaderBytes)' /\ \E p \in Pool : Within(p, h + HeaderBytes)
  BY DEF OwnedInv
<1>3. ~up' => DOMAIN header' = {}
  BY DEF OwnedInv
<1> QED  BY <1>1, <1>2, <1>3 DEF OwnedInv, Within

\* Nobody loses a block.
LEMMA OwnersStay ==
  ASSUME live \subseteq live',
         \A u \in Thread : Holds(u) => \/ Holds(u)' /\ call'[u].block = call[u].block
                                       \/ \E l \in live' : l.block = call[u].block
  PROVE  \A x : Somebodys(x) => Somebodys(x)'
BY DEF Somebodys

LEMMA StartBalance == BInv /\ Start => OwnedInv' /\ StrayInv' /\ StatsBalance'
<1> SUFFICES ASSUME BInv, Start PROVE OwnedInv' /\ StrayInv' /\ StatsBalance'
  OBVIOUS
<1> USE DEF Start, memory, stats
<1>1. \A u \in Thread : (Holds(u) => Holds(u)') /\ call'[u].block = call[u].block
  BY DEF Holds
<1>2. \A h \in DOMAIN header' : Somebodys(h + HeaderBytes) => Somebodys(h + HeaderBytes)'
  BY <1>1, OwnersStay
<1>3. OwnedInv'
  BY <1>1, <1>2 DEF BInv, OwnedInv, Within
<1>4. StrayInv'
  BY DEF BInv, StrayInv
<1>5. \A u \in Thread : \A g \in Tag : /\ Owing("report", g, u)' = Owing("report", g, u)
                                       /\ Owing("unreport", g, u)' = Owing("unreport", g, u)
  BY DEF Owing
<1> QED  BY <1>3, <1>4, <1>5, QuietBalance DEF BInv

\* What a step that leaves every call and every block alone keeps.
LEMMA IdleBalance ==
  ASSUME BInv, UNCHANGED <<up, header, tagged, total, garbled, live, pc, call>>
  PROVE  OwnedInv' /\ StrayInv' /\ StatsBalance'
<1>1. \A u \in Thread : (Holds(u) => Holds(u)') /\ call'[u].block = call[u].block
  BY DEF Holds
<1>2. OwnedInv'
  BY <1>1, OwnersStay, OwnedKept DEF BInv
<1>3. StrayInv'
  BY DEF BInv, StrayInv
<1>4. \A u \in Thread : \A g \in Tag : /\ Owing("report", g, u)' = Owing("report", g, u)
                                       /\ Owing("unreport", g, u)' = Owing("unreport", g, u)
  BY DEF Owing
<1> QED  BY <1>2, <1>3, <1>4, QuietBalance DEF BInv

\* A call goes on, with the block it has, and what it owes.
LEMMA QuietCall ==
  ASSUME BInv, NEW t \in Thread, UNCHANGED <<up, header, tagged, total, garbled>>, live \subseteq live',
         \A u \in Thread : u # t => pc'[u] = pc[u] /\ call'[u] = call[u],
         Holds(t) => \/ Holds(t)' /\ call'[t].block = call[t].block
                     \/ \E l \in live' : l.block = call[t].block,
         pc'[t] # "release",
         \A g \in Tag : /\ Owing("report", g, t)' = Owing("report", g, t)
                        /\ Owing("unreport", g, t)' = Owing("unreport", g, t)
  PROVE  OwnedInv' /\ StrayInv' /\ StatsBalance'
<1>1. \A u \in Thread : Holds(u) => \/ Holds(u)' /\ call'[u].block = call[u].block
                                    \/ \E l \in live' : l.block = call[u].block
  BY DEF Holds
<1>2. OwnedInv'
  BY <1>1, OwnersStay, OwnedKept DEF BInv
<1>3. StrayInv'
  BY DEF BInv, StrayInv
<1>4. \A u \in Thread : \A g \in Tag : /\ Owing("report", g, u)' = Owing("report", g, u)
                                       /\ Owing("unreport", g, u)' = Owing("unreport", g, u)
  BY DEF Owing
<1> QED  BY <1>2, <1>3, <1>4, QuietBalance DEF BInv

LEMMA AllocateEarlyBalance ==
  ASSUME BInv, NEW r \in Request, AllocateEarly(r) PROVE OwnedInv' /\ StrayInv' /\ StatsBalance'
<1> USE DEF AllocateEarly, stats
<1>1. \A u \in Thread : (Holds(u) => Holds(u)') /\ call'[u].block = call[u].block
  BY DEF Holds
<1>2. live \subseteq live'
  OBVIOUS
<1>3. OwnedInv'
  BY <1>1, <1>2, OwnersStay, OwnedKept DEF BInv
<1>4. StrayInv'
  BY DEF BInv, StrayInv
<1>5. \A u \in Thread : \A g \in Tag : /\ Owing("report", g, u)' = Owing("report", g, u)
                                       /\ Owing("unreport", g, u)' = Owing("unreport", g, u)
  BY DEF Owing
<1> QED  BY <1>3, <1>4, <1>5, QuietBalance DEF BInv

\* Before memory_system_init there are no headers.
LEMMA FreeEarlyBalance ==
  ASSUME BInv, NEW l \in live, FreeEarly(l) PROVE OwnedInv' /\ StrayInv' /\ StatsBalance'
<1> USE DEF FreeEarly, stats
<1>1. DOMAIN header = {}
  BY DEF BInv, OwnedInv
<1>2. OwnedInv'
  BY <1>1, OwnedKept DEF BInv
<1>3. StrayInv'
  BY DEF BInv, StrayInv
<1>4. \A u \in Thread : \A g \in Tag : /\ Owing("report", g, u)' = Owing("report", g, u)
                                       /\ Owing("unreport", g, u)' = Owing("unreport", g, u)
  BY DEF Owing
<1> QED  BY <1>2, <1>3, <1>4, QuietBalance DEF BInv

LEMMA AllocateCallBalance ==
  ASSUME BInv, NEW t \in Thread, NEW r \in Request, AllocateCall(t, r)
  PROVE  OwnedInv' /\ StrayInv' /\ StatsBalance'
<1> USE DEF Locals, AllocateCall, Goes, memory, stats
<1>1. /\ pc[t] = "idle" /\ pc'[t] = "reserve" /\ ~Holds(t)
      /\ \A u \in Thread : u # t => pc'[u] = pc[u] /\ call'[u] = call[u]
  BY DEF BInv, IInv, TypeOK, Holds, Holding
<1>2. \A g : /\ Owing("report", g, t)' = Owing("report", g, t)
             /\ Owing("unreport", g, t)' = Owing("unreport", g, t)
  BY <1>1 DEF Owing
<1> QED  BY <1>1, <1>2, QuietCall

LEMMA LogsUnderMutexBalance ==
  ASSUME BInv, NEW t \in Thread, LogsUnderMutex(t)
  PROVE  OwnedInv' /\ StrayInv' /\ StatsBalance'
<1> USE DEF LogsUnderMutex, Goes, memory, stats
<1>1. /\ pc[t] = "reserve" /\ pc'[t] = "relock" /\ ~Holds(t)
      /\ \A u \in Thread : u # t => pc'[u] = pc[u] /\ call'[u] = call[u]
  BY DEF BInv, IInv, TypeOK, Holds, Holding
<1>2. \A g : /\ Owing("report", g, t)' = Owing("report", g, t)
             /\ Owing("unreport", g, t)' = Owing("unreport", g, t)
  BY <1>1 DEF Owing
<1> QED  BY <1>1, <1>2, QuietCall

\* What the platform gives is counted with size 0.
LEMMA FallBackBalance ==
  ASSUME BInv, NEW t \in Thread, FallBack(t)
  PROVE  OwnedInv' /\ StrayInv' /\ StatsBalance'
<1> USE DEF Locals, FallBack, Goes, stats
<1>1. /\ pc[t] = "reserve" /\ pc'[t] = "report" /\ ~Holds(t)
      /\ \A u \in Thread : u # t => pc'[u] = pc[u] /\ call'[u] = call[u]
  BY DEF BInv, IInv, TypeOK, Holds, Holding
<1>2. call'[t].size = 0
  BY DEF BInv, IInv, TypeOK
<1>3. \A g : /\ Owing("report", g, t)' = Owing("report", g, t)
             /\ Owing("unreport", g, t)' = Owing("unreport", g, t)
  BY <1>1, <1>2 DEF Owing
<1> QED  BY <1>1, <1>3, QuietCall

LEMMA ReturnsNullBalance ==
  ASSUME BInv, NEW t \in Thread, ReturnsNull(t)
  PROVE  OwnedInv' /\ StrayInv' /\ StatsBalance'
<1> USE DEF ReturnsNull, Returns, Goes, memory, stats
<1>1. /\ pc[t] = "zero" /\ pc'[t] = "idle" /\ ~Holds(t)
      /\ \A u \in Thread : u # t => pc'[u] = pc[u] /\ call'[u] = call[u]
  BY DEF BInv, IInv, TypeOK, Holds, Holding
<1>2. \A g : /\ Owing("report", g, t)' = Owing("report", g, t)
             /\ Owing("unreport", g, t)' = Owing("unreport", g, t)
  BY <1>1 DEF Owing
<1> QED  BY <1>1, <1>2, QuietCall

\* Each header is in front of a block of a pool.
LEMMA HeaderOfBlock ==
  ASSUME BInv, NEW h \in DOMAIN header
  PROVE  \E b \in Blocks : InPool(b) /\ b.block = h + HeaderBytes /\ b.block - HeaderBytes = h
<1>1. Somebodys(h + HeaderBytes) /\ \E p \in Pool : Within(p, h + HeaderBytes)
  BY DEF BInv, OwnedInv
<1>2. PICK b \in Blocks : b.block = h + HeaderBytes
  <2>1. CASE \E l \in live : l.block = h + HeaderBytes
    BY <2>1, BlocksAre
  <2>2. ASSUME NEW t \in Thread, Holds(t), call[t].block = h + HeaderBytes
        PROVE  \E b \in Blocks : b.block = h + HeaderBytes
    <3>1. Mine(t) \in Blocks /\ Mine(t).block = call[t].block
      BY <2>2, BlocksAre DEF Mine
    <3> QED  BY <2>2, <3>1
  <2> QED  BY <1>1, <2>1, <2>2 DEF Somebodys
<1>3. h \in Int /\ HeaderBytes \in Nat
  BY Constants DEF BInv, IInv, TypeOK
<1>4. h + HeaderBytes - HeaderBytes = h
  BY <1>3
<1>5. InPool(b)
  <2>1. PICK p \in Pool : Within(p, h + HeaderBytes)
    BY <1>1
  <2>2. Within(p, b.block)
    BY <1>2, <2>1
  <2> QED  BY <2>2 DEF InPool
<1>6. b.block - HeaderBytes = h
  <2>1. PICK y \in Int : y = h + HeaderBytes
    BY <1>3
  <2>2. b.block = y /\ y - HeaderBytes = h
    BY <1>2, <1>3, <2>1
  <2> QED  BY <2>2
<1> QED  BY <1>2, <1>5, <1>6

\* No header is lost to what a call writes.
LEMMA HeadersSurvive ==
  ASSUME BInv, HeadersStay
  PROVE  \A h \in DOMAIN header : h \in DOMAIN header' /\ header'[h] = header[h]
BY HeaderOfBlock DEF HeadersStay

LEMMA ZeroBalance ==
  ASSUME BInv, NEW t \in Thread, Zero(t)
  PROVE  OwnedInv' /\ StrayInv' /\ StatsBalance'
<1>1. /\ pc[t] = "zero" /\ pc'[t] = "idle" /\ up' = up
      /\ tagged' = tagged /\ total' = total /\ garbled' = garbled
      /\ live' = live \cup {[block |-> call[t].block, request |-> call[t].request]}
      /\ \A u \in Thread : u # t => pc'[u] = pc[u] /\ call'[u] = call[u]
  BY DEF Zero, Returns, Goes, stats, BInv, IInv, TypeOK
<1>2. \A h \in DOMAIN header : h \in DOMAIN header' /\ header'[h] = header[h]
  BY ZeroInv, HeadersSurvive DEF BInv
<1>3. header' = header
  <2>1. DOMAIN header' \subseteq DOMAIN header /\ header' = [h \in DOMAIN header' |-> header'[h]]
    BY DEF Zero, Overwrite
  <2>2. DOMAIN header' = DOMAIN header
    BY <1>2, <2>1
  <2>3. header = [h \in DOMAIN header |-> header[h]]
    BY DEF BInv, IInv, TypeOK
  <2> QED  BY <1>2, <2>1, <2>2, <2>3
<1>4. \A g : /\ Owing("report", g, t)' = Owing("report", g, t)
             /\ Owing("unreport", g, t)' = Owing("unreport", g, t)
  BY <1>1 DEF Owing
<1>5. live \subseteq live' /\ \E l \in live' : l.block = call[t].block
  <2>1. PICK l : l = [block |-> call[t].block, request |-> call[t].request]
    OBVIOUS
  <2>2. live' = live \cup {l} /\ l.block = call[t].block
    BY <1>1, <2>1
  <2> QED  BY <2>2
<1> QED  BY <1>1, <1>3, <1>4, <1>5, QuietCall

\* A block that is freed goes from the callers to the call.
LEMMA FreeCallBalance ==
  ASSUME BInv, NEW t \in Thread, NEW l \in live, FreeCall(t, l)
  PROVE  OwnedInv' /\ StrayInv' /\ StatsBalance'
<1> USE DEF Locals, FreeCall, Goes, memory, stats
<1>1. /\ pc[t] = "idle" /\ pc'[t] = "release" /\ ~Holds(t)
      /\ call'[t].block = l.block /\ call'[t].tag = Stray
      /\ \A u \in Thread : u # t => pc'[u] = pc[u] /\ call'[u] = call[u]
  BY DEF BInv, IInv, TypeOK, Holds, Holding
<1>2. Holds(t)'
  <2>1. l.block \in Int
    BY DEF BInv, IInv, TypeOK
  <2> QED  BY <1>1, <2>1, Constants DEF Holds, Holding
<1>3. ASSUME NEW x, Somebodys(x) PROVE Somebodys(x)'
  <2>1. CASE \E k \in live : k.block = x
    <3>1. PICK k \in live : k.block = x
      BY <2>1
    <3>2. CASE k = l
      BY <1>1, <1>2, <3>1, <3>2 DEF Somebodys
    <3>3. CASE k # l
      BY <3>1, <3>3 DEF Somebodys
    <3> QED  BY <3>2, <3>3
  <2>2. ASSUME NEW u \in Thread, Holds(u), call[u].block = x PROVE Somebodys(x)'
    <3>1. u # t /\ Holds(u)' /\ call'[u].block = x
      BY <1>1, <2>2 DEF Holds
    <3> QED  BY <3>1 DEF Somebodys
  <2> QED  BY <1>3, <2>1, <2>2 DEF Somebodys
<1>4. OwnedInv'
  BY <1>3, OwnedKept DEF BInv
<1>5. StrayInv'
  BY <1>1 DEF BInv, StrayInv
<1>6. \A u \in Thread : \A g \in Tag : /\ Owing("report", g, u)' = Owing("report", g, u)
                                       /\ Owing("unreport", g, u)' = Owing("unreport", g, u)
  BY <1>1 DEF Owing
<1> QED  BY <1>4, <1>5, <1>6, QuietBalance DEF BInv

\* The owner of a block at another address stays.
LEMMA OthersKeep ==
  ASSUME NEW t \in Thread, live' = live, NEW x, x # call[t].block, Somebodys(x),
         \A u \in Thread : u # t => pc'[u] = pc[u] /\ call'[u] = call[u]
  PROVE  Somebodys(x)'
<1>1. CASE \E l \in live : l.block = x
  BY <1>1 DEF Somebodys
<1>2. ASSUME NEW u \in Thread, Holds(u), call[u].block = x PROVE Somebodys(x)'
  <2>1. u # t /\ Holds(u)' /\ call'[u].block = x
    BY <1>2 DEF Holds
  <2> QED  BY <2>1 DEF Somebodys
<1> QED  BY <1>1, <1>2 DEF Somebodys

\* A block of the platform has no header, and its size and its tag are nobody's.
LEMMA ReleasePlatformBalance ==
  ASSUME BInv, NEW t \in Thread, ReleasePlatform(t)
  PROVE  OwnedInv' /\ StrayInv' /\ StatsBalance'
<1> USE DEF ReleasePlatform, Goes, stats
<1>1. /\ pc[t] = "release" /\ pc'[t] = "unreport"
      /\ \A u \in Thread : pc'[u] = (IF u = t THEN "unreport" ELSE pc[u]) /\ call'[u] = call[u]
  BY DEF BInv, IInv, TypeOK
<1>2. ASSUME NEW h \in DOMAIN header' PROVE Somebodys(h + HeaderBytes)'
  <2>1. Somebodys(h + HeaderBytes) /\ h + HeaderBytes # call[t].block
    BY DEF BInv, OwnedInv
  <2> QED  BY <1>1, <2>1, OthersKeep
<1>3. OwnedInv'
  BY <1>2, OwnedKept DEF BInv
<1>4. StrayInv'
  BY <1>1 DEF BInv, StrayInv
<1>5. call[t].tag = Stray
  BY <1>1 DEF BInv, StrayInv
<1>6. \A u \in Thread : \A g \in Tag : /\ Owing("report", g, u)' = Owing("report", g, u)
                                       /\ Owing("unreport", g, u)' = Owing("unreport", g, u)
  BY <1>1, <1>5, PlatformAssumption DEF Owing
<1> QED  BY <1>3, <1>4, <1>6, QuietBalance DEF BInv

\* A new block brings its header, and a call that will report it.
LEMMA ReserveBalance ==
  ASSUME BInv, TypeOK', NEW t \in Thread, Reserve(t)
  PROVE  OwnedInv' /\ StrayInv' /\ StatsBalance'
<1>0. PICK k : k = HeaderOf(t)'
  OBVIOUS
<1>1. /\ pc[t] = "reserve" /\ pc'[t] = "report" /\ up' = up /\ up
      /\ tagged' = tagged /\ total' = total /\ garbled' = garbled /\ live' = live
      /\ \A u \in Thread : u # t => pc'[u] = pc[u] /\ call'[u] = call[u]
  BY DEF Reserve, ReserveAt, Goes, stats, BInv, IInv, TypeOK, EarlyInv
<1>2. NewBlock(t) /\ HeadersStay
  BY ReserveInv DEF BInv
<1>3. \A h \in DOMAIN header : h \in DOMAIN header' /\ header'[h] = header[h]
  BY <1>2, HeadersSurvive
<1>4. /\ k = call'[t].block - HeaderBytes /\ call'[t].block \in Int
      /\ k + HeaderBytes = call'[t].block /\ k \in Int
  <2>1. k = call'[t].block - HeaderBytes
    BY <1>0 DEF HeaderOf
  <2>2. call'[t].block \in Int
    BY <1>2 DEF NewBlock
  <2> QED  BY <2>1, <2>2, Constants
<1>5. k \notin DOMAIN header
  <2> SUFFICES ASSUME k \in DOMAIN header PROVE FALSE
    OBVIOUS
  <2>1. PICK b \in Blocks : InPool(b) /\ b.block = k + HeaderBytes
    BY HeaderOfBlock
  <2> QED  BY <1>2, <1>4, <2>1 DEF NewBlock
<1>6. DOMAIN header' = DOMAIN header \cup {k}
  BY <1>0, <1>2, <1>3 DEF NewBlock
<1>7. Holds(t)'
  BY <1>1, <1>4, Constants DEF Holds, Holding
<1>8. OwnedInv'
  <2>1. IsFiniteSet(DOMAIN header')
    BY <1>6, FS_AddElement DEF BInv, OwnedInv
  <2>2. Somebodys(k + HeaderBytes)' /\ \E p \in Pool : Within(p, k + HeaderBytes)
    <3>1. Somebodys(call[t].block)'
      BY <1>7 DEF Somebodys
    <3>2. \E p \in Pool : Within(p, call'[t].block)
      BY <1>2 DEF NewBlock
    <3>3. Somebodys(k + HeaderBytes)'
      BY <1>4, <3>1 DEF Somebodys
    <3> QED  BY <1>4, <3>2, <3>3
  <2>3. ASSUME NEW h \in DOMAIN header
        PROVE  Somebodys(h + HeaderBytes)' /\ \E p \in Pool : Within(p, h + HeaderBytes)
    <3>1. Somebodys(h + HeaderBytes) /\ \E p \in Pool : Within(p, h + HeaderBytes)
      BY DEF BInv, OwnedInv
    <3>2. ~Holds(t)
      BY <1>1 DEF Holds, Holding
    <3>3. \A u \in Thread : Holds(u) => Holds(u)' /\ call'[u].block = call[u].block
      BY <1>1, <3>2 DEF Holds
    <3> QED  BY <1>1, <3>1, <3>3, OwnersStay
  <2>4. \A h \in DOMAIN header' : Somebodys(h + HeaderBytes)' /\ \E p \in Pool : Within(p, h + HeaderBytes)
    <3> SUFFICES ASSUME NEW h \in DOMAIN header'
                 PROVE  Somebodys(h + HeaderBytes)' /\ \E p \in Pool : Within(p, h + HeaderBytes)
      OBVIOUS
    <3>1. CASE h \in DOMAIN header
      BY <2>3, <3>1
    <3>2. CASE h = k
      <4>1. \E p \in Pool : Within(p, h + HeaderBytes)
        BY <2>2, <3>2
      <4>2. Somebodys(h + HeaderBytes)'
        BY <2>2, <3>2 DEF Somebodys
      <4> QED  BY <4>1, <4>2
    <3> QED  BY <1>6, <3>1, <3>2
  <2> QED  BY <1>1, <2>1, <2>4 DEF OwnedInv, Within
<1>9. StrayInv'
  BY <1>1 DEF BInv, StrayInv
<1>10. StatsBalance'
  <2> SUFFICES ASSUME ~garbled'
               PROVE  /\ \A g \in Tag : tagged'[g] + Between("report", g)' = Measured(g)' + Between("unreport", g)'
                      /\ total' = SumFunction(tagged')
    BY DEF StatsBalance
  <2>1. /\ \A g \in Tag : tagged[g] + Between("report", g) = Measured(g) + Between("unreport", g)
        /\ total = SumFunction(tagged)
    <3>1. ~garbled
      BY <1>1, Zenon
    <3> QED  BY <3>1 DEF BInv, StatsBalance
  <2>2. ASSUME NEW g \in Tag
        PROVE  tagged'[g] + Between("report", g)' = Measured(g)' + Between("unreport", g)'
    <3>1. Headers(header) /\ Headers(header')
      BY <1>8, HeadersAre, HeadersNext DEF BInv, IInv
    <3>2. Measured(g)' = Measured(g) + Worth(header', g, k)
      BY <1>3, <1>5, <1>6, <3>1, SizesGrow, MeasuredIs, MeasuredNext
    <3>3. header'[k].size = call'[t].size /\ header'[k].tag = call'[t].tag
      BY <1>0, <1>2 DEF NewBlock
    <3>4. /\ Owing("report", g, t) = 0 /\ Owing("unreport", g, t) = 0 /\ Owing("unreport", g, t)' = 0
          /\ Owing("report", g, t)' = Worth(header', g, k)
      BY <1>1, <3>3 DEF Owing, Worth
    <3>5. PICK m \in Int : m = Worth(header', g, k)
      BY <1>6, <3>1 DEF Worth, Headers
    <3>6. PICK y \in Int : y = tagged[g] /\ y = tagged'[g]
      BY <1>1 DEF BInv, IInv, TypeOK
    <3>7. tagged'[g] + Owing("report", g, t)' - Owing("report", g, t)
            = tagged[g] + m + Owing("unreport", g, t)' - Owing("unreport", g, t)
      <4>1. y + m - 0 = y + m + 0 - 0
        OBVIOUS
      <4> QED  BY <3>4, <3>5, <3>6, <4>1
    <3>8. Measured(g) \in Int
      BY <3>1, SizesType, MeasuredIs
    <3> QED  BY <1>1, <2>1, <3>2, <3>5, <3>7, <3>8, BalanceMoves DEF BInv, IInv
  <2>3. total' = SumFunction(tagged')
    BY <1>1, <2>1
  <2> QED  BY <2>2, <2>3
<1> QED  BY <1>8, <1>9, <1>10

\* A free takes the header along, and will report what was in it.
LEMMA ReleaseBalance ==
  ASSUME BInv, TypeOK', NEW t \in Thread, Release(t)
  PROVE  OwnedInv' /\ StrayInv' /\ StatsBalance'
<1> DEFINE k == HeaderOf(t)
<1>1. /\ pc[t] = "release" /\ pc'[t] = "unreport" /\ up' = up
      /\ tagged' = tagged /\ total' = total /\ garbled' = garbled /\ live' = live
      /\ \A u \in Thread : u # t => pc'[u] = pc[u] /\ call'[u] = call[u]
  BY DEF Release, Goes, stats, BInv, IInv, TypeOK
<1>2. /\ k \in DOMAIN header /\ header' = [h \in DOMAIN header \ {k} |-> header[h]]
      /\ call'[t].size = header[k].size /\ call'[t].tag = header[k].tag
  <2>1. k \in DOMAIN header /\ header' = [h \in DOMAIN header \ {k} |-> header[h]]
    BY DEF Release, HeaderOf
  <2>2. call'[t] = Locals(call[t].request, call[t].block, header[k].size, header[k].tag)
    BY DEF Release, HeaderOf, BInv, IInv, TypeOK
  <2> QED  BY <2>1, <2>2 DEF Locals
<1>3. k \in Int /\ call[t].block \in Int /\ k = call[t].block - HeaderBytes
  <2>1. k \in Int
    BY <1>2 DEF BInv, IInv, TypeOK
  <2>2. call[t].block \in Int
    BY <1>1 DEF BInv, IInv, TypeOK, CallInv
  <2> QED  BY <2>1, <2>2 DEF HeaderOf
<1> HIDE DEF k
<1>4. OwnedInv'
  <2>1. ASSUME NEW h \in DOMAIN header' PROVE Somebodys(h + HeaderBytes)'
    <3>1. h \in DOMAIN header /\ h # k
      BY <1>2
    <3>2. h \in Int
      BY <3>1 DEF BInv, IInv, TypeOK
    <3>3. h + HeaderBytes # call[t].block
      BY <1>3, <3>1, <3>2, Constants
    <3>4. Somebodys(h + HeaderBytes)
      BY <3>1 DEF BInv, OwnedInv
    <3> QED  BY <1>1, <3>3, <3>4, OthersKeep
  <2>2. DOMAIN header' \subseteq DOMAIN header
    BY <1>2
  <2> QED  BY <1>1, <2>1, <2>2, OwnedKept DEF BInv
<1>5. StrayInv'
  BY <1>1 DEF BInv, StrayInv
<1>6. StatsBalance'
  <2> SUFFICES ASSUME ~garbled'
               PROVE  /\ \A g \in Tag : tagged'[g] + Between("report", g)' = Measured(g)' + Between("unreport", g)'
                      /\ total' = SumFunction(tagged')
    BY DEF StatsBalance
  <2>1. /\ \A g \in Tag : tagged[g] + Between("report", g) = Measured(g) + Between("unreport", g)
        /\ total = SumFunction(tagged)
    <3>1. ~garbled
      BY <1>1, Zenon
    <3> QED  BY <3>1 DEF BInv, StatsBalance
  <2>2. ASSUME NEW g \in Tag
        PROVE  tagged'[g] + Between("report", g)' = Measured(g)' + Between("unreport", g)'
    <3>1. Headers(header) /\ Headers(header')
      BY <1>4, HeadersAre, HeadersNext DEF BInv, IInv
    <3>2. Measured(g) = Measured(g)' + Worth(header, g, k)
      <4>1. /\ k \notin DOMAIN header' /\ DOMAIN header = DOMAIN header' \cup {k}
            /\ \A h \in DOMAIN header' : header[h] = header'[h]
        BY <1>2
      <4> QED  BY <3>1, <4>1, SizesGrow, MeasuredIs, MeasuredNext
    <3>3. /\ Owing("report", g, t) = 0 /\ Owing("report", g, t)' = 0 /\ Owing("unreport", g, t) = 0
          /\ Owing("unreport", g, t)' = Worth(header, g, k)
      BY <1>1, <1>2 DEF Owing, Worth
    <3>4. PICK m \in Int : m = Worth(header, g, k)
      BY <1>2, <3>1 DEF Worth, Headers
    <3>5. PICK y \in Int : y = tagged[g] /\ y = tagged'[g]
      BY <1>1 DEF BInv, IInv, TypeOK
    <3>6. PICK z \in Int : z = Measured(g)'
      BY <3>1, SizesType, MeasuredNext
    <3>7. PICK n \in Int : n = -m
      OBVIOUS
    <3>8. Measured(g) \in Int /\ Measured(g)' = Measured(g) + n
      <4>1. Measured(g) = z + m
        BY <3>2, <3>4, <3>6
      <4>2. z + m \in Int /\ z = (z + m) + n
        BY <3>7
      <4> QED  BY <3>6, <4>1, <4>2
    <3>9. tagged'[g] + Owing("report", g, t)' - Owing("report", g, t)
            = tagged[g] + n + Owing("unreport", g, t)' - Owing("unreport", g, t)
      <4>1. y + 0 - 0 = y + n + m - 0
        BY <3>7
      <4> QED  BY <3>3, <3>4, <3>5, <4>1
    <3> QED  BY <1>1, <2>1, <3>8, <3>9, BalanceMoves DEF BInv, IInv
  <2>3. total' = SumFunction(tagged')
    BY <1>1, <2>1
  <2> QED  BY <2>2, <2>3
<1> QED  BY <1>4, <1>5, <1>6

\* What a call reports, or takes back, is counted for its tag alone.
LEMMA CountsBalance ==
  ASSUME BInv, TypeOK', NEW t \in Thread, NEW n \in Int, Counts(n, call[t].tag), header' = header,
         \A u \in Thread : u # t => pc'[u] = pc[u] /\ call'[u] = call[u],
         \A g \in Tag :
           Owing("report", g, t) - Owing("report", g, t)'
             = (IF g = call[t].tag THEN n ELSE 0) + Owing("unreport", g, t) - Owing("unreport", g, t)'
  PROVE  StatsBalance'
<1> SUFFICES ASSUME ~garbled'
             PROVE  /\ \A g \in Tag : tagged'[g] + Between("report", g)' = Measured(g)' + Between("unreport", g)'
                    /\ total' = SumFunction(tagged')
  BY DEF StatsBalance
<1>1. ~(garbled \/ call[t].tag = Stray)
  BY Zenon DEF Counts
<1>2. tagged' = [tagged EXCEPT ![call[t].tag] = @ + n] /\ total' = total + n
  BY <1>1, Zenon DEF Counts
<1>3. /\ \A g \in Tag : tagged[g] + Between("report", g) = Measured(g) + Between("unreport", g)
      /\ total = SumFunction(tagged)
  <2>1. ~garbled
    BY <1>1, Zenon
  <2> QED  BY <2>1 DEF BInv, StatsBalance
<1>4. PICK x \in Tag : x = call[t].tag
  BY <1>1 DEF BInv, IInv, TypeOK
<1>5. /\ DOMAIN tagged = Tag /\ DOMAIN tagged' = Tag
      /\ Numbers(tagged, Tag) /\ Numbers(tagged', Tag)
  BY DEF BInv, IInv, TypeOK, Numbers
<1>6. /\ \A g \in Tag \ {x} : tagged'[g] = tagged[g]
      /\ tagged'[x] = tagged[x] + n
  BY <1>2, <1>4, <1>5
<1>7. ASSUME NEW g \in Tag
      PROVE  tagged'[g] + Between("report", g)' = Measured(g)' + Between("unreport", g)'
  <2>1. Measured(g) \in Int /\ Measured(g)' = Measured(g)
    BY HeadersAre, SizesType, MeasuredIs, MeasuredNext DEF BInv, IInv
  <2>2. PICK c \in Int, d \in Int : c = Owing("report", g, t) /\ d = Owing("unreport", g, t)
    BY OwingType DEF BInv, IInv
  <2>3. PICK e \in Int, f \in Int : e = Owing("report", g, t)' /\ f = Owing("unreport", g, t)'
    BY DEF TypeOK, Owing
  <2>4. PICK y \in Int : y = tagged[g]
    BY <1>5 DEF Numbers
  <2>5. PICK m \in Int : m = IF g = x THEN n ELSE 0
    OBVIOUS
  <2>6. tagged'[g] = y + m
    BY <1>6, <2>4, <2>5
  <2>7. c - e = m + d - f
    BY <1>4, <2>2, <2>3, <2>5
  <2>0. PICK o \in Int : o = 0
    OBVIOUS
  <2>8. tagged'[g] + Owing("report", g, t)' - Owing("report", g, t)
          = tagged[g] + o + Owing("unreport", g, t)' - Owing("unreport", g, t)
    <3>1. (y + m) + e - c = y + o + f - d
      BY <2>0, <2>7
    <3> QED  BY <2>2, <2>3, <2>4, <2>6, <3>1
  <2>9. PICK z \in Int : z = Measured(g)
    BY <2>1
  <2>10. Measured(g)' = Measured(g) + o
    BY <2>0, <2>1, <2>9
  <2> QED  BY <1>3, <2>1, <2>8, <2>10, BalanceMoves DEF BInv, IInv
<1>8. total' = SumFunction(tagged')
  <2>1. SumFunctionOnSet(tagged', Tag) = SumFunctionOnSet(tagged, Tag) + tagged'[x] - tagged[x]
    BY <1>5, <1>6, FiniteAssumption, SumChanged
  <2>2. SumFunction(tagged) = SumFunctionOnSet(tagged, Tag) /\ SumFunction(tagged') = SumFunctionOnSet(tagged', Tag)
    BY <1>5 DEF SumFunction
  <2>3. PICK y \in Int, s \in Int : y = tagged[x] /\ s = SumFunctionOnSet(tagged, Tag)
    BY <1>5, FiniteAssumption, SumType DEF Numbers
  <2>4. SumFunctionOnSet(tagged', Tag) = s + (y + n) - y
    BY <1>6, <2>1, <2>3
  <2>5. s + (y + n) - y = s + n
    OBVIOUS
  <2> QED  BY <1>2, <1>3, <2>2, <2>3, <2>4, <2>5
<1> QED  BY <1>7, <1>8

LEMMA ReportBalance ==
  ASSUME BInv, TypeOK', NEW t \in Thread, Report(t)
  PROVE  OwnedInv' /\ StrayInv' /\ StatsBalance'
<1>1. /\ pc[t] = "report" /\ pc'[t] = "zero" /\ up' = up /\ header' = header
      /\ live' = live /\ call' = call
      /\ \A u \in Thread : u # t => pc'[u] = pc[u] /\ call'[u] = call[u]
  BY DEF Report, Goes, memory, BInv, IInv, TypeOK
<1>2. \A u \in Thread : Holds(u) => Holds(u)' /\ call'[u].block = call[u].block
  BY <1>1 DEF Holds, Holding
<1>3. OwnedInv'
  BY <1>1, <1>2, OwnersStay, OwnedKept DEF BInv
<1>4. StrayInv'
  BY <1>1 DEF BInv, StrayInv
<1>5. PICK n \in Int : n = call[t].size
  BY DEF BInv, IInv, TypeOK
<1>6. Counts(n, call[t].tag)
  BY <1>5 DEF Report
<1>7. ASSUME NEW g \in Tag
      PROVE  Owing("report", g, t) - Owing("report", g, t)'
               = (IF g = call[t].tag THEN n ELSE 0) + Owing("unreport", g, t) - Owing("unreport", g, t)'
  <2>1. /\ Owing("report", g, t)' = 0 /\ Owing("unreport", g, t) = 0 /\ Owing("unreport", g, t)' = 0
        /\ Owing("report", g, t) = IF g = call[t].tag THEN n ELSE 0
    BY <1>1, <1>5 DEF Owing
  <2>2. PICK m \in Int : m = IF g = call[t].tag THEN n ELSE 0
    OBVIOUS
  <2>3. m - 0 = m + 0 - 0
    OBVIOUS
  <2> QED  BY <2>1, <2>2, <2>3
<1> QED  BY <1>1, <1>3, <1>4, <1>6, <1>7, CountsBalance

LEMMA UnreportBalance ==
  ASSUME BInv, TypeOK', NEW t \in Thread, Unreport(t)
  PROVE  OwnedInv' /\ StrayInv' /\ StatsBalance'
<1>1. /\ pc[t] = "unreport" /\ pc'[t] = "idle" /\ up' = up /\ header' = header /\ live' = live
      /\ \A u \in Thread : u # t => pc'[u] = pc[u] /\ call'[u] = call[u]
  BY DEF Unreport, Returns, Goes, memory, BInv, IInv, TypeOK
<1>2. \A u \in Thread : Holds(u) => Holds(u)' /\ call'[u].block = call[u].block
  BY <1>1 DEF Holds, Holding
<1>3. OwnedInv'
  BY <1>1, <1>2, OwnersStay, OwnedKept DEF BInv
<1>4. StrayInv'
  BY <1>1 DEF BInv, StrayInv
<1>5. PICK s \in Int : s = call[t].size
  BY DEF BInv, IInv, TypeOK
<1>6. Counts(-s, call[t].tag)
  BY <1>5 DEF Unreport
<1>7. ASSUME NEW g \in Tag
      PROVE  Owing("report", g, t) - Owing("report", g, t)'
               = (IF g = call[t].tag THEN -s ELSE 0) + Owing("unreport", g, t) - Owing("unreport", g, t)'
  <2>1. /\ Owing("report", g, t) = 0 /\ Owing("report", g, t)' = 0 /\ Owing("unreport", g, t)' = 0
        /\ Owing("unreport", g, t) = IF g = call[t].tag THEN s ELSE 0
    BY <1>1, <1>5 DEF Owing
  <2>2. 0 - 0 = (IF g = call[t].tag THEN -s ELSE 0) + (IF g = call[t].tag THEN s ELSE 0) - 0
    OBVIOUS
  <2> QED  BY <2>1, <2>2
<1>8. -s \in Int
  OBVIOUS
<1> QED  BY <1>1, <1>3, <1>4, <1>6, <1>7, <1>8, CountsBalance

LEMMA InitBalance == Init => BInv
<1> SUFFICES ASSUME Init PROVE BInv
  OBVIOUS
<1>1. DOMAIN header = {} /\ header = [h \in {} |-> NoCall]
  BY DEF Init
<1>2. OwnedInv /\ StrayInv
  BY <1>1, FS_EmptySet DEF Init, OwnedInv, StrayInv
<1>3. \A g \in Tag : tagged[g] + Between("report", g) = Measured(g) + Between("unreport", g)
  <2> SUFFICES ASSUME NEW g \in Tag
               PROVE  tagged[g] + Between("report", g) = Measured(g) + Between("unreport", g)
    OBVIOUS
  <2>1. ASSUME NEW place \in {"report", "unreport"} PROVE Between(place, g) = 0
    <3> DEFINE f == [t \in Thread |-> Owing(place, g, t)]
    <3>1. \A t \in Thread : f[t] = 0
      BY DEF Init, Owing
    <3>2. Between(place, g) = SumFunctionOnSet(f, Thread)
      BY BetweenIs
    <3> HIDE DEF f
    <3> QED  BY <3>1, <3>2, FiniteAssumption, SumOfZeros
  <2>2. Measured(g) = 0
    <3>1. Measured(g) = SumFunctionOnSet([h \in DOMAIN header |-> Worth(header, g, h)], {})
      BY <1>1, MeasuredIs DEF SumOfSizes
    <3> QED  BY <3>1, SumEmpty
  <2>3. tagged[g] = 0
    BY DEF Init
  <2> QED  BY <2>1, <2>2, <2>3
<1>4. total = SumFunction(tagged)
  <2>1. DOMAIN tagged = Tag /\ \A g \in Tag : tagged[g] = 0
    BY DEF Init
  <2>2. SumFunctionOnSet(tagged, Tag) = 0
    BY <2>1, FiniteAssumption, SumOfZeros
  <2>3. total = 0
    BY DEF Init
  <2> QED  BY <2>1, <2>2, <2>3 DEF SumFunction
<1> QED  BY <1>2, <1>3, <1>4, InitInv DEF BInv, StatsBalance

LEMMA NextBalance == BInv /\ [Next]_vars => BInv'
<1> SUFFICES ASSUME BInv, [Next]_vars PROVE BInv'
  OBVIOUS
<1>0. IInv' /\ TypeOK'
  BY NextInv DEF BInv, IInv
<1> SUFFICES OwnedInv' /\ StrayInv' /\ StatsBalance'
  BY <1>0 DEF BInv
<1>1. CASE Start  BY <1>1, StartBalance
<1>2. CASE Watch  BY <1>2, IdleBalance DEF Watch, memory, stats
<1>3. ASSUME NEW r \in Request, AllocateEarly(r) PROVE OwnedInv' /\ StrayInv' /\ StatsBalance'
  BY <1>3, AllocateEarlyBalance
<1>4. ASSUME NEW r \in Request, NEW t \in Thread, AllocateCall(t, r)
      PROVE  OwnedInv' /\ StrayInv' /\ StatsBalance'
  BY <1>4, AllocateCallBalance
<1>5. ASSUME NEW l \in live, FreeEarly(l) PROVE OwnedInv' /\ StrayInv' /\ StatsBalance'
  BY <1>5, FreeEarlyBalance
<1>6. ASSUME NEW l \in live, NEW t \in Thread, FreeCall(t, l)
      PROVE  OwnedInv' /\ StrayInv' /\ StatsBalance'
  BY <1>6, FreeCallBalance
<1>7. ASSUME NEW t \in Thread, Step(t) PROVE OwnedInv' /\ StrayInv' /\ StatsBalance'
  BY <1>0, <1>7, ReserveBalance, LogsUnderMutexBalance, FallBackBalance, ReportBalance, ZeroBalance,
     ReturnsNullBalance, ReleaseBalance, ReleasePlatformBalance, UnreportBalance
  DEF Step
<1>8. CASE UNCHANGED vars  BY <1>8, IdleBalance DEF vars
<1> QED  BY <1>1, <1>2, <1>3, <1>4, <1>5, <1>6, <1>7, <1>8 DEF Next

LEMMA Balance == Spec => []BInv
BY InitBalance, NextBalance, PTL DEF Spec

-----------------------------------------------------------------------------
(* The theorems *)

\* ymemory.c, hpha_allocator.c and dynamic_allocator.c: whatever the threads
\* allocate, zero and free, in whatever order, the header a free will read is
\* the one written when the block was reserved, and names its place.
THEOREM HeadersStaySound == Spec => []HeadersSound
<1>1. IInv => HeadersSound  BY DEF IInv, HeadersSound
<1> QED  BY <1>1, Invariance, PTL

\* No two blocks share a byte, nor a block and the header of another.
THEOREM BlocksStayApart == Spec => []BytesApart
<1>1. IInv => BytesApart  BY BytesAreApart
<1> QED  BY <1>1, Invariance, PTL

\* Everything a pool has given out belongs to a block somebody can still free.
THEOREM NothingIsLost == Spec => []NothingLost
<1>1. IInv => NothingLost  BY DEF IInv
<1> QED  BY <1>1, Invariance, PTL

\* yallocate_report and yfree_report of ymemory.c: whatever calls are between
\* the two lockings of the mutex, what is counted for a tag, with what is still
\* to be reported, is the sizes in the headers of that tag, with what is still to
\* be taken back, and the total is the sum over the tags, as long as no block of
\* the platform was freed.
THEOREM StatsStayBalanced == Spec => []StatsBalance
<1>1. BInv => StatsBalance  BY DEF BInv
<1> QED  BY <1>1, Balance, PTL
=============================================================================
