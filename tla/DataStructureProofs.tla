------------------------ MODULE DataStructureProofs ------------------------
(***************************************************************************)
(* Proofs about two data structures of the engine: the free list           *)
(* (freelist.c) over which the dynamic allocator works, and the ring queue *)
(* (ring_queue.c) in which the job system keeps its jobs.  The list comes  *)
(* first: the walk, its operations, its invariant, its theorems.  The      *)
(* queue is instantiated at the end, over variables of its own.            *)
(***************************************************************************)
EXTENDS FreeList, FiniteSetTheorems, SequenceTheorems, TLAPS

-----------------------------------------------------------------------------
(***************************************************************************)
(* Induction.  The library's induction theorems cannot be instantiated     *)
(* here; that a set of numbers has a least one says the same.              *)
(***************************************************************************)
LEMMA Least ==
  ASSUME NEW T, T \subseteq Nat, T # {}
  PROVE  \E x \in T : \A y \in T : x <= y
<1> DEFINE below == {1 .. x : x \in T}
<1>1. below \subseteq FiniteSubsetsOf(Nat)
  <2> SUFFICES ASSUME NEW x \in T PROVE 1 .. x \in FiniteSubsetsOf(Nat)
    OBVIOUS
  <2>1. x \in Int /\ 1 \in Int
    OBVIOUS
  <2>2. IsFiniteSet(1 .. x)
    BY <2>1, FS_Interval
  <2> QED  BY <2>1, <2>2 DEF FiniteSubsetsOf
<1>2. IsWellFoundedOn(StrictSubsetOrdering(Nat), FiniteSubsetsOf(Nat))
  BY FS_StrictSubsetOrderingWellFounded
<1>3. below # {}
  OBVIOUS
<1>4. PICK s \in below : \A r \in below : <<r, s>> \notin StrictSubsetOrdering(Nat)
  <2> HIDE DEF below
  <2> QED  BY <1>1, <1>2, <1>3, WFMin
<1>5. PICK x \in T : s = 1 .. x
  OBVIOUS
<1>6. ASSUME NEW y \in T, y < x PROVE FALSE
  <2>1. 1 .. y \in below /\ 1 .. y \subseteq 1 .. x /\ x \in 1 .. x /\ x \notin 1 .. y
    BY <1>6
  <2>2. <<1 .. y, s>> \in StrictSubsetOrdering(Nat)
    BY <1>5, <2>1 DEF StrictSubsetOrdering
  <2> QED  BY <1>4, <2>1, <2>2
<1> QED  BY <1>6

-----------------------------------------------------------------------------
(***************************************************************************)
(* The walk through the list: whatever sequences agree with its steps, the *)
(* last of them is the list.                                               *)
(***************************************************************************)
Start == IF head = Null THEN <<>> ELSE <<head>>
Step(s) == IF s = <<>> \/ node[Last(s)].next = Null THEN s ELSE Append(s, node[Last(s)].next)

Walks(f) == /\ f[0] = Start
            /\ \A n \in 1 .. Cardinality(Place) : f[n] = Step(f[n - 1])

LEMMA WalkIsList == Cardinality(Place) \in Nat => \A f : Walks(f) => List = f[Cardinality(Place)]
<1> SUFFICES ASSUME Cardinality(Place) \in Nat, NEW f, Walks(f) PROVE List = f[Cardinality(Place)]
  OBVIOUS
<1> DEFINE N == Cardinality(Place)
           rec(w) == [n \in 0 .. N |-> IF n = 0 THEN Start ELSE Step(w[n - 1])]
           W == CHOOSE w : w = rec(w)
           g == [n \in 0 .. N |-> f[n]]
<1>1. List = W[N]
  BY DEF List, Start, Step
<1> HIDE DEF N
<1>2. g = rec(g)
  BY DEF Walks, N
<1> HIDE DEF rec, g
<1>3. W = rec(W)
  BY <1>2
<1> HIDE DEF W
<1>4. N \in Nat /\ W[0] = f[0] /\ \A n \in 1 .. N : W[n] = Step(W[n - 1]) /\ f[n] = Step(f[n - 1])
  BY <1>3 DEF rec, Walks, N
<1> DEFINE T == {n \in 0 .. N : W[n] # f[n]}
<1>5. T = {}
  <2> SUFFICES ASSUME T # {} PROVE FALSE
    OBVIOUS
  <2>0. T \subseteq Nat
    BY <1>4
  <2>1. PICK n \in T : \A m \in T : n <= m
    <3> HIDE DEF T
    <3> QED  BY <2>0, Least
  <2>2. n # 0 /\ n - 1 \in 0 .. N /\ n \in 1 .. N
    BY <1>4, <2>1
  <2>3. W[n - 1] = f[n - 1]
    BY <2>1, <2>2
  <2> QED  BY <1>4, <2>2, <2>3
<1> QED  BY <1>1, <1>4, <1>5 DEF N

-----------------------------------------------------------------------------
(***************************************************************************)
(* A chain of nodes: the places l are linked in this order, from the head  *)
(* to a node without a next one, and none comes twice.                     *)
(***************************************************************************)
Chain(nd, h, l) ==
  /\ l \in Seq(DOMAIN nd)
  /\ h = IF l = <<>> THEN Null ELSE l[1]
  /\ \A k \in 1 .. Len(l) : nd[l[k]].next = IF k = Len(l) THEN Null ELSE l[k + 1]
  /\ \A i, k \in 1 .. Len(l) : l[i] = l[k] => i = k

\* The array has places, which are numbered, and the whole has bytes.
Numbered == /\ Cardinality(Place) \in Nat \ {0} /\ Place = 0 .. Cardinality(Place) - 1
            /\ total # 0

LEMMA ChainFits == Numbered => \A l : Chain(node, head, l) => Len(l) <= Cardinality(Place)
<1> SUFFICES ASSUME Numbered, NEW l, Chain(node, head, l) PROVE Len(l) <= Cardinality(Place)
  OBVIOUS
<1>1. l \in Injection(1 .. Len(l), Place)
  BY DEF Chain, Injection, Place, IsInjective
<1>2. Len(l) \in Nat /\ Len(l) \in Int /\ 1 \in Int
  BY DEF Chain
<1>3. IsFiniteSet(1 .. Len(l)) /\ Cardinality(1 .. Len(l)) = Len(l)
  <2>1. Cardinality(1 .. Len(l)) = IF 1 > Len(l) THEN 0 ELSE Len(l) - 1 + 1
    BY <1>2, FS_Interval
  <2>2. IsFiniteSet(1 .. Len(l))
    BY <1>2, FS_Interval
  <2> QED  BY <1>2, <2>1, <2>2
<1>4. IsFiniteSet(Place)
  <2>1. 0 \in Int /\ Cardinality(Place) - 1 \in Int /\ Place = 0 .. Cardinality(Place) - 1
    BY DEF Numbered
  <2> QED  BY <2>1, FS_Interval
<1> QED  BY <1>1, <1>3, <1>4, FS_Injection

\* The walk along a chain is the chain.
Initial(l, m) == [i \in 1 .. m |-> l[i]]

LEMMA ChainIsList == Numbered => \A l : Chain(node, head, l) => List = l
<1> SUFFICES ASSUME Numbered, NEW l, Chain(node, head, l) PROVE List = l
  OBVIOUS
<1> DEFINE N == Cardinality(Place)
           f == [n \in Nat |-> Initial(l, IF n < Len(l) THEN n + 1 ELSE Len(l))]
<1>1. N \in Nat /\ N # 0 /\ Len(l) \in Nat /\ Len(l) <= N /\ l \in Seq(Place) /\ Null \notin Place
  BY ChainFits, NullAssumption DEF Numbered, Chain, Place
<1>2. Initial(l, Len(l)) = l
  BY <1>1 DEF Initial
<1> HIDE DEF N
<1>3. f[0] = Start
  <2>1. CASE l = <<>>
    BY <1>1, <1>2, <2>1 DEF Chain, Start
  <2>2. CASE l # <<>>
    <3>1. f[0] = Initial(l, 1) /\ 0 < Len(l)
      BY <1>1, <2>2
    <3>2. Initial(l, 1) = <<l[1]>>
      BY <1>1, <3>1 DEF Initial
    <3>3. head = l[1] /\ head # Null
      BY <1>1, <2>2 DEF Chain
    <3> QED  BY <3>1, <3>2, <3>3 DEF Start
  <2> QED  BY <2>1, <2>2
<1>4. ASSUME NEW n \in 1 .. N PROVE f[n] = Step(f[n - 1])
  <2>1. n \in Nat /\ n - 1 \in Nat /\ n - 1 + 1 = n
    BY <1>1
  <2>2. CASE n < Len(l)
    <3>1. f[n] = Initial(l, n + 1) /\ f[n - 1] = Initial(l, n)
      BY <1>1, <2>1, <2>2
    <3>2. Initial(l, n) \in Seq(Place) /\ Len(Initial(l, n)) = n /\ Last(Initial(l, n)) = l[n]
          /\ Initial(l, n) # <<>>
      BY <1>1, <2>1, <2>2 DEF Initial, Last
    <3>3. node[l[n]].next = l[n + 1] /\ l[n + 1] # Null
      BY <1>1, <2>1, <2>2 DEF Chain
    <3>4. Append(Initial(l, n), l[n + 1]) = Initial(l, n + 1)
      BY <1>1, <2>1, <2>2, <3>2 DEF Initial
    <3> QED  BY <3>1, <3>2, <3>3, <3>4 DEF Step
  <2>3. CASE n >= Len(l)
    <3>1. f[n] = l
      BY <1>1, <1>2, <2>1, <2>3
    <3>2. f[n - 1] = l
      BY <1>1, <1>2, <2>1, <2>3
    <3>3. l = <<>> \/ node[Last(l)].next = Null
      BY <1>1 DEF Chain, Last
    <3> QED  BY <3>1, <3>2, <3>3 DEF Step
  <2> QED  BY <1>1, <2>1, <2>2, <2>3
<1>5. f[N] = l
  BY <1>1, <1>2
<1> HIDE DEF f
<1>6. List = f[N]
  BY <1>1, <1>3, <1>4, WalkIsList DEF Walks, N
<1> QED  BY <1>5, <1>6

-----------------------------------------------------------------------------
(***************************************************************************)
(* A chain with one node taken out, put in or replaced.                    *)
(***************************************************************************)
Cut(l, k) == [i \in 1 .. Len(l) - 1 |-> IF i < k THEN l[i] ELSE l[i + 1]]
Put(l, k, n) == [i \in 1 .. Len(l) + 1 |-> IF i < k THEN l[i] ELSE IF i = k THEN n ELSE l[i - 1]]

LEMMA CutSeq ==
  ASSUME NEW S, NEW l \in Seq(S), NEW k \in 1 .. Len(l)
  PROVE  /\ Cut(l, k) \in Seq(S) /\ Len(Cut(l, k)) = Len(l) - 1
         /\ \A i \in 1 .. Len(l) - 1 : Cut(l, k)[i] = IF i < k THEN l[i] ELSE l[i + 1]
<1>1. Len(l) \in Nat /\ Len(l) - 1 \in Nat
  OBVIOUS
<1>2. \A i \in 1 .. Len(l) - 1 : (IF i < k THEN l[i] ELSE l[i + 1]) \in S
  OBVIOUS
<1> QED  BY <1>1, <1>2 DEF Cut

LEMMA PutSeq ==
  ASSUME NEW S, NEW l \in Seq(S), NEW k \in 1 .. Len(l) + 1, NEW n \in S
  PROVE  /\ Put(l, k, n) \in Seq(S) /\ Len(Put(l, k, n)) = Len(l) + 1
         /\ \A i \in 1 .. Len(l) + 1 :
              Put(l, k, n)[i] = IF i < k THEN l[i] ELSE IF i = k THEN n ELSE l[i - 1]
<1>1. Len(l) \in Nat /\ Len(l) + 1 \in Nat
  OBVIOUS
<1>2. \A i \in 1 .. Len(l) + 1 : (IF i < k THEN l[i] ELSE IF i = k THEN n ELSE l[i - 1]) \in S
  OBVIOUS
<1> QED  BY <1>1, <1>2 DEF Put

LEMMA ChainSame ==
  ASSUME NEW nd, NEW nd2, NEW h, NEW l, Chain(nd, h, l), DOMAIN nd2 = DOMAIN nd,
         \A k \in 1 .. Len(l) : nd2[l[k]].next = nd[l[k]].next
  PROVE  Chain(nd2, h, l)
  BY DEF Chain

LEMMA ChainCut ==
  ASSUME NEW nd, NEW nd2, NEW h, NEW l, Chain(nd, h, l), NEW k \in 1 .. Len(l),
         DOMAIN nd2 = DOMAIN nd,
         \A i \in 1 .. Len(l) : i # k /\ i # k - 1 => nd2[l[i]].next = nd[l[i]].next,
         k # 1 => nd2[l[k - 1]].next = nd[l[k]].next
  PROVE  Chain(nd2, IF k = 1 THEN nd[l[k]].next ELSE h, Cut(l, k))
<1> DEFINE m == Cut(l, k)
<1>1. l \in Seq(DOMAIN nd) /\ Len(l) \in Nat
  BY DEF Chain
<1>2. /\ m \in Seq(DOMAIN nd) /\ Len(m) = Len(l) - 1
      /\ \A i \in 1 .. Len(m) : m[i] = IF i < k THEN l[i] ELSE l[i + 1]
  BY <1>1, CutSeq
<1> HIDE DEF m
<1>3. (IF k = 1 THEN nd[l[k]].next ELSE h) = IF m = <<>> THEN Null ELSE m[1]
  <2>1. CASE m = <<>>
    <3>1. Len(m) = 0
      BY <2>1
    <3>2. Len(l) = 1
      BY <1>1, <1>2, <3>1
    <3>3. k = 1
      BY <3>2
    <3> QED  BY <2>1, <3>2, <3>3 DEF Chain
  <2>2. CASE m # <<>>
    <3>1. Len(l) >= 2 /\ 1 \in 1 .. Len(m)
      BY <1>1, <1>2, <2>2
    <3>2. m[1] = IF 1 < k THEN l[1] ELSE l[2]
      BY <1>2, <3>1
    <3>3. l # <<>>
      BY <3>1
    <3> QED  BY <1>1, <2>2, <3>1, <3>2, <3>3 DEF Chain
  <2> QED  BY <2>1, <2>2
<1>4. ASSUME NEW i \in 1 .. Len(m)
      PROVE  nd2[m[i]].next = IF i = Len(m) THEN Null ELSE m[i + 1]
  <2>1. CASE i < k - 1
    <3>1. /\ i + 1 \in 1 .. Len(m) /\ i < k /\ i + 1 < k /\ i \in 1 .. Len(l)
          /\ i # Len(m) /\ i # Len(l) /\ i # k /\ i # k - 1
      BY <1>1, <1>2, <2>1
    <3>2. m[i] = l[i] /\ m[i + 1] = l[i + 1]
      BY <1>2, <3>1
    <3>3. nd2[l[i]].next = nd[l[i]].next /\ nd[l[i]].next = l[i + 1]
      BY <3>1 DEF Chain
    <3> QED  BY <3>1, <3>2, <3>3
  <2>2. CASE i = k - 1
    <3>1. m[i] = l[k - 1] /\ k # 1 /\ (i # Len(m) => m[i + 1] = l[k + 1]) /\ (i = Len(m) <=> k = Len(l))
      BY <1>1, <1>2, <2>2
    <3> QED  BY <1>1, <2>2, <3>1 DEF Chain
  <2>3. CASE i >= k
    <3>1. /\ i + 1 \in 1 .. Len(l) /\ i + 1 # k /\ i + 1 # k - 1 /\ i + 1 + 1 = i + 2 /\ ~(i < k)
          /\ (i = Len(m) <=> i + 1 = Len(l)) /\ (i # Len(m) => i + 1 \in 1 .. Len(m) /\ ~(i + 1 < k))
      BY <1>1, <1>2, <2>3
    <3>2. m[i] = l[i + 1] /\ (i # Len(m) => m[i + 1] = l[i + 2])
      BY <1>2, <3>1
    <3>3. nd2[l[i + 1]].next = nd[l[i + 1]].next
      BY <3>1
    <3>4. nd[l[i + 1]].next = IF i + 1 = Len(l) THEN Null ELSE l[i + 2]
      BY <3>1 DEF Chain
    <3> QED  BY <3>1, <3>2, <3>3, <3>4
  <2> QED  BY <1>1, <1>2, <2>1, <2>2, <2>3
<1>5. ASSUME NEW i \in 1 .. Len(m), NEW j \in 1 .. Len(m), m[i] = m[j] PROVE i = j
  <2> DEFINE from(a) == IF a < k THEN a ELSE a + 1
  <2>1. from(i) \in 1 .. Len(l) /\ from(j) \in 1 .. Len(l)
    BY <1>1, <1>2
  <2>2. m[i] = l[from(i)] /\ m[j] = l[from(j)]
    BY <1>2
  <2>3. from(i) = from(j)
    BY <1>5, <2>1, <2>2 DEF Chain
  <2> QED  BY <1>1, <1>2, <2>3
<1> QED  BY <1>2, <1>3, <1>4, <1>5 DEF Chain, m

LEMMA ChainPut ==
  ASSUME NEW nd, NEW nd2, NEW h, NEW l, Chain(nd, h, l), NEW k \in 1 .. Len(l) + 1,
         NEW n \in DOMAIN nd, DOMAIN nd2 = DOMAIN nd, \A i \in 1 .. Len(l) : l[i] # n,
         \A i \in 1 .. Len(l) : i # k - 1 => nd2[l[i]].next = nd[l[i]].next,
         k # 1 => nd2[l[k - 1]].next = n,
         nd2[n].next = IF k = Len(l) + 1 THEN Null ELSE l[k]
  PROVE  Chain(nd2, IF k = 1 THEN n ELSE h, Put(l, k, n))
<1> DEFINE m == Put(l, k, n)
<1>1. l \in Seq(DOMAIN nd) /\ Len(l) \in Nat
  BY DEF Chain
<1>2. /\ m \in Seq(DOMAIN nd) /\ Len(m) = Len(l) + 1
      /\ \A i \in 1 .. Len(m) : m[i] = IF i < k THEN l[i] ELSE IF i = k THEN n ELSE l[i - 1]
  BY <1>1, PutSeq
<1> HIDE DEF m
<1>3. (IF k = 1 THEN n ELSE h) = IF m = <<>> THEN Null ELSE m[1]
  <2>1. m # <<>> /\ 1 \in 1 .. Len(m)
    BY <1>1, <1>2
  <2>2. CASE k = 1
    BY <1>1, <1>2, <2>1, <2>2
  <2>3. CASE k # 1
    <3>1. l # <<>> /\ 1 < k
      BY <1>1, <2>3
    <3>2. m[1] = l[1]
      BY <1>2, <2>1, <3>1
    <3> QED  BY <2>1, <2>3, <3>1, <3>2 DEF Chain
  <2> QED  BY <2>2, <2>3
<1>4. ASSUME NEW i \in 1 .. Len(m)
      PROVE  nd2[m[i]].next = IF i = Len(m) THEN Null ELSE m[i + 1]
  <2>1. CASE i < k - 1
    <3>1. /\ i + 1 \in 1 .. Len(m) /\ i < k /\ i + 1 < k /\ i \in 1 .. Len(l)
          /\ i # Len(m) /\ i # Len(l) /\ i # k /\ i # k - 1
      BY <1>1, <1>2, <2>1
    <3>2. m[i] = l[i] /\ m[i + 1] = l[i + 1]
      BY <1>2, <3>1
    <3>3. nd2[l[i]].next = nd[l[i]].next /\ nd[l[i]].next = l[i + 1]
      BY <3>1 DEF Chain
    <3> QED  BY <3>1, <3>2, <3>3
  <2>2. CASE i = k - 1
    <3>1. m[i] = l[k - 1] /\ k # 1 /\ i # Len(m) /\ m[i + 1] = n
      BY <1>1, <1>2, <2>2
    <3> QED  BY <3>1
  <2>3. CASE i = k
    <3>1. m[i] = n /\ (i # Len(m) => m[i + 1] = l[k]) /\ (i = Len(m) <=> k = Len(l) + 1)
      BY <1>1, <1>2, <2>3
    <3> QED  BY <2>3, <3>1
  <2>4. CASE i > k
    <3>1. /\ i - 1 \in 1 .. Len(l) /\ i - 1 # k - 1 /\ i - 1 + 1 = i /\ ~(i < k) /\ i # k
          /\ (i = Len(m) <=> i - 1 = Len(l))
          /\ (i # Len(m) => i + 1 \in 1 .. Len(m) /\ ~(i + 1 < k) /\ i + 1 # k /\ i + 1 - 1 = i)
      BY <1>1, <1>2, <2>4
    <3>2. m[i] = l[i - 1] /\ (i # Len(m) => m[i + 1] = l[i])
      BY <1>2, <3>1
    <3>3. nd2[l[i - 1]].next = nd[l[i - 1]].next
      BY <3>1
    <3>4. nd[l[i - 1]].next = IF i - 1 = Len(l) THEN Null ELSE l[i]
      BY <3>1 DEF Chain
    <3> QED  BY <3>1, <3>2, <3>3, <3>4
  <2> QED  BY <1>1, <1>2, <2>1, <2>2, <2>3, <2>4
<1>5. ASSUME NEW i \in 1 .. Len(m), NEW j \in 1 .. Len(m), m[i] = m[j] PROVE i = j
  <2> DEFINE from(a) == IF a < k THEN a ELSE a - 1
  <2>1. (i # k => from(i) \in 1 .. Len(l)) /\ (j # k => from(j) \in 1 .. Len(l))
    BY <1>1, <1>2
  <2>2. (i # k => m[i] = l[from(i)]) /\ (j # k => m[j] = l[from(j)])
    BY <1>1, <1>2
  <2>3. (i = k => m[i] = n) /\ (j = k => m[j] = n)
    BY <1>2
  <2>4. i = k <=> j = k
    BY <1>5, <2>1, <2>2, <2>3
  <2>5. i # k => from(i) = from(j)
    BY <1>5, <2>1, <2>2, <2>4 DEF Chain
  <2> QED  BY <1>1, <1>2, <2>4, <2>5
<1> QED  BY <1>2, <1>3, <1>4, <1>5 DEF Chain, m

LEMMA ChainReplace ==
  ASSUME NEW nd, NEW nd2, NEW h, NEW l, Chain(nd, h, l), NEW k \in 1 .. Len(l),
         NEW n \in DOMAIN nd, DOMAIN nd2 = DOMAIN nd, \A i \in 1 .. Len(l) : l[i] # n,
         \A i \in 1 .. Len(l) : i # k /\ i # k - 1 => nd2[l[i]].next = nd[l[i]].next,
         k # 1 => nd2[l[k - 1]].next = n,
         nd2[n].next = nd[l[k]].next
  PROVE  Chain(nd2, IF k = 1 THEN n ELSE h, [l EXCEPT ![k] = n])
<1> DEFINE m == [l EXCEPT ![k] = n]
<1>1. l \in Seq(DOMAIN nd) /\ Len(l) \in Nat
  BY DEF Chain
<1>2. /\ m \in Seq(DOMAIN nd) /\ Len(m) = Len(l)
      /\ \A i \in 1 .. Len(m) : m[i] = IF i = k THEN n ELSE l[i]
  BY <1>1
<1> HIDE DEF m
<1>3. (IF k = 1 THEN n ELSE h) = IF m = <<>> THEN Null ELSE m[1]
  BY <1>1, <1>2 DEF Chain
<1>4. ASSUME NEW i \in 1 .. Len(m)
      PROVE  nd2[m[i]].next = IF i = Len(m) THEN Null ELSE m[i + 1]
  <2>1. nd[l[i]].next = IF i = Len(l) THEN Null ELSE l[i + 1]
    BY <1>1, <1>2 DEF Chain
  <2>2. CASE i = k
    BY <1>1, <1>2, <2>1, <2>2
  <2>3. CASE i = k - 1
    BY <1>1, <1>2, <2>1, <2>3
  <2>4. CASE i # k /\ i # k - 1
    <3>1. m[i] = l[i] /\ (i # Len(m) => m[i + 1] = l[i + 1])
      BY <1>1, <1>2, <2>4
    <3> QED  BY <1>1, <1>2, <2>1, <2>4, <3>1
  <2> QED  BY <2>2, <2>3, <2>4
<1>5. ASSUME NEW i \in 1 .. Len(m), NEW j \in 1 .. Len(m), m[i] = m[j] PROVE i = j
  <2>1. \A a, b \in 1 .. Len(l) : l[a] = l[b] => a = b
    BY DEF Chain
  <2> QED  BY <1>1, <1>2, <1>5, <2>1
<1> QED  BY <1>2, <1>3, <1>4, <1>5 DEF Chain, m

-----------------------------------------------------------------------------
(***************************************************************************)
(* The invariant.  In its words: the ranges of the nodes are inside the    *)
(* whole, in order and apart; only the head may be empty, which is then    *)
(* place 0, left by a resize; a place that is not in the list is unused;   *)
(* and a byte is in a node exactly when it is in no block.                 *)
(***************************************************************************)
Tidy(nd, l, tot) ==
  /\ \A k \in 1 .. Len(l) : /\ nd[l[k]].offset + nd[l[k]].size <= tot
                            /\ nd[l[k]].size = 0 => k = 1 /\ l[k] = 0 /\ nd[l[k]].offset = 0
  /\ \A i, k \in 1 .. Len(l) :
       i < k => nd[l[i]].size = 0 \/ nd[l[i]].offset + nd[l[i]].size < nd[l[k]].offset
  /\ \A p \in DOMAIN nd : nd[p].size # 0 => \E k \in 1 .. Len(l) : l[k] = p

FreeAt(nd, l, x) == \E k \in 1 .. Len(l) : Has(nd[l[k]], x)
TakenAt(hd, x) == \E b \in hd : Has(b, x)

Shared(nd, l, tot, hd) ==
  /\ \A x \in 0 .. tot - 1 : FreeAt(nd, l, x) <=> ~TakenAt(hd, x)
  /\ \A b, c \in hd : \A x \in 0 .. tot - 1 : Has(b, x) /\ Has(c, x) => b = c
  /\ \A b \in hd : b.offset + b.size <= tot

Good(nd, h, l, tot, hd) == Chain(nd, h, l) /\ Tidy(nd, l, tot) /\ Shared(nd, l, tot, hd)

IInv == TypeOK /\ Numbered /\ (Ready => \E l \in Seq(Place) : Good(node, head, l, total, held))

\* What is known when a call does its work.
Here(l) == TypeOK /\ Numbered /\ Ready /\ l \in Seq(Place) /\ Good(node, head, l, total, held) /\ List = l

LEMMA AtWork == ASSUME IInv, Ready PROVE \E l : Here(l)
<1>1. PICK l \in Seq(Place) : Good(node, head, l, total, held)
  BY DEF IInv
<1>2. List = l
  BY <1>1, ChainIsList DEF IInv, Good
<1> QED  BY <1>1, <1>2 DEF Here, IInv

\* The nodes of a list, with the types of their fields.
LEMMA NodeTypes ==
  ASSUME NEW l, Here(l)
  PROVE  /\ total \in Nat /\ Len(l) \in Nat /\ Null \notin Place
         /\ \A k \in 1 .. Len(l) : /\ l[k] \in Place
                                   /\ node[l[k]].offset \in Nat /\ node[l[k]].size \in Nat
                                   /\ node[l[k]].next \in Place \cup {Null}
         /\ \A p \in Place : /\ node[p].offset \in 0 .. total /\ node[p].size \in 0 .. total
                             /\ node[p].next \in Place \cup {Null}
                             /\ node[p] \in [offset : 0 .. total, size : 0 .. total, next : Place \cup {Null}]
         /\ \A b \in held : b.offset \in Nat /\ b.size \in Nat \ {0}
                            /\ b \in [offset : Nat, size : Nat \ {0}]
<1>1. total \in Nat /\ Len(l) \in Nat /\ Null \notin Place
  BY NullAssumption DEF Here, TypeOK, Numbered
<1>2. \A p \in Place : node[p] \in [offset : 0 .. total, size : 0 .. total, next : Place \cup {Null}]
  BY DEF Here, TypeOK
<1>3. \A p \in Place : /\ node[p].offset \in 0 .. total /\ node[p].size \in 0 .. total
                       /\ node[p].next \in Place \cup {Null}
  BY <1>2
<1>4. \A k \in 1 .. Len(l) : l[k] \in Place
  BY DEF Here
<1>5. \A b \in held : b \in [offset : 0 .. total, size : 1 .. total]
  BY DEF Here, TypeOK
<1>6. \A b \in held : b.offset \in Nat /\ b.size \in Nat \ {0} /\ b \in [offset : Nat, size : Nat \ {0}]
  BY <1>1, <1>5
<1> QED  BY <1>1, <1>2, <1>3, <1>4, <1>6

\* A list whose node fields are kept is as it was.
LEMMA HeadOfChain ==
  ASSUME NEW l, Here(l)
  PROVE  (head = Null <=> Len(l) = 0) /\ (Len(l) # 0 => head = l[1])
<1>1. Null \notin Place /\ Len(l) \in Nat /\ l \in Seq(Place)
  BY NodeTypes DEF Here
<1>2. head = IF l = <<>> THEN Null ELSE l[1]
  BY DEF Here, Good, Chain
<1> QED  BY <1>1, <1>2

\* A block and a node have no byte in common.
LEMMA BlockNode ==
  ASSUME NEW l, Here(l), NEW b \in held, NEW k \in 1 .. Len(l)
  PROVE  \/ b.offset + b.size <= node[l[k]].offset
         \/ node[l[k]].offset + node[l[k]].size <= b.offset
<1>1. /\ total \in Nat /\ b.offset \in Nat /\ b.size \in Nat \ {0}
      /\ node[l[k]].offset \in Nat /\ node[l[k]].size \in Nat
  BY NodeTypes
<1>2. /\ b.offset + b.size <= total /\ node[l[k]].offset + node[l[k]].size <= total
      /\ node[l[k]].size = 0 => node[l[k]].offset = 0
  BY DEF Here, Good, Shared, Tidy
<1>3. \A x \in 0 .. total - 1 : ~(FreeAt(node, l, x) /\ TakenAt(held, x))
  BY DEF Here, Good, Shared
<1>4. ASSUME NEW x \in 0 .. total - 1, Has(b, x), Has(node[l[k]], x) PROVE FALSE
  BY <1>3, <1>4 DEF FreeAt, TakenAt
<1>5. b.offset \in 0 .. total - 1 /\ Has(b, b.offset)
  BY <1>1, <1>2 DEF Has
<1>6. node[l[k]].size # 0 =>
         node[l[k]].offset \in 0 .. total - 1 /\ Has(node[l[k]], node[l[k]].offset)
  BY <1>1, <1>2 DEF Has
<1>7. ~Has(node[l[k]], b.offset)
  BY <1>4, <1>5
<1>8. node[l[k]].size # 0 => ~Has(b, node[l[k]].offset)
  BY <1>4, <1>6
<1> QED  BY <1>1, <1>2, <1>7, <1>8 DEF Has

-----------------------------------------------------------------------------
\* The first node that is large enough, if there is one.
LEMMA FirstFit ==
  ASSUME NEW l, Here(l), NEW s \in Nat, NEW k, k = FirstIn(LAMBDA q : node[q].size >= s)
  PROVE  \/ k = 0 /\ \A i \in 1 .. Len(l) : node[l[i]].size < s
         \/ k \in 1 .. Len(l) /\ node[l[k]].size >= s
<1> DEFINE S == {i \in 1 .. Len(l) : node[l[i]].size >= s}
<1>1. Len(l) \in Nat /\ \A i \in 1 .. Len(l) : node[l[i]].size \in Nat
  BY NodeTypes
<1>2. k = IF S = {} THEN 0 ELSE CHOOSE i \in S : \A j \in S : i <= j
  <2>1. DOMAIN List = 1 .. Len(l) /\ List = l
    BY DEF Here
  <2> QED  BY <2>1 DEF FirstIn
<1>3. CASE S = {}
  <2>1. k = 0
    BY <1>2, <1>3
  <2>2. \A i \in 1 .. Len(l) : ~(node[l[i]].size >= s)
    BY <1>3
  <2>3. \A i \in 1 .. Len(l) : node[l[i]].size < s
    BY <1>1, <2>2
  <2> QED  BY <2>1, <2>3
<1>4. CASE S # {}
  <2>1. S \subseteq Nat
    BY <1>1
  <2>2. \E i \in S : \A j \in S : i <= j
    <3> HIDE DEF S
    <3> QED  BY <1>4, <2>1, Least
  <2>3. k \in S
    BY <1>2, <1>4, <2>2
  <2> QED  BY <2>3
<1> QED  BY <1>3, <1>4

\* Where the walk of a free stops: before that place all nodes end before the block.
LEMMA FirstStop ==
  ASSUME NEW l, Here(l), NEW x \in Nat, NEW k, k = Stop(x)
  PROVE  \/ k = 0 /\ \A i \in 1 .. Len(l) : ~StopsAt(l[i], x)
         \/ k \in 1 .. Len(l) /\ StopsAt(l[k], x) /\ \A i \in 1 .. k - 1 : ~StopsAt(l[i], x)
<1> DEFINE S == {i \in 1 .. Len(l) : StopsAt(l[i], x)}
<1>1. Len(l) \in Nat
  BY NodeTypes
<1>2. k = IF S = {} THEN 0 ELSE CHOOSE i \in S : \A j \in S : i <= j
  <2>1. DOMAIN List = 1 .. Len(l) /\ List = l
    BY DEF Here
  <2> QED  BY <2>1 DEF FirstIn, Stop
<1>3. CASE S = {}
  BY <1>1, <1>2, <1>3
<1>4. CASE S # {}
  <2>1. S \subseteq Nat
    BY <1>1
  <2>2. \E i \in S : \A j \in S : i <= j
    <3> HIDE DEF S
    <3> QED  BY <1>4, <2>1, Least
  <2>3. k \in S /\ \A j \in S : k <= j
    BY <1>2, <1>4, <2>2
  <2>4. \A i \in 1 .. k - 1 : i \in 1 .. Len(l) /\ ~(k <= i)
    BY <1>1, <2>3
  <2> QED  BY <2>3, <2>4
<1> QED  BY <1>3, <1>4

\* get_node gives out a place that is not in the list.
LEMMA NewNodeApart ==
  ASSUME NEW l, Here(l), NewNode # Null
  PROVE  /\ NewNode \in Place \ {0} /\ node[NewNode].size = 0
         /\ \A k \in 1 .. Len(l) : l[k] # NewNode
<1>1. Spare # {} /\ NewNode = CHOOSE p \in Spare : \A q \in Spare : p <= q
  BY DEF NewNode
<1>2. Spare \subseteq Nat
  BY DEF Spare, Here, Numbered
<1>3. \E p \in Spare : \A q \in Spare : p <= q
  BY <1>1, <1>2, Least
<1>4. NewNode \in Spare
  <2>1. PICK n : n \in Spare /\ \A q \in Spare : n <= q
    BY <1>3
  <2> HIDE DEF NewNode
  <2>2. NewNode \in Spare /\ \A q \in Spare : NewNode <= q
    BY <1>1, <2>1, Zenon
  <2> QED  BY <2>2
<1>5. NewNode \in Place \ {0} /\ node[NewNode].size = 0
  BY <1>4 DEF Spare
<1> QED  BY <1>5 DEF Here, Good, Tidy

\* The state after a step, with its list.
Leaves(l) == /\ TypeOK' /\ Numbered' /\ l \in Seq(DOMAIN node')
             /\ Good(node', head', l, total', held')

\* A step that keeps the size of the whole and the array.
LEMMA TypesAfter ==
  ASSUME NEW l, Here(l), total' = total, alive' = alive, fault' = fault,
         DOMAIN node' = Place,
         \A p \in Place : node'[p] \in [offset : 0 .. total, size : 0 .. total, next : Place \cup {Null}],
         head' \in Place \cup {Null}, held' \subseteq [offset : 0 .. total, size : 1 .. total],
         answer' \in 0 .. total \cup {NoAnswer, Refused}
  PROVE  TypeOK' /\ Numbered'
<1>1. Place' = Place
  BY DEF Place
<1>2. Numbered'
  BY <1>1 DEF Here, Numbered
<1>3. TypeOK
  BY DEF Here
<1> QED  BY <1>1, <1>2, <1>3 DEF TypeOK

-----------------------------------------------------------------------------
(***************************************************************************)
(* The ranges of a list with one node taken out, put in or replaced: what  *)
(* has to be known of the nodes, by their indices in the old list.         *)
(***************************************************************************)
InBounds(r, tot) == r.offset + r.size <= tot
Before(r, s) == r.size = 0 \/ r.offset + r.size < s.offset
EmptyHead(nd, l, i) == nd[l[i]].size = 0 => i = 1 /\ l[i] = 0 /\ nd[l[i]].offset = 0

LEMMA TidyCut ==
  ASSUME NEW S, NEW l \in Seq(S), NEW k \in 1 .. Len(l), NEW nd, NEW tot,
         \A i \in 1 .. Len(l) : i # k => InBounds(nd[l[i]], tot) /\ EmptyHead(nd, l, i),
         \A i, j \in 1 .. Len(l) : i # k /\ j # k /\ i < j => Before(nd[l[i]], nd[l[j]]),
         \A p \in DOMAIN nd : nd[p].size # 0 => \E i \in 1 .. Len(l) : i # k /\ l[i] = p
  PROVE  /\ Tidy(nd, Cut(l, k), tot)
         /\ \A x : FreeAt(nd, Cut(l, k), x) <=> \E i \in 1 .. Len(l) : i # k /\ Has(nd[l[i]], x)
<1> DEFINE m == Cut(l, k)
           from(a) == IF a < k THEN a ELSE a + 1
           to(a) == IF a < k THEN a ELSE a - 1
<1>1. /\ Len(l) \in Nat /\ Len(m) = Len(l) - 1
      /\ \A a \in 1 .. Len(m) : m[a] = l[from(a)]
  <2>1. /\ Len(m) = Len(l) - 1
        /\ \A a \in 1 .. Len(l) - 1 : m[a] = IF a < k THEN l[a] ELSE l[a + 1]
    BY CutSeq
  <2>2. Len(l) \in Nat
    OBVIOUS
  <2> HIDE DEF m
  <2> QED  BY <2>1, <2>2
<1> HIDE DEF m
<1>2. \A a \in 1 .. Len(m) : from(a) \in 1 .. Len(l) /\ from(a) # k /\ (from(a) = 1 => a = 1)
  BY <1>1
<1>3. \A a, b \in 1 .. Len(m) : a < b => from(a) < from(b)
  BY <1>1
<1>4. \A i \in 1 .. Len(l) : i # k => to(i) \in 1 .. Len(m) /\ m[to(i)] = l[i]
  BY <1>1
<1> HIDE DEF from, to
<1>5. ASSUME NEW a \in 1 .. Len(m)
      PROVE  InBounds(nd[m[a]], tot) /\ (nd[m[a]].size = 0 => a = 1 /\ m[a] = 0 /\ nd[m[a]].offset = 0)
  BY <1>1, <1>2 DEF EmptyHead
<1>6. ASSUME NEW a \in 1 .. Len(m), NEW b \in 1 .. Len(m), a < b PROVE Before(nd[m[a]], nd[m[b]])
  BY <1>1, <1>2, <1>3, <1>6
<1>7. ASSUME NEW p \in DOMAIN nd, nd[p].size # 0 PROVE \E a \in 1 .. Len(m) : m[a] = p
  BY <1>4, <1>7
<1>8. Tidy(nd, m, tot)
  BY <1>5, <1>6, <1>7 DEF Tidy, InBounds, Before
<1>9. ASSUME NEW x
      PROVE  FreeAt(nd, m, x) <=> \E i \in 1 .. Len(l) : i # k /\ Has(nd[l[i]], x)
  BY <1>1, <1>2, <1>4 DEF FreeAt
<1> QED  BY <1>8, <1>9 DEF m

LEMMA TidyPut ==
  ASSUME NEW S, NEW l \in Seq(S), NEW k \in 1 .. Len(l) + 1, NEW n \in S, NEW nd, NEW tot,
         \A i \in 1 .. Len(l) : /\ InBounds(nd[l[i]], tot) /\ EmptyHead(nd, l, i)
                                /\ nd[l[i]].size = 0 => k # 1,
         \A i, j \in 1 .. Len(l) : i < j => Before(nd[l[i]], nd[l[j]]),
         InBounds(nd[n], tot), nd[n].size # 0,
         \A i \in 1 .. Len(l) : IF i < k THEN Before(nd[l[i]], nd[n]) ELSE Before(nd[n], nd[l[i]]),
         \A p \in DOMAIN nd : nd[p].size # 0 => p = n \/ \E i \in 1 .. Len(l) : l[i] = p
  PROVE  /\ Tidy(nd, Put(l, k, n), tot)
         /\ \A x : FreeAt(nd, Put(l, k, n), x) <=>
                     Has(nd[n], x) \/ \E i \in 1 .. Len(l) : Has(nd[l[i]], x)
<1> DEFINE m == Put(l, k, n)
           from(a) == IF a < k THEN a ELSE a - 1
           to(a) == IF a < k THEN a ELSE a + 1
<1>1. /\ Len(l) \in Nat /\ Len(m) = Len(l) + 1 /\ k \in 1 .. Len(m) /\ m[k] = n
      /\ \A a \in 1 .. Len(m) : a # k => m[a] = l[from(a)]
  BY PutSeq
<1> HIDE DEF m
<1>2. \A a \in 1 .. Len(m) : a # k => from(a) \in 1 .. Len(l) /\ (from(a) < k <=> a < k)
                                       /\ (from(a) = 1 => a = 1 \/ k = 1)
  BY <1>1
<1>3. \A a, b \in 1 .. Len(m) : a # k /\ b # k /\ a < b => from(a) < from(b)
  BY <1>1
<1>4. \A i \in 1 .. Len(l) : to(i) \in 1 .. Len(m) /\ to(i) # k /\ m[to(i)] = l[i]
  BY <1>1
<1> HIDE DEF from, to
<1>5. ASSUME NEW a \in 1 .. Len(m)
      PROVE  InBounds(nd[m[a]], tot) /\ (nd[m[a]].size = 0 => a = 1 /\ m[a] = 0 /\ nd[m[a]].offset = 0)
  BY <1>1, <1>2 DEF EmptyHead
<1>6. ASSUME NEW a \in 1 .. Len(m), NEW b \in 1 .. Len(m), a < b PROVE Before(nd[m[a]], nd[m[b]])
  <2>1. CASE a # k /\ b # k
    BY <1>1, <1>2, <1>3, <1>6, <2>1
  <2>2. CASE a = k
    <3>1. b # k /\ ~(b < k)
      BY <1>1, <1>6, <2>2
    <3> QED  BY <1>1, <1>2, <2>2, <3>1
  <2>3. CASE b = k
    <3>1. a # k /\ a < k
      BY <1>1, <1>6, <2>3
    <3> QED  BY <1>1, <1>2, <2>3, <3>1
  <2> QED  BY <2>1, <2>2, <2>3
<1>7. ASSUME NEW p \in DOMAIN nd, nd[p].size # 0 PROVE \E a \in 1 .. Len(m) : m[a] = p
  BY <1>1, <1>4, <1>7
<1>8. Tidy(nd, m, tot)
  BY <1>5, <1>6, <1>7 DEF Tidy, InBounds, Before
<1>9. ASSUME NEW x
      PROVE  FreeAt(nd, m, x) <=> Has(nd[n], x) \/ \E i \in 1 .. Len(l) : Has(nd[l[i]], x)
  <2>1. ASSUME NEW a \in 1 .. Len(m), Has(nd[m[a]], x), a # k
        PROVE  \E i \in 1 .. Len(l) : Has(nd[l[i]], x)
    BY <1>1, <1>2, <2>1
  <2>2. ASSUME NEW i \in 1 .. Len(l), Has(nd[l[i]], x)
        PROVE  \E a \in 1 .. Len(m) : Has(nd[m[a]], x)
    BY <1>4, <2>2
  <2>3. Has(nd[n], x) => \E a \in 1 .. Len(m) : Has(nd[m[a]], x)
    BY <1>1
  <2>4. \A a \in 1 .. Len(m) : Has(nd[m[a]], x) => a # k \/ Has(nd[n], x)
    BY <1>1
  <2> QED  BY <2>1, <2>2, <2>3, <2>4 DEF FreeAt
<1> QED  BY <1>8, <1>9 DEF m

LEMMA TidyReplace ==
  ASSUME NEW S, NEW l \in Seq(S), NEW k \in 1 .. Len(l), NEW n \in S, NEW nd, NEW tot,
         \A i \in 1 .. Len(l) : i # k => InBounds(nd[l[i]], tot) /\ EmptyHead(nd, l, i),
         \A i, j \in 1 .. Len(l) : i # k /\ j # k /\ i < j => Before(nd[l[i]], nd[l[j]]),
         InBounds(nd[n], tot), nd[n].size # 0,
         \A i \in 1 .. Len(l) : i < k => Before(nd[l[i]], nd[n]),
         \A i \in 1 .. Len(l) : i > k => Before(nd[n], nd[l[i]]),
         \A p \in DOMAIN nd : nd[p].size # 0 => p = n \/ \E i \in 1 .. Len(l) : i # k /\ l[i] = p
  PROVE  /\ Tidy(nd, [l EXCEPT ![k] = n], tot)
         /\ \A x : FreeAt(nd, [l EXCEPT ![k] = n], x) <=>
                     Has(nd[n], x) \/ \E i \in 1 .. Len(l) : i # k /\ Has(nd[l[i]], x)
<1> DEFINE m == [l EXCEPT ![k] = n]
<1>1. /\ Len(l) \in Nat /\ Len(m) = Len(l) /\ m[k] = n
      /\ \A a \in 1 .. Len(m) : a # k => m[a] = l[a]
  OBVIOUS
<1> HIDE DEF m
<1>5. ASSUME NEW a \in 1 .. Len(m)
      PROVE  InBounds(nd[m[a]], tot) /\ (nd[m[a]].size = 0 => a = 1 /\ m[a] = 0 /\ nd[m[a]].offset = 0)
  BY <1>1 DEF EmptyHead
<1>6. ASSUME NEW a \in 1 .. Len(m), NEW b \in 1 .. Len(m), a < b PROVE Before(nd[m[a]], nd[m[b]])
  <2>1. CASE a # k /\ b # k
    BY <1>1, <1>6, <2>1
  <2>2. CASE a = k
    BY <1>1, <1>6, <2>2
  <2>3. CASE b = k
    BY <1>1, <1>6, <2>3
  <2> QED  BY <2>1, <2>2, <2>3
<1>7. ASSUME NEW p \in DOMAIN nd, nd[p].size # 0 PROVE \E a \in 1 .. Len(m) : m[a] = p
  BY <1>1, <1>7
<1>8. Tidy(nd, m, tot)
  BY <1>5, <1>6, <1>7 DEF Tidy, InBounds, Before
<1>9. ASSUME NEW x
      PROVE  FreeAt(nd, m, x) <=> Has(nd[n], x) \/ \E i \in 1 .. Len(l) : i # k /\ Has(nd[l[i]], x)
  BY <1>1 DEF FreeAt
<1> QED  BY <1>8, <1>9 DEF m

\* No two nodes have a byte in common.
LEMMA OneNode ==
  ASSUME NEW l, Here(l), NEW i \in 1 .. Len(l), NEW j \in 1 .. Len(l), NEW x \in Int,
         Has(node[l[i]], x), Has(node[l[j]], x)
  PROVE  i = j
<1>1. /\ Len(l) \in Nat /\ node[l[i]].offset \in Nat /\ node[l[i]].size \in Nat
      /\ node[l[j]].offset \in Nat /\ node[l[j]].size \in Nat
  BY NodeTypes
<1>2. /\ i < j => node[l[i]].size = 0 \/ node[l[i]].offset + node[l[i]].size < node[l[j]].offset
      /\ j < i => node[l[j]].size = 0 \/ node[l[j]].offset + node[l[j]].size < node[l[i]].offset
  BY DEF Here, Good, Tidy
<1>3. /\ node[l[i]].offset <= x /\ x < node[l[i]].offset + node[l[i]].size
      /\ node[l[j]].offset <= x /\ x < node[l[j]].offset + node[l[j]].size
  BY DEF Has
<1>4. ~(i < j)
  BY <1>1, <1>2, <1>3
<1>5. ~(j < i)
  BY <1>1, <1>2, <1>3
<1> QED  BY <1>4, <1>5

\* What the caller takes is no longer free, and what it gives back is.
LEMMA SharedTaken ==
  ASSUME NEW l, Here(l), NEW nd, NEW m, NEW b,
         b.offset + b.size <= total,
         \A x \in 0 .. total - 1 : Has(b, x) => FreeAt(node, l, x),
         \A x \in 0 .. total - 1 : FreeAt(nd, m, x) <=> FreeAt(node, l, x) /\ ~Has(b, x)
  PROVE  Shared(nd, m, total, held \cup {b})
<1>1. Shared(node, l, total, held)
  BY DEF Here, Good
<1> QED  BY <1>1 DEF Shared, TakenAt

LEMMA SharedGiven ==
  ASSUME NEW l, Here(l), NEW nd, NEW m, NEW b \in held,
         \A x \in 0 .. total - 1 : FreeAt(nd, m, x) <=> FreeAt(node, l, x) \/ Has(b, x)
  PROVE  Shared(nd, m, total, held \ {b})
<1>1. Shared(node, l, total, held)
  BY DEF Here, Good
<1>2. ASSUME NEW x \in 0 .. total - 1
      PROVE  TakenAt(held \ {b}, x) <=> TakenAt(held, x) /\ ~Has(b, x)
  BY <1>1 DEF Shared, TakenAt
<1>3. ASSUME NEW x \in 0 .. total - 1 PROVE FreeAt(nd, m, x) <=> ~TakenAt(held \ {b}, x)
  BY <1>1, <1>2 DEF Shared
<1> QED  BY <1>1, <1>3 DEF Shared

-----------------------------------------------------------------------------
\* Relinking a node changes that link alone.
LEMMA Relinked ==
  ASSUME NEW l, Here(l), NEW k \in 1 .. Len(l) + 1, NEW q \in Place \cup {Null},
         NEW nd, nd = Linked(node, k, q)
  PROVE  /\ DOMAIN nd = Place
         /\ \A p \in Place :
              /\ nd[p].offset = node[p].offset /\ nd[p].size = node[p].size
              /\ nd[p].next = IF k # 1 /\ p = l[k - 1] THEN q ELSE node[p].next
              /\ nd[p] \in [offset : 0 .. total, size : 0 .. total, next : Place \cup {Null}]
<1>1. /\ \A p \in Place : node[p] \in [offset : 0 .. total, size : 0 .. total, next : Place \cup {Null}]
      /\ Len(l) \in Nat /\ \A i \in 1 .. Len(l) : l[i] \in Place
  BY NodeTypes
<1>2. CASE k = 1
  BY <1>1, <1>2 DEF Linked, Place
<1>3. CASE k # 1
  <2>1. k - 1 \in 1 .. Len(l)
    BY <1>1, <1>3
  <2>2. PICK p0 \in Place : p0 = l[k - 1]
    BY <1>1, <2>1
  <2>3. nd = [node EXCEPT ![p0].next = q]
    BY <1>3, <2>2 DEF Linked, Here
  <2>4. nd[p0] = [node[p0] EXCEPT !.next = q] /\ \A p \in Place : p # p0 => nd[p] = node[p]
    BY <2>2, <2>3 DEF Place
  <2>5. DOMAIN nd = Place
    BY <2>3 DEF Place
  <2>6. node[p0] \in [offset : 0 .. total, size : 0 .. total, next : Place \cup {Null}]
    BY <1>1
  <2> HIDE DEF Place
  <2>7. /\ nd[p0].offset = node[p0].offset /\ nd[p0].size = node[p0].size /\ nd[p0].next = q
        /\ nd[p0] \in [offset : 0 .. total, size : 0 .. total, next : Place \cup {Null}]
    BY <2>4, <2>6
  <2> QED  BY <1>1, <1>3, <2>2, <2>4, <2>5, <2>7
<1> QED  BY <1>2, <1>3

\* The nodes of a list keep the order of their indices.
LEMMA Ordered ==
  ASSUME NEW l, Here(l)
  PROVE  /\ \A i \in 1 .. Len(l) : InBounds(node[l[i]], total) /\ EmptyHead(node, l, i)
         /\ \A i, j \in 1 .. Len(l) : i < j => Before(node[l[i]], node[l[j]])
         /\ \A i, j \in 1 .. Len(l) : l[i] = l[j] => i = j
         /\ \A p \in Place : node[p].size # 0 => \E i \in 1 .. Len(l) : l[i] = p
  BY DEF Here, Good, Tidy, Chain, InBounds, EmptyHead, Before, Place

\* An exact fit: the node goes, the block is what it was.
LEMMA AllocateExactGood ==
  ASSUME NEW l, Here(l), NEW s \in Size, AllocateExact(s)
  PROVE  \E m : Leaves(m)
<1> DEFINE k == FirstIn(LAMBDA q : node[q].size >= s)
<1>1. s \in Nat \ {0}
  BY SizeAssumption
<1>2. k \in 1 .. Len(l) /\ List[k] = l[k]
  <2>1. k # 0
    BY DEF AllocateExact
  <2>2. k \in 1 .. Len(l)
    BY <1>1, <2>1, FirstFit
  <2> QED  BY <2>2 DEF Here
<1> DEFINE p == l[k]
           q == node[p].next
           nd == Linked(node, k, q)
<1>3. /\ node[p].size = s /\ node' = [nd EXCEPT ![p] = Unused] /\ head' = HeadWith(k, q)
      /\ held' = held \cup {[offset |-> node[p].offset, size |-> s]} /\ answer' = node[p].offset
      /\ total' = total /\ alive' = alive /\ fault' = fault
  BY <1>2 DEF AllocateExact, Got
<1> HIDE DEF k
<1>4. /\ Len(l) \in Nat /\ p \in Place /\ q \in Place \cup {Null} /\ k \in 1 .. Len(l) + 1
      /\ total \in Nat /\ Null \notin Place
      /\ node[p].offset \in 0 .. total
      /\ \A i \in 1 .. Len(l) : l[i] \in Place /\ node[l[i]].size \in Nat /\ node[l[i]].offset \in Nat
  BY <1>2, NodeTypes
<1> HIDE DEF q
<1>5. /\ DOMAIN nd = Place
      /\ \A x \in Place :
           /\ nd[x].offset = node[x].offset /\ nd[x].size = node[x].size
           /\ nd[x].next = IF k # 1 /\ x = l[k - 1] THEN q ELSE node[x].next
           /\ nd[x] \in [offset : 0 .. total, size : 0 .. total, next : Place \cup {Null}]
  BY <1>4, Relinked
<1> HIDE DEF nd, p
<1>6. /\ DOMAIN node' = Place
      /\ \A x \in Place : x # p => node'[x] = nd[x]
      /\ node'[p] = Unused
  BY <1>3, <1>4, <1>5
<1>7. /\ \A i \in 1 .. Len(l) : InBounds(node[l[i]], total) /\ EmptyHead(node, l, i)
      /\ \A i, j \in 1 .. Len(l) : i < j => Before(node[l[i]], node[l[j]])
      /\ \A i, j \in 1 .. Len(l) : l[i] = l[j] => i = j
      /\ \A x \in Place : node[x].size # 0 => \E i \in 1 .. Len(l) : l[i] = x
  BY Ordered
<1>8. \A i \in 1 .. Len(l) : i # k =>
        /\ l[i] # p
        /\ node'[l[i]].offset = node[l[i]].offset /\ node'[l[i]].size = node[l[i]].size
  BY <1>2, <1>4, <1>5, <1>6, <1>7 DEF p
<1>9. Tidy(node', Cut(l, k), total)
      /\ \A x : FreeAt(node', Cut(l, k), x) <=> \E i \in 1 .. Len(l) : i # k /\ Has(node'[l[i]], x)
  <2>1. \A i \in 1 .. Len(l) : i # k => InBounds(node'[l[i]], total) /\ EmptyHead(node', l, i)
    BY <1>7, <1>8 DEF InBounds, EmptyHead
  <2>2. \A i, j \in 1 .. Len(l) : i # k /\ j # k /\ i < j => Before(node'[l[i]], node'[l[j]])
    BY <1>7, <1>8 DEF Before
  <2>3. \A x \in DOMAIN node' : node'[x].size # 0 => \E i \in 1 .. Len(l) : i # k /\ l[i] = x
    <3>1. node'[p].size = 0
      BY <1>6 DEF Unused
    <3>2. \A x \in Place : x # p => node'[x].size = node[x].size
      BY <1>5, <1>6
    <3> QED  BY <1>6, <1>7, <3>1, <3>2 DEF p
  <2>4. l \in Seq(Place)
    BY DEF Here
  <2> QED  BY <1>2, <2>1, <2>2, <2>3, <2>4, TidyCut
<1>10. Chain(node', head', Cut(l, k))
  <2>1. Chain(node, head, l)
    BY DEF Here, Good
  <2>2. \A i \in 1 .. Len(l) : i # k /\ i # k - 1 => node'[l[i]].next = node[l[i]].next
    <3>1. \A i \in 1 .. Len(l) : i # k - 1 /\ k # 1 => l[i] # l[k - 1]
      BY <1>2, <1>4, <1>7
    <3> QED  BY <1>4, <1>5, <1>6, <1>8, <3>1
  <2>3. k # 1 => node'[l[k - 1]].next = node[l[k]].next
    <3>1. k # 1 => k - 1 \in 1 .. Len(l) /\ k - 1 # k
      BY <1>2, <1>4
    <3> QED  BY <1>4, <1>5, <1>6, <1>8, <3>1 DEF p, q
  <2>4. head' = IF k = 1 THEN node[l[k]].next ELSE head
    BY <1>3 DEF HeadWith, p, q
  <2>5. DOMAIN node' = DOMAIN node
    BY <1>6 DEF Place
  <2> QED  BY <1>2, <2>1, <2>2, <2>3, <2>4, <2>5, ChainCut
<1> DEFINE b == [offset |-> node[p].offset, size |-> s]
<1>11. Shared(node', Cut(l, k), total, held \cup {b})
  <2>1. b.offset + b.size <= total
    BY <1>2, <1>3, <1>7 DEF InBounds, p
  <2>2. \A x : Has(b, x) <=> Has(node[l[k]], x)
    BY <1>3 DEF Has, p
  <2>3. \A x : FreeAt(node, l, x) <=> \E i \in 1 .. Len(l) : Has(node[l[i]], x)
    BY DEF FreeAt
  <2>4. \A x : \A i \in 1 .. Len(l) : i # k => (Has(node'[l[i]], x) <=> Has(node[l[i]], x))
    BY <1>8 DEF Has
  <2>5. \A x \in 0 .. total - 1 : \A i \in 1 .. Len(l) :
           Has(node[l[i]], x) /\ Has(node[l[k]], x) => i = k
    BY <1>2, OneNode
  <2> HIDE DEF b
  <2>6. \A x \in 0 .. total - 1 : Has(b, x) => FreeAt(node, l, x)
    BY <1>2, <2>2, <2>3
  <2>7. \A x \in 0 .. total - 1 :
          FreeAt(node', Cut(l, k), x) <=> FreeAt(node, l, x) /\ ~Has(b, x)
    BY <1>2, <1>9, <2>2, <2>3, <2>4, <2>5
  <2> QED  BY <2>1, <2>6, <2>7, SharedTaken
<1>12. TypeOK' /\ Numbered'
  <2>1. \A x \in Place : node'[x] \in [offset : 0 .. total, size : 0 .. total, next : Place \cup {Null}]
    <3>1. Unused \in [offset : 0 .. total, size : 0 .. total, next : Place \cup {Null}]
      BY <1>4 DEF Unused
    <3> QED  BY <1>5, <1>6, <3>1
  <2>2. head' \in Place \cup {Null}
    BY <1>3, <1>4 DEF HeadWith, Here, TypeOK
  <2>3. held' \subseteq [offset : 0 .. total, size : 1 .. total]
    <3>1. b \in [offset : 0 .. total, size : 1 .. total]
      BY <1>1, <1>2, <1>3, <1>4, <1>7 DEF InBounds, p
    <3> QED  BY <1>3, <3>1 DEF Here, TypeOK
  <2> QED  BY <1>3, <1>4, <1>6, <2>1, <2>2, <2>3, TypesAfter
<1>13. Cut(l, k) \in Seq(DOMAIN node')
  BY <1>10 DEF Chain
<1> QED  BY <1>3, <1>9, <1>10, <1>11, <1>12, <1>13 DEF Leaves, Good

-----------------------------------------------------------------------------
\* A larger node: its front is the block.
LEMMA AllocateFrontGood ==
  ASSUME NEW l, Here(l), NEW s \in Size, AllocateFront(s)
  PROVE  \E m : Leaves(m)
<1> DEFINE k == FirstIn(LAMBDA q : node[q].size >= s)
<1>1. s \in Nat \ {0}
  BY SizeAssumption
<1>2. k \in 1 .. Len(l) /\ List[k] = l[k]
  <2>1. k # 0
    BY DEF AllocateFront
  <2>2. k \in 1 .. Len(l)
    BY <1>1, <2>1, FirstFit
  <2> QED  BY <2>2 DEF Here
<1> DEFINE p == l[k]
<1>3. /\ node[p].size > s
      /\ node' = [node EXCEPT ![p].size = @ - s, ![p].offset = @ + s] /\ head' = head
      /\ held' = held \cup {[offset |-> node[p].offset, size |-> s]} /\ answer' = node[p].offset
      /\ total' = total /\ alive' = alive /\ fault' = fault
  BY <1>2 DEF AllocateFront, Got
<1> HIDE DEF k
<1>4. /\ Len(l) \in Nat /\ p \in Place /\ total \in Nat
      /\ node[p].offset \in 0 .. total /\ node[p].size \in 0 .. total
      /\ node[p] \in [offset : 0 .. total, size : 0 .. total, next : Place \cup {Null}]
      /\ \A i \in 1 .. Len(l) : l[i] \in Place /\ node[l[i]].size \in Nat /\ node[l[i]].offset \in Nat
      /\ \A x \in Place : node[x] \in [offset : 0 .. total, size : 0 .. total, next : Place \cup {Null}]
  BY <1>2, NodeTypes
<1> HIDE DEF p
<1>5. /\ DOMAIN node' = Place
      /\ \A x \in Place : x # p => node'[x] = node[x]
      /\ node'[p] = [offset |-> node[p].offset + s, size |-> node[p].size - s, next |-> node[p].next]
  <2>1. node'[p] = [[node[p] EXCEPT !.size = @ - s] EXCEPT !.offset = @ + s]
    BY <1>3, <1>4 DEF Place
  <2>2. DOMAIN node' = Place /\ \A x \in Place : x # p => node'[x] = node[x]
    BY <1>3, <1>4 DEF Place
  <2> QED  BY <1>4, <2>1, <2>2
<1>6. /\ \A i \in 1 .. Len(l) : InBounds(node[l[i]], total) /\ EmptyHead(node, l, i)
      /\ \A i, j \in 1 .. Len(l) : i < j => Before(node[l[i]], node[l[j]])
      /\ \A i, j \in 1 .. Len(l) : l[i] = l[j] => i = j
      /\ \A x \in Place : node[x].size # 0 => \E i \in 1 .. Len(l) : l[i] = x
  BY Ordered
<1>7. node'[p].offset = node[p].offset + s /\ node'[p].size = node[p].size - s /\ node'[p].next = node[p].next
  BY <1>5
<1>8. \A i \in 1 .. Len(l) : i # k => l[i] # p /\ node'[l[i]] = node[l[i]]
  BY <1>2, <1>4, <1>5, <1>6 DEF p
<1>9. /\ node[p].offset + node[p].size <= total /\ node[p].size # 0 /\ node'[p].size # 0
      /\ node[p].size > s
  BY <1>1, <1>2, <1>3, <1>4, <1>6, <1>7 DEF InBounds, p
<1>10. Tidy(node', l, total)
  <2>1. \A i \in 1 .. Len(l) : /\ node'[l[i]].offset + node'[l[i]].size <= total
                               /\ node'[l[i]].size = 0 => i = 1 /\ l[i] = 0 /\ node'[l[i]].offset = 0
    <3> SUFFICES ASSUME NEW i \in 1 .. Len(l)
                 PROVE  /\ node'[l[i]].offset + node'[l[i]].size <= total
                        /\ node'[l[i]].size = 0 => i = 1 /\ l[i] = 0 /\ node'[l[i]].offset = 0
      OBVIOUS
    <3>1. CASE i = k
      BY <1>1, <1>4, <1>7, <1>9, <3>1 DEF p
    <3>2. CASE i # k
      BY <1>6, <1>8, <3>2 DEF InBounds, EmptyHead
    <3> QED  BY <3>1, <3>2
  <2>2. ASSUME NEW i \in 1 .. Len(l), NEW j \in 1 .. Len(l), i < j
        PROVE  node'[l[i]].size = 0 \/ node'[l[i]].offset + node'[l[i]].size < node'[l[j]].offset
    <3>0. node[l[i]].size = 0 \/ node[l[i]].offset + node[l[i]].size < node[l[j]].offset
      BY <1>6, <2>2 DEF Before
    <3>1. CASE i = k
      <4>1. l[i] = p /\ node'[l[j]] = node[l[j]]
        BY <1>4, <1>8, <2>2, <3>1 DEF p
      <4> QED  BY <1>1, <1>4, <1>7, <1>9, <3>0, <4>1
    <3>2. CASE j = k
      <4>1. l[j] = p /\ node'[l[i]] = node[l[i]]
        BY <1>4, <1>8, <2>2, <3>2 DEF p
      <4> QED  BY <1>1, <1>4, <1>7, <3>0, <4>1
    <3>3. CASE i # k /\ j # k
      BY <1>8, <3>0, <3>3
    <3> QED  BY <3>1, <3>2, <3>3
  <2>3. \A x \in DOMAIN node' : node'[x].size # 0 => \E i \in 1 .. Len(l) : l[i] = x
    BY <1>2, <1>5, <1>6 DEF p
  <2> QED  BY <2>1, <2>2, <2>3 DEF Tidy
<1>11. Chain(node', head', l)
  <2>1. Chain(node, head, l) /\ DOMAIN node' = DOMAIN node
    BY <1>5 DEF Here, Good, Place
  <2>2. \A i \in 1 .. Len(l) : node'[l[i]].next = node[l[i]].next
    BY <1>7, <1>8 DEF p
  <2>3. Chain(node', head, l)
    BY <2>1, <2>2, ChainSame
  <2> QED  BY <1>3, <2>3
<1> DEFINE b == [offset |-> node[p].offset, size |-> s]
<1>12. Shared(node', l, total, held \cup {b})
  <2>1. b.offset + b.size <= total
    BY <1>1, <1>4, <1>9
  <2>2. \A x \in Int : Has(node'[p], x) <=> Has(node[p], x) /\ ~Has(b, x)
    BY <1>1, <1>4, <1>7, <1>9 DEF Has
  <2>3. \A x \in Int : Has(b, x) => Has(node[p], x)
    BY <1>1, <1>4, <1>9 DEF Has
  <2>4. \A x \in 0 .. total - 1 : \A i \in 1 .. Len(l) :
           Has(node[l[i]], x) /\ Has(node[l[k]], x) => i = k
    BY <1>2, OneNode
  <2> HIDE DEF b
  <2>5. \A x \in 0 .. total - 1 : Has(b, x) => FreeAt(node, l, x)
    BY <1>2, <2>3 DEF FreeAt, p
  <2>6. ASSUME NEW x \in 0 .. total - 1
        PROVE  FreeAt(node', l, x) <=> FreeAt(node, l, x) /\ ~Has(b, x)
    <3>1. ASSUME NEW i \in 1 .. Len(l), Has(node'[l[i]], x)
          PROVE  Has(node[l[i]], x) /\ ~Has(b, x)
      BY <1>2, <1>8, <2>2, <2>3, <2>4, <3>1 DEF p
    <3>2. ASSUME NEW i \in 1 .. Len(l), Has(node[l[i]], x), ~Has(b, x)
          PROVE  Has(node'[l[i]], x)
      BY <1>8, <2>2, <3>2 DEF p
    <3> QED  BY <3>1, <3>2 DEF FreeAt
  <2> QED  BY <2>1, <2>5, <2>6, SharedTaken
<1>13. TypeOK' /\ Numbered'
  <2>1. \A x \in Place : node'[x] \in [offset : 0 .. total, size : 0 .. total, next : Place \cup {Null}]
    <3>1. node[p].offset + s \in 0 .. total /\ node[p].size - s \in 0 .. total
          /\ node[p].next \in Place \cup {Null}
      BY <1>1, <1>4, <1>9
    <3>2. node'[p] \in [offset : 0 .. total, size : 0 .. total, next : Place \cup {Null}]
      BY <1>5, <3>1
    <3> QED  BY <1>4, <1>5, <3>2
  <2>2. head' \in Place \cup {Null}
    BY <1>3 DEF Here, TypeOK
  <2>3. held' \subseteq [offset : 0 .. total, size : 1 .. total]
    <3>1. b \in [offset : 0 .. total, size : 1 .. total]
      BY <1>1, <1>4, <1>9
    <3> QED  BY <1>3, <3>1 DEF Here, TypeOK
  <2> QED  BY <1>3, <1>4, <1>5, <2>1, <2>2, <2>3, TypesAfter
<1>14. l \in Seq(DOMAIN node')
  BY <1>11 DEF Chain
<1> QED  BY <1>3, <1>10, <1>11, <1>12, <1>13, <1>14 DEF Leaves, Good

\* A step that leaves the nodes and the blocks alone.
LEMMA SameGood ==
  ASSUME NEW l, Here(l), UNCHANGED <<total, node, head, alive, held, fault>>,
         answer' \in 0 .. total \cup {NoAnswer, Refused}
  PROVE  \E m : Leaves(m)
<1>1. TypeOK' /\ Numbered'
  BY DEF Here, TypeOK, Numbered, Place
<1>2. l \in Seq(DOMAIN node') /\ Good(node', head', l, total', held')
  BY DEF Here, Place
<1> QED  BY <1>1, <1>2 DEF Leaves

-----------------------------------------------------------------------------
(***************************************************************************)
(* Giving back a block: where the walk stops, and what the new node is.    *)
(***************************************************************************)
\* The nodes before the place where the walk stops end before the block.
LEMMA StopBefore ==
  ASSUME NEW l, Here(l), NEW x \in Nat, NEW k \in 1 .. Len(l), k = Stop(x)
  PROVE  /\ StopsAt(l[k], x)
         /\ \A i \in 1 .. Len(l) : i < k => node[l[i]].offset < x /\ End(l[i]) # x
<1>1. /\ StopsAt(l[k], x) /\ \A i \in 1 .. k - 1 : ~StopsAt(l[i], x)
  BY FirstStop
<1>2. ASSUME NEW i \in 1 .. Len(l), i < k PROVE node[l[i]].offset < x /\ End(l[i]) # x
  <2>1. i \in 1 .. k - 1 /\ node[l[i]].offset \in Nat
    BY <1>2, NodeTypes
  <2>2. ~StopsAt(l[i], x)
    BY <1>1, <2>1
  <2> QED  BY <2>1, <2>2 DEF StopsAt
<1> QED  BY <1>1, <1>2

\* The same for a block of the caller: they end before it begins.
LEMMA BlockStop ==
  ASSUME NEW l, Here(l), NEW b \in held, NEW k \in 1 .. Len(l), k = Stop(b.offset)
  PROVE  \A i \in 1 .. Len(l) : i < k => node[l[i]].offset + node[l[i]].size < b.offset
<1> SUFFICES ASSUME NEW i \in 1 .. Len(l), i < k
             PROVE  node[l[i]].offset + node[l[i]].size < b.offset
  OBVIOUS
<1>1. /\ b.offset \in Nat /\ b.size \in Nat \ {0}
      /\ node[l[i]].offset \in Nat /\ node[l[i]].size \in Nat
  BY NodeTypes
<1>2. node[l[i]].offset < b.offset /\ End(l[i]) # b.offset
  BY <1>1, StopBefore
<1>3. \/ b.offset + b.size <= node[l[i]].offset
      \/ node[l[i]].offset + node[l[i]].size <= b.offset
  BY BlockNode
<1> QED  BY <1>1, <1>2, <1>3 DEF End

\* Every node that starts after the block starts after its end.
LEMMA BlockAfter ==
  ASSUME NEW l, Here(l), NEW b \in held, NEW i \in 1 .. Len(l), node[l[i]].offset > b.offset
  PROVE  b.offset + b.size <= node[l[i]].offset
<1>1. /\ b.offset \in Nat /\ b.size \in Nat \ {0}
      /\ node[l[i]].offset \in Nat /\ node[l[i]].size \in Nat
  BY NodeTypes
<1>2. \/ b.offset + b.size <= node[l[i]].offset
      \/ node[l[i]].offset + node[l[i]].size <= b.offset
  BY BlockNode
<1> QED  BY <1>1, <1>2

\* Everything was allocated: the block is the only node.
LEMMA FreeIntoEmptyGood ==
  ASSUME NEW l, Here(l), NEW b \in held, FreeIntoEmpty(b)
  PROVE  \E m : Leaves(m)
<1> DEFINE n == NewNode
           m == <<n>>
<1>1. Len(l) = 0 /\ n \in Place /\ node[n].size = 0
  BY HeadOfChain, NewNodeApart DEF FreeIntoEmpty
<1>2. /\ node' = [node EXCEPT ![n] = [offset |-> b.offset, size |-> b.size, next |-> Null]]
      /\ head' = n /\ held' = held \ {b} /\ answer' = NoAnswer
      /\ total' = total /\ alive' = alive /\ fault' = fault
  BY DEF FreeIntoEmpty, GaveBack
<1>3. /\ total \in Nat /\ b.offset \in Nat /\ b.size \in Nat \ {0} /\ b.offset + b.size <= total
      /\ \A x \in Place : node[x] \in [offset : 0 .. total, size : 0 .. total, next : Place \cup {Null}]
  BY NodeTypes DEF Here, Good, Shared
<1> HIDE DEF n
<1>4. /\ DOMAIN node' = Place
      /\ \A x \in Place : x # n => node'[x] = node[x]
      /\ node'[n] = [offset |-> b.offset, size |-> b.size, next |-> Null]
  BY <1>1, <1>2 DEF Place
<1>5. \A x \in Place : node[x].size = 0
  BY <1>1, Ordered
<1>6. m \in Seq(Place) /\ Len(m) = 1 /\ m[1] = n /\ m # <<>>
  BY <1>1
<1> HIDE DEF m
<1>7. /\ node'[n].offset = b.offset /\ node'[n].size = b.size /\ node'[n].next = Null
  BY <1>4
<1>8. Tidy(node', m, total)
  BY <1>1, <1>3, <1>4, <1>5, <1>6, <1>7 DEF Tidy
<1>9. Chain(node', head', m)
  BY <1>1, <1>2, <1>4, <1>6, <1>7 DEF Chain
<1>10. Shared(node', m, total, held \ {b})
  <2>1. \A x : FreeAt(node', m, x) <=> Has(b, x)
    BY <1>6, <1>7 DEF FreeAt, Has
  <2>2. \A x : ~FreeAt(node, l, x)
    BY <1>1 DEF FreeAt
  <2> QED  BY <2>1, <2>2, SharedGiven
<1>11. TypeOK' /\ Numbered'
  <2>1. \A x \in Place : node'[x] \in [offset : 0 .. total, size : 0 .. total, next : Place \cup {Null}]
    <3>1. node'[n] \in [offset : 0 .. total, size : 0 .. total, next : Place \cup {Null}]
      BY <1>3, <1>4
    <3> QED  BY <1>3, <1>4, <3>1
  <2>2. held' \subseteq [offset : 0 .. total, size : 1 .. total]
    BY <1>2 DEF Here, TypeOK
  <2> QED  BY <1>1, <1>2, <1>4, <2>1, <2>2, TypesAfter
<1> QED  BY <1>2, <1>4, <1>6, <1>8, <1>9, <1>10, <1>11 DEF Leaves, Good

-----------------------------------------------------------------------------
\* A block behind the last node gets a node of its own.
LEMMA FreeAtEndGood ==
  ASSUME NEW l, Here(l), NEW b \in held, FreeAtEnd(b)
  PROVE  \E m : Leaves(m)
<1>0. PICK e : e = Len(l) + 1
  OBVIOUS
<1> DEFINE k == Stop(b.offset)
           n == NewNode
           r == [offset |-> b.offset, size |-> b.size, next |-> Null]
           m == Put(l, e, n)
<1>1. /\ total \in Nat /\ b.offset \in Nat /\ b.size \in Nat \ {0} /\ b.offset + b.size <= total
      /\ \A x \in Place : node[x] \in [offset : 0 .. total, size : 0 .. total, next : Place \cup {Null}]
      /\ Len(l) \in Nat /\ Null \notin Place /\ l \in Seq(Place)
      /\ \A i \in 1 .. Len(l) : l[i] \in Place /\ node[l[i]].size \in Nat /\ node[l[i]].offset \in Nat
  BY NodeTypes DEF Here, Good, Shared
<1>2. k \in 1 .. Len(l) /\ List[k] = l[k]
  <2>1. k \in 1 .. Len(l)
    BY <1>1, FirstStop DEF FreeAtEnd
  <2> QED  BY <2>1 DEF Here
<1> DEFINE p == l[k]
<1>3. /\ n # Null /\ node[p].offset < b.offset /\ End(p) # b.offset
      /\ node' = [node EXCEPT ![n] = r, ![p].next = n] /\ head' = head
      /\ held' = held \ {b} /\ answer' = NoAnswer
      /\ total' = total /\ alive' = alive /\ fault' = fault
  BY <1>2 DEF FreeAtEnd, GaveBack
<1>4. n \in Place /\ n # 0 /\ node[n].size = 0 /\ \A i \in 1 .. Len(l) : l[i] # n
  BY <1>3, NewNodeApart
<1>5. StopsAt(l[k], b.offset) /\ \A i \in 1 .. Len(l) : i < k => node[l[i]].offset + node[l[i]].size < b.offset
  BY <1>1, <1>2, StopBefore, BlockStop
<1> HIDE DEF n, k
<1>6. node[p].next = Null /\ End(p) < b.offset
  BY <1>1, <1>2, <1>3, <1>5 DEF StopsAt
<1>7. k = Len(l)
  <2>1. node[l[k]].next = IF k = Len(l) THEN Null ELSE l[k + 1]
    BY <1>2 DEF Here, Good, Chain
  <2>2. k # Len(l) => l[k + 1] \in Place
    BY <1>1, <1>2
  <2> QED  BY <1>1, <1>6, <2>1, <2>2
<1>8. p \in Place /\ p # n
  BY <1>1, <1>2, <1>4
<1> HIDE DEF p, r
<1>9. /\ DOMAIN node' = Place
      /\ node'[n] = r
      /\ \A x \in Place : x # n /\ x # p => node'[x] = node[x]
      /\ node'[p] = [offset |-> node[p].offset, size |-> node[p].size, next |-> n]
  <2>1. DOMAIN node' = Place /\ node'[n] = r /\ \A x \in Place : x # n /\ x # p => node'[x] = node[x]
    BY <1>3, <1>4, <1>8 DEF Place
  <2>2. node'[p] = [node[p] EXCEPT !.next = n]
    BY <1>3, <1>4, <1>8 DEF Place
  <2>3. node[p] \in [offset : 0 .. total, size : 0 .. total, next : Place \cup {Null}]
    BY <1>1, <1>8
  <2> HIDE DEF Place
  <2> QED  BY <2>1, <2>2, <2>3
<1>10. /\ \A i \in 1 .. Len(l) : /\ node'[l[i]].offset = node[l[i]].offset
                                 /\ node'[l[i]].size = node[l[i]].size
       /\ \A i \in 1 .. Len(l) : i # k => node'[l[i]] = node[l[i]]
       /\ node'[n].offset = b.offset /\ node'[n].size = b.size /\ node'[n].next = Null
       /\ node'[p].next = n
  <2>1. \A i \in 1 .. Len(l) : i # k => l[i] # p
    BY <1>2, Ordered DEF p
  <2>2. \A i \in 1 .. Len(l) : i # k => node'[l[i]] = node[l[i]]
    BY <1>1, <1>4, <1>9, <2>1
  <2>3. node'[p].offset = node[p].offset /\ node'[p].size = node[p].size /\ node'[p].next = n
    BY <1>9
  <2>4. \A i \in 1 .. Len(l) : i = k => l[i] = p
    BY DEF p
  <2>5. \A i \in 1 .. Len(l) : /\ node'[l[i]].offset = node[l[i]].offset
                               /\ node'[l[i]].size = node[l[i]].size
    BY <2>2, <2>3, <2>4
  <2> QED  BY <1>9, <2>2, <2>3, <2>5 DEF r
<1>11. /\ Tidy(node', m, total)
       /\ \A x : FreeAt(node', m, x) <=> Has(node'[n], x) \/ \E i \in 1 .. Len(l) : Has(node'[l[i]], x)
  <2>1. \A i \in 1 .. Len(l) : InBounds(node'[l[i]], total) /\ EmptyHead(node', l, i)
    BY <1>10, Ordered DEF InBounds, EmptyHead
  <2>2. \A i, j \in 1 .. Len(l) : i < j => Before(node'[l[i]], node'[l[j]])
    BY <1>10, Ordered DEF Before
  <2>3. InBounds(node'[n], total) /\ node'[n].size # 0
    BY <1>1, <1>10 DEF InBounds
  <2>4. \A i \in 1 .. Len(l) : i < Len(l) + 1 /\ Before(node'[l[i]], node'[n])
    <3>1. node[l[k]].offset + node[l[k]].size < b.offset
      BY <1>6 DEF End, p
    <3>2. ASSUME NEW i \in 1 .. Len(l) PROVE i < Len(l) + 1 /\ node[l[i]].offset + node[l[i]].size < b.offset
      <4>1. CASE i = k
        BY <1>1, <3>1, <4>1
      <4>2. CASE i # k
        <5>1. i < k /\ i < Len(l) + 1
          BY <1>1, <1>7, <4>2
        <5> QED  BY <1>5, <5>1
      <4> QED  BY <4>1, <4>2
    <3> QED  BY <1>10, <3>2 DEF Before
  <2>5. \A x \in DOMAIN node' : node'[x].size # 0 => x = n \/ \E i \in 1 .. Len(l) : l[i] = x
    <3>1. ASSUME NEW x \in Place, node'[x].size # 0, x # n PROVE \E i \in 1 .. Len(l) : l[i] = x
      <4>1. CASE x = p
        BY <1>2, <4>1 DEF p
      <4>2. CASE x # p
        BY <1>9, <3>1, <4>2, Ordered
      <4> QED  BY <4>1, <4>2
    <3> QED  BY <1>9, <3>1
  <2>6. e \in 1 .. Len(l) + 1 /\ e # 1
    BY <1>0, <1>1, <1>2
  <2>7. \A i \in 1 .. Len(l) : IF i < e THEN Before(node'[l[i]], node'[n])
                                        ELSE Before(node'[n], node'[l[i]])
    BY <1>0, <2>4
  <2>8. \A i \in 1 .. Len(l) : /\ InBounds(node'[l[i]], total) /\ EmptyHead(node', l, i)
                               /\ node'[l[i]].size = 0 => e # 1
    BY <2>1, <2>6
  <2> QED  BY <1>1, <1>4, <2>2, <2>3, <2>5, <2>6, <2>7, <2>8, TidyPut
<1>12. Chain(node', head', m)
  <2>1. Chain(node, head, l)
    BY DEF Here, Good
  <2>2. DOMAIN node' = DOMAIN node
    BY <1>9 DEF Place
  <2>3. e \in 1 .. Len(l) + 1 /\ e # 1 /\ e - 1 = k
    BY <1>0, <1>1, <1>2, <1>7
  <2>4. node'[l[e - 1]].next = n /\ node'[n].next = IF e = Len(l) + 1 THEN Null ELSE l[e]
    BY <1>0, <1>10, <2>3 DEF p
  <2>5. \A i \in 1 .. Len(l) : i # e - 1 => node'[l[i]].next = node[l[i]].next
    BY <1>10, <2>3
  <2>6. n \in DOMAIN node
    BY <1>4 DEF Place
  <2>7. Chain(node', IF e = 1 THEN n ELSE head, m)
    BY <1>4, <2>1, <2>2, <2>3, <2>4, <2>5, <2>6, ChainPut
  <2> QED  BY <1>3, <2>3, <2>7
<1>13. Shared(node', m, total, held \ {b})
  <2>1. \A x : Has(node'[n], x) <=> Has(b, x)
    BY <1>10 DEF Has
  <2>2. \A x : \A i \in 1 .. Len(l) : Has(node'[l[i]], x) <=> Has(node[l[i]], x)
    BY <1>10 DEF Has
  <2>3. \A x : FreeAt(node', m, x) <=> FreeAt(node, l, x) \/ Has(b, x)
    BY <1>11, <2>1, <2>2 DEF FreeAt
  <2> QED  BY <2>3, SharedGiven
<1>14. TypeOK' /\ Numbered'
  <2>1. \A x \in Place : node'[x] \in [offset : 0 .. total, size : 0 .. total, next : Place \cup {Null}]
    <3>1. r \in [offset : 0 .. total, size : 0 .. total, next : Place \cup {Null}]
      BY <1>1 DEF r
    <3>2. node[p].offset \in 0 .. total /\ node[p].size \in 0 .. total
      BY <1>1, <1>8
    <3>3. node'[p] \in [offset : 0 .. total, size : 0 .. total, next : Place \cup {Null}]
      BY <1>4, <1>9, <3>2
    <3> QED  BY <1>1, <1>9, <3>1, <3>3
  <2>2. held' \subseteq [offset : 0 .. total, size : 1 .. total]
    BY <1>3 DEF Here, TypeOK
  <2>3. head' \in Place \cup {Null} /\ answer' \in 0 .. total \cup {NoAnswer, Refused}
    BY <1>3 DEF Here, TypeOK
  <2>4. total' = total /\ alive' = alive /\ fault' = fault
    BY <1>3
  <2> QED  BY <1>9, <2>1, <2>2, <2>3, <2>4, TypesAfter
<1>15. m \in Seq(DOMAIN node')
  BY <1>12 DEF Chain
<1>16. total' = total /\ held' = held \ {b}
  BY <1>3
<1> HIDE DEF m
<1> QED  BY <1>11, <1>12, <1>13, <1>14, <1>15, <1>16 DEF Leaves, Good

-----------------------------------------------------------------------------
\* A block before a node that it does not reach gets a node of its own, and one
\* that reaches it takes its bytes over.
LEMMA FreeInsertGood ==
  ASSUME NEW l, Here(l), NEW b \in held, FreeInsert(b)
  PROVE  \E m : Leaves(m)
<1> DEFINE k == Stop(b.offset)
           n == NewNode
           nd == Linked(node, k, n)
<1>1. /\ total \in Nat /\ b.offset \in Nat /\ b.size \in Nat \ {0} /\ b.offset + b.size <= total
      /\ \A x \in Place : node[x] \in [offset : 0 .. total, size : 0 .. total, next : Place \cup {Null}]
      /\ Len(l) \in Nat /\ Null \notin Place /\ l \in Seq(Place)
      /\ \A i \in 1 .. Len(l) : l[i] \in Place /\ node[l[i]].size \in Nat /\ node[l[i]].offset \in Nat
  BY NodeTypes DEF Here, Good, Shared
<1>2. k \in 1 .. Len(l) /\ List[k] = l[k]
  <2>1. k \in 1 .. Len(l)
    BY <1>1, FirstStop DEF FreeInsert
  <2> QED  BY <2>1 DEF Here
<1> DEFINE p == l[k]
           meets == b.offset + b.size = node[p].offset
           joined == [offset |-> b.offset, size |-> b.size + node[p].size, next |-> node[p].next]
           apart == [offset |-> b.offset, size |-> b.size, next |-> p]
<1>3. /\ n # Null /\ node[p].offset > b.offset
      /\ node' = IF meets THEN [nd EXCEPT ![n] = joined, ![p] = Unused] ELSE [nd EXCEPT ![n] = apart]
      /\ head' = HeadWith(k, n)
      /\ held' = held \ {b} /\ answer' = NoAnswer
      /\ total' = total /\ alive' = alive /\ fault' = fault
  BY <1>2 DEF FreeInsert, GaveBack
<1>4. n \in Place /\ n # 0 /\ node[n].size = 0 /\ \A i \in 1 .. Len(l) : l[i] # n
  BY <1>3, NewNodeApart
<1>5. \A i \in 1 .. Len(l) : i < k => node[l[i]].offset + node[l[i]].size < b.offset
  BY <1>2, BlockStop
<1>6. k \in 1 .. Len(l) + 1 /\ n \in Place \cup {Null}
  BY <1>1, <1>2, <1>4
<1> HIDE DEF n, k
<1>7. /\ DOMAIN nd = Place
      /\ \A x \in Place :
           /\ nd[x].offset = node[x].offset /\ nd[x].size = node[x].size
           /\ nd[x].next = IF k # 1 /\ x = l[k - 1] THEN n ELSE node[x].next
           /\ nd[x] \in [offset : 0 .. total, size : 0 .. total, next : Place \cup {Null}]
  BY <1>6, Relinked
<1>8. p \in Place /\ p # n /\ node[p].offset \in Nat /\ node[p].size \in Nat \ {0}
  <2>1. p \in Place /\ p # n /\ node[p].offset \in Nat /\ node[p].size \in Nat
    BY <1>1, <1>2, <1>4
  <2>2. node[p].size = 0 => node[p].offset = 0
    BY <1>2, Ordered DEF EmptyHead
  <2> QED  BY <1>1, <1>3, <2>1, <2>2
<1> HIDE DEF p, nd
<1>9. /\ b.offset + b.size <= node[p].offset
      /\ \A i \in 1 .. Len(l) : i > k => node[p].offset + node[p].size < node[l[i]].offset
      /\ \A i \in 1 .. Len(l) : node[l[i]].size = 0 => i = 1 /\ k # 1
      /\ node[p].offset + node[p].size <= total
      /\ \A i \in 1 .. Len(l) : i # k => l[i] # p
  <2>1. b.offset + b.size <= node[l[k]].offset
    BY <1>2, <1>3, BlockAfter DEF p
  <2>2. \A i \in 1 .. Len(l) : i > k => node[p].offset + node[p].size < node[l[i]].offset
    <3> SUFFICES ASSUME NEW i \in 1 .. Len(l), i > k
                 PROVE  node[p].offset + node[p].size < node[l[i]].offset
      OBVIOUS
    <3>1. Before(node[l[k]], node[l[i]])
      BY <1>1, <1>2, Ordered
    <3> QED  BY <1>8, <3>1 DEF Before, p
  <2>3. \A i \in 1 .. Len(l) : node[l[i]].size = 0 => i = 1 /\ k # 1
    <3> SUFFICES ASSUME NEW i \in 1 .. Len(l), node[l[i]].size = 0 PROVE i = 1 /\ k # 1
      OBVIOUS
    <3>1. i = 1
      BY Ordered DEF EmptyHead
    <3> QED  BY <1>8, <3>1 DEF p
  <2>4. node[p].offset + node[p].size <= total
    BY <1>2, Ordered DEF InBounds, p
  <2>5. \A i \in 1 .. Len(l) : i # k => l[i] # p
    BY <1>2, Ordered DEF p
  <2> QED  BY <2>1, <2>2, <2>3, <2>4, <2>5 DEF p
<1>10. Chain(node, head, l) /\ n \in DOMAIN node
  BY <1>4 DEF Here, Good, Place
<1>11. k # 1 => /\ k - 1 \in 1 .. Len(l) /\ k - 1 # k /\ l[k - 1] # p /\ l[k - 1] # n /\ l[k - 1] \in Place
                /\ nd[l[k - 1]].next = n
  <2> SUFFICES ASSUME k # 1 PROVE /\ k - 1 \in 1 .. Len(l) /\ k - 1 # k /\ l[k - 1] # p /\ l[k - 1] # n
                                  /\ l[k - 1] \in Place /\ nd[l[k - 1]].next = n
    OBVIOUS
  <2>1. k - 1 \in 1 .. Len(l) /\ k - 1 # k
    BY <1>1, <1>2
  <2> QED  BY <1>1, <1>4, <1>7, <1>9, <2>1
<1>12. \A i \in 1 .. Len(l) : i # k - 1 => nd[l[i]].next = node[l[i]].next
  <2> SUFFICES ASSUME NEW i \in 1 .. Len(l), i # k - 1 PROVE nd[l[i]].next = node[l[i]].next
    OBVIOUS
  <2>1. k # 1 => l[i] # l[k - 1]
    BY <1>11, Ordered
  <2> QED  BY <1>1, <1>7, <2>1
<1>13. head' = IF k = 1 THEN n ELSE head
  BY <1>3 DEF HeadWith
<1>14. held' = held \ {b} /\ total' = total /\ alive' = alive /\ fault' = fault /\ answer' = NoAnswer
       /\ held' \subseteq [offset : 0 .. total, size : 1 .. total]
       /\ head' \in Place \cup {Null}
  BY <1>3, <1>4, <1>13 DEF Here, TypeOK
<1>15. CASE ~meets
  <2> DEFINE m == Put(l, k, n)
  <2>1. node' = [nd EXCEPT ![n] = apart]
    BY <1>3, <1>15
  <2> HIDE DEF apart, meets
  <2>2. /\ DOMAIN node' = Place /\ node'[n] = apart
        /\ \A x \in Place : x # n => node'[x] = nd[x]
    BY <1>4, <1>7, <2>1
  <2>3. node'[n].offset = b.offset /\ node'[n].size = b.size /\ node'[n].next = p
    BY <2>2 DEF apart
  <2>4. \A i \in 1 .. Len(l) : /\ node'[l[i]].offset = node[l[i]].offset
                               /\ node'[l[i]].size = node[l[i]].size
                               /\ node'[l[i]] = nd[l[i]]
    BY <1>1, <1>4, <1>7, <2>2
  <2>5. /\ Tidy(node', m, total)
        /\ \A x : FreeAt(node', m, x) <=> Has(node'[n], x) \/ \E i \in 1 .. Len(l) : Has(node'[l[i]], x)
    <3>1. \A i \in 1 .. Len(l) : /\ InBounds(node'[l[i]], total) /\ EmptyHead(node', l, i)
                                 /\ node'[l[i]].size = 0 => k # 1
      BY <1>9, <2>4, Ordered DEF InBounds, EmptyHead
    <3>2. \A i, j \in 1 .. Len(l) : i < j => Before(node'[l[i]], node'[l[j]])
      BY <2>4, Ordered DEF Before
    <3>3. InBounds(node'[n], total) /\ node'[n].size # 0
      BY <1>1, <2>3 DEF InBounds
    <3>4. ASSUME NEW i \in 1 .. Len(l)
          PROVE  IF i < k THEN Before(node'[l[i]], node'[n]) ELSE Before(node'[n], node'[l[i]])
      <4>1. CASE i < k
        BY <1>5, <2>3, <2>4, <4>1 DEF Before
      <4>2. CASE i = k
        <5>1. b.offset + b.size < node[p].offset
          BY <1>1, <1>8, <1>9, <1>15 DEF meets
        <5>2. ~(i < k) /\ node'[l[i]].offset = node[p].offset
          BY <1>2, <2>4, <4>2 DEF p
        <5> QED  BY <2>3, <5>1, <5>2 DEF Before
      <4>3. CASE i > k
        <5>1. node[p].offset + node[p].size < node[l[i]].offset /\ node[l[i]].offset \in Nat
          BY <1>1, <1>9, <4>3
        <5>2. b.offset + b.size < node[l[i]].offset
          BY <1>1, <1>8, <1>9, <5>1
        <5>3. ~(i < k)
          BY <1>2, <4>3
        <5> QED  BY <2>3, <2>4, <5>2, <5>3 DEF Before
      <4> QED  BY <1>2, <4>1, <4>2, <4>3
    <3>5. \A x \in DOMAIN node' : node'[x].size # 0 => x = n \/ \E i \in 1 .. Len(l) : l[i] = x
      BY <1>7, <2>2, Ordered
    <3>6. l \in Seq(Place) /\ n \in Place /\ k \in 1 .. Len(l) + 1
      BY <1>1, <1>4, <1>6
    <3>7. \A i \in 1 .. Len(l) : IF i < k THEN Before(node'[l[i]], node'[n])
                                          ELSE Before(node'[n], node'[l[i]])
      BY <3>4
    <3> QED  BY <3>1, <3>2, <3>3, <3>5, <3>6, <3>7, TidyPut
  <2>6. Chain(node', head', m)
    <3>1. DOMAIN node' = DOMAIN node
      BY <2>2 DEF Place
    <3>2. \A i \in 1 .. Len(l) : i # k - 1 => node'[l[i]].next = node[l[i]].next
      BY <1>12, <2>4
    <3>3. k # 1 => node'[l[k - 1]].next = n
      BY <1>11, <2>4
    <3>4. node'[n].next = IF k = Len(l) + 1 THEN Null ELSE l[k]
      BY <1>1, <1>2, <2>3 DEF p
    <3>5. Chain(node', IF k = 1 THEN n ELSE head, m)
      BY <1>4, <1>6, <1>10, <3>1, <3>2, <3>3, <3>4, ChainPut
    <3> QED  BY <1>13, <3>5
  <2>7. Shared(node', m, total, held \ {b})
    <3>1. \A x : Has(node'[n], x) <=> Has(b, x)
      BY <2>3 DEF Has
    <3>2. \A x : \A i \in 1 .. Len(l) : Has(node'[l[i]], x) <=> Has(node[l[i]], x)
      BY <2>4 DEF Has
    <3>3. \A x : FreeAt(node', m, x) <=> FreeAt(node, l, x) \/ Has(b, x)
      BY <2>5, <3>1, <3>2 DEF FreeAt
    <3> QED  BY <3>3, SharedGiven
  <2>8. TypeOK' /\ Numbered'
    <3>1. apart \in [offset : 0 .. total, size : 0 .. total, next : Place \cup {Null}]
      BY <1>1, <1>8 DEF apart
    <3>2. \A x \in Place : node'[x] \in [offset : 0 .. total, size : 0 .. total, next : Place \cup {Null}]
      BY <1>7, <2>2, <3>1
    <3> QED  BY <1>14, <2>2, <3>2, TypesAfter
  <2>9. m \in Seq(DOMAIN node')
    BY <2>6 DEF Chain
  <2> HIDE DEF m
  <2> QED  BY <1>14, <2>5, <2>6, <2>7, <2>8, <2>9 DEF Leaves, Good
<1>16. CASE meets
  <2> DEFINE m == [l EXCEPT ![k] = n]
  <2>1. node' = [nd EXCEPT ![n] = joined, ![p] = Unused]
    BY <1>3, <1>16
  <2>10. b.offset + b.size = node[p].offset
    BY <1>16
  <2> HIDE DEF joined, meets
  <2>2. /\ DOMAIN node' = Place /\ node'[n] = joined /\ node'[p] = Unused
        /\ \A x \in Place : x # n /\ x # p => node'[x] = nd[x]
    BY <1>4, <1>7, <1>8, <2>1
  <2>3. node'[n].offset = b.offset /\ node'[n].size = b.size + node[p].size /\ node'[n].next = node[p].next
    BY <2>2 DEF joined
  <2>4. \A i \in 1 .. Len(l) : i # k => /\ node'[l[i]].offset = node[l[i]].offset
                                        /\ node'[l[i]].size = node[l[i]].size
                                        /\ node'[l[i]] = nd[l[i]]
    BY <1>1, <1>4, <1>7, <1>9, <2>2
  <2>5. /\ Tidy(node', m, total)
        /\ \A x : FreeAt(node', m, x) <=> Has(node'[n], x) \/ \E i \in 1 .. Len(l) : i # k /\ Has(node'[l[i]], x)
    <3>1. \A i \in 1 .. Len(l) : i # k => InBounds(node'[l[i]], total) /\ EmptyHead(node', l, i)
      BY <2>4, Ordered DEF InBounds, EmptyHead
    <3>2. \A i, j \in 1 .. Len(l) : i # k /\ j # k /\ i < j => Before(node'[l[i]], node'[l[j]])
      BY <2>4, Ordered DEF Before
    <3>3. InBounds(node'[n], total) /\ node'[n].size # 0
      <4>1. b.offset + (b.size + node[p].size) = node[p].offset + node[p].size /\ b.size + node[p].size # 0
        BY <1>1, <1>8, <2>10
      <4> QED  BY <1>9, <2>3, <4>1 DEF InBounds
    <3>4. \A i \in 1 .. Len(l) : i < k => Before(node'[l[i]], node'[n])
      <4> SUFFICES ASSUME NEW i \in 1 .. Len(l), i < k PROVE Before(node'[l[i]], node'[n])
        OBVIOUS
      <4>1. i # k
        BY <1>2
      <4> QED  BY <1>5, <2>3, <2>4, <4>1 DEF Before
    <3>5. \A i \in 1 .. Len(l) : i > k => Before(node'[n], node'[l[i]])
      <4> SUFFICES ASSUME NEW i \in 1 .. Len(l), i > k PROVE Before(node'[n], node'[l[i]])
        OBVIOUS
      <4>0. k \in Nat /\ i \in Nat /\ i # k
        BY <1>2
      <4>1. i # k /\ node[p].offset + node[p].size < node[l[i]].offset /\ node[l[i]].offset \in Nat
        BY <1>1, <1>9, <4>0
      <4>2. b.offset + (b.size + node[p].size) < node[l[i]].offset
        BY <1>1, <1>8, <2>10, <4>1
      <4> QED  BY <2>3, <2>4, <4>1, <4>2 DEF Before
    <3>6. \A x \in DOMAIN node' : node'[x].size # 0 => x = n \/ \E i \in 1 .. Len(l) : i # k /\ l[i] = x
      <4> SUFFICES ASSUME NEW x \in Place, node'[x].size # 0, x # n
                   PROVE  \E i \in 1 .. Len(l) : i # k /\ l[i] = x
        BY <2>2
      <4>1. x # p
        BY <2>2 DEF Unused
      <4>2. node[x].size # 0
        BY <1>7, <2>2, <4>1
      <4>3. PICK i \in 1 .. Len(l) : l[i] = x
        BY <4>2, Ordered
      <4> QED  BY <4>1, <4>3 DEF p
    <3>7. l \in Seq(Place) /\ n \in Place /\ k \in 1 .. Len(l)
      BY <1>1, <1>2, <1>4
    <3> QED  BY <3>1, <3>2, <3>3, <3>4, <3>5, <3>6, <3>7, TidyReplace
  <2>6. Chain(node', head', m)
    <3>1. DOMAIN node' = DOMAIN node
      BY <2>2 DEF Place
    <3>2. \A i \in 1 .. Len(l) : i # k /\ i # k - 1 => node'[l[i]].next = node[l[i]].next
      BY <1>12, <2>4
    <3>3. k # 1 => node'[l[k - 1]].next = n
      BY <1>11, <2>4
    <3>4. node'[n].next = node[l[k]].next
      BY <2>3 DEF p
    <3>5. Chain(node', IF k = 1 THEN n ELSE head, m)
      BY <1>2, <1>4, <1>10, <3>1, <3>2, <3>3, <3>4, ChainReplace
    <3> QED  BY <1>13, <3>5
  <2>7. Shared(node', m, total, held \ {b})
    <3>1. \A x \in Int : Has(node'[n], x) <=> Has(b, x) \/ Has(node[l[k]], x)
      <4>1. \A x \in Int : Has(node'[n], x) <=> b.offset <= x /\ x < b.offset + (b.size + node[p].size)
        BY <2>3 DEF Has
      <4>2. \A x \in Int : b.offset <= x /\ x < b.offset + (b.size + node[p].size) <=>
                             \/ b.offset <= x /\ x < b.offset + b.size
                             \/ node[p].offset <= x /\ x < node[p].offset + node[p].size
        BY <1>1, <1>8, <2>10
      <4> QED  BY <4>1, <4>2 DEF Has, p
    <3>2. \A x : \A i \in 1 .. Len(l) : i # k => (Has(node'[l[i]], x) <=> Has(node[l[i]], x))
      BY <2>4 DEF Has
    <3>3. \A x \in Int : FreeAt(node', m, x) <=> FreeAt(node, l, x) \/ Has(b, x)
      BY <1>2, <2>5, <3>1, <3>2 DEF FreeAt
    <3>4. \A x \in 0 .. total - 1 : FreeAt(node', m, x) <=> FreeAt(node, l, x) \/ Has(b, x)
      <4>1. \A x \in 0 .. total - 1 : x \in Int
        OBVIOUS
      <4> QED  BY <3>3, <4>1
    <3> QED  BY <3>4, SharedGiven
  <2>8. TypeOK' /\ Numbered'
    <3>1. b.size + node[p].size \in 0 .. total /\ node[p].next \in Place \cup {Null}
      BY <1>1, <1>8, <1>9, <2>10
    <3>2. joined \in [offset : 0 .. total, size : 0 .. total, next : Place \cup {Null}]
      BY <1>1, <3>1 DEF joined
    <3>3. Unused \in [offset : 0 .. total, size : 0 .. total, next : Place \cup {Null}]
      BY <1>1 DEF Unused
    <3>4. \A x \in Place : node'[x] \in [offset : 0 .. total, size : 0 .. total, next : Place \cup {Null}]
      BY <1>7, <2>2, <3>2, <3>3
    <3> QED  BY <1>14, <2>2, <3>4, TypesAfter
  <2>9. m \in Seq(DOMAIN node')
    BY <2>6 DEF Chain
  <2> HIDE DEF m
  <2> QED  BY <1>14, <2>5, <2>6, <2>7, <2>8, <2>9 DEF Leaves, Good
<1> QED  BY <1>15, <1>16

-----------------------------------------------------------------------------
\* Behind the node that a block is appended to, all nodes start after the block.
LEMMA BlockBehind ==
  ASSUME NEW l, Here(l), NEW b \in held, NEW k \in 1 .. Len(l), End(l[k]) = b.offset,
         NEW j \in 1 .. Len(l), k < j
  PROVE  b.offset + b.size <= node[l[j]].offset /\ node[l[j]].size # 0
<1>1. /\ b.offset \in Nat /\ b.size \in Nat \ {0}
      /\ node[l[j]].offset \in Nat /\ node[l[j]].size \in Nat
      /\ node[l[k]].offset \in Nat /\ node[l[k]].size \in Nat
  BY NodeTypes
<1>2. node[l[k]].offset + node[l[k]].size = b.offset
  BY DEF End
<1>3. node[l[j]].size # 0 /\ (node[l[k]].size = 0 => node[l[k]].offset = 0)
  <2>1. j # 1
    OBVIOUS
  <2> QED  BY <2>1, Ordered DEF EmptyHead
<1>4. node[l[k]].size = 0 \/ node[l[k]].offset + node[l[k]].size < node[l[j]].offset
  BY Ordered DEF Before
<1>5. \/ b.offset + b.size <= node[l[j]].offset
      \/ node[l[j]].offset + node[l[j]].size <= b.offset
  BY BlockNode
<1>6. PICK c \in Nat, d \in Nat : c = node[l[k]].offset /\ d = node[l[k]].size
  BY <1>1
<1>7. PICK e \in Nat, g \in Nat : e = node[l[j]].offset /\ g = node[l[j]].size
  BY <1>1
<1>8. PICK o \in Nat, s \in Nat : o = b.offset /\ s = b.size
  BY <1>1
<1>9. /\ c + d = o /\ g # 0 /\ (d = 0 => c = 0) /\ (d = 0 \/ c + d < e)
      /\ (o + s <= e \/ e + g <= o)
  BY <1>2, <1>3, <1>4, <1>5, <1>6, <1>7, <1>8
<1>10. o + s <= e
  <2>1. e + g > o
    BY <1>9
  <2> QED  BY <1>9, <2>1
<1> QED  BY <1>3, <1>7, <1>8, <1>10

\* A block is appended to the node that ends at it.
LEMMA FreeAppendGood ==
  ASSUME NEW l, Here(l), NEW b \in held, FreeAppend(b)
  PROVE  \E m : Leaves(m)
<1> DEFINE k == Stop(b.offset)
<1>1. /\ total \in Nat /\ b.offset \in Nat /\ b.size \in Nat \ {0} /\ b.offset + b.size <= total
      /\ \A x \in Place : node[x] \in [offset : 0 .. total, size : 0 .. total, next : Place \cup {Null}]
      /\ Len(l) \in Nat /\ Null \notin Place /\ l \in Seq(Place)
      /\ \A i \in 1 .. Len(l) : l[i] \in Place /\ node[l[i]].size \in Nat /\ node[l[i]].offset \in Nat
  BY NodeTypes DEF Here, Good, Shared
<1>2. k \in 1 .. Len(l) /\ List[k] = l[k]
  <2>1. k \in 1 .. Len(l)
    BY <1>1, FirstStop DEF FreeAppend
  <2> QED  BY <2>1 DEF Here
<1> DEFINE p == List[k]
           q == node[p].next
           grown == [node EXCEPT ![p].size = @ + b.size]
           meets == q # Null /\ grown[q].offset = End(p) + b.size
           merged == [grown EXCEPT ![p].size = @ + grown[q].size, ![p].next = grown[q].next, ![q] = Unused]
<1>3. /\ End(p) = b.offset
      /\ node' = (IF meets THEN merged ELSE grown)
      /\ head' = head /\ held' = held \ {b} /\ answer' = NoAnswer
      /\ total' = total /\ alive' = alive /\ fault' = fault
  BY DEF FreeAppend, GaveBack
<1>3p. p = l[k]
  BY <1>2
<1> HIDE DEF p
<1> HIDE DEF k
<1>4. /\ node[p].offset + node[p].size = b.offset
      /\ p \in Place /\ node[p].offset \in Nat /\ node[p].size \in Nat
      /\ node[p] \in [offset : 0 .. total, size : 0 .. total, next : Place \cup {Null}]
  BY <1>1, <1>2, <1>3, <1>3p DEF End
<1>4x. /\ b.offset \in Nat /\ b.size \in Nat /\ b.size # 0 /\ total \in Nat /\ b.offset + b.size <= total
       /\ node[p].offset + node[p].size = b.offset /\ node[p].offset \in Nat /\ node[p].size \in Nat
  BY <1>1, <1>4
<1>5. q = IF k = Len(l) THEN Null ELSE l[k + 1]
  BY <1>2, <1>3p DEF Here, Good, Chain
<1>6. \A j \in 1 .. Len(l) : k < j => b.offset + b.size <= node[l[j]].offset /\ node[l[j]].size # 0
  BY <1>2, <1>3, <1>3p, BlockBehind
<1> HIDE DEF p, q
<1>7. /\ DOMAIN grown = Place
      /\ \A x \in Place : x # p => grown[x] = node[x]
      /\ grown[p] = [offset |-> node[p].offset, size |-> node[p].size + b.size, next |-> q]
  <2>1. grown[p] = [node[p] EXCEPT !.size = @ + b.size]
    BY <1>4 DEF Place
  <2>2. DOMAIN grown = Place /\ \A x \in Place : x # p => grown[x] = node[x]
    BY <1>4 DEF Place
  <2> HIDE DEF grown
  <2> QED  BY <1>4, <2>1, <2>2 DEF q
<1> HIDE DEF grown
<1>8. \A i \in 1 .. Len(l) : i # k => l[i] # p
  BY <1>2, Ordered, <1>3p
<1>9. \A i, j \in 1 .. Len(l) : i < j => Before(node[l[i]], node[l[j]])
  BY Ordered
<1>10. Chain(node, head, l) /\ held' \subseteq [offset : 0 .. total, size : 1 .. total]
       /\ head' \in Place \cup {Null}
  BY <1>3 DEF Here, Good, TypeOK
<1>11. CASE ~meets
  <2>1. node' = grown
    BY <1>3, <1>11
  <2>2. q = Null \/ grown[q].offset # b.offset + b.size
    BY <1>3, <1>11
  <2>3. /\ DOMAIN node' = Place
        /\ node'[p].offset = node[p].offset /\ node'[p].size = node[p].size + b.size /\ node'[p].next = node[p].next
        /\ \A i \in 1 .. Len(l) : i # k => node'[l[i]] = node[l[i]]
    BY <1>1, <1>7, <1>8, <2>1 DEF q
  <2>4. \A j \in 1 .. Len(l) : k < j => b.offset + b.size < node[l[j]].offset
    <3> SUFFICES ASSUME NEW j \in 1 .. Len(l), k < j PROVE b.offset + b.size < node[l[j]].offset
      OBVIOUS
    <3>0. PICK e : e = k + 1
      OBVIOUS
    <3>1. e \in 1 .. Len(l) /\ k # Len(l) /\ k < e /\ e # k /\ (j # e => e < j)
      BY <1>1, <1>2, <3>0
    <3>2. q = l[e] /\ q \in Place /\ q # p /\ q # Null
      BY <1>1, <1>5, <1>8, <3>0, <3>1
    <3>3. node[l[e]].offset # b.offset + b.size
      BY <1>7, <2>2, <3>2
    <3>4. b.offset + b.size <= node[l[e]].offset /\ node[l[e]].size # 0
      BY <1>6, <3>1
    <3>5. node[l[e]].offset \in Nat /\ node[l[e]].size \in Nat /\ node[l[j]].offset \in Nat
      BY <1>1, <3>1
    <3>6. j # e => node[l[e]].offset + node[l[e]].size < node[l[j]].offset
      BY <1>9, <3>1, <3>4 DEF Before
    <3>7. b.offset + b.size < node[l[e]].offset
      <4> DEFINE u == node[l[e]].offset
                 v == b.offset + b.size
      <4>1. u \in Nat /\ v \in Nat /\ u # v /\ v <= u
        BY <1>4x, <3>3, <3>4, <3>5
      <4> HIDE DEF u, v
      <4>2. v < u
        BY <4>1
      <4> QED  BY <4>2 DEF u, v
    <3>8. CASE j = e
      BY <3>7, <3>8
    <3>9. CASE j # e
      <4> DEFINE u == node[l[e]].offset
                 v == b.offset + b.size
                 y == node[l[e]].size
                 z == node[l[j]].offset
      <4>1. u \in Nat /\ v \in Nat /\ y \in Nat /\ z \in Nat /\ v < u /\ u + y < z
        BY <1>4x, <3>5, <3>6, <3>7, <3>9
      <4> HIDE DEF u, v, y, z
      <4>2. v < z
        BY <4>1
      <4> QED  BY <4>2 DEF v, z
    <3> QED  BY <3>8, <3>9
  <2>5. Tidy(node', l, total)
    <3>1. ASSUME NEW i \in 1 .. Len(l)
          PROVE  /\ node'[l[i]].offset + node'[l[i]].size <= total
                 /\ node'[l[i]].size = 0 => i = 1 /\ l[i] = 0 /\ node'[l[i]].offset = 0
      <4>1. CASE i = k
        <5>1. node[p].offset + (node[p].size + b.size) <= total /\ node[p].size + b.size # 0
          BY <1>1, <1>4
        <5> QED  BY <2>3, <4>1, <5>1, <1>3p
      <4>2. CASE i # k
        BY <2>3, <4>2, Ordered DEF InBounds, EmptyHead
      <4> QED  BY <4>1, <4>2
    <3>2. ASSUME NEW i \in 1 .. Len(l), NEW j \in 1 .. Len(l), i < j
          PROVE  node'[l[i]].size = 0 \/ node'[l[i]].offset + node'[l[i]].size < node'[l[j]].offset
      <4>0. node[l[i]].size = 0 \/ node[l[i]].offset + node[l[i]].size < node[l[j]].offset
        BY <1>9, <3>2 DEF Before
      <4>1. CASE i = k
        <5>1. j # k /\ l[i] = p /\ node'[l[j]] = node[l[j]] /\ b.offset + b.size < node[l[j]].offset
          BY <1>2, <2>3, <2>4, <3>2, <4>1, <1>3p
        <5>2. node[p].offset + (node[p].size + b.size) = b.offset + b.size
          BY <1>1, <1>4
        <5> QED  BY <2>3, <5>1, <5>2
      <4>2. CASE i # k
        <5>1. node'[l[i]] = node[l[i]] /\ node'[l[j]].offset = node[l[j]].offset
          BY <2>3, <4>2, <1>3p
        <5> QED  BY <4>0, <5>1
      <4> QED  BY <4>1, <4>2
    <3>3. \A x \in DOMAIN node' : node'[x].size # 0 => \E i \in 1 .. Len(l) : l[i] = x
      <4> SUFFICES ASSUME NEW x \in Place, node'[x].size # 0 PROVE \E i \in 1 .. Len(l) : l[i] = x
        BY <2>3
      <4>1. CASE x = p
        BY <1>2, <4>1, <1>3p
      <4>2. CASE x # p
        BY <1>7, <2>1, <4>2, Ordered
      <4> QED  BY <4>1, <4>2
    <3> QED  BY <3>1, <3>2, <3>3 DEF Tidy
  <2>6. Chain(node', head', l)
    <3>1. DOMAIN node' = DOMAIN node
      BY <2>3 DEF Place
    <3>2. \A i \in 1 .. Len(l) : node'[l[i]].next = node[l[i]].next
      BY <2>3, <1>3p
    <3>3. Chain(node', head, l)
      BY <1>10, <3>1, <3>2, ChainSame
    <3> QED  BY <1>3, <3>3
  <2>7. Shared(node', l, total, held \ {b})
    <3>1. \A x \in Int : Has(node'[p], x) <=> Has(node[p], x) \/ Has(b, x)
      <4>1. \A x \in Int : Has(node'[p], x) <=> node[p].offset <= x /\ x < node[p].offset + (node[p].size + b.size)
        BY <2>3 DEF Has
      <4>2. \A x \in Int : node[p].offset <= x /\ x < node[p].offset + (node[p].size + b.size) <=>
                             \/ node[p].offset <= x /\ x < node[p].offset + node[p].size
                             \/ b.offset <= x /\ x < b.offset + b.size
        BY <1>1, <1>4
      <4> QED  BY <4>1, <4>2 DEF Has
    <3>2. \A x : \A i \in 1 .. Len(l) : i # k => (Has(node'[l[i]], x) <=> Has(node[l[i]], x))
      BY <2>3 DEF Has
    <3>3. \A x \in Int : FreeAt(node', l, x) <=> FreeAt(node, l, x) \/ Has(b, x)
      BY <1>2, <3>1, <3>2, <1>3p DEF FreeAt
    <3>4. \A x \in 0 .. total - 1 : FreeAt(node', l, x) <=> FreeAt(node, l, x) \/ Has(b, x)
      <4>1. \A x \in 0 .. total - 1 : x \in Int
        OBVIOUS
      <4> QED  BY <3>3, <4>1
    <3> QED  BY <3>4, SharedGiven
  <2>8. TypeOK' /\ Numbered'
    <3>1. node[p].size + b.size \in 0 .. total
      BY <1>1, <1>4
    <3>2. node'[p] \in [offset : 0 .. total, size : 0 .. total, next : Place \cup {Null}]
      BY <1>4, <1>7, <2>1, <3>1 DEF q
    <3>3. \A x \in Place : node'[x] \in [offset : 0 .. total, size : 0 .. total, next : Place \cup {Null}]
      BY <1>1, <1>7, <2>1, <3>2
    <3> QED  BY <1>3, <1>10, <2>3, <3>3, TypesAfter
  <2>9. l \in Seq(DOMAIN node')
    BY <2>6 DEF Chain
  <2> QED  BY <1>3, <2>5, <2>6, <2>7, <2>8, <2>9 DEF Leaves, Good
<1>12. CASE meets
  <2>0. PICK e : e = k + 1
    OBVIOUS
  <2> DEFINE m == Cut(l, e)
             joined == [offset |-> node[p].offset, size |-> node[p].size + b.size + node[q].size, next |-> node[q].next]
  <2>1. /\ k # Len(l) /\ e \in 1 .. Len(l) /\ e # k /\ e # 1 /\ k = e - 1 /\ k < e
        /\ q = l[e] /\ q \in Place /\ q # p
    <3>1. k # Len(l)
      BY <1>5, <1>12
    <3>2. e \in 1 .. Len(l) /\ e # k /\ e # 1 /\ k = e - 1 /\ k < e
      BY <1>1, <1>2, <2>0, <3>1
    <3> QED  BY <1>1, <1>5, <1>8, <2>0, <3>1, <3>2
  <2>2. node' = merged /\ grown[q].offset = b.offset + b.size
    BY <1>3, <1>12
  <2>3. node[q].offset = b.offset + b.size /\ node[q].size \in Nat \ {0} /\ node[q].offset \in Nat
        /\ node[q].offset + node[q].size <= total /\ node[q].next \in Place \cup {Null}
        /\ node[q].size \in 0 .. total
    <3>1. node[q] \in [offset : 0 .. total, size : 0 .. total, next : Place \cup {Null}]
      BY <1>1, <2>1
    <3>2. node[q].size # 0
      BY <1>6, <2>1
    <3>3. node[q].offset + node[q].size <= total
      BY <2>1, Ordered DEF InBounds
    <3>4. node[q].offset = b.offset + b.size
      BY <1>7, <2>1, <2>2
    <3> QED  BY <1>1, <3>1, <3>2, <3>3, <3>4
  <2> HIDE DEF meets, m
  <2>4. /\ DOMAIN node' = Place
        /\ node'[q] = Unused
        /\ node'[p] = joined
        /\ \A x \in Place : x # p /\ x # q => node'[x] = node[x]
    <3>1. DOMAIN node' = Place /\ node'[q] = Unused /\ \A x \in Place : x # p /\ x # q => node'[x] = grown[x]
      BY <1>4, <1>7, <2>1, <2>2
    <3>2. node'[p] = [[grown[p] EXCEPT !.size = @ + grown[q].size] EXCEPT !.next = grown[q].next]
      BY <1>4, <1>7, <2>1, <2>2
    <3>3. grown[q] = node[q]
      BY <1>7, <2>1
    <3>4. grown[p] = [offset |-> node[p].offset, size |-> node[p].size + b.size, next |-> q]
      BY <1>7
    <3>5. node'[p] = [[grown[p] EXCEPT !.size = @ + node[q].size] EXCEPT !.next = node[q].next]
      BY <3>2, <3>3
    <3>6. node'[p] = joined
      <4>1. PICK g : g = [grown[p] EXCEPT !.size = @ + node[q].size]
        OBVIOUS
      <4>2. g = [offset |-> node[p].offset, size |-> node[p].size + b.size + node[q].size, next |-> q]
        BY <3>4, <4>1
      <4>3. node'[p] = [g EXCEPT !.next = node[q].next]
        BY <3>5, <4>1
      <4> QED  BY <4>2, <4>3
    <3>7. \A x \in Place : x # p /\ x # q => node'[x] = node[x]
      BY <1>7, <3>1
    <3> QED  BY <3>1, <3>6, <3>7
  <2>5. node'[p].offset = node[p].offset /\ node'[p].size = node[p].size + b.size + node[q].size
        /\ node'[p].next = node[q].next
    BY <2>4
  <2>6. \A i \in 1 .. Len(l) : i # e => l[i] # q
    BY <2>1, Ordered
  <2>7. \A i \in 1 .. Len(l) : i # k /\ i # e => node'[l[i]] = node[l[i]]
    BY <1>1, <1>8, <2>4, <2>6
  <2>8. node[p].offset + (node[p].size + b.size + node[q].size) = node[q].offset + node[q].size
        /\ node[p].size + b.size + node[q].size # 0
    BY <1>4x, <2>3
  <2> HIDE DEF joined
  <2>9. /\ Tidy(node', m, total)
        /\ \A x : FreeAt(node', m, x) <=> \E i \in 1 .. Len(l) : i # e /\ Has(node'[l[i]], x)
    <3>1. ASSUME NEW i \in 1 .. Len(l), i # e
          PROVE  InBounds(node'[l[i]], total) /\ EmptyHead(node', l, i)
      <4>1. CASE i = k
        <5>1. node'[l[i]].offset + node'[l[i]].size <= total /\ node'[l[i]].size # 0
          BY <2>3, <2>5, <2>8, <4>1, <1>3p
        <5> QED  BY <5>1 DEF InBounds, EmptyHead
      <4>2. CASE i # k
        BY <2>7, <3>1, <4>2, Ordered DEF InBounds, EmptyHead
      <4> QED  BY <4>1, <4>2
    <3>2. ASSUME NEW i \in 1 .. Len(l), NEW j \in 1 .. Len(l), i # e, j # e, i < j
          PROVE  Before(node'[l[i]], node'[l[j]])
      <4>1. CASE i = k
        <5>1. j # k /\ e < j
          BY <1>2, <2>1, <3>2, <4>1
        <5>2. node[q].offset + node[q].size < node[l[j]].offset
          BY <1>9, <2>1, <2>3, <5>1 DEF Before
        <5>3. node'[l[j]] = node[l[j]] /\ l[i] = p
          BY <2>7, <3>2, <4>1, <5>1, <1>3p
        <5> QED  BY <2>5, <2>8, <5>2, <5>3 DEF Before
      <4>2. CASE i # k
        <5>1. node'[l[i]] = node[l[i]] /\ node'[l[j]].offset = node[l[j]].offset
          BY <2>5, <2>7, <3>2, <4>2, <1>3p
        <5> QED  BY <1>9, <3>2, <5>1 DEF Before
      <4> QED  BY <4>1, <4>2
    <3>3. \A x \in DOMAIN node' : node'[x].size # 0 => \E i \in 1 .. Len(l) : i # e /\ l[i] = x
      <4> SUFFICES ASSUME NEW x \in Place, node'[x].size # 0 PROVE \E i \in 1 .. Len(l) : i # e /\ l[i] = x
        BY <2>4
      <4>1. CASE x = p
        BY <1>2, <2>1, <4>1, <1>3p
      <4>2. CASE x # p
        <5>1. x # q
          BY <2>4 DEF Unused
        <5>2. node[x].size # 0
          BY <2>4, <4>2, <5>1
        <5>3. PICK i \in 1 .. Len(l) : l[i] = x
          BY <5>2, Ordered
        <5> QED  BY <2>1, <5>1, <5>3
      <4> QED  BY <4>1, <4>2
    <3>4. \A i \in 1 .. Len(l) : i # e => InBounds(node'[l[i]], total) /\ EmptyHead(node', l, i)
      BY <3>1
    <3>5. \A i, j \in 1 .. Len(l) : i # e /\ j # e /\ i < j => Before(node'[l[i]], node'[l[j]])
      BY <3>2
    <3> QED  BY <1>1, <2>1, <3>3, <3>4, <3>5, TidyCut DEF m
  <2>10. Chain(node', head', m)
    <3>1. DOMAIN node' = DOMAIN node
      BY <2>4 DEF Place
    <3>2. \A i \in 1 .. Len(l) : i # e /\ i # e - 1 => node'[l[i]].next = node[l[i]].next
      BY <2>1, <2>7
    <3>3. e # 1 => node'[l[e - 1]].next = node[l[e]].next
      BY <2>1, <2>5, <1>3p
    <3>4. Chain(node', IF e = 1 THEN node[l[e]].next ELSE head, m)
      BY <1>10, <2>1, <3>1, <3>2, <3>3, ChainCut DEF m
    <3> QED  BY <1>3, <2>1, <3>4
  <2>11. Shared(node', m, total, held \ {b})
    <3>1. \A x \in Int : Has(node'[p], x) <=> Has(node[p], x) \/ Has(b, x) \/ Has(node[q], x)
      <4>1. \A x \in Int : Has(node'[p], x) <=> node[p].offset <= x /\ x < node[p].offset + (node[p].size + b.size + node[q].size)
        BY <2>5 DEF Has
      <4>2. \A x \in Int : node[p].offset <= x /\ x < node[p].offset + (node[p].size + b.size + node[q].size) <=>
                             \/ node[p].offset <= x /\ x < node[p].offset + node[p].size
                             \/ b.offset <= x /\ x < b.offset + b.size
                             \/ node[q].offset <= x /\ x < node[q].offset + node[q].size
        BY <1>4x, <2>3
      <4> QED  BY <4>1, <4>2 DEF Has
    <3>2. \A x : \A i \in 1 .. Len(l) : i # k /\ i # e => (Has(node'[l[i]], x) <=> Has(node[l[i]], x))
      BY <2>7 DEF Has
    <3>3. ASSUME NEW x \in Int PROVE FreeAt(node', m, x) <=> FreeAt(node, l, x) \/ Has(b, x)
      <4>1. ASSUME NEW i \in 1 .. Len(l), i # e, Has(node'[l[i]], x)
            PROVE  (\E j \in 1 .. Len(l) : Has(node[l[j]], x)) \/ Has(b, x)
        <5>1. CASE i = k
          BY <1>2, <2>1, <3>1, <4>1, <5>1, <1>3p
        <5>2. CASE i # k
          BY <3>2, <4>1, <5>2
        <5> QED  BY <5>1, <5>2
      <4>2. ASSUME NEW i \in 1 .. Len(l), Has(node[l[i]], x)
            PROVE  \E j \in 1 .. Len(l) : j # e /\ Has(node'[l[j]], x)
        <5>1. CASE i = k \/ i = e
          BY <1>2, <2>1, <3>1, <4>2, <5>1, <1>3p
        <5>2. CASE i # k /\ i # e
          BY <3>2, <4>2, <5>2
        <5> QED  BY <5>1, <5>2
      <4>3. Has(b, x) => \E j \in 1 .. Len(l) : j # e /\ Has(node'[l[j]], x)
        BY <1>2, <2>1, <3>1, <1>3p
      <4> QED  BY <2>9, <4>1, <4>2, <4>3 DEF FreeAt
    <3>4. \A x \in 0 .. total - 1 : FreeAt(node', m, x) <=> FreeAt(node, l, x) \/ Has(b, x)
      <4>1. \A x \in 0 .. total - 1 : x \in Int
        OBVIOUS
      <4> QED  BY <3>3, <4>1
    <3> QED  BY <3>4, SharedGiven
  <2>12. TypeOK' /\ Numbered'
    <3>1. node[p].size + b.size + node[q].size \in 0 .. total /\ node[p].offset \in 0 .. total
      BY <1>4x, <2>3, <2>8
    <3>2. joined \in [offset : 0 .. total, size : 0 .. total, next : Place \cup {Null}]
      BY <2>3, <3>1 DEF joined
    <3>3. Unused \in [offset : 0 .. total, size : 0 .. total, next : Place \cup {Null}]
      BY <1>1 DEF Unused
    <3>4. \A x \in Place : node'[x] \in [offset : 0 .. total, size : 0 .. total, next : Place \cup {Null}]
      BY <1>1, <2>4, <3>2, <3>3
    <3> QED  BY <1>3, <1>10, <2>4, <3>4, TypesAfter
  <2>13. m \in Seq(DOMAIN node')
    BY <2>10 DEF Chain
  <2> QED  BY <1>3, <2>9, <2>10, <2>11, <2>12, <2>13 DEF Leaves, Good
<1> QED  BY <1>11, <1>12

-----------------------------------------------------------------------------
(***************************************************************************)
(* A resize and a clear lay the array out anew.                            *)
(***************************************************************************)
LEMMA EntriesAre ==
  ASSUME NEW t \in Nat, NEW bytes \in Nat \ {0}
  PROVE  Entries(t, bytes) \in Nat \ {0}
<1>1. t \div bytes \in Int
  OBVIOUS
<1>2. MinEntries \in Nat \ {0}
  BY EntryAssumption
<1> QED  BY <1>1, <1>2 DEF Entries

\* The state after an array is laid out, with its numbers.
LEMMA LaidOut ==
  ASSUME NEW e \in Nat \ {0}, DOMAIN node' = 0 .. e - 1
  PROVE  Place' = 0 .. e - 1 /\ Cardinality(Place') = e
<1>1. 0 \in Int /\ e - 1 \in Int /\ ~(0 > e - 1)
  OBVIOUS
<1>2. Cardinality(0 .. e - 1) = e - 1 - 0 + 1
  BY <1>1, FS_Interval
<1>3. Place' = 0 .. e - 1
  BY DEF Place
<1> QED  BY <1>2, <1>3

\* What is behind a place of a range.
LEMMA RestOf == \A u, o \in Nat : o < u =>
                  u - o # 0 /\ o + (u - o) = u /\ u # 0 /\ o \in 0 .. u /\ u - o \in 0 .. u
  OBVIOUS

\* One node for a range, in an array that is otherwise unused.
LEMMA OneRange ==
  ASSUME NEW e \in Nat \ {0}, DOMAIN node' = 0 .. e - 1, NEW h \in 0 .. e - 1, head' = h,
         total' \in Nat, NEW o \in Nat, o < total',
         node'[h] = [offset |-> o, size |-> total' - o, next |-> Null],
         \A x \in 0 .. e - 1 : x # h => node'[x] = Unused,
         held' \subseteq [offset : 0 .. total', size : 1 .. total'],
         answer' \in 0 .. total' \cup {NoAnswer, Refused}, alive' \in BOOLEAN,
         fault' \in {"none", "free", "resize", "clear"},
         Shared(node', <<h>>, total', held')
  PROVE  Leaves(<<h>>)
<1> DEFINE m == <<h>>
<1>1. Place' = 0 .. e - 1 /\ Cardinality(Place') = e /\ DOMAIN node' = Place'
  BY LaidOut DEF Place
<1>2. Len(m) = 1 /\ m[1] = h /\ m # <<>> /\ m \in Seq(DOMAIN node')
  OBVIOUS
<1> HIDE DEF m
<1>3. node'[h].offset = o /\ node'[h].size = total' - o /\ node'[h].next = Null
  OBVIOUS
<1>4. total' - o # 0 /\ o + (total' - o) = total' /\ total' # 0 /\ o \in 0 .. total' /\ total' - o \in 0 .. total'
  <2>1. PICK u \in Nat : u = total' /\ o < u
    OBVIOUS
  <2>2. u - o # 0 /\ o + (u - o) = u /\ u # 0 /\ o \in 0 .. u /\ u - o \in 0 .. u
    BY <2>1, RestOf
  <2> QED  BY <2>1, <2>2
<1>5. Chain(node', head', m)
  BY <1>2, <1>3 DEF Chain
<1>6. Tidy(node', m, total')
  <2>1. \A k \in 1 .. Len(m) : k = 1
    BY <1>2
  <2>2. \A k \in 1 .. Len(m) : node'[m[k]].offset + node'[m[k]].size <= total' /\ node'[m[k]].size # 0
    BY <1>2, <1>3, <1>4, <2>1
  <2>3. \A x \in DOMAIN node' : node'[x].size # 0 => x = h
    BY DEF Unused
  <2>4. \A i, k \in 1 .. Len(m) : ~(i < k)
    BY <1>2
  <2> QED  BY <1>2, <2>2, <2>3, <2>4 DEF Tidy
<1>7. TypeOK'
  <2>1. node'[h] \in [offset : 0 .. total', size : 0 .. total', next : Place' \cup {Null}]
    BY <1>4
  <2>2. Unused \in [offset : 0 .. total', size : 0 .. total', next : Place' \cup {Null}]
    BY DEF Unused
  <2>3. \A x \in Place' : node'[x] \in [offset : 0 .. total', size : 0 .. total', next : Place' \cup {Null}]
    BY <1>1, <2>1, <2>2
  <2>4. head' \in Place' \cup {Null} /\ Place' = 0 .. Cardinality(Place') - 1
    BY <1>1
  <2> QED  BY <2>3, <2>4 DEF TypeOK
<1>8. Numbered'
  BY <1>1, <1>4 DEF Numbered
<1> QED  BY <1>2, <1>5, <1>6, <1>7, <1>8 DEF Leaves, Good, m

\* A full list gets a head for the new space.
LEMMA ResizeFullGood ==
  ASSUME NEW l, Here(l), NEW t \in Totals, Resize(t), ResizeFull(t)
  PROVE  \E m : Leaves(m)
<1> DEFINE e == Entries(t, ResizeBytes)
           w == Whole(t - total, e)
<1>1. t \in Nat /\ t > total /\ total \in Nat /\ Len(l) = 0
  BY SizeAssumption, NodeTypes, HeadOfChain DEF Resize, ResizeFull
<1>2. e \in Nat \ {0}
  BY <1>1, EntryAssumption, EntriesAre
<1>3. /\ total' = t /\ answer' = NoAnswer /\ alive' = alive /\ held' = held /\ fault' = fault
      /\ node' = [w EXCEPT ![0].offset = total] /\ head' = 0
  BY DEF Resize, ResizeFull
<1> HIDE DEF e
<1>4. /\ DOMAIN w = 0 .. e - 1 /\ w[0] = [offset |-> 0, size |-> t - total, next |-> Null]
      /\ \A x \in 0 .. e - 1 : x # 0 => w[x] = Unused
  BY <1>2 DEF Whole, Unused
<1> HIDE DEF w
<1>5. /\ DOMAIN node' = 0 .. e - 1
      /\ node'[0] = [offset |-> total, size |-> t - total, next |-> Null]
      /\ \A x \in 0 .. e - 1 : x # 0 => node'[x] = Unused
  BY <1>2, <1>3, <1>4
<1>6. held \subseteq [offset : 0 .. total, size : 1 .. total] /\ alive \in BOOLEAN
      /\ fault \in {"none", "free", "resize", "clear"}
  BY DEF Here, TypeOK
<1>7. held' \subseteq [offset : 0 .. total', size : 1 .. total']
  <2>1. 0 .. total \subseteq 0 .. t /\ 1 .. total \subseteq 1 .. t
    BY <1>1
  <2> QED  BY <1>3, <1>6, <2>1
<1>8. Shared(node', <<0>>, total', held')
  <2>1. Shared(node, l, total, held) /\ \A x : ~FreeAt(node, l, x)
    BY <1>1 DEF Here, Good, FreeAt
  <2>2. \A x \in 0 .. total - 1 : TakenAt(held, x)
    BY <2>1 DEF Shared
  <2>3. \A b \in held : b.offset \in Nat /\ b.size \in Nat /\ b.offset + b.size <= total
    BY <2>1, NodeTypes DEF Shared
  <2>4. \A x \in Int : \A b \in held : Has(b, x) => x \in 0 .. total - 1
    BY <1>1, <2>3 DEF Has
  <2>5. \A x \in Int : Has(node'[0], x) <=> total <= x /\ x < t
    BY <1>1, <1>5 DEF Has
  <2>6. \A x : FreeAt(node', <<0>>, x) <=> Has(node'[0], x)
    <3>1. Len(<<0>>) = 1 /\ <<0>>[1] = 0
      OBVIOUS
    <3> QED  BY <3>1 DEF FreeAt
  <2>7. \A x \in 0 .. t - 1 : (total <= x /\ x < t <=> x \notin 0 .. total - 1) /\ x \in Int
    BY <1>1
  <2>8. \A x \in 0 .. t - 1 : TakenAt(held, x) <=> x \in 0 .. total - 1
    BY <2>2, <2>4, <2>7 DEF TakenAt
  <2>9. \A x \in 0 .. t - 1 : FreeAt(node', <<0>>, x) <=> ~TakenAt(held, x)
    BY <2>5, <2>6, <2>7, <2>8
  <2>10. \A b, c \in held : \A x \in 0 .. t - 1 : Has(b, x) /\ Has(c, x) => b = c
    BY <2>1, <2>4, <2>7 DEF Shared
  <2>11. \A b \in held : b.offset + b.size <= t
    BY <1>1, <2>3
  <2> QED  BY <1>3, <2>9, <2>10, <2>11 DEF Shared
<1>9. 0 \in 0 .. e - 1 /\ total' \in Nat /\ total < total'
      /\ node'[0] = [offset |-> total, size |-> total' - total, next |-> Null]
  BY <1>1, <1>2, <1>3, <1>5
<1>10. answer' \in 0 .. total' \cup {NoAnswer, Refused} /\ alive' \in BOOLEAN
       /\ fault' \in {"none", "free", "resize", "clear"}
  BY <1>3, <1>6
<1>11. Leaves(<<0>>)
  BY <1>1, <1>2, <1>3, <1>5, <1>7, <1>8, <1>9, <1>10, OneRange
<1> QED  BY <1>11

\* After a clear the head has the whole.
LEMMA ClearGood ==
  ASSUME NEW l, Here(l), Clear
  PROVE  \E m : Leaves(m)
<1> DEFINE e == Cardinality(Place)
<1>1. /\ e \in Nat \ {0} /\ Place = 0 .. e - 1 /\ total \in Nat /\ 0 < total
      /\ alive \in BOOLEAN /\ fault \in {"none", "free", "resize", "clear"}
  BY NodeTypes DEF Here, Numbered, TypeOK
<1> HIDE DEF e
<1>2. /\ head \in Place /\ head' = head /\ total' = total /\ alive' = alive /\ fault' = fault
      /\ held' = {} /\ answer' = NoAnswer
      /\ node' = [p \in Place |-> IF p = head THEN [Unused EXCEPT !.size = total] ELSE Unused]
  BY DEF Clear, Here, TypeOK
<1>3. /\ DOMAIN node' = 0 .. e - 1
      /\ node'[head] = [offset |-> 0, size |-> total' - 0, next |-> Null]
      /\ \A x \in 0 .. e - 1 : x # head => node'[x] = Unused
  BY <1>1, <1>2 DEF Unused
<1>4. Shared(node', <<head>>, total', held')
  <2>1. \A x \in 0 .. total - 1 : Has(node'[head], x)
    BY <1>1, <1>2, <1>3 DEF Has
  <2>2. \A x \in 0 .. total - 1 : FreeAt(node', <<head>>, x)
    <3>1. Len(<<head>>) = 1 /\ <<head>>[1] = head
      OBVIOUS
    <3> QED  BY <2>1, <3>1 DEF FreeAt
  <2>3. \A x : ~TakenAt(held', x)
    BY <1>2 DEF TakenAt
  <2> QED  BY <1>2, <2>2, <2>3 DEF Shared
<1>5. 0 \in Nat /\ 0 < total' /\ total' \in Nat /\ head \in 0 .. e - 1
      /\ held' \subseteq [offset : 0 .. total', size : 1 .. total']
      /\ answer' \in 0 .. total' \cup {NoAnswer, Refused} /\ alive' \in BOOLEAN
      /\ fault' \in {"none", "free", "resize", "clear"}
  BY <1>1, <1>2
<1>6. Leaves(<<head>>)
  BY <1>1, <1>2, <1>3, <1>4, <1>5, OneRange
<1> QED  BY <1>6

-----------------------------------------------------------------------------
(***************************************************************************)
(* A resize copies the ranges of the nodes and adds the new space.         *)
(***************************************************************************)
Span == [offset : Nat, size : Nat \ {0}]
Apart(s) == \A i, j \in 1 .. Len(s) : i < j => s[i].offset + s[i].size < s[j].offset
Within(s, tot) == \A i \in 1 .. Len(s) : s[i].offset + s[i].size <= tot
Covers(s, x) == \E i \in 1 .. Len(s) : Has(s[i], x)

LEMMA SpanType == \A z \in Span : z.offset \in Nat /\ z.size \in Nat /\ z.size # 0
  BY DEF Span

\* The last range grows to the new end.
LEMMA RangesGrow ==
  ASSUME NEW s \in Seq(Span), NEW tot \in Nat, NEW t \in Nat, tot < t, Apart(s), Within(s, tot),
         Len(s) # 0, s[Len(s)].offset + s[Len(s)].size = tot,
         NEW r, r = [s EXCEPT ![Len(s)].size = @ + (t - tot)]
  PROVE  /\ r \in Seq(Span) /\ Len(r) # 0 /\ Apart(r) /\ Within(r, t)
         /\ \A x \in 0 .. t - 1 : Covers(r, x) <=> x >= tot \/ Covers(s, x)
<1>1. PICK c \in Nat \ {0} : c = Len(s)
  OBVIOUS
<1>2. PICK z \in Span : z = s[c]
  BY <1>1
<1>3. PICK o \in Nat : o = z.offset
  BY DEF Span
<1>4. PICK u \in Nat \ {0} : u = z.size
  BY DEF Span
<1>5. PICK g \in Nat \ {0} : g = t - tot
  OBVIOUS
<1>6. z = [offset |-> o, size |-> u]
  BY <1>3, <1>4 DEF Span
<1>7. /\ Len(r) = c /\ r \in Seq(Span) /\ r[c] = [offset |-> o, size |-> u + g]
      /\ \A i \in 1 .. c : i # c => r[i] = s[i]
  <2>1. [z EXCEPT !.size = @ + g] = [offset |-> o, size |-> u + g]
    BY <1>6
  <2>2. [offset |-> o, size |-> u + g] \in Span
    <3>1. o \in Nat /\ u + g \in Nat \ {0}
      OBVIOUS
    <3> QED  BY <3>1 DEF Span
  <2>3. r = [s EXCEPT ![c] = [offset |-> o, size |-> u + g]]
    <3>1. r = [s EXCEPT ![c] = [s[c] EXCEPT !.size = @ + g]]
      BY <1>1, <1>5
    <3> QED  BY <1>2, <2>1, <3>1
  <2> QED  BY <1>1, <2>2, <2>3
<1>8. r[c].offset = o /\ r[c].size = u + g /\ s[c].offset = o /\ s[c].size = u /\ o + u = tot /\ tot + g = t
  BY <1>1, <1>2, <1>3, <1>4, <1>5, <1>7
<1>9. \A i \in 1 .. c : s[i].offset \in Nat /\ s[i].size \in Nat
  <2>1. \A i \in 1 .. c : s[i] \in Span
    BY <1>1
  <2> QED  BY <2>1, SpanType
<1>9x. o + (u + g) = t
  <2>1. o \in Nat /\ u \in Nat /\ g \in Nat /\ o + u = tot /\ tot + g = t
    BY <1>8
  <2> QED  BY <2>1
<1>10. Apart(r)
  <2> SUFFICES ASSUME NEW i \in 1 .. c, NEW j \in 1 .. c, i < j
               PROVE  r[i].offset + r[i].size < r[j].offset
    BY <1>7 DEF Apart
  <2>1. i # c
    OBVIOUS
  <2>2. r[i] = s[i] /\ r[j].offset = s[j].offset
    BY <1>7, <1>8, <2>1
  <2> QED  BY <1>1, <2>2 DEF Apart
<1>11. Within(r, t)
  <2> SUFFICES ASSUME NEW i \in 1 .. c PROVE r[i].offset + r[i].size <= t
    BY <1>7 DEF Within
  <2>1. CASE i = c
    <3>1. r[i].offset = o /\ r[i].size = u + g
      BY <1>8, <2>1
    <3>2. o + (u + g) <= t
      BY <1>9x
    <3> QED  BY <3>1, <3>2
  <2>2. CASE i # c
    <3>1. r[i] = s[i] /\ s[i].offset + s[i].size <= tot
      BY <1>1, <1>7, <2>2 DEF Within
    <3> QED  BY <1>9, <3>1
  <2> QED  BY <2>1, <2>2
<1>12. ASSUME NEW x \in 0 .. t - 1 PROVE Covers(r, x) <=> x >= tot \/ Covers(s, x)
  <2>1. Has(r[c], x) <=> x >= tot \/ Has(s[c], x)
    <3>1. Has(r[c], x) <=> o <= x /\ x < o + (u + g)
      BY <1>8 DEF Has
    <3>2. Has(s[c], x) <=> o <= x /\ x < o + u
      BY <1>8 DEF Has
    <3>3. o <= x /\ x < t <=> x >= tot \/ (o <= x /\ x < tot)
      <4>1. o \in Nat /\ u \in Nat /\ o + u = tot /\ x \in Nat /\ x < t
        BY <1>8
      <4> QED  BY <4>1
    <3> QED  BY <1>8, <1>9x, <3>1, <3>2, <3>3
  <2>2. \A i \in 1 .. c : i # c => (Has(r[i], x) <=> Has(s[i], x))
    BY <1>7
  <2>3. c \in 1 .. c
    OBVIOUS
  <2> QED  BY <1>1, <1>7, <2>1, <2>2, <2>3 DEF Covers
<1> QED  BY <1>1, <1>7, <1>10, <1>11, <1>12

\* The new space gets a range of its own.
LEMMA RangesExtend ==
  ASSUME NEW s \in Seq(Span), NEW tot \in Nat, NEW t \in Nat, tot < t, Apart(s), Within(s, tot),
         \A i \in 1 .. Len(s) : s[i].offset + s[i].size < tot,
         NEW r, r = Append(s, [offset |-> tot, size |-> t - tot])
  PROVE  /\ r \in Seq(Span) /\ Len(r) # 0 /\ Apart(r) /\ Within(r, t)
         /\ \A x \in 0 .. t - 1 : Covers(r, x) <=> x >= tot \/ Covers(s, x)
<1>1. PICK c \in Nat : c = Len(s)
  OBVIOUS
<1>2. PICK z : z = [offset |-> tot, size |-> t - tot]
  OBVIOUS
<1>3. z.offset = tot /\ z.size = t - tot /\ z \in Span /\ tot + (t - tot) = t
  BY <1>2 DEF Span
<1>4. Len(r) = c + 1 /\ r \in Seq(Span) /\ r[c + 1] = z /\ \A i \in 1 .. c : r[i] = s[i]
  BY <1>1, <1>2, <1>3
<1>5. \A i \in 1 .. c : s[i].offset \in Nat /\ s[i].size \in Nat
  <2>1. \A i \in 1 .. c : s[i] \in Span
    BY <1>1
  <2> QED  BY <2>1, SpanType
<1>6. \A i \in 1 .. c + 1 : i \in 1 .. c \/ i = c + 1
  OBVIOUS
<1>7. Apart(r)
  <2> SUFFICES ASSUME NEW i \in 1 .. c + 1, NEW j \in 1 .. c + 1, i < j
               PROVE  r[i].offset + r[i].size < r[j].offset
    BY <1>4 DEF Apart
  <2>1. i \in 1 .. c /\ r[i] = s[i]
    BY <1>4
  <2>2. CASE j \in 1 .. c
    BY <1>1, <1>4, <2>1, <2>2 DEF Apart
  <2>3. CASE j = c + 1
    BY <1>1, <1>3, <1>4, <2>1, <2>3
  <2> QED  BY <1>6, <2>2, <2>3
<1>8. Within(r, t)
  <2> SUFFICES ASSUME NEW i \in 1 .. c + 1 PROVE r[i].offset + r[i].size <= t
    BY <1>4 DEF Within
  <2>1. CASE i = c + 1
    BY <1>3, <1>4, <2>1
  <2>2. CASE i \in 1 .. c
    <3>1. r[i] = s[i] /\ s[i].offset + s[i].size <= tot
      BY <1>1, <1>4, <2>2 DEF Within
    <3>2. PICK w \in Nat : w = s[i].offset + s[i].size
      BY <1>5, <2>2
    <3>3. w <= t
      BY <3>1, <3>2
    <3> QED  BY <3>1, <3>2, <3>3
  <2> QED  BY <1>6, <2>1, <2>2
<1>9. ASSUME NEW x \in 0 .. t - 1 PROVE Covers(r, x) <=> x >= tot \/ Covers(s, x)
  <2>1. Has(r[c + 1], x) <=> x >= tot
    BY <1>3, <1>4 DEF Has
  <2>2. \A i \in 1 .. c : Has(r[i], x) <=> Has(s[i], x)
    BY <1>4
  <2>3. c + 1 \in 1 .. c + 1 /\ \A i \in 1 .. c : i \in 1 .. c + 1
    OBVIOUS
  <2> QED  BY <1>1, <1>4, <1>6, <2>1, <2>2, <2>3 DEF Covers
<1> QED  BY <1>4, <1>7, <1>8, <1>9

\* What is copied: the ranges of the nodes that are not empty.
LEMMA CopiesAre ==
  ASSUME NEW l, Here(l), head # Null, NEW t \in Nat, t > total, NEW r, r = Copies(t)
  PROVE  /\ r \in Seq(Span) /\ Len(r) # 0 /\ Apart(r) /\ Within(r, t)
         /\ \A x \in 0 .. t - 1 : Covers(r, x) <=> x >= total \/ FreeAt(node, l, x)
<1>1. /\ total \in Nat /\ total # 0 /\ Len(l) \in Nat \ {0} /\ head = l[1] /\ l \in Seq(Place) /\ List = l
      /\ \A i \in 1 .. Len(l) : l[i] \in Place /\ node[l[i]].size \in Nat /\ node[l[i]].offset \in Nat
  BY NodeTypes, HeadOfChain DEF Here, Numbered
<1>2. PICK d \in {0, 1} : d = IF node[head].size = 0 THEN 1 ELSE 0
  OBVIOUS
<1>3. PICK c \in Nat : c = Len(l) - d
  <2>1. Len(l) \in Nat \ {0}
    BY <1>1
  <2> QED  BY <2>1
<1>4. Kept \in Seq(Place) /\ Len(Kept) = c /\ \A i \in 1 .. c : Kept[i] = l[i + d]
  <2>1. CASE d = 0
    BY <1>1, <1>2, <1>3, <2>1 DEF Kept
  <2>2. CASE d = 1
    <3>1. Kept = Tail(l)
      BY <1>1, <1>2, <2>2 DEF Kept
    <3>2. l # <<>>
      BY <1>1
    <3>3. Tail(l) \in Seq(Place) /\ Len(Tail(l)) = Len(l) - 1 /\ \A i \in 1 .. Len(l) - 1 : Tail(l)[i] = l[i + 1]
      BY <1>1, <3>2
    <3> QED  BY <1>3, <2>2, <3>1, <3>3
  <2> QED  BY <2>1, <2>2
<1>5. \A i \in 1 .. c : /\ i + d \in 1 .. Len(l) /\ node[l[i + d]].size # 0
                        /\ node[l[i + d]].offset + node[l[i + d]].size <= total
  <2> SUFFICES ASSUME NEW i \in 1 .. c
               PROVE  /\ i + d \in 1 .. Len(l) /\ node[l[i + d]].size # 0
                      /\ node[l[i + d]].offset + node[l[i + d]].size <= total
    OBVIOUS
  <2>1. PICK j : j = i + d
    OBVIOUS
  <2>2. j \in 1 .. Len(l) /\ (d = 1 => j # 1)
    BY <1>1, <1>2, <1>3, <2>1
  <2>3. InBounds(node[l[j]], total) /\ EmptyHead(node, l, j)
    BY <2>2, Ordered
  <2>4. node[l[j]].size # 0
    BY <1>1, <1>2, <2>2, <2>3 DEF EmptyHead
  <2> QED  BY <2>1, <2>2, <2>3, <2>4 DEF InBounds
<1> DEFINE old == [k \in DOMAIN Kept |-> [offset |-> node[Kept[k]].offset, size |-> node[Kept[k]].size]]
<1>6. /\ old \in Seq(Span) /\ Len(old) = c
      /\ \A i \in 1 .. c : /\ old[i].offset = node[l[i + d]].offset
                           /\ old[i].size = node[l[i + d]].size
  <2>1. DOMAIN Kept = 1 .. c
    BY <1>4
  <2>2. \A i \in 1 .. c : [offset |-> node[Kept[i]].offset, size |-> node[Kept[i]].size] \in Span
    BY <1>1, <1>4, <1>5 DEF Span
  <2>3. old \in Seq(Span) /\ Len(old) = c
    BY <2>1, <2>2
  <2>4. \A i \in 1 .. c : old[i] = [offset |-> node[l[i + d]].offset, size |-> node[l[i + d]].size]
    BY <1>4, <2>1
  <2> HIDE DEF old
  <2> QED  BY <2>3, <2>4
<1>7. r = IF End(l[Len(l)]) = total
            THEN [old EXCEPT ![Len(old)].size = @ + (t - total)]
            ELSE Append(old, [offset |-> total, size |-> t - total])
  BY <1>1 DEF Copies, Last
<1> HIDE DEF old
<1>8. Apart(old)
  <2> SUFFICES ASSUME NEW i \in 1 .. c, NEW j \in 1 .. c, i < j
               PROVE  old[i].offset + old[i].size < old[j].offset
    BY <1>6 DEF Apart
  <2>1. i + d < j + d
    BY <1>3
  <2>2. Before(node[l[i + d]], node[l[j + d]])
    BY <1>5, <2>1, Ordered
  <2> QED  BY <1>5, <1>6, <2>2 DEF Before
<1>9. Within(old, total)
  BY <1>5, <1>6 DEF Within
<1>10. ASSUME NEW x \in Int PROVE Covers(old, x) <=> FreeAt(node, l, x)
  <2>1. \A i \in 1 .. c : Has(old[i], x) <=> Has(node[l[i + d]], x)
    BY <1>6 DEF Has
  <2>2. ASSUME NEW i \in 1 .. Len(l), Has(node[l[i]], x) PROVE \E j \in 1 .. c : i = j + d
    <3>1. node[l[i]].size # 0
      BY <1>1, <2>2 DEF Has
    <3>2. d = 1 => i # 1
      BY <1>1, <1>2, <3>1
    <3>3. i - d \in 1 .. c /\ i = (i - d) + d
      BY <1>1, <1>3, <3>2
    <3> QED  BY <3>3
  <2> QED  BY <1>5, <1>6, <2>1, <2>2 DEF Covers, FreeAt
<1>11. node[l[Len(l)]].offset + node[l[Len(l)]].size <= total /\ (c # 0 => c + d = Len(l))
  <2>1. Len(l) \in 1 .. Len(l)
    BY <1>1
  <2>2. InBounds(node[l[Len(l)]], total)
    BY <2>1, Ordered
  <2>3. c + d = Len(l)
    BY <1>1, <1>3
  <2> QED  BY <2>2, <2>3 DEF InBounds
<1>12. CASE End(l[Len(l)]) = total
  <2>1. c # 0
    <3> SUFFICES ASSUME c = 0 PROVE FALSE
      OBVIOUS
    <3>0. Len(l) \in Nat \ {0}
      BY <1>1
    <3>1. d = 1 /\ Len(l) = 1
      BY <1>3, <3>0
    <3>2. node[l[1]].size = 0
      BY <1>1, <1>2, <3>1
    <3>3. EmptyHead(node, l, 1)
      <4>1. 1 \in 1 .. Len(l)
        BY <3>1
      <4> QED  BY <4>1, Ordered
    <3>4. node[l[1]].offset = 0
      BY <3>2, <3>3 DEF EmptyHead
    <3> QED  BY <1>1, <1>12, <3>1, <3>2, <3>4 DEF End
  <2>2. old[Len(old)].offset + old[Len(old)].size = total /\ Len(old) # 0
    <3>1. c \in 1 .. c
      BY <2>1
    <3> QED  BY <1>6, <1>11, <1>12, <2>1, <3>1 DEF End
  <2>3. r = [old EXCEPT ![Len(old)].size = @ + (t - total)]
    BY <1>7, <1>12
  <2>4. total < t
    BY <1>1
  <2>5. /\ r \in Seq(Span) /\ Len(r) # 0 /\ Apart(r) /\ Within(r, t)
        /\ \A x \in 0 .. t - 1 : Covers(r, x) <=> x >= total \/ Covers(old, x)
    <3>1. total \in Nat /\ old \in Seq(Span)
      BY <1>1, <1>6
    <3> QED  BY <3>1, <1>8, <1>9, <2>2, <2>3, <2>4, RangesGrow
  <2> QED  BY <1>10, <2>5
<1>13. CASE End(l[Len(l)]) # total
  <2>1. ASSUME NEW i \in 1 .. c PROVE old[i].offset + old[i].size < total
    <3>0. /\ i + d \in 1 .. Len(l) /\ c \in 1 .. c /\ c # 0
          /\ node[l[i + d]].offset + node[l[i + d]].size <= total
      BY <1>5
    <3>1. CASE i = c
      <4>1. i + d = Len(l)
        BY <1>11, <3>0, <3>1
      <4>2. node[l[i + d]].offset + node[l[i + d]].size # total
        BY <1>13, <4>1 DEF End
      <4>3. PICK u \in Nat : u = node[l[i + d]].offset + node[l[i + d]].size
        BY <1>1, <3>0
      <4>4. u < total
        BY <1>1, <3>0, <4>2, <4>3
      <4> QED  BY <1>6, <4>3, <4>4
    <3>2. CASE i # c
      <4>1. old[i].offset + old[i].size < old[c].offset
        BY <1>6, <1>8, <3>0, <3>2 DEF Apart
      <4>2. old[c].offset + old[c].size <= total
        BY <1>6, <1>9, <3>0 DEF Within
      <4>3. old[c] \in Span /\ old[i] \in Span
        BY <1>6, <3>0
      <4>4. PICK u \in Nat, v \in Nat, w \in Nat :
              u = old[c].offset /\ v = old[c].size /\ w = old[i].offset + old[i].size
        BY <4>3 DEF Span
      <4>5. w < total
        BY <1>1, <4>1, <4>2, <4>4
      <4> QED  BY <4>4, <4>5
    <3> QED  BY <3>1, <3>2
  <2>2. r = Append(old, [offset |-> total, size |-> t - total])
    BY <1>7, <1>13
  <2>3. total < t
    BY <1>1
  <2>4. \A i \in 1 .. Len(old) : old[i].offset + old[i].size < total
    BY <1>6, <2>1
  <2>5. /\ r \in Seq(Span) /\ Len(r) # 0 /\ Apart(r) /\ Within(r, t)
        /\ \A x \in 0 .. t - 1 : Covers(r, x) <=> x >= total \/ Covers(old, x)
    BY <1>1, <1>6, <1>8, <1>9, <2>2, <2>3, <2>4, RangesExtend
  <2> QED  BY <1>10, <2>5
<1> QED  BY <1>12, <1>13

-----------------------------------------------------------------------------
\* The places of a list that a resize has copied: the empty head, then the copies.
Upward(n) == [i \in 1 .. n + 1 |-> i - 1]

LEMMA UpwardSeq ==
  ASSUME NEW n \in Nat, NEW e \in Nat, n < e
  PROVE  /\ Upward(n) \in Seq(0 .. e - 1) /\ Len(Upward(n)) = n + 1 /\ Upward(n) # <<>>
         /\ Upward(n)[1] = 0
         /\ \A i \in 1 .. n + 1 : Upward(n)[i] = i - 1
<1>1. n + 1 \in Nat /\ \A i \in 1 .. n + 1 : i - 1 \in 0 .. e - 1
  OBVIOUS
<1>2. Upward(n) \in Seq(0 .. e - 1) /\ Len(Upward(n)) = n + 1 /\ \A i \in 1 .. n + 1 : Upward(n)[i] = i - 1
  BY <1>1 DEF Upward
<1>3. 1 \in 1 .. n + 1
  OBVIOUS
<1> HIDE DEF Upward
<1>4. Upward(n)[1] = 0 /\ Upward(n) # <<>>
  <2>1. 1 - 1 = 0
    OBVIOUS
  <2> QED  BY <1>2, <1>3, <2>1
<1> QED  BY <1>2, <1>4

\* What a resize of a list leaves, by the places of its array.
LEMMA CopiedTo ==
  ASSUME NEW l, Here(l), NEW t \in Totals, Resize(t), ResizeCopy(t)
  PROVE  \E r, n, e :
           /\ r \in Seq(Span) /\ Apart(r) /\ Within(r, t)
           /\ \A x \in 0 .. t - 1 : Covers(r, x) <=> x >= total \/ FreeAt(node, l, x)
           /\ n = Len(r) /\ n \in Nat \ {0} /\ e \in Nat \ {0} /\ n < e
           /\ t \in Nat /\ total < t
           /\ DOMAIN node' = 0 .. e - 1 /\ head' = 0
           /\ node'[0] = [offset |-> 0, size |-> 0, next |-> 1]
           /\ \A p \in 1 .. n :
                /\ node'[p].offset = r[p].offset /\ node'[p].size = r[p].size
                /\ p < n => node'[p].next = p + 1
                /\ p = n => node'[p].next = IF p = 1 /\ node[head].size = 0 THEN 1 ELSE Null
                /\ node'[p] \in [offset : Nat, size : Nat, next : Nat \cup {Null}]
           /\ \A p \in 0 .. e - 1 : p > n => node'[p] = Unused
<1> DEFINE r == Copies(t)
           n == Len(r)
           e == Entries(t, ResizeBytes)
           twice == node[head].size = 0
<1>1. t \in Nat /\ t > total /\ total < t /\ head # Null
  <2>1. t \in Nat /\ t > total /\ head # Null /\ total \in Nat
    BY SizeAssumption, NodeTypes DEF Resize, ResizeCopy
  <2> QED  BY <2>1
<1>2. /\ r \in Seq(Span) /\ n # 0 /\ Apart(r) /\ Within(r, t)
      /\ \A x \in 0 .. t - 1 : Covers(r, x) <=> x >= total \/ FreeAt(node, l, x)
  BY <1>1, CopiesAre
<1>3. e \in Nat \ {0}
  BY <1>1, EntryAssumption, EntriesAre
<1>4. /\ n < e /\ head' = 0
      /\ node' = [p \in 0 .. e - 1 |->
                    CASE p = 0 -> [Unused EXCEPT !.next = 1]
                      [] p > n -> Unused
                      [] OTHER -> [offset |-> r[p].offset, size |-> r[p].size,
                                   next |-> CASE p < n           -> p + 1
                                              [] p = 1 /\ p = n /\ twice -> 1
                                              [] OTHER           -> Null]]
  BY DEF ResizeCopy
<1> HIDE DEF r, e, twice
<1>5. n \in Nat \ {0}
  BY <1>2
<1> HIDE DEF n
<1>6. DOMAIN node' = 0 .. e - 1 /\ node'[0] = [offset |-> 0, size |-> 0, next |-> 1]
  <2>1. 0 \in 0 .. e - 1 /\ ~(0 > n)
    BY <1>3, <1>5
  <2>2. DOMAIN node' = 0 .. e - 1 /\ node'[0] = [Unused EXCEPT !.next = 1]
    BY <1>4, <2>1
  <2> QED  BY <2>2 DEF Unused
<1>7. ASSUME NEW p \in 0 .. e - 1, p > n PROVE node'[p] = Unused
  <2>1. p # 0
    BY <1>5, <1>7
  <2> QED  BY <1>4, <1>7, <2>1
<1>8. ASSUME NEW p \in 1 .. n
      PROVE  /\ node'[p].offset = r[p].offset /\ node'[p].size = r[p].size
             /\ p < n => node'[p].next = p + 1
             /\ p = n => node'[p].next = IF p = 1 /\ twice THEN 1 ELSE Null
             /\ node'[p] \in [offset : Nat, size : Nat, next : Nat \cup {Null}]
  <2>1. p \in 0 .. e - 1 /\ p # 0 /\ ~(p > n) /\ p \in Nat /\ (p = n => ~(p < n))
    BY <1>3, <1>4, <1>5
  <2>2. PICK y : y = CASE p < n -> p + 1 [] p = 1 /\ p = n /\ twice -> 1 [] OTHER -> Null
    OBVIOUS
  <2>3. node'[p] = [offset |-> r[p].offset, size |-> r[p].size, next |-> y]
    BY <1>4, <2>1, <2>2
  <2>4. (p < n => y = p + 1) /\ (p = n => y = IF p = 1 /\ twice THEN 1 ELSE Null)
    <3>1. CASE p < n
      <4>1. p # n /\ ~(p = n)
        BY <2>1, <3>1
      <4> QED  BY <2>2, <3>1, <4>1
    <3>2. CASE p = n
      BY <2>1, <2>2, <3>2
    <3> QED  BY <3>1, <3>2
  <2>5. r[p].offset \in Nat /\ r[p].size \in Nat
    <3>1. p \in 1 .. Len(r)
      BY DEF n
    <3>2. r[p] \in Span
      BY <1>2, <3>1
    <3> QED  BY <3>2, SpanType
  <2>6. y \in Nat \cup {Null}
    <3>1. p < n \/ p = n
      BY <1>5
    <3> QED  BY <2>1, <2>4, <3>1
  <2> QED  BY <2>3, <2>4, <2>5, <2>6
<1>9. \A p \in 1 .. n :
        /\ node'[p].offset = r[p].offset /\ node'[p].size = r[p].size
        /\ p < n => node'[p].next = p + 1
        /\ p = n => node'[p].next = IF p = 1 /\ node[head].size = 0 THEN 1 ELSE Null
        /\ node'[p] \in [offset : Nat, size : Nat, next : Nat \cup {Null}]
  BY <1>8 DEF twice
<1>10. \A p \in 0 .. e - 1 : p > n => node'[p] = Unused
  BY <1>7
<1>11. n = Len(r)
  BY DEF n
<1> QED  BY <1>1, <1>2, <1>3, <1>4, <1>5, <1>6, <1>9, <1>10, <1>11

-----------------------------------------------------------------------------
\* The walk between an empty head and a node that is linked to itself.
Loop(n) == [i \in 1 .. n + 1 |-> IF i = 1 THEN 0 ELSE 1]

LEMMA LoopSeq ==
  ASSUME NEW n \in Nat
  PROVE  /\ Loop(n) \in Seq(Nat) /\ Len(Loop(n)) = n + 1
         /\ \A i \in 1 .. n + 1 : Loop(n)[i] = IF i = 1 THEN 0 ELSE 1
  BY DEF Loop

LEMMA LoopGrows ==
  ASSUME NEW n \in Nat
  PROVE  /\ Loop(n) # <<>> /\ Last(Loop(n)) = IF n = 0 THEN 0 ELSE 1
         /\ Append(Loop(n), 1) = Loop(n + 1)
<1>1. PICK k \in Nat : k = n + 1 /\ k # 0 /\ (k = 1 <=> n = 0)
  OBVIOUS
<1>2. PICK s \in Seq(Nat) : s = Loop(n) /\ Len(s) = k /\ \A i \in 1 .. k : s[i] = IF i = 1 THEN 0 ELSE 1
  BY <1>1, LoopSeq
<1>3. PICK r \in Seq(Nat) : r = Loop(n + 1) /\ Len(r) = k + 1 /\ \A i \in 1 .. k + 1 : r[i] = IF i = 1 THEN 0 ELSE 1
  BY <1>1, LoopSeq
<1>4. s # <<>> /\ Last(s) = s[k] /\ k \in 1 .. k
  BY <1>1, <1>2 DEF Last
<1>5. Append(s, 1) = r
  <2>1. Append(s, 1) \in Seq(Nat) /\ Len(Append(s, 1)) = k + 1
    BY <1>2
  <2>2. ASSUME NEW i \in 1 .. k + 1 PROVE Append(s, 1)[i] = r[i]
    <3>1. CASE i = k + 1
      <4>1. i # 1 /\ Append(s, 1)[i] = 1
        BY <1>1, <1>2, <3>1
      <4> QED  BY <1>3, <4>1
    <3>2. CASE i # k + 1
      <4>1. i \in 1 .. k
        BY <1>1, <3>2
      <4>2. Append(s, 1)[i] = s[i]
        BY <1>2, <4>1
      <4> QED  BY <1>2, <1>3, <4>1, <4>2
    <3> QED  BY <3>1, <3>2
  <2> QED  BY <1>3, <2>1, <2>2
<1> QED  BY <1>1, <1>2, <1>3, <1>4, <1>5

\* What WalkIsList says, of any state.
WalkEnds == Cardinality(Place) \in Nat => \A f : Walks(f) => List = f[Cardinality(Place)]

LEMMA WalkEndsAlways == WalkEnds
  BY WalkIsList DEF WalkEnds

\* A node that is linked to itself: the list has no end.
LEMMA Looped ==
  ASSUME NEW e \in Nat \ {0}, DOMAIN node' = 0 .. e - 1, head' = 0, node'[0].next = 1, node'[1].next = 1
  PROVE  Cyclic'
<1>1. Place' = 0 .. e - 1 /\ Cardinality(Place') = e
  BY LaidOut
<1> DEFINE f == [n \in Nat |-> Loop(n)]
<1>2. WalkEnds'
  BY WalkEndsAlways, PTL
<1>3. \A n \in Nat : f[n] = Loop(n)
  OBVIOUS
<1> HIDE DEF f
<1>4. 0 # Null /\ 1 # Null
  BY NullAssumption
<1>5. f[0] = Start'
  <2>1. Start' = <<0>>
    BY <1>4 DEF Start
  <2>2. Loop(0) \in Seq(Nat) /\ Len(Loop(0)) = 1 /\ Loop(0)[1] = 0
    <3>1. 0 \in Nat /\ 0 + 1 = 1 /\ 1 \in 1 .. 1
      OBVIOUS
    <3>2. Loop(0) \in Seq(Nat) /\ Len(Loop(0)) = 0 + 1
          /\ \A i \in 1 .. 0 + 1 : Loop(0)[i] = IF i = 1 THEN 0 ELSE 1
      BY <3>1, LoopSeq
    <3> QED  BY <3>1, <3>2
  <2>3. Loop(0) = <<0>>
    BY <2>2
  <2> QED  BY <1>3, <2>1, <2>3
<1>6. ASSUME NEW n \in 1 .. e PROVE f[n] = Step(f[n - 1])'
  <2>1. PICK k \in Nat : k = n - 1 /\ n = k + 1
    OBVIOUS
  <2>2. Loop(k) # <<>> /\ Last(Loop(k)) = (IF k = 0 THEN 0 ELSE 1) /\ Append(Loop(k), 1) = Loop(n)
    BY <2>1, LoopGrows
  <2>3. node'[Last(Loop(k))].next = 1
    BY <2>2
  <2>4. Step(Loop(k))' = Append(Loop(k), 1)
    BY <1>4, <2>2, <2>3 DEF Step
  <2>5. f[n] = Loop(n) /\ f[k] = Loop(k)
    BY <1>3, <2>1
  <2> QED  BY <2>1, <2>2, <2>4, <2>5
<1>7. Walks(f)'
  BY <1>1, <1>5, <1>6 DEF Walks
<1>8. List' = f[e]
  BY <1>1, <1>2, <1>7 DEF WalkEnds
<1>9. Len(f[e]) = e + 1 /\ e + 1 > e
  <2>1. e \in Nat /\ e + 1 > e
    OBVIOUS
  <2>2. Len(Loop(e)) = e + 1 /\ f[e] = Loop(e)
    BY <1>3, <2>1, LoopSeq
  <2> QED  BY <2>1, <2>2
<1> QED  BY <1>1, <1>8, <1>9 DEF Cyclic

\* A resize copies the list behind an empty head, unless it ties the list to itself.
LEMMA ResizeCopyGood ==
  ASSUME NEW l, Here(l), NEW t \in Totals, Resize(t), ResizeCopy(t)
  PROVE  TypeOK' /\ Numbered' /\ (Cyclic' \/ \E m : Leaves(m))
<1>1. PICK r, n, e :
           /\ r \in Seq(Span) /\ Apart(r) /\ Within(r, t)
           /\ \A x \in 0 .. t - 1 : Covers(r, x) <=> x >= total \/ FreeAt(node, l, x)
           /\ n = Len(r) /\ n \in Nat \ {0} /\ e \in Nat \ {0} /\ n < e
           /\ t \in Nat /\ total < t
           /\ DOMAIN node' = 0 .. e - 1 /\ head' = 0
           /\ node'[0] = [offset |-> 0, size |-> 0, next |-> 1]
           /\ \A p \in 1 .. n :
                /\ node'[p].offset = r[p].offset /\ node'[p].size = r[p].size
                /\ p < n => node'[p].next = p + 1
                /\ p = n => node'[p].next = IF p = 1 /\ node[head].size = 0 THEN 1 ELSE Null
                /\ node'[p] \in [offset : Nat, size : Nat, next : Nat \cup {Null}]
           /\ \A p \in 0 .. e - 1 : p > n => node'[p] = Unused
  BY CopiedTo
<1>2. /\ total' = t /\ answer' = NoAnswer /\ alive' = alive /\ held' = held /\ fault' = fault
  BY DEF Resize
<1>3. Place' = 0 .. e - 1 /\ Cardinality(Place') = e
  BY <1>1, LaidOut
<1>4. n \in Nat \ {0} /\ e \in Nat \ {0} /\ n < e /\ t \in Nat /\ total < t /\ total \in Nat /\ t # 0
  <2>1. total \in Nat
    BY NodeTypes
  <2> QED  BY <1>1, <2>1
<1>5. ASSUME NEW p \in 1 .. n
      PROVE  /\ node'[p].offset \in Nat /\ node'[p].size \in Nat /\ node'[p].size # 0
             /\ node'[p].offset + node'[p].size <= t
             /\ node'[p].offset = r[p].offset /\ node'[p].size = r[p].size
  <2>1. p \in 1 .. Len(r)
    BY <1>1
  <2>2. r[p] \in Span /\ r[p].offset + r[p].size <= t
    BY <1>1, <2>1 DEF Within
  <2> QED  BY <1>1, <2>2, SpanType
<1>6. \A p \in Place' : p = 0 \/ p \in 1 .. n \/ (p > n /\ node'[p] = Unused)
  BY <1>1, <1>3, <1>4
<1>7. TypeOK' /\ Numbered'
  <2>1. ASSUME NEW p \in Place'
        PROVE  node'[p] \in [offset : 0 .. t, size : 0 .. t, next : Place' \cup {Null}]
    <3>1. 0 \in Place' /\ 1 \in Place'
      BY <1>3, <1>4
    <3>2. CASE p = 0
      BY <1>1, <1>4, <3>1, <3>2
    <3>3. CASE p \in 1 .. n
      <4>1. node'[p].offset \in 0 .. t /\ node'[p].size \in 0 .. t
        BY <1>4, <1>5, <3>3
      <4>2. p + 1 \in Place' \/ p = n
        BY <1>3, <1>4, <3>3
      <4>3. p < n \/ p = n
        BY <1>4, <3>3
      <4>4. node'[p].next \in Place' \cup {Null}
        <5>1. CASE p = n
          BY <1>1, <3>1, <3>3, <5>1
        <5>2. CASE p # n
          BY <1>1, <3>3, <4>2, <4>3, <5>2
        <5> QED  BY <5>1, <5>2
      <4>5. node'[p] \in [offset : Nat, size : Nat, next : Nat \cup {Null}]
        BY <1>1, <3>3
      <4> QED  BY <4>1, <4>4, <4>5
    <3>4. CASE node'[p] = Unused
      BY <1>4, <3>4 DEF Unused
    <3> QED  BY <1>6, <3>2, <3>3, <3>4
  <2>2. head' \in Place' \cup {Null} /\ Place' = 0 .. Cardinality(Place') - 1
    BY <1>1, <1>3, <1>4
  <2>3. held' \subseteq [offset : 0 .. t, size : 1 .. t]
    <3>1. 0 .. total \subseteq 0 .. t /\ 1 .. total \subseteq 1 .. t
      BY <1>4
    <3>2. held \subseteq [offset : 0 .. total, size : 1 .. total]
      BY DEF Here, TypeOK
    <3> QED  BY <1>2, <3>1, <3>2
  <2>4. alive' \in BOOLEAN /\ fault' \in {"none", "free", "resize", "clear"}
        /\ answer' \in 0 .. total' \cup {NoAnswer, Refused} /\ total' \in Nat
    BY <1>2, <1>4 DEF Here, TypeOK
  <2>5. \A p \in Place' : node'[p] \in [offset : 0 .. total', size : 0 .. total', next : Place' \cup {Null}]
    BY <1>2, <2>1
  <2>6. TypeOK'
    BY <1>2, <2>2, <2>3, <2>4, <2>5 DEF TypeOK
  <2>7. Numbered'
    BY <1>2, <1>3, <1>4 DEF Numbered
  <2> QED  BY <2>6, <2>7
<1>8. CASE n = 1 /\ node[head].size = 0
  <2>1. node'[0].next = 1
    BY <1>1
  <2>2. node'[1].next = 1
    <3>1. 1 \in 1 .. n /\ 1 = n
      BY <1>8
    <3> QED  BY <1>1, <1>8, <3>1
  <2>3. Cyclic'
    BY <1>1, <2>1, <2>2, Looped
  <2> QED  BY <1>7, <2>3
<1>9. CASE ~(n = 1 /\ node[head].size = 0)
  <2> DEFINE m == Upward(n)
  <2>1. /\ m \in Seq(0 .. e - 1) /\ Len(m) = n + 1 /\ m # <<>> /\ m[1] = 0
        /\ \A i \in 1 .. n + 1 : m[i] = i - 1
    BY <1>4, UpwardSeq
  <2> HIDE DEF m
  <2>2. \A i \in 1 .. n + 1 : i = 1 \/ (i # 1 /\ i - 1 \in 1 .. n)
    BY <1>4
  <2>3. Chain(node', head', m)
    <3>1. m \in Seq(DOMAIN node')
      BY <1>1, <2>1
    <3>2. ASSUME NEW i \in 1 .. n + 1
          PROVE  node'[m[i]].next = IF i = n + 1 THEN Null ELSE m[i + 1]
      <4>1. CASE i = 1
        <5>1. i # n + 1 /\ i + 1 \in 1 .. n + 1 /\ (i + 1) - 1 = 1
          BY <1>4, <4>1
        <5>2. m[i + 1] = 1 /\ m[i] = 0
          BY <2>1, <4>1, <5>1
        <5> QED  BY <1>1, <5>1, <5>2
      <4>2. CASE i # 1 /\ i = n + 1
        <5>1. m[i] = n /\ n \in 1 .. n
          BY <1>4, <2>1, <4>2
        <5>2. node'[n].next = Null
          BY <1>1, <1>9, <5>1
        <5> QED  BY <4>2, <5>1, <5>2
      <4>3. CASE i # 1 /\ i # n + 1
        <5>1. PICK p : p = i - 1
          OBVIOUS
        <5>2. p \in 1 .. n /\ p < n /\ i + 1 \in 1 .. n + 1 /\ (i + 1) - 1 = p + 1
          BY <1>4, <4>3, <5>1
        <5>3. m[i] = p /\ m[i + 1] = p + 1
          BY <2>1, <5>1, <5>2
        <5>4. node'[p].next = p + 1
          BY <1>1, <5>2
        <5> QED  BY <4>3, <5>3, <5>4
      <4> QED  BY <4>1, <4>2, <4>3
    <3>3. ASSUME NEW i \in 1 .. n + 1, NEW j \in 1 .. n + 1, m[i] = m[j] PROVE i = j
      <4>1. i - 1 = j - 1
        BY <2>1, <3>3
      <4> QED  BY <1>4, <4>1
    <3>4. head' = IF m = <<>> THEN Null ELSE m[1]
      BY <1>1, <2>1
    <3> QED  BY <2>1, <3>1, <3>2, <3>3, <3>4 DEF Chain
  <2>4. Tidy(node', m, t)
    <3>1. ASSUME NEW i \in 1 .. n + 1
          PROVE  /\ node'[m[i]].offset + node'[m[i]].size <= t
                 /\ node'[m[i]].size = 0 => i = 1 /\ m[i] = 0 /\ node'[m[i]].offset = 0
      <4>1. CASE i = 1
        <5>1. m[i] = 0 /\ node'[m[i]].offset = 0 /\ node'[m[i]].size = 0
          BY <1>1, <2>1, <4>1
        <5> QED  BY <1>4, <4>1, <5>1
      <4>2. CASE i # 1
        BY <1>5, <2>1, <2>2, <4>2
      <4> QED  BY <4>1, <4>2
    <3>2. ASSUME NEW i \in 1 .. n + 1, NEW j \in 1 .. n + 1, i < j
          PROVE  node'[m[i]].size = 0 \/ node'[m[i]].offset + node'[m[i]].size < node'[m[j]].offset
      <4>1. CASE i = 1
        BY <1>1, <2>1, <4>1
      <4>2. CASE i # 1
        <5>1. PICK p, q : p = i - 1 /\ q = j - 1
          OBVIOUS
        <5>2. p \in 1 .. n /\ q \in 1 .. n /\ p < q /\ m[i] = p /\ m[j] = q
          BY <1>4, <2>1, <3>2, <4>2, <5>1
        <5>3. r[p].offset + r[p].size < r[q].offset
          BY <1>1, <5>2 DEF Apart
        <5> QED  BY <1>5, <5>2, <5>3
      <4> QED  BY <4>1, <4>2
    <3>3. ASSUME NEW x \in DOMAIN node', node'[x].size # 0 PROVE \E i \in 1 .. n + 1 : m[i] = x
      <4>1. x \in 1 .. n
        <5>1. x \in Place'
          BY <1>1, <1>3, <3>3
        <5>2. x # 0
          BY <1>1, <3>3
        <5>3. node'[x] # Unused
          BY <3>3 DEF Unused
        <5> QED  BY <1>6, <5>1, <5>2, <5>3
      <4>2. x + 1 \in 1 .. n + 1 /\ (x + 1) - 1 = x
        BY <1>4, <4>1
      <4> QED  BY <2>1, <4>2
    <3> QED  BY <2>1, <3>1, <3>2, <3>3 DEF Tidy
  <2>5. Shared(node', m, t, held)
    <3>1. Shared(node, l, total, held)
      BY DEF Here, Good
    <3>2. ASSUME NEW x \in 0 .. t - 1 PROVE FreeAt(node', m, x) <=> Covers(r, x)
      <4>1. ~Has(node'[m[1]], x)
        <5>1. node'[m[1]].offset = 0 /\ node'[m[1]].size = 0
          BY <1>1, <2>1
        <5> QED  BY <5>1 DEF Has
      <4>2. \A p \in 1 .. n : Has(node'[p], x) <=> Has(r[p], x)
        BY <1>5 DEF Has
      <4>3. ASSUME NEW i \in 1 .. n + 1, Has(node'[m[i]], x) PROVE \E p \in 1 .. n : Has(r[p], x)
        <5>1. i - 1 \in 1 .. n /\ m[i] = i - 1
          BY <2>1, <2>2, <4>1, <4>3
        <5> QED  BY <4>2, <4>3, <5>1
      <4>4. ASSUME NEW p \in 1 .. n, Has(r[p], x) PROVE \E i \in 1 .. n + 1 : Has(node'[m[i]], x)
        <5>1. p + 1 \in 1 .. n + 1 /\ (p + 1) - 1 = p
          BY <1>4
        <5>2. m[p + 1] = p
          BY <2>1, <5>1
        <5> QED  BY <4>2, <4>4, <5>1, <5>2
      <4> QED  BY <1>1, <2>1, <4>3, <4>4 DEF FreeAt, Covers
    <3>3. \A b \in held : b.offset \in Nat /\ b.size \in Nat /\ b.offset + b.size <= total
      BY <3>1, NodeTypes DEF Shared
    <3>4. \A x \in Int : \A b \in held : Has(b, x) => x \in 0 .. total - 1
      BY <1>4, <3>3 DEF Has
    <3>5. \A x \in 0 .. t - 1 : x \in Int /\ (x \in 0 .. total - 1 <=> ~(x >= total))
      BY <1>4
    <3>6. \A x \in 0 .. t - 1 : TakenAt(held, x) <=> x \in 0 .. total - 1 /\ ~FreeAt(node, l, x)
      BY <3>1, <3>4, <3>5 DEF Shared, TakenAt
    <3>7. \A x \in 0 .. t - 1 : FreeAt(node', m, x) <=> ~TakenAt(held, x)
      BY <1>1, <3>2, <3>5, <3>6
    <3>8. \A b, c \in held : \A x \in 0 .. t - 1 : Has(b, x) /\ Has(c, x) => b = c
      BY <3>1, <3>4, <3>5 DEF Shared
    <3>9. \A b \in held : b.offset + b.size <= t
      <4> SUFFICES ASSUME NEW b \in held PROVE b.offset + b.size <= t
        OBVIOUS
      <4>1. PICK u \in Nat : u = b.offset + b.size
        BY <3>3
      <4> QED  BY <1>4, <3>3, <4>1
    <3> QED  BY <3>7, <3>8, <3>9 DEF Shared
  <2>6. m \in Seq(DOMAIN node')
    BY <2>3 DEF Chain
  <2>7. Leaves(m)
    BY <1>2, <1>7, <2>3, <2>4, <2>5, <2>6 DEF Leaves, Good
  <2> QED  BY <1>7, <2>7
<1> QED  BY <1>8, <1>9

-----------------------------------------------------------------------------
(***************************************************************************)
(* The invariant is inductive.                                             *)
(***************************************************************************)
LEMMA InitGood == Init => IInv
<1> SUFFICES ASSUME Init PROVE IInv
  OBVIOUS
<1> DEFINE e == Entries(InitialTotal, EntryBytes)
           m == <<0>>
<1>1. e \in Nat \ {0}
  BY SizeAssumption, EntryAssumption, EntriesAre
<1>2. /\ total = InitialTotal /\ alive = TRUE /\ node = Whole(InitialTotal, e) /\ head = 0
      /\ held = {} /\ answer = NoAnswer /\ fault = "none"
  BY DEF Init
<1> HIDE DEF e
<1>3. total \in Nat \ {0}
  BY <1>2, SizeAssumption
<1>4. /\ DOMAIN node = 0 .. e - 1 /\ Place = 0 .. e - 1
      /\ node[0] = [offset |-> 0, size |-> total, next |-> Null]
      /\ \A x \in 0 .. e - 1 : x # 0 => node[x] = Unused
  BY <1>1, <1>2 DEF Whole, Unused, Place
<1>5. Cardinality(Place) = e
  <2>1. 0 \in Int /\ e - 1 \in Int /\ ~(0 > e - 1)
    BY <1>1
  <2>2. Cardinality(0 .. e - 1) = e - 1 - 0 + 1
    BY <2>1, FS_Interval
  <2> QED  BY <1>1, <1>4, <2>2
<1>6. Numbered
  BY <1>1, <1>3, <1>4, <1>5 DEF Numbered
<1>7. TypeOK
  <2>1. node[0] \in [offset : 0 .. total, size : 0 .. total, next : Place \cup {Null}]
    BY <1>3, <1>4
  <2>2. Unused \in [offset : 0 .. total, size : 0 .. total, next : Place \cup {Null}]
    BY <1>3 DEF Unused
  <2>3. \A x \in Place : node[x] \in [offset : 0 .. total, size : 0 .. total, next : Place \cup {Null}]
    BY <1>4, <2>1, <2>2
  <2>4. 0 \in Place
    BY <1>1, <1>4
  <2> QED  BY <1>2, <1>3, <1>4, <1>5, <2>3, <2>4 DEF TypeOK
<1>8. Len(m) = 1 /\ m[1] = 0 /\ m # <<>> /\ m \in Seq(Place)
  BY <1>1, <1>4
<1> HIDE DEF m
<1>9. node[0].offset = 0 /\ node[0].size = total /\ node[0].next = Null
  BY <1>4
<1>10. Chain(node, head, m)
  BY <1>2, <1>4, <1>8, <1>9 DEF Chain
<1>11. Tidy(node, m, total)
  <2>1. \A k \in 1 .. Len(m) : k = 1
    BY <1>8
  <2>2. \A k \in 1 .. Len(m) : node[m[k]].offset + node[m[k]].size <= total /\ node[m[k]].size # 0
    BY <1>3, <1>8, <1>9, <2>1
  <2>3. \A x \in DOMAIN node : node[x].size # 0 => x = 0
    BY <1>4 DEF Unused
  <2>4. \A i, k \in 1 .. Len(m) : ~(i < k)
    BY <1>8
  <2> QED  BY <1>8, <2>2, <2>3, <2>4 DEF Tidy
<1>12. Shared(node, m, total, held)
  <2>1. \A x \in 0 .. total - 1 : Has(node[0], x)
    BY <1>3, <1>9 DEF Has
  <2>2. \A x \in 0 .. total - 1 : FreeAt(node, m, x)
    BY <1>8, <2>1 DEF FreeAt
  <2> QED  BY <1>2, <2>2 DEF Shared, TakenAt
<1> QED  BY <1>6, <1>7, <1>8, <1>10, <1>11, <1>12 DEF IInv, Good

LEMMA LeavesInv == ASSUME NEW m, Leaves(m) PROVE IInv'
  BY DEF Leaves, IInv, Place

\* After a write through null nothing is promised but the types.
LEMMA FaultInv ==
  ASSUME NEW l, Here(l), fault' \in {"free", "resize", "clear"},
         UNCHANGED <<total, node, head, alive, held, answer>>
  PROVE  IInv'
<1>1. TypeOK' /\ Numbered'
  BY DEF Here, TypeOK, Numbered, Place
<1>2. ~Ready'
  BY DEF Ready
<1> QED  BY <1>1, <1>2 DEF IInv

LEMMA DestroyInv ==
  ASSUME NEW l, Here(l), Destroy
  PROVE  IInv'
<1>1. total' = total /\ alive' = FALSE /\ fault' = fault /\ held' = {} /\ answer' = NoAnswer /\ head' = Null
      /\ node' = [p \in Place |-> Unused]
  BY DEF Destroy
<1>2. Place' = Place
  BY <1>1 DEF Place
<1>3. Numbered'
  BY <1>1, <1>2 DEF Here, Numbered
<1>4. Unused \in [offset : 0 .. total, size : 0 .. total, next : Place \cup {Null}]
  BY NodeTypes DEF Unused
<1>5. \A x \in Place : node'[x] = Unused
  BY <1>1
<1>6. TypeOK
  BY DEF Here
<1>7. TypeOK'
  BY <1>1, <1>2, <1>4, <1>5, <1>6 DEF TypeOK
<1>8. ~Ready'
  BY <1>1 DEF Ready
<1> QED  BY <1>3, <1>7, <1>8 DEF IInv

LEMMA ResizeInv ==
  ASSUME NEW l, Here(l), NEW t \in Totals, Resize(t)
  PROVE  IInv'
<1>1. CASE ResizeFull(t)
  BY <1>1, ResizeFullGood, LeavesInv
<1>2. CASE ResizeCopy(t)
  <2>1. TypeOK' /\ Numbered' /\ (Cyclic' \/ \E m : Leaves(m))
    BY <1>2, ResizeCopyGood
  <2>2. CASE Cyclic'
    <3>1. ~Ready'
      BY <2>2 DEF Ready
    <3> QED  BY <2>1, <3>1 DEF IInv
  <2>3. CASE \E m : Leaves(m)
    BY <2>3, LeavesInv
  <2> QED  BY <2>1, <2>2, <2>3
<1> QED  BY <1>1, <1>2 DEF Resize

LEMMA NextInv == IInv /\ [Next]_vars => IInv'
<1> SUFFICES ASSUME IInv, [Next]_vars PROVE IInv'
  OBVIOUS
<1>1. CASE UNCHANGED vars
  BY <1>1 DEF vars, IInv, TypeOK, Numbered, Place, Ready, Cyclic, List
<1>2. ASSUME NEW s \in Size, AllocateExact(s) PROVE IInv'
  BY <1>2, AtWork, AllocateExactGood, LeavesInv DEF AllocateExact
<1>3. ASSUME NEW s \in Size, AllocateFront(s) PROVE IInv'
  BY <1>3, AtWork, AllocateFrontGood, LeavesInv DEF AllocateFront
<1>4. ASSUME NEW s \in Size, AllocateRefused(s) PROVE IInv'
  <2>1. Ready /\ answer' \in 0 .. total \cup {NoAnswer, Refused}
        /\ UNCHANGED <<total, node, head, alive, held, fault>>
    BY <1>4 DEF AllocateRefused
  <2> QED  BY <2>1, AtWork, SameGood, LeavesInv
<1>5. ASSUME NEW b \in held, FreeIntoEmpty(b) PROVE IInv'
  BY <1>5, AtWork, FreeIntoEmptyGood, LeavesInv DEF FreeIntoEmpty
<1>6. ASSUME NEW b \in held, FreeAppend(b) PROVE IInv'
  BY <1>6, AtWork, FreeAppendGood, LeavesInv DEF FreeAppend
<1>7. ASSUME NEW b \in held, FreeInsert(b) PROVE IInv'
  BY <1>7, AtWork, FreeInsertGood, LeavesInv DEF FreeInsert
<1>8. ASSUME NEW b \in held, FreeAtEnd(b) PROVE IInv'
  BY <1>8, AtWork, FreeAtEndGood, LeavesInv DEF FreeAtEnd
<1>9. ASSUME NEW b \in held, FreeFault(b) PROVE IInv'
  BY <1>9, AtWork, FaultInv DEF FreeFault
<1>10. ASSUME NEW x \in 0 .. total, FreeAgain(x) PROVE IInv'
  BY <1>1, <1>10 DEF FreeAgain
<1>11. ASSUME NEW t \in Totals, Resize(t) PROVE IInv'
  BY <1>11, AtWork, ResizeInv DEF Resize
<1>12. ASSUME NEW t \in Totals, ResizeFault(t) PROVE IInv'
  BY <1>12, AtWork, FaultInv DEF ResizeFault
<1>13. CASE Clear
  BY <1>13, AtWork, ClearGood, LeavesInv DEF Clear
<1>14. CASE ClearFault
  BY <1>14, AtWork, FaultInv DEF ClearFault
<1>15. CASE Destroy
  BY <1>15, AtWork, DestroyInv DEF Destroy
<1> QED
  BY <1>1, <1>2, <1>3, <1>4, <1>5, <1>6, <1>7, <1>8, <1>9, <1>10, <1>11, <1>12, <1>13, <1>14, <1>15
  DEF Next

\* In every behaviour the invariant holds.
THEOREM AlwaysIInv == Spec => []IInv
<1>1. IInv /\ [Next]_vars => IInv'
  BY NextInv
<1> QED  BY <1>1, InitGood, PTL DEF Spec

-----------------------------------------------------------------------------
(***************************************************************************)
(* What the invariant says of the bytes and the places.                    *)
(***************************************************************************)
LEMMA BytesOnce == ASSUME NEW l, Here(l) PROVE EachByteOnce
<1>1. DOMAIN List = 1 .. Len(l) /\ List = l
  BY DEF Here
<1> SUFFICES ASSUME NEW x \in 0 .. total - 1
             PROVE  Cardinality({k \in DOMAIN List : Has(node[List[k]], x)})
                      + Cardinality({b \in held : Has(b, x)}) = 1
  BY DEF EachByteOnce
<1> DEFINE F == {k \in 1 .. Len(l) : Has(node[l[k]], x)}
           T == {b \in held : Has(b, x)}
<1>2. {k \in DOMAIN List : Has(node[List[k]], x)} = F
  BY <1>1
<1>3. FreeAt(node, l, x) <=> ~TakenAt(held, x)
  BY DEF Here, Good, Shared
<1>4. Cardinality(F) + Cardinality(T) = 1
  <2>0. Cardinality({}) = 0
    BY FS_EmptySet
  <2>1. CASE FreeAt(node, l, x)
    <3>1. PICK k \in 1 .. Len(l) : Has(node[l[k]], x)
      BY <2>1 DEF FreeAt
    <3>2. F = {k}
      BY <3>1, OneNode
    <3>3. T = {}
      BY <1>3, <2>1 DEF TakenAt
    <3> HIDE DEF F, T
    <3>4. Cardinality({k}) = 1
      BY FS_Singleton
    <3>5. Cardinality(F) = 1 /\ Cardinality(T) = 0
      BY <2>0, <3>2, <3>3, <3>4
    <3> QED  BY <3>5
  <2>2. CASE ~FreeAt(node, l, x)
    <3>1. PICK b \in held : Has(b, x)
      BY <1>3, <2>2 DEF TakenAt
    <3>2. T = {b}
      BY <3>1 DEF Here, Good, Shared
    <3>3. F = {}
      BY <2>2 DEF FreeAt
    <3> HIDE DEF F, T
    <3>4. Cardinality({b}) = 1
      BY FS_Singleton
    <3>5. Cardinality(T) = 1 /\ Cardinality(F) = 0
      BY <2>0, <3>2, <3>3, <3>4
    <3> QED  BY <3>5
  <2> QED  BY <2>1, <2>2
<1> QED  BY <1>2, <1>4

LEMMA NodesApart == ASSUME NEW l, Here(l) PROVE Coalesced
<1>1. List = l /\ Len(l) \in Nat
  BY NodeTypes DEF Here
<1>2. ASSUME NEW k \in 1 .. Len(l) - 1
      PROVE  node[l[k]].size = 0 \/ node[l[k]].offset + node[l[k]].size < node[l[k + 1]].offset
  <2>1. k \in 1 .. Len(l) /\ k + 1 \in 1 .. Len(l) /\ k < k + 1
    BY <1>1
  <2> QED  BY <2>1, Ordered DEF Before
<1> QED  BY <1>1, <1>2 DEF Coalesced, End

LEMMA InvBytes == IInv => FreeBytesListed
<1> SUFFICES ASSUME IInv PROVE EachByteOnce /\ Coalesced
  BY DEF IInv, FreeBytesListed
<1>1. CASE Ready
  BY <1>1, AtWork, BytesOnce, NodesApart
<1>2. CASE ~Ready
  BY <1>2 DEF EachByteOnce, Coalesced
<1> QED  BY <1>1, <1>2

LEMMA InvPlaces == IInv => PlacesReturned
<1> SUFFICES ASSUME IInv, Ready, NEW p \in Place, node[p].size # 0
             PROVE  \E k \in DOMAIN List : List[k] = p
  BY DEF PlacesReturned
<1>1. PICK l : Here(l)
  BY AtWork
<1>2. DOMAIN List = 1 .. Len(l) /\ List = l
  BY <1>1 DEF Here
<1> QED  BY <1>1, <1>2, Ordered

\* In every state of a list, while it works, every byte is in one node or in
\* one block, never in two, and neighbours are merged (freelist_allocate_block,
\* freelist_free_block, freelist_resize, freelist_clear).
THEOREM BytesStayListed == Spec => []FreeBytesListed
  BY AlwaysIInv, InvBytes, PTL

\* No node of the array is lost: one that get_node would not give out again is
\* in the list (return_node and the walks of freelist_allocate_block).
THEOREM PlacesStayReturned == Spec => []PlacesReturned
  BY AlwaysIInv, InvPlaces, PTL

-----------------------------------------------------------------------------
(***************************************************************************)
(* The list is a block allocator: each step of the list is a step of       *)
(* BlockAllocator, or changes nothing there.                               *)
(***************************************************************************)

\* The front of a node fits: no block has a byte of it.
LEMMA FrontFits ==
  ASSUME NEW l, Here(l), NEW s \in Size, NEW k \in 1 .. Len(l), node[l[k]].size >= s
  PROVE  node[l[k]].offset \in 0 .. total - s /\ Allocator!Fits(node[l[k]].offset, s)
<1>1. /\ s \in Nat \ {0} /\ total \in Nat /\ node[l[k]].offset \in Nat /\ node[l[k]].size \in Nat
      /\ node[l[k]].offset + node[l[k]].size <= total
  BY SizeAssumption, NodeTypes, Ordered DEF InBounds
<1>2. PICK o \in Nat, z \in Nat : o = node[l[k]].offset /\ z = node[l[k]].size
  BY <1>1
<1>3. o + z <= total /\ z >= s
  BY <1>1, <1>2
<1>4. o \in 0 .. total - s /\ o + s <= total
  BY <1>1, <1>3
<1>5. ASSUME NEW b \in held PROVE Allocator!Disjoint([offset |-> o, size |-> s], b)
  <2>1. b.offset + b.size <= o \/ o + z <= b.offset
    BY <1>2, BlockNode
  <2>2. b.offset \in Nat /\ b.size \in Nat
    BY NodeTypes
  <2>3. b.offset + b.size <= o \/ o + s <= b.offset
    BY <1>1, <1>3, <2>1, <2>2
  <2> QED  BY <2>3 DEF Allocator!Disjoint
<1> QED  BY <1>2, <1>4, <1>5 DEF Allocator!Fits

\* A run of free bytes is in one node: where one of the nodes ends, the byte
\* that follows is in no node.
LEMMA RunInNode ==
  ASSUME NEW l, Here(l), NEW o \in Nat, NEW s \in Nat \ {0}, o + s <= total,
         \A b \in held : Allocator!Disjoint([offset |-> o, size |-> s], b)
  PROVE  \E k \in 1 .. Len(l) : node[l[k]].size >= s
<1>1. /\ total \in Nat
      /\ \A i \in 1 .. Len(l) : node[l[i]].offset \in Nat /\ node[l[i]].size \in Nat
  BY NodeTypes
<1>2. ASSUME NEW x \in Nat, o <= x, x < o + s PROVE \E i \in 1 .. Len(l) : Has(node[l[i]], x)
  <2>1. x \in 0 .. total - 1
    BY <1>1, <1>2
  <2>2. ASSUME NEW b \in held, Has(b, x) PROVE FALSE
    <3>1. b.offset + b.size <= o \/ o + s <= b.offset
      BY DEF Allocator!Disjoint
    <3>2. b.offset \in Nat /\ b.size \in Nat
      BY NodeTypes
    <3> QED  BY <1>2, <2>2, <3>1, <3>2 DEF Has
  <2>3. FreeAt(node, l, x) <=> ~TakenAt(held, x)
    BY <2>1 DEF Here, Good, Shared
  <2> QED  BY <2>2, <2>3 DEF FreeAt, TakenAt
<1>3. PICK k \in 1 .. Len(l) : Has(node[l[k]], o)
  BY <1>2
<1>4. PICK a \in Nat, z \in Nat : a = node[l[k]].offset /\ z = node[l[k]].size
  BY <1>1
<1>5. a <= o /\ o < a + z
  BY <1>3, <1>4 DEF Has
<1>6. CASE z >= s
  BY <1>4, <1>6
<1>7. CASE z < s
  <2>1. PICK e \in Nat : e = a + z /\ o <= e /\ e < o + s
    BY <1>5, <1>7
  <2>2. PICK j \in 1 .. Len(l) : Has(node[l[j]], e)
    BY <1>2, <2>1
  <2>3. PICK c \in Nat, y \in Nat : c = node[l[j]].offset /\ y = node[l[j]].size
    BY <1>1
  <2>4. c <= e /\ e < c + y
    BY <2>2, <2>3 DEF Has
  <2>5. z # 0 /\ y # 0
    BY <1>5, <2>4
  <2>6. k < j => a + z < c
    BY <1>4, <2>3, <2>5, Ordered DEF Before
  <2>7. j < k => c + y < a
    BY <1>4, <2>3, <2>5, Ordered DEF Before
  <2>8. j = k => c = a /\ y = z
    BY <1>4, <2>3
  <2>9. ~(k < j) /\ ~(j < k) /\ j # k
    BY <1>5, <2>1, <2>4, <2>6, <2>7, <2>8
  <2> QED  BY <2>9
<1> QED  BY <1>6, <1>7

LEMMA AllocateMaps ==
  ASSUME NEW l, Here(l), NEW s \in Size, AllocateExact(s) \/ AllocateFront(s)
  PROVE  Allocator!Allocate(s)
<1> DEFINE k == FirstIn(LAMBDA q : node[q].size >= s)
<1>1. s \in Nat
  BY SizeAssumption
<1>2. /\ k # 0 /\ held' = held \cup {[offset |-> node[List[k]].offset, size |-> s]}
      /\ answer' = node[List[k]].offset /\ total' = total
  BY DEF AllocateExact, AllocateFront, Got
<1>3. k \in 1 .. Len(l) /\ node[l[k]].size >= s
  <2>1. k # 0
    BY <1>2
  <2>2. k \in 1 .. Len(l)
    BY <1>1, <2>1, FirstFit
  <2>3. node[l[k]].size >= s
    BY <1>1, <2>1, FirstFit
  <2> QED  BY <2>2, <2>3
<1> HIDE DEF k
<1>4. List[k] = l[k]
  BY DEF Here
<1>5. PICK o : o = node[l[k]].offset /\ o \in 0 .. total - s /\ Allocator!Fits(o, s)
  BY <1>3, FrontFits
<1>6. held' = held \cup {[offset |-> o, size |-> s]} /\ answer' = o /\ total' = total
  BY <1>2, <1>4, <1>5
<1> QED  BY <1>5, <1>6 DEF Allocator!Allocate

LEMMA RefuseMaps ==
  ASSUME NEW l, Here(l), NEW s \in Size, AllocateRefused(s)
  PROVE  Allocator!Refuse(s)
<1> DEFINE k == FirstIn(LAMBDA q : node[q].size >= s)
<1>1. s \in Nat \ {0} /\ s \in Nat /\ total \in Nat
  BY SizeAssumption, NodeTypes
<1>2. k = 0 /\ answer' = Refused /\ UNCHANGED <<total, held>>
  BY DEF AllocateRefused
<1>3. \A i \in 1 .. Len(l) : node[l[i]].size < s
  <2>1. \/ k = 0 /\ \A i \in 1 .. Len(l) : node[l[i]].size < s
        \/ k \in 1 .. Len(l) /\ node[l[k]].size >= s
    BY <1>1, FirstFit
  <2> HIDE DEF k
  <2>2. k \notin 1 .. Len(l)
    BY <1>2
  <2> QED  BY <2>1, <2>2
<1> HIDE DEF k
<1>4. ASSUME NEW o \in 0 .. total - s, Allocator!Fits(o, s) PROVE FALSE
  <2>1. o \in Nat /\ o + s <= total
    BY <1>4 DEF Allocator!Fits
  <2>2. \A b \in held : Allocator!Disjoint([offset |-> o, size |-> s], b)
    BY <1>4 DEF Allocator!Fits
  <2>3. PICK i \in 1 .. Len(l) : node[l[i]].size >= s
    BY <1>1, <2>1, <2>2, RunInNode
  <2>4. node[l[i]].size \in Nat /\ node[l[i]].size < s
    BY <1>3, NodeTypes
  <2> QED  BY <1>1, <2>3, <2>4
<1> QED  BY <1>2, <1>4 DEF Allocator!Refuse

LEMMA NextMaps == IInv /\ [Next]_vars => [Allocator!Next]_(Allocator!vars)
<1> SUFFICES ASSUME IInv, [Next]_vars PROVE Allocator!Next \/ UNCHANGED <<total, held, answer>>
  BY DEF Allocator!vars
<1>1. CASE UNCHANGED vars
  BY <1>1 DEF vars
<1>2. ASSUME NEW s \in Size, AllocateExact(s) \/ AllocateFront(s) PROVE Allocator!Next
  <2>1. Ready
    BY <1>2 DEF AllocateExact, AllocateFront
  <2>2. Allocator!Allocate(s)
    BY <1>2, <2>1, AtWork, AllocateMaps
  <2> QED  BY <2>2 DEF Allocator!Next
<1>3. ASSUME NEW s \in Size, AllocateRefused(s) PROVE Allocator!Next
  <2>1. Ready
    BY <1>3 DEF AllocateRefused
  <2>2. Allocator!Refuse(s)
    BY <1>3, <2>1, AtWork, RefuseMaps
  <2> QED  BY <2>2 DEF Allocator!Next
<1>4. ASSUME NEW b \in held, FreeIntoEmpty(b) \/ FreeAppend(b) \/ FreeInsert(b) \/ FreeAtEnd(b)
      PROVE  Allocator!Next
  <2>1. GaveBack(b)
    BY <1>4 DEF FreeIntoEmpty, FreeAppend, FreeInsert, FreeAtEnd
  <2>2. Allocator!Free(b)
    BY <2>1 DEF GaveBack, Allocator!Free
  <2> QED  BY <2>2 DEF Allocator!Next
<1>5. ASSUME NEW b \in held, FreeFault(b) PROVE UNCHANGED <<total, held, answer>>
  BY <1>5 DEF FreeFault
<1>6. ASSUME NEW x \in 0 .. total, FreeAgain(x) PROVE UNCHANGED <<total, held, answer>>
  BY <1>6 DEF FreeAgain, vars
<1>7. ASSUME NEW t \in Totals, Resize(t) PROVE Allocator!Next
  <2>1. Allocator!Resize(t)
    BY <1>7 DEF Resize, Allocator!Resize
  <2> QED  BY <2>1 DEF Allocator!Next
<1>8. ASSUME NEW t \in Totals, ResizeFault(t) PROVE UNCHANGED <<total, held, answer>>
  BY <1>8 DEF ResizeFault
<1>9. CASE Clear \/ Destroy
  BY <1>9 DEF Clear, Destroy, Allocator!Next, Allocator!Clear
<1>10. CASE ClearFault
  BY <1>10 DEF ClearFault
<1> QED
  BY <1>1, <1>2, <1>3, <1>4, <1>5, <1>6, <1>7, <1>8, <1>9, <1>10 DEF Next

\* The list keeps the promise of freelist.h: what it gives out is free, and it
\* refuses a size only where the free bytes have no run of that length.
THEOREM ListImplementsAllocator == Spec => ImplementsAllocator
<1>1. Init => Allocator!Init
  BY SizeAssumption DEF Init, Allocator!Init
<1>2. IInv /\ [Next]_vars => [Allocator!Next]_(Allocator!vars)
  BY NextMaps
<1> QED  BY <1>1, <1>2, AlwaysIInv, PTL DEF Spec, ImplementsAllocator, Allocator!Spec

-----------------------------------------------------------------------------
(***************************************************************************)
(* The ring queue implements the bounded FIFO for every capacity and every *)
(* set of items.  Its variables are apart from those of the list above,    *)
(* with front for the head of RingQueue.                                   *)
(***************************************************************************)
CONSTANTS Item, Capacity, Nothing
VARIABLES block, front, tail, length, out, result

Ring == INSTANCE RingQueue WITH head <- front

(***************************************************************************)
(* Wrapping an index once around the block: below Capacity the remainder   *)
(* is the number itself, below twice Capacity it is Capacity less.         *)
(***************************************************************************)
LEMMA WrapOnce ==
  ASSUME Capacity \in Nat \ {0}, NEW n \in 0 .. 2 * Capacity - 1
  PROVE  Ring!Wrap(n) = IF n < Capacity THEN n ELSE n - Capacity
  <1>1. n \in Nat /\ Capacity \in Nat /\ Capacity > 0
    OBVIOUS
  <1>2. n = Capacity * (n \div Capacity) + (n % Capacity)
    BY <1>1
  <1>3. n % Capacity \in 0 .. Capacity - 1
    BY <1>1
  <1>. QED
    BY <1>1, <1>2, <1>3, Z3 DEF Ring!Wrap

(***************************************************************************)
(* Taking the remainder before adding one changes nothing.                 *)
(***************************************************************************)
LEMMA WrapSucc ==
  ASSUME Capacity \in Nat \ {0}, NEW n \in 0 .. 2 * Capacity - 2
  PROVE  Ring!Wrap(Ring!Wrap(n) + 1) = Ring!Wrap(n + 1)
  <1>. DEFINE r == Ring!Wrap(n)
  <1>1. r = IF n < Capacity THEN n ELSE n - Capacity
    BY WrapOnce
  <1>2. r \in 0 .. 2 * Capacity - 2 /\ r + 1 \in 0 .. 2 * Capacity - 1
        /\ n + 1 \in 0 .. 2 * Capacity - 1
    BY <1>1
  <1>3. Ring!Wrap(r + 1) = IF r + 1 < Capacity THEN r + 1 ELSE r + 1 - Capacity
    BY <1>2, WrapOnce
  <1>4. Ring!Wrap(n + 1) = IF n + 1 < Capacity THEN n + 1 ELSE n + 1 - Capacity
    BY <1>2, WrapOnce
  <1>. HIDE DEF r
  <1>5. Ring!Wrap(r + 1) = Ring!Wrap(n + 1)
    BY <1>1, <1>3, <1>4
  <1>. QED
    BY <1>5 DEF r

(***************************************************************************)
(* The slots of a queue are distinct, and lie in the block.                *)
(***************************************************************************)
LEMMA SlotsDistinct ==
  ASSUME Capacity \in Nat \ {0}, NEW h \in Ring!Index, NEW j \in 1 .. Capacity, NEW k \in 1 .. Capacity
  PROVE  /\ Ring!Wrap(h + j - 1) \in Ring!Index
         /\ Ring!Wrap(h + j - 1) = Ring!Wrap(h + k - 1) => j = k
  <1>1. h + j - 1 \in 0 .. 2 * Capacity - 1 /\ h + k - 1 \in 0 .. 2 * Capacity - 1
    BY DEF Ring!Index
  <1>2. Ring!Wrap(h + j - 1)
          = IF h + j - 1 < Capacity THEN h + j - 1 ELSE h + j - 1 - Capacity
    BY <1>1, WrapOnce DEF Ring!Index
  <1>3. Ring!Wrap(h + k - 1)
          = IF h + k - 1 < Capacity THEN h + k - 1 ELSE h + k - 1 - Capacity
    BY <1>1, WrapOnce DEF Ring!Index
  <1>. QED
    BY <1>2, <1>3 DEF Ring!Index

(***************************************************************************)
(* Once the head has moved on, the k-th oldest element is where the        *)
(* (k + 1)-th oldest one was.                                              *)
(***************************************************************************)
LEMMA SlotShift ==
  ASSUME Capacity \in Nat \ {0}, NEW h \in Ring!Index, NEW k \in 1 .. Capacity - 1
  PROVE  Ring!Wrap(Ring!Wrap(h + 1) + k - 1) = Ring!Wrap(h + k)
  <1>. DEFINE r == Ring!Wrap(h + 1)
  <1>1. r = IF h + 1 < Capacity THEN h + 1 ELSE h + 1 - Capacity
    BY WrapOnce DEF Ring!Index
  <1>2. r + k - 1 \in 0 .. 2 * Capacity - 1 /\ h + k \in 0 .. 2 * Capacity - 1
    BY <1>1 DEF Ring!Index
  <1>3. Ring!Wrap(r + k - 1)
          = IF r + k - 1 < Capacity THEN r + k - 1 ELSE r + k - 1 - Capacity
    BY <1>2, WrapOnce DEF Ring!Index
  <1>4. Ring!Wrap(h + k) = IF h + k < Capacity THEN h + k ELSE h + k - Capacity
    BY <1>2, WrapOnce DEF Ring!Index
  <1>. HIDE DEF r
  <1>5. Ring!Wrap(r + k - 1) = Ring!Wrap(h + k)
    BY <1>1, <1>3, <1>4 DEF Ring!Index
  <1>. QED
    BY <1>5 DEF r

-----------------------------------------------------------------------------
\* An empty ring has its indices in step.
LEMMA InitIndex ==
  ASSUME Capacity \in Nat \ {0}
  PROVE  Ring!Init => Ring!IndexInv
  <1>. SUFFICES ASSUME Ring!Init PROVE Ring!IndexInv
    OBVIOUS
  <1>1. Ring!TypeOK
    BY DEF Ring!Init, Ring!TypeOK, Ring!Index
  <1>2. Ring!Wrap(tail + 1) = Ring!Wrap(front + length)
    BY DEF Ring!Init
  <1>. QED
    BY <1>1, <1>2 DEF Ring!Init, Ring!IndexInv

\* Putting an element in moves the tail and the length together.
LEMMA EnqueueIndex ==
  ASSUME Capacity \in Nat \ {0}, Ring!IndexInv, NEW v \in Item, Ring!Enqueue(v)
  PROVE  /\ Ring!IndexInv'
         /\ tail' = Ring!Slot(length + 1)
         /\ \A k \in 1 .. length : block'[Ring!Slot(k)] = block[Ring!Slot(k)]
  <1>1. /\ front \in Ring!Index /\ length \in 0 .. Capacity - 1
        /\ tail' = Ring!Wrap(tail + 1)
        /\ Ring!Wrap(tail + 1) = Ring!Wrap(front + length)
        /\ front' = front /\ length' = length + 1
    BY DEF Ring!IndexInv, Ring!TypeOK, Ring!Enqueue
  <1>2. tail' = Ring!Slot(length + 1) /\ tail' \in Ring!Index
    <2>1. front + length = front + (length + 1) - 1
      BY <1>1 DEF Ring!Index
    <2>2. Ring!Wrap(front + (length + 1) - 1) \in Ring!Index
      BY <1>1, SlotsDistinct
    <2>. QED
      BY <1>1, <2>1, <2>2 DEF Ring!Slot
  <1>3. block' \in [Ring!Index -> Item \cup {Nothing}] /\ block' = [block EXCEPT ![tail'] = v]
    BY <1>2 DEF Ring!IndexInv, Ring!TypeOK, Ring!Enqueue
  <1>4. \A k \in 1 .. length : Ring!Slot(k) \in Ring!Index /\ Ring!Slot(k) # tail'
    BY <1>1, <1>2, SlotsDistinct DEF Ring!Slot
  <1>5. \A k \in 1 .. length : block'[Ring!Slot(k)] = block[Ring!Slot(k)]
    BY <1>3, <1>4
  <1>6. block'[Ring!Slot(length + 1)] = v
    BY <1>2, <1>3, <1>1 DEF Ring!IndexInv, Ring!TypeOK
  <1>7. Ring!Wrap(tail' + 1) = Ring!Wrap(front' + length')
    <2>1. front + length \in 0 .. 2 * Capacity - 2
      BY <1>1 DEF Ring!Index
    <2>2. Ring!Wrap(Ring!Wrap((front + length)) + 1) = Ring!Wrap(front + length + 1)
      BY <2>1, WrapSucc
    <2>3. front' + length' = front + length + 1
      BY <1>1 DEF Ring!Index
    <2>. QED
      BY <1>1, <2>2, <2>3
  <1>8. Ring!TypeOK'
    BY <1>1, <1>2, <1>3 DEF Ring!IndexInv, Ring!TypeOK, Ring!Enqueue
  <1>9. \A k \in 1 .. length' : block'[Ring!Slot(k)'] \in Item
    <2>1. \A k \in 1 .. length : block[Ring!Slot(k)] \in Item
      BY DEF Ring!IndexInv
    <2>2. \A k \in 1 .. length' : Ring!Slot(k)' = Ring!Slot(k)
      BY <1>1 DEF Ring!Slot
    <2>. QED
      BY <1>1, <1>5, <1>6, <2>1, <2>2
  <1>. QED
    BY <1>2, <1>5, <1>7, <1>8, <1>9 DEF Ring!IndexInv

\* Taking one out moves the head and the length together.
LEMMA DequeueIndex ==
  ASSUME Capacity \in Nat \ {0}, Ring!IndexInv, Ring!Dequeue
  PROVE  /\ Ring!IndexInv'
         /\ \A k \in 1 .. length' : Ring!Slot(k)' = Ring!Slot(k + 1)
  <1>1. /\ front \in Ring!Index /\ length \in 1 .. Capacity /\ tail \in Ring!Index \cup {-1}
        /\ Ring!Wrap(tail + 1) = Ring!Wrap(front + length)
        /\ front' = Ring!Wrap(front + 1) /\ length' = length - 1
        /\ tail' = tail /\ block' = block
    BY DEF Ring!IndexInv, Ring!TypeOK, Ring!Dequeue
  <1>2. front' = IF front + 1 < Capacity THEN front + 1 ELSE front + 1 - Capacity
    BY <1>1, WrapOnce DEF Ring!Index
  <1>3. front' \in Ring!Index
    BY <1>1, <1>2 DEF Ring!Index
  <1>4. \A k \in 1 .. length' : Ring!Slot(k)' = Ring!Slot(k + 1)
    <2>1. SUFFICES ASSUME NEW k \in 1 .. length' PROVE Ring!Slot(k)' = Ring!Slot(k + 1)
      OBVIOUS
    <2>2. k \in 1 .. Capacity - 1
      BY <1>1
    <2>3. Ring!Wrap(front' + k - 1) = Ring!Wrap(front + k)
      BY <1>1, <2>2, SlotShift
    <2>4. front + k = front + (k + 1) - 1
      BY <1>1, <2>2 DEF Ring!Index
    <2>. QED
      BY <2>3, <2>4 DEF Ring!Slot
  <1>5. Ring!Wrap(front' + length') = Ring!Wrap(front + length)
    <2>1. front + length \in 0 .. 2 * Capacity - 1 /\ front' + length' \in 0 .. 2 * Capacity - 1
      BY <1>1, <1>3 DEF Ring!Index
    <2>2. Ring!Wrap(front + length)
            = IF front + length < Capacity THEN front + length ELSE front + length - Capacity
      BY <1>1, <1>3, <2>1, WrapOnce DEF Ring!Index
    <2>3. Ring!Wrap(front' + length')
            = IF front' + length' < Capacity THEN front' + length' ELSE front' + length' - Capacity
      BY <1>1, <1>3, <2>1, WrapOnce DEF Ring!Index
    <2>. QED
      BY <1>1, <1>2, <2>2, <2>3 DEF Ring!Index
  <1>6. Ring!TypeOK'
    <2>1. block[front] \in Item \cup {Nothing}
      BY <1>1 DEF Ring!IndexInv, Ring!TypeOK
    <2>. QED
      BY <1>1, <1>3, <2>1 DEF Ring!IndexInv, Ring!TypeOK, Ring!Dequeue
  <1>7. \A k \in 1 .. length' : block'[Ring!Slot(k)'] \in Item
    BY <1>1, <1>4 DEF Ring!IndexInv
  <1>. QED
    BY <1>1, <1>4, <1>5, <1>6, <1>7 DEF Ring!IndexInv

\* Calls that are refused, and a look, change no index.
LEMMA SameIndex ==
  ASSUME Capacity \in Nat \ {0}, Ring!IndexInv, UNCHANGED <<block, front, tail, length>>,
         out' \in Item \cup {Nothing}, result' \in BOOLEAN
  PROVE  Ring!IndexInv'
  BY DEF Ring!IndexInv, Ring!TypeOK, Ring!Slot

\* Every call keeps the indices in step.
LEMMA NextIndex ==
  ASSUME Capacity \in Nat \ {0}
  PROVE  Ring!IndexInv /\ [Ring!Next]_(Ring!vars) => Ring!IndexInv'
  <1>. SUFFICES ASSUME Ring!IndexInv, [Ring!Next]_(Ring!vars) PROVE Ring!IndexInv'
    OBVIOUS
  <1>1. CASE \E v \in Item : Ring!Enqueue(v)
    BY <1>1, EnqueueIndex
  <1>2. CASE Ring!EnqueueFull
    BY <1>2, SameIndex DEF Ring!EnqueueFull, Ring!IndexInv, Ring!TypeOK
  <1>3. CASE Ring!Dequeue
    BY <1>3, DequeueIndex
  <1>4. CASE Ring!Peek
    <2>1. block[front] \in Item \cup {Nothing}
      BY DEF Ring!IndexInv, Ring!TypeOK
    <2>. QED
      BY <1>4, <2>1, SameIndex DEF Ring!Peek
  <1>5. CASE Ring!TakeEmpty
    BY <1>5, SameIndex DEF Ring!TakeEmpty, Ring!IndexInv, Ring!TypeOK
  <1>6. CASE UNCHANGED Ring!vars
    BY <1>6, SameIndex DEF Ring!vars, Ring!IndexInv, Ring!TypeOK
  <1>. QED
    BY <1>1, <1>2, <1>3, <1>4, <1>5, <1>6 DEF Ring!Next

(***************************************************************************)
(* The indices of every reachable ring agree, whatever its capacity.       *)
(***************************************************************************)
THEOREM IndexCorrect ==
  ASSUME Capacity \in Nat \ {0}
  PROVE  Ring!Spec => []Ring!IndexInv
  <1>1. Ring!Init => Ring!IndexInv
    BY InitIndex
  <1>2. Ring!IndexInv /\ [Ring!Next]_(Ring!vars) => Ring!IndexInv'
    BY NextIndex
  <1>. QED
    BY <1>1, <1>2, PTL DEF Ring!Spec

-----------------------------------------------------------------------------
\* What the ring holds is a sequence of elements.
LEMMA ContentsSeq ==
  ASSUME Capacity \in Nat \ {0}, Ring!IndexInv
  PROVE  Ring!Contents \in Seq(Item) /\ Len(Ring!Contents) = length
  BY DEF Ring!IndexInv, Ring!TypeOK, Ring!Contents

\* An element put in comes last, also when the tail wraps.
LEMMA EnqueueAppends ==
  ASSUME Capacity \in Nat \ {0}, Ring!IndexInv, NEW v \in Item, Ring!Enqueue(v)
  PROVE  Ring!Contents' = Append(Ring!Contents, v)
  <1>. DEFINE a == Append(Ring!Contents, v)
  <1>1. /\ length \in Nat /\ length' = length + 1 /\ front' = front
        /\ tail' = Ring!Slot(length + 1)
        /\ \A k \in 1 .. length : block'[Ring!Slot(k)] = block[Ring!Slot(k)]
    <2>1. length \in Nat /\ length' = length + 1 /\ front' = front
      BY DEF Ring!Enqueue, Ring!IndexInv, Ring!TypeOK
    <2>2. /\ tail' = Ring!Slot(length + 1)
          /\ \A k \in 1 .. length : block'[Ring!Slot(k)] = block[Ring!Slot(k)]
      BY EnqueueIndex
    <2>. QED
      BY <2>1, <2>2
  <1>2. block'[Ring!Slot(length + 1)] = v
    <2>1. Ring!Slot(length + 1) \in Ring!Index
      BY <1>1, EnqueueIndex, SlotsDistinct DEF Ring!Enqueue, Ring!IndexInv, Ring!TypeOK, Ring!Slot
    <2>. QED
      BY <1>1, <2>1 DEF Ring!Enqueue, Ring!IndexInv, Ring!TypeOK
  <1>3. Ring!Contents' \in Seq(Item) /\ Len(Ring!Contents') = length + 1
    <2>1. Ring!IndexInv'
      BY EnqueueIndex
    <2>. QED
      BY <1>1, <2>1, ContentsSeq DEF Ring!IndexInv, Ring!TypeOK, Ring!Contents
  <1>4. /\ a \in Seq(Item) /\ Len(a) = length + 1
        /\ \A k \in 1 .. length : a[k] = Ring!Contents[k]
        /\ a[length + 1] = v
    BY ContentsSeq, AppendProperties
  <1>5. ASSUME NEW k \in 1 .. Len(Ring!Contents')
        PROVE  Ring!Contents'[k] = a[k]
    <2>1. Ring!Contents'[k] = block'[Ring!Slot(k)]
      BY <1>1, <1>3, <1>5 DEF Ring!Contents, Ring!Slot
    <2>2. CASE k = length + 1
      BY <1>2, <1>4, <2>1, <2>2
    <2>3. CASE k \in 1 .. length
      BY <1>1, <1>4, <2>1, <2>3 DEF Ring!Contents
    <2>4. k = length + 1 \/ k \in 1 .. length
      BY <1>1, <1>3
    <2>. QED
      BY <2>2, <2>3, <2>4
  <1>. HIDE DEF a
  <1>6. Ring!Contents' = a
    BY <1>3, <1>4, <1>5, SeqEqual
  <1>. QED
    BY <1>6 DEF a

\* The element at the head index is the oldest one.
LEMMA OldestIsHead ==
  ASSUME Capacity \in Nat \ {0}, Ring!IndexInv, length # 0
  PROVE  Ring!Contents # <<>> /\ Head(Ring!Contents) = block[front]
  <1>1. front \in Ring!Index /\ length \in Nat
    BY DEF Ring!IndexInv, Ring!TypeOK
  <1>2. front + 1 - 1 = front /\ front \in 0 .. 2 * Capacity - 1 /\ front < Capacity
    BY <1>1 DEF Ring!Index
  <1>3. Ring!Slot(1) = front
    BY <1>2, WrapOnce DEF Ring!Slot
  <1>4. Ring!Contents # <<>>
    BY <1>1, ContentsSeq
  <1>. QED
    BY <1>1, <1>3, <1>4, ContentsSeq DEF Ring!Contents

\* The element taken out is the first, also when the head wraps.
LEMMA DequeueTakesHead ==
  ASSUME Capacity \in Nat \ {0}, Ring!IndexInv, Ring!Dequeue
  PROVE  out' = Head(Ring!Contents) /\ Ring!Contents' = Tail(Ring!Contents)
  <1>. DEFINE t == Tail(Ring!Contents)
  <1>1. /\ length \in Nat \ {0} /\ length' = length - 1
        /\ block' = block /\ out' = block[front]
        /\ \A k \in 1 .. length' : Ring!Slot(k)' = Ring!Slot(k + 1)
    BY DequeueIndex DEF Ring!Dequeue, Ring!IndexInv, Ring!TypeOK
  <1>2. Ring!Contents # <<>> /\ Head(Ring!Contents) = block[front]
    BY <1>1, OldestIsHead
  <1>3. Ring!Contents' \in Seq(Item) /\ Len(Ring!Contents') = length - 1
    <2>1. Ring!IndexInv'
      BY DequeueIndex
    <2>. QED
      BY <1>1, <2>1, ContentsSeq DEF Ring!IndexInv, Ring!TypeOK, Ring!Contents
  <1>4. /\ t \in Seq(Item) /\ Len(t) = length - 1
        /\ \A k \in 1 .. length - 1 : t[k] = Ring!Contents[k + 1]
    BY <1>2, ContentsSeq, HeadTailProperties
  <1>5. ASSUME NEW k \in 1 .. Len(Ring!Contents')
        PROVE  Ring!Contents'[k] = t[k]
    <2>1. Ring!Contents'[k] = block[Ring!Slot(k + 1)]
      BY <1>1, <1>3, <1>5 DEF Ring!Contents
    <2>. QED
      BY <1>1, <1>3, <1>4, <2>1 DEF Ring!Contents
  <1>. HIDE DEF t
  <1>6. Ring!Contents' = t
    BY <1>1, <1>3, <1>4, <1>5, SeqEqual
  <1>. QED
    BY <1>1, <1>2, <1>6 DEF t

\* What leaves the ring alone leaves the FIFO alone.
LEMMA SameContents ==
  ASSUME UNCHANGED <<block, front, length>>
  PROVE  Ring!Contents' = Ring!Contents
  BY DEF Ring!Contents, Ring!Slot

\* The empty ring is the empty FIFO.
LEMMA InitRefines ==
  ASSUME Capacity \in Nat \ {0}
  PROVE  Ring!Init => Ring!Fifo!Init
  BY DEF Ring!Init, Ring!Fifo!Init, Ring!Contents

\* Each call is a call of the FIFO.
LEMMA NextRefines ==
  ASSUME Capacity \in Nat \ {0}
  PROVE  Ring!IndexInv /\ [Ring!Next]_(Ring!vars) => [Ring!Fifo!Next]_(Ring!Fifo!vars)
  <1>. SUFFICES ASSUME Ring!IndexInv, [Ring!Next]_(Ring!vars) PROVE [Ring!Fifo!Next]_(Ring!Fifo!vars)
    OBVIOUS
  <1>1. Ring!Contents \in Seq(Item) /\ Len(Ring!Contents) = length /\ length \in 0 .. Capacity
    BY ContentsSeq DEF Ring!IndexInv, Ring!TypeOK
  <1>2. ASSUME NEW v \in Item, Ring!Enqueue(v) PROVE Ring!Fifo!Accept(v)
    <2>1. Ring!Contents' = Append(Ring!Contents, v)
      BY <1>2, EnqueueAppends
    <2>2. Len(Ring!Contents) < Capacity
      BY <1>1, <1>2 DEF Ring!Enqueue
    <2>. QED
      BY <1>2, <2>1, <2>2 DEF Ring!Enqueue, Ring!Fifo!Accept
  <1>3. CASE Ring!EnqueueFull
    BY <1>1, <1>3, SameContents DEF Ring!EnqueueFull, Ring!Fifo!Refuse, Ring!Fifo!Next
  <1>4. CASE Ring!Dequeue
    <2>1. Ring!Contents # <<>>
      BY <1>1, <1>4 DEF Ring!Dequeue
    <2>. QED
      BY <1>4, <2>1, DequeueTakesHead DEF Ring!Dequeue, Ring!Fifo!Deliver, Ring!Fifo!Next
  <1>5. CASE Ring!Peek
    <2>1. Ring!Contents # <<>>
      BY <1>1, <1>5 DEF Ring!Peek
    <2>2. out' = Head(Ring!Contents)
      BY <1>5, OldestIsHead DEF Ring!Peek
    <2>. QED
      BY <1>5, <2>1, <2>2, SameContents DEF Ring!Peek, Ring!Fifo!Look, Ring!Fifo!Next
  <1>6. CASE Ring!TakeEmpty
    BY <1>1, <1>6, SameContents DEF Ring!TakeEmpty, Ring!Fifo!Empty, Ring!Fifo!Next
  <1>7. CASE UNCHANGED Ring!vars
    BY <1>7, SameContents DEF Ring!vars, Ring!Fifo!vars
  <1>. QED
    BY <1>2, <1>3, <1>4, <1>5, <1>6, <1>7 DEF Ring!Next, Ring!Fifo!Next

(***************************************************************************)
(* The ring queue implements the bounded FIFO: for every capacity and any  *)
(* number of wrap-arounds, ring_queue_enqueue and ring_queue_dequeue       *)
(* deliver what was accepted, once and in order.                           *)
(***************************************************************************)
THEOREM RingImplementsFifo ==
  ASSUME Capacity \in Nat \ {0}
  PROVE  Ring!Spec => Ring!ImplementsFifo
  <1>1. Ring!Spec => []Ring!IndexInv
    BY IndexCorrect
  <1>2. Ring!Init => Ring!Fifo!Init
    BY InitRefines
  <1>3. Ring!IndexInv /\ [Ring!Next]_(Ring!vars) => [Ring!Fifo!Next]_(Ring!Fifo!vars)
    BY NextRefines
  <1>. QED
    BY <1>1, <1>2, <1>3, PTL DEF Ring!Spec, Ring!ImplementsFifo, Ring!Fifo!Spec
=============================================================================
