---------------------------- MODULE MemorySystem ----------------------------
(***************************************************************************)
(* engine/src/core/ymemory.c over hpha_allocator.c and                     *)
(* dynamic_allocator.c: threads allocate from three pools, chosen by size, *)
(* under one mutex, and count what they got under a second locking of it.  *)
(*                                                                         *)
(* Each pool reserves places in its block of memory by the first fit of    *)
(* the free list (FreeList.tla) and keeps a header in front of each block, *)
(* in the memory it manages.  A block is its address.                      *)
(***************************************************************************)
EXTENDS Integers, FiniteSets, Functions

CONSTANTS Thread,
          Pool,             \* the three allocators of the HPHA_ALLOCATOR
          PoolOf(_),        \* by the size asked for
          Base, PoolSize,   \* where a pool manages its memory and how much, in bytes
          Request,          \* what is asked for, as [size, alignment, tag]
          PlatformBlock,    \* addresses the platform hands out
          HeaderBytes,      \* sizeof(alloc_header): 8
          HeaderAlignment,  \* alignof(alloc_header): 4
          Tag, Stray,       \* the memory tags, and a tag that is none of them
          Nobody, Null

ASSUME PoolAssumption ==
  /\ Base \in [Pool -> Nat] /\ PoolSize \in [Pool -> Nat]
  /\ \A p, q \in Pool : p # q => Base[p] + PoolSize[p] <= Base[q] \/ Base[q] + PoolSize[q] <= Base[p]
ASSUME RequestAssumption ==
  /\ HeaderBytes \in Nat \ {0} /\ HeaderAlignment \in Nat \ {0}
  /\ Request \subseteq [size : Nat \ {0}, alignment : Nat \ {0}, tag : Tag]
  /\ \A r \in Request : PoolOf(r.size) \in Pool
ASSUME FiniteAssumption == IsFiniteSet(Thread) /\ IsFiniteSet(Tag)
ASSUME PlatformAssumption ==
  /\ PlatformBlock \subseteq Int /\ Null \notin Int /\ Null \notin Request
  /\ Nobody \notin Thread /\ Stray \notin Tag
  /\ \A b \in PlatformBlock, p \in Pool, r \in Request :
       b + r.size <= Base[p] \/ b >= Base[p] + PoolSize[p]

VARIABLES up,        \* state_ptr is set
          consumer,  \* a debug console takes the lines of the log
          holder,    \* who keeps allocation_mutex beyond the sections below
          reserved,  \* by pool: what its free list has given out, as [offset, size]
          header,    \* the alloc_headers in memory, by address
          tagged,    \* stats.tagged_allocations
          total,     \* stats.total_allocated
          platform,  \* the blocks got from the platform
          live,      \* history: the blocks of the callers, as [block, request]
          pc, call,  \* per thread: what it does next, and the locals of the call (in yfree
                     \* the request is history)
          garbled    \* history: a size nobody measured is in the statistics

vars == <<up, consumer, holder, reserved, header, tagged, total, platform, live, pc, call, garbled>>
memory == <<reserved, header, platform>>
stats == <<tagged, total, garbled>>

Locals(r, b, n, tag) == [request |-> r, block |-> b, size |-> n, tag |-> tag]
NoCall == Locals(Null, Null, 0, Stray)

\* dynamic_allocator_allocate_aligned: room for the padding, the header, the caller's bytes.
Alignment(r) == IF r.alignment > HeaderAlignment THEN r.alignment ELSE HeaderAlignment

\* Mutant: no room for the padding.
RequiredTight(r) == HeaderBytes + r.size
Required(r) == Alignment(r) + HeaderBytes + r.size

\* get_aligned: the next multiple.
AlignUp(x, granularity) == ((x + granularity - 1) \div granularity) * granularity

Apart(a, b) == a.offset + a.size <= b.offset \/ b.offset + b.size <= a.offset
Room(p, n) == {o \in 0 .. PoolSize[p] - n :
                 \A r \in reserved[p] : Apart([offset |-> o, size |-> n], r)}
FirstFit(p, n) == {o \in Room(p, n) : \A q \in Room(p, n) : o <= q}

\* A header that shares a byte with the n bytes written at an address is gone.
Hit(h, address, n) == h < address + n /\ address < h + HeaderBytes
Overwrite(hs, address, n) == [h \in {x \in DOMAIN hs : ~Hit(x, address, n)} |-> hs[h]]
Put(hs, h, new) == [x \in DOMAIN hs \cup {h} |-> IF x = h THEN new ELSE hs[x]]

\* dynamic_allocator_get_size knows a block of its pool by its address.
Within(p, block) == Base[p] <= block /\ block < Base[p] + PoolSize[p]

Place == {"idle", "reserve", "relock", "report", "zero", "release", "unreport"}
TypeOK ==
  /\ up \in BOOLEAN /\ consumer \in BOOLEAN /\ garbled \in BOOLEAN
  /\ holder \in Thread \cup {Nobody}
  /\ reserved \in [Pool -> SUBSET [offset : Nat, size : Nat]]
  /\ DOMAIN header \subseteq Int
  /\ header \in [DOMAIN header -> [size : Nat, padding : Nat, tag : Tag]]
  /\ tagged \in [Tag -> Int] /\ total \in Int
  /\ platform \subseteq PlatformBlock
  /\ live \subseteq [block : Int, request : Request]
  /\ pc \in [Thread -> Place]
  /\ call \in [Thread -> [request : Request \cup {Null}, block : Int \cup {Null}, size : Nat,
                          tag : Tag \cup {Stray}]]

Init ==
  /\ up = FALSE /\ consumer = FALSE /\ holder = Nobody
  /\ reserved = [p \in Pool |-> {}] /\ header = [h \in {} |-> NoCall] /\ platform = {}
  /\ tagged = [g \in Tag |-> 0] /\ total = 0 /\ garbled = FALSE
  /\ live = {}
  /\ pc = [t \in Thread |-> "idle"] /\ call = [t \in Thread |-> NoCall]

Goes(t, place) == pc' = [pc EXCEPT ![t] = place]
Takes(t) == holder = Nobody   \* ymutex_lock, unlocked again in the same action
Returns(t) == Goes(t, "idle") /\ call' = [call EXCEPT ![t] = NoCall]

\* memory_system_init, before there is a second thread.
Start == /\ ~up /\ \A t \in Thread : pc[t] = "idle"
         /\ up' = TRUE
         /\ UNCHANGED <<consumer, holder, memory, stats, live, pc, call>>

\* A debug console registers with the console, or its library goes.
Watch == /\ up /\ consumer' = ~consumer
         /\ UNCHANGED <<up, holder, memory, stats, live, pc, call>>

-----------------------------------------------------------------------------
\* yallocate_aligned
AllocateCall(t, r) ==
  /\ up /\ pc[t] = "idle"
  /\ Goes(t, "reserve") /\ call' = [call EXCEPT ![t] = Locals(r, Null, 0, Stray)]
  /\ UNCHANGED <<up, consumer, holder, memory, stats, live>>

\* Before memory_system_init: from the platform, and not counted.
AllocateEarly(r) ==
  /\ ~up
  /\ \E b \in PlatformBlock \ platform :
       platform' = platform \cup {b} /\ live' = live \cup {[block |-> b, request |-> r]}
  /\ UNCHANGED <<up, consumer, holder, reserved, header, stats, pc, call>>

\* hpha_allocate, under the mutex, with room in the pool.
ReserveAt(t, p, offset) ==
  LET r == call[t].request
      n == Required(r)
      start == Base[p] + offset
      h == AlignUp(start, Alignment(r))
  IN  /\ reserved' = [reserved EXCEPT ![p] = @ \cup {[offset |-> offset, size |-> n]}]
      /\ header' = Put(Overwrite(header, h, HeaderBytes), h,
                       [size |-> n, padding |-> h - start, tag |-> r.tag])
      /\ call' = [call EXCEPT ![t] = Locals(r, h + HeaderBytes, n, r.tag)]
Reserve(t) ==
  LET r == call[t].request
      p == PoolOf(r.size)
  IN  /\ pc[t] = "reserve" /\ Takes(t)
      /\ \E offset \in FirstFit(p, Required(r)) : ReserveAt(t, p, offset)
      /\ Goes(t, "report")
      /\ UNCHANGED <<up, consumer, holder, platform, stats, live>>

\* Without room the failure is logged, still under the mutex.  A consumer of the
\* log allocates the line it keeps: the thread waits for the mutex it holds.
LogsUnderMutex(t) ==
  LET r == call[t].request
  IN  /\ pc[t] = "reserve" /\ Takes(t) /\ Room(PoolOf(r.size), Required(r)) = {} /\ consumer
      /\ holder' = t /\ Goes(t, "relock")
      /\ UNCHANGED <<up, consumer, memory, stats, live, call>>

\* Without a consumer the platform is asked, which may refuse.
FallBack(t) ==
  LET r == call[t].request
  IN  /\ pc[t] = "reserve" /\ Takes(t) /\ Room(PoolOf(r.size), Required(r)) = {} /\ ~consumer
      /\ \/ \E b \in PlatformBlock \ platform :
              platform' = platform \cup {b} /\ call' = [call EXCEPT ![t] = Locals(r, b, 0, r.tag)]
         \/ /\ PlatformBlock = platform
            /\ call' = [call EXCEPT ![t] = Locals(r, Null, 0, r.tag)] /\ UNCHANGED platform
      /\ Goes(t, "report")
      /\ UNCHANGED <<up, consumer, holder, reserved, header, stats, live>>

\* What the statistics are after a size or a tag nobody wrote is not modelled.
Counts(size, tag) ==
  IF garbled \/ tag = Stray
    THEN /\ garbled' = TRUE /\ tagged' = [g \in Tag |-> 0] /\ total' = 0
    ELSE /\ tagged' = [tagged EXCEPT ![tag] = @ + size] /\ total' = total + size
         /\ UNCHANGED garbled

\* Mutant: the size asked for is counted.
ReportAsked(t) ==
  /\ pc[t] = "report" /\ Takes(t)
  /\ Counts(IF call[t].size = 0 THEN 0 ELSE call[t].request.size, call[t].tag)
  /\ Goes(t, "zero")
  /\ UNCHANGED <<up, consumer, holder, memory, live, call>>

\* yallocate_report
Report(t) ==
  /\ pc[t] = "report" /\ Takes(t)
  /\ Counts(call[t].size, call[t].tag)
  /\ Goes(t, "zero")
  /\ UNCHANGED <<up, consumer, holder, memory, live, call>>

\* Mutant: as many bytes are zeroed as were reserved.
ZeroReserved(t) ==
  LET c == call[t]
  IN  /\ pc[t] = "zero" /\ c.block # Null
      /\ header' = Overwrite(header, c.block, Required(c.request))
      /\ live' = live \cup {[block |-> c.block, request |-> c.request]}
      /\ Returns(t)
      /\ UNCHANGED <<up, consumer, holder, reserved, platform, stats>>

\* The block is zeroed outside the mutex and is the caller's.
Zero(t) ==
  LET c == call[t]
  IN  /\ pc[t] = "zero" /\ c.block # Null
      /\ header' = Overwrite(header, c.block, c.request.size)
      /\ live' = live \cup {[block |-> c.block, request |-> c.request]}
      /\ Returns(t)
      /\ UNCHANGED <<up, consumer, holder, reserved, platform, stats>>

ReturnsNull(t) ==
  /\ pc[t] = "zero" /\ call[t].block = Null
  /\ Returns(t)
  /\ UNCHANGED <<up, consumer, holder, memory, stats, live>>

-----------------------------------------------------------------------------
\* yfree: any thread gives back what any has got.
FreeCall(t, l) ==
  /\ up /\ pc[t] = "idle"
  /\ live' = live \ {l} /\ call' = [call EXCEPT ![t] = Locals(l.request, l.block, 0, Stray)]
  /\ Goes(t, "release")
  /\ UNCHANGED <<up, consumer, holder, memory, stats>>

FreeEarly(l) == /\ ~up
                /\ live' = live \ {l} /\ platform' = platform \ {l.block}
                /\ UNCHANGED <<up, consumer, holder, reserved, header, stats, pc, call>>

\* Mutant: the padding is forgotten.
ReleaseUnpadded(t) ==
  LET h == call[t].block - HeaderBytes
      was == header[h]
  IN  /\ pc[t] = "release" /\ Takes(t)
      /\ \E p \in Pool :
           /\ Within(p, call[t].block) /\ h \in DOMAIN header
           /\ reserved' = [reserved EXCEPT ![p] =
                             @ \ {[offset |-> h - Base[p], size |-> was.size]}]
      /\ header' = [x \in DOMAIN header \ {h} |-> header[x]]
      /\ call' = [call EXCEPT ![t] = Locals(@.request, @.block, was.size, was.tag)]
      /\ Goes(t, "unreport")
      /\ UNCHANGED <<up, consumer, holder, platform, stats, live>>

\* hpha_free: the pool is found by the address, the place by the header.
Release(t) ==
  LET h == call[t].block - HeaderBytes
      was == header[h]
  IN  /\ pc[t] = "release" /\ Takes(t)
      /\ \E p \in Pool :
           /\ Within(p, call[t].block) /\ h \in DOMAIN header
           /\ reserved' = [reserved EXCEPT ![p] =
                             @ \ {[offset |-> h - was.padding - Base[p], size |-> was.size]}]
      /\ header' = [x \in DOMAIN header \ {h} |-> header[x]]   \* nothing reads it again
      /\ call' = [call EXCEPT ![t] = Locals(@.request, @.block, was.size, was.tag)]
      /\ Goes(t, "unreport")
      /\ UNCHANGED <<up, consumer, holder, platform, stats, live>>

\* Mutant: the mutex is kept.
ReleaseLocked(t) ==
  /\ pc[t] = "release" /\ Takes(t)
  /\ \A p \in Pool : ~Within(p, call[t].block)
  /\ platform' = platform \ {call[t].block}
  /\ holder' = t
  /\ Goes(t, "unreport")
  /\ UNCHANGED <<up, consumer, reserved, header, stats, live, call>>

\* A block of no pool goes to the platform, and size and tag stay what the
\* stack of yfree held.
ReleasePlatform(t) ==
  /\ pc[t] = "release" /\ Takes(t)
  /\ \A p \in Pool : ~Within(p, call[t].block)
  /\ platform' = platform \ {call[t].block}
  /\ Goes(t, "unreport")
  /\ UNCHANGED <<up, consumer, holder, reserved, header, stats, live, call>>

\* yfree_report
Unreport(t) ==
  /\ pc[t] = "unreport" /\ Takes(t)
  /\ Counts(-call[t].size, call[t].tag)
  /\ Returns(t)
  /\ UNCHANGED <<up, consumer, holder, memory, live>>

-----------------------------------------------------------------------------
Step(t) == \/ Reserve(t) \/ LogsUnderMutex(t) \/ FallBack(t) \/ Report(t) \/ Zero(t) \/ ReturnsNull(t)
           \/ Release(t) \/ ReleasePlatform(t) \/ Unreport(t)

Next == \/ Start \/ Watch
        \/ \E r \in Request : AllocateEarly(r) \/ \E t \in Thread : AllocateCall(t, r)
        \/ \E l \in live : FreeEarly(l) \/ \E t \in Thread : FreeCall(t, l)
        \/ \E t \in Thread : Step(t)

Spec == Init /\ [][Next]_vars
-----------------------------------------------------------------------------
(***************************************************************************)
(* The blocks that are somebody's: the callers' and those of the calls     *)
(* that have one.                                                          *)
(***************************************************************************)
Blocks == live \cup {[block |-> call[t].block, request |-> call[t].request] :
                       t \in {u \in Thread : pc[u] \in {"report", "zero", "release"}
                                             /\ call[u].block # Null}}
InPool(b) == \E p \in Pool : Within(p, b.block)
\* What is written for a block: its bytes, and its header where it has one.
First(b) == IF InPool(b) THEN b.block - HeaderBytes ELSE b.block
End(b) == b.block + b.request.size
Bytes(b) == First(b) .. End(b) - 1

\* The place a block was cut from, as the free will compute it.
PlaceOf(b) == LET p == PoolOf(b.request.size)
                  h == b.block - HeaderBytes
              IN  [offset |-> h - header[h].padding - Base[p], size |-> header[h].size]

\* The header in front of a block of a pool says what it was reserved with,
\* whatever the others write into their blocks, and header and block are
\* inside the place reserved for them in the pool for that size.
HeaderIntact ==
  \A b \in Blocks : InPool(b) =>
    LET h == b.block - HeaderBytes
        p == PoolOf(b.request.size)
    IN  /\ h \in DOMAIN header /\ header[h].size = Required(b.request)
        /\ PlaceOf(b) \in reserved[p]
        /\ Base[p] + PlaceOf(b).offset <= h
        /\ b.block + b.request.size <= Base[p] + PlaceOf(b).offset + PlaceOf(b).size
        /\ Within(p, b.block)

\* The two things a free relies on.
HeadersSound == TypeOK /\ HeaderIntact

\* No byte of a block or of its header belongs to another's, of one pool or of two.
BytesApart == \A b, c \in Blocks : InPool(b) /\ b # c => Bytes(b) \cap Bytes(c) = {}

\* Every place a pool has given out is the place of a block of that pool: after
\* any order of calls of any threads, what was freed can be allocated again.
NothingLost ==
  \A p \in Pool : \A r \in reserved[p] :
    \E b \in Blocks : PoolOf(b.request.size) = p /\ InPool(b) /\ PlaceOf(b) = r

\* The statistics are the sizes in the headers, but for the calls between the
\* two lockings of the mutex, as long as no block of the platform was freed.
Between(place, g) ==
  SumFunction([t \in Thread |-> IF pc[t] = place /\ call[t].tag = g THEN call[t].size ELSE 0])
Measured(g) ==
  SumFunction([h \in DOMAIN header |-> IF header[h].tag = g THEN header[h].size ELSE 0])
StatsBalance ==
  ~garbled => /\ \A g \in Tag : tagged[g] + Between("report", g) = Measured(g) + Between("unreport", g)
              /\ total = SumFunction(tagged)

\* Every call comes back, under any interleaving of the two lockings, unless a
\* thread has logged the failure of an allocation to a consumer that allocates.
CallsReturn ==
  \A t \in Thread : pc[t] # "idle" ~> (pc[t] = "idle" \/ \E u \in Thread : pc[u] = "relock")

\* hpha_allocator.c:92 "Fallback to platform allocator": an allocation that
\* finds its pool full comes back.
FullPoolFallsBack == \A t \in Thread : pc[t] = "reserve" ~> pc[t] = "idle"

\* A thread that has called goes on, and one that waits for the mutex gets it.
FairSpec == Spec /\ \A t \in Thread : WF_vars(Step(t))
=============================================================================
