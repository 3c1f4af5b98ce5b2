------------------------------ MODULE FreeList ------------------------------
(***************************************************************************)
(* engine/src/memory/freelist.c: the free ranges of a block of memory, in  *)
(* a list of nodes taken from a fixed array, sorted by offset.             *)
(*                                                                         *)
(* A place of the array is in use when its size is not 0.  A pointer to a  *)
(* node is its place, or Null.  The list has one caller at a time, which   *)
(* gives back each block it got once, with its size (dynamic_allocator.c,  *)
(* and the vertex and index buffers of the renderers).                     *)
(***************************************************************************)
EXTENDS Integers, FiniteSets, SequencesExt

CONSTANTS InitialTotal,     \* total_size of freelist_create
          Totals,           \* the sizes it is resized to
          Size,             \* the sizes asked for
          EntryBytes,       \* bytes per entry at creation: 8 * 24 in the source
          ResizeBytes,      \* and after a resize: 8
          MinEntries,       \* 20 in the source
          Null, NoAnswer, Refused

ASSUME SizeAssumption == /\ InitialTotal \in Nat \ {0} /\ Totals \subseteq Nat
                         /\ Size \subseteq Nat \ {0}
ASSUME NullAssumption == Null \notin Nat
ASSUME EntryAssumption == /\ EntryBytes \in Nat \ {0} /\ ResizeBytes \in Nat \ {0}
                          /\ MinEntries \in Nat \ {0}

Entries(size, bytes) == LET n == size \div bytes IN IF n < MinEntries THEN MinEntries ELSE n

VARIABLES total, node, head,  \* INTERNAL_STATE; max_entries is the size of node
          alive,   \* list->memory is not null
          held,    \* history: the blocks the caller has, as [offset, size]
          answer,  \* history: the offset an allocation returned last, or Refused
          fault    \* the call that wrote through null

vars == <<total, node, head, alive, held, answer, fault>>

Place == DOMAIN node
Unused == [offset |-> 0, size |-> 0, next |-> Null]
End(p) == node[p].offset + node[p].size

\* The places of the list in order.  One place more than there are means that
\* the list comes back to itself.
List ==
  LET walk[n \in 0 .. Cardinality(Place)] ==
        IF n = 0 THEN IF head = Null THEN <<>> ELSE <<head>>
        ELSE LET l == walk[n - 1]
             IN  IF l = <<>> \/ node[Last(l)].next = Null THEN l
                 ELSE Append(l, node[Last(l)].next)
  IN  walk[Cardinality(Place)]

Cyclic == Len(List) > Cardinality(Place)

\* A call does its work.  On a destroyed list it returns at once; nothing is
\* modelled after a fault, or in a list without an end.
Ready == alive /\ fault = "none" /\ ~Cyclic

TypeOK ==
  /\ total \in Nat /\ alive \in BOOLEAN
  /\ Place = 0 .. Cardinality(Place) - 1
  /\ \A p \in Place : node[p] \in [offset : 0 .. total, size : 0 .. total, next : Place \cup {Null}]
  /\ head \in Place \cup {Null}
  /\ held \subseteq [offset : 0 .. total, size : 1 .. total]
  /\ answer \in 0 .. total \cup {NoAnswer, Refused}
  /\ fault \in {"none", "free", "resize", "clear"}

\* freelist_create: one node for the whole.
Whole(size, entries) ==
  [p \in 0 .. entries - 1 |-> IF p = 0 THEN [Unused EXCEPT !.size = size] ELSE Unused]

Init ==
  /\ total = InitialTotal /\ alive = TRUE
  /\ node = Whole(InitialTotal, Entries(InitialTotal, EntryBytes))
  /\ head = 0
  /\ held = {} /\ answer = NoAnswer /\ fault = "none"

-----------------------------------------------------------------------------
\* get_node: the first unused place, but never place 0.
Spare == {p \in Place \ {0} : node[p].size = 0}
NewNode == IF Spare = {} THEN Null ELSE CHOOSE p \in Spare : \A q \in Spare : p <= q

\* The index in the list of the first node with a property, or 0 without one.
FirstIn(P(_)) == LET S == {k \in DOMAIN List : P(List[k])}
                 IN  IF S = {} THEN 0 ELSE CHOOSE k \in S : \A i \in S : k <= i

\* nd with its list changed so that what pointed at the node at index k points at p.
Linked(nd, k, p) == IF k = 1 THEN nd ELSE [nd EXCEPT ![List[k - 1]].next = p]
HeadWith(k, p) == IF k = 1 THEN p ELSE head

Got(offset, size) == /\ held' = held \cup {[offset |-> offset, size |-> size]}
                     /\ answer' = offset

\* Mutant: the unlinked node is not returned.
AllocateKeep(size) ==
  LET k == FirstIn(LAMBDA q : node[q].size >= size)
      p == List[k]
  IN  /\ Ready /\ k # 0 /\ node[p].size = size
      /\ node' = Linked(node, k, node[p].next)
      /\ head' = HeadWith(k, node[p].next)
      /\ Got(node[p].offset, size)
      /\ UNCHANGED <<total, alive, fault>>

\* A node of that very size is unlinked and returned.
AllocateExact(size) ==
  LET k == FirstIn(LAMBDA q : node[q].size >= size)
      p == List[k]
  IN  /\ Ready /\ k # 0 /\ node[p].size = size
      /\ node' = [Linked(node, k, node[p].next) EXCEPT ![p] = Unused]
      /\ head' = HeadWith(k, node[p].next)
      /\ Got(node[p].offset, size)
      /\ UNCHANGED <<total, alive, fault>>

\* Mutant: the offset of the node stays behind.
AllocateInPlace(size) ==
  LET k == FirstIn(LAMBDA q : node[q].size >= size)
      p == List[k]
  IN  /\ Ready /\ k # 0 /\ node[p].size > size
      /\ node' = [node EXCEPT ![p].size = @ - size]
      /\ Got(node[p].offset, size)
      /\ UNCHANGED <<total, head, alive, fault>>

\* The front of the first larger node is cut off.
AllocateFront(size) ==
  LET k == FirstIn(LAMBDA q : node[q].size >= size)
      p == List[k]
  IN  /\ Ready /\ k # 0 /\ node[p].size > size
      /\ node' = [node EXCEPT ![p].size = @ - size, ![p].offset = @ + size]
      /\ Got(node[p].offset, size)
      /\ UNCHANGED <<total, head, alive, fault>>

\* The walk to the end finds nothing.
AllocateRefused(size) ==
  /\ Ready /\ FirstIn(LAMBDA q : node[q].size >= size) = 0
  /\ answer' = Refused
  /\ UNCHANGED <<total, node, head, alive, held, fault>>

-----------------------------------------------------------------------------
\* Where the walk of freelist_free_block stops for a block at an offset: at a
\* node that ends there, starts there or starts after it, or at the last node
\* when that ends before it.
StopsAt(p, offset) == \/ End(p) = offset
                      \/ node[p].offset >= offset
                      \/ node[p].next = Null /\ End(p) < offset
Stop(offset) == FirstIn(LAMBDA p : StopsAt(p, offset))

GaveBack(b) == held' = held \ {b} /\ answer' = NoAnswer /\ UNCHANGED <<total, alive, fault>>

\* Everything is allocated: a new head.
FreeIntoEmpty(b) ==
  /\ Ready /\ head = Null /\ NewNode # Null
  /\ node' = [node EXCEPT ![NewNode] = [offset |-> b.offset, size |-> b.size, next |-> Null]]
  /\ head' = NewNode
  /\ GaveBack(b)

\* The block is appended to the node that ends at it, which may now reach the next.
FreeAppend(b) ==
  LET k == Stop(b.offset)
      p == List[k]
      q == node[p].next
      grown == [node EXCEPT ![p].size = @ + b.size]
  IN  /\ Ready /\ head # Null /\ k # 0 /\ End(p) = b.offset
      /\ node' = IF q # Null /\ grown[q].offset = End(p) + b.size
                   THEN [grown EXCEPT ![p].size = @ + grown[q].size,
                                      ![p].next = grown[q].next, ![q] = Unused]
                   ELSE grown
      /\ UNCHANGED head /\ GaveBack(b)

\* A new node before the first one after the block, joined to it if they meet.
\* The test against the previous node that follows in the source is never true:
\* the walk would have stopped there.
FreeInsert(b) ==
  LET k == Stop(b.offset)
      p == List[k]
      n == NewNode
      meets == b.offset + b.size = node[p].offset
      linked == Linked(node, k, n)
  IN  /\ Ready /\ head # Null /\ k # 0 /\ n # Null /\ node[p].offset > b.offset /\ End(p) # b.offset
      /\ node' = IF meets
                   THEN [linked EXCEPT ![n] = [offset |-> b.offset, size |-> b.size + node[p].size,
                                               next |-> node[p].next],
                                       ![p] = Unused]
                   ELSE [linked EXCEPT ![n] = [offset |-> b.offset, size |-> b.size, next |-> p]]
      /\ head' = HeadWith(k, n)
      /\ GaveBack(b)

\* A new node after the last one.
FreeAtEnd(b) ==
  LET k == Stop(b.offset)
      p == List[k]
      n == NewNode
  IN  /\ Ready /\ head # Null /\ k # 0 /\ n # Null /\ node[p].offset < b.offset /\ End(p) # b.offset
      /\ node' = [node EXCEPT ![n] = [offset |-> b.offset, size |-> b.size, next |-> Null],
                              ![p].next = n]
      /\ UNCHANGED head /\ GaveBack(b)

\* A free range is freed again, at its start or inside the last one, which is
\* noticed.
FreeAgain(offset) ==
  LET k == Stop(offset)
  IN  /\ Ready /\ head # Null
      /\ k # 0 => node[List[k]].offset = offset /\ End(List[k]) # offset
      /\ UNCHANGED vars

\* The result of get_node is not looked at: with no place left the program
\* writes through null.
FreeFault(b) ==
  /\ Ready /\ NewNode = Null
  /\ head # Null => LET k == Stop(b.offset) IN k # 0 /\ End(List[k]) # b.offset
  /\ fault' = "free"
  /\ UNCHANGED <<total, node, head, alive, held, answer>>

-----------------------------------------------------------------------------
(***************************************************************************)
(* freelist_resize with new memory, for a larger size: its only caller,    *)
(* renderer_renderbuffer_resize, refuses an equal one, for which it would  *)
(* link a node of size 0.  A list of nodes is copied behind an empty head  *)
(* in place 0.  That head, copied by a second resize, takes place 1 with   *)
(* size 0, so that get_node gives out place 1 once more for the node that  *)
(* follows, and place 1 is linked to itself.                               *)
(***************************************************************************)
ResizeFull(t) ==
  /\ head = Null
  /\ node' = [Whole(t - total, Entries(t, ResizeBytes)) EXCEPT ![0].offset = total]
  /\ head' = 0

\* The nodes whose copies stay.  The copy of an empty head is given out again.
Kept == IF node[head].size = 0 THEN Tail(List) ELSE List

\* Mutant: the new space is left out where it does not extend the last node.
CopiesShort(t) ==
  LET old == [k \in DOMAIN Kept |-> [offset |-> node[Kept[k]].offset, size |-> node[Kept[k]].size]]
  IN  IF End(Last(List)) = total
        THEN [old EXCEPT ![Len(old)].size = @ + (t - total)]
        ELSE old

\* The nodes in the new list, in order: the copies, and the new space.
Copies(t) ==
  LET old == [k \in DOMAIN Kept |-> [offset |-> node[Kept[k]].offset, size |-> node[Kept[k]].size]]
  IN  IF End(Last(List)) = total
        THEN [old EXCEPT ![Len(old)].size = @ + (t - total)]
        ELSE Append(old, [offset |-> total, size |-> t - total])

ResizeCopy(t) ==
  LET new == Copies(t)
      twice == node[head].size = 0    \* the head is the empty one of an earlier resize
  IN  /\ head # Null /\ Len(new) < Entries(t, ResizeBytes)
      /\ node' = [p \in 0 .. Entries(t, ResizeBytes) - 1 |->
                    CASE p = 0         -> [Unused EXCEPT !.next = 1]
                      [] p > Len(new)  -> Unused
                      [] OTHER -> [offset |-> new[p].offset, size |-> new[p].size,
                                   next |-> CASE p < Len(new) -> p + 1
                                              [] p = 1 /\ p = Len(new) /\ twice -> 1
                                              [] OTHER -> Null]]
      /\ head' = 0

Resize(t) == /\ Ready /\ t > total
             /\ ResizeFull(t) \/ ResizeCopy(t)
             /\ total' = t /\ answer' = NoAnswer
             /\ UNCHANGED <<alive, held, fault>>

\* The copy runs out of places.
ResizeFault(t) ==
  /\ Ready /\ t > total /\ head # Null /\ Len(Copies(t)) >= Entries(t, ResizeBytes)
  /\ fault' = "resize"
  /\ UNCHANGED <<total, node, head, alive, held, answer>>

\* freelist_clear: the caller gives up all blocks.  The head keeps its place.
Clear ==
  /\ Ready /\ head # Null
  /\ node' = [p \in Place |-> IF p = head THEN [Unused EXCEPT !.size = total] ELSE Unused]
  /\ held' = {} /\ answer' = NoAnswer
  /\ UNCHANGED <<total, head, alive, fault>>

\* A list without a free byte has no head to clear.
ClearFault == /\ Ready /\ head = Null
              /\ fault' = "clear"
              /\ UNCHANGED <<total, node, head, alive, held, answer>>

Destroy == /\ Ready /\ alive' = FALSE
           /\ node' = [p \in Place |-> Unused] /\ head' = Null /\ held' = {} /\ answer' = NoAnswer
           /\ UNCHANGED <<total, fault>>

Next == \/ \E s \in Size : AllocateExact(s) \/ AllocateFront(s) \/ AllocateRefused(s)
        \/ \E b \in held : FreeIntoEmpty(b) \/ FreeAppend(b) \/ FreeInsert(b)
                             \/ FreeAtEnd(b) \/ FreeFault(b)
        \/ \E x \in 0 .. total : FreeAgain(x)
        \/ \E t \in Totals : Resize(t) \/ ResizeFault(t)
        \/ Clear \/ ClearFault \/ Destroy
        \/ ~Ready /\ UNCHANGED vars

Spec == Init /\ [][Next]_vars

-----------------------------------------------------------------------------
Has(r, x) == r.offset <= x /\ x < r.offset + r.size

\* Every byte of the whole belongs to one node of the list or to one block of
\* the caller, and never to two, after any order of allocations, frees and a
\* resize.
EachByteOnce ==
  Ready => \A x \in 0 .. total - 1 :
             Cardinality({k \in DOMAIN List : Has(node[List[k]], x)})
               + Cardinality({b \in held : Has(b, x)}) = 1

\* The nodes are in order and no two of them touch: every free has merged its
\* block with both neighbours, so the largest node is the longest free run.
Coalesced ==
  Ready => \A k \in 1 .. Len(List) - 1 :
             node[List[k]].size = 0 \/ End(List[k]) < node[List[k + 1]].offset

\* No place of the array is lost: each one that is in use is in the list.
PlacesReturned ==
  Ready => \A p \in Place : node[p].size # 0 => \E k \in DOMAIN List : List[k] = p

\* The free bytes are those of the list, each once, in the fewest nodes.
FreeBytesListed == TypeOK /\ EachByteOnce /\ Coalesced

\* The list is a block allocator: what it gives out is free, and it refuses a
\* size only where the free bytes have no run of that length.
Allocator == INSTANCE BlockAllocator WITH taken <- held
ImplementsAllocator == Allocator!Spec

\* freelist.h:66 "Attempts to resize the provided freelist to the given size.
\* Internal data is copied to the new block of memory.": the list that a resize
\* leaves has an end.
ResizeKeepsList == alive => ~Cyclic
=============================================================================
