----------------------------- MODULE RingQueue -----------------------------
(***************************************************************************)
(* engine/src/data_structures/ring_queue.c: a queue of fixed capacity over *)
(* a block of slots, with the index of the oldest element (head), of the   *)
(* newest one (tail) and the number of elements (length).  The element     *)
(* bytes are abstracted to a member of Item; a slot that was never written *)
(* holds Nothing.                                                          *)
(***************************************************************************)
EXTENDS Integers, Sequences

CONSTANTS Item, Capacity, Nothing

ASSUME CapacityAssumption == Capacity \in Nat \ {0}
ASSUME NothingAssumption == Nothing \notin Item

VARIABLES block, head, tail, length,  \* the fields of RING_QUEUE
          out,                        \* what out_value holds after the last call
          result                      \* what the last call returned

vars == <<block, head, tail, length, out, result>>

Index == 0 .. Capacity - 1

\* An index past the end of the block continues at its start.
Wrap(i) == i % Capacity

\* ring_queue_create: note that tail starts at -1, outside the block.
Init == /\ block = [i \in Index |-> Nothing]
        /\ head = 0
        /\ tail = -1
        /\ length = 0
        /\ out = Nothing
        /\ result = TRUE

Enqueue(v) == /\ length # Capacity
              /\ tail' = Wrap(tail + 1)
              /\ block' = [block EXCEPT ![tail'] = v]
              /\ length' = length + 1
              /\ result' = TRUE
              /\ UNCHANGED <<head, out>>

EnqueueFull == /\ length = Capacity
               /\ result' = FALSE
               /\ UNCHANGED <<block, head, tail, length, out>>

Dequeue == /\ length # 0
           /\ out' = block[head]
           /\ head' = Wrap(head + 1)
           /\ length' = length - 1
           /\ result' = TRUE
           /\ UNCHANGED <<block, tail>>

\* Mutant: the look at the newest element in place of the oldest.
PeekNewest == /\ length # 0
              /\ out' = block[tail]
              /\ result' = TRUE
              /\ UNCHANGED <<block, head, tail, length>>

Peek == /\ length # 0
        /\ out' = block[head]
        /\ result' = TRUE
        /\ UNCHANGED <<block, head, tail, length>>

\* ring_queue_dequeue and ring_queue_peek on an empty queue.
TakeEmpty == /\ length = 0
             /\ result' = FALSE
             /\ UNCHANGED <<block, head, tail, length, out>>

Next == (\E v \in Item : Enqueue(v)) \/ EnqueueFull \/ Dequeue \/ Peek \/ TakeEmpty

Spec == Init /\ [][Next]_vars

-----------------------------------------------------------------------------
TypeOK == /\ block \in [Index -> Item \cup {Nothing}]
          /\ head \in Index
          /\ tail \in Index \cup {-1}
          /\ length \in 0 .. Capacity
          /\ out \in Item \cup {Nothing}
          /\ result \in BOOLEAN

\* The slot of the k-th oldest element.
Slot(k) == Wrap(head + k - 1)

\* The elements of the queue, oldest first.
Contents == [k \in 1 .. length |-> block[Slot(k)]]

\* The three indices agree: the slot after tail is the slot length places after
\* head, and every element of the queue was written.
IndexInv == /\ TypeOK
            /\ Wrap(tail + 1) = Wrap(head + length)
            /\ \A k \in 1 .. length : block[Slot(k)] \in Item

Fifo == INSTANCE BoundedFifo WITH items <- Contents

\* ring_queue.h:7 "Naturally, this is a first in, first out structure": over any
\* number of wrap-arounds of head and tail, from the start at tail = -1, the ring
\* delivers what it accepted once and in order, and refuses only when it is full.
ImplementsFifo == Fifo!Spec
=============================================================================
