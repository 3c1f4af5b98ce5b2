---------------------------- MODULE BoundedFifo ----------------------------
(***************************************************************************)
(* What a bounded first-in first-out queue promises: an item accepted is   *)
(* delivered exactly once, in the order of acceptance, and an item is      *)
(* refused only when the queue is full.  The ring queue of                 *)
(* engine/src/data_structures implements it (RingQueue.tla); the job       *)
(* system (JobSystem.tla) is written against it.                           *)
(***************************************************************************)
EXTENDS Integers, Sequences

CONSTANTS Item,      \* what the queue holds
          Capacity,  \* how many items it can hold
          Nothing    \* the out value before the first delivery

VARIABLES items,     \* the accepted items that are not yet delivered
          out,       \* the item last delivered
          result     \* TRUE when the last call succeeded

vars == <<items, out, result>>

Init == items = <<>> /\ out = Nothing /\ result = TRUE

Accept(v) == /\ Len(items) < Capacity
             /\ items' = Append(items, v)
             /\ result' = TRUE
             /\ UNCHANGED out

Refuse == /\ Len(items) = Capacity
          /\ result' = FALSE
          /\ UNCHANGED <<items, out>>

Deliver == /\ items # <<>>
           /\ out' = Head(items)
           /\ items' = Tail(items)
           /\ result' = TRUE

\* A look at the oldest item leaves it in the queue.
Look == /\ items # <<>>
        /\ out' = Head(items)
        /\ result' = TRUE
        /\ UNCHANGED items

Empty == /\ items = <<>>
         /\ result' = FALSE
         /\ UNCHANGED <<items, out>>

Next == (\E v \in Item : Accept(v)) \/ Refuse \/ Deliver \/ Look \/ Empty

Spec == Init /\ [][Next]_vars
=============================================================================
