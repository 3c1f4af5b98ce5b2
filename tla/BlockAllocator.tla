--------------------------- MODULE BlockAllocator ---------------------------
(***************************************************************************)
(* What a free list promises (engine/src/memory/freelist.h): it tracks     *)
(* ranges of a block of total bytes.  A block it gives out is free, and it *)
(* refuses a size only where no run of free bytes is that long.            *)
(***************************************************************************)
EXTENDS Integers, FiniteSets

CONSTANTS Size,       \* the sizes asked for
          Totals,     \* the sizes the whole may be resized to
          NoAnswer, Refused

VARIABLES total,   \* bytes managed
          taken,   \* the blocks given out, as [offset, size]
          answer   \* what the last call returned: an offset, or Refused

vars == <<total, taken, answer>>

Disjoint(b, c) == b.offset + b.size <= c.offset \/ c.offset + c.size <= b.offset

\* The s bytes at o are inside the whole and in no block.
Fits(o, s) == /\ o + s <= total
              /\ \A b \in taken : Disjoint([offset |-> o, size |-> s], b)

Init == total \in Nat /\ taken = {} /\ answer = NoAnswer

Allocate(s) == \E o \in 0 .. total - s :
  /\ Fits(o, s)
  /\ taken' = taken \cup {[offset |-> o, size |-> s]}
  /\ answer' = o
  /\ UNCHANGED total

Refuse(s) == /\ \A o \in 0 .. total - s : ~Fits(o, s)
             /\ answer' = Refused
             /\ UNCHANGED <<total, taken>>

Free(b) == taken' = taken \ {b} /\ answer' = NoAnswer /\ UNCHANGED total

Resize(t) == t > total /\ total' = t /\ answer' = NoAnswer /\ UNCHANGED taken

Clear == taken' = {} /\ answer' = NoAnswer /\ UNCHANGED total

Next == \/ \E s \in Size : Allocate(s) \/ Refuse(s)
        \/ \E b \in taken : Free(b)
        \/ \E t \in Totals : Resize(t)
        \/ Clear

Spec == Init /\ [][Next]_vars
=============================================================================
