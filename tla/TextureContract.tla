--------------------------- MODULE TextureContract ---------------------------
(***************************************************************************)
(* What the texture system promises its callers: references of a name are  *)
(* counted, the first caller decides whether the texture goes with the     *)
(* last one, and an image that has arrived stays until then.  An image may *)
(* never arrive: the job system drops loads it has no room for.            *)
(***************************************************************************)
EXTENDS Integers

CONSTANT Name

VARIABLES count,  \* references of each name
          auto,   \* whether the texture goes with the last reference
          image,  \* "none", "coming", "here", or "lost": it will not come
          open    \* the system is up

vars == <<count, auto, image, open>>

Init == /\ count = [n \in Name |-> 0] /\ auto = [n \in Name |-> FALSE]
        /\ image = [n \in Name |-> "none"] /\ open = TRUE

\* The image of a name that has none is loaded within the call, or later, or not
\* at all.
Acquire(n, a) ==
  /\ open
  /\ count' = [count EXCEPT ![n] = @ + 1]
  /\ auto' = [auto EXCEPT ![n] = IF count[n] = 0 THEN a ELSE @]
  /\ IF image[n] = "none" THEN \E i \in {"coming", "here", "lost"} : image' = [image EXCEPT ![n] = i]
                          ELSE UNCHANGED image
  /\ UNCHANGED open

Arrive(n) == /\ open /\ image[n] = "coming"
             /\ image' = [image EXCEPT ![n] = "here"]
             /\ UNCHANGED <<count, auto, open>>

Drop(n) == /\ open /\ image[n] = "coming"
           /\ image' = [image EXCEPT ![n] = "lost"]
           /\ UNCHANGED <<count, auto, open>>

\* A texture that goes has arrived before.
Release(n) ==
  LET last == count[n] = 1 /\ auto[n]
  IN  /\ open /\ count[n] > 0
      /\ last => image[n] = "here"
      /\ count' = [count EXCEPT ![n] = @ - 1]
      /\ auto' = IF last THEN [auto EXCEPT ![n] = FALSE] ELSE auto
      /\ image' = IF last THEN [image EXCEPT ![n] = "none"] ELSE image
      /\ UNCHANGED open

Close == /\ open /\ open' = FALSE /\ image' = [n \in Name |-> "none"]
         /\ UNCHANGED <<count, auto>>

Next == \/ \E n \in Name, a \in BOOLEAN : Acquire(n, a)
        \/ \E n \in Name : Arrive(n) \/ Drop(n) \/ Release(n)
        \/ Close

Spec == Init /\ [][Next]_vars
=============================================================================
