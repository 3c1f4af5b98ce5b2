---------------------------- MODULE MCJobSystem ----------------------------
EXTENDS JobSystemInvariant, TLC

\* The engine's masks for a machine with ThreadCount job threads.
SharedThread == [w \in Worker |-> JobThreadTypes(FALSE)[w]]
DedicatedThreads == [w \in Worker |-> JobThreadTypes(TRUE)[w]]

Kind(t, p, s, f) == [type |-> t, priority |-> p, on_success |-> s, on_fail |-> f]

\* One kind per priority: the low one takes any thread and wants no callback
\* for a failure.
MixedKinds == {Kind("general", "high", TRUE, TRUE),
               Kind("resource_load", "normal", TRUE, TRUE),
               Kind("general", "low", TRUE, FALSE)}

\* Jobs that wait in one queue, without callbacks, and one that does not wait.
QueuedKinds == {Kind("general", "normal", FALSE, FALSE),
                Kind("gpu_resource", "high", FALSE, FALSE)}

\* Jobs that only one thread takes, each with a callback.
LoadKinds == {Kind("resource_load", "normal", TRUE, TRUE)}

Symmetry == Permutations(Job)
=============================================================================
