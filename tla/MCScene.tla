------------------------------ MODULE MCScene ------------------------------
EXTENDS Scene

\* A mesh of one geometry and a mesh of two: with the skybox as many as Slot has.
OneAndTwo == [i \in MeshIndex |-> i]
=============================================================================
