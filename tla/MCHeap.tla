------------------------------- MODULE MCHeap -------------------------------
\* Instances of Heap for TLC.
EXTENDS Heap
=============================================================================
