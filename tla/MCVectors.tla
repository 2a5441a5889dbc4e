----------------------------- MODULE MCVectors -----------------------------
\* Containers created for none to three elements, pushed up to eight; the
\* longest array is more than twice the capacity for the first three.
EXTENDS Vectors

MaxSize == 8
Bounded == size <= MaxSize
=============================================================================
