-------------------------- MODULE MCXqueueWorkers --------------------------
\* A small instance of XqueueWorkers for TLC: one processor, hence two workers.
EXTENDS XqueueWorkers, TLC

TwoCaches == {"default", "general"}
\* Sockets are interchangeable.
Symmetry == Permutations(Sockets)
=============================================================================
