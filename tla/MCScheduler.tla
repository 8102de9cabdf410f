----------------------------- MODULE MCScheduler -----------------------------
\* Instances of Scheduler for TLC.
EXTENDS Scheduler, TLC

\* Threads are interchangeable, and so are CPUs.
Symmetry == Permutations(Thread) \cup Permutations(CPU)
=============================================================================
