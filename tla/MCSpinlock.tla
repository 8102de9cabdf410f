----------------------------- MODULE MCSpinlock -----------------------------
EXTENDS Spinlock, TLC

MCLock == {1, 2}

Symmetry == Permutations(Processor)
=============================================================================
