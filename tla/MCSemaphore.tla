----------------------------- MODULE MCSemaphore -----------------------------
\* Instances of Semaphore for TLC.
EXTENDS Semaphore, TLC

\* A mutex, one unit that its holder gives back.
Mutex(smp) == [max |-> 1, initial |-> 1, smp |-> smp, holders |-> TRUE]

\* Two units on one CPU, which their holders give back, or which anyone may
\* release.
Shared == [max |-> 2, initial |-> 2, smp |-> FALSE, holders |-> TRUE]
Counting == [max |-> 2, initial |-> 1, smp |-> FALSE, holders |-> FALSE]

SoundUses == {Mutex(TRUE), Shared, Counting}
MutexOnOneCpu == {Mutex(FALSE)}

\* Threads are interchangeable.
Symmetry == Permutations(Thread)
=============================================================================
