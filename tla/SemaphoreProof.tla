---------------------------- MODULE SemaphoreProof ----------------------------
(***************************************************************************)
(* Proofs for Semaphore, for any number of threads and of units, on one    *)
(* CPU, and for a mutex that its holder releases, on any number of CPUs:   *)
(* acquire and release take effect at one instant, nobody waits for units  *)
(* that are there, and no unit is lost or made up when threads give back   *)
(* what they took.                                                         *)
(*                                                                         *)
(* The strengthening says that a compare-and-swap or an addition is made   *)
(* with the count that was read: on one CPU because nobody else runs while *)
(* the lock is held, for a mutex because its holder is the only one with   *)
(* a unit.  That units are conserved needs lemmas about the library's sum, *)
(* by least counterexample over the size of the set: that it exists, does  *)
(* not depend on the order, and changes with its function.                 *)
(***************************************************************************)
EXTENDS Semaphore, TLAPS, FiniteSetTheorems, NaturalsInduction, WellFoundedInduction

\* The uses for which a release that adds without a lock on the count is sound.
AllSound == \A u \in Uses : u.smp => u.max = 1 /\ u.initial = 1 /\ u.holders

Locked == {"queue", "unlock", "unlock_sleep", "add_read", "add", "over", "cap", "wake",
           "was_empty", "delete_wake", "delete_unlock"}
Trying == {"try", "cas"}
Others == {"idle", "lock", "sleep", "woken", "release", "delete", "delete_lock", "cleanup"}

\* Where want is the number of units asked for.
Wanting == {"try", "cas", "lock", "queue", "unlock_sleep", "sleep", "woken", "release",
            "add_read", "add"}

Types ==
  /\ use \in Uses /\ count \in Nat /\ tqueue \in Seq(Thread)
  /\ lock \in Thread \cup {NULL} /\ asleep \subseteq Thread
  /\ pc \in [Thread -> Locked \cup Trying \cup Others]
  /\ val \in [Thread -> Nat] /\ want \in [Thread -> Nat] /\ held \in [Thread -> Nat]

\* What thread t knows at the place where it is.
ThreadInv(t) ==
  /\ pc[t] \in Locked => lock = t
  /\ lock = t => pc[t] \in Locked \cup Trying
  /\ pc[t] \in Wanting => want[t] \in 1..MaxCount
  /\ pc[t] = "cas" => want[t] <= val[t] /\ val[t] <= MaxCount
  /\ pc[t] = "cas" /\ lock = t /\ ~Smp => val[t] = count
  /\ pc[t] = "add" => val[t] = count
  /\ pc[t] = "queue" => count < want[t]
  /\ pc[t] = "cap" => MaxCount <= count /\ ~Smp

\* Only a release in the middle of its two stores exceeds the maximum.
CountInv == count <= MaxCount \/ (lock # NULL /\ pc[lock] \in {"over", "cap"})

\* Several CPUs share a mutex, which one thread at most holds.
MutexInv ==
  Smp => /\ count <= 1
         /\ \A t \in Thread : held[t] # 0 => held[t] = 1 /\ count = 0
         /\ \A t, u \in Thread : held[t] # 0 /\ held[u] # 0 => t = u
         /\ \A t \in Thread : pc[t] \in {"release", "add_read", "add"} => held[t] = 1

\* The threads in the pending queue are about to sleep or asleep, each once, and
\* lack the units they want, unless a release is about to wake them.
QueueInv ==
  /\ \A i \in 1..Len(tqueue) : /\ pc[tqueue[i]] \in {"unlock_sleep", "sleep", "woken"}
                               /\ pc[tqueue[i]] = "woken" => tqueue[i] \in asleep
  /\ \A i, j \in 1..Len(tqueue) : tqueue[i] = tqueue[j] => i = j
  /\ lock = NULL \/ pc[lock] \notin {"over", "cap", "wake"} =>
       \A i \in 1..Len(tqueue) : count < want[tqueue[i]]

IInv == Types /\ (\A t \in Thread : ThreadInv(t)) /\ CountInv /\ MutexInv /\ QueueInv

-----------------------------------------------------------------------------
\* A semaphore that was just created.
LEMMA InitInv == AllSound /\ Init => IInv
  <1> SUFFICES ASSUME AllSound, Init PROVE IInv
    OBVIOUS
  <1> USE SemaphoreAssumption DEF Init, MaxCount, Initial
  <1>1. Types
    BY DEF Types, Others
  <1>2. \A t \in Thread : ThreadInv(t)
    BY DEF ThreadInv, Locked, Trying, Wanting
  <1>3. CountInv /\ QueueInv
    BY DEF CountInv, QueueInv
  <1>4. MutexInv
    BY DEF MutexInv, AllSound, Smp
  <1> QED BY <1>1, <1>2, <1>3, <1>4 DEF IInv

\* What the use says: a maximum and an initial count, and on several CPUs a mutex.
LEMMA UseFacts ==
  ASSUME AllSound, use \in Uses
  PROVE  /\ MaxCount \in Nat \ {0} /\ Initial \in 0..MaxCount
         /\ Smp => MaxCount = 1 /\ HolderOnly
  BY SemaphoreAssumption DEF AllSound, MaxCount, Initial, Smp, HolderOnly

\* The threads other than t after a step of t that leaves the count alone and
\* only takes or releases the lock for itself.
LEMMA OthersKept ==
  ASSUME NEW t \in Thread, \A u \in Thread : ThreadInv(u),
         use' = use, count' = count,
         lock' = lock \/ (lock \in {NULL, t} /\ lock' \in {NULL, t}),
         \A u \in Thread \ {t} : pc'[u] = pc[u] /\ val'[u] = val[u] /\ want'[u] = want[u]
  PROVE  \A u \in Thread \ {t} : ThreadInv(u)'
  BY SemaphoreAssumption DEF ThreadInv, MaxCount, Smp

\* A thread that is not on its way to sleep is not in the queue.
LEMMA NotQueued ==
  ASSUME NEW t \in Thread, Types, QueueInv, pc[t] \notin {"unlock_sleep", "sleep", "woken"}
  PROVE  \A i \in 1..Len(tqueue) : tqueue[i] \in Thread \ {t}
<1>1. \A i \in 1..Len(tqueue) : tqueue[i] \in Thread
  BY DEF Types
<1>2. \A i \in 1..Len(tqueue) : tqueue[i] # t
  BY Zenon DEF QueueInv
<1> QED  BY <1>1, <1>2, Zenon

\* A step of t that does not touch the queue, the sleepers or the lock, and comes
\* from and goes to a place where t is not queued and wakes nobody.
LEMMA QueueKept ==
  ASSUME NEW t \in Thread, Types, QueueInv, use' = use, count' = count,
         UNCHANGED <<tqueue, asleep>>,
         pc[t] \notin {"unlock_sleep", "sleep", "woken", "over", "cap", "wake"},
         pc'[t] \notin {"over", "cap", "wake"},
         lock' = lock \/ (lock \in {NULL, t} /\ lock' \in {NULL, t}),
         \A u \in Thread \ {t} : pc'[u] = pc[u] /\ want'[u] = want[u]
  PROVE  QueueInv'
  <1>1. \A i \in 1..Len(tqueue) : tqueue[i] \in Thread \ {t}
    BY NotQueued
  <1>2. \A i \in 1..Len(tqueue) : pc'[tqueue[i]] = pc[tqueue[i]] /\ want'[tqueue[i]] = want[tqueue[i]]
    BY <1>1
  <1>3. lock' = NULL \/ pc'[lock'] \notin {"over", "cap", "wake"}
          => lock = NULL \/ pc[lock] \notin {"over", "cap", "wake"}
    BY SemaphoreAssumption DEF Types
  <1> QED BY <1>1, <1>2, <1>3 DEF QueueInv

\* A step of t that goes to a label and changes neither the count nor what is held.
LEMMA MutexKept ==
  ASSUME NEW t \in Thread, MutexInv, use' = use, UNCHANGED <<count, held>>,
         pc'[t] \in {"release", "add_read", "add"} /\ Smp => held[t] = 1,
         \A u \in Thread \ {t} : pc'[u] = pc[u]
  PROVE  MutexInv'
  BY DEF MutexInv, Smp

\* The steps that change nothing but the place, the copies and the lock.
LEMMA PlainStep ==
  ASSUME AllSound, IInv, NEW t \in Thread, use' = use,
         UNCHANGED <<count, tqueue, asleep, held>>,
         NEW l \in Locked \cup Trying \cup Others, pc' = [pc EXCEPT ![t] = l],
         val' \in [Thread -> Nat], want' \in [Thread -> Nat],
         \A u \in Thread \ {t} : val'[u] = val[u] /\ want'[u] = want[u],
         lock' = lock \/ (lock \in {NULL, t} /\ lock' \in {NULL, t}),
         pc[t] \notin {"unlock_sleep", "sleep", "woken", "over", "cap", "wake"},
         l \notin {"over", "cap", "wake"},
         l \in {"release", "add_read", "add"} /\ Smp => held[t] = 1,
         ThreadInv(t)'
  PROVE  IInv'
  <1>1. pc'[t] = l /\ \A u \in Thread \ {t} : pc'[u] = pc[u]
    BY DEF IInv, Types
  <1>2. Types'
    BY DEF IInv, Types
  <1>3. \A u \in Thread : ThreadInv(u)'
    BY <1>1, OthersKept DEF IInv
  <1>4. MutexInv'
    BY <1>1, MutexKept DEF IInv
  <1>5. QueueInv'
    BY <1>1, QueueKept DEF IInv
  <1>6. CountInv'
    BY <1>1, SemaphoreAssumption DEF IInv, CountInv, MaxCount, Types
  <1> QED BY <1>2, <1>3, <1>4, <1>5, <1>6 DEF IInv

-----------------------------------------------------------------------------
\* Acquire: the count asked for is clamped, and tried.
LEMMA AcquireInv ==
  ASSUME AllSound, IInv, NEW t \in Thread, use' = use, Acquire(t) PROVE IInv'
  <1>1. PICK k \in 0..MaxCount + 1 : want' = [want EXCEPT ![t] = Clamp(k)]
    BY DEF Acquire
  <1>2. Clamp(k) \in 1..MaxCount /\ MaxCount \in Nat
    BY <1>1, UseFacts DEF Clamp, IInv, Types
  <1>3. /\ pc[t] = "idle" /\ pc' = [pc EXCEPT ![t] = "try"]
        /\ UNCHANGED <<count, tqueue, cleanup, lock, deleted, asleep, val, held>>
    BY DEF Acquire, At, Goto, sem
  <1>4. want' \in [Thread -> Nat] /\ want'[t] \in 1..MaxCount
        /\ \A u \in Thread \ {t} : want'[u] = want[u]
    BY <1>1, <1>2 DEF IInv, Types
  <1>5. ThreadInv(t)'
    BY <1>3, <1>4 DEF IInv, Types, ThreadInv, Locked, Trying, MaxCount
  <1> QED BY <1>3, <1>4, <1>5, PlainStep DEF IInv, Types, Trying

\* The read of semaphore_tryacquire.
LEMMA TryReadInv ==
  ASSUME AllSound, IInv, NEW t \in Thread, use' = use, TryRead(t) PROVE IInv'
  <1> DEFINE l == IF want[t] > count THEN Failed(t) ELSE "cas"
  <1>1. /\ pc[t] = "try" /\ pc' = [pc EXCEPT ![t] = l] /\ (Smp \/ lock \in {NULL, t})
        /\ val' = [val EXCEPT ![t] = count]
        /\ UNCHANGED <<count, tqueue, cleanup, lock, deleted, asleep, want, held>>
    BY DEF TryRead, At, Goto, sem
  <1>2. count <= MaxCount
    BY <1>1, UseFacts DEF IInv, Types, CountInv, MutexInv
  <1>3. /\ val' \in [Thread -> Nat] /\ val'[t] = count
        /\ \A u \in Thread \ {t} : val'[u] = val[u]
    BY <1>1 DEF IInv, Types
  <1>4. l \in {"queue", "lock", "cas"} /\ (l = "queue" => lock = t /\ count < want[t])
        /\ (l = "cas" => want[t] <= count) /\ (l = "lock" => lock # t)
    BY DEF Failed, IInv, Types
  <1>5. ThreadInv(t)'
    BY <1>1, <1>2, <1>3, <1>4
       DEF IInv, Types, ThreadInv, Locked, Trying, Wanting, MaxCount, Smp
  <1> QED BY <1>1, <1>3, <1>4, <1>5, PlainStep DEF IInv, Types, Trying, Locked, Others

\* The compare-and-swap fails: under the lock, the unit of a mutex has gone.
LEMMA TryCasFails ==
  ASSUME AllSound, IInv, NEW t \in Thread, use' = use, TryCas(t), count # val[t] PROVE IInv'
  <1>1. /\ pc[t] = "cas" /\ pc' = [pc EXCEPT ![t] = Failed(t)]
        /\ UNCHANGED <<count, tqueue, cleanup, lock, deleted, asleep, val, want, held>>
    BY DEF TryCas, At, Goto
  <1>2. lock = t => count < want[t]
    BY <1>1, UseFacts DEF IInv, Types, ThreadInv, MutexInv, Wanting
  <1>3. Failed(t) \in {"queue", "lock"} /\ (Failed(t) = "queue" <=> lock = t)
    BY DEF Failed
  <1>4. ThreadInv(t)'
    BY <1>1, <1>2, <1>3 DEF IInv, Types, ThreadInv, Locked, Trying, Wanting, MaxCount, Smp
  <1> QED BY <1>1, <1>3, <1>4, PlainStep DEF IInv, Types, Locked, Others

\* spinlock_acquire, where acquire, release and delete call it.
LEMMA LockInv ==
  ASSUME AllSound, IInv, NEW t \in Thread, use' = use,
         NEW from, NEW to, <<from, to>> \in {<<"lock", "try">>, <<"release", "add_read">>,
                                             <<"delete", "was_empty">>},
         Lock(t, from, to)
  PROVE  IInv'
  <1>1. /\ pc[t] = from /\ pc' = [pc EXCEPT ![t] = to] /\ lock = NULL /\ lock' = t
        /\ UNCHANGED <<count, tqueue, cleanup, deleted, asleep, val, want, held>>
    BY DEF Lock, At, Goto
  <1>2. ThreadInv(t)'
    BY <1>1 DEF IInv, Types, ThreadInv, Locked, Trying, Wanting, MaxCount, Smp
  <1>3. to = "add_read" /\ Smp => held[t] = 1
    BY <1>1 DEF IInv, MutexInv
  <1> QED BY <1>1, <1>2, <1>3, PlainStep DEF IInv, Types, Locked, Trying

\* spinlock_release, at the end of an acquire, a release or a delete.
LEMMA UnlockInv ==
  ASSUME AllSound, IInv, NEW t \in Thread, use' = use,
         NEW from, NEW to, <<from, to>> \in {<<"unlock", "idle">>, <<"delete_unlock", "delete_lock">>},
         Unlock(t, from, to)
  PROVE  IInv'
  <1>1. /\ pc[t] = from /\ pc' = [pc EXCEPT ![t] = to] /\ lock' = NULL
        /\ UNCHANGED <<count, tqueue, cleanup, deleted, asleep, val, want, held>>
    BY DEF Unlock, At, Goto
  <1>2. lock = t
    BY <1>1 DEF IInv, ThreadInv, Locked
  <1>3. ThreadInv(t)'
    BY <1>1, SemaphoreAssumption DEF IInv, Types, ThreadInv, Locked, Trying, Wanting
  <1> QED BY <1>1, <1>2, <1>3, PlainStep DEF IInv, Types, Others

\* Release: the count is clamped; a mutex is released by its holder.
LEMMA ReleaseInv ==
  ASSUME AllSound, IInv, NEW t \in Thread, use' = use, Release(t) PROVE IInv'
  <1>1. PICK k \in 0..MaxCount + 1 : /\ HolderOnly => k = held[t] /\ k > 0
                                     /\ want' = [want EXCEPT ![t] = Clamp(k)]
    BY DEF Release
  <1>2. Clamp(k) \in 1..MaxCount /\ MaxCount \in Nat
    BY <1>1, UseFacts DEF Clamp, IInv, Types
  <1>3. /\ pc[t] = "idle" /\ pc' = [pc EXCEPT ![t] = "release"]
        /\ UNCHANGED <<count, tqueue, cleanup, lock, deleted, asleep, val, held>>
    BY DEF Release, At, Goto, sem
  <1>4. want' \in [Thread -> Nat] /\ want'[t] \in 1..MaxCount
        /\ \A u \in Thread \ {t} : want'[u] = want[u]
    BY <1>1, <1>2 DEF IInv, Types
  <1>5. lock # t
    BY <1>3 DEF IInv, ThreadInv, Locked, Trying
  <1>6. ThreadInv(t)'
    BY <1>3, <1>4, <1>5 DEF IInv, Types, ThreadInv, Locked, Trying, MaxCount
  <1>7. Smp => held[t] = 1
    BY <1>1, UseFacts DEF IInv, Types, MutexInv
  <1> QED BY <1>3, <1>4, <1>6, <1>7, PlainStep DEF IInv, Types, Others

\* The read of the addition, and the steps of delete_semaphore that only move on.
LEMMA MovesInv ==
  ASSUME AllSound, IInv, NEW t \in Thread, use' = use,
         AddRead(t) \/ Delete(t) \/ WasEmpty(t) \/ DeleteLock(t) \/ Cleanup(t)
  PROVE  IInv'
  <1>1. CASE AddRead(t)
    <2>1. /\ pc[t] = "add_read" /\ pc' = [pc EXCEPT ![t] = "add"]
          /\ val' = [val EXCEPT ![t] = count]
          /\ UNCHANGED <<count, tqueue, cleanup, lock, deleted, asleep, want, held>>
      BY <1>1 DEF AddRead, At, Goto, sem
    <2>2. /\ val' \in [Thread -> Nat] /\ val'[t] = count
          /\ \A u \in Thread \ {t} : val'[u] = val[u]
      BY <2>1 DEF IInv, Types
    <2>3. ThreadInv(t)'
      BY <2>1, <2>2 DEF IInv, Types, ThreadInv, Locked, Trying, Wanting, MaxCount
    <2>4. Smp => held[t] = 1
      BY <2>1 DEF IInv, MutexInv
    <2> QED BY <2>1, <2>2, <2>3, <2>4, PlainStep DEF IInv, Types, Locked
  <1>2. CASE WasEmpty(t)
    <2>1. /\ pc[t] = "was_empty" /\ pc' = [pc EXCEPT ![t] = "delete_wake"]
          /\ want' = [want EXCEPT ![t] = IF tqueue = <<>> THEN 1 ELSE 0]
          /\ UNCHANGED <<count, tqueue, cleanup, lock, deleted, asleep, val, held>>
      BY <1>2 DEF WasEmpty, At, Goto, sem
    <2>2. want' \in [Thread -> Nat] /\ \A u \in Thread \ {t} : want'[u] = want[u]
      BY <2>1 DEF IInv, Types
    <2>3. ThreadInv(t)'
      BY <2>1 DEF IInv, Types, ThreadInv, Locked, Trying, Wanting
    <2> QED BY <2>1, <2>2, <2>3, PlainStep DEF IInv, Types, Locked
  <1>3. ASSUME NEW from, NEW to,
               <<from, to>> \in {<<"idle", "delete">>, <<"delete_lock", "idle">>,
                                 <<"delete_lock", "cleanup">>, <<"cleanup", "idle">>},
               At(t, from), Goto(t, to),
               UNCHANGED <<count, tqueue, lock, asleep, val, want, held>>
        PROVE  IInv'
    <2>1. pc[t] = from /\ pc' = [pc EXCEPT ![t] = to]
      BY <1>3 DEF At, Goto
    <2>2. lock # t
      BY <1>3, <2>1 DEF IInv, ThreadInv, Locked, Trying
    <2>3. ThreadInv(t)'
      BY <1>3, <2>1, <2>2 DEF IInv, Types, ThreadInv, Locked, Trying, Wanting
    <2> QED BY <1>3, <2>1, <2>3, PlainStep DEF IInv, Types, Others
  <1>4. CASE Delete(t)
    BY <1>3, <1>4 DEF Delete, sem
  <1>5. CASE DeleteLock(t)
    BY <1>3, <1>5 DEF DeleteLock
  <1>6. CASE Cleanup(t)
    BY <1>3, <1>6 DEF Cleanup
  <1> QED BY <1>1, <1>2, <1>4, <1>5, <1>6

-----------------------------------------------------------------------------
\* The compare-and-swap succeeds: nobody is between the read and the write of an
\* addition, and the mutex had no holder.
LEMMA TryCasTakes ==
  ASSUME AllSound, IInv, NEW t \in Thread, use' = use, TryCas(t), count = val[t] PROVE IInv'
  <1> USE SemaphoreAssumption
  <1> DEFINE l == IF lock = t THEN "unlock" ELSE "idle"
  <1>1. /\ pc[t] = "cas" /\ pc' = [pc EXCEPT ![t] = l] /\ (Smp \/ lock \in {NULL, t})
        /\ count' = count - want[t] /\ held' = [held EXCEPT ![t] = want[t]]
        /\ UNCHANGED <<tqueue, cleanup, lock, deleted, asleep, val, want>>
    BY DEF TryCas, At, Goto
  <1>2. /\ want[t] \in 1..MaxCount /\ want[t] <= count /\ count <= MaxCount /\ MaxCount \in Nat
        /\ Smp => MaxCount = 1 /\ \A u \in Thread : held[u] = 0
    BY <1>1, UseFacts DEF IInv, Types, ThreadInv, Wanting, MutexInv
  <1>3. count' \in Nat /\ count' < count
    BY <1>1, <1>2 DEF IInv, Types
  <1>4. /\ pc'[t] = l /\ \A u \in Thread \ {t} : pc'[u] = pc[u]
        /\ held'[t] = want[t] /\ \A u \in Thread \ {t} : held'[u] = held[u]
    BY <1>1 DEF IInv, Types
  <1>5. Types'
    BY <1>1, <1>2, <1>3 DEF IInv, Types, Locked, Others
  <1>6. ThreadInv(t)'
    BY <1>1, <1>4 DEF ThreadInv, Locked, Trying, Wanting
  <1>7. ASSUME NEW u \in Thread \ {t} PROVE ThreadInv(u)'
    <2>1. ~Smp => lock # u
      BY <1>1
    <2>2. pc[u] # "add"
      BY <1>2, <2>1 DEF IInv, ThreadInv, Locked, MutexInv
    <2>3. pc[u] # "cap"
      BY <2>1 DEF IInv, ThreadInv, Locked
    <2>4. pc[u] = "queue" => count < want[u] /\ want[u] \in Nat
      BY DEF IInv, ThreadInv, Types
    <2> QED BY <1>1, <1>3, <1>4, <2>1, <2>2, <2>3, <2>4
            DEF IInv, Types, ThreadInv, MaxCount, Smp
  <1>8. CountInv'
    BY <1>1, <1>2, <1>3 DEF CountInv, MaxCount, IInv, Types
  <1>9. MutexInv'
    BY <1>1, <1>2, <1>3, <1>4 DEF IInv, Types, MutexInv, Smp
  <1>10. \A i \in 1..Len(tqueue) : tqueue[i] \in Thread \ {t}
    BY <1>1, NotQueued DEF IInv
  <1>11. QueueInv'
    <2>1. \A i \in 1..Len(tqueue) : pc'[tqueue[i]] = pc[tqueue[i]]
      BY <1>4, <1>10
    <2>2. lock' = NULL \/ pc'[lock'] \notin {"over", "cap", "wake"}
            => lock = NULL \/ pc[lock] \notin {"over", "cap", "wake"}
      BY <1>1, <1>4 DEF IInv, Types
    <2>3. count \in Nat /\ \A i \in 1..Len(tqueue) : want[tqueue[i]] \in Nat
      BY <1>10 DEF IInv, Types
    <2>4. \A i \in 1..Len(tqueue) : count < want[tqueue[i]] => count' < want'[tqueue[i]]
      BY <1>1, <1>3, <2>3
    <2> QED BY <1>1, <2>1, <2>2, <2>4 DEF IInv, QueueInv
  <1> QED BY <1>5, <1>6, <1>7, <1>8, <1>9, <1>11 DEF IInv

\* The two writes of a release, under the lock, and the comparison between them.
LEMMA AddInv ==
  ASSUME AllSound, IInv, NEW t \in Thread, use' = use, Add(t) \/ Over(t) \/ Cap(t) PROVE IInv'
  <1> USE SemaphoreAssumption
  <1>1. /\ pc[t] \in {"add", "over", "cap"}
        /\ UNCHANGED <<tqueue, lock, asleep, val, want>>
        /\ \E l \in {"over", "cap", "wake"} : pc' = [pc EXCEPT ![t] = l]
    BY DEF Add, Over, Cap, At, Goto, sem
  <1>2. lock = t /\ \A u \in Thread \ {t} : pc[u] \notin Locked
    BY <1>1 DEF IInv, ThreadInv, Locked
  <1>3. pc'[t] \in {"over", "cap", "wake"} /\ \A u \in Thread \ {t} : pc'[u] = pc[u]
    BY <1>1 DEF IInv, Types
  <1>4. \A u \in Thread \ {t} : ThreadInv(u)'
    BY <1>1, <1>2, <1>3 DEF IInv, ThreadInv, Locked, MaxCount, Smp
  <1>5. QueueInv'
    <2>1. \A i \in 1..Len(tqueue) : tqueue[i] \in Thread \ {t}
      BY <1>1, NotQueued DEF IInv
    <2>2. \A i \in 1..Len(tqueue) : pc'[tqueue[i]] = pc[tqueue[i]]
      BY <1>3, <2>1
    <2> QED BY <1>1, <1>2, <1>3, <2>2 DEF IInv, QueueInv
  <1>6. MaxCount \in Nat \ {0} /\ (Smp => MaxCount = 1)
    BY UseFacts DEF IInv, Types
  <1>7. CASE Add(t)
    <2>1. /\ pc[t] = "add" /\ count' = val[t] + want[t] /\ held' = [held EXCEPT ![t] = 0]
          /\ pc' = [pc EXCEPT ![t] = "over"]
      BY <1>7 DEF Add, At, Goto
    <2>2. val[t] = count /\ want[t] \in 1..MaxCount
      BY <2>1 DEF IInv, ThreadInv, Wanting
    <2>3. Types'
      BY <1>1, <1>6, <2>1, <2>2 DEF IInv, Types, Locked
    <2>4. held'[t] = 0 /\ \A u \in Thread \ {t} : held'[u] = held[u]
      BY <2>1 DEF IInv, Types
    <2>5. Smp => count' = 1 /\ \A u \in Thread : held'[u] = 0
      BY <1>6, <2>1, <2>2, <2>4 DEF IInv, Types, MutexInv
    <2>6. pc'[t] = "over"
      BY <2>1 DEF IInv, Types
    <2>7. \A u \in Thread \ {t} : Smp => pc[u] \notin {"release", "add_read", "add"}
      BY <2>1 DEF IInv, MutexInv
    <2>8. MutexInv'
      BY <1>3, <2>5, <2>6, <2>7 DEF MutexInv, Smp
    <2>9. ThreadInv(t)' /\ CountInv'
      BY <1>1, <1>2, <2>6 DEF ThreadInv, CountInv, Locked, Trying, Wanting
    <2> QED BY <1>4, <1>5, <2>3, <2>8, <2>9 DEF IInv
  <1>8. CASE Over(t)
    <2>1. /\ pc' = [pc EXCEPT ![t] = IF count > MaxCount THEN "cap" ELSE "wake"]
          /\ UNCHANGED <<count, held>>
      BY <1>8 DEF Over, At, Goto, sem
    <2>2. pc'[t] = IF count > MaxCount THEN "cap" ELSE "wake"
      BY <2>1 DEF IInv, Types
    <2>3. Types'
      BY <1>1, <2>1 DEF IInv, Types, Locked
    <2>4. Smp => count <= MaxCount
      BY <1>6 DEF IInv, MutexInv
    <2>5. ThreadInv(t)' /\ CountInv'
      BY <1>1, <1>2, <1>6, <2>1, <2>2, <2>4
         DEF IInv, Types, ThreadInv, CountInv, Locked, Trying, Wanting, MaxCount, Smp
    <2>6. MutexInv'
      BY <1>3, <2>1, MutexKept DEF IInv
    <2> QED BY <1>4, <1>5, <2>3, <2>5, <2>6 DEF IInv
  <1>9. CASE Cap(t)
    <2>1. pc[t] = "cap" /\ pc' = [pc EXCEPT ![t] = "wake"] /\ count' = MaxCount /\ held' = held
      BY <1>9 DEF Cap, At, Goto
    <2>2. ~Smp /\ pc'[t] = "wake"
      BY <2>1 DEF IInv, Types, ThreadInv
    <2>3. Types'
      BY <1>1, <1>6, <2>1 DEF IInv, Types, Locked
    <2>4. ThreadInv(t)' /\ CountInv'
      BY <1>1, <1>2, <1>6, <2>1, <2>2
         DEF IInv, Types, ThreadInv, CountInv, Locked, Trying, Wanting, MaxCount, Smp
    <2>5. MutexInv'
      BY <2>2 DEF MutexInv, Smp
    <2> QED BY <1>4, <1>5, <2>3, <2>4, <2>5 DEF IInv
  <1> QED BY <1>7, <1>8, <1>9

\* A thread enters the queue, lacking units, and goes to sleep.
LEMMA WaitInv ==
  ASSUME AllSound, IInv, NEW t \in Thread, use' = use,
         Queue(t) \/ Unlock(t, "unlock_sleep", "sleep") \/ Sleep(t) \/ Woken(t)
  PROVE  IInv'
  <1> USE SemaphoreAssumption
  <1>1. PICK l \in {"unlock_sleep", "sleep", "woken", "idle", "lock"} :
             /\ pc' = [pc EXCEPT ![t] = l] /\ UNCHANGED <<count, val, want, held>>
             /\ pc[t] \in {"queue", "unlock_sleep", "sleep", "woken"}
    BY DEF Queue, Unlock, Sleep, Woken, At, Goto, sem
  <1>2. pc'[t] = l /\ \A u \in Thread \ {t} : pc'[u] = pc[u]
    BY <1>1 DEF IInv, Types
  <1>3. MutexInv'
    BY <1>1, <1>2, MutexKept DEF IInv
  <1>4. \A i \in 1..Len(tqueue) : tqueue[i] \in Thread
    BY DEF IInv, Types
  <1>5. CASE Queue(t)
    <2>1. /\ pc[t] = "queue" /\ l = "unlock_sleep" /\ tqueue' = Append(tqueue, t)
          /\ UNCHANGED <<lock, asleep>>
      BY <1>1, <1>2, <1>5 DEF Queue, At, Goto, IInv, Types
    <2>2. lock = t /\ count < want[t]
      BY <2>1 DEF IInv, ThreadInv, Locked
    <2>3. Types'
      BY <1>1, <2>1 DEF IInv, Types, Locked
    <2>4. ThreadInv(t)' /\ CountInv'
      BY <1>1, <1>2, <2>1, <2>2
         DEF IInv, Types, ThreadInv, CountInv, Locked, Trying, Wanting, MaxCount, Smp
    <2>5. \A i \in 1..Len(tqueue) : tqueue[i] \in Thread \ {t}
      BY <1>4, <2>1 DEF IInv, QueueInv
    <2>6. /\ Len(tqueue') = Len(tqueue) + 1 /\ tqueue'[Len(tqueue) + 1] = t
          /\ \A i \in 1..Len(tqueue) : tqueue'[i] = tqueue[i]
          /\ Len(tqueue) \in Nat
      BY <2>1, SMTT(30) DEF IInv, Types
    <2>7. \A i \in 1..Len(tqueue) : count < want[tqueue[i]]
      BY <2>1, <2>2 DEF IInv, QueueInv
    <2>8. QueueInv'
      BY <1>1, <1>2, <2>1, <2>2, <2>5, <2>6, <2>7 DEF IInv, QueueInv
    <2>9. \A u \in Thread \ {t} : ThreadInv(u)'
      BY <1>1, <1>2, <2>1, OthersKept DEF IInv
    <2> QED BY <1>3, <2>3, <2>4, <2>8, <2>9 DEF IInv
  <1>6. CASE Unlock(t, "unlock_sleep", "sleep")
    <2>1. pc[t] = "unlock_sleep" /\ l = "sleep" /\ lock' = NULL /\ UNCHANGED <<tqueue, asleep>>
      BY <1>1, <1>2, <1>6 DEF Unlock, At, Goto, IInv, Types
    <2>2. lock = t
      BY <2>1 DEF IInv, ThreadInv, Locked
    <2>3. Types'
      BY <1>1, <2>1 DEF IInv, Types, Others
    <2>4. ThreadInv(t)' /\ CountInv'
      BY <1>1, <1>2, <2>1, <2>2
         DEF IInv, Types, ThreadInv, CountInv, Locked, Trying, Wanting, MaxCount, Smp
    <2>5. QueueInv'
      <3>1. /\ \A i \in 1..Len(tqueue) : count < want[tqueue[i]]
            /\ \A i, j \in 1..Len(tqueue) : tqueue[i] = tqueue[j] => i = j
        BY <2>1, <2>2 DEF IInv, QueueInv
      <3>2. ASSUME NEW i \in 1..Len(tqueue)
            PROVE  /\ pc'[tqueue[i]] \in {"unlock_sleep", "sleep", "woken"}
                   /\ pc'[tqueue[i]] = "woken" => tqueue[i] \in asleep
        <4>1. /\ pc[tqueue[i]] \in {"unlock_sleep", "sleep", "woken"}
              /\ pc[tqueue[i]] = "woken" => tqueue[i] \in asleep
          BY DEF IInv, QueueInv
        <4>2. tqueue[i] \in Thread
          BY <1>4
        <4>3. tqueue[i] = t => pc'[tqueue[i]] = "sleep"
          BY <1>2, <2>1
        <4> QED BY <1>2, <4>1, <4>2, <4>3
      <3> QED BY <1>1, <2>1, <3>1, <3>2 DEF QueueInv
    <2>6. \A u \in Thread \ {t} : ThreadInv(u)'
      BY <1>1, <1>2, <2>1, <2>2, OthersKept DEF IInv
    <2> QED BY <1>3, <2>3, <2>4, <2>5, <2>6 DEF IInv
  <1>7. CASE Sleep(t) \/ Woken(t)
    <2>1. /\ lock' = lock /\ tqueue' = tqueue /\ lock # t
          /\ \/ pc[t] = "sleep" /\ l = "woken" /\ asleep' = asleep \cup {t}
             \/ pc[t] = "woken" /\ l \in {"idle", "lock"} /\ t \notin asleep /\ asleep' = asleep
      BY <1>1, <1>2, <1>7 DEF Sleep, Woken, At, Goto, sem, IInv, Types, ThreadInv, Locked, Trying
    <2>2. Types'
      BY <1>1, <2>1 DEF IInv, Types, Others
    <2>3. ThreadInv(t)' /\ CountInv'
      BY <1>1, <1>2, <2>1
         DEF IInv, Types, ThreadInv, CountInv, Locked, Trying, Wanting, MaxCount, Smp
    <2>4. lock' = NULL \/ pc'[lock'] = pc[lock]
      BY <1>2, <2>1 DEF IInv, Types
    <2>5. QueueInv'
      <3>1. /\ \A i, j \in 1..Len(tqueue) : tqueue[i] = tqueue[j] => i = j
            /\ lock = NULL \/ pc[lock] \notin {"over", "cap", "wake"} =>
                 \A i \in 1..Len(tqueue) : count < want[tqueue[i]]
        BY DEF IInv, QueueInv
      <3>2. ASSUME NEW i \in 1..Len(tqueue)
            PROVE  /\ pc'[tqueue[i]] \in {"unlock_sleep", "sleep", "woken"}
                   /\ pc'[tqueue[i]] = "woken" => tqueue[i] \in asleep'
        <4>1. /\ pc[tqueue[i]] \in {"unlock_sleep", "sleep", "woken"}
              /\ pc[tqueue[i]] = "woken" => tqueue[i] \in asleep
          BY DEF IInv, QueueInv
        <4>2. tqueue[i] \in Thread
          BY <1>4
        <4>3. CASE tqueue[i] = t
          BY <1>2, <2>1, <4>1, <4>3
        <4>4. CASE tqueue[i] # t
          BY <1>2, <2>1, <4>1, <4>2, <4>4
        <4> QED BY <4>3, <4>4
      <3> QED BY <1>1, <2>1, <2>4, <3>1, <3>2 DEF QueueInv
    <2>6. \A u \in Thread \ {t} : ThreadInv(u)'
      BY <1>1, <1>2, <2>1, OthersKept DEF IInv
    <2> QED BY <1>3, <2>2, <2>3, <2>5, <2>6 DEF IInv
  <1> QED BY <1>5, <1>6, <1>7

\* One turn of the loop that wakes the queue, of a release or of a delete.
LEMMA WakeInv ==
  ASSUME AllSound, IInv, NEW t \in Thread, use' = use,
         NEW from, NEW to, <<from, to>> \in {<<"wake", "unlock">>, <<"delete_wake", "delete_unlock">>},
         Wake(t, from, to)
  PROVE  IInv'
  <1> USE SemaphoreAssumption
  <1>1. pc[t] = from /\ UNCHANGED <<count, lock, val, want, held>>
    BY DEF Wake, At
  <1>2. lock = t
    BY <1>1 DEF IInv, ThreadInv, Locked
  <1>3. CASE tqueue = <<>>
    <2>1. pc' = [pc EXCEPT ![t] = to] /\ UNCHANGED <<tqueue, asleep>>
      BY <1>3 DEF Wake, Goto
    <2>2. pc'[t] = to /\ \A u \in Thread \ {t} : pc'[u] = pc[u]
      BY <2>1 DEF IInv, Types
    <2>3. Types'
      BY <1>1, <2>1 DEF IInv, Types, Locked
    <2>4. ThreadInv(t)' /\ CountInv'
      BY <1>1, <1>2, <2>2
         DEF IInv, Types, ThreadInv, CountInv, Locked, Trying, Wanting, MaxCount
    <2>5. \A u \in Thread \ {t} : ThreadInv(u)'
      BY <1>1, <2>2, OthersKept DEF IInv
    <2>6. MutexInv'
      BY <1>1, <2>2, MutexKept DEF IInv
    <2>7. QueueInv'
      BY <1>3, <2>1 DEF QueueInv
    <2> QED BY <2>3, <2>4, <2>5, <2>6, <2>7 DEF IInv
  <1>4. CASE tqueue # <<>>
    <2>1. tqueue' = Tail(tqueue) /\ asleep' = asleep \ {Head(tqueue)} /\ pc' = pc
      BY <1>4 DEF Wake
    <2>2. /\ tqueue' \in Seq(Thread) /\ Len(tqueue') = Len(tqueue) - 1
          /\ Len(tqueue) \in Nat \ {0} /\ Head(tqueue) = tqueue[1]
          /\ \A i \in 1..Len(tqueue') : tqueue'[i] = tqueue[i + 1]
      BY <1>4, <2>1 DEF IInv, Types
    <2>3. Types'
      BY <1>1, <2>1, <2>2 DEF IInv, Types
    <2>4. (\A u \in Thread : ThreadInv(u)') /\ CountInv' /\ MutexInv'
      BY <1>1, <2>1 DEF IInv, ThreadInv, CountInv, MutexInv, MaxCount, Smp
    <2>5. \A i \in 1..Len(tqueue') : i + 1 \in 1..Len(tqueue) /\ tqueue[i + 1] # tqueue[1]
      BY <2>2 DEF IInv, QueueInv
    <2>6. QueueInv'
      BY <1>1, <2>1, <2>2, <2>5 DEF IInv, QueueInv
    <2> QED BY <2>3, <2>4, <2>6 DEF IInv
  <1> QED BY <1>3, <1>4

\* A new semaphore in the place of a deleted one that nobody uses.
LEMMA CreateInv == ASSUME AllSound, IInv, use' = use, Create PROVE IInv'
  <1> USE SemaphoreAssumption
  <1>1. /\ \A t \in Thread : pc[t] = "idle"
        /\ count' = Initial /\ held' = [t \in Thread |-> 0]
        /\ UNCHANGED <<tqueue, lock, asleep, pc, val, want>>
    BY DEF Create
  <1>2. Initial \in Nat /\ Initial <= MaxCount /\ MaxCount \in Nat /\ (Smp => MaxCount = 1)
    BY UseFacts DEF IInv, Types
  <1>3. Types'
    BY <1>1, <1>2 DEF IInv, Types
  <1>4. \A t \in Thread : ThreadInv(t)'
    BY <1>1 DEF IInv, ThreadInv, Locked, Wanting, Trying
  <1>5. CountInv' /\ MutexInv'
    BY <1>1, <1>2 DEF CountInv, MutexInv, MaxCount, Smp
  <1>6. ASSUME NEW i \in 1..Len(tqueue) PROVE FALSE
    <2>1. tqueue[i] \in Thread
      BY DEF IInv, Types
    <2>2. pc[tqueue[i]] # "idle"
      BY DEF IInv, QueueInv
    <2> QED BY <1>1, <2>1, <2>2
  <1>7. QueueInv'
    BY <1>1, <1>6 DEF QueueInv
  <1> QED BY <1>3, <1>4, <1>5, <1>7 DEF IInv

\* Every step keeps the strengthening.
LEMMA StepInv == AllSound /\ IInv /\ [Next]_vars => IInv'
  <1> SUFFICES ASSUME AllSound, IInv, [Next]_vars PROVE IInv'
    OBVIOUS
  <1>1. CASE UNCHANGED vars
    BY <1>1 DEF vars, IInv, Types, ThreadInv, CountInv, MutexInv, QueueInv, MaxCount, Smp
  <1>2. ASSUME use' = use, Create PROVE IInv'
    BY <1>2, CreateInv
  <1>3. ASSUME use' = use, NEW t \in Thread, AcquireStep(t) PROVE IInv'
    <2>1. CASE TryCas(t)
      BY <1>3, <2>1, TryCasTakes, TryCasFails
    <2>2. CASE Acquire(t) \/ TryRead(t)
      BY <1>3, <2>2, AcquireInv, TryReadInv
    <2>3. CASE Lock(t, "lock", "try")
      BY <1>3, <2>3, LockInv
    <2>4. CASE Unlock(t, "unlock", "idle")
      BY <1>3, <2>4, UnlockInv
    <2>5. CASE Queue(t) \/ Unlock(t, "unlock_sleep", "sleep") \/ Sleep(t) \/ Woken(t)
      BY <1>3, <2>5, WaitInv
    <2> QED BY <1>3, <2>1, <2>2, <2>3, <2>4, <2>5 DEF AcquireStep
  <1>4. ASSUME use' = use, NEW t \in Thread, ReleaseStep(t) PROVE IInv'
    <2>1. CASE Release(t)
      BY <1>4, <2>1, ReleaseInv
    <2>2. CASE Lock(t, "release", "add_read")
      BY <1>4, <2>2, LockInv
    <2>3. CASE AddRead(t)
      BY <1>4, <2>3, MovesInv
    <2>4. CASE Add(t) \/ Over(t) \/ Cap(t)
      BY <1>4, <2>4, AddInv
    <2>5. CASE Wake(t, "wake", "unlock")
      BY <1>4, <2>5, WakeInv
    <2> QED BY <1>4, <2>1, <2>2, <2>3, <2>4, <2>5 DEF ReleaseStep
  <1>5. ASSUME use' = use, NEW t \in Thread, DeleteStep(t) PROVE IInv'
    <2>1. CASE Lock(t, "delete", "was_empty")
      BY <1>5, <2>1, LockInv
    <2>2. CASE Wake(t, "delete_wake", "delete_unlock")
      BY <1>5, <2>2, WakeInv
    <2>3. CASE Unlock(t, "delete_unlock", "delete_lock")
      BY <1>5, <2>3, UnlockInv
    <2>4. CASE Delete(t) \/ WasEmpty(t) \/ DeleteLock(t) \/ Cleanup(t)
      BY <1>5, <2>4, MovesInv
    <2> QED BY <1>5, <2>1, <2>2, <2>3, <2>4 DEF DeleteStep
  <1> QED BY <1>1, <1>2, <1>3, <1>4, <1>5 DEF Next

\* The strengthening holds in every reachable state.
THEOREM Invariance == AllSound => (Spec => []IInv)
  <1> SUFFICES ASSUME AllSound PROVE Spec => []IInv
    OBVIOUS
  <1>1. Init => IInv
    BY InitInv
  <1>2. IInv /\ [Next]_vars => IInv'
    BY StepInv
  <1> QED BY <1>1, <1>2, PTL DEF Spec

\* Whoever is in the pending queue while the lock is free lacks units, for any
\* number of threads and units: a release wakes all before it unlocks.
THEOREM NobodyWaitsForUnitsThatAreThere == AllSound => (Spec => []WaiterLacksUnits)
  <1> SUFFICES ASSUME AllSound PROVE Spec => []WaiterLacksUnits
    OBVIOUS
  <1>1. IInv => WaiterLacksUnits
    BY DEF IInv, QueueInv, WaiterLacksUnits
  <1>2. Spec => []IInv
    BY Invariance
  <1> QED BY <1>1, <1>2, PTL

-----------------------------------------------------------------------------
\* A non-empty set of numbers has a least element.
LEMMA LeastNat ==
  ASSUME NEW T, T \subseteq Nat, T # {}
  PROVE  \E x \in T : \A y \in T : x <= y
<1>1. PICK x \in T : \A y \in T : ~(<<y, x>> \in OpToRel(<, Nat))
  BY NatLessThanWellFounded, WFMin
<1>2. ASSUME NEW y \in T PROVE x <= y
  <2>1. x \in Nat /\ y \in Nat
    OBVIOUS
  <2>2. ~(y < x)
    BY <1>1, <2>1 DEF OpToRel
  <2> QED  BY <2>1, <2>2
<1> QED  BY <1>2

\* The sum of f over S, as UnitsConserved writes it.
Total(f, S) == MapThenSumSet(LAMBDA t : f[t], S)

\* The element that a sum over s takes first.
First(s) == CHOOSE x \in s : TRUE

\* One turn of the sum of f, with g for the sums over smaller sets.
Turn(f, g, s) == IF s = {} THEN 0 ELSE f[First(s)] + g[s \ {First(s)}]

\* g gives the sums of f over the subsets of S.
IsSum(f, S, g) == g \in [SUBSET S -> Nat] /\ \A s \in SUBSET S : g[s] = Turn(f, g, s)

\* First takes an element.
LEMMA FirstIn == \A s : s # {} => First(s) \in s
  BY DEF First

\* A turn gives a number.
LEMMA TurnType ==
  ASSUME NEW S, NEW f \in [S -> Nat], NEW g \in [SUBSET S -> Nat], NEW s \in SUBSET S
  PROVE  Turn(f, g, s) \in Nat
<1>1. CASE s = {}
  BY <1>1 DEF Turn
<1>2. CASE s # {}
  <2>1. First(s) \in S /\ s \ {First(s)} \in SUBSET S
    BY <1>2, FirstIn
  <2> QED  BY <1>2, <2>1 DEF Turn
<1> QED  BY <1>1, <1>2

\* There are such sums, by induction over the size of the subset.
LEMMA SumExists ==
  ASSUME NEW S, IsFiniteSet(S), NEW f \in [S -> Nat]
  PROVE  \E g : IsSum(f, S, g)
<1> DEFINE Upto(g, n) == \A s \in SUBSET S : Cardinality(s) <= n => g[s] = Turn(f, g, s)
           T == {n \in Nat : ~ \E g \in [SUBSET S -> Nat] : Upto(g, n)}
<1>0. \A s \in SUBSET S : IsFiniteSet(s) /\ Cardinality(s) \in Nat /\ Cardinality(s) <= Cardinality(S)
  BY FS_Subset, FS_CardinalityType
<1>1. T = {}
  <2> SUFFICES ASSUME T # {} PROVE FALSE
    OBVIOUS
  <2>1. PICK n \in T : \A y \in T : n <= y
    BY LeastNat
  <2>2. CASE n = 0
    <3> DEFINE g == [s \in SUBSET S |-> 0]
    <3>1. ASSUME NEW s \in SUBSET S, Cardinality(s) <= 0 PROVE g[s] = Turn(f, g, s)
      <4>1. IsFiniteSet(s) /\ Cardinality(s) = 0
        BY <1>0, <3>1
      <4>2. s = {}
        BY <4>1, FS_EmptySet
      <4> QED  BY <4>2 DEF Turn
    <3> QED  BY <2>2, <3>1
  <2>3. CASE n # 0
    <3>0. n \in Nat
      OBVIOUS
    <3>1. n - 1 \in Nat /\ n - 1 \notin T
      <4> HIDE DEF T
      <4> QED  BY <2>1, <2>3, <3>0
    <3>2. PICK g \in [SUBSET S -> Nat] : Upto(g, n - 1)
      BY <3>1
    <3> DEFINE h == [s \in SUBSET S |-> Turn(f, g, s)]
    <3>3. h \in [SUBSET S -> Nat]
      BY TurnType
    <3>4. ASSUME NEW s \in SUBSET S, Cardinality(s) <= n PROVE h[s] = Turn(f, h, s)
      <4>1. CASE s = {}
        BY <4>1 DEF Turn
      <4>2. CASE s # {}
        <5>1. First(s) \in s
          BY <4>2, FirstIn
        <5> DEFINE r == s \ {First(s)}
        <5>2. r \in SUBSET S
          OBVIOUS
        <5>3. Cardinality(r) <= n - 1
          BY <1>0, <3>1, <3>4, <5>1, FS_RemoveElement
        <5>4. g[r] = Turn(f, g, r)
          BY <3>2, <5>2, <5>3
        <5>5. h[r] = g[r]
          BY <5>2, <5>4
        <5>6. h[s] = Turn(f, g, s)
          OBVIOUS
        <5> HIDE DEF h
        <5> QED  BY <4>2, <5>5, <5>6 DEF Turn
      <4> QED  BY <4>1, <4>2
    <3> QED  BY <2>1, <3>1, <3>3, <3>4
  <2> QED  BY <2>2, <2>3
<1>2. Cardinality(S) \in Nat
  BY FS_CardinalityType
<1>3. PICK g \in [SUBSET S -> Nat] : Upto(g, Cardinality(S))
  BY <1>1, <1>2
<1> QED  BY <1>0, <1>3 DEF IsSum


\* Two sums are equal over the sets on which their functions agree.
LEMMA SameSums ==
  ASSUME NEW X, IsFiniteSet(X), NEW f, NEW k, \A x \in X : f[x] = k[x], NEW g, NEW h,
         \A s \in SUBSET X : g[s] = Turn(f, g, s) /\ h[s] = Turn(k, h, s)
  PROVE  g[X] = h[X]
<1> DEFINE T == {n \in Nat : \E s \in SUBSET X : Cardinality(s) = n /\ g[s] # h[s]}
<1>0. \A s \in SUBSET X : IsFiniteSet(s) /\ Cardinality(s) \in Nat
  BY FS_Subset, FS_CardinalityType
<1>1. T = {}
  <2> SUFFICES ASSUME T # {} PROVE FALSE
    OBVIOUS
  <2>1. PICK n \in T : \A y \in T : n <= y
    BY LeastNat
  <2>2. PICK s \in SUBSET X : Cardinality(s) = n /\ g[s] # h[s]
    BY <2>1
  <2>3. s # {}
    BY <2>2 DEF Turn
  <2>4. First(s) \in s
    BY <2>3, FirstIn
  <2> DEFINE r == s \ {First(s)}
  <2>5. r \in SUBSET X /\ Cardinality(r) = n - 1
    BY <1>0, <2>2, <2>4, FS_RemoveElement
  <2>6. g[r] = h[r]
    <3>1. n \in Nat /\ n - 1 \in Nat
      BY <1>0, <2>5
    <3>2. n - 1 \notin T
      <4> HIDE DEF T
      <4> QED  BY <2>1, <3>1
    <3> QED  BY <2>5, <3>1, <3>2
  <2> QED  BY <2>2, <2>3, <2>4, <2>6 DEF Turn
<1>2. X \in SUBSET X
  OBVIOUS
<1> QED  BY <1>0, <1>1, <1>2

\* The library's fold computes them.
LEMMA TotalIsSum ==
  ASSUME NEW S, IsFiniteSet(S), NEW f \in [S -> Nat]
  PROVE  \E g : IsSum(f, S, g) /\ Total(f, S) = g[S]
<1> DEFINE e(g) == [s \in SUBSET S |-> IF s = {} THEN 0
              ELSE f[CHOOSE x \in s : TRUE] + g[s \ {CHOOSE x \in s : TRUE}]]
           it == CHOOSE g : g = e(g)
<1>1. Total(f, S) = it[S]
  BY DEF Total, MapThenSumSet, MapThenFoldSet
<1>2. PICK g : IsSum(f, S, g)
  BY SumExists
<1>3. g = e(g)
  BY <1>2 DEF IsSum, Turn, First
<1>4. it = e(it)
  BY <1>3
<1> HIDE DEF it
<1>5. \A s \in SUBSET S : it[s] = Turn(f, it, s)
  BY <1>4 DEF Turn, First
<1>6. it[S] = g[S]
  BY <1>2, <1>5, SameSums DEF IsSum
<1> QED  BY <1>1, <1>2, <1>6

\* A sum does not depend on the order in which its elements are taken.
LEMMA SumTakes ==
  ASSUME NEW S, IsFiniteSet(S), NEW f \in [S -> Nat], NEW g, IsSum(f, S, g), NEW x \in S
  PROVE  g[S] = f[x] + g[S \ {x}]
<1> DEFINE T == {n \in Nat : \E s \in SUBSET S : Cardinality(s) = n /\ \E y \in s : g[s] # f[y] + g[s \ {y}]}
<1>0. \A s \in SUBSET S : IsFiniteSet(s) /\ Cardinality(s) \in Nat
  BY FS_Subset, FS_CardinalityType
<1>1. T = {}
  <2> SUFFICES ASSUME T # {} PROVE FALSE
    OBVIOUS
  <2>1. PICK n \in T : \A y \in T : n <= y
    BY LeastNat
  <2>2. PICK s \in SUBSET S : Cardinality(s) = n /\ \E y \in s : g[s] # f[y] + g[s \ {y}]
    BY <2>1
  <2>3. PICK y \in s : g[s] # f[y] + g[s \ {y}]
    BY <2>2
  <2>4. PICK c : c = First(s)
    OBVIOUS
  <2>5. c \in s /\ g[s] = f[c] + g[s \ {c}]
    BY <2>3, <2>4, FirstIn DEF IsSum, Turn
  <2>6. c # y
    BY <2>3, <2>5
  <2>7. ASSUME NEW a \in s, NEW b \in s, a # b PROVE g[s \ {a}] = f[b] + g[s \ {a, b}]
    <3> DEFINE r == s \ {a}
    <3>1. r \in SUBSET S /\ Cardinality(r) = n - 1 /\ b \in r
      BY <1>0, <2>2, <2>7, FS_RemoveElement
    <3>2. n \in Nat /\ n - 1 \in Nat
      BY <1>0, <3>1
    <3>3. n - 1 \notin T
      <4> HIDE DEF T
      <4> QED  BY <2>1, <3>2
    <3>4. g[r] = f[b] + g[r \ {b}]
      BY <3>1, <3>2, <3>3
    <3>5. r \ {b} = s \ {a, b}
      OBVIOUS
    <3> QED  BY <3>4, <3>5
  <2>8. PICK q \in SUBSET S : q = s \ {c, y} /\ q = s \ {y, c}
    OBVIOUS
  <2>9. g[s \ {c}] = f[y] + g[q] /\ g[s \ {y}] = f[c] + g[q]
    BY <2>5, <2>6, <2>7, <2>8
  <2>10. f[c] \in Nat /\ f[y] \in Nat /\ g[q] \in Nat
    BY <2>5 DEF IsSum
  <2>11. f[c] + (f[y] + g[q]) = f[y] + (f[c] + g[q])
    BY <2>10
  <2> QED  BY <2>3, <2>5, <2>9, <2>11, Zenon
<1>2. S \in SUBSET S
  OBVIOUS
<1> QED  BY <1>0, <1>1, <1>2

\* When f changes at x, its sum over S changes by as much.
LEMMA TotalChanges ==
  ASSUME NEW S, IsFiniteSet(S), NEW f \in [S -> Nat], NEW x \in S, NEW v \in Nat
  PROVE  /\ Total(f, S) \in Nat
         /\ Total([f EXCEPT ![x] = v], S) + f[x] = Total(f, S) + v
<1> DEFINE k == [f EXCEPT ![x] = v]
           R == S \ {x}
<1>1. k \in [S -> Nat] /\ k[x] = v /\ \A y \in R : k[y] = f[y]
  OBVIOUS
<1> HIDE DEF k
<1>2. PICK g : IsSum(f, S, g) /\ Total(f, S) = g[S]
  BY TotalIsSum
<1>3. PICK h : IsSum(k, S, h) /\ Total(k, S) = h[S]
  BY <1>1, TotalIsSum
<1>4. IsFiniteSet(R) /\ R \in SUBSET S /\ S \in SUBSET S
  BY FS_RemoveElement
<1>5. \A s \in SUBSET R : h[s] = Turn(k, h, s) /\ g[s] = Turn(f, g, s)
  BY <1>2, <1>3 DEF IsSum
<1>6. h[R] = g[R]
  <2> HIDE DEF R
  <2> QED  BY <1>1, <1>4, <1>5, SameSums
<1>7. g[S] = f[x] + g[R] /\ h[S] = k[x] + h[R]
  <2>1. g[S] = f[x] + g[R]
    BY <1>2, SumTakes
  <2>2. h[S] = k[x] + h[R]
    BY <1>1, <1>3, SumTakes
  <2> QED  BY <2>1, <2>2
<1>8. g[S] \in Nat /\ g[R] \in Nat /\ f[x] \in Nat
  BY <1>2, <1>4 DEF IsSum
<1>9. Total(k, S) + f[x] = Total(f, S) + v
  BY <1>1, <1>2, <1>3, <1>6, <1>7, <1>8
<1> QED  BY <1>2, <1>8, <1>9 DEF k

\* A sum of zeros.
LEMMA TotalOfZeros ==
  ASSUME NEW S, IsFiniteSet(S) PROVE Total([t \in S |-> 0], S) = 0
<1> DEFINE z == [t \in S |-> 0]
           g == [s \in SUBSET S |-> 0]
<1>1. \A s \in SUBSET S : g[s] = Turn(z, g, s)
  <2> SUFFICES ASSUME NEW s \in SUBSET S, s # {} PROVE g[s] = Turn(z, g, s)
    BY DEF Turn
  <2>1. First(s) \in S /\ s \ {First(s)} \in SUBSET S
    BY FirstIn
  <2> QED  BY <2>1 DEF Turn
<1>2. z \in [S -> Nat] /\ g[S] = 0
  OBVIOUS
<1> HIDE DEF z, g
<1>3. PICK h : IsSum(z, S, h) /\ Total(z, S) = h[S]
  BY <1>2, TotalIsSum
<1>4. h[S] = g[S]
  BY <1>1, <1>3, SameSums DEF IsSum
<1> QED  BY <1>2, <1>3, <1>4 DEF z

-----------------------------------------------------------------------------
Acquiring == {"try", "cas", "lock", "queue", "unlock_sleep", "sleep", "woken"}
Releasing == {"release", "add_read", "add"}

\* What a thread holds that gives back what it took: nothing while it acquires,
\* what it is about to add while it releases.  The cap is never needed.
HolderInv(t) ==
  /\ held[t] <= MaxCount
  /\ pc[t] \in Acquiring => held[t] = 0
  /\ pc[t] \in Releasing => want[t] = held[t]
  /\ pc[t] # "cap"

UnitsInv ==
  HolderOnly => /\ count + Total(held, Thread) = Initial
                /\ \A t \in Thread : HolderInv(t)

\* A semaphore that was just created.
LEMMA UnitsInit == Init => UnitsInv
  <1> SUFFICES ASSUME Init PROVE UnitsInv
    OBVIOUS
  <1>1. held = [t \in Thread |-> 0]
    BY DEF Init
  <1>2. Total(held, Thread) = 0
    BY <1>1, TotalOfZeros, SemaphoreAssumption
  <1>3. MaxCount \in Nat /\ Initial \in Nat /\ count = Initial
    BY SemaphoreAssumption DEF Init, MaxCount, Initial
  <1>4. \A t \in Thread : HolderInv(t)
    BY <1>1, <1>3 DEF Init, HolderInv, Acquiring, Releasing
  <1> QED BY <1>2, <1>3, <1>4 DEF UnitsInv

\* A step of t that moves no unit and keeps what t holds in line with its place.
LEMMA UnitsKept ==
  ASSUME UnitsInv, HolderOnly, NEW t \in Thread, use' = use, UNCHANGED <<count, held>>,
         \A u \in Thread \ {t} : pc'[u] = pc[u] /\ want'[u] = want[u],
         HolderInv(t)'
  PROVE  UnitsInv'
  <1>1. \A u \in Thread \ {t} : HolderInv(u)'
    BY DEF UnitsInv, HolderInv, MaxCount
  <1>2. Total(held, Thread)' = Total(held, Thread)
    OBVIOUS
  <1>3. Initial' = Initial
    BY DEF Initial
  <1> QED BY <1>1, <1>2, <1>3 DEF UnitsInv

\* No step of the code makes up a unit or loses one.
LEMMA UnitsNext ==
  ASSUME AllSound, IInv, UnitsInv, [Next]_vars PROVE UnitsInv'
  <1>0. use' = use
    BY DEF Next, vars
  <1> SUFFICES ASSUME HolderOnly PROVE UnitsInv'
    BY <1>0 DEF UnitsInv, HolderOnly
  <1>1. /\ MaxCount \in Nat \ {0} /\ Initial \in Nat /\ Initial <= MaxCount /\ count \in Nat
        /\ held \in [Thread -> Nat] /\ want \in [Thread -> Nat]
        /\ pc \in [Thread -> Locked \cup Trying \cup Others]
        /\ MaxCount' = MaxCount /\ Initial' = Initial
    BY <1>0, UseFacts DEF IInv, Types, MaxCount, Initial
  <1>2. count + Total(held, Thread) = Initial /\ \A t \in Thread : HolderInv(t)
    BY DEF UnitsInv
  <1>3. \A h \in [Thread -> Nat], t \in Thread, n \in Nat :
           Total(h, Thread) \in Nat /\ Total([h EXCEPT ![t] = n], Thread) + h[t] = Total(h, Thread) + n
    BY TotalChanges, SemaphoreAssumption
  <1>4. CASE UNCHANGED vars
    BY <1>4 DEF vars, UnitsInv, HolderInv, MaxCount, Initial
  <1>5. CASE Create
    <2>1. Total(held, Thread)' = 0
      BY <1>5, TotalOfZeros, SemaphoreAssumption DEF Create
    <2>2. \A t \in Thread : HolderInv(t)'
      BY <1>1, <1>5 DEF Create, HolderInv, Acquiring, Releasing
    <2> QED BY <1>1, <1>5, <2>1, <2>2 DEF Create, UnitsInv
  <1>6. ASSUME NEW t \in Thread, TryCas(t), count = val[t] PROVE UnitsInv'
    <2>1. /\ want[t] \in 1..MaxCount /\ held[t] = 0 /\ pc[t] = "cas"
      BY <1>2, <1>6 DEF TryCas, At, IInv, ThreadInv, Wanting, HolderInv, Acquiring
    <2>2. count' = count - want[t] /\ held' = [held EXCEPT ![t] = want[t]] /\ want' = want
      BY <1>6 DEF TryCas
    <2>3. PICK l \in {"unlock", "idle"} : pc' = [pc EXCEPT ![t] = l]
      BY <1>6 DEF TryCas, Goto
    <2>4. Total(held', Thread) + held[t] = Total(held, Thread) + want[t]
      <3>1. want[t] \in Nat
        BY <1>1
      <3>2. Total([held EXCEPT ![t] = want[t]], Thread) + held[t] = Total(held, Thread) + want[t]
        BY <1>1, <1>3, <3>1, Zenon
      <3> QED BY <2>2, <3>2, Zenon
    <2>5. \A u \in Thread : HolderInv(u)'
      BY <1>1, <1>2, <2>1, <2>2, <2>3 DEF HolderInv, Acquiring, Releasing
    <2>6. PICK a \in Nat : a = Total(held, Thread)
      BY <1>1, <1>3, <2>1
    <2>7. PICK b \in Nat : b = Total(held', Thread)
      BY <1>1, <1>3, <2>1, <2>2
    <2>8. count' + Total(held', Thread) = Initial
      BY <1>1, <1>2, <2>1, <2>2, <2>4, <2>6, <2>7
    <2> QED BY <1>1, <2>5, <2>8 DEF UnitsInv
  <1>7. ASSUME NEW t \in Thread, Add(t) PROVE UnitsInv'
    <2>1. want[t] = held[t] /\ val[t] = count
      BY <1>2, <1>7 DEF Add, At, IInv, ThreadInv, HolderInv, Releasing
    <2>2. /\ count' = count + held[t] /\ held' = [held EXCEPT ![t] = 0] /\ want' = want
          /\ pc' = [pc EXCEPT ![t] = "over"]
      BY <1>7, <2>1 DEF Add, Goto
    <2>3. Total(held', Thread) + held[t] = Total(held, Thread) + 0
      <3>1. 0 \in Nat
        OBVIOUS
      <3>2. Total([held EXCEPT ![t] = 0], Thread) + held[t] = Total(held, Thread) + 0
        BY <1>1, <1>3, <3>1, Zenon
      <3> QED BY <2>2, <3>2, Zenon
    <2>4. \A u \in Thread : HolderInv(u)'
      BY <1>1, <1>2, <2>2 DEF HolderInv, Acquiring, Releasing
    <2>5. PICK a \in Nat : a = Total(held, Thread)
      BY <1>1, <1>3, <1>7
    <2>6. PICK b \in Nat : b = Total(held', Thread)
      BY <1>1, <1>3, <1>7, <2>2
    <2>7. count' + Total(held', Thread) = Initial
      BY <1>1, <1>2, <2>2, <2>3, <2>5, <2>6
    <2> QED BY <1>1, <2>4, <2>7 DEF UnitsInv
  <1>8. ASSUME NEW t \in Thread, Cap(t) PROVE FALSE
    BY <1>2, <1>8 DEF Cap, At, HolderInv
  <1>9. ASSUME NEW t \in Thread, Over(t) PROVE UnitsInv'
    <2>1. PICK a \in Nat : a = Total(held, Thread)
      BY <1>1, <1>3, <1>9
    <2>2. count <= MaxCount
      BY <1>1, <1>2, <2>1
    <2>3. pc' = [pc EXCEPT ![t] = "wake"] /\ UNCHANGED <<count, want, held>>
      <3>1. ~(count > MaxCount)
        BY <1>1, <2>2
      <3> QED BY <1>9, <3>1 DEF Over, Goto, sem
    <2>4. HolderInv(t)'
      BY <1>1, <1>2, <2>3 DEF HolderInv, Acquiring, Releasing
    <2> QED BY <1>0, <1>1, <2>3, <2>4, UnitsKept
  <1>10. ASSUME NEW t \in Thread, Acquire(t) PROVE UnitsInv'
    <2>1. PICK k : want' = [want EXCEPT ![t] = k]
      BY <1>10 DEF Acquire
    <2>2. held[t] = 0 /\ pc' = [pc EXCEPT ![t] = "try"] /\ UNCHANGED <<count, held>>
      BY <1>10 DEF Acquire, Goto, sem
    <2>3. HolderInv(t)'
      BY <1>1, <1>2, <2>2 DEF HolderInv, Acquiring, Releasing
    <2> QED BY <1>0, <1>1, <2>1, <2>2, <2>3, UnitsKept
  <1>11. ASSUME NEW t \in Thread, Release(t) PROVE UnitsInv'
    <2>1. PICK k \in 0..MaxCount + 1 : k = held[t] /\ k > 0 /\ want' = [want EXCEPT ![t] = Clamp(k)]
      BY <1>11 DEF Release
    <2>2. Clamp(k) = held[t]
      BY <1>1, <1>2, <2>1 DEF Clamp, HolderInv
    <2>3. pc' = [pc EXCEPT ![t] = "release"] /\ UNCHANGED <<count, held>>
      BY <1>11 DEF Release, Goto, sem
    <2>4. HolderInv(t)'
      BY <1>1, <1>2, <2>1, <2>2, <2>3 DEF HolderInv, Acquiring, Releasing
    <2> QED BY <1>0, <1>1, <2>1, <2>3, <2>4, UnitsKept
  <1>12. ASSUME NEW t \in Thread,
                \/ TryRead(t) \/ (TryCas(t) /\ count # val[t]) \/ Lock(t, "lock", "try") \/ Queue(t)
                \/ Unlock(t, "unlock", "idle") \/ Unlock(t, "unlock_sleep", "sleep")
                \/ Sleep(t) \/ Woken(t)
         PROVE  UnitsInv'
    <2>1. PICK l \in Acquiring \cup {"idle"} : pc' = [pc EXCEPT ![t] = l] /\ (l # "idle" => pc[t] \in Acquiring)
      BY <1>12 DEF TryRead, TryCas, Lock, Queue, Unlock, Sleep, Woken, At, Goto, Failed, Acquiring
    <2>2. UNCHANGED <<count, want, held>>
      BY <1>12 DEF TryRead, TryCas, Lock, Queue, Unlock, Sleep, Woken, sem
    <2>3. HolderInv(t)'
      BY <1>1, <1>2, <2>1, <2>2 DEF HolderInv, Acquiring, Releasing
    <2> QED BY <1>0, <1>1, <2>1, <2>2, <2>3, UnitsKept
  <1>13. ASSUME NEW t \in Thread,
                \/ Lock(t, "release", "add_read") \/ AddRead(t) \/ Wake(t, "wake", "unlock")
         PROVE  UnitsInv'
    <2>1. PICK l \in {"add_read", "add", "unlock", "wake"} :
               pc' = [pc EXCEPT ![t] = l] /\ (l \in Releasing => pc[t] \in Releasing)
      <3>1. pc = [pc EXCEPT ![t] = pc[t]]
        BY <1>1
      <3> QED BY <1>13, <3>1 DEF Lock, AddRead, Wake, At, Goto, Releasing
    <2>2. UNCHANGED <<count, want, held>>
      BY <1>13 DEF Lock, AddRead, Wake, sem
    <2>3. HolderInv(t)'
      BY <1>1, <1>2, <2>1, <2>2 DEF HolderInv, Acquiring, Releasing
    <2> QED BY <1>0, <1>1, <2>1, <2>2, <2>3, UnitsKept
  <1>14. ASSUME NEW t \in Thread, DeleteStep(t) PROVE UnitsInv'
    <2>1. PICK l \in {"delete", "was_empty", "delete_wake", "delete_unlock", "delete_lock", "idle", "cleanup"} :
               pc' = [pc EXCEPT ![t] = l]
      <3>1. pc = [pc EXCEPT ![t] = pc[t]]
        BY <1>1
      <3> QED BY <1>14, <3>1 DEF DeleteStep, Delete, Lock, WasEmpty, Wake, Unlock, DeleteLock, Cleanup,
              At, Goto
    <2>2. UNCHANGED <<count, held>> /\ \E n : want' = [want EXCEPT ![t] = n]
      BY <1>1, <1>14 DEF DeleteStep, Delete, Lock, WasEmpty, Wake, Unlock, DeleteLock, Cleanup, sem
    <2>3. HolderInv(t)'
      BY <1>1, <1>2, <2>1, <2>2 DEF HolderInv, Acquiring, Releasing
    <2> QED BY <1>0, <1>1, <2>1, <2>2, <2>3, UnitsKept
  <1> QED BY <1>4, <1>5, <1>6, <1>7, <1>8, <1>9, <1>10, <1>11, <1>12, <1>13, <1>14
             DEF Next, AcquireStep, ReleaseStep

\* Where threads give back what they took, the free units and the held ones are
\* always as many as create_semaphore was given (semaphore.c:139, 163), for any
\* number of threads and units: in the middle of the operations as well, and
\* release's cap (semaphore.c:165) is never reached.
THEOREM UnitsAreConserved == AllSound => (Spec => []UnitsConserved)
  <1> SUFFICES ASSUME AllSound PROVE Spec => []UnitsConserved
    OBVIOUS
  <1>1. Init => UnitsInv
    BY UnitsInit
  <1>2. IInv /\ UnitsInv /\ [Next]_vars => UnitsInv'
    BY UnitsNext
  <1>3. UnitsInv => UnitsConserved
    BY DEF UnitsInv, UnitsConserved, Total
  <1>4. Spec => []IInv
    BY Invariance
  <1> QED BY <1>1, <1>2, <1>3, <1>4, PTL DEF Spec

-----------------------------------------------------------------------------
\* A step of a thread is an acquire, a release or nothing to who counts units.
LEMMA StepRefines ==
  ASSUME AllSound, IInv, [Next]_vars
  PROVE  [Abstract!Next]_<<IF count > MaxCount THEN MaxCount ELSE count, held, MaxCount, Initial>>
  <1> DEFINE units == IF count > MaxCount THEN MaxCount ELSE count
  <1>0. MaxCount \in Nat \ {0} /\ Initial \in 0..MaxCount /\ count \in Nat
    BY UseFacts DEF IInv, Types
  <1>1. UNCHANGED <<MaxCount, Initial>>
    BY DEF Next, vars, MaxCount, Initial
  <1>2. ASSUME UNCHANGED <<count, held>> PROVE UNCHANGED <<units, held, MaxCount, Initial>>
    BY <1>1, <1>2
  <1>3. CASE Create
    <2>1. units' = Initial /\ held' = [t \in Thread |-> 0]
      BY <1>0, <1>1, <1>3 DEF Create
    <2> QED BY <1>1, <2>1 DEF Abstract!Next, Abstract!Renew
  <1>4. ASSUME NEW t \in Thread, TryCas(t), count = val[t] PROVE Abstract!Next
    <2>1. want[t] \in 1..MaxCount /\ want[t] <= count /\ count <= MaxCount
      BY <1>4 DEF TryCas, At, IInv, ThreadInv, Wanting
    <2>2. count' = count - want[t] /\ held' = [held EXCEPT ![t] = want[t]]
      BY <1>4 DEF TryCas
    <2>3. units = count /\ units' = count'
      BY <1>0, <1>1, <2>1, <2>2
    <2>4. Abstract!Acquire(t)
      BY <2>1, <2>2, <2>3 DEF Abstract!Acquire
    <2> QED BY <1>1, <2>4 DEF Abstract!Next
  <1>5. ASSUME NEW t \in Thread, Add(t) PROVE Abstract!Next
    <2>1. /\ want[t] \in 1..MaxCount /\ val[t] = count /\ lock = t
      BY <1>5 DEF Add, At, IInv, ThreadInv, Wanting, Locked
    <2>2. count <= MaxCount
      BY <1>5, <2>1 DEF Add, At, IInv, CountInv
    <2>3. count' = count + want[t] /\ held' = [held EXCEPT ![t] = 0]
      BY <1>5, <2>1 DEF Add
    <2>4. units' = Abstract!Least(MaxCount, units + want[t])
      BY <1>0, <1>1, <2>1, <2>2, <2>3 DEF Abstract!Least
    <2>5. Abstract!Release(t)
      BY <2>1, <2>3, <2>4 DEF Abstract!Release
    <2> QED BY <1>1, <2>5 DEF Abstract!Next
  <1>6. ASSUME NEW t \in Thread, Cap(t) PROVE UNCHANGED <<units, held, MaxCount, Initial>>
    <2>1. MaxCount <= count /\ count' = MaxCount /\ held' = held
      BY <1>6 DEF Cap, At, IInv, ThreadInv
    <2> QED BY <1>0, <1>1, <2>1
  <1>7. ASSUME NEW t \in Thread, AcquireStep(t) \/ ReleaseStep(t) \/ DeleteStep(t),
               ~(TryCas(t) /\ count = val[t]), ~Add(t), ~Cap(t)
        PROVE  UNCHANGED <<count, held>>
    BY <1>7 DEF AcquireStep, ReleaseStep, DeleteStep, Acquire, TryRead, TryCas, Lock, Queue,
       Unlock, Sleep, Woken, Release, AddRead, Over, Wake, Delete, WasEmpty, DeleteLock,
       Cleanup, sem
  <1>8. CASE UNCHANGED vars
    BY <1>2, <1>8 DEF vars
  <1> QED BY <1>2, <1>3, <1>4, <1>5, <1>6, <1>7, <1>8 DEF Next

\* semaphore.c implements a counting semaphore: each acquire and each release
\* takes effect at one instant, whatever the threads do in between.
THEOREM Refinement == AllSound => (Spec => ImplementsSemaphore)
  <1> SUFFICES ASSUME AllSound PROVE Spec => ImplementsSemaphore
    OBVIOUS
  <1>1. Init => Abstract!Init
    BY SemaphoreAssumption DEF Init, Abstract!Init, MaxCount, Initial
  <1>2. IInv /\ [Next]_vars =>
          [Abstract!Next]_<<IF count > MaxCount THEN MaxCount ELSE count, held, MaxCount, Initial>>
    BY StepRefines
  <1>3. Spec => []IInv
    BY Invariance
  <1> QED BY <1>1, <1>2, <1>3, PTL DEF Spec, ImplementsSemaphore, Abstract!Spec
=============================================================================
