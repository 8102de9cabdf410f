------------------------------ MODULE Semaphore ------------------------------
(***************************************************************************)
(* semaphore.c, one action per access to the semaphore.  The spinlock is a *)
(* plain lock (module Spinlock); on one CPU it also keeps interrupts off,  *)
(* so that no other thread runs while it is held.  Of the scheduler this   *)
(* module keeps that thread_wake makes a thread runnable and that          *)
(* thread_sleep stops it, whichever comes last (module Scheduler).         *)
(***************************************************************************)
EXTENDS Integers, Sequences, FiniteSets, FiniteSetsExt

CONSTANTS Thread, NULL,
          Uses          \* the ways the semaphore may be created and used

ASSUME SemaphoreAssumption ==
  /\ NULL \notin Thread /\ IsFiniteSet(Thread)
  /\ \A u \in Uses : /\ u.max \in Nat \ {0} /\ u.initial \in 0..u.max
                    /\ u.smp \in BOOLEAN /\ u.holders \in BOOLEAN

VARIABLES
  count, tqueue, cleanup,   \* struct semaphore
  lock,                     \* the thread that holds s->spinlock
  deleted,                  \* delete_semaphore has freed the spinlock
  asleep,                   \* the threads that do not run
  pc, val, want,            \* each thread's position, its copy of s->count and its count
  held,                     \* the units the thread acquired and did not release
  use                       \* the way of use, fixed from the start

\* The arguments of create_semaphore, whether there is more than one CPU, and
\* whether threads release what they acquired and nothing else.
MaxCount == use.max
Initial == use.initial
Smp == use.smp
HolderOnly == use.holders

vars == <<use, count, tqueue, cleanup, lock, deleted, asleep, pc, val, want, held>>

sem == <<count, tqueue, cleanup, lock, deleted>>

\* Counts are at least one and at most the maximum.
Clamp(n) == IF n = 0 THEN 1 ELSE IF n > MaxCount THEN MaxCount ELSE n

\* Thread t runs and stands at the label.
At(t, label) ==
  /\ pc[t] = label /\ t \notin asleep
  /\ Smp \/ lock \in {NULL, t}

Goto(t, to) == pc' = [pc EXCEPT ![t] = to]

Init ==
  /\ use \in Uses
  /\ count = Initial /\ tqueue = <<>> /\ cleanup = FALSE
  /\ lock = NULL /\ deleted = FALSE /\ asleep = {}
  /\ pc = [t \in Thread |-> "idle"]
  /\ val = [t \in Thread |-> 0] /\ want = val /\ held = val

\* Nobody starts to use a semaphore that is being, or has been, deleted.
Usable ==
  /\ ~deleted
  /\ \A t \in Thread : pc[t] \notin {"delete", "was_empty", "delete_wake",
                                   "delete_unlock", "delete_lock"}

Acquire(t) ==
  /\ At(t, "idle") /\ held[t] = 0 /\ Usable
  /\ \E n \in 0..MaxCount + 1 : want' = [want EXCEPT ![t] = Clamp(n)]
  /\ Goto(t, "try")
  /\ UNCHANGED <<sem, asleep, val, held>>

\* Where a failed semaphore_tryacquire goes on: the first one to the lock, the
\* one under the lock to the pending queue.
Failed(t) == IF lock = t THEN "queue" ELSE "lock"

TryRead(t) ==
  /\ At(t, "try")
  /\ val' = [val EXCEPT ![t] = count]
  /\ Goto(t, IF want[t] > count THEN Failed(t) ELSE "cas")
  /\ UNCHANGED <<sem, asleep, want, held>>

TryCas(t) ==
  /\ At(t, "cas")
  /\ IF count = val[t]
       THEN /\ count' = count - want[t] /\ held' = [held EXCEPT ![t] = want[t]]
            /\ Goto(t, IF lock = t THEN "unlock" ELSE "idle")
       ELSE Goto(t, Failed(t)) /\ UNCHANGED <<count, held>>
  /\ UNCHANGED <<tqueue, cleanup, lock, deleted, asleep, val, want>>

\* spinlock_acquire, of acquire's loop, of release and of delete.
Lock(t, label, to) ==
  /\ At(t, label) /\ lock = NULL /\ ~deleted
  /\ lock' = t /\ Goto(t, to)
  /\ UNCHANGED <<count, tqueue, cleanup, deleted, asleep, val, want, held>>

Queue(t) ==
  /\ At(t, "queue")
  /\ tqueue' = Append(tqueue, t) /\ Goto(t, "unlock_sleep")
  /\ UNCHANGED <<count, cleanup, lock, deleted, asleep, val, want, held>>

Unlock(t, label, to) ==
  /\ At(t, label)
  /\ lock' = NULL /\ Goto(t, to)
  /\ UNCHANGED <<count, tqueue, cleanup, deleted, asleep, val, want, held>>

Sleep(t) ==
  /\ At(t, "sleep")
  /\ asleep' = asleep \cup {t} /\ Goto(t, "woken")
  /\ UNCHANGED <<sem, val, want, held>>

Woken(t) ==
  /\ At(t, "woken")
  /\ Goto(t, IF cleanup THEN "idle" ELSE "lock")
  /\ UNCHANGED <<sem, asleep, val, want, held>>

-----------------------------------------------------------------------------
Release(t) ==
  /\ At(t, "idle") /\ Usable
  /\ \E n \in 0..MaxCount + 1 : /\ HolderOnly => n = held[t] /\ n > 0
                           /\ want' = [want EXCEPT ![t] = Clamp(n)]
  /\ Goto(t, "release")
  /\ UNCHANGED <<sem, asleep, val, held>>

\* s->count += count is a read and a write.
AddRead(t) ==
  /\ At(t, "add_read")
  /\ val' = [val EXCEPT ![t] = count] /\ Goto(t, "add")
  /\ UNCHANGED <<sem, asleep, want, held>>

\* Mutant: one unit is added whatever was asked for.
Add_One(t) ==
  /\ At(t, "add")
  /\ count' = val[t] + 1 /\ held' = [held EXCEPT ![t] = 0]
  /\ Goto(t, "over")
  /\ UNCHANGED <<tqueue, cleanup, lock, deleted, asleep, val, want>>

Add(t) ==
  /\ At(t, "add")
  /\ count' = val[t] + want[t] /\ held' = [held EXCEPT ![t] = 0]
  /\ Goto(t, "over")
  /\ UNCHANGED <<tqueue, cleanup, lock, deleted, asleep, val, want>>

Over(t) ==
  /\ At(t, "over")
  /\ Goto(t, IF count > MaxCount THEN "cap" ELSE "wake")
  /\ UNCHANGED <<sem, asleep, val, want, held>>

\* Mutant: one unit too many stays.
Cap_OffByOne(t) ==
  /\ At(t, "cap")
  /\ count' = MaxCount + 1 /\ Goto(t, "wake")
  /\ UNCHANGED <<tqueue, cleanup, lock, deleted, asleep, val, want, held>>

Cap(t) ==
  /\ At(t, "cap")
  /\ count' = MaxCount /\ Goto(t, "wake")
  /\ UNCHANGED <<tqueue, cleanup, lock, deleted, asleep, val, want, held>>

\* Mutant: one waiter is woken per release.
Wake_One(t, label, done) ==
  /\ At(t, label)
  /\ IF tqueue = <<>> THEN UNCHANGED <<tqueue, asleep>>
     ELSE tqueue' = Tail(tqueue) /\ asleep' = asleep \ {Head(tqueue)}
  /\ Goto(t, done)
  /\ UNCHANGED <<count, cleanup, lock, deleted, val, want, held>>

\* One turn of the loop that wakes every queued thread.
Wake(t, label, done) ==
  /\ At(t, label)
  /\ IF tqueue = <<>> THEN Goto(t, done) /\ UNCHANGED <<tqueue, asleep>>
     ELSE /\ tqueue' = Tail(tqueue) /\ asleep' = asleep \ {Head(tqueue)}
          /\ UNCHANGED pc
  /\ UNCHANGED <<count, cleanup, lock, deleted, val, want, held>>

-----------------------------------------------------------------------------
\* delete_semaphore, called when every other thread is idle or blocked in
\* semaphore_acquire; was_empty is kept in want.
Delete(t) ==
  /\ At(t, "idle") /\ Usable
  /\ \A u \in Thread \ {t} : pc[u] = "idle" \/ u \in asleep
  /\ Goto(t, "delete")
  /\ UNCHANGED <<sem, asleep, val, want, held>>

WasEmpty(t) ==
  /\ At(t, "was_empty")
  /\ want' = [want EXCEPT ![t] = IF tqueue = <<>> THEN 1 ELSE 0]
  /\ Goto(t, "delete_wake")
  /\ UNCHANGED <<sem, asleep, val, held>>

DeleteLock(t) ==
  /\ At(t, "delete_lock")
  /\ deleted' = TRUE
  /\ Goto(t, IF want[t] = 1 THEN "idle" ELSE "cleanup")
  /\ UNCHANGED <<count, tqueue, cleanup, lock, asleep, val, want, held>>

Cleanup(t) ==
  /\ At(t, "cleanup")
  /\ cleanup' = TRUE /\ Goto(t, "idle")
  /\ UNCHANGED <<count, tqueue, lock, deleted, asleep, val, want, held>>

\* create_semaphore, once nobody uses the old one.
Create ==
  /\ deleted /\ \A t \in Thread : pc[t] = "idle"
  /\ deleted' = FALSE /\ cleanup' = FALSE /\ count' = Initial
  /\ held' = [t \in Thread |-> 0]
  /\ UNCHANGED <<tqueue, lock, asleep, pc, val, want>>

AcquireStep(t) ==
  \/ Acquire(t) \/ TryRead(t) \/ TryCas(t) \/ Lock(t, "lock", "try")
  \/ Queue(t) \/ Unlock(t, "unlock", "idle") \/ Unlock(t, "unlock_sleep", "sleep")
  \/ Sleep(t) \/ Woken(t)

ReleaseStep(t) ==
  \/ Release(t) \/ Lock(t, "release", "add_read") \/ AddRead(t) \/ Add(t) \/ Over(t)
  \/ Cap(t) \/ Wake(t, "wake", "unlock")

DeleteStep(t) ==
  \/ Delete(t) \/ Lock(t, "delete", "was_empty") \/ WasEmpty(t)
  \/ Wake(t, "delete_wake", "delete_unlock")
  \/ Unlock(t, "delete_unlock", "delete_lock") \/ DeleteLock(t) \/ Cleanup(t)

Next ==
  /\ UNCHANGED use
  /\ Create \/ \E t \in Thread : AcquireStep(t) \/ ReleaseStep(t) \/ DeleteStep(t)

Spec == Init /\ [][Next]_vars

-----------------------------------------------------------------------------
\* The count that a release between its two stores stands for.
Abstract ==
  INSTANCE CountingSemaphore WITH
    max <- MaxCount, initial <- Initial, count <- IF count > MaxCount THEN MaxCount ELSE count

\* Acquire and release take effect at one instant each (semaphore.c:139, 163):
\* for any use on one CPU, and for a mutex that its holder releases on several.
ImplementsSemaphore == Abstract!Spec

\* When threads give back what they took, no unit is lost or made up, between
\* the operations and in the middle of them.
UnitsConserved ==
  HolderOnly => count + MapThenSumSet(LAMBDA t : held[t], Thread) = Initial

\* A thread waits in the pending queue, with the lock free, only while the
\* units it wants are not there: whoever adds units wakes all (semaphore.c:170).
WaiterLacksUnits ==
  lock = NULL => \A i \in 1..Len(tqueue) : count < want[tqueue[i]]

\* "Wake up threads, they will each check to see if they can now complete their
\* acquire": a thread that sleeps is in the queue that a release wakes.
SleeperIsQueued ==
  \A t \in asleep : \E i \in 1..Len(tqueue) : tqueue[i] = t

\* "Destroys the given semaphore, unblocking all blocked threads": no blocked
\* thread goes back to the lock of a deleted semaphore.
DeleteUnblocks == deleted => \A t \in Thread : pc[t] # "lock"
=============================================================================
