------------------------------ MODULE Spinlock ------------------------------
(***************************************************************************)
(* spinlock.c: a compare-and-swap lock that switches interrupts off on the *)
(* acquiring CPU and puts the interrupt flag back on release.              *)
(*                                                                         *)
(* A lock is a number: its place in the order in which the kernel nests    *)
(* its locks (a semaphore's lock is taken before the heap's), so the       *)
(* innermost lock a CPU holds is the largest.  The CPU runs either thread  *)
(* code or the interrupt handler that has suspended it.                    *)
(***************************************************************************)
EXTENDS Integers

CONSTANTS Processor, Lock

ASSUME LockAssumption == Lock \subseteq Nat

VARIABLES
  locked,     \* sl->locked, 0 or 1
  wasints,    \* sl->wasints
  flag,       \* the interrupt flag of each CPU
  at,         \* where the CPU is in spinlock_acquire or spinlock_release
  lk,         \* the argument s of that call
  saved,      \* its local variable wasints
  held,       \* the locks the code running on the CPU holds
  handling,   \* the CPU is running an interrupt handler
  frame,      \* pc, lk and saved of the code the handler suspended
  base        \* the flag thread code has chosen outside any lock

lockVars == <<locked, wasints, flag, at, lk, saved, held, handling, frame, base>>

Steps == {"outside", "disable", "cas", "store", "unlock", "restore"}

Frames == Steps \X Lock \X BOOLEAN

\* The flag the running code has to find again when it holds no lock.
Expected(c) == base[c] /\ ~handling[c]

Advance(c, from, to) ==
  /\ at[c] = from
  /\ at' = [at EXCEPT ![c] = to]

\* create_spinlock zeroes the structure.
LockInit ==
  /\ locked = [l \in Lock |-> 0]
  /\ wasints = [l \in Lock |-> FALSE]
  /\ flag \in [Processor -> BOOLEAN]
  /\ base = flag
  /\ at = [c \in Processor |-> "outside"]
  /\ lk \in [Processor -> Lock]
  /\ saved = [c \in Processor |-> FALSE]
  /\ held = [c \in Processor |-> {}]
  /\ handling = [c \in Processor |-> FALSE]
  /\ frame = [c \in Processor |-> <<"outside", lk[c], FALSE>>]

\* spinlock_acquire(l): wasints = interrupts_get().
AcquireGet(c, l) ==
  /\ Advance(c, "outside", "disable")
  /\ \A h \in held[c] : h < l
  /\ lk' = [lk EXCEPT ![c] = l]
  /\ saved' = [saved EXCEPT ![c] = flag[c]]
  /\ UNCHANGED <<locked, wasints, flag, held, handling, frame, base>>

AcquireDisable_Skipped(c) ==
  /\ Advance(c, "disable", "cas")
  /\ UNCHANGED <<locked, wasints, flag, lk, saved, held, handling, frame, base>>

AcquireDisable(c) ==
  /\ Advance(c, "disable", "cas")
  /\ flag' = [flag EXCEPT ![c] = FALSE]
  /\ UNCHANGED <<locked, wasints, lk, saved, held, handling, frame, base>>

AcquireCas_Blind(c) ==
  /\ Advance(c, "cas", "store")
  /\ locked' = [locked EXCEPT ![lk[c]] = @ + 1]
  /\ held' = [held EXCEPT ![c] = @ \cup {lk[c]}]
  /\ UNCHANGED <<wasints, flag, lk, saved, handling, frame, base>>

\* The compare and swap that succeeds; one that fails changes nothing.
AcquireCas(c) ==
  /\ Advance(c, "cas", "store")
  /\ locked[lk[c]] = 0
  /\ locked' = [locked EXCEPT ![lk[c]] = 1]
  /\ held' = [held EXCEPT ![c] = @ \cup {lk[c]}]
  /\ UNCHANGED <<wasints, flag, lk, saved, handling, frame, base>>

AcquireStore(c) ==
  /\ Advance(c, "store", "outside")
  /\ wasints' = [wasints EXCEPT ![lk[c]] = saved[c]]
  /\ UNCHANGED <<locked, flag, lk, saved, held, handling, frame, base>>

\* spinlock_release(l) of the innermost lock: the saved flag is read while
\* the lock is still held.
ReleaseRead(c, l) ==
  /\ Advance(c, "outside", "unlock")
  /\ l \in held[c] /\ \A h \in held[c] : h <= l
  /\ lk' = [lk EXCEPT ![c] = l]
  /\ saved' = [saved EXCEPT ![c] = wasints[l]]
  /\ UNCHANGED <<locked, wasints, flag, held, handling, frame, base>>

ReleaseCas(c) ==
  /\ Advance(c, "unlock", "restore")
  /\ locked[lk[c]] = 1
  /\ locked' = [locked EXCEPT ![lk[c]] = 0]
  /\ held' = [held EXCEPT ![c] = @ \ {lk[c]}]
  /\ UNCHANGED <<wasints, flag, lk, saved, handling, frame, base>>

ReleaseRestore_AlwaysOn(c) ==
  /\ Advance(c, "restore", "outside")
  /\ flag' = [flag EXCEPT ![c] = TRUE]
  /\ UNCHANGED <<locked, wasints, lk, saved, held, handling, frame, base>>

ReleaseRestore(c) ==
  /\ Advance(c, "restore", "outside")
  /\ flag' = [flag EXCEPT ![c] = saved[c]]
  /\ UNCHANGED <<locked, wasints, lk, saved, held, handling, frame, base>>

\* interrupts_enable and interrupts_disable called by code that holds no lock.
SetInterrupts(c, on) ==
  /\ at[c] = "outside" /\ held[c] = {} /\ ~handling[c]
  /\ flag' = [flag EXCEPT ![c] = on]
  /\ base' = [base EXCEPT ![c] = on]
  /\ UNCHANGED <<locked, wasints, at, lk, saved, held, handling, frame>>

\* The CPU takes an interrupt: the flag goes off, the handler starts.
Interrupt(c) ==
  /\ flag[c] /\ ~handling[c]
  /\ handling' = [handling EXCEPT ![c] = TRUE]
  /\ flag' = [flag EXCEPT ![c] = FALSE]
  /\ frame' = [frame EXCEPT ![c] = <<at[c], lk[c], saved[c]>>]
  /\ at' = [at EXCEPT ![c] = "outside"]
  /\ UNCHANGED <<locked, wasints, lk, saved, held, base>>

\* The handler returns; the flag comes back with the saved flags register.
InterruptReturn(c) ==
  /\ handling[c] /\ at[c] = "outside" /\ held[c] = {}
  /\ handling' = [handling EXCEPT ![c] = FALSE]
  /\ flag' = [flag EXCEPT ![c] = TRUE]
  /\ at' = [at EXCEPT ![c] = frame[c][1]]
  /\ lk' = [lk EXCEPT ![c] = frame[c][2]]
  /\ saved' = [saved EXCEPT ![c] = frame[c][3]]
  /\ UNCHANGED <<locked, wasints, held, frame, base>>

LockStep(c) ==
  \/ \E l \in Lock : AcquireGet(c, l) \/ ReleaseRead(c, l)
  \/ AcquireDisable(c) \/ AcquireCas(c) \/ AcquireStore(c)
  \/ ReleaseCas(c) \/ ReleaseRestore(c)
  \/ \E on \in BOOLEAN : SetInterrupts(c, on)
  \/ Interrupt(c) \/ InterruptReturn(c)

LockNext == \E c \in Processor : LockStep(c)

LockSpec == LockInit /\ [][LockNext]_lockVars

-----------------------------------------------------------------------------
LockTypeOK ==
  /\ locked \in [Lock -> {0, 1}]
  /\ wasints \in [Lock -> BOOLEAN]
  /\ flag \in [Processor -> BOOLEAN]
  /\ at \in [Processor -> Steps]
  /\ lk \in [Processor -> Lock]
  /\ saved \in [Processor -> BOOLEAN]
  /\ held \in [Processor -> SUBSET Lock]
  /\ handling \in [Processor -> BOOLEAN]
  /\ frame \in [Processor -> Frames]
  /\ base \in [Processor -> BOOLEAN]

\* Mutual exclusion: the atomic word says "locked" exactly while one CPU is
\* between the two compare-and-swaps, and never two CPUs are.
MutualExclusion ==
  /\ \A l \in Lock : (locked[l] = 1) <=> (\E c \in Processor : l \in held[c])
  /\ \A c, d \in Processor : c # d => held[c] \cap held[d] = {}

\* No interrupt handler ever runs on a CPU whose thread code is inside a
\* critical section, so a handler that spins waits for another CPU, never
\* for the code it suspended (spinlock.c:79 against spinlock.c:104).
NoSelfDeadlock ==
  \A c \in Processor :
    /\ held[c] # {} => ~flag[c]
    /\ at[c] = "cas" => lk[c] \notin held[c]

\* A balanced sequence of nested acquires and releases leaves the interrupt
\* flag of the CPU as it was before the first acquire, whatever handlers ran
\* in between.
InterruptsRestored ==
  \A c \in Processor : at[c] = "outside" /\ held[c] = {} => (flag[c] <=> Expected(c))

\* On a uniprocessor neither panic is reachable: a compare-and-swap never
\* finds the lock taken ("deadlock", spinlock.c:80), and no lock is released
\* with interrupts on (spinlock.c:96).
NoUniprocessorPanic ==
  \A c \in Processor :
    Processor = {c} =>
      /\ at[c] = "cas" => locked[lk[c]] = 0
      /\ at[c] = "unlock" => ~flag[c] /\ locked[lk[c]] = 1

Atomic == INSTANCE AtomicLock WITH CPU <- Processor, enabled <- base, handler <- handling

\* The lock implements an atomic one: an acquire takes effect at its compare and
\* swap and a release at its own, in the order of nesting, and an interrupt is
\* taken only by a CPU that holds no lock and has interrupts enabled, also between
\* the other statements of an acquire or a release (spinlock.c:72-108).
ImplementsLock == Atomic!Spec
=============================================================================
