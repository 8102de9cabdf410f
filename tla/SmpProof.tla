------------------------------ MODULE SmpProof ------------------------------
(***************************************************************************)
(* Proofs about Spinlock, for every set of CPUs and every set of locks:    *)
(* the locks exclude, the interrupt flag comes back, and the lock          *)
(* implements AtomicLock.                                                  *)
(*                                                                         *)
(* Proofs for MultiCpu, for any number of CPUs and of calls: CPUs are      *)
(* started one at a time, start_processor returns when the new CPU is      *)
(* alive, and every function called is run once, in order, where it was    *)
(* meant to run.                                                           *)
(*                                                                         *)
(* Both arguments follow a lock from the CPU that takes it to the one that *)
(* releases it.  BootInv says who owes the release of init_slock, CallInv  *)
(* where the one call in flight is.                                        *)
(***************************************************************************)
EXTENDS Spinlock, MultiCpu, TLAPS

\* Where the running code of c may have interrupts on, and what the local
\* copy of the flag is at each step of acquire and release.
CodeInv(c) ==
  /\ (held[c] # {} \/ at[c] \in {"cas", "store", "unlock", "restore"}) => ~flag[c]
  /\ (at[c] \in {"outside", "disable"} /\ held[c] = {}) => (flag[c] <=> Expected(c))
  /\ at[c] \in {"disable", "cas"} => /\ \A h \in held[c] : h < lk[c]
                                     /\ saved[c] <=> (Expected(c) /\ held[c] = {})
  /\ at[c] \in {"store", "unlock"} => /\ lk[c] \in held[c]
                                      /\ \A h \in held[c] : h <= lk[c]
                                      /\ saved[c] <=> (Expected(c) /\ held[c] = {lk[c]})
  /\ at[c] = "restore" => saved[c] <=> (Expected(c) /\ held[c] = {})

\* The outermost lock of c has recorded the flag of the code outside, every
\* other one has recorded "off".
RecordInv(c) ==
  \A l \in held[c] :
    (at[c] = "store" => l # lk[c]) =>
      wasints[l] <=> (Expected(c) /\ \A h \in held[c] : l <= h)

\* What a handler has suspended: code that ran with interrupts on, either
\* outside the lock or about to switch them off.
FrameInv(c) ==
  handling[c] => /\ base[c]
                 /\ frame[c][1] \in {"outside", "disable"}
                 /\ frame[c][1] = "disable" => frame[c][3]

LockInv ==
  /\ LockTypeOK
  /\ MutualExclusion
  /\ \A c \in Processor : CodeInv(c) /\ RecordInv(c) /\ FrameInv(c)

\* The innermost lock held is also the outermost exactly when it is the only
\* one, and a lock above all the held ones is not among them.
LEMMA Innermost ==
  ASSUME NEW S \in SUBSET Lock, NEW x \in S, \A h \in S : h <= x
  PROVE  (\A h \in S : x <= h) <=> S = {x}
  <1> USE LockAssumption
  <1>1. ASSUME \A h \in S : x <= h PROVE S = {x}
    <2>1. \A h \in S : h = x
      BY <1>1
    <2> QED BY <2>1, Zenon
  <1>2. ASSUME S = {x} PROVE \A h \in S : x <= h
    BY <1>2
  <1> QED BY <1>1, <1>2

LEMMA AboveAll ==
  ASSUME NEW S \in SUBSET Lock, NEW x \in Lock, \A h \in S : h < x
  PROVE  x \notin S /\ \A h \in S \cup {x} : h <= x
  BY LockAssumption

LEMMA LockInitInv == LockInit => LockInv
  <1> SUFFICES ASSUME LockInit PROVE LockInv
    OBVIOUS
  <1> USE DEF LockInit
  <1>1. LockTypeOK
    BY DEF LockTypeOK, Frames, Steps
  <1>2. MutualExclusion
    BY DEF MutualExclusion
  <1>3. ASSUME NEW c \in Processor PROVE CodeInv(c) /\ RecordInv(c) /\ FrameInv(c)
    BY DEF CodeInv, RecordInv, FrameInv, Expected
  <1> QED BY <1>1, <1>2, <1>3 DEF LockInv

LEMMA LockNextInv == LockInv /\ [LockNext]_lockVars => LockInv'
  <1> SUFFICES ASSUME LockInv, [LockNext]_lockVars PROVE LockInv'
    OBVIOUS
  <1>1. ASSUME NEW c \in Processor, NEW l \in Lock, AcquireGet(c, l) PROVE LockInv'
    <2> USE <1>1, LockAssumption DEF LockInv, LockTypeOK, AcquireGet, Advance
    <2>1. LockTypeOK'
      BY DEF Frames, Steps
    <2>2. MutualExclusion'
      BY DEF MutualExclusion, CodeInv
    <2>3. ASSUME NEW d \in Processor PROVE CodeInv(d)'
      <3>1. CASE d = c
        BY <3>1 DEF CodeInv, RecordInv, FrameInv, Expected, MutualExclusion, Steps
      <3>2. CASE d # c
        BY <3>2 DEF CodeInv, Expected
      <3> QED BY <3>1, <3>2
    <2>4. ASSUME NEW d \in Processor PROVE RecordInv(d)'
      BY <2>4 DEF CodeInv, RecordInv, Expected, MutualExclusion, Steps
    <2>5. ASSUME NEW d \in Processor PROVE FrameInv(d)'
      BY <2>5 DEF FrameInv, CodeInv, Expected, Frames, Steps
    <2> QED BY <2>1, <2>2, <2>3, <2>4, <2>5
  <1>2. ASSUME NEW c \in Processor, NEW l \in Lock, ReleaseRead(c, l) PROVE LockInv'
    <2> USE <1>2, LockAssumption DEF LockInv, LockTypeOK, ReleaseRead, Advance
    <2>1. LockTypeOK'
      BY DEF Frames, Steps
    <2>2. MutualExclusion'
      BY DEF MutualExclusion, CodeInv
    <2>3. ASSUME NEW d \in Processor PROVE CodeInv(d)'
      <3>1. CASE d = c
        <4>1. wasints[l] <=> (Expected(c) /\ \A h \in held[c] : l <= h)
          BY DEF RecordInv
        <4>2. (\A h \in held[c] : l <= h) <=> held[c] = {l}
          BY Innermost
        <4> QED BY <3>1, <4>1, <4>2 DEF CodeInv, Expected
      <3>2. CASE d # c
        BY <3>2 DEF CodeInv, Expected
      <3> QED BY <3>1, <3>2
    <2>4. ASSUME NEW d \in Processor PROVE RecordInv(d)'
      BY <2>4 DEF CodeInv, RecordInv, Expected, MutualExclusion, Steps
    <2>5. ASSUME NEW d \in Processor PROVE FrameInv(d)'
      BY <2>5 DEF FrameInv, CodeInv, Expected, Frames, Steps
    <2> QED BY <2>1, <2>2, <2>3, <2>4, <2>5
  <1>3. ASSUME NEW c \in Processor, AcquireDisable(c) PROVE LockInv'
    <2> USE <1>3, LockAssumption DEF LockInv, LockTypeOK, AcquireDisable, Advance
    <2>1. LockTypeOK'
      BY DEF Frames, Steps
    <2>2. MutualExclusion'
      BY DEF MutualExclusion, CodeInv
    <2>3. ASSUME NEW d \in Processor PROVE CodeInv(d)'
      <3>1. CASE d = c
        BY <3>1 DEF CodeInv, RecordInv, FrameInv, Expected, MutualExclusion, Steps
      <3>2. CASE d # c
        BY <3>2 DEF CodeInv, Expected
      <3> QED BY <3>1, <3>2
    <2>4. ASSUME NEW d \in Processor PROVE RecordInv(d)'
      BY <2>4 DEF CodeInv, RecordInv, Expected, MutualExclusion, Steps
    <2>5. ASSUME NEW d \in Processor PROVE FrameInv(d)'
      BY <2>5 DEF FrameInv, CodeInv, Expected, Frames, Steps
    <2> QED BY <2>1, <2>2, <2>3, <2>4, <2>5
  <1>4. ASSUME NEW c \in Processor, AcquireCas(c) PROVE LockInv'
    <2> USE <1>4, LockAssumption DEF LockInv, LockTypeOK, AcquireCas, Advance
    <2>1. LockTypeOK'
      BY DEF Frames, Steps
    <2>2. MutualExclusion'
      <3>1. \A d \in Processor : lk[c] \notin held[d]
        <4>1. lk[c] \in Lock /\ locked[lk[c]] # 1
          OBVIOUS
        <4> QED BY <4>1, MutualExclusion DEF MutualExclusion
      <3>2. \A d \in Processor : held'[d] = IF d = c THEN held[c] \cup {lk[c]} ELSE held[d]
        OBVIOUS
      <3>3. \A k \in Lock : (locked'[k] = 1) <=> (\E d \in Processor : k \in held'[d])
        BY <3>2 DEF MutualExclusion
      <3>4. \A d, e \in Processor : d # e => held'[d] \cap held'[e] = {}
        BY <3>1, <3>2 DEF MutualExclusion
      <3> QED BY <3>3, <3>4 DEF MutualExclusion
    <2>3. ASSUME NEW d \in Processor PROVE CodeInv(d)'
      <3>1. CASE d = c
        <4>1. held'[c] = held[c] \cup {lk[c]} /\ \A h \in held[c] : h < lk[c]
          BY DEF CodeInv
        <4>2. lk[c] \notin held[c] /\ \A h \in held[c] \cup {lk[c]} : h <= lk[c]
          <5> DEFINE S == held[c]
                     x == lk[c]
          <5>1. S \in SUBSET Lock /\ x \in Lock /\ \A h \in S : h < x
            BY <4>1
          <5> HIDE DEF S, x
          <5>2. x \notin S /\ \A h \in S \cup {x} : h <= x
            BY <5>1, AboveAll
          <5> QED BY <5>2 DEF S, x
        <4>3. held'[c] = {lk[c]} <=> held[c] = {}
          BY <4>1, <4>2
        <4>4. lk'[c] = lk[c] /\ saved'[c] = saved[c] /\ Expected(c)' = Expected(c)
          BY DEF Expected
        <4>5. ~flag'[c] /\ (saved[c] <=> (Expected(c) /\ held[c] = {}))
          BY DEF CodeInv
        <4> QED BY <3>1, <4>1, <4>2, <4>3, <4>4, <4>5 DEF CodeInv
      <3>2. CASE d # c
        BY <3>2 DEF CodeInv, Expected
      <3> QED BY <3>1, <3>2
    <2>4. ASSUME NEW d \in Processor PROVE RecordInv(d)'
      BY <2>4 DEF CodeInv, RecordInv, Expected, MutualExclusion, Steps
    <2>5. ASSUME NEW d \in Processor PROVE FrameInv(d)'
      BY <2>5 DEF FrameInv, CodeInv, Expected, Frames, Steps
    <2> QED BY <2>1, <2>2, <2>3, <2>4, <2>5
  <1>5. ASSUME NEW c \in Processor, AcquireStore(c) PROVE LockInv'
    <2> USE <1>5, LockAssumption DEF LockInv, LockTypeOK, AcquireStore, Advance
    <2>1. LockTypeOK'
      BY DEF Frames, Steps
    <2>2. MutualExclusion'
      BY DEF MutualExclusion, CodeInv
    <2>3. ASSUME NEW d \in Processor PROVE CodeInv(d)'
      <3>1. CASE d = c
        BY <3>1 DEF CodeInv, RecordInv, FrameInv, Expected, MutualExclusion, Steps
      <3>2. CASE d # c
        BY <3>2 DEF CodeInv, Expected
      <3> QED BY <3>1, <3>2
    <2>4. ASSUME NEW d \in Processor PROVE RecordInv(d)'
      <3>1. lk[c] \in held[c] /\ \A h \in held[c] : h <= lk[c]
        BY DEF CodeInv
      <3>2. CASE d = c
        <4>1. (\A h \in held[c] : lk[c] <= h) <=> held[c] = {lk[c]}
          <5> DEFINE S == held[c]
                     x == lk[c]
          <5>1. S \in SUBSET Lock /\ x \in S /\ \A h \in S : h <= x
            BY <3>1
          <5> HIDE DEF S, x
          <5>2. (\A h \in S : x <= h) <=> S = {x}
            BY <5>1, Innermost
          <5> QED BY <5>2 DEF S, x
        <4> QED BY <3>1, <3>2, <4>1 DEF CodeInv, RecordInv, Expected
      <3>3. CASE d # c
        <4>1. lk[c] \notin held[d]
          BY <3>1, <3>3 DEF MutualExclusion
        <4> QED BY <3>3, <4>1 DEF RecordInv, Expected
      <3> QED BY <3>2, <3>3
    <2>5. ASSUME NEW d \in Processor PROVE FrameInv(d)'
      BY <2>5 DEF FrameInv, CodeInv, Expected, Frames, Steps
    <2> QED BY <2>1, <2>2, <2>3, <2>4, <2>5
  <1>6. ASSUME NEW c \in Processor, ReleaseCas(c) PROVE LockInv'
    <2> USE <1>6, LockAssumption DEF LockInv, LockTypeOK, ReleaseCas, Advance
    <2>1. LockTypeOK'
      BY DEF Frames, Steps
    <2>2. MutualExclusion'
      BY DEF MutualExclusion, CodeInv
    <2>3. ASSUME NEW d \in Processor PROVE CodeInv(d)'
      <3>1. CASE d = c
        BY <3>1 DEF CodeInv, RecordInv, FrameInv, Expected, MutualExclusion, Steps
      <3>2. CASE d # c
        BY <3>2 DEF CodeInv, Expected
      <3> QED BY <3>1, <3>2
    <2>4. ASSUME NEW d \in Processor PROVE RecordInv(d)'
      BY <2>4 DEF CodeInv, RecordInv, Expected, MutualExclusion, Steps
    <2>5. ASSUME NEW d \in Processor PROVE FrameInv(d)'
      BY <2>5 DEF FrameInv, CodeInv, Expected, Frames, Steps
    <2> QED BY <2>1, <2>2, <2>3, <2>4, <2>5
  <1>7. ASSUME NEW c \in Processor, ReleaseRestore(c) PROVE LockInv'
    <2> USE <1>7, LockAssumption DEF LockInv, LockTypeOK, ReleaseRestore, Advance
    <2>1. LockTypeOK'
      BY DEF Frames, Steps
    <2>2. MutualExclusion'
      BY DEF MutualExclusion, CodeInv
    <2>3. ASSUME NEW d \in Processor PROVE CodeInv(d)'
      <3>1. CASE d = c
        BY <3>1 DEF CodeInv, RecordInv, FrameInv, Expected, MutualExclusion, Steps
      <3>2. CASE d # c
        BY <3>2 DEF CodeInv, Expected
      <3> QED BY <3>1, <3>2
    <2>4. ASSUME NEW d \in Processor PROVE RecordInv(d)'
      BY <2>4 DEF CodeInv, RecordInv, Expected, MutualExclusion, Steps
    <2>5. ASSUME NEW d \in Processor PROVE FrameInv(d)'
      BY <2>5 DEF FrameInv, CodeInv, Expected, Frames, Steps
    <2> QED BY <2>1, <2>2, <2>3, <2>4, <2>5
  <1>8. ASSUME NEW c \in Processor, NEW on \in BOOLEAN, SetInterrupts(c, on) PROVE LockInv'
    <2> USE <1>8, LockAssumption DEF LockInv, LockTypeOK, SetInterrupts, Advance
    <2>1. LockTypeOK'
      BY DEF Frames, Steps
    <2>2. MutualExclusion'
      BY DEF MutualExclusion, CodeInv
    <2>3. ASSUME NEW d \in Processor PROVE CodeInv(d)'
      <3>1. CASE d = c
        BY <3>1 DEF CodeInv, RecordInv, FrameInv, Expected, MutualExclusion, Steps
      <3>2. CASE d # c
        BY <3>2 DEF CodeInv, Expected
      <3> QED BY <3>1, <3>2
    <2>4. ASSUME NEW d \in Processor PROVE RecordInv(d)'
      BY <2>4 DEF CodeInv, RecordInv, Expected, MutualExclusion, Steps
    <2>5. ASSUME NEW d \in Processor PROVE FrameInv(d)'
      BY <2>5 DEF FrameInv, CodeInv, Expected, Frames, Steps
    <2> QED BY <2>1, <2>2, <2>3, <2>4, <2>5
  <1>9. ASSUME NEW c \in Processor, Interrupt(c) PROVE LockInv'
    <2> USE <1>9, LockAssumption DEF LockInv, LockTypeOK, Interrupt, Advance
    <2>1. LockTypeOK'
      BY DEF Frames, Steps
    <2>2. MutualExclusion'
      BY DEF MutualExclusion, CodeInv
    <2>3. ASSUME NEW d \in Processor PROVE CodeInv(d)'
      <3>1. CASE d = c
        BY <3>1 DEF CodeInv, RecordInv, FrameInv, Expected, MutualExclusion, Steps
      <3>2. CASE d # c
        BY <3>2 DEF CodeInv, Expected
      <3> QED BY <3>1, <3>2
    <2>4. ASSUME NEW d \in Processor PROVE RecordInv(d)'
      BY <2>4 DEF CodeInv, RecordInv, Expected, MutualExclusion, Steps
    <2>5. ASSUME NEW d \in Processor PROVE FrameInv(d)'
      BY <2>5 DEF FrameInv, CodeInv, Expected, Frames, Steps
    <2> QED BY <2>1, <2>2, <2>3, <2>4, <2>5
  <1>10. ASSUME NEW c \in Processor, InterruptReturn(c) PROVE LockInv'
    <2> USE <1>10, LockAssumption DEF LockInv, LockTypeOK, InterruptReturn, Advance
    <2>1. LockTypeOK'
      BY DEF Frames, Steps
    <2>2. MutualExclusion'
      BY DEF MutualExclusion, CodeInv
    <2>3. ASSUME NEW d \in Processor PROVE CodeInv(d)'
      <3>1. CASE d = c
        <4>1. /\ held'[c] = {} /\ flag'[c] /\ ~handling'[c]
              /\ at'[c] = frame[c][1] /\ saved'[c] = frame[c][3] /\ base'[c] = base[c]
          OBVIOUS
        <4>2. Expected(c)' /\ at'[c] \in {"outside", "disable"} /\ (at'[c] = "disable" => saved'[c])
          BY <4>1 DEF FrameInv, Expected
        <4> QED BY <3>1, <4>1, <4>2 DEF CodeInv
      <3>2. CASE d # c
        BY <3>2 DEF CodeInv, Expected
      <3> QED BY <3>1, <3>2
    <2>4. ASSUME NEW d \in Processor PROVE RecordInv(d)'
      <3>1. CASE d = c
        <4>1. held'[d] = {}
          BY <3>1
        <4> QED BY <4>1 DEF RecordInv
      <3>2. CASE d # c
        BY <3>2 DEF RecordInv, Expected
      <3> QED BY <3>1, <3>2
    <2>5. ASSUME NEW d \in Processor PROVE FrameInv(d)'
      BY <2>5 DEF FrameInv, CodeInv, Expected, Frames, Steps
    <2> QED BY <2>1, <2>2, <2>3, <2>4, <2>5
  <1>11. CASE UNCHANGED lockVars
    <2> USE <1>11 DEF lockVars, LockInv
    <2>1. LockTypeOK' /\ MutualExclusion'
      BY DEF LockTypeOK, MutualExclusion
    <2>2. ASSUME NEW d \in Processor PROVE CodeInv(d)' /\ RecordInv(d)' /\ FrameInv(d)'
      BY DEF CodeInv, RecordInv, FrameInv, Expected
    <2> QED BY <2>1, <2>2
  <1> QED
    BY <1>1, <1>2, <1>3, <1>4, <1>5, <1>6, <1>7, <1>8, <1>9, <1>10, <1>11 DEF LockNext, LockStep

\* Type correctness of the lock words, the flags and the program counters.
THEOREM TypeCorrect == LockSpec => []LockTypeOK
  BY LockInitInv, LockNextInv, PTL DEF LockSpec, LockInv

\* For any number of CPUs and locks, a lock word is 1 exactly while one CPU
\* is between the two compare-and-swaps of spinlock.c, and never two are.
THEOREM LocksExclude == LockSpec => []MutualExclusion
  BY LockInitInv, LockNextInv, PTL DEF LockSpec, LockInv

\* For any number of CPUs and locks, interrupts stay off while a lock is
\* held, so a handler never spins on a lock of the code it suspended.
THEOREM HandlersNeverSelfDeadlock == LockSpec => []NoSelfDeadlock
  <1>1. LockInv => NoSelfDeadlock
    <2> SUFFICES ASSUME LockInv, NEW c \in Processor
                 PROVE  /\ held[c] # {} => ~flag[c]
                        /\ at[c] = "cas" => lk[c] \notin held[c]
      BY DEF NoSelfDeadlock
    <2>1. held[c] \in SUBSET Lock /\ lk[c] \in Lock /\ CodeInv(c)
      BY DEF LockInv, LockTypeOK
    <2> QED BY <2>1, AboveAll DEF CodeInv
  <1> QED BY <1>1, LockInitInv, LockNextInv, PTL DEF LockSpec

\* For any number of CPUs and any nesting, code that holds no lock has the
\* interrupt flag it chose itself.
THEOREM FlagComesBack == LockSpec => []InterruptsRestored
  <1>1. LockInv => InterruptsRestored
    BY DEF LockInv, CodeInv, InterruptsRestored
  <1> QED BY <1>1, LockInitInv, LockNextInv, PTL DEF LockSpec

\* With one CPU the two panics of spinlock.c are unreachable for any set of
\* locks.
THEOREM UniprocessorNeverPanics == LockSpec => []NoUniprocessorPanic
  <1>1. LockInv => NoUniprocessorPanic
    <2> SUFFICES ASSUME LockInv, NEW c \in Processor, Processor = {c}
                 PROVE  /\ at[c] = "cas" => locked[lk[c]] = 0
                        /\ at[c] = "unlock" => ~flag[c] /\ locked[lk[c]] = 1
      BY DEF NoUniprocessorPanic
    <2>1. held[c] \in SUBSET Lock /\ lk[c] \in Lock /\ CodeInv(c)
      BY DEF LockInv, LockTypeOK
    <2>2. locked[lk[c]] \in {0, 1} /\ (locked[lk[c]] = 1 <=> lk[c] \in held[c])
      BY <2>1 DEF LockInv, LockTypeOK, MutualExclusion
    <2> QED BY <2>1, <2>2, AboveAll DEF CodeInv
  <1> QED BY <1>1, LockInitInv, LockNextInv, PTL DEF LockSpec

\* Every step of spinlock.c is one of the atomic lock, or none.
LEMMA LockRefines == LockInv /\ [LockNext]_lockVars => [Atomic!Next]_Atomic!vars
  <1> SUFFICES ASSUME LockInv, [LockNext]_lockVars PROVE [Atomic!Next]_Atomic!vars
    OBVIOUS
  <1> USE DEF LockInv
  <1>1. ASSUME NEW c \in Processor, AcquireCas(c) PROVE Atomic!Next
    <2>1. lk[c] \in Lock /\ \A h \in held[c] : h < lk[c]
      BY <1>1 DEF AcquireCas, Advance, LockTypeOK, CodeInv
    <2>2. \A d \in Processor : lk[c] \notin held[d]
      <3>1. locked[lk[c]] = 0
        BY <1>1 DEF AcquireCas
      <3> QED  BY <2>1, <3>1 DEF MutualExclusion
    <2>3. Atomic!Acquire(c, lk[c])
      BY <1>1, <2>1, <2>2 DEF AcquireCas, Atomic!Acquire
    <2> QED  BY <2>1, <2>3 DEF Atomic!Next
  <1>2. ASSUME NEW c \in Processor, ReleaseCas(c) PROVE Atomic!Next
    <2>1. lk[c] \in Lock /\ lk[c] \in held[c] /\ \A h \in held[c] : h <= lk[c]
      BY <1>2 DEF ReleaseCas, Advance, LockTypeOK, CodeInv
    <2>2. Atomic!Release(c, lk[c])
      BY <1>2, <2>1 DEF ReleaseCas, Atomic!Release
    <2> QED  BY <2>1, <2>2 DEF Atomic!Next
  <1>3. ASSUME NEW c \in Processor, NEW on \in BOOLEAN, SetInterrupts(c, on) PROVE Atomic!Next
    BY <1>3, Zenon DEF SetInterrupts, Atomic!SetInterrupts, Atomic!Next
  <1>4. ASSUME NEW c \in Processor, Interrupt(c) PROVE Atomic!Next
    <2>1. held[c] = {} /\ base[c]
      <3>1. flag[c] /\ CodeInv(c) /\ at[c] \in Steps
        BY <1>4 DEF Interrupt, LockTypeOK
      <3>2. held[c] = {} /\ at[c] \in {"outside", "disable"}
        BY <3>1 DEF CodeInv, Steps
      <3> QED  BY <3>1, <3>2 DEF CodeInv, Expected
    <2> QED  BY <1>4, <2>1 DEF Interrupt, Atomic!Interrupt, Atomic!Next
  <1>5. ASSUME NEW c \in Processor, InterruptReturn(c) PROVE Atomic!Next
    BY <1>5 DEF InterruptReturn, Atomic!InterruptReturn, Atomic!Next
  <1>6. ASSUME NEW c \in Processor, NEW l \in Lock, AcquireGet(c, l) \/ ReleaseRead(c, l)
        PROVE  UNCHANGED Atomic!vars
    BY <1>6 DEF AcquireGet, ReleaseRead, Atomic!vars
  <1>7. ASSUME NEW c \in Processor, AcquireDisable(c) \/ AcquireStore(c) \/ ReleaseRestore(c)
        PROVE  UNCHANGED Atomic!vars
    BY <1>7 DEF AcquireDisable, AcquireStore, ReleaseRestore, Atomic!vars
  <1>8. CASE UNCHANGED lockVars
    BY <1>8 DEF lockVars, Atomic!vars
  <1> QED  BY <1>1, <1>2, <1>3, <1>4, <1>5, <1>6, <1>7, <1>8 DEF LockNext, LockStep

\* For any number of CPUs and locks: spinlock_acquire, which takes four steps, and
\* spinlock_release, which takes three, implement a lock that is taken and given up
\* at one instant, and that no handler finds held by the code it suspended
\* (spinlock.c:72-108).
THEOREM LockIsAtomic == LockSpec => ImplementsLock
  <1>1. LockInit => Atomic!Init
    BY DEF LockInit, Atomic!Init
  <1> QED  BY <1>1, LockInitInv, LockNextInv, LockRefines, PTL
           DEF LockSpec, ImplementsLock, Atomic!Spec

-----------------------------------------------------------------------------
\* The AP that runs, or is about to run, the start-up code.
Coming(c) == c \in startup \/ pc[c] \in {"cpuinit", "cpualive"}

\* The part of the types that the proofs use.
Types ==
  /\ pc \in [CPU -> {"off", "init2", "sendipi", "wait", "cpuinit", "cpualive",
                     "idle", "run"}]
  /\ isr \in [CPU -> {"none", "ticked", "call", "send", "func", "clear", "release", "ack"}]
  /\ starting \in CPU /\ calling \in CPU
  /\ startup \subseteq AP /\ ipi \subseteq AP /\ owner \subseteq CPU
  /\ crosscpu_func \in Nat
  /\ asked \in Seq(CPU) /\ done \in Seq(Nat \X CPU)

\* While an AP comes up it is the one the BSP waits for, and it owes the BSP the
\* release of the lock; when the lock is free the scheduler has it.
BootInv ==
  /\ \A c \in AP : Coming(c) => c = starting /\ init_slock.locked /\ pc[BSP] = "wait"
  /\ pc[BSP] = "sendipi" => init_slock.locked /\ starting \in AP \ started
  /\ pc[BSP] = "wait" => starting \in AP
  /\ pc[BSP] = "wait" /\ ~init_slock.locked => starting \in alive
  /\ started \subseteq alive
  /\ \A c \in AP : pc[c] = "off" \/ c \in started \/ (pc[BSP] = "wait" /\ c = starting)
  /\ \A c \in startup : pc[c] = "off"

\* The mailbox is created before any other CPU runs, so before any is called.
MailInv ==
  /\ \/ crosscpu_lock.exists
     \/ /\ ~crosscpu_lock.locked
        /\ startup = {} /\ owner \subseteq {BSP}
        /\ \A c \in AP : pc[c] = "off"
        /\ pc[BSP] \notin {"sendipi", "wait"}
        /\ isr[BSP] \notin {"call", "send"}
  /\ isr[BSP] \in {"call", "send"} => calling \in AP

\* The CPU called last, and the handler steps that hold its call.
Last == asked[Len(asked)]
Held == {"func", "clear", "release"}

\* The call in flight has not been run; it has been.
Waiting == Len(done) + 1 = Len(asked) /\ crosscpu_func = Len(asked)
AllRun == Len(done) = Len(asked)

\* The call in flight is in one place only: with the BSP that sends it, on its
\* way, or in the handler of the CPU called; with the lock free there is none.
CallInv ==
  /\ \A i \in DOMAIN done : done[i] = <<i, asked[i]>>
  /\ ~crosscpu_lock.locked =>
       AllRun /\ ipi = {} /\ isr[BSP] # "send" /\ \A c \in AP : isr[c] \notin Held
  /\ isr[BSP] = "send" =>
       Waiting /\ calling = Last /\ ipi = {} /\ \A c \in AP : isr[c] \notin Held
  /\ \A c \in ipi : Waiting /\ c = Last /\ \A d \in AP : isr[d] \notin Held
  /\ \A c \in AP : isr[c] \in Held =>
       c = Last /\ (IF isr[c] = "func" THEN Waiting ELSE AllRun)
  /\ AllRun \/ Waiting

IInv == Types /\ BootInv /\ MailInv /\ CallInv

-----------------------------------------------------------------------------
\* The initial state: nobody comes up, nobody is called.
LEMMA InitInv == Init => IInv
  <1> USE CpuAssumption DEF CPU
  <1> SUFFICES ASSUME Init PROVE IInv
    OBVIOUS
  <1>1. Types
    BY DEF Init, Types, NoLock, create_spinlock
  <1>2. BootInv
    BY DEF Init, BootInv, Coming, create_spinlock, NoLock
  <1>3. MailInv
    BY DEF Init, MailInv, NoLock
  <1>4. CallInv
    BY DEF Init, CallInv, AllRun, Held, NoLock
  <1> QED BY <1>1, <1>2, <1>3, <1>4 DEF IInv

\* Every step keeps the types.
LEMMA StepTypes == IInv /\ [Next]_vars => Types'
  <1> USE CpuAssumption DEF CPU, Types, IInv
  <1> SUFFICES ASSUME IInv, [Next]_vars PROVE Types'
    OBVIOUS
  <1>1. CASE UNCHANGED vars
    BY <1>1 DEF vars, bootVars, callVars
  <1>2. CASE Start
    BY <1>2 DEF Start, multicpu_start, SendIpi, StartDone, InitReturns, Goto, SetInts,
       Taken, Freed, create_spinlock, callVars, bootVars, BootInv
  <1>3. ASSUME NEW c \in AP, ApUp(c) PROVE Types'
    <2>1. CASE sched_cpualive(c)
      <3>1. PICK next \in {"idle", "run"} : Goto(c, "cpualive", next)
        BY <2>1 DEF sched_cpualive
      <3> QED BY <1>3, <2>1, <3>1 DEF sched_cpualive, Goto, mailVars
    <2>2. CASE ApEntry(c) \/ multicpu_cpuinit(c) \/ idle(c)
      BY <1>3, <2>2 DEF ApEntry, multicpu_cpuinit, idle, Goto, callVars, bootVars
    <2> QED BY <1>3, <2>1, <2>2 DEF ApUp
  <1>4. ASSUME NEW c \in CPU, NEW on \in BOOLEAN, Toggle(c, on) PROVE Types'
    BY <1>4 DEF Toggle, Goto, SetInts, callVars, bootVars
  <1>5. ASSUME NEW c \in CPU, install_timer(c) PROVE Types'
    BY <1>5 DEF install_timer, Goto, mailVars, bootVars
  <1>6. CASE Tick \/ Expire \/ TickReturns
    BY <1>6 DEF Tick, Expire, do_th, TickReturns, Handle, SetInts, callVars, bootVars
  <1>7. CASE Call
    <2>1. CASE multicpu_call
      BY <2>1 DEF multicpu_call, Handle, bootVars
    <2>2. CASE lapic_ipi
      BY <2>2 DEF lapic_ipi, Handle, bootVars, MailInv
    <2> QED BY <1>7, <2>1, <2>2 DEF Call
  <1>8. ASSUME NEW c \in AP, CrossCpuInterrupt(c) \/ Answer(c) PROVE Types'
    <2>1. CASE lapic_localint(c)
      <3>1. <<crosscpu_func, c>> \in Nat \X CPU
        BY <1>8
      <3>2. done' \in Seq(Nat \X CPU)
        BY <2>1, <3>1 DEF lapic_localint
      <3>3. isr' \in [CPU -> {"none", "ticked", "call", "send", "func", "clear", "release", "ack"}]
        BY <1>8, <2>1 DEF lapic_localint, Handle
      <3> QED BY <2>1, <3>2, <3>3 DEF lapic_localint, Handle, bootVars
    <2>2. CASE Clear(c)
      BY <1>8, <2>2 DEF Clear, Handle, bootVars
    <2>4. CASE CrossCpuInterrupt(c)
      BY <1>8, <2>4 DEF CrossCpuInterrupt, Handle, bootVars
    <2>3. CASE Release(c) \/ lapic_ack(c)
      BY <1>8, <2>3 DEF Release, lapic_ack, Handle, callVars, bootVars
    <2> QED BY <1>8, <2>1, <2>2, <2>3, <2>4 DEF Answer
  <1> QED BY <1>1, <1>2, <1>3, <1>4, <1>5, <1>6, <1>7, <1>8 DEF Next

\* Every step keeps the duty to release init_slock where it is owed.
LEMMA StepBoot == IInv /\ [Next]_vars => BootInv'
  <1> USE CpuAssumption DEF CPU, Types, IInv, BootInv, Coming
  <1> SUFFICES ASSUME IInv, [Next]_vars PROVE BootInv'
    OBVIOUS
  <1>1. CASE UNCHANGED vars
    BY <1>1 DEF vars, bootVars
  <1>2. ASSUME NEW c \in AP, multicpu_start(c) PROVE BootInv'
    BY <1>2 DEF multicpu_start, Goto, Taken
  <1>3. CASE SendIpi
    BY <1>3 DEF SendIpi, Goto
  <1>4. CASE StartDone
    BY <1>4 DEF StartDone, Goto, Taken, Freed
  <1>5. CASE InitReturns
    BY <1>5 DEF InitReturns, Goto, bootVars
  <1>6. ASSUME NEW c \in AP, ApUp(c) PROVE BootInv'
    <2>1. CASE ApEntry(c)
      BY <1>6, <2>1 DEF ApEntry, Goto
    <2>2. CASE multicpu_cpuinit(c)
      BY <1>6, <2>2 DEF multicpu_cpuinit, Goto, bootVars
    <2>3. CASE sched_cpualive(c)
      <3>1. PICK next \in {"idle", "run"} : Goto(c, "cpualive", next)
        BY <2>3 DEF sched_cpualive
      <3>2. ~init_slock'.locked
        BY <2>3 DEF sched_cpualive, Freed
      <3>3. c = starting /\ pc[BSP] = "wait" /\ starting' = starting
        BY <1>6, <2>3, <3>1 DEF sched_cpualive, Goto
      <3>4. \A d \in AP : ~Coming(d)'
        BY <1>6, <2>3, <3>1, <3>3 DEF sched_cpualive, Goto
      <3>5. pc'[BSP] = "wait"
        BY <1>6, <3>1, <3>3 DEF Goto
      <3>6. alive' = alive \cup {c} /\ started' = started
        BY <2>3 DEF sched_cpualive
      <3>7. \A d \in AP :
              pc'[d] = "off" \/ d \in started' \/ (pc'[BSP] = "wait" /\ d = starting')
        BY <1>6, <3>1, <3>3, <3>5, <3>6 DEF Goto
      <3>8. \A d \in startup' : pc'[d] = "off"
        BY <1>6, <2>3, <3>1 DEF Goto, sched_cpualive
      <3> QED BY <1>6, <3>2, <3>3, <3>4, <3>5, <3>6, <3>7, <3>8
    <2>4. CASE idle(c)
      BY <1>6, <2>4 DEF idle, Goto, bootVars
    <2> QED BY <1>6, <2>1, <2>2, <2>3, <2>4 DEF ApUp
  <1>7. ASSUME NEW c \in CPU, NEW on \in BOOLEAN, Toggle(c, on) PROVE BootInv'
    BY <1>7 DEF Toggle, Goto, bootVars
  <1>8. ASSUME NEW c \in CPU, install_timer(c) PROVE BootInv'
    BY <1>8 DEF install_timer, Goto, bootVars
  <1>9. CASE Tick \/ Expire \/ Call \/ TickReturns
    BY <1>9 DEF Tick, Expire, do_th, Call, multicpu_call, lapic_ipi, TickReturns,
       Handle, bootVars
  <1>10. ASSUME NEW c \in AP, CrossCpuInterrupt(c) \/ Answer(c) PROVE BootInv'
    BY <1>10 DEF CrossCpuInterrupt, Answer, lapic_localint, Clear, Release, lapic_ack,
       Handle, bootVars
  <1> QED BY <1>1, <1>2, <1>3, <1>4, <1>5, <1>6, <1>7, <1>8, <1>9, <1>10 DEF Next, Start

\* The mailbox, once created, stays; before that nothing can call.
LEMMA StepMail == IInv /\ [Next]_vars => MailInv'
  <1> USE CpuAssumption DEF CPU, Types, IInv, MailInv
  <1> SUFFICES ASSUME IInv, [Next]_vars PROVE MailInv'
    OBVIOUS
  <1>1. CASE UNCHANGED vars
    BY <1>1 DEF vars, bootVars, callVars
  <1>2. ASSUME NEW c \in AP, multicpu_start(c) PROVE MailInv'
    BY <1>2 DEF multicpu_start, Goto, create_spinlock, NoLock, callVars
  <1>3. CASE SendIpi \/ StartDone \/ InitReturns
    BY <1>3 DEF SendIpi, StartDone, InitReturns, Goto, callVars, bootVars
  <1>4. ASSUME NEW c \in AP, ApUp(c) PROVE MailInv'
    BY <1>4 DEF ApUp, ApEntry, multicpu_cpuinit, sched_cpualive, idle, Goto,
       callVars, bootVars, mailVars
  <1>5. ASSUME NEW c \in CPU, NEW on \in BOOLEAN, Toggle(c, on) PROVE MailInv'
    BY <1>5 DEF Toggle, Goto, callVars, bootVars
  <1>6. ASSUME NEW c \in CPU, install_timer(c) PROVE MailInv'
    BY <1>6 DEF install_timer, Goto, mailVars, bootVars
  <1>7. CASE Tick \/ Expire \/ TickReturns
    BY <1>7 DEF Tick, Expire, do_th, TickReturns, Handle, callVars, bootVars
  <1>8. CASE Call
    BY <1>8 DEF Call, multicpu_call, lapic_ipi, Handle, Taken, bootVars
  <1>9. ASSUME NEW c \in AP, CrossCpuInterrupt(c) \/ Answer(c) PROVE MailInv'
    <2>1. CASE Release(c)
      BY <1>9, <2>1 DEF Release, Handle, Freed, callVars, bootVars
    <2>2. CASE CrossCpuInterrupt(c) \/ lapic_localint(c) \/ Clear(c) \/ lapic_ack(c)
      BY <1>9, <2>2 DEF CrossCpuInterrupt, lapic_localint, Clear, lapic_ack,
         Handle, callVars, bootVars
    <2> QED BY <1>9, <2>1, <2>2 DEF Answer
  <1> QED BY <1>1, <1>2, <1>3, <1>4, <1>5, <1>6, <1>7, <1>8, <1>9 DEF Next, Start

\* A step that moves no call, and after which the BSP does not send.
LEMMA NoCallMoved ==
  ASSUME IInv, UNCHANGED <<asked, done, crosscpu_func, ipi>>,
         crosscpu_lock'.locked <=> crosscpu_lock.locked,
         \A c \in AP : isr'[c] \in Held <=> isr[c] \in Held,
         \A c \in AP : isr[c] \in Held => isr'[c] = isr[c],
         isr'[BSP] = "send" => isr[BSP] = "send" /\ calling' = calling
  PROVE  CallInv'
  BY DEF IInv, CallInv, AllRun, Waiting, Last

\* Every step keeps the call in flight in one place.
LEMMA StepCall == IInv /\ [Next]_vars => CallInv'
  <1> USE CpuAssumption DEF CPU, Types, IInv
  <1> SUFFICES ASSUME IInv, [Next]_vars PROVE CallInv'
    OBVIOUS
  <1>1. CASE UNCHANGED vars
    BY <1>1, NoCallMoved DEF vars, callVars
  <1>2. ASSUME NEW c \in AP, multicpu_start(c) PROVE CallInv'
    BY <1>2, NoCallMoved DEF multicpu_start, Goto, create_spinlock, callVars, MailInv
  <1>3. CASE SendIpi \/ StartDone \/ InitReturns
    BY <1>3, NoCallMoved DEF SendIpi, StartDone, InitReturns, Goto, callVars
  <1>4. ASSUME NEW c \in AP, ApUp(c) PROVE CallInv'
    BY <1>4, NoCallMoved DEF ApUp, ApEntry, multicpu_cpuinit, sched_cpualive, idle, Goto,
       callVars, mailVars
  <1>5. ASSUME NEW c \in CPU, NEW on \in BOOLEAN, Toggle(c, on) PROVE CallInv'
    BY <1>5, NoCallMoved DEF Toggle, Goto, callVars
  <1>6. ASSUME NEW c \in CPU, install_timer(c) PROVE CallInv'
    BY <1>6, NoCallMoved DEF install_timer, Goto, mailVars
  <1>7. CASE Tick \/ Expire \/ TickReturns
    BY <1>7, NoCallMoved DEF Tick, Expire, do_th, TickReturns, Handle, callVars
  <1>8. CASE multicpu_call
    <2>1. /\ isr[BSP] = "call" /\ isr' = [isr EXCEPT ![BSP] = "send"]
          /\ ~crosscpu_lock.locked /\ crosscpu_lock'.locked
          /\ crosscpu_func' = Len(asked) + 1 /\ asked' = Append(asked, calling)
          /\ UNCHANGED <<calling, ipi, done>>
      BY <1>8 DEF multicpu_call, Handle, Taken
    <2>2. AllRun /\ ipi = {} /\ \A c \in AP : isr[c] \notin Held
      BY <2>1 DEF CallInv
    <2>3. \A c \in AP : isr'[c] = isr[c]
      BY <2>1
    <2>4. Waiting' /\ Last' = calling'
      BY <2>1, <2>2 DEF Waiting, Last, AllRun
    <2>5. \A i \in DOMAIN done' : done'[i] = <<i, asked'[i]>>
      BY <2>1, <2>2 DEF CallInv, AllRun
    <2> QED BY <2>1, <2>2, <2>3, <2>4, <2>5 DEF CallInv
  <1>9. CASE lapic_ipi
    <2>1. /\ isr[BSP] = "send" /\ isr' = [isr EXCEPT ![BSP] = "ticked"]
          /\ ipi' = ipi \cup {calling}
          /\ UNCHANGED <<crosscpu_lock, crosscpu_func, asked, done>>
      BY <1>9 DEF lapic_ipi, Handle
    <2>2. Waiting /\ calling = Last /\ ipi' = {Last} /\ \A c \in AP : isr[c] \notin Held
      BY <2>1 DEF CallInv
    <2>3. \A c \in AP : isr'[c] = isr[c]
      BY <2>1
    <2>4. Waiting' /\ Last' = Last /\ crosscpu_lock.locked
      BY <2>1, <2>2 DEF Waiting, Last, CallInv
    <2> QED BY <2>1, <2>2, <2>3, <2>4 DEF CallInv
  <1>10. ASSUME NEW c \in AP, CrossCpuInterrupt(c) PROVE CallInv'
    <2>1. /\ c \in ipi /\ isr' = [isr EXCEPT ![c] = "func"] /\ ipi' = ipi \ {c}
          /\ UNCHANGED <<crosscpu_lock, crosscpu_func, asked, done>>
      BY <1>10 DEF CrossCpuInterrupt, Handle
    <2>2. Waiting /\ c = Last /\ (\A d \in AP : isr[d] \notin Held) /\ ipi' = {}
      BY <2>1 DEF CallInv
    <2>3. Waiting' /\ Last' = Last /\ crosscpu_lock.locked /\ isr[BSP] # "send"
      BY <2>1, <2>2 DEF Waiting, Last, CallInv
    <2>4. isr'[c] = "func" /\ \A d \in CPU \ {c} : isr'[d] = isr[d]
      BY <2>1
    <2> QED BY <2>1, <2>2, <2>3, <2>4 DEF CallInv
  <1>11. ASSUME NEW c \in AP, lapic_localint(c) PROVE CallInv'
    <2>1. isr[c] = "func" /\ Waiting /\ c = Last /\ crosscpu_func # 0
      <3>1. isr[c] = "func"
        BY <1>11 DEF lapic_localint, Handle
      <3>2. isr[c] \in Held
        BY <3>1 DEF Held
      <3>3. c = Last /\ Waiting
        BY <3>1, <3>2, Zenon DEF CallInv
      <3>4. crosscpu_func # 0
        BY <3>3 DEF Waiting
      <3> QED BY <3>1, <3>3, <3>4
    <2>2. /\ isr' = [isr EXCEPT ![c] = "clear"] /\ done' = Append(done, <<crosscpu_func, c>>)
          /\ UNCHANGED <<crosscpu_lock, crosscpu_func, asked, ipi>>
      BY <1>11, <2>1 DEF lapic_localint, Handle
    <2>3. /\ ipi = {} /\ isr[BSP] # "send" /\ crosscpu_lock.locked
          /\ \A d \in AP \ {c} : isr[d] \notin Held
      BY <2>1 DEF CallInv, Held
    <2>4. isr'[c] = "clear" /\ \A d \in CPU \ {c} : isr'[d] = isr[d]
      BY <2>2
    <2>5. AllRun' /\ Last' = Last
      BY <2>1, <2>2 DEF Waiting, AllRun, Last
    <2>6. \A i \in DOMAIN done' : done'[i] = <<i, asked'[i]>>
      <3> TAKE i \in DOMAIN done'
      <3>1. CASE i = Len(asked)
        BY <2>1, <2>2, <3>1 DEF Waiting, Last
      <3>2. CASE i # Len(asked)
        BY <2>1, <2>2, <3>2 DEF Waiting, CallInv
      <3> QED BY <3>1, <3>2
    <2> QED BY <2>1, <2>2, <2>3, <2>4, <2>5, <2>6 DEF CallInv
  <1>12. ASSUME NEW c \in AP, Clear(c) PROVE CallInv'
    <2>1. /\ isr[c] = "clear" /\ isr' = [isr EXCEPT ![c] = "release"]
          /\ UNCHANGED <<crosscpu_lock, asked, ipi, done>>
      BY <1>12 DEF Clear, Handle
    <2>2. /\ AllRun /\ c = Last /\ ipi = {} /\ isr[BSP] # "send" /\ crosscpu_lock.locked
          /\ \A d \in AP \ {c} : isr[d] \notin Held
      BY <2>1 DEF CallInv, Held
    <2>3. isr'[c] = "release" /\ \A d \in CPU \ {c} : isr'[d] = isr[d]
      BY <2>1
    <2>4. AllRun' /\ Last' = Last
      BY <2>1, <2>2 DEF AllRun, Last
    <2> QED BY <2>1, <2>2, <2>3, <2>4 DEF CallInv
  <1>13. ASSUME NEW c \in AP, Release(c) PROVE CallInv'
    <2>1. /\ isr[c] = "release" /\ isr' = [isr EXCEPT ![c] = "ack"]
          /\ ~crosscpu_lock'.locked
          /\ UNCHANGED <<crosscpu_func, asked, ipi, done>>
      BY <1>13 DEF Release, Handle, Freed, callVars
    <2>2. /\ AllRun /\ ipi = {} /\ isr[BSP] # "send"
          /\ \A d \in AP \ {c} : isr[d] \notin Held
      BY <2>1 DEF CallInv, Held
    <2>3. isr'[c] \notin Held /\ \A d \in CPU \ {c} : isr'[d] = isr[d]
      BY <2>1 DEF Held
    <2>4. AllRun'
      BY <2>1, <2>2 DEF AllRun
    <2> QED BY <2>1, <2>2, <2>3, <2>4 DEF CallInv
  <1>14. ASSUME NEW c \in AP, lapic_ack(c) PROVE CallInv'
    BY <1>14, NoCallMoved DEF lapic_ack, Handle, callVars, Held
  <1> QED BY <1>1, <1>2, <1>3, <1>4, <1>5, <1>6, <1>7, <1>8, <1>9, <1>10, <1>11, <1>12,
             <1>13, <1>14 DEF Next, Start, Call, Answer

-----------------------------------------------------------------------------
\* The strengthening holds in every reachable state.
THEOREM Invariance == Spec => []IInv
  <1>1. IInv /\ [Next]_vars => IInv'
    BY StepTypes, StepBoot, StepMail, StepCall DEF IInv
  <1> QED BY InitInv, <1>1, PTL DEF Spec

\* start_processor returns only when the scheduler has the CPU it started: with
\* any number of CPUs, its second spinlock_acquire waits for sched_cpualive.
THEOREM StartWaitsForScheduler == Spec => []StartedIsAlive
  <1>1. IInv => StartedIsAlive
    BY DEF IInv, BootInv, StartedIsAlive
  <1> QED BY Invariance, <1>1, PTL

\* However many CPUs are called and however often, each function passed to
\* multicpu_call is run once, in order, by the CPU it was meant for.
THEOREM EveryCallOnce == Spec => []CallsRunOnce
  <1>1. IInv => CallsRunOnce
    BY DEF IInv, Types, CallInv, CallsRunOnce, AllRun, Waiting
  <1> QED BY Invariance, <1>1, PTL

INSTANCE FiniteSetTheorems

\* However many CPUs there are, at most one runs the start-up code and uses the
\* stack of ap.16bit.s for it.
THEOREM StartUpIsExclusive == Spec => []StartsOneAtATime
  <1>1. IInv => StartsOneAtATime
    <2> SUFFICES ASSUME IInv PROVE StartsOneAtATime
      OBVIOUS
    <2> DEFINE S == {c \in AP : c \in startup \/ pc[c] \in {"cpuinit", "cpualive"}}
    <2>1. S = {} \/ S = {starting}
      BY DEF IInv, BootInv, Coming
    <2>2. Cardinality({}) = 0 /\ Cardinality({starting}) = 1
      BY FS_EmptySet, FS_Singleton
    <2>3. Cardinality(S) <= 1
      BY <2>1, <2>2
    <2> QED BY <2>3 DEF StartsOneAtATime
  <1> QED BY Invariance, <1>1, PTL
=============================================================================
