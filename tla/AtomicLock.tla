----------------------------- MODULE AtomicLock -----------------------------
(***************************************************************************)
(* What spinlock.h promises, and what the other modules take a lock for:   *)
(* an acquire waits for the lock and then takes it at one instant, a       *)
(* release gives it up at one instant, and no interrupt handler runs on a  *)
(* CPU while it holds a lock.                                              *)
(***************************************************************************)
EXTENDS Integers

CONSTANTS CPU, Lock

VARIABLES held,      \* the locks that each CPU holds
          enabled,   \* interrupts are enabled outside any lock
          handler    \* the CPU runs an interrupt handler

vars == <<held, enabled, handler>>

Init ==
  /\ held = [c \in CPU |-> {}]
  /\ enabled \in [CPU -> BOOLEAN]
  /\ handler = [c \in CPU |-> FALSE]

\* Locks are nested in their order.
Acquire(c, l) ==
  /\ \A d \in CPU : l \notin held[d]
  /\ \A h \in held[c] : h < l
  /\ held' = [held EXCEPT ![c] = @ \cup {l}]
  /\ UNCHANGED <<enabled, handler>>

Release(c, l) ==
  /\ l \in held[c] /\ \A h \in held[c] : h <= l
  /\ held' = [held EXCEPT ![c] = @ \ {l}]
  /\ UNCHANGED <<enabled, handler>>

SetInterrupts(c, on) ==
  /\ held[c] = {} /\ ~handler[c]
  /\ enabled' = [enabled EXCEPT ![c] = on]
  /\ UNCHANGED <<held, handler>>

Interrupt(c) ==
  /\ held[c] = {} /\ enabled[c] /\ ~handler[c]
  /\ handler' = [handler EXCEPT ![c] = TRUE]
  /\ UNCHANGED <<held, enabled>>

InterruptReturn(c) ==
  /\ held[c] = {} /\ handler[c]
  /\ handler' = [handler EXCEPT ![c] = FALSE]
  /\ UNCHANGED <<held, enabled>>

Next == \E c \in CPU :
  \/ \E l \in Lock : Acquire(c, l) \/ Release(c, l)
  \/ \E on \in BOOLEAN : SetInterrupts(c, on)
  \/ Interrupt(c) \/ InterruptReturn(c)

Spec == Init /\ [][Next]_vars
=============================================================================
