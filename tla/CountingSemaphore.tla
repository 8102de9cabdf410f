-------------------------- MODULE CountingSemaphore --------------------------
(***************************************************************************)
(* What a semaphore promises: acquire takes its units at one instant at    *)
(* which they are there, release gives its units back at one instant, up   *)
(* to the maximum.                                                         *)
(***************************************************************************)
EXTENDS Integers

CONSTANT Thread

VARIABLES count, held,
          max, initial   \* the arguments the semaphore was created with

Init == max \in Nat \ {0} /\ initial \in 0..max /\ count = initial /\ held = [t \in Thread |-> 0]

\* No more than the maximum is ever taken or given at once.
Least(a, b) == IF a < b THEN a ELSE b

Acquire(t) ==
  \E n \in 1..max : /\ n <= count /\ count' = count - n
                    /\ held' = [held EXCEPT ![t] = n]

Release(t) ==
  \E n \in 1..max : /\ count' = Least(max, count + n)
                    /\ held' = [held EXCEPT ![t] = 0]

\* delete_semaphore followed by create_semaphore.
Renew == count' = initial /\ held' = [t \in Thread |-> 0]

Next ==
  /\ UNCHANGED <<max, initial>>
  /\ Renew \/ \E t \in Thread : Acquire(t) \/ Release(t)

Spec == Init /\ [][Next]_<<count, held, max, initial>>
=============================================================================
