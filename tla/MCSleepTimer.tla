---------------------------- MODULE MCSleepTimer ----------------------------
(***************************************************************************)
(* Instances of SleepTimer, and with it Timers, for TLC.  A millisecond is *)
(* one unit of time and a second four of them; the PIT ticks every two, a  *)
(* LAPIC timer every one.  Word = 5 stands for 2^32, so that the product   *)
(* in sleep_ms wraps from 5 milliseconds instead of 4295.                  *)
(***************************************************************************)
EXTENDS SleepTimer, TLC

CONSTANTS pit, lapic

MCHw == [t \in {pit, lapic} |->
           IF t = pit THEN [feat |-> {"periodic"}, res |-> 4, tick |-> 2]
           ELSE [feat |-> {"periodic", "percpu"}, res |-> 4, tick |-> 1]]

\* A per-CPU periodic handler, as sched_timer is, and a one-shot, which the timers
\* emulate; the handler of sleep.c is the global periodic one.
MCRequests == {[ticks |-> 2, res |-> 4, feat |-> {"periodic", "percpu"}],
               [ticks |-> 3, res |-> 4, feat |-> {"oneshot"}]}

\* Three handlers, a thread and a handler, or two threads.
MCMixes == {<<0, 3>>, <<1, 1>>, <<2, 0>>}

Symmetry ==
  Permutations(Node) \cup Permutations(Handler \ {SleepHandler}) \cup Permutations(CPU)
  \cup Permutations(Thread)
=============================================================================
