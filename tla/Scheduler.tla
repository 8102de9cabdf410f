------------------------------ MODULE Scheduler ------------------------------
(***************************************************************************)
(* sched.c: the ready queue shared by all CPUs, the thread states and the  *)
(* context switch, with preemption by the timer interrupt wherever         *)
(* interrupts are on.  One action is one access to state that another CPU, *)
(* or an interrupt handler, can see.  The ready and zombie queues are      *)
(* atomic FIFO queues (module Fifo).  The idle thread of a CPU is named    *)
(* after the CPU.                                                          *)
(***************************************************************************)
EXTENDS Integers, Sequences, FiniteSets

CONSTANTS CPU, Thread, NULL

\* Where a thread's own code can stand, besides "waking a thread" (the thread).
Places == {"run", "sleep", "resched", "kill", "dead"}

ASSUME SchedAssumption ==
  /\ CPU \cap Thread = {} /\ NULL \notin CPU \cup Thread
  /\ Places \cap Thread = {}

VARIABLES
  ready, zombie,   \* the two queues
  waiters,         \* threads someone is going to wake: on a semaphore's queue,
                   \* on the sleep list, or just created
  freed,           \* threads the reaper has freed
  state,           \* thread->state
  saved,           \* thread->ctx holds the thread's registers
  k,               \* where the thread's own code stands
  cur,             \* each CPU's current_thread
  on,              \* whose registers and stack the CPU is using
  pc, thr,         \* the CPU's position in the kernel, and its variable thr
  masked,          \* reschedule_internal was entered with interrupts off
  unmasked         \* some thread code calls thread_wake with interrupts on;
                   \* fixed from the start

queues == <<ready, zombie, waiters, freed>>
threads == <<state, saved, k>>
cpus == <<cur, on, pc, thr, masked>>
system == <<queues, threads, cpus>>
vars == <<system, unmasked>>

All == CPU \cup Thread

States == {"RUNNING", "READY", "SLEEPING", "ZOMBIE"}

Goto(c, to) == pc' = [pc EXCEPT ![c] = to]

\* CPU c runs the code of thread t, interrupts on.
Runs(c, t, where) == pc[c] = "thread" /\ on[c] = t /\ k[t] = where

SetState(t, s) == state' = [state EXCEPT ![t] = s]

Init ==
  /\ ready = <<>> /\ zombie = <<>> /\ waiters = Thread /\ freed = {}
  /\ state = [t \in All |-> IF t \in CPU THEN "RUNNING" ELSE "SLEEPING"]
  /\ saved = [t \in All |-> t \in Thread]
  /\ k = [t \in All |-> "run"]
  /\ cur = [c \in CPU |-> c] /\ on = cur
  /\ pc = [c \in CPU |-> "thread"]
  /\ thr = [c \in CPU |-> NULL]
  /\ masked = [c \in CPU |-> FALSE]
  /\ unmasked \in BOOLEAN

-----------------------------------------------------------------------------
\* create_thread gives a thread that sleeps until its creator wakes it.
CreateThread(c, t) ==
  /\ pc[c] = "thread"
  /\ t \in freed /\ \A d \in CPU : on[d] # t
  /\ freed' = freed \ {t} /\ waiters' = waiters \cup {t}
  /\ SetState(t, "SLEEPING")
  /\ saved' = [saved EXCEPT ![t] = TRUE]
  /\ k' = [k EXCEPT ![t] = "run"]
  /\ UNCHANGED <<ready, zombie, cpus>>

\* semaphore_acquire or sleep_ms has put the thread where a waker finds it,
\* and is about to call thread_sleep.
Publish(c, t) ==
  /\ Runs(c, t, "run") /\ t \in Thread
  /\ waiters' = waiters \cup {t}
  /\ k' = [k EXCEPT ![t] = "sleep"]
  /\ UNCHANGED <<ready, zombie, freed, state, saved, cpus>>

ThreadSleep(c, t) ==
  /\ Runs(c, t, "sleep")
  /\ SetState(t, "SLEEPING")
  /\ k' = [k EXCEPT ![t] = "resched"]
  /\ UNCHANGED <<queues, saved, cpus>>

\* Mutant: the thread keeps its state, so it can be preempted into the ready queue.
ThreadKill_StaysRunning(c, t) ==
  /\ Runs(c, t, "run") /\ t \in Thread
  /\ k' = [k EXCEPT ![t] = "kill"]
  /\ UNCHANGED <<queues, state, saved, cpus>>

\* thread_kill
ThreadKill(c, t) ==
  /\ Runs(c, t, "run") /\ t \in Thread
  /\ SetState(t, "ZOMBIE")
  /\ k' = [k EXCEPT ![t] = "kill"]
  /\ UNCHANGED <<queues, saved, cpus>>

ThreadKillPush(c, t) ==
  /\ Runs(c, t, "kill")
  /\ zombie' = Append(zombie, t)
  /\ k' = [k EXCEPT ![t] = "dead"]
  /\ UNCHANGED <<ready, waiters, freed, state, saved, cpus>>

\* reschedule() called by thread_sleep or thread_kill, or the idle thread's
\* sched_yield().
Reschedule(c, t) ==
  /\ pc[c] = "thread" /\ on[c] = t
  /\ k[t] \in {"resched", "dead"} \/ (t = c /\ k[t] = "run")
  /\ k' = [k EXCEPT ![t] = IF @ = "dead" THEN @ ELSE "run"]
  /\ masked' = [masked EXCEPT ![c] = FALSE]
  /\ Goto(c, "enter")
  /\ UNCHANGED <<queues, state, saved, cur, on, thr>>

\* thread_wake(t): first the queue, then the state.  A semaphore's lock or the
\* interrupt handler keeps interrupts off between the two.
WakePush(c, t) ==
  /\ pc[c] = "thread" /\ t \in waiters
  /\ waiters' = waiters \ {t}
  /\ ready' = Append(ready, t)
  /\ thr' = [thr EXCEPT ![c] = t]
  /\ Goto(c, "wake")
  /\ UNCHANGED <<zombie, freed, threads, cur, on, masked>>

\* Back to thread code, or, in the timer's handler, on to a reschedule.
WakeState(c) ==
  /\ pc[c] = "wake"
  /\ SetState(thr[c], "READY")
  /\ thr' = [thr EXCEPT ![c] = NULL]
  /\ masked' = [masked EXCEPT ![c] = TRUE]
  /\ \E to \in {"thread", "enter"} : Goto(c, to)
  /\ UNCHANGED <<queues, saved, k, cur, on>>

\* The same thread_wake by thread code with interrupts on (AcpiOsExecute).
UnmaskedPush(c, t, u) ==
  /\ unmasked /\ Runs(c, t, "run") /\ t \in Thread /\ u \in waiters
  /\ waiters' = waiters \ {u}
  /\ ready' = Append(ready, u)
  /\ k' = [k EXCEPT ![t] = u]
  /\ UNCHANGED <<zombie, freed, state, saved, cpus>>

UnmaskedState(c, t) ==
  /\ pc[c] = "thread" /\ on[c] = t /\ k[t] \in Thread
  /\ SetState(k[t], "READY")
  /\ k' = [k EXCEPT ![t] = "run"]
  /\ UNCHANGED <<queues, saved, cpus>>

-----------------------------------------------------------------------------
\* A timer interrupt: the time slice is over (sched_timer).
Tick(c) ==
  /\ pc[c] = "thread"
  /\ masked' = [masked EXCEPT ![c] = TRUE]
  /\ Goto(c, "enter")
  /\ UNCHANGED <<queues, threads, cur, on, thr>>

\* A timer interrupt: zombie_reaper frees one more zombie.
Reap(c) ==
  /\ pc[c] = "thread" /\ zombie # <<>>
  /\ freed' = freed \cup {Head(zombie)}
  /\ zombie' = Tail(zombie)
  /\ UNCHANGED <<ready, waiters, threads, cpus>>

-----------------------------------------------------------------------------
\* reschedule_internal.  RUNNING becomes READY ...
Enter(c) ==
  LET preempted == cur[c] # c /\ state[cur[c]] = "RUNNING"
  IN  /\ pc[c] = "enter"
      /\ IF preempted THEN SetState(cur[c], "READY") ELSE UNCHANGED state
      /\ Goto(c, IF preempted THEN "push" ELSE "idle")
      /\ UNCHANGED <<queues, saved, k, cur, on, thr, masked>>

\* Mutant: the state changes and the queue does not.
PushCurrent_Missing(c) ==
  /\ pc[c] = "push"
  /\ Goto(c, "idle")
  /\ UNCHANGED <<queues, threads, cur, on, thr, masked>>

\* Mutant: the preempted thread goes to the front of the queue.
PushCurrent_Front(c) ==
  /\ pc[c] = "push"
  /\ ready' = <<cur[c]>> \o ready
  /\ Goto(c, "idle")
  /\ UNCHANGED <<zombie, waiters, freed, threads, cur, on, thr, masked>>

\* ... and goes to the back of the ready queue.
PushCurrent(c) ==
  /\ pc[c] = "push"
  /\ ready' = Append(ready, cur[c])
  /\ Goto(c, "idle")
  /\ UNCHANGED <<zombie, waiters, freed, threads, cur, on, thr, masked>>

\* Mutant: only an idle CPU looks whether the queue is empty.
IsIdle_IdleOnly(c) ==
  /\ pc[c] = "idle"
  /\ Goto(c, IF ready = <<>> /\ cur[c] = c THEN "thread" ELSE "pop")
  /\ UNCHANGED <<queues, threads, cur, on, thr, masked>>

\* Mutant: the switch to the idle thread forgets set_current_thread.
IsIdle_KeepsCurrent(c) ==
  /\ pc[c] = "idle"
  /\ IF ready # <<>> THEN Goto(c, "pop") /\ UNCHANGED thr
     ELSE IF cur[c] = c THEN Goto(c, "thread") /\ UNCHANGED thr
     ELSE thr' = [thr EXCEPT ![c] = c] /\ Goto(c, "save")
  /\ UNCHANGED <<queues, threads, cur, on, masked>>

\* is_idle: with an empty ready queue the CPU stays in, or goes to, its idle
\* thread.
IsIdle(c) ==
  /\ pc[c] = "idle"
  /\ IF ready # <<>> THEN Goto(c, "pop") /\ UNCHANGED <<state, cur, thr>>
     ELSE IF cur[c] = c THEN Goto(c, "thread") /\ UNCHANGED <<state, cur, thr>>
     ELSE /\ SetState(c, "RUNNING")
          /\ cur' = [cur EXCEPT ![c] = c]
          /\ thr' = [thr EXCEPT ![c] = c]
          /\ Goto(c, "save")
  /\ UNCHANGED <<queues, saved, k, on, masked>>

\* queue_pop, and the assertion that it returned a thread.
PopReady(c) ==
  /\ pc[c] = "pop"
  /\ IF ready = <<>>
       THEN Goto(c, "assert_failed") /\ UNCHANGED <<ready, thr>>
       ELSE /\ thr' = [thr EXCEPT ![c] = Head(ready)]
            /\ ready' = Tail(ready)
            /\ Goto(c, "check")
  /\ UNCHANGED <<zombie, waiters, freed, threads, cur, on, masked>>

\* A thread that is not READY is dropped and reschedule_internal calls itself,
\* with interrupts back on if they were on.
CheckState(c) ==
  /\ pc[c] = "check"
  /\ IF state[thr[c]] = "READY"
       THEN Goto(c, "run") /\ UNCHANGED <<zombie, k, thr>>
       ELSE /\ zombie' = IF state[thr[c]] = "ZOMBIE" THEN Append(zombie, thr[c]) ELSE zombie
            /\ thr' = [thr EXCEPT ![c] = NULL]
            /\ k' = [k EXCEPT ![on[c]] = IF masked[c] \/ @ = "dead" THEN @ ELSE "resched"]
            /\ Goto(c, IF masked[c] THEN "enter" ELSE "thread")
  /\ UNCHANGED <<ready, waiters, freed, state, saved, cur, on, masked>>

RunThread(c) ==
  /\ pc[c] = "run"
  /\ SetState(thr[c], "RUNNING")
  /\ cur' = [cur EXCEPT ![c] = thr[c]]
  /\ Goto(c, IF thr[c] = cur[c] THEN "thread" ELSE "save")
  /\ thr' = [thr EXCEPT ![c] = IF @ = cur[c] THEN NULL ELSE @]
  /\ UNCHANGED <<queues, saved, k, on, masked>>

\* Mutant: get_current_thread() is read after set_current_thread(), so the old
\* thread's registers overwrite the new thread's context.
SaveContext_NewCurrent(c) ==
  /\ pc[c] = "save"
  /\ saved' = [saved EXCEPT ![cur[c]] = FALSE]
  /\ Goto(c, "restore")
  /\ UNCHANGED <<queues, state, k, cur, on, thr, masked>>

\* switch_threads
SaveContext(c) ==
  /\ pc[c] = "save"
  /\ saved' = [saved EXCEPT ![on[c]] = TRUE]
  /\ Goto(c, "restore")
  /\ UNCHANGED <<queues, state, k, cur, on, thr, masked>>

RestoreContext(c) ==
  /\ pc[c] = "restore"
  /\ on' = [on EXCEPT ![c] = thr[c]]
  /\ saved' = [saved EXCEPT ![thr[c]] = FALSE]
  /\ thr' = [thr EXCEPT ![c] = NULL]
  /\ Goto(c, "thread")
  /\ UNCHANGED <<queues, state, k, cur, masked>>

Resched(c) ==
  \/ Enter(c) \/ PushCurrent(c) \/ IsIdle(c) \/ PopReady(c) \/ CheckState(c)
  \/ RunThread(c) \/ SaveContext(c) \/ RestoreContext(c)

ThreadCode(c, t) ==
  \/ Publish(c, t) \/ ThreadSleep(c, t) \/ ThreadKill(c, t) \/ ThreadKillPush(c, t)
  \/ UnmaskedState(c, t)
  \/ \E u \in Thread : UnmaskedPush(c, t, u)

Step(c) ==
  \/ Tick(c) \/ Reap(c) \/ WakeState(c) \/ Resched(c)
  \/ \E t \in All : Reschedule(c, t)
  \/ \E t \in Thread : ThreadCode(c, t) \/ WakePush(c, t) \/ CreateThread(c, t)

Next == UNCHANGED unmasked /\ \E c \in CPU : Step(c)

Spec == Init /\ [][Next]_vars

\* A CPU keeps executing, its timers keep firing, and a thread that runs again
\* and again gets through the kernel call it is in.
Fairness ==
  \A c \in CPU :
    /\ WF_system(Resched(c)) /\ WF_system(WakeState(c))
    /\ SF_system(Tick(c)) /\ SF_system(Reap(c))
    /\ \A t \in Thread : /\ SF_system(ThreadSleep(c, t)) /\ SF_system(ThreadKillPush(c, t))
                         /\ SF_system(Reschedule(c, t))

FairSpec == Spec /\ Fairness

-----------------------------------------------------------------------------
InQueue(q, t) == \E i \in 1..Len(q) : q[i] = t

\* The type invariant: only threads other than idle ever enter the two queues.
TypeOK ==
  /\ ready \in Seq(Thread) /\ zombie \in Seq(Thread)
  /\ waiters \subseteq Thread /\ freed \subseteq Thread
  /\ state \in [All -> States] /\ saved \in [All -> BOOLEAN]
  /\ k \in [All -> Places \cup Thread]
  /\ cur \in [CPU -> All] /\ on \in [CPU -> All] /\ thr \in [CPU -> All \cup {NULL}]
  /\ pc \in [CPU -> {"thread", "wake", "enter", "push", "idle", "pop", "check", "run",
                     "save", "restore", "assert_failed"}]
  /\ masked \in [CPU -> BOOLEAN] /\ unmasked \in BOOLEAN

\* assert(thr != 0) in reschedule_internal: the pop that follows a non-empty
\* is_idle finds a thread.
PopFindsThread == \A c \in CPU : pc[c] # "assert_failed"

\* "Ready queue, onto which processes are added when they are ready to be run":
\* a READY thread is in the ready queue, or a CPU is just putting it there or
\* has just taken it, as long as thread_wake runs with interrupts off.
ReadyIsQueued ==
  ~unmasked => \A t \in Thread : state[t] = "READY" =>
    \/ InQueue(ready, t)
    \/ \E c \in CPU : \/ pc[c] = "push" /\ cur[c] = t
                      \/ pc[c] \in {"check", "run"} /\ thr[c] = t

\* switch_threads loads a context only when the thread's registers are in it.
RestoresSavedContext == \A c \in CPU : pc[c] = "restore" => saved[thr[c]]

\* "if the system has four cores, and four threads in the ready queue, each core
\* will run a thread each": no two CPUs run on the stack of one thread.
OneCpuPerThread == \A c, d \in CPU : c # d => on[c] # on[d]

\* A thread outside the kernel's sleep, wake and kill paths is RUNNING and its
\* CPU's current thread.
RunningIsCurrent ==
  \A c \in CPU : pc[c] = "thread" =>
    cur[c] = on[c] /\ (k[on[c]] = "run" => state[on[c]] = "RUNNING")

\* A sleeping thread can still be woken: a waker will find it, or is just
\* waking it.
SleeperIsWoken ==
  \A t \in Thread \ freed : state[t] = "SLEEPING" =>
    \/ t \in waiters
    \/ \E c \in CPU : pc[c] = "wake" /\ thr[c] = t
    \/ \E u \in Thread : k[u] = t

\* The reaper never frees the thread whose stack a CPU is on.
ReapsNoRunningThread == \A c \in CPU : on[c] \notin freed

\* Neither queue holds a thread that was freed.
NoFreedThreadQueued ==
  \A t \in freed : ~InQueue(ready, t) /\ ~InQueue(zombie, t)

\* A READY thread gets a CPU: the ready queue starves nobody, as long as
\* thread_wake runs with interrupts off.
ReadyRuns ==
  \A t \in Thread : ~unmasked /\ state[t] = "READY" ~> \E c \in CPU : pc[c] = "thread" /\ on[c] = t

\* thread_kill "adds the thread to the zombie queue for future reaping": every
\* killed thread is freed.
ZombieIsReaped == \A t \in Thread : state[t] = "ZOMBIE" ~> t \in freed
=============================================================================
