--------------------------- MODULE SchedulerProof ---------------------------
(***************************************************************************)
(* One CPU and any set of threads: what reschedule_internal relies on      *)
(* holds whatever the timer interrupt preempts. The inductive invariant    *)
(* IInv has these parts. SwitchInv is about the CPU's own variables and    *)
(* the saved contexts. StateInv ties a thread's state to the place of its  *)
(* code, and lets a thread be woken once for each time that it can be      *)
(* found by a waker. CopyInv bounds how often the ready queue holds a      *)
(* thread: a preempted thread that is woken before it gets to thread_sleep *)
(* is there twice, but a thread that runs on is not in it, so that one     *)
(* that is killed is in neither queue. ZombieInv is about the killed       *)
(* threads. QueueInv relates the states and the ready queue, and needs     *)
(* every thread_wake to run with interrupts off.                           *)
(***************************************************************************)
EXTENDS Scheduler, TLAPS

SwitchInv(c) ==
  /\ pc[c] = "push" => cur[c] \in Thread
  /\ pc[c] \in {"check", "run", "wake"} => thr[c] \in Thread
  /\ pc[c] \in {"save", "restore"} => thr[c] \in All \ {on[c]} /\ cur[c] = thr[c]
  /\ pc[c] \notin {"save", "restore"} => cur[c] = on[c]
  /\ pc[c] = "pop" => ready # <<>>
  /\ pc[c] # "assert_failed"
  /\ \A t \in All : t # on[c] => saved[t]
  /\ pc[c] = "restore" => saved[on[c]]

\* Someone is going to wake t: it can be found, or a thread_wake has put it in
\* the ready queue and has not set its state yet.
Pending(c, t) ==
  t \in waiters \/ (pc[c] = "wake" /\ thr[c] = t) \/ \E u \in Thread : k[u] = t

\* The states of the threads that run, switch or wait.  Each is woken at most once
\* for each time that it goes to sleep.
StateInv(c) ==
  /\ state[c] = "RUNNING" /\ k[c] \in {"run", "resched"}
  /\ pc[c] = "push" => state[cur[c]] = "READY"
  /\ pc[c] = "run" => state[thr[c]] = "READY"
  /\ pc[c] \in {"save", "restore"} => state[thr[c]] = "RUNNING"
  /\ pc[c] \in {"thread", "wake"} /\ k[on[c]] \in {"run"} \cup Thread => state[on[c]] = "RUNNING"
  /\ pc[c] \in {"enter", "push", "idle", "pop", "check"} /\ ~masked[c] => k[on[c]] \in {"run", "resched", "dead"}
  /\ \A t \in Thread : k[t] \in {"kill", "dead"} <=> state[t] = "ZOMBIE"
  /\ \A t \in Thread : Pending(c, t) =>
       k[t] = "sleep" \/ (k[t] \in {"run", "resched"} /\ state[t] = "SLEEPING")
  /\ pc[c] = "wake" => thr[c] \notin waiters
  /\ \A t \in Thread : k[t] \in Thread =>
       /\ k[t] \notin waiters /\ ~(pc[c] = "wake" /\ thr[c] = k[t])
       /\ \A u \in Thread : k[u] = k[t] => u = t

\* A queue holds t not at all, at most once, at most twice.
None(q, t) == \A i \in 1..Len(q) : q[i] # t
Once(q, t) == \A i, j \in 1..Len(q) : q[i] = t /\ q[j] = t => i = j
Twice(q, t) ==
  \A i, j, l \in 1..Len(q) : q[i] = t /\ q[j] = t /\ q[l] = t => i = j \/ i = l \/ j = l

\* The ready queue, and the thread that was just popped from it.
Held(c) == IF pc[c] \in {"check", "run"} THEN <<thr[c]>> \o ready ELSE ready

\* Why t may be in the ready queue: it was preempted or made READY, and not by a
\* wakeup that came before its own code got to thread_sleep; or it was woken since
\* it could be found.
Preempted(c, t) ==
  /\ state[t] = "READY" /\ ~(pc[c] = "push" /\ cur[c] = t)
  /\ ~(pc[c] \in {"thread", "wake"} /\ cur[c] = t /\ k[t] = "sleep")
Woken(t) == t \notin waiters /\ (k[t] = "sleep" \/ state[t] = "SLEEPING")

\* The ready queue holds a thread at most once for each of the two reasons.
CopyInv(c) ==
  \A t \in Thread :
    /\ Preempted(c, t) \/ Woken(t) \/ None(Held(c), t)
    /\ (Preempted(c, t) /\ Woken(t)) \/ Once(Held(c), t)
    /\ Twice(Held(c), t)

\* The zombie queue holds dead threads, each once and not freed yet.
ZombieInv ==
  /\ \A t \in Thread : Once(zombie, t)
  /\ \A t \in Thread : t \in freed \/ ~None(zombie, t) => k[t] = "dead"
  /\ \A t \in freed : None(zombie, t)

\* No thread code is between the two steps of an unmasked thread_wake.
PlacesInv == \A t \in All : k[t] \in Places

\* A READY thread is queued, or in the hands of reschedule_internal.
QueueInv(c) ==
  /\ pc[c] = "wake" => InQueue(ready, thr[c])
  /\ \A t \in Thread : state[t] = "READY" =>
       \/ InQueue(ready, t)
       \/ pc[c] = "push" /\ cur[c] = t
       \/ pc[c] \in {"check", "run"} /\ thr[c] = t

\* queue_push adds exactly the pushed thread to what a queue holds.
LEMMA AppendHas ==
  ASSUME NEW S, NEW q \in Seq(S), NEW x \in S, NEW t
  PROVE  InQueue(Append(q, x), t) <=> InQueue(q, t) \/ t = x
<1>1. ASSUME InQueue(q, t) PROVE InQueue(Append(q, x), t)
  <2>1. PICK i \in 1..Len(q) : q[i] = t
    BY <1>1 DEF InQueue
  <2>2. i \in 1..Len(Append(q, x)) /\ Append(q, x)[i] = t
    BY <2>1
  <2> QED  BY <2>2 DEF InQueue
<1>2. ASSUME t = x PROVE InQueue(Append(q, x), t)
  <2>1. Len(q) + 1 \in 1..Len(Append(q, x)) /\ Append(q, x)[Len(q) + 1] = t
    BY <1>2
  <2> QED  BY <2>1 DEF InQueue
<1>3. ASSUME InQueue(Append(q, x), t), t # x PROVE InQueue(q, t)
  <2>1. PICK i \in 1..Len(Append(q, x)) : Append(q, x)[i] = t
    BY <1>3 DEF InQueue
  <2>2. i \in 1..Len(q) /\ q[i] = t
    BY <1>3, <2>1
  <2> QED  BY <2>2 DEF InQueue
<1> QED  BY <1>1, <1>2, <1>3

\* queue_pop takes away nothing but the thread it returns.
LEMMA TailHas ==
  ASSUME NEW S, NEW q \in Seq(S), q # <<>>, NEW t, InQueue(q, t)
  PROVE  t = Head(q) \/ InQueue(Tail(q), t)
<1>1. PICK i \in 1..Len(q) : q[i] = t
  BY DEF InQueue
<1>2. CASE i = 1
  BY <1>1, <1>2
<1>3. CASE i # 1
  <2>1. i - 1 \in 1..Len(Tail(q)) /\ Tail(q)[i - 1] = t
    BY <1>1, <1>3
  <2> QED  BY <2>1 DEF InQueue
<1> QED  BY <1>2, <1>3

\* What a push does to the number of times that a queue holds a thread.
LEMMA AppendCopies ==
  ASSUME NEW S, NEW q \in Seq(S), NEW x \in S
  PROVE  /\ None(q, x) => Once(Append(q, x), x)
         /\ Once(q, x) => Twice(Append(q, x), x)
         /\ ~None(Append(q, x), x)
         /\ \A t : t # x => /\ None(q, t) <=> None(Append(q, x), t)
                            /\ Once(q, t) => Once(Append(q, x), t)
                            /\ Twice(q, t) => Twice(Append(q, x), t)
<1> DEFINE p == Append(q, x)
           n == Len(q)
<1>1. n \in Nat /\ Len(p) = n + 1 /\ p[n + 1] = x /\ \A i \in 1..n : p[i] = q[i]
  OBVIOUS
<1>2. \A t, i : t # x => (i \in 1..Len(p) /\ p[i] = t <=> i \in 1..n /\ q[i] = t)
  BY <1>1
<1>3. \A i : i \in 1..Len(p) => i = n + 1 \/ (i \in 1..n /\ p[i] = q[i])
  BY <1>1
<1>4. n + 1 \in 1..Len(p)
  BY <1>1
<1> HIDE DEF p, n
<1>5. None(q, x) => Once(p, x)
  BY <1>3 DEF None, Once, n
<1>6. Once(q, x) => Twice(p, x)
  BY <1>3 DEF Once, Twice, n
<1>7. ~None(p, x)
  BY <1>1, <1>4 DEF None
<1>8. ASSUME NEW t, t # x
      PROVE  /\ None(q, t) <=> None(p, t)
             /\ Once(q, t) => Once(p, t)
             /\ Twice(q, t) => Twice(p, t)
  <2>1. None(q, t) <=> None(p, t)
    BY <1>2, <1>8 DEF None, n
  <2>2. Once(q, t) => Once(p, t)
    BY <1>2, <1>8 DEF Once, n
  <2>3. Twice(q, t) => Twice(p, t)
    <3> SUFFICES ASSUME Twice(q, t), NEW i \in 1..Len(p), NEW j \in 1..Len(p), NEW l \in 1..Len(p),
                        p[i] = t, p[j] = t, p[l] = t
                 PROVE  i = j \/ i = l \/ j = l
      BY DEF Twice
    <3>1. i \in 1..n /\ j \in 1..n /\ l \in 1..n /\ q[i] = t /\ q[j] = t /\ q[l] = t
      BY <1>2, <1>8
    <3> QED  BY <3>1 DEF Twice, n
  <2> QED  BY <2>1, <2>2, <2>3
<1> QED  BY <1>5, <1>6, <1>7, <1>8 DEF p

\* What a pop does to it.
LEMMA TailCopies ==
  ASSUME NEW S, NEW q \in Seq(S), q # <<>>
  PROVE  /\ ~None(q, Head(q))
         /\ Once(q, Head(q)) => None(Tail(q), Head(q))
         /\ Twice(q, Head(q)) => Once(Tail(q), Head(q))
         /\ \A t : /\ None(q, t) => None(Tail(q), t)
                   /\ Once(q, t) => Once(Tail(q), t)
                   /\ Twice(q, t) => Twice(Tail(q), t)
<1> DEFINE p == Tail(q)
           n == Len(p)
           x == Head(q)
<1>1. n \in Nat /\ Len(q) = n + 1 /\ q[1] = x /\ \A i \in 1..n : p[i] = q[i + 1]
  OBVIOUS
<1>2. /\ 1 \in 1..Len(q)
      /\ \A i \in 1..n : i + 1 \in 1..Len(q) /\ i + 1 # 1 /\ p[i] = q[i + 1]
      /\ \A i, j \in 1..n : i + 1 = j + 1 => i = j
  BY <1>1
<1> HIDE DEF p, n, x
<1>3. ~None(q, x)
  BY <1>1, <1>2 DEF None
<1>4. Once(q, x) => None(p, x)
  BY <1>1, <1>2 DEF None, Once, n
<1>5. Twice(q, x) => Once(p, x)
  <2> SUFFICES ASSUME Twice(q, x), NEW i \in 1..n, NEW j \in 1..n, p[i] = x, p[j] = x PROVE i = j
    BY DEF Once, n
  <2>1. i + 1 \in 1..Len(q) /\ j + 1 \in 1..Len(q) /\ q[i + 1] = x /\ q[j + 1] = x
    BY <1>2
  <2>2. 1 = i + 1 \/ 1 = j + 1 \/ i + 1 = j + 1
    BY <1>1, <1>2, <2>1 DEF Twice
  <2> QED  BY <1>2, <2>2
<1>6. ASSUME NEW t
      PROVE  /\ None(q, t) => None(p, t)
             /\ Once(q, t) => Once(p, t)
             /\ Twice(q, t) => Twice(p, t)
  <2>1. None(q, t) => None(p, t)
    BY <1>2 DEF None, n
  <2>2. Once(q, t) => Once(p, t)
    BY <1>2 DEF Once, n
  <2>3. Twice(q, t) => Twice(p, t)
    <3> SUFFICES ASSUME Twice(q, t), NEW i \in 1..n, NEW j \in 1..n, NEW l \in 1..n,
                        p[i] = t, p[j] = t, p[l] = t
                 PROVE  i = j \/ i = l \/ j = l
      BY DEF Twice, n
    <3>1. /\ i + 1 \in 1..Len(q) /\ j + 1 \in 1..Len(q) /\ l + 1 \in 1..Len(q)
          /\ q[i + 1] = t /\ q[j + 1] = t /\ q[l + 1] = t
      BY <1>2
    <3>2. i + 1 = j + 1 \/ i + 1 = l + 1 \/ j + 1 = l + 1
      BY <3>1 DEF Twice
    <3> QED  BY <1>2, <3>2
  <2> QED  BY <2>1, <2>2, <2>3
<1> QED  BY <1>3, <1>4, <1>5, <1>6 DEF p, x

\* Every step keeps the types.
LEMMA TypeNext ==
  ASSUME NEW c, CPU = {c}, TypeOK, SwitchInv(c), [Next]_vars
  PROVE  TypeOK'
<1>0. unmasked' = unmasked
  BY DEF Next, vars
<1> USE <1>0, SchedAssumption DEF TypeOK, SwitchInv, All, States, Places, Goto, SetState, Runs, queues, threads, cpus, system
<1>1. CASE UNCHANGED vars
  BY <1>1 DEF vars
<1>2. CASE Tick(c)
  BY <1>2 DEF Tick
<1>3. CASE Reap(c)
  BY <1>3 DEF Reap
<1>4. CASE WakeState(c)
  BY <1>4 DEF WakeState
<1>5. CASE Enter(c)
  BY <1>5 DEF Enter
<1>6. CASE PushCurrent(c)
  BY <1>6 DEF PushCurrent
<1>7. CASE IsIdle(c)
  BY <1>7 DEF IsIdle
<1>8. CASE PopReady(c)
  <2>1. ready # <<>>
    BY <1>8 DEF PopReady
  <2>2. Head(ready) \in Thread /\ Tail(ready) \in Seq(Thread)
    BY <2>1
  <2>3. thr' = [thr EXCEPT ![c] = Head(ready)] /\ ready' = Tail(ready)
    BY <1>8, <2>1 DEF PopReady
  <2>4. thr' \in [CPU -> All \cup {NULL}] /\ ready' \in Seq(Thread)
    BY <2>2, <2>3
  <2> QED  BY <1>8, <2>4 DEF PopReady
<1>9. CASE CheckState(c)
  <2>0. Append(zombie, thr[c]) \in Seq(Thread)
    BY <1>9 DEF CheckState
  <2>1. zombie' \in Seq(Thread)
    <3>1. zombie' = zombie \/ zombie' = Append(zombie, thr[c])
      BY <1>9 DEF CheckState
    <3> QED  BY <2>0, <3>1
  <2>2. k' \in [All -> Places \cup Thread]
    BY <1>9 DEF CheckState
  <2>3. pc' \in [CPU -> {"run", "enter", "thread"}] \/ pc' = [pc EXCEPT ![c] = pc'[c]]
    BY <1>9 DEF CheckState
  <2> QED  BY <1>9, <2>1, <2>2, <2>3 DEF CheckState
<1>10. CASE RunThread(c)
  BY <1>10 DEF RunThread
<1>11. CASE SaveContext(c)
  BY <1>11 DEF SaveContext
<1>12. CASE RestoreContext(c)
  BY <1>12 DEF RestoreContext
<1>13. ASSUME NEW t \in All, Reschedule(c, t) PROVE TypeOK'
  BY <1>13 DEF Reschedule
<1>14. ASSUME NEW t \in Thread, Publish(c, t) PROVE TypeOK'
  BY <1>14 DEF Publish
<1>15. ASSUME NEW t \in Thread, ThreadSleep(c, t) PROVE TypeOK'
  BY <1>15 DEF ThreadSleep
<1>16. ASSUME NEW t \in Thread, ThreadKill(c, t) PROVE TypeOK'
  BY <1>16 DEF ThreadKill
<1>17. ASSUME NEW t \in Thread, ThreadKillPush(c, t) PROVE TypeOK'
  BY <1>17 DEF ThreadKillPush
<1>18. ASSUME NEW t \in Thread, UnmaskedState(c, t) PROVE TypeOK'
  BY <1>18 DEF UnmaskedState
<1>19. ASSUME NEW t \in Thread, WakePush(c, t) PROVE TypeOK'
  BY <1>19 DEF WakePush
<1>20. ASSUME NEW t \in Thread, CreateThread(c, t) PROVE TypeOK'
  BY <1>20 DEF CreateThread
<1>21. ASSUME NEW t \in Thread, NEW u \in Thread, UnmaskedPush(c, t, u) PROVE TypeOK'
  BY <1>21 DEF UnmaskedPush
<1> HIDE DEF TypeOK, SwitchInv, All, States, Places, Goto, SetState, Runs, queues, threads, cpus, system
<1> QED
  BY <1>1, <1>2, <1>3, <1>4, <1>5, <1>6, <1>7, <1>8, <1>9, <1>10, <1>11, <1>12, <1>13, <1>14, <1>15, <1>16, <1>17, <1>18, <1>19, <1>20, <1>21 DEF Next, Step, Resched, ThreadCode

\* Every step keeps the CPU's variables and the saved contexts in order.
LEMMA SwitchNext ==
  ASSUME NEW c, CPU = {c}, TypeOK, SwitchInv(c), [Next]_vars
  PROVE  SwitchInv(c)'
<1>0. unmasked' = unmasked
  BY DEF Next, vars
<1> USE <1>0, SchedAssumption DEF TypeOK, SwitchInv, All, States, Places, Goto, SetState, Runs, queues, threads, cpus, system
<1>1. CASE UNCHANGED vars
  BY <1>1 DEF vars
<1>2. CASE Tick(c)
  BY <1>2 DEF Tick
<1>3. CASE Reap(c)
  BY <1>3 DEF Reap
<1>4. CASE WakeState(c)
  BY <1>4 DEF WakeState
<1>5. CASE Enter(c)
  BY <1>5 DEF Enter
<1>6. CASE PushCurrent(c)
  BY <1>6 DEF PushCurrent
<1>7. CASE IsIdle(c)
  BY <1>7 DEF IsIdle
<1>8. CASE PopReady(c)
  BY <1>8 DEF PopReady
<1>9. CASE CheckState(c)
  BY <1>9 DEF CheckState
<1>10. CASE RunThread(c)
  BY <1>10 DEF RunThread
<1>11. CASE SaveContext(c)
  BY <1>11 DEF SaveContext
<1>12. CASE RestoreContext(c)
  BY <1>12 DEF RestoreContext
<1>13. ASSUME NEW t \in All, Reschedule(c, t) PROVE SwitchInv(c)'
  BY <1>13 DEF Reschedule
<1>14. ASSUME NEW t \in Thread, Publish(c, t) PROVE SwitchInv(c)'
  BY <1>14 DEF Publish
<1>15. ASSUME NEW t \in Thread, ThreadSleep(c, t) PROVE SwitchInv(c)'
  BY <1>15 DEF ThreadSleep
<1>16. ASSUME NEW t \in Thread, ThreadKill(c, t) PROVE SwitchInv(c)'
  BY <1>16 DEF ThreadKill
<1>17. ASSUME NEW t \in Thread, ThreadKillPush(c, t) PROVE SwitchInv(c)'
  BY <1>17 DEF ThreadKillPush
<1>18. ASSUME NEW t \in Thread, UnmaskedState(c, t) PROVE SwitchInv(c)'
  BY <1>18 DEF UnmaskedState
<1>19. ASSUME NEW t \in Thread, WakePush(c, t) PROVE SwitchInv(c)'
  BY <1>19 DEF WakePush
<1>20. ASSUME NEW t \in Thread, CreateThread(c, t) PROVE SwitchInv(c)'
  BY <1>20 DEF CreateThread
<1>21. ASSUME NEW t \in Thread, NEW u \in Thread, UnmaskedPush(c, t, u) PROVE SwitchInv(c)'
  BY <1>21 DEF UnmaskedPush
<1> HIDE DEF TypeOK, SwitchInv, All, States, Places, Goto, SetState, Runs, queues, threads, cpus, system
<1> QED
  BY <1>1, <1>2, <1>3, <1>4, <1>5, <1>6, <1>7, <1>8, <1>9, <1>10, <1>11, <1>12, <1>13, <1>14, <1>15, <1>16, <1>17, <1>18, <1>19, <1>20, <1>21 DEF Next, Step, Resched, ThreadCode

\* Every step keeps StateInv.
LEMMA StateNext ==
  ASSUME NEW c, CPU = {c}, TypeOK, SwitchInv(c), StateInv(c), ZombieInv, [Next]_vars
  PROVE  StateInv(c)'
<1>0. unmasked' = unmasked
  BY DEF Next, vars
<1> USE <1>0, SchedAssumption DEF TypeOK, SwitchInv, StateInv, Pending, All, States, Places, Goto, SetState, Runs, queues, threads, cpus, system
<1>1. CASE UNCHANGED vars
  BY <1>1 DEF vars
<1>2. CASE Tick(c)
  BY <1>2 DEF Tick
<1>3. CASE Reap(c)
  BY <1>3 DEF Reap
<1>4. CASE WakeState(c)
  <2>1. PICK u : u = thr[c] /\ u \in Thread /\ state' = [state EXCEPT ![u] = "READY"]
    BY <1>4 DEF WakeState
  <2>2. Pending(c, u) /\ u # c /\ k[u] \notin {"kill", "dead"} \cup Thread /\ state[u] # "ZOMBIE"
    BY <1>4, <2>1 DEF WakeState
  <2>3. /\ k[on[c]] \in {"run"} \cup Thread => u # on[c]
        /\ \A t \in Thread : Pending(c, t)' => Pending(c, t) /\ t # u
    BY <1>4, <2>1, <2>2 DEF WakeState
  <2>4. \A t \in Thread : k[t] \in {"kill", "dead"} <=> state'[t] = "ZOMBIE"
    BY <2>1, <2>2
  <2>5. \A t \in Thread : Pending(c, t)' =>
          k[t] = "sleep" \/ (k[t] \in {"run", "resched"} /\ state'[t] = "SLEEPING")
    BY <2>1, <2>3
  <2>6. /\ k' = k /\ waiters' = waiters /\ on' = on /\ cur' = cur
        /\ pc'[c] \in {"thread", "enter"} /\ (pc'[c] = "enter" => masked'[c])
    BY <1>4 DEF WakeState
  <2> QED  BY <1>4, <2>1, <2>2, <2>3, <2>4, <2>5, <2>6 DEF WakeState
<1>5. CASE Enter(c)
  BY <1>5 DEF Enter
<1>6. CASE PushCurrent(c)
  BY <1>6 DEF PushCurrent
<1>7. CASE IsIdle(c)
  BY <1>7 DEF IsIdle
<1>8. CASE PopReady(c)
  BY <1>8 DEF PopReady
<1>9. CASE CheckState(c)
  <2>1. CASE state[thr[c]] = "READY"
    BY <1>9, <2>1 DEF CheckState
  <2>2. CASE state[thr[c]] # "READY" /\ masked[c]
    BY <1>9, <2>2 DEF CheckState
  <2>3. CASE state[thr[c]] # "READY" /\ ~masked[c]
    <3>1. k[on[c]] \in {"run", "resched", "dead"} /\ on[c] \in All
      BY <1>9, <2>3 DEF CheckState
    <3>2. /\ k' = [k EXCEPT ![on[c]] = IF @ = "dead" THEN @ ELSE "resched"]
          /\ pc'[c] = "thread" /\ state' = state /\ waiters' = waiters /\ on' = on
      BY <1>9, <2>3 DEF CheckState
    <3>3. \A t \in All : k'[t] = k[t] \/ (t = on[c] /\ k[t] \in {"run", "resched"} /\ k'[t] = "resched")
      BY <3>1, <3>2
    <3>4. \A t \in Thread : Pending(c, t)' => Pending(c, t)
      BY <3>2, <3>3
    <3> QED  BY <3>1, <3>2, <3>3, <3>4
  <2> QED  BY <2>1, <2>2, <2>3
<1>10. CASE RunThread(c)
  BY <1>10 DEF RunThread
<1>11. CASE SaveContext(c)
  BY <1>11 DEF SaveContext
<1>12. CASE RestoreContext(c)
  BY <1>12 DEF RestoreContext
<1>13. ASSUME NEW t \in All, Reschedule(c, t) PROVE StateInv(c)'
  BY <1>13 DEF Reschedule
<1>14. ASSUME NEW t \in Thread, Publish(c, t) PROVE StateInv(c)'
  BY <1>14 DEF Publish
<1>15. ASSUME NEW t \in Thread, ThreadSleep(c, t) PROVE StateInv(c)'
  BY <1>15 DEF ThreadSleep
<1>16. ASSUME NEW t \in Thread, ThreadKill(c, t) PROVE StateInv(c)'
  BY <1>16 DEF ThreadKill
<1>17. ASSUME NEW t \in Thread, ThreadKillPush(c, t) PROVE StateInv(c)'
  BY <1>17 DEF ThreadKillPush
<1>18. ASSUME NEW t \in Thread, UnmaskedState(c, t) PROVE StateInv(c)'
  BY <1>18 DEF UnmaskedState
<1>19. ASSUME NEW t \in Thread, WakePush(c, t) PROVE StateInv(c)'
  BY <1>19 DEF WakePush
<1>20. ASSUME NEW t \in Thread, CreateThread(c, t) PROVE StateInv(c)'
  <2>1. k[t] = "dead"
    BY <1>20 DEF CreateThread, ZombieInv
  <2> QED  BY <1>20, <2>1 DEF CreateThread
<1>21. ASSUME NEW t \in Thread, NEW u \in Thread, UnmaskedPush(c, t, u) PROVE StateInv(c)'
  BY <1>21 DEF UnmaskedPush
<1> HIDE DEF TypeOK, SwitchInv, StateInv, Pending, All, States, Places, Goto, SetState, Runs, queues, threads, cpus, system
<1> QED
  BY <1>1, <1>2, <1>3, <1>4, <1>5, <1>6, <1>7, <1>8, <1>9, <1>10, <1>11, <1>12, <1>13, <1>14, <1>15, <1>16, <1>17, <1>18, <1>19, <1>20, <1>21 DEF Next, Step, Resched, ThreadCode

\* A step that leaves the queue alone, or pushes or drops a thread, and the reasons
\* for the threads to be in it.
KeepsReasons(c, t) ==
  /\ Preempted(c, t) \/ Woken(t) => Preempted(c, t)' \/ Woken(t)'
  /\ Preempted(c, t) /\ Woken(t) => Preempted(c, t)' /\ Woken(t)'

LEMMA CopyKept ==
  ASSUME NEW c, CopyInv(c), Held(c)' = Held(c), \A t \in Thread : KeepsReasons(c, t)
  PROVE  CopyInv(c)'
  BY DEF CopyInv, KeepsReasons

LEMMA CopyPushed ==
  ASSUME NEW c, CopyInv(c), Held(c) \in Seq(Thread), NEW x \in Thread,
         Held(c)' = Append(Held(c), x), \A t \in Thread : t # x => KeepsReasons(c, t),
         ~(Preempted(c, x) /\ Woken(x)), Preempted(c, x)' \/ Woken(x)',
         Preempted(c, x) \/ Woken(x) => Preempted(c, x)' /\ Woken(x)'
  PROVE  CopyInv(c)'
<1>1. PICK q, p : q = Held(c) /\ p = Held(c)'
  OBVIOUS
<1>2. ASSUME NEW t \in Thread
      PROVE  /\ Preempted(c, t)' \/ Woken(t)' \/ None(p, t)
             /\ (Preempted(c, t)' /\ Woken(t)') \/ Once(p, t)
             /\ Twice(p, t)
  <2>1. /\ Preempted(c, t) \/ Woken(t) \/ None(q, t)
        /\ (Preempted(c, t) /\ Woken(t)) \/ Once(q, t)
        /\ Twice(q, t)
    BY <1>1 DEF CopyInv
  <2>2. /\ None(q, x) => Once(p, x)
        /\ Once(q, x) => Twice(p, x)
        /\ t # x => /\ None(q, t) <=> None(p, t)
                    /\ Once(q, t) => Once(p, t)
                    /\ Twice(q, t) => Twice(p, t)
    BY <1>1, AppendCopies
  <2>3. t # x => KeepsReasons(c, t)
    OBVIOUS
  <2> QED  BY <2>1, <2>2, <2>3 DEF KeepsReasons
<1>3. \A t : None(Held(c), t)' <=> None(p, t)
  BY <1>1 DEF None
<1>4. \A t : Once(Held(c), t)' <=> Once(p, t)
  BY <1>1 DEF Once
<1>5. \A t : Twice(Held(c), t)' <=> Twice(p, t)
  BY <1>1 DEF Twice
<1> QED  BY <1>2, <1>3, <1>4, <1>5 DEF CopyInv

LEMMA CopyDropped ==
  ASSUME NEW c, CopyInv(c), Held(c) \in Seq(Thread), Held(c) # <<>>, NEW x \in Thread,
         x = Head(Held(c)), Held(c)' = Tail(Held(c)),
         \A t \in Thread : t # x => KeepsReasons(c, t),
         Preempted(c, x) /\ Woken(x) => Preempted(c, x)' \/ Woken(x)'
  PROVE  CopyInv(c)'
<1>1. PICK q, p : q = Held(c) /\ p = Held(c)'
  OBVIOUS
<1>2. ASSUME NEW t \in Thread
      PROVE  /\ Preempted(c, t)' \/ Woken(t)' \/ None(p, t)
             /\ (Preempted(c, t)' /\ Woken(t)') \/ Once(p, t)
             /\ Twice(p, t)
  <2>1. /\ Preempted(c, t) \/ Woken(t) \/ None(q, t)
        /\ (Preempted(c, t) /\ Woken(t)) \/ Once(q, t)
        /\ Twice(q, t)
    BY <1>1 DEF CopyInv
  <2>2. /\ Once(q, x) => None(p, x)
        /\ Twice(q, x) => Once(p, x)
        /\ None(q, t) => None(p, t)
        /\ Once(q, t) => Once(p, t)
        /\ Twice(q, t) => Twice(p, t)
    BY <1>1, TailCopies
  <2>3. None(p, x) => Once(p, x)
    BY DEF None, Once
  <2>4. t # x => KeepsReasons(c, t)
    OBVIOUS
  <2> QED  BY <2>1, <2>2, <2>3, <2>4 DEF KeepsReasons
<1>3. \A t : None(Held(c), t)' <=> None(p, t)
  BY <1>1 DEF None
<1>4. \A t : Once(Held(c), t)' <=> Once(p, t)
  BY <1>1 DEF Once
<1>5. \A t : Twice(Held(c), t)' <=> Twice(p, t)
  BY <1>1 DEF Twice
<1> QED  BY <1>2, <1>3, <1>4, <1>5 DEF CopyInv

\* The popped thread is the first of those held.
LEMMA HeldFacts ==
  ASSUME NEW c, CPU = {c}, TypeOK, SwitchInv(c)
  PROVE  /\ Held(c) \in Seq(Thread)
         /\ pc[c] \in {"check", "run"} => /\ Held(c) # <<>> /\ Head(Held(c)) = thr[c]
                                          /\ Tail(Held(c)) = ready
         /\ pc[c] \notin {"check", "run"} => Held(c) = ready
<1>1. ready \in Seq(Thread)
  BY DEF TypeOK
<1>2. CASE pc[c] \in {"check", "run"}
  <2>1. thr[c] \in Thread /\ Held(c) = <<thr[c]>> \o ready
    BY <1>2 DEF SwitchInv, Held
  <2> QED  BY <1>1, <1>2, <2>1
<1>3. CASE pc[c] \notin {"check", "run"}
  BY <1>1, <1>3 DEF Held
<1> QED  BY <1>2, <1>3

\* Every step keeps CopyInv.
LEMMA CopyNext ==
  ASSUME NEW c, CPU = {c}, TypeOK, SwitchInv(c), StateInv(c), ZombieInv, CopyInv(c), [Next]_vars
  PROVE  CopyInv(c)'
<1>0. unmasked' = unmasked
  BY DEF Next, vars
<1>a. /\ Held(c) \in Seq(Thread)
      /\ pc[c] \in {"check", "run"} => /\ Held(c) # <<>> /\ Head(Held(c)) = thr[c]
                                       /\ Tail(Held(c)) = ready
      /\ pc[c] \notin {"check", "run"} => Held(c) = ready
      /\ pc'[c] \notin {"check", "run"} => Held(c)' = ready'
      /\ pc'[c] \in {"check", "run"} => Held(c)' = <<thr'[c]>> \o ready'
  BY HeldFacts DEF Held
<1> USE <1>0, SchedAssumption DEF TypeOK, SwitchInv, KeepsReasons, Preempted, Woken, All, Goto, SetState, Runs, queues, threads, cpus, system
<1>1. CASE UNCHANGED vars
  <2>1. Held(c)' = Held(c) /\ \A t \in Thread : KeepsReasons(c, t)
    BY <1>1 DEF vars, Held
  <2> QED  BY <2>1, CopyKept
<1>2. CASE Tick(c)
  <2>1. Held(c)' = Held(c)
    BY <1>a, <1>2 DEF Tick
  <2>2. \A t \in Thread : KeepsReasons(c, t)
    BY <1>2 DEF Tick
  <2> QED  BY <2>1, <2>2, CopyKept
<1>3. CASE Reap(c)
  <2>1. Held(c)' = Held(c)
    BY <1>a, <1>3 DEF Reap
  <2>2. \A t \in Thread : KeepsReasons(c, t)
    BY <1>3 DEF Reap
  <2> QED  BY <2>1, <2>2, CopyKept
<1>4. CASE WakeState(c)
  <2>1. Held(c)' = Held(c)
    BY <1>a, <1>4 DEF WakeState
  <2>2. \A t \in Thread : KeepsReasons(c, t)
    <3>1. thr[c] \in Thread /\ thr[c] \notin waiters /\ Pending(c, thr[c])
      BY <1>4 DEF WakeState, StateInv, Pending
    <3>2. k[thr[c]] = "sleep" \/ (k[thr[c]] \in {"run", "resched"} /\ state[thr[c]] = "SLEEPING")
      BY <3>1 DEF StateInv
    <3> QED  BY <1>4, <3>1, <3>2 DEF WakeState
  <2> QED  BY <2>1, <2>2, CopyKept
<1>5. CASE Enter(c)
  <2>1. Held(c)' = Held(c)
    BY <1>a, <1>5 DEF Enter
  <2>2. \A t \in Thread : KeepsReasons(c, t)
    BY <1>5 DEF Enter
  <2> QED  BY <2>1, <2>2, CopyKept
<1>6. CASE PushCurrent(c)
  <2>0. PICK x : x = cur[c]
    OBVIOUS
  <2>1. x \in Thread /\ Held(c)' = Append(Held(c), x)
    BY <1>a, <1>6, <2>0 DEF PushCurrent
  <2>2. \A t \in Thread : t # x => KeepsReasons(c, t)
    BY <1>6, <2>0 DEF PushCurrent
  <2>3. state[x] = "READY"
    BY <1>6, <2>0 DEF PushCurrent, StateInv
  <2>4. ~Preempted(c, x) /\ Preempted(c, x)' /\ (Woken(x) => Woken(x)')
    BY <1>6, <2>0, <2>3 DEF PushCurrent
  <2> HIDE DEF KeepsReasons, Preempted, Woken
  <2> QED  BY <1>a, <2>1, <2>2, <2>4, CopyPushed
<1>7. CASE IsIdle(c)
  <2>1. Held(c)' = Held(c)
    BY <1>a, <1>7 DEF IsIdle
  <2>2. \A t \in Thread : KeepsReasons(c, t)
    BY <1>7 DEF IsIdle
  <2> QED  BY <2>1, <2>2, CopyKept
<1>8. CASE PopReady(c)
  <2>1. ready # <<>> /\ thr'[c] = Head(ready) /\ ready' = Tail(ready) /\ pc'[c] = "check"
    BY <1>8 DEF PopReady
  <2>2. ready = <<Head(ready)>> \o Tail(ready)
    BY <2>1
  <2>3. Held(c)' = Held(c)
    BY <1>a, <1>8, <2>1, <2>2 DEF PopReady
  <2>4. \A t \in Thread : KeepsReasons(c, t)
    BY <1>8 DEF PopReady
  <2> QED  BY <2>3, <2>4, CopyKept
<1>9. CASE CheckState(c)
  <2>1. CASE state[thr[c]] = "READY"
    <3>1. Held(c)' = Held(c)
      <4>1. pc[c] = "check" /\ pc'[c] = "run" /\ thr' = thr /\ ready' = ready
        BY <1>9, <2>1 DEF CheckState
      <4> QED  BY <4>1 DEF Held
    <3>2. /\ state' = state /\ k' = k /\ waiters' = waiters /\ cur' = cur
          /\ pc[c] = "check" /\ pc'[c] = "run"
      BY <1>9, <2>1 DEF CheckState
    <3>3. \A t \in Thread : KeepsReasons(c, t)
      BY <3>2
    <3> QED  BY <3>1, <3>3, CopyKept
  <2>2. CASE state[thr[c]] # "READY"
    <3>1. Held(c)' = ready /\ Held(c)' = Tail(Held(c)) /\ thr[c] \in Thread
      BY <1>a, <1>9, <2>2 DEF CheckState
    <3>2. masked[c] \/ k[on[c]] # "sleep"
      BY <1>9 DEF CheckState, StateInv
    <3>3. /\ state' = state /\ waiters' = waiters /\ cur' = cur /\ pc[c] = "check"
          /\ pc'[c] \in {"enter", "thread"} /\ (pc'[c] = "thread" => ~masked[c])
      BY <1>9, <2>2 DEF CheckState
    <3>4. \A t \in All : k'[t] = k[t] \/ (t = on[c] /\ k[t] # "sleep" /\ k'[t] = "resched")
      BY <1>9, <2>2, <3>2 DEF CheckState
    <3>5. \A t \in Thread : KeepsReasons(c, t)
      BY <3>2, <3>3, <3>4
    <3>6. PICK x \in Thread : x = thr[c]
      BY <3>1
    <3>7. Held(c) # <<>> /\ x = Head(Held(c)) /\ KeepsReasons(c, x)
      BY <1>a, <1>9, <3>5, <3>6 DEF CheckState
    <3>8. Preempted(c, x) /\ Woken(x) => Preempted(c, x)' /\ Woken(x)'
      BY <3>7
    <3> HIDE DEF TypeOK, SwitchInv, All, KeepsReasons, Preempted, Woken
    <3> QED  BY <1>a, <3>1, <3>5, <3>7, <3>8, CopyDropped
  <2> QED  BY <2>1, <2>2
<1>10. CASE RunThread(c)
  <2>0. PICK x : x = thr[c]
    OBVIOUS
  <2>1. /\ Held(c)' = Tail(Held(c)) /\ Held(c) # <<>> /\ x = Head(Held(c))
        /\ x \in Thread
    BY <1>a, <1>10, <2>0 DEF RunThread
  <2>2. \A t \in Thread : t # x => KeepsReasons(c, t)
    BY <1>10, <2>0 DEF RunThread
  <2>3. Preempted(c, x) /\ Woken(x) => Woken(x)'
    BY <1>10, <2>0 DEF RunThread
  <2> HIDE DEF TypeOK, SwitchInv, All, KeepsReasons, Preempted, Woken
  <2> QED  BY <1>a, <2>1, <2>2, <2>3, CopyDropped
<1>11. CASE SaveContext(c)
  <2>1. Held(c)' = Held(c)
    BY <1>a, <1>11 DEF SaveContext
  <2>2. \A t \in Thread : KeepsReasons(c, t)
    BY <1>11 DEF SaveContext
  <2> QED  BY <2>1, <2>2, CopyKept
<1>12. CASE RestoreContext(c)
  <2>1. Held(c)' = Held(c)
    BY <1>a, <1>12 DEF RestoreContext
  <2>2. \A t \in Thread : KeepsReasons(c, t)
    <3>1. state[cur[c]] = "RUNNING"
      BY <1>12 DEF RestoreContext, StateInv
    <3> QED  BY <1>12, <3>1 DEF RestoreContext
  <2> QED  BY <2>1, <2>2, CopyKept
<1>13. ASSUME NEW t \in All, Reschedule(c, t) PROVE CopyInv(c)'
  <2>1. Held(c)' = Held(c)
    BY <1>a, <1>13 DEF Reschedule
  <2>2. \A u \in Thread : KeepsReasons(c, u)
    BY <1>13 DEF Reschedule
  <2> QED  BY <2>1, <2>2, CopyKept
<1>14. ASSUME NEW t \in Thread, Publish(c, t) PROVE CopyInv(c)'
  <2>1. Held(c)' = Held(c)
    BY <1>a, <1>14 DEF Publish
  <2>2. \A u \in Thread : KeepsReasons(c, u)
    <3>1. state[t] = "RUNNING"
      BY <1>14 DEF Publish, StateInv
    <3> QED  BY <1>14, <3>1 DEF Publish
  <2> QED  BY <2>1, <2>2, CopyKept
<1>15. ASSUME NEW t \in Thread, ThreadSleep(c, t) PROVE CopyInv(c)'
  <2>1. Held(c)' = Held(c)
    BY <1>a, <1>15 DEF ThreadSleep
  <2>2. \A u \in Thread : KeepsReasons(c, u)
    BY <1>15 DEF ThreadSleep
  <2> QED  BY <2>1, <2>2, CopyKept
<1>16. ASSUME NEW t \in Thread, ThreadKill(c, t) PROVE CopyInv(c)'
  <2>1. Held(c)' = Held(c)
    BY <1>a, <1>16 DEF ThreadKill
  <2>2. \A u \in Thread : KeepsReasons(c, u)
    <3>1. state[t] = "RUNNING"
      BY <1>16 DEF ThreadKill, StateInv
    <3> QED  BY <1>16, <3>1 DEF ThreadKill
  <2> QED  BY <2>1, <2>2, CopyKept
<1>17. ASSUME NEW t \in Thread, ThreadKillPush(c, t) PROVE CopyInv(c)'
  <2>1. Held(c)' = Held(c)
    BY <1>a, <1>17 DEF ThreadKillPush
  <2>2. \A u \in Thread : KeepsReasons(c, u)
    BY <1>17 DEF ThreadKillPush
  <2> QED  BY <2>1, <2>2, CopyKept
<1>18. ASSUME NEW t \in Thread, UnmaskedState(c, t) PROVE CopyInv(c)'
  <2>1. Held(c)' = Held(c)
    BY <1>a, <1>18 DEF UnmaskedState
  <2>2. \A u \in Thread : KeepsReasons(c, u)
    <3>1. PICK v : v = k[t] /\ v \in Thread /\ v \notin waiters /\ Pending(c, v)
      BY <1>18 DEF UnmaskedState, StateInv, Pending
    <3>2. k[v] = "sleep" \/ (k[v] \in {"run", "resched"} /\ state[v] = "SLEEPING")
      BY <3>1 DEF StateInv
    <3>3. v # t /\ cur[c] = t /\ k[t] # "sleep"
      BY <1>18, <3>1, <3>2 DEF UnmaskedState, Places
    <3> QED  BY <1>18, <3>1, <3>2, <3>3 DEF UnmaskedState
  <2> QED  BY <2>1, <2>2, CopyKept
<1>19. ASSUME NEW t \in Thread, WakePush(c, t) PROVE CopyInv(c)'
  <2>1. Held(c)' = Append(Held(c), t)
    BY <1>a, <1>19 DEF WakePush
  <2>2. \A v \in Thread : v # t => KeepsReasons(c, v)
    BY <1>19 DEF WakePush
  <2>3. t \in waiters /\ Pending(c, t)
    BY <1>19 DEF WakePush, Pending
  <2>4. ~Woken(t) /\ Woken(t)' /\ (Preempted(c, t) => Preempted(c, t)')
    <3>1. k[t] = "sleep" \/ (k[t] \in {"run", "resched"} /\ state[t] = "SLEEPING")
      BY <2>3 DEF StateInv
    <3> QED  BY <1>19, <2>3, <3>1 DEF WakePush
  <2> HIDE DEF TypeOK, SwitchInv, All, KeepsReasons, Preempted, Woken
  <2> QED  BY <1>a, <2>1, <2>2, <2>4, CopyPushed
<1>20. ASSUME NEW t \in Thread, CreateThread(c, t) PROVE CopyInv(c)'
  <2>1. Held(c)' = Held(c)
    BY <1>a, <1>20 DEF CreateThread
  <2>2. \A u \in Thread : KeepsReasons(c, u)
    <3>1. k[t] = "dead" /\ state[t] = "ZOMBIE"
      BY <1>20 DEF CreateThread, StateInv, ZombieInv
    <3> QED  BY <1>20, <3>1 DEF CreateThread
  <2> QED  BY <2>1, <2>2, CopyKept
<1>21. ASSUME NEW t \in Thread, NEW u \in Thread, UnmaskedPush(c, t, u) PROVE CopyInv(c)'
  <2>1. Held(c)' = Append(Held(c), u)
    BY <1>a, <1>21 DEF UnmaskedPush
  <2>2. \A v \in Thread : v # u => KeepsReasons(c, v)
    <3>1. state[t] = "RUNNING"
      BY <1>21 DEF UnmaskedPush, StateInv
    <3> QED  BY <1>21, <3>1 DEF UnmaskedPush
  <2>3. u \in waiters /\ Pending(c, u)
    BY <1>21 DEF UnmaskedPush, Pending
  <2>4. ~Woken(u) /\ Woken(u)' /\ (Preempted(c, u) => Preempted(c, u)')
    <3>1. k[u] = "sleep" \/ (k[u] \in {"run", "resched"} /\ state[u] = "SLEEPING")
      BY <2>3 DEF StateInv
    <3> QED  BY <1>21, <2>3, <3>1 DEF UnmaskedPush
  <2> HIDE DEF TypeOK, SwitchInv, All, KeepsReasons, Preempted, Woken
  <2> QED  BY <1>a, <2>1, <2>2, <2>4, CopyPushed
<1> HIDE DEF TypeOK, SwitchInv, KeepsReasons, Preempted, Woken, All, Goto, SetState, Runs, queues, threads, cpus, system
<1> QED
  BY <1>1, <1>2, <1>3, <1>4, <1>5, <1>6, <1>7, <1>8, <1>9, <1>10, <1>11, <1>12, <1>13, <1>14, <1>15, <1>16, <1>17, <1>18, <1>19, <1>20, <1>21 DEF Next, Step, Resched, ThreadCode

\* Every step keeps ZombieInv: a thread is killed once, and is then in the ready
\* queue no more.
LEMMA ZombieNext ==
  ASSUME NEW c, CPU = {c}, TypeOK, SwitchInv(c), StateInv(c), ZombieInv, CopyInv(c), [Next]_vars
  PROVE  ZombieInv'
<1>0. unmasked' = unmasked
  BY DEF Next, vars
<1> DEFINE Dead == \A t \in Thread : k[t] = "dead" => k'[t] = "dead"
<1>a. ASSUME zombie' = zombie, freed' = freed, Dead PROVE ZombieInv'
  BY <1>a DEF ZombieInv
<1> HIDE DEF Dead
<1> USE <1>0, SchedAssumption DEF TypeOK, SwitchInv, ZombieInv, All, Places, Goto, SetState, Runs, queues, threads, cpus, system
<1>1. CASE UNCHANGED vars
  BY <1>1 DEF vars
<1>2. CASE Tick(c)
  BY <1>a, <1>2 DEF Tick, Dead
<1>3. CASE Reap(c)
  <2>1. PICK x : x = Head(zombie) /\ x \in Thread /\ zombie # <<>>
    BY <1>3 DEF Reap
  <2>2. /\ ~None(zombie, x) /\ None(Tail(zombie), x)
        /\ \A t \in Thread : /\ None(zombie, t) => None(Tail(zombie), t)
                             /\ Once(zombie, t) => Once(Tail(zombie), t)
    BY <2>1, TailCopies
  <2>3. freed' = freed \cup {x} /\ zombie' = Tail(zombie) /\ k' = k
    BY <1>3, <2>1 DEF Reap
  <2>4. \A t \in Thread : Once(zombie', t)
    BY <2>2, <2>3
  <2>5. \A t \in Thread : t \in freed \/ ~None(zombie, t) => k[t] = "dead"
    OBVIOUS
  <2>6. freed \subseteq Thread /\ \A t \in freed : None(zombie, t)
    OBVIOUS
  <2> HIDE DEF TypeOK, SwitchInv, All, Places
  <2>7. \A t \in Thread : t \in freed' \/ ~None(zombie', t) => k'[t] = "dead"
    BY <2>1, <2>2, <2>3, <2>5
  <2>8. \A t \in freed' : None(zombie', t)
    BY <2>1, <2>2, <2>3, <2>6
  <2> QED  BY <2>3, <2>4, <2>7, <2>8 DEF None, Once
<1>4. CASE WakeState(c)
  BY <1>a, <1>4 DEF WakeState, Dead
<1>5. CASE Enter(c)
  BY <1>a, <1>5 DEF Enter, Dead
<1>6. CASE PushCurrent(c)
  BY <1>a, <1>6 DEF PushCurrent, Dead
<1>7. CASE IsIdle(c)
  BY <1>a, <1>7 DEF IsIdle, Dead
<1>8. CASE PopReady(c)
  BY <1>a, <1>8 DEF PopReady, Dead
<1>9. CASE CheckState(c)
  <2>1. thr[c] \in Thread /\ ~None(Held(c), thr[c])
    <3>1. pc[c] = "check" /\ thr[c] \in Thread
      BY <1>9 DEF CheckState
    <3>2. Held(c) \in Seq(Thread) /\ Held(c) # <<>> /\ Head(Held(c)) = thr[c]
      BY <3>1, HeldFacts
    <3> HIDE DEF TypeOK, SwitchInv, ZombieInv
    <3> QED  BY <3>1, <3>2, TailCopies
  <2>2. state[thr[c]] # "ZOMBIE"
    <3>1. state[thr[c]] = "ZOMBIE" => k[thr[c]] \in {"kill", "dead"}
      BY <2>1 DEF StateInv
    <3> HIDE DEF TypeOK, SwitchInv, ZombieInv
    <3> QED  BY <2>1, <3>1 DEF CopyInv, Preempted, Woken
  <2>3. zombie' = zombie /\ freed' = freed
    BY <1>9, <2>2 DEF CheckState
  <2>4. k' = k \/ k' = [k EXCEPT ![on[c]] = IF masked[c] \/ @ = "dead" THEN @ ELSE "resched"]
    BY <1>9 DEF CheckState
  <2>5. Dead
    BY <2>4 DEF Dead
  <2> HIDE DEF TypeOK, SwitchInv, ZombieInv, All, Places
  <2> QED  BY <1>a, <2>3, <2>5
<1>10. CASE RunThread(c)
  BY <1>a, <1>10 DEF RunThread, Dead
<1>11. CASE SaveContext(c)
  BY <1>a, <1>11 DEF SaveContext, Dead
<1>12. CASE RestoreContext(c)
  BY <1>a, <1>12 DEF RestoreContext, Dead
<1>13. ASSUME NEW t \in All, Reschedule(c, t) PROVE ZombieInv'
  BY <1>a, <1>13 DEF Reschedule, Dead
<1>14. ASSUME NEW t \in Thread, Publish(c, t) PROVE ZombieInv'
  BY <1>a, <1>14 DEF Publish, Dead
<1>15. ASSUME NEW t \in Thread, ThreadSleep(c, t) PROVE ZombieInv'
  BY <1>a, <1>15 DEF ThreadSleep, Dead
<1>16. ASSUME NEW t \in Thread, ThreadKill(c, t) PROVE ZombieInv'
  BY <1>a, <1>16 DEF ThreadKill, Dead
<1>17. ASSUME NEW t \in Thread, ThreadKillPush(c, t) PROVE ZombieInv'
  <2>1. None(zombie, t) /\ t \notin freed
    BY <1>17 DEF ThreadKillPush
  <2>2. /\ Once(Append(zombie, t), t)
        /\ \A u : u # t => /\ None(zombie, u) <=> None(Append(zombie, t), u)
                           /\ Once(zombie, u) => Once(Append(zombie, t), u)
    BY <2>1, AppendCopies
  <2>3. /\ zombie' = Append(zombie, t) /\ freed' = freed /\ k'[t] = "dead"
        /\ \A u \in Thread : u # t => k'[u] = k[u]
    BY <1>17 DEF ThreadKillPush
  <2>4. \A u \in Thread : Once(zombie', u)
    BY <2>2, <2>3
  <2>5. \A u \in Thread : u \in freed \/ ~None(zombie, u) => k[u] = "dead"
    OBVIOUS
  <2>6. freed \subseteq Thread /\ \A u \in freed : None(zombie, u)
    OBVIOUS
  <2> HIDE DEF TypeOK, SwitchInv, All, Places
  <2>7. \A u \in Thread : u \in freed' \/ ~None(zombie', u) => k'[u] = "dead"
    BY <2>2, <2>3, <2>5
  <2>8. \A u \in freed' : None(zombie', u)
    BY <2>1, <2>2, <2>3, <2>6
  <2> QED  BY <2>4, <2>7, <2>8 DEF None, Once
<1>18. ASSUME NEW t \in Thread, UnmaskedState(c, t) PROVE ZombieInv'
  BY <1>a, <1>18 DEF UnmaskedState, Dead
<1>19. ASSUME NEW t \in Thread, WakePush(c, t) PROVE ZombieInv'
  BY <1>a, <1>19 DEF WakePush, Dead
<1>20. ASSUME NEW t \in Thread, CreateThread(c, t) PROVE ZombieInv'
  <2>1. /\ t \in freed /\ freed' = freed \ {t} /\ zombie' = zombie
        /\ \A u \in Thread : u # t => k'[u] = k[u]
    BY <1>20 DEF CreateThread
  <2>2. freed \subseteq Thread /\ None(zombie, t)
    BY <2>1
  <2> HIDE DEF TypeOK, SwitchInv, All, Places
  <2> QED  BY <2>1, <2>2
<1>21. ASSUME NEW t \in Thread, NEW u \in Thread, UnmaskedPush(c, t, u) PROVE ZombieInv'
  BY <1>a, <1>21 DEF UnmaskedPush, Dead
<1> HIDE DEF TypeOK, SwitchInv, ZombieInv, All, Places, Goto, SetState, Runs, queues, threads, cpus, system
<1> QED
  BY <1>1, <1>2, <1>3, <1>4, <1>5, <1>6, <1>7, <1>8, <1>9, <1>10, <1>11, <1>12, <1>13, <1>14, <1>15, <1>16, <1>17, <1>18, <1>19, <1>20, <1>21 DEF Next, Step, Resched, ThreadCode

\* With interrupts off in every thread_wake, no thread code is inside one.
LEMMA PlacesNext ==
  ASSUME NEW c, CPU = {c}, ~unmasked, TypeOK, PlacesInv, [Next]_vars
  PROVE  PlacesInv'
<1>1. k \in [All -> Places]
  BY DEF TypeOK, PlacesInv
<1>2. {"run", "sleep", "resched", "kill", "dead"} \subseteq Places /\ Places \cap Thread = {}
  BY SchedAssumption DEF Places
<1>3. \/ k' = k
      \/ \E t \in All, x \in Places : k' = [k EXCEPT ![t] = x]
      \/ k' = [k EXCEPT ![on[c]] = IF masked[c] \/ @ = "dead" THEN @ ELSE "resched"]
      \/ \E t \in All : k' = [k EXCEPT ![t] = IF @ = "dead" THEN @ ELSE "run"]
  <2> USE <1>1, <1>2 DEF All, threads, cpus, system
  <2>1. CASE UNCHANGED vars
    BY <2>1 DEF vars
  <2>2. CASE Tick(c) \/ Reap(c) \/ WakeState(c)
    BY <2>2 DEF Tick, Reap, WakeState
  <2>3. CASE Resched(c) /\ ~CheckState(c)
    BY <2>3 DEF Resched, Enter, PushCurrent, IsIdle, PopReady, RunThread, SaveContext, RestoreContext
  <2>4. CASE CheckState(c)
    BY <2>4 DEF CheckState
  <2>5. ASSUME NEW t \in All, Reschedule(c, t) PROVE \E u \in All : k' = [k EXCEPT ![u] = IF @ = "dead" THEN @ ELSE "run"]
    BY <2>5 DEF Reschedule
  <2>6. ASSUME NEW t \in Thread, ThreadCode(c, t) \/ WakePush(c, t) \/ CreateThread(c, t)
        PROVE  k' = k \/ \E u \in All, x \in Places : k' = [k EXCEPT ![u] = x]
    BY <2>6 DEF ThreadCode, WakePush, CreateThread, Publish, ThreadSleep, ThreadKill, ThreadKillPush,
       UnmaskedState, UnmaskedPush, Runs
  <2> HIDE DEF All, threads, cpus, system
  <2> QED  BY <2>1, <2>2, <2>3, <2>4, <2>5, <2>6 DEF Next, Step
<1> QED  BY <1>1, <1>2, <1>3 DEF PlacesInv

\* With interrupts off in every thread_wake, every step keeps QueueInv.
LEMMA QueueNext ==
  ASSUME NEW c, CPU = {c}, ~unmasked, TypeOK, SwitchInv(c), PlacesInv, QueueInv(c), [Next]_vars
  PROVE  QueueInv(c)'
<1>0. unmasked' = unmasked
  BY DEF Next, vars
<1> USE <1>0 DEF TypeOK, SwitchInv, QueueInv, All, Goto, SetState, Runs, queues, threads, cpus, system
<1>1. CASE UNCHANGED vars
  BY <1>1 DEF vars
<1>2. CASE Tick(c)
  BY <1>2 DEF Tick
<1>3. CASE Reap(c)
  BY <1>3 DEF Reap
<1>4. CASE WakeState(c)
  BY <1>4 DEF WakeState
<1>5. CASE Enter(c)
  BY <1>5, SMTT(30) DEF Enter
<1>6. CASE PushCurrent(c)
  BY <1>6, AppendHas DEF PushCurrent
<1>7. CASE IsIdle(c)
  BY <1>7, SMTT(30) DEF IsIdle
<1>8. CASE PopReady(c)
  <2>1. ready # <<>> /\ thr'[c] = Head(ready) /\ ready' = Tail(ready) /\ pc'[c] = "check"
    BY <1>8 DEF PopReady
  <2>2. ASSUME NEW t \in Thread, InQueue(ready, t) PROVE t = thr'[c] \/ InQueue(ready', t)
    BY <2>1, <2>2, TailHas
  <2> QED  BY <1>8, <2>1, <2>2 DEF PopReady
<1>9. CASE CheckState(c)
  <2>1. /\ ready' = ready /\ state' = state /\ cur' = cur
        /\ pc[c] = "check" /\ pc'[c] \in {"run", "enter", "thread"}
        /\ state[thr[c]] = "READY" => thr' = thr /\ pc'[c] = "run"
    BY <1>9 DEF CheckState
  <2>2. ASSUME NEW t \in Thread, state[t] = "READY"
        PROVE  InQueue(ready', t) \/ (pc'[c] = "run" /\ thr'[c] = t)
    <3>1. InQueue(ready, t) \/ thr[c] = t
      BY <2>1, <2>2
    <3> QED  BY <2>1, <2>2, <3>1, Zenon
  <2> QED  BY <2>1, <2>2
<1>10. CASE RunThread(c)
  BY <1>10 DEF RunThread
<1>11. CASE SaveContext(c)
  BY <1>11 DEF SaveContext
<1>12. CASE RestoreContext(c)
  BY <1>12 DEF RestoreContext
<1>13. ASSUME NEW t \in All, Reschedule(c, t) PROVE QueueInv(c)'
  BY <1>13 DEF Reschedule
<1>14. ASSUME NEW t \in Thread, Publish(c, t) PROVE QueueInv(c)'
  BY <1>14 DEF Publish
<1>15. ASSUME NEW t \in Thread, ThreadSleep(c, t) PROVE QueueInv(c)'
  BY <1>15 DEF ThreadSleep
<1>16. ASSUME NEW t \in Thread, ThreadKill(c, t) PROVE QueueInv(c)'
  BY <1>16 DEF ThreadKill
<1>17. ASSUME NEW t \in Thread, ThreadKillPush(c, t) PROVE QueueInv(c)'
  BY <1>17 DEF ThreadKillPush
<1>18. ASSUME NEW t \in Thread, UnmaskedState(c, t) PROVE QueueInv(c)'
  BY <1>18, SchedAssumption DEF UnmaskedState, PlacesInv, All
<1>19. ASSUME NEW t \in Thread, WakePush(c, t) PROVE QueueInv(c)'
  BY <1>19, AppendHas DEF WakePush
<1>20. ASSUME NEW t \in Thread, CreateThread(c, t) PROVE QueueInv(c)'
  BY <1>20 DEF CreateThread
<1>21. ASSUME NEW t \in Thread, NEW u \in Thread, UnmaskedPush(c, t, u) PROVE QueueInv(c)'
  BY <1>21, AppendHas DEF UnmaskedPush
<1> HIDE DEF TypeOK, SwitchInv, QueueInv, All, Goto, SetState, Runs, queues, threads, cpus, system
<1> QED
  BY <1>1, <1>2, <1>3, <1>4, <1>5, <1>6, <1>7, <1>8, <1>9, <1>10, <1>11, <1>12, <1>13, <1>14, <1>15, <1>16, <1>17, <1>18, <1>19, <1>20, <1>21 DEF Next, Step, Resched, ThreadCode

\* The inductive invariant.
IInv(c) ==
  /\ TypeOK /\ SwitchInv(c) /\ StateInv(c) /\ CopyInv(c) /\ ZombieInv
  /\ ~unmasked => PlacesInv /\ QueueInv(c)

\* The boot CPU starts in its idle thread, every thread asleep with a fresh context.
LEMMA UniprocessorInit ==
  ASSUME NEW c, CPU = {c}, Init
  PROVE  IInv(c)
<1> USE SchedAssumption DEF Init, All, States, Places
<1>1. TypeOK
  BY DEF TypeOK
<1>2. SwitchInv(c)
  BY DEF SwitchInv
<1>3. StateInv(c) /\ QueueInv(c)
  BY DEF StateInv, Pending, QueueInv
<1>8. PlacesInv
  BY DEF PlacesInv
<1>4. ready = <<>> /\ zombie = <<>> /\ freed = {} /\ Held(c) = <<>>
  BY DEF Held
<1>5. \A t : None(<<>>, t) /\ Once(<<>>, t) /\ Twice(<<>>, t)
  BY DEF None, Once, Twice
<1>6. CopyInv(c)
  BY <1>4, <1>5 DEF CopyInv
<1>7. ZombieInv
  BY <1>4, <1>5 DEF ZombieInv
<1> QED  BY <1>1, <1>2, <1>3, <1>6, <1>7, <1>8 DEF IInv

\* Every step keeps the invariant.
LEMMA UniprocessorNext ==
  ASSUME NEW c, CPU = {c}, IInv(c), [Next]_vars
  PROVE  IInv(c)'
<1> USE DEF IInv
<1>1. TypeOK' /\ SwitchInv(c)'
  BY TypeNext, SwitchNext
<1>2. StateInv(c)' /\ CopyInv(c)' /\ ZombieInv'
  BY StateNext, CopyNext, ZombieNext
<1>3. unmasked' = unmasked
  BY DEF Next, vars
<1>4. ~unmasked => PlacesInv' /\ QueueInv(c)'
  BY PlacesNext, QueueNext
<1> QED  BY <1>1, <1>2, <1>3, <1>4

\* The invariant holds throughout.
LEMMA UniprocessorInv ==
  ASSUME NEW c, CPU = {c}
  PROVE  Spec => []IInv(c)
<1>1. Init => IInv(c)
  BY UniprocessorInit
<1>2. IInv(c) /\ [Next]_vars => IInv(c)'
  BY UniprocessorNext
<1> QED  BY <1>1, <1>2, PTL DEF Spec

\* On one CPU the assertion assert(thr != 0) in reschedule_internal holds, also
\* when thread_wake runs with interrupts on: between is_idle and queue_pop nobody
\* empties the ready queue.
THEOREM SwitchesAreSound ==
  ASSUME NEW c, CPU = {c}
  PROVE  Spec => []PopFindsThread
<1>1. IInv(c) => PopFindsThread
  BY DEF IInv, SwitchInv, PopFindsThread
<1> QED  BY <1>1, UniprocessorInv, PTL

\* On one CPU switch_threads only ever loads a context that was saved, wherever
\* the timer preempts a thread.
THEOREM ContextsAreSaved ==
  ASSUME NEW c, CPU = {c}
  PROVE  Spec => []RestoresSavedContext
<1>1. IInv(c) => RestoresSavedContext
  BY DEF IInv, SwitchInv, RestoresSavedContext, All
<1> QED  BY <1>1, UniprocessorInv, PTL

\* On one CPU, when every thread_wake runs with interrupts off, a READY thread is
\* in the ready queue or in the hands of reschedule_internal.
THEOREM NoReadyThreadIsLost ==
  ASSUME NEW c, CPU = {c}
  PROVE  Spec => []ReadyIsQueued
<1>1. IInv(c) => ReadyIsQueued
  BY DEF IInv, QueueInv, ReadyIsQueued
<1> QED  BY <1>1, UniprocessorInv, PTL

\* On one CPU a thread that runs its own code is current and RUNNING, also after a
\* thread_wake of AcpiOsExecute that was preempted between its two steps: no late
\* wakeup makes a running thread READY.
THEOREM RunningThreadIsCurrent ==
  ASSUME NEW c, CPU = {c}
  PROVE  Spec => []RunningIsCurrent
<1>1. IInv(c) => RunningIsCurrent
  BY DEF IInv, SwitchInv, StateInv, RunningIsCurrent
<1> QED  BY <1>1, UniprocessorInv, PTL

\* On one CPU neither queue holds a thread that zombie_reaper has freed, although a
\* thread can be in the ready queue twice and reschedule_internal puts a ZOMBIE
\* that it pops into the zombie queue once more.
THEOREM FreedThreadsAreGone ==
  ASSUME NEW c, CPU = {c}
  PROVE  Spec => []NoFreedThreadQueued
<1>1. IInv(c) => NoFreedThreadQueued
  <2> SUFFICES ASSUME IInv(c), NEW t \in freed
               PROVE  ~InQueue(ready, t) /\ ~InQueue(zombie, t)
    BY DEF NoFreedThreadQueued
  <2>1. t \in Thread /\ k[t] = "dead" /\ None(zombie, t)
    BY DEF IInv, TypeOK, ZombieInv
  <2>2. state[t] = "ZOMBIE"
    BY <2>1 DEF IInv, StateInv
  <2>3. None(Held(c), t)
    BY <2>1, <2>2 DEF IInv, CopyInv, Preempted, Woken
  <2>4. None(ready, t)
    <3>1. CASE pc[c] \in {"check", "run"}
      <4>1. Held(c) \in Seq(Thread) /\ Held(c) # <<>> /\ Tail(Held(c)) = ready
        BY <3>1, HeldFacts DEF IInv
      <4>2. None(Tail(Held(c)), t)
        BY <2>3, <4>1, TailCopies
      <4> QED  BY <4>1, <4>2
    <3>2. CASE pc[c] \notin {"check", "run"}
      BY <2>3, <3>2, HeldFacts DEF IInv
    <3> QED  BY <3>1, <3>2
  <2> QED  BY <2>1, <2>4 DEF None, InQueue
<1> QED  BY <1>1, UniprocessorInv, PTL
=============================================================================
