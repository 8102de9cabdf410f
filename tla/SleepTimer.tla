----------------------------- MODULE SleepTimer -----------------------------
(***************************************************************************)
(* sleep.c over timer.c: sleep_ms puts the caller on a list of llist.c and *)
(* to sleep; the handler sleep_timer_tick, which the first sleep_ms        *)
(* installs, counts the sleepers down.                                     *)
(***************************************************************************)
EXTENDS Timers

LOCAL INSTANCE SequencesExt

CONSTANTS Thread,
          Durations,    \* the milliseconds sleep_ms is called with
          MS_TO_TICKS,
          Word,         \* 2^32: the product of two uint32_t wraps here
          SleepHandler, \* sleep_timer_tick, as a handler
          Mixes         \* bound: how many threads sleep and how many other handlers there are

ASSUME SleepAssumption ==
  /\ Durations \subseteq Nat /\ MS_TO_TICKS \in Nat \ {0} /\ Word \in Nat \ {0}
  /\ SleepHandler \in Handler /\ Mixes \subseteq Nat \X Nat

VARIABLES tlist,
          tc,         \* tc[t]: the ticks left in t's struct sleepinfo
          timer_installed,
          pc,         \* "awake", "listed" (inserted, not yet asleep) or "asleep"
          ms,         \* the argument of the sleep_ms in progress
          slept,      \* ghost: the time since t's sleep_ms
          hasty,      \* ghost: the threads woken before their time, if it fits a word
          users       \* the threads that sleep and the other handlers

sleepVars == <<tlist, tc, timer_installed, pc, ms, slept, hasty>>
vars == <<timerVars, sleepVars, users>>

Init ==
  /\ TimersInit
  /\ tlist = create_list /\ timer_installed = FALSE
  /\ tc = [t \in Thread |-> 0] /\ ms = [t \in Thread |-> 0]
  /\ pc = [t \in Thread |-> "awake"]
  /\ slept = [t \in Thread |-> 0] /\ hasty = {}
  /\ users \in {u \in SUBSET (Thread \cup (Handler \ {SleepHandler})) :
                  <<Cardinality(u \cap Thread), Cardinality(u \ Thread)>> \in Mixes}

-----------------------------------------------------------------------------
\* The handler asks for a call every millisecond.
SleepRequest == [ticks |-> MS_TO_TICKS, res |-> 4, feat |-> {"periodic"}]

\* The nodes of the two lists come from one heap.
OneHeap == tlist.used \cap timer_list.used = {}

\* On CPU c.  Threads run after timers_init.
sleep_ms(c, t, d) ==
  /\ Registered # {} /\ pc[t] = "awake"
  /\ ms' = [ms EXCEPT ![t] = d]
  /\ tc' = [tc EXCEPT ![t] = (d * MS_TO_TICKS) % Word]
  /\ \E n \in Node \ tlist.used : tlist' = list_insert(tlist, n, t, 0)
  /\ IF timer_installed THEN UNCHANGED timerVars ELSE install_timer(c, SleepHandler, SleepRequest)
  /\ OneHeap'
  /\ timer_installed' = TRUE
  /\ pc' = [pc EXCEPT ![t] = "listed"]
  /\ slept' = [slept EXCEPT ![t] = 0]
  /\ hasty' = hasty \ {t}

\* The thread_sleep at the end of sleep_ms.
thread_sleep(t) ==
  /\ pc[t] = "listed"
  /\ pc' = [pc EXCEPT ![t] = "asleep"]
  /\ UNCHANGED <<timerVars, tlist, tc, timer_installed, ms, slept, hasty>>

\* Mutant of Countdown: the subtraction wraps instead of stopping at zero.
Countdown_Wraps(k, ticks) == (k + Word - ticks) % Word

\* Mutant of Countdown: the last tick is not waited for.
Countdown_Early(k, ticks) == IF k <= 2 * ticks THEN 0 ELSE k - ticks

Countdown(k, ticks) == IF k < ticks THEN 0 ELSE k - ticks

\* One turn of sleep_timer_tick's loop: a sleeper is counted down, and removed and
\* woken at zero.
Turn(s, ticks) ==
  LET t == list_at(s.l, s.n)
  IN  IF t \notin Thread THEN s
      ELSE IF Countdown(s.tc[t], ticks) = 0
        THEN [s EXCEPT !.tc[t] = 0, !.l = list_remove(s.l, s.n), !.woken = @ \cup {t}]
        ELSE [s EXCEPT !.tc[t] = Countdown(@, ticks), !.n = @ + 1]

\* The handler.  thread_wake of a thread that is still on its way to sleep changes
\* nothing that its thread_sleep does not undo.
sleep_timer_tick(ticks) ==
  LET turn[i \in 0..tlist.len] ==
        IF i = 0 THEN [l |-> tlist, n |-> 0, tc |-> tc, woken |-> {}]
        ELSE Turn(turn[i - 1], ticks)
      end == turn[tlist.len]
  IN  /\ tlist' = end.l /\ tc' = end.tc
      /\ pc' = [t \in Thread |-> IF t \in end.woken /\ pc[t] = "asleep" THEN "awake" ELSE pc[t]]
      /\ slept' = [t \in Thread |-> IF t \in end.woken THEN 0 ELSE slept[t]]
      /\ ms' = [t \in Thread |-> IF t \in end.woken THEN 0 ELSE ms[t]]
      /\ hasty' = hasty \cup {t \in end.woken : /\ ms[t] * MS_TO_TICKS < Word
                                               /\ slept[t] + ticks < ms[t] * MS_TO_TICKS}
      /\ UNCHANGED timer_installed

\* A hardware tick, with the handler of sleep.c when it is one of those called.
Tick(t) ==
  /\ timer_ticked(t)
  /\ IF SleepHandler \in Ticked(t).called THEN sleep_timer_tick(TicksFor(t, SleepHandler))
     ELSE UNCHANGED sleepVars

\* Time passes for the sleepers too.
Pass ==
  /\ PassTime
  /\ slept' = [t \in Thread |-> IF t \in ToSet(Elements(tlist)) THEN slept[t] + 1 ELSE 0]
  /\ UNCHANGED <<tlist, tc, timer_installed, pc, ms, hasty>>

Register(c, t) == timer_register(c, t) /\ UNCHANGED sleepVars

\* Another part of the kernel installs its handler.
Install(c, h, r) == install_timer(c, h, r) /\ UNCHANGED sleepVars /\ OneHeap'

Next ==
  /\ \/ \E c \in CPU, t \in Timer : Register(c, t)
     \/ \E c \in CPU, h \in Handler \cap users, r \in Requests : Install(c, h, r)
     \/ \E t \in Timer : Tick(t)
     \/ Pass
     \/ \E t \in Thread \cap users :
          thread_sleep(t) \/ \E c \in CPU, d \in Durations : sleep_ms(c, t, d)
  /\ UNCHANGED users

Spec == Init /\ [][Next]_vars

-----------------------------------------------------------------------------
\* "Sleep for the given number of milliseconds": sleep_timer_tick wakes no thread
\* more than a tick of the timer before the time it asked sleep_ms for, when
\* that time fits 32 bits and no list operation has written through a wild pointer.
SleepsLongEnough == ~tlist.wild => hasty = {}

\* A sleeper is woken less than one tick after its time, until a list operation
\* writes through a wild pointer.
WokenInTime ==
  ~tlist.wild =>
    \A t \in ToSet(Elements(tlist)) :
      slept[t] < Hw[meta[SleepHandler].tim].tick + ms[t] * MS_TO_TICKS

\* sleep_timer_tick's list keeps its sleepers, and its maintenance touches no memory
\* but its nodes.
SleepersKept == ~tlist.wild /\ ToSet(Elements(tlist)) \subseteq Thread
=============================================================================
