------------------------------- MODULE Timers -------------------------------
(***************************************************************************)
(* timer.c: handlers are multiplexed over the hardware timers.  timer_list *)
(* is a list of llist.c; a tick counts every handler of its timer down and *)
(* runs the ones that reach zero.                                          *)
(***************************************************************************)
EXTENDS LinkedList

LOCAL INSTANCE SequencesExt

CONSTANTS CPU, Handler,
          Timer,       \* the hardware timers
          Hw,          \* Hw[t]: features, resolution and the time of one tick
          Requests     \* what install_timer is asked for: ticks, res, feat

Features == {"oneshot", "periodic", "percpu"}

\* Resolutions are the TIMERRES flags: 1 ns, 2 us, 4 ms, 8 s.
ASSUME HwAssumption ==
  /\ \A t \in Timer : Hw[t] \in [feat : SUBSET Features, res : {1, 2, 4, 8}, tick : Nat \ {0}]
  /\ \A r \in Requests : /\ r \in [ticks : Nat \ {0}, res : {1, 2, 4, 8}, feat : SUBSET Features]
                         /\ Cardinality(r.feat \cap {"oneshot", "periodic"}) = 1

VARIABLES hwtimer_list,   \* sequence of registered timers
          timer_cpu,      \* timer_cpu[t]: the CPU that registered t
          timer_list,
          meta,           \* meta[h]: struct timer_handler_meta
          phase,          \* phase[t]: the time since the last tick of t
          installed,      \* ghost: the handlers that are installed
          elapsed,        \* ghost: time since installation or the last call
          early           \* ghost: some handler was called before its time

timerVars == <<hwtimer_list, timer_cpu, timer_list, meta, phase, installed, elapsed, early>>

NoMeta == [tim |-> NULL, ticks |-> 0, orig_ticks |-> 0, feat |-> {}, cpu |-> NULL]

TimersInit ==
  /\ hwtimer_list = <<>> /\ timer_cpu = [t \in Timer |-> NULL]
  /\ timer_list = create_list
  /\ meta = [h \in Handler |-> NoMeta]
  /\ phase = [t \in Timer |-> 0]
  /\ installed = {} /\ elapsed = [h \in Handler |-> 0] /\ early = FALSE

-----------------------------------------------------------------------------
\* timer_register for a timer whose timer_init succeeds; another one is left out
\* of the list and offers nothing.
timer_register(c, t) ==
  /\ timer_cpu[t] = NULL
  /\ timer_cpu' = [timer_cpu EXCEPT ![t] = c]
  /\ hwtimer_list' = <<t>> \o hwtimer_list
  /\ UNCHANGED <<timer_list, meta, phase, installed, elapsed, early>>

PerCpu(t) == "percpu" \in Hw[t].feat

Local(c, t) == PerCpu(t) => timer_cpu[t] = c

Exact(c, r, t) ==
  /\ Local(c, t)
  /\ PerCpu(t) => "percpu" \in r.feat
  /\ Hw[t].feat \cap r.feat # {}
  /\ Hw[t].res <= r.res

Acceptable(c, r, t) ==
  /\ Local(c, t)
  /\ \/ Hw[t].feat \cap r.feat # {}
     \/ "oneshot" \in r.feat /\ "periodic" \in Hw[t].feat

\* The timer install_timer takes: the first exact match, else the first
\* acceptable one, else none.
ChosenTimer(c, r) ==
  LET exact == SelectInSeq(hwtimer_list, LAMBDA t : Exact(c, r, t))
      other == SelectInSeq(hwtimer_list, LAMBDA t : Acceptable(c, r, t))
  IN  IF exact # 0 THEN hwtimer_list[exact]
      ELSE IF other # 0 THEN hwtimer_list[other] ELSE NULL

\* The index install_timer inserts at: one past the first handler with as many
\* ticks, or two past the last one.
InsertIndex(ticks) ==
  LET i == SelectInSeq(Elements(timer_list), LAMBDA h : meta[h].ticks >= ticks)
  IN  IF i # 0 THEN i ELSE timer_list.len + 1

install_timer(c, h, r) ==
  /\ h \notin installed
  /\ ChosenTimer(c, r) # NULL
  /\ meta' = [meta EXCEPT ![h] = [tim |-> ChosenTimer(c, r), ticks |-> r.ticks,
                                  orig_ticks |-> r.ticks, feat |-> r.feat, cpu |-> c]]
  /\ \E n \in Node \ timer_list.used :
       timer_list' = list_insert(timer_list, n, h, InsertIndex(r.ticks))
  /\ installed' = installed \cup {h}
  /\ elapsed' = [elapsed EXCEPT ![h] = 0]
  /\ UNCHANGED <<hwtimer_list, timer_cpu, phase, early>>

-----------------------------------------------------------------------------
CountDown(ticks, d) == IF ticks < d THEN 0 ELSE ticks - d

\* What the handler's ticks become when the tick leaves left of them.
Reload(m, left) == IF left = 0 THEN m.orig_ticks ELSE left

\* Mutant of Visit: the loop does not step back after a removal.
Visit_Skips(s, t) ==
  LET h == list_at(s.l, s.index)
      m == s.m[h]
      left == CountDown(m.ticks, Hw[t].tick)
      removed == "oneshot" \in m.feat /\ left = 0
  IN  IF h = NULL THEN s
      ELSE IF m.tim # t THEN [s EXCEPT !.index = @ + 1]
      ELSE [index |-> s.index + 1, l |-> IF removed THEN list_remove(s.l, s.index) ELSE s.l,
            m |-> [s.m EXCEPT ![h].ticks = IF removed THEN 0 ELSE Reload(m, left)],
            called |-> IF left = 0 THEN s.called \cup {h} ELSE s.called]

\* One turn of timer_ticked's loop.  A one-shot handler of a timer without
\* one-shots is emulated by counting down.
Visit(s, t) ==
  LET h == list_at(s.l, s.index)
      m == s.m[h]
      once == "oneshot" \in m.feat
      left == CountDown(m.ticks, Hw[t].tick)
      native == once /\ "oneshot" \in Hw[t].feat
      counts == "periodic" \in Hw[t].feat /\ ~native
      calls == IF native THEN m.ticks = Hw[t].tick ELSE counts /\ left = 0
      removed == once /\ calls
  IN  IF h = NULL THEN s
      ELSE IF m.tim # t THEN [s EXCEPT !.index = @ + 1]
      ELSE [index |-> IF removed THEN s.index ELSE s.index + 1,
            l |-> IF removed THEN list_remove(s.l, s.index) ELSE s.l,
            m |-> [s.m EXCEPT ![h].ticks = IF ~counts THEN @
                                           ELSE IF once THEN left ELSE Reload(m, left)],
            called |-> IF calls THEN s.called \cup {h} ELSE s.called]

\* One unit of time passes for the hardware and for the handlers; the interrupt of
\* a timer that is due comes first.
Registered == {t \in Timer : timer_cpu[t] # NULL}
PassTime ==
  /\ Registered # {} /\ \A t \in Registered : phase[t] < Hw[t].tick
  /\ phase' = [t \in Timer |-> IF t \in Registered THEN phase[t] + 1 ELSE 0]
  /\ elapsed' = [h \in Handler |-> IF h \in installed THEN elapsed[h] + 1 ELSE 0]
  /\ UNCHANGED <<hwtimer_list, timer_cpu, timer_list, meta, installed, early>>

\* The state after timer_ticked's loop.
Ticked(t) ==
  LET turn[i \in 0..timer_list.len] ==
        IF i = 0 THEN [index |-> 0, l |-> timer_list, m |-> meta, called |-> {}]
        ELSE Visit(turn[i - 1], t)
  IN  turn[timer_list.len]

\* The ticks that do_th passes to handler h.
TicksFor(t, h) == IF Hw[t].tick > meta[h].orig_ticks THEN Hw[t].tick ELSE meta[h].orig_ticks

\* timer_ticked: do_th runs the handler here or, by multicpu_call, on its CPU.
timer_ticked(t) ==
  LET end == Ticked(t)
  IN  /\ t \in Registered /\ phase[t] = Hw[t].tick
      /\ phase' = [phase EXCEPT ![t] = 0]
      /\ timer_list' = end.l
      /\ installed' = installed \ {h \in end.called : "oneshot" \in meta[h].feat}
      /\ meta' = [h \in Handler |-> IF h \in installed' THEN end.m[h] ELSE NoMeta]
      /\ elapsed' = [h \in Handler |-> IF h \in installed' \ end.called THEN elapsed[h] ELSE 0]
      /\ early' = (early \/ \E h \in end.called : elapsed[h] + Hw[t].tick < meta[h].orig_ticks)
      /\ UNCHANGED <<hwtimer_list, timer_cpu>>

\* remove_timer: list_remove is called with the index after h's.
remove_timer(h) ==
  LET turn[i \in 0..2 * timer_list.len] ==
        IF i = 0 THEN [l |-> timer_list, index |-> 0]
        ELSE LET s == turn[i - 1]
             IN  IF list_at(s.l, s.index) = h
                 THEN [l |-> list_remove(s.l, s.index + 1), index |-> s.index]
                 ELSE [s EXCEPT !.index = @ + 1]
  IN  /\ h \in installed
      /\ timer_list' = turn[2 * timer_list.len].l
      /\ installed' = installed \ {h}
      /\ elapsed' = [elapsed EXCEPT ![h] = 0]
      /\ meta' = [meta EXCEPT ![h] = NoMeta]
      /\ UNCHANGED <<hwtimer_list, timer_cpu, phase, early>>

-----------------------------------------------------------------------------
\* timer_ticked calls a handler when the time it asked for has passed, at most one
\* tick of its timer early (the tick in which it was installed counts as a whole
\* one) and less than one tick late, and no handler's time passes uncalled.
OnTime ==
  /\ ~early
  /\ \A h \in installed : elapsed[h] < meta[h].orig_ticks + Hw[meta[h].tim].tick

\* timer_list holds the handlers that are installed, each once and, on a per-CPU
\* timer, on one of the CPU that installed it; its maintenance touches no memory but
\* its nodes.
HandlersKept ==
  /\ ~timer_list.wild
  /\ timer_list.len = Cardinality(installed)
  /\ ToSet(Elements(timer_list)) = installed
  /\ \A h \in installed : PerCpu(meta[h].tim) => timer_cpu[meta[h].tim] = meta[h].cpu

\* "Insert in order - lowest ticks first, highest last": of the handlers that
\* were just installed, with no tick since, the ones with fewer ticks come first.
LowestFirst ==
  LET e == Elements(timer_list)
  IN  (\A h \in installed : elapsed[h] = 0)
        => \A i, j \in DOMAIN e : i < j => meta[e[i]].ticks <= meta[e[j]].ticks
=============================================================================
