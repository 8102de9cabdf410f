------------------------------ MODULE MultiCpu ------------------------------
(***************************************************************************)
(* smp.c and apic.c: how the first processor (the BSP) starts the others   *)
(* (the APs) one after the other, and how it makes them run functions.     *)
(*                                                                         *)
(* Both use a spinlock that one CPU takes and another one releases:        *)
(* init_slock goes from start_processor to the scheduler of the new CPU,   *)
(* crosscpu_lock from multicpu_call to the interrupt handler of the CPU    *)
(* called.  Taking a lock is one step here: Spinlock shows why it may be.  *)
(*                                                                         *)
(* Each CPU has a thread and, while "isr" is not "none", the interrupt     *)
(* handler that has suspended it.  Only the BSP gets the interrupts of the *)
(* global timers; their handlers may belong to another CPU (do_th).        *)
(***************************************************************************)
EXTENDS Naturals, Sequences, FiniteSets

CONSTANTS AP, BSP,
          MaxCalls          \* bound on the calls made

ASSUME CpuAssumption == BSP \notin AP

CPU == AP \cup {BSP}

VARIABLES
  pc,             \* where the thread of each CPU is
  isr,            \* where its interrupt handler is, or "none"
  ints,           \* its interrupt flag
  starting,       \* the argument of start_processor
  init_slock,     \* locked and wasints
  started,        \* proc->started
  startup,        \* STARTUP interrupts on their way
  alive,          \* the CPUs that the scheduler has
  bootstack,      \* the CPUs with a context on the stack of ap.16bit.s
  owner,          \* the CPUs that have installed a handler on a global timer
  timer_installed,\* sleep.c has installed its handler
  calling,        \* the argument cpu of multicpu_call
  crosscpu_lock,  \* locked and wasints; NoLock before it is created
  crosscpu_func,  \* the call to run, or 0
  ipi,            \* the CPUs with a LAPIC_CROSSCPU interrupt pending
  asked, done     \* the CPUs called, in order; the CPUs that ran a call

bootVars == <<starting, init_slock, started, startup, alive, bootstack>>
callVars == <<owner, timer_installed, calling, crosscpu_func, ipi, asked, done>>
mailVars == <<calling, crosscpu_func, ipi, asked, done>>
vars == <<pc, isr, ints, bootVars, crosscpu_lock, callVars>>

NoLock == [locked |-> FALSE, wasints |-> FALSE, exists |-> FALSE]
create_spinlock == [locked |-> FALSE, wasints |-> FALSE, exists |-> TRUE]

Init ==
  /\ pc = [c \in CPU |-> IF c = BSP THEN "init2" ELSE "off"]
  /\ isr = [c \in CPU |-> "none"]
  /\ ints = [c \in CPU |-> c = BSP]
  /\ starting = BSP
  /\ init_slock = create_spinlock
  /\ started = {} /\ startup = {} /\ bootstack = {}
  /\ alive = {BSP}
  /\ owner = {} /\ timer_installed = FALSE
  /\ calling = BSP
  /\ crosscpu_lock = NoLock
  /\ crosscpu_func = 0
  /\ ipi = {}
  /\ asked = <<>> /\ done = <<>>

Goto(c, from, to) ==
  /\ pc[c] = from /\ isr[c] = "none"
  /\ pc' = [pc EXCEPT ![c] = to]
  /\ UNCHANGED isr

Handle(c, from, to) ==
  /\ isr[c] = from
  /\ isr' = [isr EXCEPT ![c] = to]
  /\ UNCHANGED pc

SetInts(c, on) == ints' = [ints EXCEPT ![c] = on]

\* What spinlock_acquire leaves in a free lock, and spinlock_release in a held one.
Taken(lock, c) == [locked |-> TRUE, wasints |-> ints[c], exists |-> lock.exists]
Freed(lock) == [locked |-> FALSE, wasints |-> lock.wasints, exists |-> lock.exists]

-----------------------------------------------------------------------------
(* The BSP starts the APs. *)

\* multicpu_start and the first lines of start_processor.
multicpu_start(c) ==
  /\ Goto(BSP, "init2", "sendipi")
  /\ c \notin started
  /\ ~init_slock.locked
  /\ crosscpu_lock' = IF crosscpu_lock.exists THEN crosscpu_lock ELSE create_spinlock
  /\ init_slock' = Taken(init_slock, BSP)
  /\ SetInts(BSP, FALSE)
  /\ starting' = c
  /\ UNCHANGED <<started, startup, alive, bootstack, callVars>>

\* INIT and the two STARTUP interrupts; a CPU that runs ignores the second.
SendIpi ==
  /\ Goto(BSP, "sendipi", "wait")
  /\ startup' = startup \cup {starting}
  /\ UNCHANGED <<ints, starting, init_slock, started, alive, bootstack,
                 crosscpu_lock, callVars>>

\* Mutant of StartDone: start_processor does not take the lock again.
StartDone_NoWait ==
  /\ Goto(BSP, "wait", "init2")
  /\ started' = started \cup {starting}
  /\ UNCHANGED <<ints, starting, init_slock, startup, alive, bootstack,
                 crosscpu_lock, callVars>>

\* The second acquire and the release: wasints is now the flag of a CPU whose
\* interrupts are off already.
StartDone ==
  /\ Goto(BSP, "wait", "init2")
  /\ ~init_slock.locked
  /\ init_slock' = Freed(Taken(init_slock, BSP))
  /\ started' = started \cup {starting}
  /\ UNCHANGED <<ints, starting, startup, alive, bootstack, crosscpu_lock, callVars>>

\* init2 starts the scheduler and ends; the next thread has its own flag.
InitReturns ==
  /\ Goto(BSP, "init2", "run")
  /\ started = AP
  /\ SetInts(BSP, TRUE)
  /\ UNCHANGED <<bootVars, crosscpu_lock, callVars>>

-----------------------------------------------------------------------------
(* An AP comes up. *)

\* The start-up code runs on the one stack that all APs are given.
ApEntry(c) ==
  /\ c \in startup
  /\ startup' = startup \ {c}
  /\ Goto(c, "off", "cpuinit")
  /\ bootstack' = bootstack \cup {c}
  /\ UNCHANGED <<ints, starting, init_slock, started, alive, crosscpu_lock, callVars>>

\* Mutant of multicpu_cpuinit: the lock is released where the comment says so,
\* before the scheduler has the CPU.
multicpu_cpuinit_Early(c) ==
  /\ Goto(c, "cpuinit", "cpualive")
  /\ init_slock' = Freed(init_slock)
  /\ UNCHANGED <<ints, starting, started, startup, alive, bootstack,
                 crosscpu_lock, callVars>>

\* The CPU's own data, local APIC, GDT and IDT.
multicpu_cpuinit(c) ==
  /\ Goto(c, "cpuinit", "cpualive")
  /\ UNCHANGED <<ints, bootVars, crosscpu_lock, callVars>>

\* Mutant of sched_cpualive: a CPU that finds no ready thread goes idle without
\* a switch, and keeps the lock.
sched_cpualive_Kept(c) ==
  /\ \E next \in {"idle", "run"} :
       /\ Goto(c, "cpualive", next)
       /\ SetInts(c, next = "run")
       /\ init_slock' = [init_slock EXCEPT !.locked = next = "idle"]
  /\ alive' = alive \cup {c}
  /\ UNCHANGED <<starting, started, startup, bootstack, crosscpu_lock, callVars>>

\* sched_cpualive makes an idle thread for the CPU, installs its time slice
\* handler (on a timer of its own or on a global one) and switches to a ready
\* thread, or to the idle thread itself, whose context is the one just saved
\* on this stack; the switch releases the lock.
sched_cpualive(c) ==
  /\ \E next \in {"idle", "run"} :
       /\ Goto(c, "cpualive", next)
       /\ SetInts(c, next = "run")
  /\ alive' = alive \cup {c}
  /\ owner' \in {owner, owner \cup {c}}
  /\ init_slock' = Freed(init_slock)
  /\ UNCHANGED <<starting, started, startup, bootstack, crosscpu_lock,
                 timer_installed, mailVars>>

\* The idle thread switches interrupts on.
idle(c) ==
  /\ Goto(c, "idle", "run")
  /\ SetInts(c, TRUE)
  /\ UNCHANGED <<bootVars, crosscpu_lock, callVars>>

-----------------------------------------------------------------------------
(* What the threads of a running CPU do. *)

\* A critical section begins or ends.
Toggle(c, on) ==
  /\ Goto(c, "run", "run") /\ ints[c] # on
  /\ SetInts(c, on)
  /\ UNCHANGED <<bootVars, crosscpu_lock, callVars>>

\* sleep_ms, the first time: its handler belongs to this CPU.
install_timer(c) ==
  /\ Goto(c, "run", "run")
  /\ ~timer_installed
  /\ timer_installed' = TRUE
  /\ owner' = owner \cup {c}
  /\ UNCHANGED <<ints, bootVars, crosscpu_lock, mailVars>>

-----------------------------------------------------------------------------
(* A call from the BSP to another CPU. *)

\* A global timer interrupts the BSP.
Tick ==
  /\ ints[BSP] /\ Handle(BSP, "none", "ticked")
  /\ SetInts(BSP, FALSE)
  /\ UNCHANGED <<bootVars, crosscpu_lock, callVars>>

\* do_th, for a handler of CPU c that has expired.
do_th(c) ==
  /\ Handle(BSP, "ticked", "call")
  /\ Len(asked) < MaxCalls
  /\ calling' = c
  /\ UNCHANGED <<ints, bootVars, crosscpu_lock, owner, timer_installed,
                 crosscpu_func, ipi, asked, done>>

\* Mutant of multicpu_call: the mailbox is not locked.
multicpu_call_Unlocked ==
  /\ Handle(BSP, "call", "send")
  /\ crosscpu_func' = Len(asked) + 1
  /\ asked' = Append(asked, calling)
  /\ UNCHANGED <<ints, bootVars, crosscpu_lock, owner, timer_installed, calling, ipi, done>>

\* spinlock_acquire waits until the CPU called before has run its function.
multicpu_call ==
  /\ Handle(BSP, "call", "send")
  /\ ~crosscpu_lock.locked
  /\ crosscpu_lock' = Taken(crosscpu_lock, BSP)
  /\ crosscpu_func' = Len(asked) + 1
  /\ asked' = Append(asked, calling)
  /\ UNCHANGED <<ints, bootVars, owner, timer_installed, calling, ipi, done>>

lapic_ipi ==
  /\ Handle(BSP, "send", "ticked")
  /\ ipi' = ipi \cup {calling}
  /\ UNCHANGED <<ints, bootVars, crosscpu_lock, owner, timer_installed, calling,
                 crosscpu_func, asked, done>>

\* No further handler has expired; the return puts the flag back.
TickReturns ==
  /\ Handle(BSP, "ticked", "none")
  /\ SetInts(BSP, TRUE)
  /\ UNCHANGED <<bootVars, crosscpu_lock, callVars>>

-----------------------------------------------------------------------------
(* The CPU that is called. *)

CrossCpuInterrupt(c) ==
  /\ c \in ipi /\ ints[c] /\ Handle(c, "none", "func")
  /\ SetInts(c, FALSE)
  /\ ipi' = ipi \ {c}
  /\ UNCHANGED <<bootVars, crosscpu_lock, owner, timer_installed, calling,
                 crosscpu_func, asked, done>>

\* The function runs, if there is one.
lapic_localint(c) ==
  /\ Handle(c, "func", IF crosscpu_func = 0 THEN "ack" ELSE "clear")
  /\ done' = IF crosscpu_func = 0 THEN done ELSE Append(done, <<crosscpu_func, c>>)
  /\ UNCHANGED <<ints, bootVars, crosscpu_lock, owner, timer_installed, calling,
                 crosscpu_func, ipi, asked>>

Clear(c) ==
  /\ Handle(c, "clear", "release")
  /\ crosscpu_func' = 0
  /\ UNCHANGED <<ints, bootVars, crosscpu_lock, owner, timer_installed, calling,
                 ipi, asked, done>>

\* Mutant of Release: the call is run and the lock is kept.
Release_Kept(c) ==
  /\ Handle(c, "release", "ack")
  /\ UNCHANGED <<ints, bootVars, crosscpu_lock, callVars>>

\* spinlock_release restores here the flag that was saved on the BSP.
Release(c) ==
  /\ Handle(c, "release", "ack")
  /\ crosscpu_lock' = Freed(crosscpu_lock)
  /\ SetInts(c, crosscpu_lock.wasints)
  /\ UNCHANGED <<bootVars, callVars>>

lapic_ack(c) ==
  /\ Handle(c, "ack", "none")
  /\ SetInts(c, TRUE)
  /\ UNCHANGED <<bootVars, crosscpu_lock, callVars>>

-----------------------------------------------------------------------------
Start == (\E c \in AP : multicpu_start(c)) \/ SendIpi \/ StartDone \/ InitReturns

ApUp(c) == ApEntry(c) \/ multicpu_cpuinit(c) \/ sched_cpualive(c) \/ idle(c)

\* do_th calls another CPU only for a handler that CPU has installed.
Expire == \E c \in owner \ {BSP} : do_th(c)

Call == multicpu_call \/ lapic_ipi

Answer(c) == lapic_localint(c) \/ Clear(c) \/ Release(c) \/ lapic_ack(c)

Next ==
  \/ Start
  \/ \E c \in AP : ApUp(c)
  \/ \E c \in CPU, on \in BOOLEAN : Toggle(c, on)
  \/ \E c \in CPU : install_timer(c)
  \/ Tick \/ Expire \/ Call \/ TickReturns
  \/ \E c \in AP : CrossCpuInterrupt(c) \/ Answer(c)

Spec == Init /\ [][Next]_vars

\* Every CPU goes on, the BSP between ticks too; critical sections end; a CPU
\* takes a pending interrupt when its interrupts are on again and again.
FairSpec ==
  /\ Spec
  /\ SF_vars(Start) /\ WF_vars(Call) /\ WF_vars(TickReturns)
  /\ \A c \in AP : /\ WF_vars(ApUp(c)) /\ WF_vars(Answer(c))
                   /\ SF_vars(CrossCpuInterrupt(c))
  /\ \A c \in CPU : WF_vars(Toggle(c, TRUE))

-----------------------------------------------------------------------------
\* The variables of the model stay in their types.
TypeOK ==
  /\ pc \in [CPU -> {"off", "init2", "sendipi", "wait", "cpuinit", "cpualive",
                     "idle", "run"}]
  /\ isr \in [CPU -> {"none", "ticked", "call", "send", "func", "clear", "release", "ack"}]
  /\ ints \in [CPU -> BOOLEAN]
  /\ starting \in CPU /\ calling \in CPU /\ timer_installed \in BOOLEAN
  /\ {init_slock, crosscpu_lock} \subseteq
       [locked : BOOLEAN, wasints : BOOLEAN, exists : BOOLEAN]
  /\ started \subseteq AP /\ startup \subseteq AP /\ ipi \subseteq AP
  /\ bootstack \subseteq AP /\ alive \subseteq CPU /\ owner \subseteq CPU
  /\ crosscpu_func \in 0..MaxCalls
  /\ Len(asked) <= MaxCalls

\* start_processor returns only when the scheduler has the new CPU: it waits for
\* the lock that the context switch of that CPU releases.
StartedIsAlive == started \subseteq alive

\* At most one AP runs the start-up code, whose stack and page they share.
StartsOneAtATime ==
  Cardinality({c \in AP : c \in startup \/ pc[c] \in {"cpuinit", "cpualive"}}) <= 1

\* Each function is run once, by the CPU that was called, in the order of the
\* calls; none is lost in the mailbox crosscpu_func.
CallsRunOnce ==
  /\ \A i \in DOMAIN done : done[i] = <<i, asked[i]>>
  /\ Len(done) + 1 >= Len(asked)

\* Whatever the called CPU is doing, the call is run in the end, and the BSP
\* does not wait for ever, with interrupts off, for the one before.
CallRuns ==
  /\ \A i \in 1..MaxCalls : Len(asked) >= i ~> Len(done) >= i
  /\ isr[BSP] = "call" ~> isr[BSP] # "call"

\* Every AP is started.
AllStart == <>(started = AP)

\* ap.16bit.s: "Once the AP has started up, it will switch to a different kernel
\* stack and won't need this one anymore."
LeavesBootStack == bootstack \cap alive = {}

\* multicpu.h: "This function will block until the receiving CPU begins executing
\* the given code."
CallBlocks == isr[BSP] = "none" => Len(done) = Len(asked)

\* start_processor gives the BSP back the interrupt flag it was called with.
StartKeepsInterrupts == pc[BSP] = "init2" => ints[BSP] \/ isr[BSP] # "none"
=============================================================================
