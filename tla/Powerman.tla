------------------------------ MODULE Powerman ------------------------------
(***************************************************************************)
(* powerman.c, with the PC's power.c below it and the x86 callback         *)
(* vmem_powerstate_change of vmem.c above it.  The list of callbacks is    *)
(* only appended to and removed from, uses for which llist.c behaves as a  *)
(* sequence (Lists, ListProof).                                            *)
(***************************************************************************)
EXTENDS Naturals, SequencesExt

CONSTANTS CPU, NULL,
          Callback,
          Vmem,         \* vmem_powerstate_change, the first callback installed
          Requested,    \* the states powerman_enter is called with
          Supported     \* the ACPI sleep states of the machine

WORKING == 0
OFF == 5
MAX == 5

ASSUME PowerAssumption ==
  /\ Vmem \in Callback /\ Requested \subseteq 1..OFF /\ Supported \subseteq 0..5
  /\ NULL \notin CPU /\ NULL \notin 0..5

VARIABLES current_state, cblist,
          lock,             \* the holder of powerman_spinlock
          pc, arg,          \* what each CPU executes, and its argument
          n,                \* the next callback to call
          old_state,
          pdir0,            \* pdir[0]: "table", "large" or "none"
          persist_pdir,
          told              \* ghost: the last state each callback was called with

vars == <<current_state, cblist, lock, pc, arg, n, old_state, pdir0, persist_pdir, told>>
paging == <<pdir0, persist_pdir>>

\* powerman_earlyinit succeeded and devices.c installed the first callback.
Init ==
  /\ current_state = WORKING /\ cblist = <<Vmem>>
  /\ lock = NULL /\ n = 1 /\ old_state = WORKING
  /\ pc = [c \in CPU |-> "idle"] /\ arg = [c \in CPU |-> NULL]
  /\ pdir0 = "table" /\ persist_pdir = "none"
  /\ told = [b \in Callback |-> NULL]

-----------------------------------------------------------------------------
Call(c, op, x) ==
  /\ pc[c] = "idle"
  /\ pc' = [pc EXCEPT ![c] = IF current_state = MAX THEN "idle" ELSE op]
  /\ arg' = [arg EXCEPT ![c] = IF current_state = MAX THEN NULL ELSE x]

Return(c) == pc' = [pc EXCEPT ![c] = "idle"] /\ arg' = [arg EXCEPT ![c] = NULL]

Goto(c, l) == pc' = [pc EXCEPT ![c] = l] /\ arg' = arg

\* powerman_init, when platform_powerman_init fails; success changes nothing.
powerman_init_fails ==
  /\ current_state = WORKING /\ \A c \in CPU : pc[c] = "idle"
  /\ current_state' = MAX
  /\ cblist' = <<>>
  /\ UNCHANGED <<lock, pc, arg, n, old_state, paging, told>>

\* Each entry point reads current_state before it takes the lock.
powerman_installcallback(c, b) ==
  /\ b \notin ToSet(cblist) /\ \A d \in CPU : arg[d] # b
  /\ Call(c, "install", b)
  /\ UNCHANGED <<current_state, cblist, lock, n, old_state, paging, told>>

InstallLocked(c) ==
  /\ pc[c] = "install" /\ lock = NULL
  /\ cblist' = Append(cblist, arg[c])
  /\ told' = [told EXCEPT ![arg[c]] = NULL]
  /\ Return(c)
  /\ UNCHANGED <<current_state, lock, n, old_state, paging>>

powerman_removecallback(c, b) ==
  /\ Call(c, "remove", b)
  /\ UNCHANGED <<current_state, cblist, lock, n, old_state, paging, told>>

\* The search for a callback that is not in the list does not end.
RemoveLocked(c) ==
  /\ pc[c] = "remove" /\ lock = NULL
  /\ \/ /\ \E i \in 1..Len(cblist) :
             /\ cblist[i] = arg[c] /\ \A j \in 1..i - 1 : cblist[j] # arg[c]
             /\ cblist' = RemoveAt(cblist, i)
        /\ lock' = lock
        /\ Return(c)
     \/ /\ ~Contains(cblist, arg[c])
        /\ lock' = c
        /\ Goto(c, "endless")
        /\ cblist' = cblist
  /\ UNCHANGED <<current_state, n, old_state, paging, told>>

powerman_enter(c, s) ==
  /\ Call(c, "enter", s)
  /\ UNCHANGED <<current_state, cblist, lock, n, old_state, paging, told>>

EnterLock(c) ==
  /\ pc[c] = "enter" /\ lock = NULL
  /\ lock' = c
  /\ n' = 1
  /\ Goto(c, "notify")
  /\ UNCHANGED <<current_state, cblist, old_state, paging, told>>

\* Mutant of CallBack: pdir[0] is replaced before it is saved.
CallBack_SavesLate(b, s) ==
  /\ told' = [told EXCEPT ![b] = s]
  /\ \/ b # Vmem /\ UNCHANGED paging
     \/ b = Vmem /\ s = WORKING /\ pdir0' = persist_pdir /\ persist_pdir' = persist_pdir
     \/ b = Vmem /\ s \in 1..OFF - 1 /\ persist_pdir' = "large" /\ pdir0' = "large"
     \/ b = Vmem /\ s = OFF /\ UNCHANGED paging

\* A callback b is called with state s.
CallBack(b, s) ==
  /\ told' = [told EXCEPT ![b] = s]
  /\ \/ b # Vmem /\ UNCHANGED paging
     \/ b = Vmem /\ s = WORKING /\ pdir0' = persist_pdir /\ persist_pdir' = persist_pdir
     \/ b = Vmem /\ s \in 1..OFF - 1 /\ persist_pdir' = pdir0 /\ pdir0' = "large"
     \/ b = Vmem /\ s = OFF /\ UNCHANGED paging

\* Mutant of Notify: the last callback is not called.
Notify_SkipsLast(c) ==
  /\ pc[c] = "notify"
  /\ \/ /\ n < Len(cblist)
        /\ CallBack(cblist[n], arg[c])
        /\ \/ n' = n + 1 /\ Goto(c, "notify")
           \/ cblist[n] # Vmem /\ n' = 1 /\ Goto(c, "back")
     \/ n >= Len(cblist) /\ n' = 1 /\ Goto(c, "prep") /\ UNCHANGED <<told, paging>>
  /\ UNCHANGED <<current_state, cblist, lock, old_state>>

\* The callbacks are asked in turn; vmem's never objects.
Notify(c) ==
  /\ pc[c] = "notify"
  /\ \/ /\ n <= Len(cblist)
        /\ CallBack(cblist[n], arg[c])
        /\ \/ n' = n + 1 /\ Goto(c, "notify")
           \/ cblist[n] # Vmem /\ n' = 1 /\ Goto(c, "back")
     \/ n > Len(cblist) /\ n' = 1 /\ Goto(c, "prep") /\ UNCHANGED <<told, paging>>
  /\ UNCHANGED <<current_state, cblist, lock, old_state>>

\* powerman_state_to_acpi: an unsupported S3, S2 or S1 is replaced by the next
\* lower state, and for any other unsupported state the loop does not end.
powerman_state_to_acpi(s) ==
  LET lower == {i \in 0..s : i = 0 \/ i \in Supported}
  IN  IF s \in Supported THEN s
      ELSE IF s \in 1..3 THEN CHOOSE i \in lower : \A j \in lower : j <= i
      ELSE NULL

\* Mutant of Prep: a failure does not start over at the first callback.
Prep_KeepsIndex(c) ==
  LET a == powerman_state_to_acpi(arg[c]) IN
  /\ pc[c] = "prep"
  /\ \/ a = NULL /\ Goto(c, "endless") /\ UNCHANGED <<current_state, old_state, n>>
     \/ a # NULL /\ Goto(c, "back") /\ n' = Len(cblist) /\ UNCHANGED <<current_state, old_state>>
     \/ /\ a # NULL /\ a # 0
        /\ old_state' = current_state
        /\ current_state' = arg[c]
        /\ n' = n
        /\ Goto(c, "platform")
  /\ UNCHANGED <<cblist, lock, paging, told>>

\* platform_powerman_prep refuses S0, and AcpiEnterSleepStatePrep may fail.
Prep(c) ==
  LET a == powerman_state_to_acpi(arg[c]) IN
  /\ pc[c] = "prep"
  /\ \/ a = NULL /\ Goto(c, "endless") /\ UNCHANGED <<current_state, old_state>>
     \/ a # NULL /\ Goto(c, "back") /\ UNCHANGED <<current_state, old_state>>
     \/ /\ a # NULL /\ a # 0
        /\ old_state' = current_state
        /\ current_state' = arg[c]
        /\ Goto(c, "platform")
  /\ UNCHANGED <<cblist, lock, n, paging, told>>

\* platform_powerman_enter fails, as it does for S4, or the machine sleeps and
\* resumes.
PlatformEnter(c) ==
  /\ pc[c] = "platform"
  /\ \/ current_state' = old_state
     \/ powerman_state_to_acpi(arg[c]) \in 1..3 /\ current_state' = WORKING
  /\ old_state' = WORKING
  /\ Goto(c, "back")
  /\ UNCHANGED <<cblist, lock, n, paging, told>>

\* The machine is switched off.
PowerOff(c) ==
  /\ pc[c] = "platform" /\ powerman_state_to_acpi(arg[c]) = OFF
  /\ pc' = [d \in CPU |-> "off"]
  /\ lock' = NULL
  /\ UNCHANGED <<current_state, cblist, arg, n, old_state, paging, told>>

\* Mutant of NotifyBack: the lock is not released.
NotifyBack_KeepsLock(c) ==
  /\ pc[c] = "back"
  /\ \/ n <= Len(cblist) /\ CallBack(cblist[n], current_state) /\ n' = n + 1
        /\ Goto(c, "back") /\ lock' = lock
     \/ n > Len(cblist) /\ n' = 1 /\ lock' = lock /\ Return(c) /\ UNCHANGED <<told, paging>>
  /\ UNCHANGED <<current_state, cblist, old_state>>

\* Every way out of powerman_enter tells all callbacks the state it ends in.
NotifyBack(c) ==
  /\ pc[c] = "back"
  /\ \/ n <= Len(cblist) /\ CallBack(cblist[n], current_state) /\ n' = n + 1
        /\ Goto(c, "back") /\ lock' = lock
     \/ n > Len(cblist) /\ n' = 1 /\ lock' = NULL /\ Return(c) /\ UNCHANGED <<told, paging>>
  /\ UNCHANGED <<current_state, cblist, old_state>>

Step(c) ==
  InstallLocked(c) \/ RemoveLocked(c) \/ EnterLock(c) \/ Notify(c) \/ Prep(c) \/ PlatformEnter(c)
    \/ PowerOff(c) \/ NotifyBack(c)

Next ==
  \/ powerman_init_fails
  \/ \E c \in CPU : \/ \E b \in Callback : powerman_installcallback(c, b)
                    \/ \E b \in Callback \ {Vmem} : powerman_removecallback(c, b)
                    \/ \E s \in Requested : powerman_enter(c, s)
                    \/ Step(c)

Spec == Init /\ [][Next]_vars

\* A CPU that is inside powerman.c goes on.
FairSpec == Spec /\ \A c \in CPU : WF_vars(Step(c))

-----------------------------------------------------------------------------
TypeOK ==
  /\ current_state \in WORKING..OFF /\ old_state \in WORKING..OFF
  /\ cblist \in Seq(Callback) /\ n \in 1..Len(cblist) + 1
  /\ lock \in CPU \cup {NULL}
  /\ pdir0 \in {"table", "large", "none"} /\ persist_pdir \in {"table", "large", "none"}

\* powerman_enter lets the platform leave the working state only after every
\* installed callback was called with the new state.
AskedBeforeSleep ==
  \A c \in CPU : pc[c] = "platform" => \A b \in ToSet(cblist) : told[b] = arg[c]

\* However a transition ends (a callback objects, the platform's preparation or
\* entry fails, the machine resumes), powerman_enter leaves no callback believing in
\* the state that was left or never entered.
ToldTheOutcome ==
  lock = NULL /\ current_state # MAX
    => \A b \in ToSet(cblist) : told[b] \in {NULL, current_state}

\* "Restore the old 0 - 4 MB page table": once a standby has saved pdir[0],
\* vmem_powerstate_change puts the table back however a transition ends.  Before
\* that, a power-off that fails restores a value that was never saved.
LowMemoryRestored == lock = NULL => pdir0 = "table" \/ persist_pdir = "none"

\* powerman_spinlock, held with interrupts disabled, is released again, unless
\* its holder searches for a callback that is not installed, or for a substitute
\* of S4 or S5.
LockReleased == lock # NULL ~> lock = NULL \/ \E c \in CPU : pc[c] = "endless"
=============================================================================
