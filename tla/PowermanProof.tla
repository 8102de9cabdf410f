---------------------------- MODULE PowermanProof ----------------------------
(***************************************************************************)
(* Proofs for Powerman, for any CPUs, any callbacks and any sleep states   *)
(* of the machine: every callback is asked before a transition and told    *)
(* its outcome, and the page table of the low memory comes back.           *)
(*                                                                         *)
(* The strengthening says, for each place in powerman_enter, which         *)
(* callbacks have been called with which state, and that the first one is  *)
(* vmem_powerstate_change, whatever else was installed or removed.         *)
(***************************************************************************)
EXTENDS Powerman, SequenceTheorems, TLAPS

Labels == {"idle", "install", "remove", "enter", "notify", "prep", "platform", "back",
           "endless", "off"}

\* The places with the lock held, and those of powerman_enter.
Inside == {"notify", "prep", "platform", "back", "endless"}
Entering == {"enter", "notify", "prep", "platform", "back"}

Types ==
  /\ cblist \in Seq(Callback) /\ n \in Nat \ {0}
  /\ lock \in CPU \cup {NULL}
  /\ pc \in [CPU -> Labels]
  /\ arg \in [CPU -> Callback \cup 0..5 \cup {NULL}]
  /\ told \in [Callback -> 0..5 \cup {NULL}]
  /\ persist_pdir \in {"table", "none"}

\* The page table is in place, or was lost before it was ever saved.
Sound == pdir0 = "table" \/ (pdir0 = "none" /\ persist_pdir = "none")

\* The first k callbacks were last called with state s.
Told(s, k) == \A i \in 1..k : told[cblist[i]] = s

\* What CPU c knows at the place where it is.
CpuInv(c) ==
  /\ pc[c] # "off"
  /\ pc[c] \in Inside => lock = c
  /\ pc[c] \in Entering => arg[c] \in 1..OFF
  /\ pc[c] \in {"install", "remove"} => arg[c] \in Callback \ {Vmem}
  /\ pc[c] = "notify" => /\ n - 1 <= Len(cblist) /\ Told(arg[c], n - 1)
                         /\ n = 1 \/ arg[c] = OFF => Sound
  /\ pc[c] \in {"prep", "platform"} =>
       n = 1 /\ Told(arg[c], Len(cblist)) /\ (arg[c] = OFF => Sound)
  /\ pc[c] = "platform" => current_state = arg[c] /\ old_state = WORKING
  /\ pc[c] = "back" => /\ n - 1 <= Len(cblist) /\ Told(WORKING, n - 1)
                       /\ n > 1 => Sound

\* vmem's callback is the first of the list, and nowhere else in it.
VmemFirst ==
  /\ Len(cblist) >= 1 /\ cblist[1] = Vmem
  /\ \A i \in 2..Len(cblist) : cblist[i] # Vmem

\* The power manager works.
Live ==
  /\ VmemFirst
  /\ \A c \in CPU : CpuInv(c)
  /\ (\A c \in CPU : pc[c] # "platform") => current_state = WORKING
  /\ lock # NULL => pc[lock] \in Inside
  /\ lock = NULL => Sound /\ \A i \in 1..Len(cblist) : told[cblist[i]] \in {NULL, WORKING}

\* It failed to initialise, or the machine is off.
Stopped ==
  /\ current_state = MAX /\ lock = NULL /\ Sound
  /\ (\A c \in CPU : pc[c] = "idle") \/ (\A c \in CPU : pc[c] = "off")

IInv == Types /\ (Live \/ Stopped)

-----------------------------------------------------------------------------
\* What list_remove leaves of the list: the elements before and after the one
\* removed, in their order.
LEMMA RemoveAtSeq ==
  ASSUME NEW S, NEW s \in Seq(S), NEW i \in 1..Len(s)
  PROVE  /\ RemoveAt(s, i) \in Seq(S)
         /\ Len(RemoveAt(s, i)) = Len(s) - 1
         /\ \A j \in 1..Len(s) - 1 : RemoveAt(s, i)[j] = IF j < i THEN s[j] ELSE s[j + 1]
  <1> DEFINE a == SubSeq(s, 1, i - 1)
             b == SubSeq(s, i + 1, Len(s))
  <1>0. Len(s) \in Nat /\ i \in Nat
    OBVIOUS
  <1>1. /\ a \in Seq(S) /\ Len(a) = i - 1 /\ \A j \in 1..i - 1 : a[j] = s[j]
        /\ b \in Seq(S) /\ Len(b) = Len(s) - i /\ \A j \in 1..Len(s) - i : b[j] = s[i + j]
    OBVIOUS
  <1>2. RemoveAt(s, i) = a \o b
    BY DEF RemoveAt
  <1> HIDE DEF a, b
  <1>3. a \o b \in Seq(S) /\ Len(a \o b) = Len(s) - 1
    <2>1. a \o b \in Seq(S) /\ Len(a \o b) = Len(a) + Len(b)
      BY <1>1, ConcatProperties, Zenon
    <2> QED BY <1>0, <1>1, <2>1
  <1>4. ASSUME NEW j \in 1..Len(s) - 1 PROVE (a \o b)[j] = IF j < i THEN s[j] ELSE s[j + 1]
    <2>1. CASE j < i
      BY <1>1, <2>1
    <2>2. CASE ~(j < i)
      <3>1. (a \o b)[j] = b[j - (i - 1)]
        BY <1>1, <2>2
      <3>2. j - (i - 1) \in 1..Len(s) - i /\ i + (j - (i - 1)) = j + 1
        BY <2>2
      <3> QED BY <1>1, <2>2, <3>1, <3>2
    <2> QED BY <2>1, <2>2
  <1> QED BY <1>2, <1>3, <1>4

\* powerman_state_to_acpi gives S5 for OFF only.
LEMMA OnlyOffIsS5 ==
  ASSUME NEW s \in 1..OFF, powerman_state_to_acpi(s) = OFF
  PROVE  s = OFF
  <1> USE PowerAssumption DEF OFF
  <1>1. CASE s \in Supported
    BY <1>1 DEF powerman_state_to_acpi
  <1>2. CASE s \notin Supported /\ s \in 1..3
    <2> DEFINE lower == {i \in 0..s : i = 0 \/ i \in Supported}
               m == CHOOSE i \in lower : \A j \in lower : j <= i
    <2>1. powerman_state_to_acpi(s) = m
      BY <1>2 DEF powerman_state_to_acpi
    <2>2. \E i \in lower : \A j \in lower : j <= i
      <3>1. CASE 3 \in lower
        BY <3>1, <1>2
      <3>2. CASE 3 \notin lower /\ 2 \in lower
        BY <3>2, <1>2
      <3>3. CASE 3 \notin lower /\ 2 \notin lower /\ 1 \in lower
        BY <3>3, <1>2
      <3>4. CASE 3 \notin lower /\ 2 \notin lower /\ 1 \notin lower
        BY <3>4, <1>2
      <3> QED BY <3>1, <3>2, <3>3, <3>4
    <2>3. m \in lower
      BY <2>2
    <2> QED BY <2>1, <2>3, <1>2
  <1>3. CASE s \notin Supported /\ s \notin 1..3
    BY <1>3 DEF powerman_state_to_acpi
  <1> QED BY <1>1, <1>2, <1>3
-----------------------------------------------------------------------------
\* The initial state: vmem's callback alone is installed, nobody is inside.
LEMMA InitInv == Init => IInv
  <1> SUFFICES ASSUME Init PROVE IInv
    OBVIOUS
  <1> USE PowerAssumption DEF Init, WORKING, OFF
  <1>1. Types
    BY DEF Types, Labels
  <1>2. Len(cblist) = 1 /\ cblist[1] = Vmem
    OBVIOUS
  <1>3. \A c \in CPU : CpuInv(c)
    BY DEF CpuInv, Inside, Entering
  <1>4. VmemFirst
    BY <1>2 DEF VmemFirst
  <1>5. Sound /\ \A i \in 1..Len(cblist) : told[cblist[i]] \in {NULL, WORKING}
    BY <1>2 DEF Sound
  <1> QED BY <1>1, <1>3, <1>4, <1>5 DEF IInv, Live

\* A CPU outside the lock depends on nothing but its own place and argument.
LEMMA Bystander ==
  ASSUME NEW d \in CPU, CpuInv(d), pc[d] \notin Inside,
         pc'[d] = pc[d], arg'[d] = arg[d]
  PROVE  CpuInv(d)'
  BY DEF CpuInv, Inside

\* A CPU is not disturbed by a step that leaves the shared state alone.
LEMMA Undisturbed ==
  ASSUME NEW d \in CPU, CpuInv(d), pc'[d] = pc[d], arg'[d] = arg[d],
         UNCHANGED <<current_state, cblist, lock, n, old_state, paging, told>>
  PROVE  CpuInv(d)'
  BY DEF CpuInv, Told, Sound, paging

\* Once stopped, the power manager stays so.
LEMMA StoppedStays == Types /\ Stopped /\ [Next]_vars => Types' /\ Stopped'
  <1> SUFFICES ASSUME Types, Stopped, [Next]_vars PROVE Types' /\ Stopped'
    OBVIOUS
  <1> USE DEF Types, Stopped, Sound, MAX, WORKING
  <1>1. CASE UNCHANGED vars
    BY <1>1 DEF vars
  <1>2. CASE powerman_init_fails
    BY <1>2 DEF powerman_init_fails
  <1>3. ASSUME NEW c \in CPU, NEW op, NEW x, Call(c, op, x),
               UNCHANGED <<current_state, cblist, lock, n, old_state, paging, told>>
        PROVE  Types' /\ Stopped'
    BY <1>3 DEF Call, paging, Labels
  <1>4. ASSUME NEW c \in CPU, Step(c) PROVE FALSE
    BY <1>4 DEF Step, InstallLocked, RemoveLocked, EnterLock, Notify, Prep, PlatformEnter,
       PowerOff, NotifyBack
  <1> QED BY <1>1, <1>2, <1>3, <1>4 DEF Next, powerman_installcallback,
             powerman_removecallback, powerman_enter

\* A call that starts: the caller looked at the state before it has the lock.
LEMMA CallKeepsLive ==
  ASSUME Types, Live, NEW c \in CPU, NEW op \in {"install", "remove", "enter"}, NEW x,
         op = "enter" => x \in 1..OFF,
         op \in {"install", "remove"} => x \in Callback \ {Vmem},
         Call(c, op, x),
         UNCHANGED <<current_state, cblist, lock, n, old_state, paging, told>>
  PROVE  Types' /\ Live'
  <1> USE PowerAssumption DEF OFF, WORKING
  <1>1. /\ pc[c] = "idle" /\ pc'[c] \in {"idle", op}
        /\ pc'[c] = op => arg'[c] = x
        /\ \A d \in CPU \ {c} : pc'[d] = pc[d] /\ arg'[d] = arg[d]
    BY DEF Call, Types
  <1>2. Types'
    BY DEF Call, Types, Labels, paging
  <1>3. CpuInv(c)'
    BY <1>1 DEF CpuInv, Inside, Entering
  <1>4. \A d \in CPU \ {c} : CpuInv(d)'
    BY <1>1, Undisturbed DEF Live
  <1>5. (lock # NULL => pc[lock] \in Inside)'
    BY <1>1 DEF Live, Types, Inside
  <1>6. (\A d \in CPU : pc'[d] # "platform") => current_state' = WORKING
    BY <1>1 DEF Live
  <1> QED BY <1>2, <1>3, <1>4, <1>5, <1>6 DEF Live, VmemFirst, Sound, paging

\* The lock is free: nobody is inside, and the machine works.
LEMMA FreeLock ==
  ASSUME Types, Live, lock = NULL
  PROVE  (\A d \in CPU : pc[d] \notin Inside) /\ current_state = WORKING
  BY PowerAssumption DEF Live, CpuInv, Inside

\* The lock is held: only its holder is inside.
LEMMA HeldLock ==
  ASSUME Types, Live, NEW c \in CPU, pc[c] \in Inside
  PROVE  /\ lock = c /\ \A d \in CPU \ {c} : pc[d] \notin Inside
         /\ pc[c] # "platform" => current_state = WORKING
  BY DEF Live, CpuInv, Inside

\* What is left to show for a step of CPU c when no other CPU is inside.
LEMMA StepKeepsLive ==
  ASSUME Live, NEW c \in CPU, \A d \in CPU \ {c} : pc[d] \notin Inside,
         \A d \in CPU \ {c} : pc'[d] = pc[d] /\ arg'[d] = arg[d],
         VmemFirst', CpuInv(c)',
         pc'[c] # "platform" => current_state' = WORKING,
         lock' # NULL => lock' = c /\ pc'[c] \in Inside,
         lock' = NULL => Sound' /\ \A i \in 1..Len(cblist') : told'[cblist'[i]] \in {NULL, WORKING}
  PROVE  Live'
  <1>1. \A d \in CPU : CpuInv(d)'
    BY Bystander DEF Live
  <1> QED BY <1>1 DEF Live

\* powerman_installcallback appends under the lock.
LEMMA InstallKeepsLive ==
  ASSUME Types, Live, NEW c \in CPU, InstallLocked(c) PROVE Types' /\ Live'
  <1> USE PowerAssumption DEF WORKING, OFF
  <1> DEFINE b == arg[c]
  <1>1. /\ pc[c] = "install" /\ lock = NULL /\ cblist' = Append(cblist, b)
        /\ told' = [told EXCEPT ![b] = NULL]
        /\ pc' = [pc EXCEPT ![c] = "idle"] /\ arg' = [arg EXCEPT ![c] = NULL]
        /\ UNCHANGED <<current_state, lock, n, old_state, pdir0, persist_pdir>>
    BY DEF InstallLocked, Return, paging
  <1>2. b \in Callback \ {Vmem}
    BY <1>1 DEF Live, CpuInv
  <1>3. (\A d \in CPU : pc[d] \notin Inside) /\ current_state = WORKING
    BY <1>1, FreeLock
  <1>4. Types'
    BY <1>1, <1>2 DEF Types, Labels
  <1>5. VmemFirst'
    BY <1>1, <1>2 DEF Live, VmemFirst, Types
  <1>6. pc'[c] = "idle" /\ \A d \in CPU \ {c} : pc'[d] = pc[d] /\ arg'[d] = arg[d]
    BY <1>1 DEF Types
  <1>7. CpuInv(c)'
    BY <1>6 DEF CpuInv, Inside, Entering
  <1>8. Sound' /\ \A i \in 1..Len(cblist') : told'[cblist'[i]] \in {NULL, WORKING}
    BY <1>1, <1>2 DEF Live, Sound, Types
  <1> QED BY <1>1, <1>3, <1>4, <1>5, <1>6, <1>7, <1>8, StepKeepsLive

\* powerman_removecallback removes under the lock, or searches for ever.
LEMMA RemoveKeepsLive ==
  ASSUME Types, Live, NEW c \in CPU, RemoveLocked(c) PROVE Types' /\ Live'
  <1> USE PowerAssumption DEF WORKING, OFF
  <1>1. /\ pc[c] = "remove" /\ lock = NULL
        /\ UNCHANGED <<current_state, n, old_state, pdir0, persist_pdir, told>>
    BY DEF RemoveLocked, paging
  <1>2. arg[c] \in Callback \ {Vmem}
    BY <1>1 DEF Live, CpuInv
  <1>3. (\A d \in CPU : pc[d] \notin Inside) /\ current_state = WORKING
    BY <1>1, FreeLock
  <1>4. Sound /\ \A i \in 1..Len(cblist) : told[cblist[i]] \in {NULL, WORKING}
    BY <1>1 DEF Live
  <1>5. CASE lock' = c /\ Goto(c, "endless") /\ cblist' = cblist
    <2>1. Types'
      BY <1>1, <1>5 DEF Types, Labels, Goto
    <2>2. pc'[c] = "endless" /\ \A d \in CPU \ {c} : pc'[d] = pc[d] /\ arg'[d] = arg[d]
      BY <1>5 DEF Goto, Types
    <2>3. CpuInv(c)'
      BY <1>5, <2>2 DEF CpuInv, Inside, Entering
    <2>4. VmemFirst'
      BY <1>5 DEF Live, VmemFirst
    <2> QED BY <1>1, <1>3, <1>5, <2>1, <2>2, <2>3, <2>4, StepKeepsLive DEF Inside
  <1>6. ASSUME NEW i \in 1..Len(cblist), cblist[i] = arg[c], cblist' = RemoveAt(cblist, i),
               lock' = lock, Return(c)
        PROVE  Types' /\ Live'
    <2>1. /\ cblist' \in Seq(Callback) /\ Len(cblist') = Len(cblist) - 1
          /\ \A j \in 1..Len(cblist) - 1 :
               cblist'[j] = IF j < i THEN cblist[j] ELSE cblist[j + 1]
      BY <1>6, RemoveAtSeq DEF Types
    <2>2. i > 1 /\ Len(cblist) \in Nat
      BY <1>2, <1>6 DEF Live, VmemFirst, Types
    <2>3. VmemFirst'
      BY <2>1, <2>2, SMTT(30) DEF Live, VmemFirst
    <2>4. pc'[c] = "idle" /\ \A d \in CPU \ {c} : pc'[d] = pc[d] /\ arg'[d] = arg[d]
      BY <1>6 DEF Return, Types
    <2>5. Types'
      BY <1>1, <1>6, <2>1 DEF Types, Labels, Return
    <2>6. CpuInv(c)'
      BY <2>4 DEF CpuInv, Inside, Entering
    <2>7. \A j \in 1..Len(cblist') : told'[cblist'[j]] \in {NULL, WORKING}
      BY <1>1, <1>4, <2>1, <2>2
    <2>8. Sound'
      BY <1>1, <1>4 DEF Sound
    <2> QED BY <1>1, <1>3, <1>6, <2>3, <2>4, <2>5, <2>6, <2>7, <2>8, StepKeepsLive
  <1> QED BY <1>5, <1>6 DEF RemoveLocked

\* powerman_enter takes the lock and starts with the first callback.
LEMMA EnterKeepsLive ==
  ASSUME Types, Live, NEW c \in CPU, EnterLock(c) PROVE Types' /\ Live'
  <1> USE PowerAssumption DEF WORKING, OFF
  <1>1. /\ pc[c] = "enter" /\ lock = NULL /\ lock' = c /\ n' = 1
        /\ pc' = [pc EXCEPT ![c] = "notify"] /\ arg' = arg
        /\ UNCHANGED <<current_state, cblist, old_state, pdir0, persist_pdir, told>>
    BY DEF EnterLock, Goto, paging
  <1>2. arg[c] \in 1..5 /\ Sound /\ VmemFirst
    BY <1>1 DEF Live, CpuInv, Entering
  <1>3. (\A d \in CPU : pc[d] \notin Inside) /\ current_state = WORKING
    BY <1>1, FreeLock
  <1>4. Types'
    BY <1>1 DEF Types, Labels
  <1>5. VmemFirst' /\ Len(cblist) \in Nat
    BY <1>1, <1>2 DEF VmemFirst, Types
  <1>6. pc'[c] = "notify" /\ \A d \in CPU \ {c} : pc'[d] = pc[d] /\ arg'[d] = arg[d]
    BY <1>1 DEF Types
  <1>7. CpuInv(c)'
    BY <1>1, <1>2, <1>5, <1>6 DEF CpuInv, Inside, Entering, Told, Sound
  <1> QED BY <1>1, <1>3, <1>4, <1>5, <1>6, <1>7, StepKeepsLive DEF Inside

\* One callback is called: it is told, and only vmem's touches the page table.
LEMMA CallBackEffect ==
  ASSUME Types, VmemFirst, n <= Len(cblist), NEW s \in 0..5, CallBack(cblist[n], s),
         cblist' = cblist, Told(s, n - 1), s # WORKING /\ n = 1 => Sound
  PROVE  /\ told' \in [Callback -> 0..5 \cup {NULL}]
         /\ \A i \in 1..n : told'[cblist'[i]] = s
         /\ persist_pdir' \in {"table", "none"}
         /\ n > 1 \/ s = OFF => UNCHANGED <<pdir0, persist_pdir>>
         /\ n = 1 /\ s = WORKING => Sound'
  <1> USE PowerAssumption DEF OFF, WORKING
  <1>1. cblist[n] \in Callback /\ \A i \in 1..n : cblist[i] \in Callback
    BY DEF Types
  <1>2. told' = [told EXCEPT ![cblist[n]] = s]
    BY DEF CallBack
  <1>3. \A i \in 1..n : told'[cblist'[i]] = s
    BY <1>1, <1>2 DEF Types, Told
  <1>4. CASE n > 1
    <2>1. cblist[n] # Vmem
      BY <1>4 DEF VmemFirst, Types
    <2>2. UNCHANGED <<pdir0, persist_pdir>>
      BY <2>1 DEF CallBack, paging
    <2> QED BY <1>1, <1>2, <1>3, <1>4, <2>2 DEF Types
  <1>5. CASE n = 1
    <2>1. cblist[n] = Vmem
      BY <1>5 DEF VmemFirst
    <2>2. \/ s = WORKING /\ pdir0' = persist_pdir /\ persist_pdir' = persist_pdir
          \/ s \in 1..OFF - 1 /\ persist_pdir' = pdir0 /\ pdir0' = "large"
          \/ s = OFF /\ UNCHANGED <<pdir0, persist_pdir>>
      BY <2>1 DEF CallBack, paging
    <2>3. told' \in [Callback -> 0..5 \cup {NULL}]
      BY <1>1, <1>2 DEF Types
    <2> QED BY <1>3, <1>5, <2>2, <2>3 DEF Types, Sound
  <1> QED BY <1>4, <1>5 DEF Types

\* The callbacks are asked in turn; one of them may object.
LEMMA NotifyKeepsLive ==
  ASSUME Types, Live, NEW c \in CPU, Notify(c) PROVE Types' /\ Live'
  <1> USE PowerAssumption DEF WORKING, OFF
  <1>1. pc[c] = "notify" /\ UNCHANGED <<current_state, cblist, lock, old_state>>
    BY DEF Notify
  <1>2. /\ lock = c /\ (\A d \in CPU \ {c} : pc[d] \notin Inside) /\ current_state = WORKING
    BY <1>1, HeldLock DEF Inside
  <1>3. /\ arg[c] \in 1..5 /\ n - 1 <= Len(cblist) /\ Told(arg[c], n - 1) /\ VmemFirst
        /\ n = 1 \/ arg[c] = OFF => Sound
    BY <1>1 DEF Live, CpuInv, Entering
  <1>4. VmemFirst' /\ Len(cblist) \in Nat /\ n \in Nat \ {0} /\ Len(cblist) >= 1
    BY <1>1, <1>3 DEF VmemFirst, Types
  <1>5. ASSUME NEW l \in {"notify", "prep", "back"}, Goto(c, l)
        PROVE  /\ pc' \in [CPU -> Labels] /\ arg' = arg /\ pc'[c] = l
               /\ \A d \in CPU \ {c} : pc'[d] = pc[d] /\ arg'[d] = arg[d]
    BY <1>5 DEF Goto, Types, Labels
  <1>6. CASE n > Len(cblist) /\ n' = 1 /\ Goto(c, "prep") /\ UNCHANGED <<told, paging>>
    <2>1. CpuInv(c)'
      BY <1>1, <1>2, <1>3, <1>4, <1>5, <1>6 DEF CpuInv, Inside, Entering, Told, Sound, paging
    <2>2. Types'
      BY <1>1, <1>5, <1>6 DEF Types, paging
    <2> QED BY <1>1, <1>2, <1>4, <1>5, <1>6, <2>1, <2>2, StepKeepsLive DEF Inside
  <1>7. CASE n <= Len(cblist) /\ CallBack(cblist[n], arg[c])
    <2>1. /\ told' \in [Callback -> 0..5 \cup {NULL}] /\ persist_pdir' \in {"table", "none"}
          /\ \A i \in 1..n : told'[cblist'[i]] = arg[c]
          /\ arg[c] = OFF => UNCHANGED <<pdir0, persist_pdir>>
      BY <1>1, <1>3, <1>7, CallBackEffect
    <2>2. CASE n' = n + 1 /\ Goto(c, "notify")
      <3>1. arg[c] = OFF => Sound'
        BY <1>3, <2>1 DEF Sound
      <3>2. Told(arg[c], n - 1)'
        BY <1>4, <1>5, <2>1, <2>2 DEF Told
      <3>3. CpuInv(c)'
        BY <1>1, <1>2, <1>3, <1>4, <1>5, <1>7, <2>2, <3>1, <3>2 DEF CpuInv, Inside, Entering
      <3>4. Types'
        BY <1>1, <1>5, <2>1, <2>2 DEF Types
      <3> QED BY <1>1, <1>2, <1>4, <1>5, <2>2, <3>3, <3>4, StepKeepsLive DEF Inside
    <2>3. CASE n' = 1 /\ Goto(c, "back")
      <3>1. CpuInv(c)'
        BY <1>1, <1>2, <1>3, <1>4, <1>5, <2>3 DEF CpuInv, Inside, Entering, Told
      <3>2. Types'
        BY <1>1, <1>5, <2>1, <2>3 DEF Types
      <3> QED BY <1>1, <1>2, <1>4, <1>5, <2>3, <3>1, <3>2, StepKeepsLive DEF Inside
    <2> QED BY <1>1, <1>6, <1>7, <2>2, <2>3 DEF Notify
  <1> QED BY <1>6, <1>7 DEF Notify

\* The platform's preparation fails, never ends, or lets the transition go on.
LEMMA PrepKeepsLive ==
  ASSUME Types, Live, NEW c \in CPU, Prep(c) PROVE Types' /\ Live'
  <1> USE PowerAssumption DEF WORKING, OFF
  <1>1. pc[c] = "prep" /\ UNCHANGED <<cblist, lock, n, pdir0, persist_pdir, told>>
    BY DEF Prep, paging
  <1>2. /\ lock = c /\ (\A d \in CPU \ {c} : pc[d] \notin Inside) /\ current_state = WORKING
    BY <1>1, HeldLock DEF Inside
  <1>3. /\ arg[c] \in 1..5 /\ n = 1 /\ Told(arg[c], Len(cblist)) /\ VmemFirst
        /\ arg[c] = OFF => Sound
    BY <1>1 DEF Live, CpuInv, Entering
  <1>4. VmemFirst' /\ Len(cblist) \in Nat
    BY <1>1, <1>3 DEF VmemFirst, Types
  <1>5. PICK l \in {"endless", "back", "platform"} :
             /\ Goto(c, l)
             /\ IF l = "platform" THEN old_state' = current_state /\ current_state' = arg[c]
                                  ELSE UNCHANGED <<current_state, old_state>>
    BY DEF Prep
  <1>6. /\ pc' \in [CPU -> Labels] /\ arg' = arg /\ pc'[c] = l
        /\ \A d \in CPU \ {c} : pc'[d] = pc[d] /\ arg'[d] = arg[d]
    BY <1>5 DEF Goto, Types, Labels
  <1>7. Types'
    BY <1>1, <1>6 DEF Types
  <1>8. Told(arg[c], Len(cblist))' /\ (arg[c] = OFF => Sound')
    BY <1>1, <1>3, <1>6 DEF Told, Sound
  <1>9. Told(WORKING, n - 1)' /\ n' - 1 <= Len(cblist')
    BY <1>1, <1>3, <1>4 DEF Told
  <1>10. CpuInv(c)'
    BY <1>1, <1>2, <1>3, <1>5, <1>6, <1>8, <1>9 DEF CpuInv, Inside, Entering
  <1> QED BY <1>1, <1>2, <1>4, <1>5, <1>6, <1>7, <1>10, StepKeepsLive DEF Inside

\* The machine does not sleep, or has resumed.
LEMMA PlatformKeepsLive ==
  ASSUME Types, Live, NEW c \in CPU, PlatformEnter(c) PROVE Types' /\ Live'
  <1> USE PowerAssumption DEF WORKING, OFF
  <1>1. /\ pc[c] = "platform" /\ Goto(c, "back")
        /\ UNCHANGED <<cblist, lock, n, pdir0, persist_pdir, told>>
    BY DEF PlatformEnter, paging
  <1>2. lock = c /\ \A d \in CPU \ {c} : pc[d] \notin Inside
    BY <1>1, HeldLock DEF Inside
  <1>3. arg[c] \in 1..5 /\ n = 1 /\ VmemFirst /\ old_state = WORKING
    BY <1>1 DEF Live, CpuInv, Entering
  <1>4. VmemFirst' /\ Len(cblist) \in Nat /\ current_state' = WORKING
    BY <1>1, <1>3 DEF VmemFirst, Types, PlatformEnter
  <1>5. /\ pc' \in [CPU -> Labels] /\ arg' = arg /\ pc'[c] = "back"
        /\ \A d \in CPU \ {c} : pc'[d] = pc[d] /\ arg'[d] = arg[d]
    BY <1>1 DEF Goto, Types, Labels
  <1>6. Types'
    BY <1>1, <1>5 DEF Types
  <1>7. CpuInv(c)'
    BY <1>1, <1>2, <1>3, <1>4, <1>5 DEF CpuInv, Inside, Entering, Told
  <1> QED BY <1>1, <1>2, <1>4, <1>5, <1>6, <1>7, StepKeepsLive DEF Inside

\* A machine that is switched off had been asked to, with its page table in place.
LEMMA PowerOffStops ==
  ASSUME Types, Live, NEW c \in CPU, PowerOff(c) PROVE Types' /\ Stopped'
  <1> USE PowerAssumption DEF WORKING, OFF, MAX
  <1>1. arg[c] \in 1..5 /\ current_state = arg[c] /\ (arg[c] = OFF => Sound)
    BY DEF Live, CpuInv, Entering, PowerOff
  <1>2. arg[c] = OFF
    BY <1>1, OnlyOffIsS5 DEF PowerOff
  <1>3. pc' = [d \in CPU |-> "off"] /\ lock' = NULL
        /\ UNCHANGED <<current_state, cblist, arg, n, old_state, pdir0, persist_pdir, told>>
    BY DEF PowerOff, paging
  <1> QED BY <1>1, <1>2, <1>3 DEF Types, Labels, Stopped, Sound

\* The callbacks are told the state the transition ended in, then the lock is free.
LEMMA BackKeepsLive ==
  ASSUME Types, Live, NEW c \in CPU, NotifyBack(c) PROVE Types' /\ Live'
  <1> USE PowerAssumption DEF WORKING, OFF
  <1>1. pc[c] = "back" /\ UNCHANGED <<current_state, cblist, old_state>>
    BY DEF NotifyBack
  <1>2. /\ lock = c /\ (\A d \in CPU \ {c} : pc[d] \notin Inside) /\ current_state = WORKING
    BY <1>1, HeldLock DEF Inside
  <1>3. /\ arg[c] \in 1..5 /\ n - 1 <= Len(cblist) /\ Told(WORKING, n - 1) /\ VmemFirst
        /\ n > 1 => Sound
    BY <1>1 DEF Live, CpuInv, Entering
  <1>4. VmemFirst' /\ Len(cblist) \in Nat /\ n \in Nat \ {0} /\ Len(cblist) >= 1
    BY <1>1, <1>3 DEF VmemFirst, Types
  <1>5. CASE n <= Len(cblist) /\ CallBack(cblist[n], current_state) /\ n' = n + 1
             /\ Goto(c, "back") /\ lock' = lock
    <2>1. /\ told' \in [Callback -> 0..5 \cup {NULL}] /\ persist_pdir' \in {"table", "none"}
          /\ \A i \in 1..n : told'[cblist'[i]] = WORKING
          /\ n > 1 => UNCHANGED <<pdir0, persist_pdir>>
          /\ n = 1 => Sound'
      BY <1>1, <1>2, <1>3, <1>5, CallBackEffect
    <2>2. /\ pc' \in [CPU -> Labels] /\ arg' = arg /\ pc'[c] = "back"
          /\ \A d \in CPU \ {c} : pc'[d] = pc[d] /\ arg'[d] = arg[d]
      BY <1>5 DEF Goto, Types, Labels
    <2>3. Sound'
      BY <1>3, <1>4, <2>1 DEF Sound
    <2>4. Told(WORKING, n - 1)'
      BY <1>4, <1>5, <2>1 DEF Told
    <2>5. CpuInv(c)'
      BY <1>1, <1>2, <1>3, <1>4, <1>5, <2>2, <2>3, <2>4 DEF CpuInv, Inside, Entering
    <2>6. Types'
      BY <1>1, <1>5, <2>1, <2>2 DEF Types
    <2> QED BY <1>1, <1>2, <1>4, <1>5, <2>2, <2>5, <2>6, StepKeepsLive DEF Inside
  <1>6. CASE n > Len(cblist) /\ n' = 1 /\ lock' = NULL /\ Return(c) /\ UNCHANGED <<told, paging>>
    <2>1. /\ pc' \in [CPU -> Labels] /\ arg' \in [CPU -> Callback \cup 0..5 \cup {NULL}]
          /\ pc'[c] = "idle"
          /\ \A d \in CPU \ {c} : pc'[d] = pc[d] /\ arg'[d] = arg[d]
      BY <1>6 DEF Return, Types, Labels
    <2>2. CpuInv(c)'
      BY <2>1 DEF CpuInv, Inside, Entering
    <2>3. Sound' /\ \A i \in 1..Len(cblist') : told'[cblist'[i]] \in {NULL, WORKING}
      BY <1>1, <1>3, <1>4, <1>6 DEF Sound, Told, paging
    <2>4. Types'
      BY <1>1, <1>6, <2>1 DEF Types, paging
    <2> QED BY <1>1, <1>2, <1>4, <1>6, <2>1, <2>2, <2>3, <2>4, StepKeepsLive
  <1> QED BY <1>5, <1>6 DEF NotifyBack

\* Every step keeps the strengthening.
LEMMA StepInv == IInv /\ [Next]_vars => IInv'
  <1> SUFFICES ASSUME Types, Live, [Next]_vars PROVE IInv'
    BY StoppedStays DEF IInv
  <1> USE PowerAssumption
  <1>1. CASE UNCHANGED vars
    <2>1. Types'
      BY <1>1 DEF vars, Types
    <2>2. \A d \in CPU : CpuInv(d)'
      BY <1>1, Undisturbed DEF vars, Live, paging
    <2>3. Live'
      BY <1>1, <2>2 DEF vars, Live, VmemFirst, Sound
    <2> QED BY <2>1, <2>3 DEF IInv
  <1>2. CASE powerman_init_fails
    <2>1. lock = NULL /\ Sound
      BY <1>2 DEF powerman_init_fails, Live, Types, Inside
    <2>2. Types'
      BY <1>2 DEF powerman_init_fails, Types, paging
    <2>3. Stopped'
      BY <1>2, <2>1 DEF powerman_init_fails, Stopped, Sound, paging
    <2> QED BY <2>2, <2>3 DEF IInv
  <1>3. ASSUME NEW c \in CPU, NEW b \in Callback, powerman_installcallback(c, b) PROVE IInv'
    <2>1. Vmem \in ToSet(cblist)
      BY DEF Live, VmemFirst, Types, ToSet
    <2>2. b # Vmem
      BY <1>3, <2>1 DEF powerman_installcallback
    <2> QED BY <1>3, <2>2, CallKeepsLive DEF powerman_installcallback, IInv
  <1>4. ASSUME NEW c \in CPU, NEW b \in Callback \ {Vmem}, powerman_removecallback(c, b)
        PROVE  IInv'
    BY <1>4, CallKeepsLive DEF powerman_removecallback, IInv
  <1>5. ASSUME NEW c \in CPU, NEW s \in Requested, powerman_enter(c, s) PROVE IInv'
    BY <1>5, CallKeepsLive DEF powerman_enter, IInv
  <1>6. ASSUME NEW c \in CPU, Step(c) PROVE IInv'
    BY <1>6, InstallKeepsLive, RemoveKeepsLive, EnterKeepsLive, NotifyKeepsLive,
       PrepKeepsLive, PlatformKeepsLive, PowerOffStops, BackKeepsLive DEF Step, IInv
  <1> QED BY <1>1, <1>2, <1>3, <1>4, <1>5, <1>6 DEF Next

\* The strengthening holds in every reachable state.
THEOREM Invariance == Spec => []IInv
  BY InitInv, StepInv, PTL DEF Spec

\* Whatever is installed or removed, on any CPU, powerman_enter hands over to the
\* platform only after every callback was called with the new state.
THEOREM CallbacksAreAsked == Spec => []AskedBeforeSleep
  <1>1. IInv => AskedBeforeSleep
    BY DEF IInv, Types, Live, Stopped, CpuInv, Told, AskedBeforeSleep, ToSet
  <1> QED BY Invariance, <1>1, PTL

\* However a transition ends, the callbacks have been told the state it ended in
\* when the lock is free again.
THEOREM CallbacksAreTold == Spec => []ToldTheOutcome
  <1>1. IInv => ToldTheOutcome
    <2> SUFFICES ASSUME Types, Live, lock = NULL, NEW b \in ToSet(cblist)
                 PROVE  told[b] \in {NULL, current_state}
      BY DEF IInv, Stopped, ToldTheOutcome
    <2>1. current_state = WORKING
      BY FreeLock
    <2>2. PICK i \in 1..Len(cblist) : b = cblist[i]
      BY DEF ToSet, Types
    <2> QED BY <2>1, <2>2 DEF Live
  <1> QED BY Invariance, <1>1, PTL

\* With the lock free, vmem_powerstate_change has put the page table of the low
\* memory back, unless a power-off failed before any standby had saved it.
THEOREM PageTableComesBack == Spec => []LowMemoryRestored
  <1>1. IInv => LowMemoryRestored
    BY DEF IInv, Live, Stopped, Sound, LowMemoryRestored
  <1> QED BY Invariance, <1>1, PTL
=============================================================================
