------------------------------- MODULE Memory -------------------------------
(***************************************************************************)
(* The memory of the kernel: the heap (util.c over dlmalloc), the break    *)
(* that it grows by (sbrk.c), page mapping (arch/x86/vmem.c), the frames   *)
(* (pmem.c) on a lock-free stack (stack.c), whose nodes are chunks of the  *)
(* heap again, and two users of all this: pools (pool.c) and the window    *)
(* for device memory (mmiopool.c).                                         *)
(*                                                                         *)
(* A process is a thread or a CPU that executes these functions.  Its      *)
(* calls nest (malloc maps a page, which takes a frame, which frees two    *)
(* chunks, which may trim the heap, which gives frames back, which         *)
(* allocates two chunks), so it has a stack of activation records.         *)
(*                                                                         *)
(* The heap is measured in cells of one smallest chunk, which is what a    *)
(* node of the stack takes, and what a struct phys_page takes.             *)
(***************************************************************************)
EXTENDS Bitmap, Sequences

CONSTANTS
  Proc,
  FrameCount,   \* frames that mach_phys_init finds
  PageCells,    \* cells in a page
  Foot,         \* TOP_FOOT_SIZE in cells, rounded up
  TrimCheck,    \* trim_threshold in cells
  TabSpan,      \* pages that one page table maps
  Pages,        \* pages in a buffer of the pool
  MmioPages,    \* pages in the window for device memory
  Sizes,        \* cells in the chunks that the rest of the kernel allocates
  MaxLive       \* bound: chunks that the rest of the kernel holds

ASSUME MemoryAssumption ==
  /\ {FrameCount, PageCells, Foot, TrimCheck, TabSpan, Pages} \subseteq Nat \ {0}
  /\ MmioPages \in Nat /\ MaxLive \in Nat /\ Sizes \subseteq Nat \ {0}

VARIABLES
  stk,      \* the activation records of each process, innermost first
  ret,      \* the value that the last call of each process returned
  lock,     \* the holder of alloc_spinlock, or None
  stack,    \* page_stack: made, head, and the contents of the cells
  heap,     \* dlmalloc's state: used cells, top, topsize, seg, trim_check
  vm,       \* base of sbrk.c, page table entries and page tables
  pool,     \* bitmap, alloc_count, live
  regions,  \* freelist of mmiopool.c
  boot,     \* the next frame that mach_phys_init gives to pmem_dealloc
  chunks,   \* the chunks that the rest of the kernel holds
  use,      \* what the kernel needs pages for besides the heap: pool or mmio
  stopped   \* a panic, or a fault on address 0

vars == <<stk, ret, lock, stack, heap, vm, pool, regions, boot, chunks, use, stopped>>

\* What only the users of memory change.
users == <<pool, regions, boot, chunks, use>>

None == "none"
Any == -1                           \* (paddr_t) ~0
Null == -1
MAX_SIZE_T == 1000000

\* The frames: those of the memory map, first_page and prime_page of sbrk.c, and
\* device memory.  0 is no frame.
Frame == 1..FrameCount
FirstPage == FrameCount + 1
PrimePage == FrameCount + 2
Device == FrameCount + 3

\* Virtual pages: the heap, the pool and the window, in areas of their own.
HeapPages == FrameCount + 2
Cell == 0..HeapPages * PageCells - 1
Aligned(n) == ((n + TabSpan - 1) \div TabSpan) * TabSpan
PoolBase == Aligned(HeapPages)
MmioBase == PoolBase + Aligned(BufferCount * Pages)
VPage == 0..MmioBase + Aligned(MmioPages)
Tab(v) == v \div TabSpan
PoolPage(b, i) == PoolBase + b * Pages + i

MinOf(S) == CHOOSE x \in S : \A y \in S : x <= y
MaxOf(S) == CHOOSE x \in S : \A y \in S : y <= x

\* An activation record: where it is, its arguments and locals.
Rec(pc, x, y, z) == [pc |-> pc, x |-> x, y |-> y, z |-> z]
At(c, pc) == ~stopped /\ stk[c] # <<>> /\ Head(stk[c]).pc = pc
Me(c) == Head(stk[c])
Idle(c) == ~stopped /\ stk[c] = <<>>

\* Go on at another record, call a function and go on there, return a value.
Goto(c, here) == stk' = [stk EXCEPT ![c] = <<here>> \o Tail(@)] /\ UNCHANGED ret
Call(c, here, callee) == stk' = [stk EXCEPT ![c] = <<callee, here>> \o Tail(@)] /\ UNCHANGED ret
Return(c, v) == stk' = [stk EXCEPT ![c] = Tail(@)] /\ ret' = [ret EXCEPT ![c] = v]
Stop == stopped' = TRUE /\ UNCHANGED <<stk, ret>>

\* A struct region of mmiopool.c.
Region(base, len, allocated) == [base |-> base, len |-> len, allocated |-> allocated]

\* The first call of dlmalloc_sbrk has mapped first_page, with prime_page as the
\* page table; nothing is on the page stack yet.
Init ==
  /\ stk = [c \in Proc |-> <<>>] /\ ret = [c \in Proc |-> 0] /\ lock = None
  /\ stack = [made |-> FALSE, head |-> Null, next |-> [i \in Cell |-> Null],
              data |-> [i \in Cell |-> 0]]
  /\ heap = [used |-> {}, top |-> 0, topsize |-> 0, seg |-> 0, trim_check |-> TrimCheck]
  /\ vm = [base |-> 0, pte |-> [v \in VPage |-> IF v = 0 THEN FirstPage ELSE 0],
           tab |-> [d \in {Tab(v) : v \in VPage} |-> IF d = 0 THEN PrimePage ELSE 0]]
  /\ pool = [bitmap |-> {}, alloc_count |-> 0, live |-> {}]
  /\ regions = <<Region(MmioBase, MmioPages, FALSE)>>
  /\ boot = 1 /\ chunks = {} /\ use \in {"pool", "mmio"} /\ stopped = FALSE

-----------------------------------------------------------------------------
(* util.c and dlmalloc.                                                    *)

\* malloc and free: under alloc_spinlock.
malloc(n) == Rec("malloc", n, 0, 0)
free(p, n) == Rec("free", p, n, 0)
\* malloc_nolock and free_nolock: without it.
malloc_nolock(n) == Rec("dlmalloc", n, 0, 0)
free_nolock(p, n) == Rec("dlfree", p, n, 0)
sbrk(k) == Rec("sbrk", k, 0, 0)

Acquire(c) ==
  /\ At(c, "malloc") \/ At(c, "free")
  /\ lock = None /\ lock' = c
  /\ Call(c, Rec("release", 0, 0, 0),
          IF At(c, "malloc") THEN malloc_nolock(Me(c).x) ELSE free_nolock(Me(c).x, Me(c).y))
  /\ UNCHANGED <<stack, heap, vm, users, stopped>>

Release(c) ==
  /\ At(c, "release") /\ lock' = None /\ Return(c, ret[c])
  /\ UNCHANGED <<stack, heap, vm, users, stopped>>

\* The free chunks below top of n cells or more, by their first cell: the bins and
\* dv may yield any of them.
Fits(n) == {p \in 0..heap.top - n : /\ (p..p + n - 1) \cap heap.used = {}
                                    /\ p = 0 \/ p - 1 \in heap.used}

\* The first cells of top, when there are more than enough.
TakeTop(c, n, h) ==
  /\ n < h.topsize
  /\ heap' = [h EXCEPT !.used = @ \cup h.top..h.top + n - 1, !.top = @ + n, !.topsize = @ - n]
  /\ Return(c, h.top)

\* Mutant: one page more than needed.
SysAllocPages_OneMore(n) == (n - heap.topsize + Foot) \div PageCells + 2

\* What sys_alloc asks MORECORE for: the missing cells and SYS_ALLOC_PADDING, in
\* whole pages.
SysAllocPages(n) == (n - heap.topsize + Foot) \div PageCells + 1

\* A chunk below top if one is large enough, else from top, else from MORECORE.
dlmalloc(c) ==
  /\ At(c, "dlmalloc")
  /\ LET n == Me(c).x
     IN  \/ \E p \in Fits(n) :
              heap' = [heap EXCEPT !.used = @ \cup p..p + n - 1] /\ Return(c, p)
         \/ Fits(n) = {} /\ TakeTop(c, n, heap)
         \/ /\ Fits(n) = {} /\ n >= heap.topsize
            /\ Call(c, Rec("sys_alloc", n, SysAllocPages(n), 0), sbrk(SysAllocPages(n)))
            /\ UNCHANGED heap
  /\ UNCHANGED <<lock, stack, vm, users, stopped>>

\* The rest of sys_alloc: top grows by the new pages, which follow the segment.
\* The first pages become the segment, and top leaves room for its foot.
sys_alloc(c) ==
  /\ At(c, "sys_alloc") /\ ret[c] = heap.seg
  /\ LET foot == IF heap.seg = 0 THEN Foot ELSE 0
     IN  TakeTop(c, Me(c).x, [heap EXCEPT !.seg = @ + Me(c).y,
                                         !.topsize = @ + Me(c).y * PageCells - foot])
  /\ UNCHANGED <<lock, stack, vm, users, stopped>>

\* dlfree: the chunk joins the free cells on both sides of it; when it reaches
\* top it becomes part of top, and too large a top is trimmed.
dlfree(c) ==
  /\ At(c, "dlfree")
  /\ LET cells == Me(c).x..Me(c).x + Me(c).y - 1
         below == {i \in heap.used : i < Me(c).x}
         lo == IF below = {} THEN 0 ELSE MaxOf(below) + 1
         size == heap.topsize + heap.top - lo
         joins == Me(c).x + Me(c).y = heap.top
     IN  /\ heap' = [heap EXCEPT !.used = @ \ cells,
                                 !.top = IF joins THEN lo ELSE @,
                                 !.topsize = IF joins THEN size ELSE @]
         /\ stack' = [stack EXCEPT !.next = [i \in Cell |-> IF i \in cells THEN Null ELSE @[i]],
                                   !.data = [i \in Cell |-> IF i \in cells THEN 0 ELSE @[i]]]
         /\ IF joins /\ size > heap.trim_check THEN Goto(c, Rec("sys_trim", 0, 0, 0))
            ELSE Return(c, 0)
  /\ UNCHANGED <<lock, vm, users, stopped>>

\* The pages sys_trim gives back: all of top but a page, and the foot.
TrimPages == (heap.topsize - Foot + PageCells - 1) \div PageCells - 1

\* sys_trim does nothing when someone else moved the break.
sys_trim(c) ==
  /\ At(c, "sys_trim")
  /\ IF heap.topsize > Foot /\ vm.base = heap.seg
     THEN Call(c, Rec("trimmed", vm.base, 0, 0), sbrk(-TrimPages))
     ELSE Goto(c, Rec("trimmed", vm.base, 0, 0))
  /\ UNCHANGED <<lock, stack, heap, vm, users, stopped>>

\* The rest of sys_trim; it disables trimming when nothing was released.
Trimmed(c) ==
  /\ At(c, "trimmed")
  /\ LET released == Me(c).x - vm.base
     IN  heap' = [heap EXCEPT
           !.seg = @ - released, !.topsize = @ - released * PageCells,
           !.trim_check = IF released = 0 /\ heap.topsize > @ THEN MAX_SIZE_T ELSE @]
  /\ Return(c, 0)
  /\ UNCHANGED <<lock, stack, vm, users, stopped>>

-----------------------------------------------------------------------------
(* sbrk.c and arch/x86/vmem.c.                                             *)

vmem_map(v, p) == Rec("vmem_map", v, p, 0)
pmem_alloc == Rec("pmem_alloc", 0, 0, 0)
pmem_dealloc(p) == Rec("pmem_dealloc", 0, 0, p)

\* dlmalloc_sbrk moves the break first, by whole pages.
dlmalloc_sbrk(c) ==
  /\ At(c, "sbrk")
  /\ LET k == Me(c).x
         old == vm.base
     IN  /\ vm' = [vm EXCEPT !.base = @ + k]
         /\ \/ k = 0 /\ Return(c, old)
            \/ k > 0 /\ Goto(c, Rec("grow", old, old, 0))
            \/ k < 0 /\ Goto(c, Rec("shrink", old, 0, 0))
  /\ UNCHANGED <<lock, stack, heap, users, stopped>>

\* Upwards from the old break, every page below the break that is not mapped.
Grow(c) ==
  /\ At(c, "grow")
  /\ LET todo == {v \in Me(c).x..vm.base - 1 : vm.pte[v] = 0}
         v == MinOf(todo)
     IN  IF todo = {} THEN Return(c, Me(c).y)
         ELSE Call(c, Rec("grow", v + 1, Me(c).y, 0), vmem_map(v, Any))
  /\ UNCHANGED <<lock, stack, heap, vm, users, stopped>>

\* Mutant: the loop stops at the new break instead of above it.
ShrinkPages_ToBreak(from) == {v \in vm.base - 1..from : vm.pte[v] # 0}

\* The pages the loop for a negative increment still has to release: from the
\* old break down to the page above the new one.
ShrinkPages(from) == {v \in vm.base + 1..from : vm.pte[v] # 0}

Shrink(c) ==
  /\ At(c, "shrink")
  /\ LET todo == ShrinkPages(Me(c).x)
         v == MaxOf(todo)
     IN  IF todo = {} THEN Return(c, vm.base) /\ UNCHANGED vm
         ELSE /\ vm' = [vm EXCEPT !.pte[v] = 0]
              /\ Call(c, Rec("shrink", v - 1, 0, 0), pmem_dealloc(vm.pte[v]))
  /\ UNCHANGED <<lock, stack, heap, users, stopped>>

\* arch_vmem_map takes a frame unless it is given one, ...
arch_vmem_map(c) ==
  /\ At(c, "vmem_map")
  /\ LET here == Rec("vmem_frame", Me(c).x, Me(c).y, 0)
     IN  IF Me(c).y = Any THEN Call(c, here, pmem_alloc) ELSE Goto(c, here)
  /\ UNCHANGED <<lock, stack, heap, vm, users, stopped>>

\* ... and another one when the page has no page table.  It panics without the
\* first, and returns without the second.
MapFrame(c) ==
  /\ At(c, "vmem_frame")
  /\ LET v == Me(c).x
         p == IF Me(c).y = Any THEN ret[c] ELSE Me(c).y
     IN  IF p = 0 THEN Stop /\ UNCHANGED vm
         ELSE /\ IF vm.tab[Tab(v)] = 0 THEN Call(c, Rec("vmem_tab", v, p, 0), pmem_alloc) /\ UNCHANGED vm
                 ELSE vm' = [vm EXCEPT !.pte[v] = p] /\ Return(c, 0)
              /\ UNCHANGED stopped
  /\ UNCHANGED <<lock, stack, heap, users>>

MapTable(c) ==
  /\ At(c, "vmem_tab")
  /\ vm' = IF ret[c] = 0 THEN vm
           ELSE [vm EXCEPT !.tab[Tab(Me(c).x)] = ret[c], !.pte[Me(c).x] = Me(c).y]
  /\ Return(c, 0)
  /\ UNCHANGED <<lock, stack, heap, users, stopped>>

-----------------------------------------------------------------------------
(* pmem.c and stack.c.                                                     *)

\* pmem_alloc, and the first read of the head in stack_pop.
PmemAlloc(c) ==
  /\ At(c, "pmem_alloc")
  /\ IF stack.made THEN Goto(c, Rec("pop", stack.head, 0, 0)) ELSE Return(c, 0)
  /\ UNCHANGED <<lock, stack, heap, vm, users, stopped>>

\* The compare and swap of stack_pop reads s->head once more for s->head->next,
\* and faults when it is 0.
PopHead(c) ==
  /\ At(c, "pop")
  /\ IF stack.head = Null THEN Stop
     ELSE Goto(c, Rec("pop_next", Me(c).x, stack.head, 0)) /\ UNCHANGED stopped
  /\ UNCHANGED <<lock, stack, heap, vm, users>>

PopNext(c) ==
  /\ At(c, "pop_next")
  /\ Goto(c, Rec("pop_swap", Me(c).x, stack.next[Me(c).y], 0))
  /\ UNCHANGED <<lock, stack, heap, vm, users, stopped>>

\* It succeeds when the head is top; then the node is freed.
PopSwap(c) ==
  /\ At(c, "pop_swap")
  /\ LET top == Me(c).x
     IN  IF stack.head = top
         THEN /\ stack' = [stack EXCEPT !.head = Me(c).y]
              /\ Call(c, Rec("popped", stack.data[top], 0, 0), free_nolock(top, 1))
         ELSE Goto(c, Rec("pop", stack.head, 0, 0)) /\ UNCHANGED stack
  /\ UNCHANGED <<lock, heap, vm, users, stopped>>

\* The rest of pmem_alloc: page->addr is read and the page freed.
Popped(c) ==
  /\ At(c, "popped")
  /\ Call(c, Rec("pmem_done", stack.data[Me(c).x], 0, 0), free_nolock(Me(c).x, 1))
  /\ UNCHANGED <<lock, stack, heap, vm, users, stopped>>

PmemDone(c) ==
  /\ At(c, "pmem_done") /\ Return(c, Me(c).x)
  /\ UNCHANGED <<lock, stack, heap, vm, users, stopped>>

\* Mutant: the stack takes its nodes under the lock.
NodeAlloc_Locked == malloc(1)

\* stack_push with STACK_FLAGS_NOMEMLOCK.
NodeAlloc == malloc_nolock(1)

\* pmem_dealloc creates the page stack with the first frame.
PmemDealloc(c) ==
  /\ At(c, "pmem_dealloc")
  /\ LET p == Me(c).z
     IN  IF stack.made THEN Call(c, Rec("page", 0, 0, p), malloc_nolock(1))
         ELSE Call(c, Rec("create_stack", 0, 0, p), malloc(1))
  /\ UNCHANGED <<lock, stack, heap, vm, users, stopped>>

CreateStack(c) ==
  /\ At(c, "create_stack")
  /\ stack' = [stack EXCEPT !.made = TRUE]
  /\ Call(c, Rec("page", 0, 0, Me(c).z), malloc_nolock(1))
  /\ UNCHANGED <<lock, heap, vm, users, stopped>>

\* The struct phys_page is filled in and pushed.
PushPage(c) ==
  /\ At(c, "page")
  /\ stack' = [stack EXCEPT !.data[ret[c]] = Me(c).z]
  /\ Call(c, Rec("node", ret[c], 0, 0), NodeAlloc)
  /\ UNCHANGED <<lock, heap, vm, users, stopped>>

stack_push(c) ==
  /\ At(c, "node")
  /\ stack' = [stack EXCEPT !.data[ret[c]] = Me(c).x]
  /\ Goto(c, Rec("push", ret[c], 0, 0))
  /\ UNCHANGED <<lock, heap, vm, users, stopped>>

\* The compare and swap: n->next starts as whatever the chunk held.
PushSwap(c) ==
  /\ At(c, "push")
  /\ LET n == Me(c).x
     IN  IF stack.head = stack.next[n]
         THEN stack' = [stack EXCEPT !.head = n] /\ Return(c, 0)
         ELSE stack' = [stack EXCEPT !.next[n] = stack.head] /\ UNCHANGED <<stk, ret>>
  /\ UNCHANGED <<lock, heap, vm, users, stopped>>

-----------------------------------------------------------------------------
(* pool.c.                                                                 *)

\* pool_alloc: an exhausted pool returns 0; otherwise a bit is found and set.
pool_alloc(c) ==
  /\ At(c, "pool_alloc")
  /\ LET b == BufferIdx(pool.bitmap, pool.alloc_count)
     IN  IF pool.alloc_count = BufferCount THEN Return(c, 0) /\ UNCHANGED pool
         ELSE /\ pool' = [bitmap |-> pool.bitmap \cup (FreeBits(pool.bitmap, pool.alloc_count) \cap {b}),
                          alloc_count |-> pool.alloc_count, live |-> pool.live]
              /\ Goto(c, Rec("pool_map", b, IF vm.pte[PoolPage(b, 0)] = 0 THEN 0 ELSE Pages, 0))
  /\ UNCHANGED <<lock, stack, heap, vm, regions, boot, chunks, use, stopped>>

\* Each page of a buffer whose first page is not mapped; then the buffer counts.
PoolMap(c) ==
  /\ At(c, "pool_map")
  /\ LET b == Me(c).x
         i == Me(c).y
     IN  IF i < Pages
         THEN Call(c, Rec("pool_map", b, i + 1, 0), vmem_map(PoolPage(b, i), Any)) /\ UNCHANGED pool
         ELSE /\ pool' = [bitmap |-> pool.bitmap, alloc_count |-> pool.alloc_count + 1,
                          live |-> pool.live \cup {b}]
              /\ Return(c, 0)
  /\ UNCHANGED <<lock, stack, heap, vm, regions, boot, chunks, use, stopped>>

\* Mutant: the bit one too low is cleared.
DoPoolDealloc_OffByOne(b) ==
  [bitmap |-> pool.bitmap \ {b - 1}, alloc_count |-> pool.alloc_count, live |-> pool.live \ {b}]

\* do_pool_dealloc, of a buffer that the caller holds.
DoPoolDealloc(b) ==
  [bitmap |-> pool.bitmap \ {b}, alloc_count |-> pool.alloc_count, live |-> pool.live \ {b}]

pool_dealloc(c) ==
  /\ At(c, "pool_dealloc")
  /\ pool' = DoPoolDealloc(Me(c).x) /\ Return(c, 0)
  /\ UNCHANGED <<lock, stack, heap, vm, regions, boot, chunks, use, stopped>>

pool_dealloc_and_free(c) ==
  /\ At(c, "pool_free")
  /\ pool' = DoPoolDealloc(Me(c).x) /\ Goto(c, Rec("pool_unmap", PoolPage(Me(c).x, 0), 0, 0))
  /\ UNCHANGED <<lock, stack, heap, vm, regions, boot, chunks, use, stopped>>

\* Mutant: the frame is not given back.
PoolUnmap_NotFreed(c) ==
  /\ At(c, "pool_unmap")
  /\ LET v == Me(c).x
         i == Me(c).y
     IN  IF i = Pages THEN Return(c, 0) /\ UNCHANGED vm
         ELSE /\ vm' = [vm EXCEPT !.pte[v] = 0]
              /\ Goto(c, Rec("pool_unmap", v + i, i + 1, 0))
  /\ UNCHANGED <<lock, stack, heap, users, stopped>>

\* Turn i of the loop releases the page at addr, and adds i pages to addr.
PoolUnmap(c) ==
  /\ At(c, "pool_unmap")
  /\ LET v == Me(c).x
         i == Me(c).y
     IN  IF i = Pages THEN Return(c, 0) /\ UNCHANGED vm
         ELSE /\ vm' = [vm EXCEPT !.pte[v] = 0]
              /\ Call(c, Rec("pool_unmap", v + i, i + 1, 0), pmem_dealloc(vm.pte[v]))
  /\ UNCHANGED <<lock, stack, heap, users, stopped>>

-----------------------------------------------------------------------------
(* mmiopool.c.                                                             *)

\* The first free region with room for len pages.
Roomy(len) == {i \in 1..Len(regions) : ~regions[i].allocated /\ regions[i].len >= len}

\* mmiopool_alloc: a larger region is split, which takes a struct region and,
\* in list_insert, a node of the list.
mmiopool_alloc(c) ==
  /\ At(c, "mmiopool_alloc")
  /\ LET len == Me(c).x
         i == MinOf(Roomy(len))
     IN  IF Roomy(len) = {} THEN Return(c, 0)
         ELSE IF regions[i].len = len THEN Goto(c, Rec("mmio_take", len, i, 0))
         ELSE Call(c, Rec("mmio_region", len, i, 0), malloc(1))
  /\ UNCHANGED <<lock, stack, heap, vm, users, stopped>>

MmioRegion(c) ==
  /\ At(c, "mmio_region") /\ Call(c, Rec("mmio_take", Me(c).x, Me(c).y, 0), malloc(1))
  /\ UNCHANGED <<lock, stack, heap, vm, users, stopped>>

\* Mutant: the rest of the region starts where the region does.
Split_SameBase(i, len) ==
  SubSeq(regions, 1, i - 1)
  \o <<Region(regions[i].base, len, TRUE)>>
  \o (IF regions[i].len = len THEN <<>>
      ELSE <<Region(regions[i].base, regions[i].len - len, FALSE)>>)
  \o SubSeq(regions, i + 1, Len(regions))

\* Region i is taken; what is left of it becomes the next region of the list.
Split(i, len) ==
  SubSeq(regions, 1, i - 1)
  \o <<Region(regions[i].base, len, TRUE)>>
  \o (IF regions[i].len = len THEN <<>>
      ELSE <<Region(regions[i].base + len, regions[i].len - len, FALSE)>>)
  \o SubSeq(regions, i + 1, Len(regions))

MmioTake(c) ==
  /\ At(c, "mmio_take")
  /\ regions' = Split(Me(c).y, Me(c).x)
  /\ Goto(c, Rec("mmio_map", regions[Me(c).y].base, Me(c).x, 0))
  /\ UNCHANGED <<lock, stack, heap, vm, pool, boot, chunks, use, stopped>>

MmioMap(c) ==
  /\ At(c, "mmio_map")
  /\ IF Me(c).y = 0 THEN Return(c, 0)
     ELSE Call(c, Rec("mmio_map", Me(c).x + 1, Me(c).y - 1, 0), vmem_map(Me(c).x, Device))
  /\ UNCHANGED <<lock, stack, heap, vm, users, stopped>>

-----------------------------------------------------------------------------
(* The rest of the kernel.                                                 *)

Begin(c, calls) == Idle(c) /\ stk' = [stk EXCEPT ![c] = calls] /\ UNCHANGED ret
Booted == boot > FrameCount

\* mach_phys_init gives the frames of the memory map to pmem_dealloc, before
\* there is another CPU.
mach_phys_init(c) ==
  /\ ~Booted /\ c = CHOOSE d \in Proc : TRUE
  /\ Begin(c, <<pmem_dealloc(boot), Rec("next_frame", 0, 0, 0)>>)
  /\ UNCHANGED <<lock, stack, heap, vm, users, stopped>>

NextFrame(c) ==
  /\ At(c, "next_frame") /\ boot' = boot + 1 /\ Return(c, 0)
  /\ UNCHANGED <<lock, stack, heap, vm, pool, regions, chunks, use, stopped>>

\* A chunk for the rest of the kernel; it holds it until it frees it.
Malloc(c, n) ==
  /\ Booted /\ Cardinality(chunks) < MaxLive
  /\ Begin(c, <<malloc(n), Rec("keep", n, 0, 0)>>)
  /\ UNCHANGED <<lock, stack, heap, vm, users, stopped>>

Keep(c) ==
  /\ At(c, "keep") /\ chunks' = chunks \cup {<<ret[c], Me(c).x>>} /\ Return(c, 0)
  /\ UNCHANGED <<lock, stack, heap, vm, pool, regions, boot, use, stopped>>

Free(c, k) ==
  /\ Begin(c, <<free(k[1], k[2])>>) /\ chunks' = chunks \ {k}
  /\ UNCHANGED <<lock, stack, heap, vm, pool, regions, boot, use, stopped>>

PoolAlloc(c) ==
  /\ Booted /\ use = "pool" /\ Begin(c, <<Rec("pool_alloc", 0, 0, 0)>>)
  /\ UNCHANGED <<lock, stack, heap, vm, users, stopped>>

\* Of a buffer that nobody is giving back already.
PoolDealloc(c, b, how) ==
  /\ ~\E d \in Proc : (At(d, "pool_dealloc") \/ At(d, "pool_free")) /\ Me(d).x = b
  /\ Begin(c, <<Rec(how, b, 0, 0)>>)
  /\ UNCHANGED <<lock, stack, heap, vm, users, stopped>>

MmioAlloc(c, len) ==
  /\ Booted /\ use = "mmio" /\ Begin(c, <<Rec("mmiopool_alloc", len, 0, 0)>>)
  /\ UNCHANGED <<lock, stack, heap, vm, users, stopped>>

Step(c) ==
  \/ Acquire(c) \/ Release(c) \/ dlmalloc(c) \/ sys_alloc(c) \/ dlfree(c) \/ sys_trim(c) \/ Trimmed(c)
  \/ dlmalloc_sbrk(c) \/ Grow(c) \/ Shrink(c) \/ arch_vmem_map(c) \/ MapFrame(c) \/ MapTable(c)
  \/ PmemAlloc(c) \/ PopHead(c) \/ PopNext(c) \/ PopSwap(c) \/ Popped(c) \/ PmemDone(c)
  \/ PmemDealloc(c) \/ CreateStack(c) \/ PushPage(c) \/ stack_push(c) \/ PushSwap(c)
  \/ pool_alloc(c) \/ PoolMap(c) \/ pool_dealloc(c) \/ pool_dealloc_and_free(c) \/ PoolUnmap(c)
  \/ mmiopool_alloc(c) \/ MmioRegion(c) \/ MmioTake(c) \/ MmioMap(c)
  \/ NextFrame(c) \/ Keep(c)

Next ==
  \E c \in Proc :
    \/ Step(c)
    \/ mach_phys_init(c) \/ PoolAlloc(c)
    \/ \E n \in Sizes : Malloc(c, n)
    \/ \E k \in chunks : Free(c, k)
    \/ \E b \in pool.live : PoolDealloc(c, b, "pool_dealloc") \/ PoolDealloc(c, b, "pool_free")
    \/ \E len \in 1..MmioPages : MmioAlloc(c, len)

\* A process that runs goes on.
Fairness == \A c \in Proc : WF_vars(Step(c))

Spec == Init /\ [][Next]_vars /\ Fairness

-----------------------------------------------------------------------------
\* The frames on the page stack, from the head on; the walk ends after as many
\* nodes as there are cells.
Nodes[i \in Nat] ==
  IF i = 0 THEN stack.head
  ELSE IF Nodes[i - 1] = Null THEN Null ELSE stack.next[Nodes[i - 1]]
Stacked == {i \in 0..FrameCount : Nodes[i] # Null}
Addr(i) == stack.data[stack.data[Nodes[i]]]

Quiet == ~stopped /\ \A c \in Proc : stk[c] = <<>>

\* Whenever no call is in progress, every frame is on the page stack once, or is
\* mapped once, or is a page table once, and the stack holds nothing else: no
\* frame is lost or has two uses (pmem.c, sbrk.c:58-80, vmem.c:87-136,
\* pool.c:121-135).
FramesConserved ==
  Quiet =>
    /\ \A f \in Frame :
         Cardinality({i \in Stacked : Addr(i) = f}) + Cardinality({v \in VPage : vm.pte[v] = f})
         + Cardinality({d \in DOMAIN vm.tab : vm.tab[d] = f}) = (IF f < boot THEN 1 ELSE 0)
    /\ \A i \in Stacked : Addr(i) \in Frame

\* Every cell that is in use, and the foot of top, is on a mapped page, also in
\* the middle of a trim that allocates the nodes for the frames it releases
\* (dlmalloc.c:4292-4355, sbrk.c:52-69).
HeapBacked ==
  /\ \A i \in heap.used : vm.pte[i \div PageCells] # 0
  /\ heap.topsize >= 0

\* mach_phys_init finishes: although each frame it adds takes two chunks, and a
\* heap that is full needs frames to grow, the kernel does not run out of frames
\* while it adds them (sbrk.c:41-48).
BootsThrough == stopped => Booted

\* Every call returns, or the kernel stops: the calls do not nest without end,
\* and none waits for alloc_spinlock in a process that holds it (util.c:78-122).
CallsReturn == \A c \in Proc : stk[c] # <<>> ~> (stk[c] = <<>> \/ stopped)

\* The regions of the window for device memory follow each other and fill it:
\* none overlaps another (mmiopool.c:70-89).
WindowTiled ==
  /\ \A i \in 1..Len(regions) :
       regions[i].base = IF i = 1 THEN MmioBase ELSE regions[i - 1].base + regions[i - 1].len
  /\ regions[Len(regions)].base + regions[Len(regions)].len = MmioBase + MmioPages

\* "Remove the first item from the stack by updating the head to point to the
\* next item from the head.  Atomically." (stack.c:89): a compare and swap of
\* stack_pop that is about to succeed puts the successor of the head in its place.
PopIsAtomic ==
  \A c \in Proc : At(c, "pop_swap") /\ stack.head = Me(c).x => Me(c).y = stack.next[stack.head]

\* The bits of the allocations in progress, which the callers do not know of yet.
InPoolMap ==
  UNION {{stk[c][i].x : i \in {j \in 1..Len(stk[c]) : stk[c][j].pc = "pool_map"}} : c \in Proc}
P == INSTANCE Pool WITH bitmap <- pool.bitmap \ InPoolMap, alloc_count <- pool.alloc_count,
                        live <- pool.live, panicked <- stopped

\* pool_alloc stays inside the bitmap that create_pool_at allocated (pool.c:55).
BitmapInBounds == P!WordInBitmap

\* The pool does what Pool promises, although an allocation takes many steps and
\* may stop in any of them (pool.c:65-135).
ImplementsPool == P!Spec
=============================================================================
