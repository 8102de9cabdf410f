-------------------------------- MODULE Pool --------------------------------
(***************************************************************************)
(* What a pool of pool.c promises: every buffer it hands out is in the     *)
(* pool and is handed out to nobody else.  Memory.tla, where an allocation *)
(* also maps pages, is shown to implement this.                            *)
(***************************************************************************)
EXTENDS Bitmap

VARIABLES
  bitmap,        \* the indices whose bit is set
  alloc_count,
  live,          \* the buffers that callers hold
  panicked       \* out of memory

vars == <<bitmap, alloc_count, live, panicked>>

Init == bitmap = {} /\ alloc_count = 0 /\ live = {} /\ panicked = FALSE

pool_alloc ==
  /\ ~panicked /\ alloc_count # BufferCount
  /\ LET b == BufferIdx(bitmap, alloc_count)
     IN  /\ bitmap' = bitmap \cup (FreeBits(bitmap, alloc_count) \cap {b})
         /\ live' = live \cup {b}
  /\ alloc_count' = alloc_count + 1
  /\ UNCHANGED panicked

\* vmem_map finds no frame for a page of the buffer, or of something else.
Panic == ~panicked /\ panicked' = TRUE /\ UNCHANGED <<bitmap, alloc_count, live>>

\* Of a buffer that the caller holds.
pool_dealloc(b) ==
  /\ ~panicked /\ b \in live
  /\ bitmap' = bitmap \ {b} /\ live' = live \ {b}
  /\ UNCHANGED <<alloc_count, panicked>>

Next == pool_alloc \/ Panic \/ \E b \in live : pool_dealloc(b)

Spec == Init /\ [][Next]_vars

-----------------------------------------------------------------------------
\* Every buffer handed out lies in the pool (pool.c:84, 85), and so does every
\* set bit.
BuffersInPool ==
  /\ bitmap \subseteq Buffers /\ live \subseteq Buffers
  /\ alloc_count \in 0..BufferCount

\* pool_alloc never hands out a buffer that is in use: it only looks at one
\* word of the bitmap, and takes the index after the word when all bits are set.
NoDoubleAlloc ==
  [][alloc_count' > alloc_count => \E b \in Buffers \ live : live' = live \cup {b}]_vars

\* pool_alloc stays inside the bitmap that create_pool_at allocated (pool.c:55).
WordInBitmap == alloc_count # BufferCount => Word(alloc_count) < WordCount

\* pool_count "returns the number of buffers allocated for a pool".
PoolCountAgrees == alloc_count = Cardinality(live)
=============================================================================
