------------------------------- MODULE Bitmap -------------------------------
(***************************************************************************)
(* The bitmap of a pool of pool.c, as the set of the indices whose bit is  *)
(* set, and the search of pool_alloc in it.                                *)
(***************************************************************************)
EXTENDS Integers, FiniteSets

CONSTANTS BufferCount,   \* buffcnt
          WordBits       \* bits in a word of the bitmap: 32

ASSUME BitmapAssumption == BufferCount \in Nat \ {0} /\ WordBits \in Nat \ {0}

Buffers == 0..BufferCount - 1

\* Mutant: the last word is forgotten.
WordCount_Short == (BufferCount - 1) \div WordBits

\* The number of words that create_pool_at allocates.
WordCount == IF BufferCount \div WordBits = 0 THEN 1 ELSE BufferCount \div WordBits

\* The word pool_alloc searches after n allocations, and its free bits.
Word(n) == n \div WordBits
FreeBits(bits, n) ==
  {j \in 0..BufferCount + WordBits : j \div WordBits = Word(n) /\ j \notin bits}

\* The lowest free bit of the word, or the first index after the word.
BufferIdx(bits, n) ==
  IF FreeBits(bits, n) = {} THEN (Word(n) + 1) * WordBits
  ELSE CHOOSE j \in FreeBits(bits, n) : \A i \in FreeBits(bits, n) : j <= i
=============================================================================
