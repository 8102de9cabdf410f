----------------------------- MODULE MemoryProof -----------------------------
(***************************************************************************)
(* Proofs for Memory with one process, for any amount of memory and any    *)
(* sizes of pages, chunks, buffers and the window: the pool implements     *)
(* what Pool promises, and the regions of device memory tile their window, *)
(* however deep the calls below an allocation nest, and wherever they      *)
(* stop.                                                                   *)
(*                                                                         *)
(* The pool and the window are touched only by the outermost call.  The    *)
(* argument splits the steps accordingly: an inner step leaves pool,       *)
(* regions and the outermost record of pool.c or mmiopool.c as they are,   *)
(* and an outer step runs with nothing else on the stack.                  *)
(***************************************************************************)
EXTENDS Memory, SequenceTheorems, WellFoundedInduction, TLAPS

-----------------------------------------------------------------------------
(* The search of pool_alloc, for any number of buffers and any word width, *)
(* and lists in which an element is replaced.                              *)

\* A set of naturals that is not empty has a least element.
LEMMA LeastNat ==
  ASSUME NEW T, T \subseteq Nat, T # {}
  PROVE  \E x \in T : \A y \in T : x <= y
<1>1. PICK x \in T : \A y \in T : ~(<<y, x>> \in OpToRel(<, Nat))
  BY NatLessThanWellFounded, WFMin
<1>2. ASSUME NEW y \in T PROVE x <= y
  <2>1. x \in Nat /\ y \in Nat
    OBVIOUS
  <2>2. ~(y < x)
    BY <1>1, <2>1 DEF OpToRel
  <2> QED  BY <2>1, <2>2
<1> QED  BY <1>2

\* When bit n is free, the search of the word of bit n finds a free bit no higher
\* than n.
LEMMA IndexIsFree ==
  ASSUME NEW bits, NEW n \in 0..BufferCount - 1, n \notin bits
  PROVE  /\ BufferIdx(bits, n) \in FreeBits(bits, n) /\ BufferIdx(bits, n) \in Buffers
         /\ BufferIdx(bits, n) \notin bits /\ BufferIdx(bits, n) <= n
<1> USE BitmapAssumption
<1>1. n \in FreeBits(bits, n)
  BY DEF FreeBits, Word
<1>2. FreeBits(bits, n) \subseteq Nat /\ FreeBits(bits, n) \cap bits = {}
  BY DEF FreeBits
<1>3. \E j \in FreeBits(bits, n) : \A i \in FreeBits(bits, n) : j <= i
  BY <1>1, <1>2, LeastNat
<1>4. BufferIdx(bits, n) \in FreeBits(bits, n) /\ \A i \in FreeBits(bits, n) : BufferIdx(bits, n) <= i
  BY <1>1, <1>3 DEF BufferIdx
<1>5. BufferIdx(bits, n) \in Nat /\ BufferIdx(bits, n) <= n
  BY <1>1, <1>2, <1>4
<1> QED
  BY <1>2, <1>4, <1>5 DEF Buffers

\* The quotient of a number below k * w.
LEMMA QuotientBound ==
  ASSUME NEW k \in Nat, NEW w \in Nat \ {0}, NEW n \in Nat, n < k * w
  PROVE  n \div w < k
<1> DEFINE q == n \div w
<1>1. q \in Int /\ w * q <= n
  BY SMT
<1>2. SUFFICES ASSUME k <= q PROVE FALSE
  BY <1>1
<1>3. k * w <= q * w
  BY <1>1, <1>2, SMT
<1> QED  BY <1>1, <1>3, SMT

\* If the number of buffers is a multiple of the word width, every buffer has its
\* bit in a word that create_pool_at allocated.
LEMMA WordIsInBitmap ==
  ASSUME NEW k \in Nat \ {0}, BufferCount = k * WordBits, NEW n \in 0..BufferCount - 1
  PROVE  Word(n) < WordCount
<1>1. BufferCount \div WordBits = k
  BY BitmapAssumption, SMT
<1>2. WordCount = k
  BY <1>1 DEF WordCount
<1>3. n \in Nat /\ n < k * WordBits
  BY BitmapAssumption
<1> QED  BY <1>2, <1>3, QuotientBound, BitmapAssumption DEF Word

-----------------------------------------------------------------------------
(* Lists.                                                                  *)

\* The elements of a stack with another record, or two, in place of the innermost.
LEMMA Replaced ==
  ASSUME NEW S, NEW s \in Seq(S), s # <<>>, NEW a, NEW b
  PROVE  /\ Tail(s) \in Seq(S) /\ Len(Tail(s)) = Len(s) - 1
         /\ \A i \in 1..Len(s) - 1 : Tail(s)[i] = s[i + 1]
         /\ <<a>> \o Tail(s) \in Seq(S \cup {a, b}) /\ Len(<<a>> \o Tail(s)) = Len(s)
         /\ \A i \in 1..Len(s) : (<<a>> \o Tail(s))[i] = IF i = 1 THEN a ELSE s[i]
         /\ <<a, b>> \o Tail(s) \in Seq(S \cup {a, b}) /\ Len(<<a, b>> \o Tail(s)) = Len(s) + 1
         /\ \A i \in 1..Len(s) + 1 :
              (<<a, b>> \o Tail(s))[i] = IF i = 1 THEN a ELSE IF i = 2 THEN b ELSE s[i - 1]
<1>1. /\ Tail(s) \in Seq(S) /\ Len(Tail(s)) = Len(s) - 1 /\ Len(s) \in Nat \ {0}
      /\ \A i \in 1..Len(s) - 1 : Tail(s)[i] = s[i + 1]
  OBVIOUS
<1> DEFINE t == Tail(s)
           T == S \cup {a, b}
<1>2. t \in Seq(T) /\ <<a>> \in Seq(T) /\ <<a, b>> \in Seq(T)
  BY <1>1
<1>3. Len(<<a>>) = 1 /\ <<a>>[1] = a /\ Len(<<a, b>>) = 2 /\ <<a, b>>[1] = a /\ <<a, b>>[2] = b
  OBVIOUS
<1> HIDE DEF t, T
<1>4. /\ <<a>> \o t \in Seq(T) /\ Len(<<a>> \o t) = Len(<<a>>) + Len(t)
      /\ \A i \in 1..Len(<<a>>) + Len(t) :
           (<<a>> \o t)[i] = IF i <= Len(<<a>>) THEN <<a>>[i] ELSE t[i - Len(<<a>>)]
  BY <1>2, ConcatProperties, Zenon
<1>5. /\ <<a, b>> \o t \in Seq(T) /\ Len(<<a, b>> \o t) = Len(<<a, b>>) + Len(t)
      /\ \A i \in 1..Len(<<a, b>>) + Len(t) :
           (<<a, b>> \o t)[i] = IF i <= Len(<<a, b>>) THEN <<a, b>>[i] ELSE t[i - Len(<<a, b>>)]
  BY <1>2, ConcatProperties, Zenon
<1>6. t = Tail(s) /\ T = S \cup {a, b}
  BY DEF t, T
<1>7. ASSUME NEW i \in 1..Len(s) PROVE (<<a>> \o t)[i] = IF i = 1 THEN a ELSE s[i]
  <2>1. CASE i = 1
    BY <1>1, <1>3, <1>4, <1>6, <2>1
  <2>2. CASE i # 1
    <3>1. i - 1 \in 1..Len(s) - 1 /\ i \in 1..1 + Len(t) /\ ~(i <= 1)
      BY <1>1, <1>6, <2>2
    <3>2. (<<a>> \o t)[i] = t[i - 1]
      BY <1>3, <1>4, <3>1
    <3> QED  BY <1>1, <1>6, <2>2, <3>1, <3>2
  <2> QED  BY <2>1, <2>2, Zenon
<1>8. ASSUME NEW i \in 1..Len(s) + 1
      PROVE  (<<a, b>> \o t)[i] = IF i = 1 THEN a ELSE IF i = 2 THEN b ELSE s[i - 1]
  <2>1. i \in 1..2 + Len(t)
    BY <1>1, <1>6
  <2>2. CASE i = 1
    BY <1>3, <1>5, <2>1, <2>2
  <2>3. CASE i = 2
    BY <1>3, <1>5, <2>1, <2>3
  <2>4. CASE i # 1 /\ i # 2
    <3>1. i - 2 \in 1..Len(s) - 1 /\ ~(i <= 2)
      BY <1>1, <2>4
    <3>2. (<<a, b>> \o t)[i] = t[i - 2]
      BY <1>3, <1>5, <2>1, <3>1
    <3> QED  BY <1>1, <1>6, <2>4, <3>1, <3>2
  <2> QED  BY <2>2, <2>3, <2>4, Zenon
<1> QED  BY <1>1, <1>3, <1>4, <1>5, <1>6, <1>7, <1>8

\* A list with other elements in place of element i.
Splice(s, i, a, rest) == SubSeq(s, 1, i - 1) \o <<a>> \o rest \o SubSeq(s, i + 1, Len(s))

\* Its elements up to element i, and after it.
LEMMA Parts ==
  ASSUME NEW T, NEW s \in Seq(T), NEW i \in 1..Len(s), NEW a \in T
  PROVE  LET la == SubSeq(s, 1, i - 1) \o <<a>>
             hi == SubSeq(s, i + 1, Len(s))
         IN  /\ la \in Seq(T) /\ Len(la) = i /\ \A j \in 1..i : la[j] = IF j = i THEN a ELSE s[j]
             /\ hi \in Seq(T) /\ Len(hi) = Len(s) - i /\ \A j \in 1..Len(s) - i : hi[j] = s[i + j]
<1> DEFINE lo == SubSeq(s, 1, i - 1)
           hi == SubSeq(s, i + 1, Len(s))
<1>1. s \in Seq(T) /\ Len(s) \in Nat /\ i \in Nat /\ i >= 1 /\ i <= Len(s)
  OBVIOUS
<1>2. /\ lo \in Seq(T) /\ Len(lo) = i - 1 /\ \A j \in 1..i - 1 : lo[j] = s[j]
      /\ hi \in Seq(T) /\ Len(hi) = Len(s) - i /\ \A j \in 1..Len(s) - i : hi[j] = s[i + j]
  <2>1. /\ lo \in Seq(T) /\ Len(lo) = i - 1 /\ \A j \in 1..i - 1 : lo[j] = s[j]
    BY <1>1, SubSeqProperties
  <2>2. /\ hi \in Seq(T) /\ Len(hi) = Len(s) - i /\ \A j \in 1..Len(s) - i : hi[j] = s[i + j]
    BY <1>1, SubSeqProperties
  <2> QED  BY <2>1, <2>2
<1>3. <<a>> \in Seq(T) /\ <<a>>[1] = a
  OBVIOUS
<1>10. Len(<<a>>) = 1
  OBVIOUS
<1> DEFINE la == lo \o <<a>>
<1> HIDE DEF lo, hi
<1>4. la \in Seq(T) /\ Len(la) = i /\ \A j \in 1..i : la[j] = IF j = i THEN a ELSE s[j]
  <2>1. /\ la \in Seq(T) /\ Len(la) = Len(lo) + Len(<<a>>)
        /\ \A j \in 1..Len(lo) + Len(<<a>>) : la[j] = IF j <= Len(lo) THEN lo[j] ELSE <<a>>[j - Len(lo)]
    BY <1>2, <1>3, ConcatProperties, Zenon
  <2> HIDE DEF la
  <2>2. ASSUME NEW j \in 1..i PROVE la[j] = IF j = i THEN a ELSE s[j]
    <3>1. CASE j = i
      <4>1. j \in 1..Len(lo) + Len(<<a>>) /\ ~(j <= Len(lo)) /\ j - Len(lo) = 1
        BY <1>1, <1>2, <1>10, <3>1
      <4> QED  BY <1>3, <2>1, <3>1, <4>1
    <3>2. CASE j # i
      <4>1. j \in 1..Len(lo) + Len(<<a>>) /\ j <= Len(lo) /\ j \in 1..i - 1
        BY <1>1, <1>2, <1>10, <3>2
      <4> QED  BY <1>2, <2>1, <3>2, <4>1
    <3> QED  BY <3>1, <3>2
  <2> QED  BY <1>1, <1>2, <1>10, <2>1, <2>2
<1> QED  BY <1>2, <1>4, Zenon DEF la, lo, hi

\* One element, and two elements, in the place of element i.
OneFor(r, T, s, i, a) ==
  /\ r \in Seq(T) /\ Len(r) = Len(s) /\ r[i] = a
  /\ \A j \in 1..Len(s) : j # i => r[j] = s[j]

TwoFor(r, T, s, i, a, b) ==
  /\ r \in Seq(T) /\ Len(r) = Len(s) + 1 /\ r[i] = a /\ r[i + 1] = b
  /\ \A j \in 1..i - 1 : r[j] = s[j]
  /\ \A j \in i + 2..Len(s) + 1 : r[j] = s[j - 1]

LEMMA SplicedOne ==
  ASSUME NEW T, NEW s \in Seq(T), NEW i \in 1..Len(s), NEW a \in T
  PROVE  OneFor(Splice(s, i, a, <<>>), T, s, i, a)
<1> DEFINE la == SubSeq(s, 1, i - 1) \o <<a>>
           hi == SubSeq(s, i + 1, Len(s))
<1>1. Len(s) \in Nat /\ i \in Nat /\ i >= 1 /\ i <= Len(s)
  OBVIOUS
<1>4. la \in Seq(T) /\ Len(la) = i /\ \A j \in 1..i : la[j] = IF j = i THEN a ELSE s[j]
  BY Parts
<1>2. hi \in Seq(T) /\ Len(hi) = Len(s) - i /\ \A j \in 1..Len(s) - i : hi[j] = s[i + j]
  BY Parts
<1> HIDE DEF la, hi
<1>6. la \o <<>> = la
  BY <1>4, ConcatEmptySeq
<1> DEFINE t == la \o hi
<1>7. t \in Seq(T) /\ Len(t) = Len(s) /\ \A j \in 1..Len(s) : t[j] = IF j = i THEN a ELSE s[j]
  <2>1. /\ t \in Seq(T) /\ Len(t) = Len(la) + Len(hi)
        /\ \A j \in 1..Len(la) + Len(hi) : t[j] = IF j <= Len(la) THEN la[j] ELSE hi[j - Len(la)]
    BY <1>2, <1>4, ConcatProperties, Zenon
  <2> HIDE DEF t
  <2>2. ASSUME NEW j \in 1..Len(s) PROVE t[j] = IF j = i THEN a ELSE s[j]
    <3>1. CASE j <= i
      BY <1>1, <1>2, <1>4, <2>1, <3>1
    <3>2. CASE j > i
      <4>1. j - i \in 1..Len(s) - i /\ i + (j - i) = j /\ j \in 1..i + (Len(s) - i) /\ ~(j <= i)
        BY <1>1, <3>2
      <4>2. t[j] = hi[j - i]
        BY <1>2, <1>4, <2>1, <4>1
      <4> QED  BY <1>2, <3>2, <4>1, <4>2
    <3>3. j <= i \/ j > i
      BY <1>1
    <3> QED  BY <3>1, <3>2, <3>3
  <2> QED  BY <1>1, <1>2, <1>4, <2>1, <2>2
<1>9. t = Splice(s, i, a, <<>>)
  BY <1>6 DEF la, hi, Splice
<1> HIDE DEF t
<1> QED  BY <1>1, <1>7, <1>9 DEF OneFor

LEMMA SplicedTwo ==
  ASSUME NEW T, NEW s \in Seq(T), NEW i \in 1..Len(s), NEW a \in T, NEW b \in T
  PROVE  TwoFor(Splice(s, i, a, <<b>>), T, s, i, a, b)
<1> DEFINE la == SubSeq(s, 1, i - 1) \o <<a>>
           hi == SubSeq(s, i + 1, Len(s))
<1>1. Len(s) \in Nat /\ i \in Nat /\ i >= 1 /\ i <= Len(s)
  OBVIOUS
<1>4. la \in Seq(T) /\ Len(la) = i /\ \A j \in 1..i : la[j] = IF j = i THEN a ELSE s[j]
  BY Parts
<1>2. hi \in Seq(T) /\ Len(hi) = Len(s) - i /\ \A j \in 1..Len(s) - i : hi[j] = s[i + j]
  BY Parts
<1> HIDE DEF la, hi
<1>3. <<b>> \in Seq(T) /\ <<b>>[1] = b
  OBVIOUS
<1>10. Len(<<b>>) = 1
  OBVIOUS
<1> DEFINE lab == la \o <<b>>
<1>5. /\ lab \in Seq(T) /\ Len(lab) = i + 1
      /\ \A j \in 1..i + 1 : lab[j] = IF j = i + 1 THEN b ELSE IF j = i THEN a ELSE s[j]
  <2>1. /\ lab \in Seq(T) /\ Len(lab) = Len(la) + Len(<<b>>)
        /\ \A j \in 1..Len(la) + Len(<<b>>) : lab[j] = IF j <= Len(la) THEN la[j] ELSE <<b>>[j - Len(la)]
    BY <1>3, <1>4, ConcatProperties, Zenon
  <2> QED  BY <1>1, <1>3, <1>4, <1>10, <2>1
<1> HIDE DEF lab
<1> DEFINE v == lab \o hi
<1>8. /\ v \in Seq(T) /\ Len(v) = Len(s) + 1
      /\ \A j \in 1..Len(s) + 1 :
           v[j] = IF j < i THEN s[j] ELSE IF j = i THEN a ELSE IF j = i + 1 THEN b ELSE s[j - 1]
  <2>1. /\ v \in Seq(T) /\ Len(v) = Len(lab) + Len(hi)
        /\ \A j \in 1..Len(lab) + Len(hi) : v[j] = IF j <= Len(lab) THEN lab[j] ELSE hi[j - Len(lab)]
    BY <1>2, <1>5, ConcatProperties, Zenon
  <2> HIDE DEF v
  <2>2. ASSUME NEW j \in 1..Len(s) + 1
        PROVE  v[j] = IF j < i THEN s[j] ELSE IF j = i THEN a ELSE IF j = i + 1 THEN b ELSE s[j - 1]
    <3>1. CASE j <= i + 1
      <4>1. j \in 1..Len(lab) + Len(hi) /\ j <= Len(lab) /\ j \in 1..i + 1
        BY <1>1, <1>2, <1>5, <3>1
      <4>2. v[j] = lab[j]
        BY <2>1, <4>1
      <4>3. lab[j] = IF j = i + 1 THEN b ELSE IF j = i THEN a ELSE s[j]
        BY <1>5, <4>1
      <4> QED  BY <1>1, <4>1, <4>2, <4>3
    <3>2. CASE j > i + 1
      <4>1. /\ j - (i + 1) \in 1..Len(s) - i /\ i + (j - (i + 1)) = j - 1
            /\ j \in 1..i + 1 + (Len(s) - i) /\ ~(j <= i + 1)
        BY <1>1, <3>2
      <4>2. v[j] = hi[j - (i + 1)]
        BY <1>2, <1>5, <2>1, <4>1
      <4>3. hi[j - (i + 1)] = s[j - 1]
        BY <1>2, <4>1
      <4> QED  BY <1>1, <3>2, <4>2, <4>3
    <3>3. j <= i + 1 \/ j > i + 1
      BY <1>1
    <3> QED  BY <3>1, <3>2, <3>3
  <2> QED  BY <1>1, <1>2, <1>5, <2>1, <2>2
<1>9. v = Splice(s, i, a, <<b>>)
  BY DEF la, lab, hi, Splice
<1> HIDE DEF v
<1>11. v[i] = a /\ v[i + 1] = b
  BY <1>1, <1>8
<1>12. ASSUME NEW j \in 1..i - 1 PROVE v[j] = s[j]
  BY <1>1, <1>8
<1>13. ASSUME NEW j \in i + 2..Len(s) + 1 PROVE v[j] = s[j - 1]
  <2>1. j \in 1..Len(s) + 1 /\ ~(j < i) /\ j # i /\ j # i + 1
    BY <1>1
  <2> QED  BY <1>8, <2>1
<1> QED  BY <1>8, <1>9, <1>11, <1>12, <1>13 DEF TwoFor

-----------------------------------------------------------------------------
(* Whose step it is.                                                       *)

\* The places in pool.c and mmiopool.c.
Own == {"pool_alloc", "pool_map", "pool_dealloc", "pool_free", "pool_unmap",
        "mmiopool_alloc", "mmio_region", "mmio_take", "mmio_map"}

Mine(r) == r.pc \in Own

\* The places in the functions that they call, and outside them.
Below == {"create_stack", "dlfree", "dlmalloc", "free", "grow", "keep", "malloc", "next_frame",
          "node", "page", "pmem_alloc", "pmem_dealloc", "pmem_done", "pop", "pop_next",
          "pop_swap", "popped", "push", "release", "sbrk", "shrink", "sys_alloc", "sys_trim",
          "trimmed", "vmem_frame", "vmem_map", "vmem_tab"}

\* Only the outermost record of a stack may be one of them.
Low(s) ==
  /\ \E S : s \in Seq(S)
  /\ \A i \in 1..Len(s) - 1 : ~Mine(s[i])

\* The outermost record, if it is one of them.
User(s) == IF s # <<>> /\ Mine(s[Len(s)]) THEN s[Len(s)] ELSE Rec("none", 0, 0, 0)

-----------------------------------------------------------------------------
(* Stacks.                                                                 *)

\* Below the outermost record, records come and go without changing it.
LEMMA InnerStack ==
  ASSUME NEW s, Low(s), s # <<>>, ~Mine(Head(s)),
         NEW a, NEW b, ~Mine(a), ~Mine(b)
  PROVE  /\ Low(Tail(s)) /\ User(Tail(s)) = User(s)
         /\ Low(<<a>> \o Tail(s)) /\ User(<<a>> \o Tail(s)) = User(s)
         /\ Low(<<a, b>> \o Tail(s)) /\ User(<<a, b>> \o Tail(s)) = User(s)
<1>1. PICK S : s \in Seq(S)
  BY DEF Low
<1> DEFINE t == Tail(s)
           u == <<a>> \o Tail(s)
           v == <<a, b>> \o Tail(s)
<1>2. /\ t \in Seq(S) /\ Len(t) = Len(s) - 1 /\ \A i \in 1..Len(s) - 1 : t[i] = s[i + 1]
      /\ u \in Seq(S \cup {a, b}) /\ Len(u) = Len(s)
      /\ \A i \in 1..Len(s) : u[i] = IF i = 1 THEN a ELSE s[i]
      /\ v \in Seq(S \cup {a, b}) /\ Len(v) = Len(s) + 1
      /\ \A i \in 1..Len(s) + 1 : v[i] = IF i = 1 THEN a ELSE IF i = 2 THEN b ELSE s[i - 1]
  BY <1>1, Replaced
<1>3. Len(s) \in Nat \ {0} /\ ~Mine(s[1]) /\ \A i \in 1..Len(s) - 1 : ~Mine(s[i])
  <2>1. \A i \in 1..Len(s) - 1 : ~Mine(s[i])
    BY Zenon DEF Low
  <2>2. Len(s) \in Nat \ {0} /\ s[1] = Head(s)
    BY <1>1
  <2> QED  BY <2>1, <2>2
<1> HIDE DEF t, u, v
<1>4. Low(t) /\ User(t) = User(s)
  <2>1. Low(t)
    <3>1. ASSUME NEW i \in 1..Len(t) - 1 PROVE ~Mine(t[i])
      <4>1. i \in 1..Len(s) - 1 /\ i + 1 \in 1..Len(s) - 1
        BY <1>2, <1>3
      <4> QED  BY <1>2, <1>3, <4>1
    <3> QED  BY <1>2, <3>1, Zenon DEF Low
  <2>2. CASE Len(s) = 1
    <3>1. t = <<>> /\ ~Mine(s[Len(s)])
      BY <1>2, <1>3, <2>2
    <3> QED  BY <2>1, <3>1, Zenon DEF User
  <2>3. CASE Len(s) # 1
    <3>1. t # <<>> /\ t[Len(t)] = s[Len(s)]
      BY <1>2, <1>3, <2>3
    <3> QED  BY <2>1, <3>1, Zenon DEF User
  <2> QED  BY <2>1, <2>2, <2>3
<1>5. Low(u) /\ User(u) = User(s)
  <2>1. Low(u)
    <3>1. ASSUME NEW i \in 1..Len(u) - 1 PROVE ~Mine(u[i])
      BY <1>2, <1>3
    <3> QED  BY <1>2, <3>1, Zenon DEF Low
  <2>2. u # <<>>
    BY <1>2, <1>3
  <2>3. CASE Len(s) = 1
    <3>1. ~Mine(u[Len(u)]) /\ ~Mine(s[Len(s)])
      BY <1>2, <1>3, <2>3
    <3> QED  BY <2>1, <3>1, Zenon DEF User
  <2>4. CASE Len(s) # 1
    <3>1. u[Len(u)] = s[Len(s)]
      BY <1>2, <1>3, <2>4
    <3> QED  BY <2>1, <2>2, <3>1, Zenon DEF User
  <2> QED  BY <2>1, <2>3, <2>4
<1>6. Low(v) /\ User(v) = User(s)
  <2>1. Low(v)
    <3>1. ASSUME NEW i \in 1..Len(v) - 1 PROVE ~Mine(v[i])
      BY <1>2, <1>3, SMTT(30)
    <3> QED  BY <1>2, <3>1, Zenon DEF Low
  <2>2. v # <<>>
    BY <1>2, <1>3
  <2>3. CASE Len(s) = 1
    <3>1. ~Mine(v[Len(v)]) /\ ~Mine(s[Len(s)])
      BY <1>2, <1>3, <2>3
    <3> QED  BY <2>1, <3>1, Zenon DEF User
  <2>4. CASE Len(s) # 1
    <3>1. v[Len(v)] = s[Len(s)]
      BY <1>2, <1>3, <2>4
    <3> QED  BY <2>1, <2>2, <3>1, Zenon DEF User
  <2> QED  BY <2>1, <2>3, <2>4
<1> QED  BY <1>4, <1>5, <1>6 DEF t, u, v

\* A call of pool.c or mmiopool.c runs when nothing else is on the stack.
LEMMA OwnStack ==
  ASSUME NEW s, Low(s), s # <<>>, Mine(Head(s))
  PROVE  Len(s) = 1 /\ User(s) = Head(s) /\ Tail(s) = <<>>
<1>1. PICK S : s \in Seq(S)
  BY DEF Low
<1>2. Len(s) \in Nat \ {0} /\ s[1] = Head(s)
  BY <1>1
<1>3. Len(s) = 1
  <2>1. \A i \in 1..Len(s) - 1 : ~Mine(s[i])
    BY Zenon DEF Low
  <2> QED  BY <1>1, <1>2, <2>1
<1>4. User(s) = Head(s)
  BY <1>2, <1>3 DEF User
<1>5. Tail(s) \in Seq(S) /\ Len(Tail(s)) = 0
  BY <1>1, <1>3
<1> QED  BY <1>3, <1>4, <1>5, EmptySeq, Zenon

\* Short stacks.
LEMMA ShortStack ==
  ASSUME NEW a, NEW b
  PROVE  /\ Low(<<>>) /\ User(<<>>) = Rec("none", 0, 0, 0)
         /\ Low(<<a>>) /\ User(<<a>>) = IF Mine(a) THEN a ELSE Rec("none", 0, 0, 0)
         /\ ~Mine(a) =>
              /\ Low(<<a, b>>)
              /\ User(<<a, b>>) = IF Mine(b) THEN b ELSE Rec("none", 0, 0, 0)
         /\ <<a>> \o <<>> = <<a>> /\ <<a, b>> \o <<>> = <<a, b>>
<1>1. <<>> \in Seq({a, b}) /\ <<a>> \in Seq({a, b}) /\ <<a, b>> \in Seq({a, b})
  OBVIOUS
<1>2. Low(<<>>) /\ Low(<<a>>) /\ (~Mine(a) => Low(<<a, b>>))
  <2>1. /\ \A i \in 1..Len(<<>>) - 1 : ~Mine(<<>>[i])
        /\ \A i \in 1..Len(<<a>>) - 1 : ~Mine(<<a>>[i])
        /\ ~Mine(a) => \A i \in 1..Len(<<a, b>>) - 1 : ~Mine(<<a, b>>[i])
    OBVIOUS
  <2> QED  BY <1>1, <2>1, Zenon DEF Low
<1>3. Len(<<a>>) = 1 /\ <<a>>[1] = a /\ <<a>> # <<>> /\ Len(<<a, b>>) = 2 /\ <<a, b>>[2] = b /\ <<a, b>> # <<>>
  OBVIOUS
<1>4. /\ User(<<>>) = Rec("none", 0, 0, 0)
      /\ User(<<a>>) = IF Mine(a) THEN a ELSE Rec("none", 0, 0, 0)
      /\ User(<<a, b>>) = IF Mine(b) THEN b ELSE Rec("none", 0, 0, 0)
  BY <1>3 DEF User
<1>5. <<a>> \o <<>> = <<a>> /\ <<a, b>> \o <<>> = <<a, b>>
  BY <1>1, ConcatEmptySeq
<1> QED  BY <1>2, <1>4, <1>5
-----------------------------------------------------------------------------
(* Inner steps.                                                            *)

\* The innermost record, not one of pool.c or mmiopool.c, is replaced or removed.
Move(c) ==
  /\ stk[c] # <<>> /\ ~Mine(Head(stk[c]))
  /\ \/ stk' = [stk EXCEPT ![c] = Tail(@)]
     \/ \E a : ~Mine(a) /\ stk' = [stk EXCEPT ![c] = <<a>> \o Tail(@)]
     \/ \E a, b : ~Mine(a) /\ ~Mine(b) /\ stk' = [stk EXCEPT ![c] = <<a, b>> \o Tail(@)]

\* What a step below the calls of pool.c and mmiopool.c may do.
Inner(c) ==
  /\ ~stopped /\ UNCHANGED <<pool, regions>>
  /\ \/ UNCHANGED stk /\ stopped' \in {TRUE, stopped}
     \/ Move(c) /\ UNCHANGED stopped

\* The ways of going on, for a record that is not one of pool.c or mmiopool.c.
LEMMA Moves ==
  ASSUME NEW c, NEW l, l \in Below, At(c, l)
  PROVE  /\ \A v : Return(c, v) => Move(c)
         /\ \A l1, x1, y1, z1 : l1 \in Below /\ Goto(c, Rec(l1, x1, y1, z1)) => Move(c)
         /\ \A l1, x1, y1, z1, l2, x2, y2, z2 :
              l1 \in Below /\ l2 \in Below /\ Call(c, Rec(l1, x1, y1, z1), Rec(l2, x2, y2, z2))
                => Move(c)
<1>0. Below \cap Own = {}
  BY DEF Below, Own
<1>1. stk[c] # <<>> /\ ~Mine(Head(stk[c]))
  BY <1>0, Zenon DEF At, Mine
<1>2. ASSUME NEW l1, NEW x1, NEW y1, NEW z1, l1 \in Below PROVE ~Mine(Rec(l1, x1, y1, z1))
  BY <1>0, <1>2, Zenon DEF Mine, Rec
<1>3. ASSUME NEW v, Return(c, v) PROVE Move(c)
  BY <1>1, <1>3, Zenon DEF Return, Move
<1>4. ASSUME NEW l1, NEW x1, NEW y1, NEW z1, l1 \in Below, Goto(c, Rec(l1, x1, y1, z1)) PROVE Move(c)
  BY <1>1, <1>2, <1>4, Zenon DEF Goto, Move
<1>5. ASSUME NEW l1, NEW x1, NEW y1, NEW z1, NEW l2, NEW x2, NEW y2, NEW z2,
             l1 \in Below, l2 \in Below, Call(c, Rec(l1, x1, y1, z1), Rec(l2, x2, y2, z2))
      PROVE  Move(c)
  <2>1. ~Mine(Rec(l1, x1, y1, z1)) /\ ~Mine(Rec(l2, x2, y2, z2))
    BY <1>2, <1>5
  <2> QED  BY <1>1, <1>5, <2>1, Zenon DEF Call, Move
<1> QED  BY <1>3, <1>4, <1>5, Zenon

\* Every step of the heap, the break, the mappings and the frames is an inner one.
LEMMA HeapSteps ==
  ASSUME NEW c, Acquire(c) \/ Release(c) \/ dlmalloc(c) \/ sys_alloc(c) \/ dlfree(c) \/ sys_trim(c) \/ Trimmed(c)
  PROVE  Inner(c)
<1> USE Zenon DEF users
<1>1. CASE Acquire(c)
  <2>1. CASE At(c, "malloc")
    BY <1>1, <2>1, Moves DEF Acquire, At, Inner, malloc_nolock, Below
  <2>2. CASE ~At(c, "malloc")
    <3>1. At(c, "free") /\ Call(c, Rec("release", 0, 0, 0), Rec("dlfree", Me(c).x, Me(c).y, 0))
      BY <1>1, <2>2 DEF Acquire, free_nolock
    <3>2. Move(c)
      BY <3>1, Moves DEF Below
    <3> QED  BY <1>1, <3>1, <3>2 DEF Acquire, At, Inner
  <2> QED  BY <2>1, <2>2
<1>2. CASE Release(c)
  BY <1>2, Moves DEF Release, At, Inner, Below
<1>3. CASE dlmalloc(c)
  <2>1. Move(c)
    <3>1. At(c, "dlmalloc") /\ "dlmalloc" \in Below /\ "sys_alloc" \in Below /\ "sbrk" \in Below
      BY <1>3 DEF dlmalloc, Below
    <3>2. CASE \E v : Return(c, v)
      BY <3>1, <3>2, Moves
    <3>3. CASE \E n, k : Call(c, Rec("sys_alloc", n, k, 0), sbrk(k))
      BY <3>1, <3>3, Moves DEF sbrk
    <3> QED  BY <1>3, <3>2, <3>3 DEF dlmalloc, TakeTop
  <2> QED  BY <1>3, <2>1 DEF dlmalloc, At, Inner
<1>4. CASE sys_alloc(c)
  BY <1>4, Moves DEF sys_alloc, TakeTop, At, Inner, Below
<1>5. CASE dlfree(c)
  BY <1>5, Moves DEF dlfree, At, Inner, Below
<1>6. CASE sys_trim(c)
  BY <1>6, Moves DEF sys_trim, sbrk, At, Inner, Below
<1>7. CASE Trimmed(c)
  BY <1>7, Moves DEF Trimmed, At, Inner, Below
<1> QED  BY <1>1, <1>2, <1>3, <1>4, <1>5, <1>6, <1>7

LEMMA MapSteps ==
  ASSUME NEW c, dlmalloc_sbrk(c) \/ Grow(c) \/ Shrink(c) \/ arch_vmem_map(c) \/ MapFrame(c) \/ MapTable(c)
  PROVE  Inner(c)
<1> USE Zenon DEF users
<1>1. CASE dlmalloc_sbrk(c)
  BY <1>1, Moves DEF dlmalloc_sbrk, At, Inner, Below
<1>2. CASE Grow(c)
  <2>1. Move(c)
    <3>1. At(c, "grow") /\ {"grow", "vmem_map"} \subseteq Below
      BY <1>2 DEF Grow, Below
    <3> QED  BY <1>2, <3>1, Moves DEF Grow, vmem_map
  <2> QED  BY <1>2, <2>1 DEF Grow, At, Inner
<1>3. CASE Shrink(c)
  <2>1. Move(c)
    <3>1. At(c, "shrink") /\ {"shrink", "pmem_dealloc"} \subseteq Below
      BY <1>3 DEF Shrink, Below
    <3> QED  BY <1>3, <3>1, Moves DEF Shrink, pmem_dealloc
  <2> QED  BY <1>3, <2>1 DEF Shrink, At, Inner
<1>4. CASE arch_vmem_map(c)
  BY <1>4, Moves DEF arch_vmem_map, pmem_alloc, At, Inner, Below
<1>5. CASE MapFrame(c)
  <2>1. CASE stopped' = stopped
    <3>1. At(c, "vmem_frame") /\ {"vmem_frame", "vmem_tab", "pmem_alloc"} \subseteq Below
      BY <1>5 DEF MapFrame, Below
    <3>2. Move(c)
      BY <1>5, <2>1, <3>1, Moves DEF MapFrame, pmem_alloc, Stop, At
    <3> QED  BY <1>5, <2>1, <3>1, <3>2 DEF MapFrame, At, Inner
  <2>2. CASE stopped' # stopped
    BY <1>5, <2>2 DEF MapFrame, Stop, At, Inner
  <2> QED  BY <2>1, <2>2
<1>6. CASE MapTable(c)
  BY <1>6, Moves DEF MapTable, At, Inner, Below
<1> QED  BY <1>1, <1>2, <1>3, <1>4, <1>5, <1>6

LEMMA FrameSteps ==
  ASSUME NEW c, \/ PmemAlloc(c) \/ PopHead(c) \/ PopNext(c) \/ PopSwap(c) \/ Popped(c) \/ PmemDone(c)
                \/ PmemDealloc(c) \/ CreateStack(c) \/ PushPage(c) \/ stack_push(c) \/ PushSwap(c)
                \/ NextFrame(c) \/ Keep(c)
  PROVE  Inner(c)
<1> USE Zenon DEF users
<1>1. CASE PmemAlloc(c)
  BY <1>1, Moves DEF PmemAlloc, At, Inner, Below
<1>2. CASE PopHead(c)
  BY <1>2, Moves DEF PopHead, Stop, At, Inner, Below
<1>3. CASE PopNext(c)
  BY <1>3, Moves DEF PopNext, At, Inner, Below
<1>4. CASE PopSwap(c)
  <2>1. Move(c)
    <3>1. At(c, "pop_swap") /\ {"pop_swap", "popped", "dlfree", "pop"} \subseteq Below
      BY <1>4 DEF PopSwap, Below
    <3> QED  BY <1>4, <3>1, Moves DEF PopSwap, free_nolock
  <2> QED  BY <1>4, <2>1 DEF PopSwap, At, Inner
<1>5. CASE Popped(c)
  BY <1>5, Moves DEF Popped, free_nolock, At, Inner, Below
<1>12. CASE PmemDone(c)
  BY <1>12, Moves DEF PmemDone, At, Inner, Below
<1>6. CASE PmemDealloc(c)
  BY <1>6, Moves DEF PmemDealloc, malloc, malloc_nolock, At, Inner, Below
<1>7. CASE CreateStack(c)
  BY <1>7, Moves DEF CreateStack, malloc_nolock, At, Inner, Below
<1>8. CASE PushPage(c)
  BY <1>8, Moves DEF PushPage, NodeAlloc, malloc_nolock, At, Inner, Below
<1>9. CASE stack_push(c)
  BY <1>9, Moves DEF stack_push, At, Inner, Below
<1>10. CASE PushSwap(c)
  BY <1>10, Moves DEF PushSwap, At, Inner, Below
<1>11. CASE NextFrame(c) \/ Keep(c)
  BY <1>11, Moves DEF NextFrame, Keep, At, Inner, Below
<1> QED
  BY <1>1, <1>2, <1>3, <1>4, <1>5, <1>6, <1>7, <1>8, <1>9, <1>10, <1>11, <1>12

-----------------------------------------------------------------------------
(* The inductive invariant.                                                *)

StackInv(c) == stk = [p \in Proc |-> stk[p]] /\ Low(stk[c])

\* The bits that are set are those of the buffers handed out and of the one that
\* is being mapped; they lie below the count, so that the bit of the count is free.
PoolInv(c) ==
  LET u == User(stk[c])
  IN  /\ pool.alloc_count \in 0..BufferCount /\ pool.live \subseteq Buffers
      /\ \A b \in pool.live : b < pool.alloc_count
      /\ pool.bitmap = IF u.pc = "pool_map" THEN pool.live \cup {u.x} ELSE pool.live
      /\ u.pc = "pool_map" => /\ pool.alloc_count # BufferCount
                              /\ u.x = BufferIdx(pool.live, pool.alloc_count)
      /\ u.pc \in {"pool_dealloc", "pool_free"} => u.x \in pool.live

\* The regions tile the window, and one that was found is still large enough.
WindowInv(c) ==
  LET u == User(stk[c])
  IN  /\ \E S : regions \in Seq(S)
      /\ \A i \in 1..Len(regions) : regions[i].base \in Int /\ regions[i].len \in Nat
      /\ Len(regions) # 0 /\ WindowTiled
      /\ u.pc = "mmiopool_alloc" => u.x \in Nat
      /\ u.pc \in {"mmio_region", "mmio_take"} =>
           u.x \in Nat /\ u.y \in 1..Len(regions) /\ u.x <= regions[u.y].len

IInv(c) == StackInv(c) /\ PoolInv(c) /\ WindowInv(c)

\* The kernel before the first frame.
LEMMA InitInv == ASSUME NEW c, Proc = {c}, Init PROVE IInv(c)
<1>1. stk = [p \in Proc |-> <<>>] /\ stk[c] = <<>>
  BY Zenon DEF Init
<1>2. StackInv(c)
  BY <1>1, ShortStack, Zenon DEF StackInv
<1>3. User(stk[c]) = Rec("none", 0, 0, 0) /\ User(stk[c]).pc = "none"
  <2>1. User(<<>>) = Rec("none", 0, 0, 0)
    BY ShortStack, Zenon
  <2> QED  BY <1>1, <2>1 DEF Rec
<1>4. PoolInv(c)
  <2>1. pool.bitmap = {} /\ pool.alloc_count = 0 /\ pool.live = {}
    BY DEF Init
  <2>2. 0 \in 0..BufferCount
    BY BitmapAssumption
  <2> QED  BY <1>3, <2>1, <2>2 DEF PoolInv
<1>5. WindowInv(c)
  <2> DEFINE r == Region(MmioBase, MmioPages, FALSE)
  <2>1. regions = <<r>> /\ r.base = MmioBase /\ r.len = MmioPages
    BY Zenon DEF Init, Region
  <2>2. MmioBase \in Int /\ MmioPages \in Nat
    <3> USE MemoryAssumption, BitmapAssumption
    <3>1. ASSUME NEW n \in Int PROVE Aligned(n) \in Int
      <4>1. (n + TabSpan - 1) \div TabSpan \in Int /\ TabSpan \in Int
        OBVIOUS
      <4> QED  BY <4>1 DEF Aligned
    <3>2. BufferCount * Pages \in Int /\ HeapPages \in Int
      BY DEF HeapPages
    <3> QED  BY <3>1, <3>2 DEF MmioBase, PoolBase
  <2> HIDE DEF r
  <2>3. regions \in Seq({r}) /\ Len(regions) = 1 /\ regions[1] = r
    BY <2>1
  <2>4. WindowTiled
    BY <2>1, <2>2, <2>3 DEF WindowTiled
  <2>5. \A i \in 1..Len(regions) : regions[i].base \in Int /\ regions[i].len \in Nat
    BY <2>1, <2>2, <2>3
  <2>6. \E S : regions \in Seq(S)
    BY <2>3
  <2> QED  BY <1>3, <2>3, <2>4, <2>5, <2>6 DEF WindowInv
<1> QED  BY <1>2, <1>4, <1>5 DEF IInv

\* An inner step leaves the outermost call where it is.
LEMMA InnerKeeps ==
  ASSUME NEW c, Proc = {c}, StackInv(c), Inner(c)
  PROVE  StackInv(c)' /\ User(stk'[c]) = User(stk[c])
<1>1. CASE UNCHANGED stk
  BY <1>1 DEF StackInv
<1>2. CASE Move(c)
  <2> DEFINE s == stk[c]
  <2>1. Low(s) /\ s # <<>> /\ ~Mine(Head(s)) /\ c \in DOMAIN stk
    BY <1>2 DEF StackInv, Move
  <2>2. ASSUME NEW t, stk' = [stk EXCEPT ![c] = t] PROVE stk'[c] = t /\ stk' = [p \in Proc |-> stk'[p]]
    BY <2>2, Zenon DEF StackInv
  <2>3. CASE stk' = [stk EXCEPT ![c] = Tail(stk[c])]
    BY <2>1, <2>2, <2>3, InnerStack, Zenon DEF StackInv
  <2>4. ASSUME NEW a, ~Mine(a), stk' = [stk EXCEPT ![c] = <<a>> \o Tail(stk[c])]
        PROVE  StackInv(c)' /\ User(stk'[c]) = User(stk[c])
    BY <2>1, <2>2, <2>4, InnerStack, Zenon DEF StackInv
  <2>5. ASSUME NEW a, NEW b, ~Mine(a), ~Mine(b), stk' = [stk EXCEPT ![c] = <<a, b>> \o Tail(stk[c])]
        PROVE  StackInv(c)' /\ User(stk'[c]) = User(stk[c])
    <3>1. Low(<<a, b>> \o Tail(s)) /\ User(<<a, b>> \o Tail(s)) = User(s)
      BY <2>1, <2>5, InnerStack, Zenon
    <3> QED  BY <2>2, <2>5, <3>1, Zenon DEF StackInv
  <2> QED  BY <1>2, <2>3, <2>4, <2>5, Zenon DEF Move
<1> QED  BY <1>1, <1>2, Zenon DEF Inner

-----------------------------------------------------------------------------
(* Outer steps.                                                            *)

\* The call of pool.c or mmiopool.c that a process is in, when it runs.
LEMMA OuterAt ==
  ASSUME NEW c, StackInv(c), NEW l \in Own, At(c, l)
  PROVE  /\ Tail(stk[c]) = <<>> /\ User(stk[c]) = Me(c) /\ Me(c).pc = l /\ ~stopped
         /\ c \in Proc => c \in DOMAIN stk
<1>1. stk[c] # <<>> /\ Mine(Head(stk[c])) /\ Low(stk[c])
  BY Zenon DEF At, StackInv, Mine
<1>2. Tail(stk[c]) = <<>> /\ User(stk[c]) = Head(stk[c])
  BY <1>1, OwnStack
<1>3. c \in Proc => c \in DOMAIN stk
  BY DEF StackInv
<1> QED  BY <1>2, <1>3, Zenon DEF At, Me

\* Going on at a place of pool.c or mmiopool.c, calling, returning, beginning.
LEMMA OuterMoves ==
  ASSUME NEW c, Proc = {c}, StackInv(c), NEW t, stk' = [stk EXCEPT ![c] = t], Low(t)
  PROVE  StackInv(c)' /\ User(stk'[c]) = User(t)
  BY Zenon DEF StackInv

LEMMA OuterGoto ==
  ASSUME NEW c, Proc = {c}, StackInv(c), NEW l \in Own, At(c, l),
         NEW l1 \in Own, NEW x, NEW y, Goto(c, Rec(l1, x, y, 0))
  PROVE  StackInv(c)' /\ User(stk'[c]) = Rec(l1, x, y, 0)
<1>1. stk' = [stk EXCEPT ![c] = <<Rec(l1, x, y, 0)>>]
  BY OuterAt, ShortStack, Zenon DEF Goto
<1>2. Mine(Rec(l1, x, y, 0))
  BY Zenon DEF Mine, Rec
<1> QED  BY <1>1, <1>2, ShortStack, OuterMoves, Zenon

LEMMA OuterCall ==
  ASSUME NEW c, Proc = {c}, StackInv(c), NEW l \in Own, At(c, l), NEW l1 \in Own, NEW x, NEW y,
         NEW l2 \in Below, NEW x2, NEW y2, NEW z2,
         Call(c, Rec(l1, x, y, 0), Rec(l2, x2, y2, z2))
  PROVE  StackInv(c)' /\ User(stk'[c]) = Rec(l1, x, y, 0)
<1> DEFINE a == Rec(l2, x2, y2, z2)
           b == Rec(l1, x, y, 0)
<1>1. stk' = [stk EXCEPT ![c] = <<a, b>>]
  BY OuterAt, ShortStack, Zenon DEF Call
<1>2. Mine(b)
  BY Zenon DEF Mine, Rec
<1>3. ~Mine(a)
  <2>1. l2 \notin Own
    BY DEF Below, Own
  <2> QED  BY <2>1, Zenon DEF Mine, Rec
<1> HIDE DEF a, b
<1>4. Low(<<a, b>>) /\ User(<<a, b>>) = b
  BY <1>2, <1>3, ShortStack, Zenon
<1>5. StackInv(c)' /\ User(stk'[c]) = b
  BY <1>1, <1>4, OuterMoves, Zenon
<1> QED  BY <1>5 DEF b

LEMMA OuterReturn ==
  ASSUME NEW c, Proc = {c}, StackInv(c), NEW l \in Own, At(c, l), NEW v, Return(c, v)
  PROVE  StackInv(c)' /\ User(stk'[c]).pc = "none"
<1>1. stk' = [stk EXCEPT ![c] = <<>>]
  BY OuterAt, Zenon DEF Return
<1>2. Low(<<>>) /\ User(<<>>).pc = "none"
  <2>1. Low(<<>>) /\ User(<<>>) = Rec("none", 0, 0, 0)
    BY ShortStack, Zenon
  <2> QED  BY <2>1 DEF Rec
<1> QED  BY <1>1, <1>2, OuterMoves, Zenon

\* What a step does to the pool as Pool sees it.
PoolStep ==
  \/ pool'.live = pool.live /\ pool'.alloc_count = pool.alloc_count /\ stopped' = stopped
  \/ /\ pool'.live = pool.live /\ pool'.alloc_count = pool.alloc_count
     /\ ~stopped /\ stopped' = TRUE
  \/ /\ ~stopped /\ stopped' = stopped
     /\ pool.alloc_count # BufferCount /\ pool'.alloc_count = pool.alloc_count + 1
     /\ pool'.live = pool.live \cup {BufferIdx(pool.live, pool.alloc_count)}
  \/ /\ ~stopped /\ stopped' = stopped /\ pool'.alloc_count = pool.alloc_count
     /\ \E b \in pool.live : pool'.live = pool.live \ {b}

\* The pool, and the window, when a step does not concern them.
LEMMA PoolIdle ==
  ASSUME NEW c, PoolInv(c), UNCHANGED pool, User(stk[c]).pc # "pool_map",
         User(stk'[c]).pc \notin {"pool_map", "pool_dealloc", "pool_free"}
  PROVE  PoolInv(c)'
  BY DEF PoolInv

LEMMA WindowIdle ==
  ASSUME NEW c, WindowInv(c), UNCHANGED regions,
         User(stk'[c]).pc \notin {"mmiopool_alloc", "mmio_region", "mmio_take"}
  PROVE  WindowInv(c)'
<1>1. WindowTiled'
  BY DEF WindowInv, WindowTiled
<1> QED  BY <1>1 DEF WindowInv

\* Inner steps.
LEMMA InnerInv ==
  ASSUME NEW c, Proc = {c}, IInv(c), Inner(c)
  PROVE  IInv(c)' /\ PoolStep
<1>1. StackInv(c)' /\ User(stk'[c]) = User(stk[c]) /\ UNCHANGED <<pool, regions>>
  BY InnerKeeps, Zenon DEF IInv, Inner
<1>2. PoolInv(c)'
  BY <1>1 DEF IInv, PoolInv
<1>3. WindowInv(c)'
  <2>1. WindowTiled'
    BY <1>1 DEF IInv, WindowInv, WindowTiled
  <2> QED  BY <1>1, <2>1 DEF IInv, WindowInv
<1>4. PoolStep
  BY <1>1, Zenon DEF Inner, PoolStep
<1> QED  BY <1>1, <1>2, <1>3, <1>4 DEF IInv

\* A call begins.
LEMMA BeginInv ==
  ASSUME NEW c, Proc = {c}, IInv(c),
         \/ mach_phys_init(c) \/ PoolAlloc(c)
         \/ \E n \in Sizes : Malloc(c, n)
         \/ \E k \in chunks : Free(c, k)
         \/ \E b \in pool.live : PoolDealloc(c, b, "pool_dealloc") \/ PoolDealloc(c, b, "pool_free")
         \/ \E len \in 1..MmioPages : MmioAlloc(c, len)
  PROVE  IInv(c)' /\ PoolStep
<1>1. StackInv(c) /\ PoolInv(c) /\ WindowInv(c)
  BY DEF IInv
<1>2. /\ UNCHANGED <<pool, regions, stopped>> /\ stk[c] = <<>>
      /\ \E t : stk' = [stk EXCEPT ![c] = t]
  BY Zenon DEF mach_phys_init, PoolAlloc, Malloc, Free, PoolDealloc, MmioAlloc, Begin, Idle, users
<1>3. User(stk[c]).pc = "none"
  <2>1. User(<<>>) = Rec("none", 0, 0, 0)
    BY ShortStack, Zenon
  <2> QED  BY <1>2, <2>1 DEF Rec
<1>4. PoolStep
  BY <1>2, Zenon DEF PoolStep
<1>5. CASE mach_phys_init(c) \/ (\E n \in Sizes : Malloc(c, n)) \/ (\E k \in chunks : Free(c, k))
  <2>1. PICK t : stk' = [stk EXCEPT ![c] = t] /\ Low(t) /\ User(t) = Rec("none", 0, 0, 0)
    <3>1. ASSUME NEW l1 \in Below, NEW x1, NEW y1, NEW z1 PROVE ~Mine(Rec(l1, x1, y1, z1))
      <4>1. l1 \notin Own
        BY DEF Below, Own
      <4> QED  BY <4>1, Zenon DEF Mine, Rec
    <3>2. {"pmem_dealloc", "next_frame", "malloc", "keep", "free"} \subseteq Below
      BY DEF Below
    <3>3. CASE mach_phys_init(c)
      <4>1. stk' = [stk EXCEPT ![c] = <<Rec("pmem_dealloc", 0, 0, boot), Rec("next_frame", 0, 0, 0)>>]
        BY <3>3, Zenon DEF mach_phys_init, Begin, pmem_dealloc
      <4>2. ~Mine(Rec("pmem_dealloc", 0, 0, boot)) /\ ~Mine(Rec("next_frame", 0, 0, 0))
        BY <3>1, <3>2
      <4> QED  BY <4>1, <4>2, ShortStack, Zenon
    <3>4. ASSUME NEW n \in Sizes, Malloc(c, n)
          PROVE  \E t : stk' = [stk EXCEPT ![c] = t] /\ Low(t) /\ User(t) = Rec("none", 0, 0, 0)
      <4>1. stk' = [stk EXCEPT ![c] = <<Rec("malloc", n, 0, 0), Rec("keep", n, 0, 0)>>]
        BY <3>4, Zenon DEF Malloc, Begin, malloc
      <4>2. ~Mine(Rec("malloc", n, 0, 0)) /\ ~Mine(Rec("keep", n, 0, 0))
        BY <3>1, <3>2
      <4> QED  BY <4>1, <4>2, ShortStack, Zenon
    <3>5. ASSUME NEW k \in chunks, Free(c, k)
          PROVE  \E t : stk' = [stk EXCEPT ![c] = t] /\ Low(t) /\ User(t) = Rec("none", 0, 0, 0)
      <4>1. stk' = [stk EXCEPT ![c] = <<Rec("free", k[1], k[2], 0)>>]
        BY <3>5, Zenon DEF Free, Begin, free
      <4>2. ~Mine(Rec("free", k[1], k[2], 0))
        BY <3>1, <3>2
      <4> QED  BY <4>1, <4>2, ShortStack, Zenon
    <3> QED  BY <1>5, <3>3, <3>4, <3>5
  <2>2. StackInv(c)' /\ User(stk'[c]).pc = "none"
    <3>1. StackInv(c)' /\ User(stk'[c]) = Rec("none", 0, 0, 0)
      BY <1>1, <2>1, OuterMoves, Zenon
    <3> QED  BY <3>1 DEF Rec
  <2> QED  BY <1>1, <1>2, <1>3, <1>4, <2>2, PoolIdle, WindowIdle DEF IInv
<1>6. ASSUME NEW l \in Own, NEW x, Begin(c, <<Rec(l, x, 0, 0)>>)
      PROVE  StackInv(c)' /\ User(stk'[c]).pc = l /\ User(stk'[c]).x = x
  <2>1. Mine(Rec(l, x, 0, 0))
    BY Zenon DEF Mine, Rec
  <2>2. StackInv(c)' /\ User(stk'[c]) = Rec(l, x, 0, 0)
    BY <1>1, <1>6, <2>1, ShortStack, OuterMoves, ZenonT(30) DEF Begin
  <2> QED  BY <2>2 DEF Rec
<1>7. CASE PoolAlloc(c)
  <2>1. StackInv(c)' /\ User(stk'[c]).pc = "pool_alloc"
    BY <1>6, <1>7 DEF PoolAlloc, Own
  <2> QED  BY <1>1, <1>2, <1>3, <1>4, <2>1, PoolIdle, WindowIdle DEF IInv
<1>8. ASSUME NEW b \in pool.live, NEW how \in {"pool_dealloc", "pool_free"}, PoolDealloc(c, b, how)
      PROVE  IInv(c)' /\ PoolStep
  <2>1. StackInv(c)' /\ User(stk'[c]).pc = how /\ User(stk'[c]).x = b
    BY <1>6, <1>8 DEF PoolDealloc, Own
  <2>2. WindowInv(c)'
    BY <1>1, <1>2, <2>1, WindowIdle
  <2>3. PoolInv(c)'
    BY <1>1, <1>2, <1>3, <2>1 DEF PoolInv
  <2> QED  BY <1>4, <2>1, <2>2, <2>3 DEF IInv
<1>9. ASSUME NEW len \in 1..MmioPages, MmioAlloc(c, len)
      PROVE  IInv(c)' /\ PoolStep
  <2>1. StackInv(c)' /\ User(stk'[c]).pc = "mmiopool_alloc" /\ User(stk'[c]).x = len
    BY <1>6, <1>9 DEF MmioAlloc, Own
  <2>2. PoolInv(c)'
    BY <1>1, <1>2, <1>3, <2>1, PoolIdle
  <2>3. WindowTiled' /\ len \in Nat
    BY <1>1, <1>2, MemoryAssumption DEF WindowInv, WindowTiled
  <2>4. WindowInv(c)'
    BY <1>1, <1>2, <2>1, <2>3 DEF WindowInv
  <2> QED  BY <1>4, <2>1, <2>2, <2>4 DEF IInv
<1> QED  BY <1>5, <1>7, <1>8, <1>9

\* pool_alloc finds a bit that is free, and the buffer counts when it is mapped.
LEMMA PoolAllocInv ==
  ASSUME NEW c, Proc = {c}, IInv(c), pool_alloc(c) \/ PoolMap(c)
  PROVE  IInv(c)' /\ PoolStep
<1>1. StackInv(c) /\ PoolInv(c) /\ WindowInv(c)
  BY DEF IInv
<1>2. UNCHANGED regions /\ stopped' = stopped /\ ~stopped
  BY Zenon DEF pool_alloc, PoolMap, At
<1>3. "pool_alloc" \in Own /\ "pool_map" \in Own /\ "vmem_map" \in Below
  BY DEF Own, Below
<1> DEFINE n == pool.alloc_count
           b == BufferIdx(pool.live, n)
<1>4. ASSUME n # BufferCount, \A x \in pool.live : x < n
      PROVE  b \in FreeBits(pool.live, n) /\ b \in Buffers /\ b \notin pool.live /\ b <= n
             /\ n \in Nat /\ n + 1 \in 0..BufferCount
  <2>1. n \in 0..BufferCount - 1 /\ n \notin pool.live /\ n + 1 \in 0..BufferCount
    BY <1>1, <1>4, BitmapAssumption DEF PoolInv
  <2> QED  BY <2>1, IndexIsFree, BitmapAssumption
<1> HIDE DEF b
<1>5. CASE pool_alloc(c)
  <2>1. At(c, "pool_alloc")
    BY <1>5 DEF pool_alloc
  <2>2. User(stk[c]).pc = "pool_alloc"
    BY <1>1, <1>3, <2>1, OuterAt
  <2>3. pool.bitmap = pool.live
    BY <1>1, <2>2 DEF PoolInv
  <2>4. CASE n = BufferCount
    <3>1. UNCHANGED pool /\ \E v : Return(c, v)
      BY <1>5, <2>4 DEF pool_alloc
    <3>2. StackInv(c)' /\ User(stk'[c]).pc = "none"
      BY <1>1, <1>3, <2>1, <3>1, OuterReturn
    <3>3. PoolStep
      BY <1>2, <3>1, Zenon DEF PoolStep
    <3> QED  BY <1>1, <1>2, <2>2, <3>1, <3>2, <3>3, PoolIdle, WindowIdle DEF IInv
  <2>5. CASE n # BufferCount
    <3>1. /\ pool' = [bitmap |-> pool.bitmap \cup (FreeBits(pool.bitmap, n) \cap {b}),
                      alloc_count |-> n, live |-> pool.live]
          /\ \E y : Goto(c, Rec("pool_map", b, y, 0))
      BY <1>5, <2>3, <2>5 DEF pool_alloc, b
    <3>2. /\ pool'.bitmap = pool.bitmap \cup (FreeBits(pool.bitmap, n) \cap {b})
          /\ pool'.alloc_count = n /\ pool'.live = pool.live
      BY <3>1
    <3>3. StackInv(c)' /\ User(stk'[c]).pc = "pool_map" /\ User(stk'[c]).x = b
      <4>1. PICK y : Goto(c, Rec("pool_map", b, y, 0))
        BY <3>1
      <4>2. StackInv(c)' /\ User(stk'[c]) = Rec("pool_map", b, y, 0)
        BY <1>1, <1>3, <2>1, <4>1, OuterGoto
      <4> QED  BY <4>2 DEF Rec
    <3>4. \A x \in pool.live : x < n
      BY <1>1 DEF PoolInv
    <3>5. pool'.bitmap = pool.live \cup {b}
      BY <1>4, <2>3, <2>5, <3>2, <3>4
    <3>6. PoolInv(c)'
      BY <1>1, <2>5, <3>2, <3>3, <3>5 DEF PoolInv, b
    <3>7. PoolStep
      BY <1>2, <3>2, Zenon DEF PoolStep
    <3> QED  BY <1>1, <1>2, <3>3, <3>6, <3>7, WindowIdle DEF IInv
  <2> QED  BY <2>4, <2>5
<1>6. CASE PoolMap(c)
  <2>1. At(c, "pool_map")
    BY <1>6 DEF PoolMap
  <2>2. User(stk[c]) = Me(c) /\ Me(c).pc = "pool_map"
    BY <1>1, <1>3, <2>1, OuterAt
  <2>3. /\ Me(c).x = b /\ n # BufferCount /\ pool.bitmap = pool.live \cup {b}
        /\ \A x \in pool.live : x < n
    BY <1>1, <2>2 DEF PoolInv, b
  <2>4. CASE Me(c).y < Pages
    <3>1. /\ UNCHANGED pool
          /\ \E y, v, f : Call(c, Rec("pool_map", b, y, 0), Rec("vmem_map", v, f, 0))
      BY <1>6, <2>3, <2>4 DEF PoolMap, vmem_map
    <3>2. StackInv(c)' /\ User(stk'[c]).pc = "pool_map" /\ User(stk'[c]).x = b
      <4>1. PICK y, v, f : Call(c, Rec("pool_map", b, y, 0), Rec("vmem_map", v, f, 0))
        BY <3>1
      <4>2. StackInv(c)' /\ User(stk'[c]) = Rec("pool_map", b, y, 0)
        BY <1>1, <1>3, <2>1, <4>1, OuterCall
      <4> QED  BY <4>2 DEF Rec
    <3>3. PoolInv(c)'
      BY <1>1, <2>2, <2>3, <3>1, <3>2 DEF PoolInv
    <3>4. PoolStep
      BY <1>2, <3>1, Zenon DEF PoolStep
    <3> QED  BY <1>1, <1>2, <3>2, <3>3, <3>4, WindowIdle DEF IInv
  <2>5. CASE ~(Me(c).y < Pages)
    <3>1. /\ pool' = [bitmap |-> pool.bitmap, alloc_count |-> n + 1, live |-> pool.live \cup {b}]
          /\ \E v : Return(c, v)
      BY <1>6, <2>3, <2>5 DEF PoolMap
    <3>2. pool'.bitmap = pool.bitmap /\ pool'.alloc_count = n + 1 /\ pool'.live = pool.live \cup {b}
      BY <3>1
    <3>3. StackInv(c)' /\ User(stk'[c]).pc = "none"
      BY <1>1, <1>3, <2>1, <3>1, OuterReturn
    <3>4. /\ b \in Buffers /\ b <= n /\ n \in Nat /\ n + 1 \in 0..BufferCount /\ b \in Int
          /\ pool.live \subseteq Int
      BY <1>1, <1>4, <2>3 DEF Buffers, PoolInv
    <3>5. \A x \in pool.live \cup {b} : x < n + 1
      BY <2>3, <3>4
    <3>6. PoolInv(c)'
      BY <1>1, <2>3, <3>2, <3>3, <3>4, <3>5 DEF PoolInv
    <3>7. PoolStep
      BY <1>2, <2>3, <3>2 DEF PoolStep, b
    <3> QED  BY <1>1, <1>2, <3>3, <3>6, <3>7, WindowIdle DEF IInv
  <2> QED  BY <2>4, <2>5
<1> QED  BY <1>5, <1>6

\* The ways to give a buffer back.
LEMMA PoolDeallocInv ==
  ASSUME NEW c, Proc = {c}, IInv(c), pool_dealloc(c) \/ pool_dealloc_and_free(c) \/ PoolUnmap(c)
  PROVE  IInv(c)' /\ PoolStep
<1>1. StackInv(c) /\ PoolInv(c) /\ WindowInv(c)
  BY DEF IInv
<1>2. UNCHANGED regions /\ stopped' = stopped /\ ~stopped
  BY Zenon DEF pool_dealloc, pool_dealloc_and_free, PoolUnmap, At, users
<1>3. "pool_dealloc" \in Own /\ "pool_free" \in Own /\ "pool_unmap" \in Own /\ "pmem_dealloc" \in Below
  BY DEF Own, Below
<1>4. ASSUME NEW l \in {"pool_dealloc", "pool_free"}, At(c, l), pool' = DoPoolDealloc(Me(c).x),
             StackInv(c)', NEW l1 \in {"none", "pool_unmap"}, User(stk'[c]).pc = l1
      PROVE  IInv(c)' /\ PoolStep
  <2> DEFINE b == Me(c).x
  <2>1. User(stk[c]) = Me(c) /\ Me(c).pc = l
    BY <1>1, <1>3, <1>4, OuterAt
  <2>2. b \in pool.live /\ pool.bitmap = pool.live
    BY <1>1, <2>1 DEF PoolInv
  <2>3. /\ pool'.bitmap = pool.bitmap \ {b} /\ pool'.alloc_count = pool.alloc_count
        /\ pool'.live = pool.live \ {b}
    BY <1>4 DEF DoPoolDealloc
  <2> HIDE DEF b
  <2>4. PoolInv(c)'
    BY <1>1, <1>4, <2>2, <2>3 DEF PoolInv
  <2>5. PoolStep
    BY <1>2, <2>2, <2>3, Zenon DEF PoolStep
  <2>6. WindowInv(c)'
    BY <1>1, <1>2, <1>4, WindowIdle
  <2> QED  BY <1>4, <2>4, <2>5, <2>6 DEF IInv
<1>5. CASE pool_dealloc(c)
  <2>1. At(c, "pool_dealloc") /\ Return(c, 0) /\ pool' = DoPoolDealloc(Me(c).x)
    BY <1>5 DEF pool_dealloc
  <2>2. StackInv(c)' /\ User(stk'[c]).pc = "none"
    BY <1>1, <1>3, <2>1, OuterReturn
  <2> QED  BY <1>4, <2>1, <2>2
<1>6. CASE pool_dealloc_and_free(c)
  <2>1. /\ At(c, "pool_free") /\ Goto(c, Rec("pool_unmap", PoolPage(Me(c).x, 0), 0, 0))
        /\ pool' = DoPoolDealloc(Me(c).x)
    BY <1>6 DEF pool_dealloc_and_free
  <2>2. StackInv(c)' /\ User(stk'[c]) = Rec("pool_unmap", PoolPage(Me(c).x, 0), 0, 0)
    BY <1>1, <1>3, <2>1, OuterGoto
  <2>3. User(stk'[c]).pc = "pool_unmap"
    BY <2>2 DEF Rec
  <2> QED  BY <1>4, <2>1, <2>2, <2>3
<1>7. CASE PoolUnmap(c)
  <2>1. At(c, "pool_unmap") /\ UNCHANGED pool
    BY <1>7, Zenon DEF PoolUnmap, users
  <2>2. User(stk[c]).pc = "pool_unmap"
    BY <1>1, <1>3, <2>1, OuterAt
  <2>3. StackInv(c)' /\ User(stk'[c]).pc \in {"none", "pool_unmap"}
    <3>1. CASE Me(c).y = Pages
      <4>1. Return(c, 0)
        BY <1>7, <3>1 DEF PoolUnmap
      <4> QED  BY <1>1, <1>3, <2>1, <4>1, OuterReturn
    <3>2. CASE Me(c).y # Pages
      <4>1. PICK x, y, x2, y2, z2 : Call(c, Rec("pool_unmap", x, y, 0), Rec("pmem_dealloc", x2, y2, z2))
        BY <1>7, <3>2, Zenon DEF PoolUnmap, pmem_dealloc
      <4>2. StackInv(c)' /\ User(stk'[c]) = Rec("pool_unmap", x, y, 0)
        BY <1>1, <1>3, <2>1, <4>1, OuterCall
      <4> QED  BY <4>2 DEF Rec
    <3> QED  BY <3>1, <3>2
  <2>4. PoolStep
    BY <1>2, <2>1, Zenon DEF PoolStep
  <2> QED  BY <1>1, <1>2, <2>1, <2>2, <2>3, <2>4, PoolIdle, WindowIdle DEF IInv
<1> QED  BY <1>5, <1>6, <1>7

-----------------------------------------------------------------------------
(* The window.                                                             *)

\* The split of a region that is large enough keeps the window tiled.
LEMMA SplitTiles ==
  ASSUME NEW c, WindowInv(c), NEW i \in 1..Len(regions), NEW len \in Nat, len <= regions[i].len,
         regions' = Split(i, len), User(stk'[c]).pc = "mmio_map"
  PROVE  WindowInv(c)'
<1> DEFINE s == regions
           a == Region(s[i].base, len, TRUE)
           b == Region(s[i].base + len, s[i].len - len, FALSE)
<1>1. PICK S : s \in Seq(S)
  BY DEF WindowInv
<1>2. /\ \A j \in 1..Len(s) : s[j].base \in Int /\ s[j].len \in Nat
      /\ Len(s) \in Nat /\ i \in Nat /\ i >= 1 /\ i <= Len(s)
      /\ \A j \in 1..Len(s) : s[j].base = IF j = 1 THEN MmioBase ELSE s[j - 1].base + s[j - 1].len
      /\ s[Len(s)].base + s[Len(s)].len = MmioBase + MmioPages
  BY <1>1 DEF WindowInv, WindowTiled
<1>3. /\ a.base = s[i].base /\ a.len = len
      /\ b.base = s[i].base + len /\ b.len = s[i].len - len
  BY DEF Region
<1>4. s[i].base \in Int /\ s[i].len \in Nat /\ s[i].len - len \in Nat
  BY <1>2
<1>8. b.base + b.len = s[i].base + s[i].len
  <2>1. \A x, y, z \in Int : (x + z) + (y - z) = x + y
    OBVIOUS
  <2>2. s[i].base \in Int /\ s[i].len \in Int /\ len \in Int
    BY <1>4
  <2> HIDE DEF a, b, s
  <2>3. (s[i].base + len) + (s[i].len - len) = s[i].base + s[i].len
    BY <2>1, <2>2
  <2> QED  BY <1>3, <2>3
<1> DEFINE r == regions'
<1>5. SUFFICES /\ \E R : r \in Seq(R)
               /\ Len(r) # 0
               /\ \A j \in 1..Len(r) : r[j].base \in Int /\ r[j].len \in Nat
               /\ \A j \in 1..Len(r) :
                    r[j].base = IF j = 1 THEN MmioBase ELSE r[j - 1].base + r[j - 1].len
               /\ r[Len(r)].base + r[Len(r)].len = MmioBase + MmioPages
  BY DEF WindowInv, WindowTiled
<1>6. CASE s[i].len = len
  <2>1. r = Splice(s, i, a, <<>>)
    BY <1>6 DEF Split, Splice
  <2>0. i \in 1..Len(s)
    OBVIOUS
  <2> HIDE DEF a, b, s, r
  <2> DEFINE T == S \cup {a, b}
  <2>10. s \in Seq(T) /\ a \in T /\ b \in T
    BY <1>1
  <2> HIDE DEF T
  <2>2. /\ r \in Seq(T) /\ Len(r) = Len(s) /\ r[i] = a
        /\ \A j \in 1..Len(s) : j # i => r[j] = s[j]
    <3>1. OneFor(r, T, s, i, a)
      BY <2>0, <2>1, <2>10, SplicedOne
    <3> QED  BY <3>1 DEF OneFor
  <2>3. \A j \in 1..Len(s) : r[j].base = s[j].base /\ r[j].len = s[j].len
    BY <1>3, <1>6, <2>2
  <2>4. \A j \in 1..Len(s) : j # 1 => j - 1 \in 1..Len(s)
    BY <1>2
  <2>5. Len(s) \in 1..Len(s)
    BY <1>2
  <2>6. \A j \in 1..Len(r) : r[j].base = IF j = 1 THEN MmioBase ELSE r[j - 1].base + r[j - 1].len
    BY <1>2, <2>2, <2>3, <2>4
  <2>7. r[Len(r)].base + r[Len(r)].len = MmioBase + MmioPages
    BY <1>2, <2>2, <2>3, <2>5
  <2>8. \A j \in 1..Len(r) : r[j].base \in Int /\ r[j].len \in Nat
    BY <1>2, <2>2, <2>3
  <2>9. (\E R : r \in Seq(R)) /\ Len(r) # 0
    BY <1>2, <2>2
  <2> QED  BY <2>6, <2>7, <2>8, <2>9, Zenon
<1>7. CASE s[i].len # len
  <2>1. r = Splice(s, i, a, <<b>>)
    BY <1>7, Zenon DEF Split, Splice
  <2>0. i \in 1..Len(s)
    OBVIOUS
  <2> HIDE DEF a, b, s, r
  <2> DEFINE T == S \cup {a, b}
  <2>10. s \in Seq(T) /\ a \in T /\ b \in T
    BY <1>1
  <2> HIDE DEF T
  <2>2. /\ r \in Seq(T) /\ Len(r) = Len(s) + 1 /\ r[i] = a /\ r[i + 1] = b
        /\ \A j \in 1..i - 1 : r[j] = s[j]
        /\ \A j \in i + 2..Len(s) + 1 : r[j] = s[j - 1]
    <3>1. TwoFor(r, T, s, i, a, b)
      BY <2>0, <2>1, <2>10, SplicedTwo
    <3> QED  BY <3>1 DEF TwoFor
  <2>3. r[i] = a /\ r[i + 1] = b
    BY <1>2, <2>2
  <2>4. /\ \A j \in 1..i - 1 : r[j] = s[j] /\ j \in 1..Len(s)
        /\ \A j \in i + 2..Len(s) + 1 : r[j] = s[j - 1] /\ j - 1 \in 1..Len(s)
    BY <1>2, <2>2
  <2>5. ASSUME NEW j \in 1..Len(s) + 1
        PROVE  /\ r[j].base \in Int /\ r[j].len \in Nat
               /\ r[j].base = IF j = 1 THEN MmioBase ELSE r[j - 1].base + r[j - 1].len
    <3>1. CASE j < i
      <4>1. j \in 1..i - 1 /\ (j # 1 => j - 1 \in 1..i - 1)
        BY <1>2, <3>1
      <4> QED  BY <1>2, <2>4, <4>1, Zenon
    <3>2. CASE j = i
      <4>1. j # 1 => j - 1 \in 1..i - 1
        BY <1>2, <3>2
      <4>2. s[i].base = IF i = 1 THEN MmioBase ELSE s[i - 1].base + s[i - 1].len
        BY <1>2
      <4>3. i # 1 => r[i - 1] = s[i - 1]
        BY <2>4, <3>2, <4>1
      <4> QED  BY <1>3, <1>4, <2>3, <3>2, <4>2, <4>3
    <3>3. CASE j = i + 1
      <4>1. j # 1 /\ j - 1 = i
        BY <1>2, <3>3
      <4> QED  BY <1>3, <1>4, <2>3, <3>3, <4>1, SMTT(30)
    <3>4. CASE j = i + 2
      <4>1. /\ j \in i + 2..Len(s) + 1 /\ j # 1 /\ j - 1 = i + 1 /\ i + 1 \in 1..Len(s)
            /\ i + 1 # 1 /\ i + 1 - 1 = i
        BY <1>2, <3>4
      <4>2. r[j] = s[i + 1]
        BY <2>4, <4>1
      <4>3. s[i + 1].base = s[i].base + s[i].len /\ s[i + 1].base \in Int /\ s[i + 1].len \in Nat
        BY <1>2, <4>1
      <4>4. r[j - 1].base + r[j - 1].len = s[i].base + s[i].len
        BY <1>8, <2>3, <4>1
      <4> QED  BY <4>1, <4>2, <4>3, <4>4
    <3>5. CASE j > i + 2
      <4>1. /\ j \in i + 2..Len(s) + 1 /\ j - 1 \in i + 2..Len(s) + 1 /\ j # 1
            /\ j - 1 # 1 /\ j - 1 \in 1..Len(s) /\ (j - 1) - 1 = j - 2 /\ j - 2 \in 1..Len(s)
        BY <1>2, <3>5, SMTT(30)
      <4>2. r[j] = s[j - 1] /\ r[j - 1] = s[j - 2]
        BY <2>4, <4>1
      <4>3. /\ s[j - 1].base = s[j - 2].base + s[j - 2].len
            /\ s[j - 1].base \in Int /\ s[j - 1].len \in Nat
        BY <1>2, <4>1
      <4> QED  BY <4>1, <4>2, <4>3
    <3>6. j < i \/ j = i \/ j = i + 1 \/ j = i + 2 \/ j > i + 2
      BY <1>2
    <3> QED  BY <3>1, <3>2, <3>3, <3>4, <3>5, <3>6
  <2>6. r[Len(r)].base + r[Len(r)].len = MmioBase + MmioPages
    <3>1. CASE i = Len(s)
      BY <1>2, <1>8, <2>2, <2>3, <3>1
    <3>2. CASE i # Len(s)
      <4>1. Len(s) + 1 \in i + 2..Len(s) + 1 /\ Len(s) + 1 - 1 = Len(s)
        BY <1>2, <3>2
      <4>2. r[Len(r)] = s[Len(s)]
        BY <2>2, <2>4, <4>1
      <4> QED  BY <1>2, <4>2
    <3> QED  BY <3>1, <3>2
  <2>7. (\E R : r \in Seq(R)) /\ Len(r) # 0
    BY <1>2, <2>2
  <2> QED  BY <2>2, <2>5, <2>6, <2>7
<1> QED  BY <1>6, <1>7

\* The steps of mmiopool_alloc.
LEMMA MmioInv ==
  ASSUME NEW c, Proc = {c}, IInv(c),
         mmiopool_alloc(c) \/ MmioRegion(c) \/ MmioTake(c) \/ MmioMap(c)
  PROVE  IInv(c)' /\ PoolStep
<1>1. StackInv(c) /\ PoolInv(c) /\ WindowInv(c)
  BY DEF IInv
<1>2. UNCHANGED pool /\ stopped' = stopped
  BY Zenon DEF mmiopool_alloc, MmioRegion, MmioTake, MmioMap, users
<1>3. PoolStep
  BY <1>2, Zenon DEF PoolStep
<1>4. /\ "mmiopool_alloc" \in Own /\ "mmio_region" \in Own /\ "mmio_take" \in Own /\ "mmio_map" \in Own
      /\ "malloc" \in Below /\ "vmem_map" \in Below
  BY DEF Own, Below
<1>5. ASSUME NEW l \in {"mmiopool_alloc", "mmio_region", "mmio_take", "mmio_map"}, At(c, l)
      PROVE  /\ User(stk[c]) = Me(c) /\ Me(c).pc = l
             /\ User(stk'[c]).pc \in {"none", "mmio_region", "mmio_take", "mmio_map"} => PoolInv(c)'
  <2>1. User(stk[c]) = Me(c) /\ Me(c).pc = l
    BY <1>1, <1>4, <1>5, OuterAt
  <2> QED  BY <1>1, <1>2, <2>1, PoolIdle
<1>6. ASSUME NEW l \in {"mmio_region", "mmio_take"}, UNCHANGED regions, NEW n \in Nat,
             NEW i \in 1..Len(regions), n <= regions[i].len,
             User(stk'[c]).pc = l, User(stk'[c]).x = n, User(stk'[c]).y = i
      PROVE  WindowInv(c)'
  <2>1. WindowTiled'
    BY <1>1, <1>6, Zenon DEF WindowInv, WindowTiled
  <2> QED  BY <1>1, <1>6, <2>1, Zenon DEF WindowInv
<1>7. CASE mmiopool_alloc(c)
  <2> DEFINE n == Me(c).x
             i == MinOf(Roomy(n))
  <2>1. At(c, "mmiopool_alloc") /\ UNCHANGED regions
    BY <1>7, Zenon DEF mmiopool_alloc, users
  <2>2. User(stk[c]) = Me(c) /\ Me(c).pc = "mmiopool_alloc"
    BY <1>5, <2>1, Zenon
  <2>3. n \in Nat
    BY <1>1, <2>2 DEF WindowInv
  <2>4. CASE Roomy(n) = {}
    <3>1. Return(c, 0)
      BY <1>7, <2>4, Zenon DEF mmiopool_alloc
    <3>2. StackInv(c)' /\ User(stk'[c]).pc = "none"
      BY <1>1, <1>4, <2>1, <3>1, OuterReturn
    <3> QED  BY <1>1, <1>3, <1>5, <2>1, <3>2, WindowIdle DEF IInv
  <2>5. CASE Roomy(n) # {}
    <3>1. i \in 1..Len(regions) /\ n <= regions[i].len
      <4>1. Roomy(n) \subseteq Nat
        BY DEF Roomy
      <4>2. \E x \in Roomy(n) : \A y \in Roomy(n) : x <= y
        BY <2>5, <4>1, LeastNat
      <4>3. i \in Roomy(n)
        BY <4>2 DEF MinOf
      <4>4. i \in 1..Len(regions) /\ regions[i].len >= n
        BY <4>3 DEF Roomy
      <4>5. regions[i].len \in Nat
        BY <1>1, <4>4 DEF WindowInv
      <4> QED  BY <2>3, <4>4, <4>5
    <3> HIDE DEF i, n
    <3>2. StackInv(c)' /\ \E l \in {"mmio_region", "mmio_take"} : User(stk'[c]) = Rec(l, n, i, 0)
      <4>1. CASE regions[i].len = n
        <5>1. Goto(c, Rec("mmio_take", n, i, 0))
          BY <1>7, <2>5, <4>1, Zenon DEF mmiopool_alloc, i, n
        <5> QED  BY <1>1, <1>4, <2>1, <5>1, OuterGoto
      <4>2. CASE regions[i].len # n
        <5>1. Call(c, Rec("mmio_region", n, i, 0), Rec("malloc", 1, 0, 0))
          BY <1>7, <2>5, <4>2, Zenon DEF mmiopool_alloc, malloc, i, n
        <5> QED  BY <1>1, <1>4, <2>1, <5>1, OuterCall
      <4> QED  BY <4>1, <4>2
    <3>3. PICK l \in {"mmio_region", "mmio_take"} : User(stk'[c]) = Rec(l, n, i, 0)
      BY <3>2
    <3>4. User(stk'[c]).pc = l /\ User(stk'[c]).x = n /\ User(stk'[c]).y = i
      BY <3>3 DEF Rec
    <3>5. n \in Nat
      BY <2>3 DEF n
    <3>6. WindowInv(c)'
      BY <1>6, <2>1, <3>1, <3>4, <3>5
    <3> QED  BY <1>3, <1>5, <2>1, <3>2, <3>4, <3>6 DEF IInv
  <2> QED  BY <2>4, <2>5
<1>8. ASSUME NEW l \in {"mmio_region", "mmio_take"}, At(c, l)
      PROVE  Me(c).x \in Nat /\ Me(c).y \in 1..Len(regions) /\ Me(c).x <= regions[Me(c).y].len
  BY <1>1, <1>5, <1>8 DEF WindowInv
<1>9. CASE MmioRegion(c)
  <2>1. /\ At(c, "mmio_region") /\ UNCHANGED regions
        /\ Call(c, Rec("mmio_take", Me(c).x, Me(c).y, 0), Rec("malloc", 1, 0, 0))
    BY <1>9, Zenon DEF MmioRegion, users, malloc
  <2>2. StackInv(c)' /\ User(stk'[c]) = Rec("mmio_take", Me(c).x, Me(c).y, 0)
    BY <1>1, <1>4, <2>1, OuterCall
  <2>3. User(stk'[c]).pc = "mmio_take" /\ User(stk'[c]).x = Me(c).x /\ User(stk'[c]).y = Me(c).y
    BY <2>2 DEF Rec
  <2>4. WindowInv(c)'
    BY <1>6, <1>8, <2>1, <2>3, Zenon
  <2> QED  BY <1>3, <1>5, <2>1, <2>2, <2>3, <2>4, Zenon DEF IInv
<1>10. CASE MmioTake(c)
  <2>1. /\ At(c, "mmio_take") /\ regions' = Split(Me(c).y, Me(c).x)
        /\ Goto(c, Rec("mmio_map", regions[Me(c).y].base, Me(c).x, 0))
    BY <1>10, Zenon DEF MmioTake
  <2>2. StackInv(c)' /\ User(stk'[c]) = Rec("mmio_map", regions[Me(c).y].base, Me(c).x, 0)
    BY <1>1, <1>4, <2>1, OuterGoto
  <2>3. User(stk'[c]).pc = "mmio_map"
    <3>1. PICK u, b, n : u = User(stk'[c]) /\ b = regions[Me(c).y].base /\ n = Me(c).x
      OBVIOUS
    <3>2. u = Rec("mmio_map", b, n, 0)
      BY <2>2, <3>1, Zenon
    <3>3. u.pc = "mmio_map"
      BY <3>2 DEF Rec
    <3> QED  BY <3>1, <3>3, Zenon
  <2>4. WindowInv(c)'
    BY <1>1, <1>8, <2>1, <2>3, SplitTiles, Zenon
  <2> QED  BY <1>3, <1>5, <2>1, <2>2, <2>3, <2>4, Zenon DEF IInv
<1>11. CASE MmioMap(c)
  <2>1. At(c, "mmio_map") /\ UNCHANGED regions
    BY <1>11, Zenon DEF MmioMap, users
  <2>2. StackInv(c)' /\ User(stk'[c]).pc \in {"none", "mmio_map"}
    <3>1. CASE Me(c).y = 0
      <4>1. Return(c, 0)
        BY <1>11, <3>1 DEF MmioMap
      <4> QED  BY <1>1, <1>4, <2>1, <4>1, OuterReturn
    <3>2. CASE Me(c).y # 0
      <4>1. PICK x, y, v, f : Call(c, Rec("mmio_map", x, y, 0), Rec("vmem_map", v, f, 0))
        BY <1>11, <3>2, Zenon DEF MmioMap, vmem_map
      <4>2. StackInv(c)' /\ User(stk'[c]) = Rec("mmio_map", x, y, 0)
        BY <1>1, <1>4, <2>1, <4>1, OuterCall
      <4> QED  BY <4>2 DEF Rec
    <3> QED  BY <3>1, <3>2
  <2> QED  BY <1>1, <1>3, <1>5, <2>1, <2>2, WindowIdle, Zenon DEF IInv
<1> QED  BY <1>7, <1>9, <1>10, <1>11

-----------------------------------------------------------------------------
(* What the steps establish.                                               *)

LEMMA StepInv ==
  ASSUME NEW c, Proc = {c}, IInv(c), [Next]_vars
  PROVE  IInv(c)' /\ PoolStep
<1>1. CASE UNCHANGED vars
  <2>1. UNCHANGED <<stk, pool, regions, stopped>>
    BY <1>1 DEF vars
  <2>2. StackInv(c)' /\ PoolInv(c)'
    BY <2>1 DEF IInv, StackInv, PoolInv
  <2>3. WindowTiled'
    BY <2>1 DEF IInv, WindowInv, WindowTiled
  <2>4. WindowInv(c)'
    BY <2>1, <2>3 DEF IInv, WindowInv
  <2>5. PoolStep
    BY <2>1, Zenon DEF PoolStep
  <2> QED  BY <2>2, <2>4, <2>5 DEF IInv
<1>2. CASE Step(c)
  <2>1. CASE Inner(c)
    BY <2>1, InnerInv
  <2>2. CASE pool_alloc(c) \/ PoolMap(c)
    BY <2>2, PoolAllocInv
  <2>3. CASE pool_dealloc(c) \/ pool_dealloc_and_free(c) \/ PoolUnmap(c)
    BY <2>3, PoolDeallocInv
  <2>4. CASE mmiopool_alloc(c) \/ MmioRegion(c) \/ MmioTake(c) \/ MmioMap(c)
    BY <2>4, MmioInv
  <2> QED  BY <1>2, <2>1, <2>2, <2>3, <2>4, HeapSteps, MapSteps, FrameSteps, Zenon DEF Step
<1>3. CASE Next /\ ~Step(c)
  BY <1>3, BeginInv, Zenon DEF Next
<1> QED  BY <1>1, <1>2, <1>3

\* The bits that the callers of the pool know of are those of their buffers.
KnownBits == pool.bitmap \ InPoolMap = pool.live

LEMMA BitsAreKnown == ASSUME NEW c, Proc = {c}, IInv(c) PROVE KnownBits
<1> DEFINE s == stk[c]
           u == User(s)
           at == {j \in 1..Len(s) : s[j].pc = "pool_map"}
<1>1. InPoolMap = {s[j].x : j \in at}
  BY DEF InPoolMap
<1>2. PICK S : s \in Seq(S)
  BY DEF IInv, StackInv, Low
<1>3. \A j \in at : j = Len(s) /\ u = s[Len(s)]
  <2>1. \A j \in 1..Len(s) - 1 : ~Mine(s[j])
    BY Zenon DEF IInv, StackInv, Low
  <2>2. ASSUME NEW j \in at PROVE j = Len(s) /\ u = s[Len(s)]
    <3>1. Mine(s[j]) /\ j \in 1..Len(s)
      BY DEF Mine, Own
    <3>2. j = Len(s) /\ s # <<>>
      BY <1>2, <2>1, <3>1
    <3> QED  BY <3>1, <3>2 DEF User
  <2> QED  BY <2>2
<1>4. CASE u.pc = "pool_map"
  <2>1. s # <<>> /\ u = s[Len(s)]
    <3>1. Rec("none", 0, 0, 0).pc # "pool_map"
      BY DEF Rec
    <3> QED  BY <1>4, <3>1, Zenon DEF User
  <2>2. Len(s) \in at
    BY <1>2, <1>4, <2>1
  <2>3. InPoolMap = {u.x}
    BY <1>1, <1>3, <2>1, <2>2
  <2> DEFINE n == pool.alloc_count
  <2>4. /\ n # BufferCount /\ n \in 0..BufferCount /\ u.x = BufferIdx(pool.live, n)
        /\ pool.bitmap = pool.live \cup {u.x} /\ \A b \in pool.live : b < n
    BY <1>4 DEF IInv, PoolInv
  <2>5. n \in 0..BufferCount - 1 /\ n \notin pool.live
    BY <2>4, BitmapAssumption
  <2>6. u.x \notin pool.live
    BY <2>4, <2>5, IndexIsFree
  <2> QED  BY <2>3, <2>4, <2>6 DEF KnownBits
<1>5. CASE u.pc # "pool_map"
  <2>1. at = {}
    BY <1>3, <1>5
  <2>2. InPoolMap = {}
    BY <1>1, <2>1
  <2>3. pool.bitmap = pool.live
    BY <1>5 DEF IInv, PoolInv
  <2> QED  BY <2>2, <2>3 DEF KnownBits
<1> QED  BY <1>4, <1>5

\* Every step of Memory is a step of Pool, or leaves the pool alone.
LEMMA StepMaps ==
  ASSUME NEW c, Proc = {c}, IInv(c), KnownBits, KnownBits', PoolStep
  PROVE  [P!Next]_(P!vars)
<1> DEFINE bits == pool.bitmap \ InPoolMap
           n == pool.alloc_count
<1>1. bits = pool.live /\ bits' = pool'.live
  BY DEF KnownBits
<1>2. ASSUME NEW x, NEW y PROVE P!BufferIdx(x, y) = BufferIdx(x, y) /\ P!FreeBits(x, y) = FreeBits(x, y)
  BY DEF P!BufferIdx, BufferIdx, P!FreeBits, FreeBits, P!Word, Word
<1> HIDE DEF bits
<1>3. CASE pool'.live = pool.live /\ pool'.alloc_count = n /\ stopped' = stopped
  BY <1>1, <1>3 DEF P!vars, bits
<1>4. CASE pool'.live = pool.live /\ pool'.alloc_count = n /\ ~stopped /\ stopped' = TRUE
  <2>1. P!Panic
    BY <1>1, <1>4 DEF P!Panic, bits
  <2> QED  BY <2>1 DEF P!Next
<1>5. CASE /\ ~stopped /\ stopped' = stopped /\ n # BufferCount /\ pool'.alloc_count = n + 1
           /\ pool'.live = pool.live \cup {BufferIdx(pool.live, n)}
  <2>1. n \in 0..BufferCount - 1 /\ n \notin pool.live
    BY <1>5, BitmapAssumption DEF IInv, PoolInv
  <2>2. BufferIdx(bits, n) \in FreeBits(bits, n)
    BY <1>1, <2>1, IndexIsFree
  <2>3. bits' = bits \cup (P!FreeBits(bits, n) \cap {P!BufferIdx(bits, n)})
    BY <1>1, <1>2, <1>5, <2>2
  <2>4. pool'.live = pool.live \cup {P!BufferIdx(bits, n)}
    BY <1>1, <1>2, <1>5
  <2>5. P!pool_alloc
    BY <1>5, <2>3, <2>4 DEF P!pool_alloc, bits
  <2> QED  BY <2>5 DEF P!Next
<1>6. ASSUME ~stopped, stopped' = stopped, pool'.alloc_count = n,
             NEW b \in pool.live, pool'.live = pool.live \ {b}
      PROVE  P!Next
  <2>1. P!pool_dealloc(b)
    BY <1>1, <1>6 DEF P!pool_dealloc, bits
  <2> QED  BY <1>6, <2>1 DEF P!Next
<1> QED  BY <1>3, <1>4, <1>5, <1>6, Zenon DEF PoolStep

\* For any amount of memory and any sizes: with one process, the pool of Memory
\* does what Pool promises, although an allocation maps pages in many steps, and
\* may stop in any of them (pool.c:65-135).
THEOREM PoolIsImplemented ==
  ASSUME NEW c, Proc = {c}
  PROVE  Spec => ImplementsPool
<1>1. Init => IInv(c)
  BY InitInv
<1>2. IInv(c) /\ [Next]_vars => IInv(c)' /\ PoolStep
  BY StepInv
<1>3. IInv(c) => KnownBits
  BY BitsAreKnown
<1>4. IInv(c) /\ KnownBits /\ KnownBits' /\ PoolStep => [P!Next]_(P!vars)
  BY StepMaps
<1>5. Init /\ KnownBits => P!Init
  <2> SUFFICES ASSUME Init, KnownBits PROVE P!Init
    OBVIOUS
  <2>1. pool.alloc_count = 0 /\ pool.live = {} /\ stopped = FALSE
    <3>1. pool = [bitmap |-> {}, alloc_count |-> 0, live |-> {}] /\ stopped = FALSE
      BY Zenon DEF Init
    <3> QED  BY <3>1
  <2>2. pool.bitmap \ InPoolMap = {}
    BY <2>1, Zenon DEF KnownBits
  <2> QED  BY <2>1, <2>2, Zenon DEF P!Init
<1> QED
  BY <1>1, <1>2, <1>3, <1>4, <1>5, PTL DEF Spec, ImplementsPool, P!Spec

\* For a window of any size: with one process, the regions of device memory tile
\* it after every split, also when the chunks for a new region make the heap
\* grow in between (mmiopool.c:70-89).
THEOREM DeviceRegionsDisjoint ==
  ASSUME NEW c, Proc = {c}
  PROVE  Spec => []WindowTiled
<1>1. Init => IInv(c)
  BY InitInv
<1>2. IInv(c) /\ [Next]_vars => IInv(c)'
  BY StepInv
<1>3. IInv(c) => WindowTiled
  BY DEF IInv, WindowInv
<1> QED  BY <1>1, <1>2, <1>3, PTL DEF Spec

\* When the number of buffers is a multiple of the width of a word, pool_alloc
\* reads no word after those that create_pool_at allocated (pool.c:55).
THEOREM BitmapIsLargeEnough ==
  ASSUME NEW c, Proc = {c}, NEW k \in Nat \ {0}, BufferCount = k * WordBits
  PROVE  Spec => []BitmapInBounds
<1>1. Init => IInv(c)
  BY InitInv
<1>2. IInv(c) /\ [Next]_vars => IInv(c)'
  BY StepInv
<1>3. IInv(c) => BitmapInBounds
  <2>1. SUFFICES ASSUME IInv(c), pool.alloc_count # BufferCount
                 PROVE  P!Word(pool.alloc_count) < P!WordCount
    BY DEF BitmapInBounds, P!WordInBitmap
  <2>2. pool.alloc_count \in 0..BufferCount - 1
    <3>1. pool.alloc_count \in 0..BufferCount /\ pool.alloc_count # BufferCount
      BY <2>1, Zenon DEF IInv, PoolInv
    <3>2. BufferCount \in Nat
      BY BitmapAssumption
    <3> QED  BY <3>1, <3>2
  <2>3. Word(pool.alloc_count) < WordCount
    BY <2>2, WordIsInBitmap
  <2> QED  BY <2>3 DEF Word, WordCount, P!Word, P!WordCount
<1> QED  BY <1>1, <1>2, <1>3, PTL DEF Spec

\* With one process: every buffer that pool_alloc has handed out, and every bit
\* that is set for one, lies in the pool, although the index is computed from the
\* count of allocations and one word of the bitmap (pool.c:79-85).
THEOREM PoolStaysInBounds ==
  ASSUME NEW c, Proc = {c}
  PROVE  Spec => []P!BuffersInPool
<1>1. Init => IInv(c)
  BY InitInv
<1>2. IInv(c) /\ [Next]_vars => IInv(c)'
  BY StepInv
<1>3. IInv(c) => P!BuffersInPool
  <2> SUFFICES ASSUME IInv(c) PROVE P!BuffersInPool
    OBVIOUS
  <2>1. pool.bitmap \ InPoolMap = pool.live
    BY BitsAreKnown DEF KnownBits
  <2>2. pool.live \subseteq Buffers /\ pool.alloc_count \in 0..BufferCount
    BY DEF IInv, PoolInv
  <2> QED  BY <2>1, <2>2 DEF P!BuffersInPool, P!Buffers, Buffers
<1> QED  BY <1>1, <1>2, <1>3, PTL DEF Spec

\* With one process: pool_alloc never hands out a buffer that a caller still has,
\* after any sequence of allocations and deallocations, although it looks at one
\* word of the bitmap and takes the index after the word when no bit of it is free
\* (pool.c:79-93).
THEOREM PoolNeverAllocatesTwice ==
  ASSUME NEW c, Proc = {c}
  PROVE  Spec => P!NoDoubleAlloc
<1>1. Init => IInv(c)
  BY InitInv
<1>2. IInv(c) /\ [Next]_vars => IInv(c)' /\ PoolStep
  BY StepInv
<1>3. IInv(c) /\ PoolStep =>
        [pool.alloc_count' > pool.alloc_count
           => \E b \in P!Buffers \ pool.live : pool.live' = pool.live \cup {b}]_(P!vars)
  <2> SUFFICES ASSUME IInv(c), PoolStep, pool.alloc_count' > pool.alloc_count
               PROVE  \E b \in P!Buffers \ pool.live : pool.live' = pool.live \cup {b}
    OBVIOUS
  <2>1. pool.alloc_count \in Nat /\ ~(pool'.alloc_count = pool.alloc_count)
    <3>1. pool.alloc_count \in 0..BufferCount
      BY Zenon DEF IInv, PoolInv
    <3> QED  BY <3>1
  <2>2. /\ pool.alloc_count # BufferCount
        /\ pool'.live = pool.live \cup {BufferIdx(pool.live, pool.alloc_count)}
    BY <2>1 DEF PoolStep
  <2>3. pool.alloc_count \in 0..BufferCount - 1 /\ pool.alloc_count \notin pool.live
    <3>1. pool.alloc_count \in 0..BufferCount /\ \A b \in pool.live : b < pool.alloc_count
      BY Zenon DEF IInv, PoolInv
    <3>2. BufferCount \in Nat
      BY BitmapAssumption
    <3> QED  BY <2>2, <3>1, <3>2
  <2>4. BufferIdx(pool.live, pool.alloc_count) \in Buffers \ pool.live
    BY <2>3, IndexIsFree
  <2> QED  BY <2>2, <2>4 DEF P!Buffers, Buffers
<1> QED  BY <1>1, <1>2, <1>3, PTL DEF Spec, P!NoDoubleAlloc
=============================================================================
