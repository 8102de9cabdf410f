---------------------------- MODULE MSQueueProof ----------------------------
(***************************************************************************)
(* Proofs for MSQueue, for any callers and values and any finite set of    *)
(* nodes, when malloc hands out no node that an operation still holds      *)
(* (ReuseHeld = FALSE): the queue implements Fifo, its answers on being    *)
(* empty are true, no wild pointer is followed, and no loop is repeated    *)
(* without a reason.                                                       *)
(*                                                                         *)
(* MSQueueSteps has the invariant and the steps of push.  Here come those  *)
(* of pop, of the test for emptiness, of create and of delete, and the     *)
(* steps of Fifo that they implement.  That the recursion in Chain gives   *)
(* the values on the chain (ContentsLaw) is shown at the end.              *)
(***************************************************************************)
EXTENDS MSQueueSteps

-----------------------------------------------------------------------------
\* head = q->head (queue.c:107).
LEMMA PopHeadStep ==
  ASSUME ContentsLaw, ContentsLaw', Types, NEW m, NEW s, Coherent(m, s),
         NEW t \in Caller, PopHead(t), Moves
  PROVE  Kept /\ Contents' = Contents
<1> DEFINE l == Local("pop_tail", NULL, q.head, NULL, NULL, NULL)
<1>1. q' = q /\ q.live /\ Reads /\ q \in QTypes
  BY DEF PopHead, At, Reads, KeepsEnds, Types, QTypes
<1>2. Go(t, l)
  BY IdleUpdate, Zenon DEF PopHead
<1>3. l \in Locals
  BY <1>1 DEF Locals, Local, Labels, HoldsHead, QTypes
<1>4. l.pc = "pop_tail" /\ l.head = q.head
  BY DEF Local
<1> HIDE DEF l
<1>5. loc'[t] = l
  BY <1>2, GoStep
<1>6. Knows(t, m, s)'
  BY <1>1, <1>4, <1>5, Zenon DEF Knows, Reads, KeepsEnds, Unlinked, Unfreed, PushKnows, PopKnows,
     EmptyKnows, StillKnows, Pushing, HoldsTail, HoldsHead, LoopStart, QTypes
<1> QED BY <1>1, <1>2, <1>3, <1>4, <1>6, ReadStep DEF Pushing, Kept

\* tail = q->tail (queue.c:108).
LEMMA PopTailStep ==
  ASSUME ContentsLaw, ContentsLaw', Types, NEW m, NEW s, Coherent(m, s),
         NEW t \in Caller, PopTail(t), Moves
  PROVE  Kept /\ Contents' = Contents
<1> DEFINE l == Local("pop_next", loc[t].n, loc[t].head, q.tail, loc[t].next, loc[t].ret)
<1>1. loc[t].pc = "pop_tail" /\ q' = q /\ q.live /\ Reads /\ q \in QTypes /\ loc[t] \in Locals
  BY DEF PopTail, At, Reads, KeepsEnds, Types, QTypes
<1>2. Go(t, l)
  BY <1>1, LocalUpdate, Zenon DEF PopTail
<1>3. l \in Locals
  BY <1>1 DEF Locals, Local, Labels, HoldsHead, QTypes
<1>4. l.pc = "pop_next" /\ l.head = loc[t].head /\ l.tail = q.tail
  BY DEF Local
<1> HIDE DEF l
<1>5. loc'[t] = l /\ KeepsMoved(t) /\ Knows(t, m, s)
  BY <1>1, <1>2, <1>4, GoStep DEF LoopStart, Coherent
<1>6. Knows(t, m, s)'
  BY <1>1, <1>4, <1>5, Zenon DEF Knows, Reads, KeepsEnds, Unlinked, Unfreed, PushKnows, PopKnows,
     EmptyKnows, StillKnows, KeepsMoved, Pushing, HoldsTail, HoldsHead, LoopStart
<1> QED BY <1>1, <1>2, <1>3, <1>4, <1>6, ReadStep DEF Pushing, Kept

\* A next that is NULL was read from the only node of the chain.
LEMMA PopNextStep ==
  ASSUME ContentsLaw, ContentsLaw', Types, NEW m, NEW s, Coherent(m, s),
         NEW t \in Caller, PopNext(t), Moves
  PROVE  Kept /\ Contents' = Contents
<1> DEFINE l == Local("pop_check", loc[t].n, loc[t].head,
                      loc[t].tail, node[loc[t].head].next, loc[t].ret)
<1>1. loc[t].pc = "pop_next" /\ q' = q /\ q.live /\ Reads /\ q \in QTypes /\ loc[t] \in Locals
  BY DEF PopNext, At, Reads, KeepsEnds, Types, QTypes
<1>2. Go(t, l)
  BY <1>1, LocalUpdate, Zenon DEF PopNext
<1>3. /\ Knows(t, m, s) /\ IsChain(m, s)
      /\ loc[t].head \in Node /\ node[loc[t].head].next \in Node \cup {NULL, Junk}
  BY <1>1, Zenon DEF Coherent, Knows, PopKnows, HoldsHead, Types
<1>4. l \in Locals
  BY <1>1, <1>3, Zenon DEF Locals, Local, Labels, HoldsHead
<1>5. /\ l.pc = "pop_check" /\ l.head = loc[t].head /\ l.tail = loc[t].tail
      /\ l.next = node[loc[t].head].next
  BY DEF Local
<1> HIDE DEF l
<1>6. loc'[t] = l /\ KeepsMoved(t) /\ Remembers(t)
  BY <1>1, <1>2, <1>5, GoStep DEF LoopStart
<1>7. l.next = NULL => TRUE \in seen'[t]
  <2>1. l.next = NULL => m = 1
    BY <1>1, <1>3, <1>5, ChainFacts, Zenon DEF Knows, PopKnows, HoldsHead
  <2>2. m = 1 => Contents = <<>>
    BY <1>3, EmptyIs DEF IsChain
  <2> QED BY <1>6, <2>1, <2>2, Zenon DEF Remembers
<1>8. Knows(t, m, s)'
  BY <1>1, <1>3, <1>5, <1>6, <1>7, Zenon DEF Knows, Reads, KeepsEnds, Unlinked, Unfreed,
     PushKnows, PopKnows,
     EmptyKnows, StillKnows, KeepsMoved, Pushing, HoldsTail, HoldsHead, LoopStart
<1> QED BY <1>1, <1>2, <1>4, <1>5, <1>8, ReadStep DEF Pushing, Kept

\* head == q->head, and the two tests below it (queue.c:111-113).
LEMMA PopCheckStep ==
  ASSUME ContentsLaw, ContentsLaw', Types, NEW m, NEW s, Coherent(m, s),
         NEW t \in Caller, PopCheck(t), Moves
  PROVE  Kept /\ Contents' = Contents
<1> DEFINE to == IF loc[t].head # q.head THEN "pop_head"
                 ELSE IF loc[t].head = loc[t].tail THEN "pop_help" ELSE "pop_value"
           l == Local(to, loc[t].n, loc[t].head, loc[t].tail, loc[t].next, loc[t].ret)
<1>1. loc[t].pc = "pop_check" /\ q' = q /\ q.live /\ Reads /\ q \in QTypes /\ loc[t] \in Locals
  BY DEF PopCheck, At, Reads, KeepsEnds, Types, QTypes
<1>2. CASE AnswersEmpty(t)
  <2>1. Go(t, Idle)
    BY <1>2, Zenon DEF PopCheck
  <2> QED BY <1>1, <2>1, ReturnStep DEF Kept
<1>3. CASE ~AnswersEmpty(t)
  <2>1. Go(t, l)
    BY <1>1, <1>3, LocalUpdate, Zenon DEF PopCheck
  <2>2. l \in Locals
    BY <1>1 DEF Locals, Local, Labels, HoldsHead
  <2>3. /\ l.pc = to /\ l.head = loc[t].head /\ l.tail = loc[t].tail /\ l.next = loc[t].next
        /\ to \in {"pop_head", "pop_help", "pop_value"}
    BY DEF Local
  <2>4. to = "pop_help" => loc[t].head = q.head /\ loc[t].tail = loc[t].head /\ loc[t].next # NULL
    BY <1>1, <1>3 DEF AnswersEmpty, At
  <2>5. to = "pop_value" => loc[t].head = q.head /\ loc[t].tail # loc[t].head
    OBVIOUS
  <2>6. to = "pop_head" => loc[t].head # q.head
    OBVIOUS
  <2> HIDE DEF l, to
  <2>7. loc'[t] = l /\ KeepsMoved(t) /\ Knows(t, m, s) /\ IsChain(m, s)
    BY <1>1, <2>1, <2>3, GoStep DEF LoopStart, Coherent
  <2>8. to = "pop_value" => loc[t].next = node[loc[t].head].next /\ loc[t].next \in Node
    BY <1>1, <2>5, <2>7, ChainFacts, SMTT(30) DEF Knows, PopKnows
  <2>9. Unlinked(t, m, s)' /\ Unfreed(t, m, s)' /\ EmptyKnows(t)' /\ PushKnows(t)'
    BY <2>3, <2>7, Zenon DEF Unlinked, Unfreed, PushKnows, EmptyKnows, Pushing, HoldsTail
  <2>10. PopKnows(t, m, s)'
    BY <1>1, <2>3, <2>4, <2>5, <2>7, <2>8, Zenon DEF Knows, Reads, KeepsEnds, PopKnows, HoldsHead
  <2>11. StillKnows(t)'
    BY <1>1, <2>3, <2>6, <2>7 DEF Knows, Reads, KeepsEnds, StillKnows, KeepsMoved, HoldsHead,
       LoopStart
  <2>12. Knows(t, m, s)'
    BY <2>9, <2>10, <2>11 DEF Knows
  <2> QED BY <1>1, <2>1, <2>2, <2>3, <2>12, ReadStep DEF Pushing, Kept
<1> QED BY <1>2, <1>3

\* The swing of a tail that lags behind (queue.c:116).
LEMMA PopHelpStep ==
  ASSUME ContentsLaw, ContentsLaw', Types, NEW m, NEW s, Coherent(m, s),
         NEW t \in Caller, PopHelp(t), Moves
  PROVE  Kept /\ Contents' = Contents
<1> DEFINE l == Local("pop_head", loc[t].n, loc[t].head, loc[t].tail, loc[t].next, loc[t].ret)
<1>1. /\ loc[t].pc = "pop_help" /\ q.live /\ loc[t] \in Locals
      /\ node' = node /\ alloc' = alloc /\ SwingTail(loc[t].tail, loc[t].next)
  BY DEF PopHelp, At, Types
<1>2. Go(t, l)
  BY <1>1, LocalUpdate, Zenon DEF PopHelp
<1>3. Knows(t, m, s) /\ IsChain(m, s)
  BY DEF Coherent
<1>4. /\ q' \in QTypes /\ q.live' = q.live /\ (Reads \/ Swings(m, s))
      /\ q.tail = loc[t].tail => q.tail # q.tail'
  <2>1. q.tail = loc[t].tail => loc[t].next = node[q.tail].next /\ loc[t].next # NULL
    BY <1>1, <1>3, ChainFacts, SMTT(30) DEF Knows, PopKnows, HoldsHead
  <2> QED BY <1>1, <1>3, <2>1, HelpFacts, Zenon
<1>5. l \in Locals
  BY <1>1 DEF Locals, Local, Labels
<1>6. l.pc = "pop_head"
  BY DEF Local
<1> HIDE DEF l
<1>7. loc'[t] = l /\ KeepsMoved(t)
  BY <1>1, <1>2, <1>6, GoStep DEF LoopStart
<1>8. moved'[t]
  BY <1>1, <1>3, <1>4, <1>7 DEF Knows, StillKnows, KeepsMoved
<1>9. Knows(t, m, s)'
  BY <1>6, <1>7, <1>8, Zenon DEF Knows, Unlinked, Unfreed, PushKnows, PopKnows,
     EmptyKnows, StillKnows, Pushing, HoldsTail, HoldsHead
<1> QED BY <1>1, <1>2, <1>4, <1>5, <1>6, <1>9, ReadStep DEF Pushing, Kept

\* ret = next->p (queue.c:119).
LEMMA PopValueStep ==
  ASSUME ContentsLaw, ContentsLaw', Types, NEW m, NEW s, Coherent(m, s),
         NEW t \in Caller, PopValue(t), Moves
  PROVE  Kept /\ Contents' = Contents
<1> DEFINE l == Local("pop_cas", loc[t].n, loc[t].head,
                      loc[t].tail, loc[t].next, node[loc[t].next].p)
<1>1. loc[t].pc = "pop_value" /\ q' = q /\ q.live /\ Reads /\ q \in QTypes /\ loc[t] \in Locals
  BY DEF PopValue, At, Reads, KeepsEnds, Types, QTypes
<1>2. Go(t, l)
  <2>1. [loc[t] EXCEPT !.pc = "pop_cas", !.ret = node[loc[t].next].p] = l
    <3>1. \A b : [loc[t] EXCEPT !.pc = "pop_cas", !.ret = b]
                 = Local("pop_cas", loc[t].n, loc[t].head, loc[t].tail, loc[t].next, b)
      BY <1>1, LocalUpdateRet, Zenon
    <3> QED BY <3>1, Zenon
  <2> QED BY <2>1, Zenon DEF PopValue
<1>3. Knows(t, m, s) /\ node[loc[t].next].p \in Value \cup {Junk}
  <2>1. loc[t].next \in Node
    BY DEF PopValue
  <2> QED BY <2>1 DEF Coherent, Types
<1>4. l \in Locals
  BY <1>1, <1>3 DEF Locals, Local, Labels, HoldsHead
<1>5. /\ l.pc = "pop_cas" /\ l.head = loc[t].head /\ l.tail = loc[t].tail
      /\ l.next = loc[t].next /\ l.ret = node[loc[t].next].p
  BY DEF Local
<1> HIDE DEF l
<1>6. loc'[t] = l /\ KeepsMoved(t)
  BY <1>1, <1>2, <1>5, GoStep DEF LoopStart
<1>7. Knows(t, m, s)'
  BY <1>1, <1>3, <1>5, <1>6, ZenonT(30) DEF Knows, Reads, KeepsEnds, Unlinked, Unfreed,
     PushKnows, PopKnows,
     EmptyKnows, StillKnows, KeepsMoved, Pushing, HoldsTail, HoldsHead, LoopStart
<1> QED BY <1>1, <1>2, <1>4, <1>5, <1>7, ReadStep DEF Pushing, Kept

\* The swap of the head takes effect only if the head is the one read, and
\* then its successor and the value read are those of the chain.
LEMMA PopCasStep ==
  ASSUME ContentsLaw, ContentsLaw', Types, NEW m, NEW s, Coherent(m, s),
         NEW t \in Caller, PopCas(t), Moves
  PROVE  /\ Kept
         /\ q.head # loc[t].head => Contents' = Contents
         /\ q.head = loc[t].head =>
              Contents # <<>> /\ loc[t].ret = Head(Contents) /\ Contents' = Tail(Contents)
<1> DEFINE won == q.head = loc[t].head
           to == IF won THEN "pop_free" ELSE "pop_head"
           l == Local(to, loc[t].n, loc[t].head, loc[t].tail, loc[t].next, loc[t].ret)
<1>1. /\ loc[t].pc = "pop_cas" /\ q.live /\ node' = node /\ alloc' = alloc
      /\ loc[t] \in Locals /\ q \in QTypes
  BY DEF PopCas, At, Types, QTypes
<1>2. q' = [q EXCEPT !.head = IF won THEN loc[t].next ELSE q.head]
  BY Zenon DEF PopCas
<1>3. Go(t, l)
  BY <1>1, LocalUpdate, Zenon DEF PopCas
<1>4. IsChain(m, s) /\ \A u \in Caller : Knows(u, m, s)
  BY DEF Coherent
<1>5. loc[t].next \in Node /\ q.head \in Node
  BY <1>1, <1>4, Zenon DEF Knows, PopKnows, QTypes
<1>6. /\ q' \in QTypes /\ q.live' = q.live /\ q.tail' = q.tail
      /\ q.head' = IF won THEN loc[t].next ELSE q.head
  BY <1>1, <1>2, <1>5, HeadFacts, Zenon
<1>7. l \in Locals
  BY <1>1 DEF Locals, Local, Labels
<1>8. l.pc = to /\ l.head = loc[t].head /\ to \in {"pop_free", "pop_head"}
  BY DEF Local
<1> HIDE DEF l
<1>9. loc'[t] = l /\ KeepsMoved(t) /\ \A u \in Caller : u # t => Same(u)
  BY <1>1, <1>3, <1>8, GoStep DEF LoopStart
<1>10. CASE ~won
  <2>1. Reads /\ l.pc = "pop_head"
    BY <1>1, <1>6, <1>8, <1>10 DEF Reads, KeepsEnds
  <2>2. Knows(t, m, s)'
    BY <1>1, <1>4, <1>9, <1>10, <2>1, Zenon DEF Knows, Unlinked, Unfreed, PushKnows,
       PopKnows, EmptyKnows, StillKnows, KeepsMoved, Pushing, HoldsTail, HoldsHead
  <2> QED BY <1>1, <1>3, <1>6, <1>7, <1>10, <2>1, <2>2, ReadStep DEF Pushing, Kept
<1>11. CASE won
  <2>1. /\ loc[t].next = node[q.head].next /\ q.tail # q.head /\ loc[t].ret = node[loc[t].next].p
    BY <1>1, <1>4, <1>11, Zenon DEF Knows, PopKnows
  <2>2. m > 1 /\ loc[t].next = s[2] /\ s[2] # q.head /\ node[q.head].next # NULL
    BY <1>4, <1>5, <2>1, ChainFacts, QueueAssumption
  <2>3. Takes(m, s)
    BY <1>1, <1>6, <1>11, <2>1, <2>2 DEF Takes
  <2>4. PICK r : r = Shorter(m, s)
    OBVIOUS
  <2>5. IsChain(m - 1, r)'
    BY <1>4, <2>3, <2>4, TakeChain
  <2>6. \A u \in Caller : u # t => Knows(u, m - 1, r)'
    BY <1>4, <1>9, <2>3, <2>4, OthersTake
  <2>7. l.pc = "pop_free" /\ l.head = q.head
    BY <1>8, <1>11
  <2>8. m \in Nat /\ s \in [1..m -> Node] /\ q.head = s[1]
    BY <1>4 DEF IsChain, Linked
  <2>9. \A i \in 1..m - 1 : r[i] = s[i + 1] /\ i + 1 \in 1..m /\ s[i + 1] # s[1]
    BY <1>4, <2>2, <2>4, <2>8 DEF Shorter, IsChain, Linked
  <2>10. q.head \in alloc /\ ~On(m - 1, r, q.head)
    BY <1>4, <2>8, <2>9, ChainFacts, ZenonT(30) DEF On
  <2>11. Knows(t, m - 1, r)'
    BY <1>1, <1>9, <2>2, <2>7, <2>10 DEF Knows, Unlinked, Unfreed, PushKnows, PopKnows,
       EmptyKnows, StillKnows, Pushing, HoldsTail, HoldsHead, LoopStart
  <2>12. Owns(t, l)
    BY <1>4, <2>7, ChainFacts DEF Owns, Pushing, Knows, Unfreed
  <2>13. Types' /\ Coherent(m - 1, r)'
    <3>1. alloc' \subseteq Node /\ node' \in NodeTypes
      BY <1>1 DEF Types, NodeTypes
    <3> QED BY <1>3, <1>6, <1>7, <2>5, <2>6, <2>7, <2>11, <2>12, <3>1, Assemble, Zenon
  <2>14. Contents # <<>> /\ loc[t].ret = Head(Contents) /\ Contents' = Tail(Contents)
    BY <1>1, <1>4, <2>1, <2>2, <2>5, <2>9, ShorterContents DEF IsChain
  <2> QED BY <1>1, <1>6, <1>11, <2>13, <2>14 DEF Kept
<1> QED BY <1>10, <1>11

\* free(head) (queue.c:127).
LEMMA PopFreeStep ==
  ASSUME ContentsLaw, ContentsLaw', Types, NEW m, NEW s, Coherent(m, s),
         NEW t \in Caller, PopFree(t), Moves
  PROVE  Kept /\ Contents' = Contents
<1> DEFINE l == Local("pop_len", NULL, NULL, NULL, NULL, loc[t].ret)
           x == loc[t].head
<1>1. /\ loc[t].pc = "pop_free" /\ q.live /\ q' = q /\ q \in QTypes
      /\ loc[t] \in Locals /\ alloc' = alloc \ {x} /\ alloc \subseteq Node
  BY DEF PopFree, At, Types, QTypes
<1>2. Go(t, l)
  <2>1. \A b : [Idle EXCEPT !.pc = "pop_len", !.ret = b] = Local("pop_len", NULL, NULL, NULL, NULL, b)
    BY IdleUpdate, Zenon
  <2> QED BY <2>1, Zenon DEF PopFree
<1>3. IsChain(m, s) /\ \A u \in Caller : Knows(u, m, s)
  BY DEF Coherent
<1>4. x \in alloc /\ x \in Node /\ ~On(m, s, x) /\ node[x].next # NULL
  BY <1>1, <1>3 DEF Knows, Unfreed
<1>5. /\ node' \in NodeTypes /\ node'[x].next # NULL
      /\ \A y \in Node : y # x => node'[y] = node[y]
  <2>1. node \in NodeTypes
    BY DEF Types, NodeTypes
  <2>2. CASE node' = node
    BY <1>4, <2>1, <2>2
  <2>3. CASE node' = [node EXCEPT ![x] = [p |-> Junk, next |-> Junk]]
    BY <1>4, <2>1, <2>3, QueueAssumption DEF NodeTypes
  <2> QED BY <2>2, <2>3 DEF PopFree
<1>6. l \in Locals
  BY <1>1 DEF Locals, Local, Labels
<1>7. l.pc = "pop_len"
  BY DEF Local
<1> HIDE DEF l
<1>8. loc'[t] = l /\ \A u \in Caller : u # t => Same(u)
  BY <1>2, GoStep
<1>9. Frees(m, s, x)
  BY <1>1, <1>4, <1>5 DEF Frees, KeepsEnds
<1>10. IsChain(m, s)'
  BY <1>3, <1>9, FreeChain
<1>11. ASSUME NEW u \in Caller, u # t PROVE Knows(u, m, s)'
  <2>1. loc[u].pc = "pop_free" => loc[u].head # x
    BY <1>1, <1>11 DEF Coherent, Owners
  <2> QED BY <1>3, <1>8, <1>9, <1>11, <2>1, OthersFree
<1>12. Knows(t, m, s)'
  BY <1>7, <1>8, Zenon DEF Knows, Unlinked, Unfreed, PushKnows, PopKnows,
     EmptyKnows, StillKnows, Pushing, HoldsTail, HoldsHead, LoopStart
<1>13. Owns(t, l) /\ alloc' \subseteq Node /\ q' \in QTypes
  BY <1>1, <1>7 DEF Owns, Pushing
<1>14. Types' /\ Coherent(m, s)'
  BY <1>2, <1>5, <1>6, <1>7, <1>10, <1>11, <1>12, <1>13, Assemble
<1>15. Contents' = Contents
  <2>1. \A i \in 2..m : node'[s[i]] = node[s[i]]
    BY <1>3, <1>4, <1>5, ChainFacts
  <2> QED BY <1>3, <1>10, <2>1, SameContents DEF IsChain
<1> QED BY <1>1, <1>14, <1>15 DEF Kept

\* atomic_dec of the length (queue.c:129).
LEMMA PopLenStep ==
  ASSUME ContentsLaw, ContentsLaw', Types, NEW m, NEW s, Coherent(m, s),
         NEW t \in Caller, PopLen(t), Moves
  PROVE  Kept /\ Contents' = Contents
<1>1. /\ q.live /\ q \in QTypes /\ q.len - 1 \in Int /\ Go(t, Idle)
      /\ node' = node /\ alloc' = alloc
  BY DEF PopLen, At, Types, QTypes
<1>2. q' = [q EXCEPT !.len = (q.len - 1) % WordSize]
  BY Zenon DEF PopLen
<1>3. q' \in QTypes /\ q.live' = q.live /\ Reads
  BY <1>1, <1>2, LenFacts, Zenon DEF Reads, KeepsEnds
<1> QED BY <1>1, <1>3, ReturnStep DEF Kept

-----------------------------------------------------------------------------
\* The two reads of q->head in queue_empty (queue.c:138).
LEMMA EmptyHeadStep ==
  ASSUME ContentsLaw, ContentsLaw', Types, NEW m, NEW s, Coherent(m, s),
         NEW t \in Caller, NEW label,
         NEW to \in {"empty_tail", "empty_next"}, EmptyHead(t, label, to), Moves
  PROVE  Kept /\ Contents' = Contents
<1> DEFINE l == Local(to, NULL, q.head, NULL, NULL, NULL)
<1>1. q' = q /\ q.live /\ Reads /\ q \in QTypes
  BY DEF EmptyHead, At, Reads, KeepsEnds, Types, QTypes
<1>2. Go(t, l)
  BY IdleUpdate, Zenon DEF EmptyHead
<1>3. l \in Locals
  BY <1>1 DEF Locals, Local, Labels, QTypes
<1>4. l.pc = to /\ l.head = q.head
  BY DEF Local
<1> HIDE DEF l
<1>5. loc'[t] = l
  BY <1>2, GoStep
<1>6. Knows(t, m, s)'
  BY <1>1, <1>4, <1>5, Zenon DEF Knows, Reads, KeepsEnds, Unlinked, Unfreed, PushKnows, PopKnows,
     EmptyKnows, StillKnows, Pushing, HoldsTail, HoldsHead, LoopStart, QTypes
<1> QED BY <1>1, <1>2, <1>3, <1>4, <1>6, ReadStep DEF Pushing, Kept

\* The read of q->tail in queue_empty (queue.c:138).
LEMMA EmptyTailStep ==
  ASSUME ContentsLaw, ContentsLaw', Types, NEW m, NEW s, Coherent(m, s),
         NEW t \in Caller, EmptyTail(t), Moves
  PROVE  Kept /\ Contents' = Contents
<1> DEFINE l == Local("empty_again", NULL, NULL, NULL, NULL, NULL)
<1>1. q' = q /\ q.live /\ Reads /\ q \in QTypes
  BY DEF EmptyTail, At, Reads, KeepsEnds, Types, QTypes
<1>2. CASE loc[t].head # q.tail
  <2>1. Go(t, Idle)
    BY <1>2, Zenon DEF EmptyTail
  <2> QED BY <1>1, <2>1, ReturnStep DEF Kept
<1>3. CASE loc[t].head = q.tail
  <2>1. Go(t, l)
    BY <1>3, IdleUpdate, Zenon DEF EmptyTail
  <2>2. l \in Locals
    BY DEF Locals, Local, Labels
  <2>3. l.pc = "empty_again"
    BY DEF Local
  <2> HIDE DEF l
  <2>4. loc'[t] = l
    BY <2>1, GoStep
  <2>5. Knows(t, m, s)'
    BY <2>3, <2>4, Zenon DEF Knows, Unlinked, Unfreed, PushKnows, PopKnows,
       EmptyKnows, StillKnows, Pushing, HoldsTail, HoldsHead, LoopStart
  <2> QED BY <1>1, <2>1, <2>2, <2>3, <2>5, ReadStep DEF Pushing, Kept
<1> QED BY <1>2, <1>3

\* The read of next in queue_empty (queue.c:138).
LEMMA EmptyNextStep ==
  ASSUME ContentsLaw, ContentsLaw', Types, NEW m, NEW s, Coherent(m, s),
         NEW t \in Caller, EmptyNext(t), Moves
  PROVE  Kept /\ Contents' = Contents
<1>1. q' = q /\ q.live /\ Reads /\ q \in QTypes /\ Go(t, Idle)
  BY DEF EmptyNext, At, Reads, KeepsEnds, Types, QTypes
<1> QED BY <1>1, ReturnStep DEF Kept

-----------------------------------------------------------------------------
\* create_queue and delete_queue run while no operation is in progress.
LEMMA CreateStep ==
  ASSUME ContentsLaw, ContentsLaw', Types, \A t \in Caller : loc[t] = Idle, Create, Moves
  PROVE  Kept /\ Contents' = <<>>
<1>1. PICK x \in Fresh : /\ q' = NewQueue(x) /\ alloc' = alloc \cup {x}
                         /\ node' = [node EXCEPT ![x] = [p |-> Junk, next |-> NULL]]
  BY Zenon DEF Create
<1>2. /\ x \in Node /\ node'[x].next = NULL /\ loc' = loc /\ seen' = seen
      /\ q.head' = x /\ q.tail' = x /\ q.live' /\ x \in alloc' /\ alloc' \subseteq Node
  BY <1>1 DEF Create, Fresh, Types, NewQueue
<1>3. 0 \in 0..WordSize - 1
  BY QueueAssumption
<1>4. q' \in QTypes /\ node' \in NodeTypes
  BY <1>1, <1>2, <1>3, QueueAssumption DEF Types, QTypes, NodeTypes, NewQueue
<1>5. moved' \in [Caller -> BOOLEAN]
  <2>1. \A t \in Caller : loc[t] = Idle
    OBVIOUS
  <2>2. moved' = [t \in Caller |-> LoopStart(loc'[t])]
    BY <2>1, Zenon DEF Moves
  <2> QED BY <2>2 DEF LoopStart
<1>6. Types'
  BY <1>2, <1>4, <1>5 DEF Types, QTypes, NodeTypes
<1>7. PICK r : r = [i \in 1..1 |-> x]
  BY Zenon
<1>8. r[1] = x /\ r \in [1..1 -> Node]
  BY <1>2, <1>7
<1>9. IsChain(1, r)'
  BY <1>2, <1>8 DEF IsChain, Linked
<1>10. \A t \in Caller : Knows(t, 1, r)'
  BY <1>2, IdleKnows
<1>11. Owners'
  BY <1>2 DEF Owners, Idle, Pushing
<1>12. Contents' = <<>>
  <2>1. Contents' = [k \in 1..1 - 1 |-> node'[r[k + 1]].p]
    BY <1>9 DEF ContentsLaw, IsChain
  <2> QED BY <2>1
<1> QED BY <1>2, <1>6, <1>9, <1>10, <1>11, <1>12 DEF Kept, Coherent

\* delete_queue leaves no queue.
LEMMA DeleteStep ==
  ASSUME Types, Delete, Moves
  PROVE  Types' /\ ~q.live' /\ \A t \in Caller : loc'[t] = Idle
<1>1. /\ \A t \in Caller : loc[t] = Idle
      /\ loc' = loc /\ seen' = seen /\ node' = node /\ alloc' \subseteq Node
  BY DEF Delete, Types
<1>2. q \in QTypes /\ q' = [q EXCEPT !.live = FALSE]
  BY DEF Delete, Types, QTypes
<1>3. q' \in QTypes /\ ~q.live'
  BY <1>2, Zenon DEF QTypes
<1>4. moved' \in [Caller -> BOOLEAN]
  <2>1. moved' = [t \in Caller |-> LoopStart(loc'[t])]
    BY <1>1, Zenon DEF Moves
  <2> QED BY <2>1 DEF LoopStart
<1> QED BY <1>1, <1>3, <1>4 DEF Types, QTypes

-----------------------------------------------------------------------------
\* A step that leaves the popped values alone.
Popped == {"pop_free", "pop_len"}
Results == [t \in Caller |-> IF loc[t].pc \in Popped THEN loc[t].ret ELSE NULL]

LEMMA SilentGo ==
  ASSUME Types, NEW t \in Caller, NEW l, Go(t, l), loc[t].pc \notin Popped, l.pc \notin Popped
  PROVE  Results' = Results
<1>1. loc'[t] = l /\ \A u \in Caller : u # t => loc'[u] = loc[u]
  BY DEF Types, Go
<1>2. ASSUME NEW u \in Caller
      PROVE  (IF loc'[u].pc \in Popped THEN loc'[u].ret ELSE NULL)
               = (IF loc[u].pc \in Popped THEN loc[u].ret ELSE NULL)
  BY <1>1
<1> QED BY <1>2, Zenon DEF Results

\* No step of a push touches a popped value.
LEMMA SilentPush ==
  ASSUME Types, NEW t \in Caller, Push(t)
  PROVE  Results' = Results
<1>1. loc[t] \in Locals
  BY DEF Types
<1>2. CASE \E v \in Value : PushAlloc(t, v)
  <2>1. PICK x : loc[t].pc = "idle" /\ Go(t, [Idle EXCEPT !.pc = "push_tail", !.n = x])
    BY <1>2, Zenon DEF PushAlloc, At
  <2>2. Go(t, Local("push_tail", x, NULL, NULL, NULL, NULL))
    BY <2>1, IdleUpdate, Zenon
  <2> QED BY <2>1, <2>2, SilentGo DEF Local, Popped
<1>3. CASE PushTail(t)
  <2>1. [Idle EXCEPT !.pc = "push_next", !.n = loc[t].n, !.tail = q.tail]
          = Local("push_next", loc[t].n, NULL, q.tail, NULL, NULL)
    BY IdleUpdateTail, Zenon
  <2>2. loc[t].pc = "push_tail" /\ Go(t, Local("push_next", loc[t].n, NULL, q.tail, NULL, NULL))
    BY <1>3, <2>1, Zenon DEF PushTail, At
  <2> QED BY <2>2, SilentGo DEF Local, Popped
<1>4. ASSUME NEW a, loc[t].pc \notin Popped, Go(t, [loc[t] EXCEPT !.pc = a]), a \notin Popped
      PROVE  Results' = Results
  <2>1. Go(t, Local(a, loc[t].n, loc[t].head, loc[t].tail, loc[t].next, loc[t].ret))
    BY <1>1, <1>4, LocalUpdate, Zenon
  <2> QED BY <1>4, <2>1, SilentGo DEF Local
<1>5. CASE PushNext(t)
  <2>1. loc[t].pc = "push_next" /\ Go(t, Local("push_check", loc[t].n, loc[t].head, loc[t].tail,
                                               node[loc[t].tail].next, loc[t].ret))
    BY <1>1, <1>5, LocalUpdate, Zenon DEF PushNext, At
  <2> QED BY <2>1, SilentGo DEF Local, Popped
<1>6. CASE PushCheck(t)
  BY <1>4, <1>6 DEF PushCheck, At, Popped
<1>7. CASE PushLink(t)
  BY <1>4, <1>7 DEF PushLink, At, Popped
<1>8. CASE PushHelp(t)
  BY <1>4, <1>8 DEF PushHelp, At, Popped
<1>9. CASE PushSwing(t)
  <2>1. loc[t].pc = "push_swing" /\ Go(t, Local("push_len", NULL, NULL, NULL, NULL, NULL))
    BY <1>9, IdleUpdate, Zenon DEF PushSwing, At
  <2> QED BY <2>1, SilentGo DEF Local, Popped
<1>10. CASE PushLen(t)
  BY <1>10, SilentGo DEF PushLen, At, Idle, Popped
<1> QED BY <1>2, <1>3, <1>5, <1>6, <1>7, <1>8, <1>9, <1>10 DEF Push

\* What a step of one caller does to the popped values.
LEMMA GoResults ==
  ASSUME Types, NEW t \in Caller, NEW l, Go(t, l)
  PROVE  Results' = [Results EXCEPT ![t] = IF l.pc \in Popped THEN l.ret ELSE NULL]
<1>1. loc'[t] = l /\ \A u \in Caller : u # t => loc'[u] = loc[u]
  BY DEF Types, Go
<1>2. ASSUME NEW u \in Caller
      PROVE  (IF loc'[u].pc \in Popped THEN loc'[u].ret ELSE NULL)
               = IF u = t THEN IF l.pc \in Popped THEN l.ret ELSE NULL ELSE Results[u]
  BY <1>1 DEF Results
<1>3. Results' = [u \in Caller |-> IF u = t THEN IF l.pc \in Popped THEN l.ret ELSE NULL
                                 ELSE Results[u]]
  BY <1>2, Zenon DEF Results
<1>4. Results = [u \in Caller |-> Results[u]]
  BY DEF Results
<1> QED BY <1>3, <1>4

\* No step of queue_empty touches a popped value.
LEMMA SilentEmpty ==
  ASSUME Types, NEW t \in Caller, IsEmpty(t)
  PROVE  Results' = Results
<1>1. ASSUME NEW a, NEW b, EmptyHead(t, a, b), a \notin Popped, b \notin Popped
      PROVE  Results' = Results
  <2>1. loc[t].pc = a /\ Go(t, Local(b, NULL, q.head, NULL, NULL, NULL))
    BY <1>1, IdleUpdate, Zenon DEF EmptyHead, At
  <2> QED BY <1>1, <2>1, SilentGo DEF Local
<1>2. CASE EmptyHead(t, "idle", "empty_tail")
  BY <1>1, <1>2 DEF Popped
<1>3. CASE EmptyHead(t, "empty_again", "empty_next")
  BY <1>1, <1>3 DEF Popped
<1>4. CASE EmptyTail(t)
  <2>1. [Idle EXCEPT !.pc = "empty_again"] = Local("empty_again", NULL, NULL, NULL, NULL, NULL)
    BY IdleUpdate, Zenon
  <2>2. PICK l : Go(t, l) /\ l.pc \in {"idle", "empty_again"}
    <3>1. CASE loc[t].head = q.tail
      BY <1>4, <2>1, <3>1 DEF EmptyTail, Local
    <3>2. CASE loc[t].head # q.tail
      BY <1>4, <3>2 DEF EmptyTail, Idle
    <3> QED BY <3>1, <3>2
  <2> QED BY <1>4, <2>2, SilentGo DEF EmptyTail, At, Popped
<1>5. CASE EmptyNext(t)
  BY <1>5, SilentGo DEF EmptyNext, At, Idle, Popped
<1> QED BY <1>2, <1>3, <1>4, <1>5 DEF IsEmpty

\* What a step of a pop does to them: the swap of the head and the return do.
LEMMA PopResults ==
  ASSUME Types, NEW t \in Caller, Pop(t)
  PROVE  \/ ~PopLen(t) /\ ~(PopCas(t) /\ q.head = loc[t].head) /\ Results' = Results
         \/ /\ PopCas(t) /\ q.head = loc[t].head /\ Results[t] = NULL
            /\ Results' = [Results EXCEPT ![t] = loc[t].ret]
         \/ PopLen(t) /\ Results' = [Results EXCEPT ![t] = NULL]
<1>1. loc[t] \in Locals
  BY DEF Types
<1>2. CASE PopHead(t)
  <2>1. /\ loc[t].pc \in {"idle", "pop_head"}
        /\ Go(t, Local("pop_tail", NULL, q.head, NULL, NULL, NULL))
    BY <1>2, IdleUpdate, Zenon DEF PopHead, At
  <2> QED BY <2>1, SilentGo DEF Local, Popped, PopLen, PopCas, At
<1>3. CASE PopTail(t)
  <2>1. loc[t].pc = "pop_tail" /\ Go(t, Local("pop_next", loc[t].n, loc[t].head, q.tail,
                                              loc[t].next, loc[t].ret))
    BY <1>1, <1>3, LocalUpdate, Zenon DEF PopTail, At
  <2> QED BY <2>1, SilentGo DEF Local, Popped, PopLen, PopCas, At
<1>4. CASE PopNext(t)
  <2>1. loc[t].pc = "pop_next" /\ Go(t, Local("pop_check", loc[t].n, loc[t].head, loc[t].tail,
                                              node[loc[t].head].next, loc[t].ret))
    BY <1>1, <1>4, LocalUpdate, Zenon DEF PopNext, At
  <2> QED BY <2>1, SilentGo DEF Local, Popped, PopLen, PopCas, At
<1>5. ASSUME NEW a, Go(t, [loc[t] EXCEPT !.pc = a])
      PROVE  Go(t, Local(a, loc[t].n, loc[t].head, loc[t].tail, loc[t].next, loc[t].ret))
  BY <1>1, <1>5, LocalUpdate, Zenon
<1>6. CASE PopCheck(t)
  <2>1. PICK l : Go(t, l) /\ l.pc \in {"idle", "pop_head", "pop_help", "pop_value"}
    <3>1. CASE AnswersEmpty(t)
      BY <1>6, <3>1 DEF PopCheck, Idle
    <3>2. CASE ~AnswersEmpty(t)
      <4>1. PICK a : /\ Go(t, [loc[t] EXCEPT !.pc = a])
                     /\ a \in {"pop_head", "pop_help", "pop_value"}
        BY <1>6, <3>2 DEF PopCheck
      <4>2. Local(a, loc[t].n, loc[t].head, loc[t].tail, loc[t].next, loc[t].ret).pc = a
        BY DEF Local
      <4> QED BY <1>5, <4>1, <4>2, Zenon
    <3> QED BY <3>1, <3>2
  <2> QED BY <1>6, <2>1, SilentGo DEF PopCheck, Popped, PopLen, PopCas, At
<1>7. CASE PopHelp(t)
  <2>1. /\ loc[t].pc = "pop_help"
        /\ Go(t, Local("pop_head", loc[t].n, loc[t].head, loc[t].tail, loc[t].next, loc[t].ret))
    BY <1>5, <1>7, Zenon DEF PopHelp, At
  <2> QED BY <2>1, SilentGo DEF Local, Popped, PopLen, PopCas, At
<1>8. CASE PopValue(t)
  <2>1. \A b : [loc[t] EXCEPT !.pc = "pop_cas", !.ret = b]
                 = Local("pop_cas", loc[t].n, loc[t].head, loc[t].tail, loc[t].next, b)
    BY <1>1, LocalUpdateRet, Zenon
  <2>2. loc[t].pc = "pop_value" /\ Go(t, Local("pop_cas", loc[t].n, loc[t].head, loc[t].tail,
                                               loc[t].next, node[loc[t].next].p))
    BY <1>8, <2>1, Zenon DEF PopValue, At
  <2> QED BY <2>2, SilentGo DEF Local, Popped, PopLen, PopCas, At
<1>9. CASE PopCas(t) /\ q.head # loc[t].head
  <2>1. Go(t, [loc[t] EXCEPT !.pc = "pop_head"]) /\ loc[t].pc = "pop_cas"
    BY <1>9, Zenon DEF PopCas, At
  <2>2. Go(t, Local("pop_head", loc[t].n, loc[t].head, loc[t].tail, loc[t].next, loc[t].ret))
    BY <1>5, <2>1
  <2> QED BY <1>9, <2>1, <2>2, SilentGo DEF Local, Popped, PopLen, At
<1>10. CASE PopCas(t) /\ q.head = loc[t].head
  <2>1. Go(t, [loc[t] EXCEPT !.pc = "pop_free"]) /\ loc[t].pc = "pop_cas"
    BY <1>10, Zenon DEF PopCas, At
  <2>2. Results' = [Results EXCEPT ![t] = loc[t].ret]
    BY <1>5, <2>1, GoResults, Zenon DEF Local, Popped
  <2>3. Results[t] = NULL
    BY <2>1 DEF Results, Popped
  <2> QED BY <1>10, <2>2, <2>3
<1>11. CASE PopFree(t)
  <2>1. \A b : [Idle EXCEPT !.pc = "pop_len", !.ret = b] = Local("pop_len", NULL, NULL, NULL, NULL, b)
    BY IdleUpdate, Zenon
  <2>2. loc[t].pc = "pop_free" /\ Go(t, Local("pop_len", NULL, NULL, NULL, NULL, loc[t].ret))
    BY <1>11, <2>1, Zenon DEF PopFree, At
  <2>3. Results' = [Results EXCEPT ![t] = loc[t].ret]
    BY <2>2, GoResults DEF Local, Popped
  <2>4. Results[t] = loc[t].ret
    BY <2>2 DEF Results, Popped
  <2>5. Results' = Results
    BY <2>3, <2>4, Zenon DEF Results
  <2> QED BY <2>2, <2>5 DEF PopLen, PopCas, At
<1>12. CASE PopLen(t)
  BY <1>12, GoResults DEF PopLen, Idle, Popped
<1> QED BY <1>2, <1>3, <1>4, <1>6, <1>7, <1>8, <1>9, <1>10, <1>11, <1>12 DEF Pop

-----------------------------------------------------------------------------
\* The queue that create_queue makes is a chain of one node.
LEMMA InitInv ==
  ASSUME ContentsLaw, Init
  PROVE  IInv /\ q.live /\ Contents = <<>> /\ \A t \in Caller : loc[t] = Idle
<1>1. PICK x \in Node :
        /\ q = NewQueue(x) /\ alloc = {x}
        /\ node = [y \in Node |-> [p |-> Junk, next |-> IF y = x THEN NULL ELSE Junk]]
  BY DEF Init
<1>2. /\ loc = [t \in Caller |-> Idle] /\ seen = [t \in Caller |-> {}]
      /\ moved = [t \in Caller |-> FALSE]
  BY DEF Init
<1>3. 0 \in 0..WordSize - 1
  BY QueueAssumption
<1>4. q \in QTypes /\ node \in NodeTypes /\ Idle \in Locals
  BY <1>1, <1>3, QueueAssumption DEF QTypes, NodeTypes, NewQueue, Idle, Locals, Labels
<1>5. Types
  BY <1>1, <1>2, <1>4 DEF Types, QTypes, NodeTypes
<1>6. q.head = x /\ q.tail = x /\ q.live /\ node[x].next = NULL
  BY <1>1 DEF NewQueue
<1>7. PICK r : r = [i \in 1..1 |-> x]
  BY Zenon
<1>8. r[1] = x /\ r \in [1..1 -> Node]
  BY <1>7
<1>9. IsChain(1, r)
  BY <1>1, <1>6, <1>8 DEF IsChain, Linked
<1>10. \A t \in Caller : loc[t] = Idle /\ loc[t].pc = "idle"
  BY <1>2 DEF Idle
<1>11. \A t \in Caller : Knows(t, 1, r)
  BY <1>10, Zenon DEF Knows, Unlinked, Unfreed, PushKnows, PopKnows, EmptyKnows, StillKnows,
     Pushing, HoldsTail, HoldsHead, LoopStart
<1>12. Owners
  BY <1>10 DEF Owners, Pushing
<1>13. Contents = <<>>
  BY <1>9, EmptyIs DEF IsChain
<1> QED BY <1>5, <1>6, <1>9, <1>10, <1>11, <1>12, <1>13 DEF IInv, Coherent

\* What every step does, to the invariant and to the abstract queue.
Queued == IF q.live THEN Contents ELSE <<>>

LEMMA CallStep ==
  ASSUME ContentsLaw, ContentsLaw',
         ReuseHeld = FALSE, IInv, q.live, NEW t \in Caller, Push(t) \/ Pop(t) \/ IsEmpty(t), Moves
  PROVE  /\ Kept
         /\ \/ Contents' = Contents /\ Results' = Results
            \/ \E v \in Value : Contents' = Append(Contents, v) /\ Results' = Results
            \/ /\ Contents # <<>> /\ Results[t] = NULL /\ Contents' = Tail(Contents)
               /\ Results' = [Results EXCEPT ![t] = Head(Contents)]
            \/ Contents' = Contents /\ Results' = [Results EXCEPT ![t] = NULL]
<1>1. PICK m, s : Types /\ Coherent(m, s)
  BY DEF IInv
<1>2. CASE Push(t)
  <2>1. Results' = Results
    BY <1>1, <1>2, SilentPush
  <2>2. Kept /\ (Contents' = Contents \/ \E v \in Value : Contents' = Append(Contents, v))
    <3>1. CASE \E v \in Value : PushAlloc(t, v)
      BY <1>1, <3>1, PushAllocStep, Zenon
    <3>2. CASE PushTail(t)
      BY <1>1, <3>2, PushTailStep
    <3>3. CASE PushNext(t)
      BY <1>1, <3>3, PushNextStep
    <3>4. CASE PushCheck(t)
      BY <1>1, <3>4, PushCheckStep
    <3>5. CASE PushLink(t)
      BY <1>1, <3>5, PushLinkStep
    <3>6. CASE PushHelp(t)
      BY <1>1, <3>6, PushHelpStep
    <3>7. CASE PushSwing(t)
      BY <1>1, <3>7, PushSwingStep
    <3>8. CASE PushLen(t)
      BY <1>1, <3>8, PushLenStep
    <3> QED BY <1>2, <3>1, <3>2, <3>3, <3>4, <3>5, <3>6, <3>7, <3>8 DEF Push
  <2> QED BY <2>1, <2>2
<1>3. CASE IsEmpty(t)
  <2>1. Results' = Results
    BY <1>1, <1>3, SilentEmpty
  <2>2. Kept /\ Contents' = Contents
    <3>1. CASE EmptyHead(t, "idle", "empty_tail")
      BY <1>1, <3>1, EmptyHeadStep
    <3>2. CASE EmptyHead(t, "empty_again", "empty_next")
      BY <1>1, <3>2, EmptyHeadStep
    <3>3. CASE EmptyTail(t)
      BY <1>1, <3>3, EmptyTailStep
    <3>4. CASE EmptyNext(t)
      BY <1>1, <3>4, EmptyNextStep
    <3> QED BY <1>3, <3>1, <3>2, <3>3, <3>4 DEF IsEmpty
  <2> QED BY <2>1, <2>2
<1>4. CASE Pop(t)
  <2>1. \/ ~PopLen(t) /\ ~(PopCas(t) /\ q.head = loc[t].head) /\ Results' = Results
        \/ /\ PopCas(t) /\ q.head = loc[t].head /\ Results[t] = NULL
           /\ Results' = [Results EXCEPT ![t] = loc[t].ret]
        \/ PopLen(t) /\ Results' = [Results EXCEPT ![t] = NULL]
    BY <1>1, <1>4, PopResults
  <2>2. CASE PopCas(t)
    <3>1. /\ Kept
          /\ q.head # loc[t].head => Contents' = Contents
          /\ q.head = loc[t].head =>
               Contents # <<>> /\ loc[t].ret = Head(Contents) /\ Contents' = Tail(Contents)
      BY <1>1, <2>2, PopCasStep
    <3>2. ~PopLen(t)
      BY <2>2 DEF PopLen, PopCas, At
    <3> QED BY <2>1, <2>2, <3>1, <3>2, Zenon
  <2>3. CASE ~PopCas(t)
    <3>1. Kept /\ Contents' = Contents
      <4>1. CASE PopHead(t)
        BY <1>1, <4>1, PopHeadStep
      <4>2. CASE PopTail(t)
        BY <1>1, <4>2, PopTailStep
      <4>3. CASE PopNext(t)
        BY <1>1, <4>3, PopNextStep
      <4>4. CASE PopCheck(t)
        BY <1>1, <4>4, PopCheckStep
      <4>5. CASE PopHelp(t)
        BY <1>1, <4>5, PopHelpStep
      <4>6. CASE PopValue(t)
        BY <1>1, <4>6, PopValueStep
      <4>7. CASE PopFree(t)
        BY <1>1, <4>7, PopFreeStep
      <4>8. CASE PopLen(t)
        BY <1>1, <4>8, PopLenStep
      <4> QED BY <1>4, <2>3, <4>1, <4>2, <4>3, <4>4, <4>5, <4>6, <4>7, <4>8 DEF Pop
    <3> QED BY <2>1, <2>3, <3>1, Zenon
  <2> QED BY <2>2, <2>3
<1> QED BY <1>2, <1>3, <1>4

\* The operations need a queue.
LEMMA CallLive ==
  ASSUME NEW t \in Caller, Push(t) \/ Pop(t) \/ IsEmpty(t)
  PROVE  q.live
<1>1. CASE Push(t)
  BY <1>1, Zenon DEF Push, PushAlloc, PushTail, PushNext, PushCheck, PushLink, PushHelp,
     PushSwing, PushLen, At
<1>2. CASE Pop(t)
  BY <1>2 DEF Pop, PopHead, PopTail, PopNext, PopCheck, PopHelp, PopValue, PopCas, PopFree,
     PopLen, At
<1>3. CASE IsEmpty(t)
  BY <1>3 DEF IsEmpty, EmptyHead, EmptyTail, EmptyNext, At
<1> QED BY <1>1, <1>2, <1>3

\* The invariant with a queue.
LEMMA KeptInv ==
  ASSUME Kept
  PROVE  IInv'
  BY DEF Kept, IInv

\* The invariant only speaks of the variables.
LEMMA StutterInv ==
  ASSUME IInv, UNCHANGED vars
  PROVE  IInv'
<1>1. node' = node /\ alloc' = alloc /\ q' = q /\ loc' = loc /\ seen' = seen /\ moved' = moved
  BY DEF vars
<1>2. Types'
  BY <1>1 DEF IInv, Types
<1>3. ASSUME NEW m, NEW s, Coherent(m, s) PROVE Coherent(m, s)'
  <2>1. IsChain(m, s)' /\ Owners'
    BY <1>1, <1>3 DEF Coherent, IsChain, Linked, Owners
  <2>2. ASSUME NEW t \in Caller PROVE Knows(t, m, s)'
    <3>1. Knows(t, m, s)
      BY <1>3 DEF Coherent
    <3>2. Unlinked(t, m, s)' /\ Unfreed(t, m, s)' /\ PushKnows(t)' /\ EmptyKnows(t)'
      BY <1>1, <3>1, Zenon DEF Knows, Unlinked, Unfreed, PushKnows, EmptyKnows
    <3>3. PopKnows(t, m, s)' /\ StillKnows(t)'
      BY <1>1, <3>1, Zenon DEF Knows, PopKnows, StillKnows
    <3> QED BY <3>2, <3>3 DEF Knows
  <2> QED BY <2>1, <2>2 DEF Coherent
<1> QED BY <1>1, <1>2, <1>3 DEF IInv

\* Every step keeps the invariant.
LEMMA NextInv ==
  ASSUME ContentsLaw, ContentsLaw', ReuseHeld = FALSE, IInv, [Next]_vars
  PROVE  IInv'
<1>1. ASSUME NEW t \in Caller, Push(t) \/ Pop(t) \/ IsEmpty(t), Moves PROVE IInv'
  BY <1>1, CallLive, CallStep, KeptInv, Zenon
<1>2. CASE Create /\ Moves
  BY <1>2, CreateStep, KeptInv, Zenon DEF IInv, Create
<1>3. CASE Delete /\ Moves
  BY <1>3, DeleteStep DEF IInv
<1>4. CASE UNCHANGED vars
  BY <1>4, StutterInv
<1> QED BY <1>1, <1>2, <1>3, <1>4 DEF Next

\* Every step is a push, a pop, a return or a clear of the abstract queue, or
\* leaves it alone.
LEMMA NextRefines ==
  ASSUME ContentsLaw, ContentsLaw', ReuseHeld = FALSE, IInv, [Next]_vars
  PROVE  [Abstract!Next]_(Abstract!vars)
<1> USE DEF Queued, Results, Popped
<1>1. /\ Queued = IF q.live THEN Contents ELSE <<>>
      /\ Queued' = IF q.live' THEN Contents' ELSE <<>>
  OBVIOUS
<1>2. SUFFICES \/ Queued' = Queued /\ Results' = Results
               \/ \E v \in Value : Queued' = Append(Queued, v) /\ Results' = Results
               \/ \E t \in Caller : /\ Queued # <<>> /\ Results[t] = NULL
                                    /\ Results' = [Results EXCEPT ![t] = Head(Queued)]
                                    /\ Queued' = Tail(Queued)
               \/ \E t \in Caller : Queued' = Queued /\ Results' = [Results EXCEPT ![t] = NULL]
               \/ Queued' = <<>> /\ Results' = Results
  BY Zenon DEF Abstract!Next, Abstract!vars, Abstract!Push, Abstract!Pop, Abstract!Return,
     Abstract!Clear
<1> HIDE DEF Queued, Results, Popped
<1>3. ASSUME NEW t \in Caller, Push(t) \/ Pop(t) \/ IsEmpty(t), Moves
      PROVE  \/ Queued' = Queued /\ Results' = Results
             \/ \E v \in Value : Queued' = Append(Queued, v) /\ Results' = Results
             \/ /\ Queued # <<>> /\ Results[t] = NULL
                /\ Results' = [Results EXCEPT ![t] = Head(Queued)]
                /\ Queued' = Tail(Queued)
             \/ Queued' = Queued /\ Results' = [Results EXCEPT ![t] = NULL]
  <2>1. q.live
    BY <1>3, CallLive
  <2>2. /\ Kept
        /\ \/ Contents' = Contents /\ Results' = Results
           \/ \E v \in Value : Contents' = Append(Contents, v) /\ Results' = Results
           \/ /\ Contents # <<>> /\ Results[t] = NULL /\ Contents' = Tail(Contents)
              /\ Results' = [Results EXCEPT ![t] = Head(Contents)]
           \/ Contents' = Contents /\ Results' = [Results EXCEPT ![t] = NULL]
    BY <1>3, <2>1, CallStep, Zenon
  <2>3. Queued = Contents /\ Queued' = Contents'
    BY <1>1, <2>1, <2>2 DEF Kept
  <2> QED BY <2>2, <2>3, Zenon
<1>4. CASE Create /\ Moves
  <2>1. Contents' = <<>> /\ q.live' /\ ~q.live /\ loc' = loc
    BY <1>4, CreateStep, Zenon DEF IInv, Create, Kept
  <2> QED BY <1>1, <2>1 DEF Results
<1>5. CASE Delete /\ Moves
  <2>1. ~q.live' /\ loc' = loc
    BY <1>5, DeleteStep DEF IInv, Delete
  <2> QED BY <1>1, <2>1 DEF Results
<1>6. CASE UNCHANGED vars
  <2>1. Contents' = Contents /\ q' = q /\ loc' = loc
    BY <1>6 DEF vars, Contents, ChainNodes, Chain
  <2> QED BY <1>1, <2>1 DEF Results
<1> QED BY <1>3, <1>4, <1>5, <1>6 DEF Next

-----------------------------------------------------------------------------
\* What the recursion in Chain computes.
INSTANCE FiniteSetTheorems

\* A set of naturals that is not empty has a least element.
LEMMA LeastNat ==
  ASSUME NEW T, T \subseteq Nat, T # {}
  PROVE  \E x \in T : \A y \in T : x <= y
<1>1. PICK x \in T : \A y \in T : ~(<<y, x>> \in OpToRel(<, Nat))
  BY NatLessThanWellFounded, WFMin, Zenon
<1>2. ASSUME NEW y \in T PROVE x <= y
  <2>1. x \in Nat /\ y \in Nat
    OBVIOUS
  <2>2. ~(y < x)
    BY <1>1, <2>1, Zenon DEF OpToRel
  <2> QED  BY <2>1, <2>2
<1> QED  BY <1>2

Reached(m, s) == [k \in 0..Cardinality(Node) |-> IF k < m THEN s[k + 1] ELSE NULL]

\* The recursion has one solution.
LEMMA ChainIs ==
  ASSUME NEW m, NEW s, Linked(m, s)
  PROVE  Chain = Reached(m, s)
<1> DEFINE g == Reached(m, s)
           N == Cardinality(Node)
           e(f) == [k \in 0..N |-> IF k = 0 THEN q.head
                                   ELSE IF f[k - 1] \in Node THEN node[f[k - 1]].next ELSE NULL]
<1>1. N \in Nat
  BY QueueAssumption, FS_CardinalityType
<1>2. g = e(g)
  <2>0. m \in Nat /\ m >= 1 /\ \A i \in 1..m : s[i] \in Node
    BY DEF Linked
  <2>1. ASSUME NEW k \in 0..N PROVE g[k] = e(g)[k]
    <3>1. CASE k = 0
      BY <1>1, <2>0, <3>1 DEF Reached, Linked
    <3>2. CASE k # 0
      <4>1. k - 1 \in 0..N
        BY <1>1, <3>2
      <4>2. CASE k < m
        <5>1. g[k - 1] = s[k] /\ g[k] = s[k + 1] /\ s[k] \in Node /\ node[s[k]].next = s[k + 1]
          BY <1>1, <2>0, <3>2, <4>1, <4>2 DEF Reached, Linked
        <5> QED BY <3>2, <5>1
      <4>3. CASE k = m
        <5>1. g[k - 1] = s[k] /\ g[k] = NULL /\ s[k] \in Node /\ node[s[k]].next = NULL
          BY <1>1, <2>0, <3>2, <4>1, <4>3 DEF Reached, Linked
        <5> QED BY <3>2, <5>1
      <4>4. CASE k > m
        <5>1. g[k - 1] = NULL /\ g[k] = NULL
          BY <1>1, <2>0, <3>2, <4>1, <4>4 DEF Reached
        <5> QED BY <3>2, <5>1, QueueAssumption
      <4> QED BY <1>1, <2>0, <4>2, <4>3, <4>4
    <3> QED BY <3>1, <3>2
  <2> QED BY <2>1, Zenon DEF Reached
<1>3. Chain = e(Chain)
  <2>1. Chain = CHOOSE f : f = e(f)
    BY DEF Chain
  <2> QED BY <1>2, <2>1, Zenon
<1>4. ASSUME NEW k \in 0..N, Chain[k] # g[k] PROVE FALSE
  <2> DEFINE T == {j \in 0..N : Chain[j] # g[j]}
  <2>1. T \subseteq Nat /\ T # {}
    BY <1>1, <1>4
  <2>2. PICK x \in T : \A y \in T : x <= y
    BY <2>1, LeastNat, Zenon
  <2>3. x \in 0..N /\ Chain[x] = e(Chain)[x] /\ g[x] = e(g)[x]
    BY <1>2, <1>3, Zenon
  <2>4. CASE x = 0
    BY <2>3, <2>4
  <2>5. CASE x # 0
    <3>1. x - 1 \in 0..N /\ x - 1 \notin T
      BY <1>1, <2>1, <2>2, <2>5
    <3>2. Chain[x - 1] = g[x - 1]
      BY <3>1
    <3> HIDE DEF g
    <3> QED BY <2>3, <2>5, <3>2
  <2> QED BY <2>4, <2>5
<1>5. Chain = [k \in 0..N |-> Chain[k]]
  BY <1>3, Zenon
<1> QED BY <1>4, <1>5, Zenon DEF Reached

\* A chain is no longer than there are nodes.
LEMMA ChainFits ==
  ASSUME NEW m, NEW s, Linked(m, s)
  PROVE  /\ Cardinality(Node) \in Nat /\ m \in Nat /\ m >= 1
         /\ m <= Cardinality(Node)
         /\ Cardinality({s[i] : i \in 1..m}) = m
<1> DEFINE R == {s[i] : i \in 1..m}
<1>1. m \in Nat /\ m >= 1 /\ s \in [1..m -> Node]
  BY DEF Linked
<1>2. s \in [1..m -> R] /\ \A i, j \in 1..m : s[i] = s[j] => i = j
  BY <1>1 DEF Linked
<1>3. IsFiniteSet(1..m) /\ Cardinality(1..m) = m
  BY <1>1, FS_Interval
<1>4. s \in Injection(1..m, Node)
  BY <1>1, <1>2 DEF Injection, IsInjective
<1>5. s \in Bijection(1..m, R)
  BY <1>2 DEF Bijection, Injection, IsInjective, Surjection
<1>6. Cardinality(R) = m
  <2> HIDE DEF R
  <2> QED BY <1>3, <1>5, FS_Bijection DEF ExistsBijection
<1>7. Cardinality(1..m) <= Cardinality(Node)
  BY <1>4, QueueAssumption, FS_Injection
<1>8. Cardinality(Node) \in Nat
  BY QueueAssumption, FS_CardinalityType
<1> QED BY <1>1, <1>3, <1>6, <1>7, <1>8

\* The values queued are those of the nodes after the head.
LEMMA ContentsAre ==
  ASSUME NEW m, NEW s, Linked(m, s)
  PROVE  /\ ChainNodes = {s[i] : i \in 1..m}
         /\ Contents = [k \in 1..m - 1 |-> node[s[k + 1]].p]
<1> DEFINE N == Cardinality(Node)
<1>1. N \in Nat /\ m \in Nat /\ m >= 1 /\ m <= N
  BY ChainFits, Zenon
<1>2. \A i \in 1..m : s[i] \in Node
  BY DEF Linked
<1>3. /\ DOMAIN Chain = 0..N
      /\ \A k \in 0..N : Chain[k] = IF k < m THEN s[k + 1] ELSE NULL
  BY ChainIs, Zenon DEF Reached
<1>4. ChainNodes = {s[i] : i \in 1..m}
  <2>1. ASSUME NEW x \in ChainNodes PROVE x \in {s[i] : i \in 1..m}
    <3>1. PICK k \in 0..N : x = Chain[k] /\ x \in Node
      BY <1>3 DEF ChainNodes
    <3>2. k < m
      <4>1. Chain[k] # NULL
        BY <3>1, QueueAssumption
      <4> QED BY <1>3, <4>1, Zenon
    <3>3. k + 1 \in 1..m /\ x = s[k + 1]
      BY <1>1, <1>3, <3>1, <3>2
    <3> QED BY <3>3
  <2>2. ASSUME NEW i \in 1..m PROVE s[i] \in ChainNodes
    <3> DEFINE k == i - 1
    <3>1. k \in 0..N /\ k < m /\ k + 1 = i
      BY <1>1
    <3>2. Chain[k] = s[k + 1]
      <4> HIDE DEF k
      <4> QED BY <1>3, <3>1
    <3> HIDE DEF k
    <3> QED BY <1>2, <1>3, <3>1, <3>2 DEF ChainNodes
  <2> QED BY <2>1, <2>2
<1>5. ASSUME NEW k \in 1..m - 1 PROVE Chain[k] = s[k + 1]
  <2>1. k \in 0..N /\ k < m
    BY <1>1
  <2> QED BY <1>3, <2>1
<1>6. Contents = [k \in 1..m - 1 |-> node[Chain[k]].p]
  BY <1>4, ChainFits DEF Contents
<1> QED BY <1>4, <1>5, <1>6, Zenon

LEMMA ContentsNow == ContentsLaw
  BY ContentsAre DEF ContentsLaw

LEMMA ContentsThen == ContentsLaw'
  BY ContentsNow, PTL

-----------------------------------------------------------------------------
\* The invariant holds throughout.
LEMMA InvHolds ==
  ASSUME ReuseHeld = FALSE
  PROVE  Spec => []IInv
<1>1. Init => IInv
  BY InitInv, ContentsNow
<1>2. IInv /\ [Next]_vars => IInv'
  BY NextInv, ContentsNow, ContentsThen, Zenon
<1> QED BY <1>1, <1>2, PTL DEF Spec

\* Any number of callers: queue_push and queue_pop take effect at one instant
\* each, a push when its node is linked (queue.c:85) and a pop when the head is
\* swapped (queue.c:120), in first-in first-out order and with the value that was
\* at the front, although every caller works on copies of head, tail and next that
\* may be stale, and the old head is freed at once.
THEOREM QueueIsFifo ==
  ASSUME ReuseHeld = FALSE
  PROVE  Spec => Linearizable
<1>1. Init => Abstract!Init
  <2> SUFFICES ASSUME Init PROVE Abstract!Init
    OBVIOUS
  <2>1. q.live /\ Contents = <<>> /\ \A t \in Caller : loc[t].pc = "idle"
    BY InitInv, ContentsNow DEF Idle
  <2> QED BY <2>1 DEF Abstract!Init
<1>2. IInv /\ [Next]_vars => [Abstract!Next]_(Abstract!vars)
  BY NextRefines, ContentsNow, ContentsThen, Zenon
<1> QED BY <1>1, <1>2, InvHolds, PTL DEF Spec, Linearizable, Abstract!Spec

\* Any number of callers: queue_pop returns 0 only if the queue was empty at some
\* moment of the call (queue.c:113), and queue_empty, which reads head, tail, head
\* and next one after the other (queue.c:138), gives no answer that was wrong
\* throughout the call.
THEOREM AnswersAreTrue ==
  ASSUME ReuseHeld = FALSE
  PROVE  Spec => []EmptyAnswersTrue
<1>1. IInv => EmptyAnswersTrue
  <2> SUFFICES ASSUME IInv, NEW t \in Caller
               PROVE  LET during == seen[t] \cup {Contents = <<>>}
                      IN  /\ AnswersEmpty(t) => TRUE \in during
                          /\ At(t, "empty_tail") /\ loc[t].head # q.tail => FALSE \in during
                          /\ At(t, "empty_next") => (node[loc[t].head].next = NULL) \in during
    BY Zenon DEF EmptyAnswersTrue
  <2>1. CASE ~q.live
    BY <2>1, Zenon DEF AnswersEmpty, At
  <2>2. CASE q.live
    <3>1. PICK m, s : IsChain(m, s) /\ Knows(t, m, s)
      BY <2>2 DEF IInv, Coherent
    <3>2. Contents = <<>> <=> m = 1
      BY <3>1, EmptyIs, ContentsNow DEF IsChain
    <3>3. AnswersEmpty(t) => TRUE \in seen[t]
      BY <3>1, Zenon DEF AnswersEmpty, At, Knows, PopKnows
    <3>4. At(t, "empty_tail") /\ loc[t].head # q.tail => FALSE \in seen[t] \/ Contents # <<>>
      <4>1. q.head # q.tail => m # 1
        BY <3>1, ChainFacts
      <4> QED BY <3>1, <3>2, <4>1, Zenon DEF At, Knows, EmptyKnows
    <3>5. At(t, "empty_next") =>
            \/ FALSE \in seen[t] /\ node[loc[t].head].next # NULL
            \/ (node[loc[t].head].next = NULL <=> Contents = <<>>)
      <4>1. node[q.head].next = NULL <=> m = 1
        BY <3>1, ChainFacts
      <4> QED BY <3>1, <3>2, <4>1, Zenon DEF At, Knows, EmptyKnows
    <3> QED BY <3>3, <3>4, <3>5, Zenon
  <2> QED BY <2>1, <2>2, Zenon
<1> QED BY <1>1, InvHolds, PTL

\* Any number of callers: the nodes that the queue reaches are allocated, and
\* queue_pop reads a value (queue.c:119) only through a pointer that a push wrote,
\* although it may have read the pointer from a node that was freed (queue.c:109,
\* 127).
THEOREM PointersAreTame ==
  ASSUME ReuseHeld = FALSE
  PROVE  Spec => []NoWildPointer
<1>1. IInv => NoWildPointer
  <2> SUFFICES ASSUME IInv PROVE NoWildPointer
    OBVIOUS
  <2>1. CASE ~q.live
    BY <2>1 DEF NoWildPointer, At
  <2>2. CASE q.live
    <3>1. PICK m, s : IsChain(m, s) /\ \A t \in Caller : Knows(t, m, s)
      BY <2>2 DEF IInv, Coherent
    <3>2. ChainNodes = {s[i] : i \in 1..m}
      BY <3>1, ContentsAre DEF IsChain
    <3>3. ChainNodes \cup {q.tail} \subseteq alloc
      <4>1. /\ \A i \in 1..m : s[i] \in alloc
            /\ \E i \in 1..m : s[i] = q.tail
        BY <3>1, ChainFacts, SMTT(30) DEF On
      <4> QED BY <3>2, <4>1
    <3>4. \A t \in Caller : At(t, "pop_value") => loc[t].next \in Node
      BY <3>1, Zenon DEF At, Knows, PopKnows
    <3> QED BY <3>3, <3>4 DEF NoWildPointer
  <2> QED BY <2>1, <2>2
<1> QED BY <1>1, InvHolds, PTL

\* Any number of callers: a loop of queue_push (queue.c:80) or queue_pop
\* (queue.c:106) is repeated only if the head, the tail or the contents changed
\* during the turn, so that a caller stopped anywhere keeps nobody from finishing.
THEOREM LoopsOnlyIfMoved ==
  ASSUME ReuseHeld = FALSE
  PROVE  Spec => []LockFree
<1>1. IInv => LockFree
  <2> SUFFICES ASSUME IInv, NEW t \in Caller PROVE LoopStart(loc[t]) => moved[t]
    BY DEF LockFree
  <2>1. CASE ~q.live
    BY <2>1 DEF IInv, LoopStart, Idle
  <2>2. CASE q.live
    BY <2>2 DEF IInv, Coherent, Knows, StillKnows
  <2> QED BY <2>1, <2>2
<1> QED BY <1>1, InvHolds, PTL
=============================================================================
