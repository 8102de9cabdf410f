------------------------------- MODULE MSQueue -------------------------------
(***************************************************************************)
(* queue.c: the lock-free queue behind the ready queue, the zombie queue   *)
(* and every semaphore's wait queue, at the grain of its shared-memory     *)
(* accesses.  queue_pop frees the old head at once, so another caller may  *)
(* still hold its address; ReuseHeld says whether malloc may hand out such *)
(* an address while an operation holds it (the kernel's heap does).        *)
(***************************************************************************)
EXTENDS Integers, Sequences, FiniteSets

CONSTANTS Caller, Value, Node, NULL, Junk, ReuseHeld,
          WordSize   \* the number of values of a size_t

ASSUME QueueAssumption ==
  /\ NULL \notin Node /\ Junk \notin Node \cup {NULL} /\ ReuseHeld \in BOOLEAN
  /\ IsFiniteSet(Node) /\ WordSize \in Nat \ {0} /\ WordSize > Cardinality(Node)

VARIABLES
  node,    \* the memory of each node: p and next
  alloc,   \* the nodes malloc has handed out
  q,       \* struct queue, and whether it is between create and delete
  loc,     \* each caller's position and local variables
  seen,    \* whether the queue was empty, or not, since the caller's call
  moved    \* whether the queue has changed since the caller began its loop

vars == <<node, alloc, q, loc, seen, moved>>

\* The k-th node after the head, while there is one.
Chain ==
  LET f[k \in 0..Cardinality(Node)] ==
        IF k = 0 THEN q.head
        ELSE IF f[k - 1] \in Node THEN node[f[k - 1]].next ELSE NULL
  IN  f

ChainNodes == {Chain[k] : k \in DOMAIN Chain} \cap Node

Contents == [k \in 1..(Cardinality(ChainNodes) - 1) |-> node[Chain[k]].p]

Held == UNION {{loc[t].head, loc[t].tail, loc[t].next} : t \in Caller}

\* The addresses malloc may return.
Fresh == Node \ (alloc \cup IF ReuseHeld THEN {} ELSE Held)

\* Between calls the local variables are dead.
Idle == [pc |-> "idle", n |-> NULL, head |-> NULL, tail |-> NULL,
         next |-> NULL, ret |-> NULL]

At(t, label) == q.live /\ loc[t].pc = label

\* Caller t takes a step to the local state l; every caller inside a call
\* notes whether the queue is empty.
Go(t, l) ==
  /\ loc' = [loc EXCEPT ![t] = l]
  /\ seen' = [u \in Caller |-> IF loc[u] = Idle \/ (u = t /\ l = Idle) THEN {}
                               ELSE seen[u] \cup {Contents = <<>>}]

\* create_queue: a base node that carries no value.
NewQueue(x) == [head |-> x, tail |-> x, base |-> x, len |-> 0, live |-> TRUE]

Init ==
  /\ \E x \in Node :
       /\ q = NewQueue(x) /\ alloc = {x}
       /\ node = [y \in Node |-> [p |-> Junk, next |-> IF y = x THEN NULL ELSE Junk]]
  /\ loc = [t \in Caller |-> Idle]
  /\ seen = [t \in Caller |-> {}] /\ moved = [t \in Caller |-> FALSE]

Create ==
  /\ ~q.live
  /\ \E x \in Fresh : /\ q' = NewQueue(x) /\ alloc' = alloc \cup {x}
                      /\ node' = [node EXCEPT ![x] = [p |-> Junk, next |-> NULL]]
  /\ UNCHANGED <<loc, seen>>

\* What delete_queue frees: the chain, and the base if the chain lacks it.
Deleted == ChainNodes \cup {q.base}

Delete ==
  /\ q.live /\ \A t \in Caller : loc[t] = Idle
  /\ q' = [q EXCEPT !.live = FALSE] /\ alloc' = alloc \ Deleted
  /\ UNCHANGED <<node, loc, seen>>

\* Compare-and-swap of q->tail, result ignored.
SwingTail(from, to) == q' = [q EXCEPT !.tail = IF @ = from THEN to ELSE @]

-----------------------------------------------------------------------------
\* queue_push
PushAlloc(t, v) ==
  /\ At(t, "idle")
  /\ \E x \in Fresh :
       /\ alloc' = alloc \cup {x}
       /\ node' = [node EXCEPT ![x] = [p |-> v, next |-> NULL]]
       /\ Go(t, [Idle EXCEPT !.pc = "push_tail", !.n = x])
  /\ UNCHANGED q

PushTail(t) ==
  /\ At(t, "push_tail")
  /\ Go(t, [Idle EXCEPT !.pc = "push_next", !.n = loc[t].n, !.tail = q.tail])
  /\ UNCHANGED <<node, alloc, q>>

PushNext(t) ==
  /\ At(t, "push_next")
  /\ Go(t, [loc[t] EXCEPT !.pc = "push_check", !.next = node[loc[t].tail].next])
  /\ UNCHANGED <<node, alloc, q>>

PushCheck(t) ==
  /\ At(t, "push_check")
  /\ Go(t, [loc[t] EXCEPT !.pc = IF loc[t].tail # q.tail THEN "push_tail"
                                 ELSE IF loc[t].next = NULL THEN "push_link"
                                 ELSE "push_help"])
  /\ UNCHANGED <<node, alloc, q>>

\* Mutant: the link is a plain store.
PushLink_Blind(t) ==
  /\ At(t, "push_link")
  /\ node' = [node EXCEPT ![loc[t].tail].next = loc[t].n]
  /\ Go(t, [loc[t] EXCEPT !.pc = "push_swing"])
  /\ UNCHANGED <<alloc, q>>

PushLink(t) ==
  LET won == node[loc[t].tail].next = NULL
  IN  /\ At(t, "push_link")
      /\ node' = IF won THEN [node EXCEPT ![loc[t].tail].next = loc[t].n] ELSE node
      /\ Go(t, [loc[t] EXCEPT !.pc = IF won THEN "push_swing" ELSE "push_tail"])
      /\ UNCHANGED <<alloc, q>>

\* Mutant: the loop waits for the caller that linked the node to swing the tail.
PushHelp_Missing(t) ==
  /\ At(t, "push_help")
  /\ Go(t, [loc[t] EXCEPT !.pc = "push_tail"])
  /\ UNCHANGED <<node, alloc, q>>

PushHelp(t) ==
  /\ At(t, "push_help") /\ SwingTail(loc[t].tail, loc[t].next)
  /\ Go(t, [loc[t] EXCEPT !.pc = "push_tail"])
  /\ UNCHANGED <<node, alloc>>

PushSwing(t) ==
  /\ At(t, "push_swing") /\ SwingTail(loc[t].tail, loc[t].n)
  /\ Go(t, [Idle EXCEPT !.pc = "push_len"])
  /\ UNCHANGED <<node, alloc>>

PushLen(t) ==
  /\ At(t, "push_len") /\ q' = [q EXCEPT !.len = (@ + 1) % WordSize]
  /\ Go(t, Idle)
  /\ UNCHANGED <<node, alloc>>

-----------------------------------------------------------------------------
\* queue_pop
PopHead(t) ==
  /\ At(t, "idle") \/ At(t, "pop_head")
  /\ Go(t, [Idle EXCEPT !.pc = "pop_tail", !.head = q.head])
  /\ UNCHANGED <<node, alloc, q>>

PopTail(t) ==
  /\ At(t, "pop_tail")
  /\ Go(t, [loc[t] EXCEPT !.pc = "pop_next", !.tail = q.tail])
  /\ UNCHANGED <<node, alloc, q>>

PopNext(t) ==
  /\ At(t, "pop_next")
  /\ Go(t, [loc[t] EXCEPT !.pc = "pop_check", !.next = node[loc[t].head].next])
  /\ UNCHANGED <<node, alloc, q>>

\* Mutant: head = tail is taken for an empty queue.
AnswersEmpty_TailOnly(t) ==
  At(t, "pop_check") /\ loc[t].head = q.head /\ loc[t].head = loc[t].tail

\* The pop is about to return 0.
AnswersEmpty(t) ==
  /\ At(t, "pop_check") /\ loc[t].head = q.head
  /\ loc[t].head = loc[t].tail /\ loc[t].next = NULL

\* Mutant: q->head is not read again.
PopCheck_NoRecheck(t) ==
  /\ At(t, "pop_check")
  /\ Go(t, IF AnswersEmpty(t) THEN Idle
           ELSE [loc[t] EXCEPT !.pc = IF loc[t].head = loc[t].tail THEN "pop_help"
                                      ELSE "pop_value"])
  /\ UNCHANGED <<node, alloc, q>>

PopCheck(t) ==
  /\ At(t, "pop_check")
  /\ Go(t, IF AnswersEmpty(t) THEN Idle
           ELSE [loc[t] EXCEPT !.pc = IF loc[t].head # q.head THEN "pop_head"
                                      ELSE IF loc[t].head = loc[t].tail THEN "pop_help"
                                      ELSE "pop_value"])
  /\ UNCHANGED <<node, alloc, q>>

PopHelp(t) ==
  /\ At(t, "pop_help") /\ SwingTail(loc[t].tail, loc[t].next)
  /\ Go(t, [loc[t] EXCEPT !.pc = "pop_head"])
  /\ UNCHANGED <<node, alloc>>

PopValue(t) ==
  /\ At(t, "pop_value") /\ loc[t].next \in Node
  /\ Go(t, [loc[t] EXCEPT !.pc = "pop_cas", !.ret = node[loc[t].next].p])
  /\ UNCHANGED <<node, alloc, q>>

PopCas(t) ==
  LET won == q.head = loc[t].head
  IN  /\ At(t, "pop_cas")
      /\ q' = [q EXCEPT !.head = IF won THEN loc[t].next ELSE @]
      /\ Go(t, [loc[t] EXCEPT !.pc = IF won THEN "pop_free" ELSE "pop_head"])
      /\ UNCHANGED <<node, alloc>>

\* free(head): the heap may write its own links over the two words.
PopFree(t) ==
  /\ At(t, "pop_free")
  /\ alloc' = alloc \ {loc[t].head}
  /\ node' \in {node, [node EXCEPT ![loc[t].head] = [p |-> Junk, next |-> Junk]]}
  /\ Go(t, [Idle EXCEPT !.pc = "pop_len", !.ret = loc[t].ret])
  /\ UNCHANGED q

PopLen(t) ==
  /\ At(t, "pop_len") /\ q' = [q EXCEPT !.len = (@ - 1) % WordSize]
  /\ Go(t, Idle)
  /\ UNCHANGED <<node, alloc>>

-----------------------------------------------------------------------------
\* queue_empty reads the head twice, and the tail between the two.
EmptyHead(t, label, to) ==
  /\ At(t, label) /\ Go(t, [Idle EXCEPT !.pc = to, !.head = q.head])
  /\ UNCHANGED <<node, alloc, q>>

EmptyTail(t) ==
  /\ At(t, "empty_tail")
  /\ Go(t, IF loc[t].head = q.tail THEN [Idle EXCEPT !.pc = "empty_again"] ELSE Idle)
  /\ UNCHANGED <<node, alloc, q>>

EmptyNext(t) ==
  /\ At(t, "empty_next") /\ Go(t, Idle)
  /\ UNCHANGED <<node, alloc, q>>

Push(t) == \/ \E v \in Value : PushAlloc(t, v)
           \/ PushTail(t) \/ PushNext(t) \/ PushCheck(t) \/ PushLink(t)
           \/ PushHelp(t) \/ PushSwing(t) \/ PushLen(t)

Pop(t) == \/ PopHead(t) \/ PopTail(t) \/ PopNext(t) \/ PopCheck(t)
          \/ PopHelp(t) \/ PopValue(t) \/ PopCas(t) \/ PopFree(t) \/ PopLen(t)

IsEmpty(t) == \/ EmptyHead(t, "idle", "empty_tail") \/ EmptyTail(t)
              \/ EmptyHead(t, "empty_again", "empty_next") \/ EmptyNext(t)

\* The ghost: the first turn of a loop needs no reason, the next ones a change
\* of the head, the tail or the chain since the turn before.
LoopStart(l) == l.pc \in {"push_tail", "pop_head"}
Moves ==
  LET changed == <<q.head, q.tail, Contents>> # <<q.head, q.tail, Contents>>'
  IN  moved' = [t \in Caller |->
                  IF loc[t] = Idle THEN LoopStart(loc'[t])
                  ELSE IF loc'[t] = Idle \/ (LoopStart(loc[t]) /\ loc'[t] # loc[t]) THEN FALSE
                  ELSE moved[t] \/ changed]

Next == /\ \/ \E t \in Caller : Push(t) \/ Pop(t) \/ IsEmpty(t)
           \/ Create \/ Delete
        /\ Moves

Spec == Init /\ [][Next]_vars

-----------------------------------------------------------------------------
\* The type invariant: len is a size_t that wraps (queue.c:95, 129).
TypeOK ==
  /\ alloc \subseteq Node
  /\ node \in [Node -> [p : Value \cup {Junk}, next : Node \cup {NULL, Junk}]]
  /\ q \in [head : Node, tail : Node, base : Node, len : 0..WordSize - 1, live : BOOLEAN]
  /\ \A t \in Caller : /\ seen[t] \subseteq BOOLEAN
                       /\ loc[t].n \in Node \cup {NULL}
                       /\ {loc[t].head, loc[t].tail, loc[t].next} \subseteq Node \cup {NULL, Junk}

\* The values a queue_pop would return, in order, and the value each pop in
\* progress has taken.
Abstract ==
  INSTANCE Fifo WITH
    contents <- IF q.live THEN Contents ELSE <<>>,
    result <- [t \in Caller |->
                 IF loc[t].pc \in {"pop_free", "pop_len"} THEN loc[t].ret ELSE NULL]

\* queue_push and queue_pop take effect at one instant each, in FIFO order,
\* and a pop returns the value that was at the front (queue.c:85, 119, 120).
Linearizable == Abstract!Spec

\* A pop returns 0 only if the queue was empty at some moment of the call, and
\* queue_empty gives no answer that was wrong throughout the call.
EmptyAnswersTrue ==
  \A t \in Caller :
    LET during == seen[t] \cup {Contents = <<>>}
    IN  /\ AnswersEmpty(t) => TRUE \in during
        /\ At(t, "empty_tail") /\ loc[t].head # q.tail => FALSE \in during
        /\ At(t, "empty_next") => (node[loc[t].head].next = NULL) \in during

\* The nodes reachable from the queue are allocated, and no pop follows a
\* pointer that the heap wrote into a freed node.
NoWildPointer ==
  /\ q.live => ChainNodes \cup {q.tail} \subseteq alloc
  /\ \A t \in Caller : At(t, "pop_value") => loc[t].next \in Node

Quiet == q.live /\ \A t \in Caller : loc[t] = Idle

\* queue_push and queue_pop are lock-free: a loop is repeated only if the queue has
\* changed during the turn, so that, whoever is delayed at whatever point, the others
\* never repeat their loops for nothing (queue.c:80, 106).
LockFree == \A t \in Caller : LoopStart(loc[t]) => moved[t]

\* delete_queue frees only nodes that are allocated.
DeleteFreesAllocated == Quiet => Deleted \subseteq alloc
=============================================================================
