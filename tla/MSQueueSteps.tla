---------------------------- MODULE MSQueueSteps ----------------------------
(***************************************************************************)
(* The invariant of MSQueue, and the lemmas with which MSQueueProof shows  *)
(* that it is kept.                                                        *)
(*                                                                         *)
(* It says that there is a sequence of m nodes s from the head to the last *)
(* one, with the tail at the last node or the one before it, and what each *)
(* caller knows of it from its stale local copies: a node that was the     *)
(* head and is not any more has left the chain and has a successor, a tail *)
(* that was overtaken has a successor, and a copy that still equals the    *)
(* head or the tail tells the truth about its successor. This is what      *)
(* makes the compare-and-swaps succeed only when they are right.  A step   *)
(* changes the shared state in one of six ways; for each, one lemma shows  *)
(* what becomes of the chain and one what the other callers still know,    *)
(* and one lemma per action adds the acting caller. The lemmas on the      *)
(* steps of push are here, the others in MSQueueProof.                     *)
(***************************************************************************)
EXTENDS MSQueue, TLAPS

\* The nodes from s[1] to the end of the chain.
Linked(m, s) ==
  /\ m \in Nat /\ m >= 1 /\ s \in [1..m -> Node]
  /\ \A i, j \in 1..m : s[i] = s[j] => i = j
  /\ \A i \in 1..m - 1 : node[s[i]].next = s[i + 1]
  /\ node[s[m]].next = NULL
  /\ q.head = s[1]

\* The values queued are those of the nodes after the head.  ContentsLaw, which
\* lemma ContentsNow of MSQueueProof proves from the recursion in Chain, is a hypothesis of
\* the lemmas that speak of the contents.
ContentsLaw ==
  \A m, s : Linked(m, s) => Contents = [k \in 1..m - 1 |-> node[s[k + 1]].p]

\* The law, after a step.
LEMMA NextContents ==
  ASSUME ContentsLaw', NEW m, NEW s, Linked(m, s)'
  PROVE  Contents' = [k \in 1..m - 1 |-> node'[s[k + 1]].p]
  BY Zenon DEF ContentsLaw

\* An empty queue is a chain of one node.
LEMMA EmptyIs ==
  ASSUME ContentsLaw, NEW m, NEW s, Linked(m, s)
  PROVE  Contents = <<>> <=> m = 1
<1>1. m \in Nat /\ m >= 1
  BY DEF Linked
<1>2. Contents = [k \in 1..m - 1 |-> node[s[k + 1]].p]
  BY Zenon DEF ContentsLaw
<1>3. CASE m = 1
  BY <1>1, <1>2, <1>3
<1>4. CASE m > 1
  <2>1. 1 \in DOMAIN Contents
    BY <1>1, <1>2, <1>4
  <2>2. DOMAIN <<>> = {}
    OBVIOUS
  <2>3. Contents # <<>>
    BY <2>1, <2>2
  <2>4. m # 1
    BY <1>4
  <2> QED BY <2>3, <2>4, Zenon
<1> QED BY <1>1, <1>3, <1>4

\* A step that keeps the chain and its values keeps the contents.
LEMMA SameContents ==
  ASSUME ContentsLaw, ContentsLaw', NEW m, NEW s, Linked(m, s), Linked(m, s)',
         \A i \in 2..m : node'[s[i]].p = node[s[i]].p
  PROVE  Contents' = Contents
<1>1. Contents = [k \in 1..m - 1 |-> node[s[k + 1]].p]
  BY Zenon DEF ContentsLaw
<1>2. Contents' = [k \in 1..m - 1 |-> node'[s[k + 1]].p]
  BY Zenon DEF ContentsLaw
<1>3. m \in Nat
  BY DEF Linked
<1>4. \A k \in 1..m - 1 : node'[s[k + 1]].p = node[s[k + 1]].p
  BY <1>3
<1> QED BY <1>1, <1>2, <1>4, Zenon

\* A chain with one more node at the end holds one more value at the back.
LEMMA LongerContents ==
  ASSUME ContentsLaw, ContentsLaw',
         NEW m, NEW s, Linked(m, s), NEW n, NEW r, Linked(m + 1, r)', node[n].p \in Value,
         r[m + 1] = n, \A i \in 1..m : r[i] = s[i], node'[n].p = node[n].p,
         \A i \in 2..m : node'[s[i]].p = node[s[i]].p, \A i \in 2..m : node[s[i]].p \in Value
  PROVE  Contents' = Append(Contents, node[n].p)
<1>1. Contents = [k \in 1..m - 1 |-> node[s[k + 1]].p]
  BY Zenon DEF ContentsLaw
<1>2. Contents' = [k \in 1..(m + 1) - 1 |-> node'[r[k + 1]].p]
  BY NextContents
<1>3. m \in Nat /\ m >= 1
  BY DEF Linked
<1>4. /\ Contents \in Seq(Value) /\ Len(Contents) = m - 1
      /\ \A k \in 1..m - 1 : k + 1 \in 2..m /\ k + 1 \in 1..m
  BY <1>1, <1>3
<1>5. /\ \A k \in 1..m - 1 : node'[r[k + 1]].p = Contents[k]
      /\ node'[r[m + 1]].p = node[n].p
  BY <1>1, <1>3, <1>4
<1>6. Contents' \in Seq(Value) /\ Len(Contents') = m
  <2>1. (m + 1) - 1 = m /\ \A k \in 1..m : k = m \/ k \in 1..m - 1
    BY <1>3
  <2>2. \A k \in 1..m - 1 : Contents[k] \in Value
    BY <1>4
  <2>3. \A k \in 1..m : node'[r[k + 1]].p \in Value
    BY <1>5, <2>1, <2>2
  <2>4. Contents' = [k \in 1..m |-> node'[r[k + 1]].p]
    BY <1>2, <2>1, Zenon
  <2> QED BY <1>3, <2>3, <2>4
<1> QED BY <1>2, <1>3, <1>4, <1>5, <1>6

\* A chain without its first node holds the values after the front.
LEMMA ShorterContents ==
  ASSUME ContentsLaw, ContentsLaw', NEW m, NEW s, Linked(m, s), m > 1, NEW r, Linked(m - 1, r)',
         \A i \in 1..m - 1 : r[i] = s[i + 1], \A i \in 2..m : node'[s[i]].p = node[s[i]].p,
         \A i \in 2..m : node[s[i]].p \in Value
  PROVE  Contents # <<>> /\ Head(Contents) = node[s[2]].p /\ Contents' = Tail(Contents)
<1>1. Contents = [k \in 1..m - 1 |-> node[s[k + 1]].p]
  BY Zenon DEF ContentsLaw
<1>2. Contents' = [k \in 1..(m - 1) - 1 |-> node'[r[k + 1]].p]
  BY NextContents
<1>3. m \in Nat /\ m > 1
  BY DEF Linked
<1>4. Contents \in Seq(Value) /\ Len(Contents) = m - 1
  BY <1>1, <1>3
<1>5. Contents # <<>> /\ Head(Contents) = node[s[2]].p
  <2>1. Contents # <<>>
    BY <1>3, EmptyIs
  <2>2. 1 \in 1..m - 1 /\ 1 + 1 = 2
    BY <1>3
  <2>3. Contents[1] = node[s[2]].p
    BY <1>1, <2>2, Zenon
  <2>4. Head(Contents) = Contents[1]
    BY <1>4, <2>1
  <2> QED BY <2>1, <2>3, <2>4
<1>6. \A k \in 1..(m - 1) - 1 : node'[r[k + 1]].p = Contents[k + 1] /\ Contents[k + 1] \in Value
  BY <1>1, <1>3
<1>7. Contents' \in Seq(Value) /\ Len(Contents') = (m - 1) - 1
  BY <1>2, <1>3, <1>6
<1>8. Tail(Contents) = [k \in 1..(m - 1) - 1 |-> Contents[k + 1]]
  <2>1. /\ Tail(Contents) \in Seq(Value) /\ Len(Tail(Contents)) = Len(Contents) - 1
        /\ \A k \in 1..Len(Tail(Contents)) : Tail(Contents)[k] = Contents[k + 1]
    BY <1>4, <1>5
  <2>2. Tail(Contents) = [k \in 1..Len(Tail(Contents)) |-> Tail(Contents)[k]]
    <3>1. ASSUME NEW t \in Seq(Value) PROVE t = [k \in 1..Len(t) |-> t[k]]
      OBVIOUS
    <3> QED BY <2>1, <3>1, Zenon
  <2>3. Len(Tail(Contents)) = (m - 1) - 1
    BY <1>4, <2>1
  <2> QED BY <2>1, <2>2, <2>3, Zenon
<1> QED BY <1>2, <1>5, <1>6, <1>8

-----------------------------------------------------------------------------
\* The nodes from the head to the last one, and the tail at the last node or
\* at the one before it.
IsChain(m, s) ==
  /\ Linked(m, s)
  /\ \A i \in 1..m : s[i] \in alloc
  /\ q.tail = s[m] \/ (m > 1 /\ q.tail = s[m - 1])
  /\ \A i \in 2..m : node[s[i]].p \in Value

On(m, s, x) == \E i \in 1..m : s[i] = x

Pushing == {"push_tail", "push_next", "push_check", "push_link", "push_help"}
HoldsTail == {"push_next", "push_check", "push_link", "push_help", "push_swing"}
HoldsHead == {"pop_tail", "pop_next", "pop_check", "pop_help", "pop_value", "pop_cas"}

Labels == Pushing \cup HoldsTail \cup HoldsHead
            \cup {"idle", "push_len", "pop_head", "pop_free", "pop_len",
                  "empty_tail", "empty_again", "empty_next"}

Locals == [pc : Labels, n : Node \cup {NULL}, head : Node \cup {NULL},
           tail : Node \cup {NULL}, next : Node \cup {NULL, Junk},
           ret : Value \cup {NULL, Junk}]

Types ==
  /\ alloc \subseteq Node
  /\ node \in [Node -> [p : Value \cup {Junk}, next : Node \cup {NULL, Junk}]]
  /\ q \in [head : Node, tail : Node, base : Node, len : 0..WordSize - 1, live : BOOLEAN]
  /\ seen \in [Caller -> SUBSET BOOLEAN]
  /\ moved \in [Caller -> BOOLEAN]
  /\ loc \in [Caller -> Locals]
  /\ \A t \in Caller : loc[t].pc = "idle" => loc[t] = Idle

\* The node a push has not linked yet.
Unlinked(t, m, s) ==
  loc[t].pc \in Pushing =>
    /\ loc[t].n \in alloc /\ ~On(m, s, loc[t].n)
    /\ node[loc[t].n].next = NULL /\ node[loc[t].n].p \in Value

\* The node a pop has taken and not freed yet.
Unfreed(t, m, s) ==
  loc[t].pc = "pop_free" =>
    /\ loc[t].head \in alloc /\ ~On(m, s, loc[t].head)
    /\ node[loc[t].head].next # NULL

\* Such a node belongs to one caller.
Owners ==
  \A t, u \in Caller :
    t # u => /\ loc[t].pc \in Pushing /\ loc[u].pc \in Pushing => loc[t].n # loc[u].n
             /\ loc[t].pc = "pop_free" /\ loc[u].pc = "pop_free" => loc[t].head # loc[u].head

\* What a push knows of the tail it read.
PushKnows(t) ==
  /\ loc[t].pc \in HoldsTail =>
       loc[t].tail \in Node /\ (loc[t].tail = q.tail \/ node[loc[t].tail].next # NULL)
  /\ loc[t].pc \in {"push_check", "push_help"} /\ loc[t].next # NULL /\ loc[t].tail = q.tail
       => loc[t].next = node[loc[t].tail].next
  /\ loc[t].pc = "push_help" => loc[t].next # NULL
  /\ loc[t].pc = "push_swing" =>
       /\ loc[t].n \in Node
       /\ node[loc[t].tail].next # NULL
       /\ loc[t].tail = q.tail => node[loc[t].tail].next = loc[t].n

\* What a pop knows of the head it read.
PopKnows(t, m, s) ==
  /\ loc[t].pc \in HoldsHead =>
       /\ loc[t].head \in Node
       /\ loc[t].head = q.head \/ (~On(m, s, loc[t].head) /\ node[loc[t].head].next # NULL)
  /\ loc[t].pc \in {"pop_next", "pop_check", "pop_value", "pop_cas"} =>
       (loc[t].head = q.head /\ loc[t].tail # loc[t].head => q.tail # q.head)
  /\ loc[t].pc = "pop_check" =>
       /\ loc[t].head = q.head /\ (loc[t].tail # loc[t].head \/ loc[t].next # NULL)
            => loc[t].next = node[loc[t].head].next
       /\ loc[t].next = NULL => TRUE \in seen[t]
  /\ loc[t].pc = "pop_help" =>
       /\ loc[t].tail = loc[t].head /\ loc[t].next # NULL
       /\ loc[t].head = q.head => loc[t].next = node[loc[t].head].next
  /\ loc[t].pc \in {"pop_value", "pop_cas"} =>
       /\ loc[t].next \in Node /\ loc[t].tail # loc[t].head
       /\ loc[t].head = q.head => loc[t].next = node[loc[t].head].next
  /\ loc[t].pc = "pop_cas" /\ loc[t].head = q.head => loc[t].ret = node[loc[t].next].p

\* What queue_empty knows of the head it read.
EmptyKnows(t) ==
  /\ loc[t].pc = "empty_tail" => loc[t].head = q.head \/ FALSE \in seen[t]
  /\ loc[t].pc = "empty_next" =>
       /\ loc[t].head \in Node
       /\ loc[t].head = q.head \/ (FALSE \in seen[t] /\ node[loc[t].head].next # NULL)

\* While nothing has moved, the local copies are up to date.
StillKnows(t) ==
  /\ LoopStart(loc[t]) => moved[t]
  /\ ~moved[t] =>
       /\ loc[t].pc \in {"push_next", "push_check", "push_link", "push_help"} =>
            loc[t].tail = q.tail
       /\ loc[t].pc = "push_check" => loc[t].next = node[q.tail].next
       /\ loc[t].pc = "push_link" => node[q.tail].next = NULL
       /\ loc[t].pc \in HoldsHead => loc[t].head = q.head
       /\ loc[t].pc \in {"pop_next", "pop_check", "pop_help"} => loc[t].tail = q.tail
       /\ loc[t].pc = "pop_check" => loc[t].next = node[q.head].next

Knows(t, m, s) ==
  /\ Unlinked(t, m, s) /\ Unfreed(t, m, s) /\ PushKnows(t)
  /\ PopKnows(t, m, s) /\ EmptyKnows(t) /\ StillKnows(t)

Coherent(m, s) == IsChain(m, s) /\ Owners /\ \A t \in Caller : Knows(t, m, s)

IInv ==
  /\ Types
  /\ q.live => \E m, s : Coherent(m, s)
  /\ ~q.live => \A t \in Caller : loc[t] = Idle

-----------------------------------------------------------------------------
\* The six fields of a caller's local state.
Local(pc, n, head, tail, next, ret) ==
  [pc |-> pc, n |-> n, head |-> head, tail |-> tail, next |-> next, ret |-> ret]

OnlyLocal(pc, n, head, tail, next, ret) ==
  [pc : {pc}, n : {n}, head : {head}, tail : {tail}, next : {next}, ret : {ret}]

\* A record with known fields is that record.
LEMMA IsLocal ==
  ASSUME NEW l, NEW pc, NEW n, NEW head, NEW tail, NEW next, NEW ret,
         l \in OnlyLocal(pc, n, head, tail, next, ret)
  PROVE  l = Local(pc, n, head, tail, next, ret)
  BY SMT DEF Local, OnlyLocal

\* The updates of the local state that the actions make.
LEMMA LocalUpdate ==
  ASSUME NEW l \in Locals, NEW a, NEW b
  PROVE  /\ [l EXCEPT !.pc = a] = Local(a, l.n, l.head, l.tail, l.next, l.ret)
         /\ [l EXCEPT !.pc = a, !.tail = b] = Local(a, l.n, l.head, b, l.next, l.ret)
         /\ [l EXCEPT !.pc = a, !.next = b] = Local(a, l.n, l.head, l.tail, b, l.ret)
<1>1. l = Local(l.pc, l.n, l.head, l.tail, l.next, l.ret)
  BY DEF Locals, Local
<1>2. [l EXCEPT !.pc = a] = Local(a, l.n, l.head, l.tail, l.next, l.ret)
  <2> DEFINE e == [l EXCEPT !.pc = a]
  <2>1. e \in OnlyLocal(a, l.n, l.head, l.tail, l.next, l.ret)
    BY <1>1, Zenon DEF Local, OnlyLocal
  <2>2. e = Local(a, l.n, l.head, l.tail, l.next, l.ret)
    <3> HIDE DEF e
    <3> QED BY <2>1, IsLocal
  <2> QED BY <2>2, Zenon
<1>3. [l EXCEPT !.pc = a, !.tail = b] = Local(a, l.n, l.head, b, l.next, l.ret)
  <2> DEFINE e == [l EXCEPT !.pc = a, !.tail = b]
  <2>1. e \in OnlyLocal(a, l.n, l.head, b, l.next, l.ret)
    BY <1>1, Zenon DEF Local, OnlyLocal
  <2>2. e = Local(a, l.n, l.head, b, l.next, l.ret)
    <3> HIDE DEF e
    <3> QED BY <2>1, IsLocal
  <2> QED BY <2>2, Zenon
<1>4. [l EXCEPT !.pc = a, !.next = b] = Local(a, l.n, l.head, l.tail, b, l.ret)
  <2> DEFINE e == [l EXCEPT !.pc = a, !.next = b]
  <2>1. e \in OnlyLocal(a, l.n, l.head, l.tail, b, l.ret)
    BY <1>1, Zenon DEF Local, OnlyLocal
  <2>2. e = Local(a, l.n, l.head, l.tail, b, l.ret)
    <3> HIDE DEF e
    <3> QED BY <2>1, IsLocal
  <2> QED BY <2>2, Zenon
<1> QED BY <1>2, <1>3, <1>4, Zenon

\* The one that sets the result.
LEMMA LocalUpdateRet ==
  ASSUME NEW l \in Locals, NEW a, NEW b
  PROVE  [l EXCEPT !.pc = a, !.ret = b] = Local(a, l.n, l.head, l.tail, l.next, b)
<1>0. l = Local(l.pc, l.n, l.head, l.tail, l.next, l.ret)
  BY DEF Locals, Local
<1> DEFINE e == [l EXCEPT !.pc = a, !.ret = b]
<1>1. e \in OnlyLocal(a, l.n, l.head, l.tail, l.next, b)
  BY <1>0, Zenon DEF Local, OnlyLocal
<1>2. e = Local(a, l.n, l.head, l.tail, l.next, b)
  <2> HIDE DEF e
  <2> QED BY <1>1, IsLocal
<1> QED BY <1>2, Zenon

\* The same for a call that begins.
LEMMA IdleUpdate ==
  ASSUME NEW a, NEW b
  PROVE  /\ Idle = Local("idle", NULL, NULL, NULL, NULL, NULL)
         /\ [Idle EXCEPT !.pc = a] = Local(a, NULL, NULL, NULL, NULL, NULL)
         /\ [Idle EXCEPT !.pc = a, !.n = b] = Local(a, b, NULL, NULL, NULL, NULL)
         /\ [Idle EXCEPT !.pc = a, !.head = b] = Local(a, NULL, b, NULL, NULL, NULL)
         /\ [Idle EXCEPT !.pc = a, !.ret = b] = Local(a, NULL, NULL, NULL, NULL, b)
<1>1. [Idle EXCEPT !.pc = a] = Local(a, NULL, NULL, NULL, NULL, NULL)
  <2> DEFINE e == [Idle EXCEPT !.pc = a]
  <2>1. e \in OnlyLocal(a, NULL, NULL, NULL, NULL, NULL)
    BY Zenon DEF Idle, OnlyLocal
  <2>2. e = Local(a, NULL, NULL, NULL, NULL, NULL)
    <3> HIDE DEF e
    <3> QED BY <2>1, IsLocal
  <2> QED BY <2>2, Zenon
<1>2. [Idle EXCEPT !.pc = a, !.n = b] = Local(a, b, NULL, NULL, NULL, NULL)
  <2> DEFINE e == [Idle EXCEPT !.pc = a, !.n = b]
  <2>1. e \in OnlyLocal(a, b, NULL, NULL, NULL, NULL)
    BY Zenon DEF Idle, OnlyLocal
  <2>2. e = Local(a, b, NULL, NULL, NULL, NULL)
    <3> HIDE DEF e
    <3> QED BY <2>1, IsLocal
  <2> QED BY <2>2, Zenon
<1>3. [Idle EXCEPT !.pc = a, !.head = b] = Local(a, NULL, b, NULL, NULL, NULL)
  <2> DEFINE e == [Idle EXCEPT !.pc = a, !.head = b]
  <2>1. e \in OnlyLocal(a, NULL, b, NULL, NULL, NULL)
    BY Zenon DEF Idle, OnlyLocal
  <2>2. e = Local(a, NULL, b, NULL, NULL, NULL)
    <3> HIDE DEF e
    <3> QED BY <2>1, IsLocal
  <2> QED BY <2>2, Zenon
<1>4. [Idle EXCEPT !.pc = a, !.ret = b] = Local(a, NULL, NULL, NULL, NULL, b)
  <2> DEFINE e == [Idle EXCEPT !.pc = a, !.ret = b]
  <2>1. e \in OnlyLocal(a, NULL, NULL, NULL, NULL, b)
    BY Zenon DEF Idle, OnlyLocal
  <2>2. e = Local(a, NULL, NULL, NULL, NULL, b)
    <3> HIDE DEF e
    <3> QED BY <2>1, IsLocal
  <2> QED BY <2>2, Zenon
<1>5. Idle = Local("idle", NULL, NULL, NULL, NULL, NULL)
  BY DEF Idle, Local
<1> QED BY <1>1, <1>2, <1>3, <1>4, <1>5, Zenon

\* The same for a push that has linked its node.
LEMMA IdleUpdateTail ==
  ASSUME NEW a, NEW b, NEW c
  PROVE  [Idle EXCEPT !.pc = a, !.n = b, !.tail = c] = Local(a, b, NULL, c, NULL, NULL)
<1> DEFINE e == [Idle EXCEPT !.pc = a, !.n = b, !.tail = c]
<1>1. e \in OnlyLocal(a, b, NULL, c, NULL, NULL)
  BY Zenon DEF Idle, OnlyLocal
<1>2. e = Local(a, b, NULL, c, NULL, NULL)
  <2> HIDE DEF e
  <2> QED BY <1>1, IsLocal
<1> QED BY <1>2, Zenon

-----------------------------------------------------------------------------
\* A caller in a call remembers what it has seen of the queue.
Remembers(u) ==
  /\ seen[u] \subseteq seen'[u]
  /\ Contents = <<>> => TRUE \in seen'[u]
  /\ Contents # <<>> => FALSE \in seen'[u]

KeepsMoved(u) ==
  moved[u] \/ q.head # q.head' \/ q.tail # q.tail' \/ Contents # Contents' => moved'[u]

\* What the steps of other callers leave of a caller's state.
Same(u) == loc'[u] = loc[u] /\ (loc[u].pc # "idle" => Remembers(u) /\ KeepsMoved(u))

\* What a step does to the local states and the ghosts.
LEMMA GoStep ==
  ASSUME Types, NEW t \in Caller, NEW l, Go(t, l), Moves
  PROVE  /\ loc'[t] = l
         /\ \A u \in Caller : u # t => Same(u)
         /\ l \in Locals => loc' \in [Caller -> Locals]
         /\ loc[t].pc # "idle" /\ l.pc # "idle" => Remembers(t)
         /\ loc[t].pc # "idle" /\ l.pc # "idle" /\ ~LoopStart(loc[t]) => KeepsMoved(t)
         /\ loc[t] = Idle /\ LoopStart(l) => moved'[t]
         /\ seen' \in [Caller -> SUBSET BOOLEAN] /\ moved' \in [Caller -> BOOLEAN]
<1> DEFINE changed == <<q.head, q.tail, Contents>> # <<q.head, q.tail, Contents>>'
<1>1. loc \in [Caller -> Locals] /\ loc' = [loc EXCEPT ![t] = l]
  BY DEF Types, Go
<1>2. loc'[t] = l /\ \A u \in Caller : u # t => loc'[u] = loc[u]
  BY <1>1
<1>3. l \in Locals => loc' \in [Caller -> Locals]
  BY <1>1
<1>4. Idle.pc = "idle"
  BY DEF Idle
<1>5. ASSUME NEW u \in Caller, loc[u].pc # "idle", loc'[u].pc # "idle" PROVE Remembers(u)
  <2>1. seen'[u] = seen[u] \cup {Contents = <<>>}
    BY <1>2, <1>4, <1>5, Zenon DEF Go
  <2> QED BY <2>1, Zenon DEF Remembers
<1>6. ASSUME NEW u \in Caller, loc[u].pc # "idle", loc'[u].pc # "idle",
             LoopStart(loc[u]) => loc'[u] = loc[u]
      PROVE  KeepsMoved(u)
  <2>1. moved'[u] = (moved[u] \/ changed)
    BY <1>4, <1>6, Zenon DEF Moves
  <2>2. q.head # q.head' \/ q.tail # q.tail' \/ Contents # Contents' => changed
    BY Zenon
  <2> QED BY <2>1, <2>2, Zenon DEF KeepsMoved
<1>7. \A u \in Caller : u # t => Same(u)
  BY <1>2, <1>5, <1>6, Zenon DEF Same
<1>8. loc[t] = Idle /\ LoopStart(l) => moved'[t]
  BY <1>2, Zenon DEF Moves
<1>9. seen' \in [Caller -> SUBSET BOOLEAN]
  <2>1. \A u \in Caller : seen[u] \cup {Contents = <<>>} \in SUBSET BOOLEAN
    BY Zenon DEF Types
  <2> QED BY <2>1 DEF Go
<1>10. moved' \in [Caller -> BOOLEAN]
  <2>1. \A u \in Caller : LoopStart(loc'[u]) \in BOOLEAN /\ (moved[u] \/ changed) \in BOOLEAN
    BY DEF LoopStart
  <2> QED BY <2>1, Zenon DEF Moves
<1> QED BY <1>2, <1>3, <1>5, <1>6, <1>7, <1>8, <1>9, <1>10, Zenon

-----------------------------------------------------------------------------
\* The ways in which a step changes the shared state: not at all, or by a
\* malloc, a link, a swing of the tail, a move of the head, or a free.
KeepsEnds == q.head' = q.head /\ q.tail' = q.tail
Reads == node' = node /\ alloc' = alloc /\ KeepsEnds

Allocs(x) ==
  /\ x \in Fresh /\ alloc' = alloc \cup {x} /\ KeepsEnds
  /\ \A y \in Node : y # x => node'[y] = node[y]

Links(m, s, n) ==
  /\ q.tail = s[m] /\ n \in alloc /\ n \in Node /\ ~On(m, s, n)
  /\ node[n].next = NULL /\ node[n].p \in Value
  /\ alloc' = alloc /\ KeepsEnds
  /\ \A y \in Node : /\ node'[y].p = node[y].p
                     /\ node'[y].next = IF y = q.tail THEN n ELSE node[y].next

Swings(m, s) ==
  /\ m > 1 /\ q.tail = s[m - 1] /\ q.tail' = s[m]
  /\ node' = node /\ alloc' = alloc /\ q.head' = q.head

Takes(m, s) ==
  /\ m > 1 /\ q.tail # q.head /\ q.head' = s[2]
  /\ node' = node /\ alloc' = alloc /\ q.tail' = q.tail

Frees(m, s, x) ==
  /\ x \in Node /\ x \in alloc /\ ~On(m, s, x) /\ node[x].next # NULL
  /\ alloc' = alloc \ {x} /\ KeepsEnds
  /\ node'[x].next # NULL /\ \A y \in Node : y # x => node'[y] = node[y]

\* What follows from a chain, without its definition.
LEMMA ChainFacts ==
  ASSUME NEW m, NEW s, IsChain(m, s)
  PROVE  /\ Linked(m, s) /\ s \in [1..m -> Node] /\ m \in Nat /\ m >= 1
         /\ \A i \in 1..m : s[i] \in Node /\ s[i] \in alloc /\ On(m, s, s[i])
         /\ q.head = s[1] /\ On(m, s, q.head) /\ On(m, s, q.tail)
         /\ node[q.tail].next = NULL => q.tail = s[m]
         /\ node[q.tail].next # NULL =>
              /\ m > 1 /\ q.tail = s[m - 1] /\ node[q.tail].next = s[m]
              /\ s[m] # q.tail
         /\ node[q.head].next = NULL => m = 1 /\ q.tail = q.head
         /\ node[q.head].next # NULL =>
              /\ m > 1 /\ node[q.head].next = s[2] /\ s[2] # q.head
              /\ On(m, s, s[2]) /\ node[s[2]].p \in Value
<1> USE DEF IsChain, Linked, On
<1>0. s \in [1..m -> Node]
  OBVIOUS
<1>1. m \in Nat /\ m >= 1
  OBVIOUS
<1>2. \A i \in 1..m : s[i] \in Node /\ s[i] \in alloc /\ On(m, s, s[i])
  OBVIOUS
<1>3. q.head = s[1] /\ On(m, s, q.head) /\ On(m, s, q.tail)
  BY <1>1
<1>4. \A i \in 1..m - 1 : node[s[i]].next = s[i + 1] /\ s[i + 1] # NULL /\ s[i + 1] # s[i]
  BY <1>1, QueueAssumption
<1>5. node[s[m]].next = NULL
  OBVIOUS
<1>6. m > 1 =>
        /\ node[s[m - 1]].next = s[m] /\ s[m] # NULL /\ s[m] # s[m - 1]
        /\ node[s[1]].next = s[2] /\ s[2] # NULL /\ s[2] # s[1]
        /\ On(m, s, s[2]) /\ node[s[2]].p \in Value
  <2> SUFFICES ASSUME m > 1
               PROVE  /\ node[s[m - 1]].next = s[m] /\ s[m] # NULL /\ s[m] # s[m - 1]
                      /\ node[s[1]].next = s[2] /\ s[2] # NULL /\ s[2] # s[1]
                      /\ On(m, s, s[2]) /\ node[s[2]].p \in Value
    OBVIOUS
  <2>1. m - 1 \in 1..m - 1 /\ (m - 1) + 1 = m /\ 1 \in 1..m - 1
        /\ 1 + 1 = 2 /\ 2 \in 2..m /\ 2 \in 1..m
    BY <1>1
  <2>2. On(m, s, s[2]) /\ node[s[2]].p \in Value
    BY <2>1
  <2> QED BY <1>4, <2>1, <2>2
<1>7. q.tail = s[m] \/ (m > 1 /\ q.tail = s[m - 1])
  OBVIOUS
<1> HIDE DEF IsChain, Linked, On
<1>8. node[q.tail].next = NULL => q.tail = s[m]
  BY <1>6, <1>7
<1>9. node[q.tail].next # NULL =>
        /\ m > 1 /\ q.tail = s[m - 1] /\ node[q.tail].next = s[m]
        /\ s[m] # q.tail
  BY <1>5, <1>6, <1>7
<1>10. node[q.head].next = NULL => m = 1 /\ q.tail = q.head
  <2> SUFFICES ASSUME node[q.head].next = NULL PROVE m = 1 /\ q.tail = q.head
    OBVIOUS
  <2>1. ~(m > 1)
    BY <1>3, <1>6
  <2>2. m = 1
    BY <1>1, <2>1
  <2> QED BY <1>3, <1>7, <2>2
<1>11. node[q.head].next # NULL =>
        /\ m > 1 /\ node[q.head].next = s[2] /\ s[2] # q.head
        /\ On(m, s, s[2]) /\ node[s[2]].p \in Value
  BY <1>1, <1>3, <1>5, <1>6
<1> QED BY <1>0, <1>1, <1>2, <1>3, <1>8, <1>9, <1>10, <1>11 DEF IsChain

-----------------------------------------------------------------------------
\* How the chain changes: r is the chain after the step.
Longer(m, s, n) == [i \in 1..m + 1 |-> IF i = m + 1 THEN n ELSE s[i]]
Shorter(m, s) == [i \in 1..m - 1 |-> s[i + 1]]

\* A step that only reads keeps the chain.
LEMMA ReadChain ==
  ASSUME NEW m, NEW s, IsChain(m, s), Reads
  PROVE  IsChain(m, s)'
  BY DEF IsChain, Linked, Reads, KeepsEnds

\* A malloc takes no node of the chain.
LEMMA AllocChain ==
  ASSUME NEW m, NEW s, IsChain(m, s), NEW x, Allocs(x)
  PROVE  IsChain(m, s)'
<1>1. \A i \in 1..m : s[i] # x /\ s[i] \in Node /\ node'[s[i]] = node[s[i]]
  BY DEF IsChain, Linked, Allocs, Fresh
<1>2. Linked(m, s)'
  BY <1>1 DEF IsChain, Linked, Allocs, KeepsEnds
<1> QED BY <1>1, <1>2 DEF IsChain, Linked, Allocs, KeepsEnds

\* The tail moves from the last node but one to the last.
LEMMA SwingChain ==
  ASSUME NEW m, NEW s, IsChain(m, s), Swings(m, s)
  PROVE  IsChain(m, s)'
  BY DEF IsChain, Linked, Swings

\* A free takes a node that is off the chain.
LEMMA FreeChain ==
  ASSUME NEW m, NEW s, IsChain(m, s), NEW x, Frees(m, s, x)
  PROVE  IsChain(m, s)'
<1>1. \A i \in 1..m : s[i] # x /\ s[i] \in Node /\ node'[s[i]] = node[s[i]]
  BY DEF IsChain, Linked, Frees, On
<1>2. Linked(m, s)'
  BY <1>1 DEF IsChain, Linked, Frees, KeepsEnds
<1> QED BY <1>1, <1>2 DEF IsChain, Linked, Frees, KeepsEnds

\* The second node becomes the head.
LEMMA TakeChain ==
  ASSUME NEW m, NEW s, IsChain(m, s), Takes(m, s), NEW r, r = Shorter(m, s)
  PROVE  IsChain(m - 1, r)'
<1>1. m \in Nat /\ m > 1 /\ m - 1 \in Nat /\ s \in [1..m -> Node]
  BY DEF IsChain, Linked, Takes
<1>2. /\ r \in [1..m - 1 -> Node]
      /\ \A i \in 1..m - 1 : r[i] = s[i + 1] /\ i + 1 \in 2..m /\ i + 1 \in 1..m
  BY <1>1 DEF Shorter
<1>3. \A i, j \in 1..m - 1 : r[i] = r[j] => i = j
  BY <1>1, <1>2 DEF IsChain, Linked
<1>4. \A i \in 1..(m - 1) - 1 : node'[r[i]].next = r[i + 1]
  BY <1>1, <1>2 DEF IsChain, Linked, Takes
<1>5. node'[r[m - 1]].next = NULL /\ q.head' = r[1]
  BY <1>1, <1>2 DEF IsChain, Linked, Takes
<1>6. Linked(m - 1, r)'
  BY <1>1, <1>2, <1>3, <1>4, <1>5 DEF Linked
<1>7. q.tail' = r[m - 1] \/ (m - 1 > 1 /\ q.tail' = r[(m - 1) - 1])
  <2>1. q.tail = s[m] \/ q.tail = s[m - 1]
    BY DEF IsChain
  <2>2. CASE q.tail = s[m]
    BY <1>1, <1>2, <2>2 DEF Takes
  <2>3. CASE q.tail = s[m - 1]
    <3>1. m - 1 # 1
      BY <2>3 DEF Takes, IsChain, Linked
    <3>2. m - 1 > 1 /\ (m - 1) - 1 \in 1..m - 1 /\ ((m - 1) - 1) + 1 = m - 1
      BY <1>1, <3>1
    <3>3. r[(m - 1) - 1] = s[m - 1]
      BY <1>2, <3>2
    <3> QED BY <2>3, <3>2, <3>3 DEF Takes
  <2> QED BY <2>1, <2>2, <2>3
<1>8. \A i \in 1..m - 1 : r[i] \in alloc' /\ node'[r[i]].p \in Value
  BY <1>1, <1>2 DEF IsChain, Takes
<1>9. \A i \in 2..m - 1 : i \in 1..m - 1
  BY <1>1
<1> QED BY <1>6, <1>7, <1>8, <1>9 DEF IsChain

\* The caller's node becomes the last one.
LEMMA LinkChain ==
  ASSUME NEW m, NEW s, IsChain(m, s), NEW n, Links(m, s, n), NEW r, r = Longer(m, s, n)
  PROVE  IsChain(m + 1, r)'
<1>1. m \in Nat /\ m >= 1 /\ m + 1 \in Nat /\ s \in [1..m -> Node]
  BY DEF IsChain, Linked
<1>2. /\ r \in [1..m + 1 -> Node] /\ r[m + 1] = n
      /\ \A i \in 1..m : r[i] = s[i] /\ s[i] # n /\ s[i] \in Node
      /\ \A i \in 1..m + 1 : i = m + 1 \/ i \in 1..m
  BY <1>1, SMTT(30) DEF Longer, Links, On
<1>3. \A i, j \in 1..m + 1 : r[i] = r[j] => i = j
  BY <1>1, <1>2 DEF IsChain, Linked
<1>4. q.tail = s[m] /\ q.tail # n /\ n \in Node /\ q.tail' = q.tail /\ q.head' = q.head
  BY <1>1, <1>2 DEF Links, KeepsEnds
<1>5. ASSUME NEW i \in 1..m PROVE node'[r[i]].next = r[i + 1]
  <2>1. CASE i = m
    BY <1>1, <1>2, <1>4, <2>1 DEF Links
  <2>2. CASE i # m
    <3>1. i \in 1..m - 1 /\ m \in 1..m /\ i + 1 \in 1..m
      BY <1>1, <2>2
    <3>2. s[i] # s[m] /\ node[s[i]].next = s[i + 1]
      BY <1>1, <2>2, <3>1 DEF IsChain, Linked
    <3>3. node'[s[i]].next = node[s[i]].next
      BY <1>2, <1>4, <3>2 DEF Links
    <3> QED BY <1>2, <3>1, <3>2, <3>3
  <2> QED BY <2>1, <2>2
<1>6. node'[r[m + 1]].next = NULL /\ q.head' = r[1]
  BY <1>1, <1>2, <1>4 DEF IsChain, Linked, Links
<1>7. Linked(m + 1, r)'
  BY <1>1, <1>2, <1>3, <1>5, <1>6 DEF Linked
<1>8. m + 1 > 1 /\ q.tail' = r[(m + 1) - 1]
  BY <1>1, <1>2, <1>4
<1>9. \A i \in 1..m + 1 : r[i] \in alloc' /\ (i # 1 => node'[r[i]].p \in Value)
  BY <1>1, <1>2 DEF IsChain, Links
<1>10. \A i \in 2..m + 1 : i \in 1..m + 1 /\ i # 1
  BY <1>1
<1> QED BY <1>7, <1>8, <1>9, <1>10 DEF IsChain

-----------------------------------------------------------------------------
\* What a caller knows outlives the steps of the others:
\* ... a step that only reads,
LEMMA OthersRead ==
  ASSUME Types, NEW m, NEW s, IsChain(m, s), NEW u \in Caller, Knows(u, m, s), Same(u),
         Reads
  PROVE  Knows(u, m, s)'
<1> DEFINE l == loc[u]
<1>1. loc'[u] = l /\ (l.pc # "idle" => Remembers(u) /\ KeepsMoved(u))
  BY DEF Same
<1>0. alloc \subseteq Node
  BY DEF Types
<1>3. Unlinked(u, m, s)'
  BY <1>1, ChainFacts, SMTT(30) DEF Knows, Unlinked, Pushing, Reads, KeepsEnds
<1>4. Unfreed(u, m, s)'
  BY <1>1, ChainFacts, SMTT(30) DEF Knows, Unfreed, Reads, KeepsEnds
<1>5. PushKnows(u)'
  BY <1>1, ChainFacts, SMTT(30) DEF Knows, PushKnows, HoldsTail, Reads, KeepsEnds
<1>6. PopKnows(u, m, s)'
  BY <1>1, ChainFacts, Zenon DEF Knows, PopKnows, Remembers, HoldsHead, Reads, KeepsEnds
<1>7. EmptyKnows(u)'
  BY <1>1, ChainFacts, Zenon DEF Knows, EmptyKnows, Remembers, Reads, KeepsEnds
<1>8. StillKnows(u)'
  BY <1>1, ChainFacts, SMTT(30) DEF Knows, StillKnows, LoopStart, KeepsMoved, HoldsHead, Reads,
     KeepsEnds
<1> QED BY <1>3, <1>4, <1>5, <1>6, <1>7, <1>8 DEF Knows

\* ... a malloc, which takes no node that they hold,
LEMMA OthersAlloc ==
  ASSUME Types, NEW m, NEW s, IsChain(m, s), NEW u \in Caller, Knows(u, m, s), Same(u),
         NEW x, ReuseHeld = FALSE,
         Allocs(x)
  PROVE  Knows(u, m, s)'
<1> DEFINE l == loc[u]
<1>1. loc'[u] = l /\ (l.pc # "idle" => Remembers(u) /\ KeepsMoved(u))
  BY DEF Same
<1>2. x \notin alloc /\ x # loc[u].head /\ x # loc[u].tail /\ x # loc[u].next /\ x \in Node
  BY DEF Allocs, Fresh, Held
<1>0. alloc \subseteq Node
  BY DEF Types
<1>3. Unlinked(u, m, s)'
  BY <1>0, <1>1, <1>2, ChainFacts, SMTT(30) DEF Knows, Unlinked, Pushing, Allocs, KeepsEnds
<1>4. Unfreed(u, m, s)'
  BY <1>0, <1>1, <1>2, ChainFacts, SMTT(30) DEF Knows, Unfreed, Allocs, KeepsEnds
<1>5. PushKnows(u)'
  BY <1>1, <1>2, ChainFacts, ZenonT(30) DEF Knows, PushKnows, HoldsTail, Allocs, KeepsEnds
<1>6. PopKnows(u, m, s)'
  BY <1>1, <1>2, ChainFacts, ZenonT(30) DEF Knows, PopKnows, Remembers, HoldsHead, Allocs, KeepsEnds
<1>7. EmptyKnows(u)'
  BY <1>1, <1>2, ChainFacts, ZenonT(30) DEF Knows, EmptyKnows, Remembers, Allocs, KeepsEnds
<1>8. StillKnows(u)'
  <2>1. /\ q.head' = q.head /\ q.tail' = q.tail
        /\ node'[q.head] = node[q.head] /\ node'[q.tail] = node[q.tail]
    <3>1. q.head \in Node /\ q.tail \in Node /\ q.head # x /\ q.tail # x
      BY <1>0, <1>2, ChainFacts DEF IsChain
    <3> QED BY <3>1 DEF Allocs, KeepsEnds
  <2>2. StillKnows(u) /\ (l.pc # "idle" => (moved[u] => moved'[u]))
    BY <1>1 DEF Knows, KeepsMoved
  <2> QED BY <1>1, <2>1, <2>2 DEF StillKnows, LoopStart, HoldsHead
<1> QED BY <1>3, <1>4, <1>5, <1>6, <1>7, <1>8 DEF Knows

\* ... a swing of the tail,
LEMMA OthersSwing ==
  ASSUME Types, NEW m, NEW s, IsChain(m, s), NEW u \in Caller, Knows(u, m, s), Same(u),
         Swings(m, s)
  PROVE  Knows(u, m, s)'
<1> DEFINE l == loc[u]
<1>1. loc'[u] = l /\ (l.pc # "idle" => Remembers(u) /\ KeepsMoved(u))
  BY DEF Same
<1>2. /\ node[q.tail].next = q.tail' /\ node[q.tail'].next = NULL
      /\ q.tail' # q.tail /\ q.tail' # q.head /\ q.tail' # NULL
  BY QueueAssumption DEF Swings, IsChain, Linked
<1>0. alloc \subseteq Node
  BY DEF Types
<1>3. Unlinked(u, m, s)'
  BY <1>0, <1>1, <1>2, ChainFacts, SMTT(30) DEF Knows, Unlinked, Pushing, Swings
<1>4. Unfreed(u, m, s)'
  BY <1>0, <1>1, <1>2, ChainFacts, SMTT(30) DEF Knows, Unfreed, Swings
<1>5. PushKnows(u)'
  BY <1>1, <1>2, ChainFacts, ZenonT(30) DEF Knows, PushKnows, HoldsTail, Swings
<1>6. PopKnows(u, m, s)'
  BY <1>1, <1>2, ChainFacts, ZenonT(30) DEF Knows, PopKnows, Remembers, HoldsHead, Swings
<1>7. EmptyKnows(u)'
  BY <1>1, <1>2, ChainFacts, Zenon DEF Knows, EmptyKnows, Remembers, Swings
<1>8. StillKnows(u)'
  BY <1>1, <1>2, ChainFacts, SMTT(30) DEF Knows, StillKnows, LoopStart, KeepsMoved, HoldsHead,
     Swings
<1> QED BY <1>3, <1>4, <1>5, <1>6, <1>7, <1>8 DEF Knows

\* ... a free,
LEMMA OthersFree ==
  ASSUME Types, NEW m, NEW s, IsChain(m, s), NEW u \in Caller, Knows(u, m, s), Same(u), NEW x,
         Frees(m, s, x),
         loc[u].pc = "pop_free" => loc[u].head # x
  PROVE  Knows(u, m, s)'
<1> DEFINE l == loc[u]
<1>1. loc'[u] = l /\ (l.pc # "idle" => Remembers(u) /\ KeepsMoved(u))
  BY DEF Same
<1>2. q.head # x /\ q.tail # x /\ node[q.head].next # x
  BY QueueAssumption, ChainFacts DEF Frees
<1>0. alloc \subseteq Node
  BY DEF Types
<1>3. Unlinked(u, m, s)'
  BY <1>0, <1>1, <1>2, ChainFacts, SMTT(30) DEF Knows, Unlinked, Pushing, Frees, KeepsEnds
<1>4. Unfreed(u, m, s)'
  BY <1>0, <1>1, <1>2, ChainFacts, ZenonT(30) DEF Knows, Unfreed, Frees, KeepsEnds
<1>5. PushKnows(u)'
  BY <1>1, <1>2, ChainFacts, ZenonT(30) DEF Knows, PushKnows, HoldsTail, Frees, KeepsEnds
<1>6. PopKnows(u, m, s)'
  BY <1>1, <1>2, ChainFacts, ZenonT(30) DEF Knows, PopKnows, Remembers, HoldsHead, Frees, KeepsEnds
<1>7. EmptyKnows(u)'
  BY <1>1, <1>2, ChainFacts, Zenon DEF Knows, EmptyKnows, Remembers, Frees, KeepsEnds
<1>8. StillKnows(u)'
  BY <1>1, <1>2, ChainFacts, SMTT(30) DEF Knows, StillKnows, LoopStart, KeepsMoved, HoldsHead,
     Frees, KeepsEnds
<1> QED BY <1>3, <1>4, <1>5, <1>6, <1>7, <1>8 DEF Knows

\* ... a move of the head,
LEMMA OthersTake ==
  ASSUME ContentsLaw, Types, NEW m, NEW s, IsChain(m, s), NEW u \in Caller, Knows(u, m, s), Same(u),
         Takes(m, s),
         NEW r, r = Shorter(m, s)
  PROVE  Knows(u, m - 1, r)'
<1> DEFINE l == loc[u]
<1>1. loc'[u] = l /\ (l.pc # "idle" => Remembers(u) /\ KeepsMoved(u))
  BY DEF Same
<1>2. /\ \A x : On(m - 1, r, x) <=> On(m, s, x) /\ x # q.head
      /\ q.head' # q.head /\ q.head' = node[q.head].next /\ q.head' # NULL
  <2>1. /\ m \in Nat /\ m > 1 /\ q.head = s[1] /\ q.head' = s[2]
        /\ node[s[1]].next = s[2] /\ s[2] # s[1] /\ s[2] # NULL
    BY QueueAssumption DEF IsChain, Linked, Takes
  <2>2. \A i \in 1..m - 1 : r[i] = s[i + 1] /\ i + 1 \in 1..m /\ s[i + 1] # s[1]
    BY <2>1 DEF Shorter, IsChain, Linked
  <2>3. ASSUME NEW i \in 1..m PROVE i = 1 \/ (i - 1 \in 1..m - 1 /\ r[i - 1] = s[i])
    BY <2>1 DEF Shorter
  <2>4. ASSUME NEW x, On(m, s, x), x # q.head PROVE On(m - 1, r, x)
    BY <2>1, <2>3, <2>4 DEF On
  <2>5. ASSUME NEW x, On(m - 1, r, x) PROVE On(m, s, x) /\ x # q.head
    BY <2>1, <2>2, <2>5 DEF On
  <2> QED BY <2>1, <2>4, <2>5
<1>0. alloc \subseteq Node
  BY DEF Types
<1>9. Contents # <<>>
  BY ChainFacts, EmptyIs DEF Takes
<1>3. Unlinked(u, m - 1, r)'
  BY <1>0, <1>1, <1>2, ChainFacts, SMTT(30) DEF Knows, Unlinked, Pushing, Takes
<1>4. Unfreed(u, m - 1, r)'
  BY <1>0, <1>1, <1>2, ChainFacts, ZenonT(30) DEF Knows, Unfreed, Takes
<1>5. PushKnows(u)'
  BY <1>1, <1>2, ChainFacts, ZenonT(30) DEF Knows, PushKnows, HoldsTail, Takes
<1>6. PopKnows(u, m - 1, r)'
  BY <1>1, <1>2, ChainFacts, ZenonT(30) DEF Knows, PopKnows, Remembers, HoldsHead, Takes
<1>7. EmptyKnows(u)'
  BY <1>1, <1>2, <1>9, ChainFacts, Zenon DEF Knows, EmptyKnows, Remembers, Takes
<1>8. StillKnows(u)'
  BY <1>1, <1>2, ChainFacts, SMTT(30) DEF Knows, StillKnows, LoopStart, KeepsMoved, HoldsHead, Takes
<1> QED BY <1>3, <1>4, <1>5, <1>6, <1>7, <1>8 DEF Knows

\* ... and a link.
LEMMA OthersLink ==
  ASSUME ContentsLaw, ContentsLaw',
         Types, NEW m, NEW s, IsChain(m, s), NEW u \in Caller, Knows(u, m, s), Same(u), NEW n,
         Links(m, s, n),
         loc[u].pc \in Pushing => loc[u].n # n,
         NEW r, r = Longer(m, s, n)
  PROVE  Knows(u, m + 1, r)'
<1> DEFINE l == loc[u]
<1>1. loc'[u] = l /\ (l.pc # "idle" => Remembers(u) /\ KeepsMoved(u))
  BY DEF Same
<1>2. /\ \A x : On(m + 1, r, x) <=> On(m, s, x) \/ x = n
      /\ n # NULL /\ q.tail # n /\ node[q.tail].next = NULL
      /\ q.tail \in Node /\ q.head \in Node
  <2>1. /\ m \in Nat /\ m >= 1 /\ m \in 1..m /\ q.tail = s[m]
        /\ node[s[m]].next = NULL /\ n \in Node /\ s[m] # n
    BY DEF IsChain, Linked, Links, On
  <2>2. r[m + 1] = n /\ m + 1 \in 1..m + 1 /\ \A i \in 1..m : i \in 1..m + 1 /\ r[i] = s[i]
    BY <2>1 DEF Longer
  <2>3. \A i \in 1..m + 1 : i = m + 1 \/ i \in 1..m
    BY <2>1
  <2>4. \A x : On(m + 1, r, x) <=> On(m, s, x) \/ x = n
    BY <2>2, <2>3 DEF On
  <2> QED BY <2>1, <2>4, QueueAssumption DEF Types
<1>0. alloc \subseteq Node
  BY DEF Types
<1>9. Contents # Contents'
  <2>1. Linked(m, s) /\ m \in Nat /\ m >= 1
    BY DEF IsChain, Linked
  <2>2. Contents = [k \in 1..m - 1 |-> node[s[k + 1]].p]
    BY <2>1, Zenon DEF ContentsLaw
  <2>3. IsChain(m + 1, r)'
    BY LinkChain
  <2>4. Contents' = [k \in 1..(m + 1) - 1 |-> node'[r[k + 1]].p]
    BY <2>3, NextContents DEF IsChain
  <2>5. m \in 1..(m + 1) - 1 /\ m \notin 1..m - 1
    BY <2>1
  <2>6. DOMAIN Contents # DOMAIN Contents'
    BY <2>2, <2>4, <2>5
  <2> QED BY <2>6, Zenon
<1>3. Unlinked(u, m + 1, r)'
  <2>1. l.pc \in Pushing =>
          /\ l.n \in alloc /\ ~On(m, s, l.n) /\ l.n # n /\ l.n \in Node /\ l.n # q.tail
          /\ node[l.n].next = NULL /\ node[l.n].p \in Value
    BY <1>0, ChainFacts DEF Knows, Unlinked
  <2> QED BY <1>1, <1>2, <2>1 DEF Unlinked, Links
<1>4. Unfreed(u, m + 1, r)'
  <2>1. l.pc = "pop_free" => l.head \in Node /\ l.head \in alloc /\ ~On(m, s, l.head)
                            /\ node[l.head].next # NULL
    BY <1>0 DEF Knows, Unfreed
  <2>2. /\ node[n].next = NULL /\ alloc' = alloc
        /\ \A y \in Node : node[y].next # NULL => node'[y].next # NULL
    BY <1>2 DEF Links
  <2> QED BY <1>1, <1>2, <2>1, <2>2, Zenon DEF Unfreed
<1>5. PushKnows(u)'
  BY <1>1, <1>2, ChainFacts, ZenonT(30) DEF Knows, PushKnows, HoldsTail, Links, KeepsEnds
<1>6. PopKnows(u, m + 1, r)'
  <2>1. PopKnows(u, m, s) /\ KeepsEnds
    BY DEF Knows, Links
  <2>2. \A y \in Node : /\ node'[y].p = node[y].p
                        /\ node[y].next # NULL => node'[y].next = node[y].next
    BY <1>2 DEF Links
  <2>3. node[n].next = NULL /\ node[q.tail].next = NULL /\ q.head # n
    BY <1>2, ChainFacts DEF Links
  <2>4. l.pc \in HoldsHead =>
          /\ l.head \in Node
          /\ l.head = q.head' \/ (~On(m + 1, r, l.head) /\ node'[l.head].next # NULL)
    BY <1>2, <2>1, <2>2, <2>3 DEF PopKnows, HoldsHead, KeepsEnds
  <2>5. l.pc \in {"pop_next", "pop_check", "pop_value", "pop_cas"} =>
          (l.head = q.head' /\ l.tail # l.head => q.tail' # q.head')
    BY <2>1 DEF PopKnows, HoldsHead, KeepsEnds
  <2>6. l.pc = "pop_check" =>
          /\ l.head = q.head' /\ (l.tail # l.head \/ l.next # NULL) => l.next = node'[l.head].next
          /\ l.next = NULL => TRUE \in seen'[u]
    <3>1. q.tail # q.head => node[q.head].next # NULL
      BY ChainFacts
    <3> QED BY <1>1, <1>2, <2>1, <2>2, <3>1, Zenon DEF PopKnows, HoldsHead, KeepsEnds, Remembers
  <2>7. l.pc = "pop_help" =>
          /\ l.tail = l.head /\ l.next # NULL
          /\ l.head = q.head' => l.next = node'[l.head].next
    BY <1>2, <2>1, <2>2 DEF PopKnows, HoldsHead, KeepsEnds
  <2>8. l.pc \in {"pop_value", "pop_cas"} =>
          /\ l.next \in Node /\ l.tail # l.head
          /\ l.head = q.head' => l.next = node'[l.head].next
    BY <1>2, <2>1, <2>2, QueueAssumption DEF PopKnows, HoldsHead, KeepsEnds
  <2>9. l.pc = "pop_cas" /\ l.head = q.head' => l.ret = node'[l.next].p
    BY <2>1, <2>2 DEF PopKnows, HoldsHead, KeepsEnds
  <2> QED BY <1>1, <2>4, <2>5, <2>6, <2>7, <2>8, <2>9, ZenonT(30) DEF PopKnows
<1>7. EmptyKnows(u)'
  BY <1>1, <1>2, ChainFacts, ZenonT(30) DEF Knows, EmptyKnows, Remembers, Links, KeepsEnds
<1>8. StillKnows(u)'
  BY <1>1, <1>2, <1>9, ChainFacts, SMTT(30) DEF Knows, StillKnows, LoopStart, KeepsMoved,
     HoldsHead, Links, KeepsEnds
<1> QED BY <1>3, <1>4, <1>5, <1>6, <1>7, <1>8 DEF Knows

-----------------------------------------------------------------------------
\* A step of caller t to the local state l: what is left to show when the
\* chain and the other callers are dealt with.
Owns(t, l) ==
  /\ l.pc \in Pushing =>
       \A u \in Caller \ {t} : loc[u].pc \in Pushing => loc[u].n # l.n
  /\ l.pc = "pop_free" =>
       \A u \in Caller \ {t} : loc[u].pc = "pop_free" => loc[u].head # l.head

QTypes == [head : Node, tail : Node, base : Node, len : 0..WordSize - 1, live : BOOLEAN]
NodeTypes == [Node -> [p : Value \cup {Junk}, next : Node \cup {NULL, Junk}]]

LEMMA Assemble ==
  ASSUME Types, NEW m, NEW s, Coherent(m, s), NEW t \in Caller, NEW l \in Locals, Go(t, l), Moves,
         l.pc = "idle" => l = Idle, Owns(t, l),
         NEW m2, NEW r, IsChain(m2, r)', Knows(t, m2, r)',
         \A u \in Caller : u # t => Knows(u, m2, r)',
         alloc' \subseteq Node, node' \in NodeTypes, q' \in QTypes
  PROVE  Types' /\ Coherent(m2, r)'
<1>1. /\ loc'[t] = l /\ \A u \in Caller : u # t => loc'[u] = loc[u]
      /\ loc' \in [Caller -> Locals]
      /\ seen' \in [Caller -> SUBSET BOOLEAN] /\ moved' \in [Caller -> BOOLEAN]
  BY GoStep DEF Same
<1>2. \A u \in Caller : loc'[u].pc = "idle" => loc'[u] = Idle
  BY <1>1 DEF Types
<1>3. Types'
  BY <1>1, <1>2 DEF Types, NodeTypes, QTypes
<1>4. Owners'
  BY <1>1 DEF Coherent, Owners, Owns
<1> QED BY <1>3, <1>4 DEF Coherent

\* A step that only reads, or swings the tail.
LEMMA ReadStep ==
  ASSUME ContentsLaw, ContentsLaw',
         Types, NEW m, NEW s, Coherent(m, s), NEW t \in Caller, NEW l \in Locals, Go(t, l), Moves,
         l.pc = "idle" => l = Idle, Reads \/ Swings(m, s), q' \in QTypes, Knows(t, m, s)',
         l.pc \in Pushing => loc[t].pc \in Pushing /\ l.n = loc[t].n,
         l.pc # "pop_free"
  PROVE  Types' /\ Coherent(m, s)' /\ Contents' = Contents
<1>1. IsChain(m, s) /\ \A u \in Caller : Knows(u, m, s)
  BY DEF Coherent
<1>2. IsChain(m, s)'
  BY <1>1, ReadChain, SwingChain
<1>3. \A u \in Caller : u # t => Knows(u, m, s)'
  <2>1. \A u \in Caller : u # t => Same(u)
    BY GoStep
  <2> QED BY <1>1, <2>1, OthersRead, OthersSwing
<1>4. Owns(t, l)
  BY DEF Coherent, Owners, Owns
<1>5. alloc' \subseteq Node /\ node' \in NodeTypes /\ node' = node
  BY DEF Reads, Swings, Types, NodeTypes
<1>6. Contents' = Contents
  BY <1>1, <1>2, <1>5, SameContents DEF IsChain
<1> QED BY <1>2, <1>3, <1>4, <1>5, <1>6, Assemble
\* The updates of struct queue.
LEMMA SwingFacts ==
  ASSUME q \in QTypes, NEW from, NEW to, q.tail = from => to \in Node, SwingTail(from, to)
  PROVE  /\ q' \in QTypes /\ q.head' = q.head /\ q.live' = q.live
         /\ q.tail' = IF q.tail = from THEN to ELSE q.tail
<1>1. q' = [q EXCEPT !.tail = IF q.tail = from THEN to ELSE q.tail]
  BY Zenon DEF SwingTail
<1>2. (IF q.tail = from THEN to ELSE q.tail) \in Node
  BY DEF QTypes
<1>3. q' \in QTypes
  BY <1>1, <1>2, Zenon DEF QTypes
<1>4. q.head' = q.head /\ q.live' = q.live /\ q.tail' = IF q.tail = from THEN to ELSE q.tail
  BY <1>1, Zenon DEF QTypes
<1> QED BY <1>3, <1>4

\* A compare-and-swap of the tail with the node after it.
LEMMA HelpFacts ==
  ASSUME Types, NEW m, NEW s, IsChain(m, s), NEW from, NEW to, SwingTail(from, to),
         node' = node, alloc' = alloc,
         q.tail = from => to = node[q.tail].next /\ to # NULL
  PROVE  /\ q' \in QTypes /\ q.live' = q.live
         /\ Reads \/ Swings(m, s)
         /\ q.head' = q.head
         /\ q.tail = from => q.tail # q.tail'
<1>1. q.tail = from => /\ m > 1 /\ q.tail = s[m - 1] /\ to = s[m] /\ to \in Node
                       /\ to # q.tail
  BY ChainFacts
<1>2. q \in QTypes
  BY DEF Types, QTypes
<1>3. /\ q' \in QTypes /\ q.head' = q.head /\ q.live' = q.live
      /\ q.tail' = IF q.tail = from THEN to ELSE q.tail
  BY <1>1, <1>2, SwingFacts
<1> QED BY <1>1, <1>3 DEF Reads, KeepsEnds, Swings

\* A change of the length changes nothing else.
LEMMA LenFacts ==
  ASSUME q \in QTypes, NEW n \in Int, q' = [q EXCEPT !.len = n % WordSize]
  PROVE  q' \in QTypes /\ q.head' = q.head /\ q.live' = q.live /\ q.tail' = q.tail
<1>1. n % WordSize \in 0..WordSize - 1
  BY QueueAssumption
<1>2. q' \in QTypes
  BY <1>1, Zenon DEF QTypes
<1> QED BY <1>2, Zenon DEF QTypes

\* A move of the head changes nothing else.
LEMMA HeadFacts ==
  ASSUME q \in QTypes, NEW h \in Node, q' = [q EXCEPT !.head = h]
  PROVE  q' \in QTypes /\ q.head' = h /\ q.live' = q.live /\ q.tail' = q.tail
<1>1. q' \in QTypes
  BY Zenon DEF QTypes
<1> QED BY <1>1, Zenon DEF QTypes

\* A caller that is not in a call knows nothing.
LEMMA IdleKnows ==
  ASSUME NEW t \in Caller, loc'[t] = Idle, NEW m, NEW s
  PROVE  Knows(t, m, s)'
<1>1. loc'[t].pc = "idle"
  BY DEF Idle
<1> QED BY <1>1 DEF Knows, Unlinked, Unfreed, PushKnows, PopKnows, EmptyKnows, StillKnows,
                    Pushing, HoldsTail, HoldsHead, LoopStart

\* A step that only reads, to the end of the call.
LEMMA ReturnStep ==
  ASSUME ContentsLaw, ContentsLaw', Types, NEW m, NEW s, Coherent(m, s),
         NEW t \in Caller, Go(t, Idle), Moves,
         Reads, q' \in QTypes
  PROVE  Types' /\ Coherent(m, s)' /\ Contents' = Contents
<1>1. Idle \in Locals /\ Idle.pc = "idle"
  BY DEF Idle, Locals, Labels
<1>2. Knows(t, m, s)'
  BY GoStep, IdleKnows
<1> QED BY <1>1, <1>2, ReadStep DEF Pushing

-----------------------------------------------------------------------------
\* One lemma per action.
Kept == Types' /\ q.live' /\ \E m, s : Coherent(m, s)'

\* tail = q->tail (queue.c:81).
LEMMA PushTailStep ==
  ASSUME ContentsLaw, ContentsLaw', Types, NEW m, NEW s, Coherent(m, s),
         NEW t \in Caller, PushTail(t), Moves
  PROVE  Kept /\ Contents' = Contents
<1> DEFINE l == Local("push_next", loc[t].n, NULL, q.tail, NULL, NULL)
<1>1. loc[t].pc = "push_tail" /\ q' = q /\ q.live /\ Reads /\ q \in QTypes /\ loc[t] \in Locals
  BY DEF PushTail, At, Reads, KeepsEnds, Types, QTypes
<1>2. Go(t, l)
  <2>1. [Idle EXCEPT !.pc = "push_next", !.n = loc[t].n, !.tail = q.tail] = l
    BY IdleUpdateTail, Zenon
  <2> QED BY <2>1, Zenon DEF PushTail
<1>3. l \in Locals
  BY <1>1 DEF Locals, Local, Labels, Pushing, HoldsTail, QTypes
<1>4. l.pc = "push_next" /\ l.n = loc[t].n /\ l.tail = q.tail
  BY DEF Local
<1> HIDE DEF l
<1>5. loc'[t] = l /\ Knows(t, m, s)
  BY <1>2, GoStep DEF Coherent
<1>6. Knows(t, m, s)'
  BY <1>1, <1>4, <1>5, Zenon DEF Knows, Reads, KeepsEnds, Unlinked, Unfreed, PushKnows, PopKnows,
     EmptyKnows, StillKnows, Pushing, HoldsTail, HoldsHead, LoopStart, QTypes
<1> QED BY <1>1, <1>2, <1>3, <1>4, <1>6, ReadStep DEF Pushing, Kept

\* next = tail->next (queue.c:82).
LEMMA PushNextStep ==
  ASSUME ContentsLaw, ContentsLaw', Types, NEW m, NEW s, Coherent(m, s),
         NEW t \in Caller, PushNext(t), Moves
  PROVE  Kept /\ Contents' = Contents
<1> DEFINE l == Local("push_check", loc[t].n, loc[t].head,
                      loc[t].tail, node[loc[t].tail].next, loc[t].ret)
<1>1. loc[t].pc = "push_next" /\ q' = q /\ q.live /\ Reads /\ q \in QTypes /\ loc[t] \in Locals
  BY DEF PushNext, At, Reads, KeepsEnds, Types, QTypes
<1>2. Go(t, l)
  BY <1>1, LocalUpdate, Zenon DEF PushNext
<1>3. Knows(t, m, s) /\ loc[t].tail \in Node /\ node[loc[t].tail].next \in Node \cup {NULL, Junk}
  BY <1>1 DEF Coherent, Knows, PushKnows, HoldsTail, Types
<1>4. l \in Locals
  BY <1>1, <1>3 DEF Locals, Local, Labels, Pushing
<1>5. l.pc = "push_check" /\ l.n = loc[t].n /\ l.tail = loc[t].tail /\ l.next = node[loc[t].tail].next
  BY DEF Local
<1> HIDE DEF l
<1>6. loc'[t] = l /\ KeepsMoved(t)
  BY <1>1, <1>2, <1>5, GoStep DEF LoopStart
<1>7. Knows(t, m, s)'
  BY <1>1, <1>3, <1>5, <1>6, Zenon DEF Knows, Reads, KeepsEnds, Unlinked, Unfreed, PushKnows,
     PopKnows,
     EmptyKnows, StillKnows, KeepsMoved, Pushing, HoldsTail, HoldsHead, LoopStart, QTypes
<1> QED BY <1>1, <1>2, <1>4, <1>5, <1>7, ReadStep DEF Pushing, Kept

\* tail == q->tail, and whether next is NULL (queue.c:83, 84).
LEMMA PushCheckStep ==
  ASSUME ContentsLaw, ContentsLaw', Types, NEW m, NEW s, Coherent(m, s),
         NEW t \in Caller, PushCheck(t), Moves
  PROVE  Kept /\ Contents' = Contents
<1> DEFINE to == IF loc[t].tail # q.tail THEN "push_tail"
                 ELSE IF loc[t].next = NULL THEN "push_link" ELSE "push_help"
           l == Local(to, loc[t].n, loc[t].head, loc[t].tail, loc[t].next, loc[t].ret)
<1>1. loc[t].pc = "push_check" /\ q' = q /\ q.live /\ Reads /\ q \in QTypes /\ loc[t] \in Locals
  BY DEF PushCheck, At, Reads, KeepsEnds, Types, QTypes
<1>2. Go(t, l)
  BY <1>1, LocalUpdate, Zenon DEF PushCheck
<1>3. l \in Locals
  BY <1>1 DEF Locals, Local, Labels, Pushing
<1>4. /\ l.pc = to /\ l.n = loc[t].n /\ l.tail = loc[t].tail /\ l.next = loc[t].next
      /\ to \in {"push_tail", "push_link", "push_help"}
  BY DEF Local
<1> HIDE DEF l
<1>5. loc'[t] = l /\ KeepsMoved(t) /\ Knows(t, m, s)
  BY <1>1, <1>2, <1>4, GoStep DEF LoopStart, Coherent
<1>6. Knows(t, m, s)'
  <2>1. Unlinked(t, m, s)' /\ Unfreed(t, m, s)' /\ EmptyKnows(t)' /\ PopKnows(t, m, s)'
    BY <1>1, <1>4, <1>5, Zenon DEF Knows, Reads, KeepsEnds, Unlinked, Unfreed, PopKnows, EmptyKnows,
       Pushing, HoldsHead
  <2>2. PushKnows(t)'
    BY <1>1, <1>4, <1>5 DEF Knows, Reads, KeepsEnds, PushKnows, HoldsTail
  <2>3. StillKnows(t)'
    BY <1>1, <1>4, <1>5 DEF Knows, Reads, KeepsEnds, StillKnows, KeepsMoved, HoldsHead, LoopStart
  <2> QED BY <2>1, <2>2, <2>3 DEF Knows
<1> QED BY <1>1, <1>2, <1>3, <1>4, <1>6, ReadStep DEF Pushing, Kept

\* The swing of a tail that lags behind (queue.c:89).
LEMMA PushHelpStep ==
  ASSUME ContentsLaw, ContentsLaw', Types, NEW m, NEW s, Coherent(m, s),
         NEW t \in Caller, PushHelp(t), Moves
  PROVE  Kept /\ Contents' = Contents
<1> DEFINE l == Local("push_tail", loc[t].n, loc[t].head, loc[t].tail, loc[t].next, loc[t].ret)
<1>1. /\ loc[t].pc = "push_help" /\ q.live /\ loc[t] \in Locals
      /\ node' = node /\ alloc' = alloc /\ SwingTail(loc[t].tail, loc[t].next)
  BY DEF PushHelp, At, Types
<1>2. Go(t, l)
  BY <1>1, LocalUpdate, Zenon DEF PushHelp
<1>3. Knows(t, m, s) /\ IsChain(m, s)
  BY DEF Coherent
<1>4. /\ q' \in QTypes /\ q.live' = q.live /\ (Reads \/ Swings(m, s))
      /\ q.tail = loc[t].tail => q.tail # q.tail'
  <2>1. q.tail = loc[t].tail => loc[t].next = node[q.tail].next /\ loc[t].next # NULL
    BY <1>1, <1>3 DEF Knows, PushKnows
  <2> QED BY <1>1, <1>3, <2>1, HelpFacts, Zenon
<1>5. l \in Locals
  BY <1>1 DEF Locals, Local, Labels, Pushing
<1>6. l.pc = "push_tail" /\ l.n = loc[t].n
  BY DEF Local
<1> HIDE DEF l
<1>7. loc'[t] = l /\ KeepsMoved(t)
  BY <1>1, <1>2, <1>6, GoStep DEF LoopStart
<1>8. moved'[t]
  BY <1>1, <1>3, <1>4, <1>7 DEF Knows, StillKnows, KeepsMoved
<1>9. Knows(t, m, s)'
  BY <1>1, <1>3, <1>6, <1>7, <1>8, Zenon DEF Knows, Unlinked, Unfreed, PushKnows, PopKnows,
     EmptyKnows, StillKnows, Pushing, HoldsTail, HoldsHead
<1> QED BY <1>1, <1>2, <1>4, <1>5, <1>6, <1>9, ReadStep DEF Pushing, Kept

\* The swing of the tail to the caller's own node (queue.c:94).
LEMMA PushSwingStep ==
  ASSUME ContentsLaw, ContentsLaw', Types, NEW m, NEW s, Coherent(m, s),
         NEW t \in Caller, PushSwing(t), Moves
  PROVE  Kept /\ Contents' = Contents
<1> DEFINE l == Local("push_len", NULL, NULL, NULL, NULL, NULL)
<1>1. /\ loc[t].pc = "push_swing" /\ q.live
      /\ node' = node /\ alloc' = alloc /\ SwingTail(loc[t].tail, loc[t].n)
  BY DEF PushSwing, At, Types
<1>2. Go(t, l)
  BY IdleUpdate, Zenon DEF PushSwing
<1>3. Knows(t, m, s) /\ IsChain(m, s)
  BY DEF Coherent
<1>4. q' \in QTypes /\ q.live' = q.live /\ (Reads \/ Swings(m, s))
  <2>1. q.tail = loc[t].tail => loc[t].n = node[q.tail].next /\ loc[t].n # NULL
    BY <1>1, <1>3 DEF Knows, PushKnows
  <2> QED BY <1>1, <1>3, <2>1, HelpFacts, Zenon
<1>5. l \in Locals
  BY DEF Locals, Local, Labels
<1>6. l.pc = "push_len"
  BY DEF Local
<1> HIDE DEF l
<1>7. loc'[t] = l
  BY <1>2, GoStep
<1>8. Knows(t, m, s)'
  BY <1>6, <1>7, Zenon DEF Knows, Unlinked, Unfreed, PushKnows, PopKnows,
     EmptyKnows, StillKnows, Pushing, HoldsTail, HoldsHead, LoopStart
<1> QED BY <1>1, <1>2, <1>4, <1>5, <1>6, <1>8, ReadStep DEF Pushing, Kept

\* atomic_inc of the length (queue.c:95).
LEMMA PushLenStep ==
  ASSUME ContentsLaw, ContentsLaw', Types, NEW m, NEW s, Coherent(m, s),
         NEW t \in Caller, PushLen(t), Moves
  PROVE  Kept /\ Contents' = Contents
<1>1. /\ q.live /\ q \in QTypes /\ q.len + 1 \in Int /\ Go(t, Idle)
      /\ node' = node /\ alloc' = alloc
  BY DEF PushLen, At, Types, QTypes
<1>2. q' = [q EXCEPT !.len = (q.len + 1) % WordSize]
  BY Zenon DEF PushLen
<1>3. q' \in QTypes /\ q.live' = q.live /\ Reads
  BY <1>1, <1>2, LenFacts, Zenon DEF Reads, KeepsEnds
<1> QED BY <1>1, <1>3, ReturnStep DEF Kept

\* The link: the caller's node becomes the last one.
LEMMA LinkFacts ==
  ASSUME node \in NodeTypes, NEW x \in Node, NEW n \in Node, node' = [node EXCEPT ![x].next = n]
  PROVE  /\ node' \in NodeTypes
         /\ \A y \in Node : /\ node'[y].p = node[y].p
                            /\ node'[y].next = IF y = x THEN n ELSE node[y].next
<1>1. node' = [node EXCEPT ![x] = [node[x] EXCEPT !.next = n]]
  BY Zenon
<1>2. [node[x] EXCEPT !.next = n] \in [p : {node[x].p}, next : {n}]
  BY Zenon DEF NodeTypes
<1>3. PICK z : z = [node[x] EXCEPT !.next = n]
  BY Zenon
<1>4. z \in [p : {node[x].p}, next : {n}]
  BY <1>2, <1>3, Zenon
<1>5. node' = [node EXCEPT ![x] = z]
  BY <1>1, <1>3, Zenon
<1> QED BY <1>4, <1>5 DEF NodeTypes

LEMMA PushLinkStep ==
  ASSUME ContentsLaw, ContentsLaw', Types, NEW m, NEW s, Coherent(m, s),
         NEW t \in Caller, PushLink(t), Moves
  PROVE  Kept /\ (Contents' = Contents \/ \E v \in Value : Contents' = Append(Contents, v))
<1> DEFINE won == node[loc[t].tail].next = NULL
           to == IF won THEN "push_swing" ELSE "push_tail"
           l == Local(to, loc[t].n, loc[t].head, loc[t].tail, loc[t].next, loc[t].ret)
<1>1. /\ loc[t].pc = "push_link" /\ q.live /\ q' = q /\ alloc' = alloc
      /\ loc[t] \in Locals /\ q \in QTypes /\ node \in NodeTypes
      /\ node' = IF won THEN [node EXCEPT ![loc[t].tail].next = loc[t].n] ELSE node
  BY DEF PushLink, At, Types, QTypes, NodeTypes
<1>2. Go(t, l)
  BY <1>1, LocalUpdate, Zenon DEF PushLink
<1>3. Knows(t, m, s) /\ IsChain(m, s) /\ \A u \in Caller : Knows(u, m, s)
  BY DEF Coherent
<1>4. l \in Locals
  BY <1>1 DEF Locals, Local, Labels, Pushing, HoldsTail
<1>5. l.pc = to /\ l.n = loc[t].n /\ l.tail = loc[t].tail
  BY DEF Local
<1>6. to \in {"push_swing", "push_tail"}
  OBVIOUS
<1> HIDE DEF l
<1>7. loc'[t] = l /\ KeepsMoved(t) /\ \A u \in Caller : u # t => Same(u)
  BY <1>1, <1>2, <1>5, GoStep DEF LoopStart
<1>8. CASE ~won
  <2>1. Reads /\ l.pc = "push_tail"
    BY <1>1, <1>5, <1>8 DEF Reads, KeepsEnds
  <2>2. Knows(t, m, s)'
    BY <1>1, <1>3, <1>5, <1>7, <1>8, <2>1, Zenon DEF Knows, Reads, KeepsEnds, Unlinked, Unfreed,
       PushKnows,
       PopKnows, EmptyKnows, StillKnows, KeepsMoved, Pushing, HoldsTail, HoldsHead
  <2> QED BY <1>1, <1>2, <1>4, <1>5, <2>1, <2>2, ReadStep DEF Pushing, Kept
<1>9. CASE won
  <2> DEFINE n == loc[t].n
  <2>1. n \in alloc /\ n \in Node /\ ~On(m, s, n) /\ node[n].next = NULL /\ node[n].p \in Value
    BY <1>1, <1>3 DEF Knows, Unlinked, Pushing, Types
  <2>2. loc[t].tail = q.tail /\ q.tail = s[m] /\ q.tail \in Node
    BY <1>1, <1>3, <1>9, ChainFacts DEF Knows, PushKnows, HoldsTail
  <2>3. /\ node' \in NodeTypes
        /\ \A y \in Node : /\ node'[y].p = node[y].p
                           /\ node'[y].next = IF y = q.tail THEN n ELSE node[y].next
    BY <1>1, <1>9, <2>1, <2>2, LinkFacts, Zenon
  <2>4. Links(m, s, n)
    BY <1>1, <2>1, <2>2, <2>3 DEF Links, KeepsEnds
  <2>5. PICK r : r = Longer(m, s, n)
    OBVIOUS
  <2>6. IsChain(m + 1, r)'
    BY <1>3, <2>4, <2>5, LinkChain
  <2>7. ASSUME NEW u \in Caller, u # t PROVE Knows(u, m + 1, r)'
    <3>1. loc[u].pc \in Pushing => loc[u].n # n
      BY <1>1, <2>7 DEF Coherent, Owners, Pushing
    <3> QED BY <1>3, <1>7, <2>4, <2>5, <2>7, <3>1, OthersLink
  <2>8. l.pc = "push_swing" /\ n # NULL /\ l.n = n /\ l.tail = q.tail
    BY <1>5, <1>9, <2>1, <2>2, QueueAssumption
  <2>9. Knows(t, m + 1, r)'
    BY <1>1, <1>7, <2>1, <2>2, <2>3, <2>8 DEF Knows, Unlinked, Unfreed, PushKnows, PopKnows,
       EmptyKnows, StillKnows, Pushing, HoldsTail, HoldsHead, LoopStart
  <2>10. Owns(t, l) /\ alloc' \subseteq Node
    BY <1>1, <2>8 DEF Owns, Pushing, Types
  <2>11. Types' /\ Coherent(m + 1, r)'
    BY <1>1, <1>2, <1>4, <2>3, <2>6, <2>7, <2>8, <2>9, <2>10, Assemble, Zenon
  <2>12. Contents' = Append(Contents, node[n].p)
    <3>1. m \in Nat /\ m >= 1 /\ s \in [1..m -> Node]
      BY <1>3 DEF IsChain, Linked
    <3>2. r[m + 1] = n /\ \A i \in 1..m : r[i] = s[i]
      BY <2>5, <3>1 DEF Longer
    <3>3. /\ node'[n].p = node[n].p
          /\ \A i \in 2..m : node'[s[i]].p = node[s[i]].p /\ node[s[i]].p \in Value
      BY <1>3, <2>1, <2>3, <3>1 DEF IsChain
    <3> HIDE DEF n
    <3>4. Linked(m, s) /\ Linked(m + 1, r)' /\ node[n].p \in Value
      BY <1>3, <2>1, <2>6 DEF IsChain
    <3>5. /\ \A i \in 2..m : node'[s[i]].p = node[s[i]].p
          /\ \A i \in 2..m : node[s[i]].p \in Value
      BY <3>3
    <3> QED BY <3>2, <3>3, <3>4, <3>5, LongerContents
  <2> QED BY <1>1, <2>1, <2>11, <2>12 DEF Kept
<1> QED BY <1>8, <1>9

\* The malloc of queue_push, and the fields of the new node (queue.c:75-77).
LEMMA PushAllocStep ==
  ASSUME ContentsLaw, ContentsLaw', ReuseHeld = FALSE, Types, NEW m, NEW s, Coherent(m, s),
         NEW t \in Caller,
         NEW v \in Value, PushAlloc(t, v), Moves
  PROVE  Kept /\ Contents' = Contents
<1>1. PICK x \in Fresh :
        /\ alloc' = alloc \cup {x} /\ node' = [node EXCEPT ![x] = [p |-> v, next |-> NULL]]
        /\ Go(t, [Idle EXCEPT !.pc = "push_tail", !.n = x])
  BY Zenon DEF PushAlloc
<1> DEFINE l == Local("push_tail", x, NULL, NULL, NULL, NULL)
<1>2. Go(t, l)
  BY <1>1, IdleUpdate, Zenon
<1>3. /\ loc[t] = Idle /\ q.live /\ q' = q /\ q \in QTypes
      /\ x \in Node /\ x \notin alloc /\ alloc \subseteq Node
      /\ node' \in NodeTypes /\ \A y \in Node : y # x => node'[y] = node[y]
      /\ node'[x].next = NULL /\ node'[x].p = v
  BY <1>1 DEF PushAlloc, At, Types, QTypes, NodeTypes, Fresh
<1>4. l \in Locals
  BY <1>3 DEF Locals, Local, Labels, Pushing
<1>5. l.pc = "push_tail" /\ l.n = x
  BY DEF Local
<1> HIDE DEF l
<1>6. loc'[t] = l /\ moved'[t] /\ \A u \in Caller : u # t => Same(u)
  BY <1>2, <1>3, <1>5, GoStep DEF LoopStart
<1>7. Allocs(x)
  BY <1>1, <1>3 DEF Allocs, KeepsEnds
<1>8. IsChain(m, s) /\ \A u \in Caller : Knows(u, m, s)
  BY DEF Coherent
<1>9. IsChain(m, s)'
  BY <1>7, <1>8, AllocChain
<1>10. \A u \in Caller : u # t => Knows(u, m, s)'
  BY <1>6, <1>7, <1>8, OthersAlloc, Zenon
<1>11. \A i \in 1..m : s[i] # x /\ node'[s[i]] = node[s[i]]
  BY <1>3, <1>8 DEF IsChain, Linked
<1>12. ~On(m, s, x)
  BY <1>11 DEF On
<1>13. Knows(t, m, s)'
  BY <1>1, <1>3, <1>5, <1>6, <1>12, Zenon DEF Knows, Unlinked, Unfreed, PushKnows, PopKnows,
     EmptyKnows, StillKnows, Pushing, HoldsTail, HoldsHead
<1>14. Owns(t, l)
  BY <1>3, <1>5, <1>8 DEF Owns, Knows, Unlinked
<1>15. Types' /\ Coherent(m, s)'
  <2>1. alloc' \subseteq Node /\ q' \in QTypes
    BY <1>1, <1>3
  <2> QED BY <1>2, <1>3, <1>4, <1>5, <1>9, <1>10, <1>13, <1>14, <2>1, Assemble
<1>16. Contents' = Contents
  <2>1. \A i \in 2..m : i \in 1..m
    BY <1>8 DEF IsChain, Linked
  <2> QED BY <1>8, <1>9, <1>11, <2>1, SameContents DEF IsChain
<1> QED BY <1>3, <1>15, <1>16 DEF Kept
=============================================================================
